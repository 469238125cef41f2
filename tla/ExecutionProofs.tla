--------------------------- MODULE ExecutionProofs ---------------------------
(***************************************************************************)
(* Proofs about the two ways work is executed: a native adapter that is    *)
(* run (AdapterProcess), and the lanes of a remediation plan that a host   *)
(* runs (RemediationExecution).                                            *)
(*                                                                         *)
(* The adapter, for any cap, any size of reads and pipes and any amount of *)
(* output: AdapterInv is inductive, and says which bytes were taken and    *)
(* which accepted, why a termination was begun, and what each place of the *)
(* parent knows of its child.                                              *)
(*                                                                         *)
(* The plan, for any number of lanes, any prerequisites without a cycle    *)
(* and any footprints: what one round over the ready lanes takes, what the *)
(* rounds together complete, how skips propagate, and HostInv, by which    *)
(* whatever runs is of the batch that is open.                             *)
(***************************************************************************)
EXTENDS AdapterProcess, RemediationExecution, FiniteSetTheorems,
        WellFoundedInduction, TLAPS

Places == {"setup", "loop", "read", "reap", "terminate", "termed", "killed",
           "finally", "closed", "returned", "raised"}
Reason == truncated \/ timed_out \/ failed # {}

\* Bytes are accepted after they are taken, and taken after they are written;
\* only the excess of a truncated call is taken and not accepted.
BytesInOrder ==
    /\ \A s \in Streams : stream_bytes[s] <= consumed[s] /\ consumed[s] <= written[s]
    /\ ~truncated => stream_bytes = consumed
    /\ Total <= OutputLimit
    /\ truncated => Total = OutputLimit
                    /\ consumed["stdout"] + consumed["stderr"] > OutputLimit

\* What was selected stays readable, and a stream no longer watched is empty.
StreamsFollowed ==
    /\ \A s \in ready : Readable(s)
    /\ pc \notin {"setup", "raised"} => \A s \in Streams \ registered : AtEnd(s)
    /\ pc \notin {"setup", "loop", "read"} /\ ~Reason => registered = {}

\* A termination has a reason, and the reasons exclude each other.
Justified ==
    /\ pc \in {"setup", "loop", "read"} => ~truncated /\ ~timed_out
    /\ ~(truncated /\ timed_out)
    /\ Terminating \/ signal # "none" => Reason
    /\ pc = "returned" => failed = {}

\* An exception comes out of a part only while the call is in that part.
FailedInOrder ==
    /\ pc = "setup" \/ InTry => failed = {}
    /\ InFinally => failed \in {{}, {"try"}}
    /\ pc = "raised" =>
           failed \in {{"setup"}, {"try"}, {"finally"}, {"try", "finally"}}

\* What the parent knows of its child in each place: without an exception it is
\* reaped when the finally block is entered, and in any case when that block ends.
ChildKnown ==
    /\ pc = "reap" /\ (truncated \/ timed_out) => child = "reaped"
    /\ InFinally /\ failed = {} => child = "reaped"
    /\ pc = "killed" /\ child = "running" => signal = "kill"
    /\ pc \in {"closed", "returned"} => child = "reaped"
    /\ pc = "raised" /\ child = "running" /\ signal # "kill" => Unprotected

AdapterInv ==
    TypeOK /\ pc \in Places /\ BytesInOrder /\ StreamsFollowed
    /\ Justified /\ FailedInOrder /\ ChildKnown

-----------------------------------------------------------------------------
\* The call starts in the inductive invariant.
LEMMA InvInit == Init => AdapterInv
  <1> SUFFICES ASSUME Init PROVE AdapterInv
    OBVIOUS
  <1>1. TypeOK /\ pc \in Places
    <2>1. /\ late \in BOOLEAN /\ truncated \in BOOLEAN
          /\ timed_out \in BOOLEAN
      BY Zenon DEF Init
    <2>2. [s \in Streams |-> 0] \in [Streams -> 0..MaxWritten]
      BY SizesAssumption
    <2> QED BY <2>1, <2>2 DEF Init, TypeOK, Places
  <1>2. BytesInOrder /\ StreamsFollowed
    BY SizesAssumption DEF Init, BytesInOrder, StreamsFollowed, Total, Streams
  <1>3. Justified /\ FailedInOrder /\ ChildKnown
    BY DEF Init, Justified, FailedInOrder, ChildKnown, Terminating, InTry, InFinally, Reason
  <1> QED BY <1>1, <1>2, <1>3 DEF AdapterInv

\* The child and the clock keep the inductive invariant.
LEMMA ChildStep ==
  ASSUME AdapterInv,
         \/ \E s \in Streams : ChildWrites(s) \/ ChildCloses(s)
         \/ ChildExits \/ KernelKills \/ DeadlinePasses
  PROVE  AdapterInv'
  <1> USE DEF AdapterInv
  <1>type. /\ written \in [Streams -> 0..MaxWritten] /\ consumed \in [Streams -> 0..MaxWritten]
           /\ registered \subseteq Streams /\ ready \subseteq registered /\ MaxWritten \in Nat
    BY SizesAssumption DEF TypeOK
  <1>1. ASSUME NEW s \in Streams, ChildWrites(s) PROVE AdapterInv'
    <2>1. /\ child = "running" /\ s \in open /\ written[s] < MaxWritten
          /\ written' = [written EXCEPT ![s] = @ + 1]
          /\ UNCHANGED <<child, open, signal, late, pc, then, dataVars, flagVars>>
      BY <1>1 DEF ChildWrites
    <2>2. written' \in [Streams -> 0..MaxWritten]
      BY <1>type, <2>1
    <2>3. BytesInOrder'
      BY <1>type, <2>1 DEF BytesInOrder, Total, dataVars, flagVars
    <2>4. StreamsFollowed'
      BY <1>type, <2>1 DEF StreamsFollowed, Readable, AtEnd, Buffered, Reason, dataVars, flagVars
    <2>5. TypeOK' /\ Justified' /\ FailedInOrder' /\ ChildKnown' /\ pc' \in Places
      BY <2>1, <2>2 DEF TypeOK, Justified, FailedInOrder, ChildKnown, Reason, Terminating, InTry,
         InFinally, Unprotected, dataVars, flagVars
    <2> QED BY <2>3, <2>4, <2>5
  <1>2. ASSUME \E s \in Streams : ChildCloses(s) PROVE AdapterInv'
    <2>1. /\ open' \subseteq open
          /\ UNCHANGED <<child, written, signal, late, pc, then, dataVars, flagVars>>
      BY <1>2 DEF ChildCloses
    <2> QED
      BY <2>1 DEF TypeOK, BytesInOrder, Total, StreamsFollowed, Readable, AtEnd, Buffered,
         Justified, FailedInOrder, ChildKnown, Reason, Terminating, InTry, InFinally, Unprotected,
         dataVars, flagVars
  <1>3. ASSUME ChildExits \/ KernelKills PROVE AdapterInv'
    <2>1. /\ child = "running" /\ child' = "exited" /\ open' = {}
          /\ UNCHANGED <<written, signal, late, pc, then, dataVars, flagVars>>
      BY <1>3 DEF ChildExits, KernelKills
    <2> QED
      BY <2>1 DEF TypeOK, BytesInOrder, Total, StreamsFollowed, Readable, AtEnd, Buffered,
         Justified, FailedInOrder, ChildKnown, Reason, Terminating, InTry, InFinally, Unprotected,
         dataVars, flagVars
  <1>4. ASSUME DeadlinePasses PROVE AdapterInv'
    BY <1>4 DEF DeadlinePasses, TypeOK, BytesInOrder, Total, StreamsFollowed, Readable, AtEnd,
       Buffered, Justified, FailedInOrder, ChildKnown, Reason, Terminating, InTry, InFinally,
       Unprotected, childVars, dataVars, flagVars
  <1> QED BY <1>1, <1>2, <1>3, <1>4

\* A read takes at most what is buffered and one byte more than is allowed.
LEMMA ReadStep ==
  ASSUME AdapterInv, NEW s \in Streams, Read(s)
  PROVE  AdapterInv'
  <1> DEFINE allowed == OutputLimit - Total
             chunk   == Lesser(ReadBound, Buffered(s))
             kept    == Lesser(chunk, allowed)
  <1> USE DEF AdapterInv
  <1>type. /\ written \in [Streams -> 0..MaxWritten] /\ consumed \in [Streams -> 0..MaxWritten]
           /\ stream_bytes \in [Streams -> 0..MaxWritten]
           /\ registered \subseteq Streams /\ ready \subseteq registered
           /\ MaxWritten \in Nat /\ OutputLimit \in Nat \ {0} /\ ReadSize \in Nat \ {0}
    BY SizesAssumption DEF TypeOK
  <1>1. /\ pc = "read" /\ s \in ready
        /\ consumed' = [consumed EXCEPT ![s] = @ + chunk]
        /\ stream_bytes' = [stream_bytes EXCEPT ![s] = @ + kept]
        /\ registered' = IF chunk = 0 THEN registered \ {s} ELSE registered
        /\ UNCHANGED <<childVars, signal, late, timed_out, failed>>
        /\ \/ /\ chunk > allowed
              /\ truncated' = TRUE
              /\ pc' = "terminate" /\ then' = "reap" /\ ready' = {}
           \/ /\ ~(chunk > allowed)
              /\ ready' = ready \ {s}
              /\ UNCHANGED <<truncated, pc, then>>
    BY DEF Read
  <1>2. ~truncated /\ ~timed_out /\ stream_bytes = consumed
    BY <1>1 DEF Justified, BytesInOrder
  <1>3. /\ Total \in Nat /\ allowed \in Nat /\ Buffered(s) \in Nat
        /\ Total = consumed["stdout"] + consumed["stderr"]
        /\ \A t \in Streams : consumed[t] <= written[t]
    BY <1>type, <1>2 DEF BytesInOrder, Total, Buffered, Streams
  <1>4. /\ chunk \in Nat /\ kept \in Nat /\ kept <= chunk /\ kept <= allowed
        /\ chunk <= allowed + 1 /\ chunk <= Buffered(s)
        /\ chunk > allowed => kept = allowed
        /\ ~(chunk > allowed) => kept = chunk
        /\ chunk = 0 => Buffered(s) = 0
    BY <1>type, <1>3 DEF Lesser, ReadBound
  <1> HIDE DEF chunk, kept
  <1>5. consumed[s] + chunk \in 0..MaxWritten /\ stream_bytes[s] + kept \in 0..MaxWritten
    BY <1>type, <1>2, <1>3, <1>4 DEF Buffered
  <1>6. TypeOK' /\ pc' \in Places
    BY <1>1, <1>5, <1>type DEF TypeOK, Places, childVars
  <1>7. /\ \A t \in Streams : stream_bytes'[t] <= consumed'[t] /\ consumed'[t] <= written'[t]
        /\ ~truncated' => stream_bytes' = consumed'
    <2>1. \A t \in Streams : /\ stream_bytes'[t] = consumed[t] + (IF t = s THEN kept ELSE 0)
                             /\ consumed'[t] = consumed[t] + (IF t = s THEN chunk ELSE 0)
                             /\ written'[t] = written[t]
      BY <1>1, <1>2, <1>4, <1>type DEF childVars
    <2>2. \A t \in Streams : stream_bytes'[t] <= consumed'[t] /\ consumed'[t] <= written'[t]
      BY <1>3, <1>4, <1>type, <2>1 DEF Buffered
    <2>3. ~truncated' => kept = chunk
      BY <1>1, <1>4
    <2> QED BY <1>1, <1>2, <2>2, <2>3
  <1>8. /\ stream_bytes'["stdout"] + stream_bytes'["stderr"] = Total + kept
        /\ consumed'["stdout"] + consumed'["stderr"] = Total + chunk
    BY <1>1, <1>2, <1>3, <1>4, <1>type DEF Total, Streams
  <1>9. BytesInOrder'
    BY <1>1, <1>2, <1>3, <1>4, <1>7, <1>8, <1>type DEF BytesInOrder, Total
  <1>10. \A t \in Streams : Buffered(t)' = IF t = s THEN Buffered(t) - chunk ELSE Buffered(t)
    BY <1>1, <1>3, <1>4, <1>type DEF Buffered, childVars
  <1>11. StreamsFollowed'
    <2>1. \A t \in ready' : Readable(t)'
      BY <1>1, <1>10, <1>type DEF StreamsFollowed, Readable, AtEnd, childVars
    <2>2. \A t \in Streams \ registered' : AtEnd(t)'
      <3>1. chunk = 0 => AtEnd(s)
        BY <1>1, <1>3, <1>4 DEF StreamsFollowed, Readable
      <3> QED BY <1>1, <1>4, <1>10, <1>type, <3>1 DEF StreamsFollowed, AtEnd, childVars
    <2>3. pc' \notin {"setup", "loop", "read"} /\ ~Reason' => registered' = {}
      BY <1>1 DEF Reason
    <2> QED BY <2>1, <2>2, <2>3 DEF StreamsFollowed
  <1>12. failed = {} /\ failed' = {} /\ signal' = signal /\ child' = child
    BY <1>1 DEF FailedInOrder, InTry, childVars
  <1>13. Justified'
    BY <1>1, <1>2, <1>12 DEF Justified, Reason, Terminating
  <1>14. FailedInOrder' /\ ChildKnown'
    BY <1>1, <1>12 DEF FailedInOrder, ChildKnown, Terminating, InTry, InFinally
  <1> QED BY <1>6, <1>9, <1>11, <1>13, <1>14

\* The streams are registered while nothing has been read of them.
LEMMA SetUpStep ==
  ASSUME AdapterInv, SetUp
  PROVE  AdapterInv'
  <1> USE DEF AdapterInv
  <1>1. /\ pc = "setup" /\ pc' = "loop" /\ registered' = Streams
        /\ UNCHANGED <<childVars, signal, late, then, ready, stream_bytes, consumed, flagVars>>
    BY DEF SetUp
  <1>2. TypeOK' /\ pc' \in Places
    BY <1>1 DEF TypeOK, Places, childVars, flagVars
  <1>3. BytesInOrder' /\ StreamsFollowed'
    BY <1>1 DEF BytesInOrder, Total, StreamsFollowed, Readable, AtEnd, Buffered, childVars, flagVars
  <1>4. Justified' /\ FailedInOrder' /\ ChildKnown'
    BY <1>1 DEF Justified, FailedInOrder, ChildKnown, Reason, Terminating, InTry, InFinally,
       childVars, flagVars
  <1> QED BY <1>2, <1>3, <1>4

\* An exception leaves the part it comes out of: whatever part that is, the
\* order of the exceptions and what is known of the child are kept.
LEMMA RaiseStep ==
  ASSUME AdapterInv, Raises, signal' = signal, child' = child, then' = then,
         UNCHANGED <<truncated, timed_out>>
  PROVE  /\ pc' \in {"finally", "raised"} /\ failed' # {} /\ failed' \subseteq Parts
         /\ Justified' /\ FailedInOrder' /\ ChildKnown'
  <1> USE DEF AdapterInv
  <1>1. CASE InTry /\ failed' = failed \cup {"try"} /\ pc' = "finally"
    <2>1. failed' = {"try"}
      BY <1>1 DEF FailedInOrder
    <2> QED
      BY <1>1, <2>1 DEF Justified, FailedInOrder, ChildKnown, Reason, Terminating, InTry,
         InFinally, Parts
  <1>2. CASE InFinally /\ failed' = failed \cup {"finally"} /\ pc' = "raised"
    <2>1. \/ failed = {} /\ failed' = {"finally"} /\ child = "reaped"
          \/ failed = {"try"} /\ failed' = {"try", "finally"}
      BY <1>2 DEF FailedInOrder, ChildKnown
    <2> QED
      BY <1>2, <2>1 DEF Justified, FailedInOrder, ChildKnown, Reason, Terminating, InTry,
         InFinally, Unprotected, Parts
  <1>3. CASE pc = "setup" /\ failed' = failed \cup {"setup"} /\ pc' = "raised"
    <2>1. failed' = {"setup"}
      BY <1>3 DEF FailedInOrder
    <2> QED
      BY <1>3, <2>1 DEF Justified, FailedInOrder, ChildKnown, Reason, Terminating, InTry,
         InFinally, Unprotected, Parts
  <1> QED BY <1>1, <1>2, <1>3 DEF Raises

\* The steps that leave the bytes and the streams alone keep what is said of them.
LEMMA DataKept ==
  ASSUME AdapterInv,
         UNCHANGED <<open, written, registered, stream_bytes, consumed, truncated>>,
         ready' \in {ready, {}, {s \in registered : Readable(s)}},
         pc \in {"setup", "raised"} => pc' \in {"setup", "raised"},
         pc' \notin {"setup", "loop", "read"} /\ ~Reason' => registered = {}
  PROVE  BytesInOrder' /\ StreamsFollowed' /\ ready' \subseteq registered'
  <1> USE DEF AdapterInv
  <1>1. BytesInOrder'
    BY DEF BytesInOrder, Total
  <1>2. ready' \subseteq registered' /\ \A s \in ready' : Readable(s)'
    BY DEF StreamsFollowed, Readable, AtEnd, Buffered, TypeOK
  <1>3. StreamsFollowed'
    BY <1>2 DEF StreamsFollowed, AtEnd, Buffered
  <1> QED BY <1>1, <1>2, <1>3

\* Every other step of the parent keeps the inductive invariant.
LEMMA ParentStep ==
  ASSUME AdapterInv,
         \/ LoopHead \/ ReadAll \/ Reap \/ SendTerm \/ SendKill \/ AwaitKilled
         \/ Finally \/ Return \/ Interrupt
  PROVE  AdapterInv'
  <1> USE DEF AdapterInv
  <1>1. CASE LoopHead
    <2>1. TypeOK' /\ pc' \in Places
      BY <1>1 DEF LoopHead, TypeOK, Places, childVars, flagVars
    <2>2. BytesInOrder' /\ StreamsFollowed'
      BY <1>1, DataKept DEF LoopHead, childVars, flagVars, StreamsFollowed, Justified, ChildKnown, Reason,
         Terminating, Places
    <2>3. Justified' /\ FailedInOrder' /\ ChildKnown'
      BY <1>1 DEF LoopHead, childVars, flagVars, Justified, FailedInOrder, ChildKnown, Reason, Terminating,
         InTry, InFinally, Unprotected, TypeOK, Places
    <2> QED BY <2>1, <2>2, <2>3
  <1>2. CASE ReadAll
    <2>1. TypeOK' /\ pc' \in Places
      BY <1>2 DEF ReadAll, TypeOK, Places, childVars, dataVars, flagVars
    <2>2. BytesInOrder' /\ StreamsFollowed'
      BY <1>2, DataKept DEF ReadAll, childVars, dataVars, flagVars, StreamsFollowed, Justified, ChildKnown, Reason,
         Terminating, Places
    <2>3. Justified' /\ FailedInOrder' /\ ChildKnown'
      BY <1>2 DEF ReadAll, childVars, dataVars, flagVars, Justified, FailedInOrder, ChildKnown, Reason, Terminating,
         InTry, InFinally, Unprotected, TypeOK, Places
    <2> QED BY <2>1, <2>2, <2>3
  <1>3. CASE Reap
    <2>1. TypeOK' /\ pc' \in Places
      BY <1>3 DEF Reap, TypeOK, Places, dataVars, flagVars
    <2>2. BytesInOrder' /\ StreamsFollowed'
      BY <1>3, DataKept DEF Reap, dataVars, flagVars, StreamsFollowed, Justified, ChildKnown, Reason,
         Terminating, Places
    <2>3. Justified' /\ FailedInOrder' /\ ChildKnown'
      BY <1>3 DEF Reap, dataVars, flagVars, Justified, FailedInOrder, ChildKnown, Reason, Terminating,
         InTry, InFinally, Unprotected, TypeOK, Places
    <2> QED BY <2>1, <2>2, <2>3
  <1>4. CASE SendTerm
    <2>1. TypeOK' /\ pc' \in Places
      BY <1>4 DEF SendTerm, TypeOK, Places, childVars, dataVars, flagVars
    <2>2. BytesInOrder' /\ StreamsFollowed'
      BY <1>4, DataKept DEF SendTerm, childVars, dataVars, flagVars, StreamsFollowed, Justified, ChildKnown, Reason,
         Terminating, Places
    <2>3. Justified' /\ FailedInOrder' /\ ChildKnown'
      BY <1>4 DEF SendTerm, childVars, dataVars, flagVars, Justified, FailedInOrder, ChildKnown, Reason, Terminating,
         InTry, InFinally, Unprotected, TypeOK, Places
    <2> QED BY <2>1, <2>2, <2>3
  <1>5. CASE SendKill
    <2>1. TypeOK' /\ pc' \in Places
      BY <1>5 DEF SendKill, TypeOK, Places, childVars, dataVars, flagVars
    <2>2. BytesInOrder' /\ StreamsFollowed'
      BY <1>5, DataKept DEF SendKill, childVars, dataVars, flagVars, StreamsFollowed, Justified, ChildKnown, Reason,
         Terminating, Places
    <2>3. Justified' /\ FailedInOrder' /\ ChildKnown'
      BY <1>5 DEF SendKill, childVars, dataVars, flagVars, Justified, FailedInOrder, ChildKnown, Reason, Terminating,
         InTry, InFinally, Unprotected, TypeOK, Places
    <2> QED BY <2>1, <2>2, <2>3
  <1>6. CASE Finally
    <2>1. TypeOK' /\ pc' \in Places
      BY <1>6 DEF Finally, TypeOK, Places, dataVars, flagVars
    <2>2. BytesInOrder' /\ StreamsFollowed'
      BY <1>6, DataKept DEF Finally, dataVars, flagVars, StreamsFollowed, Justified, ChildKnown, Reason,
         Terminating, Places
    <2>3. Justified' /\ FailedInOrder' /\ ChildKnown'
      BY <1>6 DEF Finally, dataVars, flagVars, Justified, FailedInOrder, ChildKnown, Reason, Terminating,
         InTry, InFinally, Unprotected, TypeOK, Places
    <2> QED BY <2>1, <2>2, <2>3
  <1>7. CASE Return
    <2>1. TypeOK' /\ pc' \in Places
      BY <1>7 DEF Return, TypeOK, Places, childVars, dataVars, flagVars
    <2>2. BytesInOrder' /\ StreamsFollowed'
      BY <1>7, DataKept DEF Return, childVars, dataVars, flagVars, StreamsFollowed, Justified, ChildKnown, Reason,
         Terminating, Places
    <2>3. Justified' /\ FailedInOrder' /\ ChildKnown'
      BY <1>7 DEF Return, childVars, dataVars, flagVars, Justified, FailedInOrder, ChildKnown, Reason, Terminating,
         InTry, InFinally, Unprotected, TypeOK, Places
    <2> QED BY <2>1, <2>2, <2>3
  <1>8. CASE AwaitKilled /\ child # "running"
    <2>1. /\ pc = "killed" /\ child' = "reaped" /\ pc' = then
          /\ UNCHANGED <<open, written, signal, late, then, dataVars, flagVars>>
      BY <1>8 DEF AwaitKilled, flagVars
    <2>2. TypeOK' /\ pc' \in Places
      BY <2>1 DEF TypeOK, Places, dataVars, flagVars
    <2>3. BytesInOrder' /\ StreamsFollowed'
      BY <2>1, DataKept DEF dataVars, flagVars, StreamsFollowed, Justified, Reason, Terminating,
         TypeOK
    <2>4. Justified' /\ FailedInOrder' /\ ChildKnown'
      BY <2>1 DEF dataVars, flagVars, Justified, FailedInOrder, ChildKnown, Reason, Terminating,
         InTry, InFinally, Unprotected, TypeOK
    <2> QED BY <2>2, <2>3, <2>4
  <1>9. CASE Interrupt \/ (AwaitKilled /\ child = "running")
    <2>1. /\ Raises /\ ready' \in {ready, {}}
          /\ UNCHANGED <<childVars, signal, late, then, registered, stream_bytes, consumed,
                         truncated, timed_out>>
      BY <1>9 DEF Interrupt, AwaitKilled, childVars, dataVars
    <2>2. /\ pc' \in {"finally", "raised"} /\ failed' # {} /\ failed' \subseteq Parts
          /\ Justified' /\ FailedInOrder' /\ ChildKnown'
      BY <2>1, RaiseStep DEF childVars
    <2>3. pc \in {"setup", "raised"} => pc' = "raised"
      BY <2>1 DEF Raises, InTry, InFinally, Terminating
    <2>4. BytesInOrder' /\ StreamsFollowed' /\ ready' \subseteq registered'
      BY <2>1, <2>2, <2>3, DataKept DEF childVars, Reason
    <2>5. TypeOK' /\ pc' \in Places
      BY <2>1, <2>2, <2>4 DEF TypeOK, Places, childVars
    <2> QED BY <2>2, <2>4, <2>5
  <1> QED BY <1>1, <1>2, <1>3, <1>4, <1>5, <1>6, <1>7, <1>8, <1>9

\* Every step keeps the inductive invariant.
LEMMA InvStep == AdapterInv /\ [Next]_vars => AdapterInv'
  <1> SUFFICES ASSUME AdapterInv, [Next]_vars PROVE AdapterInv'
    OBVIOUS
  <1>1. CASE UNCHANGED vars
    BY <1>1 DEF vars, childVars, dataVars, flagVars, AdapterInv, TypeOK, BytesInOrder, Total,
       StreamsFollowed, Readable, AtEnd, Buffered, Justified, FailedInOrder, ChildKnown, Reason,
       Terminating, InTry, InFinally, Unprotected
  <1>2. ASSUME NEW s \in Streams, Read(s) PROVE AdapterInv'
    BY <1>2, ReadStep
  <1>3. CASE \/ LoopHead \/ ReadAll \/ Reap \/ SendTerm \/ SendKill \/ AwaitKilled
             \/ Finally \/ Return \/ Interrupt
    BY <1>3, ParentStep
  <1>4. CASE \/ \E s \in Streams : ChildWrites(s) \/ ChildCloses(s)
             \/ ChildExits \/ KernelKills \/ DeadlinePasses
    BY <1>4, ChildStep
  <1>5. CASE SetUp
    BY <1>5, SetUpStep
  <1> QED BY <1>1, <1>2, <1>3, <1>4, <1>5 DEF Next, Parent

\* The inductive invariant holds in every behaviour, fair or not.
LEMMA Invariance == Spec => []AdapterInv
  BY InvInit, InvStep, PTL DEF Spec

\* The call keeps its types: no stream is accepted beyond what was written.
THEOREM TypeCorrect == Spec => []TypeOK
  <1>1. AdapterInv => TypeOK
    BY DEF AdapterInv
  <1> QED BY Invariance, <1>1, PTL

\* A call that returns has reaped its child, and a single exception after the
\* streams were registered leaves no child that was not sent SIGKILL.
THEOREM ChildrenAreReaped == Spec => []NoOrphan
  <1>1. AdapterInv => NoOrphan
    BY DEF AdapterInv, ChildKnown, NoOrphan
  <1> QED BY Invariance, <1>1, PTL

\* A result that is neither truncated nor timed out holds every byte that the
\* child wrote, whatever the cap and the sizes of reads and pipes.
THEOREM CleanReportsAreTrue == Spec => []CleanReportIsTrue
  <1>1. AdapterInv => CleanReportIsTrue
    <2> SUFFICES ASSUME AdapterInv, pc = "returned", ~truncated, ~timed_out
                 PROVE  signal = "none" /\ stream_bytes = written
      BY DEF CleanReportIsTrue
    <2>1. ~Reason /\ signal = "none"
      BY DEF AdapterInv, Justified, Reason
    <2>2. /\ stream_bytes = consumed
          /\ \A s \in Streams : AtEnd(s)
          /\ written \in [Streams -> 0..MaxWritten] /\ consumed \in [Streams -> 0..MaxWritten]
      BY <2>1 DEF AdapterInv, BytesInOrder, StreamsFollowed, TypeOK
    <2>3. \A s \in Streams : consumed[s] = written[s]
      BY <2>2, SizesAssumption DEF AtEnd, Buffered
    <2> QED BY <2>1, <2>2, <2>3
  <1> QED BY Invariance, <1>1, PTL

\* Output is truncated exactly when the byte beyond the cap was taken, which for
\* a call that did not time out is exactly when the child wrote one.
THEOREM TruncationsAreExact == Spec => []TruncationIsExact
  <1>1. AdapterInv /\ CleanReportIsTrue => TruncationIsExact
    <2> SUFFICES ASSUME AdapterInv, CleanReportIsTrue PROVE TruncationIsExact
      OBVIOUS
    <2>1. /\ written \in [Streams -> 0..MaxWritten] /\ consumed \in [Streams -> 0..MaxWritten]
          /\ consumed["stdout"] <= written["stdout"] /\ consumed["stderr"] <= written["stderr"]
      BY DEF AdapterInv, BytesInOrder, TypeOK, Streams
    <2>2. consumed["stdout"] + consumed["stderr"] <= Written
      BY <2>1, SizesAssumption DEF Written, Streams
    <2>3. /\ Total <= OutputLimit /\ ~(truncated /\ timed_out)
          /\ truncated => Total = OutputLimit
                          /\ consumed["stdout"] + consumed["stderr"] > OutputLimit
      BY DEF AdapterInv, BytesInOrder, Justified
    <2>4. ~truncated => ~(consumed["stdout"] + consumed["stderr"] > OutputLimit)
      BY <2>1, <2>3, SizesAssumption DEF AdapterInv, BytesInOrder, Total, Streams
    <2>5. truncated => Written > OutputLimit
      BY <2>1, <2>2, <2>3, SizesAssumption DEF Written, Streams
    <2>6. pc = "returned" /\ ~truncated /\ ~timed_out => ~(Written > OutputLimit)
      <3>1. pc = "returned" /\ ~truncated /\ ~timed_out => Written = Total
        BY DEF CleanReportIsTrue, Written, Total
      <3> QED BY <2>1, <2>3, <3>1, SizesAssumption DEF Written, Streams
    <2> QED BY <2>3, <2>4, <2>5, <2>6 DEF TruncationIsExact
  <1> QED BY Invariance, CleanReportsAreTrue, <1>1, PTL

-----------------------------------------------------------------------------
(***************************************************************************)
(* Recursive functions over the naturals.                                  *)
(***************************************************************************)

Below == {ss \in Nat \X Nat : ss[1] < ss[2]}

\* A set of naturals that has a member has a least one.
LEMMA LeastNat ==
  ASSUME NEW T, T \subseteq Nat, T # {}
  PROVE  \E x \in T : \A y \in T : x <= y
  <1>1. IsWellFoundedOn(Below, Nat)
    BY NatLessThanWellFounded DEF Below, OpToRel
  <1>2. \E x \in T : \A y \in T : ~ (<<y, x>> \in Below)
    BY <1>1, WFMin
  <1>3. \A x, y \in Nat : y < x => <<y, x>> \in Below
    BY DEF Below
  <1>4. PICK x \in T : \A y \in T : ~ (<<y, x>> \in Below)
    BY <1>2
  <1>5. ASSUME NEW y \in T PROVE x <= y
    <2>1. x \in Nat /\ y \in Nat
      OBVIOUS
    <2>2. ~ (y < x)
      BY <1>3, <1>4, <2>1
    <2> QED BY <2>1, <2>2
  <1> QED BY <1>5

\* What holds of 0 and of every successor holds of every natural.
LEMMA AllNat ==
  ASSUME NEW T, T \subseteq Nat, 0 \in T, \A n \in T : n + 1 \in T
  PROVE  T = Nat
  <1> SUFFICES ASSUME Nat \ T # {} PROVE FALSE
    OBVIOUS
  <1>1. PICK x \in Nat \ T : \A y \in Nat \ T : x <= y
    BY LeastNat, Nat \ T \subseteq Nat
  <1>2. x # 0 /\ x - 1 \in Nat
    BY <1>1
  <1>3. x - 1 \in T
    BY <1>1, <1>2
  <1> QED BY <1>1, <1>2, <1>3

\* What holds of 0, and of a number when it holds of the one before, holds of
\* every number up to N.
LEMMA UpTo ==
  ASSUME NEW N \in Nat, NEW T, 0 \in T, \A n \in 1..N : n - 1 \in T => n \in T
  PROVE  0..N \subseteq T
  <1> DEFINE V == {n \in Nat : n <= N => n \in T}
  <1>1. 0 \in V
    OBVIOUS
  <1>2. ASSUME NEW n \in V PROVE n + 1 \in V
    <2>1. CASE n + 1 <= N
      <3>1. n + 1 \in 1..N /\ (n + 1) - 1 = n /\ n \in T
        BY <2>1
      <3> QED BY <3>1
    <2>2. CASE ~ (n + 1 <= N)
      BY <2>2
    <2> QED BY <2>1, <2>2
  <1> HIDE DEF V
  <1>3. V = Nat
    <2>1. V \subseteq Nat
      BY DEF V
    <2> QED BY <1>1, <1>2, <2>1, AllNat
  <1> QED BY <1>3 DEF V

\* f is the run of a step function F over S from x.
Run(f, S, x, F, N) ==
    f \in [0..N -> S] /\ f[0] = x /\ \A n \in 1..N : f[n] = F[n][f[n - 1]]

\* A step function has a run of any length.
LEMMA RunExists ==
  \A S, x, F : x \in S /\ F \in [Nat -> [S -> S]] => \A N \in Nat : \E f : Run(f, S, x, F, N)
  <1> SUFFICES ASSUME NEW S, NEW x \in S, NEW F \in [Nat -> [S -> S]]
               PROVE  \A N \in Nat : \E f : Run(f, S, x, F, N)
    OBVIOUS
  <1> DEFINE T == {N \in Nat : \E f \in [0..N -> S] :
                     f[0] = x /\ \A n \in 1..N : f[n] = F[n][f[n - 1]]}
  <1>1. 0 \in T
    <2> DEFINE f == [n \in 0..0 |-> x]
    <2>1. f \in [0..0 -> S] /\ f[0] = x /\ \A n \in 1..0 : f[n] = F[n][f[n - 1]]
      OBVIOUS
    <2> HIDE DEF f
    <2> QED BY <2>1
  <1>2. ASSUME NEW N \in T PROVE N + 1 \in T
    <2>1. PICK f \in [0..N -> S] : f[0] = x /\ \A n \in 1..N : f[n] = F[n][f[n - 1]]
      OBVIOUS
    <2> DEFINE g == [n \in 0..(N + 1) |-> IF n = N + 1 THEN F[N + 1][f[N]] ELSE f[n]]
    <2>2. g \in [0..(N + 1) -> S]
      <3>1. \A n \in 0..(N + 1) : n = N + 1 \/ n \in 0..N
        OBVIOUS
      <3>2. F[N + 1][f[N]] \in S
        BY <2>1
      <3> QED BY <2>1, <3>1, <3>2
    <2>3. g[0] = x
      BY <2>1
    <2>4. ASSUME NEW n \in 1..(N + 1) PROVE g[n] = F[n][g[n - 1]]
      <3>1. CASE n = N + 1
        <4>1. g[n - 1] = f[N] /\ n - 1 = N
          BY <3>1
        <4> QED BY <3>1, <4>1
      <3>2. CASE n # N + 1
        <4>1. n \in 1..N /\ g[n - 1] = f[n - 1] /\ g[n] = f[n]
          BY <3>2
        <4> QED BY <2>1, <4>1
      <3> QED BY <3>1, <3>2
    <2> HIDE DEF g
    <2>5. \E h \in [0..(N + 1) -> S] :
            h[0] = x /\ \A n \in 1..(N + 1) : h[n] = F[n][h[n - 1]]
      BY <2>2, <2>3, <2>4
    <2>6. N + 1 \in Nat
      OBVIOUS
    <2> QED BY <2>5, <2>6
  <1> HIDE DEF T
  <1>3. T = Nat
    <2>1. T \subseteq Nat
      BY DEF T
    <2> QED BY <1>1, <1>2, <2>1, AllNat
  <1> QED BY <1>3 DEF T, Run

-----------------------------------------------------------------------------
(***************************************************************************)
(* One batch.                                                              *)
(***************************************************************************)

LEMMA LaneNumbers == LaneCount \in Nat /\ LaneCount # 0 /\ Lanes = 1..LaneCount
  BY PlanAssumption DEF Lanes

LEMMA ConflictsSymmetric == \A f, g : Conflicts(f, g) <=> Conflicts(g, f)
  BY DEF Conflicts, Overlap

\* The batch before and after each lane is considered.
Passes(t, p, c) ==
    t = [l \in 0..LaneCount |->
           IF l = 0 THEN {}
           ELSE IF /\ l \in Ready(p, c)
                   /\ \A s \in t[l - 1] : ~Conflicts(p.foot[l], p.foot[s])
                THEN t[l - 1] \cup {l} ELSE t[l - 1]]

LEMMA PassExists == \A p, c : \E t : Passes(t, p, c) /\ NextBatch(p, c) = t[LaneCount]
  <1> TAKE p, c
  <1> DEFINE F == [l \in Nat |-> [b \in SUBSET Nat |->
                     IF l \in Ready(p, c) /\ \A s \in b : ~Conflicts(p.foot[l], p.foot[s])
                     THEN b \cup {l} ELSE b]]
  <1>1. F \in [Nat -> [SUBSET Nat -> SUBSET Nat]]
    OBVIOUS
  <1>2. PICK f \in [0..LaneCount -> SUBSET Nat] :
          f[0] = {} /\ \A n \in 1..LaneCount : f[n] = F[n][f[n - 1]]
    <2> HIDE DEF F
    <2>1. {} \in SUBSET Nat
      OBVIOUS
    <2>2. \A N \in Nat : \E f : Run(f, SUBSET Nat, {}, F, N)
      BY <1>1, <2>1, RunExists
    <2>3. PICK f : Run(f, SUBSET Nat, {}, F, LaneCount)
      BY <2>2, LaneNumbers
    <2> QED BY <2>3 DEF Run
  <1>3. ASSUME NEW l \in 0..LaneCount
        PROVE  f[l] = IF l = 0 THEN {}
                      ELSE IF /\ l \in Ready(p, c)
                              /\ \A s \in f[l - 1] : ~Conflicts(p.foot[l], p.foot[s])
                           THEN f[l - 1] \cup {l} ELSE f[l - 1]
    <2>1. CASE l = 0
      BY <1>2, <2>1
    <2>2. CASE l # 0
      <3>1. l \in 1..LaneCount /\ l - 1 \in 0..LaneCount /\ l \in Nat
        BY <2>2, LaneNumbers
      <3>2. f[l - 1] \in SUBSET Nat
        BY <3>1
      <3> QED BY <1>2, <2>2, <3>1, <3>2
    <2> QED BY <2>1, <2>2
  <1>4. Passes(f, p, c)
    BY <1>3 DEF Passes
  <1>5. NextBatch(p, c) = (CHOOSE t : Passes(t, p, c))[LaneCount]
    BY DEF NextBatch, Passes
  <1> QED BY <1>4, <1>5

\* A batch is of ready lanes no two of which conflict, and a ready lane that is
\* not in it conflicts with one before it that is.
LEMMA BatchIsMaximal ==
  \A p, c :
    /\ NextBatch(p, c) \subseteq Ready(p, c)
    /\ \A l, m \in NextBatch(p, c) : l # m => ~Conflicts(p.foot[l], p.foot[m])
    /\ \A l \in Ready(p, c) \ NextBatch(p, c) :
         \E s \in NextBatch(p, c) : s < l /\ Conflicts(p.foot[l], p.foot[s])
  <1> TAKE p, c
  <1>1. PICK t : Passes(t, p, c) /\ NextBatch(p, c) = t[LaneCount]
    BY PassExists
  <1>2. t[0] = {} /\ \A l \in 1..LaneCount :
          t[l] = IF /\ l \in Ready(p, c)
                    /\ \A s \in t[l - 1] : ~Conflicts(p.foot[l], p.foot[s])
                 THEN t[l - 1] \cup {l} ELSE t[l - 1]
    <2>1. \A l \in 0..LaneCount :
            t[l] = IF l = 0 THEN {}
                   ELSE IF /\ l \in Ready(p, c)
                           /\ \A s \in t[l - 1] : ~Conflicts(p.foot[l], p.foot[s])
                        THEN t[l - 1] \cup {l} ELSE t[l - 1]
      BY <1>1 DEF Passes
    <2>2. t[0] = {}
      <3>1. 0 \in 0..LaneCount
        BY LaneNumbers
      <3> QED BY <2>1, <3>1
    <2>3. ASSUME NEW l \in 1..LaneCount
          PROVE  t[l] = IF /\ l \in Ready(p, c)
                           /\ \A s \in t[l - 1] : ~Conflicts(p.foot[l], p.foot[s])
                        THEN t[l - 1] \cup {l} ELSE t[l - 1]
      <3>1. l \in 0..LaneCount /\ l # 0
        BY LaneNumbers
      <3> QED BY <2>1, <3>1
    <2> QED BY <2>2, <2>3
  <1> DEFINE Good(n) ==
        /\ t[n] \subseteq Ready(p, c) \cap 1..n
        /\ \A l, m \in t[n] : l # m => ~Conflicts(p.foot[l], p.foot[m])
        /\ \A l \in Ready(p, c) \ t[n] : l <= n =>
             \E s \in t[n] : s < l /\ Conflicts(p.foot[l], p.foot[s])
  <1>r. Ready(p, c) \subseteq 1..LaneCount
    BY LaneNumbers DEF Ready
  <1>3. Good(0)
    BY <1>2, <1>r, LaneNumbers
  <1>4. ASSUME NEW n \in 1..LaneCount, Good(n - 1) PROVE Good(n)
    <2>1. CASE n \in Ready(p, c) /\ \A s \in t[n - 1] : ~Conflicts(p.foot[n], p.foot[s])
      <3>1. t[n] = t[n - 1] \cup {n}
        BY <1>2, <2>1
      <3>2. t[n] \subseteq Ready(p, c) \cap 1..n
        BY <1>4, <2>1, <3>1, LaneNumbers
      <3>3. \A l, m \in t[n] : l # m => ~Conflicts(p.foot[l], p.foot[m])
        BY <1>4, <2>1, <3>1, ConflictsSymmetric
      <3>4. ASSUME NEW l \in Ready(p, c) \ t[n], l <= n
            PROVE  \E s \in t[n] : s < l /\ Conflicts(p.foot[l], p.foot[s])
        <4>1. l <= n - 1 /\ l \in Ready(p, c) \ t[n - 1]
          BY <1>r, <3>1, <3>4, LaneNumbers
        <4> QED BY <1>4, <3>1, <4>1
      <3> QED BY <3>2, <3>3, <3>4
    <2>2. CASE ~ (n \in Ready(p, c) /\ \A s \in t[n - 1] : ~Conflicts(p.foot[n], p.foot[s]))
      <3>1. t[n] = t[n - 1]
        BY <1>2, <2>2
      <3>2. t[n] \subseteq Ready(p, c) \cap 1..n
        BY <1>4, <3>1, LaneNumbers
      <3>3. ASSUME NEW l \in Ready(p, c) \ t[n], l <= n
            PROVE  \E s \in t[n] : s < l /\ Conflicts(p.foot[l], p.foot[s])
        <4>1. CASE l = n
          <5>1. PICK s \in t[n - 1] : Conflicts(p.foot[n], p.foot[s])
            BY <2>2, <3>3, <4>1
          <5>2. s < n
            BY <1>4, <5>1, LaneNumbers
          <5> QED BY <3>1, <4>1, <5>1, <5>2
        <4>2. CASE l # n
          <5>1. l <= n - 1
            BY <1>r, <3>3, <4>2, LaneNumbers
          <5> QED BY <1>4, <3>1, <3>3, <5>1
        <4> QED BY <4>1, <4>2
      <3> QED BY <1>4, <3>1, <3>2, <3>3
    <2> QED BY <2>1, <2>2
  <1> HIDE DEF Good
  <1>5. Good(LaneCount)
    <2> DEFINE T == {n \in 0..LaneCount : Good(n)}
    <2>1. 0 \in T
      BY <1>3, LaneNumbers
    <2>2. \A n \in 1..LaneCount : n - 1 \in T => n \in T
      BY <1>4, LaneNumbers
    <2> HIDE DEF T
    <2>3. 0..LaneCount \subseteq T
      BY <2>1, <2>2, UpTo, LaneNumbers
    <2>4. LaneCount \in T
      BY <2>3, LaneNumbers
    <2> QED BY <2>4 DEF T
  <1> QED BY <1>1, <1>5, <1>r, LaneNumbers DEF Good

-----------------------------------------------------------------------------
(***************************************************************************)
(* The schedule.                                                           *)
(***************************************************************************)

\* The lanes completed after each batch.
Completes(d, p) ==
    d = [n \in 0..LaneCount |->
           IF n = 0 THEN {} ELSE d[n - 1] \cup NextBatch(p, d[n - 1])]

Made(d, p) == {k \in 1..LaneCount : Ready(p, d[k - 1]) # {}}

LEMMA CompletesExists ==
  \A p : \E d : /\ Completes(d, p)
                /\ ExecutionBatches(p) =
                     [n \in { k \in 1..LaneCount : d[k] # d[k - 1] } |-> d[n] \ d[n - 1]]
  <1> TAKE p
  <1> DEFINE A == [c \in SUBSET Lanes |-> c \cup NextBatch(p, c)]
             F == [n \in Nat |-> A]
             Done(d) == d = [n \in 0..LaneCount |-> IF n = 0 THEN {} ELSE A[d[n - 1]]]
  <1>0. \A c : NextBatch(p, c) \subseteq Lanes
    BY BatchIsMaximal DEF Ready
  <1>1. A \in [SUBSET Lanes -> SUBSET Lanes] /\ F \in [Nat -> [SUBSET Lanes -> SUBSET Lanes]]
    BY <1>0
  <1>2. \E f : Done(f)
    <2>1. PICK f \in [0..LaneCount -> SUBSET Lanes] :
            f[0] = {} /\ \A n \in 1..LaneCount : f[n] = F[n][f[n - 1]]
      <3> HIDE DEF F
      <3>1. {} \in SUBSET Lanes
        OBVIOUS
      <3>2. \A N \in Nat : \E f : Run(f, SUBSET Lanes, {}, F, N)
        BY <1>1, <3>1, RunExists
      <3>3. PICK f : Run(f, SUBSET Lanes, {}, F, LaneCount)
        BY <3>2, LaneNumbers
      <3> QED BY <3>3 DEF Run
    <2>2. ASSUME NEW n \in 0..LaneCount PROVE f[n] = IF n = 0 THEN {} ELSE A[f[n - 1]]
      <3>1. CASE n = 0
        BY <2>1, <3>1
      <3>2. CASE n # 0
        <4>1. n \in 1..LaneCount /\ n \in Nat
          BY <3>2, LaneNumbers
        <4>2. F[n] = A
          BY <4>1
        <4> HIDE DEF A, F
        <4> QED BY <2>1, <3>2, <4>1, <4>2
      <3> QED BY <3>1, <3>2
    <2> HIDE DEF A
    <2>3. Done(f)
      BY <2>1, <2>2
    <2> QED BY <2>3
  <1> DEFINE D == CHOOSE d : Done(d)
  <1>3. Done(D)
    BY <1>2
  <1>4. ExecutionBatches(p) =
          [n \in { k \in 1..LaneCount : D[k] # D[k - 1] } |-> D[n] \ D[n - 1]]
    BY DEF ExecutionBatches
  <1> HIDE DEF D
  <1>5. D[0] = {} /\ \A n \in 1..LaneCount : D[n] = A[D[n - 1]]
    <2> HIDE DEF A
    <2>1. \A n \in 0..LaneCount : D[n] = IF n = 0 THEN {} ELSE A[D[n - 1]]
      BY <1>3
    <2>2. 0 \in 0..LaneCount /\ \A n \in 1..LaneCount : n \in 0..LaneCount /\ n # 0
      BY LaneNumbers
    <2> QED BY <2>1, <2>2
  <1>6. \A n \in 0..LaneCount : D[n] \in SUBSET Lanes
    <2> DEFINE T == {n \in 0..LaneCount : D[n] \in SUBSET Lanes}
    <2>1. 0 \in T
      BY <1>5, LaneNumbers
    <2>2. ASSUME NEW n \in 1..LaneCount, n - 1 \in T PROVE n \in T
      <3> HIDE DEF A
      <3>1. n \in 0..LaneCount /\ D[n] = A[D[n - 1]] /\ D[n - 1] \in SUBSET Lanes
        BY <1>5, <2>2, LaneNumbers
      <3> QED BY <1>1, <3>1
    <2> HIDE DEF T
    <2>3. 0..LaneCount \subseteq T
      BY <2>1, <2>2, UpTo, LaneNumbers
    <2> QED BY <2>3 DEF T
  <1>7. ASSUME NEW n \in 1..LaneCount PROVE D[n] = D[n - 1] \cup NextBatch(p, D[n - 1])
    <2>1. n - 1 \in 0..LaneCount
      BY LaneNumbers
    <2> QED BY <1>5, <1>6, <2>1
  <1>8. Completes(D, p)
    <2>1. \A n \in 0..LaneCount : n = 0 \/ n \in 1..LaneCount
      BY LaneNumbers
    <2>2. \A n \in 0..LaneCount :
            (IF n = 0 THEN {} ELSE A[D[n - 1]])
              = IF n = 0 THEN {} ELSE D[n - 1] \cup NextBatch(p, D[n - 1])
      <3> HIDE DEF A
      <3> QED BY <1>5, <1>7, <2>1
    <2> HIDE DEF A
    <2>3. D = [n \in 0..LaneCount |-> IF n = 0 THEN {} ELSE A[D[n - 1]]]
      BY <1>3
    <2> QED BY <2>2, <2>3 DEF Completes
  <1> QED BY <1>4, <1>8

\* Each batch is of lanes not completed before.
LEMMA CompletedGrows ==
  ASSUME NEW p, NEW d, Completes(d, p)
  PROVE  /\ d[0] = {}
         /\ \A n \in 1..LaneCount : d[n] = d[n - 1] \cup NextBatch(p, d[n - 1])
         /\ \A n \in 1..LaneCount : NextBatch(p, d[n - 1]) \subseteq Lanes \ d[n - 1]
         /\ \A n \in 0..LaneCount : d[n] \subseteq Lanes
  <1>1. \A n \in 0..LaneCount : d[n] = IF n = 0 THEN {} ELSE d[n - 1] \cup NextBatch(p, d[n - 1])
    BY DEF Completes
  <1>2. 0 \in 0..LaneCount /\ \A n \in 1..LaneCount : n \in 0..LaneCount /\ n # 0
    BY LaneNumbers
  <1>3. d[0] = {} /\ \A n \in 1..LaneCount : d[n] = d[n - 1] \cup NextBatch(p, d[n - 1])
    BY <1>1, <1>2
  <1>4. \A c : NextBatch(p, c) \subseteq Lanes \ c
    BY BatchIsMaximal DEF Ready
  <1>5. \A n \in 0..LaneCount : d[n] \subseteq Lanes
    <2> DEFINE T == {n \in 0..LaneCount : d[n] \subseteq Lanes}
    <2>1. 0 \in T
      BY <1>2, <1>3
    <2>2. \A n \in 1..LaneCount : n - 1 \in T => n \in T
      BY <1>2, <1>3, <1>4
    <2> HIDE DEF T
    <2>3. 0..LaneCount \subseteq T
      BY <2>1, <2>2, UpTo, LaneNumbers
    <2> QED BY <2>3 DEF T
  <1> QED BY <1>3, <1>4, <1>5

\* What a round completes is the batch of the lanes that were ready.
LEMMA BatchesAreRounds ==
  \A p : \E d : /\ Completes(d, p)
                /\ ExecutionBatches(p) = [n \in Made(d, p) |-> NextBatch(p, d[n - 1])]
  <1> TAKE p
  <1>1. PICK d : /\ Completes(d, p)
                 /\ ExecutionBatches(p) =
                      [n \in { k \in 1..LaneCount : d[k] # d[k - 1] } |-> d[n] \ d[n - 1]]
    BY CompletesExists
  <1>2. \A n \in 1..LaneCount : /\ d[n] = d[n - 1] \cup NextBatch(p, d[n - 1])
                                 /\ NextBatch(p, d[n - 1]) \subseteq Lanes \ d[n - 1]
    BY <1>1, CompletedGrows
  <1>3. \A n \in 1..LaneCount : d[n] \ d[n - 1] = NextBatch(p, d[n - 1])
    BY <1>2
  <1>4. \A c : NextBatch(p, c) = {} <=> Ready(p, c) = {}
    BY BatchIsMaximal
  <1>5. { k \in 1..LaneCount : d[k] # d[k - 1] } = Made(d, p)
    <2>1. \A k \in 1..LaneCount : d[k] # d[k - 1] <=> Ready(p, d[k - 1]) # {}
      <3> TAKE k \in 1..LaneCount
      <3> DEFINE b == NextBatch(p, d[k - 1])
      <3>1. d[k] = d[k - 1] \cup b /\ b \cap d[k - 1] = {}
        BY <1>2
      <3>2. b = {} <=> Ready(p, d[k - 1]) = {}
        BY <1>4
      <3> HIDE DEF b
      <3> QED BY <3>1, <3>2
    <2> QED BY <2>1 DEF Made
  <1>6. \A n \in Made(d, p) : d[n] \ d[n - 1] = NextBatch(p, d[n - 1])
    BY <1>3 DEF Made
  <1> QED BY <1>1, <1>5, <1>6

\* While lanes are ready, each batch completes one at least.
LEMMA CompletedCounts ==
  ASSUME NEW p, NEW d, Completes(d, p), NEW N \in 0..LaneCount, \A k \in 1..N : k \in Made(d, p)
  PROVE  Cardinality(d[N]) >= N
  <1> DEFINE T == {n \in 0..N : Cardinality(d[n]) >= n}
  <1>1. N \in Nat /\ N <= LaneCount /\ 0..N \subseteq 0..LaneCount /\ 1..N \subseteq 1..LaneCount
    BY LaneNumbers
  <1>2. \A n \in 0..LaneCount : IsFiniteSet(d[n]) /\ Cardinality(d[n]) \in Nat
    <2>1. IsFiniteSet(Lanes)
      BY LaneNumbers, FS_Interval
    <2> QED BY <2>1, CompletedGrows, FS_Subset, FS_CardinalityType
  <1>3. 0 \in T
    BY <1>1, <1>2, FS_EmptySet, CompletedGrows
  <1>4. ASSUME NEW n \in 1..N, n - 1 \in T PROVE n \in T
    <2>1. n \in 1..LaneCount /\ n - 1 \in 0..LaneCount /\ n \in 0..LaneCount /\ n \in 0..N
      BY <1>1, LaneNumbers
    <2>2. PICK l : l \in NextBatch(p, d[n - 1])
      <3>1. Ready(p, d[n - 1]) # {}
        BY DEF Made
      <3> QED BY <3>1, BatchIsMaximal
    <2>3. l \notin d[n - 1] /\ d[n - 1] \cup {l} \subseteq d[n]
      BY <2>1, <2>2, CompletedGrows
    <2>4. Cardinality(d[n - 1] \cup {l}) = Cardinality(d[n - 1]) + 1
      BY <1>2, <2>1, <2>3, FS_AddElement
    <2>5. Cardinality(d[n - 1] \cup {l}) <= Cardinality(d[n])
      BY <1>2, <2>1, <2>3, FS_Subset
    <2>6. Cardinality(d[n - 1]) >= n - 1
      BY <1>4
    <2> QED BY <1>2, <2>1, <2>4, <2>5, <2>6
  <1> HIDE DEF T
  <1>5. 0..N \subseteq T
    BY <1>1, <1>3, <1>4, UpTo
  <1> QED BY <1>1, <1>5 DEF T

\* An acyclic plan has a ready lane until all are completed.
LEMMA SomeLaneIsReady ==
  ASSUME NEW p \in Plans, NEW c \in SUBSET Lanes, Ready(p, c) = {}
  PROVE  c = Lanes
  <1> SUFFICES ASSUME Lanes \ c # {} PROVE FALSE
    OBVIOUS
  <1>1. p.prereq \in [Lanes -> SUBSET Lanes]
    BY PlanAssumption DEF Plans, Lanes
  <1>2. PICK rank \in [Lanes -> Lanes] : \A l \in Lanes : \A q \in p.prereq[l] : rank[q] < rank[l]
    BY DEF Plans, Acyclic
  <1> DEFINE R == {rank[l] : l \in Lanes \ c}
  <1>3. R \subseteq Nat /\ R # {}
    BY LaneNumbers
  <1>4. PICK x \in R : \A y \in R : x <= y
    BY <1>3, LeastNat
  <1>5. PICK l \in Lanes \ c : rank[l] = x
    BY <1>4
  <1>6. p.prereq[l] \subseteq c
    <2> SUFFICES ASSUME NEW q \in p.prereq[l], q \notin c PROVE FALSE
      OBVIOUS
    <2>1. q \in Lanes \ c
      BY <1>1
    <2>2. x <= rank[q] /\ rank[q] < x
      BY <1>2, <1>4, <1>5, <2>1
    <2>3. rank[q] \in Nat /\ x \in Nat
      BY <1>3, <1>4, <2>1, LaneNumbers
    <2> QED BY <2>2, <2>3
  <1> QED BY <1>5, <1>6 DEF Ready

\* The batches are numbered without a gap and complete all lanes.
LEMMA RoundsEnd ==
  ASSUME NEW p \in Plans, NEW d, Completes(d, p)
  PROVE  \E N \in 0..LaneCount : Made(d, p) = 1..N /\ d[N] = Lanes
  <1>0. /\ d[0] = {}
        /\ \A n \in 1..LaneCount : d[n] = d[n - 1] \cup NextBatch(p, d[n - 1])
        /\ \A n \in 0..LaneCount : d[n] \subseteq Lanes
    BY CompletedGrows
  <1>1. CASE 1..LaneCount \subseteq Made(d, p)
    <2>1. Made(d, p) = 1..LaneCount
      BY <1>1 DEF Made
    <2>2. Cardinality(d[LaneCount]) >= LaneCount
      BY <2>1, CompletedCounts, LaneNumbers
    <2>3. IsFiniteSet(Lanes) /\ Cardinality(Lanes) = LaneCount
      BY LaneNumbers, FS_Interval
    <2>4. d[LaneCount] \subseteq Lanes
      BY <1>0, LaneNumbers
    <2>5. d[LaneCount] = Lanes
      <3>1. Cardinality(d[LaneCount]) <= LaneCount /\ Cardinality(d[LaneCount]) \in Nat
        BY <2>3, <2>4, FS_Subset, FS_CardinalityType
      <3> QED BY <2>2, <2>3, <2>4, <3>1, FS_Subset, LaneNumbers
    <2> QED BY <2>1, <2>5, LaneNumbers
  <1>2. CASE ~ (1..LaneCount \subseteq Made(d, p))
    <2> DEFINE M == 1..LaneCount \ Made(d, p)
    <2>1. M \subseteq Nat /\ M # {}
      BY <1>2, LaneNumbers
    <2>2. PICK x \in M : \A y \in M : x <= y
      BY <2>1, LeastNat
    <2>3. x \in 1..LaneCount /\ x - 1 \in 0..LaneCount /\ Ready(p, d[x - 1]) = {}
      BY <2>2, LaneNumbers DEF Made
    <2>4. d[x - 1] = Lanes
      BY <1>0, <2>3, SomeLaneIsReady
    <2>5. \A n \in (x - 1)..LaneCount : d[n] = Lanes
      <3> DEFINE T == {n \in 0..LaneCount : x - 1 <= n => d[n] = Lanes}
      <3>1. 0 \in T
        BY <2>3, <2>4, LaneNumbers
      <3>2. ASSUME NEW n \in 1..LaneCount, n - 1 \in T PROVE n \in T
        <4>1. n \in 0..LaneCount /\ n - 1 \in 0..LaneCount
          BY LaneNumbers
        <4>2. CASE x - 1 <= n - 1
          <5>1. d[n - 1] = Lanes
            BY <3>2, <4>2
          <5>2. d[n] = Lanes
            BY <1>0, <4>1, <5>1
          <5> QED BY <4>1, <5>2
        <4>3. CASE ~ (x - 1 <= n - 1)
          <5>1. x - 1 <= n => x - 1 = n
            BY <2>3, <4>3, LaneNumbers
          <5> QED BY <2>4, <4>1, <5>1
        <4> QED BY <4>2, <4>3
      <3> HIDE DEF T
      <3>3. 0..LaneCount \subseteq T
        BY <3>1, <3>2, UpTo, LaneNumbers
      <3>4. ASSUME NEW n \in (x - 1)..LaneCount PROVE d[n] = Lanes
        <4>1. n \in 0..LaneCount /\ x - 1 <= n
          BY <2>3, LaneNumbers
        <4> QED BY <3>3, <4>1 DEF T
      <3> QED BY <3>4
    <2>6. \A k \in 1..LaneCount : k \in Made(d, p) <=> k <= x - 1
      <3> TAKE k \in 1..LaneCount
      <3>1. CASE k <= x - 1
        <4>1. k \notin M
          BY <2>2, <2>3, <3>1, LaneNumbers
        <4> QED BY <3>1, <4>1
      <3>2. CASE ~ (k <= x - 1)
        <4>1. k - 1 \in (x - 1)..LaneCount
          BY <2>3, <3>2, LaneNumbers
        <4>2. Ready(p, d[k - 1]) = {}
          BY <2>5, <4>1 DEF Ready
        <4> QED BY <3>2, <4>2 DEF Made
      <3> QED BY <3>1, <3>2
    <2>7. Made(d, p) = 1..(x - 1)
      <3>1. Made(d, p) \subseteq 1..LaneCount
        BY DEF Made
      <3>2. 1..(x - 1) \subseteq 1..LaneCount
        BY <2>3, LaneNumbers
      <3>3. ASSUME NEW k \in Made(d, p) PROVE k \in 1..(x - 1)
        <4>1. k \in 1..LaneCount /\ k <= x - 1
          BY <2>6, <3>1
        <4> QED BY <4>1, <2>3, LaneNumbers
      <3>4. ASSUME NEW k \in 1..(x - 1) PROVE k \in Made(d, p)
        <4>1. k \in 1..LaneCount /\ k <= x - 1
          BY <3>2, <2>3, LaneNumbers
        <4> QED BY <2>6, <4>1
      <3> QED BY <3>3, <3>4
    <2> QED BY <2>3, <2>4, <2>7
  <1> QED BY <1>1, <1>2

\* What BatchesAreLegal says of the batches s of a plan p.
Legal(p, s) ==
    LET Before(k) == UNION { s[i] : i \in 1..(k - 1) }
    IN  /\ Before(Len(s) + 1) = Lanes
        /\ \A k \in DOMAIN s : \A l \in s[k] :
             /\ l \notin Before(k)
             /\ p.prereq[l] \subseteq Before(k)
             /\ \A m \in s[k] \ {l} : ~Conflicts(p.foot[l], p.foot[m])
             /\ k > 1 => \/ p.prereq[l] \cap s[k - 1] # {}
                         \/ \E m \in s[k - 1] : m < l /\ Conflicts(p.foot[l], p.foot[m])

LEMMA ScheduleIsLegal ==
  ASSUME NEW p \in Plans
  PROVE  /\ Legal(p, ExecutionBatches(p))
         /\ \E N \in 0..LaneCount : ExecutionBatches(p) \in [1..N -> SUBSET Lanes]
  <1> DEFINE s == ExecutionBatches(p)
  <1>1. PICK d : Completes(d, p) /\ s = [n \in Made(d, p) |-> NextBatch(p, d[n - 1])]
    BY BatchesAreRounds
  <1>2. PICK N \in 0..LaneCount : Made(d, p) = 1..N /\ d[N] = Lanes
    BY <1>1, RoundsEnd
  <1>3. s = [n \in 1..N |-> NextBatch(p, d[n - 1])]
    BY <1>1, <1>2
  <1> HIDE DEF s
  <1>4. /\ d[0] = {}
        /\ \A n \in 1..LaneCount : d[n] = d[n - 1] \cup NextBatch(p, d[n - 1])
        /\ \A n \in 1..LaneCount : NextBatch(p, d[n - 1]) \subseteq Lanes \ d[n - 1]
        /\ \A n \in 0..LaneCount : d[n] \subseteq Lanes
    BY <1>1, CompletedGrows
  <1>5. N \in Nat /\ N <= LaneCount /\ 1..N \subseteq 1..LaneCount
    BY LaneNumbers
  <1>6. DOMAIN s = 1..N /\ \A n \in 1..N : s[n] = NextBatch(p, d[n - 1]) /\ s[n] \subseteq Lanes
    BY <1>3, <1>4, <1>5
  <1>7. s \in [1..N -> SUBSET Lanes]
    BY <1>3, <1>6
  <1>8. Len(s) = N
    BY <1>5, <1>7
  <1>9. \A n \in 0..N : UNION { s[i] : i \in 1..n } = d[n]
    <2> DEFINE T == {n \in 0..N : UNION { s[i] : i \in 1..n } = d[n]}
    <2>1. 0 \in T
      <3>1. 0 \in 0..N /\ 1..0 = {}
        BY <1>5
      <3> QED BY <1>4, <3>1
    <2>2. ASSUME NEW n \in 1..N, n - 1 \in T PROVE n \in T
      <3>1. n \in 0..N /\ n \in 1..LaneCount /\ 1..n = 1..(n - 1) \cup {n}
        BY <1>5
      <3>2. UNION { s[i] : i \in 1..n } = (UNION { s[i] : i \in 1..(n - 1) }) \cup s[n]
        BY <3>1
      <3>3. UNION { s[i] : i \in 1..(n - 1) } = d[n - 1]
        BY <2>2
      <3> QED BY <1>4, <1>6, <3>1, <3>2, <3>3
    <2> HIDE DEF T
    <2>3. 0..N \subseteq T
      BY <1>5, <2>1, <2>2, UpTo
    <2> QED BY <2>3 DEF T
  <1>10. \A k \in 1..(N + 1) : UNION { s[i] : i \in 1..(k - 1) } = d[k - 1]
    <2> TAKE k \in 1..(N + 1)
    <2>1. k - 1 \in 0..N
      BY <1>5
    <2> QED BY <1>9, <2>1
  <1>11. UNION { s[i] : i \in 1..((Len(s) + 1) - 1) } = Lanes
    <2>1. (Len(s) + 1) - 1 = N /\ N \in 0..N
      BY <1>5, <1>8
    <2> QED BY <1>2, <1>9, <2>1
  <1>12. ASSUME NEW k \in DOMAIN s, NEW l \in s[k]
         PROVE  /\ l \notin UNION { s[i] : i \in 1..(k - 1) }
                /\ p.prereq[l] \subseteq UNION { s[i] : i \in 1..(k - 1) }
                /\ \A m \in s[k] \ {l} : ~Conflicts(p.foot[l], p.foot[m])
                /\ k > 1 => \/ p.prereq[l] \cap s[k - 1] # {}
                            \/ \E m \in s[k - 1] : m < l /\ Conflicts(p.foot[l], p.foot[m])
    <2>1. k \in 1..N /\ k \in 1..(N + 1) /\ k \in 1..LaneCount /\ s[k] = NextBatch(p, d[k - 1])
      BY <1>5, <1>6
    <2>2. UNION { s[i] : i \in 1..(k - 1) } = d[k - 1]
      BY <1>10, <2>1
    <2>3. l \in Lanes \ d[k - 1] /\ p.prereq[l] \subseteq d[k - 1]
      BY <2>1, BatchIsMaximal DEF Ready
    <2>4. \A m \in s[k] \ {l} : ~Conflicts(p.foot[l], p.foot[m])
      BY <2>1, BatchIsMaximal
    <2>5. ASSUME k > 1
          PROVE  \/ p.prereq[l] \cap s[k - 1] # {}
                 \/ \E m \in s[k - 1] : m < l /\ Conflicts(p.foot[l], p.foot[m])
      <3>1. k - 1 \in 1..N /\ k - 1 \in 1..LaneCount
        BY <1>5, <2>1, <2>5
      <3> DEFINE c == d[(k - 1) - 1]
      <3>2. s[k - 1] = NextBatch(p, c) /\ d[k - 1] = c \cup s[k - 1]
        BY <1>4, <1>6, <3>1
      <3> HIDE DEF c
      <3>3. CASE l \in Ready(p, c)
        <4>1. l \in Ready(p, c) \ NextBatch(p, c)
          BY <2>3, <3>2, <3>3
        <4> QED BY <3>2, <4>1, BatchIsMaximal
      <3>4. CASE l \notin Ready(p, c)
        <4>1. ~ (p.prereq[l] \subseteq c)
          BY <2>3, <3>2, <3>4 DEF Ready
        <4> QED BY <2>3, <3>2, <4>1
      <3> QED BY <3>3, <3>4
    <2> QED BY <2>2, <2>3, <2>4, <2>5
  <1>13. Legal(p, s)
    BY <1>11, <1>12 DEF Legal
  <1> QED BY <1>7, <1>13 DEF s

-----------------------------------------------------------------------------
(***************************************************************************)
(* Admission.                                                              *)
(***************************************************************************)

LEMMA StatusOfRuns ==
  /\ LaneStatus(Skipped) = "skipped"
  /\ \A r \in LaneRuns : LaneStatus(r) \in {"succeeded", "failed", "rolled-back"}
  <1>1. \A a, b : Statuses(<<a, b>>) = {a, b}
    <2> TAKE a, b
    <2>1. DOMAIN <<a, b>> = {1, 2}
      OBVIOUS
    <2> QED BY <2>1 DEF Statuses
  <1>2. LaneStatus(Skipped) = "skipped"
    <2>1. Statuses(Skipped) = {"skipped"}
      BY <1>1 DEF Skipped
    <2> QED BY <2>1 DEF LaneStatus
  <1>3. LaneStatus(<<"succeeded", "succeeded">>) = "succeeded"
    <2>1. Statuses(<<"succeeded", "succeeded">>) = {"succeeded"}
      BY <1>1
    <2> QED BY <2>1 DEF LaneStatus
  <1>4. LaneStatus(<<"failed", "skipped">>) = "failed"
    <2>1. Statuses(<<"failed", "skipped">>) = {"failed", "skipped"}
      BY <1>1
    <2> QED BY <2>1 DEF LaneStatus
  <1>5. LaneStatus(<<"succeeded", "failed">>) = "failed"
    <2>1. Statuses(<<"succeeded", "failed">>) = {"succeeded", "failed"}
      BY <1>1
    <2> QED BY <2>1 DEF LaneStatus
  <1>6. LaneStatus(<<"rolled-back", "failed">>) = "rolled-back"
    <2>1. Statuses(<<"rolled-back", "failed">>) = {"rolled-back", "failed"}
      BY <1>1
    <2> QED BY <2>1 DEF LaneStatus
  <1> QED BY <1>2, <1>3, <1>4, <1>5, <1>6 DEF LaneRuns

\* The lanes of every set that holds a lane's prerequisites and those of its
\* own members.
Reachable(p, l) ==
    { q \in Lanes : \A s \in SUBSET Lanes :
        p.prereq[l] \cup UNION { p.prereq[r] : r \in s } \subseteq s => q \in s }

\* They are its prerequisites and what is reachable from these.
LEMMA ReachableUnfolds ==
  ASSUME NEW p \in Plans, NEW l \in Lanes
  PROVE  Reachable(p, l) =
           p.prereq[l] \cup UNION { Reachable(p, q) : q \in p.prereq[l] }
  <1>1. p.prereq \in [Lanes -> SUBSET Lanes]
    BY PlanAssumption DEF Plans, Lanes
  <1> DEFINE Closed(s) == \A q \in s : p.prereq[q] \subseteq s
             TP(m) == Reachable(p, m)
  <1>2. \A m \in Lanes : TP(m) = { q \in Lanes : \A s \in SUBSET Lanes :
                                     p.prereq[m] \subseteq s /\ Closed(s) => q \in s }
    <2>1. \A m \in Lanes : \A s \in SUBSET Lanes :
            p.prereq[m] \cup UNION { p.prereq[q] : q \in s } \subseteq s
              <=> p.prereq[m] \subseteq s /\ Closed(s)
      OBVIOUS
    <2> QED BY <2>1 DEF Reachable
  <1> HIDE DEF TP
  <1>3. \A m \in Lanes : TP(m) \subseteq Lanes /\ p.prereq[m] \subseteq TP(m) /\ Closed(TP(m))
    <2> TAKE m \in Lanes
    <2>1. TP(m) \subseteq Lanes /\ p.prereq[m] \subseteq TP(m)
      BY <1>1, <1>2
    <2>2. ASSUME NEW r \in TP(m), NEW q \in p.prereq[r] PROVE q \in TP(m)
      <3>1. q \in Lanes
        BY <1>1, <2>1, <2>2
      <3>2. ASSUME NEW s \in SUBSET Lanes, p.prereq[m] \subseteq s, Closed(s) PROVE q \in s
        <4>1. r \in s
          BY <1>2, <2>2, <3>2
        <4> QED BY <3>2, <4>1
      <3> QED BY <1>2, <3>1, <3>2
    <2> QED BY <2>1, <2>2
  <1> DEFINE S == p.prereq[l] \cup UNION { TP(q) : q \in p.prereq[l] }
  <1>4. S \in SUBSET Lanes /\ p.prereq[l] \subseteq S
    BY <1>1, <1>3
  <1>5. Closed(S)
    <2> SUFFICES ASSUME NEW r \in S, NEW q \in p.prereq[r] PROVE q \in S
      OBVIOUS
    <2>1. CASE r \in p.prereq[l]
      <3>1. q \in TP(r)
        BY <1>1, <1>3, <2>1
      <3> QED BY <2>1, <3>1
    <2>2. CASE r \notin p.prereq[l]
      <3>1. PICK m \in p.prereq[l] : r \in TP(m)
        BY <2>2
      <3>2. q \in TP(m)
        BY <1>1, <1>3, <3>1
      <3> QED BY <3>1, <3>2
    <2> QED BY <2>1, <2>2
  <1>6. TP(l) \subseteq S
    <2> HIDE DEF S
    <2> QED BY <1>2, <1>4, <1>5
  <1>7. S \subseteq TP(l)
    <2> SUFFICES ASSUME NEW m \in p.prereq[l], NEW q \in TP(m) PROVE q \in TP(l)
      BY <1>3
    <2>1. m \in Lanes /\ q \in Lanes
      BY <1>1, <1>3
    <2>2. ASSUME NEW s \in SUBSET Lanes, p.prereq[l] \subseteq s, Closed(s) PROVE q \in s
      <3>1. m \in s
        BY <2>2
      <3>2. p.prereq[m] \subseteq s
        BY <2>2, <3>1
      <3> QED BY <1>2, <2>1, <2>2, <3>2
    <2> QED BY <1>2, <2>1, <2>2
  <1>8. TP(l) = S
    BY <1>6, <1>7
  <1> QED BY <1>8 DEF TP

\* A lane reaches its prerequisites and what they reach, and nothing else.
LEMMA Reaches ==
  ASSUME NEW p \in Plans
  PROVE  \A l \in Lanes : TransitivePrerequisites(p, l) =
           p.prereq[l] \cup UNION { TransitivePrerequisites(p, q) : q \in p.prereq[l] }
  <1> DEFINE Reach(f) == f = [l \in Lanes |-> p.prereq[l] \cup UNION { f[q] : q \in p.prereq[l] }]
             g == [l \in Lanes |-> Reachable(p, l)]
             h == CHOOSE f : Reach(f)
  <1>1. p.prereq \in [Lanes -> SUBSET Lanes]
    BY PlanAssumption DEF Plans, Lanes
  <1>2. Reach(g)
    <2> SUFFICES ASSUME NEW l \in Lanes
                 PROVE  Reachable(p, l) = p.prereq[l] \cup UNION { g[q] : q \in p.prereq[l] }
      OBVIOUS
    <2>1. \A q \in p.prereq[l] : g[q] = Reachable(p, q)
      BY <1>1
    <2> HIDE DEF g
    <2> QED BY <2>1, ReachableUnfolds
  <1>3. Reach(h)
    <2> HIDE DEF Reach, g
    <2> QED BY <1>2
  <1>4. \A l \in Lanes : TransitivePrerequisites(p, l) = h[l]
    BY DEF TransitivePrerequisites
  <1>5. \A l \in Lanes : h[l] = p.prereq[l] \cup UNION { h[q] : q \in p.prereq[l] }
    <2> HIDE DEF h
    <2> QED BY <1>3
  <1> HIDE DEF h
  <1> QED BY <1>1, <1>4, <1>5

\* Skips propagate exactly when each lane is run whose prerequisites succeeded.
LEMMA PropagationIsDirect ==
  ASSUME NEW p \in Plans, NEW os \in [Lanes -> LaneRuns \cup {Skipped}]
  PROVE  LanesPropagate(p, os)
           <=> \A l \in Lanes :
                 IF \A q \in p.prereq[l] : LaneStatus(os[q]) = "succeeded"
                 THEN os[l] \in LaneRuns ELSE os[l] = Skipped
  <1>1. p.prereq \in [Lanes -> SUBSET Lanes]
    BY PlanAssumption DEF Plans, Lanes
  <1> DEFINE Skips(l) == LaneStatus(os[l]) = "skipped"
             Failures == { l \in Lanes : LaneStatus(os[l]) \in {"failed", "rolled-back"} }
             Blocked(l) == TransitivePrerequisites(p, l) \cap Failures # {}
             Stopped(l) == \E q \in p.prereq[l] : LaneStatus(os[q]) # "succeeded"
  <1>2. \A l \in Lanes : /\ os[l] = Skipped <=> Skips(l)
                         /\ os[l] \in LaneRuns <=> ~Skips(l)
                         /\ LaneStatus(os[l]) # "succeeded" <=> Skips(l) \/ l \in Failures
    BY StatusOfRuns
  <1>3. LanesPropagate(p, os) <=> \A l \in Lanes : Skips(l) <=> Blocked(l)
    BY DEF LanesPropagate
  <1>4. \A l \in Lanes : Blocked(l) <=> \E q \in p.prereq[l] : q \in Failures \/ Blocked(q)
    <2> TAKE l \in Lanes
    <2>1. TransitivePrerequisites(p, l) =
            p.prereq[l] \cup UNION { TransitivePrerequisites(p, q) : q \in p.prereq[l] }
      BY Reaches
    <2> HIDE DEF Failures
    <2> QED BY <2>1
  <1>5. \A l \in Lanes : Stopped(l) <=> \E q \in p.prereq[l] : q \in Failures \/ Skips(q)
    BY <1>1, <1>2
  <1>6. (\A l \in Lanes : IF \A q \in p.prereq[l] : LaneStatus(os[q]) = "succeeded"
                          THEN os[l] \in LaneRuns ELSE os[l] = Skipped)
          <=> \A l \in Lanes : Skips(l) <=> Stopped(l)
    <2> HIDE DEF Skips
    <2> QED BY <1>2
  <1> HIDE DEF Skips, Blocked, Stopped, Failures
  <1>7. ASSUME \A l \in Lanes : Skips(l) <=> Blocked(l)
        PROVE  \A l \in Lanes : Skips(l) <=> Stopped(l)
    BY <1>1, <1>4, <1>5, <1>7
  <1>8. ASSUME \A l \in Lanes : Skips(l) <=> Stopped(l)
        PROVE  \A l \in Lanes : Skips(l) <=> Blocked(l)
    <2> DEFINE W == { l \in Lanes : ~ (Skips(l) <=> Blocked(l)) }
    <2>1. PICK rank \in [Lanes -> Lanes] :
            \A l \in Lanes : \A q \in p.prereq[l] : rank[q] < rank[l]
      BY DEF Plans, Acyclic
    <2> SUFFICES ASSUME W # {} PROVE FALSE
      OBVIOUS
    <2> DEFINE R == { rank[l] : l \in W }
    <2>2. R \subseteq Nat /\ R # {}
      BY LaneNumbers
    <2>3. PICK x \in R : \A y \in R : x <= y
      BY <2>2, LeastNat
    <2>4. PICK l \in W : rank[l] = x
      BY <2>3
    <2>5. ASSUME NEW q \in p.prereq[l] PROVE Skips(q) <=> Blocked(q)
      <3>1. q \in Lanes
        BY <1>1
      <3>2. rank[q] < x /\ rank[q] \in Nat /\ x \in Nat
        <4>1. l \in Lanes /\ rank[q] \in Lanes /\ rank[l] \in Lanes
          BY <3>1
        <4>2. rank[q] < rank[l]
          BY <2>1, <2>5, <4>1
        <4>3. \A i \in Lanes : i \in Nat
          BY LaneNumbers
        <4>4. rank[q] \in Nat /\ rank[l] \in Nat
          BY <4>1, <4>3
        <4> HIDE DEF R, W
        <4> QED BY <2>4, <4>2, <4>4
      <3>3. q \notin W
        BY <2>3, <3>2
      <3> QED BY <3>1, <3>3
    <2> QED BY <1>4, <1>5, <1>8, <2>4, <2>5
  <1> QED BY <1>3, <1>6, <1>7, <1>8

-----------------------------------------------------------------------------
(***************************************************************************)
(* The host.                                                               *)
(***************************************************************************)

IsClaim(c) ==
    /\ DOMAIN c = {"id", "writes", "keys", "needs", "until", "status"}
    /\ c.id \in Nat /\ c.until \in Nat

Apart(group) ==
    \A c, d \in group : c # d =>
        c.id # d.id /\ ~Overlap(c.writes, d.writes) /\ c.keys \cap d.keys = {}

HostTypes ==
    /\ plan \in Plans
    /\ phase \in {"advisory", "approved"} \cup Modes
    /\ schedule = IF phase = "advisory" THEN <<>> ELSE ExecutionBatches(plan)
    /\ outcomes \in [Lanes -> LaneRuns \cup {Skipped, <<>>}]
    /\ now \in Nat
    /\ \A c \in claims : IsClaim(c)

HostInv ==
    /\ HostTypes
    /\ phase \in {"advisory", "approved"} => claims = {}
    /\ Apart(Holding(claims, now))
    /\ \A l \in Lanes : Running(l) => l \in CurrentBatch

LEMMA ReleasedClaims ==
  \A c, s : IsClaim(c) =>
    IsClaim(Released(c, s)) /\ Released(c, s).id = c.id /\ Released(c, s).status = s
  <1> SUFFICES ASSUME NEW c, NEW s, IsClaim(c)
               PROVE  IsClaim(Released(c, s)) /\ Released(c, s).id = c.id
                      /\ Released(c, s).status = s
    OBVIOUS
  <1>1. DOMAIN c = {"id", "writes", "keys", "needs", "until", "status"}
    BY DEF IsClaim
  <1>2. LET r == [c EXCEPT !.status = s, !.until = 0]
        IN  DOMAIN r = DOMAIN c /\ r.id = c.id /\ r.status = s /\ r.until = 0
    BY <1>1
  <1> QED BY <1>2 DEF IsClaim, Released

LEMMA ClaimsAreClaims ==
  ASSUME HostTypes
  PROVE  /\ \A l \in Lanes : IsClaim(LaneClaim(l))
         /\ \A c \in ForeignClaims : IsClaim(ForeignClaim(c))
  <1>1. now + Lease \in Nat
    BY ExecutionAssumption DEF HostTypes
  <1>2. \A i, u \in Nat : \A w, k, n, s :
          IsClaim([id |-> i, writes |-> w, keys |-> k, needs |-> n, until |-> u, status |-> s])
    <2>1. ASSUME NEW i \in Nat, NEW u \in Nat, NEW w, NEW k, NEW n, NEW s
          PROVE  LET c == [id |-> i, writes |-> w, keys |-> k, needs |-> n,
                           until |-> u, status |-> s]
                 IN  DOMAIN c = {"id", "writes", "keys", "needs", "until", "status"}
                     /\ c.id = i /\ c.until = u
      OBVIOUS
    <2> QED BY <2>1 DEF IsClaim
  <1>3. ASSUME NEW l \in Lanes PROVE IsClaim(LaneClaim(l))
    <2>1. l \in Nat
      BY LaneNumbers
    <2> QED BY <1>1, <1>2, <2>1 DEF LaneClaim
  <1>4. ASSUME NEW c \in ForeignClaims PROVE IsClaim(ForeignClaim(c))
    BY <1>1, <1>2, ExecutionAssumption DEF ForeignClaim
  <1> QED BY <1>3, <1>4

LEMMA HostInitially == HostInit => HostInv
  <1> SUFFICES ASSUME HostInit PROVE HostInv
    OBVIOUS
  <1>1. HostTypes
    BY DEF HostInit, HostTypes, NotRun
  <1>2. Apart(Holding(claims, now))
    BY DEF HostInit, Apart, Holding
  <1> QED BY <1>1, <1>2 DEF HostInit, HostInv, Running, ClaimsOf

\* Claims that hold no more than before are as far apart.
LEMMA FewerAreApart ==
  \A h, g : g \subseteq h /\ Apart(h) => Apart(g)
  BY DEF Apart

\* The lanes of the current batch are lanes of one batch.
LEMMA OneBatch ==
  ASSUME HostTypes
  PROVE  \A l, m \in CurrentBatch :
           \E k \in DOMAIN schedule : l \in schedule[k] /\ m \in schedule[k]
  <1>1. \E N \in Nat : DOMAIN schedule = 1..N
    <2>1. CASE phase = "advisory"
      <3>1. schedule = <<>> /\ DOMAIN schedule = 1..0
        BY <2>1 DEF HostTypes
      <3> QED BY <3>1
    <2>2. CASE phase # "advisory"
      <3>1. schedule = ExecutionBatches(plan) /\ plan \in Plans
        BY <2>2 DEF HostTypes
      <3> QED BY <3>1, ScheduleIsLegal, LaneNumbers
    <2> QED BY <2>1, <2>2
  <1>2. OpenBatches \subseteq DOMAIN schedule /\ OpenBatches \subseteq Nat
    BY <1>1 DEF OpenBatches
  <1>3. ASSUME NEW l \in CurrentBatch, NEW m \in CurrentBatch
        PROVE  \E k \in DOMAIN schedule : l \in schedule[k] /\ m \in schedule[k]
    <2>1. PICK k \in OpenBatches : l \in schedule[k] /\ \A j \in OpenBatches : k <= j
      BY DEF CurrentBatch
    <2>2. PICK i \in OpenBatches : m \in schedule[i] /\ \A j \in OpenBatches : i <= j
      BY DEF CurrentBatch
    <2>3. k = i
      BY <1>2, <2>1, <2>2
    <2> QED BY <1>2, <2>1, <2>2, <2>3
  <1> QED BY <1>3

\* A lane that is not over stays in the current batch while lanes end.
LEMMA BatchStays ==
  ASSUME schedule' = schedule, \A l \in Lanes : Over(l) => Over(l)',
         HostTypes, NEW l \in Lanes, l \in CurrentBatch, ~Over(l)'
  PROVE  (l \in CurrentBatch)'
  <1>1. PICK k \in OpenBatches : l \in schedule[k] /\ \A j \in OpenBatches : k <= j
    BY DEF CurrentBatch
  <1>2. \A i \in DOMAIN schedule : schedule[i] \subseteq Lanes
    <2>1. CASE phase = "advisory"
      BY <2>1 DEF HostTypes
    <2>2. CASE phase # "advisory"
      <3>1. schedule = ExecutionBatches(plan) /\ plan \in Plans
        BY <2>2 DEF HostTypes
      <3> QED BY <3>1, ScheduleIsLegal
    <2> QED BY <2>1, <2>2
  <1>3. OpenBatches' \subseteq OpenBatches
    BY <1>2 DEF OpenBatches
  <1>4. k \in OpenBatches'
    BY <1>1 DEF OpenBatches
  <1>5. k \in { i \in OpenBatches' : \A j \in OpenBatches' : i <= j }
    BY <1>1, <1>3, <1>4
  <1>6. CurrentBatch' = UNION { schedule[n] :
                                n \in { i \in OpenBatches' : \A j \in OpenBatches' : i <= j } }
    BY DEF CurrentBatch
  <1> QED BY <1>1, <1>5, <1>6

LEMMA HostStepTypes == HostTypes /\ [HostNext]_hostVars => HostTypes'
  <1> SUFFICES ASSUME HostTypes, [HostNext]_hostVars PROVE HostTypes'
    OBVIOUS
  <1>1. \A l \in Lanes : IsClaim(LaneClaim(l))
    BY ClaimsAreClaims
  <1>2. \A c \in ForeignClaims : IsClaim(ForeignClaim(c))
    BY ClaimsAreClaims
  <1>3. \A c, s : IsClaim(c) => IsClaim(Released(c, s))
    BY ReleasedClaims
  <1>4. ASSUME NEW by \in Identities, Approve(by) PROVE HostTypes'
    BY <1>4 DEF HostTypes, Approve
  <1>5. ASSUME NEW by \in Identities, NEW mode \in Modes, Grant(by, mode) PROVE HostTypes'
    BY <1>5 DEF HostTypes, Grant, Modes
  <1>6. ASSUME NEW l \in Lanes, ClaimLane(l) PROVE HostTypes'
    BY <1>1, <1>6 DEF HostTypes, ClaimLane
  <1>7. ASSUME NEW l \in Lanes, NEW run \in HostRuns, FinishLane(l, run) PROVE HostTypes'
    <2>1. run \in LaneRuns
      BY ExecutionAssumption
    <2>2. outcomes' \in [Lanes -> LaneRuns \cup {Skipped, <<>>}]
      BY <1>7, <2>1 DEF HostTypes, FinishLane
    <2>3. \A c \in claims' : IsClaim(c)
      BY <1>3, <1>7 DEF HostTypes, FinishLane
    <2> QED BY <1>7, <2>2, <2>3 DEF HostTypes, FinishLane
  <1>8. ASSUME NEW l \in Lanes, SkipLane(l) PROVE HostTypes'
    <2>1. \A c \in claims' : IsClaim(c)
      BY <1>1, <1>3, <1>8 DEF HostTypes, SkipLane
    <2> QED BY <1>8, <2>1 DEF HostTypes, SkipLane
  <1>9. ASSUME Observe PROVE HostTypes'
    <2>1. \A c \in claims' : IsClaim(c)
      BY <1>1, <1>3, <1>9 DEF HostTypes, Observe
    <2> QED BY <1>9, <2>1 DEF HostTypes, Observe
  <1>10. ASSUME Admit PROVE HostTypes'
    BY <1>10 DEF HostTypes, Admit
  <1>11. ASSUME NEW c \in ForeignClaims, ClaimForeign(c) PROVE HostTypes'
    BY <1>2, <1>11 DEF HostTypes, ClaimForeign
  <1>12. ASSUME Tick PROVE HostTypes'
    BY <1>12 DEF HostTypes, Tick
  <1>13. ASSUME UNCHANGED hostVars PROVE HostTypes'
    BY <1>13 DEF HostTypes, hostVars
  <1> QED BY <1>4, <1>5, <1>6, <1>7, <1>8, <1>9, <1>10, <1>11, <1>12, <1>13 DEF HostNext

LEMMA HostStepApart == HostInv /\ [HostNext]_hostVars => Apart(Holding(claims, now))'
  <1> SUFFICES ASSUME HostInv, [HostNext]_hostVars PROVE Apart(Holding(claims, now))'
    OBVIOUS
  <1>1. \A cs, c, t : ClaimAdmitted(cs, c, t) => Apart(Holding(cs \cup {c}, t))
    BY DEF ClaimAdmitted, GroupIsolated, Apart
  <1>2. ASSUME UNCHANGED <<claims, now>> PROVE Apart(Holding(claims, now))'
    BY <1>2 DEF HostInv
  <1>3. ASSUME NEW l \in Lanes, ClaimLane(l) PROVE Apart(Holding(claims, now))'
    BY <1>1, <1>3 DEF ClaimLane
  <1>4. \A c, s : IsClaim(c) /\ s # "active" => ~HoldsAt(Released(c, s), now)
    BY ReleasedClaims DEF HoldsAt
  <1>t. HostTypes
    BY DEF HostInv
  <1>5. ASSUME NEW l \in Lanes, NEW run \in HostRuns, FinishLane(l, run)
        PROVE  Apart(Holding(claims, now))'
    <2> DEFINE end == CASE LaneStatus(run) = "succeeded"   -> "completed"
                        [] LaneStatus(run) = "rolled-back" -> "rolled-back"
                        [] OTHER                           -> "cancelled"
    <2>1. end # "active"
      OBVIOUS
    <2>2. claims' = { IF c.id = l THEN Released(c, end) ELSE c : c \in claims } /\ now' = now
      BY <1>5 DEF FinishLane
    <2> HIDE DEF end
    <2>3. Holding(claims', now) \subseteq Holding(claims, now)
      BY <1>4, <1>t, <2>1, <2>2 DEF Holding, HostTypes
    <2> QED BY <2>2, <2>3, FewerAreApart DEF HostInv
  <1>6. \A l \in Lanes : IsClaim(LaneClaim(l))
    BY <1>t, ClaimsAreClaims
  <1>7. ASSUME NEW l \in Lanes, SkipLane(l) PROVE Apart(Holding(claims, now))'
    <2>1. claims' = claims \cup {Released(LaneClaim(l), "cancelled")} /\ now' = now
      BY <1>7 DEF SkipLane
    <2>2. Holding(claims', now) \subseteq Holding(claims, now)
      BY <1>4, <1>6, <2>1 DEF Holding
    <2> QED BY <2>1, <2>2, FewerAreApart DEF HostInv
  <1>8. ASSUME Observe PROVE Apart(Holding(claims, now))'
    <2>1. claims' = claims \cup { Released(LaneClaim(l), "cancelled") : l \in Lanes } /\ now' = now
      BY <1>8 DEF Observe
    <2>2. Holding(claims', now) \subseteq Holding(claims, now)
      BY <1>4, <1>6, <2>1 DEF Holding
    <2> QED BY <2>1, <2>2, FewerAreApart DEF HostInv
  <1>9. ASSUME NEW c \in ForeignClaims, ClaimForeign(c) PROVE Apart(Holding(claims, now))'
    BY <1>1, <1>9 DEF ClaimForeign
  <1>10. ASSUME Tick PROVE Apart(Holding(claims, now))'
    <2>1. claims' = claims /\ now' = now + 1
      BY <1>10 DEF Tick
    <2>2. \A c \in claims : HoldsAt(c, now + 1) => HoldsAt(c, now)
      BY <1>t DEF HostTypes, IsClaim, HoldsAt
    <2>3. Holding(claims', now') \subseteq Holding(claims, now)
      BY <2>1, <2>2 DEF Holding
    <2> QED BY <2>3, FewerAreApart DEF HostInv
  <1>11. ASSUME NEW by \in Identities, Approve(by) PROVE UNCHANGED <<claims, now>>
    BY <1>11 DEF Approve
  <1>12. ASSUME NEW by \in Identities, NEW mode \in Modes, Grant(by, mode)
         PROVE  UNCHANGED <<claims, now>>
    BY <1>12 DEF Grant
  <1>13. ASSUME Admit PROVE UNCHANGED <<claims, now>>
    BY <1>13 DEF Admit
  <1>14. ASSUME UNCHANGED hostVars PROVE UNCHANGED <<claims, now>>
    BY <1>14 DEF hostVars
  <1> QED BY <1>2, <1>3, <1>5, <1>7, <1>8, <1>9, <1>10, <1>11, <1>12, <1>13, <1>14 DEF HostNext

RunningFits == \A l \in Lanes : Running(l) => l \in CurrentBatch

LEMMA HostStepRunning == HostInv /\ [HostNext]_hostVars => RunningFits'
  <1> SUFFICES ASSUME HostInv, [HostNext]_hostVars, NEW l \in Lanes, Running(l)'
               PROVE  (l \in CurrentBatch)'
    BY DEF RunningFits
  <1>t. HostTypes /\ (Running(l) => l \in CurrentBatch)
    BY DEF HostInv
  <1>r. \A r \in LaneRuns \cup {Skipped} : r # <<>>
    BY DEF LaneRuns, Skipped
  <1>1. ASSUME schedule' = schedule, \A m \in Lanes : Over(m) => Over(m)', l \in CurrentBatch
        PROVE  (l \in CurrentBatch)'
    <2>1. ~Over(l)'
      BY DEF Running
    <2> QED BY <1>1, <1>t, <2>1, BatchStays
  <1>2. ASSUME schedule' = schedule, \A m \in Lanes : Over(m) => Over(m)',
               ClaimsOf(l)' # {} => ClaimsOf(l) # {}
        PROVE  (l \in CurrentBatch)'
    <2>1. Running(l)
      BY <1>2 DEF Running
    <2> QED BY <1>1, <1>2, <1>t, <2>1
  <1>3. ASSUME NEW by \in Identities, Approve(by) PROVE FALSE
    <2>1. claims' = {}
      BY <1>3 DEF Approve, HostInv
    <2> QED BY <2>1 DEF Running, ClaimsOf
  <1>4. ASSUME NEW by \in Identities, NEW mode \in Modes, Grant(by, mode)
        PROVE  (l \in CurrentBatch)'
    <2>1. schedule' = schedule /\ outcomes' = outcomes /\ claims' = claims
      BY <1>4 DEF Grant
    <2> QED BY <1>2, <2>1 DEF Over, ClaimsOf
  <1>5. ASSUME NEW m \in Lanes, ClaimLane(m) PROVE (l \in CurrentBatch)'
    <2>1. schedule' = schedule /\ outcomes' = outcomes /\ claims' = claims \cup {LaneClaim(m)}
      BY <1>5 DEF ClaimLane
    <2>2. CASE l = m
      <3>1. l \in CurrentBatch
        BY <1>5, <2>2 DEF ClaimLane, Claimable
      <3> QED BY <1>1, <2>1, <3>1 DEF Over
    <2>3. CASE l # m
      <3>1. LaneClaim(m).id # l
        BY <2>3 DEF LaneClaim
      <3> QED BY <1>2, <2>1, <3>1 DEF Over, ClaimsOf
    <2> QED BY <2>2, <2>3
  <1>6. ASSUME NEW m \in Lanes, NEW run \in HostRuns, FinishLane(m, run) PROVE (l \in CurrentBatch)'
    <2>1. run # <<>> /\ schedule' = schedule /\ outcomes' = [outcomes EXCEPT ![m] = run]
      BY <1>6, <1>r, ExecutionAssumption DEF FinishLane
    <2>2. \A k \in Lanes : Over(k) => Over(k)'
      BY <1>t, <2>1 DEF Over, HostTypes
    <2>3. \A c \in claims' : \E b \in claims : b.id = c.id
      <3>1. PICK end : claims' = { IF c.id = m THEN Released(c, end) ELSE c : c \in claims }
        BY <1>6 DEF FinishLane
      <3>2. \A c \in claims : Released(c, end).id = c.id
        BY <1>t, ReleasedClaims DEF HostTypes
      <3> QED BY <3>1, <3>2
    <2>4. ClaimsOf(l)' # {} => ClaimsOf(l) # {}
      BY <2>3 DEF ClaimsOf
    <2> QED BY <1>2, <2>1, <2>2, <2>4
  <1>7. ASSUME NEW m \in Lanes, SkipLane(m) PROVE (l \in CurrentBatch)'
    <2>1. /\ schedule' = schedule /\ outcomes' = [outcomes EXCEPT ![m] = Skipped]
          /\ claims' = claims \cup {Released(LaneClaim(m), "cancelled")}
      BY <1>7 DEF SkipLane
    <2>2. \A k \in Lanes : Over(k) => Over(k)'
      BY <1>r, <1>t, <2>1 DEF Over, HostTypes
    <2>3. l # m
      BY <1>r, <1>t, <2>1 DEF Running, Over, HostTypes
    <2>4. Released(LaneClaim(m), "cancelled").id = m
      <3>1. IsClaim(LaneClaim(m))
        BY <1>t, ClaimsAreClaims
      <3>2. LaneClaim(m).id = m
        BY DEF LaneClaim
      <3> QED BY <3>1, <3>2, ReleasedClaims
    <2>5. ClaimsOf(l)' # {} => ClaimsOf(l) # {}
      BY <2>1, <2>3, <2>4 DEF ClaimsOf
    <2> QED BY <1>2, <2>1, <2>2, <2>5
  <1>8. ASSUME Observe PROVE FALSE
    BY <1>8, <1>r DEF Observe, Running, Over
  <1>9. ASSUME Admit PROVE (l \in CurrentBatch)'
    <2>1. schedule' = schedule /\ outcomes' = outcomes /\ claims' = claims
      BY <1>9 DEF Admit
    <2> QED BY <1>2, <2>1 DEF Over, ClaimsOf
  <1>10. ASSUME NEW c \in ForeignClaims, ClaimForeign(c) PROVE (l \in CurrentBatch)'
    <2>1. schedule' = schedule /\ outcomes' = outcomes /\ claims' = claims \cup {ForeignClaim(c)}
      BY <1>10 DEF ClaimForeign
    <2>2. ForeignClaim(c).id # l
      <3>1. c.id \in Nat /\ c.id > LaneCount
        BY ExecutionAssumption
      <3>2. ForeignClaim(c).id = c.id
        BY DEF ForeignClaim
      <3> QED BY <3>1, <3>2, LaneNumbers
    <2> QED BY <1>2, <2>1, <2>2 DEF Over, ClaimsOf
  <1>11. ASSUME Tick PROVE (l \in CurrentBatch)'
    <2>1. schedule' = schedule /\ outcomes' = outcomes /\ claims' = claims
      BY <1>11 DEF Tick
    <2> QED BY <1>2, <2>1 DEF Over, ClaimsOf
  <1>12. ASSUME UNCHANGED hostVars PROVE (l \in CurrentBatch)'
    <2>1. schedule' = schedule /\ outcomes' = outcomes /\ claims' = claims
      BY <1>12 DEF hostVars
    <2> QED BY <1>2, <2>1 DEF Over, ClaimsOf
  <1> QED BY <1>3, <1>4, <1>5, <1>6, <1>7, <1>8, <1>9, <1>10, <1>11, <1>12 DEF HostNext

LEMMA HostStepIdle ==
  HostInv /\ [HostNext]_hostVars => (phase \in {"advisory", "approved"} => claims = {})'
  <1> SUFFICES ASSUME HostInv, [HostNext]_hostVars, phase' \in {"advisory", "approved"}
               PROVE  claims' = {}
    OBVIOUS
  <1>1. phase \in {"advisory", "approved"} => claims = {}
    BY DEF HostInv
  <1>2. ASSUME NEW l \in Lanes, NEW run \in HostRuns, FinishLane(l, run) PROVE claims' = {}
    <2>1. ClaimsOf(l) # {} /\ phase' = phase
      BY <1>2 DEF FinishLane, Running
    <2> QED BY <1>1, <2>1 DEF ClaimsOf
  <1>3. ASSUME UNCHANGED hostVars PROVE claims' = {}
    BY <1>1, <1>3 DEF hostVars
  <1> QED BY <1>1, <1>2, <1>3
          DEF HostNext, Approve, Grant, Modes, ClaimLane, Claimable, SkipLane, Observe,
              Admit, ClaimForeign, Tick

\* The host's invariant: the batches are those of the plan, tracked claims that
\* hold are apart, and a lane that runs is one of the batch that is open.
THEOREM HostInvariant == HostSpec => []HostInv
  <1>1. HostInv /\ [HostNext]_hostVars => HostInv'
    BY HostStepTypes, HostStepApart, HostStepRunning, HostStepIdle DEF HostInv, RunningFits
  <1> QED BY HostInitially, <1>1, PTL DEF HostSpec

\* BatchesAreLegal: every acyclic plan of any number of lanes is cut into
\* batches that run each lane once, after its prerequisites, beside no lane it
\* conflicts with, and no later than that forces it.
THEOREM PlansAreCutLegally == HostSpec => []BatchesAreLegal
  <1>1. HostInv => BatchesAreLegal
    <2> SUFFICES ASSUME HostInv, phase = "approved" PROVE BatchesAreLegal
      BY DEF BatchesAreLegal
    <2>1. schedule = ExecutionBatches(plan) /\ plan \in Plans
      BY DEF HostInv, HostTypes
    <2>2. Legal(plan, schedule)
      BY <2>1, ScheduleIsLegal
    <2> QED BY <2>2 DEF BatchesAreLegal, Legal
  <1> QED BY HostInvariant, <1>1, PTL

\* WritersAreIsolated: no two claims that hold overlap, and no two lanes the
\* host runs at once conflict, whatever their leases do.
THEOREM HostedLanesAreIsolated == HostSpec => []WritersAreIsolated
  <1>1. HostInv => WritersAreIsolated
    <2> SUFFICES ASSUME HostInv PROVE WritersAreIsolated
      OBVIOUS
    <2>1. \A c, d \in Holding(claims, now) : c # d =>
            ~Overlap(c.writes, d.writes) /\ c.keys \cap d.keys = {}
      BY DEF HostInv, Apart
    <2>2. ASSUME NEW l \in Lanes, NEW m \in Lanes, l # m, Running(l), Running(m)
          PROVE  ~Conflicts(plan.foot[l], plan.foot[m])
      <3>1. l \in CurrentBatch /\ m \in CurrentBatch /\ HostTypes
        BY <2>2 DEF HostInv
      <3>2. PICK k \in DOMAIN schedule : l \in schedule[k] /\ m \in schedule[k]
        BY <3>1, OneBatch
      <3>3. schedule = ExecutionBatches(plan) /\ plan \in Plans
        <4>1. phase # "advisory"
          BY <2>2 DEF HostInv, Running, ClaimsOf
        <4> QED BY <3>1, <4>1 DEF HostTypes
      <3>4. Legal(plan, schedule)
        BY <3>3, ScheduleIsLegal
      <3> QED BY <2>2, <3>2, <3>4 DEF Legal
    <2> QED BY <2>1, <2>2 DEF WritersAreIsolated
  <1> QED BY HostInvariant, <1>1, PTL

\* AdmissionIsExact: of all records of lane outcomes admission lets pass those,
\* within the budget and with agreeing keys, in which each lane was run exactly
\* when all its direct prerequisites succeeded.
THEOREM RecordsAreJudgedExactly == HostSpec => []AdmissionIsExact
  <1>1. HostInv => AdmissionIsExact
    <2> SUFFICES ASSUME HostInv, NEW os \in [Lanes -> LaneRuns \cup {Skipped}]
                 PROVE  Admitted(plan, "execute", Ordered(plan), os, { LaneClaim(l) : l \in Lanes })
                          <=> /\ FollowsPlan(os)
                              /\ ExecutedSteps(os) <= MaxSteps /\ KeysAgree(os)
      BY DEF AdmissionIsExact
    <2>1. plan \in Plans
      BY DEF HostInv, HostTypes
    <2>2. ClaimsCover(plan, { LaneClaim(l) : l \in Lanes })
      <3>1. \A l \in Lanes : LaneClaim(l).id = l /\ LaneClaim(l).writes = plan.foot[l].writes
        BY DEF LaneClaim
      <3>2. \A c, d \in { LaneClaim(m) : m \in Lanes } : c.id = d.id => c = d
        BY <3>1
      <3> SUFFICES ASSUME NEW l \in Lanes
                   PROVE  \E c \in { LaneClaim(m) : m \in Lanes } :
                            c.id = l /\ plan.foot[l].writes \subseteq c.writes
        BY <3>2 DEF ClaimsCover
      <3> QED BY <3>1
    <2>3. \A l \in Lanes : LaneStatus(os[l]) # "refused"
      BY StatusOfRuns
    <2>4. LanesPropagate(plan, os) <=> FollowsPlan(os)
      BY <2>1, PropagationIsDirect DEF FollowsPlan
    <2> QED BY <2>2, <2>3, <2>4 DEF Admitted
  <1> QED BY HostInvariant, <1>1, PTL
=============================================================================
