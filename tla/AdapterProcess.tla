--------------------------- MODULE AdapterProcess ---------------------------
(***************************************************************************)
(* stream_process (adapter_runtime.py): one native audit runs as a child   *)
(* whose two output streams are read under a byte cap and a deadline; the  *)
(* child's process group is terminated when either is exceeded or the      *)
(* call fails.                                                             *)
(*                                                                         *)
(* The parent is the sequential program of the code.  The child is         *)
(* anybody's program in its sandbox: it may write, close a stream, exit,   *)
(* ignore SIGTERM, or hang.  Bytes are counted, not named.  The sandbox    *)
(* has a process namespace of its own, so no descendant survives the       *)
(* child that the parent waits for.                                        *)
(***************************************************************************)
EXTENDS Naturals, FiniteSets

CONSTANTS
    OutputLimit,   \* accepted bytes of both streams together
    ReadSize,      \* most bytes of one read
    PipeSize,      \* bytes a pipe holds before its writer blocks
    MaxWritten     \* bound on what the child writes to one stream

ASSUME SizesAssumption ==
    /\ OutputLimit \in Nat \ {0} /\ ReadSize \in Nat \ {0}
    /\ PipeSize \in Nat \ {0} /\ MaxWritten \in Nat

Streams == {"stdout", "stderr"}

VARIABLES
    \* the child and the kernel
    child,       \* "running", "exited" (not yet waited for) or "reaped"
    open,        \* the streams whose write end the child holds
    written,     \* bytes written to each stream
    signal,      \* "none", "term" or "kill": the strongest signal sent
    late,        \* the deadline has passed
    \* the parent
    pc,          \* where it is
    then,        \* where it goes after a termination
    registered,  \* the streams the selector still watches
    ready,       \* what select returned and is not read yet
    stream_bytes,\* accepted bytes per stream
    consumed,    \* bytes taken out of each pipe
    truncated, timed_out,
    failed       \* the parts of the call an exception has come out of

childVars  == <<child, open, written>>
dataVars   == <<registered, ready, stream_bytes, consumed>>
flagVars   == <<truncated, timed_out, failed>>
vars == <<childVars, signal, late, pc, then, dataVars, flagVars>>

Buffered(s) == written[s] - consumed[s]
AtEnd(s)    == s \notin open /\ Buffered(s) = 0
Readable(s) == Buffered(s) > 0 \/ AtEnd(s)
Total       == stream_bytes["stdout"] + stream_bytes["stderr"]
Written     == written["stdout"] + written["stderr"]
Lesser(a, b) == IF a < b THEN a ELSE b

\* Before the try block, inside it, and inside its finally block.
Parts == {"setup", "try", "finally"}

Terminating == pc \in {"terminate", "termed", "killed"}
InTry       == pc \in {"loop", "read", "reap"} \/ (Terminating /\ then # "closed")
InFinally   == pc \in {"finally", "closed"} \/ (Terminating /\ then = "closed")
Ended       == pc \in {"returned", "raised"}

\* The child has been started; nothing watches its pipes yet.
Init ==
    /\ child = "running" /\ open = Streams
    /\ written = [s \in Streams |-> 0]
    /\ signal = "none" /\ late = FALSE
    /\ pc = "setup" /\ then = "reap"
    /\ registered = {} /\ ready = {}
    /\ stream_bytes = [s \in Streams |-> 0]
    /\ consumed = [s \in Streams |-> 0]
    /\ truncated = FALSE /\ timed_out = FALSE /\ failed = {}

----------------------------------------------------------------------------
(***************************************************************************)
(* The child, the kernel and the clock.                                    *)
(***************************************************************************)
ChildWrites(s) ==
    /\ child = "running" /\ s \in open
    /\ Buffered(s) < PipeSize /\ written[s] < MaxWritten
    /\ written' = [written EXCEPT ![s] = @ + 1]
    /\ UNCHANGED <<child, open, signal, late, pc, then, dataVars, flagVars>>

ChildCloses(s) ==
    /\ child = "running" /\ s \in open
    /\ open' = open \ {s}
    /\ UNCHANGED <<child, written, signal, late, pc, then, dataVars, flagVars>>

\* By itself, or because it honours SIGTERM.
ChildExits ==
    /\ child = "running"
    /\ child' = "exited" /\ open' = {}
    /\ UNCHANGED <<written, signal, late, pc, then, dataVars, flagVars>>

\* SIGKILL takes effect.
KernelKills ==
    /\ child = "running" /\ signal = "kill"
    /\ child' = "exited" /\ open' = {}
    /\ UNCHANGED <<written, signal, late, pc, then, dataVars, flagVars>>

\* The deadline is set when the streams have been registered.
DeadlinePasses ==
    /\ ~late /\ pc # "setup"
    /\ late' = TRUE
    /\ UNCHANGED <<childVars, signal, pc, then, dataVars, flagVars>>

----------------------------------------------------------------------------
(***************************************************************************)
(* The read loop, and what precedes it.                                    *)
(***************************************************************************)
\* Both streams are registered with a selector, and the deadline is set.
SetUp ==
    /\ pc = "setup"
    /\ registered' = Streams /\ pc' = "loop"
    /\ UNCHANGED <<childVars, signal, late, then, ready, stream_bytes, consumed,
                   flagVars>>

\* Bug: the deadline is looked at only after the streams have ended.
LoopHeadPatient ==
    /\ pc = "loop"
    /\ IF registered = {} THEN pc' = "reap" /\ UNCHANGED ready
       ELSE pc' = "read" /\ ready' = { s \in registered : Readable(s) }
    /\ UNCHANGED <<childVars, signal, late, then, registered, stream_bytes,
                   consumed, flagVars>>

\* The head of the loop: leave it without streams, stop at the deadline, or
\* select what is readable now.  An empty selection comes back after 0.1 s.
LoopHead ==
    /\ pc = "loop"
    /\ \/ /\ registered = {}
          /\ pc' = "reap"
          /\ UNCHANGED <<then, ready, timed_out>>
       \/ /\ registered # {} /\ late
          /\ timed_out' = TRUE
          /\ pc' = "terminate" /\ then' = "reap"
          /\ UNCHANGED ready
       \/ /\ registered # {} /\ ~late
          /\ ready' = { s \in registered : Readable(s) }
          /\ pc' = "read"
          /\ UNCHANGED <<then, timed_out>>
    /\ UNCHANGED <<childVars, signal, late, registered, stream_bytes, consumed,
                   truncated, failed>>

\* Bug: no byte more than is allowed is ever asked for.
ReadBoundExact == Lesser(ReadSize, OutputLimit - Total)

\* How many bytes one read may take: one more than is still allowed, so that
\* an excess is seen.
ReadBound == Lesser(ReadSize, OutputLimit - Total + 1)

\* Bug: the chunk that exceeds the cap is accepted whole.
ReadWhole(s) ==
    LET allowed == OutputLimit - Total
        chunk   == Lesser(ReadBound, Buffered(s))
    IN  /\ pc = "read" /\ s \in ready
        /\ consumed' = [consumed EXCEPT ![s] = @ + chunk]
        /\ stream_bytes' = [stream_bytes EXCEPT ![s] = @ + chunk]
        /\ registered' = IF chunk = 0 THEN registered \ {s} ELSE registered
        /\ IF chunk > allowed
           THEN /\ truncated' = TRUE
                /\ pc' = "terminate" /\ then' = "reap" /\ ready' = {}
           ELSE /\ ready' = ready \ {s}
                /\ UNCHANGED <<truncated, pc, then>>
        /\ UNCHANGED <<childVars, signal, late, timed_out, failed>>

\* One read of one selected stream: the end of the stream, accepted bytes, or
\* the byte that exceeds the cap, of which only the allowed part is accepted.
Read(s) ==
    LET allowed == OutputLimit - Total
        chunk   == Lesser(ReadBound, Buffered(s))
    IN  /\ pc = "read" /\ s \in ready
        /\ consumed' = [consumed EXCEPT ![s] = @ + chunk]
        /\ stream_bytes' = [stream_bytes EXCEPT ![s] = @ + Lesser(chunk, allowed)]
        /\ registered' = IF chunk = 0 THEN registered \ {s} ELSE registered
        /\ IF chunk > allowed
           THEN /\ truncated' = TRUE
                /\ pc' = "terminate" /\ then' = "reap" /\ ready' = {}
           ELSE /\ ready' = ready \ {s}
                /\ UNCHANGED <<truncated, pc, then>>
        /\ UNCHANGED <<childVars, signal, late, timed_out, failed>>

ReadAll ==
    /\ pc = "read" /\ ready = {}
    /\ pc' = "loop"
    /\ UNCHANGED <<childVars, signal, late, then, dataVars, flagVars>>

----------------------------------------------------------------------------
(***************************************************************************)
(* After the loop: wait for the child until the deadline.                  *)
(***************************************************************************)
Reap ==
    /\ pc = "reap"
    /\ \/ /\ child # "running"
          /\ child' = "reaped" /\ pc' = "finally"
          /\ UNCHANGED <<then, timed_out>>
       \/ /\ child = "running" /\ late
          /\ timed_out' = TRUE
          /\ pc' = "terminate" /\ then' = "finally"
          /\ UNCHANGED child
    /\ UNCHANGED <<open, written, signal, late, dataVars, truncated, failed>>

(***************************************************************************)
(* _terminate_process_tree: SIGTERM, a short wait, SIGKILL, a longer wait. *)
(* A group that is gone already is no error.                               *)
(***************************************************************************)
SendTerm ==
    /\ pc = "terminate"
    /\ signal' = IF child = "running" /\ signal = "none" THEN "term" ELSE signal
    /\ pc' = "termed"
    /\ UNCHANGED <<childVars, late, then, dataVars, flagVars>>

\* The child is reaped in the first wait, or that wait times out; SIGKILL
\* follows in both cases.
SendKill ==
    /\ pc = "termed"
    /\ \/ child # "running" /\ child' = "reaped" /\ UNCHANGED signal
       \/ child = "running" /\ signal' = "kill" /\ UNCHANGED child
    /\ pc' = "killed"
    /\ UNCHANGED <<open, written, late, then, dataVars, flagVars>>

\* An exception ends the part it comes out of: it leaves the try block for the
\* finally block, and any other part for the caller.
Raises ==
    \/ InTry /\ failed' = failed \cup {"try"} /\ pc' = "finally"
    \/ InFinally /\ failed' = failed \cup {"finally"} /\ pc' = "raised"
    \/ pc = "setup" /\ failed' = failed \cup {"setup"} /\ pc' = "raised"

\* The second wait ends with the child reaped, or raises.
AwaitKilled ==
    /\ pc = "killed"
    /\ \/ /\ child # "running"
          /\ child' = "reaped" /\ pc' = then
          /\ UNCHANGED failed
       \/ child = "running" /\ Raises /\ UNCHANGED child
    /\ UNCHANGED <<open, written, signal, late, then, dataVars, truncated,
                   timed_out>>

\* Any other exception, anywhere: an interrupt, also during a termination or in
\* the finally block, or the failure of a call such as the selector's.
Interrupt ==
    /\ Raises
    /\ ready' = {}
    /\ UNCHANGED <<childVars, signal, late, then, registered, stream_bytes,
                   consumed, truncated, timed_out>>

\* Bug: the finally block only closes the pipes.
FinallyCloses ==
    /\ pc = "finally" /\ pc' = "closed"
    /\ UNCHANGED <<childVars, signal, late, then, dataVars, flagVars>>

\* The finally block: a child that is still running is terminated.
Finally ==
    /\ pc = "finally"
    /\ IF child = "running"
       THEN pc' = "terminate" /\ then' = "closed" /\ UNCHANGED child
       ELSE child' = "reaped" /\ pc' = "closed" /\ UNCHANGED then
    /\ UNCHANGED <<open, written, signal, late, dataVars, flagVars>>

Return ==
    /\ pc = "closed"
    /\ pc' = IF failed = {} THEN "returned" ELSE "raised"
    /\ UNCHANGED <<childVars, signal, late, then, dataVars, flagVars>>

----------------------------------------------------------------------------
Parent ==
    \/ SetUp \/ LoopHead \/ ReadAll \/ (\E s \in Streams : Read(s))
    \/ Reap \/ SendTerm \/ SendKill \/ AwaitKilled
    \/ Finally \/ Return

Next ==
    \/ Parent
    \/ Interrupt
    \/ \E s \in Streams : ChildWrites(s) \/ ChildCloses(s)
    \/ ChildExits \/ KernelKills \/ DeadlinePasses

\* The parent runs, time passes, and the kernel delivers SIGKILL.  Nothing is
\* assumed of the child: it need not write, close, exit or honour SIGTERM.
Fairness == WF_vars(Parent) /\ WF_vars(DeadlinePasses) /\ WF_vars(KernelKills)

Spec == Init /\ [][Next]_vars /\ Fairness

----------------------------------------------------------------------------
(***************************************************************************)
(* Properties                                                              *)
(***************************************************************************)

TypeOK ==
    /\ child \in {"running", "exited", "reaped"} /\ open \subseteq Streams
    /\ written \in [Streams -> 0..MaxWritten]
    /\ signal \in {"none", "term", "kill"}
    /\ registered \subseteq Streams /\ ready \subseteq registered
    /\ consumed \in [Streams -> 0..MaxWritten]
    /\ stream_bytes \in [Streams -> 0..MaxWritten]
    /\ then \in {"reap", "finally", "closed"}
    /\ late \in BOOLEAN /\ truncated \in BOOLEAN
    /\ timed_out \in BOOLEAN /\ failed \subseteq Parts

\* Nothing stands between the child and an exception before the try block, nor
\* between it and an exception in the finally block that cleans up after another.
Unprotected == failed \in {{"setup"}, {"try", "finally"}}

\* Every call ends, even of a child that hangs, ignores SIGTERM, closes its
\* streams and goes on, or fills a pipe; and the child is dead in the end,
\* unless exceptions left the call unprotected before it sent SIGKILL.
EveryCallEnds ==
    <>(Ended /\ (child # "running" \/ (Unprotected /\ signal # "kill")))

\* A call that returns has reaped its child, and a single exception once the
\* streams are read, wherever it strikes, leaves no child without SIGKILL: only
\* one before the try block does, or a second one in the finally block.
NoOrphan ==
    /\ pc = "returned" => child = "reaped"
    /\ pc = "raised" /\ child = "running" /\ signal # "kill" => Unprotected

\* A result that is neither truncated nor timed out is the child's own: the
\* parent never signalled it and holds every byte it wrote.
CleanReportIsTrue ==
    pc = "returned" /\ ~truncated /\ ~timed_out =>
        signal = "none" /\ stream_bytes = written

\* The cap is exact: what is accepted never exceeds it, and fills it when output
\* is called truncated, which it is exactly when a byte beyond the cap was taken
\* out of a pipe; for a result that did not time out, exactly when the child
\* wrote such a byte.  A result has at most one reason for a termination.
TruncationIsExact ==
    /\ Total <= OutputLimit
    /\ truncated <=> consumed["stdout"] + consumed["stderr"] > OutputLimit
    /\ truncated => Total = OutputLimit
    /\ pc = "returned" /\ ~timed_out => (truncated <=> Written > OutputLimit)
    /\ pc = "returned" => ~(truncated /\ timed_out)
=============================================================================
