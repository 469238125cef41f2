---------------------------- MODULE EffectJournal ----------------------------
(***************************************************************************)
(* The file of the effect journal and the tokens it issues:                *)
(* src/rigor_foundry/effect_journal_v2.py, effect_journal_tail_v2.py and   *)
(* effect_intent_token_v2.py.  Processes append frames under an exclusive  *)
(* flock through a lease that remembers how far the file went.  A failed   *)
(* append leaves what it wrote and the lease as it was; its owner may go   *)
(* on using the lease.  An effect-intent frame that was synchronised       *)
(* issues a token, which lives in its process beyond the lease and permits *)
(* the mutation of one part until an outcome of that part is attempted.    *)
(*                                                                         *)
(* A frame is its kind, its part (a permit and a part index) and its place *)
(* in the chain.  `spent` and `permitted` only record what was done.       *)
(***************************************************************************)
EXTENDS Naturals, Sequences

CONSTANTS
    Procs,          \* processes of the host
    NoProc,         \* nobody holds the lock
    Parts,          \* parts of operations, each with its permit
    NoFrame,        \* no frame has been appended yet
    MaxFrames       \* max_bytes, in frames

ASSUME NoProcAssumption == NoProc \notin Procs
ASSUME MaxFramesAssumption == MaxFrames \in Nat

VARIABLES
    frames,         \* complete frames any reader sees
    torn,           \* an incomplete frame is behind them
    synced,         \* frames that survive a power loss
    holder,         \* process holding the flock
    pc,             \* where each process is
    lease,          \* frames the holder's lease retains
    frame,          \* the frame the holder last tried to append
    tokens,         \* [process -> tokens issued in it]
    spent,          \* [process -> the intents whose tokens it held when it
                    \*   began to append an outcome of their part]
    permitted,      \* intents a mutation or its clean-up was permitted for
    reported,       \* frames there were when the last append returned
    anchor          \* the prefix the host has selected

vars == <<frames, torn, synced, holder, pc, lease, frame, tokens, spent,
          permitted, reported, anchor>>
file == <<frames, torn, synced>>
local == <<tokens, spent>>
host == <<permitted, reported, anchor>>

Kinds == {"effect-intent", "effect-outcome", "other"}
Frame == [kind : Kinds, part : Parts, prev : Nat]
Phases == {"active", "failure-prepared", "closed"}
Token == [pos : Nat, part : Parts, phase : Phases]

-----------------------------------------------------------------------------
Chained == \A k \in 1..Len(frames) : frames[k].prev = k - 1

\* _scan: chained, the selected head among the frames, nothing behind them.
ScanAccepts == Chained /\ anchor <= Len(frames) /\ ~torn

\* scan_journal_tail_v21: the same, with damage allowed behind the last frame.
TailScanAccepts == Chained /\ anchor <= Len(frames)

Init ==
    /\ frames = <<>> /\ torn = FALSE /\ synced = 0
    /\ holder = NoProc
    /\ pc = [p \in Procs |-> "idle"]
    /\ lease = 0 /\ frame = NoFrame
    /\ tokens = [p \in Procs |-> {}]
    /\ spent = [p \in Procs |-> {}]
    /\ permitted = {} /\ reported = 0 /\ anchor = 0

Goes(p, l) == pc' = [pc EXCEPT ![p] = l]
Locks(p) == pc[p] = "idle" /\ holder = NoProc /\ holder' = p
Leaves(p) == Goes(p, "idle") /\ holder' = NoProc

\* locked(): an exact scan, then a lease.
Lock(p) ==
    /\ Locks(p) /\ ScanAccepts
    /\ Goes(p, "lease")
    /\ lease' = Len(frames)
    /\ UNCHANGED <<file, frame, local, host>>

\* Mutant: the retained size is not compared before the append.
AnyLease == lease < MaxFrames

\* append_from_host: the budget, the retained size, the retained bytes.
MayAppend == lease < MaxFrames /\ lease = Len(frames) /\ ~torn

Closed(t) == [t EXCEPT !.phase = "closed"]
AfterOutcome(p, part) ==
    {IF t.part = part THEN Closed(t) ELSE t : t \in tokens[p]}

Intent(t) == [pos |-> t.pos, part |-> t.part]
HeldOf(p, part) == {Intent(t) : t \in {u \in tokens[p] : u.part = part}}

\* The matching tokens of this process are closed before anything is written.
StartAppend(p, kind, part) ==
    /\ pc[p] = "lease" /\ MayAppend
    /\ frame' = [kind |-> kind, part |-> part, prev |-> lease]
    /\ IF kind = "effect-outcome"
       THEN /\ tokens' = [tokens EXCEPT ![p] = AfterOutcome(p, part)]
            /\ spent' = [spent EXCEPT ![p] = @ \cup HeldOf(p, part)]
       ELSE UNCHANGED local
    /\ Goes(p, "write")
    /\ UNCHANGED <<file, holder, lease, host>>

\* Behind a fragment the bytes would not line up.
Write(p) ==
    /\ pc[p] = "write"
    /\ frames' = Append(frames, IF torn THEN [frame EXCEPT !.prev = @ + 1] ELSE frame)
    /\ Goes(p, "fsync")
    /\ UNCHANGED <<torn, synced, holder, lease, frame, local, host>>

\* Mutant: what a failed append closed is opened again.
WriteFailsReopens(p) ==
    /\ pc[p] = "write"
    /\ torn' \in {torn, TRUE}
    /\ tokens' = [tokens EXCEPT ![p] =
         {IF frame.kind = "effect-outcome" /\ t.part = frame.part
          THEN [t EXCEPT !.phase = "active"] ELSE t : t \in tokens[p]}]
    /\ Goes(p, "lease")
    /\ UNCHANGED <<frames, synced, holder, lease, frame, spent, host>>

\* _write_all raised before or after the first bytes; the lease stays.
WriteFails(p) ==
    /\ pc[p] = "write"
    /\ torn' \in {torn, TRUE}
    /\ Goes(p, "lease")
    /\ UNCHANGED <<frames, synced, holder, lease, frame, local, host>>

Issued ==
    IF frame.kind = "effect-intent"
    THEN {[pos |-> Len(frames), part |-> frame.part, phase |-> "active"]}
    ELSE {}

\* Mutant: the token is issued although the frame is only written.
FsyncSkipped(p) ==
    /\ pc[p] = "fsync"
    /\ lease' = Len(frames)
    /\ tokens' = [tokens EXCEPT ![p] = @ \cup Issued]
    /\ Goes(p, "lease")
    /\ UNCHANGED <<file, holder, frame, spent, host>>

\* The frame is durable, the lease moves on, an intent issues its token.
Fsync(p) ==
    /\ pc[p] = "fsync"
    /\ synced' = Len(frames)
    /\ lease' = Len(frames)
    /\ tokens' = [tokens EXCEPT ![p] = @ \cup Issued]
    /\ reported' = Len(frames)
    /\ Goes(p, "lease")
    /\ UNCHANGED <<frames, torn, holder, frame, spent, permitted, anchor>>

FsyncFails(p) ==
    /\ pc[p] = "fsync"
    /\ Goes(p, "lease")
    /\ UNCHANGED <<file, holder, lease, frame, local, host>>

\* The context ends; its closing checks may raise, the descriptor is closed.
CloseLease(p) ==
    /\ pc[p] \in {"lease", "recovery"}
    /\ Leaves(p)
    /\ UNCHANGED <<file, lease, frame, local, host>>

\* locked_recovery(): the damage is classified, nothing is changed.
LockRecovery(p) ==
    /\ Locks(p) /\ TailScanAccepts
    /\ Goes(p, "recovery")
    /\ lease' = Len(frames)
    /\ UNCHANGED <<file, frame, local, host>>

\* The operator (not in the repository) durably removes the classified damage.
Cut(p) ==
    /\ pc[p] = "recovery" /\ torn
    /\ torn' = FALSE /\ synced' = Len(frames)
    /\ UNCHANGED <<frames, holder, pc, lease, frame, local, host>>

\* prepare_effect_failure: from now on only unlink.
PrepareFailure(p, t) ==
    /\ t.phase = "active"
    /\ tokens' = [tokens EXCEPT ![p] = (@ \ {t}) \cup {[t EXCEPT !.phase = "failure-prepared"]}]
    /\ UNCHANGED <<file, holder, pc, lease, frame, spent, host>>

\* require_current, by a handler that then mutates (or unlinks) its part.
RequireCurrent(p, t, unlink) ==
    /\ t.phase = "active" \/ (unlink /\ t.phase = "failure-prepared")
    /\ permitted' = permitted \cup {Intent(t)}
    /\ UNCHANGED <<file, holder, pc, lease, frame, local, reported, anchor>>

\* A process takes its tokens with it.
Forgets(p) ==
    /\ tokens' = [tokens EXCEPT ![p] = {}]
    /\ spent' = [spent EXCEPT ![p] = {}]

\* The process dies; the flock is freed.
Dies(p) ==
    /\ Goes(p, "idle")
    /\ holder' = IF holder = p THEN NoProc ELSE holder
    /\ Forgets(p)
    /\ UNCHANGED <<file, lease, frame, host>>

DiesWriting(p) ==
    /\ pc[p] = "write"
    /\ torn' = TRUE
    /\ Leaves(p)
    /\ Forgets(p)
    /\ UNCHANGED <<frames, synced, lease, frame, host>>

\* Of the frames written since the last fsync a prefix survives.
PowerLoss ==
    \E n \in synced..Len(frames) :
      /\ frames' = SubSeq(frames, 1, n)
      /\ synced' = n
      /\ torn' \in {FALSE, torn \/ n < Len(frames)}
      /\ holder' = NoProc
      /\ pc' = [p \in Procs |-> "idle"]
      /\ tokens' = [p \in Procs |-> {}]
      /\ spent' = [p \in Procs |-> {}]
      /\ UNCHANGED <<lease, frame, host>>

\* The host (not in the repository) selects a head an append returned.
SelectAnchor ==
    /\ anchor' = reported
    /\ UNCHANGED <<file, holder, pc, lease, frame, local, permitted, reported>>

Steps(p) ==
    \/ Lock(p) \/ Write(p) \/ WriteFails(p) \/ Fsync(p) \/ FsyncFails(p)
    \/ CloseLease(p) \/ LockRecovery(p) \/ Cut(p) \/ Dies(p) \/ DiesWriting(p)

Handlers(p, t) ==
    \/ PrepareFailure(p, t)
    \/ \E unlink \in BOOLEAN : RequireCurrent(p, t, unlink)

Next ==
    \/ \E p \in Procs :
         \/ Steps(p)
         \/ \E kind \in Kinds, part \in Parts : StartAppend(p, kind, part)
         \/ \E t \in tokens[p] : Handlers(p, t)
    \/ PowerLoss \/ SelectAnchor

Spec == Init /\ [][Next]_vars

-----------------------------------------------------------------------------
(* Properties.                                                             *)

\* Every variable keeps its type; the budget bounds the complete frames.
TypeOK ==
    /\ frames \in Seq(Frame) /\ Len(frames) <= MaxFrames
    /\ torn \in BOOLEAN /\ synced \in 0..Len(frames)
    /\ holder \in Procs \cup {NoProc}
    /\ pc \in [Procs -> {"idle", "lease", "write", "fsync", "recovery"}]
    /\ lease \in Nat /\ frame \in Frame \cup {NoFrame}
    /\ tokens \in [Procs -> SUBSET Token]
    /\ spent \in [Procs -> SUBSET [pos : Nat, part : Parts]]
    /\ permitted \subseteq [pos : Nat, part : Parts]
    /\ reported \in Nat /\ anchor \in Nat

\* locked_recovery: whatever failed, was retried on the same lease, or died, the
\* file can be read up to its damage, and the damage is behind the selection.
AlwaysRecoverable == TailScanAccepts

IsIntent(pos, part) ==
    pos \in 1..synced /\ frames[pos].kind = "effect-intent" /\ frames[pos].part = part

\* append_effect_intent_from_host: no handler was ever permitted to touch a part
\* whose intent a power loss could still remove from the journal, or did.
WriteAhead == \A m \in permitted : IsIntent(m.pos, m.part)

\* _close_effect_intent_tokens_v2: once a process has begun to append an outcome
\* of a part, no token of that part that it held then permits anything again,
\* whether the append succeeded, failed or was never finished.
OutcomeClosesTokens ==
    \A p \in Procs : \A t \in tokens[p] :
      Intent(t) \in spent[p] => t.phase = "closed"

\* append_from_host: a lease whose append failed after it wrote something never
\* appends again: what one lease appends is what it retains.
LeaseIsExact ==
    \A p \in Procs : pc[p] \in {"write", "fsync"} =>
      ~torn /\ frame.prev = lease
      /\ Len(frames) = lease + (IF pc[p] = "fsync" THEN 1 ELSE 0)

=============================================================================
