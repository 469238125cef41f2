---------------------------- MODULE EffectReplay ----------------------------
(***************************************************************************)
(* replay_effect_journal_v2, src/rigor_foundry/effect_journal_state_v2.py: *)
(* the loop that reads a journal record by record and derives which        *)
(* operations are open and which targets they block.  One step of this     *)
(* specification is one pass of the loop over an arbitrary next record;    *)
(* the first record it cannot accept refuses the whole journal.            *)
(***************************************************************************)
EXTENDS JournalRules

CONSTANT MaxRows    \* bound of the model: records read

ASSUME MaxRowsAssumption == MaxRows \in Nat

VARIABLES
    log,            \* records read so far
    ops,            \* [op -> its progress]
    open,           \* open_targets
    unmatched,      \* closures the anchor names, not met so far
    named,          \* all closures the anchor names
    selected,       \* number of records in the selected prefix
    verdict         \* "reading", "replayed" or "refused"

vars == <<log, ops, open, unmatched, named, selected, verdict>>

-----------------------------------------------------------------------------
\* _Progress of an operation whose intent was not read yet.
Unknown == [known |-> FALSE, parts |-> <<>>, honoured |-> FALSE, pending |-> FALSE]

Started(o) == [known |-> TRUE, parts |-> [i \in Parts(o) |-> "not-started"],
               honoured |-> FALSE, pending |-> FALSE]

Init ==
    /\ log = <<>>
    /\ ops = [o \in Ops |-> Unknown]
    /\ open = {}
    /\ named \in SUBSET (1..MaxRows) /\ unmatched = named
    /\ selected \in 0..MaxRows
    /\ verdict = "reading"

FreeOf(o) == \A t \in TargetSet(o), u \in open : <<t, u>> \notin Overlap

AcceptsIntent(o) ==
    /\ ~ops[o].known
    /\ \A i, j \in Parts(o) : i # j => TargetsOf[o][i] # TargetsOf[o][j]
    /\ FreeOf(o)

\* What a part may become, and what it must have been.
Becomes(kind) == CASE kind = "effect-intent" -> "in-progress"
                 [] kind = "effect-complete" -> "complete"
                 [] kind = "effect-failed" -> "failed"
Prior(kind) == IF kind = "effect-intent" THEN "not-started" ELSE "in-progress"

\* Mutant: a closure nobody anchored does not stop further effects.
EffectIgnoresPending(kind, o, i) ==
    /\ ops[o].known /\ ~ops[o].honoured
    /\ i \in Parts(o) /\ ops[o].parts[i] = Prior(kind)

AcceptsEffect(kind, o, i) ==
    /\ ops[o].known /\ ~ops[o].honoured /\ ~ops[o].pending
    /\ i \in Parts(o) /\ ops[o].parts[i] = Prior(kind)

Position == Len(log) + 1

AcceptsClosure(kind, o) ==
    /\ ops[o].known /\ ~ops[o].honoured
    /\ ops[o].pending => kind = "operation-reconciled"
    /\ kind = "operation-complete" => \A i \in Parts(o) : ops[o].parts[i] = "complete"
    /\ kind = "operation-rolled-back" => o \in Journalled
    /\ Position \in unmatched => Position <= selected

Accepts(r) ==
    \/ r.kind = "leaf"
    \/ r.kind = "operation-intent" /\ AcceptsIntent(r.op)
    \/ r.kind = "status" /\ ops[r.op].known
    \/ r.kind \in Effects /\ AcceptsEffect(r.kind, r.op, r.part)
    \/ r.kind \in Closures /\ AcceptsClosure(r.kind, r.op)

Reads(r) == verdict = "reading" /\ Accepts(r) /\ log' = Append(log, r)

ReadLeafOrStatus(r) ==
    /\ Reads(r) /\ r.kind \in {"leaf", "status"}
    /\ UNCHANGED <<ops, open, unmatched, named, selected, verdict>>

ReadIntent(r) ==
    /\ Reads(r) /\ r.kind = "operation-intent"
    /\ ops' = [ops EXCEPT ![r.op] = Started(r.op)]
    /\ open' = open \cup TargetSet(r.op)
    /\ UNCHANGED <<unmatched, named, selected, verdict>>

ReadEffect(r) ==
    /\ Reads(r) /\ r.kind \in Effects
    /\ ops' = [ops EXCEPT ![r.op].parts[r.part] = Becomes(r.kind)]
    /\ UNCHANGED <<open, unmatched, named, selected, verdict>>

\* A closure the anchor names unblocks the operation's targets.
ReadHonoured(r) ==
    /\ Reads(r) /\ r.kind \in Closures /\ Position \in unmatched
    /\ unmatched' = unmatched \ {Position}
    /\ ops' = [ops EXCEPT ![r.op].honoured = TRUE]
    /\ open' = open \ TargetSet(r.op)
    /\ UNCHANGED <<named, selected, verdict>>

\* Mutant: a recorded closure unblocks its targets without the anchor.
ReadPendingUnblocks(r) ==
    /\ Reads(r) /\ r.kind \in Closures /\ Position \notin unmatched
    /\ ops' = [ops EXCEPT ![r.op].pending = TRUE]
    /\ open' = open \ TargetSet(r.op)
    /\ UNCHANGED <<unmatched, named, selected, verdict>>

\* Any other closure is pending and blocks them still.
ReadPending(r) ==
    /\ Reads(r) /\ r.kind \in Closures /\ Position \notin unmatched
    /\ ops' = [ops EXCEPT ![r.op].pending = TRUE]
    /\ UNCHANGED <<open, unmatched, named, selected, verdict>>

Refuse(r) ==
    /\ verdict = "reading" /\ ~Accepts(r)
    /\ log' = Append(log, r)
    /\ verdict' = "refused"
    /\ UNCHANGED <<ops, open, unmatched, named, selected>>

\* The end of the file: a named closure that was not met refuses.
Finish ==
    /\ verdict = "reading"
    /\ verdict' = IF unmatched = {} THEN "replayed" ELSE "refused"
    /\ UNCHANGED <<log, ops, open, unmatched, named, selected>>

Read(r) ==
    \/ ReadLeafOrStatus(r) \/ ReadIntent(r) \/ ReadEffect(r)
    \/ ReadHonoured(r) \/ ReadPending(r) \/ Refuse(r)

\* Part 0 stands for an event without a part; an operation may have fewer than
\* two parts, so the index it does not have is among them.
Inputs == {r \in [kind : Kinds, op : Ops, part : 0..2] :
             r.kind \in Effects <=> r.part > 0}

Next ==
    \/ Len(log) < MaxRows /\ \E r \in Inputs : Read(r)
    \/ Finish

Spec == Init /\ [][Next]_vars

-----------------------------------------------------------------------------
(* Properties.                                                             *)

ProgressType ==
    [known : BOOLEAN, parts : Seq(PartStates), honoured : BOOLEAN, pending : BOOLEAN]

\* Every variable keeps its type; a known operation has a state per part.
TypeOK ==
    /\ log \in Seq(Record)
    /\ ops \in [Ops -> ProgressType]
    /\ \A o \in Ops : ops[o].known => DOMAIN ops[o].parts = Parts(o)
    /\ open \subseteq Targets
    /\ unmatched \subseteq named /\ named \subseteq Nat
    /\ selected \in Nat
    /\ verdict \in {"reading", "replayed", "refused"}

IsOpen(o) == ops[o].known /\ ~ops[o].honoured

\* replay: the blocked targets are exactly those of the open operations, so
\* closing one operation never unblocks a target another one still blocks.
OpenTargetsExact == open = UNION {TargetSet(o) : o \in {p \in Ops : IsOpen(p)}}

\* replay: no two open operations ever hold overlapping targets.
TargetsExclusive ==
    \A o, p \in Ops : o # p /\ IsOpen(o) /\ IsOpen(p) =>
      \A t \in TargetSet(o), u \in TargetSet(p) : <<t, u>> \notin Overlap

\* replay: the loop accepts exactly the journals the reference calls legal, and
\* at the end those whose anchored closures are all there.
AgreesWithReference ==
    /\ verdict = "reading" => Legal(log, named, selected)
    /\ verdict = "replayed" =>
         Legal(log, named, selected) /\ named \subseteq ClosurePositions(log)
    /\ verdict = "refused" =>
         ~(Legal(log, named, selected) /\ named \subseteq ClosurePositions(log))

\* replay: a target stays blocked until a closure inside the selected prefix
\* that the anchor names is read, whatever else the journal records.
BlockedUntilAnchored ==
    [][\A o \in Ops : IsOpen(o) /\ ~(TargetSet(o) \subseteq open') =>
         /\ Position \in named /\ Position <= selected
         /\ log'[Position].kind \in Closures /\ log'[Position].op = o]_vars

\* What makes the two invariants inductive.
ReplayInv == TypeOK /\ OpenTargetsExact /\ TargetsExclusive
=============================================================================
