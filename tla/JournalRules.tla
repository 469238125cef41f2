---------------------------- MODULE JournalRules ----------------------------
(***************************************************************************)
(* The records of an effect journal and the reference definition of the    *)
(* journals that may be replayed: what replay_effect_journal_v2,           *)
(* src/rigor_foundry/effect_journal_state_v2.py, accepts, said of a whole  *)
(* journal at once.  EffectReplay is the loop of the code and is checked   *)
(* against this definition; PermitAnchor builds on it.                     *)
(*                                                                         *)
(* A record is its kind, its operation and its part.  Record digests cover *)
(* the position, so a closure digest is the closure's position.  The two   *)
(* kinds of leaf and tail-recovery are one kind "leaf", the five statuses  *)
(* one kind "status"; a kind the replay does not know, an event of an      *)
(* unknown cgroup and an event of an unknown permit are one kind "alien".  *)
(* What the operation-intent record carries is a constant per operation.   *)
(***************************************************************************)
EXTENDS Naturals, Sequences

CONSTANTS
    Ops,            \* permit identifiers, each with one operation intent
    Targets,        \* target keys
    TargetsOf,      \* [op -> sequence of targets, in part order]
    Overlap,        \* pairs of targets related by equality or ancestry
    Journalled      \* operations of atomicity all-or-nothing-journalled

ASSUME TargetsOfAssumption == TargetsOf \in [Ops -> Seq(Targets)]
ASSUME OverlapAssumption ==
    /\ Overlap \subseteq Targets \X Targets
    /\ \A t \in Targets : <<t, t>> \in Overlap
    /\ \A t, u \in Targets : <<t, u>> \in Overlap => <<u, t>> \in Overlap
ASSUME JournalledAssumption == Journalled \subseteq Ops

-----------------------------------------------------------------------------
Closures == {"operation-complete", "operation-rolled-back", "operation-reconciled"}
Effects == {"effect-intent", "effect-complete", "effect-failed"}
Kinds == {"operation-intent", "status", "leaf", "alien"} \cup Effects \cup Closures
PartStates == {"not-started", "in-progress", "complete", "failed"}

Parts(o) == 1..Len(TargetsOf[o])
TargetSet(o) == {TargetsOf[o][i] : i \in Parts(o)}

Record == [kind : Kinds, op : Ops, part : Nat]

-----------------------------------------------------------------------------
(* The reference: which journals may be replayed, and what they leave open, *)
(* said of the whole journal at once.                                      *)

Events(s, o) == {k \in 1..Len(s) : s[k].kind \notin {"leaf", "alien"} /\ s[k].op = o}
Intent(s, o) == {k \in Events(s, o) : s[k].kind = "operation-intent"}
ClosuresOf(s, o) == {k \in Events(s, o) : s[k].kind \in Closures}
PartEvents(s, o, i, kinds) ==
    {k \in Events(s, o) : s[k].kind \in kinds /\ s[k].part = i}

\* Open just before position n: its intent is there, no anchored closure is.
OpenAt(s, names, o, n) ==
    /\ \E k \in Intent(s, o) : k < n
    /\ ~\E k \in ClosuresOf(s, o) : k < n /\ k \in names

\* An operation's events form one life: intent first and once, every part at
\* most started and then ended once, and after a closure only reconciliations,
\* none of them after the anchored one.
OneLife(s, names, o) ==
    /\ \A j, k \in Intent(s, o) : j = k
    /\ \A k \in Events(s, o) : \E j \in Intent(s, o) : j <= k
    /\ \A k \in Events(s, o) : s[k].kind \in Effects => s[k].part \in Parts(o)
    /\ \A i \in Parts(o) :
         LET begun == PartEvents(s, o, i, {"effect-intent"})
             ended == PartEvents(s, o, i, {"effect-complete", "effect-failed"})
         IN  /\ \A j, k \in begun : j = k
             /\ \A j, k \in ended : j = k
             /\ \A k \in ended : \E j \in begun : j < k
    /\ \A j \in ClosuresOf(s, o), k \in Events(s, o) :
         j < k /\ s[k].kind # "status" =>
           /\ s[k].kind = "operation-reconciled"
           /\ j \notin names
    /\ \A k \in ClosuresOf(s, o) :
         /\ s[k].kind = "operation-complete" =>
              \A i \in Parts(o) :
                \E j \in PartEvents(s, o, i, {"effect-complete"}) : j < k
         /\ s[k].kind = "operation-rolled-back" => o \in Journalled

\* No operation starts on a target that overlaps an open operation's target.
Exclusive(s, names) ==
    \A o \in Ops : \A k \in Intent(s, o) :
      /\ \A i, j \in Parts(o) : i # j => TargetsOf[o][i] # TargetsOf[o][j]
      /\ \A p \in Ops : OpenAt(s, names, p, k) =>
           \A t \in TargetSet(o), u \in TargetSet(p) : <<t, u>> \notin Overlap

Legal(s, names, sel) ==
    /\ \A k \in 1..Len(s) : s[k].kind # "alien"
    /\ \A o \in Ops : OneLife(s, names, o)
    /\ Exclusive(s, names)
    /\ \A o \in Ops : \A k \in ClosuresOf(s, o) \cap names : k <= sel

ClosurePositions(s) == {k \in 1..Len(s) : s[k].kind \in Closures}
=============================================================================
