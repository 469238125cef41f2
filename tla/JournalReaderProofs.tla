-------------------------- MODULE JournalReaderProofs --------------------------
(***************************************************************************)
(* What the two readers of an effect journal guarantee, for every set of   *)
(* operations and targets and every overlap relation.                      *)
(*                                                                         *)
(* The replay (EffectReplay): no two open operations overlap, the blocked  *)
(* targets are exactly theirs, and the loop accepts exactly the journals   *)
(* that the reference, JournalRules, calls legal.                          *)
(*                                                                         *)
(* The permit anchor (PermitAnchor), which selects a prefix of the journal *)
(* that is legal by the same rules, for any host and operator: a selection *)
(* is never taken back, an adoption is final, a reader that returns        *)
(* accounts for every row and every published damage, and wherever the     *)
(* host and the operator stop in order, two records let it return again.   *)
(***************************************************************************)
EXTENDS EffectReplay, PermitAnchor, FiniteSetTheorems, WellFoundedInduction, TLAPS

USE DEF Parts

\* The progress of a started operation has one "not-started" per part.
LEMMA StartedType ==
    ASSUME NEW o \in Ops
    PROVE  Started(o) \in ProgressType /\ DOMAIN Started(o).parts = Parts(o)
<1>1. TargetsOf[o] \in Seq(Targets)
  BY TargetsOfAssumption
<1>2. Len(TargetsOf[o]) \in Nat
  BY <1>1
<1>3. [i \in Parts(o) |-> "not-started"] \in Seq(PartStates)
  BY <1>2 DEF PartStates
<1> QED
  BY <1>3 DEF Started, ProgressType

\* The targets of an operation are target keys.
LEMMA TargetSetType ==
    ASSUME NEW o \in Ops PROVE TargetSet(o) \subseteq Targets
<1>1. TargetsOf[o] \in Seq(Targets)
  BY TargetsOfAssumption
<1> QED
  BY <1>1 DEF TargetSet

\* One part of an operation's progress changes to a part state.
LEMMA PartChange ==
    ASSUME NEW o \in Ops, NEW i \in Parts(o), NEW x \in PartStates,
           ops \in [Ops -> ProgressType], DOMAIN ops[o].parts = Parts(o)
    PROVE  LET new == [ops EXCEPT ![o].parts[i] = x]
           IN  /\ new \in [Ops -> ProgressType]
               /\ \A p \in Ops : /\ DOMAIN new[p].parts = DOMAIN ops[p].parts
                                 /\ new[p].known = ops[p].known
                                 /\ new[p].honoured = ops[p].honoured
<1> DEFINE new == [ops EXCEPT ![o].parts[i] = x]
<1>1. Len(TargetsOf[o]) \in Nat
  BY TargetsOfAssumption
<1>2. ops[o].parts \in Seq(PartStates)
  BY DEF ProgressType
<1>3. [ops[o].parts EXCEPT ![i] = x] \in Seq(PartStates)
  BY <1>1, <1>2
<1>4. new[o] = [ops[o] EXCEPT !.parts = [ops[o].parts EXCEPT ![i] = x]]
  OBVIOUS
<1>5. new[o] \in ProgressType
  BY <1>3, <1>4 DEF ProgressType
<1>6. \A p \in Ops \ {o} : new[p] = ops[p]
  OBVIOUS
<1>7. new \in [Ops -> ProgressType]
  BY <1>5, <1>6
<1>8. DOMAIN new[o].parts = DOMAIN ops[o].parts
  BY <1>4 DEF ProgressType
<1>9. new[o].known = ops[o].known /\ new[o].honoured = ops[o].honoured
  BY <1>4 DEF ProgressType
<1> QED
  BY <1>6, <1>7, <1>8, <1>9

-----------------------------------------------------------------------------
LEMMA TypeInit == Init => TypeOK
<1> SUFFICES ASSUME Init PROVE TypeOK
  OBVIOUS
<1>1. ops \in [Ops -> ProgressType]
  BY DEF Init, Unknown, ProgressType
<1>2. selected \in Nat /\ named \subseteq Nat /\ unmatched \subseteq named
  BY MaxRowsAssumption DEF Init
<1> QED
  BY <1>1, <1>2 DEF Init, TypeOK, Unknown

LEMMA TypeStep == TypeOK /\ [Next]_vars => TypeOK'
<1> SUFFICES ASSUME TypeOK, [Next]_vars PROVE TypeOK'
  OBVIOUS
<1>1. ASSUME NEW r \in Inputs, Read(r) PROVE TypeOK'
  <2>0. r \in Record
    BY DEF Inputs, Record
  <2>1. log' \in Seq(Record)
    BY <1>1, <2>0 DEF TypeOK, Read, ReadLeafOrStatus, ReadIntent, ReadEffect,
       ReadHonoured, ReadPending, Refuse, Reads
  <2>2. CASE ReadLeafOrStatus(r)
    BY <2>1, <2>2 DEF TypeOK, ReadLeafOrStatus
  <2>3. CASE ReadIntent(r)
    <3>1. r.op \in Ops
      BY <2>0 DEF Record
    <3>2. /\ ops' \in [Ops -> ProgressType]
          /\ \A o \in Ops : ops'[o].known => DOMAIN ops'[o].parts = Parts(o)
      BY <2>3, <3>1, StartedType DEF TypeOK, ReadIntent
    <3>3. open' \subseteq Targets
      BY <2>3, <3>1, TargetSetType DEF TypeOK, ReadIntent
    <3> QED
      BY <2>1, <2>3, <3>2, <3>3 DEF TypeOK, ReadIntent
  <2>4. CASE ReadEffect(r)
    <3>1. r.op \in Ops /\ r.part \in Parts(r.op) /\ ops[r.op].known
      BY <2>0, <2>4 DEF Record, ReadEffect, Reads, Accepts, AcceptsEffect, Effects, Closures
    <3>2. Becomes(r.kind) \in PartStates
      BY <2>4 DEF ReadEffect, Effects, Becomes, PartStates
    <3>3. DOMAIN ops[r.op].parts = Parts(r.op)
      BY <3>1 DEF TypeOK
    <3>4. ops \in [Ops -> ProgressType]
      BY DEF TypeOK
    <3>5. ops' = [ops EXCEPT ![r.op].parts[r.part] = Becomes(r.kind)]
      BY <2>4 DEF ReadEffect
    <3> HIDE DEF Parts
    <3>6. /\ ops' \in [Ops -> ProgressType]
          /\ \A p \in Ops : /\ DOMAIN ops'[p].parts = DOMAIN ops[p].parts
                            /\ ops'[p].known = ops[p].known
      BY <3>1, <3>2, <3>3, <3>4, <3>5, PartChange
    <3> QED
      BY <2>1, <2>4, <3>6 DEF TypeOK, ReadEffect
  <2>5. CASE ReadHonoured(r)
    <3>1. /\ r.op \in Ops /\ ops' = [ops EXCEPT ![r.op].honoured = TRUE]
          /\ unmatched' \subseteq unmatched /\ open' \subseteq open
          /\ UNCHANGED <<named, selected, verdict>>
      BY <2>0, <2>5 DEF ReadHonoured, Record
    <3>2. ops \in [Ops -> ProgressType]
      BY DEF TypeOK
    <3>3. /\ ops' \in [Ops -> ProgressType]
          /\ \A o \in Ops : ops'[o].known = ops[o].known /\ ops'[o].parts = ops[o].parts
      BY <3>1, <3>2 DEF ProgressType
    <3> QED
      BY <2>1, <3>1, <3>3 DEF TypeOK
  <2>6. CASE ReadPending(r)
    <3>1. /\ r.op \in Ops /\ ops' = [ops EXCEPT ![r.op].pending = TRUE]
          /\ UNCHANGED <<open, unmatched, named, selected, verdict>>
      BY <2>0, <2>6 DEF ReadPending, Record
    <3>2. ops \in [Ops -> ProgressType]
      BY DEF TypeOK
    <3>3. /\ ops' \in [Ops -> ProgressType]
          /\ \A o \in Ops : ops'[o].known = ops[o].known /\ ops'[o].parts = ops[o].parts
      BY <3>1, <3>2 DEF ProgressType
    <3> QED
      BY <2>1, <3>1, <3>3 DEF TypeOK
  <2>7. CASE Refuse(r)
    BY <2>1, <2>7 DEF TypeOK, Refuse
  <2> QED
    BY <1>1, <2>2, <2>3, <2>4, <2>5, <2>6, <2>7 DEF Read
<1>2. CASE Finish
  BY <1>2 DEF TypeOK, Finish
<1>3. CASE UNCHANGED vars
  BY <1>3 DEF TypeOK, vars
<1> QED
  BY <1>1, <1>2, <1>3 DEF Next

\* Every reachable state of the replay loop is well typed, and a known
\* operation has exactly one state per part of its intent.
THEOREM TypeCorrect == Spec => []TypeOK
<1> QED
  BY TypeInit, TypeStep, PTL DEF Spec
-----------------------------------------------------------------------------
\* An overlap-free set of targets is in particular a disjoint one.
LEMMA FreeIsDisjoint ==
    ASSUME NEW o \in Ops, open \subseteq Targets, FreeOf(o)
    PROVE  TargetSet(o) \cap open = {}
<1>1. \A t \in TargetSet(o) : t \in Targets
  BY TargetSetType
<1> QED
  BY <1>1, OverlapAssumption DEF FreeOf

LEMMA InvInit == Init => ReplayInv
<1> SUFFICES ASSUME Init PROVE OpenTargetsExact /\ TargetsExclusive
  BY TypeInit DEF ReplayInv
<1>1. \A o \in Ops : ~IsOpen(o)
  BY DEF Init, IsOpen, Unknown
<1>2. open = {}
  BY DEF Init
<1> QED
  BY <1>1, <1>2 DEF OpenTargetsExact, TargetsExclusive

\* Operations keep being open, and the targets with them, when a step changes
\* neither `known` nor `honoured` of any operation nor `open`.
LEMMA InvKept ==
    ASSUME ReplayInv, open' = open, \A o \in Ops : IsOpen(o)' = IsOpen(o)
    PROVE  OpenTargetsExact' /\ TargetsExclusive'
<1>1. {p \in Ops : IsOpen(p)'} = {p \in Ops : IsOpen(p)}
  OBVIOUS
<1>2. open' = UNION {TargetSet(o) : o \in {p \in Ops : IsOpen(p)'}}
  BY <1>1 DEF ReplayInv, OpenTargetsExact
<1>3. OpenTargetsExact'
  BY <1>2 DEF OpenTargetsExact, TargetSet
<1>4. TargetsExclusive'
  BY DEF ReplayInv, TargetsExclusive, TargetSet
<1> QED
  BY <1>3, <1>4

LEMMA InvIntent ==
    ASSUME ReplayInv, NEW r \in Inputs, ReadIntent(r)
    PROVE  OpenTargetsExact' /\ TargetsExclusive'
<1> DEFINE n == r.op
<1>1. n \in Ops /\ AcceptsIntent(n)
  BY DEF Inputs, ReadIntent, Reads, Accepts, Effects, Closures
<1>2. ~IsOpen(n) /\ FreeOf(n)
  BY <1>1 DEF AcceptsIntent, IsOpen
<1>3. IsOpen(n)' /\ \A o \in Ops \ {n} : IsOpen(o)' = IsOpen(o)
  BY <1>1 DEF ReadIntent, IsOpen, Started, ReplayInv, TypeOK
<1>4. {p \in Ops : IsOpen(p)'} = {p \in Ops : IsOpen(p)} \cup {n}
  BY <1>1, <1>2, <1>3
<1>5. open' = open \cup TargetSet(n)
  BY DEF ReadIntent
<1>6. open' = UNION {TargetSet(o) : o \in {p \in Ops : IsOpen(p)'}}
  BY <1>1, <1>4, <1>5 DEF ReplayInv, OpenTargetsExact
<1>7. OpenTargetsExact'
  BY <1>6 DEF OpenTargetsExact, TargetSet
<1>8. ASSUME NEW o \in Ops \ {n}, IsOpen(o),
             NEW t \in TargetSet(n), NEW u \in TargetSet(o)
      PROVE  <<t, u>> \notin Overlap /\ <<u, t>> \notin Overlap
  <2>1. u \in open
    BY <1>8 DEF ReplayInv, OpenTargetsExact
  <2>2. t \in Targets /\ u \in Targets
    BY <1>1, <1>8, TargetSetType
  <2> QED
    BY <1>2, <1>8, <2>1, <2>2, OverlapAssumption DEF FreeOf
<1>9. \A o, p \in Ops : o # p /\ IsOpen(o)' /\ IsOpen(p)' =>
        \A t \in TargetSet(o), u \in TargetSet(p) : <<t, u>> \notin Overlap
  BY <1>1, <1>3, <1>8 DEF ReplayInv, TargetsExclusive
<1>10. TargetsExclusive'
  BY <1>9 DEF TargetsExclusive, TargetSet
<1> QED
  BY <1>7, <1>10

LEMMA InvHonoured ==
    ASSUME ReplayInv, NEW r \in Inputs, ReadHonoured(r)
    PROVE  OpenTargetsExact' /\ TargetsExclusive'
<1> DEFINE n == r.op
<1>1. n \in Ops /\ IsOpen(n)
  BY DEF Inputs, ReadHonoured, Reads, Accepts, AcceptsClosure, IsOpen, Effects, Closures
<1>2. ~IsOpen(n)' /\ \A o \in Ops \ {n} : IsOpen(o)' = IsOpen(o)
  BY <1>1 DEF ReadHonoured, IsOpen, ReplayInv, TypeOK, ProgressType
<1>3. {p \in Ops : IsOpen(p)'} = {p \in Ops : IsOpen(p)} \ {n}
  BY <1>1, <1>2
<1>4. \A o \in Ops \ {n} : IsOpen(o) => TargetSet(o) \cap TargetSet(n) = {}
  <2> SUFFICES ASSUME NEW o \in Ops \ {n}, IsOpen(o), NEW t \in TargetSet(o),
                      t \in TargetSet(n)
               PROVE  FALSE
    OBVIOUS
  <2>1. t \in Targets
    BY TargetSetType
  <2> QED
    BY <1>1, <2>1, OverlapAssumption DEF ReplayInv, TargetsExclusive
<1>5. open' = open \ TargetSet(n)
  BY DEF ReadHonoured
<1>6. open' = UNION {TargetSet(o) : o \in {p \in Ops : IsOpen(p)'}}
  BY <1>1, <1>3, <1>4, <1>5 DEF ReplayInv, OpenTargetsExact
<1>7. OpenTargetsExact'
  BY <1>6 DEF OpenTargetsExact, TargetSet
<1>8. \A o, p \in Ops : o # p /\ IsOpen(o)' /\ IsOpen(p)' =>
        \A t \in TargetSet(o), u \in TargetSet(p) : <<t, u>> \notin Overlap
  BY <1>2 DEF ReplayInv, TargetsExclusive
<1>9. TargetsExclusive'
  BY <1>8 DEF TargetsExclusive, TargetSet
<1> QED
  BY <1>7, <1>9

LEMMA InvStep == ReplayInv /\ [Next]_vars => ReplayInv'
<1> SUFFICES ASSUME ReplayInv, [Next]_vars PROVE OpenTargetsExact' /\ TargetsExclusive'
  BY TypeStep DEF ReplayInv
<1>1. ASSUME NEW r \in Inputs, Read(r) PROVE OpenTargetsExact' /\ TargetsExclusive'
  <2>0. r.op \in Ops
    BY DEF Inputs
  <2>1. CASE ReadLeafOrStatus(r)
    BY <2>1, InvKept DEF ReadLeafOrStatus, IsOpen
  <2>2. CASE ReadIntent(r)
    BY <2>2, InvIntent
  <2>3. CASE ReadEffect(r)
    <3>1. r.part \in Parts(r.op) /\ ops[r.op].known
      BY <2>3 DEF ReadEffect, Reads, Accepts, AcceptsEffect, Effects, Closures
    <3>2. Becomes(r.kind) \in PartStates
      BY <2>3 DEF ReadEffect, Effects, Becomes, PartStates
    <3>3. ops \in [Ops -> ProgressType] /\ DOMAIN ops[r.op].parts = Parts(r.op)
      BY <2>0, <3>1 DEF ReplayInv, TypeOK
    <3>4. ops' = [ops EXCEPT ![r.op].parts[r.part] = Becomes(r.kind)] /\ open' = open
      BY <2>3 DEF ReadEffect
    <3> HIDE DEF Parts
    <3>5. \A p \in Ops : ops'[p].known = ops[p].known /\ ops'[p].honoured = ops[p].honoured
      BY <2>0, <3>1, <3>2, <3>3, <3>4, PartChange
    <3>6. \A p \in Ops : IsOpen(p)' = IsOpen(p)
      BY <3>5 DEF IsOpen
    <3> QED
      BY <3>4, <3>6, InvKept
  <2>4. CASE ReadHonoured(r)
    BY <2>4, InvHonoured
  <2>5. CASE ReadPending(r)
    <3>1. \A p \in Ops : IsOpen(p)' = IsOpen(p)
      BY <2>0, <2>5 DEF ReadPending, IsOpen, ReplayInv, TypeOK, ProgressType
    <3> QED
      BY <2>5, <3>1, InvKept DEF ReadPending
  <2>6. CASE Refuse(r)
    BY <2>6, InvKept DEF Refuse, IsOpen
  <2> QED
    BY <1>1, <2>1, <2>2, <2>3, <2>4, <2>5, <2>6 DEF Read
<1>2. CASE Finish
  BY <1>2, InvKept DEF Finish, IsOpen
<1>3. CASE UNCHANGED vars
  BY <1>3, InvKept DEF vars, IsOpen
<1> QED
  BY <1>1, <1>2, <1>3 DEF Next

THEOREM ReplayInvariant == Spec => []ReplayInv
<1> QED
  BY InvInit, InvStep, PTL DEF Spec

\* The blocked targets are exactly those of the open operations, for every
\* journal and every relation of overlap.
THEOREM BlockedAreTheOpenOnes == Spec => []OpenTargetsExact
<1>1. ReplayInv => OpenTargetsExact
  BY DEF ReplayInv
<1> QED
  BY <1>1, ReplayInvariant, PTL

\* No two open operations hold overlapping targets.
THEOREM OpenOperationsExclusive == Spec => []TargetsExclusive
<1>1. ReplayInv => TargetsExclusive
  BY DEF ReplayInv
<1> QED
  BY <1>1, ReplayInvariant, PTL

LEMMA UnblocksOnlyAnchored ==
    ASSUME ReplayInv, [Next]_vars, NEW o \in Ops, IsOpen(o), ~(TargetSet(o) \subseteq open')
    PROVE  /\ Position \in named /\ Position <= selected
           /\ log'[Position].kind \in Closures /\ log'[Position].op = o
<1>1. TargetSet(o) \subseteq open
  BY DEF ReplayInv, OpenTargetsExact
<1>2. PICK r \in Inputs : ReadHonoured(r)
  BY <1>1 DEF Next, Read, ReadLeafOrStatus, ReadIntent, ReadEffect, ReadPending,
     Refuse, Finish, vars
<1>3. r.op \in Ops /\ IsOpen(r.op) /\ AcceptsClosure(r.kind, r.op)
  BY <1>2 DEF Inputs, ReadHonoured, Reads, Accepts, AcceptsClosure, IsOpen,
     Effects, Closures
<1>4. open' = open \ TargetSet(r.op)
  BY <1>2 DEF ReadHonoured
<1>5. PICK t \in TargetSet(o) : t \in TargetSet(r.op)
  BY <1>1, <1>4
<1>6. o = r.op
  BY <1>3, <1>5, TargetSetType, OverlapAssumption DEF ReplayInv, TargetsExclusive
<1>7. Position \in unmatched /\ r.kind \in Closures /\ log' = Append(log, r)
  BY <1>2 DEF ReadHonoured, Reads
<1>8. log \in Seq(Record) /\ r \in Record
  BY DEF ReplayInv, TypeOK, Inputs, Record
<1>9. log'[Position] = r
  BY <1>7, <1>8 DEF Position
<1> QED
  BY <1>3, <1>6, <1>7, <1>9 DEF AcceptsClosure, ReplayInv, TypeOK

\* A target stays blocked until the anchor names a closure of its operation
\* inside the selected prefix, whatever else the journal records.
THEOREM BlocksUntilAnchored == Spec => BlockedUntilAnchored
<1>1. ReplayInv /\ [Next]_vars =>
        [\A o \in Ops : IsOpen(o) /\ ~(TargetSet(o) \subseteq open') =>
           /\ Position \in named /\ Position <= selected
           /\ log'[Position].kind \in Closures /\ log'[Position].op = o]_vars
  BY UnblocksOnlyAnchored
<1> QED
  BY <1>1, ReplayInvariant, PTL DEF Spec, BlockedUntilAnchored
-----------------------------------------------------------------------------
(***************************************************************************)
(* The loop against the reference.  Summary says what the loop's progress  *)
(* records of the journal it has read; from it each record is accepted     *)
(* exactly when the journal it extends stays legal.                        *)
(***************************************************************************)
HIDE DEF Parts

SummaryOf(o) ==
    /\ ops[o].known <=> Intent(log, o) # {}
    /\ ops[o].honoured <=> ClosuresOf(log, o) \cap named # {}
    /\ ops[o].pending <=> ClosuresOf(log, o) \ named # {}
    /\ ops[o].known =>
         \A i \in Parts(o) :
           /\ ops[o].parts[i] = "not-started" <=> PartEvents(log, o, i, {"effect-intent"}) = {}
           /\ ops[o].parts[i] = "complete" <=> PartEvents(log, o, i, {"effect-complete"}) # {}
           /\ ops[o].parts[i] = "failed" <=> PartEvents(log, o, i, {"effect-failed"}) # {}

Summary ==
    /\ unmatched = named \ ClosurePositions(log)
    /\ \A o \in Ops : SummaryOf(o)

ReferenceInv == AgreesWithReference /\ (verdict = "reading" => Summary)

\* Record r, read as number n, extends the journal s to t.
Extends(s, r, t, n) ==
    /\ s \in Seq(Record) /\ r \in Record
    /\ n = Len(s) + 1 /\ t = Append(s, r)

EventOf(r, o) == r.kind \notin {"leaf", "alien"} /\ r.op = o

LEMMA Appending ==
    ASSUME NEW s, NEW r, NEW t, NEW n, Extends(s, r, t, n)
    PROVE  /\ t \in Seq(Record) /\ Len(t) = n /\ n \in Nat /\ t[n] = r
           /\ \A k \in 1..Len(s) : t[k] = s[k] /\ k < n /\ k \in Nat
           /\ 1..n = (1..Len(s)) \cup {n} /\ n \notin 1..Len(s)
<1>1. Len(s) \in Nat
  BY DEF Extends
<1> QED
  BY <1>1 DEF Extends

\* What reading one more record adds to the events of an operation.
LEMMA EventsGrow ==
    ASSUME NEW s, NEW r, NEW t, NEW n, Extends(s, r, t, n), NEW o \in Ops
    PROVE  /\ \A k : k \in Events(t, o) <=> k \in Events(s, o) \/ (k = n /\ EventOf(r, o))
           /\ \A k \in Events(s, o) : k \in 1..Len(s)
<1>1. \A k \in 1..n : k \in Events(t, o) <=> t[k].kind \notin {"leaf", "alien"} /\ t[k].op = o
  BY Appending DEF Events
<1>2. \A k \in 1..Len(s) :
        k \in Events(s, o) <=> s[k].kind \notin {"leaf", "alien"} /\ s[k].op = o
  BY DEF Events
<1>3. \A k : k \in Events(t, o) => k \in 1..n
  BY Appending DEF Events
<1>4. \A k : k \in Events(s, o) => k \in 1..Len(s)
  BY DEF Events
<1> QED
  BY <1>1, <1>2, <1>3, <1>4, Appending DEF EventOf

\* The same of the events of each kind.
LEMMA KindsGrow ==
    ASSUME NEW s, NEW r, NEW t, NEW n, Extends(s, r, t, n), NEW o \in Ops
    PROVE  /\ \A k : k \in Intent(t, o) <=>
                k \in Intent(s, o) \/ (k = n /\ r.kind = "operation-intent" /\ r.op = o)
           /\ \A k : k \in ClosuresOf(t, o) <=>
                k \in ClosuresOf(s, o) \/ (k = n /\ r.kind \in Closures /\ r.op = o)
           /\ \A i, k : \A kinds \in SUBSET Effects : k \in PartEvents(t, o, i, kinds) <=>
                \/ k \in PartEvents(s, o, i, kinds)
                \/ k = n /\ r.kind \in kinds /\ r.part = i /\ r.op = o
<1>1. /\ \A k : k \in Events(t, o) <=> k \in Events(s, o) \/ (k = n /\ EventOf(r, o))
      /\ \A k \in Events(s, o) : t[k] = s[k] /\ k # n
      /\ t[n] = r
  BY EventsGrow, Appending
<1>2. \A k : k \in Intent(t, o) <=>
          k \in Intent(s, o) \/ (k = n /\ r.kind = "operation-intent" /\ r.op = o)
  BY <1>1 DEF Intent, EventOf
<1>3. \A k : k \in ClosuresOf(t, o) <=>
          k \in ClosuresOf(s, o) \/ (k = n /\ r.kind \in Closures /\ r.op = o)
  BY <1>1 DEF ClosuresOf, EventOf, Closures
<1>4. ASSUME NEW i, NEW k, NEW kinds \in SUBSET Effects
      PROVE  k \in PartEvents(t, o, i, kinds) <=>
                \/ k \in PartEvents(s, o, i, kinds)
                \/ k = n /\ r.kind \in kinds /\ r.part = i /\ r.op = o
  <2>1. r.kind \in kinds => r.kind \notin {"leaf", "alien"}
    BY DEF Effects
  <2> QED
    BY <1>1, <2>1 DEF PartEvents, EventOf
<1> QED
  BY <1>2, <1>3, <1>4

\* A record that is no event of an operation leaves its life as it was.
LEMMA OtherLife ==
    ASSUME NEW s, NEW r, NEW t, NEW n, Extends(s, r, t, n), NEW o \in Ops, NEW names,
           ~EventOf(r, o)
    PROVE  /\ Events(t, o) = Events(s, o) /\ Intent(t, o) = Intent(s, o)
           /\ ClosuresOf(t, o) = ClosuresOf(s, o)
           /\ \A i : \A kinds \in SUBSET Effects :
                PartEvents(t, o, i, kinds) = PartEvents(s, o, i, kinds)
           /\ OneLife(t, names, o) <=> OneLife(s, names, o)
<1>1. Events(t, o) = Events(s, o)
  <2>1. \A k : k \in Events(t, o) <=> k \in Events(s, o)
    BY EventsGrow
  <2> QED
    BY <2>1 DEF Events
<1>2. \A k \in Events(s, o) : t[k] = s[k]
  BY EventsGrow, Appending
<1>3. Intent(t, o) = Intent(s, o) /\ ClosuresOf(t, o) = ClosuresOf(s, o)
  BY <1>1, <1>2 DEF Intent, ClosuresOf
<1>4. \A i, kinds : PartEvents(t, o, i, kinds) = PartEvents(s, o, i, kinds)
  BY <1>1, <1>2 DEF PartEvents
<1>5. /\ \A k \in ClosuresOf(s, o) : k \in Events(s, o)
      /\ \A i, kinds : \A k \in PartEvents(s, o, i, kinds) : k \in Events(s, o)
  BY DEF ClosuresOf, PartEvents
<1>6. OneLife(t, names, o) <=> OneLife(s, names, o)
  BY <1>1, <1>2, <1>3, <1>4, <1>5 DEF OneLife
<1> QED
  BY <1>1, <1>3, <1>4, <1>6

\* What a step reads of the operation r is an event of, before and after it.
LEMMA OwnEvents ==
    ASSUME NEW s, NEW r, NEW t, NEW n, Extends(s, r, t, n), NEW o \in Ops, EventOf(r, o)
    PROVE  /\ \A k : k \in Events(t, o) <=> k \in Events(s, o) \/ k = n
           /\ \A k \in Events(s, o) : t[k] = s[k] /\ k \in Nat /\ k < n
           /\ n \in Nat /\ n \notin Events(s, o) /\ t[n] = r
           /\ \A k \in Intent(s, o) : k \in Events(s, o)
           /\ \A k \in ClosuresOf(s, o) : k \in Events(s, o)
           /\ \A i, kinds : \A k \in PartEvents(s, o, i, kinds) : k \in Events(s, o)
<1>1. /\ \A k \in Intent(s, o) : k \in Events(s, o)
      /\ \A k \in ClosuresOf(s, o) : k \in Events(s, o)
      /\ \A i, kinds : \A k \in PartEvents(s, o, i, kinds) : k \in Events(s, o)
  BY DEF Intent, ClosuresOf, PartEvents
<1> QED
  BY <1>1, EventsGrow, Appending

\* A status extends the life of a known operation and of no other.
LEMMA StatusLife ==
    ASSUME NEW s, NEW r, NEW t, NEW n, Extends(s, r, t, n), NEW o \in Ops, NEW names,
           OneLife(s, names, o), r.kind = "status", r.op = o
    PROVE  OneLife(t, names, o) <=> Intent(s, o) # {}
<1>0. EventOf(r, o)
  BY DEF EventOf
<1>1. /\ \A k : k \in Events(t, o) <=> k \in Events(s, o) \/ k = n
      /\ \A k \in Events(s, o) : t[k] = s[k] /\ k \in Nat /\ k < n
      /\ n \in Nat /\ t[n] = r
      /\ \A k \in Intent(s, o) : k \in Events(s, o)
      /\ \A k \in ClosuresOf(s, o) : k \in Events(s, o)
  BY <1>0, OwnEvents
<1>2. /\ \A k : k \in Intent(t, o) <=> k \in Intent(s, o)
      /\ \A k : k \in ClosuresOf(t, o) <=> k \in ClosuresOf(s, o)
      /\ \A i : \A kinds \in SUBSET Effects :
           \A k : k \in PartEvents(t, o, i, kinds) <=> k \in PartEvents(s, o, i, kinds)
  BY KindsGrow DEF Closures, Effects
<1>3. Intent(t, o) = Intent(s, o) /\ ClosuresOf(t, o) = ClosuresOf(s, o)
  BY <1>2 DEF Intent, ClosuresOf
<1>4. \A i : \A kinds \in SUBSET Effects : PartEvents(t, o, i, kinds) = PartEvents(s, o, i, kinds)
  BY <1>2 DEF PartEvents
<1>5. {"effect-intent"} \in SUBSET Effects /\ {"effect-complete"} \in SUBSET Effects
      /\ {"effect-complete", "effect-failed"} \in SUBSET Effects
  BY DEF Effects
<1>6. ASSUME OneLife(t, names, o) PROVE Intent(s, o) # {}
  BY <1>1, <1>3, <1>6 DEF OneLife
<1>7. ASSUME Intent(s, o) # {} PROVE OneLife(t, names, o)
  <2>1. \A k \in Events(t, o) : \E j \in Intent(t, o) : j <= k
    BY <1>1, <1>3, <1>7 DEF OneLife
  <2>2. \A k \in Events(t, o) : t[k].kind \in Effects => t[k].part \in Parts(o)
    BY <1>1 DEF OneLife, Effects
  <2>3. \A i \in Parts(o) :
          LET begun == PartEvents(t, o, i, {"effect-intent"})
              ended == PartEvents(t, o, i, {"effect-complete", "effect-failed"})
          IN  /\ \A j, k \in begun : j = k
              /\ \A j, k \in ended : j = k
              /\ \A k \in ended : \E j \in begun : j < k
    BY <1>4, <1>5 DEF OneLife
  <2>4. \A j \in ClosuresOf(t, o), k \in Events(t, o) :
          j < k /\ t[k].kind # "status" =>
            /\ t[k].kind = "operation-reconciled"
            /\ j \notin names
    BY <1>1, <1>3 DEF OneLife
  <2>5. \A k \in ClosuresOf(t, o) :
          /\ t[k].kind = "operation-complete" =>
               \A i \in Parts(o) :
                 \E j \in PartEvents(t, o, i, {"effect-complete"}) : j < k
          /\ t[k].kind = "operation-rolled-back" => o \in Journalled
    BY <1>1, <1>3, <1>4, <1>5 DEF OneLife
  <2> QED
    BY <1>3, <2>1, <2>2, <2>3, <2>4, <2>5 DEF OneLife
<1> QED
  BY <1>6, <1>7

\* An operation that has no intent yet has no event at all, and an intent
\* begins its life exactly then.
LEMMA IntentLife ==
    ASSUME NEW s, NEW r, NEW t, NEW n, Extends(s, r, t, n), NEW o \in Ops, NEW names,
           OneLife(s, names, o), r.kind = "operation-intent", r.op = o
    PROVE  /\ OneLife(t, names, o) <=> Intent(s, o) = {}
           /\ Intent(s, o) = {} => Events(t, o) = {n}
<1>0. EventOf(r, o)
  BY DEF EventOf
<1>1. /\ \A k : k \in Events(t, o) <=> k \in Events(s, o) \/ k = n
      /\ \A k \in Intent(s, o) : k \in Events(s, o)
      /\ n \in Nat /\ n \notin Events(s, o) /\ t[n] = r
  BY <1>0, OwnEvents
<1>2. \A k : k \in Intent(t, o) <=> k \in Intent(s, o) \/ k = n
  BY KindsGrow
<1>3. ASSUME OneLife(t, names, o) PROVE Intent(s, o) = {}
  <2>1. \A j, k \in Intent(t, o) : j = k
    BY <1>3 DEF OneLife
  <2> QED
    BY <1>1, <1>2, <2>1
<1>4. ASSUME Intent(s, o) = {} PROVE OneLife(t, names, o) /\ Events(t, o) = {n}
  <2>1. \A k \in Events(s, o) : FALSE
    BY <1>4 DEF OneLife
  <2>2. \A k : k \in Events(t, o) <=> k = n
    BY <1>1, <2>1
  <2>3. Events(t, o) = {n}
    BY <2>2 DEF Events
  <2>4. Intent(t, o) = {n}
    BY <1>1, <2>3 DEF Intent
  <2>5. ClosuresOf(t, o) = {}
    BY <1>1, <2>3 DEF ClosuresOf, Closures
  <2>6. \A i : PartEvents(t, o, i, {"effect-intent"}) = {}
    BY <1>1, <2>3 DEF PartEvents
  <2>7. \A i : PartEvents(t, o, i, {"effect-complete", "effect-failed"}) = {}
    BY <1>1, <2>3 DEF PartEvents
  <2>8. t[n].kind \notin Effects
    BY <1>1 DEF Effects
  <2>9. \A k \in Events(t, o) : \E j \in Intent(t, o) : j <= k
    BY <1>1, <2>3, <2>4
  <2>10. \A k \in Events(t, o) : t[k].kind \in Effects => t[k].part \in Parts(o)
    BY <2>3, <2>8
  <2>11. OneLife(t, names, o)
    BY <2>4, <2>5, <2>6, <2>7, <2>9, <2>10 DEF OneLife
  <2> QED
    BY <2>3, <2>11
<1> QED
  BY <1>3, <1>4

\* An effect extends the life of an operation that is not closed, whose part it
\* starts or ends for the first time.
LEMMA EffectLife ==
    ASSUME NEW s, NEW r, NEW t, NEW n, Extends(s, r, t, n), NEW o \in Ops, NEW names,
           OneLife(s, names, o), r.kind \in Effects, r.op = o
    PROVE  OneLife(t, names, o) <=>
             /\ Intent(s, o) # {} /\ ClosuresOf(s, o) = {}
             /\ r.part \in Parts(o)
             /\ r.kind = "effect-intent" =>
                  PartEvents(s, o, r.part, {"effect-intent"}) = {}
             /\ r.kind # "effect-intent" =>
                  /\ PartEvents(s, o, r.part, {"effect-intent"}) # {}
                  /\ PartEvents(s, o, r.part, {"effect-complete", "effect-failed"}) = {}
<1>0. EventOf(r, o)
  BY DEF EventOf, Effects
<1>1. /\ \A k : k \in Events(t, o) <=> k \in Events(s, o) \/ k = n
      /\ \A k \in Events(s, o) : t[k] = s[k] /\ k \in Nat /\ k < n
      /\ n \in Nat /\ n \notin Events(s, o) /\ t[n] = r
      /\ \A k \in Intent(s, o) : k \in Events(s, o)
      /\ \A k \in ClosuresOf(s, o) : k \in Events(s, o)
      /\ \A i, kinds : \A k \in PartEvents(s, o, i, kinds) : k \in Events(s, o)
  BY <1>0, OwnEvents
<1>2. /\ \A k : k \in Intent(t, o) <=> k \in Intent(s, o)
      /\ \A k : k \in ClosuresOf(t, o) <=> k \in ClosuresOf(s, o)
  BY KindsGrow DEF Closures, Effects
<1>3. Intent(t, o) = Intent(s, o) /\ ClosuresOf(t, o) = ClosuresOf(s, o)
  BY <1>2 DEF Intent, ClosuresOf
<1> DEFINE
      Begun(q, i) == PartEvents(q, o, i, {"effect-intent"})
      Ended(q, i) == PartEvents(q, o, i, {"effect-complete", "effect-failed"})
<1>4. {"effect-intent"} \in SUBSET Effects
      /\ {"effect-complete", "effect-failed"} \in SUBSET Effects
  BY DEF Effects
<1>5. /\ \A i, k : k \in Begun(t, i) <=>
            k \in Begun(s, i) \/ (k = n /\ r.kind = "effect-intent" /\ r.part = i)
      /\ \A i, k : k \in Ended(t, i) <=>
            k \in Ended(s, i) \/ (k = n /\ r.kind # "effect-intent" /\ r.part = i)
  BY <1>4, KindsGrow DEF Effects
<1>6. ASSUME OneLife(t, names, o)
      PROVE  /\ Intent(s, o) # {} /\ ClosuresOf(s, o) = {} /\ r.part \in Parts(o)
             /\ r.kind = "effect-intent" => Begun(s, r.part) = {}
             /\ r.kind # "effect-intent" => Begun(s, r.part) # {} /\ Ended(s, r.part) = {}
  <2>1. Intent(s, o) # {}
    BY <1>1, <1>3, <1>6 DEF OneLife
  <2>2. \A j \in ClosuresOf(s, o) : FALSE
    BY <1>1, <1>3, <1>6 DEF OneLife, Effects
  <2>3. r.part \in Parts(o)
    BY <1>1, <1>6 DEF OneLife
  <2>4. /\ \A j, k \in Begun(t, r.part) : j = k
        /\ \A j, k \in Ended(t, r.part) : j = k
        /\ \A k \in Ended(t, r.part) : \E j \in Begun(t, r.part) : j < k
    BY <1>6, <2>3 DEF OneLife
  <2>5. r.kind = "effect-intent" => Begun(s, r.part) = {}
    BY <1>1, <1>5, <2>4
  <2>6. r.kind # "effect-intent" => Begun(s, r.part) # {} /\ Ended(s, r.part) = {}
    BY <1>1, <1>5, <2>4
  <2> QED
    BY <2>1, <2>2, <2>3, <2>5, <2>6
<1>7. ASSUME Intent(s, o) # {}, ClosuresOf(s, o) = {}, r.part \in Parts(o),
             r.kind = "effect-intent" => Begun(s, r.part) = {},
             r.kind # "effect-intent" => Begun(s, r.part) # {} /\ Ended(s, r.part) = {}
      PROVE  OneLife(t, names, o)
  <2>1. \A k \in Events(t, o) : \E j \in Intent(t, o) : j <= k
    BY <1>1, <1>3, <1>7 DEF OneLife
  <2>2. \A k \in Events(t, o) : t[k].kind \in Effects => t[k].part \in Parts(o)
    BY <1>1, <1>7 DEF OneLife
  <2>3. ASSUME NEW i \in Parts(o)
        PROVE  /\ \A j, k \in Begun(t, i) : j = k
               /\ \A j, k \in Ended(t, i) : j = k
               /\ \A k \in Ended(t, i) : \E j \in Begun(t, i) : j < k
    <3>1. /\ \A j, k \in Begun(s, i) : j = k
          /\ \A j, k \in Ended(s, i) : j = k
          /\ \A k \in Ended(s, i) : \E j \in Begun(s, i) : j < k
      BY DEF OneLife
    <3>2. \A k \in Begun(s, i) : k < n
      BY <1>1
    <3> QED
      BY <1>5, <1>7, <3>1, <3>2
  <2>4. \A j, k \in Intent(t, o) : j = k
    BY <1>3 DEF OneLife
  <2> HIDE DEF Begun, Ended
  <2>5. /\ \A j \in ClosuresOf(t, o), k \in Events(t, o) :
             j < k /\ t[k].kind # "status" =>
               t[k].kind = "operation-reconciled" /\ j \notin names
        /\ \A k \in ClosuresOf(t, o) :
             /\ t[k].kind = "operation-complete" =>
                  \A i \in Parts(o) :
                    \E j \in PartEvents(t, o, i, {"effect-complete"}) : j < k
             /\ t[k].kind = "operation-rolled-back" => o \in Journalled
    BY <1>3, <1>7
  <2> USE DEF Begun, Ended
  <2> QED
    BY <2>1, <2>2, <2>3, <2>4, <2>5 DEF OneLife
<1> QED
  BY <1>6, <1>7

\* A closure extends the life of an operation that no closure of the anchor has
\* ended; after another closure it must be a reconciliation.
LEMMA ClosureLife ==
    ASSUME NEW s, NEW r, NEW t, NEW n, Extends(s, r, t, n), NEW o \in Ops, NEW names,
           OneLife(s, names, o), r.kind \in Closures, r.op = o
    PROVE  OneLife(t, names, o) <=>
             /\ Intent(s, o) # {} /\ ClosuresOf(s, o) \cap names = {}
             /\ ClosuresOf(s, o) # {} => r.kind = "operation-reconciled"
             /\ r.kind = "operation-complete" =>
                  \A i \in Parts(o) : PartEvents(s, o, i, {"effect-complete"}) # {}
             /\ r.kind = "operation-rolled-back" => o \in Journalled
<1>0. EventOf(r, o)
  BY DEF EventOf, Closures
<1>1. /\ \A k : k \in Events(t, o) <=> k \in Events(s, o) \/ k = n
      /\ \A k \in Events(s, o) : t[k] = s[k] /\ k \in Nat /\ k < n
      /\ n \in Nat /\ n \notin Events(s, o) /\ t[n] = r
      /\ \A k \in Intent(s, o) : k \in Events(s, o)
      /\ \A k \in ClosuresOf(s, o) : k \in Events(s, o)
      /\ \A i, kinds : \A k \in PartEvents(s, o, i, kinds) : k \in Events(s, o)
  BY <1>0, OwnEvents
<1>2. /\ \A k : k \in Intent(t, o) <=> k \in Intent(s, o)
      /\ \A k : k \in ClosuresOf(t, o) <=> k \in ClosuresOf(s, o) \/ k = n
      /\ \A i : \A kinds \in SUBSET Effects :
           \A k : k \in PartEvents(t, o, i, kinds) <=> k \in PartEvents(s, o, i, kinds)
  BY KindsGrow DEF Closures, Effects
<1>3. Intent(t, o) = Intent(s, o)
  BY <1>2 DEF Intent
<1>4. \A i : \A kinds \in SUBSET Effects : PartEvents(t, o, i, kinds) = PartEvents(s, o, i, kinds)
  BY <1>2 DEF PartEvents
<1>5. {"effect-intent"} \in SUBSET Effects /\ {"effect-complete"} \in SUBSET Effects
      /\ {"effect-complete", "effect-failed"} \in SUBSET Effects
  BY DEF Effects
<1>6. r.kind # "status" /\ r.kind \notin Effects
  BY DEF Closures, Effects
<1>7. ASSUME OneLife(t, names, o)
      PROVE  /\ Intent(s, o) # {} /\ ClosuresOf(s, o) \cap names = {}
             /\ ClosuresOf(s, o) # {} => r.kind = "operation-reconciled"
             /\ r.kind = "operation-complete" =>
                  \A i \in Parts(o) : PartEvents(s, o, i, {"effect-complete"}) # {}
             /\ r.kind = "operation-rolled-back" => o \in Journalled
  <2>1. Intent(s, o) # {}
    BY <1>1, <1>3, <1>7 DEF OneLife
  <2>2. \A j \in ClosuresOf(s, o) : r.kind = "operation-reconciled" /\ j \notin names
    BY <1>1, <1>2, <1>6, <1>7 DEF OneLife
  <2>3. r.kind = "operation-complete" =>
           \A i \in Parts(o) : PartEvents(t, o, i, {"effect-complete"}) # {}
    BY <1>1, <1>2, <1>7 DEF OneLife
  <2>4. r.kind = "operation-rolled-back" => o \in Journalled
    BY <1>1, <1>2, <1>7 DEF OneLife
  <2> QED
    BY <1>4, <1>5, <2>1, <2>2, <2>3, <2>4
<1>8. ASSUME Intent(s, o) # {}, ClosuresOf(s, o) \cap names = {},
             ClosuresOf(s, o) # {} => r.kind = "operation-reconciled",
             r.kind = "operation-complete" =>
               \A i \in Parts(o) : PartEvents(s, o, i, {"effect-complete"}) # {},
             r.kind = "operation-rolled-back" => o \in Journalled
      PROVE  OneLife(t, names, o)
  <2>1. /\ \A k \in Events(t, o) : \E j \in Intent(t, o) : j <= k
        /\ \A j, k \in Intent(t, o) : j = k
    BY <1>1, <1>3, <1>8 DEF OneLife
  <2>2. \A k \in Events(t, o) : t[k].kind \in Effects => t[k].part \in Parts(o)
    BY <1>1, <1>6 DEF OneLife
  <2>3. \A i \in Parts(o) :
          LET begun == PartEvents(t, o, i, {"effect-intent"})
              ended == PartEvents(t, o, i, {"effect-complete", "effect-failed"})
          IN  /\ \A j, k \in begun : j = k
              /\ \A j, k \in ended : j = k
              /\ \A k \in ended : \E j \in begun : j < k
    BY <1>4, <1>5 DEF OneLife
  <2>4. ASSUME NEW j \in ClosuresOf(t, o), NEW k \in Events(t, o), j < k, t[k].kind # "status"
        PROVE  t[k].kind = "operation-reconciled" /\ j \notin names
    <3>1. CASE k = n
      BY <1>1, <1>2, <1>8, <2>4, <3>1
    <3>2. CASE k # n
      BY <1>1, <1>2, <2>4, <3>2 DEF OneLife
    <3> QED
      BY <3>1, <3>2
  <2>5. ASSUME NEW k \in ClosuresOf(t, o)
        PROVE  /\ t[k].kind = "operation-complete" =>
                    \A i \in Parts(o) :
                      \E j \in PartEvents(t, o, i, {"effect-complete"}) : j < k
               /\ t[k].kind = "operation-rolled-back" => o \in Journalled
    <3>1. CASE k = n
      <4>1. \A i : \A j \in PartEvents(t, o, i, {"effect-complete"}) : j < n
        BY <1>1, <1>4, <1>5
      <4> QED
        BY <1>1, <1>4, <1>5, <1>8, <3>1, <4>1
    <3>2. CASE k # n
      BY <1>1, <1>2, <1>4, <1>5, <3>2 DEF OneLife
    <3> QED
      BY <3>1, <3>2
  <2> QED
    BY <2>1, <2>2, <2>3, <2>4, <2>5 DEF OneLife
<1> QED
  BY <1>7, <1>8

\* Only a new intent has to be free of what is open before it.
LEMMA ExclusiveGrows ==
    ASSUME NEW s, NEW r, NEW t, NEW n, Extends(s, r, t, n), NEW names,
           Exclusive(s, names), r.op \in Ops
    PROVE  Exclusive(t, names) <=>
             (r.kind = "operation-intent" =>
                /\ \A i, j \in Parts(r.op) : i # j => TargetsOf[r.op][i] # TargetsOf[r.op][j]
                /\ \A p \in Ops : Intent(s, p) # {} /\ ClosuresOf(s, p) \cap names = {} =>
                     \A x \in TargetSet(r.op), u \in TargetSet(p) : <<x, u>> \notin Overlap)
<1> DEFINE
      Distinct(o) == \A i, j \in Parts(o) : i # j => TargetsOf[o][i] # TargetsOf[o][j]
      Apart(o, p) == \A x \in TargetSet(o), u \in TargetSet(p) : <<x, u>> \notin Overlap
<1>1. /\ \A o \in Ops : \A k : k \in Intent(t, o) <=>
           k \in Intent(s, o) \/ (k = n /\ r.kind = "operation-intent" /\ r.op = o)
      /\ \A o \in Ops : \A k : k \in ClosuresOf(t, o) <=>
           k \in ClosuresOf(s, o) \/ (k = n /\ r.kind \in Closures /\ r.op = o)
  BY KindsGrow
<1>2. /\ n \in Nat
      /\ \A o \in Ops : \A k \in Intent(s, o) : k \in Nat /\ k < n
      /\ \A o \in Ops : \A k \in ClosuresOf(s, o) : k \in Nat /\ k < n
  <2>1. \A o \in Ops : \A k \in Intent(s, o) \cup ClosuresOf(s, o) : k \in Events(s, o)
    BY DEF Intent, ClosuresOf
  <2> QED
    BY <2>1, EventsGrow, Appending
<1>3. \A p \in Ops : \A k \in Nat : k < n => (OpenAt(t, names, p, k) <=> OpenAt(s, names, p, k))
  BY <1>1, <1>2 DEF OpenAt
<1>4. ASSUME NEW p \in Ops
      PROVE  OpenAt(t, names, p, n) <=> Intent(s, p) # {} /\ ClosuresOf(s, p) \cap names = {}
  BY <1>1, <1>2 DEF OpenAt
<1>5. /\ Exclusive(t, names) <=>
           \A o \in Ops : \A k \in Intent(t, o) :
             Distinct(o) /\ \A p \in Ops : OpenAt(t, names, p, k) => Apart(o, p)
      /\ \A o \in Ops : \A k \in Intent(s, o) :
           Distinct(o) /\ \A p \in Ops : OpenAt(s, names, p, k) => Apart(o, p)
  BY DEF Exclusive
<1> HIDE DEF Distinct, Apart
<1>6. Exclusive(t, names) <=>
        (r.kind = "operation-intent" =>
           Distinct(r.op) /\ \A p \in Ops : OpenAt(t, names, p, n) => Apart(r.op, p))
  BY <1>1, <1>2, <1>3, <1>5
<1> QED
  BY <1>4, <1>6 DEF Distinct, Apart

\* What has to hold for the next record of a legal journal to leave it legal.
LEMMA LegalGrows ==
    ASSUME NEW s, NEW r, NEW t, NEW n, Extends(s, r, t, n), NEW names, NEW sel,
           Legal(s, names, sel), r.op \in Ops
    PROVE  Legal(t, names, sel) <=>
             /\ r.kind # "alien"
             /\ r.kind # "leaf" => OneLife(t, names, r.op)
             /\ Exclusive(t, names)
             /\ r.kind \in Closures /\ n \in names => n <= sel
<1>1. (\A k \in 1..Len(t) : t[k].kind # "alien") <=> r.kind # "alien"
  BY Appending DEF Legal
<1>2. ASSUME r.kind # "alien"
      PROVE  (\A o \in Ops : OneLife(t, names, o)) <=> (r.kind # "leaf" => OneLife(t, names, r.op))
  <2>1. \A o \in Ops : OneLife(s, names, o)
    BY DEF Legal
  <2>2. \A o \in Ops : o # r.op \/ r.kind = "leaf" => OneLife(t, names, o)
    BY <2>1, OtherLife DEF EventOf
  <2> QED
    BY <2>2
<1>3. (\A o \in Ops : \A k \in ClosuresOf(t, o) \cap names : k <= sel)
        <=> (r.kind \in Closures /\ n \in names => n <= sel)
  <2>1. \A o \in Ops : \A k : k \in ClosuresOf(t, o) <=>
           k \in ClosuresOf(s, o) \/ (k = n /\ r.kind \in Closures /\ r.op = o)
    BY KindsGrow
  <2>2. \A o \in Ops : \A k \in ClosuresOf(s, o) \cap names : k <= sel
    BY DEF Legal
  <2> QED
    BY <2>1, <2>2
<1> QED
  BY <1>1, <1>2, <1>3 DEF Legal

\* The loop accepts a record exactly if the journal it extends stays legal.
LEMMA AcceptsTheLegal ==
    ASSUME ReplayInv, Summary, Legal(log, named, selected),
           NEW r \in Inputs, NEW t, t = Append(log, r)
    PROVE  Accepts(r) <=> Legal(t, named, selected)
<1> DEFINE o == r.op
<1>1. r \in Record /\ o \in Ops /\ r.kind \in Kinds
  BY DEF Inputs, Record
<1>2. Extends(log, r, t, Position)
  BY <1>1 DEF Extends, Position, ReplayInv, TypeOK
<1>3. OneLife(log, named, o) /\ Exclusive(log, named) /\ SummaryOf(o)
  BY <1>1 DEF Legal, Summary
<1>4. Legal(t, named, selected) <=>
        /\ r.kind # "alien"
        /\ r.kind # "leaf" => OneLife(t, named, o)
        /\ Exclusive(t, named)
        /\ r.kind \in Closures /\ Position \in named => Position <= selected
  BY <1>1, <1>2, LegalGrows
<1>5. r.kind # "operation-intent" => Exclusive(t, named)
  BY <1>1, <1>2, <1>3, ExclusiveGrows
<1>6. CASE r.kind \in {"leaf", "alien"}
  BY <1>4, <1>5, <1>6 DEF Accepts, Effects, Closures
<1>7. CASE r.kind = "status"
  <2>1. OneLife(t, named, o) <=> ops[o].known
    BY <1>1, <1>2, <1>3, <1>7, StatusLife DEF SummaryOf
  <2> QED
    BY <1>4, <1>5, <1>7, <2>1 DEF Accepts, Effects, Closures
<1>8. CASE r.kind = "operation-intent"
  <2>1. OneLife(t, named, o) <=> ~ops[o].known
    BY <1>1, <1>2, <1>3, <1>8, IntentLife DEF SummaryOf
  <2>2. \A p \in Ops : IsOpen(p) <=> Intent(log, p) # {} /\ ClosuresOf(log, p) \cap named = {}
    BY DEF Summary, SummaryOf, IsOpen
  <2>3. FreeOf(o) <=>
          \A p \in Ops : IsOpen(p) =>
            \A x \in TargetSet(o), u \in TargetSet(p) : <<x, u>> \notin Overlap
    BY DEF FreeOf, ReplayInv, OpenTargetsExact
  <2>4. Exclusive(t, named) <=>
          /\ \A i, j \in Parts(o) : i # j => TargetsOf[o][i] # TargetsOf[o][j]
          /\ FreeOf(o)
    BY <1>1, <1>2, <1>3, <1>8, <2>2, <2>3, ExclusiveGrows
  <2>5. Accepts(r) <=> AcceptsIntent(o)
    BY <1>8 DEF Accepts, Effects, Closures
  <2> QED
    BY <1>4, <1>8, <2>1, <2>4, <2>5 DEF AcceptsIntent, Closures
<1>9. CASE r.kind \in Effects
  <2> DEFINE i == r.part
  <2>1. OneLife(t, named, o) <=>
          /\ Intent(log, o) # {} /\ ClosuresOf(log, o) = {}
          /\ i \in Parts(o)
          /\ r.kind = "effect-intent" => PartEvents(log, o, i, {"effect-intent"}) = {}
          /\ r.kind # "effect-intent" =>
               /\ PartEvents(log, o, i, {"effect-intent"}) # {}
               /\ PartEvents(log, o, i, {"effect-complete", "effect-failed"}) = {}
    BY <1>1, <1>2, <1>3, <1>9, EffectLife
  <2>2. ClosuresOf(log, o) = {} <=> ~ops[o].honoured /\ ~ops[o].pending
    BY <1>3 DEF SummaryOf
  <2>3. ASSUME ops[o].known, i \in Parts(o)
        PROVE  /\ ops[o].parts[i] = "not-started" <=>
                    PartEvents(log, o, i, {"effect-intent"}) = {}
               /\ ops[o].parts[i] = "in-progress" <=>
                    /\ PartEvents(log, o, i, {"effect-intent"}) # {}
                    /\ PartEvents(log, o, i, {"effect-complete", "effect-failed"}) = {}
    <3>1. ops[o].parts[i] \in PartStates
      BY <1>1, <2>3 DEF ReplayInv, TypeOK, ProgressType
    <3>2. /\ ops[o].parts[i] = "not-started" <=> PartEvents(log, o, i, {"effect-intent"}) = {}
          /\ ops[o].parts[i] = "complete" <=> PartEvents(log, o, i, {"effect-complete"}) # {}
          /\ ops[o].parts[i] = "failed" <=> PartEvents(log, o, i, {"effect-failed"}) # {}
      BY <1>3, <2>3 DEF SummaryOf
    <3>3. PartEvents(log, o, i, {"effect-complete", "effect-failed"}) =
            PartEvents(log, o, i, {"effect-complete"}) \cup PartEvents(log, o, i, {"effect-failed"})
      BY DEF PartEvents
    <3> QED
      BY <3>1, <3>2, <3>3 DEF PartStates
  <2>4. ops[o].known <=> Intent(log, o) # {}
    BY <1>3 DEF SummaryOf
  <2>5. Accepts(r) <=> AcceptsEffect(r.kind, o, i)
    BY <1>9 DEF Accepts, Effects, Closures
  <2>6. OneLife(t, named, o) <=> AcceptsEffect(r.kind, o, i)
    BY <2>1, <2>2, <2>3, <2>4 DEF AcceptsEffect, Prior
  <2>7. r.kind \notin {"leaf", "alien", "operation-intent"} \cup Closures
    BY <1>9 DEF Effects, Closures
  <2> QED
    BY <1>4, <1>5, <2>5, <2>6, <2>7
<1>10. CASE r.kind \in Closures
  <2>1. OneLife(t, named, o) <=>
          /\ Intent(log, o) # {} /\ ClosuresOf(log, o) \cap named = {}
          /\ ClosuresOf(log, o) # {} => r.kind = "operation-reconciled"
          /\ r.kind = "operation-complete" =>
               \A i \in Parts(o) : PartEvents(log, o, i, {"effect-complete"}) # {}
          /\ r.kind = "operation-rolled-back" => o \in Journalled
    BY <1>1, <1>2, <1>3, <1>10, ClosureLife
  <2>2. ops[o].honoured <=> ClosuresOf(log, o) \cap named # {}
    BY <1>3 DEF SummaryOf
  <2>3. ~ops[o].honoured => (ops[o].pending <=> ClosuresOf(log, o) # {})
    BY <1>3 DEF SummaryOf
  <2>4. ops[o].known =>
          \A i \in Parts(o) : ops[o].parts[i] = "complete" <=>
            PartEvents(log, o, i, {"effect-complete"}) # {}
    BY <1>3 DEF SummaryOf
  <2>5. ops[o].known <=> Intent(log, o) # {}
    BY <1>3 DEF SummaryOf
  <2>6. Position \in unmatched <=> Position \in named
    BY <1>2, Appending DEF Summary, ClosurePositions
  <2>7. Accepts(r) <=> AcceptsClosure(r.kind, o)
    BY <1>10 DEF Accepts, Effects, Closures
  <2>8. AcceptsClosure(r.kind, o) <=>
          OneLife(t, named, o) /\ (Position \in named => Position <= selected)
    BY <2>1, <2>2, <2>3, <2>4, <2>5, <2>6 DEF AcceptsClosure
  <2>9. r.kind \notin {"leaf", "alien", "operation-intent"}
    BY <1>10 DEF Closures
  <2> QED
    BY <1>4, <1>5, <1>10, <2>7, <2>8, <2>9
<1> QED
  BY <1>1, <1>6, <1>7, <1>8, <1>9, <1>10 DEF Kinds

\* Reading an accepted record keeps the summary of every other operation.
LEMMA OtherSummary ==
    ASSUME NEW r \in Inputs, Extends(log, r, log', Position), NEW o \in Ops,
           SummaryOf(o), named' = named, ops'[o] = ops[o],
           r.op # o \/ r.kind \in {"leaf", "status", "alien"}
    PROVE  SummaryOf(o)'
<1>1. /\ \A k : k \in Intent(log', o) <=> k \in Intent(log, o)
      /\ \A k : k \in ClosuresOf(log', o) <=> k \in ClosuresOf(log, o)
      /\ \A i : \A kinds \in SUBSET Effects :
           \A k : k \in PartEvents(log', o, i, kinds) <=> k \in PartEvents(log, o, i, kinds)
  BY KindsGrow DEF Closures, Effects
<1>2. Intent(log', o) = Intent(log, o) /\ ClosuresOf(log', o) = ClosuresOf(log, o)
  BY <1>1 DEF Intent, ClosuresOf
<1>3. \A i : \A kinds \in SUBSET Effects :
        PartEvents(log', o, i, kinds) = PartEvents(log, o, i, kinds)
  BY <1>1 DEF PartEvents
<1>4. {"effect-intent"} \in SUBSET Effects /\ {"effect-complete"} \in SUBSET Effects
      /\ {"effect-failed"} \in SUBSET Effects
  BY DEF Effects
<1>5. /\ ops'[o].known <=> Intent(log', o) # {}
      /\ ops'[o].honoured <=> ClosuresOf(log', o) \cap named' # {}
      /\ ops'[o].pending <=> ClosuresOf(log', o) \ named' # {}
  BY <1>2 DEF SummaryOf
<1>6. ops'[o].known =>
         \A i \in Parts(o) :
           /\ ops'[o].parts[i] = "not-started" <=> PartEvents(log', o, i, {"effect-intent"}) = {}
           /\ ops'[o].parts[i] = "complete" <=> PartEvents(log', o, i, {"effect-complete"}) # {}
           /\ ops'[o].parts[i] = "failed" <=> PartEvents(log', o, i, {"effect-failed"}) # {}
  BY <1>3, <1>4 DEF SummaryOf
<1> QED
  BY <1>5, <1>6 DEF SummaryOf

\* The closures read so far are those before and the record, if it is one.
LEMMA ClosuresGrow ==
    ASSUME NEW s, NEW r, NEW t, NEW n, Extends(s, r, t, n)
    PROVE  /\ ClosurePositions(t) =
                IF r.kind \in Closures THEN ClosurePositions(s) \cup {n} ELSE ClosurePositions(s)
           /\ n \notin ClosurePositions(s)
<1>1. \A k : k \in ClosurePositions(t) <=>
                k \in ClosurePositions(s) \/ (k = n /\ r.kind \in Closures)
  BY Appending DEF ClosurePositions
<1> QED
  BY <1>1, Appending DEF ClosurePositions

\* Reading an accepted record keeps the summary of the journal.
LEMMA SummaryStep ==
    ASSUME ReplayInv, Summary, Legal(log, named, selected),
           NEW r \in Inputs, Read(r), verdict' = "reading"
    PROVE  Summary'
<1> DEFINE o == r.op
<1>1. /\ r \in Record /\ o \in Ops
      /\ Reads(r) /\ named' = named
  BY DEF Inputs, Record, Read, ReadLeafOrStatus, ReadIntent, ReadEffect, ReadHonoured,
     ReadPending, Refuse
<1>2. Extends(log, r, log', Position)
  BY <1>1 DEF Extends, Position, ReplayInv, TypeOK, Reads
<1>3. /\ OneLife(log, named, o) /\ \A p \in Ops : SummaryOf(p)
      /\ ops \in [Ops -> ProgressType]
  BY <1>1 DEF Legal, Summary, ReplayInv, TypeOK
<1>4. /\ ClosurePositions(log') = IF r.kind \in Closures THEN ClosurePositions(log) \cup {Position}
                                  ELSE ClosurePositions(log)
      /\ Position \notin ClosurePositions(log)
      /\ unmatched = named \ ClosurePositions(log)
  BY <1>2, ClosuresGrow DEF Summary
<1>5. /\ \A k : k \in Intent(log', o) <=>
           k \in Intent(log, o) \/ (k = Position /\ r.kind = "operation-intent")
      /\ \A k : k \in ClosuresOf(log', o) <=>
           k \in ClosuresOf(log, o) \/ (k = Position /\ r.kind \in Closures)
      /\ \A i, k : \A kinds \in SUBSET Effects : k \in PartEvents(log', o, i, kinds) <=>
           \/ k \in PartEvents(log, o, i, kinds)
           \/ k = Position /\ r.kind \in kinds /\ r.part = i
  BY <1>1, <1>2, KindsGrow
<1>6. {"effect-intent"} \in SUBSET Effects /\ {"effect-complete"} \in SUBSET Effects
      /\ {"effect-failed"} \in SUBSET Effects
  BY DEF Effects
<1>7. ASSUME \A p \in Ops \ {o} : ops'[p] = ops[p]
      PROVE  \A p \in Ops \ {o} : SummaryOf(p)'
  BY <1>1, <1>2, <1>3, <1>7, OtherSummary
<1>8. CASE ReadLeafOrStatus(r)
  <2>1. \A p \in Ops : SummaryOf(p)'
    BY <1>1, <1>2, <1>3, <1>8, OtherSummary DEF ReadLeafOrStatus
  <2>2. unmatched' = named' \ ClosurePositions(log')
    BY <1>4, <1>8 DEF ReadLeafOrStatus, Closures
  <2> QED
    BY <2>1, <2>2 DEF Summary
<1>9. CASE ReadIntent(r)
  <2>1. ops'[o] = Started(o) /\ \A p \in Ops \ {o} : ops'[p] = ops[p]
    BY <1>1, <1>3, <1>9 DEF ReadIntent
  <2>2. ~ops[o].known /\ r.kind = "operation-intent"
    BY <1>9 DEF ReadIntent, Reads, Accepts, AcceptsIntent, Effects, Closures
  <2>3. Events(log', o) = {Position}
    BY <1>1, <1>2, <1>3, <2>2, IntentLife DEF SummaryOf
  <2>4. log'[Position] = r
    BY <1>2, Appending
  <2>5. Intent(log', o) = {Position} /\ ClosuresOf(log', o) = {}
    BY <2>2, <2>3, <2>4 DEF Intent, ClosuresOf, Closures
  <2>6. \A i : \A kinds \in SUBSET Effects : PartEvents(log', o, i, kinds) = {}
    BY <2>2, <2>3, <2>4 DEF PartEvents, Effects
  <2>7. \A i \in Parts(o) : ops'[o].parts[i] = "not-started"
    BY <2>1 DEF Started
  <2>8. SummaryOf(o)'
    BY <1>6, <2>1, <2>5, <2>6, <2>7 DEF SummaryOf, Started
  <2>9. unmatched' = named' \ ClosurePositions(log')
    BY <1>4, <1>9, <2>2 DEF ReadIntent, Closures
  <2> QED
    BY <1>7, <2>1, <2>8, <2>9 DEF Summary
<1>10. CASE ReadEffect(r)
  <2> DEFINE i == r.part
  <2>1. r.kind \in Effects /\ AcceptsEffect(r.kind, o, i)
    BY <1>10 DEF ReadEffect, Reads, Accepts, Effects, Closures
  <2>2. DOMAIN ops[o].parts = Parts(o) /\ i \in Parts(o) /\ ops[o].known
    BY <1>1, <2>1 DEF ReplayInv, TypeOK, AcceptsEffect
  <2>3. ops' = [ops EXCEPT ![o].parts[i] = Becomes(r.kind)]
    BY <1>10 DEF ReadEffect
  <2>4. /\ ops'[o] = [ops[o] EXCEPT !.parts = [ops[o].parts EXCEPT ![i] = Becomes(r.kind)]]
        /\ \A p \in Ops \ {o} : ops'[p] = ops[p]
    BY <1>1, <1>3, <2>3
  <2>5. /\ ops'[o].known = ops[o].known /\ ops'[o].honoured = ops[o].honoured
        /\ ops'[o].pending = ops[o].pending
        /\ ops'[o].parts = [ops[o].parts EXCEPT ![i] = Becomes(r.kind)]
    BY <1>1, <1>3, <2>4 DEF ProgressType
  <2>6. /\ ops'[o].parts[i] = Becomes(r.kind)
        /\ \A j \in Parts(o) \ {i} : ops'[o].parts[j] = ops[o].parts[j]
    BY <2>2, <2>5
  <2>7. r.kind \notin Closures /\ r.kind # "operation-intent"
    BY <2>1 DEF Effects, Closures
  <2>8. Intent(log', o) = Intent(log, o) /\ ClosuresOf(log', o) = ClosuresOf(log, o)
    <3>1. /\ \A k : k \in Intent(log', o) <=> k \in Intent(log, o)
          /\ \A k : k \in ClosuresOf(log', o) <=> k \in ClosuresOf(log, o)
      BY <1>5, <2>7
    <3> QED
      BY <3>1 DEF Intent, ClosuresOf
  <2>9. ASSUME NEW j \in Parts(o)
        PROVE  /\ ops'[o].parts[j] = "not-started" <=>
                    PartEvents(log', o, j, {"effect-intent"}) = {}
               /\ ops'[o].parts[j] = "complete" <=> PartEvents(log', o, j, {"effect-complete"}) # {}
               /\ ops'[o].parts[j] = "failed" <=> PartEvents(log', o, j, {"effect-failed"}) # {}
    <3>1. /\ ops[o].parts[j] = "not-started" <=> PartEvents(log, o, j, {"effect-intent"}) = {}
          /\ ops[o].parts[j] = "complete" <=> PartEvents(log, o, j, {"effect-complete"}) # {}
          /\ ops[o].parts[j] = "failed" <=> PartEvents(log, o, j, {"effect-failed"}) # {}
      BY <1>1, <1>3, <2>2 DEF SummaryOf
    <3>2. \A kind \in Effects : PartEvents(log', o, j, {kind}) # {} <=>
             PartEvents(log, o, j, {kind}) # {} \/ (r.kind = kind /\ j = i)
      BY <1>5
    <3>3. CASE j = i
      <4>1. ops[o].parts[i] = Prior(r.kind) /\ ops'[o].parts[i] = Becomes(r.kind)
        BY <2>1, <2>6 DEF AcceptsEffect
      <4> QED
        BY <2>1, <3>1, <3>2, <3>3, <4>1 DEF Prior, Becomes, Effects
    <3>4. CASE j # i
      BY <2>6, <3>1, <3>2, <3>4 DEF Effects
    <3> QED
      BY <3>3, <3>4
  <2>10. SummaryOf(o)'
    BY <1>1, <1>3, <2>5, <2>8, <2>9 DEF SummaryOf
  <2>11. unmatched' = named' \ ClosurePositions(log')
    BY <1>4, <1>10, <2>7 DEF ReadEffect
  <2> QED
    BY <1>7, <2>4, <2>10, <2>11 DEF Summary
<1>11. CASE ReadHonoured(r) \/ ReadPending(r)
  <2>1. r.kind \in Closures /\ r.kind \notin Effects /\ r.kind # "operation-intent"
    BY <1>11 DEF ReadHonoured, ReadPending, Closures, Effects
  <2>2. /\ \A p \in Ops \ {o} : ops'[p] = ops[p]
        /\ ops'[o].known = ops[o].known /\ ops'[o].parts = ops[o].parts
    BY <1>1, <1>3, <1>11 DEF ReadHonoured, ReadPending, ProgressType
  <2>3. Intent(log', o) = Intent(log, o)
    <3>1. \A k : k \in Intent(log', o) <=> k \in Intent(log, o)
      BY <1>5, <2>1
    <3> QED
      BY <3>1 DEF Intent
  <2>4. \A i : \A kinds \in SUBSET Effects :
          PartEvents(log', o, i, kinds) = PartEvents(log, o, i, kinds)
    <3>1. \A i, k : \A kinds \in SUBSET Effects :
             k \in PartEvents(log', o, i, kinds) <=> k \in PartEvents(log, o, i, kinds)
      BY <1>5, <2>1
    <3> QED
      BY <3>1 DEF PartEvents
  <2>5. ClosuresOf(log', o) = ClosuresOf(log, o) \cup {Position}
    <3>1. \A k : k \in ClosuresOf(log', o) <=> k \in ClosuresOf(log, o) \/ k = Position
      BY <1>5, <2>1
    <3> QED
      BY <3>1
  <2>6. Position \in unmatched <=> Position \in named
    BY <1>4
  <2>7. /\ ops'[o].honoured <=> ClosuresOf(log', o) \cap named' # {}
        /\ ops'[o].pending <=> ClosuresOf(log', o) \ named' # {}
        /\ unmatched' = named' \ ClosurePositions(log')
    <3>1. /\ ops[o].honoured <=> ClosuresOf(log, o) \cap named # {}
          /\ ops[o].pending <=> ClosuresOf(log, o) \ named # {}
      BY <1>1, <1>3 DEF SummaryOf
    <3>2. CASE ReadHonoured(r)
      <4>1. ops'[o].honoured = TRUE /\ ops'[o].pending = ops[o].pending
        BY <1>1, <1>3, <3>2 DEF ReadHonoured, ProgressType
      <4>2. Position \in named /\ unmatched' = unmatched \ {Position}
        BY <2>6, <3>2 DEF ReadHonoured
      <4> QED
        BY <1>1, <1>4, <2>1, <2>5, <3>1, <4>1, <4>2
    <3>3. CASE ReadPending(r)
      <4>1. ops'[o].pending = TRUE /\ ops'[o].honoured = ops[o].honoured
        BY <1>1, <1>3, <3>3 DEF ReadPending, ProgressType
      <4>2. Position \notin named /\ unmatched' = unmatched
        BY <2>6, <3>3 DEF ReadPending
      <4> QED
        BY <1>1, <1>4, <2>1, <2>5, <3>1, <4>1, <4>2
    <3> QED
      BY <1>11, <3>2, <3>3
  <2>8. SummaryOf(o)'
    BY <1>1, <1>3, <1>6, <2>2, <2>3, <2>4, <2>7 DEF SummaryOf
  <2> QED
    BY <1>7, <2>2, <2>7, <2>8 DEF Summary
<1>12. ~Refuse(r)
  BY DEF Refuse
<1> QED
  BY <1>8, <1>9, <1>10, <1>11, <1>12 DEF Read

\* Nothing was read: the empty journal is legal and the summary is empty.
LEMMA ReferenceInit == Init => ReferenceInv
<1> SUFFICES ASSUME Init PROVE ReferenceInv
  OBVIOUS
<1>1. log = <<>> /\ Len(log) = 0 /\ verdict = "reading" /\ unmatched = named
      /\ ops = [o \in Ops |-> Unknown]
  BY DEF Init
<1>2. \A k : k \notin 1..Len(log)
  BY <1>1
<1>3. \A o \in Ops : Events(log, o) = {}
  BY <1>2 DEF Events
<1>4. \A o \in Ops : /\ Intent(log, o) = {} /\ ClosuresOf(log, o) = {}
                     /\ \A i, kinds : PartEvents(log, o, i, kinds) = {}
  BY <1>3 DEF Intent, ClosuresOf, PartEvents
<1>5. ClosurePositions(log) = {}
  BY <1>2 DEF ClosurePositions
<1>6. \A o \in Ops : OneLife(log, named, o)
  BY <1>3, <1>4 DEF OneLife
<1>7. Legal(log, named, selected)
  BY <1>2, <1>4, <1>6 DEF Legal, Exclusive
<1>8. Summary
  BY <1>1, <1>4, <1>5 DEF Summary, SummaryOf, Unknown
<1> QED
  BY <1>1, <1>7, <1>8 DEF ReferenceInv, AgreesWithReference

\* Each pass of the loop keeps its agreement with the reference.
LEMMA ReferenceStep == ReplayInv /\ ReferenceInv /\ [Next]_vars => ReferenceInv'
<1> SUFFICES ASSUME ReplayInv, ReferenceInv, [Next]_vars PROVE ReferenceInv'
  OBVIOUS
<1>1. ASSUME NEW r \in Inputs, Read(r) PROVE ReferenceInv'
  <2>1. /\ verdict = "reading" /\ log' = Append(log, r)
        /\ named' = named /\ selected' = selected
        /\ verdict' = IF Accepts(r) THEN "reading" ELSE "refused"
    BY <1>1 DEF Read, ReadLeafOrStatus, ReadIntent, ReadEffect, ReadHonoured, ReadPending,
       Refuse, Reads
  <2>2. Legal(log, named, selected) /\ Summary
    BY <2>1 DEF ReferenceInv, AgreesWithReference
  <2>3. Accepts(r) <=> Legal(log', named', selected')
    BY <2>1, <2>2, AcceptsTheLegal
  <2>4. verdict' = "reading" => Summary'
    BY <1>1, <2>2, SummaryStep
  <2> QED
    BY <2>1, <2>3, <2>4 DEF ReferenceInv, AgreesWithReference
<1>2. CASE Finish
  <2>1. /\ verdict = "reading"
        /\ verdict' = IF unmatched = {} THEN "replayed" ELSE "refused"
        /\ log' = log /\ named' = named /\ selected' = selected
    BY <1>2 DEF Finish
  <2>2. Legal(log, named, selected) /\ unmatched = named \ ClosurePositions(log)
    BY <2>1 DEF ReferenceInv, AgreesWithReference, Summary
  <2> QED
    BY <2>1, <2>2 DEF ReferenceInv, AgreesWithReference
<1>3. CASE UNCHANGED vars
  BY <1>3 DEF vars, ReferenceInv, AgreesWithReference, Summary, SummaryOf
<1> QED
  BY <1>1, <1>2, <1>3 DEF Next

\* The loop of the code and the definition of a legal journal agree on every
\* journal, however long, for any operations, targets, overlap relation and
\* anchored closures: it reads on exactly while what it read is legal, and ends
\* well exactly if all the closures the anchor names are there.
THEOREM LoopAgreesWithReference == Spec => []AgreesWithReference
<1>1. ReferenceInv => AgreesWithReference
  BY DEF ReferenceInv
<1> QED
  BY <1>1, ReplayInvariant, ReferenceInit, ReferenceStep, PTL DEF Spec

-----------------------------------------------------------------------------
(***************************************************************************)
(* The permit anchor.                                                      *)
(***************************************************************************)

Row == Ops \cup {"recovery"}
FrameType == [kind : Kinds, op : Row, part : Nat, binds : Nat]
IntentType == [domain : {"anchor", "journal"}, at : Nat, parent : Nat, captured : Nat,
               frames : Nat]
SelectionType ==
    [ok : BOOLEAN, count : Nat, journal : Nat, seen : SUBSET Row, honoured : SUBSET Nat,
     adopted : SUBSET Nat, resolved : SUBSET Nat]

AnchorType ==
    /\ ledger \in Seq(Row) /\ journal \in Seq(FrameType) /\ anchor \in Seq(AnchorRecord)
    /\ evidence \in Seq(IntentType)
    /\ torn \subseteq Nat /\ jtorn \subseteq Nat

\* A permit is consumed in one row.
ConsumedOnce ==
    \A c, d \in 1..Len(ledger) : ledger[c] \in Ops /\ ledger[c] = ledger[d] => c = d

\* Only the audit of a recovery is of no permit, and a frame audits an intent
\* published before it, so behind the frames it was published under.
AuditsFollow ==
    /\ \A i \in Of("journal") : evidence[i].frames <= Len(journal)
    /\ \A k \in 1..Len(journal) :
         /\ journal[k].kind = "leaf" \/ journal[k].op \in Ops
         /\ journal[k].kind = "leaf" =>
              /\ journal[k].binds <= Len(evidence)
              /\ journal[k].binds \in Of("journal") => evidence[journal[k].binds].frames < k

\* What a selection says of the files: its boundaries are in them, what it
\* honours are closures, every selected row is adopted or admitted, and what it
\* resolved is committed where it was captured.
Bounded(s) == s \in SelectionType /\ s.count <= Len(ledger) /\ s.journal <= Len(journal)

Sound(s) ==
    /\ s.ok /\ Bounded(s)
    /\ \A k \in s.honoured : k \in 1..s.journal /\ journal[k].kind \in Closures
    /\ s.adopted \subseteq 1..s.count
    /\ \A c \in 1..s.count : Accounted(s, c)
    /\ \A i \in s.resolved :
         /\ i \in Of("anchor") /\ evidence[i].at < Len(anchor)
         /\ anchor[evidence[i].at + 1].kind = FinalRecovery

SelectionIsSound == \A s \in {Selection(anchor)} : Sound(s)

AnchorInv == AnchorType /\ ConsumedOnce /\ AuditsFollow /\ SelectionIsSound

-----------------------------------------------------------------------------
(***************************************************************************)
(* The selection of a chain is a recursive function over its records.      *)
(***************************************************************************)

Below == {ss \in Nat \X Nat : ss[1] < ss[2]}

\* A set of naturals that has a member has a least one.
LEMMA LeastNat ==
  ASSUME NEW T, T \subseteq Nat, T # {}
  PROVE  \E x \in T : \A y \in T : x <= y
  <1>1. IsWellFoundedOn(Below, Nat)
    BY NatLessThanWellFounded DEF Below, OpToRel
  <1>2. \E x \in T : \A y \in T : ~ (<<y, x>> \in Below)
    BY <1>1, WFMin
  <1>3. \A x, y \in Nat : y < x => <<y, x>> \in Below
    BY DEF Below
  <1>4. PICK x \in T : \A y \in T : ~ (<<y, x>> \in Below)
    BY <1>2
  <1>5. ASSUME NEW y \in T PROVE x <= y
    <2>1. x \in Nat /\ y \in Nat
      OBVIOUS
    <2>2. ~ (y < x)
      BY <1>3, <1>4, <2>1
    <2> QED BY <2>1, <2>2
  <1> QED BY <1>5

\* What holds of 0 and of every successor holds of every natural.
LEMMA AllNat ==
  ASSUME NEW T, T \subseteq Nat, 0 \in T, \A n \in T : n + 1 \in T
  PROVE  T = Nat
  <1> SUFFICES ASSUME Nat \ T # {} PROVE FALSE
    OBVIOUS
  <1>1. PICK x \in Nat \ T : \A y \in Nat \ T : x <= y
    BY LeastNat, Nat \ T \subseteq Nat
  <1>2. x # 0 /\ x - 1 \in Nat
    BY <1>1
  <1>3. x - 1 \in T
    BY <1>1, <1>2
  <1> QED BY <1>1, <1>2, <1>3

StepOf(a, n, s) ==
    IF Binds(s, a[n], n - 1) THEN Successor(s, a[n], n - 1) ELSE [s EXCEPT !.ok = FALSE]

\* f gives the selection of every prefix of a up to N records.
Follows(f, a, N) == f = [n \in 0..N |-> IF n = 0 THEN Genesis ELSE StepOf(a, n, f[n - 1])]

LEMMA FollowsAt ==
  \A a, f : \A N \in Nat : Follows(f, a, N) =>
    f[0] = Genesis /\ \A n \in 1..N : f[n] = StepOf(a, n, f[n - 1])
  <1> TAKE a, f
  <1> TAKE N \in Nat
  <1> HAVE Follows(f, a, N)
  <1>1. \A n \in 0..N : f[n] = IF n = 0 THEN Genesis ELSE StepOf(a, n, f[n - 1])
    BY DEF Follows
  <1> QED BY <1>1

LEMMA FollowsExists == \A a : \A N \in Nat : \E f : Follows(f, a, N)
  <1> TAKE a
  <1> DEFINE T == {N \in Nat : \E f : Follows(f, a, N)}
  <1>1. 0 \in T
    <2>1. Follows([n \in 0..0 |-> Genesis], a, 0)
      BY DEF Follows
    <2> QED BY <2>1
  <1>2. ASSUME NEW N \in T PROVE N + 1 \in T
    <2>1. PICK f : Follows(f, a, N)
      OBVIOUS
    <2>2. f[0] = Genesis /\ \A n \in 1..N : f[n] = StepOf(a, n, f[n - 1])
      BY <2>1, FollowsAt
    <2> DEFINE g == [n \in 0..(N + 1) |-> IF n = N + 1 THEN StepOf(a, N + 1, f[N]) ELSE f[n]]
    <2>3. ASSUME NEW n \in 0..(N + 1)
          PROVE  g[n] = IF n = 0 THEN Genesis ELSE StepOf(a, n, g[n - 1])
      <3>1. CASE n = 0
        BY <2>2, <3>1
      <3>2. CASE n = N + 1
        <4>1. g[n - 1] = f[N] /\ n - 1 = N
          BY <3>2
        <4> QED BY <3>2, <4>1
      <3>3. CASE n # 0 /\ n # N + 1
        <4>1. n \in 1..N /\ g[n - 1] = f[n - 1] /\ g[n] = f[n]
          BY <3>3
        <4> QED BY <2>2, <3>3, <4>1
      <3> QED BY <3>1, <3>2, <3>3
    <2>4. g = [n \in 0..(N + 1) |-> g[n]]
      OBVIOUS
    <2> HIDE DEF g
    <2>5. Follows(g, a, N + 1)
      BY <2>3, <2>4 DEF Follows
    <2> QED BY <2>5
  <1> HIDE DEF T
  <1>3. T = Nat
    <2>1. T \subseteq Nat
      BY DEF T
    <2> QED BY <1>1, <1>2, <2>1, AllNat
  <1> QED BY <1>3 DEF T

\* Two chains that agree record by record have the same selections.
LEMMA FollowsAgree ==
  \A a, b, f, g : \A N, M \in Nat :
    /\ N <= M /\ Follows(f, a, N) /\ Follows(g, b, M) /\ \A n \in 1..N : a[n] = b[n]
    => \A n \in 0..N : f[n] = g[n]
  <1> SUFFICES ASSUME NEW a, NEW b, NEW f, NEW g, NEW N \in Nat, NEW M \in Nat,
                      N <= M, Follows(f, a, N), Follows(g, b, M), \A n \in 1..N : a[n] = b[n]
               PROVE  \A n \in 0..N : f[n] = g[n]
    OBVIOUS
  <1> DEFINE T == {n \in Nat : n <= N => f[n] = g[n]}
  <1>0. /\ f[0] = Genesis /\ \A n \in 1..N : f[n] = StepOf(a, n, f[n - 1])
        /\ g[0] = Genesis /\ \A n \in 1..M : g[n] = StepOf(b, n, g[n - 1])
    BY FollowsAt
  <1>1. 0 \in T
    BY <1>0
  <1>2. ASSUME NEW n \in T PROVE n + 1 \in T
    <2>1. CASE n + 1 <= N
      <3>1. n + 1 \in 1..N /\ n + 1 \in 1..M /\ (n + 1) - 1 = n /\ f[n] = g[n]
        BY <2>1
      <3>2. f[n + 1] = StepOf(a, n + 1, f[n]) /\ g[n + 1] = StepOf(b, n + 1, g[n])
        BY <1>0, <3>1
      <3>3. StepOf(a, n + 1, f[n]) = StepOf(b, n + 1, g[n])
        BY <3>1 DEF StepOf
      <3> QED BY <3>2, <3>3
    <2>2. CASE ~ (n + 1 <= N)
      BY <2>2
    <2> QED BY <2>1, <2>2
  <1> HIDE DEF T
  <1>3. T = Nat
    <2>1. T \subseteq Nat
      BY DEF T
    <2> QED BY <1>1, <1>2, <2>1, AllNat
  <1> QED BY <1>3 DEF T

LEMMA SelectionIs ==
  \A a, f : Len(a) \in Nat /\ Follows(f, a, Len(a)) => Selection(a) = f[Len(a)]
  <1> TAKE a, f
  <1> HAVE Len(a) \in Nat /\ Follows(f, a, Len(a))
  <1>1. Selection(a) = (CHOOSE g : Follows(g, a, Len(a)))[Len(a)]
    BY DEF Selection, Follows, StepOf
  <1>2. Follows(CHOOSE g : Follows(g, a, Len(a)), a, Len(a))
    OBVIOUS
  <1> QED BY <1>1, <1>2, FollowsAgree

\* A chain of one more record.
LEMMA SelectionAppend ==
  \A a, r : a \in Seq(AnchorRecord) /\ r \in AnchorRecord =>
    Selection(Append(a, r)) =
      IF Binds(Selection(a), r, Len(a)) THEN Successor(Selection(a), r, Len(a))
      ELSE [Selection(a) EXCEPT !.ok = FALSE]
  <1> SUFFICES ASSUME NEW a \in Seq(AnchorRecord), NEW r \in AnchorRecord
               PROVE  Selection(Append(a, r)) = StepOf(Append(a, r), Len(a) + 1, Selection(a))
    BY DEF StepOf
  <1> DEFINE N == Len(a)
             b == Append(a, r)
  <1>1. N \in Nat /\ Len(b) = N + 1 /\ \A n \in 1..N : a[n] = b[n]
    OBVIOUS
  <1>2. PICK f : Follows(f, a, N)
    BY <1>1, FollowsExists
  <1> HIDE DEF b, N
  <1>9. N + 1 \in Nat
    BY <1>1
  <1>3. PICK g : Follows(g, b, N + 1)
    BY <1>9, FollowsExists
  <1>4. Selection(a) = f[N]
    BY <1>1, <1>2, SelectionIs DEF N
  <1>8. Selection(b) = g[N + 1]
    <2>1. Len(b) \in Nat /\ Follows(g, b, Len(b))
      BY <1>1, <1>9, <1>3
    <2> QED BY <1>1, <2>1, SelectionIs
  <1>5. f[N] = g[N]
    BY <1>1, <1>2, <1>3, FollowsAgree
  <1>6. g[N + 1] = StepOf(b, N + 1, g[N])
    BY <1>1, <1>3, FollowsAt
  <1> QED BY <1>4, <1>5, <1>6, <1>8 DEF b, N

-----------------------------------------------------------------------------
(***************************************************************************)
(* One record.                                                             *)
(***************************************************************************)

LEMMA RecordNumbers ==
  \A r \in AnchorRecord :
    r.kind \in 0..3 /\ r.count \in Nat /\ r.journal \in Nat /\ r.event \in Nat
  BY AnchorBoundsAssumption DEF AnchorRecord

\* The selection t is s after the record r.
Extended(t, s, r, b) ==
    /\ Bounded(t) /\ t.ok
    /\ t.count = r.count /\ t.journal = r.journal
    /\ s.count <= r.count /\ s.journal <= r.journal
    /\ NewIntents(s, r) \subseteq 1..r.journal
    /\ t.seen = s.seen \cup {journal[k].op : k \in NewIntents(s, r)}
    /\ t.honoured = IF r.kind = ClosureAnchor THEN s.honoured \cup {r.event} ELSE s.honoured
    /\ t.adopted = IF r.kind = Adoption THEN s.adopted \cup (s.count + 1)..r.count ELSE s.adopted
    /\ t.resolved = IF r.kind = FinalRecovery THEN s.resolved \cup Boundary(b) ELSE s.resolved

LEMMA SuccessorFields ==
  ASSUME AnchorType, NEW s, Bounded(s), NEW r \in AnchorRecord, NEW b, Binds(s, r, b)
  PROVE  Extended(Successor(s, r, b), s, r, b)
  <1>1. s \in SelectionType /\ s.count <= Len(ledger) /\ s.journal <= Len(journal)
    BY DEF Bounded
  <1>2. s.count \in Nat /\ s.journal \in Nat /\ s.seen \subseteq Row /\ s.honoured \subseteq Nat
        /\ s.adopted \subseteq Nat /\ s.resolved \subseteq Nat
    BY <1>1 DEF SelectionType
  <1>3. Len(ledger) \in Nat /\ Len(journal) \in Nat /\ Len(evidence) \in Nat
    BY DEF AnchorType
  <1>4. r.kind \in 0..3 /\ r.count \in Nat /\ r.journal \in Nat /\ r.event \in Nat
    BY RecordNumbers
  <1>5. r.journal <= Len(journal) /\ s.journal <= r.journal /\ s.ok
    BY DEF Binds
  <1>6. s.count <= r.count /\ r.count <= Len(ledger)
    <2>0. Advances(s, r)
      BY DEF Binds
    <2>1. CASE r.kind = Ordinary
      <3>1. r.count = s.count \/ (r.count = s.count + 1 /\ r.count <= Len(ledger))
        BY <2>1, <1>2, <1>4
        DEF Binds, Advances, OrdinaryBinds, Ordinary, FinalRecovery, Adoption, ClosureAnchor
      <3> QED BY <3>1, <1>1, <1>2, <1>3, <1>4
    <2>2. CASE r.kind \in {FinalRecovery, ClosureAnchor}
      <3>1. r.kind = FinalRecovery => r.count = s.count
        BY <2>0 DEF Advances, Ordinary, FinalRecovery, Adoption, ClosureAnchor
      <3>2. r.kind = ClosureAnchor => r.count = s.count
        BY <2>0 DEF Advances, Ordinary, FinalRecovery, Adoption, ClosureAnchor
      <3> QED BY <2>2, <3>1, <3>2, <1>1, <1>2, <1>3, <1>4
    <2>3. CASE r.kind = Adoption
      <3>1. r.count > s.count /\ r.count <= Len(ledger)
        BY <2>3 DEF Binds, Advances, Ordinary, FinalRecovery, Adoption, ClosureAnchor
      <3> QED BY <3>1, <1>1, <1>2, <1>3, <1>4
    <2> QED BY <1>4, <2>1, <2>2, <2>3 DEF Ordinary, FinalRecovery, Adoption, ClosureAnchor
  <1>7. NewIntents(s, r) \subseteq 1..r.journal
    BY <1>2, <1>4 DEF NewIntents, Segment
  <1>8. {journal[k].op : k \in NewIntents(s, r)} \subseteq Row
    <2>1. \A k \in 1..Len(journal) : journal[k] \in FrameType
      BY DEF AnchorType
    <2>2. \A k \in NewIntents(s, r) : k \in 1..Len(journal)
      BY <1>3, <1>4, <1>5, <1>7
    <2> QED BY <2>1, <2>2 DEF FrameType
  <1>9. Boundary(b) \subseteq Nat
    <2>1. DOMAIN evidence \subseteq Nat
      BY DEF AnchorType
    <2> QED BY <2>1 DEF Boundary, Of
  <1> DEFINE seen == s.seen \cup {journal[k].op : k \in NewIntents(s, r)}
             honoured == IF r.kind = ClosureAnchor THEN s.honoured \cup {r.event} ELSE s.honoured
             adopted == IF r.kind = Adoption THEN s.adopted \cup (s.count + 1)..r.count ELSE s.adopted
             resolved == IF r.kind = FinalRecovery THEN s.resolved \cup Boundary(b) ELSE s.resolved
  <1>10. /\ seen \subseteq Row /\ honoured \subseteq Nat
         /\ adopted \subseteq Nat /\ resolved \subseteq Nat
    BY <1>2, <1>4, <1>8, <1>9
  <1>11. Successor(s, r, b) = [s EXCEPT !.count = r.count, !.journal = r.journal, !.seen = seen,
                               !.honoured = honoured, !.adopted = adopted, !.resolved = resolved]
    BY DEF Successor
  <1> HIDE DEF seen, honoured, adopted, resolved
  <1>12. /\ Successor(s, r, b) \in SelectionType
         /\ Successor(s, r, b).ok = s.ok
         /\ Successor(s, r, b).count = r.count /\ Successor(s, r, b).journal = r.journal
         /\ Successor(s, r, b).seen = seen /\ Successor(s, r, b).honoured = honoured
         /\ Successor(s, r, b).adopted = adopted /\ Successor(s, r, b).resolved = resolved
    BY <1>1, <1>4, <1>10, <1>11 DEF SelectionType
  <1>13. Bounded(Successor(s, r, b)) /\ Successor(s, r, b).ok
    BY <1>5, <1>6, <1>12 DEF Bounded
  <1> QED BY <1>5, <1>6, <1>7, <1>12, <1>13 DEF seen, honoured, adopted, resolved, Extended

\* Every prefix of a chain that verifies verifies, and its selection is within
\* the files.
LEMMA Prefixes ==
  ASSUME AnchorType, NEW f, Follows(f, anchor, Len(anchor)), f[Len(anchor)].ok
  PROVE  /\ \A n \in 0..Len(anchor) : Bounded(f[n]) /\ f[n].ok
         /\ \A n \in 1..Len(anchor) :
              Binds(f[n - 1], anchor[n], n - 1) /\ f[n] = Successor(f[n - 1], anchor[n], n - 1)
  <1> DEFINE N == Len(anchor)
  <1>1. N \in Nat /\ \A n \in 1..N : anchor[n] \in AnchorRecord
    BY DEF AnchorType
  <1>2. f[0] = Genesis /\ \A n \in 1..N : f[n] = StepOf(anchor, n, f[n - 1])
    BY <1>1, FollowsAt
  <1> HIDE DEF N
  <1>3. \A n \in 0..N : Bounded(f[n])
    <2> DEFINE T == {n \in Nat : n <= N => Bounded(f[n])}
    <2>1. 0 \in T
      <3>1. Len(ledger) \in Nat /\ Len(journal) \in Nat
        BY DEF AnchorType
      <3>2. Bounded(Genesis)
        BY <3>1 DEF Bounded, Genesis, SelectionType
      <3> QED BY <3>2, <1>2
    <2>2. ASSUME NEW n \in T PROVE n + 1 \in T
      <3>1. CASE n + 1 <= N
        <4>1. n + 1 \in 1..N /\ (n + 1) - 1 = n /\ Bounded(f[n]) /\ anchor[n + 1] \in AnchorRecord
          BY <1>1, <3>1
        <4>2. f[n + 1] = StepOf(anchor, n + 1, f[n])
          BY <1>2, <4>1
        <4>3. CASE Binds(f[n], anchor[n + 1], n)
          <5>1. f[n + 1] = Successor(f[n], anchor[n + 1], n)
            BY <4>1, <4>2, <4>3 DEF StepOf
          <5>2. Bounded(Successor(f[n], anchor[n + 1], n))
            BY <4>1, <4>3, SuccessorFields DEF Extended
          <5> QED BY <5>1, <5>2
        <4>4. CASE ~ Binds(f[n], anchor[n + 1], n)
          <5>1. f[n + 1] = [f[n] EXCEPT !.ok = FALSE]
            BY <4>1, <4>2, <4>4 DEF StepOf
          <5>2. f[n] \in SelectionType
            BY <4>1 DEF Bounded
          <5>3. /\ f[n + 1] \in SelectionType /\ f[n + 1].count = f[n].count
                /\ f[n + 1].journal = f[n].journal
            BY <5>1, <5>2 DEF SelectionType
          <5>4. Bounded(f[n + 1])
            BY <4>1, <5>3 DEF Bounded
          <5> QED BY <5>4
        <4> QED BY <4>3, <4>4
      <3>2. CASE ~ (n + 1 <= N)
        BY <3>2
      <3> QED BY <3>1, <3>2
    <2> HIDE DEF T
    <2>3. T = Nat
      <3>1. T \subseteq Nat
        BY DEF T
      <3> QED BY <2>1, <2>2, <3>1, AllNat
    <2> QED BY <1>1, <2>3 DEF T
  <1>4. ASSUME NEW n \in 1..N, f[n].ok
        PROVE  f[n - 1].ok /\ Binds(f[n - 1], anchor[n], n - 1)
               /\ f[n] = Successor(f[n - 1], anchor[n], n - 1)
    <2>1. n - 1 \in 0..N
      BY <1>1
    <2>2. f[n] = StepOf(anchor, n, f[n - 1])
      BY <1>2
    <2>3. Binds(f[n - 1], anchor[n], n - 1)
      <3> SUFFICES ASSUME ~ Binds(f[n - 1], anchor[n], n - 1) PROVE FALSE
        OBVIOUS
      <3>1. f[n] = [f[n - 1] EXCEPT !.ok = FALSE]
        BY <2>2 DEF StepOf
      <3>2. f[n - 1] \in SelectionType
        BY <1>3, <2>1 DEF Bounded
      <3> QED BY <1>4, <3>1, <3>2 DEF SelectionType
    <2> QED BY <2>2, <2>3 DEF StepOf, Binds
  <1>5. \A n \in 0..N : f[n].ok
    <2> DEFINE T == {m \in Nat : m <= N => f[N - m].ok}
    <2>1. 0 \in T
      BY <1>1 DEF N
    <2>2. ASSUME NEW m \in T PROVE m + 1 \in T
      <3>1. CASE m + 1 <= N
        <4>1. N - m \in 1..N /\ f[N - m].ok /\ (N - m) - 1 = N - (m + 1)
          BY <1>1, <3>1
        <4>2. f[(N - m) - 1].ok
          BY <1>4, <4>1
        <4> QED BY <4>1, <4>2
      <3>2. CASE ~ (m + 1 <= N)
        BY <3>2
      <3> QED BY <3>1, <3>2
    <2> HIDE DEF T
    <2>3. T = Nat
      <3>1. T \subseteq Nat
        BY DEF T
      <3> QED BY <2>1, <2>2, <3>1, AllNat
    <2>4. ASSUME NEW n \in 0..N PROVE f[n].ok
      <3>1. N - n \in Nat /\ N - n <= N /\ N - (N - n) = n
        BY <1>1
      <3> QED BY <2>3, <3>1 DEF T
    <2> QED BY <2>4
  <1> QED BY <1>3, <1>4, <1>5, <1>1 DEF N

\* The checks of one record, kind by kind.
ByKind(s, r, b) ==
    /\ s.ok /\ s.journal <= r.journal /\ r.journal <= Len(journal) /\ IntentsAreNew(s, r)
    /\ r.kind = Ordinary =>
         r.count \in {s.count, s.count + 1} /\ r.journal # s.journal /\ OrdinaryBinds(s, r)
    /\ r.kind = FinalRecovery =>
         r.count = s.count /\ r.journal = s.journal /\ Resolves(r.event, b)
    /\ r.kind = Adoption =>
         r.count > s.count /\ r.count <= Len(ledger) /\ AdoptionBinds(s, r)
    /\ r.kind = ClosureAnchor =>
         r.count = s.count /\ r.journal # s.journal /\ ClosureBinds(s, r)

KindsDecide ==
    \A z, q : \A y \in AnchorRecord :
      z.journal \in Nat => (Binds(z, y, q) <=> ByKind(z, y, q))

LEMMA BindsByKind == KindsDecide
  <1> SUFFICES ASSUME NEW s, NEW b, NEW r \in AnchorRecord, s.journal \in Nat
               PROVE  Binds(s, r, b) <=> ByKind(s, r, b)
    BY DEF KindsDecide
  <1>1. r.kind \in 0..3 /\ r.journal \in Nat
    BY RecordNumbers
  <1>2. r.journal >= s.journal <=> s.journal <= r.journal
    BY <1>1
  <1> USE DEF Binds, ByKind, Advances
  <1>3. CASE r.kind = Ordinary
    BY <1>2, <1>3 DEF Ordinary, FinalRecovery, Adoption, ClosureAnchor
  <1>4. CASE r.kind = FinalRecovery
    BY <1>2, <1>4 DEF Ordinary, FinalRecovery, Adoption, ClosureAnchor
  <1>5. CASE r.kind = Adoption
    BY <1>2, <1>5 DEF Ordinary, FinalRecovery, Adoption, ClosureAnchor
  <1>6. CASE r.kind = ClosureAnchor
    BY <1>2, <1>6 DEF Ordinary, FinalRecovery, Adoption, ClosureAnchor
  <1> HIDE DEF Binds, ByKind, Advances
  <1>7. r.kind \in {Ordinary, FinalRecovery, Adoption, ClosureAnchor}
    BY <1>1 DEF Ordinary, FinalRecovery, Adoption, ClosureAnchor
  <1> QED BY <1>3, <1>4, <1>5, <1>6, <1>7

-----------------------------------------------------------------------------
(***************************************************************************)
(* No file loses a record that a selection rests on.                       *)
(***************************************************************************)

\* Every file keeps its records, and a new intent is published under the anchor
\* as it is.
Grows ==
    /\ Len(ledger) <= Len(ledger') /\ \A c \in 1..Len(ledger) : ledger'[c] = ledger[c]
    /\ Len(journal) <= Len(journal') /\ \A k \in 1..Len(journal) : journal'[k] = journal[k]
    /\ Len(anchor) <= Len(anchor') /\ \A n \in 1..Len(anchor) : anchor'[n] = anchor[n]
    /\ Len(evidence) <= Len(evidence')
    /\ \A i \in 1..Len(evidence) : evidence'[i] = evidence[i]
    /\ \A i \in 1..Len(evidence') : i > Len(evidence) => evidence'[i].at = Len(anchor)

\* What was published before the last record is what was published before it.
LEMMA BoundaryKept ==
  ASSUME AnchorType, AnchorType', Grows, NEW b \in Nat,
         b < Len(anchor) \/ evidence' = evidence
  PROVE  Boundary(b)' = Boundary(b)
  <1>1. DOMAIN evidence = 1..Len(evidence) /\ DOMAIN evidence' = 1..Len(evidence')
        /\ Len(evidence) \in Nat /\ Len(evidence') \in Nat /\ Len(anchor) \in Nat
    BY DEF AnchorType
  <1>2. CASE evidence' = evidence
    BY <1>2 DEF Boundary, Of
  <1>3. CASE b < Len(anchor)
    <2>1. \A i \in DOMAIN evidence : i \in DOMAIN evidence' /\ evidence'[i] = evidence[i]
      BY <1>1 DEF Grows
    <2>2. \A i \in DOMAIN evidence' : evidence'[i].at = b => i \in DOMAIN evidence
      BY <1>1, <1>3 DEF Grows
    <2> QED BY <2>1, <2>2 DEF Boundary, Of
  <1> QED BY <1>2, <1>3

\* A record that verified verifies still, to the same selection.
LEMMA BindsKept ==
  ASSUME AnchorType, AnchorType', Grows, NEW s, Bounded(s), NEW r \in AnchorRecord, NEW b,
         Boundary(b)' = Boundary(b), Binds(s, r, b)
  PROVE  Binds(s, r, b)' /\ Successor(s, r, b)' = Successor(s, r, b)
  <1>1. s.count \in Nat /\ s.journal \in Nat
    BY DEF Bounded, SelectionType
  <1>2. r.kind \in 0..3 /\ r.count \in Nat /\ r.journal \in Nat /\ r.event \in Nat
    BY RecordNumbers
  <1>3. /\ Len(ledger) \in Nat /\ Len(ledger') \in Nat /\ Len(ledger) <= Len(ledger')
        /\ Len(journal) \in Nat /\ Len(journal') \in Nat /\ Len(journal) <= Len(journal')
    BY DEF AnchorType, Grows
  <1>4. ByKind(s, r, b)
    BY <1>1, BindsByKind DEF KindsDecide
  <1>5. s.count <= r.count /\ r.count <= Len(ledger) /\ r.journal <= Len(journal)
    BY SuccessorFields DEF Bounded, Extended
  <1>6. \A k \in Segment(s, r) : k \in 1..Len(journal) /\ journal'[k] = journal[k]
    <2>1. \A k \in Segment(s, r) : k \in 1..Len(journal)
      BY <1>1, <1>2, <1>3, <1>5 DEF Segment
    <2>2. \A k \in 1..Len(journal) : journal'[k] = journal[k]
      BY DEF Grows
    <2> QED BY <2>1, <2>2
  <1>7. NewIntents(s, r)' = NewIntents(s, r) /\ NewIntents(s, r) \subseteq Segment(s, r)
    BY <1>6 DEF NewIntents
  <1>8. \A k \in Segment(s, r) : \A c \in 1..r.count : Matches(k, c)' <=> Matches(k, c)
    <2>1. \A c \in 1..r.count : ledger'[c] = ledger[c]
      BY <1>2, <1>3, <1>5 DEF Grows
    <2> QED BY <1>6, <2>1 DEF Matches
  <1>9. IntentsAreNew(s, r)'
    <2>1. IntentsAreNew(s, r)
      BY <1>4 DEF ByKind
    <2> QED BY <1>6, <1>7, <2>1 DEF IntentsAreNew
  <1>10. ASSUME r.kind = Ordinary PROVE OrdinaryBinds(s, r)'
    <2>1. r.count \in {s.count, s.count + 1} /\ r.journal # s.journal /\ OrdinaryBinds(s, r)
          /\ s.journal <= r.journal
      BY <1>4, <1>10 DEF ByKind
    <2>2. CASE r.count = s.count
      BY <1>7, <2>1, <2>2 DEF OrdinaryBinds
    <2>3. CASE r.count # s.count
      <3>1. r.count \in 1..r.count /\ r.count \in 1..Len(ledger)
        BY <1>1, <1>2, <1>3, <1>5, <2>1, <2>3
      <3>2. ledger'[r.count] = ledger[r.count] /\ r.count <= Len(ledger')
        BY <1>2, <1>3, <1>5, <3>1 DEF Grows
      <3>3. /\ ledger[r.count] \in Ops /\ NewIntents(s, r) = {r.journal}
            /\ Matches(r.journal, r.count)
        BY <2>1, <2>3 DEF OrdinaryBinds
      <3>4. Matches(r.journal, r.count)'
        BY <1>7, <1>8, <3>1, <3>3
      <3> QED BY <1>7, <2>3, <3>2, <3>3, <3>4 DEF OrdinaryBinds
    <2> QED BY <2>2, <2>3
  <1>11. ASSUME r.kind = FinalRecovery PROVE Resolves(r.event, b)'
    <2>1. Resolves(r.event, b)
      BY <1>4, <1>11 DEF ByKind
    <2>2. \A i \in Boundary(b) : evidence'[i] = evidence[i]
      <3>1. DOMAIN evidence = 1..Len(evidence)
        BY DEF AnchorType
      <3> QED BY <3>1 DEF Boundary, Of, Grows
    <2> QED BY <2>1, <2>2 DEF Resolves, ParentsDiffer
  <1>12. ASSUME r.kind = Adoption PROVE AdoptionBinds(s, r)'
    <2>1. AdoptionBinds(s, r)
      BY <1>4, <1>12 DEF ByKind
    <2>2. (s.count + 1)..r.count \subseteq 1..r.count
      BY <1>1, <1>2
    <2> QED BY <1>7, <1>8, <2>1, <2>2 DEF AdoptionBinds
  <1>13. ASSUME r.kind = ClosureAnchor PROVE ClosureBinds(s, r)'
    <2>1. ClosureBinds(s, r) /\ s.journal <= r.journal /\ r.journal # s.journal
      BY <1>4, <1>13 DEF ByKind
    <2>2. r.journal \in Segment(s, r)
      BY <1>1, <1>2, <2>1 DEF Segment
    <2> QED BY <1>6, <1>7, <2>1, <2>2 DEF ClosureBinds
  <1>14. ByKind(s, r, b)'
    <2>1. r.journal <= Len(journal') /\ r.count <= Len(ledger')
      BY <1>2, <1>3, <1>5
    <2>2. /\ s.ok /\ s.journal <= r.journal
          /\ r.kind = Ordinary => r.count \in {s.count, s.count + 1} /\ r.journal # s.journal
          /\ r.kind = FinalRecovery => r.count = s.count /\ r.journal = s.journal
          /\ r.kind = Adoption => r.count > s.count
          /\ r.kind = ClosureAnchor => r.count = s.count /\ r.journal # s.journal
      BY <1>4 DEF ByKind
    <2> QED BY <1>9, <1>10, <1>11, <1>12, <1>13, <2>1, <2>2 DEF ByKind
  <1>15. Binds(s, r, b)'
    <2>1. KindsDecide'
      BY BindsByKind, PTL
    <2> QED BY <1>1, <1>14, <2>1 DEF KindsDecide
  <1>16. {journal[k].op : k \in NewIntents(s, r)}' = {journal[k].op : k \in NewIntents(s, r)}
    BY <1>6, <1>7
  <1>17. Successor(s, r, b)' = Successor(s, r, b)
    <2> DEFINE X == {journal[k].op : k \in NewIntents(s, r)}
               Y == Boundary(b)
    <2>1. X' = X /\ Y' = Y
      BY <1>16
    <2> QED BY <2>1, <1>16 DEF Successor
  <1> QED BY <1>15, <1>17

\* The selection of the anchor, record by record.
Chained(f) ==
    /\ f[0] = Genesis
    /\ \A n \in 1..Len(anchor) : \A r \in AnchorRecord : r = anchor[n] =>
         f[n] = IF Binds(f[n - 1], r, n - 1) THEN Successor(f[n - 1], r, n - 1)
                ELSE [f[n - 1] EXCEPT !.ok = FALSE]

Chains ==
    anchor \in Seq(AnchorRecord) =>
      \E f : /\ Chained(f) /\ Selection(anchor) = f[Len(anchor)]
             /\ anchor # <<>> => Selection(Retained(anchor)) = f[Len(anchor) - 1]

\* The selection of the chain without its last record.
LEMMA SelectionRetained ==
  ASSUME anchor \in Seq(AnchorRecord), anchor # <<>>, NEW f, Follows(f, anchor, Len(anchor))
  PROVE  Selection(Retained(anchor)) = f[Len(anchor) - 1]
  <1>1. PICK N : N = Len(anchor) - 1
    OBVIOUS
  <1>2. N \in Nat /\ Len(anchor) = N + 1 /\ Len(anchor) - 1 = N
    <2>1. Len(anchor) \in Nat /\ Len(anchor) # 0
      OBVIOUS
    <2> QED BY <1>1, <2>1
  <1> DEFINE b == Retained(anchor)
  <1>3. b = SubSeq(anchor, 1, N)
    BY <1>2 DEF Retained
  <1>4. Len(b) = N /\ \A n \in 1..N : b[n] = anchor[n]
    BY <1>2, <1>3
  <1> HIDE DEF b
  <1>5. PICK g : Follows(g, b, N)
    BY <1>2, FollowsExists
  <1>6. Selection(b) = g[N]
    BY <1>2, <1>4, <1>5, SelectionIs
  <1>7. N <= N + 1 /\ N + 1 \in Nat /\ N \in 0..N
    BY <1>2
  <1>8. g[N] = f[N]
    <2>1. Follows(f, anchor, N + 1)
      BY <1>2
    <2>2. \A n \in 0..N : g[n] = f[n]
      BY ONLY <1>2, <1>4, <1>5, <1>7, <2>1, FollowsAgree
    <2> QED BY <1>7, <2>2
  <1> QED BY <1>2, <1>6, <1>8 DEF b

LEMMA SelectionChains == Chains
  <1> SUFFICES ASSUME anchor \in Seq(AnchorRecord)
               PROVE  \E f : /\ Chained(f) /\ Selection(anchor) = f[Len(anchor)]
                             /\ anchor # <<>> => Selection(Retained(anchor)) = f[Len(anchor) - 1]
    BY DEF Chains
  <1>1. Len(anchor) \in Nat
    OBVIOUS
  <1>2. PICK f : Follows(f, anchor, Len(anchor))
    BY <1>1, FollowsExists
  <1>3. f[0] = Genesis /\ \A n \in 1..Len(anchor) : f[n] = StepOf(anchor, n, f[n - 1])
    BY <1>1, <1>2, FollowsAt
  <1>4. Chained(f)
    BY <1>3 DEF Chained, StepOf
  <1> QED BY <1>1, <1>2, <1>4, SelectionIs, SelectionRetained

LEMMA SelectionKept ==
  ASSUME AnchorType, AnchorType', Grows, Selection(anchor).ok
  PROVE  \E g : /\ Chained(g)' /\ Selection(anchor)' = g[Len(anchor')]
                /\ anchor' # <<>> => Selection(Retained(anchor))' = g[Len(anchor') - 1]
                /\ Selection(anchor) = g[Len(anchor)] /\ Bounded(g[Len(anchor)])
                /\ anchor # <<>> => Selection(Retained(anchor)) = g[Len(anchor) - 1]
  <1>1. Len(anchor) \in Nat /\ Len(anchor') \in Nat /\ Len(anchor) <= Len(anchor')
        /\ \A n \in 1..Len(anchor) : anchor[n] \in AnchorRecord /\ anchor'[n] = anchor[n]
    BY DEF AnchorType, Grows
  <1>2. PICK N \in Nat : N = Len(anchor)
    BY <1>1
  <1>3. PICK f : Follows(f, anchor, Len(anchor))
    BY <1>1, FollowsExists
  <1>4. Selection(anchor) = f[N]
    BY <1>2, <1>3, SelectionIs
  <1>5. /\ \A n \in 0..N : Bounded(f[n])
        /\ \A n \in 1..N :
             Binds(f[n - 1], anchor[n], n - 1) /\ f[n] = Successor(f[n - 1], anchor[n], n - 1)
    BY <1>2, <1>3, <1>4, Prefixes
  <1>6. f[0] = Genesis
    BY <1>1, <1>3, FollowsAt
  <1>7. PICK g : /\ Chained(g)' /\ Selection(anchor)' = g[Len(anchor')]
                 /\ anchor' # <<>> => Selection(Retained(anchor))' = g[Len(anchor') - 1]
    <2>1. Chains'
      BY SelectionChains, PTL
    <2> QED BY <2>1 DEF Chains, AnchorType
  <1> DEFINE T == {n \in Nat : n <= N => g[n] = f[n]}
  <1>8. 0 \in T
    BY <1>6, <1>7 DEF Chained, Genesis
  <1>9. ASSUME NEW n \in T PROVE n + 1 \in T
    <2>1. CASE n + 1 <= N
      <3>1. n \in Nat /\ n + 1 \in 1..N /\ (n + 1) - 1 = n /\ g[n] = f[n] /\ n \in 0..N
            /\ n < Len(anchor) /\ n + 1 \in 1..Len(anchor')
        BY <1>1, <1>2, <2>1
      <3>2. PICK r \in AnchorRecord : r = anchor[n + 1]
        BY <1>1, <1>2, <3>1
      <3>3. r = anchor'[n + 1]
        BY <1>1, <1>2, <3>1, <3>2
      <3>4. Binds(f[n], r, n) /\ f[n + 1] = Successor(f[n], r, n) /\ Bounded(f[n])
        BY <1>5, <3>1, <3>2
      <3>5. Boundary(n)' = Boundary(n)
        BY <3>1, BoundaryKept
      <3>6. Binds(f[n], r, n)' /\ Successor(f[n], r, n)' = Successor(f[n], r, n)
        BY <3>4, <3>5, BindsKept
      <3>7. g[n + 1] = IF Binds(g[n], r, n)' THEN Successor(g[n], r, n)'
                       ELSE [g[n] EXCEPT !.ok = FALSE]
        BY <1>7, <3>1, <3>3 DEF Chained
      <3> QED BY <3>1, <3>4, <3>6, <3>7
    <2>2. CASE ~ (n + 1 <= N)
      BY <2>2
    <2> QED BY <2>1, <2>2
  <1> HIDE DEF T
  <1>10. T = Nat
    <2>1. T \subseteq Nat
      BY DEF T
    <2> QED BY <1>8, <1>9, <2>1, AllNat
  <1>11. g[N] = f[N] /\ Bounded(f[N])
    BY <1>5, <1>10 DEF T
  <1>12. anchor # <<>> => Selection(Retained(anchor)) = g[Len(anchor) - 1]
    <2> SUFFICES ASSUME anchor # <<>> PROVE Selection(Retained(anchor)) = g[Len(anchor) - 1]
      OBVIOUS
    <2>1. Selection(Retained(anchor)) = f[Len(anchor) - 1]
      BY <1>3, SelectionRetained DEF AnchorType
    <2>2. N - 1 \in Nat /\ N - 1 <= N
      <3>1. Len(anchor) # 0
        BY DEF AnchorType
      <3> QED BY <1>2, <3>1
    <2>3. g[N - 1] = f[N - 1]
      BY <1>10, <2>2 DEF T
    <2> QED BY <1>2, <2>1, <2>3
  <1> QED BY <1>2, <1>4, <1>7, <1>11, <1>12

\* A step that appends no anchor record leaves the selection as it is.
LEMMA SelectionSame ==
  ASSUME AnchorType, AnchorType', Grows, Selection(anchor).ok, anchor' = anchor
  PROVE  /\ Selection(anchor)' = Selection(anchor)
         /\ anchor # <<>> => Selection(Retained(anchor))' = Selection(Retained(anchor))
  BY SelectionKept

\* A record that verifies takes the selection to its successor.
LEMMA SelectionAppended ==
  ASSUME AnchorType, AnchorType', Grows, Selection(anchor).ok, evidence' = evidence,
         NEW r \in AnchorRecord, anchor' = Append(anchor, r),
         Binds(Selection(anchor), r, Len(anchor))
  PROVE  /\ Selection(anchor)' = Successor(Selection(anchor), r, Len(anchor))
         /\ Selection(Retained(anchor))' = Selection(anchor)
  <1>1. PICK g : /\ Chained(g)' /\ Selection(anchor)' = g[Len(anchor')]
                 /\ anchor' # <<>> => Selection(Retained(anchor))' = g[Len(anchor') - 1]
                 /\ Selection(anchor) = g[Len(anchor)] /\ Bounded(g[Len(anchor)])
    BY SelectionKept
  <1>2. PICK N \in Nat : N = Len(anchor)
    BY DEF AnchorType
  <1>3. Len(anchor') = N + 1 /\ r = anchor'[N + 1] /\ (N + 1) - 1 = N /\ N + 1 \in 1..Len(anchor')
    BY <1>2 DEF AnchorType
  <1>4. Binds(g[N], r, N) /\ Bounded(g[N])
    BY <1>1, <1>2
  <1>5. Boundary(N)' = Boundary(N)
    BY BoundaryKept
  <1>6. Binds(g[N], r, N)' /\ Successor(g[N], r, N)' = Successor(g[N], r, N)
    BY <1>4, <1>5, BindsKept
  <1>7. g[N + 1] = IF Binds(g[N], r, N)' THEN Successor(g[N], r, N)'
                   ELSE [g[N] EXCEPT !.ok = FALSE]
    <2>1. Chained(g)'
      BY <1>1
    <2>2. PICK m : m = N + 1 /\ m \in 1..Len(anchor') /\ m - 1 = N /\ r = anchor'[m]
      BY <1>3
    <2>3. g[m] = IF Binds(g[m - 1], r, m - 1)' THEN Successor(g[m - 1], r, m - 1)'
                 ELSE [g[m - 1] EXCEPT !.ok = FALSE]
      BY <2>1, <2>2 DEF Chained
    <2> QED BY <2>2, <2>3
  <1>8. Selection(Retained(anchor))' = Selection(anchor)
    <2>1. Len(anchor') - 1 = Len(anchor) /\ anchor' # <<>>
      <3>1. Len(anchor') # 0 /\ Len(<<>>) = 0
        BY <1>2, <1>3
      <3> QED BY <1>2, <1>3, <3>1
    <2> QED BY <1>1, <2>1
  <1> QED BY <1>1, <1>2, <1>3, <1>6, <1>7, <1>8

-----------------------------------------------------------------------------
(***************************************************************************)
(* The invariant.                                                          *)
(***************************************************************************)

LEMMA AppendedLast ==
  \A S : \A q \in Seq(S) : \A e \in S :
    /\ Append(q, e) \in Seq(S) /\ Len(Append(q, e)) = Len(q) + 1 /\ Len(q) \in Nat
    /\ \A k \in 1..Len(q) : Append(q, e)[k] = q[k]
    /\ Append(q, e)[Len(q) + 1] = e
  OBVIOUS

\* What each action appends.
LEMMA AnchorTypeStep ==
  ASSUME AnchorType, AnchorNext
  PROVE  AnchorType' /\ Grows
  <1>1. /\ ledger \in Seq(Row) /\ journal \in Seq(FrameType) /\ anchor \in Seq(AnchorRecord)
        /\ evidence \in Seq(IntentType) /\ torn \subseteq Nat /\ jtorn \subseteq Nat
    BY DEF AnchorType
  <1>2. /\ Len(ledger) \in Nat /\ Len(journal) \in Nat /\ Len(anchor) \in Nat
        /\ Len(evidence) \in Nat /\ DOMAIN evidence = 1..Len(evidence)
    BY <1>1
  <1>3. ASSUME NEW o \in Row, ledger' = Append(ledger, o),
               UNCHANGED <<journal, anchor, torn, jtorn, evidence>>
        PROVE  AnchorType' /\ Grows
    BY <1>1, <1>2, <1>3, AppendedLast DEF AnchorType, Grows
  <1>4. ASSUME NEW frame \in FrameType, AppendFrame(frame) PROVE AnchorType' /\ Grows
    BY <1>1, <1>2, <1>4, AppendedLast DEF AppendFrame, AnchorType, Grows
  <1>5. ASSUME NEW o \in Ops, Consume(o) PROVE AnchorType' /\ Grows
    BY <1>3, <1>5 DEF Consume, Row
  <1>6. CASE RecoverLedger
    BY <1>3, <1>6 DEF RecoverLedger, Row
  <1>7. ASSUME NEW kind \in JournalKinds, NEW o \in Ops,
               NEW c \in IF kind = "operation-intent" THEN 1..Len(ledger) ELSE {0},
               AppendFrame(Frame(kind, o, IF kind \in Effects THEN 1 ELSE 0, c))
        PROVE  AnchorType' /\ Grows
    <2>1. c \in Nat /\ kind \in Kinds /\ (IF kind \in Effects THEN 1 ELSE 0) \in Nat
      BY <1>2, AnchorKindsAssumption
    <2>2. Frame(kind, o, IF kind \in Effects THEN 1 ELSE 0, c) \in FrameType
      BY <2>1 DEF Frame, FrameType, Row
    <2> QED BY <1>4, <1>7, <2>2
  <1>8. ASSUME NEW i \in Of("journal"), AppendFrame(Audit(i)) PROVE AnchorType' /\ Grows
    <2>1. Audit(i) \in FrameType
      BY <1>2 DEF Audit, FrameType, Row, Of, Kinds
    <2> QED BY <1>4, <1>8, <2>1
  <1>9. ASSUME NEW r \in AnchorInputs, AppendAnchor(r) PROVE AnchorType' /\ Grows
    <2>1. r \in AnchorRecord
      BY DEF AnchorInputs
    <2> QED BY <1>1, <1>2, <1>9, <2>1, AppendedLast DEF AppendAnchor, AnchorType, Grows
  <1>10. ASSUME NEW lost \in Boundary(Len(anchor)) \cup {0}, TearAnchor(lost)
         PROVE  AnchorType' /\ Grows
    <2>1. lost \in Nat
      BY <1>2 DEF Boundary, Of
    <2> QED BY <1>1, <1>2, <1>10, <2>1 DEF TearAnchor, files, AnchorType, Grows
  <1>11. ASSUME NEW fragment \in 1..(Cardinality(Of("journal")) + 1), TearJournal(fragment)
         PROVE  AnchorType' /\ Grows
    <2>1. IsFiniteSet(1..Len(evidence))
      BY <1>2, FS_Interval
    <2>2. IsFiniteSet(Of("journal"))
      BY <1>2, <2>1, FS_Subset DEF Of
    <2>3. fragment \in Nat
      BY <2>2, FS_CardinalityType
    <2> QED BY <1>1, <1>2, <1>11, <2>3 DEF TearJournal, files, AnchorType, Grows
  <1>12. ASSUME NEW domain \in {"anchor", "journal"}, NEW parent \in Of(domain) \cup {0},
                PublishIntent(domain, parent)
         PROVE  AnchorType' /\ Grows
    <2>1. parent \in Nat
      BY <1>2 DEF Of
    <2>2. PICK captured \in IF domain = "anchor" THEN torn ELSE jtorn :
            evidence' = Append(evidence,
             RecoveryIntent(domain, parent, captured,
                     IF domain = "journal" THEN Len(journal) ELSE 0))
      BY <1>12 DEF PublishIntent
    <2>3. captured \in Nat
      BY <1>1, <2>2
    <2> DEFINE e == RecoveryIntent(domain, parent, captured,
                                   IF domain = "journal" THEN Len(journal) ELSE 0)
    <2>4. e \in IntentType /\ e.at = Len(anchor)
      BY <1>2, <2>1, <2>3 DEF RecoveryIntent, IntentType
    <2>5. evidence' = Append(evidence, e) /\ UNCHANGED <<files, torn, jtorn>>
      BY <1>12, <2>2 DEF PublishIntent
    <2> HIDE DEF e
    <2>6. /\ evidence' \in Seq(IntentType) /\ Len(evidence') = Len(evidence) + 1
          /\ \A k \in 1..Len(evidence) : evidence'[k] = evidence[k]
          /\ evidence'[Len(evidence) + 1] = e
      BY <1>1, <2>4, <2>5, AppendedLast
    <2>7. AnchorType'
      BY <1>1, <2>5, <2>6 DEF AnchorType, files
    <2>8. \A i \in 1..Len(evidence') : i > Len(evidence) => evidence'[i].at = Len(anchor)
      <3>1. \A i \in 1..Len(evidence') : i > Len(evidence) => i = Len(evidence) + 1
        BY <1>2, <2>6
      <3> QED BY <2>4, <2>6, <3>1
    <2> QED BY <1>2, <2>5, <2>6, <2>7, <2>8 DEF Grows, files
  <1>13. CASE CutTail
    BY <1>1, <1>2, <1>13 DEF CutTail, files, AnchorType, Grows
  <1>14. CASE CutJournal
    BY <1>1, <1>2, <1>14 DEF CutJournal, files, AnchorType, Grows
  <1> QED BY <1>5, <1>6, <1>7, <1>8, <1>9, <1>10, <1>11, <1>12, <1>13, <1>14 DEF AnchorNext

\* What each step does to the chain of records.
LEMMA AnchorSteps ==
  ASSUME AnchorNext
  PROVE  \/ anchor' = anchor
         \/ \E r \in AnchorInputs : AppendAnchor(r)
  BY DEF AnchorNext, Consume, RecoverLedger, AppendFrame, TearAnchor, TearJournal,
         PublishIntent, CutTail, CutJournal, files

LEMMA ConsumedStep ==
  ASSUME AnchorType, ConsumedOnce, AnchorNext
  PROVE  ConsumedOnce'
  <1>1. ledger \in Seq(Row) /\ Len(ledger) \in Nat
    BY DEF AnchorType
  <1>2. ASSUME NEW o \in Row, ledger' = Append(ledger, o),
               o \in Ops => \A c \in 1..Len(ledger) : ledger[c] # o
        PROVE  ConsumedOnce'
    <2> SUFFICES ASSUME NEW c \in 1..Len(ledger'), NEW d \in 1..Len(ledger'),
                        ledger'[c] \in Ops, ledger'[c] = ledger'[d]
                 PROVE  c = d
      BY DEF ConsumedOnce
    <2>1. /\ Len(ledger') = Len(ledger) + 1 /\ ledger'[Len(ledger) + 1] = o
          /\ \A k \in 1..Len(ledger) : ledger'[k] = ledger[k]
      BY <1>1, <1>2, AppendedLast
    <2>2. /\ c \in 1..Len(ledger) \/ c = Len(ledger) + 1
          /\ d \in 1..Len(ledger) \/ d = Len(ledger) + 1
      BY <1>1, <2>1
    <2> QED BY <1>2, <2>1, <2>2 DEF ConsumedOnce
  <1>3. ASSUME NEW o \in Ops, Consume(o) PROVE ConsumedOnce'
    BY <1>2, <1>3 DEF Consume, Row
  <1>4. CASE RecoverLedger
    BY <1>2, <1>4, AnchorOpsAssumption DEF RecoverLedger, Row
  <1>5. CASE ledger' = ledger
    BY <1>5 DEF ConsumedOnce
  <1>6. \/ \E o \in Ops : Consume(o)
        \/ RecoverLedger
        \/ ledger' = ledger
    BY DEF AnchorNext, AppendFrame, AppendAnchor, TearAnchor, TearJournal, PublishIntent,
           CutTail, CutJournal, files
  <1> QED BY <1>3, <1>4, <1>5, <1>6

LEMMA AuditsStep ==
  ASSUME AnchorType, AuditsFollow, AnchorNext
  PROVE  AuditsFollow'
  <1>1. AnchorType' /\ Grows
    BY AnchorTypeStep
  <1>2. /\ journal \in Seq(FrameType) /\ Len(journal) \in Nat /\ Len(evidence) \in Nat
        /\ Len(journal') \in Nat /\ Len(evidence') \in Nat
        /\ DOMAIN evidence = 1..Len(evidence) /\ DOMAIN evidence' = 1..Len(evidence')
        /\ \A k \in 1..Len(journal) : journal[k].binds \in Nat
        /\ \A i \in DOMAIN evidence : evidence[i].frames \in Nat
    <2>1. /\ journal \in Seq(FrameType) /\ evidence \in Seq(IntentType)
          /\ Len(journal') \in Nat /\ Len(evidence') \in Nat
          /\ DOMAIN evidence' = 1..Len(evidence')
      BY <1>1 DEF AnchorType
    <2>2. /\ Len(journal) \in Nat /\ Len(evidence) \in Nat
          /\ DOMAIN evidence = 1..Len(evidence)
          /\ \A k \in 1..Len(journal) : journal[k] \in FrameType
          /\ \A i \in 1..Len(evidence) : evidence[i] \in IntentType
      BY <2>1
    <2> QED BY <2>1, <2>2 DEF FrameType, IntentType
  <1>3. \A i \in 1..Len(evidence) :
          /\ i \in Of("journal")' <=> i \in Of("journal")
          /\ evidence'[i] = evidence[i]
    BY <1>1, <1>2 DEF Grows, Of
  <1>4. ASSUME NEW k \in 1..Len(journal)
        PROVE  /\ journal'[k].kind = "leaf" \/ journal'[k].op \in Ops
               /\ journal'[k].kind = "leaf" =>
                    /\ journal'[k].binds <= Len(evidence')
                    /\ journal'[k].binds \in Of("journal")' =>
                         evidence'[journal'[k].binds].frames < k
    <2>1. journal'[k] = journal[k] /\ Len(evidence) <= Len(evidence')
      BY <1>1 DEF Grows
    <2>2. CASE journal[k].kind # "leaf"
      BY <2>1, <2>2 DEF AuditsFollow
    <2>3. CASE journal[k].kind = "leaf"
      <3>1. journal[k].binds \in Nat /\ journal[k].binds <= Len(evidence)
        BY <1>2, <2>3 DEF AuditsFollow
      <3>2. journal[k].binds \in Of("journal")' => journal[k].binds \in 1..Len(evidence)
        BY <1>2, <3>1 DEF Of
      <3>3. journal[k].binds \in Of("journal")' => evidence'[journal[k].binds].frames < k
        BY <1>3, <2>3, <3>2 DEF AuditsFollow
      <3> QED BY <1>2, <2>1, <2>3, <3>1, <3>3
    <2> QED BY <2>2, <2>3
  <1>5. ASSUME NEW frame \in FrameType, AppendFrame(frame),
               frame.kind = "leaf" \/ frame.op \in Ops,
               frame.kind = "leaf" =>
                 frame.binds <= Len(evidence)
                 /\ (frame.binds \in Of("journal") => evidence[frame.binds].frames <= Len(journal))
        PROVE  AuditsFollow'
    <2>1. journal' = Append(journal, frame) /\ evidence' = evidence
      BY <1>5 DEF AppendFrame
    <2>2. Len(journal') = Len(journal) + 1 /\ journal'[Len(journal) + 1] = frame
      BY <1>2, <2>1, AppendedLast
    <2>3. Of("journal")' = Of("journal")
      BY <2>1 DEF Of
    <2>4. \A i \in Of("journal")' : evidence'[i].frames <= Len(journal')
      <3>1. \A i \in Of("journal") : evidence[i].frames \in Nat /\ evidence[i].frames <= Len(journal)
        BY <1>2 DEF AuditsFollow, Of
      <3> QED BY <1>2, <2>1, <2>2, <2>3, <3>1
    <2>5. ASSUME NEW k \in 1..Len(journal')
          PROVE  /\ journal'[k].kind = "leaf" \/ journal'[k].op \in Ops
                 /\ journal'[k].kind = "leaf" =>
                      /\ journal'[k].binds <= Len(evidence')
                      /\ journal'[k].binds \in Of("journal")' =>
                           evidence'[journal'[k].binds].frames < k
      <3>1. CASE k \in 1..Len(journal)
        BY <1>4, <3>1
      <3>2. CASE k = Len(journal) + 1
        <4>1. journal'[k] = frame
          BY <2>2, <3>2
        <4>2. frame.kind = "leaf" /\ frame.binds \in Of("journal") =>
                evidence[frame.binds].frames < k
          BY <1>2, <1>5, <3>2 DEF Of
        <4> QED BY <1>5, <2>1, <2>3, <4>1, <4>2
      <3> QED BY <1>2, <2>2, <3>1, <3>2
    <2> QED BY <2>4, <2>5 DEF AuditsFollow
  <1>6. ASSUME NEW kind \in JournalKinds, NEW o \in Ops,
               NEW c \in IF kind = "operation-intent" THEN 1..Len(ledger) ELSE {0},
               AppendFrame(Frame(kind, o, IF kind \in Effects THEN 1 ELSE 0, c))
        PROVE  AuditsFollow'
    <2>1. c \in Nat /\ kind \in Kinds /\ (IF kind \in Effects THEN 1 ELSE 0) \in Nat
      BY AnchorKindsAssumption DEF AnchorType
    <2> DEFINE frame == Frame(kind, o, IF kind \in Effects THEN 1 ELSE 0, c)
    <2>2. frame \in FrameType /\ frame.op \in Ops /\ frame.kind = kind /\ frame.binds = c
      BY <2>1 DEF Frame, FrameType, Row
    <2>3. kind = "leaf" => c = 0
      OBVIOUS
    <2>4. 0 \notin Of("journal")
      BY <1>2 DEF Of
    <2> HIDE DEF frame
    <2>5. AppendFrame(frame)
      BY <1>6 DEF frame
    <2> QED BY <1>2, <1>5, <2>2, <2>3, <2>4, <2>5
  <1>7. ASSUME NEW i \in Of("journal"), AppendFrame(Audit(i)) PROVE AuditsFollow'
    <2>1. i \in 1..Len(evidence) /\ evidence[i].frames <= Len(journal)
      BY <1>2 DEF Of, AuditsFollow
    <2>2. /\ Audit(i) \in FrameType /\ Audit(i).kind = "leaf" /\ Audit(i).binds = i
      BY <1>2, <2>1 DEF Audit, FrameType, Row, Kinds
    <2>3. i <= Len(evidence)
      BY <1>2, <2>1
    <2> QED BY <1>5, <1>7, <2>1, <2>2, <2>3
  <1>8. CASE journal' = journal
    <2>1. \A i \in Of("journal")' : evidence'[i].frames <= Len(journal)
      <3>1. CASE evidence' = evidence
        BY <3>1 DEF AuditsFollow, Of
      <3>2. CASE \E domain \in {"anchor", "journal"} :
                   \E parent \in Of(domain) \cup {0} : PublishIntent(domain, parent)
        <4>0. PICK domain \in {"anchor", "journal"} :
                \E parent \in Of(domain) \cup {0} : PublishIntent(domain, parent)
          BY <3>2
        <4>1. PICK parent \in Of(domain) \cup {0} : PublishIntent(domain, parent)
          BY <4>0
        <4>2. PICK captured \in IF domain = "anchor" THEN torn ELSE jtorn :
                evidence' = Append(evidence,
                 RecoveryIntent(domain, parent, captured,
                         IF domain = "journal" THEN Len(journal) ELSE 0))
          BY <4>1 DEF PublishIntent
        <4> DEFINE e == RecoveryIntent(domain, parent, captured,
                                       IF domain = "journal" THEN Len(journal) ELSE 0)
        <4>3. e.frames <= Len(journal)
          BY <1>2, <4>1 DEF RecoveryIntent
        <4>4. evidence' = Append(evidence, e)
          BY <4>2
        <4> HIDE DEF e
        <4>5. Len(evidence') = Len(evidence) + 1 /\ evidence'[Len(evidence) + 1] = e
          BY <4>4 DEF AnchorType
        <4>6. ASSUME NEW i \in Of("journal")' PROVE evidence'[i].frames <= Len(journal)
          <5>1. i \in 1..Len(evidence) \/ i = Len(evidence) + 1
            BY <1>2, <4>5 DEF Of
          <5>2. CASE i \in 1..Len(evidence)
            <6>1. i \in Of("journal") /\ evidence'[i] = evidence[i]
              BY <1>3, <5>2
            <6> QED BY <6>1 DEF AuditsFollow
          <5>3. CASE i = Len(evidence) + 1
            BY <4>3, <4>5, <5>3
          <5> QED BY <5>1, <5>2, <5>3
        <4> QED BY <4>6
      <3>3. \/ evidence' = evidence
            \/ \E domain \in {"anchor", "journal"} :
                 \E parent \in Of(domain) \cup {0} : PublishIntent(domain, parent)
        BY DEF AnchorNext, Consume, RecoverLedger, AppendFrame, AppendAnchor, TearAnchor,
               TearJournal, CutTail, CutJournal, files
      <3> QED BY <3>1, <3>2, <3>3
    <2> QED BY <1>4, <1>8, <2>1 DEF AuditsFollow
  <1>9. \/ \E kind \in JournalKinds, o \in Ops :
             \E c \in IF kind = "operation-intent" THEN 1..Len(ledger) ELSE {0} :
               AppendFrame(Frame(kind, o, IF kind \in Effects THEN 1 ELSE 0, c))
        \/ \E i \in Of("journal") : AppendFrame(Audit(i))
        \/ journal' = journal
    BY DEF AnchorNext, Consume, RecoverLedger, AppendAnchor, TearAnchor, TearJournal,
           PublishIntent, CutTail, CutJournal, files
  <1> QED BY <1>6, <1>7, <1>8, <1>9

\* What a selection says stays true while the files grow.
LEMMA SoundKept ==
  ASSUME AnchorType, AnchorType', Grows, NEW s, Sound(s)
  PROVE  Sound(s)'
  <1>1. /\ s \in SelectionType /\ s.ok /\ s.count <= Len(ledger) /\ s.journal <= Len(journal)
        /\ s.count \in Nat /\ s.journal \in Nat
    BY DEF Sound, Bounded, SelectionType
  <1>2. /\ Len(ledger) \in Nat /\ Len(ledger') \in Nat /\ Len(ledger) <= Len(ledger')
        /\ Len(journal) \in Nat /\ Len(journal') \in Nat /\ Len(journal) <= Len(journal')
        /\ Len(anchor) \in Nat /\ Len(anchor') \in Nat /\ Len(anchor) <= Len(anchor')
        /\ Len(evidence) \in Nat /\ Len(evidence') \in Nat /\ Len(evidence) <= Len(evidence')
        /\ DOMAIN evidence = 1..Len(evidence) /\ DOMAIN evidence' = 1..Len(evidence')
    BY DEF AnchorType, Grows
  <1>3. \A k \in 1..s.journal : k \in 1..Len(journal) /\ journal'[k] = journal[k]
    BY <1>1, <1>2 DEF Grows
  <1>4. \A c \in 1..s.count : ledger'[c] = ledger[c]
    BY <1>1, <1>2 DEF Grows
  <1>5. Bounded(s)'
    BY <1>1, <1>2 DEF Bounded
  <1>6. \A k \in s.honoured : k \in 1..s.journal /\ journal'[k].kind \in Closures
    BY <1>3 DEF Sound
  <1>7. \A c \in 1..s.count : Accounted(s, c)'
    <2>1. SelectedIntents(s)' = SelectedIntents(s) /\ SelectedIntents(s) \subseteq 1..s.journal
      BY <1>3 DEF SelectedIntents
    <2>2. \A k \in 1..s.journal : \A c \in 1..s.count : Matches(k, c) => Matches(k, c)'
      BY <1>3, <1>4 DEF Matches
    <2> QED BY <2>1, <2>2 DEF Sound, Accounted
  <1>8. ASSUME NEW i \in s.resolved
        PROVE  /\ i \in Of("anchor")' /\ evidence'[i].at < Len(anchor')
               /\ anchor'[evidence'[i].at + 1].kind = FinalRecovery
    <2>1. /\ i \in Of("anchor") /\ evidence[i].at < Len(anchor)
          /\ anchor[evidence[i].at + 1].kind = FinalRecovery
      BY DEF Sound
    <2>2. i \in 1..Len(evidence) /\ evidence'[i] = evidence[i] /\ i \in 1..Len(evidence')
      BY <1>2, <2>1 DEF Of, Grows
    <2>3. evidence[i].at \in Nat
      <3>1. evidence[i] \in IntentType
        BY <2>2 DEF AnchorType
      <3> QED BY <3>1 DEF IntentType
    <2>4. evidence[i].at + 1 \in 1..Len(anchor)
      BY <1>2, <2>1, <2>3
    <2>5. anchor'[evidence[i].at + 1] = anchor[evidence[i].at + 1]
      BY <2>4 DEF Grows
    <2> QED BY <1>2, <2>1, <2>2, <2>3, <2>5 DEF Of
  <1> QED BY <1>1, <1>5, <1>6, <1>7, <1>8 DEF Sound

\* A record that verifies adds to a selection only what the files hold.
LEMMA SoundAppended ==
  ASSUME AnchorType, AnchorType', NEW s, Sound(s), NEW r \in AnchorRecord,
         AppendAnchor(r), Binds(s, r, Len(anchor)), NEW t, t = Successor(s, r, Len(anchor))
  PROVE  Sound(t)'
  <1>1. /\ Bounded(s) /\ s.count \in Nat /\ s.journal \in Nat /\ s.ok
        /\ s.count <= Len(ledger) /\ s.journal <= Len(journal)
    BY DEF Sound, Bounded, SelectionType
  <1>2. /\ r.kind \in 0..3 /\ r.count \in Nat /\ r.journal \in Nat /\ r.event \in Nat
    BY RecordNumbers
  <1>3. ByKind(s, r, Len(anchor))
    BY <1>1, BindsByKind DEF KindsDecide
  <1>4. /\ Bounded(t) /\ t.ok /\ t.count = r.count /\ t.journal = r.journal
        /\ s.count <= r.count /\ s.journal <= r.journal
        /\ NewIntents(s, r) \subseteq 1..r.journal
        /\ t.honoured = IF r.kind = ClosureAnchor THEN s.honoured \cup {r.event} ELSE s.honoured
        /\ t.adopted = IF r.kind = Adoption THEN s.adopted \cup (s.count + 1)..r.count ELSE s.adopted
        /\ t.resolved =
             IF r.kind = FinalRecovery THEN s.resolved \cup Boundary(Len(anchor)) ELSE s.resolved
    <2>1. Extended(t, s, r, Len(anchor))
      BY <1>1, SuccessorFields
    <2> QED BY <2>1 DEF Extended
  <1>5. UNCHANGED <<ledger, journal, evidence>> /\ anchor' = Append(anchor, r)
    BY DEF AppendAnchor
  <1>6. /\ anchor \in Seq(AnchorRecord) /\ Len(anchor) \in Nat /\ Len(anchor') = Len(anchor) + 1
        /\ anchor'[Len(anchor) + 1] = r
        /\ \A n \in 1..Len(anchor) : anchor'[n] = anchor[n]
    BY <1>5, AppendedLast DEF AnchorType
  <1>7. Bounded(t)'
    BY <1>4, <1>5 DEF Bounded
  <1>8. \A k \in t.honoured : k \in 1..t.journal /\ journal[k].kind \in Closures
    <2>1. \A k \in s.honoured : k \in 1..t.journal /\ journal[k].kind \in Closures
      BY <1>1, <1>2, <1>4 DEF Sound
    <2>2. r.kind = ClosureAnchor => r.event \in 1..t.journal /\ journal[r.event].kind \in Closures
      <3> SUFFICES ASSUME r.kind = ClosureAnchor
                   PROVE  r.event \in 1..t.journal /\ journal[r.event].kind \in Closures
        OBVIOUS
      <3>1. ClosureBinds(s, r) /\ r.journal # s.journal
        BY <1>3 DEF ByKind
      <3> QED BY <1>1, <1>2, <1>4, <3>1 DEF ClosureBinds
    <2> QED BY <1>4, <2>1, <2>2
  <1>9. t.adopted \subseteq 1..t.count
    <2>1. s.adopted \subseteq 1..s.count
      BY DEF Sound
    <2> QED BY <1>1, <1>2, <1>4, <2>1
  <1>10. ASSUME NEW c \in 1..t.count PROVE Accounted(t, c)
    <2>1. CASE c \in 1..s.count
      <3>1. CASE c \in s.adopted
        BY <1>4, <3>1 DEF Accounted
      <3>2. CASE \E k \in SelectedIntents(s) : Matches(k, c)
        <4>1. SelectedIntents(s) \subseteq SelectedIntents(t)
          BY <1>1, <1>2, <1>4 DEF SelectedIntents
        <4> QED BY <3>2, <4>1 DEF Accounted
      <3> QED BY <2>1, <3>1, <3>2 DEF Sound, Accounted
    <2>2. CASE c \notin 1..s.count
      <3>1. s.count < c /\ c <= r.count /\ r.count # s.count
        BY <1>1, <1>2, <1>4, <2>2
      <3>2. CASE r.kind = Ordinary
        <4>1. OrdinaryBinds(s, r) /\ r.count \in {s.count, s.count + 1}
          BY <1>3, <3>2 DEF ByKind
        <4>2. c = r.count
          BY <1>1, <1>2, <3>1, <4>1
        <4>3. NewIntents(s, r) = {r.journal} /\ Matches(r.journal, c)
          BY <3>1, <4>1, <4>2 DEF OrdinaryBinds
        <4>4. r.journal \in SelectedIntents(t)
          BY <1>4, <4>3 DEF NewIntents, SelectedIntents
        <4> QED BY <4>3, <4>4 DEF Accounted
      <3>3. CASE r.kind = Adoption
        BY <1>1, <1>2, <1>4, <3>1, <3>3 DEF Accounted
      <3>4. r.kind \in {Ordinary, Adoption}
        BY <1>2, <1>3, <3>1 DEF ByKind, Ordinary, FinalRecovery, Adoption, ClosureAnchor
      <3> QED BY <3>2, <3>3, <3>4
    <2> QED BY <2>1, <2>2
  <1>11. ASSUME NEW i \in t.resolved
         PROVE  /\ i \in Of("anchor") /\ evidence[i].at < Len(anchor')
                /\ anchor'[evidence[i].at + 1].kind = FinalRecovery
    <2>1. CASE i \in s.resolved
      <3>1. /\ i \in Of("anchor") /\ evidence[i].at < Len(anchor)
            /\ anchor[evidence[i].at + 1].kind = FinalRecovery
        BY <2>1 DEF Sound
      <3>2. evidence[i].at \in Nat
        <4>1. i \in DOMAIN evidence /\ evidence \in Seq(IntentType)
          BY <3>1 DEF Of, AnchorType
        <4>2. evidence[i] \in IntentType
          BY <4>1
        <4> QED BY <4>2 DEF IntentType
      <3>3. evidence[i].at + 1 \in 1..Len(anchor)
        BY <1>6, <3>1, <3>2
      <3> QED BY <1>6, <3>1, <3>2, <3>3
    <2>2. CASE r.kind = FinalRecovery /\ i \in Boundary(Len(anchor))
      BY <1>6, <2>2 DEF Boundary
    <2> QED BY <1>4, <2>1, <2>2
  <1>12. \A c \in 1..t.count : Accounted(t, c)'
    <2>1. \A c \in 1..t.count : Accounted(t, c)' <=> Accounted(t, c)
      BY <1>5 DEF Accounted, SelectedIntents, Matches
    <2> QED BY <1>10, <2>1
  <1> QED BY <1>4, <1>5, <1>7, <1>8, <1>9, <1>11, <1>12 DEF Sound, Of

LEMMA AnchorInvInit == AnchorInit => AnchorInv
  <1> SUFFICES ASSUME AnchorInit PROVE AnchorInv
    OBVIOUS
  <1>1. /\ ledger = <<>> /\ journal = <<>> /\ anchor = <<>> /\ evidence = <<>>
        /\ torn = {} /\ jtorn = {}
    BY DEF AnchorInit
  <1>2. Len(ledger) = 0 /\ Len(journal) = 0 /\ Len(anchor) = 0 /\ Len(evidence) = 0
        /\ anchor \in Seq(AnchorRecord)
    BY <1>1
  <1>3. AnchorType
    BY <1>1 DEF AnchorType
  <1>4. ConsumedOnce
    BY <1>2 DEF ConsumedOnce
  <1>5. AuditsFollow
    BY <1>1, <1>2 DEF AuditsFollow, Of
  <1>6. Selection(anchor) = Genesis
    BY <1>2, SelectionChains DEF Chains, Chained
  <1>7. Sound(Genesis)
    BY <1>2 DEF Genesis, Sound, Bounded, SelectionType
  <1> QED BY <1>3, <1>4, <1>5, <1>6, <1>7 DEF AnchorInv, SelectionIsSound

\* How the selection s becomes t: not at all, or by one record that verifies.
Moves(s, t) ==
    \/ t = s
    \/ \E r \in AnchorRecord :
         AppendAnchor(r) /\ ByKind(s, r, Len(anchor)) /\ Extended(t, s, r, Len(anchor))

LEMMA SelectionStep ==
  ASSUME AnchorInv, AnchorNext, NEW s, s = Selection(anchor), NEW t, t = Selection(anchor)'
  PROVE  Sound(s) /\ Moves(s, t) /\ Sound(t)'
  <1>1. AnchorType /\ Sound(s) /\ s.ok /\ Bounded(s) /\ s.journal \in Nat
    BY DEF AnchorInv, SelectionIsSound, Sound, Bounded, SelectionType
  <1>2. AnchorType' /\ Grows
    BY <1>1, AnchorTypeStep
  <1>3. CASE anchor' = anchor
    <2>1. t = s
      BY <1>1, <1>2, <1>3, SelectionSame
    <2>2. Sound(s)'
      BY <1>1, <1>2, SoundKept
    <2> QED BY <1>1, <2>1, <2>2 DEF Moves
  <1>4. CASE \E r \in AnchorInputs : AppendAnchor(r)
    <2>1. PICK r \in AnchorInputs : AppendAnchor(r)
      BY <1>4
    <2>2. r \in AnchorRecord /\ Binds(s, r, Len(anchor))
      BY DEF AnchorInputs
    <2>3. anchor' = Append(anchor, r) /\ evidence' = evidence
      BY <2>1 DEF AppendAnchor
    <2>4. t = Successor(s, r, Len(anchor))
      BY <1>1, <1>2, <2>2, <2>3, SelectionAppended
    <2>5. Sound(t)'
      BY <1>1, <1>2, <2>1, <2>2, <2>4, SoundAppended
    <2>6. ByKind(s, r, Len(anchor))
      BY <1>1, <2>2, BindsByKind DEF KindsDecide
    <2>7. Extended(t, s, r, Len(anchor))
      BY <1>1, <2>2, <2>4, SuccessorFields
    <2> QED BY <1>1, <2>1, <2>2, <2>5, <2>6, <2>7 DEF Moves
  <1> QED BY <1>3, <1>4, AnchorSteps

LEMMA AnchorInvStep == AnchorInv /\ [AnchorNext]_anchorVars => AnchorInv'
  <1> SUFFICES ASSUME AnchorInv, [AnchorNext]_anchorVars PROVE AnchorInv'
    OBVIOUS
  <1>1. CASE AnchorNext
    <2>1. AnchorType' /\ ConsumedOnce' /\ AuditsFollow'
      BY <1>1, AnchorTypeStep, ConsumedStep, AuditsStep DEF AnchorInv
    <2>2. SelectionIsSound'
      <3>1. PICK s, t : s = Selection(anchor) /\ t = Selection(anchor)'
        OBVIOUS
      <3>2. Sound(t)'
        BY <1>1, <3>1, SelectionStep
      <3> QED BY <3>1, <3>2 DEF SelectionIsSound
    <2> QED BY <2>1, <2>2 DEF AnchorInv
  <1>2. CASE UNCHANGED anchorVars
    <2>1. AnchorType' /\ ConsumedOnce' /\ AuditsFollow'
      BY <1>2 DEF anchorVars, AnchorInv, AnchorType, ConsumedOnce, AuditsFollow, Of
    <2>2. SelectionIsSound'
      <3>1. PICK s, t : s = Selection(anchor) /\ t = Selection(anchor)'
        OBVIOUS
      <3>2. AnchorType /\ Sound(s) /\ s.ok
        BY <3>1 DEF AnchorInv, SelectionIsSound, Sound
      <3>3. Grows
        BY <1>2, <3>2 DEF anchorVars, Grows, AnchorType
      <3>4. t = s
        BY <1>2, <2>1, <3>1, <3>2, <3>3, SelectionSame DEF anchorVars
      <3>5. Sound(s)'
        BY <2>1, <3>2, <3>3, SoundKept
      <3> QED BY <3>1, <3>4, <3>5 DEF SelectionIsSound
    <2> QED BY <2>1, <2>2 DEF AnchorInv
  <1> QED BY <1>1, <1>2

\* The invariant of the anchor holds whatever the host and the operator append,
\* publish, cut and complete, and wherever they stop.
THEOREM AnchorInvariant == AnchorSpec => []AnchorInv
  BY AnchorInvInit, AnchorInvStep, PTL DEF AnchorSpec

\* A selection that is sound and that the ordinary reader accepts is complete.
LEMMA SoundIsComplete == AnchorInv => CurrentIsComplete
  <1> SUFFICES ASSUME AnchorInv, Current PROVE CurrentIsComplete
    BY DEF CurrentIsComplete
  <1>1. PICK s : s = Selection(anchor)
    OBVIOUS
  <1>2. AnchorType /\ Sound(s) /\ AuditsFollow
    BY <1>1 DEF AnchorInv, SelectionIsSound
  <1>3. /\ JournalIntentsBind(0..Len(anchor), s.journal) /\ Legal(journal, s.honoured, s.journal)
        /\ Len(ledger) = s.count
        /\ Of("anchor") \subseteq s.resolved /\ Unaudited(s.journal) = {}
    BY <1>1 DEF Current, Verified, NonePending
  <1>4. \A c \in 1..Len(ledger) : Accounted(s, c)
    BY <1>2, <1>3 DEF Sound
  <1>5. ASSUME NEW k \in s.honoured, NEW j \in Events(journal, journal[k].op), j > k
        PROVE  journal[j].kind = "status"
    <2>1. k \in 1..s.journal /\ journal[k].kind \in Closures /\ k \in 1..Len(journal)
      <3>1. s.journal \in Nat /\ s.journal <= Len(journal) /\ Len(journal) \in Nat
        BY <1>2 DEF Sound, Bounded, SelectionType, AnchorType
      <3> QED BY <1>2, <3>1 DEF Sound
    <2>2. journal[k].op \in Ops /\ journal[k].kind \notin {"leaf", "alien"}
      BY <1>2, <2>1 DEF AuditsFollow, Closures
    <2>3. k \in ClosuresOf(journal, journal[k].op)
      BY <2>1, <2>2 DEF ClosuresOf, Events
    <2>4. OneLife(journal, s.honoured, journal[k].op)
      BY <1>3, <2>2 DEF Legal
    <2>5. k < j
      BY <1>5, <2>1 DEF Events
    <2> QED BY <1>5, <2>3, <2>4, <2>5 DEF OneLife
  <1>6. \A i \in Of("anchor") : anchor[evidence[i].at + 1].kind = FinalRecovery
    BY <1>2, <1>3 DEF Sound
  <1>7. ASSUME NEW i \in Of("journal")
        PROVE  \E k \in (evidence[i].frames + 1)..s.journal : Audits(i, s.journal) = {k}
    <2>1. PICK k \in Audits(i, s.journal) : TRUE
      BY <1>3 DEF Unaudited
    <2>2. \A j \in Audits(i, s.journal) : j = k
      BY <1>3 DEF JournalIntentsBind
    <2>3. k \in 1..s.journal /\ journal[k].kind = "leaf" /\ journal[k].binds = i
          /\ k \in 1..Len(journal) /\ s.journal \in Nat
      <3>1. s.journal \in Nat /\ s.journal <= Len(journal) /\ Len(journal) \in Nat
        BY <1>2 DEF Sound, Bounded, SelectionType, AnchorType
      <3> QED BY <2>1, <3>1 DEF Audits
    <2>4. evidence[i].frames < k
      BY <1>2, <2>3 DEF AuditsFollow
    <2>5. evidence[i].frames \in Nat
      <3>1. i \in DOMAIN evidence /\ evidence \in Seq(IntentType)
        BY <1>2 DEF Of, AnchorType
      <3>2. evidence[i] \in IntentType
        BY <3>1
      <3> QED BY <3>2 DEF IntentType
    <2>6. k \in (evidence[i].frames + 1)..s.journal
      BY <2>3, <2>4, <2>5
    <2> QED BY <2>1, <2>2, <2>6
  <1> QED BY <1>1, <1>4, <1>5, <1>6, <1>7 DEF CurrentIsComplete

\* PermitLedgerAnchorStoreV2.current: a reader that returns accounts for every
\* row, honours no operation with later effects, and every published damage is
\* recorded where it was cut.
THEOREM CurrentSelectionsAreComplete == AnchorSpec => []CurrentIsComplete
  BY AnchorInvariant, SoundIsComplete, PTL

\* t selects all that s selects.
GrowsOnly(s, t) ==
    t.ok /\ s.honoured \subseteq t.honoured /\ s.count <= t.count /\ s.journal <= t.journal

LEMMA MovesGrow ==
  ASSUME AnchorInv, AnchorNext, NEW s, s = Selection(anchor), NEW t, t = Selection(anchor)'
  PROVE  GrowsOnly(s, t)
  <1>1. Sound(s) /\ Moves(s, t) /\ s.ok /\ s.count \in Nat /\ s.journal \in Nat
    BY SelectionStep DEF Sound, Bounded, SelectionType
  <1>2. CASE t = s
    BY <1>1, <1>2 DEF GrowsOnly
  <1>3. CASE \E r \in AnchorRecord : Extended(t, s, r, Len(anchor))
    BY <1>3 DEF Extended, GrowsOnly
  <1> QED BY <1>1, <1>2, <1>3 DEF Moves

\* verify_anchor_prefix_v24: nothing that is appended, damaged, published or cut
\* makes a chain that was selected fail, or takes a boundary or a closure back.
THEOREM SelectionsOnlyGrow == AnchorSpec => SelectionOnlyGrows
  <1> DEFINE A == LET s == Selection(anchor)
                      next == Selection(anchor)'
                  IN  /\ next.ok
                      /\ s.honoured \subseteq next.honoured
                      /\ s.count <= next.count /\ s.journal <= next.journal
  <1>1. AnchorInv /\ [AnchorNext]_anchorVars => [A]_anchorVars
    <2> SUFFICES ASSUME AnchorInv, AnchorNext PROVE A
      OBVIOUS
    <2>1. PICK s, t : s = Selection(anchor) /\ t = Selection(anchor)'
      OBVIOUS
    <2> QED BY <2>1, MovesGrow DEF GrowsOnly
  <1> QED BY <1>1, AnchorInvariant, PTL DEF AnchorSpec, SelectionOnlyGrows

\* A record that verifies selects no intent of a permit that was adopted without one.
LEMMA MovesAdopt ==
  ASSUME AnchorInv, AnchorNext, NEW s, s = Selection(anchor), NEW t, t = Selection(anchor)',
         NEW c \in s.adopted, ledger[c] \in Ops, ledger[c] \notin s.seen
  PROVE  ledger[c] \notin t.seen
  <1>1. Sound(s) /\ Moves(s, t) /\ s.count \in Nat /\ s.count <= Len(ledger) /\ s.journal \in Nat
    BY SelectionStep DEF Sound, Bounded, SelectionType
  <1>2. c \in 1..s.count /\ Len(ledger) \in Nat
    BY <1>1 DEF Sound, AnchorInv, AnchorType
  <1>3. CASE t = s
    BY <1>3
  <1>4. ASSUME NEW r \in AnchorRecord, ByKind(s, r, Len(anchor)), Extended(t, s, r, Len(anchor))
        PROVE  ledger[c] \notin t.seen
    <2> SUFFICES ASSUME NEW k \in NewIntents(s, r), journal[k].op = ledger[c]
                 PROVE  FALSE
      BY <1>4 DEF Extended
    <2>0. r.kind \in 0..3 /\ r.count \in Nat /\ r.journal \in Nat /\ r.count <= Len(ledger)
      BY <1>1, <1>4, RecordNumbers DEF Extended, Bounded
    <2>1. ASSUME NEW d, d \in (s.count + 1)..r.count, Matches(k, d) PROVE FALSE
      <3>1. d \in 1..Len(ledger) /\ d # c /\ c \in 1..Len(ledger)
        BY <1>1, <1>2, <2>0, <2>1
      <3>2. ledger[d] = ledger[c]
        BY <2>1 DEF Matches
      <3> QED BY <3>1, <3>2 DEF AnchorInv, ConsumedOnce
    <2>2. CASE r.kind = Ordinary
      <3>1. OrdinaryBinds(s, r) /\ r.count \in {s.count, s.count + 1}
        BY <1>4, <2>2 DEF ByKind
      <3>2. r.count # s.count /\ k = r.journal /\ Matches(k, r.count)
        BY <3>1 DEF OrdinaryBinds
      <3>3. r.count \in (s.count + 1)..r.count
        BY <1>1, <2>0, <3>1, <3>2
      <3> QED BY <2>1, <3>2, <3>3
    <2>3. CASE r.kind = FinalRecovery
      <3>1. r.journal = s.journal
        BY <1>4, <2>3 DEF ByKind
      <3> QED BY <1>1, <3>1 DEF NewIntents, Segment
    <2>4. CASE r.kind = Adoption
      <3>1. AdoptionBinds(s, r)
        BY <1>4, <2>4 DEF ByKind
      <3> QED BY <2>1, <3>1 DEF AdoptionBinds
    <2>5. CASE r.kind = ClosureAnchor
      <3>1. ClosureBinds(s, r)
        BY <1>4, <2>5 DEF ByKind
      <3> QED BY <3>1 DEF ClosureBinds
    <2> QED BY <2>0, <2>2, <2>3, <2>4, <2>5 DEF Ordinary, FinalRecovery, Adoption, ClosureAnchor
  <1> QED BY <1>1, <1>3, <1>4 DEF Moves

\* A permit adopted without its operation intent never starts.
THEOREM AdoptionsAreFinal == AnchorSpec => AdoptionIsFinal
  <1> DEFINE A == LET s == Selection(anchor)
                      never == {c \in s.adopted : ledger[c] \in Ops \ s.seen}
                  IN  never # {} => LET next == Selection(anchor)'
                                    IN  \A c \in never : ledger[c] \notin next.seen
  <1>1. AnchorInv /\ [AnchorNext]_anchorVars => [A]_anchorVars
    <2> SUFFICES ASSUME AnchorInv, AnchorNext PROVE A
      OBVIOUS
    <2>1. PICK s, t : s = Selection(anchor) /\ t = Selection(anchor)'
      OBVIOUS
    <2> QED BY <2>1, MovesAdopt
  <1> QED BY <1>1, AnchorInvariant, PTL DEF AnchorSpec, AdoptionIsFinal

-----------------------------------------------------------------------------
(***************************************************************************)
(* Wherever the host and the operator stop.                                *)
(***************************************************************************)

\* The intents with an audit frame, and those of them that do not share their
\* place with another.
Recorded == {i \in Of("journal") : Audits(i, Len(journal)) # {}}
Apart(is) ==
    /\ ParentsDiffer({i \in is : evidence[i].parent # 0})
    /\ \A i, j \in is :
         evidence[i].captured = evidence[j].captured
           /\ evidence[i].frames = evidence[j].frames => i = j

Within == Len(ledger) <= MaxLedger /\ Len(journal) <= MaxJournal /\ Len(evidence) <= MaxEvidence

\* Every intent was published under a prefix of the chain.
UnderTheChain == \A i \in DOMAIN evidence : evidence[i].at <= Len(anchor)

\* The intents of the permits seen are among the selected frames, and the
\* recoveries that are audited behind the selection are apart.
Rests(s) ==
    /\ s.seen \subseteq {journal[k].op : k \in SelectedIntents(s)}
    /\ Apart(Recorded \cap Unaudited(s.journal))

\* When the whole journal is selected, the chain without its last record
\* verifies too, as far as the audited intents go.
RestsBehind(p) ==
    /\ p.ok /\ p.journal \in Nat /\ p.journal <= Len(journal)
    /\ Legal(journal, p.honoured, p.journal)
    /\ \A i \in Recorded : evidence[i].at < Len(anchor)
    /\ Apart(Recorded \cap Unaudited(p.journal))

RetainedRests ==
    \A s \in {Selection(anchor)}, p \in {Selection(Retained(anchor))} :
      /\ Rests(s)
      /\ anchor # <<>> /\ Len(journal) = s.journal => RestsBehind(p)

StopInv == AnchorInv /\ Within /\ UnderTheChain /\ RetainedRests

\* The last of finitely many intents.
LEMMA LastIs ==
  ASSUME NEW n \in Nat, NEW is, is \subseteq 1..n, is # {}
  PROVE  Last(is) \in is /\ \A j \in is : j <= Last(is)
  <1> DEFINE T == {n - i : i \in is}
  <1>1. T \subseteq Nat /\ T # {}
    OBVIOUS
  <1>2. PICK x \in T : \A y \in T : x <= y
    BY <1>1, LeastNat
  <1>3. PICK i \in is : x = n - i
    BY <1>2
  <1>4. \A j \in is : j <= i
    <2> TAKE j \in is
    <2>1. n - j \in T /\ i \in 1..n /\ j \in 1..n
      OBVIOUS
    <2>2. n - i <= n - j
      BY <1>2, <1>3, <2>1
    <2> QED BY <2>1, <2>2
  <1>5. \E l \in is : \A j \in is : j <= l
    BY <1>4
  <1> QED BY <1>5 DEF Last

\* The intents an operator left at the end of the chain are one chain that ends
\* in the last of them.
LEMMA PendingResolves ==
  ASSUME AnchorType, OperatorInOrder, NEW s, s = Selection(anchor), Sound(s),
         NEW is, is = Of("anchor") \ s.resolved, is # {}
  PROVE  is = Boundary(Len(anchor)) /\ Resolves(Last(is), Len(anchor)) /\ Last(is) \in 1..Len(evidence)
  <1>1. Len(evidence) \in Nat /\ Len(anchor) \in Nat /\ DOMAIN evidence = 1..Len(evidence)
    BY DEF AnchorType
  <1>2. \A i \in Of("anchor") :
          /\ i \in s.resolved \/ evidence[i].at = Len(anchor)
          /\ {j \in Boundary(evidence[i].at) : j < i} = {} => evidence[i].parent = 0
          /\ {j \in Boundary(evidence[i].at) : j < i} # {} =>
               /\ evidence[i].parent = Last({j \in Boundary(evidence[i].at) : j < i})
               /\ evidence[i].captured = Last({j \in Boundary(evidence[i].at) : j < i})
    BY DEF OperatorInOrder
  <1>3. is = Boundary(Len(anchor))
    <2>1. \A i \in s.resolved : i \in Of("anchor") /\ evidence[i].at # Len(anchor)
      <3> TAKE i \in s.resolved
      <3>1. i \in Of("anchor") /\ evidence[i].at < Len(anchor)
        BY DEF Sound
      <3>2. evidence[i] \in IntentType
        BY <1>1, <3>1 DEF Of, AnchorType
      <3> QED BY <1>1, <3>1, <3>2 DEF IntentType
    <2> QED BY <1>2, <2>1 DEF Boundary
  <1>4. is \subseteq 1..Len(evidence)
    BY <1>1 DEF Of
  <1> DEFINE before(i) == {j \in is : j < i}
  <1>5. \A i \in is :
          /\ before(i) = {} => evidence[i].parent = 0
          /\ before(i) # {} =>
               evidence[i].parent = Last(before(i)) /\ evidence[i].captured = Last(before(i))
    BY <1>2, <1>3 DEF Boundary
  <1>6. \A i \in is : before(i) # {} =>
          Last(before(i)) \in is /\ Last(before(i)) < i /\ \A j \in before(i) : j <= Last(before(i))
    <2> TAKE i \in is
    <2> HAVE before(i) # {}
    <2>1. before(i) \subseteq 1..Len(evidence)
      BY <1>4
    <2> QED BY <1>1, <2>1, LastIs
  <1>7. Last(is) \in is /\ \A j \in is : j <= Last(is)
    BY <1>1, <1>4, LastIs
  <1>8. \A i, j \in is : i < j => evidence[i].parent < i /\ i <= evidence[j].parent
    <2> TAKE i, j \in is
    <2> HAVE i < j
    <2>1. i \in before(j) /\ i \in Nat /\ j \in Nat /\ 0 < i
      BY <1>4
    <2>2. i <= evidence[j].parent
      BY <1>5, <1>6, <2>1
    <2>3. evidence[i].parent < i
      <3>1. CASE before(i) = {}
        BY <1>5, <2>1, <3>1
      <3>2. CASE before(i) # {}
        BY <1>5, <1>6, <3>2
      <3> QED BY <3>1, <3>2
    <2> QED BY <2>2, <2>3
  <1>9. ParentsDiffer(is)
    <2> SUFFICES ASSUME NEW i \in is, NEW j \in is, evidence[i].parent = evidence[j].parent, i # j
                 PROVE  FALSE
      BY DEF ParentsDiffer
    <2>1. i \in Nat /\ j \in Nat /\ evidence[i].parent \in Nat /\ evidence[j].parent \in Nat
      <3>1. evidence[i] \in IntentType /\ evidence[j] \in IntentType
        BY <1>4 DEF AnchorType
      <3> QED BY <1>4, <3>1 DEF IntentType
    <2>2. CASE i < j
      BY <1>8, <2>1, <2>2
    <2>3. CASE j < i
      BY <1>8, <2>1, <2>3
    <2> QED BY <2>1, <2>2, <2>3
  <1>10. ASSUME NEW i \in is
         PROVE  /\ evidence[i].parent \in (is \cup {0}) \ {Last(is)}
                /\ evidence[i].parent # 0 => evidence[i].captured = evidence[i].parent
    <2>0. Last(is) \in 1..Len(evidence) /\ i \in 1..Len(evidence) /\ i <= Last(is)
      BY <1>4, <1>7
    <2>1. CASE before(i) = {}
      <3>1. evidence[i].parent = 0
        BY <1>5, <2>1
      <3>2. Last(is) # 0
        BY <1>1, <2>0
      <3> QED BY <3>1, <3>2
    <2>2. CASE before(i) # {}
      <3> DEFINE l == Last(before(i))
      <3>1. l \in is /\ l < i /\ evidence[i].parent = l /\ evidence[i].captured = l
        BY <1>5, <1>6, <2>2
      <3> HIDE DEF l
      <3>2. l \in 1..Len(evidence)
        BY <1>4, <3>1
      <3> QED BY <1>1, <2>0, <3>1, <3>2
    <2> QED BY <2>1, <2>2
  <1> QED BY <1>3, <1>4, <1>7, <1>9, <1>10 DEF Resolves

\* What the files must show of a chain's selection for the chain to verify.
Fits(t, n) ==
    /\ t.ok /\ t.journal \in Nat /\ t.journal <= Len(journal)
    /\ \A i \in Of("journal") : evidence[i].at \in 0..n
    /\ Apart(Recorded \cap Unaudited(t.journal))
    /\ Legal(journal, t.honoured, t.journal)

\* Every intent of the journal is audited once when the operator is in order.
LEMMA AllRecorded ==
  ASSUME AnchorType, OperatorInOrder
  PROVE  /\ Recorded = Of("journal") /\ Unaudited(Len(journal)) = {}
         /\ \A m \in Nat : m <= Len(journal) =>
              \A i \in Of("journal") : \A j, k \in Audits(i, m) : j = k
  <1>1. \A i \in Of("journal") : \E k \in 1..Len(journal) : Audits(i, Len(journal)) = {k}
    BY DEF OperatorInOrder
  <1>2. Recorded = Of("journal") /\ Unaudited(Len(journal)) = {}
    BY <1>1 DEF Recorded, Unaudited
  <1>3. ASSUME NEW m \in Nat, m <= Len(journal), NEW i \in Of("journal"),
               NEW j \in Audits(i, m), NEW k \in Audits(i, m)
        PROVE  j = k
    <2>1. Len(journal) \in Nat
      BY DEF AnchorType
    <2>2. j \in Audits(i, Len(journal)) /\ k \in Audits(i, Len(journal))
      BY <1>3, <2>1 DEF Audits
    <2> QED BY <1>1, <2>2
  <1> QED BY <1>2, <1>3

\* The verifier takes a chain whose selection fits.
LEMMA FitsVerifies ==
  ASSUME AnchorType, OperatorInOrder, NEW a, NEW t, t = Selection(a), Fits(t, Len(a))
  PROVE  Verified(a)
  <1>1. \A i \in Of("journal") : evidence[i].at \in 0..Len(a) /\ \A j, k \in Audits(i, t.journal) : j = k
    BY AllRecorded DEF Fits
  <1>2. Recorded \cap Unaudited(t.journal) = Unaudited(t.journal)
    BY AllRecorded DEF Unaudited
  <1>3. JournalIntentsBind(0..Len(a), t.journal)
    BY <1>1, <1>2 DEF Fits, Apart, JournalIntentsBind
  <1> QED BY <1>3 DEF Verified, Fits

\* The record of a completion, as the host would anchor it.
AnchorOf(kind, count, at, event) ==
    [kind |-> kind, count |-> count, journal |-> at, event |-> event]

LEMMA AnchorOfType ==
  ASSUME NEW kind \in 0..3, NEW count \in 0..MaxLedger, NEW at \in 0..MaxJournal,
         NEW event \in 0..(MaxJournal + MaxEvidence)
  PROVE  /\ AnchorOf(kind, count, at, event) \in AnchorRecord
         /\ AnchorOf(kind, count, at, event).kind = kind
         /\ AnchorOf(kind, count, at, event).count = count
         /\ AnchorOf(kind, count, at, event).journal = at
         /\ AnchorOf(kind, count, at, event).event = event
  BY DEF AnchorOf, AnchorRecord

\* What the anchor has in common with itself and the commitment of its damage.
Repaired(a, t, s) ==
    /\ a \in Seq(AnchorRecord) /\ Len(anchor) <= Len(a) /\ t = Selection(a)
    /\ Bounded(t) /\ t.ok /\ t.count = s.count /\ t.journal = s.journal
    /\ t.seen = s.seen /\ t.honoured = s.honoured
    /\ Of("anchor") \subseteq t.resolved

\* The commitment to the last intent at the end of the chain verifies.
LEMMA CommitmentBinds ==
  ASSUME StopInv, OperatorInOrder, NEW s, s = Selection(anchor),
         Of("anchor") \ s.resolved # {},
         NEW r, r = AnchorOf(FinalRecovery, s.count, s.journal, Last(Of("anchor") \ s.resolved))
  PROVE  r \in AnchorRecord /\ Repaired(Append(anchor, r), Selection(Append(anchor, r)), s)
  <1>1. AnchorType /\ Sound(s) /\ Bounded(s) /\ s.ok /\ s.count \in Nat /\ s.journal \in Nat
        /\ s.count <= Len(ledger) /\ s.journal <= Len(journal)
    BY DEF StopInv, AnchorInv, SelectionIsSound, Sound, Bounded, SelectionType
  <1>2. /\ Len(ledger) \in Nat /\ Len(journal) \in Nat /\ Len(evidence) \in Nat
        /\ MaxLedger \in Nat /\ MaxJournal \in Nat /\ MaxEvidence \in Nat
        /\ Len(ledger) <= MaxLedger /\ Len(journal) <= MaxJournal /\ Len(evidence) <= MaxEvidence
    BY <1>1, AnchorBoundsAssumption DEF AnchorType, StopInv, Within
  <1> DEFINE is == Of("anchor") \ s.resolved
  <1>3. is = Boundary(Len(anchor)) /\ Resolves(Last(is), Len(anchor)) /\ Last(is) \in 1..Len(evidence)
    BY <1>1, PendingResolves
  <1>4. PICK l : l = Last(is)
    OBVIOUS
  <1>5. /\ FinalRecovery \in 0..3 /\ s.count \in 0..MaxLedger /\ s.journal \in 0..MaxJournal
        /\ l \in 0..(MaxJournal + MaxEvidence)
    BY <1>1, <1>2, <1>3, <1>4 DEF FinalRecovery
  <1>6. r \in AnchorRecord /\ r.kind = FinalRecovery /\ r.count = s.count
        /\ r.journal = s.journal /\ r.event = l
    BY <1>4, <1>5, AnchorOfType
  <1>7. NewIntents(s, r) = {}
    BY <1>1, <1>6 DEF NewIntents, Segment
  <1>8. ByKind(s, r, Len(anchor))
    <2>1. Resolves(r.event, Len(anchor)) /\ IntentsAreNew(s, r)
      BY <1>3, <1>4, <1>6, <1>7 DEF IntentsAreNew
    <2>2. s.ok /\ s.journal <= r.journal /\ r.journal <= Len(journal)
      BY <1>1, <1>6
    <2> QED BY <1>6, <2>1, <2>2 DEF ByKind, Ordinary, FinalRecovery, Adoption, ClosureAnchor
  <1>9. Binds(s, r, Len(anchor))
    BY <1>1, <1>6, <1>8, BindsByKind DEF KindsDecide
  <1> DEFINE t == Selection(Append(anchor, r))
  <1>10. t = Successor(s, r, Len(anchor))
    BY <1>1, <1>6, <1>9, SelectionAppend DEF AnchorType
  <1>11. Extended(t, s, r, Len(anchor))
    BY <1>1, <1>6, <1>9, <1>10, SuccessorFields
  <1> HIDE DEF t
  <1>12. Append(anchor, r) \in Seq(AnchorRecord) /\ Len(anchor) <= Len(Append(anchor, r))
    BY <1>1, <1>6, AppendedLast DEF AnchorType
  <1>13. t.seen = s.seen /\ t.honoured = s.honoured /\ t.resolved = s.resolved \cup is
    BY <1>3, <1>6, <1>7, <1>11 DEF Extended, FinalRecovery, ClosureAnchor
  <1>14. Of("anchor") \subseteq t.resolved
    BY <1>13
  <1>15. Repaired(Append(anchor, r), t, s)
    BY <1>6, <1>11, <1>12, <1>13, <1>14 DEF Repaired, Extended, t
  <1> QED BY <1>6, <1>15 DEF t

\* Before the first frame past a selection no intent of its permits is late.
LEMMA LateIntentsAreNew ==
  ASSUME StopInv, NEW s, s = Selection(anchor), Legal(journal, s.honoured, s.journal),
         NEW k \in (s.journal + 1)..Len(journal), journal[k].kind = "operation-intent"
  PROVE  /\ journal[k].op \notin s.seen
         /\ \A j \in 1..Len(journal) :
              journal[j].kind = "operation-intent" /\ journal[j].op = journal[k].op => j = k
  <1>1. /\ AuditsFollow /\ s.journal \in Nat /\ Len(journal) \in Nat /\ s.journal <= Len(journal)
        /\ s.seen \subseteq {journal[j].op : j \in SelectedIntents(s)}
    BY DEF StopInv, AnchorInv, AnchorType, SelectionIsSound, Sound, Bounded, SelectionType,
           RetainedRests, Rests
  <1>2. k \in 1..Len(journal) /\ s.journal < k
    BY <1>1
  <1>3. journal[k].op \in Ops
    BY <1>1, <1>2 DEF AuditsFollow
  <1>4. OneLife(journal, s.honoured, journal[k].op)
    BY <1>3 DEF Legal
  <1>5. ASSUME NEW j \in 1..Len(journal), journal[j].kind = "operation-intent",
               journal[j].op = journal[k].op
        PROVE  j = k
    <2>1. j \in Intent(journal, journal[k].op) /\ k \in Intent(journal, journal[k].op)
      BY <1>2, <1>5 DEF Intent, Events
    <2> QED BY <1>4, <2>1 DEF OneLife
  <1>6. ASSUME journal[k].op \in s.seen PROVE FALSE
    <2>1. PICK j \in SelectedIntents(s) : journal[j].op = journal[k].op
      BY <1>1, <1>6
    <2>2. j \in 1..s.journal /\ journal[j].kind = "operation-intent"
      BY <2>1 DEF SelectedIntents
    <2>3. j \in 1..Len(journal) /\ j < k
      BY <1>1, <1>2, <2>2
    <2> QED BY <1>2, <1>5, <2>1, <2>2, <2>3
  <1> QED BY <1>5, <1>6

\* The record that takes the rest of the files into a repaired chain.
RestOf(t) ==
    IF Len(ledger) > t.count THEN AnchorOf(Adoption, Len(ledger), Len(journal), 0)
    ELSE AnchorOf(Ordinary, t.count, Len(journal), 0)

\* An adoption of the rows of the host that stopped, or an advance over its
\* frames, verifies on a repaired chain and leaves nothing open.
LEMMA RestBinds ==
  ASSUME StopInv, HostInOrder, OperatorInOrder, NEW s, s = Selection(anchor),
         NEW a, NEW t, Repaired(a, t, s), NEW r, r = RestOf(s),
         Len(ledger) > s.count \/ Len(journal) > s.journal
  PROVE  /\ r \in AnchorRecord /\ Append(a, r) \in Seq(AnchorRecord)
         /\ Fits(Selection(Append(a, r)), Len(Append(a, r)))
         /\ NonePending(Selection(Append(a, r)))
         /\ Selection(Append(a, r)).count = Len(ledger)
  <1>1. AnchorType /\ Sound(s) /\ Bounded(s) /\ s.ok /\ s.count \in Nat /\ s.journal \in Nat
        /\ s.count <= Len(ledger) /\ s.journal <= Len(journal)
    BY DEF StopInv, AnchorInv, SelectionIsSound, Sound, Bounded, SelectionType
  <1>2. /\ Len(ledger) \in Nat /\ Len(journal) \in Nat /\ Len(anchor) \in Nat
        /\ MaxLedger \in Nat /\ MaxJournal \in Nat /\ MaxEvidence \in Nat
        /\ Len(ledger) <= MaxLedger /\ Len(journal) <= MaxJournal
    BY <1>1, AnchorBoundsAssumption DEF AnchorType, StopInv, Within
  <1>3. /\ a \in Seq(AnchorRecord) /\ Len(anchor) <= Len(a) /\ t = Selection(a) /\ t.ok /\ Bounded(t)
        /\ t.count = s.count /\ t.journal = s.journal /\ t.seen = s.seen
        /\ t.honoured = s.honoured /\ Of("anchor") \subseteq t.resolved
    BY DEF Repaired
  <1>4. /\ Legal(journal, s.honoured, s.journal)
        /\ \A k \in (s.journal + 1)..Len(journal) : journal[k].kind = "operation-intent" =>
             \E c \in (s.count + 1)..Len(ledger) : Matches(k, c)
    BY DEF HostInOrder, Replays
  <1>5. r \in AnchorRecord /\ r.journal = Len(journal) /\ r.event = 0 /\ r.count = Len(ledger)
        /\ r.kind = IF Len(ledger) > s.count THEN Adoption ELSE Ordinary
    <2>1. Len(ledger) \in 0..MaxLedger /\ s.count \in 0..MaxLedger /\ Len(journal) \in 0..MaxJournal
          /\ 0 \in 0..(MaxJournal + MaxEvidence) /\ Adoption \in 0..3 /\ Ordinary \in 0..3
      BY <1>1, <1>2 DEF Adoption, Ordinary
    <2>2. CASE Len(ledger) > s.count
      <3>1. r = AnchorOf(Adoption, Len(ledger), Len(journal), 0)
        BY <2>2 DEF RestOf
      <3> QED BY <2>1, <2>2, <3>1, AnchorOfType
    <2>3. CASE ~ (Len(ledger) > s.count)
      <3>1. s.count = Len(ledger)
        BY <1>1, <1>2, <2>3
      <3>2. r = AnchorOf(Ordinary, s.count, Len(journal), 0)
        BY <2>3 DEF RestOf
      <3> QED BY <2>1, <2>3, <3>1, <3>2, AnchorOfType
    <2> QED BY <2>2, <2>3
  <1>6. NewIntents(t, r) =
          {k \in (s.journal + 1)..Len(journal) : journal[k].kind = "operation-intent"}
    BY <1>3, <1>5 DEF NewIntents, Segment
  <1>7. IntentsAreNew(t, r)
    <2>1. ASSUME NEW k \in NewIntents(t, r)
          PROVE  /\ k \in (s.journal + 1)..Len(journal) /\ journal[k].kind = "operation-intent"
                 /\ k \in 1..Len(journal)
      BY <1>1, <1>2, <1>6
    <2>2. \A k \in NewIntents(t, r) : journal[k].op \notin t.seen
      BY <1>3, <1>4, <2>1, LateIntentsAreNew
    <2>3. ASSUME NEW j \in NewIntents(t, r), NEW k \in NewIntents(t, r), journal[j].op = journal[k].op
          PROVE  j = k
      BY <1>4, <2>1, <2>3, LateIntentsAreNew
    <2> QED BY <2>2, <2>3 DEF IntentsAreNew
  <1>8. ByKind(t, r, Len(a))
    <2>1. t.ok /\ t.journal <= r.journal /\ r.journal <= Len(journal) /\ IntentsAreNew(t, r)
      BY <1>1, <1>2, <1>3, <1>5, <1>7
    <2>2. CASE Len(ledger) > s.count
      <3>1. AdoptionBinds(t, r)
        BY <1>3, <1>4, <1>5, <1>6 DEF AdoptionBinds
      <3>2. r.kind = Adoption /\ r.count > t.count /\ r.count <= Len(ledger)
        BY <1>2, <1>3, <1>5, <2>2
      <3> QED BY <2>1, <3>1, <3>2 DEF ByKind, Ordinary, FinalRecovery, Adoption, ClosureAnchor
    <2>3. CASE ~ (Len(ledger) > s.count)
      <3>1. s.count = Len(ledger) /\ (s.count + 1)..Len(ledger) = {}
        BY <1>1, <1>2, <2>3
      <3>2. NewIntents(t, r) = {}
        BY <1>4, <1>6, <3>1
      <3>3. r.kind = Ordinary /\ r.count = t.count /\ OrdinaryBinds(t, r)
        BY <1>3, <1>5, <2>3, <3>1, <3>2 DEF OrdinaryBinds
      <3>4. r.journal # t.journal
        BY <1>1, <1>2, <1>3, <1>5, <2>3
      <3> QED BY <2>1, <3>3, <3>4 DEF ByKind, Ordinary, FinalRecovery, Adoption, ClosureAnchor
    <2> QED BY <2>2, <2>3
  <1>9. Binds(t, r, Len(a))
    BY <1>1, <1>3, <1>5, <1>8, BindsByKind DEF KindsDecide
  <1> DEFINE u == Selection(Append(a, r))
  <1>10. u = Successor(t, r, Len(a))
    BY <1>3, <1>5, <1>9, SelectionAppend
  <1>11. Extended(u, t, r, Len(a))
    BY <1>1, <1>3, <1>5, <1>9, <1>10, SuccessorFields
  <1> HIDE DEF u
  <1>12. /\ u.ok /\ u.count = Len(ledger) /\ u.journal = Len(journal)
         /\ u.honoured = s.honoured /\ u.resolved = t.resolved
    <2>1. r.kind # ClosureAnchor /\ r.kind # FinalRecovery
      BY <1>5 DEF Ordinary, FinalRecovery, Adoption, ClosureAnchor
    <2> QED BY <1>3, <1>5, <1>11, <2>1 DEF Extended
  <1>13. Append(a, r) \in Seq(AnchorRecord) /\ Len(Append(a, r)) = Len(a) + 1 /\ Len(a) \in Nat
    BY <1>3, <1>5, AppendedLast
  <1>14. Recorded = Of("journal") /\ Unaudited(Len(journal)) = {}
    BY <1>1, AllRecorded
  <1>15. Fits(u, Len(Append(a, r)))
    <2>1. \A i \in Of("journal") : evidence[i].at \in 0..Len(Append(a, r))
      <3> TAKE i \in Of("journal")
      <3>1. evidence[i] \in IntentType /\ evidence[i].at <= Len(anchor)
        BY <1>1 DEF Of, AnchorType, StopInv, UnderTheChain
      <3>2. evidence[i].at \in Nat
        BY <3>1 DEF IntentType
      <3> QED BY <1>2, <1>3, <1>13, <3>1, <3>2
    <2>2. Apart(Recorded \cap Unaudited(u.journal))
      BY <1>12, <1>14 DEF Apart, ParentsDiffer
    <2>3. Legal(journal, u.honoured, u.journal)
      <3>1. \A o \in Ops : \A k \in ClosuresOf(journal, o) \cap u.honoured : k <= Len(journal)
        BY <1>2 DEF ClosuresOf, Events
      <3> QED BY <1>4, <1>12, <3>1 DEF Legal
    <2> QED BY <1>2, <1>12, <2>1, <2>2, <2>3 DEF Fits
  <1>16. NonePending(u)
    BY <1>3, <1>12, <1>14 DEF NonePending
  <1> QED BY <1>5, <1>12, <1>13, <1>15, <1>16 DEF u

\* The chain with the commitment of its damage.
RepairOf(s) ==
    IF Of("anchor") \ s.resolved = {} THEN anchor
    ELSE Append(anchor, AnchorOf(FinalRecovery, s.count, s.journal, Last(Of("anchor") \ s.resolved)))

\* A completion repairs the anchor and takes the rest of the files into it.
LEMMA CompletedIs ==
  ASSUME NEW s, s = Selection(anchor), RepairOf(s) \in Seq(AnchorRecord)
  PROVE  Completed = IF Len(ledger) > s.count \/ Len(journal) > s.journal
                     THEN Append(RepairOf(s), RestOf(s)) ELSE RepairOf(s)
  <1>1. Completed = RepairOf(s) \o (IF Len(ledger) > s.count
                                    THEN <<AnchorOf(Adoption, Len(ledger), Len(journal), 0)>>
                                    ELSE IF Len(journal) > s.journal
                                    THEN <<AnchorOf(Ordinary, s.count, Len(journal), 0)>>
                                    ELSE <<>>)
    BY DEF Completed, AnchorOf, RepairOf
  <1>2. PICK a \in Seq(AnchorRecord) : a = RepairOf(s)
    OBVIOUS
  <1>3. a \o <<>> = a /\ \A r : a \o <<r>> = Append(a, r)
    OBVIOUS
  <1>4. PICK q, r : /\ q = AnchorOf(Adoption, Len(ledger), Len(journal), 0)
                    /\ r = AnchorOf(Ordinary, s.count, Len(journal), 0)
    OBVIOUS
  <1>5. Completed = a \o (IF Len(ledger) > s.count THEN <<q>>
                          ELSE IF Len(journal) > s.journal THEN <<r>> ELSE <<>>)
    BY <1>1, <1>2, <1>4
  <1>6. RestOf(s) = IF Len(ledger) > s.count THEN q ELSE r
    BY <1>4 DEF RestOf
  <1> QED BY ONLY <1>2, <1>3, <1>5, <1>6

\* A chain without its last record.
LEMMA RetainedAppend ==
  ASSUME NEW S, NEW a \in Seq(S), NEW e \in S
  PROVE  Retained(Append(a, e)) = a
  <1>1. Append(a, e) \in Seq(S) /\ Len(Append(a, e)) = Len(a) + 1 /\ Len(a) \in Nat
        /\ \A k \in 1..Len(a) : Append(a, e)[k] = a[k]
    OBVIOUS
  <1>2. Append(a, e) # <<>> /\ Len(Append(a, e)) - 1 = Len(a)
    <2>1. Len(<<>>) = 0 /\ Len(Append(a, e)) # 0
      BY <1>1
    <2> QED BY <1>1, <2>1
  <1>3. SubSeq(Append(a, e), 1, Len(a)) = a
    BY <1>1
  <1> QED BY <1>2, <1>3 DEF Retained

LEMMA StopInvIsRecoverable == StopInv => StopIsRecoverable
  <1> SUFFICES ASSUME StopInv, HostInOrder, OperatorInOrder
               PROVE  /\ Verified(Completed) /\ Verified(Retained(Completed))
                      /\ NonePending(Selection(Completed))
                      /\ Selection(Completed).count = Len(ledger)
    BY DEF StopIsRecoverable
  <1>1. PICK s : s = Selection(anchor)
    OBVIOUS
  <1>2. AnchorType /\ Sound(s) /\ Bounded(s) /\ s.ok /\ s.count \in Nat /\ s.journal \in Nat
        /\ s.count <= Len(ledger) /\ s.journal <= Len(journal)
        /\ anchor \in Seq(AnchorRecord) /\ Len(anchor) \in Nat
        /\ Len(ledger) \in Nat /\ Len(journal) \in Nat
    <2>1. AnchorType /\ Sound(s)
      BY <1>1 DEF StopInv, AnchorInv, SelectionIsSound
    <2>2. s.ok /\ Bounded(s)
      BY <2>1 DEF Sound
    <2>3. s.count \in Nat /\ s.journal \in Nat /\ s.count <= Len(ledger) /\ s.journal <= Len(journal)
      BY <2>2 DEF Bounded, SelectionType
    <2>4. anchor \in Seq(AnchorRecord) /\ ledger \in Seq(Row) /\ journal \in Seq(FrameType)
      BY <2>1 DEF AnchorType
    <2>5. Len(anchor) \in Nat /\ Len(ledger) \in Nat /\ Len(journal) \in Nat
      BY <2>4
    <2> QED BY <2>1, <2>2, <2>3, <2>4, <2>5
  <1>3. Legal(journal, s.honoured, s.journal)
    BY <1>1 DEF HostInOrder, Replays
  <1>4. \A i \in Of("journal") : evidence[i].at \in 0..Len(anchor)
    <2> TAKE i \in Of("journal")
    <2>1. evidence[i] \in IntentType /\ evidence[i].at <= Len(anchor)
      BY <1>2 DEF Of, AnchorType, StopInv, UnderTheChain
    <2> QED BY <1>2, <2>1 DEF IntentType
  <1>5. Rests(s) /\ (anchor # <<>> /\ Len(journal) = s.journal => RestsBehind(Selection(Retained(anchor))))
    BY <1>1 DEF StopInv, RetainedRests
  <1> DEFINE pending == Of("anchor") \ s.resolved
             c == AnchorOf(FinalRecovery, s.count, s.journal, Last(pending))
             a == RepairOf(s)
  <1>6. Repaired(a, Selection(a), s)
    <2>1. CASE pending = {}
      BY <1>1, <1>2, <2>1 DEF Repaired, RepairOf
    <2>2. CASE pending # {}
      BY <1>1, <2>2, CommitmentBinds DEF RepairOf
    <2> QED BY <2>1, <2>2
  <1>7. pending # {} => c \in AnchorRecord
    BY <1>1, CommitmentBinds
  <1> HIDE DEF c
  <1>8. PICK t : t = Selection(a)
    OBVIOUS
  <1>9. /\ a \in Seq(AnchorRecord) /\ Len(anchor) <= Len(a) /\ Len(a) \in Nat
        /\ t.ok /\ t.count = s.count /\ t.journal = s.journal /\ t.honoured = s.honoured
        /\ Of("anchor") \subseteq t.resolved
    BY <1>6, <1>8 DEF Repaired
  <1>10. Fits(t, Len(a)) /\ Fits(s, Len(anchor))
    BY <1>2, <1>3, <1>4, <1>5, <1>9 DEF Fits, Rests
  <1>11. Verified(a) /\ Verified(anchor)
    BY <1>1, <1>2, <1>8, <1>10, FitsVerifies
  <1>12. Completed = IF Len(ledger) > s.count \/ Len(journal) > s.journal
                     THEN Append(a, RestOf(s)) ELSE a
    BY <1>1, <1>9, CompletedIs
  <1> HIDE DEF a
  <1>13. CASE Len(ledger) > s.count \/ Len(journal) > s.journal
    <2>1. PICK r : r = RestOf(s)
      OBVIOUS
    <2>2. Completed = Append(a, r)
      BY <1>12, <1>13, <2>1
    <2>3. /\ r \in AnchorRecord /\ Append(a, r) \in Seq(AnchorRecord)
          /\ Fits(Selection(Append(a, r)), Len(Append(a, r)))
          /\ NonePending(Selection(Append(a, r)))
          /\ Selection(Append(a, r)).count = Len(ledger)
      BY <1>1, <1>6, <1>13, <2>1, RestBinds
    <2>4. Verified(Append(a, r))
      BY <1>2, <2>3, FitsVerifies
    <2>5. Retained(Append(a, r)) = a
      BY <1>9, <2>3, RetainedAppend
    <2> QED BY <1>11, <2>2, <2>3, <2>4, <2>5
  <1>14. CASE ~ (Len(ledger) > s.count \/ Len(journal) > s.journal)
    <2>1. Completed = a /\ Len(ledger) = s.count /\ Len(journal) = s.journal
      BY <1>2, <1>12, <1>14
    <2>2. Unaudited(Len(journal)) = {}
      BY <1>2, AllRecorded
    <2>3. NonePending(t) /\ t.count = Len(ledger)
      BY <1>9, <2>1, <2>2 DEF NonePending
    <2>4. Verified(Retained(a))
      <3>1. CASE pending # {}
        BY <1>2, <1>7, <1>11, <3>1, RetainedAppend DEF a, c, RepairOf
      <3>2. CASE pending = {} /\ anchor = <<>>
        BY <1>11, <3>2 DEF a, RepairOf, Retained
      <3>3. CASE pending = {} /\ anchor # <<>>
        <4>1. PICK p : p = Selection(Retained(anchor))
          OBVIOUS
        <4>2. RestsBehind(p)
          BY <1>5, <2>1, <3>3, <4>1
        <4>3. Len(Retained(anchor)) = Len(anchor) - 1 /\ Len(anchor) > 0
          <5>1. Len(anchor) > 0 /\ Retained(anchor) = SubSeq(anchor, 1, Len(anchor) - 1)
            BY <1>2, <3>3 DEF Retained
          <5>2. \A n \in Nat : n <= Len(anchor) => Len(SubSeq(anchor, 1, n)) = n
            BY <1>2
          <5>3. Len(anchor) - 1 \in Nat /\ Len(anchor) - 1 <= Len(anchor)
            BY <1>2, <5>1
          <5> QED BY <5>1, <5>2, <5>3
        <4>4. \A i \in Of("journal") : evidence[i].at \in 0..Len(Retained(anchor))
          <5> TAKE i \in Of("journal")
          <5>1. evidence[i].at < Len(anchor)
            BY <1>2, <4>2, AllRecorded DEF RestsBehind
          <5> QED BY <1>2, <1>4, <4>3, <5>1
        <4>5. Fits(p, Len(Retained(anchor)))
          BY <4>2, <4>4 DEF RestsBehind, Fits
        <4>6. Verified(Retained(anchor))
          BY <1>2, <4>1, <4>5, FitsVerifies
        <4> QED BY <3>3, <4>6 DEF a, RepairOf
      <3> QED BY <3>1, <3>2, <3>3
    <2> QED BY <1>8, <1>11, <2>1, <2>3, <2>4
  <1> QED BY <1>13, <1>14

-----------------------------------------------------------------------------
(* The invariant of the stops.                                             *)

LEMMA StopInvInit == AnchorInit => StopInv
  <1> SUFFICES ASSUME AnchorInit PROVE StopInv
    OBVIOUS
  <1>1. AnchorInv
    BY AnchorInvInit
  <1>2. /\ ledger = <<>> /\ journal = <<>> /\ anchor = <<>> /\ evidence = <<>>
        /\ Len(ledger) = 0 /\ Len(journal) = 0 /\ Len(evidence) = 0
    BY DEF AnchorInit
  <1>3. Within /\ UnderTheChain
    BY <1>2, AnchorBoundsAssumption DEF Within, UnderTheChain
  <1>4. Selection(anchor) = Genesis
    <2>1. Len(anchor) = 0 /\ anchor \in Seq(AnchorRecord)
      BY <1>2
    <2> QED BY <2>1, SelectionChains DEF Chains, Chained
  <1>5. Of("journal") = {} /\ Recorded = {}
    BY <1>2 DEF Recorded, Of
  <1>6. Rests(Genesis)
    BY <1>5 DEF Rests, Genesis, Apart, ParentsDiffer
  <1> QED BY <1>1, <1>2, <1>3, <1>4, <1>6 DEF StopInv, RetainedRests

\* The files stay within their bounds, and an intent is published under the
\* chain as it is.
LEMMA WithinStep ==
  ASSUME AnchorType, Within, UnderTheChain, AnchorNext
  PROVE  Within' /\ UnderTheChain'
  <1>1. AnchorType' /\ Grows
    BY AnchorTypeStep
  <1>2. /\ ledger \in Seq(Row) /\ journal \in Seq(FrameType) /\ evidence \in Seq(IntentType)
        /\ Len(ledger) \in Nat /\ Len(journal) \in Nat /\ Len(evidence) \in Nat
    BY DEF AnchorType
  <1>3. MaxLedger \in Nat /\ MaxJournal \in Nat /\ MaxEvidence \in Nat
    BY AnchorBoundsAssumption
  <1>4. \/ ledger' = ledger
        \/ Len(ledger) < MaxLedger /\ \E o \in Row : ledger' = Append(ledger, o)
    BY DEF AnchorNext, Consume, RecoverLedger, AppendFrame, AppendAnchor, TearAnchor,
           TearJournal, PublishIntent, CutTail, CutJournal, files, Row
  <1>5. Len(ledger') <= MaxLedger
    BY <1>2, <1>3, <1>4, AppendedLast DEF Within
  <1>6. journal' = journal \/ (Len(journal) < MaxJournal /\ \E e : journal' = Append(journal, e))
    BY DEF AnchorNext, Consume, RecoverLedger, AppendFrame, AppendAnchor, TearAnchor,
           TearJournal, PublishIntent, CutTail, CutJournal, files
  <1>7. Len(journal') <= MaxJournal
    BY <1>2, <1>3, <1>6 DEF Within
  <1>8. evidence' = evidence \/ (Len(evidence) < MaxEvidence /\ \E e : evidence' = Append(evidence, e))
    BY DEF AnchorNext, Consume, RecoverLedger, AppendFrame, AppendAnchor, TearAnchor,
           TearJournal, PublishIntent, CutTail, CutJournal, files
  <1>9. Len(evidence') <= MaxEvidence
    BY <1>2, <1>3, <1>8 DEF Within
  <1>10. ASSUME NEW i \in DOMAIN evidence' PROVE evidence'[i].at <= Len(anchor')
    <2>1. /\ Len(anchor) \in Nat /\ Len(anchor') \in Nat /\ Len(anchor) <= Len(anchor')
          /\ i \in 1..Len(evidence') /\ evidence'[i] \in IntentType
      BY <1>1 DEF AnchorType, Grows
    <2>2. evidence'[i].at \in Nat
      BY <2>1 DEF IntentType
    <2>3. CASE i > Len(evidence)
      BY <1>1, <2>1, <2>2, <2>3 DEF Grows
    <2>4. CASE ~ (i > Len(evidence))
      <3>1. i \in 1..Len(evidence) /\ DOMAIN evidence = 1..Len(evidence)
        BY <1>2, <2>1, <2>4
      <3>2. evidence'[i] = evidence[i] /\ evidence[i].at <= Len(anchor)
        BY <1>1, <3>1 DEF Grows, UnderTheChain
      <3> QED BY <2>1, <2>2, <3>2
    <2> QED BY <2>3, <2>4
  <1> QED BY <1>5, <1>7, <1>9, <1>10 DEF Within, UnderTheChain

\* Fewer intents are apart when more are.
LEMMA ApartOf == \A is, js : is \subseteq js /\ Apart(js) => Apart(is)
  BY DEF Apart, ParentsDiffer

\* Nothing that a chain rests on changes when no file does but the ledger.
LEMMA RestsSame ==
  ASSUME UNCHANGED <<journal, evidence, anchor>>
  PROVE  \A s : /\ Rests(s) => Rests(s)'
                /\ RestsBehind(s) => RestsBehind(s)'
  <1> SUFFICES ASSUME NEW s PROVE (Rests(s) => Rests(s)') /\ (RestsBehind(s) => RestsBehind(s)')
    OBVIOUS
  <1>1. Recorded' = Recorded /\ Unaudited(s.journal)' = Unaudited(s.journal)
    BY DEF Recorded, Unaudited, Audits, Of
  <1>2. \A is : Apart(is)' <=> Apart(is)
    BY DEF Apart, ParentsDiffer
  <1>3. SelectedIntents(s)' = SelectedIntents(s)
    BY DEF SelectedIntents
  <1>4. Rests(s) => Rests(s)'
    BY <1>1, <1>2, <1>3 DEF Rests
  <1>5. RestsBehind(s) => RestsBehind(s)'
    BY <1>1, <1>2 DEF RestsBehind
  <1> QED BY <1>4, <1>5

\* A frame behind a chain that verifies.
LEMMA RestsFrame ==
  ASSUME StopInv, AnchorType', Grows, Verified(anchor), NEW s, s = Selection(anchor),
         UNCHANGED <<evidence, anchor>>, Len(journal') = Len(journal) + 1
  PROVE  Rests(s)' /\ Len(journal') # s.journal
  <1>1. /\ s.journal \in Nat /\ s.journal <= Len(journal) /\ Len(journal) \in Nat
        /\ Rests(s)
    BY DEF StopInv, AnchorInv, AnchorType, SelectionIsSound, Sound, Bounded, SelectionType,
           RetainedRests
  <1>2. \A k \in 1..s.journal : journal'[k] = journal[k]
    BY <1>1 DEF Grows
  <1>3. SelectedIntents(s)' = SelectedIntents(s) /\ SelectedIntents(s) \subseteq 1..s.journal
    BY <1>2 DEF SelectedIntents
  <1>4. s.seen \subseteq {journal'[k].op : k \in SelectedIntents(s)'}
    BY <1>1, <1>2, <1>3 DEF Rests
  <1>5. Unaudited(s.journal)' = Unaudited(s.journal)
    BY <1>2 DEF Unaudited, Audits, Of
  <1>6. Apart(Unaudited(s.journal))
    BY DEF Verified, JournalIntentsBind, Apart
  <1>7. \A is : Apart(is)' <=> Apart(is)
    BY DEF Apart, ParentsDiffer
  <1>8. Apart(Recorded \cap Unaudited(s.journal))'
    <2> DEFINE is == Recorded' \cap Unaudited(s.journal)'
    <2>1. Apart(is)
      BY <1>5, <1>6, ApartOf
    <2>2. is = (Recorded \cap Unaudited(s.journal))'
      OBVIOUS
    <2> HIDE DEF is
    <2> QED BY <1>7, <2>1, <2>2
  <1> QED BY <1>1, <1>4, <1>8 DEF Rests

\* A published intent has no audit yet.
LEMMA RestsIntent ==
  ASSUME StopInv, AnchorType', Grows, UNCHANGED <<journal, anchor>>, NEW s
  PROVE  (Rests(s) => Rests(s)') /\ (RestsBehind(s) => RestsBehind(s)')
  <1>1. /\ Len(evidence) \in Nat /\ Len(evidence') \in Nat /\ Len(evidence) <= Len(evidence')
        /\ DOMAIN evidence = 1..Len(evidence) /\ DOMAIN evidence' = 1..Len(evidence')
        /\ \A i \in 1..Len(evidence) : evidence'[i] = evidence[i]
    BY DEF StopInv, AnchorInv, AnchorType, Grows
  <1>2. \A i \in 1..Len(evidence) : i \in Of("journal")' <=> i \in Of("journal")
    BY <1>1 DEF Of
  <1>3. \A i, m : Audits(i, m)' = Audits(i, m)
    BY DEF Audits
  <1>4. \A i \in Of("journal")' : Audits(i, Len(journal)) # {} => i \in 1..Len(evidence)
    <2> TAKE i \in Of("journal")'
    <2> HAVE Audits(i, Len(journal)) # {}
    <2>1. PICK k \in 1..Len(journal) : journal[k].kind = "leaf" /\ journal[k].binds = i
      BY DEF Audits
    <2>2. i <= Len(evidence)
      BY <2>1 DEF StopInv, AnchorInv, AuditsFollow
    <2>3. i \in 1..Len(evidence')
      BY <1>1 DEF Of
    <2> QED BY <1>1, <2>2, <2>3
  <1>5. Recorded' = Recorded /\ Recorded \subseteq 1..Len(evidence)
    <2>1. Of("journal") \subseteq 1..Len(evidence)
      BY <1>1 DEF Of
    <2> QED BY <1>2, <1>3, <1>4, <2>1 DEF Recorded
  <1>6. (Recorded \cap Unaudited(s.journal))' = Recorded \cap Unaudited(s.journal)
    BY <1>2, <1>3, <1>5 DEF Unaudited
  <1>7. \A is : is \subseteq 1..Len(evidence) => (Apart(is)' <=> Apart(is))
    BY <1>1 DEF Apart, ParentsDiffer
  <1>8. Apart(Recorded \cap Unaudited(s.journal)) => Apart(Recorded \cap Unaudited(s.journal))'
    BY <1>5, <1>6, <1>7
  <1>9. SelectedIntents(s)' = SelectedIntents(s)
    BY DEF SelectedIntents
  <1>10. \A i \in Recorded : evidence'[i].at = evidence[i].at
    BY <1>1, <1>5
  <1>11. Rests(s) => Rests(s)'
    BY <1>8, <1>9 DEF Rests
  <1>12. RestsBehind(s) => RestsBehind(s)'
    BY <1>5, <1>8, <1>10 DEF RestsBehind
  <1> QED BY <1>11, <1>12

\* A record that verifies, behind a chain that does.
LEMMA RestsRecord ==
  ASSUME StopInv, AnchorType', Verified(anchor), NEW s, s = Selection(anchor), NEW t,
         NEW r \in AnchorRecord, AppendAnchor(r), Extended(t, s, r, Len(anchor))
  PROVE  Rests(t)' /\ RestsBehind(s)'
  <1>1. /\ s.ok /\ s.journal \in Nat /\ s.journal <= Len(journal)
        /\ Rests(s) /\ AnchorType
    BY DEF StopInv, AnchorInv, SelectionIsSound, Sound, Bounded, SelectionType, RetainedRests
  <1>2. /\ t.journal = r.journal /\ s.journal <= r.journal /\ r.journal \in Nat
        /\ NewIntents(s, r) \subseteq 1..r.journal
        /\ t.seen = s.seen \cup {journal[k].op : k \in NewIntents(s, r)}
    BY RecordNumbers DEF Extended
  <1>3. /\ UNCHANGED <<journal, evidence>> /\ Len(anchor') = Len(anchor) + 1
        /\ Len(anchor) \in Nat
    <2>1. anchor' = Append(anchor, r) /\ anchor \in Seq(AnchorRecord)
      BY <1>1 DEF AppendAnchor, AnchorType
    <2> QED BY <2>1, AppendedLast DEF AppendAnchor
  <1>4. Apart(Unaudited(s.journal)) /\ Legal(journal, s.honoured, s.journal)
    BY DEF Verified, JournalIntentsBind, Apart
  <1>5. t.seen \subseteq {journal[k].op : k \in SelectedIntents(t)}
    <2>1. SelectedIntents(s) \subseteq SelectedIntents(t)
      BY <1>1, <1>2 DEF SelectedIntents
    <2>2. NewIntents(s, r) \subseteq SelectedIntents(t)
      BY <1>2 DEF SelectedIntents, NewIntents
    <2> QED BY <1>1, <1>2, <2>1, <2>2 DEF Rests
  <1>6. Unaudited(t.journal) \subseteq Unaudited(s.journal)
    BY <1>1, <1>2 DEF Unaudited, Audits
  <1>7. /\ Recorded' = Recorded /\ Unaudited(s.journal)' = Unaudited(s.journal)
        /\ Unaudited(t.journal)' = Unaudited(t.journal)
    BY <1>3 DEF Recorded, Unaudited, Audits, Of
  <1>8. \A is : Apart(is)' <=> Apart(is)
    BY <1>3 DEF Apart, ParentsDiffer
  <1>9. Rests(t)'
    <2>1. Apart(Recorded \cap Unaudited(t.journal))
      BY <1>4, <1>6, ApartOf
    <2>2. SelectedIntents(t)' = SelectedIntents(t)
      BY <1>3 DEF SelectedIntents
    <2> QED BY <1>3, <1>5, <1>7, <1>8, <2>1, <2>2 DEF Rests
  <1>10. RestsBehind(s)'
    <2>1. Apart(Recorded \cap Unaudited(s.journal))
      BY <1>4, ApartOf
    <2>2. \A i \in Recorded : evidence[i].at < Len(anchor')
      <3> TAKE i \in Recorded
      <3>1. evidence[i] \in IntentType /\ evidence[i].at <= Len(anchor)
        BY <1>1 DEF Recorded, Of, AnchorType, StopInv, UnderTheChain
      <3>2. evidence[i].at \in Nat
        BY <3>1 DEF IntentType
      <3> QED BY <1>3, <3>1, <3>2
    <2> QED BY <1>1, <1>3, <1>4, <1>7, <1>8, <2>1, <2>2 DEF RestsBehind
  <1> QED BY <1>9, <1>10

\* What each step does to the files that a chain rests on.
LEMMA StopSteps ==
  ASSUME AnchorNext
  PROVE  \/ UNCHANGED <<journal, evidence, anchor>>
         \/ UNCHANGED <<evidence, anchor>> /\ \E e : journal' = Append(journal, e)
         \/ UNCHANGED <<journal, anchor>>
         \/ \E r \in AnchorInputs : AppendAnchor(r)
  BY DEF AnchorNext, Consume, RecoverLedger, AppendFrame, TearAnchor, TearJournal,
         PublishIntent, CutTail, CutJournal, files

LEMMA StopInvStep == StopInv /\ [AnchorNext]_anchorVars => StopInv'
  <1> SUFFICES ASSUME StopInv, [AnchorNext]_anchorVars PROVE StopInv'
    OBVIOUS
  <1>1. PICK s, t, p, q : /\ s = Selection(anchor) /\ t = Selection(anchor)'
                          /\ p = Selection(Retained(anchor)) /\ q = Selection(Retained(anchor))'
    OBVIOUS
  <1>2. /\ AnchorInv /\ AnchorType /\ Sound(s) /\ s.ok /\ Bounded(s)
        /\ Rests(s) /\ (anchor # <<>> /\ Len(journal) = s.journal => RestsBehind(p))
    BY <1>1 DEF StopInv, AnchorInv, SelectionIsSound, Sound, RetainedRests
  <1>3. AnchorInv'
    BY <1>2, AnchorInvStep
  <1>4. SUFFICES ASSUME TRUE
                 PROVE  /\ Within' /\ UnderTheChain' /\ Rests(t)'
                        /\ anchor' # <<>> /\ Len(journal') = t.journal => RestsBehind(q)'
    BY <1>1, <1>3 DEF StopInv, RetainedRests
  <1>5. CASE UNCHANGED anchorVars
    <2>1. Within' /\ UnderTheChain'
      BY <1>5 DEF StopInv, anchorVars, Within, UnderTheChain
    <2>2. AnchorType' /\ Grows
      BY <1>2, <1>3, <1>5 DEF anchorVars, Grows, AnchorType, AnchorInv
    <2>3. t = s /\ (anchor # <<>> => q = p)
      BY <1>1, <1>2, <1>5, <2>2, SelectionSame DEF anchorVars
    <2> QED BY <1>2, <1>5, <2>1, <2>3, RestsSame DEF anchorVars
  <1>6. CASE AnchorNext
    <2>1. Within' /\ UnderTheChain'
      BY <1>2, <1>6, WithinStep DEF StopInv
    <2>2. AnchorType' /\ Grows
      BY <1>2, <1>6, AnchorTypeStep
    <2>3. Verified(anchor)
      BY <1>6 DEF AnchorNext, Proceeds
    <2>4. anchor' = anchor => t = s /\ (anchor # <<>> => q = p)
      BY <1>1, <1>2, <2>2, SelectionSame
    <2>5. CASE UNCHANGED <<journal, evidence, anchor>>
      BY <1>2, <2>1, <2>4, <2>5, RestsSame
    <2>6. CASE UNCHANGED <<evidence, anchor>> /\ \E e : journal' = Append(journal, e)
      <3>1. Len(journal') = Len(journal) + 1
        BY <1>2, <2>6 DEF AnchorType
      <3> QED BY <1>1, <2>1, <2>2, <2>3, <2>4, <2>6, <3>1, RestsFrame
    <2>7. CASE UNCHANGED <<journal, anchor>>
      BY <1>2, <2>1, <2>2, <2>4, <2>7, RestsIntent
    <2>8. CASE \E r \in AnchorInputs : AppendAnchor(r)
      <3>1. PICK r \in AnchorInputs : AppendAnchor(r)
        BY <2>8
      <3>2. r \in AnchorRecord /\ Binds(s, r, Len(anchor))
        BY <1>1 DEF AnchorInputs
      <3>3. anchor' = Append(anchor, r) /\ evidence' = evidence
        BY <3>1 DEF AppendAnchor
      <3>4. t = Successor(s, r, Len(anchor)) /\ q = s
        BY <1>1, <1>2, <2>2, <3>2, <3>3, SelectionAppended
      <3>5. Extended(t, s, r, Len(anchor))
        BY <1>2, <3>2, <3>4, SuccessorFields
      <3>6. Rests(t)' /\ RestsBehind(s)'
        BY <1>1, <2>2, <2>3, <3>1, <3>2, <3>5, RestsRecord
      <3> QED BY <2>1, <3>4, <3>6
    <2> QED BY <1>6, <2>5, <2>6, <2>7, <2>8, StopSteps
  <1> QED BY <1>5, <1>6

\* The invariant of the stops: what a chain and the chain without its last
\* record rest on holds after every step of the host and the operator.
THEOREM StopInvariant == AnchorSpec => []StopInv
  BY StopInvInit, StopInvStep, PTL DEF AnchorSpec

\* PermitLedgerAnchorStoreV2.current and the two recoveries: wherever the host
\* and the operator stop in order, at most two more anchor records let the
\* reader return again.
THEOREM StopsAreRecoverable == AnchorSpec => []StopIsRecoverable
  BY StopInvariant, StopInvIsRecoverable, PTL
=============================================================================
