-------------------------- MODULE RemediationPlan --------------------------
(***************************************************************************)
(* Remediation plans: the scheduling of their lanes into batches           *)
(* (remediation_plan.py, _remediation_graph.py), the isolation of the      *)
(* claims under which lanes run (claim_isolation.py), and the admission of *)
(* an attested execution (remediation_executor.py).  Everything here is a  *)
(* pure function; RemediationExecution runs a plan.                        *)
(*                                                                         *)
(* Lane identifiers are numbers, so that sorting by identifier is <.       *)
(* Repository paths are sequences: a parent directory is a proper prefix.  *)
(***************************************************************************)
EXTENDS Naturals, FiniteSets, Sequences, SequencesExt

CONSTANTS
    LaneCount,   \* number of lanes of a plan
    Dependencies,\* the prerequisites plans may declare, lane by lane
    Footprints,  \* what a lane may touch: [writes, reads, keys]
    SharedKey,   \* the lanes whose first step carries one common idempotency key
    MaxSteps     \* the aggregate budget, in executed steps

ASSUME PlanAssumption ==
    /\ LaneCount \in Nat \ {0} /\ MaxSteps \in Nat
    /\ SharedKey \subseteq 1..LaneCount
    /\ Dependencies \subseteq [1..LaneCount -> SUBSET (1..LaneCount)]

Lanes == 1..LaneCount

(***************************************************************************)
(* Path sets overlap when they hold an equal, parent or child path.        *)
(***************************************************************************)
Overlap(left, right) ==
    \E a \in left, b \in right : IsPrefix(a, b) \/ IsPrefix(b, a)

\* Two lanes that must not run at the same time.
Conflicts(f, g) ==
    \/ Overlap(f.writes, g.writes)
    \/ Overlap(f.writes, g.reads)
    \/ Overlap(g.writes, f.reads)
    \/ f.keys \cap g.keys # {}

\* The dependency check of a plan: no cycle, stated as a ranking.
Acyclic(prereq) ==
    \E rank \in [Lanes -> Lanes] :
        \A l \in Lanes : \A p \in prereq[l] : rank[p] < rank[l]

\* The plans that can be built: the prerequisites of each lane and what it
\* touches.
Plans ==
    { p \in [prereq : Dependencies, foot : [Lanes -> Footprints]] :
        Acyclic(p.prereq) }

----------------------------------------------------------------------------
(***************************************************************************)
(* Scheduling: repeatedly take the ready lanes in the order of their       *)
(* identifiers, each unless it conflicts with one already taken.           *)
(***************************************************************************)
Ready(plan, completed) ==
    { l \in Lanes \ completed : plan.prereq[l] \subseteq completed }

\* Bug: a lane is compared only with the lane taken last.
NextBatchLastOnly(plan, completed) ==
    LET taken[l \in 0..LaneCount] ==
            IF l = 0 THEN {}
            ELSE LET before == taken[l - 1]
                 IN  IF /\ l \in Ready(plan, completed)
                        /\ \A s \in before :
                              (\A m \in before : m <= s)
                                  => ~Conflicts(plan.foot[l], plan.foot[s])
                     THEN before \cup {l} ELSE before
    IN  taken[LaneCount]

NextBatch(plan, completed) ==
    LET ready == Ready(plan, completed)
        taken[l \in 0..LaneCount] ==
            IF l = 0 THEN {}
            ELSE LET before == taken[l - 1]
                 IN  IF l \in ready /\ \A s \in before : ~Conflicts(plan.foot[l], plan.foot[s])
                     THEN before \cup {l} ELSE before
    IN  taken[LaneCount]

\* The batches, in order: what each round over the ready lanes completes.  The
\* code raises where lanes are left and none is ready.
ExecutionBatches(plan) ==
    LET after[completed \in SUBSET Lanes] == completed \cup NextBatch(plan, completed)
        done[n \in 0..LaneCount] == IF n = 0 THEN {} ELSE after[done[n - 1]]
    IN  [n \in { k \in 1..LaneCount : done[k] # done[k - 1] } |-> done[n] \ done[n - 1]]

\* The lanes one after the other, as an execution has to list them.
Ordered(plan) ==
    FoldLeft(LAMBDA lanes, batch : lanes \o SetToSortSeq(batch, <),
             <<>>, ExecutionBatches(plan))

----------------------------------------------------------------------------
\* Bug: an expired claim keeps holding until somebody releases it.
HoldsUntilReleased(claim, now) == claim.status = "active"

(***************************************************************************)
(* Claims.  A claim is [id, writes, keys, needs, until, status]; it holds  *)
(* its resources while it is active and not expired.  All claims are of    *)
(* one repository: claims of different repositories never conflict.        *)
(***************************************************************************)
HoldsAt(claim, now) == claim.status = "active" /\ now < claim.until

Holding(claims, now) == { c \in claims : HoldsAt(c, now) }

\* Bug: only serialization keys are compared, not the write sets.
KeysIsolated(group) ==
    /\ \A c, d \in group : c # d => c.id # d.id /\ c.keys \cap d.keys = {}
    /\ \A c \in group : c.needs \subseteq { d.id : d \in group }

GroupIsolated(group) ==
    /\ \A c, d \in group : c # d =>
           /\ c.id # d.id
           /\ ~Overlap(c.writes, d.writes)
           /\ c.keys \cap d.keys = {}
    /\ \A c \in group : c.needs \subseteq { d.id : d \in group }
    /\ \A some \in SUBSET group \ {{}} :
           \E c \in some : c.needs \cap { d.id : d \in some } = {}

\* admit_claim: the candidate joins the tracked claims, or is refused.
ClaimAdmitted(claims, candidate, now) ==
    /\ candidate.status = "active"
    /\ GroupIsolated(Holding(claims \cup {candidate}, now))

----------------------------------------------------------------------------
(***************************************************************************)
(* Attested outcomes.  A lane's record is the sequence of the statuses of  *)
(* its steps; its own status follows from them, or the record is refused.  *)
(***************************************************************************)

Statuses(outcome) == { outcome[i] : i \in DOMAIN outcome }

LaneStatus(outcome) ==
    LET s == Statuses(outcome)
    IN  CASE "failed" \in s /\ "rolled-back" \in s      -> "rolled-back"
          [] "failed" \in s /\ "rolled-back" \notin s   -> "failed"
          [] s = {"succeeded"}                          -> "succeeded"
          [] s = {"skipped"}                            -> "skipped"
          [] OTHER                                      -> "refused"

Executed(outcome) == { i \in DOMAIN outcome : outcome[i] # "skipped" }

ExecutedSteps(outcomes) ==
    FoldLeft(LAMBDA n, l : n + Cardinality(Executed(outcomes[l])),
             0, SetToSortSeq(Lanes, <))

\* One idempotency key never attests two divergent outcomes.  The digests that
\* are compared cover the step's identifier and evidence too; here the first
\* steps that share a key agree in those, and differ only in their status.
KeysAgree(outcomes) ==
    \A l, m \in SharedKey :
        1 \in Executed(outcomes[l]) /\ 1 \in Executed(outcomes[m])
            => outcomes[l][1] = outcomes[m][1]

\* No two claims share an identifier, and each lane names a claim of its own
\* that covers what it writes.
ClaimsCover(plan, claims) ==
    /\ \A c, d \in claims : c.id = d.id => c = d
    /\ \A l \in Lanes : \E c \in claims :
           c.id = l /\ plan.foot[l].writes \subseteq c.writes

\* Bug: only the lane's own prerequisite edges are followed.
DirectPrerequisites(plan, lane) == plan.prereq[lane]

\* Every lane reachable through prerequisite edges.
TransitivePrerequisites(plan, lane) ==
    LET reach[l \in Lanes] ==
            plan.prereq[l] \cup UNION { reach[p] : p \in plan.prereq[l] }
    IN  reach[lane]

\* A lane is skipped exactly when a transitive prerequisite failed.
LanesPropagate(plan, outcomes) ==
    LET failed == { l \in Lanes :
                      LaneStatus(outcomes[l]) \in {"failed", "rolled-back"} }
    IN  \A l \in Lanes :
            (LaneStatus(outcomes[l]) = "skipped")
                <=> (TransitivePrerequisites(plan, l) \cap failed # {})

(***************************************************************************)
(* ExecutionLedger.admit for a record that names its lanes in the sequence *)
(* order: mode is the authority's, "observe" or "execute".                 *)
(***************************************************************************)
Admitted(plan, mode, order, outcomes, claims) ==
    /\ order = Ordered(plan)
    /\ ClaimsCover(plan, claims)
    /\ \A l \in Lanes : LaneStatus(outcomes[l]) # "refused"
    /\ KeysAgree(outcomes)
    /\ mode = "observe" => ExecutedSteps(outcomes) = 0
    /\ ExecutedSteps(outcomes) <= MaxSteps
    /\ mode = "execute" => LanesPropagate(plan, outcomes)

Resolution(outcomes) ==
    LET s == { LaneStatus(outcomes[l]) : l \in Lanes }
    IN  CASE "rolled-back" \in s                    -> "rolled-back"
          [] "rolled-back" \notin s /\ "failed" \in s -> "failed"
          [] OTHER                                  -> "succeeded"
=============================================================================
