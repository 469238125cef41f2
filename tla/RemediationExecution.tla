----------------------- MODULE RemediationExecution -----------------------
(***************************************************************************)
(* A host executes an approved remediation plan batch by batch, each lane  *)
(* under a claim with a lease, while another campaign claims paths of the  *)
(* same repository; the host then has the attested execution admitted.     *)
(* The host is the caller of the modelled functions: it follows the        *)
(* batches, skips what depends on a failed lane, and retries a refused     *)
(* claim.  Nothing keeps a lane from outliving its lease.                  *)
(***************************************************************************)
EXTENDS RemediationPlan, Integers

CONSTANTS
    Author,         \* who wrote the plan
    Identities,     \* who may approve it and grant its execution
    ForeignClaims,  \* the other campaign's candidates: [id, writes, keys, needs]
    Lease,          \* how long a claim holds
    MaxClock,       \* bound on the clock
    HostRuns        \* the outcomes running a lane has here, of LaneRuns

\* What running a lane of two steps may attest; a failure stops the lane.
LaneRuns == { <<"succeeded", "succeeded">>, <<"failed", "skipped">>,
              <<"succeeded", "failed">>, <<"rolled-back", "failed">> }

ASSUME ExecutionAssumption ==
    /\ Author \in Identities
    /\ Lease \in Nat \ {0} /\ MaxClock \in Nat
    /\ \A c \in ForeignClaims : c.id \in Nat /\ c.id > LaneCount
    /\ HostRuns # {} /\ HostRuns \subseteq LaneRuns

VARIABLES
    plan,      \* the plan; immutable
    schedule,  \* its execution batches, once it is approved
    phase,     \* "advisory", "approved", or the mode it was granted
    outcomes,  \* per lane the statuses of its steps; <<>> while it is not over
    claims,    \* every tracked claim
    now,       \* the clock the host evaluates claims at
    ledger     \* "none", or what admission answered

hostVars == <<plan, schedule, phase, outcomes, claims, now, ledger>>

Modes == {"observe", "execute"}

NotRun == [l \in Lanes |-> <<>>]

Skipped == <<"skipped", "skipped">>

Over(l) == outcomes[l] # <<>>

\* The batches that are not over, and the lanes of the first of them.
OpenBatches == { k \in DOMAIN schedule : \E l \in schedule[k] : ~Over(l) }

CurrentBatch ==
    LET open == OpenBatches
    IN  UNION { schedule[k] : k \in { i \in open : \A j \in open : i <= j } }

FailedBefore(l) ==
    \E p \in TransitivePrerequisites(plan, l) :
        LaneStatus(outcomes[p]) \in {"failed", "rolled-back"}

LaneClaim(l) ==
    [id |-> l, writes |-> plan.foot[l].writes, keys |-> plan.foot[l].keys,
     needs |-> {}, until |-> now + Lease, status |-> "active"]

ForeignClaim(c) ==
    [id |-> c.id, writes |-> c.writes, keys |-> c.keys, needs |-> c.needs,
     until |-> now + Lease, status |-> "active"]

ClaimsOf(l) == { c \in claims : c.id = l }

\* A lane runs from its claim to its outcome, whatever its lease does.
Running(l) == ClaimsOf(l) # {} /\ ~Over(l)

Claimable(l) ==
    /\ phase = "execute"
    /\ l \in CurrentBatch /\ ~Over(l) /\ ~FailedBefore(l)
    /\ \A c \in ClaimsOf(l) : ~HoldsAt(c, now)

----------------------------------------------------------------------------
HostInit ==
    /\ plan \in Plans
    /\ schedule = <<>>
    /\ phase = "advisory"
    /\ outcomes = NotRun
    /\ claims = {}
    /\ now = 0
    /\ ledger = "none"

\* The author never approves the plan; only an approved plan has batches.
Approve(by) ==
    /\ phase = "advisory" /\ by # Author
    /\ phase' = "approved"
    /\ schedule' = ExecutionBatches(plan)
    /\ UNCHANGED <<plan, outcomes, claims, now, ledger>>

\* Nor does the author grant its execution.
Grant(by, mode) ==
    /\ phase = "approved" /\ by # Author
    /\ phase' = mode
    /\ UNCHANGED <<plan, schedule, outcomes, claims, now, ledger>>

\* A claim is admitted, for the first time or after its lease ran out.
ClaimLane(l) ==
    /\ Claimable(l)
    /\ ClaimAdmitted(claims, LaneClaim(l), now)
    /\ claims' = claims \cup {LaneClaim(l)}
    /\ UNCHANGED <<plan, schedule, phase, outcomes, now, ledger>>

\* The claim in a terminal state; its expiry no longer matters.
Released(c, status) == [c EXCEPT !.status = status, !.until = 0]

\* The lane ends and each of its claims is released by its outcome.
FinishLane(l, run) ==
    /\ Running(l)
    /\ outcomes' = [outcomes EXCEPT ![l] = run]
    /\ LET end == CASE LaneStatus(run) = "succeeded"   -> "completed"
                    [] LaneStatus(run) = "rolled-back" -> "rolled-back"
                    [] OTHER                           -> "cancelled"
       IN  claims' = { IF c.id = l THEN Released(c, end) ELSE c
                         : c \in claims }
    /\ UNCHANGED <<plan, schedule, phase, now, ledger>>

\* A lane whose prerequisite failed is recorded as skipped.  Its claim, which
\* the record must name, is released at once.
SkipLane(l) ==
    /\ phase = "execute"
    /\ l \in CurrentBatch /\ ~Over(l) /\ FailedBefore(l)
    /\ outcomes' = [outcomes EXCEPT ![l] = Skipped]
    /\ claims' = claims \cup {Released(LaneClaim(l), "cancelled")}
    /\ UNCHANGED <<plan, schedule, phase, now, ledger>>

\* An observing host runs nothing and records every lane as skipped.
Observe ==
    /\ phase = "observe" /\ outcomes = NotRun
    /\ outcomes' = [l \in Lanes |-> Skipped]
    /\ claims' = claims \cup
                   { Released(LaneClaim(l), "cancelled") : l \in Lanes }
    /\ UNCHANGED <<plan, schedule, phase, now, ledger>>

\* The record of the finished execution is admitted or refused.
Admit ==
    /\ ledger = "none" /\ phase \in Modes
    /\ \A l \in Lanes : Over(l)
    /\ ledger' = IF Admitted(plan, phase, Ordered(plan), outcomes, claims)
                 THEN Resolution(outcomes) ELSE "refused"
    /\ UNCHANGED <<plan, schedule, phase, outcomes, claims, now>>

\* The other campaign claims once per candidate.  Its last claim is early
\* enough to expire within the bound on the clock.
ClaimForeign(c) ==
    /\ phase = "execute" /\ now + Lease <= MaxClock
    /\ ClaimsOf(c.id) = {}
    /\ ClaimAdmitted(claims, ForeignClaim(c), now)
    /\ claims' = claims \cup {ForeignClaim(c)}
    /\ UNCHANGED <<plan, schedule, phase, outcomes, now, ledger>>

Tick ==
    /\ phase = "execute" /\ ledger = "none" /\ now < MaxClock
    /\ now' = now + 1
    /\ UNCHANGED <<plan, schedule, phase, outcomes, claims, ledger>>

HostNext ==
    \/ \E by \in Identities : Approve(by)
    \/ \E by \in Identities, mode \in Modes : Grant(by, mode)
    \/ \E l \in Lanes : ClaimLane(l)
    \/ \E l \in Lanes, run \in HostRuns : FinishLane(l, run)
    \/ \E l \in Lanes : SkipLane(l)
    \/ Observe
    \/ Admit
    \/ \E c \in ForeignClaims : ClaimForeign(c)
    \/ Tick

\* The host keeps working once it was granted the execution, every lane ends
\* (its steps run under timeouts), and time passes.  Nobody has to approve or
\* grant, and the other campaign has to do nothing: it may die holding.
HostFairness ==
    /\ \A l \in Lanes :
          /\ WF_hostVars(ClaimLane(l))
          /\ WF_hostVars(\E run \in HostRuns : FinishLane(l, run))
          /\ WF_hostVars(SkipLane(l))
    /\ WF_hostVars(Observe) /\ WF_hostVars(Admit) /\ WF_hostVars(Tick)

HostSpec == HostInit /\ [][HostNext]_hostVars /\ HostFairness

----------------------------------------------------------------------------
(***************************************************************************)
(* Properties                                                              *)
(***************************************************************************)

\* The batches of every acyclic plan run each lane once, after all of its
\* prerequisites, beside no lane it conflicts with, and no later than that
\* forces it: a lane waits for a prerequisite of the batch before, or for a
\* lane with a smaller identifier it conflicts with.
BatchesAreLegal ==
    phase = "approved" =>
        LET Before(k) == UNION { schedule[i] : i \in 1..(k - 1) }
        IN  /\ Before(Len(schedule) + 1) = Lanes
            /\ \A k \in DOMAIN schedule : \A l \in schedule[k] :
                 /\ l \notin Before(k)
                 /\ plan.prereq[l] \subseteq Before(k)
                 /\ \A m \in schedule[k] \ {l} :
                        ~Conflicts(plan.foot[l], plan.foot[m])
                 /\ k > 1 => \/ plan.prereq[l] \cap schedule[k - 1] # {}
                             \/ \E m \in schedule[k - 1] :
                                   m < l /\ Conflicts(plan.foot[l], plan.foot[m])

\* What a lane may end with: it is run exactly when each direct prerequisite
\* succeeded, and running it ends in one of LaneRuns.
FollowsPlan(os) ==
    \A l \in Lanes :
        IF \A p \in plan.prereq[l] : LaneStatus(os[p]) = "succeeded"
        THEN os[l] \in LaneRuns ELSE os[l] = Skipped

\* Admission judges a record exactly: of all combinations of lane outcomes it
\* admits, within the budget and with agreeing keys, those that running the
\* lanes one by one in the order of the plan can end with, and no other.
AdmissionIsExact ==
    phase = "approved" =>
        \A os \in [Lanes -> LaneRuns \cup {Skipped}] :
            Admitted(plan, "execute", Ordered(plan), os,
                     { LaneClaim(l) : l \in Lanes })
                <=> /\ FollowsPlan(os)
                    /\ ExecutedSteps(os) <= MaxSteps /\ KeysAgree(os)

\* Two lanes of whatever campaign write overlapping paths at the same time
\* only when one of them has outlived its lease; and the host's plan never
\* has two of its own running lanes in conflict, lease or not.
WritersAreIsolated ==
    /\ \A c, d \in Holding(claims, now) : c # d =>
           ~Overlap(c.writes, d.writes) /\ c.keys \cap d.keys = {}
    /\ \A l, m \in Lanes : l # m /\ Running(l) /\ Running(m) =>
           ~Conflicts(plan.foot[l], plan.foot[m])

\* A granted execution always ends with the host's honest record being
\* judged, whatever the other campaign claims and never releases: neither a
\* claim in the way nor one that outlives the prerequisite it names, which
\* makes every admission fail, blocks a lane for ever.
RunIsJudged == phase = "execute" ~> ledger # "none"
=============================================================================
