---------------------------- MODULE CraTimeline ----------------------------
(***************************************************************************)
(* The records of one reportable event and the clocks computed from them   *)
(* (cra_timeline.py, with the binding rules of cra_submissions.py).  A     *)
(* record contains the records it names by digest: a draft its revision, a *)
(* receipt its draft, a skip its receipt.  Instants are small numbers, the *)
(* operator became aware at AwareAt.                                       *)
(***************************************************************************)
EXTENDS Integers, FiniteSets, FiniteSetsExt

CONSTANTS None,       \* an absent timestamp, or the absent predecessor
          AwareAt,    \* the instant of awareness, which no revision changes
          EarlyTerm,  \* 24 hours after awareness
          NotifyTerm, \* 72 hours after awareness
          FixTerm,    \* 14 days after the corrective measure
          MonthTerm,  \* one calendar month after the notification
          StaleTerm   \* 24 hours after a draft was prepared

ASSUME TermsAssumption ==
    {AwareAt, EarlyTerm, NotifyTerm, FixTerm, MonthTerm, StaleTerm} \subseteq Nat

Stages == {"early-warning", "notification", "final-report", "intermediate"}
Skippable == {"notification", "final-report"}

StageOrder == [s \in Stages |-> CASE s = "early-warning" -> 0
                                  [] s = "notification"  -> 1
                                  [] s = "final-report"  -> 2
                                  [] s = "intermediate"  -> 3]

Before(s) == {t \in Stages : StageOrder[t] < StageOrder[s]}

StageOf(c) == c.draft.stage      \* the stage of a receipt is its draft's

SingleByStage(records) ==
    \A x, y \in records : x.stage = y.stage => x = y

OneReceiptByStage(receipts) ==
    \A x, y \in receipts : StageOf(x) = StageOf(y) => x = y

\* A skip names one available receipt, of an earlier stage.
SkipBinds(k, receipts) ==
    k.receipt \in receipts /\ StageOf(k.receipt) \in Before(k.stage)

(***************************************************************************)
(* What the timeline accepts.  Only here is a stage that is both receipted *)
(* and skipped refused; the store keeps the two apart when it writes.      *)
(***************************************************************************)
RecordsValid(event, revs, drafts, receipts, skips) ==
    /\ event \in revs
    /\ \A d \in drafts : d.rev \in revs
    /\ SingleByStage(drafts) /\ OneReceiptByStage(receipts) /\ SingleByStage(skips)
    /\ \A c \in receipts : c.draft \in drafts
    /\ \A k \in skips : /\ SkipBinds(k, receipts)
                        /\ \A c \in receipts : StageOf(c) # k.stage

After(instant, term) == IF instant = None THEN None ELSE instant + term

\* The clock of an incident's final report starts at the notification, or at
\* the receipt that a skip of the notification names.
NotifiedAt(receipts, skips) ==
    LET sent    == {c \in receipts : StageOf(c) = "notification"}
        skipped == {k \in skips : k.stage = "notification"}
    IN  IF sent # {} THEN (CHOOSE c \in sent : TRUE).at
        ELSE IF skipped # {} THEN (CHOOSE k \in skipped : TRUE).receipt.at
        ELSE None

Deadline(event, stage, receipts, skips) ==
    CASE stage = "early-warning" -> AwareAt + EarlyTerm
      [] stage = "notification"  -> AwareAt + NotifyTerm
      [] stage = "intermediate"  -> event.due
      [] stage = "final-report"  ->
            IF event.track = "vulnerability"
            THEN After(event.measure, FixTerm)
            ELSE After(NotifiedAt(receipts, skips), MonthTerm)

Past(now, deadline) == deadline # None /\ now > deadline

(***************************************************************************)
(* The operational state of one stage at the instant `now`, as a record of *)
(* its state, its time of submission and whether it raises an alert.       *)
(***************************************************************************)
StageState(event, stage, now, drafts, receipts, skips) ==
    LET deadline == Deadline(event, stage, receipts, skips)
        Of(state, at, alert) == [state |-> state, at |-> at, alert |-> alert]
        receipt == {c \in receipts : StageOf(c) = stage}
        skip    == {k \in skips : k.stage = stage}
        draft   == {d \in drafts : d.stage = stage}
        The(records) == CHOOSE r \in records : TRUE
    IN  CASE receipt # {} -> Of("submitted", The(receipt).at, Past(The(receipt).at, deadline))
          [] receipt = {} /\ skip # {} -> Of("skipped", The(skip).at, Past(The(skip).at, deadline))
          [] receipt \cup skip = {} /\ draft # {} ->
                Of("submitted-unverified", None, now > The(draft).at + StaleTerm)
          [] receipt \cup skip \cup draft = {} ->
                CASE deadline = None     -> Of("not-started", None, FALSE)
                  [] Past(now, deadline) -> Of("overdue", None, TRUE)
                  [] OTHER               -> Of("pending", None, FALSE)
=============================================================================
