------------------------------ MODULE CraStore ------------------------------
(***************************************************************************)
(* The append-only tree of one reportable event (cra_store.py).  A file is *)
(* named by the digest of its content, so a path determines its bytes: the *)
(* tree is the set of paths whose bytes are whole, and the set of those    *)
(* created and not completely written.  Every append runs under one lock   *)
(* that a death releases; readers take no lock and read one directory      *)
(* after another.                                                          *)
(***************************************************************************)
EXTENDS CraTimeline, Sequences

CONSTANTS Facts,       \* what a revision may declare: track, status, measure, due, at
          Instants,    \* the instants an operator may declare, by kind of record
          Prepared,    \* the stages the model prepares drafts for
          Profiles,    \* bound of the model: how many records a tree may have of each kind
          MaxLeft      \* bound of the model: files that stopped appends leave behind

VARIABLES whole,   \* paths of the files that hold all their bytes, and the storage made
          torn,    \* paths of the files created and not yet written
          todo,    \* what the holder of the lock still has to write
          open,    \* the holder has created the first of these and not written it
          reader   \* one lock-free reader, and what it has read so far

vars == <<whole, torn, todo, open, reader>>

StatusTransitions ==
    [s \in {"triaged", "fixing", "fix-available", "disclosed", "closed"} |->
        CASE s = "triaged"       -> {"fixing", "fix-available", "closed"}
          [] s = "fixing"        -> {"fix-available", "closed"}
          [] s = "fix-available" -> {"disclosed", "closed"}
          [] s = "disclosed"     -> {"closed"}
          [] s = "closed"        -> {}]

AdvisoryTransitions ==
    [s \in {"draft", "justified-delay", "published"} |->
        CASE s = "draft"           -> {"published", "justified-delay"}
          [] s = "justified-delay" -> {"published"}
          [] s = "published"       -> {}]

In(dir, record) == [dir |-> dir, record |-> record]
Storage == In("storage", None)     \* the directory of the tree itself
Registration == [dir |-> "registrations"]
Outbox == {"outbox-json", "outbox-markdown"}
Payloads(d) == <<In("outbox-json", d), In("outbox-markdown", d)>>
Records(dir) == {p.record : p \in {q \in whole : q.dir = dir}}
Parses(dir) == \A p \in torn : p.dir # dir

Idle == <<>>
NotReading == [at |-> "idle"]

(* Revisions form one chain from one root, each a valid successor.         *)
Root(r) == r.prev = None

SuccessorOfAnyTrack(p, r) ==    \* mutant: the track may change
    /\ r.prev = p
    /\ r.status = p.status \/ r.status \in StatusTransitions[p.status]
    /\ r.at > p.at

ValidSuccessor(p, r) ==
    /\ r.prev = p
    /\ r.track = p.track
    /\ r.status = p.status \/ r.status \in StatusTransitions[p.status]
    /\ r.at > p.at

OneChain(records) ==
    /\ Cardinality({r \in records : Root(r)}) = 1
    /\ \A r \in records : ~Root(r) => r.prev \in records
    /\ \A r, q \in records : r.prev = q.prev => r = q

RevisionChain(revs) ==
    OneChain(revs) /\ \A r \in revs : ~Root(r) => ValidSuccessor(r.prev, r)

Tip(records) == CHOOSE r \in records : \A q \in records : q.prev # r

EventReads(revs) == Parses("revisions") /\ revs # {} /\ RevisionChain(revs)

PayloadsWhole(d) == \A i \in 1 .. 2 : Payloads(d)[i] \in whole

DraftsAgree(revs, drafts) ==
    /\ \A d \in drafts : d.rev \in revs /\ PayloadsWhole(d)
    /\ SingleByStage(drafts)

ReceiptsAgreeAny(drafts, receipts) ==   \* mutant: the binding is left to the timeline
    OneReceiptByStage(receipts)

ReceiptsAgree(drafts, receipts) ==
    /\ OneReceiptByStage(receipts)
    /\ \A c \in receipts : c.draft \in drafts

SkipsAgree(receipts, skips) ==
    /\ SingleByStage(skips)
    /\ \A k \in skips : SkipBinds(k, receipts)

NoticesAgree(revs, notices) == \A n \in notices : n.rev \in revs /\ PayloadsWhole(n)

\* event_state, run under the lock.
StateReads ==
    /\ EventReads(Records("revisions"))
    /\ \A dir \in {"drafts", "receipts", "skips", "user-notices"} : Parses(dir)
    /\ DraftsAgree(Records("revisions"), Records("drafts"))
    /\ ReceiptsAgree(Records("drafts"), Records("receipts"))
    /\ SkipsAgree(Records("receipts"), Records("skips"))
    /\ NoticesAgree(Records("revisions"), Records("user-notices"))

AdvisorySucceeds(p, a) == a.prev = p /\ a.state \in AdvisoryTransitions[p.state]

AdvisoryReads ==
    /\ Parses("advisories")
    /\ Records("advisories") # {} =>
          /\ \A a \in Records("advisories") : a.rev \in Records("revisions")
          /\ OneChain(Records("advisories"))
          /\ \A a \in Records("advisories") : ~Root(a) => AdvisorySucceeds(a.prev, a)

CurrentIs(rev) == EventReads(Records("revisions")) /\ rev = Tip(Records("revisions"))

(***************************************************************************)
(* The operations.  Each takes the lock, replays what it needs, and then   *)
(* has files to write in order; an operation whose checks fail raises and  *)
(* leaves everything as it was.                                            *)
(***************************************************************************)
Init ==
    /\ whole = {} /\ torn = {}
    /\ todo = Idle /\ open = FALSE /\ reader = NotReading

\* Bound of the model: with one more record in this directory the tree still
\* fits one of the profiles.
WithinBounds(dir) ==
    LET used(d) == Cardinality({p \in whole \cup torn : p.dir = d})
    IN  \E most \in Profiles : /\ used(dir) < most[dir]
                              /\ \A d \in DOMAIN most : used(d) <= most[d]

Begin(files) ==
    /\ todo' = files
    /\ UNCHANGED <<whole, torn, open, reader>>

\* A fresh tree only: the storage directory is made before the registration is
\* written, and bootstrap refuses whatever an earlier one left behind.
Bootstrap ==
    /\ Storage \notin whole \cup torn
    /\ whole' = whole \cup {Storage}
    /\ todo' = <<Registration>>
    /\ UNCHANGED <<torn, open, reader>>

AppendEvent(r) ==
    LET revs == Records("revisions") IN
    /\ Registration \in whole
    /\ Parses("revisions")
    /\ IF revs = {} THEN Root(r)
                    ELSE RevisionChain(revs) /\ ValidSuccessor(Tip(revs), r)
    /\ Begin(<<In("revisions", r)>>)

AppendDraftUnordered(d) ==      \* mutant: the record is written first
    /\ CurrentIs(d.rev)
    /\ d.stage = "intermediate" => d.rev.due # None
    /\ \A x \in Records("drafts") : x.stage # d.stage
    /\ StateReads
    /\ Begin(<<In("drafts", d)>> \o Payloads(d))

\* An intermediate draft needs the request it answers (cra_payloads.py).
AppendDraft(d) ==
    /\ CurrentIs(d.rev)
    /\ d.stage = "intermediate" => d.rev.due # None
    /\ \A x \in Records("drafts") : x.stage # d.stage
    /\ StateReads
    /\ Begin(Payloads(d) \o <<In("drafts", d)>>)

AppendNotice(n) ==
    /\ CurrentIs(n.rev)
    /\ Begin(Payloads(n) \o <<In("user-notices", n)>>)

AppendReceiptOver(c) ==         \* mutant: a skipped stage may be receipted
    /\ StateReads
    /\ c.draft \in Records("drafts")
    /\ \A x \in Records("receipts") : StageOf(x) # StageOf(c)
    /\ Begin(<<In("receipts", c)>>)

AppendReceipt(c) ==
    /\ StateReads
    /\ c.draft \in Records("drafts")
    /\ \A x \in Records("receipts") : StageOf(x) # StageOf(c)
    /\ \A k \in Records("skips") : k.stage # StageOf(c)
    /\ Begin(<<In("receipts", c)>>)

AppendSkip(k) ==
    /\ StateReads
    /\ SkipBinds(k, Records("receipts"))
    /\ \A c \in Records("receipts") : StageOf(c) # k.stage
    /\ \A x \in Records("skips") : x.stage # k.stage
    /\ Begin(<<In("skips", k)>>)

AppendAdvisory(a) ==
    LET advisories == Records("advisories") IN
    /\ CurrentIs(a.rev)
    /\ AdvisoryReads
    /\ IF advisories = {} THEN Root(a) /\ a.state = "draft"
                          ELSE AdvisorySucceeds(Tip(advisories), a)
    /\ Begin(<<In("advisories", a)>>)

(***************************************************************************)
(* Writing the files, one after the other.  A file is created in place and *)
(* is torn until its bytes are written.  An exclusive creation that finds  *)
(* the path raises, unless the operation accepts the same bytes there.     *)
(***************************************************************************)
Replayable == Outbox \cup {"drafts", "user-notices"}

Create ==
    /\ todo # Idle /\ ~open
    /\ Head(todo) \notin whole \cup torn
    /\ torn' = torn \cup {Head(todo)}
    /\ open' = TRUE
    /\ UNCHANGED <<whole, todo, reader>>

Write ==
    /\ open
    /\ torn' = torn \ {Head(todo)}
    /\ whole' = whole \cup {Head(todo)}
    /\ todo' = Tail(todo)
    /\ open' = FALSE
    /\ UNCHANGED reader

FindsSame ==
    /\ todo # Idle /\ ~open
    /\ Head(todo) \in whole /\ Head(todo).dir \in Replayable
    /\ todo' = Tail(todo)
    /\ UNCHANGED <<whole, torn, open, reader>>

Collides ==
    /\ todo # Idle /\ ~open
    /\ Head(todo) \in torn \cup {p \in whole : p.dir \notin Replayable}
    /\ todo' = Idle
    /\ UNCHANGED <<whole, torn, open, reader>>

Leftover ==
    torn \cup {p \in whole : /\ p.dir \in Outbox
                            /\ p.record \notin Records("drafts") \cup Records("user-notices")}

\* A write that fails, or the death of the process.
Stops ==
    /\ todo # Idle
    /\ Cardinality(Leftover) <= MaxLeft
    /\ todo' = Idle /\ open' = FALSE
    /\ UNCHANGED <<whole, torn, reader>>

(***************************************************************************)
(* A reader without the lock.  Drafts, receipts and skips lie in one       *)
(* directory for each stage.  A directory is listed and parsed in one      *)
(* step; after the last one of a kind, the checks of that kind compare it  *)
(* with what was read before.                                              *)
(***************************************************************************)
Listed == [dir \in {"drafts", "receipts", "skips"} |->
              IF dir = "skips" THEN <<"notification", "final-report">>
              ELSE <<"early-warning", "notification", "final-report", "intermediate">>]

InNext(dir, record) ==
    Head(reader.left) = IF dir = "receipts" THEN StageOf(record) ELSE record.stage

\* All that is seen of a kind with the next stage of it.
Seen(dir) == reader.seen \cup {r \in Records(dir) : InNext(dir, r)}

NextParses(dir) == \A p \in torn : p.dir = dir => ~InNext(dir, p.record)

AtLast(dir) == reader.at = dir /\ Tail(reader.left) = <<>>

Proceeds(accepts, next) == reader' = IF accepts THEN next ELSE NotReading

ReadRevisions ==
    /\ reader = NotReading
    /\ LET revs == Records("revisions") IN
           Proceeds(EventReads(revs),
                    [at |-> "drafts", left |-> Listed["drafts"], seen |-> {}, revs |-> revs])
    /\ UNCHANGED <<whole, torn, todo, open>>

\* A stage that is not the last of its kind.
ReadStage ==
    /\ reader.at \in DOMAIN Listed /\ ~AtLast(reader.at)
    /\ Proceeds(NextParses(reader.at),
                [reader EXCEPT !.left = Tail(@), !.seen = Seen(reader.at)])
    /\ UNCHANGED <<whole, torn, todo, open>>

ReadDrafts ==
    /\ AtLast("drafts")
    /\ Proceeds(NextParses("drafts") /\ DraftsAgree(reader.revs, Seen("drafts")),
                [at |-> "receipts", left |-> Listed["receipts"], seen |-> {},
                 revs |-> reader.revs, drafts |-> Seen("drafts")])
    /\ UNCHANGED <<whole, torn, todo, open>>

ReadReceipts ==
    /\ AtLast("receipts")
    /\ Proceeds(NextParses("receipts") /\ ReceiptsAgree(reader.drafts, Seen("receipts")),
                [at |-> "skips", left |-> Listed["skips"], seen |-> {}, revs |-> reader.revs,
                 drafts |-> reader.drafts, receipts |-> Seen("receipts")])
    /\ UNCHANGED <<whole, torn, todo, open>>

\* The last directories, the notices among them; then the timeline computes
\* from what was read, or raises although every directory was accepted.
ReadSkips ==
    /\ AtLast("skips")
    /\ Proceeds(/\ NextParses("skips") /\ SkipsAgree(reader.receipts, Seen("skips"))
                /\ Parses("user-notices")
                /\ NoticesAgree(reader.revs, Records("user-notices"))
                /\ ~RecordsValid(Tip(reader.revs), reader.revs, reader.drafts, reader.receipts,
                                 Seen("skips")),
                [at |-> "raised"])
    /\ UNCHANGED <<whole, torn, todo, open>>

(***************************************************************************)
(* What callers may ask for: their records were built from what they read  *)
(* of the tree at some time, so they may name a revision that is no longer *)
(* the tip, or come after another caller's.                                *)
(***************************************************************************)
Revisions == {[prev |-> p, track |-> f.track, status |-> f.status, measure |-> f.measure,
               due |-> f.due, at |-> f.at] :
                  p \in {None} \cup Records("revisions"), f \in Facts}
             \ {None}

Drafts == {[stage |-> s, rev |-> r, at |-> t] :
              s \in Prepared, r \in Records("revisions"), t \in Instants.draft}

Notices == {[notice |-> TRUE, rev |-> r] : r \in Records("revisions")}

Receipts == {[draft |-> d, at |-> t] : d \in Records("drafts"), t \in Instants.receipt}

Skips == {[stage |-> s, receipt |-> c, at |-> t] :
             s \in Skippable, c \in Records("receipts"), t \in Instants.skip}

Advisories == {[prev |-> p, state |-> s, rev |-> r] :
                  p \in {None} \cup Records("advisories"),
                  s \in DOMAIN AdvisoryTransitions, r \in Records("revisions")}
              \ {None}

\* Each append holds the lock from its checks to its last file.
Appends ==
    /\ todo = Idle
    /\ \/ Bootstrap
       \/ WithinBounds("revisions") /\ \E r \in Revisions : AppendEvent(r)
       \/ WithinBounds("drafts") /\ \E d \in Drafts : AppendDraft(d)
       \/ WithinBounds("user-notices") /\ \E n \in Notices : AppendNotice(n)
       \/ WithinBounds("receipts") /\ \E c \in Receipts : AppendReceipt(c)
       \/ WithinBounds("skips") /\ \E k \in Skips : AppendSkip(k)
       \/ WithinBounds("advisories") /\ \E a \in Advisories : AppendAdvisory(a)

Reads == ReadRevisions \/ ReadStage \/ ReadDrafts \/ ReadReceipts \/ ReadSkips

Next == Appends \/ Create \/ Write \/ FindsSame \/ Collides \/ Stops \/ Reads

Spec == Init /\ [][Next]_vars

-----------------------------------------------------------------------------
TypeOK ==
    /\ whole \cap torn = {}
    /\ open => todo # Idle /\ Head(todo) \in torn
    /\ reader.at \in {"idle", "drafts", "receipts", "skips", "raised"}

(***************************************************************************)
(* Whatever order the appends came in, from however stale callers, and     *)
(* whoever died on the way: unless a record file itself was left torn, the *)
(* tree reads, its advisories read, and the timeline accepts what it reads *)
(* although only writers keep receipts and skips apart.                    *)
(***************************************************************************)
RecordsAreWhole == \A p \in torn : p.dir \in Outbox

WholeTreeReads ==
    RecordsAreWhole /\ Records("revisions") # {} =>
        /\ StateReads /\ AdvisoryReads
        /\ RecordsValid(Tip(Records("revisions")), Records("revisions"), Records("drafts"),
                        Records("receipts"), Records("skips"))

\* A draft or notice record is on disk only when both its payloads are whole
\* there (append_draft: "payload bytes first and their exact draft record last").
PayloadsPrecedeRecords ==
    \A p \in whole \cup torn :
        p.dir \in {"drafts", "user-notices"} => PayloadsWhole(p.record)

\* The reader sees a mixture of moments.  What it accepts directory by
\* directory is a set of records the timeline accepts as one history.
MixedReadsAgree == reader.at # "raised"

Event == Tip(Records("revisions"))
Now(s) == StageState(Event, s, 0, Records("drafts"), Records("receipts"), Records("skips"))

Closed(s) ==
    IF Records("revisions") = {} \/ Now(s).state \notin {"submitted", "skipped"} THEN None
    ELSE <<Now(s).state, Now(s).at>>

\* The final deadline of an incident, once its notification is submitted or skipped.
IncidentDeadline ==
    IF Records("revisions") = {} THEN None
    ELSE IF Event.track # "incident" THEN None
    ELSE Deadline(Event, "final-report", Records("receipts"), Records("skips"))

\* The stages whose deadline no later record moves: not those that the measure
\* and the request of a revision set, nor a final report whose clock is not yet
\* running.
DeadlineFixed(s) ==
    s \in {"early-warning", "notification"} \/ (s = "final-report" /\ IncidentDeadline # None)

\* A stage that is submitted or skipped stays so, at the same time, and stays
\* late or in time once its deadline is fixed; and the final deadline of an
\* incident never moves once it is known: whatever revisions, drafts, receipts
\* and skips follow.
ReportedStays ==
    [][ /\ \A s \in Stages :
             Closed(s) # None =>
               /\ Closed(s)' = Closed(s)
               /\ DeadlineFixed(s) => Now(s).alert' = Now(s).alert
        /\ IncidentDeadline # None => IncidentDeadline' = IncidentDeadline ]_vars
=============================================================================
