----------------------------- MODULE MCCraStore -----------------------------
(* Small instances of CraStore: a day is one instant, the month is two.    *)
EXTENDS CraStore

Declares(track, status, measure, due, at) ==
    [track |-> track, status |-> status, measure |-> measure, due |-> due, at |-> at]

\* An incident, its closure with an intermediate request, and a vulnerability
\* that is fixed, declared once or twice.
MCFacts == {Declares("incident", "triaged", None, None, 1),
            Declares("incident", "closed", None, 2, 2),
            Declares("vulnerability", "fix-available", 1, None, 1),
            Declares("vulnerability", "fix-available", 1, None, 2)}

\* A skip in time and a late one.
MCInstants == [draft |-> {1}, receipt |-> {2}, skip |-> {1, 5}]

Most(revisions, drafts, receipts, skips, notices, advisories) ==
    [d \in {"revisions", "drafts", "receipts", "skips", "user-notices", "advisories"} |->
        CASE d = "revisions"    -> revisions
          [] d = "drafts"       -> drafts
          [] d = "receipts"     -> receipts
          [] d = "skips"        -> skips
          [] d = "user-notices" -> notices
          [] d = "advisories"   -> advisories]

\* Reports under one revision, reports while the event is revised, and notices
\* and advisories beside them.
MCProfiles == {Most(1, 2, 2, 1, 0, 0), Most(2, 2, 1, 1, 0, 0), Most(2, 1, 1, 0, 1, 0),
               Most(2, 1, 0, 0, 0, 2)}
=============================================================================
