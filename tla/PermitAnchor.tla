---------------------------- MODULE PermitAnchor ----------------------------
(***************************************************************************)
(* The permit anchor: the third file, which selects a prefix of the permit *)
(* ledger and a prefix of the effect journal and says what the two have to *)
(* do with each other (permit_anchor_journal_binding_v2.py,                *)
(* permit_anchor_records_v2.py, permit_anchor_prefix_v2.py and             *)
(* permit_anchor_store_v2.py under src/rigor_foundry), and which recovery  *)
(* of a damaged anchor or journal is complete                              *)
(* (recovery_anchor_intent_chain_v2.py and                                 *)
(* recovery_journal_intent_binding_v2.py).  The repository holds the       *)
(* verifier; the host that appends to the three files and the operator     *)
(* that recovers them are outside it.  Both may stop between any two steps *)
(* here and may write any record, so that the properties are those the     *)
(* verifier alone enforces.                                                *)
(*                                                                         *)
(* Files are chains, so a head digest is the length of the prefix it ends, *)
(* a frame digest is the frame's position and an intent digest the place   *)
(* of its publication; a record naming a digest that belongs to no prefix  *)
(* or intent is not among the inputs.                                      *)
(***************************************************************************)
EXTENDS JournalRules, FiniteSets

CONSTANTS
    JournalKinds,               \* kinds of journal frames the host appends
    MaxLedger, MaxJournal, MaxAnchor,   \* bounds of the model: records per file
    MaxEvidence,                        \* intents published,
    MaxWritten                          \* and rows, frames and intents together

ASSUME AnchorKindsAssumption == JournalKinds \subseteq Kinds
ASSUME AnchorBoundsAssumption == MaxLedger \in Nat /\ MaxJournal \in Nat /\ MaxEvidence \in Nat
\* A recovery row is told from a consumption by its type, whatever the permit is called.
ASSUME AnchorOpsAssumption == "recovery" \notin Ops

VARIABLES
    ledger,     \* consumed permits and "recovery" rows
    journal,    \* frames; an operation intent binds a ledger prefix, the audit
                \* of a tail recovery an intent
    anchor,     \* records after the genesis record
    torn,       \* the fragment the anchor ends in: none, or a set of the one
                \* intent its record names, 0 for a record of another kind
    jtorn,      \* the fragment the journal ends in, none or a set of one
    evidence    \* the intents in the order of their publication

anchorVars == <<ledger, journal, anchor, torn, jtorn, evidence>>
files == <<ledger, journal, anchor>>

-----------------------------------------------------------------------------
\* Record kinds, by the table of docs and permit_anchor_records_v2.
Ordinary == 0
FinalRecovery == 1
Adoption == 2
ClosureAnchor == 3

AnchorRecord == [kind : 0..3, count : 0..MaxLedger, journal : 0..MaxJournal,
                 event : 0..(MaxJournal + MaxEvidence)]

\* An intent names the file it is about, the anchor prefix it was published
\* under, its parent intent (0 for a root) and the fragment it captured; one
\* about the journal also the frames before the fragment.
RecoveryIntent(domain, parent, captured, frames) ==
    [domain |-> domain, at |-> Len(anchor), parent |-> parent,
     captured |-> captured, frames |-> frames]

\* What the verifier carries from record to record.
Genesis == [ok |-> TRUE, count |-> 0, journal |-> 0, seen |-> {},
            honoured |-> {}, adopted |-> {}, resolved |-> {}]

\* advance_anchor_selection: which boundaries a record of each kind may move.
Advances(s, r) ==
    CASE r.kind = Ordinary -> r.count \in {s.count, s.count + 1} /\ r.journal # s.journal
      [] r.kind = FinalRecovery -> r.count = s.count /\ r.journal = s.journal
      [] r.kind = Adoption -> r.count > s.count /\ r.count <= Len(ledger)
      [] r.kind = ClosureAnchor -> r.count = s.count /\ r.journal # s.journal

Segment(s, r) == (s.journal + 1)..r.journal
NewIntents(s, r) == {k \in Segment(s, r) : journal[k].kind = "operation-intent"}

\* The intent at frame k is the one the consumption in row c admits.
Matches(k, c) == ledger[c] = journal[k].op /\ journal[k].binds = c

\* An intent of a permit is selected once.
IntentsAreNew(s, r) ==
    /\ \A k \in NewIntents(s, r) : journal[k].op \notin s.seen
    /\ \A j, k \in NewIntents(s, r) : journal[j].op = journal[k].op => j = k

OrdinaryBinds(s, r) ==
    IF r.count = s.count THEN NewIntents(s, r) = {}
    ELSE /\ r.count <= Len(ledger) /\ ledger[r.count] \in Ops
         /\ NewIntents(s, r) = {r.journal}
         /\ Matches(r.journal, r.count)

\* Mutant: an adoption takes the intent of any consumption, adopted before or not.
AdoptionOfAnyRow(s, r) ==
    \A k \in NewIntents(s, r) : \E c \in 1..r.count : Matches(k, c)

AdoptionBinds(s, r) ==
    \A k \in NewIntents(s, r) : \E c \in (s.count + 1)..r.count : Matches(k, c)

ClosureBinds(s, r) ==
    /\ NewIntents(s, r) = {}
    /\ journal[r.journal].kind \in Closures
    /\ r.event = r.journal /\ r.event \notin s.honoured
    /\ journal[r.journal].op \in s.seen

-----------------------------------------------------------------------------
(* The intents of recoveries.                                              *)

Of(domain) == {i \in DOMAIN evidence : evidence[i].domain = domain}

Boundary(n) == {i \in Of("anchor") : evidence[i].at = n}

ParentsDiffer(is) ==
    \A i, j \in is : evidence[i].parent = evidence[j].parent => i = j

\* Mutant: a recovery commits to the root alone.
ResolvesRootOnly(last, n) ==
    /\ last \in Boundary(n) /\ evidence[last].parent = 0
    /\ ParentsDiffer(Boundary(n))

\* verify_anchor_intent_chain: the intents at one boundary are one chain from a
\* single root to the last, each child the capture of a torn recovery record
\* that named its parent.
Resolves(last, n) ==
    /\ last \in Boundary(n)
    /\ ParentsDiffer(Boundary(n))
    /\ \A i \in Boundary(n) :
         /\ evidence[i].parent \in (Boundary(n) \cup {0}) \ {last}
         /\ evidence[i].parent # 0 => evidence[i].captured = evidence[i].parent

Audits(i, sel) ==
    {k \in 1..sel : journal[k].kind = "leaf" /\ journal[k].binds = i}

Unaudited(sel) == {i \in Of("journal") : Audits(i, sel) = {}}

\* unresolved_journal_intents: every intent was published under a head of this
\* chain and audited at most once; those not audited inside the selection have
\* their own parents and fragments.
JournalIntentsBind(heads, sel) ==
    /\ \A i \in Of("journal") :
         evidence[i].at \in heads /\ \A j, k \in Audits(i, sel) : j = k
    /\ LET live == Unaudited(sel)
       IN  /\ ParentsDiffer({i \in live : evidence[i].parent # 0})
           /\ \A i, j \in live :
                evidence[i].captured = evidence[j].captured
                  /\ evidence[i].frames = evidence[j].frames => i = j

-----------------------------------------------------------------------------
\* One record of the chain: every check the verifiers make of it.
Binds(s, r, boundary) ==
    /\ s.ok
    /\ Advances(s, r)
    /\ r.journal >= s.journal /\ r.journal <= Len(journal)
    /\ IntentsAreNew(s, r)
    /\ CASE r.kind = Ordinary -> OrdinaryBinds(s, r)
         [] r.kind = FinalRecovery -> Resolves(r.event, boundary)
         [] r.kind = Adoption -> AdoptionBinds(s, r)
         [] r.kind = ClosureAnchor -> ClosureBinds(s, r)

Successor(s, r, boundary) ==
    [s EXCEPT
       !.count = r.count, !.journal = r.journal,
       !.seen = @ \cup {journal[k].op : k \in NewIntents(s, r)},
       !.honoured = IF r.kind = ClosureAnchor THEN @ \cup {r.event} ELSE @,
       !.adopted = IF r.kind = Adoption THEN @ \cup (s.count + 1)..r.count ELSE @,
       !.resolved = IF r.kind = FinalRecovery THEN @ \cup Boundary(boundary) ELSE @]

\* The selection of a chain of records; a record that fails ends it.
Selection(a) ==
    LET at[n \in 0..Len(a)] ==
          IF n = 0 THEN Genesis
          ELSE LET s == at[n - 1]
               IN  IF Binds(s, a[n], n - 1) THEN Successor(s, a[n], n - 1)
                   ELSE [s EXCEPT !.ok = FALSE]
    IN  at[Len(a)]

\* verify_anchor_prefix: the whole journal is replayed under the selection.
Verified(a) ==
    LET s == Selection(a)
    IN  /\ s.ok
        /\ JournalIntentsBind(0..Len(a), s.journal)
        /\ Legal(journal, s.honoured, s.journal)

Retained(a) == IF a = <<>> THEN a ELSE SubSeq(a, 1, Len(a) - 1)

\* No intent waits for its recovery to be completed.
NonePending(s) == Of("anchor") \subseteq s.resolved /\ Unaudited(s.journal) = {}

\* Mutant: rows past the selection are not noticed.
CurrentIgnoresSuffix ==
    /\ Verified(Retained(anchor)) /\ Verified(anchor)
    /\ NonePending(Selection(anchor))
    /\ torn = {} /\ jtorn = {}

\* current: the reader returns a selection instead of refusing.
Current ==
    /\ Verified(Retained(anchor)) /\ Verified(anchor)
    /\ NonePending(Selection(anchor))
    /\ torn = {} /\ jtorn = {}
    /\ Len(ledger) = Selection(anchor).count

-----------------------------------------------------------------------------
\* What may still be written in one behaviour, anchor records apart.
Room == Len(ledger) + Len(journal) + Len(evidence) < MaxWritten

AnchorInit ==
    /\ ledger = <<>> /\ journal = <<>> /\ anchor = <<>>
    /\ torn = {} /\ jtorn = {} /\ evidence = <<>>

\* The ledger consumes each permit once (module PermitLedger).
Consume(o) ==
    /\ Room /\ Len(ledger) < MaxLedger
    /\ \A c \in 1..Len(ledger) : ledger[c] # o
    /\ ledger' = Append(ledger, o)
    /\ UNCHANGED <<journal, anchor, torn, jtorn, evidence>>

RecoverLedger ==
    /\ Room /\ Len(ledger) < MaxLedger
    /\ ledger' = Append(ledger, "recovery")
    /\ UNCHANGED <<journal, anchor, torn, jtorn, evidence>>

\* append_from_host checks the frame and the chain, not the operation's state.
AppendFrame(frame) ==
    /\ Room /\ Len(journal) < MaxJournal /\ jtorn = {}
    /\ journal' = Append(journal, frame)
    /\ UNCHANGED <<ledger, anchor, torn, jtorn, evidence>>

Frame(kind, o, part, binds) ==
    [kind |-> kind, op |-> o, part |-> part, binds |-> binds]

\* The audit frame of a recovery of the journal's tail.
Audit(i) == [kind |-> "leaf", op |-> "recovery", part |-> 0, binds |-> i]

\* A record that verifies extends the chain.
AppendAnchor(r) ==
    /\ Len(anchor) < MaxAnchor /\ torn = {}
    /\ Verified(Append(anchor, r))
    /\ anchor' = Append(anchor, r)
    /\ UNCHANGED <<ledger, journal, torn, jtorn, evidence>>

\* A fragment of a killed append, or a whole record that does not verify: to a
\* reader both are damage at the end of the file.
TearAnchor(named) ==
    /\ Len(anchor) < MaxAnchor /\ torn = {}
    /\ torn' = {named}
    /\ UNCHANGED <<files, jtorn, evidence>>

TearJournal(fragment) ==
    /\ Len(journal) < MaxJournal /\ jtorn = {}
    /\ jtorn' = {fragment}
    /\ UNCHANGED <<files, torn, evidence>>

\* The operator publishes the damaged bytes before cutting them.
PublishIntent(domain, parent) ==
    /\ Room /\ Len(evidence) < MaxEvidence
    /\ \E captured \in IF domain = "anchor" THEN torn ELSE jtorn :
         evidence' = Append(evidence,
             RecoveryIntent(domain, parent, captured,
                     IF domain = "journal" THEN Len(journal) ELSE 0))
    /\ UNCHANGED <<files, torn, jtorn>>

Captured(domain, fragment) ==
    \E i \in Of(domain) : evidence[i].captured \in fragment
      /\ IF domain = "anchor" THEN evidence[i].at = Len(anchor)
         ELSE evidence[i].frames = Len(journal)

\* Mutant: the last good record is cut with the fragment.
CutGood ==
    /\ Captured("anchor", torn)
    /\ anchor' = Retained(anchor)
    /\ torn' = {}
    /\ UNCHANGED <<ledger, journal, jtorn, evidence>>

CutTail ==
    /\ Captured("anchor", torn)
    /\ torn' = {}
    /\ UNCHANGED <<files, jtorn, evidence>>

CutJournal ==
    /\ Captured("journal", jtorn)
    /\ jtorn' = {}
    /\ UNCHANGED <<files, torn, evidence>>

\* The host anchors bytes it has written, as its own verifier takes them.
AnchorInputs ==
    LET s == Selection(anchor)
    IN  {r \in AnchorRecord :
           /\ r.count <= Len(ledger) /\ r.journal <= Len(journal)
           /\ CASE r.kind = ClosureAnchor -> r.event > 0
                [] r.kind = FinalRecovery -> r.event \in Of("anchor")
                [] OTHER -> r.event = 0
           /\ Binds(s, r, Len(anchor))}

\* The whole journal replays under the selection.
Replays == LET s == Selection(anchor) IN Legal(journal, s.honoured, s.journal)

\* An intent some record completed or may still complete.
Completable(i) ==
    \/ i \in Selection(anchor).resolved
    \/ /\ evidence[i].at = Len(anchor)
       /\ \E last \in Boundary(Len(anchor)) : Resolves(last, Len(anchor))

\* Bound: nothing follows a state the verifier refuses, or one with an intent
\* no record can complete.
Proceeds == Verified(anchor) /\ \A i \in Of("anchor") : Completable(i)

\* Bound: one file is damaged at a time, and the writers wait for its repair.
Whole == torn = {} /\ jtorn = {}

AnchorNext ==
    /\ Proceeds
    /\ \/ Whole /\
             \/ \E o \in Ops : Consume(o)
             \/ RecoverLedger
             \/ \E kind \in JournalKinds, o \in Ops :
                  \E c \in IF kind = "operation-intent" THEN 1..Len(ledger) ELSE {0} :
                    AppendFrame(Frame(kind, o, IF kind \in Effects THEN 1 ELSE 0, c))
             \/ \E i \in Of("journal") : AppendFrame(Audit(i))
             \/ \E r \in AnchorInputs : AppendAnchor(r)
             \/ \E named \in Boundary(Len(anchor)) \cup {0} : TearAnchor(named)
             \/ \E fragment \in 1..(Cardinality(Of("journal")) + 1) : TearJournal(fragment)
       \/ \E domain \in {"anchor", "journal"} :
            \E parent \in Of(domain) \cup {0} : PublishIntent(domain, parent)
       \/ CutTail \/ CutJournal

AnchorSpec == AnchorInit /\ [][AnchorNext]_anchorVars

-----------------------------------------------------------------------------
(* Properties.                                                             *)

SelectedIntents(s) == {k \in 1..s.journal : journal[k].kind = "operation-intent"}

\* The consumption in row c is adopted, or admitted with its operation intent.
Accounted(s, c) == c \in s.adopted \/ \E k \in SelectedIntents(s) : Matches(k, c)

\* current: what a reader gets accounts for every row of the ledger file, an
\* operation it calls closed has no later effect in any part of the journal,
\* and every damage that was published is recorded where it was cut: in the
\* anchor at its boundary, in the journal by one selected frame behind it.
CurrentIsComplete ==
    Current =>
      LET s == Selection(anchor)
      IN  /\ \A c \in 1..Len(ledger) : Accounted(s, c)
          /\ \A k \in s.honoured : \A j \in Events(journal, journal[k].op) :
               j > k => journal[j].kind = "status"
          /\ \A i \in Of("anchor") : anchor[evidence[i].at + 1].kind = FinalRecovery
          /\ \A i \in Of("journal") :
               \E k \in (evidence[i].frames + 1)..s.journal : Audits(i, s.journal) = {k}

\* current: a permit whose consumption was adopted without an operation intent
\* never starts, although the host may write the intent late.
AdoptionIsFinal ==
    [][LET s == Selection(anchor)
           never == {c \in s.adopted : ledger[c] \in Ops \ s.seen}
       IN  never # {} => LET next == Selection(anchor)'
                         IN  \A c \in never : ledger[c] \notin next.seen]_anchorVars

\* verify_anchor_prefix: no append, damage, publication or recovery takes back
\* an honoured closure or a selected boundary, or makes a chain that was
\* selected fail.
SelectionOnlyGrows ==
    [][LET s == Selection(anchor)
           next == Selection(anchor)'
       IN  /\ next.ok
           /\ s.honoured \subseteq next.honoured
           /\ s.count <= next.count /\ s.journal <= next.journal]_anchorVars

\* What a host that keeps the order consume, intent, anchor leaves behind when
\* it stops: intents past the selection bind rows past it, one each.
HostInOrder ==
    LET s == Selection(anchor)
        late == {k \in (s.journal + 1)..Len(journal) : journal[k].kind = "operation-intent"}
    IN  /\ \A k \in late : \E c \in (s.count + 1)..Len(ledger) : Matches(k, c)
        /\ Replays

Last(is) == CHOOSE i \in is : \A j \in is : j <= i

\* What an operator leaves behind that cuts what it published and publishes the
\* next damage with the last intent as its parent: in the anchor when its own
\* record was torn, in the journal when its audit frame was; a recovery of the
\* journal that is not of its own frame is begun when the last one is audited.
OperatorInOrder ==
    /\ torn = {} /\ jtorn = {}
    /\ \A i \in Of("anchor") :
         LET before == {j \in Boundary(evidence[i].at) : j < i}
         IN  /\ i \in Selection(anchor).resolved \/ evidence[i].at = Len(anchor)
             /\ IF before = {} THEN evidence[i].parent = 0
                ELSE evidence[i].parent = Last(before) /\ evidence[i].captured = Last(before)
    /\ \A i \in Of("journal") :
         LET before == {j \in Of("journal") : j < i}
         IN  /\ \E k \in 1..Len(journal) : Audits(i, Len(journal)) = {k}
             /\ \/ \A j \in before : Audits(j, evidence[i].frames) # {}
                \/ /\ evidence[i].parent = Last(before)
                   /\ \A j \in before : evidence[i].captured # evidence[j].captured

\* The records that complete what was begun: the commitment to the last intent
\* published at the end of the anchor, and an adoption of the ledger's suffix,
\* or else an advance to the end of the journal.
Completed ==
    LET s == Selection(anchor)
        pending == Of("anchor") \ s.resolved
        Anchors(kind, count, at, event) ==
            [kind |-> kind, count |-> count, journal |-> at, event |-> event]
    IN  (IF pending = {} THEN anchor
         ELSE Append(anchor, Anchors(FinalRecovery, s.count, s.journal,
                                    Last(pending))))
        \o (IF Len(ledger) > s.count THEN <<Anchors(Adoption, Len(ledger), Len(journal), 0)>>
            ELSE IF Len(journal) > s.journal THEN <<Anchors(Ordinary, s.count, Len(journal), 0)>>
            ELSE <<>>)

\* current: wherever the host and the operator stop - between the three files,
\* between publication, cut and commitment, in a recovery of a recovery - at
\* most two more anchor records let the reader return again.
StopIsRecoverable ==
    HostInOrder /\ OperatorInOrder =>
      /\ Verified(Completed) /\ Verified(Retained(Completed))
      /\ NonePending(Selection(Completed))
      /\ Selection(Completed).count = Len(ledger)
=============================================================================
