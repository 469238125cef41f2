--------------------------- MODULE CraStoreProofs ---------------------------
(***************************************************************************)
(* Proofs about CraStore for any declarations, instants and bounds.        *)
(* StoreInv is inductive: whatever the holder of the lock still has to     *)
(* write, a draft or notice record is the last of it and its payloads are  *)
(* before it or on disk already.  TreeInv adds that the whole records are  *)
(* one history, even beside torn ones, that the record which comes last    *)
(* fits into it, and what a reader without the lock has accepted.          *)
(***************************************************************************)
EXTENDS CraStore, SequenceTheorems, FiniteSetTheorems, TLAPS

RecordDirs == {"drafts", "user-notices"}
Json(d) == In("outbox-json", d)
Markdown(d) == In("outbox-markdown", d)

RecordLast ==
    \/ todo = <<>>
    \/ \E f : todo = <<f>> /\ (f.dir \in RecordDirs => PayloadsWhole(f.record))
    \/ \E dir \in RecordDirs : \E d :
         \/ todo = <<Markdown(d), In(dir, d)>> /\ Json(d) \in whole
         \/ todo = <<Json(d), Markdown(d), In(dir, d)>>

StoreInv == TypeOK /\ PayloadsPrecedeRecords /\ RecordLast

-----------------------------------------------------------------------------
\* The files of a draft or of a notice are its payloads and then its record.
LEMMA PayloadsThenRecord ==
  \A dir, d : Payloads(d) \o <<In(dir, d)>> = <<Json(d), Markdown(d), In(dir, d)>>
  <1> TAKE dir, d
  <1> DEFINE S == {Json(d), Markdown(d), In(dir, d)}
             two == <<Json(d), Markdown(d)>>
             last == <<In(dir, d)>>
             all == <<Json(d), Markdown(d), In(dir, d)>>
  <1>1. two \in Seq(S) /\ last \in Seq(S) /\ all \in Seq(S)
    OBVIOUS
  <1>2. /\ Len(two) = 2 /\ two[1] = Json(d) /\ two[2] = Markdown(d)
        /\ Len(last) = 1 /\ last[1] = In(dir, d)
        /\ Len(all) = 3 /\ all[1] = Json(d) /\ all[2] = Markdown(d) /\ all[3] = In(dir, d)
    OBVIOUS
  <1> HIDE DEF S, two, last, all
  <1>3. /\ two \o last \in Seq(S) /\ Len(two \o last) = 3
        /\ \A i \in 1..3 : (two \o last)[i] = IF i <= 2 THEN two[i] ELSE last[i - 2]
    <2>1. /\ two \o last \in Seq(S) /\ Len(two \o last) = Len(two) + Len(last)
          /\ \A i \in 1 .. Len(two) + Len(last) :
               (two \o last)[i] = IF i <= Len(two) THEN two[i] ELSE last[i - Len(two)]
      BY <1>1, ConcatProperties, Zenon
    <2> QED BY <1>2, <2>1
  <1>4. \A i \in 1..3 : (two \o last)[i] = all[i]
    <2> TAKE i \in 1..3
    <2>1. i = 1 \/ i = 2 \/ i = 3
      OBVIOUS
    <2> QED BY <1>2, <1>3, <2>1
  <1>5. two \o last = all
    BY <1>1, <1>2, <1>3, <1>4, SeqEqual
  <1> QED BY <1>5 DEF Payloads, Json, Markdown, two, last, all

\* What is left of each shape when its first file is done.
LEMMA Shapes ==
  /\ \A f : Head(<<f>>) = f /\ Tail(<<f>>) = <<>> /\ <<f>> # <<>>
  /\ \A f, g : Head(<<f, g>>) = f /\ Tail(<<f, g>>) = <<g>> /\ <<f, g>> # <<>>
  /\ \A f, g, h : Head(<<f, g, h>>) = f /\ Tail(<<f, g, h>>) = <<g, h>> /\ <<f, g, h>> # <<>>
  OBVIOUS

\* The tree of an event starts empty.
LEMMA InvInit == Init => StoreInv
  BY DEF Init, StoreInv, TypeOK, PayloadsPrecedeRecords, RecordLast, Idle, NotReading

\* An append begins with its record last.
LEMMA AppendStep ==
  ASSUME StoreInv, Appends
  PROVE  StoreInv'
  <1> USE DEF StoreInv
  <1> DEFINE Last(files) ==
               \/ \E f : files = <<f>> /\ f.dir \notin RecordDirs
               \/ \E dir \in RecordDirs : \E d : files = Payloads(d) \o <<In(dir, d)>>
  <1>1. PICK files : /\ todo = Idle /\ todo' = files /\ Last(files)
                     /\ UNCHANGED <<torn, open, reader>> /\ whole' \cap torn = {}
                     /\ whole \subseteq whole' /\ whole' \subseteq whole \cup {Storage}
    <2>1. \A dir, r : In(dir, r).dir = dir
      BY DEF In
    <2>2. \A dir, r : dir \notin RecordDirs => Last(<<In(dir, r)>>)
      BY <2>1
    <2>3. \A dir \in RecordDirs : \A d : Last(Payloads(d) \o <<In(dir, d)>>)
      OBVIOUS
    <2> HIDE DEF Last
    <2>4. CASE Bootstrap
      <3>1. Last(<<Registration>>)
        BY DEF Last, Registration, RecordDirs
      <3>2. todo = Idle
        BY DEF Appends
      <3>3. whole' \cap torn = {}
        BY <2>4 DEF Bootstrap, TypeOK
      <3> QED BY <2>4, <3>1, <3>2, <3>3 DEF Bootstrap
    <2>5. ASSUME NEW r \in Revisions, AppendEvent(r) PROVE \E files : Begin(files) /\ Last(files)
      BY <2>5, <2>2 DEF AppendEvent, RecordDirs
    <2>6. ASSUME NEW d \in Drafts, AppendDraft(d) PROVE \E files : Begin(files) /\ Last(files)
      BY <2>6, <2>3 DEF AppendDraft, RecordDirs
    <2>7. ASSUME NEW n \in Notices, AppendNotice(n) PROVE \E files : Begin(files) /\ Last(files)
      BY <2>7, <2>3 DEF AppendNotice, RecordDirs
    <2>8. ASSUME NEW c \in Receipts, AppendReceipt(c) PROVE \E files : Begin(files) /\ Last(files)
      BY <2>8, <2>2 DEF AppendReceipt, RecordDirs
    <2>9. ASSUME NEW k \in Skips, AppendSkip(k) PROVE \E files : Begin(files) /\ Last(files)
      BY <2>9, <2>2 DEF AppendSkip, RecordDirs
    <2>10. ASSUME NEW a \in Advisories, AppendAdvisory(a)
           PROVE  \E files : Begin(files) /\ Last(files)
      BY <2>10, <2>2 DEF AppendAdvisory, RecordDirs
    <2>11. CASE \E files : Begin(files) /\ Last(files)
      <3>1. todo = Idle
        BY DEF Appends
      <3> QED BY <2>11, <3>1 DEF Begin, TypeOK
    <2> QED BY <2>4, <2>5, <2>6, <2>7, <2>8, <2>9, <2>10, <2>11 DEF Appends
  <1>2. RecordLast'
    BY <1>1, PayloadsThenRecord DEF RecordLast
  <1>3. PayloadsPrecedeRecords'
    <2>1. Storage.dir \notin {"drafts", "user-notices"}
      BY DEF Storage, In
    <2> QED BY <1>1, <2>1 DEF PayloadsPrecedeRecords, PayloadsWhole
  <1>4. TypeOK'
    BY <1>1 DEF TypeOK
  <1> QED BY <1>2, <1>3, <1>4

\* Once its first file is whole, what is left to write still has its record
\* last; and a record comes first only when its payloads are whole.
LEMMA HeadDone ==
  ASSUME StoreInv, todo # Idle, whole \subseteq whole', Head(todo) \in whole',
         todo' = Tail(todo)
  PROVE  RecordLast'
  <1>1. \A d : PayloadsWhole(d)' <=> Json(d) \in whole' /\ Markdown(d) \in whole'
    <2> TAKE d
    <2>1. Payloads(d)[1] = Json(d) /\ Payloads(d)[2] = Markdown(d)
      BY DEF Payloads, Json, Markdown
    <2>2. 1..2 = {1, 2}
      OBVIOUS
    <2> QED BY <2>1, <2>2 DEF PayloadsWhole
  <1>2. CASE \E f : todo = <<f>>
    BY <1>2, Shapes DEF RecordLast
  <1>3. ASSUME NEW dir \in RecordDirs, NEW d,
               todo = <<Markdown(d), In(dir, d)>>, Json(d) \in whole
        PROVE  RecordLast'
    <2>1. todo' = <<In(dir, d)>> /\ Markdown(d) \in whole' /\ Json(d) \in whole'
      BY <1>3, Shapes
    <2>2. In(dir, d).record = d
      BY DEF In
    <2> QED BY <1>1, <2>1, <2>2 DEF RecordLast
  <1>4. ASSUME NEW dir \in RecordDirs, NEW d, todo = <<Json(d), Markdown(d), In(dir, d)>>
        PROVE  RecordLast'
    <2>1. todo' = <<Markdown(d), In(dir, d)>> /\ Json(d) \in whole'
      BY <1>4, Shapes
    <2> QED BY <2>1 DEF RecordLast
  <1> QED BY <1>2, <1>3, <1>4 DEF StoreInv, RecordLast, Idle

\* A file that is next to be written and is a record has its payloads.
LEMMA HeadReady ==
  ASSUME StoreInv, todo # Idle, Head(todo).dir \in RecordDirs
  PROVE  PayloadsWhole(Head(todo).record)
  <1>1. \A d : Json(d).dir \notin RecordDirs /\ Markdown(d).dir \notin RecordDirs
    BY DEF Json, Markdown, In, RecordDirs
  <1> QED BY <1>1, Shapes DEF StoreInv, RecordLast, Idle

\* Whole files stay whole, and a file that is newly created or written is next
\* on the list: the payloads of every record on disk stay in front of it.
LEMMA RecordsKeepPayloads ==
  ASSUME StoreInv, todo # Idle, whole \subseteq whole',
         whole' \cup torn' \subseteq whole \cup torn \cup {Head(todo)}
  PROVE  PayloadsPrecedeRecords'
  <1>1. \A d : PayloadsWhole(d) => PayloadsWhole(d)'
    BY DEF PayloadsWhole
  <1>2. \A p \in whole \cup torn \cup {Head(todo)} :
          p.dir \in RecordDirs => PayloadsWhole(p.record)
    BY HeadReady DEF StoreInv, PayloadsPrecedeRecords, RecordDirs
  <1> QED BY <1>1, <1>2 DEF PayloadsPrecedeRecords, RecordDirs

\* Every step keeps the inductive invariant.
LEMMA InvStep == StoreInv /\ [Next]_vars => StoreInv'
  <1> SUFFICES ASSUME StoreInv, [Next]_vars PROVE StoreInv'
    OBVIOUS
  <1> USE DEF StoreInv
  <1>1. CASE Appends
    BY <1>1, AppendStep
  <1>2. CASE Create
    <2>1. PayloadsPrecedeRecords'
      BY <1>2, RecordsKeepPayloads DEF Create
    <2>2. RecordLast'
      BY <1>2 DEF Create, RecordLast, PayloadsWhole
    <2> QED BY <1>2, <2>1, <2>2 DEF Create, TypeOK
  <1>3. CASE Write
    <2>1. todo # Idle /\ Head(todo) \in torn
      BY <1>3 DEF Write, TypeOK
    <2>2. PayloadsPrecedeRecords'
      BY <1>3, <2>1, RecordsKeepPayloads DEF Write
    <2>3. RecordLast'
      BY <1>3, <2>1, HeadDone DEF Write
    <2> QED BY <1>3, <2>1, <2>2, <2>3 DEF Write, TypeOK
  <1>4. CASE FindsSame
    <2>1. PayloadsPrecedeRecords'
      BY <1>4, RecordsKeepPayloads DEF FindsSame
    <2>2. RecordLast'
      BY <1>4, HeadDone DEF FindsSame
    <2> QED BY <1>4, <2>1, <2>2 DEF FindsSame, TypeOK
  <1>5. CASE Collides \/ Stops
    <2>1. todo # Idle /\ todo' = Idle /\ ~open' /\ UNCHANGED <<whole, torn, reader>>
      BY <1>5 DEF Collides, Stops, TypeOK
    <2>2. PayloadsPrecedeRecords'
      BY <2>1, RecordsKeepPayloads
    <2> QED BY <2>1, <2>2 DEF RecordLast, Idle, TypeOK
  <1>6. CASE Reads
    <2>1. UNCHANGED <<whole, torn, todo, open>>
      BY <1>6 DEF Reads, ReadRevisions, ReadStage, ReadDrafts, ReadReceipts, ReadSkips
    <2>2. reader'.at \in {"idle", "drafts", "receipts", "skips", "raised"}
      <3>1. CASE ReadStage
        BY <3>1 DEF ReadStage, Listed, Proceeds, NotReading, TypeOK
      <3> QED BY <1>6, <3>1 DEF Reads, ReadRevisions, ReadDrafts, ReadReceipts, ReadSkips,
              Proceeds, NotReading
    <2> QED BY <2>1, <2>2 DEF TypeOK, PayloadsPrecedeRecords, RecordLast, PayloadsWhole
  <1>7. CASE UNCHANGED vars
    BY <1>7 DEF vars, TypeOK, PayloadsPrecedeRecords, RecordLast, PayloadsWhole
  <1> QED BY <1>1, <1>2, <1>3, <1>4, <1>5, <1>6, <1>7 DEF Next

\* The inductive invariant holds in every behaviour of the tree.
LEMMA Invariance == Spec => []StoreInv
  BY InvInit, InvStep, PTL DEF Spec

\* append_draft, append_user_notice: whatever appends are cut short, retried or
\* refused, a record on disk never lacks a payload it names, for every set of
\* declarations and instants and any number of records.
THEOREM RecordsHavePayloads == Spec => []PayloadsPrecedeRecords
  <1>1. StoreInv => PayloadsPrecedeRecords
    BY DEF StoreInv
  <1> QED BY Invariance, <1>1, PTL
-----------------------------------------------------------------------------
(* What the record directories hold, and what the file that comes last fits *)
(* into, whatever was left torn beside them.                                *)

Revs == Records("revisions")
Drs == Records("drafts")
Recs == Records("receipts")
Sks == Records("skips")
Nots == Records("user-notices")
Advs == Records("advisories")

Named == \A p \in whole : p.dir # "registrations" => p = In(p.dir, p.record)

IsTip(S, t) == t \in S /\ \A q \in S : q.prev # t

\* One chain, with one end.
Chained(S) ==
    /\ None \notin S
    /\ S # {} => OneChain(S) /\ \E t \in S : \A u \in S : IsTip(S, u) <=> u = t

RevisionsFollow ==
    Chained(Revs) /\ \A r \in Revs : ~Root(r) => ValidSuccessor(r.prev, r)

DraftsFollow == SingleByStage(Drs) /\ \A d \in Drs : d.rev \in Revs
ReceiptsFollow == OneReceiptByStage(Recs) /\ \A c \in Recs : c.draft \in Drs
SkipsFollow ==
    /\ SingleByStage(Sks)
    /\ \A k \in Sks : SkipBinds(k, Recs) /\ \A c \in Recs : StageOf(c) # k.stage
NoticesFollow == \A n \in Nots : n.rev \in Revs
AdvisoriesFollow ==
    /\ Chained(Advs)
    /\ \A a \in Advs : a.rev \in Revs /\ (~Root(a) => AdvisorySucceeds(a.prev, a))

Consistent ==
    /\ Named /\ RevisionsFollow /\ DraftsFollow /\ ReceiptsFollow /\ SkipsFollow
    /\ NoticesFollow /\ AdvisoriesFollow

\* The record p may be added to those of its directory.
Fits(p) ==
    /\ p.dir # "registrations" => p = In(p.dir, p.record)
    /\ p.dir = "revisions" =>
         /\ p.record # None
         /\ IF Revs = {} THEN Root(p.record) ELSE ValidSuccessor(Tip(Revs), p.record)
    /\ p.dir = "drafts" =>
         p.record.rev \in Revs /\ \A x \in Drs : x.stage # p.record.stage
    /\ p.dir = "receipts" =>
         /\ p.record.draft \in Drs
         /\ \A x \in Recs : StageOf(x) # StageOf(p.record)
         /\ \A k \in Sks : k.stage # StageOf(p.record)
    /\ p.dir = "skips" =>
         /\ SkipBinds(p.record, Recs)
         /\ \A c \in Recs : StageOf(c) # p.record.stage
         /\ \A x \in Sks : x.stage # p.record.stage
    /\ p.dir = "user-notices" => p.record.rev \in Revs
    /\ p.dir = "advisories" =>
         /\ p.record # None /\ p.record.rev \in Revs
         /\ IF Advs = {} THEN Root(p.record) ELSE AdvisorySucceeds(Tip(Advs), p.record)

Last(s) == s[Len(s)]
LastFits == todo # Idle => Fits(Last(todo))

\* What the reader has accepted was read of this tree.
ReaderAgrees ==
    /\ reader.at \in {"drafts", "receipts", "skips"} =>
         /\ reader.revs # {} /\ Chained(reader.revs)
    /\ reader.at \in {"receipts", "skips"} =>
         SingleByStage(reader.drafts) /\ \A d \in reader.drafts : d.rev \in reader.revs
    /\ reader.at = "receipts" => reader.seen \subseteq Recs
    /\ reader.at = "skips" =>
         /\ reader.seen \subseteq Sks /\ reader.receipts \subseteq Recs
         /\ OneReceiptByStage(reader.receipts)
         /\ \A c \in reader.receipts : c.draft \in reader.drafts
    /\ reader.at # "raised"

TreeInv == StoreInv /\ Consistent /\ LastFits /\ ReaderAgrees

-----------------------------------------------------------------------------
(* The records of the tree are those of one history.                       *)

\* Files are named apart, and only a record is named after its directory.
LEMMA Names ==
  /\ \A dir, r : In(dir, r).dir = dir /\ In(dir, r).record = r
  /\ Registration.dir = "registrations"
  /\ \A d : Json(d).dir = "outbox-json" /\ Markdown(d).dir = "outbox-markdown"
            /\ Json(d) = In("outbox-json", d) /\ Markdown(d) = In("outbox-markdown", d)
  BY DEF In, Registration, Json, Markdown

\* The last file of each shape.
LEMMA Lasts ==
  /\ \A f : Last(<<f>>) = f
  /\ \A f, g : Last(<<f, g>>) = g
  /\ \A f, g, h : Last(<<f, g, h>>) = h
  BY DEF Last

\* The end of a chain is its tip.
LEMMA TipOfChain ==
  ASSUME NEW S, Chained(S), S # {}
  PROVE  IsTip(S, Tip(S)) /\ \A u \in S : IsTip(S, u) <=> u = Tip(S)
  <1>1. PICK t \in S : \A u \in S : IsTip(S, u) <=> u = t
    BY DEF Chained
  <1>2. IsTip(S, t)
    BY <1>1
  <1>3. \E r \in S : \A q \in S : q.prev # r
    BY <1>2 DEF IsTip
  <1>4. Tip(S) \in S /\ \A q \in S : q.prev # Tip(S)
    BY <1>3 DEF Tip
  <1>5. IsTip(S, Tip(S))
    BY <1>4 DEF IsTip
  <1> QED BY <1>1, <1>4, <1>5

\* A record that names the end of a chain, or none if there is no chain yet,
\* makes a chain that ends with it.
LEMMA ChainGrows ==
  ASSUME NEW S, Chained(S), NEW r, r # None, r \notin S,
         IF S = {} THEN Root(r) ELSE r.prev = Tip(S)
  PROVE  Chained(S \cup {r}) /\ Tip(S \cup {r}) = r
  <1> DEFINE T == S \cup {r}
  <1>1. \A q \in T : q.prev # r
    <2>1. CASE S = {}
      BY <2>1 DEF Root
    <2>2. CASE S # {}
      <3>1. Tip(S) \in S
        BY <2>2, TipOfChain DEF IsTip
      <3>2. \A q \in S : q.prev \in S \cup {None}
        BY <2>2 DEF Chained, OneChain, Root
      <3> QED BY <2>2, <3>1, <3>2
    <2> QED BY <2>1, <2>2
  <1>2. \A u \in T : IsTip(T, u) <=> u = r
    <2>1. IsTip(T, r)
      BY <1>1 DEF IsTip
    <2>2. ASSUME NEW u \in S PROVE ~ IsTip(T, u)
      <3>1. CASE u = Tip(S)
        BY <3>1 DEF IsTip
      <3>2. CASE u # Tip(S)
        <4>1. ~ IsTip(S, u)
          BY <3>2, TipOfChain
        <4> QED BY <4>1 DEF IsTip
      <3> QED BY <3>1, <3>2
    <2> QED BY <2>1, <2>2
  <1>3. OneChain(T)
    <2>1. \A x, q \in T : x.prev = q.prev => x = q
      <3>1. CASE S = {}
        BY <3>1
      <3>2. CASE S # {}
        <4>1. \A q \in S : q.prev # r.prev
          BY <3>2, TipOfChain DEF IsTip
        <4>2. \A x, q \in S : x.prev = q.prev => x = q
          BY <3>2 DEF Chained, OneChain
        <4> QED BY <4>1, <4>2
      <3> QED BY <3>1, <3>2
    <2>2. \A q \in T : ~Root(q) => q.prev \in T
      <3>1. CASE S = {}
        BY <3>1
      <3>2. CASE S # {}
        BY <3>2, TipOfChain DEF IsTip, Chained, OneChain
      <3> QED BY <3>1, <3>2
    <2>3. Cardinality({q \in T : Root(q)}) = 1
      <3>1. CASE S = {}
        <4>1. {q \in T : Root(q)} = {r}
          BY <3>1
        <4> QED BY <4>1, FS_Singleton
      <3>2. CASE S # {}
        <4>1. ~Root(r)
          BY <3>2, TipOfChain DEF IsTip, Chained, Root
        <4>2. {q \in T : Root(q)} = {q \in S : Root(q)}
          BY <4>1
        <4> QED BY <3>2, <4>2 DEF Chained, OneChain
      <3> QED BY <3>1, <3>2
    <2> QED BY <2>1, <2>2, <2>3 DEF OneChain
  <1>4. None \notin T
    BY DEF Chained
  <1>5. Chained(T)
    BY <1>2, <1>3, <1>4 DEF Chained
  <1>6. Tip(T) = r
    BY <1>2, <1>5, TipOfChain DEF IsTip
  <1> QED BY <1>5, <1>6

\* A file that is no record leaves the records as they are, and a record joins
\* those of its own directory.
LEMMA RecordsAfter ==
  ASSUME NEW p, whole' = whole \cup {p}, NEW dir
  PROVE  Records(dir)' = IF p.dir = dir THEN Records(dir) \cup {p.record} ELSE Records(dir)
  BY DEF Records

\* What one more record changes, by its directory, when it fits.
LEMMA FitsJoins ==
  ASSUME Consistent, NEW p, p \notin whole, Fits(p), whole' = whole \cup {p}
  PROVE  Consistent'
  <1> DEFINE r == p.record
  <1>1. \A dir : p.dir # dir => Records(dir)' = Records(dir)
    BY RecordsAfter
  <1>2. Records(p.dir)' = Records(p.dir) \cup {r}
    BY RecordsAfter
  <1>3. Named'
    BY DEF Consistent, Named, Fits
  <1>4. p.dir \in {"revisions", "advisories"} => r \notin Records(p.dir)
    BY DEF Consistent, Named, Fits, Records
  <1>5. RevisionsFollow'
    <2>1. CASE p.dir = "revisions"
      <3>1. Chained(Revs) /\ r # None /\ r \notin Revs
            /\ IF Revs = {} THEN Root(r) ELSE ValidSuccessor(Tip(Revs), r)
        BY <1>4, <2>1 DEF Consistent, RevisionsFollow, Fits, Revs
      <3>2. IF Revs = {} THEN Root(r) ELSE r.prev = Tip(Revs)
        BY <3>1 DEF ValidSuccessor
      <3>3. Revs' = Revs \cup {r} /\ Chained(Revs \cup {r})
        BY <1>2, <2>1, <3>1, <3>2, ChainGrows DEF Revs
      <3>4. Chained(Revs)' <=> Chained(Revs')
        BY DEF Chained, OneChain, IsTip, Root
      <3>5. \A q \in Revs' : ~Root(q) => ValidSuccessor(q.prev, q)
        BY <3>1, <3>2, <3>3 DEF Consistent, RevisionsFollow
      <3> QED BY <3>3, <3>4, <3>5 DEF RevisionsFollow
    <2>2. CASE p.dir # "revisions"
      <3>1. Revs' = Revs
        BY <1>1, <2>2 DEF Revs
      <3> QED BY <3>1 DEF Consistent, RevisionsFollow, Chained, OneChain, IsTip
    <2> QED BY <2>1, <2>2
  <1>6. Revs \subseteq Revs' /\ Drs \subseteq Drs' /\ Recs \subseteq Recs'
    BY <1>1, <1>2 DEF Revs, Drs, Recs
  <1>7. DraftsFollow'
    <2>1. CASE p.dir = "drafts"
      <3>1. Drs' = Drs \cup {r} /\ r.rev \in Revs /\ \A x \in Drs : x.stage # r.stage
        BY <1>2, <2>1 DEF Fits, Drs
      <3> QED BY <1>6, <3>1 DEF Consistent, DraftsFollow, SingleByStage
    <2>2. CASE p.dir # "drafts"
      <3>1. Drs' = Drs
        BY <1>1, <2>2 DEF Drs
      <3> QED BY <1>6, <3>1 DEF Consistent, DraftsFollow
    <2> QED BY <2>1, <2>2
  <1>8. ReceiptsFollow'
    <2>1. CASE p.dir = "receipts"
      <3>1. Recs' = Recs \cup {r} /\ r.draft \in Drs /\ \A x \in Recs : StageOf(x) # StageOf(r)
        BY <1>2, <2>1 DEF Fits, Recs
      <3> QED BY <1>6, <3>1 DEF Consistent, ReceiptsFollow, OneReceiptByStage
    <2>2. CASE p.dir # "receipts"
      <3>1. Recs' = Recs
        BY <1>1, <2>2 DEF Recs
      <3> QED BY <1>6, <3>1 DEF Consistent, ReceiptsFollow
    <2> QED BY <2>1, <2>2
  <1>9. SkipsFollow'
    <2>1. CASE p.dir = "skips"
      <3>1. /\ Sks' = Sks \cup {r} /\ Recs' = Recs /\ SkipBinds(r, Recs)
            /\ \A c \in Recs : StageOf(c) # r.stage
            /\ \A x \in Sks : x.stage # r.stage
        BY <1>1, <1>2, <2>1 DEF Fits, Sks, Recs
      <3> QED BY <3>1 DEF Consistent, SkipsFollow, SingleByStage
    <2>2. CASE p.dir = "receipts"
      <3>1. Sks' = Sks /\ Recs' = Recs \cup {r} /\ \A k \in Sks : k.stage # StageOf(r)
        BY <1>1, <1>2, <2>2 DEF Fits, Sks, Recs
      <3> QED BY <3>1 DEF Consistent, SkipsFollow, SkipBinds
    <2>3. CASE p.dir \notin {"skips", "receipts"}
      <3>1. Sks' = Sks /\ Recs' = Recs
        BY <1>1, <2>3 DEF Sks, Recs
      <3> QED BY <3>1 DEF Consistent, SkipsFollow
    <2> QED BY <2>1, <2>2, <2>3
  <1>10. NoticesFollow'
    <2>1. Nots' \subseteq Nots \cup {x \in {r} : p.dir = "user-notices"}
      BY <1>1, <1>2 DEF Nots
    <2> QED BY <1>6, <2>1 DEF Consistent, NoticesFollow, Fits
  <1>11. AdvisoriesFollow'
    <2>1. CASE p.dir = "advisories"
      <3>1. Chained(Advs) /\ r # None /\ r \notin Advs /\ r.rev \in Revs
            /\ IF Advs = {} THEN Root(r) ELSE AdvisorySucceeds(Tip(Advs), r)
        BY <1>4, <2>1 DEF Consistent, AdvisoriesFollow, Fits, Advs
      <3>2. IF Advs = {} THEN Root(r) ELSE r.prev = Tip(Advs)
        BY <3>1 DEF AdvisorySucceeds
      <3>3. Advs' = Advs \cup {r} /\ Chained(Advs \cup {r})
        BY <1>2, <2>1, <3>1, <3>2, ChainGrows DEF Advs
      <3>4. Chained(Advs)' <=> Chained(Advs')
        BY DEF Chained, OneChain, IsTip, Root
      <3>5. \A a \in Advs' : a.rev \in Revs' /\ (~Root(a) => AdvisorySucceeds(a.prev, a))
        BY <1>6, <3>1, <3>2, <3>3 DEF Consistent, AdvisoriesFollow
      <3> QED BY <3>3, <3>4, <3>5 DEF AdvisoriesFollow
    <2>2. CASE p.dir # "advisories"
      <3>1. Advs' = Advs
        BY <1>1, <2>2 DEF Advs
      <3> QED BY <1>6, <3>1 DEF Consistent, AdvisoriesFollow, Chained, OneChain, IsTip
    <2> QED BY <2>1, <2>2
  <1> QED BY <1>3, <1>5, <1>7, <1>8, <1>9, <1>10, <1>11 DEF Consistent

\* What fits goes on fitting while the records stay.
LEMMA FitsStays ==
  ASSUME \A dir : dir \notin Outbox \cup {"storage"} => Records(dir)' = Records(dir), NEW p
  PROVE  Fits(p)' <=> Fits(p)
  <1>1. Revs' = Revs /\ Drs' = Drs /\ Recs' = Recs /\ Sks' = Sks /\ Advs' = Advs
    BY DEF Revs, Drs, Recs, Sks, Advs, Outbox
  <1> QED BY <1>1 DEF Fits

\* An append completes no file; bootstrap makes the storage, which is no record.
LEMMA StorageJoins ==
  ASSUME TreeInv, Appends
  PROVE  /\ whole' = whole \/ (Storage \notin whole /\ whole' = whole \cup {Storage})
         /\ Fits(Storage) /\ \A dir : dir # "storage" => Records(dir)' = Records(dir)
  <1>1. Storage.dir = "storage" /\ Storage = In(Storage.dir, Storage.record)
    BY DEF Storage, In
  <1>2. whole' = whole \/ (Storage \notin whole /\ whole' = whole \cup {Storage})
    BY DEF Appends, Bootstrap, AppendEvent, AppendDraft, AppendNotice, AppendReceipt, AppendSkip,
       AppendAdvisory, Begin
  <1>3. \A dir : dir # "storage" => Records(dir)' = Records(dir)
    BY <1>1, <1>2 DEF Records
  <1>4. Fits(Storage)
    BY <1>1 DEF Fits
  <1> QED BY <1>2, <1>3, <1>4

\* An append begins with a record that fits.
LEMMA BeginFits ==
  ASSUME TreeInv, Appends
  PROVE  LastFits'
  <1> USE DEF TreeInv
  <1>1. \A p : Fits(p) => Fits(p)'
    BY StorageJoins, FitsStays DEF Outbox
  <1> SUFFICES \E files : todo' = files /\ Fits(Last(files))
    BY <1>1 DEF LastFits
  <1>2. \A dir, d : Last(Payloads(d) \o <<In(dir, d)>>) = In(dir, d)
    <2> TAKE dir, d
    <2> DEFINE files == Payloads(d) \o <<In(dir, d)>>
    <2>1. files = <<Json(d), Markdown(d), In(dir, d)>>
      BY PayloadsThenRecord
    <2>2. Last(<<Json(d), Markdown(d), In(dir, d)>>) = In(dir, d)
      BY Lasts
    <2> HIDE DEF files
    <2>3. Last(files) = In(dir, d)
      BY <2>1, <2>2
    <2> QED BY <2>3 DEF files
  <1>3. CASE Bootstrap
    <2>1. Fits(Registration)
      BY Names DEF Fits
    <2> QED BY <1>3, <2>1, Lasts DEF Bootstrap, Begin
  <1>4. ASSUME NEW r \in Revisions, AppendEvent(r)
        PROVE  \E files : todo' = files /\ Fits(Last(files))
    <2>1. Fits(In("revisions", r))
      BY <1>4, Names DEF Fits, AppendEvent, Revisions, Revs
    <2> QED BY <1>4, <2>1, Lasts DEF AppendEvent, Begin
  <1>5. ASSUME NEW d \in Drafts, AppendDraft(d)
        PROVE  \E files : todo' = files /\ Fits(Last(files))
    <2>1. d.rev \in Revs
      BY DEF Drafts, Revs
    <2>2. Fits(In("drafts", d))
      BY <1>5, <2>1, Names DEF Fits, AppendDraft, Drs
    <2> QED BY <1>2, <1>5, <2>2 DEF AppendDraft, Begin
  <1>6. ASSUME NEW n \in Notices, AppendNotice(n)
        PROVE  \E files : todo' = files /\ Fits(Last(files))
    <2>1. n.rev \in Revs
      BY DEF Notices, Revs
    <2>2. Fits(In("user-notices", n))
      BY <2>1, Names DEF Fits
    <2> QED BY <1>2, <1>6, <2>2 DEF AppendNotice, Begin
  <1>7. ASSUME NEW c \in Receipts, AppendReceipt(c)
        PROVE  \E files : todo' = files /\ Fits(Last(files))
    <2>1. Fits(In("receipts", c))
      BY <1>7, Names DEF Fits, AppendReceipt, Drs, Recs, Sks
    <2> QED BY <1>7, <2>1, Lasts DEF AppendReceipt, Begin
  <1>8. ASSUME NEW k \in Skips, AppendSkip(k)
        PROVE  \E files : todo' = files /\ Fits(Last(files))
    <2>1. Fits(In("skips", k))
      BY <1>8, Names DEF Fits, AppendSkip, Recs, Sks
    <2> QED BY <1>8, <2>1, Lasts DEF AppendSkip, Begin
  <1>9. ASSUME NEW a \in Advisories, AppendAdvisory(a)
        PROVE  \E files : todo' = files /\ Fits(Last(files))
    <2>1. a.rev \in Revs /\ a # None
      BY DEF Advisories, Revs
    <2>2. Fits(In("advisories", a))
      BY <1>9, <2>1, Names DEF Fits, AppendAdvisory, Advs
    <2> QED BY <1>9, <2>2, Lasts DEF AppendAdvisory, Begin
  <1> QED BY <1>3, <1>4, <1>5, <1>6, <1>7, <1>8, <1>9 DEF Appends

\* The next file is a payload, or the last one, or the registration.
LEMMA HeadOrLast ==
  ASSUME RecordLast, todo # Idle
  PROVE  \/ Tail(todo) = Idle /\ Head(todo) = Last(todo)
         \/ /\ Tail(todo) # Idle /\ Last(Tail(todo)) = Last(todo)
            /\ Head(todo).dir \in Outbox /\ Head(todo) = In(Head(todo).dir, Head(todo).record)
  <1>1. ASSUME NEW f, todo = <<f>>
        PROVE  Tail(todo) = Idle /\ Head(todo) = Last(todo)
    BY <1>1, Shapes, Lasts DEF Idle
  <1>2. ASSUME NEW g, NEW f, todo = <<g, f>>
        PROVE  Tail(todo) # Idle /\ Last(Tail(todo)) = Last(todo) /\ Head(todo) = g
    BY <1>2, Shapes, Lasts DEF Idle
  <1>3. ASSUME NEW h, NEW g, NEW f, todo = <<h, g, f>>
        PROVE  Tail(todo) # Idle /\ Last(Tail(todo)) = Last(todo) /\ Head(todo) = h
    BY <1>3, Shapes, Lasts DEF Idle
  <1>4. \A d : \A p \in {Json(d), Markdown(d)} : p.dir \in Outbox /\ p = In(p.dir, p.record)
    BY Names DEF Outbox
  <1> QED BY <1>1, <1>2, <1>3, <1>4 DEF RecordLast, Idle

\* A step that does not complete a file leaves the records, and what fits.
LEMMA SameRecords ==
  ASSUME TreeInv, whole' = whole
  PROVE  Consistent' /\ \A p : Fits(p)' <=> Fits(p)
  <1>1. \A dir : Records(dir)' = Records(dir)
    BY DEF Records
  <1>2. Revs' = Revs /\ Drs' = Drs /\ Recs' = Recs /\ Sks' = Sks /\ Nots' = Nots /\ Advs' = Advs
    BY <1>1 DEF Revs, Drs, Recs, Sks, Nots, Advs
  <1>3. Consistent'
    BY <1>2 DEF TreeInv, Consistent, Named, RevisionsFollow, DraftsFollow, ReceiptsFollow,
       SkipsFollow, NoticesFollow, AdvisoriesFollow, Chained, OneChain, IsTip
  <1> QED BY <1>1, <1>3, FitsStays

\* What the reader has read stays read.
LEMMA ReaderStays ==
  ASSUME ReaderAgrees, reader' = reader, Recs \subseteq Recs', Sks \subseteq Sks'
  PROVE  ReaderAgrees'
  BY DEF ReaderAgrees, Chained, OneChain, IsTip

\* What a reader sees of a kind was there when it listed the directory.
LEMMA SeenIsThere ==
  ASSUME NEW dir, reader.seen \subseteq Records(dir)
  PROVE  Seen(dir) \subseteq Records(dir)
  BY DEF Seen

\* Each directory the reader accepts agrees with those it accepted before.
LEMMA ReadStep ==
  ASSUME TreeInv, Reads
  PROVE  ReaderAgrees'
  <1> USE DEF TreeInv
  <1>0. Recs' = Recs /\ Sks' = Sks
    BY DEF Reads, ReadRevisions, ReadStage, ReadDrafts, ReadReceipts, ReadSkips, Recs, Sks, Records
  <1>1. CASE reader'.at = "idle"
    BY <1>1 DEF ReaderAgrees
  <1>2. CASE ReadRevisions /\ reader'.at # "idle"
    <2>1. /\ reader' = [at |-> "drafts", left |-> Listed["drafts"], seen |-> {}, revs |-> Revs]
          /\ Revs # {}
      BY <1>2 DEF ReadRevisions, Proceeds, NotReading, EventReads, Revs
    <2>2. Chained(Revs)
      BY DEF Consistent, RevisionsFollow
    <2> QED BY <2>1, <2>2 DEF ReaderAgrees, Chained, OneChain, IsTip
  <1>3. CASE ReadStage /\ reader'.at # "idle"
    <2>1. /\ reader.at \in {"drafts", "receipts", "skips"}
          /\ reader' = [reader EXCEPT !.left = Tail(@), !.seen = Seen(reader.at)]
      BY <1>3 DEF ReadStage, Proceeds, NotReading, Listed
    <2> DEFINE new == reader'
    <2>2. /\ new.at = reader.at /\ new.revs = reader.revs /\ new.drafts = reader.drafts
          /\ new.receipts = reader.receipts /\ new.seen = Seen(reader.at)
      BY <2>1
    <2>3. /\ reader.at = "receipts" => Seen(reader.at) \subseteq Recs
          /\ reader.at = "skips" => Seen(reader.at) \subseteq Sks
      BY <1>0, SeenIsThere DEF ReaderAgrees, Recs, Sks
    <2> QED BY <1>0, <2>1, <2>2, <2>3 DEF ReaderAgrees, Chained, OneChain, IsTip
  <1>4. CASE ReadDrafts /\ reader'.at # "idle"
    <2>1. /\ reader.at = "drafts" /\ DraftsAgree(reader.revs, Seen("drafts"))
          /\ reader' = [at |-> "receipts", left |-> Listed["receipts"], seen |-> {},
                        revs |-> reader.revs, drafts |-> Seen("drafts")]
      BY <1>4 DEF ReadDrafts, AtLast, Proceeds, NotReading
    <2> QED BY <1>0, <2>1 DEF ReaderAgrees, DraftsAgree, Chained, OneChain, IsTip
  <1>5. CASE ReadReceipts /\ reader'.at # "idle"
    <2>1. /\ reader.at = "receipts" /\ ReceiptsAgree(reader.drafts, Seen("receipts"))
          /\ reader' = [at |-> "skips", left |-> Listed["skips"], seen |-> {},
                        revs |-> reader.revs, drafts |-> reader.drafts,
                        receipts |-> Seen("receipts")]
      BY <1>5 DEF ReadReceipts, AtLast, Proceeds, NotReading
    <2>2. Seen("receipts") \subseteq Recs
      BY <2>1, SeenIsThere DEF ReaderAgrees, Recs
    <2> QED BY <1>0, <2>1, <2>2 DEF ReaderAgrees, ReceiptsAgree, Chained, OneChain, IsTip
  <1>6. CASE ReadSkips /\ reader'.at # "idle"
    <2> DEFINE skips == Seen("skips")
    <2>1. /\ reader.at = "skips" /\ SkipsAgree(reader.receipts, skips)
          /\ ~RecordsValid(Tip(reader.revs), reader.revs, reader.drafts, reader.receipts, skips)
      BY <1>6 DEF ReadSkips, AtLast, Proceeds, NotReading
    <2>2. skips \subseteq Sks
      BY <2>1, SeenIsThere DEF ReaderAgrees, Sks
    <2> HIDE DEF skips
    <2>3. Tip(reader.revs) \in reader.revs
      BY <2>1, TipOfChain DEF ReaderAgrees, IsTip
    <2>4. \A k \in skips : /\ SkipBinds(k, reader.receipts)
                           /\ \A c \in reader.receipts : StageOf(c) # k.stage
      BY <2>1, <2>2 DEF SkipsAgree, ReaderAgrees, Consistent, SkipsFollow
    <2> QED BY <2>1, <2>3, <2>4 DEF RecordsValid, ReaderAgrees, SkipsAgree
  <1> QED BY <1>1, <1>2, <1>3, <1>4, <1>5, <1>6 DEF Reads

\* An empty tree is one history, and a reader that reads nothing agrees with it.
LEMMA TreeInit == Init => TreeInv
  <1> SUFFICES ASSUME Init PROVE TreeInv
    OBVIOUS
  <1>1. \A dir : Records(dir) = {}
    BY DEF Init, Records
  <1>2. Revs = {} /\ Drs = {} /\ Recs = {} /\ Sks = {} /\ Nots = {} /\ Advs = {}
    BY <1>1 DEF Revs, Drs, Recs, Sks, Nots, Advs
  <1>3. Consistent
    BY <1>2 DEF Init, Consistent, Named, RevisionsFollow, DraftsFollow, ReceiptsFollow,
       SkipsFollow, NoticesFollow, AdvisoriesFollow, Chained, SingleByStage, OneReceiptByStage
  <1> QED BY <1>3, InvInit DEF Init, TreeInv, LastFits, ReaderAgrees, NotReading

\* Every step keeps the tree one history: a record appears only as the last
\* file of an append, and fits since the lock was taken.
LEMMA TreeStep == TreeInv /\ [Next]_vars => TreeInv'
  <1> SUFFICES ASSUME TreeInv, [Next]_vars PROVE TreeInv'
    OBVIOUS
  <1> USE DEF TreeInv
  <1>0. StoreInv'
    BY InvStep
  <1>1. ASSUME whole' = whole, reader' = reader PROVE Consistent' /\ ReaderAgrees'
    <2>1. Recs' = Recs /\ Sks' = Sks
      BY <1>1 DEF Recs, Sks, Records
    <2> QED BY <1>1, <2>1, SameRecords, ReaderStays
  <1>2. CASE Appends
    <2>1. reader' = reader
      BY <1>2 DEF Appends, Bootstrap, AppendEvent, AppendDraft, AppendNotice, AppendReceipt,
         AppendSkip, AppendAdvisory, Begin
    <2>2. CASE whole' = whole
      BY <1>0, <1>1, <1>2, <2>1, <2>2, BeginFits
    <2>3. CASE Storage \notin whole /\ whole' = whole \cup {Storage}
      <3>1. Fits(Storage) /\ Recs' = Recs /\ Sks' = Sks
        BY <1>2, StorageJoins DEF Recs, Sks
      <3>2. Consistent'
        BY <2>3, <3>1, FitsJoins
      <3>3. ReaderAgrees'
        BY <2>1, <3>1, ReaderStays
      <3> QED BY <1>0, <1>2, <3>2, <3>3, BeginFits
    <2> QED BY <1>2, <2>2, <2>3, StorageJoins
  <1>3. CASE Create
    <2>1. whole' = whole /\ reader' = reader /\ todo' = todo
      BY <1>3 DEF Create
    <2> QED BY <1>0, <1>1, <2>1, SameRecords DEF LastFits
  <1>4. CASE Write
    <2> DEFINE p == Head(todo)
    <2>1. /\ todo # Idle /\ p \in torn /\ whole' = whole \cup {p} /\ todo' = Tail(todo)
          /\ reader' = reader /\ p \notin whole
      BY <1>4 DEF Write, StoreInv, TypeOK
    <2>2. Recs \subseteq Recs' /\ Sks \subseteq Sks'
      BY <2>1 DEF Recs, Sks, Records
    <2>3. ReaderAgrees'
      BY <2>1, <2>2, ReaderStays
    <2>4. CASE Tail(todo) = Idle /\ p = Last(todo)
      <3>1. Fits(p)
        BY <2>1, <2>4 DEF LastFits
      <3> HIDE DEF p
      <3> QED BY <1>0, <2>1, <2>3, <2>4, <3>1, FitsJoins DEF LastFits
    <2>5. CASE /\ Tail(todo) # Idle /\ Last(Tail(todo)) = Last(todo)
               /\ p.dir \in Outbox /\ p = In(p.dir, p.record)
      <3> HIDE DEF p
      <3>1. Fits(p)
        BY <2>5 DEF Fits, Outbox
      <3>2. Consistent'
        BY <2>1, <3>1, FitsJoins
      <3>3. \A dir : dir \notin Outbox => Records(dir)' = Records(dir)
        BY <2>1, <2>5, RecordsAfter
      <3> QED BY <1>0, <2>1, <2>3, <2>5, <3>2, <3>3, FitsStays DEF LastFits
    <2> QED BY <2>1, <2>4, <2>5, HeadOrLast DEF StoreInv
  <1>5. CASE FindsSame
    <2>1. whole' = whole /\ reader' = reader /\ todo' = Tail(todo) /\ todo # Idle
      BY <1>5 DEF FindsSame
    <2>2. Tail(todo) = Idle \/ Last(Tail(todo)) = Last(todo)
      BY <2>1, HeadOrLast DEF StoreInv
    <2> QED BY <1>0, <1>1, <2>1, <2>2, SameRecords DEF LastFits
  <1>6. CASE Collides \/ Stops
    <2>1. whole' = whole /\ reader' = reader /\ todo' = Idle
      BY <1>6 DEF Collides, Stops
    <2> QED BY <1>0, <1>1, <2>1 DEF LastFits
  <1>7. CASE Reads
    <2>1. whole' = whole /\ todo' = todo
      BY <1>7 DEF Reads, ReadRevisions, ReadStage, ReadDrafts, ReadReceipts, ReadSkips
    <2> QED BY <1>0, <1>7, <2>1, SameRecords, ReadStep DEF LastFits
  <1>8. CASE UNCHANGED vars
    <2>1. whole' = whole /\ reader' = reader /\ todo' = todo
      BY <1>8 DEF vars
    <2> QED BY <1>0, <1>1, <2>1, SameRecords DEF LastFits
  <1> QED BY <1>2, <1>3, <1>4, <1>5, <1>6, <1>7, <1>8 DEF Next

\* The tree is one history in every behaviour.
LEMMA TreeInvariance == Spec => []TreeInv
  BY TreeInit, TreeStep, PTL DEF Spec

\* event_state, append_*: whatever order the appends came in, from however stale
\* callers, and whoever died on the way, a tree whose records are whole reads, its
\* advisories read, and the timeline accepts what was read.
THEOREM TreesRead == Spec => []WholeTreeReads
  <1>1. TreeInv => WholeTreeReads
    <2> SUFFICES ASSUME TreeInv, RecordsAreWhole, Revs # {}
                 PROVE  /\ StateReads /\ AdvisoryReads
                        /\ RecordsValid(Tip(Revs), Revs, Drs, Recs, Sks)
      BY DEF WholeTreeReads, Revs, Drs, Recs, Sks
    <2> USE DEF TreeInv
    <2>1. \A dir : dir \notin Outbox => Parses(dir)
      BY DEF RecordsAreWhole, Parses
    <2>2. {"revisions", "drafts", "receipts", "skips", "user-notices", "advisories"} \cap Outbox = {}
      BY DEF Outbox
    <2>3. OneChain(Revs) /\ Tip(Revs) \in Revs
      BY TipOfChain DEF Consistent, RevisionsFollow, Chained, IsTip
    <2>4. EventReads(Revs)
      BY <2>1, <2>2, <2>3 DEF EventReads, RevisionChain, Consistent, RevisionsFollow
    <2>5. \A d \in Drs \cup Nots : PayloadsWhole(d)
      BY DEF StoreInv, PayloadsPrecedeRecords, Drs, Nots, Records
    <2>6. DraftsAgree(Revs, Drs)
      BY <2>5 DEF DraftsAgree, Consistent, DraftsFollow
    <2>7. ReceiptsAgree(Drs, Recs)
      BY DEF ReceiptsAgree, Consistent, ReceiptsFollow
    <2>8. SkipsAgree(Recs, Sks)
      BY DEF SkipsAgree, Consistent, SkipsFollow
    <2>9. NoticesAgree(Revs, Nots)
      BY <2>5 DEF NoticesAgree, Consistent, NoticesFollow
    <2>10. StateReads
      BY <2>1, <2>2, <2>4, <2>6, <2>7, <2>8, <2>9 DEF StateReads, Revs, Drs, Recs, Sks, Nots
    <2>11. AdvisoryReads
      BY <2>1, <2>2 DEF AdvisoryReads, Consistent, AdvisoriesFollow, Chained, Advs, Revs
    <2>12. RecordsValid(Tip(Revs), Revs, Drs, Recs, Sks)
      BY <2>3 DEF RecordsValid, Consistent, DraftsFollow, ReceiptsFollow, SkipsFollow
    <2> QED BY <2>10, <2>11, <2>12
  <1> QED BY TreeInvariance, <1>1, PTL

\* event_state without the lock: what a reader accepts directory by directory,
\* while any number of appends go on, is a set of records the timeline accepts.
THEOREM ReadersAgree == Spec => []MixedReadsAgree
  <1>1. TreeInv => MixedReadsAgree
    BY DEF TreeInv, ReaderAgrees, MixedReadsAgree
  <1> QED BY TreeInvariance, <1>1, PTL

-----------------------------------------------------------------------------
(* A stage that is submitted or skipped stays so: its receipt or its skip   *)
(* excludes every other record of that stage.                               *)

Sent(receipts, s) == {c \in receipts : StageOf(c) = s}
Skipped(skips, s) == {k \in skips : k.stage = s}

ClosedAs(sent) == IF sent # {} THEN "submitted" ELSE "skipped"
ClosedAt(sent, skipped) ==
    IF sent # {} THEN (CHOOSE c \in sent : TRUE).at ELSE (CHOOSE k \in skipped : TRUE).at
ClockStart(sent, skipped) ==
    IF sent # {} THEN (CHOOSE c \in sent : TRUE).at
    ELSE IF skipped # {} THEN (CHOOSE k \in skipped : TRUE).receipt.at ELSE None

\* The state of a stage, by its receipt or its skip.
LEMMA StageStates ==
  ASSUME NEW event, NEW s, NEW drafts, NEW receipts, NEW skips,
         NEW state, state = StageState(event, s, 0, drafts, receipts, skips),
         NEW deadline, deadline = Deadline(event, s, receipts, skips),
         NEW sent, sent = Sent(receipts, s), NEW skipped, skipped = Skipped(skips, s)
  PROVE  /\ sent # {} \/ skipped # {} =>
              state = [state |-> ClosedAs(sent), at |-> ClosedAt(sent, skipped),
                       alert |-> Past(ClosedAt(sent, skipped), deadline)]
         /\ sent = {} /\ skipped = {} => state.state \notin {"submitted", "skipped"}
  BY DEF StageState, Sent, Skipped, ClosedAs, ClosedAt

\* What is newly whole fits: a file that was written, or the storage.
LEMMA WholeGrows ==
  ASSUME TreeInv, [Next]_vars
  PROVE  \/ whole' = whole
         \/ \E p : p \notin whole /\ Fits(p) /\ whole' = whole \cup {p}
  <1> USE DEF TreeInv
  <1>1. CASE Write
    <2> DEFINE p == Head(todo)
    <2>1. todo # Idle /\ whole' = whole \cup {p} /\ p \notin whole
      BY <1>1 DEF Write, StoreInv, TypeOK
    <2>2. CASE p = Last(todo)
      BY <2>1, <2>2 DEF LastFits
    <2>3. CASE p.dir \in Outbox /\ p = In(p.dir, p.record)
      <3> HIDE DEF p
      <3>1. Fits(p)
        BY <2>3 DEF Fits, Outbox
      <3> QED BY <2>1, <3>1
    <2> QED BY <2>1, <2>2, <2>3, HeadOrLast DEF StoreInv
  <1>2. CASE Appends
    BY <1>2, StorageJoins
  <1>3. CASE ~Write /\ ~Appends
    BY <1>3 DEF Next, Create, FindsSame, Collides, Stops, Reads,
       ReadRevisions, ReadStage, ReadDrafts, ReadReceipts, ReadSkips, vars
  <1> QED BY <1>1, <1>2, <1>3

\* The receipt or the skip of a stage stays the only one, and the track of the
\* event stays what it is.
LEMMA ReportsStay ==
  ASSUME TreeInv, [Next]_vars
  PROVE  /\ \A s : Sent(Recs, s) # {} =>
              Sent(Recs', s) = Sent(Recs, s) /\ Skipped(Sks, s) = {} /\ Skipped(Sks', s) = {}
         /\ \A s : Skipped(Sks, s) # {} =>
              Skipped(Sks', s) = Skipped(Sks, s) /\ Sent(Recs, s) = {} /\ Sent(Recs', s) = {}
         /\ Revs # {} => Revs' # {} /\ Event'.track = Event.track
  <1> USE DEF TreeInv
  <1>1. CASE whole' = whole
    <2>1. Recs' = Recs /\ Sks' = Sks /\ Revs' = Revs /\ Event' = Event
      BY <1>1 DEF Recs, Sks, Revs, Event, Records
    <2> QED BY <2>1 DEF Sent, Skipped, Consistent, SkipsFollow
  <1>2. ASSUME NEW p, p \notin whole, Fits(p), whole' = whole \cup {p}
        PROVE  /\ \A s : Sent(Recs, s) # {} =>
                    Sent(Recs', s) = Sent(Recs, s) /\ Skipped(Sks, s) = {} /\ Skipped(Sks', s) = {}
               /\ \A s : Skipped(Sks, s) # {} =>
                    Skipped(Sks', s) = Skipped(Sks, s) /\ Sent(Recs, s) = {} /\ Sent(Recs', s) = {}
               /\ Revs # {} => Revs' # {} /\ Event'.track = Event.track
    <2> DEFINE r == p.record
    <2>1. \A dir : Records(dir)' = IF p.dir = dir THEN Records(dir) \cup {r} ELSE Records(dir)
      BY <1>2, RecordsAfter
    <2>2. \A k \in Sks : \A c \in Recs : StageOf(c) # k.stage
      BY DEF Consistent, SkipsFollow
    <2>3. CASE p.dir = "receipts"
      <3>1. /\ Recs' = Recs \cup {r} /\ Sks' = Sks /\ Revs' = Revs /\ Event' = Event
            /\ \A x \in Recs : StageOf(x) # StageOf(r)
            /\ \A k \in Sks : k.stage # StageOf(r)
        BY <1>2, <2>1, <2>3 DEF Fits, Recs, Sks, Revs, Event
      <3> QED BY <2>2, <3>1 DEF Sent, Skipped
    <2>4. CASE p.dir = "skips"
      <3>1. /\ Recs' = Recs /\ Sks' = Sks \cup {r} /\ Revs' = Revs /\ Event' = Event
            /\ \A x \in Recs : StageOf(x) # r.stage
            /\ \A k \in Sks : k.stage # r.stage
        BY <1>2, <2>1, <2>4 DEF Fits, Recs, Sks, Revs, Event
      <3> QED BY <2>2, <3>1 DEF Sent, Skipped
    <2>5. CASE p.dir \notin {"receipts", "skips"}
      <3>1. Recs' = Recs /\ Sks' = Sks
        BY <2>1, <2>5 DEF Recs, Sks
      <3>2. ASSUME Revs # {} PROVE Revs' # {} /\ Event'.track = Event.track
        <4>1. CASE p.dir = "revisions"
          <5>1. /\ Revs' = Revs \cup {r} /\ Chained(Revs) /\ r # None /\ r \notin Revs
                /\ ValidSuccessor(Tip(Revs), r)
            BY <1>2, <2>1, <3>2, <4>1 DEF Consistent, Named, RevisionsFollow, Fits, Revs, Records
          <5>2. Tip(Revs \cup {r}) = r
            BY <3>2, <5>1, ChainGrows DEF ValidSuccessor
          <5>3. Event' = r /\ Event = Tip(Revs)
            BY <5>1, <5>2 DEF Event, Revs
          <5> QED BY <5>1, <5>3 DEF ValidSuccessor
        <4>2. CASE p.dir # "revisions"
          BY <2>1, <3>2, <4>2 DEF Event, Revs
        <4> QED BY <4>1, <4>2
      <3> QED BY <2>2, <3>1, <3>2 DEF Sent, Skipped
    <2> QED BY <2>3, <2>4, <2>5
  <1> QED BY <1>1, <1>2, WholeGrows

\* Once the clock of an incident's final report runs, it started at a receipt
\* or a skip that stays.
LEMMA DeadlineStays ==
  ASSUME TreeInv, [Next]_vars, IncidentDeadline # None
  PROVE  /\ IncidentDeadline' = IncidentDeadline
         /\ IncidentDeadline = Deadline(Event, "final-report", Recs, Sks)
         /\ IncidentDeadline' = Deadline(Event', "final-report", Recs', Sks')
  <1>1. Revs # {} /\ Event.track = "incident"
        /\ IncidentDeadline = Deadline(Event, "final-report", Recs, Sks)
    BY DEF IncidentDeadline, Revs, Recs, Sks
  <1>2. Revs' # {} /\ Event'.track = "incident"
    BY <1>1, ReportsStay
  <1>3. IncidentDeadline' = Deadline(Event', "final-report", Recs', Sks')
    BY <1>2 DEF IncidentDeadline, Revs, Recs, Sks
  <1> DEFINE first == "notification"
             Notified(receipts, skips) ==
               ClockStart(Sent(receipts, first), Skipped(skips, first))
  <1>4. /\ Deadline(Event, "final-report", Recs, Sks) = After(Notified(Recs, Sks), MonthTerm)
        /\ Deadline(Event', "final-report", Recs', Sks') = After(Notified(Recs', Sks'), MonthTerm)
    BY <1>1, <1>2 DEF Deadline, NotifiedAt, Sent, Skipped, ClockStart
  <1>5. Sent(Recs, first) # {} \/ Skipped(Sks, first) # {}
    BY <1>1, <1>4 DEF After, ClockStart
  <1>6. Notified(Recs', Sks') = Notified(Recs, Sks)
    <2>1. Sent(Recs', first) = Sent(Recs, first) /\ Skipped(Sks', first) = Skipped(Sks, first)
      BY <1>5, ReportsStay
    <2> QED BY <2>1
  <1> QED BY <1>1, <1>3, <1>4, <1>6

\* compute_reporting_timeline: whatever revisions, drafts, receipts and skips
\* follow, a stage that was submitted or skipped stays so, at the same time, and
\* late or in time once no record can move its deadline.
THEOREM ReportsAreFinal == Spec => ReportedStays
  <1> DEFINE Stay ==
        /\ \A s \in Stages :
             Closed(s) # None =>
               /\ Closed(s)' = Closed(s)
               /\ DeadlineFixed(s) => Now(s).alert' = Now(s).alert
        /\ IncidentDeadline # None => IncidentDeadline' = IncidentDeadline
  <1>1. TreeInv /\ [Next]_vars => Stay
    <2> SUFFICES ASSUME TreeInv, [Next]_vars, NEW s \in Stages, Closed(s) # None
                 PROVE  /\ Closed(s)' = Closed(s)
                        /\ DeadlineFixed(s) => Now(s).alert' = Now(s).alert
      BY DeadlineStays
    <2> DEFINE d == Deadline(Event, s, Recs, Sks)
               sent == Sent(Recs, s)
               skipped == Skipped(Sks, s)
    <2>1. Revs # {} /\ Now(s).state \in {"submitted", "skipped"}
          /\ Closed(s) = <<Now(s).state, Now(s).at>>
      BY DEF Closed, Revs
    <2>2. /\ Now(s) = StageState(Event, s, 0, Drs, Recs, Sks)
          /\ Now(s)' = StageState(Event', s, 0, Drs', Recs', Sks')
      BY DEF Now, Drs, Recs, Sks
    <2>3. sent # {} \/ skipped # {}
      BY <2>1, <2>2, StageStates
    <2>4. DeadlineFixed(s) => Deadline(Event', s, Recs', Sks') = d
      BY DeadlineStays DEF DeadlineFixed, Deadline
    <2>5. /\ Now(s)'.state = Now(s).state /\ Now(s)'.at = Now(s).at
          /\ Deadline(Event', s, Recs', Sks') = d => Now(s)' = Now(s)
      <3>1. Sent(Recs', s) = sent /\ Skipped(Sks', s) = skipped
        BY <2>3, ReportsStay
      <3> DEFINE e == Deadline(Event', s, Recs', Sks')
                 state(dl) == [state |-> ClosedAs(sent), at |-> ClosedAt(sent, skipped),
                               alert |-> Past(ClosedAt(sent, skipped), dl)]
      <3>2. Now(s) = state(d)
        BY <2>2, <2>3, StageStates
      <3>3. Now(s)' = state(e)
        <4>1. Sent(Recs', s) # {} \/ Skipped(Sks', s) # {}
          BY <2>3, <3>1
        <4>2. Now(s)' = [state |-> ClosedAs(Sent(Recs', s)),
                         at |-> ClosedAt(Sent(Recs', s), Skipped(Sks', s)),
                         alert |-> Past(ClosedAt(Sent(Recs', s), Skipped(Sks', s)), e)]
          BY <2>2, <4>1, StageStates
        <4> QED BY <3>1, <4>2
      <3> QED BY <3>2, <3>3
    <2>6. Revs' # {}
      BY <2>1, ReportsStay
    <2>7. Closed(s)' = <<Now(s)'.state, Now(s)'.at>>
      BY <2>1, <2>5, <2>6 DEF Closed, Revs
    <2> QED BY <2>1, <2>4, <2>5, <2>7
  <1>2. TreeInv /\ [Next]_vars => [Stay]_vars
    BY <1>1
  <1> QED BY TreeInvariance, <1>2, PTL DEF Spec, ReportedStays
=============================================================================
