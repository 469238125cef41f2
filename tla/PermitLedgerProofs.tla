------------------------- MODULE PermitLedgerProofs -------------------------
(***************************************************************************)
(* Proofs about PermitLedger for any set of processes, any identifiers and *)
(* any number of rows.  LedgerInv is inductive; it implies that no         *)
(* identifier is honoured twice, that what was honoured is durable, and    *)
(* that the file always scans.  The second part is about steps: what none  *)
(* of them may do to the file, and that each is one of ConsumeOnce.        *)
(***************************************************************************)
EXTENDS PermitLedger, SequenceTheorems, TLAPS

\* A prefix of the rows is a sequence of rows with the same elements.
LEMMA PrefixOfRows ==
  ASSUME NEW s \in Seq(Row), NEW n \in 0..Len(s)
  PROVE  /\ SubSeq(s, 1, n) \in Seq(Row)
         /\ Len(SubSeq(s, 1, n)) = n
         /\ \A k \in 1..n : SubSeq(s, 1, n)[k] = s[k]
  <1>1. \A i \in 1..n : s[i] \in Row
    BY ElementOfSeq
  <1> QED BY <1>1, SubSeqProperties

\* Appending a row extends the sequence and keeps what it had.
LEMMA AppendRow ==
  ASSUME NEW s \in Seq(Row), NEW r \in Row
  PROVE  /\ Append(s, r) \in Seq(Row)
         /\ Len(Append(s, r)) = Len(s) + 1
         /\ Append(s, r)[Len(s) + 1] = r
         /\ \A k \in 1..Len(s) : Append(s, r)[k] = s[k]
  OBVIOUS

\* A consumption row and a recovery row are rows; the latter names nobody.
LEMMA RowTypes ==
  /\ \A q \in Requests, n \in Nat : Consumed(q.permit, q.single, n) \in Row
  /\ \A n \in Nat : Recovery(n) \in Row /\ IdsOf(Recovery(n)) = {}
  /\ \A r \in Row : r.kind \in {"consumed", "recovery"} /\ IdsOf(r) \subseteq Ids
  /\ \A r \in Row : [r EXCEPT !.prev = @ + 1] \in Row
  BY DEF Requests, Consumed, Recovery, Row, IdsOf

\* The initial values have their types.
LEMMA TypeInit == Init => TypeOK
  BY RowTypes, EmptySeq DEF Init, TypeOK, Tails

\* Every step keeps the types.
LEMMA TypeStep == TypeOK /\ [Next]_vars => TypeOK'
  <1> SUFFICES ASSUME TypeOK, [Next]_vars PROVE TypeOK'
    OBVIOUS
  <1> USE DEF TypeOK, Tails
  <1>len. Len(rows) \in Nat
    BY LenProperties
  <1>1. ASSUME NEW p \in Procs, OpenLease(p) PROVE TypeOK'
    BY <1>1 DEF OpenLease, Locks, fileVars, hostVars
  <1>2. ASSUME NEW p \in Procs, RecoverTornTail(p) PROVE TypeOK'
    BY <1>2, <1>len, RowTypes DEF RecoverTornTail, Locks, fileVars, hostVars
  <1>3. ASSUME NEW p \in Procs, NEW q \in Requests, Consume(p, q) PROVE TypeOK'
    BY <1>3, <1>len, RowTypes DEF Consume, Locks, fileVars, hostVars
  <1>4. ASSUME NEW p \in Procs, NEW q \in Requests, LeaseConsume(p, q) PROVE TypeOK'
    BY <1>4, <1>len, RowTypes DEF LeaseConsume, fileVars, hostVars
  <1>5. ASSUME NEW p \in Procs, Truncate(p) PROVE TypeOK'
    BY <1>5 DEF Truncate, hostVars
  <1>6. ASSUME NEW p \in Procs, FsyncCut(p) PROVE TypeOK'
    BY <1>6, <1>len DEF FsyncCut, Flushes, hostVars
  <1>7. ASSUME NEW p \in Procs, Write(p) PROVE TypeOK'
    <2> DEFINE r == IF tail = "none" THEN row[p]
                    ELSE [row[p] EXCEPT !.prev = @ + 1]
    <2>1. r \in Row
      BY RowTypes
    <2>2. /\ Append(rows, r) \in Seq(Row)
          /\ Len(Append(rows, r)) = Len(rows) + 1
      BY <2>1, AppendRow
    <2> QED BY <1>7, <1>len, <2>2 DEF Write, hostVars
  <1>8. ASSUME NEW p \in Procs, WriteTorn(p) PROVE TypeOK'
    <2>1. row[p].kind \in {"consumed", "recovery"}
      BY RowTypes
    <2> QED BY <1>8, <2>1 DEF WriteTorn, Leaves, hostVars
  <1>9. ASSUME NEW p \in Procs, Fsync(p) PROVE TypeOK'
    BY <1>9, <1>len DEF Fsync, Flushes, hostVars
  <1>10. ASSUME NEW p \in Procs, Return(p) PROVE TypeOK'
    <2>1. \A i \in Ids : uses[i] + (IF i \in IdsOf(row[p]) THEN 1 ELSE 0) \in Nat
      OBVIOUS
    <2>2. uses' \in [Ids -> Nat] /\ reported' \in Nat
      BY <1>10, <1>len, <2>1 DEF Return
    <2>3. CASE op[p] = "lease"
      BY <1>10, <2>2, <2>3 DEF Return, fileVars
    <2>4. CASE op[p] # "lease"
      BY <1>10, <2>2, <2>4 DEF Return, Leaves, fileVars
    <2> QED BY <2>3, <2>4
  <1>11. ASSUME NEW p \in Procs, Abort(p) \/ CloseLease(p) PROVE TypeOK'
    BY <1>11 DEF Abort, CloseLease, Leaves, fileVars, hostVars
  <1>12. CASE PowerLoss
    <2>1. PICK n \in synced..Len(rows) :
            \E t \in {"none"} \cup (IF n = synced THEN {diskTail} ELSE {})
                    \cup (IF n = Len(rows) THEN {tail} ELSE {rows[n + 1].kind}) :
              /\ rows' = SubSeq(rows, 1, n)
              /\ synced' = n
              /\ tail' = t /\ diskTail' = t
              /\ holder' = NoProc
              /\ pc' = [p \in Procs |-> "idle"]
              /\ op' = [p \in Procs |-> "none"]
              /\ UNCHANGED <<row, used, hostVars>>
      BY <1>12 DEF PowerLoss
    <2>2. n \in 0..Len(rows)
      BY <1>len
    <2>3. n # Len(rows) => rows[n + 1].kind \in Tails
      <3> HAVE n # Len(rows)
      <3>1. n + 1 \in 1..Len(rows)
        BY <1>len, <2>2
      <3>2. rows[n + 1] \in Row
        BY <3>1, ElementOfSeq
      <3> QED BY <3>2, RowTypes
    <2>4. tail' \in Tails /\ diskTail' \in Tails
      BY <2>1, <2>3
    <2>5. /\ rows' \in Seq(Row) /\ Len(rows') = n /\ synced' = n
      BY <2>1, <2>2, PrefixOfRows
    <2> QED BY <2>1, <2>2, <2>4, <2>5 DEF hostVars
  <1>13. CASE SelectAnchor
    BY <1>13, <1>len DEF SelectAnchor, fileVars
  <1>14. CASE UNCHANGED vars
    BY <1>14 DEF vars
  <1> QED
    BY <1>1, <1>2, <1>3, <1>4, <1>5, <1>6, <1>7, <1>8, <1>9, <1>10, <1>11,
       <1>12, <1>13, <1>14 DEF Next, Calls, Steps

\* PermitLedger keeps its types for every value of the constants.
THEOREM TypeCorrect == Spec => []TypeOK
  BY TypeInit, TypeStep, PTL DEF Spec

\* A new ledger satisfies the inductive invariant.
LEMMA InvInit == Init => LedgerInv
  <1> SUFFICES ASSUME Init PROVE LedgerInv
    OBVIOUS
  <1>1. TypeOK
    BY TypeInit
  <1>2. HistoryScans
    BY EmptySeq DEF Init, HistoryScans, ScanAccepts
  <1> QED
    BY <1>1, <1>2 DEF Init, LedgerInv, LockHeld, CutPending, LeasePending, WritePending,
       ReturnPending, Honoured, NoReplay

\* An operation starts with the lock free, so with every process idle.
LEMMA LocksFromIdle ==
  ASSUME LedgerInv, NEW p \in Procs, Locks(p)
  PROVE  \A o \in Procs : pc[o] = "idle"
  BY NoProcAssumption DEF Locks, LedgerInv, LockHeld

\* Only the lock holder is not idle.
LEMMA OthersIdle ==
  ASSUME LedgerInv, NEW p \in Procs, pc[p] # "idle"
  PROVE  \A o \in Procs : o # p => pc[o] = "idle"
  BY DEF LedgerInv, LockHeld

\* What a request asks for is disjoint from every row when Unused holds.
LEMMA UnusedIsFresh ==
  ASSUME NEW q \in Requests, NEW n \in Nat, Unused(q)
  PROVE  \A k \in 1..Len(rows) :
           IdsOf(Consumed(q.permit, q.single, n)) \cap IdsOf(rows[k]) = {}
  <1>1. IdsOf(Consumed(q.permit, q.single, n)) = IdsOf(Consumed(q.permit, q.single, 0))
    BY DEF IdsOf, Consumed
  <1> QED BY <1>1 DEF Unused, UsedIds

\* Every step keeps the inductive invariant.
LEMMA InvStep == LedgerInv /\ [Next]_vars => LedgerInv'
  <1> SUFFICES ASSUME LedgerInv, [Next]_vars PROVE LedgerInv'
    OBVIOUS
  <1>type. TypeOK /\ TypeOK'
    BY TypeStep DEF LedgerInv
  <1>len. Len(rows) \in Nat /\ synced \in 0..Len(rows)
    BY <1>type, LenProperties DEF TypeOK
  <1> DEFINE Pending == LockHeld /\ CutPending /\ LeasePending /\ WritePending /\ ReturnPending
             Safe == HistoryScans /\ Honoured /\ NoReplay
  <1>goal. Pending' /\ Safe' => LedgerInv'
    BY <1>type DEF LedgerInv
  <1>same. UNCHANGED <<rows, synced, uses>> => Safe'
    BY DEF LedgerInv, HistoryScans, Honoured, NoReplay
  <1>1. ASSUME NEW p \in Procs, OpenLease(p) PROVE LedgerInv'
    <2>1. Pending'
      BY <1>1, <1>type, LocksFromIdle
         DEF OpenLease, Locks, fileVars, hostVars, TypeOK,
             LockHeld, CutPending, LeasePending, WritePending, ReturnPending
    <2> QED BY <1>1, <2>1, <1>goal, <1>same DEF OpenLease, fileVars, hostVars
  <1>2. ASSUME NEW p \in Procs, RecoverTornTail(p) PROVE LedgerInv'
    <2>1. Pending'
      BY <1>2, <1>type, LocksFromIdle
         DEF RecoverTornTail, Locks, fileVars, hostVars, TypeOK,
             LockHeld, CutPending, LeasePending, WritePending, ReturnPending
    <2> QED BY <1>2, <2>1, <1>goal, <1>same DEF RecoverTornTail, fileVars, hostVars
  <1>3. ASSUME NEW p \in Procs, NEW q \in Requests, Consume(p, q) PROVE LedgerInv'
    <2>1. /\ Consumed(q.permit, q.single, Len(rows)).prev = Len(rows)
          /\ \A k \in 1..Len(rows) :
               IdsOf(Consumed(q.permit, q.single, Len(rows))) \cap IdsOf(rows[k]) = {}
      BY <1>3, <1>len, UnusedIsFresh DEF Consume, Consumed
    <2>2. Pending'
      BY <1>3, <1>type, <2>1, LocksFromIdle
         DEF Consume, Locks, fileVars, hostVars, TypeOK,
             LockHeld, CutPending, LeasePending, WritePending, ReturnPending
    <2> QED BY <1>3, <2>2, <1>goal, <1>same DEF Consume, fileVars, hostVars
  <1>4. ASSUME NEW p \in Procs, NEW q \in Requests, LeaseConsume(p, q) PROVE LedgerInv'
    <2>1. /\ Consumed(q.permit, q.single, Len(rows)).prev = Len(rows)
          /\ \A k \in 1..Len(rows) :
               IdsOf(Consumed(q.permit, q.single, Len(rows))) \cap IdsOf(rows[k]) = {}
      BY <1>4, <1>len, UnusedIsFresh DEF LeaseConsume, Consumed
    <2>tail. tail = "none"
      BY <1>4 DEF LedgerInv, LeaseConsume, LeasePending
    <2>2. Pending'
      BY <1>4, <1>type, <2>1, <2>tail, OthersIdle
         DEF LeaseConsume, fileVars, hostVars, TypeOK, LedgerInv,
             LockHeld, CutPending, LeasePending, WritePending, ReturnPending
    <2> QED BY <1>4, <2>2, <1>goal, <1>same DEF LeaseConsume, fileVars, hostVars
  <1>5. ASSUME NEW p \in Procs, Truncate(p) PROVE LedgerInv'
    <2>1. Pending'
      BY <1>5, <1>type, OthersIdle
         DEF Truncate, hostVars, TypeOK, LedgerInv,
             LockHeld, CutPending, LeasePending, WritePending, ReturnPending
    <2> QED BY <1>5, <2>1, <1>goal, <1>same DEF Truncate, hostVars
  <1>6. ASSUME NEW p \in Procs, FsyncCut(p) PROVE LedgerInv'
    <2>1. /\ IdsOf(row[p]) = {} /\ row[p].prev = Len(rows) /\ tail = "none"
      BY <1>6, <1>len, RowTypes DEF FsyncCut, LedgerInv, CutPending, Recovery
    <2>2. Pending'
      BY <1>6, <1>type, <2>1, OthersIdle
         DEF FsyncCut, hostVars, TypeOK, LedgerInv,
             LockHeld, CutPending, LeasePending, WritePending, ReturnPending
    <2>3. Safe'
      BY <1>6, <1>len DEF FsyncCut, Flushes, hostVars, LedgerInv,
         HistoryScans, Honoured, NoReplay
    <2> QED BY <2>2, <2>3, <1>goal
  <1>7. ASSUME NEW p \in Procs, Write(p) PROVE LedgerInv'
    <2>1. /\ tail = "none" /\ row[p].prev = Len(rows) /\ row[p] \in Row
          /\ \A k \in 1..Len(rows) : IdsOf(row[p]) \cap IdsOf(rows[k]) = {}
      BY <1>7, <1>type DEF Write, LedgerInv, WritePending, TypeOK
    <2>2. /\ rows' = Append(rows, row[p]) /\ Len(rows') = Len(rows) + 1
          /\ rows'[Len(rows) + 1] = row[p]
          /\ \A k \in 1..Len(rows) : rows'[k] = rows[k]
      BY <1>7, <1>type, <2>1, AppendRow DEF Write, TypeOK
    <2>3. \A i \in IdsOf(row[p]) : uses[i] = 0
      <3> SUFFICES ASSUME NEW i \in IdsOf(row[p]) PROVE uses[i] = 0
        OBVIOUS
      <3>1. i \in Ids
        BY <2>1, RowTypes
      <3>2. \A k \in 1..synced : i \notin IdsOf(rows[k])
        BY <2>1, <1>len
      <3>3. ~ (uses[i] > 0)
        BY <3>1, <3>2 DEF LedgerInv, Honoured
      <3> QED BY <3>1, <3>3, <1>type DEF TypeOK
    <2>4. ReturnPending'
      <3>1. pc'[p] = "fsync" /\ \A o \in Procs : o # p => pc'[o] = "idle"
        BY <1>7, <1>type, OthersIdle DEF Write, TypeOK
      <3>2. /\ Len(rows') > 0 /\ row'[p] = rows'[Len(rows')] /\ tail' = "none"
            /\ \A i \in IdsOf(row'[p]) : uses'[i] = 0
        BY <1>7, <1>len, <2>1, <2>2, <2>3 DEF Write, hostVars
      <3> QED BY <3>1, <3>2 DEF ReturnPending
    <2>5. (LockHeld /\ CutPending /\ LeasePending /\ WritePending)'
      BY <1>7, <1>type, OthersIdle
         DEF Write, TypeOK, LedgerInv, LockHeld, CutPending, LeasePending, WritePending
    <2>6. HistoryScans'
      <3>1. \A k \in 1..Len(rows') : rows'[k].prev = k - 1
        BY <1>len, <2>1, <2>2 DEF LedgerInv, HistoryScans, ScanAccepts
      <3>2. ASSUME NEW j \in 1..Len(rows'), NEW k \in 1..Len(rows'), j # k
            PROVE  IdsOf(rows'[j]) \cap IdsOf(rows'[k]) = {}
        <4>1. CASE j = Len(rows) + 1
          BY <4>1, <3>2, <1>len, <2>1, <2>2
        <4>2. CASE k = Len(rows) + 1
          BY <4>2, <3>2, <1>len, <2>1, <2>2
        <4>3. CASE j \in 1..Len(rows) /\ k \in 1..Len(rows)
          BY <4>3, <3>2, <2>2 DEF LedgerInv, HistoryScans, ScanAccepts
        <4>4. j \in 1..Len(rows) + 1 /\ k \in 1..Len(rows) + 1
          BY <3>2, <2>2
        <4> QED BY <4>1, <4>2, <4>3, <4>4, <1>len
      <3> QED BY <3>1, <3>2 DEF HistoryScans, ScanAccepts
    <2>7. (Honoured /\ NoReplay)'
      BY <1>7, <1>len, <2>2 DEF Write, hostVars, LedgerInv, Honoured, NoReplay
    <2> QED BY <2>4, <2>5, <2>6, <2>7, <1>goal
  <1>8. ASSUME NEW p \in Procs, WriteTorn(p) PROVE LedgerInv'
    <2>1. pc[p] # "idle"
      BY <1>8 DEF WriteTorn
    <2>2. Pending'
      BY <1>8, <2>1, <1>type, OthersIdle
         DEF WriteTorn, Leaves, hostVars, TypeOK, LedgerInv,
             LockHeld, CutPending, LeasePending, WritePending, ReturnPending
    <2> QED BY <1>8, <2>2, <1>goal, <1>same DEF WriteTorn, hostVars
  <1>9. ASSUME NEW p \in Procs, Fsync(p) PROVE LedgerInv'
    <2>1. Pending'
      BY <1>9, <1>type, OthersIdle
         DEF Fsync, Flushes, hostVars, TypeOK, LedgerInv,
             LockHeld, CutPending, LeasePending, WritePending, ReturnPending
    <2>2. Safe'
      BY <1>9, <1>len DEF Fsync, Flushes, hostVars, LedgerInv,
         HistoryScans, Honoured, NoReplay
    <2> QED BY <2>1, <2>2, <1>goal
  <1>10. ASSUME NEW p \in Procs, Return(p) PROVE LedgerInv'
    <2>1. /\ pc[p] = "return" /\ synced = Len(rows) /\ Len(rows) > 0
          /\ row[p] = rows[Len(rows)] /\ tail = "none"
          /\ \A i \in IdsOf(row[p]) : uses[i] = 0
      BY <1>10 DEF Return, LedgerInv, ReturnPending
    <2>2. UNCHANGED <<rows, tail, synced, row>> /\ pc'[p] \in {"lease", "idle"}
          /\ \A o \in Procs : o # p => pc'[o] = "idle"
      <3>1. CASE op[p] = "lease"
        BY <3>1, <1>10, <2>1, <1>type, OthersIdle DEF Return, fileVars, TypeOK
      <3>2. CASE op[p] # "lease"
        BY <3>2, <1>10, <2>1, <1>type, OthersIdle DEF Return, Leaves, fileVars, TypeOK
      <3> QED BY <3>1, <3>2
    <2>3. pc'[p] = "lease" => holder' = p
      BY <1>10, <2>1, <1>type DEF Return, Leaves, LedgerInv, LockHeld, TypeOK
    <2>4. Pending'
      BY <2>1, <2>2, <2>3 DEF LockHeld, CutPending, LeasePending, WritePending, ReturnPending
    <2>5. \A i \in Ids : uses'[i] = uses[i] + (IF i \in IdsOf(row[p]) THEN 1 ELSE 0)
      BY <1>10 DEF Return
    <2>6. NoReplay'
      BY <2>1, <2>5, <1>type DEF LedgerInv, NoReplay, TypeOK
    <2>7. Honoured'
      <3> SUFFICES ASSUME NEW i \in Ids, uses'[i] > 0
                   PROVE  \E k \in 1..synced : i \in IdsOf(rows[k])
        BY <2>2 DEF Honoured
      <3>1. CASE i \in IdsOf(row[p])
        BY <3>1, <2>1, <1>len
      <3>2. CASE i \notin IdsOf(row[p])
        <4>1. uses[i] > 0
          BY <3>2, <2>5, <1>type DEF TypeOK
        <4> QED BY <4>1 DEF LedgerInv, Honoured
      <3> QED BY <3>1, <3>2
    <2>8. HistoryScans'
      BY <2>2 DEF LedgerInv, HistoryScans
    <2> QED BY <2>4, <2>6, <2>7, <2>8, <1>goal
  <1>11. ASSUME NEW p \in Procs, Abort(p) \/ CloseLease(p) PROVE LedgerInv'
    <2>1. pc[p] # "idle"
      BY <1>11 DEF Abort, CloseLease
    <2>2. Pending'
      BY <1>11, <2>1, <1>type, OthersIdle
         DEF Abort, CloseLease, Leaves, fileVars, hostVars, TypeOK, LedgerInv,
             LockHeld, CutPending, LeasePending, WritePending, ReturnPending
    <2> QED BY <1>11, <2>2, <1>goal, <1>same DEF Abort, CloseLease, fileVars, hostVars
  <1>12. CASE PowerLoss
    <2>1. PICK n \in synced..Len(rows) :
              /\ rows' = SubSeq(rows, 1, n)
              /\ synced' = n
              /\ pc' = [p \in Procs |-> "idle"]
              /\ uses' = uses
      BY <1>12 DEF PowerLoss, hostVars
    <2>2. /\ Len(rows') = n /\ n \in 0..Len(rows)
          /\ \A k \in 1..n : rows'[k] = rows[k]
      BY <2>1, <1>len, <1>type, PrefixOfRows DEF TypeOK
    <2>3. Pending'
      BY <2>1 DEF LockHeld, CutPending, LeasePending, WritePending, ReturnPending
    <2>4. HistoryScans'
      <3>1. ASSUME NEW k \in 1..Len(rows') PROVE k \in 1..Len(rows) /\ rows'[k] = rows[k]
        BY <2>2, <1>len
      <3>2. /\ \A k \in 1..Len(rows') : rows'[k].prev = k - 1
            /\ \A j, k \in 1..Len(rows') :
                 j # k => IdsOf(rows'[j]) \cap IdsOf(rows'[k]) = {}
        BY <3>1 DEF LedgerInv, HistoryScans, ScanAccepts
      <3> QED BY <3>2 DEF HistoryScans, ScanAccepts
    <2>5. (Honoured /\ NoReplay)'
      BY <2>1, <2>2, <1>len DEF LedgerInv, Honoured, NoReplay
    <2> QED BY <2>3, <2>4, <2>5, <1>goal
  <1>13. CASE SelectAnchor
    <2>1. Pending'
      BY <1>13 DEF SelectAnchor, fileVars, LedgerInv,
         LockHeld, CutPending, LeasePending, WritePending, ReturnPending
    <2> QED BY <1>13, <2>1, <1>goal, <1>same DEF SelectAnchor, fileVars
  <1>14. CASE UNCHANGED vars
    <2>1. Pending'
      BY <1>14 DEF vars, LedgerInv,
         LockHeld, CutPending, LeasePending, WritePending, ReturnPending
    <2> QED BY <1>14, <2>1, <1>goal, <1>same DEF vars
  <1> QED
    BY <1>1, <1>2, <1>3, <1>4, <1>5, <1>6, <1>7, <1>8, <1>9, <1>10, <1>11,
       <1>12, <1>13, <1>14 DEF Next, Calls, Steps

\* Between any two steps the file scans, what was honoured is durable and the
\* lock holder is where its next step assumes (the inductive invariant).
THEOREM LedgerInvariant == Spec => []LedgerInv
  BY InvInit, InvStep, PTL DEF Spec

\* No identifier is honoured twice, across processes, kills, torn writes, power
\* losses and recoveries (consume, LedgerAdmissionLeaseV2.consume).
THEOREM NoIdentifierHonouredTwice == Spec => []NoReplay
  <1>1. LedgerInv => NoReplay
    BY DEF LedgerInv
  <1> QED BY <1>1, LedgerInvariant, PTL

\* The complete rows of the file always scan: linked, no identifier twice.
THEOREM HistoryAlwaysScans == Spec => []HistoryScans
  <1>1. LedgerInv => HistoryScans
    BY DEF LedgerInv
  <1> QED BY <1>1, LedgerInvariant, PTL

\* What a caller was told about is in the prefix a power loss preserves.
THEOREM HonouredSurvives == Spec => []HonouredIsDurable
  <1>1. LedgerInv => HonouredIsDurable
    <2> SUFFICES ASSUME LedgerInv, NEW i \in Ids, uses[i] > 0
                 PROVE  i \in UsedIds(SubSeq(rows, 1, synced))
      BY DEF HonouredIsDurable
    <2>1. PICK k \in 1..synced : i \in IdsOf(rows[k])
      BY DEF LedgerInv, Honoured
    <2>2. /\ Len(SubSeq(rows, 1, synced)) = synced
          /\ SubSeq(rows, 1, synced)[k] = rows[k]
      BY PrefixOfRows, LenProperties DEF LedgerInv, TypeOK
    <2> QED BY <2>1, <2>2 DEF UsedIds
  <1> QED BY <1>1, LedgerInvariant, PTL

-----------------------------------------------------------------------------
(***************************************************************************)
(* What a step may do: durable rows are never removed, the prefix the host *)
(* selected stays in the file, and the ledger implements ConsumeOnce.  The *)
(* write of a row burns its identifiers, the return of a call honours      *)
(* them, a power loss forgets some that nobody was told about, and every   *)
(* other step stutters.                                                    *)
(***************************************************************************)

\* What a step can do to the rows: nothing, append the holder's row, or drop
\* rows that were not durable.
LEMMA RowsStep ==
  ASSUME LedgerInv, [Next]_vars
  PROVE  \/ rows' = rows
         \/ \E p \in Procs : /\ Write(p)
                             /\ rows' = Append(rows, row[p]) /\ row[p] \in Row
         \/ \E n \in synced..Len(rows) :
              PowerLoss /\ rows' = SubSeq(rows, 1, n) /\ uses' = uses
  <1>1. ASSUME NEW p \in Procs, Calls(p) PROVE rows' = rows
    BY <1>1 DEF Calls, OpenLease, RecoverTornTail, Consume, LeaseConsume, fileVars
  <1>2. ASSUME NEW p \in Procs, Write(p)
        PROVE  rows' = Append(rows, row[p]) /\ row[p] \in Row
    BY <1>2 DEF Write, LedgerInv, WritePending, TypeOK
  <1>3. ASSUME NEW p \in Procs, Steps(p), ~Write(p) PROVE rows' = rows
    BY <1>3 DEF Steps, Truncate, FsyncCut, WriteTorn, Fsync, Return, Abort,
       CloseLease, fileVars
  <1>4. CASE PowerLoss
    BY <1>4 DEF PowerLoss, hostVars
  <1>5. SelectAnchor \/ UNCHANGED vars => rows' = rows
    BY DEF SelectAnchor, fileVars, vars
  <1> QED BY <1>1, <1>2, <1>3, <1>4, <1>5 DEF Next

-----------------------------------------------------------------------------
\* Two sequences that agree up to m have the same prefix of length m.
LEMMA SamePrefix ==
  ASSUME NEW s \in Seq(Row), NEW t \in Seq(Row), NEW m \in Nat,
         m <= Len(s), m <= Len(t), \A k \in 1..m : s[k] = t[k]
  PROVE  SubSeq(s, 1, m) = SubSeq(t, 1, m)
  <1>1. m \in 0..Len(s) /\ m \in 0..Len(t)
    BY LenProperties
  <1>2. /\ SubSeq(s, 1, m) \in Seq(Row) /\ Len(SubSeq(s, 1, m)) = m
        /\ \A k \in 1..m : SubSeq(s, 1, m)[k] = s[k]
    BY <1>1, PrefixOfRows
  <1>3. /\ SubSeq(t, 1, m) \in Seq(Row) /\ Len(SubSeq(t, 1, m)) = m
        /\ \A k \in 1..m : SubSeq(t, 1, m)[k] = t[k]
    BY <1>1, PrefixOfRows
  <1> QED BY <1>2, <1>3, SeqEqual

\* No step removes or rewrites a durable row.
LEMMA DurableKept ==
  ASSUME LedgerInv, [Next]_vars
  PROVE  synced <= Len(rows') /\ SubSeq(rows', 1, synced) = SubSeq(rows, 1, synced)
  <1>1. /\ rows \in Seq(Row) /\ rows' \in Seq(Row)
        /\ Len(rows) \in Nat /\ synced \in 0..Len(rows)
    BY TypeStep, LenProperties DEF LedgerInv, TypeOK
  <1>2. synced <= Len(rows') /\ \A k \in 1..synced : rows'[k] = rows[k]
    <2>1. CASE rows' = rows
      BY <1>1, <2>1
    <2>2. ASSUME NEW p \in Procs, rows' = Append(rows, row[p]), row[p] \in Row
          PROVE  synced <= Len(rows') /\ \A k \in 1..synced : rows'[k] = rows[k]
      BY <1>1, <2>2, AppendRow
    <2>3. ASSUME NEW n \in synced..Len(rows), rows' = SubSeq(rows, 1, n)
          PROVE  synced <= Len(rows') /\ \A k \in 1..synced : rows'[k] = rows[k]
      BY <1>1, <2>3, PrefixOfRows
    <2> QED BY <2>1, <2>2, <2>3, RowsStep
  <1> QED BY <1>1, <1>2, SamePrefix

\* Durable rows are never removed or rewritten: not by a recovery's truncation,
\* a torn write, a kill or a power loss.
THEOREM DurableRowsStay == Spec => DurableAppendOnly
  <1>1. LedgerInv /\ [Next]_vars =>
          [/\ synced <= Len(rows')
           /\ SubSeq(rows', 1, synced) = SubSeq(rows, 1, synced)]_vars
    BY DurableKept
  <1> QED BY <1>1, LedgerInvariant, PTL DEF Spec, DurableAppendOnly

-----------------------------------------------------------------------------
\* Counts the host has heard of are durable.
HeardIsDurable == reported <= synced /\ anchor <= synced

\* A step keeps the counts the host has heard of inside the durable prefix.
LEMMA HeardStep ==
  LedgerInv /\ HeardIsDurable /\ [Next]_vars => HeardIsDurable'
  <1> SUFFICES ASSUME LedgerInv, HeardIsDurable, [Next]_vars PROVE HeardIsDurable'
    OBVIOUS
  <1>type. /\ TypeOK /\ TypeOK' /\ Len(rows) \in Nat /\ synced \in 0..Len(rows)
           /\ synced \in Nat /\ reported \in Nat /\ anchor \in Nat
    BY TypeStep, LenProperties DEF LedgerInv, TypeOK
  <1>1. ASSUME NEW p \in Procs, Calls(p) PROVE HeardIsDurable'
    BY <1>1 DEF Calls, OpenLease, RecoverTornTail, Consume, LeaseConsume, fileVars,
       hostVars, HeardIsDurable
  <1>2. ASSUME NEW p \in Procs, FsyncCut(p) \/ Fsync(p) PROVE HeardIsDurable'
    BY <1>2, <1>type DEF FsyncCut, Fsync, Flushes, hostVars, HeardIsDurable
  <1>3. ASSUME NEW p \in Procs, Return(p) PROVE HeardIsDurable'
    <2>1. synced = Len(rows)
      BY <1>3 DEF Return, LedgerInv, ReturnPending
    <2> QED BY <1>3, <2>1, <1>type DEF Return, fileVars, HeardIsDurable
  <1>4. ASSUME NEW p \in Procs,
               Truncate(p) \/ Write(p) \/ WriteTorn(p) \/ Abort(p) \/ CloseLease(p)
        PROVE  HeardIsDurable'
    BY <1>4 DEF Truncate, Write, WriteTorn, Abort, CloseLease, fileVars, hostVars,
       HeardIsDurable
  <1>5. CASE PowerLoss
    <2>1. PICK n \in synced..Len(rows) : synced' = n /\ UNCHANGED hostVars
      BY <1>5 DEF PowerLoss
    <2> QED BY <2>1, <1>type DEF hostVars, HeardIsDurable
  <1>6. CASE SelectAnchor
    BY <1>6 DEF SelectAnchor, fileVars, HeardIsDurable
  <1>7. CASE UNCHANGED vars
    BY <1>7 DEF vars, HeardIsDurable
  <1> QED BY <1>1, <1>2, <1>3, <1>4, <1>5, <1>6, <1>7 DEF Next, Steps

\* A host that selects only counts an append returned is never left with a
\* selection the file no longer covers.
THEOREM SelectionStaysCovered == Spec => []AnchorCovered
  <1>1. Init => HeardIsDurable
    BY DEF Init, HeardIsDurable
  <1>2. LedgerInv /\ HeardIsDurable => AnchorCovered
    BY LenProperties DEF LedgerInv, TypeOK, HeardIsDurable, AnchorCovered
  <1> QED BY <1>1, <1>2, HeardStep, LedgerInvariant, PTL DEF Spec

-----------------------------------------------------------------------------
\* Appending a row adds exactly its identifiers to those consumed.
LEMMA UsedAfterAppend ==
  ASSUME NEW s \in Seq(Row), NEW r \in Row
  PROVE  UsedIds(Append(s, r)) = UsedIds(s) \cup IdsOf(r)
  <1>1. Len(s) \in Nat /\ \A k \in 1..Len(s) + 1 : k \in 1..Len(s) \/ k = Len(s) + 1
    BY LenProperties
  <1> QED BY <1>1, AppendRow DEF UsedIds

\* A prefix consumes no identifier the whole does not.
LEMMA UsedInPrefix ==
  ASSUME NEW s \in Seq(Row), NEW n \in 0..Len(s)
  PROVE  /\ UsedIds(SubSeq(s, 1, n)) \subseteq UsedIds(s)
         /\ \A k \in 1..n : IdsOf(s[k]) \subseteq UsedIds(SubSeq(s, 1, n))
  <1>1. \A k \in 1..n : k \in 1..Len(s)
    BY LenProperties
  <1> QED BY <1>1, PrefixOfRows DEF UsedIds

\* The identifiers rows consume are identifiers.
LEMMA UsedType ==
  ASSUME NEW s \in Seq(Row) PROVE UsedIds(s) \subseteq Ids
  BY RowTypes, ElementOfSeq DEF UsedIds

\* Every step burns, honours or forgets identifiers, or changes neither.
LEMMA OnceStep == LedgerInv /\ [Next]_vars => [Once!Next]_Once!onceVars
  <1> SUFFICES ASSUME LedgerInv, [Next]_vars PROVE [Once!Next]_Once!onceVars
    OBVIOUS
  <1>type. /\ rows \in Seq(Row) /\ Len(rows) \in Nat /\ synced \in 0..Len(rows)
           /\ uses \in [Ids -> Nat] /\ row \in [Procs -> Row]
    BY LenProperties DEF LedgerInv, TypeOK
  <1>1. ASSUME NEW p \in Procs, Calls(p) PROVE UNCHANGED <<rows, uses>>
    BY <1>1 DEF Calls, OpenLease, RecoverTornTail, Consume, LeaseConsume, fileVars,
       hostVars
  <1>2. ASSUME NEW p \in Procs, Steps(p), ~Write(p), ~Return(p)
        PROVE  UNCHANGED <<rows, uses>>
    BY <1>2 DEF Steps, Truncate, FsyncCut, WriteTorn, Fsync, Abort, CloseLease,
       fileVars, hostVars
  <1>3. SelectAnchor \/ UNCHANGED vars => UNCHANGED <<rows, uses>>
    BY DEF SelectAnchor, fileVars, vars
  <1>4. UNCHANGED <<rows, uses>> => UNCHANGED Once!onceVars
    BY DEF Once!onceVars
  <1>5. ASSUME NEW p \in Procs, Write(p) PROVE Once!Next
    <2>1. /\ rows' = Append(rows, row[p]) /\ row[p] \in Row /\ uses' = uses
          /\ \A k \in 1..Len(rows) : IdsOf(row[p]) \cap IdsOf(rows[k]) = {}
      BY <1>5 DEF Write, LedgerInv, WritePending, TypeOK, hostVars
    <2>2. UsedIds(rows)' = UsedIds(rows) \cup IdsOf(row[p])
      BY <2>1, <1>type, UsedAfterAppend
    <2>3. IdsOf(row[p]) \cap UsedIds(rows) = {} /\ IdsOf(row[p]) \subseteq Ids
      BY <2>1, RowTypes DEF UsedIds
    <2>4. Once!Burn(IdsOf(row[p]))
      BY <2>1, <2>2, <2>3 DEF Once!Burn
    <2> QED BY <2>3, <2>4 DEF Once!Next
  <1>6. ASSUME NEW p \in Procs, Return(p) PROVE Once!Next
    <2>1. /\ Len(rows) > 0 /\ row[p] = rows[Len(rows)] /\ row[p] \in Row
          /\ \A i \in IdsOf(row[p]) : uses[i] = 0
      BY <1>6, <1>type DEF Return, LedgerInv, ReturnPending
    <2>2. /\ rows' = rows
          /\ uses' = [i \in Ids |-> uses[i] + (IF i \in IdsOf(row[p]) THEN 1 ELSE 0)]
      BY <1>6 DEF Return, fileVars
    <2>3. IdsOf(row[p]) \subseteq UsedIds(rows) /\ IdsOf(row[p]) \subseteq Ids
      BY <2>1, <1>type, RowTypes DEF UsedIds
    <2>4. Once!Honour(IdsOf(row[p]))
      BY <2>1, <2>2, <2>3 DEF Once!Honour
    <2> QED BY <2>3, <2>4 DEF Once!Next
  <1>7. CASE PowerLoss
    <2>1. PICK n \in synced..Len(rows) : rows' = SubSeq(rows, 1, n) /\ uses' = uses
      BY <1>7 DEF PowerLoss, hostVars
    <2> DEFINE S == UsedIds(rows) \ UsedIds(rows)'
    <2>2. n \in 0..Len(rows) /\ \A k \in 1..synced : k \in 1..n
      BY <1>type
    <2>3. /\ UsedIds(rows)' \subseteq UsedIds(rows)
          /\ \A k \in 1..synced : IdsOf(rows[k]) \subseteq UsedIds(rows)'
      BY <2>1, <2>2, <1>type, UsedInPrefix
    <2>4. S \subseteq Ids
      BY <1>type, UsedType
    <2>5. \A i \in S : uses[i] = 0
      <3> SUFFICES ASSUME NEW i \in S, uses[i] > 0 PROVE FALSE
        BY <2>4, <1>type
      <3>1. PICK k \in 1..synced : i \in IdsOf(rows[k])
        BY <2>4 DEF LedgerInv, Honoured
      <3> QED BY <3>1, <2>3
    <2>6. Once!Forget(S)
      BY <2>1, <2>3, <2>5 DEF Once!Forget
    <2> QED BY <2>4, <2>6 DEF Once!Next
  <1> QED BY <1>1, <1>2, <1>3, <1>4, <1>5, <1>6, <1>7 DEF Next

\* The ledger implements the single-use promise ConsumeOnce: an identifier is
\* burned before one caller, at most, is told of it, and only an identifier
\* nobody was told about is ever forgotten.
THEOREM LedgerImplementsOnce == Spec => ImplementsConsumeOnce
  <1>1. Init => Once!Init
    BY EmptySeq DEF Init, Once!Init, UsedIds
  <1> QED BY <1>1, OnceStep, LedgerInvariant, PTL DEF Spec, ImplementsConsumeOnce, Once!Spec
=============================================================================
