---------------------------- MODULE PermitLedger ----------------------------
(***************************************************************************)
(* The durable single-use permit ledger:                                   *)
(* src/rigor_foundry/permit_consumption_ledger_v2.py with the record and   *)
(* descriptor code it calls.  Several processes of one service share one   *)
(* append-only file under a blocking exclusive flock.  An operation is cut *)
(* where a crash can separate its effects: the locked scan and checks, the *)
(* write (complete or torn), the fsync, and the return to the caller.      *)
(*                                                                         *)
(* A row is abstracted to its identifiers and to its place in the hash     *)
(* chain: `prev` is the number of rows below it, so `prev = index - 1`     *)
(* says what "previous head equals the running head" says of digests.      *)
(* A torn tail is abstracted to the kind of the row it is a fragment of.   *)
(***************************************************************************)
EXTENDS Naturals, Sequences

CONSTANTS
    Procs,          \* processes of the service
    Ids,            \* UUIDs used as permit or single-use identifiers
    NoId,           \* _EMPTY_ID: the single-use field left empty
    NoProc,         \* nobody holds the lock
    MaxRows         \* bound of the model: rows written to one file

ASSUME NoIdAssumption == NoId \notin Ids
ASSUME NoProcAssumption == NoProc \notin Procs
ASSUME MaxRowsAssumption == MaxRows \in Nat

VARIABLES
    rows,           \* complete rows any reader sees (page cache)
    tail,           \* kind of the torn fragment behind them, or "none"
    synced,         \* rows that survive a power loss
    diskTail,       \* torn fragment that survives a power loss
    holder,         \* process holding the flock
    pc,             \* where each process is
    op,             \* the operation it runs
    row,            \* the row that operation appends
    used,           \* lease.used of its open admission lease
    uses,           \* [id -> number of callers told "you consumed it"]
    reported,       \* count returned by the last completed append
    anchor          \* the prefix length the protected host has selected

vars == <<rows, tail, synced, diskTail, holder, pc, op, row, used, uses,
          reported, anchor>>
fileVars == <<rows, tail, synced, diskTail>>
hostVars == <<uses, reported, anchor>>

-----------------------------------------------------------------------------
Consumed(permit, single, prev) ==
    [kind |-> "consumed", permit |-> permit, single |-> single, prev |-> prev]
Recovery(prev) ==
    [kind |-> "recovery", permit |-> NoId, single |-> NoId, prev |-> prev]

Row == [kind : {"consumed", "recovery"}, permit : Ids \cup {NoId},
        single : Ids \cup {NoId}, prev : Nat]

IdsOf(r) == {r.permit, r.single} \ {NoId}

\* Every identifier a scan finds consumed, in either field.
UsedIds(s) == UNION {IdsOf(s[k]) : k \in 1..Len(s)}

\* _scan accepts the complete rows: linked, and no identifier twice.
ScanAccepts(s) ==
    /\ \A k \in 1..Len(s) : s[k].prev = k - 1
    /\ \A j, k \in 1..Len(s) : j # k => IdsOf(s[j]) \cap IdsOf(s[k]) = {}

\* A permit UUID and its optional, distinct single-use UUID.
Requests == {q \in [permit : Ids, single : Ids \cup {NoId}] : q.permit # q.single}

-----------------------------------------------------------------------------
\* The log as the operator's initialize() returned it, before any caller uses
\* it: the header is written, the file and its directory are synchronised.  What
\* an initialize() that stopped on the way leaves is not modelled: no second one
\* replaces it (O_EXCL), and no call accepts a header that is torn.
Init ==
    /\ rows = <<>> /\ tail = "none" /\ synced = 0 /\ diskTail = "none"
    /\ holder = NoProc
    /\ pc = [p \in Procs |-> "idle"]
    /\ op = [p \in Procs |-> "none"]
    /\ row = [p \in Procs |-> Recovery(0)]
    /\ used = [p \in Procs |-> FALSE]
    /\ uses = [i \in Ids |-> 0]
    /\ reported = 0 /\ anchor = 0

\* Mutant: the flock is shared instead of exclusive.
LocksShared(p) ==
    /\ pc[p] = "idle"
    /\ ScanAccepts(rows)
    /\ holder' = p

\* _locked: the flock is granted and the whole complete history scans.
Locks(p) ==
    /\ pc[p] = "idle" /\ holder = NoProc
    /\ ScanAccepts(rows)
    /\ holder' = p

\* The descriptor is closed, by return, exception or death of the process.
Leaves(p) ==
    /\ holder' = NoProc
    /\ pc' = [pc EXCEPT ![p] = "idle"]
    /\ op' = [op EXCEPT ![p] = "none"]

\* Mutant: only the permit field is compared, as before dual identifiers.
UnusedPermit(q) == \A k \in 1..Len(rows) : rows[k].permit # q.permit

\* Neither identifier was consumed before, in either field.
Unused(q) == IdsOf(Consumed(q.permit, q.single, 0)) \cap UsedIds(rows) = {}

\* consume(): lock, scan, refuse a torn tail or a known identifier.
Consume(p, q) ==
    /\ Locks(p) /\ tail = "none" /\ Unused(q)
    /\ Len(rows) < MaxRows
    /\ row' = [row EXCEPT ![p] = Consumed(q.permit, q.single, Len(rows))]
    /\ pc' = [pc EXCEPT ![p] = "write"]
    /\ op' = [op EXCEPT ![p] = "consume"]
    /\ UNCHANGED <<fileVars, used, hostVars>>

\* locked_admission(): a lease only at the exact selected current tail.
OpenLease(p) ==
    /\ Locks(p) /\ tail = "none" /\ Len(rows) = anchor
    /\ pc' = [pc EXCEPT ![p] = "lease"]
    /\ op' = [op EXCEPT ![p] = "lease"]
    /\ used' = [used EXCEPT ![p] = FALSE]
    /\ UNCHANGED <<fileVars, row, hostVars>>

\* LedgerAdmissionLeaseV2.consume(): `used` is set before the append.
LeaseConsume(p, q) ==
    /\ pc[p] = "lease" /\ ~used[p] /\ Unused(q)
    /\ Len(rows) < MaxRows
    /\ used' = [used EXCEPT ![p] = TRUE]
    /\ row' = [row EXCEPT ![p] = Consumed(q.permit, q.single, Len(rows))]
    /\ pc' = [pc EXCEPT ![p] = "write"]
    /\ UNCHANGED <<fileVars, holder, op, hostVars>>

\* Leaving the lease context: inactive, post-check, descriptor closed.
CloseLease(p) ==
    /\ pc[p] = "lease"
    /\ Leaves(p)
    /\ UNCHANGED <<fileVars, row, used, hostVars>>

\* recover_torn_tail(): only with a torn tail behind a history that scans.
RecoverTornTail(p) ==
    /\ Locks(p) /\ tail # "none"
    /\ Len(rows) < MaxRows
    /\ row' = [row EXCEPT ![p] = Recovery(Len(rows))]
    /\ pc' = [pc EXCEPT ![p] = "truncate"]
    /\ op' = [op EXCEPT ![p] = "recover"]
    /\ UNCHANGED <<fileVars, used, hostVars>>

\* Mutant: the new size is short by one complete row.
TruncateRow(p) ==
    /\ pc[p] = "truncate" /\ rows # <<>>
    /\ rows' = SubSeq(rows, 1, Len(rows) - 1)
    /\ tail' = "none"
    /\ pc' = [pc EXCEPT ![p] = "fsync-cut"]
    /\ UNCHANGED <<synced, diskTail, holder, op, row, used, hostVars>>

\* os.ftruncate: the fragment disappears from view, not yet from the disk.
Truncate(p) ==
    /\ pc[p] = "truncate"
    /\ tail' = "none"
    /\ pc' = [pc EXCEPT ![p] = "fsync-cut"]
    /\ UNCHANGED <<rows, synced, diskTail, holder, op, row, used, hostVars>>

\* Mutant: the appended row is left in the page cache.
FlushesNothing ==
    /\ synced' = synced
    /\ diskTail' = diskTail

\* fsync makes everything that is visible durable.
Flushes ==
    /\ synced' = Len(rows)
    /\ diskTail' = tail

FsyncCut(p) ==
    /\ pc[p] = "fsync-cut"
    /\ Flushes
    /\ pc' = [pc EXCEPT ![p] = "write"]
    /\ UNCHANGED <<rows, tail, holder, op, row, used, hostVars>>

\* Mutant: the head is returned without an fsync.
WriteUnsynced(p) ==
    /\ pc[p] = "write"
    /\ rows' = Append(rows, row[p])
    /\ pc' = [pc EXCEPT ![p] = "return"]
    /\ UNCHANGED <<tail, synced, diskTail, holder, op, row, used, hostVars>>

\* _write_all completed.  Behind a fragment the bytes would not line up.
Write(p) ==
    /\ pc[p] = "write"
    /\ rows' = Append(rows, IF tail = "none" THEN row[p]
                            ELSE [row[p] EXCEPT !.prev = @ + 1])
    /\ pc' = [pc EXCEPT ![p] = "fsync"]
    /\ UNCHANGED <<tail, synced, diskTail, holder, op, row, used, hostVars>>

\* _write_all raised, or its process died, after a part of the row.
WriteTorn(p) ==
    /\ pc[p] = "write"
    /\ tail' = row[p].kind
    /\ Leaves(p)
    /\ UNCHANGED <<rows, synced, diskTail, row, used, hostVars>>

Fsync(p) ==
    /\ pc[p] = "fsync"
    /\ Flushes
    /\ pc' = [pc EXCEPT ![p] = "return"]
    /\ UNCHANGED <<rows, tail, holder, op, row, used, hostVars>>

\* The caller learns the new head.  A lease stays open after its append;
\* consume and recover_torn_tail run their closing post-check and unlock.
Return(p) ==
    /\ pc[p] = "return"
    /\ uses' = [i \in Ids |-> uses[i] + (IF i \in IdsOf(row[p]) THEN 1 ELSE 0)]
    /\ reported' = Len(rows)
    /\ IF op[p] = "lease"
       THEN /\ pc' = [pc EXCEPT ![p] = "lease"]
            /\ UNCHANGED <<holder, op>>
       ELSE Leaves(p)
    /\ UNCHANGED <<fileVars, row, used, anchor>>

\* An exception (refused post-check, failed truncate, write or fsync) or the
\* death of the process at any point: nothing is undone, the flock is freed.
Abort(p) ==
    /\ pc[p] # "idle"
    /\ Leaves(p)
    /\ UNCHANGED <<fileVars, row, used, hostVars>>

\* The machine loses power: of the rows written after the last fsync a prefix
\* survives, with any fragment the file had or was being given behind it.
PowerLoss ==
    \E n \in synced..Len(rows) :
      \E t \in {"none"} \cup (IF n = synced THEN {diskTail} ELSE {})
                        \cup (IF n = Len(rows) THEN {tail} ELSE {rows[n + 1].kind}) :
        /\ rows' = SubSeq(rows, 1, n)
        /\ synced' = n
        /\ tail' = t /\ diskTail' = t
        /\ holder' = NoProc
        /\ pc' = [p \in Procs |-> "idle"]
        /\ op' = [p \in Procs |-> "none"]
        /\ UNCHANGED <<row, used, hostVars>>

\* The protected host (not in the repository) durably selects a new prefix: the
\* count an append returned.
SelectAnchor ==
    /\ holder = NoProc
    /\ anchor' = reported
    /\ UNCHANGED <<fileVars, holder, pc, op, row, used, uses, reported>>

Steps(p) ==
    \/ Truncate(p) \/ FsyncCut(p) \/ Write(p) \/ WriteTorn(p) \/ Fsync(p)
    \/ Return(p) \/ Abort(p) \/ CloseLease(p)

Calls(p) ==
    \/ OpenLease(p) \/ RecoverTornTail(p)
    \/ \E q \in Requests : Consume(p, q) \/ LeaseConsume(p, q)

Next ==
    \/ \E p \in Procs : Calls(p) \/ Steps(p)
    \/ PowerLoss
    \/ SelectAnchor

Spec == Init /\ [][Next]_vars

-----------------------------------------------------------------------------
(* Properties.                                                             *)

Tails == {"none", "consumed", "recovery"}

\* Every variable keeps its type.
TypeOK ==
    /\ rows \in Seq(Row) /\ tail \in Tails
    /\ synced \in 0..Len(rows) /\ diskTail \in Tails
    /\ holder \in Procs \cup {NoProc}
    /\ pc \in [Procs -> {"idle", "lease", "truncate", "fsync-cut", "write",
                         "fsync", "return"}]
    /\ op \in [Procs -> {"none", "consume", "lease", "recover"}]
    /\ row \in [Procs -> Row]
    /\ used \in [Procs -> BOOLEAN]
    /\ uses \in [Ids -> Nat]
    /\ reported \in Nat /\ anchor \in Nat

\* consume: at most one caller is ever told that it consumed an identifier,
\* whichever of the two fields the identifier was presented in, across
\* processes, torn writes, kills, power losses and recoveries.
NoReplay == \A i \in Ids : uses[i] <= 1

\* consume: an identifier some caller was told about is in the durable prefix
\* of the file, so no later crash can make it consumable again.
HonouredIsDurable ==
    \A i \in Ids : uses[i] > 0 => i \in UsedIds(SubSeq(rows, 1, synced))

\* _scan: no interleaving or crash leaves a file whose complete rows a later
\* scan refuses (a broken chain, an identifier twice): the ledger would refuse
\* every operation for good, and recovery cannot repair complete rows.
HistoryScans == ScanAccepts(rows)

\* recover_torn_tail, consume: durable rows are never removed or rewritten.
DurableAppendOnly ==
    [][/\ synced <= Len(rows')
       /\ SubSeq(rows', 1, synced) = SubSeq(rows, 1, synced)]_vars

\* verify_anchor: the file never becomes shorter than the prefix the host
\* selected, which would refuse every later verification.
AnchorCovered == anchor <= Len(rows)

\* The strengthening that makes the safety invariants inductive: who holds the
\* lock, and for the holder what its next step relies on.
LockHeld == \A p \in Procs : pc[p] # "idle" => holder = p
CutPending ==
    \A p \in Procs : pc[p] \in {"truncate", "fsync-cut"} =>
        /\ row[p] = Recovery(Len(rows))
        /\ pc[p] = "fsync-cut" => tail = "none"
LeasePending == \A p \in Procs : pc[p] = "lease" => tail = "none"
WritePending ==
    \A p \in Procs : pc[p] = "write" =>
        /\ tail = "none" /\ row[p].prev = Len(rows)
        /\ \A k \in 1..Len(rows) : IdsOf(row[p]) \cap IdsOf(rows[k]) = {}
ReturnPending ==
    \A p \in Procs : pc[p] \in {"fsync", "return"} =>
        /\ Len(rows) > 0 /\ row[p] = rows[Len(rows)]
        /\ \A i \in IdsOf(row[p]) : uses[i] = 0
        /\ tail = "none"
        /\ pc[p] = "return" => synced = Len(rows)
Honoured ==
    \A i \in Ids : uses[i] > 0 => \E k \in 1..synced : i \in IdsOf(rows[k])

\* Between two steps of any processes the file scans, what was honoured is in
\* its durable prefix, and the lock holder is where its next step assumes.
LedgerInv ==
    /\ TypeOK
    /\ LockHeld /\ CutPending /\ LeasePending /\ WritePending /\ ReturnPending
    /\ HistoryScans /\ Honoured /\ NoReplay

\* The abstract promise this file system dance implements.
Once == INSTANCE ConsumeOnce WITH spent <- UsedIds(rows), uses <- uses
ImplementsConsumeOnce == Once!Spec
=============================================================================
