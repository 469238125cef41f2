---------------------------- MODULE EvidenceStore ----------------------------
(***************************************************************************)
(* The store of recovery evidence:                                         *)
(* src/rigor_foundry/recovery_evidence_store_v2.py.  A publisher holds the *)
(* directory's exclusive flock, scans everything, and creates one object   *)
(* under its digest.  An object of the journal domain is staged and then   *)
(* renamed; any other is created in place.  Readers take the lock shared,  *)
(* scan and change nothing.                                                *)
(*                                                                         *)
(* An object stands for its digest and for its only valid bytes.  After a  *)
(* power loss the directory is in one of the states it went through since  *)
(* it was last synchronised, and bytes never synchronised may be torn.     *)
(***************************************************************************)
EXTENDS Naturals, FiniteSets, FiniteSetsExt

CONSTANTS
    Procs,          \* publishers
    NoProc,         \* nobody holds the lock
    Objects,        \* evidence objects
    Journal,        \* those of the journal domain, which are staged
    Size,           \* [object -> its bytes]
    MaxObjects, MaxTotalBytes   \* the budgets the host selects

ASSUME NoProcAssumption == NoProc \notin Procs
ASSUME JournalAssumption == Journal \subseteq Objects
ASSUME SizeAssumption == Size \in [Objects -> Nat \ {0}]
ASSUME BudgetAssumption == MaxObjects \in Nat \ {0} /\ MaxTotalBytes \in Nat \ {0}

VARIABLES
    dir,            \* the directory: published names, number of staging files
    survivors,      \* directories a power loss may leave
    data,           \* [object -> its bytes: "torn", "written" or "synced"]
    holder,         \* the publisher holding the lock
    pc, obj,        \* where each publisher is, and with what object
    published,      \* objects a publisher created and returned
    found           \* objects a publisher returned because they were there

vars == <<dir, survivors, data, holder, pc, obj, published, found>>
results == <<published, found>>

-----------------------------------------------------------------------------
Entries(d) == Cardinality(d.names) + d.staging
Bytes(d) == MapThenSumSet(LAMBDA o : Size[o], d.names)

\* _scan: within the budgets, and every published object has its bytes.
ScanAccepts ==
    /\ Entries(dir) <= MaxObjects
    /\ \A o \in dir.names : data[o] # "torn"
    /\ Bytes(dir) <= MaxTotalBytes

\* The budgets allow one more object.
Fits(o) ==
    /\ Entries(dir) < MaxObjects
    /\ Bytes(dir) + Size[o] <= MaxTotalBytes

\* A directory operation is seen at once and durable some time later.
Changes(d) ==
    /\ dir' = d
    /\ survivors' = survivors \cup {d}

Goes(p, l) == pc' = [pc EXCEPT ![p] = l]
Leaves(p) == Goes(p, "idle") /\ holder' = NoProc

-----------------------------------------------------------------------------
Init ==
    /\ dir = [names |-> {}, staging |-> 0]
    /\ survivors = {dir}
    /\ data = [o \in Objects |-> "torn"]
    /\ holder = NoProc
    /\ pc = [p \in Procs |-> "idle"]
    /\ obj \in [Procs -> Objects]
    /\ published = {} /\ found = {}

\* The lock is granted and the whole store scans.
Locks(p) == pc[p] = "idle" /\ holder = NoProc /\ ScanAccepts

\* publish() of bytes that are already there returns their digest.
PublishAgain(p, o) ==
    /\ Locks(p) /\ o \in dir.names
    /\ found' = found \cup {o}
    /\ UNCHANGED <<dir, survivors, data, holder, pc, obj, published>>

Publish(p, o) ==
    /\ Locks(p) /\ o \notin dir.names
    /\ Fits(o)
    /\ holder' = p
    /\ obj' = [obj EXCEPT ![p] = o]
    /\ Goes(p, "create")
    /\ UNCHANGED <<dir, survivors, data, results>>

\* O_EXCL under the staging name or under the digest itself.
Create(p) ==
    /\ pc[p] = "create"
    /\ IF obj[p] \in Journal
       THEN /\ Changes([dir EXCEPT !.staging = @ + 1])
            /\ UNCHANGED data
       ELSE /\ Changes([dir EXCEPT !.names = @ \cup {obj[p]}])
            /\ data' = [data EXCEPT ![obj[p]] = "torn"]
    /\ Goes(p, "write")
    /\ UNCHANGED <<holder, obj, results>>

Write(p) ==
    /\ pc[p] = "write"
    /\ data' = [data EXCEPT ![obj[p]] = "written"]
    /\ Goes(p, "fsync")
    /\ UNCHANGED <<dir, survivors, holder, obj, results>>

Fsync(p) ==
    /\ pc[p] = "fsync"
    /\ data' = [data EXCEPT ![obj[p]] = "synced"]
    /\ Goes(p, IF obj[p] \in Journal THEN "rename" ELSE "fsync-dir")
    /\ UNCHANGED <<dir, survivors, holder, obj, results>>

\* Mutant: the staged file is renamed before its bytes are synchronised.
RenameUnsynced(p) ==
    /\ obj[p] \in Journal /\ pc[p] \in {"fsync", "rename"}
    /\ Changes([names |-> dir.names \cup {obj[p]}, staging |-> dir.staging - 1])
    /\ Goes(p, "fsync-dir")
    /\ UNCHANGED <<data, holder, obj, results>>

\* renameat2(RENAME_NOREPLACE)
Rename(p) ==
    /\ pc[p] = "rename"
    /\ Changes([names |-> dir.names \cup {obj[p]}, staging |-> dir.staging - 1])
    /\ Goes(p, "fsync-dir")
    /\ UNCHANGED <<data, holder, obj, results>>

\* Mutant: the directory is not synchronised.
FsyncNothing(p) ==
    /\ pc[p] = "fsync-dir"
    /\ Goes(p, "verify")
    /\ UNCHANGED <<dir, survivors, data, holder, obj, results>>

FsyncDir(p) ==
    /\ pc[p] = "fsync-dir"
    /\ survivors' = {dir}
    /\ Goes(p, "verify")
    /\ UNCHANGED <<dir, data, holder, obj, results>>

\* The object reads back and its digest is returned.
Return(p) ==
    /\ pc[p] = "verify" /\ obj[p] \in dir.names /\ data[obj[p]] # "torn"
    /\ published' = published \cup {obj[p]}
    /\ Leaves(p)
    /\ UNCHANGED <<dir, survivors, data, obj, found>>

\* An exception: the staging file is removed, an object in place is left.
Fails(p) ==
    /\ pc[p] # "idle"
    /\ IF obj[p] \in Journal /\ pc[p] \in {"write", "fsync", "rename"}
       THEN Changes([dir EXCEPT !.staging = @ - 1])
       ELSE UNCHANGED <<dir, survivors>>
    /\ Leaves(p)
    /\ UNCHANGED <<data, obj, results>>

\* The process dies: nothing is removed.
Dies(p) ==
    /\ pc[p] # "idle"
    /\ Leaves(p)
    /\ UNCHANGED <<dir, survivors, data, obj, results>>

PowerLoss ==
    /\ dir' \in survivors
    /\ survivors' = {dir'}
    /\ data' \in {d \in [Objects -> {"torn", "synced"}] :
                    \A o \in Objects : data[o] # "written" => d[o] = data[o]}
    /\ holder' = NoProc
    /\ pc' = [p \in Procs |-> "idle"]
    /\ UNCHANGED <<obj, results>>

Steps(p) ==
    \/ Create(p) \/ Write(p) \/ Fsync(p) \/ Rename(p) \/ FsyncDir(p)
    \/ Return(p) \/ Fails(p) \/ Dies(p)

Next ==
    \/ \E p \in Procs : Steps(p) \/ \E o \in Objects : Publish(p, o) \/ PublishAgain(p, o)
    \/ PowerLoss

Spec == Init /\ [][Next]_vars

-----------------------------------------------------------------------------
(* Properties.                                                             *)

Directory == [names : SUBSET Objects, staging : Nat]

\* Every variable keeps its type; what is visible may also survive.
TypeOK ==
    /\ dir \in Directory /\ survivors \subseteq Directory /\ dir \in survivors
    /\ data \in [Objects -> {"torn", "written", "synced"}]
    /\ holder \in Procs \cup {NoProc}
    /\ pc \in [Procs -> {"idle", "create", "write", "fsync", "rename", "fsync-dir", "verify"}]
    /\ obj \in [Procs -> Objects]
    /\ published \subseteq Objects /\ found \subseteq Objects

\* publish, docs/permit-anchor-verification.md: only an interrupted publication
\* in place can make the store refuse its readers.  Neither the remnants of
\* killed publications nor a journal object, after whatever crash, ever does.
RefusesOnlyTornInPlace ==
    ~ScanAccepts => \E o \in dir.names \ Journal : data[o] = "torn"

\* publish: an object that its publisher returned is there, whole, in whatever
\* directory a power loss leaves, and no failure or retry removes it.
PublishedIsDurable ==
    \A o \in published :
      data[o] = "synced" /\ \A d \in survivors : o \in d.names

\* publish: "SHA-256 name of the durable object; duplicate exact bytes are
\* idempotent": also an object that was found in place survives a power loss.
ReturnedIsDurable ==
    \A o \in published \cup found :
      data[o] = "synced" /\ \A d \in survivors : o \in d.names
=============================================================================
