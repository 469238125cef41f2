---------------------------- MODULE Publication ----------------------------
(***************************************************************************)
(* A plan of PublicationPlan is run, one operation after the other, over a *)
(* file system that may lose power.  The writer is outside the repository; *)
(* the compiler's documentation says what it may do: an operation whose    *)
(* expected states do not hold is not performed, the first failure stops   *)
(* the run, and what was written is retained.                              *)
(***************************************************************************)
EXTENDS PublicationPlan

CONSTANTS
  Declarations,   \* what a caller may declare
  Torn,           \* the bytes of a file that was not written to its end
  MaxRuns         \* bound: how often a stopped plan is run

\* Declarations are of the right types.  Nothing else is asked of them: the
\* compiler accepts or refuses them.
ASSUME DeclarationsAssumption ==
  \A d \in Declarations :
    /\ d.files \in Seq(FileDeclarations)
    /\ \A path \in DOMAIN d.snapshots : d.snapshots[path] \in FileDeclarations
    /\ d.directories \in Seq(Paths)
    /\ d.locks \in Seq([path : Paths, previous : Bytes \cup {None}])

VARIABLES
  declared,   \* the declaration the plan was compiled from
  plan,       \* the operations
  pc,         \* the next operation
  run,        \* "running", "done", "stopped"
  runs,       \* runs started so far
  held,       \* the lock files the writer holds
  fs,         \* what is visible at each place
  kept        \* the entries each place may be left with by a power loss

publicationVars == <<declared, plan, pc, run, runs, held, fs, kept>>

Places == Paths \cup {ParentOf[path] : path \in Paths}

File(bytes, synced) == [bytes |-> bytes, synced |-> synced]

\* A file is neither nothing nor a directory, and a torn file has bytes.
ASSUME FilesAssumption ==
  /\ Torn \in Bytes
  /\ {File(bytes, synced) : bytes \in Bytes, synced \in BOOLEAN}
       \cap {None, Directory} = {}

IsFile(entry) == entry \notin {None, Directory}

\* The state an operation compares: the kind of the entry, or the bytes.
State(entry) == IF IsFile(entry) THEN entry.bytes ELSE entry

\* The directories above a path: the least set that has its directory and the
\* directory of each of its own elements.
Above ==
  [path \in Paths |->
     {place \in Places :
        \A S \in SUBSET Places :
          /\ ParentOf[path] \in S
          /\ \A below \in S \cap Paths : ParentOf[below] \in S
          => place \in S}]

(***************************************************************************)
(* The file systems a declaration is about: what it calls existing is      *)
(* there, with the directories it needs and does not create, and nothing   *)
(* else.  A declaration that contradicts itself has none.                  *)
(***************************************************************************)
PreviousOf(d, path) ==
  IF \E lock \in ToSet(d.locks) : lock.path = path
  THEN (CHOOSE lock \in ToSet(d.locks) : lock.path = path).previous
  ELSE (CHOOSE file \in ToSet(d.files) : file.path = path).previous

Standing(d) ==
  (UNION {Above[path] : path \in AllNames(Declared(d)) \cup ToSet(d.directories)})
    \ ToSet(d.directories)

Consistent(d) ==
  /\ Standing(d) \cap AllNames(Declared(d)) = {}
  /\ \A path \in Standing(d) \cap Paths :
       Above[path] \cap ToSet(d.directories) = {}

FileSystemOf(d) ==
  [path \in Places |->
     CASE path \in Existing(d) -> File(PreviousOf(d, path), TRUE)
       [] path \in Standing(d) -> Directory
       [] OTHER -> None]

PublicationInit ==
  /\ declared \in {d \in Declarations : Accepted(d) /\ Consistent(d)}
  /\ plan = Plan(declared)
  /\ pc = 1
  /\ run = "running"
  /\ runs = 1
  /\ held = {}
  /\ fs = FileSystemOf(declared)
  /\ kept = [path \in Places |-> {fs[path]}]

-----------------------------------------------------------------------------

Current == plan[pc]

Running == run = "running" /\ pc <= Len(plan)

Matches(operation) ==
  \A path \in DOMAIN operation.changes :
    /\ State(fs[path]) = operation.changes[path].before
    /\ path \in Paths => fs[ParentOf[path]] = Directory

\* The operations that change entries; until their directory is synchronised
\* a power loss may leave any of the entries the place had.
Enters(entries) ==
  /\ fs' = Over(entries, fs)
  /\ kept' = Over([path \in DOMAIN entries |-> kept[path] \cup {entries[path]}],
                  kept)

MkDir(operation) ==
  /\ operation.opcode = "mkdir"
  /\ Enters([path \in DOMAIN operation.changes |-> Directory])

Writes(operation, bytes) ==
  Enters([path \in DOMAIN operation.changes |-> File(bytes[path], FALSE)])

Create(operation) ==
  /\ operation.opcode = "create"
  /\ Writes(operation, [path \in Paths |-> operation.changes[path].after])

\* A creation that ends after its first bytes.
CreateTorn(operation) ==
  /\ operation.opcode = "create"
  /\ Writes(operation, [path \in Paths |-> Torn])

Rename(operation) ==
  /\ operation.opcode = "rename"
  /\ \E written \in DOMAIN operation.changes :
       /\ operation.changes[written].after = None
       /\ Enters([path \in DOMAIN operation.changes |->
                    IF path = written THEN None ELSE fs[written]])

SyncFile(operation) ==
  /\ operation.opcode = "fsync"
  /\ \E path \in DOMAIN operation.changes :
       LET synced == File(fs[path].bytes, TRUE)
       IN  /\ IsFile(fs[path])
           /\ fs' = [fs EXCEPT ![path] = synced]
           /\ kept' = [kept EXCEPT ![path] = (@ \ {fs[path]}) \cup {synced}]

SyncDirectory(operation) ==
  /\ operation.opcode = "fsync"
  /\ \E directory \in DOMAIN operation.changes :
       /\ fs[directory] = Directory
       /\ kept' = Over([path \in {p \in Paths : ParentOf[p] = directory} |->
                          {fs[path]}], kept)
  /\ UNCHANGED fs

LockOrUnlock(operation) ==
  /\ operation.opcode \in {"lock", "unlock"}
  /\ UNCHANGED <<fs, kept>>

Perform(operation) ==
  \/ MkDir(operation)
  \/ Create(operation)
  \/ Rename(operation)
  \/ SyncFile(operation)
  \/ SyncDirectory(operation)
  \/ LockOrUnlock(operation)

HeldAfter(operation) ==
  CASE operation.opcode = "lock" -> held \cup DOMAIN operation.changes
    [] operation.opcode = "unlock" -> held \ DOMAIN operation.changes
    [] OTHER -> held

-----------------------------------------------------------------------------

Step ==
  /\ Running
  /\ Matches(Current)
  /\ Perform(Current)
  /\ held' = HeldAfter(Current)
  /\ pc' = pc + 1
  /\ UNCHANGED <<declared, plan, run, runs>>

Finish ==
  /\ run = "running" /\ pc > Len(plan)
  /\ run' = "done"
  /\ UNCHANGED <<declared, plan, pc, runs, held, fs, kept>>

\* The writer is gone, and what it held is free.
Stops ==
  /\ run' = "stopped"
  /\ held' = {}
  /\ UNCHANGED <<declared, plan, pc, runs>>

\* The expected state is not what is there.
Refuse ==
  /\ Running
  /\ ~ Matches(Current)
  /\ Stops
  /\ UNCHANGED <<fs, kept>>

\* The operation fails, or its process dies, with or without its effect.
Fail ==
  /\ Running
  /\ Matches(Current)
  /\ \/ UNCHANGED <<fs, kept>>
     \/ Perform(Current)
     \/ CreateTorn(Current)
  /\ Stops

\* The same plan is run again over what the stopped run retained.
Rerun ==
  /\ run = "stopped" /\ runs < MaxRuns
  /\ run' = "running"
  /\ runs' = runs + 1
  /\ pc' = 1
  /\ UNCHANGED <<declared, plan, held, fs, kept>>

\* What a place may hold after a power loss: an entry it may be left with,
\* torn if its bytes were not synchronised.
Remains(path) ==
  UNION {IF IsFile(entry) /\ ~ entry.synced
         THEN {File(entry.bytes, TRUE), File(Torn, TRUE)}
         ELSE {entry} : entry \in kept[path]}

Uncertain == {path \in Places : kept[path] # {fs[path]} \/ Remains(path) # {fs[path]}}

PowerLoss ==
  /\ \E left \in [Uncertain -> UNION {Remains(path) : path \in Uncertain}] :
       /\ \A path \in Uncertain : left[path] \in Remains(path)
       /\ LET entries == Over(left, fs)
          IN  fs' = [path \in Places |->
                       IF /\ path \in Paths
                          /\ \E above \in Above[path] : entries[above] # Directory
                       THEN None ELSE entries[path]]
  /\ kept' = [path \in Places |-> {fs'[path]}]
  /\ run' = IF run = "done" THEN "done" ELSE "stopped"
  /\ held' = {}
  /\ UNCHANGED <<declared, plan, pc, runs>>

PublicationNext == Step \/ Finish \/ Refuse \/ Fail \/ Rerun \/ PowerLoss

PublicationSpec == PublicationInit /\ [][PublicationNext]_publicationVars

-----------------------------------------------------------------------------

Holds(path, bytes) == IsFile(fs[path]) /\ fs[path].bytes = bytes

Published(i) == Holds(declared.files[i].path, declared.files[i].candidate)

\* However a run ends - failure, death, power loss, a second run over the
\* remains - the original bytes of every file to be replaced are in the file
\* or in its snapshot ("durable original-byte snapshots before any business
\* publication").
OriginalsSurvive ==
  \A file \in ToSet(Replaced(declared)) :
    \/ Holds(file.path, file.previous)
    \/ Holds(declared.snapshots[file.path].path, file.previous)

\* A file that is replaced is at every time, and after any power loss, whole:
\* its previous bytes or its candidate, never a torn file or none.
ReplacedIsWhole ==
  \A file \in ToSet(Replaced(declared)) :
    \/ Holds(file.path, file.previous)
    \/ Holds(file.path, file.candidate)

\* Whatever is lost, a file that changes is published only if all the files
\* declared before it are ("Input order is preserved, so the consumer can put
\* registry publication last").
PublishedInOrder ==
  \A i, j \in DOMAIN declared.files :
    /\ i < j
    /\ declared.files[j].previous # declared.files[j].candidate
    /\ Published(j)
    => Published(i)

\* An accepted declaration compiles to a plan that its own file system lets
\* run to the end under its locks: no operation of a first run meets a state
\* other than it expects, none touches a file, temporary or snapshot without
\* every declared lock, and when it is done every file is published, durably,
\* with no temporary left and no lock held.
AcceptedPlansComplete ==
  /\ Running /\ runs = 1 => Matches(Current)
  /\ Running /\ DOMAIN Current.changes \cap AllNames(Preserved(declared)) # {} =>
       held = {lock.path : lock \in ToSet(declared.locks)}
  /\ run = "done" =>
       /\ held = {}
       /\ \A file \in ToSet(declared.files) :
            /\ Holds(file.path, file.candidate)
            /\ kept[file.path] = {File(file.candidate, TRUE)}
            /\ file.temporary # None => fs[file.temporary] = None
=============================================================================
