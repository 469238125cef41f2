-------------------------- MODULE PublicationPlan --------------------------
(***************************************************************************)
(* The compiler of protected_file_publication.py: a declaration of files   *)
(* to create or replace, of the snapshots that preserve what is replaced,  *)
(* of new directories and of locks becomes one sequence of file-system     *)
(* operations, each with the state it expects and the state it leaves.     *)
(* The compiler does no I/O; Publication runs its plans.                   *)
(*                                                                         *)
(* A path stands for a root and a relative path; ParentOf gives the        *)
(* directory it is in, which the code makes every declaration repeat.      *)
(* Modes, the syntax of paths and the byte budget are left out.            *)
(***************************************************************************)
EXTENDS Integers, Sequences, FiniteSets, SequencesExt, FiniteSetsExt

CONSTANTS
  ParentOf,       \* the directory of each path
  Bytes,          \* what a file may hold
  Directory,      \* the state of a directory
  Empty,          \* the bytes of a new lock file
  None,           \* no path, no bytes, no file
  MaxOperations   \* max_operations, the budget the caller gives

\* The states of a place are told apart; a file may be empty.
ASSUME StatesAssumption ==
  /\ None # Directory
  /\ None \notin DOMAIN ParentOf
  /\ Bytes \cap {None, Directory} = {}
  /\ Empty \in Bytes

Paths == DOMAIN ParentOf

(***************************************************************************)
(* A declared file has a path, its previous bytes (None when it is to be   *)
(* created), its candidate bytes, and the temporary of a replacement.      *)
(***************************************************************************)
Creation(path, bytes) ==
  [path |-> path, previous |-> None, candidate |-> bytes, temporary |-> None]

FileDeclarations ==
  [path : Paths, previous : Bytes \cup {None}, candidate : Bytes,
   temporary : Paths \cup {None}]

Names(file) == {file.path, file.temporary} \ {None}

\* A replacement has a temporary beside its target, a creation has none.
TemporaryFits(file) ==
  IF file.previous = None
  THEN file.temporary = None
  ELSE /\ file.temporary \notin {None, file.path}
       /\ ParentOf[file.temporary] = ParentOf[file.path]

Parents(files) == {ParentOf[files[i].path] : i \in DOMAIN files}

AllNames(files) == UNION {Names(files[i]) : i \in DOMAIN files}

\* No two files share a name, and none is named like a parent directory.
NamesFit(files) ==
  /\ \A i, j \in DOMAIN files :
       i # j => Names(files[i]) \cap Names(files[j]) = {}
  /\ AllNames(files) \cap Parents(files) = {}

(***************************************************************************)
(* The parts of a declaration d: d.files in the order of publication,      *)
(* d.snapshots by the path replaced, d.directories and d.locks.            *)
(***************************************************************************)

\* The elements of a sequence at some of its positions, in their order.
Selected(seq, positions) ==
  FlattenSeq([i \in DOMAIN seq |-> IF i \in positions THEN <<seq[i]>> ELSE <<>>])

Replaced(d) ==
  Selected(d.files, {i \in DOMAIN d.files : d.files[i].previous # None})

\* Every replacement, and nothing else, has a snapshot of its exact bytes.
SnapshotsFit(d) ==
  /\ DOMAIN d.snapshots = {file.path : file \in ToSet(Replaced(d))}
  /\ \A file \in ToSet(Replaced(d)) :
       d.snapshots[file.path] =
         Creation(d.snapshots[file.path].path, file.previous)

Ordered(d) == [i \in DOMAIN Replaced(d) |-> d.snapshots[Replaced(d)[i].path]]

\* A plausible bug: the snapshots follow the files they preserve.
PreservedAfter(d) == d.files \o Ordered(d)

Preserved(d) == Ordered(d) \o d.files

\* A lock as the file it would be if it had to be created.
LockFile(lock) ==
  Creation(lock.path, IF lock.previous = None THEN Empty ELSE lock.previous)

Declared(d) == Preserved(d) \o [i \in DOMAIN d.locks |-> LockFile(d.locks[i])]

NewLocks(d) ==
  Selected(d.locks, {i \in DOMAIN d.locks : d.locks[i].previous = None})

\* What already exists: the files replaced and the locks that are not new.
Existing(d) ==
  {file.path : file \in ToSet(Replaced(d))}
    \cup {lock.path : lock \in {l \in ToSet(d.locks) : l.previous # None}}

\* A plausible bug: the order of the new directories is not looked at.
DirectoriesFitUnordered(d) ==
  LET created == ToSet(d.directories)
      needed == Parents(Declared(d)) \cup {ParentOf[path] : path \in created}
  IN  /\ IsInjective(d.directories)
      /\ created \cap AllNames(Declared(d)) = {}
      /\ created \subseteq needed
      /\ \A path \in Existing(d) : ParentOf[path] \notin created

\* New directories are needed, free, and come before what is in them;
\* nothing that already exists is in one of them.
DirectoriesFit(d) ==
  LET created == ToSet(d.directories)
      needed == Parents(Declared(d)) \cup {ParentOf[path] : path \in created}
  IN  /\ IsInjective(d.directories)
      /\ created \cap AllNames(Declared(d)) = {}
      /\ created \subseteq needed
      /\ \A path \in Existing(d) : ParentOf[path] \notin created
      /\ \A i \in DOMAIN d.directories :
           ParentOf[d.directories[i]] \in created =>
             \E j \in 1..(i - 1) : d.directories[j] = ParentOf[d.directories[i]]

(***************************************************************************)
(* Operations.  An operation names the paths it is about, with the state   *)
(* it expects and leaves at each of them.                                  *)
(***************************************************************************)
Operation(opcode, changes) == [opcode |-> opcode, changes |-> changes]

Change(path, before, after) ==
  [place \in {path} |-> [before |-> before, after |-> after]]

\* f where it is defined, g elsewhere.
Over(f, g) ==
  [place \in DOMAIN f \cup DOMAIN g |->
     IF place \in DOMAIN f THEN f[place] ELSE g[place]]

Sync(path, state) == Operation("fsync", Change(path, state, state))

\* A plausible bug: a file is renamed before its bytes are synchronised.
FileEffectsUnsynced(file) ==
  LET written == IF file.previous = None THEN file.path ELSE file.temporary
      rename == Over(Change(written, file.candidate, None),
                     Change(file.path, file.previous, file.candidate))
  IN  << Operation("create", Change(written, None, file.candidate)) >>
        \o (IF file.previous = None
            THEN <<>> ELSE << Operation("rename", rename) >>)
        \o << Sync(file.path, file.candidate),
              Sync(ParentOf[file.path], Directory) >>

\* A plausible bug: the directory of a published file is not synchronised.
FileEffectsInMemory(file) ==
  LET written == IF file.previous = None THEN file.path ELSE file.temporary
      rename == Over(Change(written, file.candidate, None),
                     Change(file.path, file.previous, file.candidate))
  IN  << Operation("create", Change(written, None, file.candidate)),
         Sync(written, file.candidate) >>
        \o (IF file.previous = None
            THEN <<>> ELSE << Operation("rename", rename) >>)

FileEffects(file) ==
  LET written == IF file.previous = None THEN file.path ELSE file.temporary
      rename == Over(Change(written, file.candidate, None),
                     Change(file.path, file.previous, file.candidate))
  IN  << Operation("create", Change(written, None, file.candidate)),
         Sync(written, file.candidate) >>
        \o (IF file.previous = None
            THEN <<>> ELSE << Operation("rename", rename) >>)
        \o << Sync(ParentOf[file.path], Directory) >>

Effects(files) == [i \in DOMAIN files |-> FileEffects(files[i])]

DirectoryEffects(d) ==
  [i \in DOMAIN d.directories |->
    << Operation("mkdir", Change(d.directories[i], None, Directory)),
       Sync(ParentOf[d.directories[i]], Directory) >>]

LockSetup(d) ==
  Effects([i \in DOMAIN NewLocks(d) |-> LockFile(NewLocks(d)[i])])

LockEffects(d, opcode) ==
  [i \in DOMAIN d.locks |->
     LET bytes == LockFile(d.locks[i]).candidate
     IN  << Operation(opcode, Change(d.locks[i].path, bytes, bytes)) >>]

\* Directories, new lock files, the locks, the snapshots, the files in the
\* declared order, and the locks released in reverse order: what is done for
\* each of them.
Groups(d) ==
  DirectoryEffects(d) \o LockSetup(d) \o LockEffects(d, "lock")
    \o Effects(Preserved(d)) \o Reverse(LockEffects(d, "unlock"))

Plan(d) == FlattenSeq(Groups(d))

\* Each file written also has a primary operation, which claims its path.
\* The budgets the code checks on the way are implied by this last one.
WithinBudget(d) ==
  Len(Plan(d)) + Len(Preserved(d)) + Len(NewLocks(d)) <= MaxOperations

Accepted(d) ==
  /\ d.files # <<>>
  /\ \A i \in DOMAIN d.files : TemporaryFits(d.files[i])
  /\ SnapshotsFit(d)
  /\ NamesFit(Declared(d))
  /\ DirectoriesFit(d)
  /\ WithinBudget(d)
=============================================================================
