---------------------------- MODULE ProjectMemory ----------------------------
(***************************************************************************)
(* The generations of the private project memory:                          *)
(* src/rigor_foundry/project_memory_store.py over the manifest rules of    *)
(* project_memory_models.py.  Writers create immutable record contents     *)
(* without a lock; under one exclusive lock a commit retains the candidate *)
(* manifest in the permanent history, replaces the index, then replaces    *)
(* the current manifest (the commit point).  Every file operation is       *)
(* synchronised before the next one starts, so a process that dies leaves  *)
(* the operations it completed, and a created file possibly torn.          *)
(*                                                                         *)
(* Digests are injective: a manifest stands for its own digest, an index   *)
(* for the manifest it was rendered from, and the predecessor field holds  *)
(* the predecessor itself.  A record is its identifier, the identifiers it *)
(* supersedes and the time it expires; one identifier has one content file *)
(* and one admissible content.                                             *)
(***************************************************************************)
EXTENDS Naturals, FiniteSets

CONSTANTS
    Writers,        \* processes that commit generations
    Records,        \* record metadata, each [id, supersedes, until]
    NoManifest,     \* absent file, absent predecessor
    MaxTime,        \* bound of the model: generation times are 1..MaxTime
    MaxHistory      \* bound of the model: history files

Ids == {r.id : r \in Records}

ASSUME NoManifestAssumption == NoManifest \notin Writers
ASSUME RecordsAssumption ==
    \A r \in Records : r.supersedes \subseteq Ids \ {r.id} /\ r.until \in Nat
ASSUME BoundsAssumption == MaxTime \in Nat /\ MaxHistory \in Nat

VARIABLES
    content,        \* [id -> its content file]
    history,        \* manifests retained whole in history/manifests
    torn,           \* manifests whose history file is (still) partly written
    index,          \* the manifest the index file was rendered from
    current,        \* the current manifest file: the commit point
    holder,         \* the writer holding the lock, or NoManifest
    pc, cand        \* per writer: where it is, the candidate it commits

vars == <<content, history, torn, index, current, holder, pc, cand>>
files == <<history, torn, index, current>>

-----------------------------------------------------------------------------
CurrentAt(r, t) == t < r.until

\* ProjectMemoryManifest.build: what any manifest satisfies.
Builds(m) ==
    /\ m.recs # {}
    /\ \A r, s \in m.recs : r.id = s.id => r = s
    /\ \A r \in m.recs : CurrentAt(r, m.time)
    /\ \A r, s \in m.recs : s.id \notin r.supersedes

IdsIn(m) == {r.id : r \in m.recs}
Introduced(p, m) == {r \in m.recs : r.id \notin IdsIn(p)}

\* Mutant: a record may leave the current view unsuperseded and unexpired.
LosesRecords(p, m) ==
    IF p = NoManifest THEN \A r \in m.recs : r.supersedes = {}
    ELSE /\ m.time > p.time
         /\ \A r \in p.recs, s \in m.recs : r.id = s.id => r = s
         /\ \A r \in Introduced(p, m) : r.supersedes \subseteq IdsIn(p)

\* _validate_transition: the rules of one edge of the chain.
Transition(p, m) ==
    IF p = NoManifest THEN \A r \in m.recs : r.supersedes = {}
    ELSE /\ m.time > p.time
         /\ \A r \in p.recs, s \in m.recs : r.id = s.id => r = s
         /\ \A r \in Introduced(p, m) : r.supersedes \subseteq IdsIn(p)
         /\ \A r, s \in Introduced(p, m) :
              r # s => r.supersedes \cap s.supersedes = {}
         /\ \A r \in p.recs :
              \/ r.id \in IdsIn(m)
              \/ ~CurrentAt(r, m.time)
              \/ \E s \in Introduced(p, m) : r.id \in s.supersedes

\* _verify_manifest_content
ContentVerifies(m) == \A r \in m.recs : content[r.id] = "whole"

\* load_project_memory_generation accepts the live files.
Loads ==
    /\ current # NoManifest /\ index = current
    /\ ContentVerifies(current)
    /\ current \in history

Candidates ==
    [time : 1..MaxTime, prev : {current}, recs : SUBSET Records]

-----------------------------------------------------------------------------
Init ==
    /\ content = [i \in Ids |-> "absent"]
    /\ history = {} /\ torn = {}
    /\ index = NoManifest /\ current = NoManifest
    /\ holder = NoManifest
    /\ pc = [w \in Writers |-> "idle"]
    /\ cand = [w \in Writers |-> NoManifest]

\* write_project_memory_record: exclusive creation; the file is partial until
\* its bytes are complete and synchronised, for good if the writer dies.
CreateContent(i) ==
    /\ content[i] = "absent"
    /\ content' = [content EXCEPT ![i] = "torn"]
    /\ UNCHANGED <<files, holder, pc, cand>>

WriteContent(i) ==
    /\ content[i] = "torn"
    /\ content' = [content EXCEPT ![i] = "whole"]
    /\ UNCHANGED <<files, holder, pc, cand>>

\* Mutant: the commit takes no lock.
Unlocked == TRUE

\* exclusive_lock: one commit at a time.
Free == holder = NoManifest

\* The lock, the predecessor's exact history, the transition, the contents.
StartCommit(w, m) ==
    /\ pc[w] = "idle" /\ Free
    /\ Builds(m)
    /\ current # NoManifest => current \in history
    /\ m.prev = current /\ Transition(current, m)
    /\ ContentVerifies(m)
    /\ holder' = w
    /\ pc' = [pc EXCEPT ![w] = "retain"]
    /\ cand' = [cand EXCEPT ![w] = m]
    /\ UNCHANGED <<content, files>>

\* _retain_history_manifest finds the identical object of an earlier attempt.
RetainAgain(w) ==
    /\ pc[w] = "retain" /\ cand[w] \in history
    /\ pc' = [pc EXCEPT ![w] = "index"]
    /\ UNCHANGED <<content, files, holder, cand>>

\* It creates the file, which is partial until WriteHistory.
CreateHistory(w) ==
    /\ pc[w] = "retain" /\ cand[w] \notin history \cup torn
    /\ Cardinality(history \cup torn) < MaxHistory
    /\ torn' = torn \cup {cand[w]}
    /\ pc' = [pc EXCEPT ![w] = "write"]
    /\ UNCHANGED <<content, history, index, current, holder, cand>>

WriteHistory(w) ==
    /\ pc[w] = "write"
    /\ history' = history \cup {cand[w]}
    /\ torn' = torn \ {cand[w]}
    /\ pc' = [pc EXCEPT ![w] = "index"]
    /\ UNCHANGED <<content, index, current, holder, cand>>

\* Mutant: the index is replaced before the history object is complete.
IndexEarly(w) ==
    /\ pc[w] \in {"write", "index"}
    /\ index' = cand[w]
    /\ pc' = [pc EXCEPT ![w] = "manifest"]
    /\ UNCHANGED <<content, history, torn, current, holder, cand>>

ReplaceIndex(w) ==
    /\ pc[w] = "index"
    /\ index' = cand[w]
    /\ pc' = [pc EXCEPT ![w] = "manifest"]
    /\ UNCHANGED <<content, history, torn, current, holder, cand>>

ReplaceManifest(w) ==
    /\ pc[w] = "manifest"
    /\ current' = cand[w]
    /\ pc' = [pc EXCEPT ![w] = "load"]
    /\ UNCHANGED <<content, history, torn, index, holder, cand>>

Releases(w) ==
    /\ holder' = NoManifest
    /\ pc' = [pc EXCEPT ![w] = "idle"]
    /\ cand' = [cand EXCEPT ![w] = NoManifest]

\* The committed generation loads back and the call returns.
Return(w) ==
    /\ pc[w] = "load" /\ Loads /\ current = cand[w]
    /\ Releases(w)
    /\ UNCHANGED <<content, files>>

\* An exception or the death of the process between two file operations, or
\* inside the creation of the history object; the lock is freed.
Dies(w) ==
    /\ pc[w] # "idle"
    /\ Releases(w)
    /\ UNCHANGED <<content, files>>

Commit(w) ==
    \/ RetainAgain(w) \/ CreateHistory(w) \/ WriteHistory(w)
    \/ ReplaceIndex(w) \/ ReplaceManifest(w) \/ Return(w) \/ Dies(w)

Next ==
    \/ \E i \in Ids : CreateContent(i) \/ WriteContent(i)
    \/ \E w \in Writers : Commit(w) \/ \E m \in Candidates : StartCommit(w, m)

Spec == Init /\ [][Next]_vars

-----------------------------------------------------------------------------
(* verify_project_memory_history, and read_project_memory_record, which     *)
(* calls it: what they accept of the files as one reading finds them.       *)

\* The generation `m` and every generation before it.
Chain(m) ==
    LET back[n \in Nat] ==
          IF n = 0 THEN m
          ELSE IF back[n - 1] = NoManifest THEN NoManifest ELSE back[n - 1].prev
    IN  {back[n] : n \in 0..MaxTime} \ {NoManifest}

\* Every object retained whole, of whichever commit, loads with its contents.
EntriesVerify == \A m \in history : Builds(m) /\ ContentVerifies(m)

\* The walk from the current generation to the first one.
LinksVerify == \A m \in Chain(current) : m \in history /\ Transition(m.prev, m)

\* An object that is partly written does not load, whether it is of the chain
\* or not.
HistoryVerifies == Loads /\ torn = {} /\ EntriesVerify /\ LinksVerify

-----------------------------------------------------------------------------
(* Properties.                                                             *)

\* verify_project_memory_history, whichever commits died and were retried: what
\* is retained whole verifies, and the chain of the current generation consists
\* of it; so a generation whose index matches is refused exactly while some
\* history object is partly written - for ever, once a death has left one.
OnlyTornIsRefused ==
    /\ EntriesVerify /\ LinksVerify
    /\ current # NoManifest /\ index = current => (HistoryVerifies <=> torn = {})

\* commit_project_memory_generation: between the current view and any earlier
\* generation no assertion is lost: it is still current, or it has expired, or
\* some generation in between holds a record that supersedes it.
NoAssertionLost ==
    current # NoManifest =>
      \A m \in Chain(current) : \A r \in m.recs :
        \/ r \in current.recs
        \/ ~CurrentAt(r, current.time)
        \/ \E n \in Chain(current) : n.time > m.time
             /\ \E s \in n.recs : r.id \in s.supersedes

\* commit: an index that does not match the current manifest belongs to a
\* retained successor of it, so one retry of that commit makes the store load.
IndexOneAhead ==
    index # current =>
      /\ index \in history
      /\ index.prev = current /\ Transition(current, index)
      /\ ContentVerifies(index)

\* commit: the current manifest is only ever replaced by its own successor, so
\* no committed generation drops out of the chain.
ChainOnlyGrows == [][current' # current => current'.prev = current]_vars

=============================================================================
