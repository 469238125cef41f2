# TLA+ models of rigor-foundry

rigor-foundry governs what software agents may do to a repository: it hands out
single-use permits, records every effect in append-only files, keeps project
registries and private project memory on disk, and scans source for candidates
of bad practice. Most of it parses and checks one document at a time. The part
with behaviour is a handful of **durable stores**, each a set of files under a
lock, that must stay readable and truthful when processes race, operations fail
half-way, processes are killed and machines lose power; a few **schedulers and
supervisors** that decide who may write what at which time and when a child
process must end; and a **compiler of file-system plans**. This directory
specifies those in TLA+, checks them with TLC on small instances and proves the
central properties with TLAPS.

All paths below are under `src/src/rigor_foundry/` unless they say otherwise.

Running everything (from this directory):

    tlc -workers 2 -config MCPermitLedger.cfg MCPermitLedger
    tlapm PermitLedgerProofs.tla

`PROJECT.json` lists the runs, the definition-to-source map, the mutants (a
plausible bug for each property, under which TLC finds that property violated),
the findings, the hazards and the theorems.

## 1. Inventory

### Stores and protocols (modelled)

| Component | Sources | State it keeps | Operations | Interacts with | What is hard |
|---|---|---|---|---|---|
| Permit consumption ledger | `permit_consumption_ledger_v2.py`, `_permit_ledger_records_v2.py`, `_permit_ledger_storage_io_v2.py` | one append-only, hash-chained file | initialize, consume, locked_admission + lease consume, recover_torn_tail, snapshot, verify_anchor | host selects a prefix; anchor verifier reads it | two processes, torn writes, kill between write and fsync, power loss |
| Effect journal file and tokens | `effect_journal_v2.py`, `effect_journal_tail_v2.py`, `effect_intent_token_v2.py` | framed hash-chained file; process-local registry of intent tokens | locked, append, append_effect_intent, prepare_effect_failure, require_current, locked_recovery | the handlers that mutate targets; replay and anchor read it | failed append on a lease that lives on, write-ahead order, tokens outliving leases |
| Effect journal replay | `effect_journal_state_v2.py`, `effect_target_overlap_v2.py` | loop state: progress per operation, blocked targets | one step per record | anchor names closures | orders of records, closure recorded but not anchored, overlapping targets |
| Permit anchor | `permit_anchor_journal_binding_v2.py`, `permit_anchor_records_v2.py`, `permit_anchor_prefix_v2.py`, `permit_anchor_store_v2.py`, `permit_anchor_tail_v2.py`, `recovery_anchor_intent_chain_v2.py`, `recovery_journal_intent_binding_v2.py` | third chained file that selects prefixes of the other two | initialize, current, tail classification | ledger, journal, recovery evidence | three files appended one after the other by a host that may stop anywhere; recoveries of recoveries |
| Recovery evidence store | `recovery_evidence_store_v2.py` | directory of digest-named objects, staging files | publish, scan, read | holds the intents the anchor recovery names | crash between create, fsync, rename and directory fsync; budgets |
| Project registry cutover and recovery | `project_registry_cutover.py`, `project_registry_recovery.py` | registry file, N consumer files, transaction directory (snapshot, journal, receipt) | apply with synchronous rollback, recover, load | lock-free readers | multi-file transaction, death anywhere including in the rollback |
| Private project memory | `project_memory_store.py`, `project_memory_models.py` | record contents, manifest history, index, current manifest | write record, commit generation, load, verify history | lock-free readers | two writers, two-file commit, retries |
| Remediation planning and execution | `remediation_plan.py`, `_remediation_graph.py`, `claim_isolation.py`, `remediation_executor.py` | plan, its batches, approval and grant, leased claims, one attested execution | build and order a plan, approve, grant, admit_claim, release, admit an execution | other campaigns claim paths of the same repository | lanes that conflict, leases that run out under a running lane, claims nobody releases, failures that must propagate |
| Native audit process | `adapter_runtime.py` | one child, two pipes, byte counts, deadline | stream_process with its termination and its finally block | a child program that may do anything | hanging, ignoring SIGTERM, filling pipes, exceptions before, in and after the `try`, also while a termination waits |
| Offline CRA preparation | `cra_store.py`, `cra_timeline.py`, `cra_events.py`, `cra_submissions.py`, `cra_advisories.py` | one append-only tree of digest-named records per event | bootstrap, append of revision, draft, notice, receipt, skip, advisory; event_state; the reporting clocks | readers without a lock | several files per append, deaths between them, stale callers, a read over twelve directories |
| Protected file publication | `protected_file_publication.py` | none (a pure compiler) | one declaration compiled to one operation sequence | the writer outside the repository runs the plan | order of snapshots, directories, locks, files and their synchronisation |
| File primitives | `internal_storage.py`, `safe_output.py` | none | create new, replace, exclusive lock | used by the registry and the memory | torn creation, replacement that fails with its effect |

What makes each of them correct, in one sentence:

* ledger: at most one caller is ever told that it consumed an identifier, what
  it was told survives any crash, and the file never becomes unreadable;
* journal file: no handler runs before its intent is durable, an attempted
  outcome ends the permission to mutate, damage is always a tail behind what
  the host has selected;
* replay: a target is blocked exactly as long as an operation on it is open,
  and only an anchored closure ends that;
* anchor: each consumption in the selected ledger is accounted for by its own
  operation or by an adoption, once, and nothing selected is taken back;
* evidence: what publish returned is durable, and only an interrupted creation
  in place ever blocks readers;
* registry: a resolved transaction leaves live files that load, and its
  journal, receipt and live registry tell one story;
* memory: the current generation has a whole, valid history, nothing but a torn
  object makes the verification refuse it, and no assertion gets lost in it;
* remediation: lanes of one batch never conflict and never overtake a
  prerequisite, holders of claims never overlap, admission accepts exactly the
  records an honest run can produce, and a granted run always gets its verdict;
* audit process: every call ends, a call that returns with its child reaped and one
  that raises with SIGKILL sent unless two exceptions, or one before the `try`,
  came in between; what it reports of the output (all of it, cut at the cap, cut
  by the deadline) is true;
* CRA tree: whatever died, the tree reads; a record never lacks its payloads; what
  was reported stays reported; a read without the lock is one history;
* publication: the original bytes survive every failure, nothing replaced is ever
  torn, files appear in the declared order, and an accepted plan can run.

### Not modelled, and why

* **Work task lifecycle** (`work_models.py`, `work_closure.py`, ...): append-only
  task events with ownership and lease expiry, checked as one whole document
  that a single writer submits. The first of the plan's next modules.
* **Campaigns and witnesses**, **cross-repository campaigns**: transitive grouping
  of runs into witnesses, orchestration of captures. Only the grouping is an
  algorithm; the orchestration calls Git and the collectors in sequence.
* **Journal rate limits**, **release quorum**, **rule maturity**, **report diff**,
  **profile resolution**: pure functions; candidates for operators compared with
  a reference definition, none of them exposed to interleaving or failure.
* **Dispatch permits and vocabulary**, **rule chain and semantic acceptance**:
  one-pass checks of one signed document, with no state of their own.
* **Git provenance, inventories, collectors, reports, exporters**: reading and
  formatting; deterministic and stateless. They are most of the repository's
  lines, and a model of them would be their transliteration.

Left out of modelled parts: the custody checks of paths, modes and inode
identities (each is a choice to abort); in the anchor the fields of an intent that
only repeat its boundary; in remediation the
evidence digests, the binding to work tasks and the group workspace; in the CRA
store registration successors, the evidence files of advisories and the texts of
payloads; in the publication modes, path syntax, the byte budget, parents in
another root, bootstrap and the activation plan; in the audit process the
sandbox set-up and the resolution of the executable; in the ledger the creation
of the file, which is there from the start as `initialize` returned it (a header
torn by a death is accepted by no call, and replaced by none).

## 2. Modules

| Module | Role |
|---|---|
| `ConsumeOnce` | abstract promise of the ledger: burn, honour, forget |
| `PermitLedger` | the ledger file and its processes; refines `ConsumeOnce` |
| `EffectJournal` | the journal file, its leases and its intent tokens |
| `JournalRules` | records, and the reference definition of a replayable journal |
| `EffectReplay` | the replay loop, compared with `JournalRules` |
| `PermitAnchor` | ledger, journal and anchor together; uses `JournalRules` |
| `EvidenceStore` | the evidence directory |
| `RegistryCutover` | apply, rollback, recovery of the registry |
| `ProjectMemory` | generations of the private memory |
| `RemediationPlan` | batches of lanes, claims, admission: pure operators |
| `RemediationExecution` | a host runs an approved plan beside another campaign; extends `RemediationPlan` |
| `AdapterProcess` | one supervised child process |
| `CraTimeline` | acceptance of records and the reporting clocks: pure operators |
| `CraStore` | the tree of one event, its writers and a lock-free reader; extends `CraTimeline` |
| `PublicationPlan` | the compiler of declarations: pure operators |
| `Publication` | a compiled plan run over a file system; extends `PublicationPlan` |
| `JournalReaderProofs` | theorems about `EffectReplay` and `PermitAnchor` |
| `ExecutionProofs` | theorems about `AdapterProcess` and `RemediationExecution` |
| `FileTransactionProofs` | theorems about `RegistryCutover` and `Publication` |
| `...Proofs` | theorems about the module of that name (five of them) |
| `MC...` | constants of the TLC instances |

`PermitAnchor` composes the three files at the grain of whole appends; the
inside of an append (lock, write, fsync, crash) is what `PermitLedger` and
`EffectJournal` are about. `PermitAnchor` replays the journal through
`JournalRules!Legal`, which the run `replay` shows to be what the loop computes.

### How state and actions correspond to the code

**PermitLedger.** `rows` is what a reader sees, `synced` how much of it survives a
power loss, `tail`/`diskTail` the kind of the incomplete row behind each. A row is
its identifiers and its place in the chain (`prev` counts the rows below, so
"previous head = running head" becomes `prev = index - 1`). `holder` is the
`flock`. `consume` is `Consume` (lock, scan, checks), `Write` or `WriteTorn`,
`Fsync`, `Return`; `recover_torn_tail` is `RecoverTornTail`, `Truncate`, `FsyncCut`,
then the same append of its audit row; `locked_admission` is `OpenLease`,
`LeaseConsume`, `CloseLease`. `Abort` stands for every exception and for the death
of the process. `uses` counts the callers told "consumed"; `anchor` is the
prefix the host selected, taken from a count an append returned.

**EffectJournal.** The same file abstraction. The lock holder's `lease` retains the
number of frames it last saw or wrote; a failed append (`WriteFails`,
`FsyncFails`) returns to the lease and leaves `lease` alone, exactly as the code
leaves `expected_size`. `StartAppend` has the checks of `append_from_host` and
closes the matching tokens of the process before anything is written; `Fsync`
moves the lease and issues a token for an intent. `spent` remembers the tokens
the process held of a part when it began to append an outcome of it; nothing but
the end of the process forgets them. `RequireCurrent` is a handler
that passes the token check and then mutates (or only unlinks) its part.
`LockRecovery` yields the classified damage, `Cut` is the operator's repair.

**EffectReplay.** One step is one iteration of the loop over an arbitrary next
record. `log` is history used to compare with the reference. The action per
record kind is the branch of the loop; the guard is what the branch accepts;
any other record refuses the journal for good.

**PermitAnchor.** `ledger` and `journal` are sequences of rows and frames (an
operation intent names the ledger prefix it binds), `anchor` the records after
genesis. `Selection` folds the verifier over the anchor: the boundaries
selected, the adopted rows, the honoured closures, the intents resolved.
`torn` and `jtorn` are the fragments the anchor and the journal end in, `evidence`
the intents published of them, in order; `Resolves` is the chain of intents one
recovery record must commit to, `JournalIntentsBind` the audit of journal
recoveries by frames. `Current` is the ordinary reader. The appends belong to the
host, publication and cuts to the operator; both are outside the repository, may
act in any order and stop. Two roots at one boundary, or a second child of an
intent, can never be completed: every later read refuses. Two unaudited intents of
the same journal fragment refuse as long as they are unaudited.

**EvidenceStore.** `dir` is the visible directory, `survivors` the states it may
have after a power loss, `data` whether an object's bytes are torn, written or
synchronised. `publish` is cut at every system call.

**RegistryCutover.** Registry and consumer contents are generation numbers. `tx`
holds each generation's journal state, receipt and snapshots; `job` is the
process under the lock with its program counter. Every replacement may fail
with or without its effect; `Dies` and `DiesInReceipt` end the process anywhere.

**ProjectMemory.** A manifest is a record of its time, its records and its
predecessor; digests are injective, so a manifest stands for its digest.
`content`, `history` (with `torn`), `index` and `current` are the files; a commit is
`StartCommit`, `CreateHistory`, `WriteHistory`, `ReplaceIndex`, `ReplaceManifest`,
`Return`, with `Dies` anywhere. `HistoryVerifies` is `verify_project_memory_history`
as one reading of the files: it loads every object of the history directory
(`EntriesVerify`), orphans of abandoned commits included, and then walks from the
current generation to the first (`LinksVerify`). A whole orphan passes, a torn
object of any commit refuses. The verifier's limit on the number of entries
(`PROJECT_MEMORY_MAX_HISTORY_ENTRIES`, which no commit looks at) is left out.

**RemediationPlan, RemediationExecution.** Lanes are numbers, so that the code's
sorting by identifier is `<`; paths are sequences, a parent directory a prefix.
`NextBatch` is the greedy loop over the ready lanes, `ExecutionBatches` the outer
loop (a batch is what one round adds to the completed lanes), `ClaimAdmitted` is
`admit_claim` with `_assert_group_isolated`, `Admitted` is `ExecutionLedger.admit`. In the execution `plan` is an arbitrary legal plan; `Approve`
and `Grant` carry the four-eyes rule; the host follows `schedule` batch by batch
(`ClaimLane`, `FinishLane`, `SkipLane`, or `Observe`) and has the record admitted.
`ClaimForeign` is the other campaign, which never releases. `now` is the clock that
claims are evaluated at; nothing stops a lane whose lease ran out.

**AdapterProcess.** The parent is the program of `stream_process` with a program
counter: `SetUp`, `LoopHead`, `Read`, `ReadAll`, `Reap`, then `SendTerm`, `SendKill`,
`AwaitKilled` for `_terminate_process_tree`, `Finally` and `Return`. It starts when the
child has been started and the selector has not been made. `Interrupt` is any other
exception, at any place: before the `try` it ends the call at once, in it it leads to
the `finally` block, in that block it ends the call (`Raises`); `failed` keeps which of
the three parts it came out of. The child is three actions with no order. Bytes are
counted, not named.

**CraTimeline, CraStore.** A file name is the digest of its content, so the tree is
the set `whole` of paths whose bytes are complete and a set of those that are not;
a record contains the records it names. An append locks, replays the event
(`StateReads` is `event_state`), queues its files in `todo` and writes them one at a
time; a death leaves a prefix, perhaps with a torn file. `Storage` is the directory
that `bootstrap` makes first and refuses when it finds it. Drafts, receipts and skips
lie in a directory for each stage; the lock-free reader lists and parses these one
after another (`ReadStage`), and after the last of a kind compares what it found with
what it read before (`ReadDrafts`, `ReadReceipts`, `ReadSkips`). The clocks of `cra_timeline.py` are evaluated
over small instants.

**PublicationPlan, Publication.** The compiler is `Plan`, its refusals are `Accepted`.
A plan is the concatenation of `Groups`, one for each directory, new lock file, lock,
snapshot, file and release, in the order in which the code joins its lists; `Selected`
is the part of a list that a loop does not skip.
`Publication` runs a plan as the compiler's documentation says a writer may: an
operation whose expected states do not hold is not performed (`Refuse`), the first
failure stops (`Fail`, with or without the effect, possibly torn), what was written
is retained, and the same plan may run again. `fs` is what is visible, `kept` the
entries each place may be left with by a power loss until it is synchronised.
`PublishedInOrder` speaks of files that change: one that is replaced by its own bytes,
which the compiler allows, looks published from the start.

## 3. Runs

| Run | Instance | Distinct states | Checks |
|---|---|---|---|
| `ledger` | 2 processes, 3 identifiers, 3 rows | 351,955 | `NoReplay`, `HonouredIsDurable`, `HistoryScans`, `DurableAppendOnly`, `ImplementsConsumeOnce` |
| `journal` | 2 processes, 2 parts, 3 frames | 252,272 | `AlwaysRecoverable`, `WriteAhead`, `OutcomeClosesTokens`, `LeaseIsExact` |
| `replay` | 2 operations (one journalled, two targets), overlapping targets, 5 records | 4,034,490 | `AgreesWithReference`, `BlockedUntilAnchored` |
| `anchor` | 2 permits (symmetric), 2 ledger rows, 3 frames, 3 anchor records, 2 intents; 5 rows, frames and intents together | 149,938 | `CurrentIsComplete`, `StopIsRecoverable`, `AdoptionIsFinal`, `SelectionOnlyGrows` |
| `evidence` | 2 publishers, 3 objects (2 staged), 3 entries, 3 bytes | 84,534 | `RefusesOnlyTornInPlace`, `PublishedIsDurable` |
| `evidence_found` | same | violation | `ReturnedIsDurable` |
| `registry` | 2 consumers, 3 generations | 146,246 | `ResolvedIsWhole`, `ReceiptMatchesJournal`, `CommittedIsFinal` |
| `memory` | 2 writers, 3 records, times 1..4, 4 history files | 707,932 | `OnlyTornIsRefused`, `NoAssertionLost`, `IndexOneAhead`, `ChainOnlyGrows` |
| `remediation` | 3 lanes, 7 dependency shapes, 3 footprints, another campaign with 2 claims, clock to 3 | 102,537 | `BatchesAreLegal`, `AdmissionIsExact`, `WritersAreIsolated`, `RunIsJudged` |
| `adapter` | cap of 3 bytes, reads and pipes of 2, 4 bytes per stream | 53,287 | `NoOrphan`, `CleanReportIsTrue`, `TruncationIsExact`, `EveryCallEnds` |
| `cra` | 4 declarations, drafts of 3 stages, 4 profiles of a tree of up to 6 records, 1 unfinished append | 700,193 | `WholeTreeReads`, `PayloadsPrecedeRecords`, `MixedReadsAgree`, `ReportedStays` |
| `publication` | every declaration of a small universe (536 of them are accepted and describe a file system), 2 runs | 119,060 | `OriginalsSurvive`, `ReplacedIsWhole`, `PublishedInOrder`, `AcceptedPlansComplete` |

What each run shows is said beside it in `PROJECT.json`. The comment above each
property in its module says it in words and names the code it is about.

### Why the bounds are enough

* Two processes suffice for the lock protocols: at any time one holds the lock
  and the other is an arbitrary competitor; a third is in no other situation.
* Three ledger rows and three identifiers allow a permit, a single-use value that
  equals another permit, and a recovery row in between; three journal frames an
  intent, its outcome, and a frame appended after a failure.
* Five records let the replay run a whole operation on two parts or two
  interleaved ones up to a reconciliation after a closure.
* Two ledger rows, three frames, three anchor records let a consumption be
  admitted, adopted, closed and recovered, with another one beside it. Two intents
  are a root and its child, a branch or a second root in the anchor, a fragment
  published twice or two recoveries in the journal, or one in each file; five
  things written leave room for each of these beside a consumption or an audit
  (`MaxWritten`). One file is damaged at a time and the writers wait for its
  repair (`Whole`), and nothing follows a state the verifier refuses (`Proceeds`).
* Three registry generations allow a recovery of an old transaction after a
  later one was committed or rolled back; two consumers, a rollback that
  stops between them.
* Four memory times are an assertion, its supersession, an expiry (at 3) and a
  generation after it.
* The three entries of the evidence store can be filled by remnants; any two of
  its objects fit into the three bytes, all three do not.

* Three lanes are the least with a transitive prerequisite, a fork, a join, and a
  lane that conflicts with two others which do not conflict; the dependency
  shapes run along and against the order of the identifiers. A lease of two on
  a clock to three lets a claim run out under its lane and be claimed again.
  `HostRuns` keeps two outcomes of a run, success and a roll-back; admission is
  checked for all of them by `AdmissionIsExact`, in every plan.
* A cap of three with reads of two makes one read end below, at and beyond the
  cap; two streams of up to four bytes exceed it alone and only together, and a
  pipe of two blocks its writer.
* In the CRA tree a day is one instant and the month two: a stage is pending,
  overdue, late and on time. It may be skipped at instant 1 or 5, in time or past
  every deadline, so that a skip comes before and after the record that fixes its
  clock. `Profiles` says which trees are followed: two drafts, two receipts and a skip
  under one revision are a whole reporting of an event; two revisions with drafts, a
  receipt and a skip or a notice make callers stale and readers see a mixture; two
  revisions with two advisories are a chain of each.
  `Prepared` leaves out the draft of the final report, whose clock the skips and
  revisions move all the same.
* Two business files and a registry, a directory inside another, and locks old
  and new give each of the compiler's rules an accepted and a refused
  declaration (for the agreement of snapshots with originals, one that declares other
  bytes); `MaxOperations` refuses the twelve longest of 548 plans and no
  other, and two runs let one meet the remains of another.

The constants that only bound the models are `MaxRows`, `MaxLedger`, `MaxJournal`,
`MaxAnchor`, `MaxGen`, `MaxTime`, `MaxHistory`, `MaxClock`, `MaxWritten`, `Profiles`, `MaxLeft`
and `MaxRuns`. `MaxFrames`, `MaxObjects`, `MaxTotalBytes`, `MaxSteps`, `OutputLimit` and
`MaxOperations` are budgets of the code, made small.

### What the violation run shows

`evidence_found`: `publish` of bytes that are already there returns their digest as
that of a durable object (`recovery_evidence_store_v2.py:264`), although the
publisher that put them there may have failed before its fsync of the file or
directory. A power loss removes what was returned.

### Behaviours the models show and no property forbids

These follow from the code as it is. No property is stated against them, because
either no text of the repository promises otherwise or the code does not provide
it and the property would be false.

* Ledger: `recover_torn_tail` truncates durably before it appends its audit row
  (`permit_consumption_ledger_v2.py:606`); a failure or death in between leaves
  removed bytes without a record, and the next recovery finds no tail.
* Registry: a process that dies inside the synchronous rollback after restoring a
  consumer, with the registry still at the candidate, leaves a mixture that every
  recovery refuses; so does a first registry over consumers that exist already.
  A recovery that finds a torn receipt refuses too.
* Memory: a death while a history object is created leaves a torn file. The retry of
  the same commit refuses it (`project_memory_store.py:308`), although the
  documentation of the commit says that it "can retry the same exact history object"
  (`:325`), and
  so do `verify_project_memory_history` and `read_project_memory_record` from then on
  (`:563`, `:486`), also when another commit has succeeded since. `OnlyTornIsRefused`
  says that this is the only reason for which they refuse a generation that loads.
* Audit process: an exception between the start of the child and the `try`
  (`adapter_runtime.py:345`) leaves the child running and unsignalled; a second one,
  while the `finally` block waits for the child (`:305`), leaves it with SIGTERM only.
  `Unprotected` names these two cases, and `NoOrphan` says that there is no third.
* Claims: `_assert_group_isolated` says that stale claims never block, but a claim
  whose prerequisite has expired makes every admission fail until it expires
  itself. `RunIsJudged` shows that this ends.
* Remediation: the authority's `expires_at` is evaluated by nothing in the
  repository, and `admit` looks neither at the status nor at the expiry of the
  claims it is given. One idempotency key shared by steps with different
  identifiers always counts as divergent.
* CRA: a draft makes a stage that is past its deadline count as
  `submitted-unverified` without an alert for 24 hours (`cra_timeline.py:231`). A
  bootstrap that dies leaves a tree that can be neither bootstrapped nor used
  (`cra_store.py:319`). A death between an event's directory and its first revision
  (`cra_store.py:390`) makes the listing of all events refuse (`cra_store.py:413`)
  until that revision is appended again, which the store allows. An advisory may be
  appended to an incident (`cra_store.py:665`). A successor revision may clear the corrective
  measure or the intermediate deadline (`cra_events.py:330`), and with it a clock.
  The deadline of an incident's final report runs from the receipt of its
  notification (`cra_timeline.py:176`): a final report that was skipped before that
  receipt came may turn late when it comes. An earlier form of `ReportedStays`
  denied it; its proof failed there, and the property now speaks of a skipped stage
  once its deadline is fixed.
* Publication: a declaration that makes one of its files the parent of a new
  directory is accepted although no file system can run it; `Consistent` leaves
  such declarations out.

## 4. Assumptions of the models

* Digests are injective, so a head digest is a position in its chain and an
  object stands for its bytes.
* The lock excludes processes and is freed by death. A lease object is used by one
  thread, as wherever the repository uses one.
* After a power loss a prefix of the rows or frames written since the last fsync
  survives, perhaps with a fragment behind it; the evidence directory returns
  to a state it had since its last fsync. A file system that persists
  unsynchronised writes out of order is outside the models.
* In the registry and the memory each file operation is durable when it returns
  (the code synchronises each file and directory entry it replaces); deaths of
  processes are modelled there, power losses are not.
* `"recovery"` is no permit identifier of an instance of the anchor: the model tells
  an audit row from a consumption by it, the code by the type of the row.
* The host outside the repository selects in ledger and journal only heads an
  append returned. Selecting a head that was merely read is listed as a hazard.
* The child of an audit has a process namespace of its own, so no descendant
  outlives the process the parent waits for.
* The writer of a compiled publication and the host that runs a plan are outside
  the repository; they do what the documentation of the compiled plan and of the
  admission says, and may stop anywhere.
* In the CRA store a completed file is durable; a power loss is a death there.
* In the anchor model nothing is appended to files the verifier refuses: a journal
  that no longer replays and a chain of intents that no record completes are
  refused at each later read, and there is no recovery for complete frames. The
  one refusal an append could end, of two unaudited intents of the same fragment,
  is not followed either.

**Fairness.** Two modules state it; only their liveness properties use it.

* `RemediationExecution` (`RunIsJudged`): a host that was granted an execution keeps
  working (weak fairness of claiming, skipping, observing and admitting), a lane
  that runs ends (its steps run under timeouts), and time passes. Nobody has to
  approve or grant, and the other campaign owes nothing: it may claim what the
  host needs and never release it. Weak fairness suffices because a lease runs
  out and each foreign candidate claims once: a claim that is refused becomes
  admissible and stays so. Against competitors that claim again and again no
  lease scheme without a queue is live, and the property does not say it is.
* `AdapterProcess` (`EveryCallEnds`): the parent runs, the deadline passes, and the
  kernel carries out SIGKILL. Nothing is assumed of the child. The deadline is
  `time.monotonic` against a fixed instant; `select` returns after at most 0.1 s.
  Exceptions are not fair: they may come at any step or never. A call they left
  `Unprotected` has ended too, perhaps with a child that runs on.

In the stores no fairness is assumed and no liveness is claimed: every process may
stop for good at any step, which is what crashes are, and the code has no
background work that must happen. What takes the place of liveness there are
safety statements about what is *possible next*: `AlwaysRecoverable`,
`StopIsRecoverable`, `IndexOneAhead`, `WholeTreeReads`, `AcceptedPlansComplete`. Deadlock is
checked where an instance cannot use up its bounds (`ledger`, `journal`); elsewhere the
system may really stop (a call returns, a plan is done, a file is read to its
end) or uses up its bounds.

## 5. Proofs

| Module | Theorem | Statement |
|---|---|---|
| `PermitLedgerProofs` | `TypeCorrect` | `Spec => []TypeOK` |
| | `LedgerInvariant` | `Spec => []LedgerInv` |
| | `NoIdentifierHonouredTwice` | `Spec => []NoReplay` |
| | `HistoryAlwaysScans` | `Spec => []HistoryScans` |
| | `HonouredSurvives` | `Spec => []HonouredIsDurable` |
| | `DurableRowsStay` | `Spec => DurableAppendOnly` |
| | `SelectionStaysCovered` | `Spec => []AnchorCovered` |
| | `LedgerImplementsOnce` | `Spec => ImplementsConsumeOnce` |
| `EffectJournalProofs` | `TypeCorrect` | `Spec => []TypeOK` |
| | `Recoverable` | `Spec => []AlwaysRecoverable` |
| | `NeverAheadOfJournal` | `Spec => []WriteAhead` |
| | `OutcomesCloseTokens` | `Spec => []OutcomeClosesTokens` |
| | `LeasesAreExact` | `Spec => []LeaseIsExact` |
| `JournalReaderProofs` | `TypeCorrect` | `Spec => []TypeOK` |
| | `BlockedAreTheOpenOnes` | `Spec => []OpenTargetsExact` |
| | `OpenOperationsExclusive` | `Spec => []TargetsExclusive` |
| | `BlocksUntilAnchored` | `Spec => BlockedUntilAnchored` |
| | `LoopAgreesWithReference` | `Spec => []AgreesWithReference` |
| | `AnchorInvariant` | `AnchorSpec => []AnchorInv` |
| | `CurrentSelectionsAreComplete` | `AnchorSpec => []CurrentIsComplete` |
| | `AdoptionsAreFinal` | `AnchorSpec => AdoptionIsFinal` |
| | `StopInvariant` | `AnchorSpec => []StopInv` |
| | `StopsAreRecoverable` | `AnchorSpec => []StopIsRecoverable` |
| | `SelectionsOnlyGrow` | `AnchorSpec => SelectionOnlyGrows` |
| `EvidenceStoreProofs` | `TypeCorrect` | `Spec => []TypeOK` |
| | `ReturnedObjectsSurvive` | `Spec => []PublishedIsDurable` |
| | `OnlyTornInPlaceRefuses` | `Spec => []RefusesOnlyTornInPlace` |
| `FileTransactionProofs` | `ReceiptsMatchJournals` | `Spec => []ReceiptMatchesJournal` |
| | `CommittedStaysCommitted` | `Spec => CommittedIsFinal` |
| | `ResolvedFilesAreWhole` | `Spec => []ResolvedIsWhole` |
| | `PublicationInvariant` | `PublicationSpec => []PublicationInv` |
| | `OriginalsAlways` | `PublicationSpec => []OriginalsSurvive` |
| | `WholeAlways` | `PublicationSpec => []ReplacedIsWhole` |
| | `OrderAlways` | `PublicationSpec => []PublishedInOrder` |
| | `AcceptedAlways` | `PublicationSpec => []AcceptedPlansComplete` |
| `ProjectMemoryProofs` | `RetainedIsLinked` | `Spec => []HistoryLinked` |
| | `IndexIsOneAhead` | `Spec => []IndexOneAhead` |
| | `ChainGrowsBySuccessors` | `Spec => ChainOnlyGrows` |
| | `OnlyTornObjectsAreRefused` | `Spec => []OnlyTornIsRefused` |
| | `AssertionsAreAccounted` | `Spec => []NoAssertionLost` |
| `ExecutionProofs` | `TypeCorrect` | `Spec => []TypeOK` |
| | `ChildrenAreReaped` | `Spec => []NoOrphan` |
| | `CleanReportsAreTrue` | `Spec => []CleanReportIsTrue` |
| | `TruncationsAreExact` | `Spec => []TruncationIsExact` |
| | `HostInvariant` | `HostSpec => []HostInv` |
| | `PlansAreCutLegally` | `HostSpec => []BatchesAreLegal` |
| | `RecordsAreJudgedExactly` | `HostSpec => []AdmissionIsExact` |
| | `HostedLanesAreIsolated` | `HostSpec => []WritersAreIsolated` |
| `CraStoreProofs` | `RecordsHavePayloads` | `Spec => []PayloadsPrecedeRecords` |
| | `TreesRead` | `Spec => []WholeTreeReads` |
| | `ReadersAgree` | `Spec => []MixedReadsAgree` |
| | `ReportsAreFinal` | `Spec => ReportedStays` |

They hold for any sets of processes, identifiers, operations, parts, objects,
records, declarations, plans and claims and for any bound or budget. They rest on the assumptions
the modules name: absent values are no members of the sets they are absent from
(`NoIdAssumption`, `NoProcAssumption`, `NoManifestAssumption`), bounds and sizes are
naturals, positive where the code requires it, and for the replay each operation
has a sequence of targets, `Overlap` is a reflexive, symmetric relation (the code
compares for equality or ancestry in either direction) and `Journalled` is a set of
operations; for the anchor that `"recovery"` is no operation; for remediation that
prerequisites are lanes of the plan, that the other campaign's claims have
identifiers of their own and that a lane ends in one of `LaneRuns`; for publication
that the states of a place are told apart (`StatesAssumption`, `FilesAssumption`) and
that declarations are of the types the dataclasses give (`DeclarationsAssumption`),
whatever they say. TLC evaluates
every one of these on the instance of its run.

*The ledger.* `NoReplay` alone is not inductive: it must also be known that what
was honoured is still in the file, in the part that survives (`Honoured`), that
the row about to be written is disjoint from all the rows there are
(`WritePending`), that the row about to be returned is the last one, durable, and
has not been honoured (`ReturnPending`), and that only one process is anywhere but
idle (`LockHeld`). `LedgerInv` conjoins these with the scan; `InvStep` proves that
each action preserves it. `HeardIsDurable` strengthens it for the selected prefix:
every count an append returned is at most the synchronised length. The refinement
maps `spent` to the identifiers in the visible rows; a write burns, a return
honours, a power loss forgets only what `Honoured` says nobody was told.

*The journal file.* `WriteAhead` speaks of tokens that were used; the step that uses
one needs that every token stands for a durable intent (`TokensAreIntents`). That
needs the frame between its write and its fsync to be the last (`InAppend`), so an
exact lease (`LeaseIsExact`): a failed append leaves the lease as it was, and the
next one compares it with the file before it writes. `Selected` orders what the host selected,
what it was told and what is synchronised: recovery never cuts below it. A token that
was closed for an outcome stays closed because its intent is durable
(`SpentIsDurable`), so that no later frame takes its place and issues it anew.

*The replay.* `OpenTargetsExact` and `TargetsExclusive` are inductive only together:
removing a closed operation's targets leaves those of the others because no
target is shared, and nothing is shared because an intent is compared with
exactly the open targets. `BlockedUntilAnchored` follows from the first.
For `AgreesWithReference` the summary the loop keeps of an operation is related to
the life the reference reads off the whole journal: each kind of record extends a
legal life exactly when the loop accepts it, and no other operation's life changes.

*The permit anchor.* The verifier is a recursive function over the records; that its
runs exist and agree on a common part is shown by a least counterexample. A record
that verified verifies still while files grow (`BindsKept`), so a selection is
stable (`SelectionKept`) and moves only by one more verifying record. `AnchorInv`
adds to the types that no permit is consumed twice (`ConsumedOnce`), that a recovery
frame follows the published intent it binds (`AuditsFollow`), and that everything
selected is in the files, accounted for and committed (`SelectionIsSound`).

`StopIsRecoverable` speaks of a chain that is not there yet, the anchor with the one or
two records that complete it, and of that chain without its last record, which the
reader verifies as well. `StopInv` therefore adds what those verifications rest on:
every intent was published under a prefix of the chain (`UnderTheChain`), the permits a
selection has seen are those of selected intent frames, recoveries already audited
behind the selection do not share their place (`Rests`), and when the whole journal
is selected the same holds of the chain without its last record (`RestsBehind`), which
is why a state that needs no further record is accepted too. The intents pending at the
end of the anchor are then one chain that ends in the last of them (`PendingResolves`),
so the commitment binds; late intent frames are of permits not seen, by the one life
the journal's rules leave an operation (`LateIntentsAreNew`), so the adoption or the
advance binds behind it (`RestBinds`).

*The evidence store.* The object a publisher works on is not one already returned
(`Fresh`): that one is in the directory, and a publication of bytes in place returns
at once. `Synced` says that bytes are synchronised before their name appears and that
before the return a power loss can only leave the visible directory; `Staged`, that a
staging file about to be renamed is still counted, so that the count stays natural.
`BudgetInv` bounds every directory a power loss may leave, not only the visible one:
a publication has reserved its room in all of them, and a name comes only with its
bytes synchronised. The bytes of a directory are the value of an additive function
on its subsets, which exists once; both by a least counterexample over cardinality.

*The registry.* `Applying` and `Recovering` say for each place of an apply and of a
recovery which side the registry, the journal and the receipt are at. A rollback
of one transaction restores an older registry, so it must also be known that this
one is never a generation that was itself rolled back (`RolledBackStays`), nor below
any committed one (`CommittedStays`). `WholeInv` adds how far each place is through
the consumers (`Positions`), that the registry is never below the prior of a
transaction that was begun (`Descent`), that a generation an interrupted rollback
left with consumers that are not its own keeps its transaction open for ever
(`HollowIsOpen`), and that a mixture of generations is always marked by an open
transaction (`MixedIsOpen`).

*The publication.* Every operation of a plan belongs to one group, and the groups start
where the lengths of those before them add up (`StartsAt`); that a flattened sequence
has its elements there is the lemma the whole proof is located by (`FlattenAt`). For each
group `GroupAt` says what is there, and what a power loss may leave, after each of
its operations, and `GroupPartly` what a stop anywhere in it may leave. A run is in step
(`InStep`: the groups before the current operation complete, nothing of those after), or
it has stopped and the file system retains a prefix of the groups (`Retained`), or it is a
second run that has not written yet, because it finds its first file or directory
there already (`Behind`). A power loss keeps a prefix: what is certain stays as long as the
directories above it are certain, and those come before it in the plan or were never
in it (`Ground`, `AllMade`). The groups write disjoint paths since the compiler refuses shared
names, so a step of one disturbs no other (`Frame`). The properties are read off a
prefix: the snapshots come before the files, a replacement is renamed after its bytes
and before its directory is synchronised, and the files come in their order. The locks
held are those whose group has passed and whose release has not (`HeldAt`).

*The memory.* A candidate is a successor of the current manifest until it replaces
it, and the files it has reached hold it (`Committing`); the history is linked
(`HistoryLinked`) and the index names the current manifest or a retained successor
(`IndexFollows`). `HistoryLinked` is one step of the chain verification; the whole
chain follows by induction over the distance from the current generation, as a
least counterexample, and so does what became of an assertion on the way.

*The audit process.* No more bytes are accepted than taken, nor taken than written,
and all taken are accepted unless the cap was exceeded (`BytesInOrder`); a stream the
selector dropped is at its end (`StreamsFollowed`); truncation is known as soon as the
bytes taken exceed the cap and at no other time, and a result that did not time out
has read its streams to the end; the parts that failed are those the parent has left
(`FailedInOrder`); a signal has a reason among the cap, the deadline and a failure
(`Justified`); and each place knows of the child what it needs (`ChildKnown`).

*Remediation.* A batch is a greedy pass: no two of its lanes conflict, and a ready
lane left out conflicts with a smaller one that was taken (`BatchIsMaximal`). A
lane of least rank among those left is always ready, each round completes one at
least, so the rounds are numbered without a gap and complete all lanes
(`RoundsEnd`); the tightness of `BatchesAreLegal` is the maximality of the batch
before. Admission follows transitive prerequisites and running follows direct ones:
a lane reaches its prerequisites and what they reach (`Reaches`), and by induction
over the rank a lane is blocked exactly when one of its prerequisites did not
succeed (`PropagationIsDirect`). `HostInv` says that a running lane is of the open
batch, which cannot move on while the lane is not over (`BatchStays`), so two
running lanes are of one batch; that needs nothing of their leases. Claims that
hold are apart because a release or the clock only lets holders go.

*The CRA tree.* What the holder of the lock still has to write ends with the record,
behind payloads that are queued before it or are whole already (`RecordLast`).
`TreeInv` adds that the whole records are one history even beside torn ones
(`Consistent`), that the last record still queued fits into it (`LastFits`), and that
what a reader has accepted so far is one history (`ReaderAgrees`). A receipt
of a stage excludes its skip and the reverse, which with the clocks that no later
record moves gives `ReportedStays`.

*Only model-checked:* the liveness properties `RunIsJudged` and `EveryCallEnds`. Every
invariant, action property and refinement of the passing runs is proved.

*Out of the prover's reach:* liveness and `ENABLED`, library theorems with operator
parameters, and modules with RECURSIVE operators (the modules here use none). What
is proved of recursive functions goes through the least member of a set of naturals
(`WFMin` with `NatLessThanWellFounded`), which needs no operator parameter: the runs
of the verifier and of the scheduler, sums over sets, chains of any length, the
flattening of the groups of a plan (the library defines `FlattenSeq` by a recursive
function; `FlattenExists` shows that there is one). Folds of
the library stay opaque; in remediation the sum of executed steps and the order of
lanes occur in both sides of what is proved and need no value.

## 6. Plan

Done: the modules of section 2, and proofs about eleven of them.

What would come next, in this order:

1. `WorkLifecycle`: the table of task events with owner and lease expiry against a
   definition of the legal histories; in particular whether an owner that the
   verifying event itself reassigns lets the resolver verify its own work.
   Bounds: 2 owners, 1 task, 6 events.
2. `PermitAnchor` with the journal's file actions in place of the whole append, and
   with a host that goes on while the operator repairs.
3. `CraStore`: registration successors; `Publication`: bootstrap and the activation
   plan on top of the compiler.
4. `WitnessGroups`, `RateWindow`, `Quorum`, `MaturityRules`, `ReportDiff`: pure operators
   against reference definitions over bounded inputs.
