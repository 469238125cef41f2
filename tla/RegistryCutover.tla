--------------------------- MODULE RegistryCutover ---------------------------
(***************************************************************************)
(* The project registry transaction and its recovery:                      *)
(* src/rigor_foundry/project_registry_cutover.py and                       *)
(* project_registry_recovery.py.  A cutover replaces every consumer file,  *)
(* in order, then the registry file (the commit point), beside a snapshot  *)
(* directory with a journal and a receipt.  Any replacement may fail with  *)
(* or without its effect (os.replace done, directory fsync refused), which *)
(* starts the synchronous rollback; the process may die between any two    *)
(* file operations; a recovery of any generation may be asked for at any   *)
(* time.  Both run under one exclusive, non-blocking lock, so `job` is the *)
(* process inside it; load_project_registry_state takes no lock.           *)
(*                                                                         *)
(* A registry, a consumer output and a transaction are abstracted to their *)
(* generation number, 0 for an absent file: a consumer output is valid for *)
(* exactly the registry whose digest it carries.                           *)
(***************************************************************************)
EXTENDS Naturals

CONSTANTS
    N,              \* number of declared consumers
    MaxGen          \* bound of the model: candidate generations

ASSUME NAssumption == N \in Nat \ {0}
ASSUME MaxGenAssumption == MaxGen \in Nat

VARIABLES
    reg,            \* generation of the live registry file
    cons,           \* [consumer -> generation of its live file]
    tx,             \* [generation -> its transaction directory]
    job             \* the process holding .cutover.lock

vars == <<reg, cons, tx, job>>
files == <<reg, cons, tx>>
live == <<reg, cons>>

Consumers == 1..N
Gens == 1..MaxGen
Files == 0..MaxGen

NoTx == [journal |-> "none", receipt |-> "none", prior |-> 0,
         priors |-> [c \in Consumers |-> 0]]
Idle == [op |-> "idle", gen |-> 0, pc |-> "none", i |-> 0]
Outcomes == {"committed", "rolled-back"}

At(o, p) == job.op = o /\ job.pc = p
Goes(p) == job' = [job EXCEPT !.pc = p]
GoesTo(p, k) == job' = [job EXCEPT !.pc = p, !.i = k]

Journalled(g, s) == tx' = [tx EXCEPT ![g].journal = s]
Receipted(g, s) == tx' = [tx EXCEPT ![g].receipt = s]

-----------------------------------------------------------------------------
Init ==
    /\ reg = 0
    /\ cons = [c \in Consumers |-> 0]
    /\ tx = [g \in Gens |-> NoTx]
    /\ job = Idle

\* A live consumer the plan may expect: absent, or valid for the live registry;
\* with no registry there is nothing to validate it against.
PriorAccepted(c) == cons[c] = 0 \/ reg = 0 \/ cons[c] = reg

\* apply_project_registry_cutover: the lock is free, the generation has no
\* directory, and the plan's preconditions hold under the lock.
StartApply(g) ==
    /\ job = Idle /\ tx[g].journal = "none"
    /\ g > reg
    /\ \A c \in Consumers : PriorAccepted(c)
    /\ tx' = [tx EXCEPT ![g] = [journal |-> "snapshot", receipt |-> "none",
                                prior |-> reg, priors |-> cons]]
    /\ job' = [op |-> "apply", gen |-> g, pc |-> "snapshot", i |-> 1]
    /\ UNCHANGED live

\* The snapshot is complete once its journal file is: state "prepared".
WriteJournal ==
    /\ At("apply", "snapshot")
    /\ Journalled(job.gen, "prepared")
    /\ Goes("prepared")
    /\ UNCHANGED live

BeginApplying ==
    /\ At("apply", "prepared")
    /\ Journalled(job.gen, "applying")
    /\ Goes("replace")
    /\ UNCHANGED live

\* Consumers in order, the registry after the last one.
Replaces ==
    IF job.i > N THEN reg' = job.gen /\ UNCHANGED cons
    ELSE cons' = [cons EXCEPT ![job.i] = job.gen] /\ UNCHANGED reg

ReplaceNext ==
    /\ At("apply", "replace")
    /\ Replaces
    /\ IF job.i > N THEN Goes("verify") ELSE GoesTo("replace", job.i + 1)
    /\ UNCHANGED tx

\* Mutant: only the targets replaced before the failing one are undone.
ReplaceFailsForgets ==
    /\ At("apply", "replace")
    /\ \/ Replaces
       \/ UNCHANGED live
    /\ GoesTo("undo", job.i - 1)
    /\ UNCHANGED tx

\* atomic_replace_text raised before or after os.replace took effect.
ReplaceFails ==
    /\ At("apply", "replace")
    /\ \/ Replaces
       \/ UNCHANGED live
    /\ GoesTo("undo", N)
    /\ UNCHANGED tx

LiveIs(g) == reg = g /\ \A c \in Consumers : cons[c] = g

\* Mutant: the committed receipt is written before the live state is checked.
VerifyAfterReceipt ==
    /\ At("apply", "verify")
    /\ \/ LiveIs(job.gen) /\ Goes("commit")
       \/ GoesTo("undo", N)
    /\ Receipted(job.gen, "committed")
    /\ UNCHANGED live

\* _verify_live_state; a read of it may fail.
Verify ==
    /\ At("apply", "verify")
    /\ \/ LiveIs(job.gen) /\ Goes("commit")
       \/ GoesTo("undo", N)
    /\ UNCHANGED files

Commit ==
    /\ At("apply", "commit")
    /\ Journalled(job.gen, "committed")
    /\ Goes("receipt")
    /\ UNCHANGED live

ApplyReceipt ==
    /\ At("apply", "receipt")
    /\ Receipted(job.gen, "committed")
    /\ job' = Idle
    /\ UNCHANGED live

-----------------------------------------------------------------------------
\* One target of _restore_targets: it must still be the prior or the
\* candidate, and becomes the prior; k = 0 is the registry.
Undoes(g, k) ==
    IF k = 0
    THEN /\ reg \in {tx[g].prior, g}
         /\ reg' = tx[g].prior /\ UNCHANGED cons
    ELSE /\ cons[k] \in {tx[g].priors[k], g}
         /\ cons' = [cons EXCEPT ![k] = tx[g].priors[k]] /\ UNCHANGED reg

\* Rollback inside the failed apply: consumers in reverse, then the registry.
Undo ==
    /\ At("apply", "undo")
    /\ Undoes(job.gen, job.i)
    /\ IF job.i = 0 THEN Goes("undo-journal") ELSE GoesTo("undo", job.i - 1)
    /\ UNCHANGED tx

UndoJournal ==
    /\ At("apply", "undo-journal")
    /\ Journalled(job.gen, "rolled-back")
    /\ Goes("undo-receipt")
    /\ UNCHANGED live

UndoReceipt ==
    /\ At("apply", "undo-receipt")
    /\ Receipted(job.gen, "rolled-back")
    /\ job' = Idle
    /\ UNCHANGED live

-----------------------------------------------------------------------------
\* _load_bundle: the journal parses, the snapshots are complete, and a prior
\* consumer snapshot has a prior registry to be validated against.
BundleLoads(g) ==
    /\ tx[g].journal \notin {"none", "snapshot"}
    /\ \A c \in Consumers : tx[g].priors[c] # 0 => tx[g].prior # 0

\* Which way an interrupted transaction is resolved, by the live registry.
Outcome(g) ==
    IF reg = g
    THEN IF tx[g].journal # "rolled-back" /\ LiveIs(g) THEN "committed" ELSE "refused"
    ELSE IF reg = tx[g].prior /\ tx[g].journal # "committed" THEN "rolled-back"
    ELSE "refused"

\* recover_project_registry_cutover, up to the first file it may write.
StartRecover(g) ==
    /\ job = Idle
    /\ BundleLoads(g)
    /\ \/ /\ Outcome(g) = "committed"
          /\ job' = [op |-> "recover", gen |-> g, pc |-> "committed", i |-> 0]
       \/ /\ Outcome(g) = "rolled-back"
          /\ job' = [op |-> "recover", gen |-> g, pc |-> "restore", i |-> N]
    /\ UNCHANGED files

\* _restore_targets; the registry is already the prior one.
Restore ==
    /\ At("recover", "restore")
    /\ Undoes(job.gen, job.i)
    /\ IF job.i = 0 THEN Goes("rolled-back") ELSE GoesTo("restore", job.i - 1)
    /\ UNCHANGED tx

\* _finalize_receipt: an existing receipt must parse and say the same.
ReceiptAgrees(g, o) == tx[g].receipt \in {"none", o}

Finalize(o) ==
    /\ At("recover", o) /\ job.i = 0
    /\ ReceiptAgrees(job.gen, o)
    /\ Receipted(job.gen, o)
    /\ GoesTo(o, 1)
    /\ UNCHANGED live

\* The journal's final state follows the receipt.
SetFinalState(o) ==
    /\ At("recover", o) /\ job.i = 1
    /\ Journalled(job.gen, o)
    /\ job' = Idle
    /\ UNCHANGED live

\* An exception that is not handled, or the death of the process, between two
\* file operations: the lock is released, nothing is undone.
Dies ==
    /\ job # Idle
    /\ job' = Idle
    /\ UNCHANGED files

\* It dies while write_new_text creates the receipt: the file stays torn.
DiesInReceipt ==
    /\ \/ job.op = "apply" /\ job.pc \in {"receipt", "undo-receipt"}
       \/ job.op = "recover" /\ job.pc \in Outcomes
    /\ tx[job.gen].receipt = "none"
    /\ Receipted(job.gen, "torn")
    /\ job' = Idle
    /\ UNCHANGED live

-----------------------------------------------------------------------------
\* load_project_registry_state: a registry, and every consumer valid for it.
LoadAccepts == reg # 0 /\ LiveIs(reg)

Apply ==
    \/ \E g \in Gens : StartApply(g)
    \/ WriteJournal \/ BeginApplying \/ ReplaceNext \/ ReplaceFails
    \/ Verify \/ Commit \/ ApplyReceipt
    \/ Undo \/ UndoJournal \/ UndoReceipt

Recover ==
    \/ \E g \in Gens : StartRecover(g)
    \/ Restore
    \/ \E o \in Outcomes : Finalize(o) \/ SetFinalState(o)

Next == Apply \/ Recover \/ Dies \/ DiesInReceipt

Spec == Init /\ [][Next]_vars

-----------------------------------------------------------------------------
(* Properties.                                                             *)

Final(g) == tx[g].journal \in {"none"} \cup Outcomes

\* apply, recover: when every transaction that was begun has reached a final
\* journal state, load_project_registry_state accepts the live files (or there
\* are none), whatever died, failed or was rolled back on the way.
ResolvedIsWhole ==
    (job = Idle /\ \A g \in Gens : Final(g) \/ tx[g].journal = "snapshot")
        => LoadAccepts \/ LiveIs(0)

\* The journal and the receipt of one transaction never name two outcomes,
\* although apply writes the journal first and recovery the receipt first.
ReceiptMatchesJournal ==
    \A g \in Gens :
      tx[g].receipt \in Outcomes /\ tx[g].journal \in Outcomes
        => tx[g].receipt = tx[g].journal

\* A generation recorded as committed is never taken back: the registry leaves
\* it only for a later generation, and no record of it becomes rolled-back.
CommittedIsFinal ==
    [][\A g \in Gens :
         "committed" \in {tx[g].journal, tx[g].receipt} =>
           /\ reg = g => reg' >= g
           /\ "rolled-back" \notin {tx'[g].journal, tx'[g].receipt}]_vars

=============================================================================
