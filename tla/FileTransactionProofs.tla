------------------------ MODULE FileTransactionProofs ------------------------
(***************************************************************************)
(* Proofs about the two transactions over several files.                   *)
(*                                                                         *)
(* RegistryCutover, for any number of consumers and candidate generations. *)
(* CutoverInv is inductive: what each place of an apply and of a recovery  *)
(* knows of the registry and of its transaction, and that neither a        *)
(* committed nor a rolled-back generation can return by way of another     *)
(* transaction's rollback.  WholeInv adds what the places know of the      *)
(* consumers, and that every mixture of generations is marked by a         *)
(* transaction that was left open.                                         *)
(*                                                                         *)
(* Publication, for any set of declarations, of any number of files,       *)
(* snapshots, directories and locks.  A plan is a sequence of groups, one  *)
(* for each thing declared.  PublicationInv is inductive: a run has        *)
(* completed the groups before the one it is in, and nothing is there of   *)
(* those after it; a stop or a power loss keeps such a prefix; and a run   *)
(* over the remains of another stops at its first write.                   *)
(***************************************************************************)
EXTENDS RegistryCutover, Publication, SequenceTheorems, WellFoundedInduction, TLAPS

Journals == {"none", "snapshot", "prepared", "applying", "committed", "rolled-back"}
Receipts == {"none", "torn", "committed", "rolled-back"}
JobPlaces == {"none", "snapshot", "prepared", "replace", "verify", "commit", "receipt", "undo",
           "undo-journal", "undo-receipt", "restore", "committed", "rolled-back"}
Tx == [journal : Journals, receipt : Receipts, prior : Files, priors : [Consumers -> Files]]

TypeInv ==
    /\ reg \in Files /\ cons \in [Consumers -> Files]
    /\ tx \in [Gens -> Tx]
    /\ job \in [op : {"idle", "apply", "recover"}, gen : Files, pc : JobPlaces, i : Nat]
    /\ job.op # "idle" => job.gen \in Gens

\* A transaction was begun before any record of it, above its prior registry.
Begun ==
    \A g \in Gens : /\ tx[g].journal = "none" => tx[g].receipt = "none"
                    /\ tx[g].journal # "none" => tx[g].prior < g

\* The registry, the journal and the receipt in each place of an apply.
Applying ==
    job.op = "apply" =>
      LET t == tx[job.gen]
      IN  /\ t.receipt = "none" /\ reg \in {t.prior, job.gen}
          /\ \/ job.pc = "snapshot" /\ t.journal = "snapshot" /\ reg = t.prior
             \/ job.pc = "prepared" /\ t.journal = "prepared" /\ reg = t.prior
             \/ job.pc \in {"replace", "undo-journal"} /\ t.journal = "applying" /\ reg = t.prior
             \/ job.pc \in {"verify", "commit"} /\ t.journal = "applying" /\ reg = job.gen
             \/ job.pc = "undo" /\ t.journal = "applying"
             \/ job.pc = "receipt" /\ t.journal = "committed" /\ reg = job.gen
             \/ job.pc = "undo-receipt" /\ t.journal = "rolled-back" /\ reg = t.prior

\* The same in each place of a recovery.
Recovering ==
    job.op = "recover" =>
      LET t == tx[job.gen]
      IN  /\ t.journal # "none"
          /\ \/ job.pc = "committed" /\ reg = job.gen
                /\ "rolled-back" \notin {t.journal, t.receipt}
             \/ job.pc \in {"restore", "rolled-back"} /\ reg = t.prior
                /\ "committed" \notin {t.journal, t.receipt}
          /\ job.pc \in Outcomes /\ job.i = 1 => t.receipt = job.pc

Recorded(g, o) == o \in {tx[g].journal, tx[g].receipt}

\* A committed generation is never above the registry, nor above the one that
\* a rollback in progress goes back to.
CommittedStays ==
    \A g \in Gens : Recorded(g, "committed") =>
      /\ ~Recorded(g, "rolled-back")
      /\ g <= reg
      /\ job.op = "apply" /\ job.gen # g => g <= tx[job.gen].prior

\* A rolled-back generation is not live, and no rollback brings it back.
RolledBackStays ==
    \A g \in Gens : Recorded(g, "rolled-back") =>
      /\ reg # g
      /\ job.op = "apply" /\ job.gen # g => tx[job.gen].prior # g

CutoverInv ==
    TypeInv /\ Begun /\ Applying /\ Recovering /\ CommittedStays /\ RolledBackStays

-----------------------------------------------------------------------------
\* What setting the state of one journal leaves alone.
LEMMA SetJournal ==
  ASSUME TypeInv, NEW g \in Gens, NEW s \in Journals, Journalled(g, s)
  PROVE  /\ tx' \in [Gens -> Tx]
         /\ tx'[g].journal = s /\ tx'[g].receipt = tx[g].receipt
         /\ tx'[g].prior = tx[g].prior /\ tx'[g].priors = tx[g].priors
         /\ \A h \in Gens \ {g} : tx'[h] = tx[h]
  <1>1. tx \in [Gens -> Tx] /\ tx[g] \in Tx
    BY DEF TypeInv
  <1>2. [tx[g] EXCEPT !.journal = s] \in Tx
    BY <1>1 DEF Tx
  <1>3. tx' = [tx EXCEPT ![g] = [tx[g] EXCEPT !.journal = s]]
    BY DEF Journalled
  <1>4. tx' \in [Gens -> Tx] /\ tx'[g] = [tx[g] EXCEPT !.journal = s]
        /\ \A h \in Gens \ {g} : tx'[h] = tx[h]
    BY <1>1, <1>2, <1>3
  <1> QED BY <1>1, <1>4 DEF Tx

\* What setting the outcome of one receipt leaves alone.
LEMMA SetReceipt ==
  ASSUME TypeInv, NEW g \in Gens, NEW s \in Receipts, Receipted(g, s)
  PROVE  /\ tx' \in [Gens -> Tx]
         /\ tx'[g].journal = tx[g].journal /\ tx'[g].receipt = s
         /\ tx'[g].prior = tx[g].prior /\ tx'[g].priors = tx[g].priors
         /\ \A h \in Gens \ {g} : tx'[h] = tx[h]
  <1>1. tx \in [Gens -> Tx] /\ tx[g] \in Tx
    BY DEF TypeInv
  <1>2. [tx[g] EXCEPT !.receipt = s] \in Tx
    BY <1>1 DEF Tx
  <1>3. tx' = [tx EXCEPT ![g] = [tx[g] EXCEPT !.receipt = s]]
    BY DEF Receipted
  <1>4. tx' \in [Gens -> Tx] /\ tx'[g] = [tx[g] EXCEPT !.receipt = s]
        /\ \A h \in Gens \ {g} : tx'[h] = tx[h]
    BY <1>1, <1>2, <1>3
  <1> QED BY <1>1, <1>4 DEF Tx

\* The job moves on within its operation.
LEMMA JobMoves ==
  ASSUME TypeInv
  PROVE  /\ \A p \in JobPlaces : Goes(p) =>
              /\ job'.op = job.op /\ job'.gen = job.gen /\ job'.pc = p /\ job'.i = job.i
              /\ job' \in [op : {"idle", "apply", "recover"}, gen : Files, pc : JobPlaces, i : Nat]
         /\ \A p \in JobPlaces, k \in Nat : GoesTo(p, k) =>
              /\ job'.op = job.op /\ job'.gen = job.gen /\ job'.pc = p /\ job'.i = k
              /\ job' \in [op : {"idle", "apply", "recover"}, gen : Files, pc : JobPlaces, i : Nat]
  BY DEF TypeInv, Goes, GoesTo

\* The tree of a host without a registry satisfies the inductive invariant.
LEMMA InvInit == Init => CutoverInv
  <1> SUFFICES ASSUME Init PROVE CutoverInv
    OBVIOUS
  <1>1. 0 \in Files /\ NoTx \in Tx
    BY MaxGenAssumption DEF Files, NoTx, Tx, Journals, Receipts
  <1>2. \A g \in Gens : tx[g] = NoTx
    BY DEF Init
  <1>3. job = Idle
    BY DEF Init
  <1>4. TypeInv
    BY <1>1, <1>3 DEF Init, TypeInv, Idle, JobPlaces
  <1> QED
    BY <1>2, <1>3, <1>4 DEF CutoverInv, NoTx, Idle, Begun, Applying, Recovering,
       CommittedStays, RolledBackStays, Recorded
\* The steps that change a journal and nothing that is live.
LEMMA JournalStep ==
  ASSUME CutoverInv, WriteJournal \/ BeginApplying \/ Commit \/ UndoJournal
  PROVE  CutoverInv'
  <1> DEFINE g == job.gen
  <1> USE DEF CutoverInv
  <1>1. PICK s \in Journals, p \in JobPlaces :
          /\ job.op = "apply" /\ Journalled(g, s) /\ Goes(p) /\ UNCHANGED live
          /\ \/ job.pc = "snapshot" /\ s = "prepared" /\ p = "prepared"
             \/ job.pc = "prepared" /\ s = "applying" /\ p = "replace"
             \/ job.pc = "commit" /\ s = "committed" /\ p = "receipt"
             \/ job.pc = "undo-journal" /\ s = "rolled-back" /\ p = "undo-receipt"
    BY DEF WriteJournal, BeginApplying, Commit, UndoJournal, At, Journals, JobPlaces
  <1>2. g \in Gens /\ reg' = reg /\ cons' = cons
    BY <1>1 DEF TypeInv, live
  <1>3. /\ tx' \in [Gens -> Tx]
        /\ tx'[g].journal = s /\ tx'[g].receipt = tx[g].receipt /\ tx'[g].prior = tx[g].prior
        /\ \A h \in Gens \ {g} : tx'[h] = tx[h]
    BY <1>1, <1>2, SetJournal
  <1>4. /\ job'.op = "apply" /\ job'.gen = g /\ job'.pc = p
        /\ job' \in [op : {"idle", "apply", "recover"}, gen : Files, pc : JobPlaces, i : Nat]
    BY <1>1, JobMoves
  <1>5. tx[g].receipt = "none" /\ tx[g].journal \notin {"none", "committed", "rolled-back"}
        /\ tx[g].prior < g
    BY <1>1, <1>2 DEF Applying, Begun
  <1>6. TypeInv' /\ Begun' /\ Applying' /\ Recovering'
    BY <1>1, <1>2, <1>3, <1>4, <1>5 DEF TypeInv, Begun, Applying, Recovering
  <1>7. CommittedStays' /\ RolledBackStays'
    BY <1>1, <1>2, <1>3, <1>4, <1>5, MaxGenAssumption DEF CommittedStays, RolledBackStays,
       Recorded, Applying, Gens
  <1> QED BY <1>6, <1>7
\* The steps that change a receipt and nothing that is live; the job ends, or
\* goes on to set the journal.
LEMMA ReceiptStep ==
  ASSUME CutoverInv,
         ApplyReceipt \/ UndoReceipt \/ DiesInReceipt \/ \E o \in Outcomes : Finalize(o)
  PROVE  CutoverInv'
  <1> DEFINE g == job.gen
  <1> USE DEF CutoverInv
  <1>1. PICK s \in Receipts :
          /\ Receipted(g, s) /\ UNCHANGED live
          /\ \/ job.op = "apply" /\ job.pc = "receipt" /\ s \in {"committed", "torn"} /\ job' = Idle
             \/ job.op = "apply" /\ job.pc = "undo-receipt" /\ s \in {"rolled-back", "torn"}
                /\ job' = Idle
             \/ job.op = "recover" /\ tx[g].receipt = "none" /\ s = "torn" /\ job' = Idle
             \/ /\ job.op = "recover" /\ job.pc = s /\ s \in Outcomes
                /\ tx[g].receipt \in {"none", s} /\ GoesTo(s, 1)
    BY DEF ApplyReceipt, UndoReceipt, DiesInReceipt, Finalize, ReceiptAgrees, At, Receipts, Outcomes
  <1>2. g \in Gens /\ reg' = reg /\ cons' = cons
    BY <1>1 DEF TypeInv, live
  <1>3. /\ tx' \in [Gens -> Tx]
        /\ tx'[g].journal = tx[g].journal /\ tx'[g].receipt = s /\ tx'[g].prior = tx[g].prior
        /\ \A h \in Gens \ {g} : tx'[h] = tx[h]
    BY <1>1, <1>2, SetReceipt
  <1>4. /\ job' \in [op : {"idle", "apply", "recover"}, gen : Files, pc : JobPlaces, i : Nat]
        /\ \/ job'.op = "idle"
           \/ job'.op = "recover" /\ job'.gen = g /\ job'.pc = s /\ job.op = "recover"
              /\ job.pc = s /\ s \in Outcomes
    <2>1. Idle \in [op : {"idle", "apply", "recover"}, gen : Files, pc : JobPlaces, i : Nat]
          /\ Idle.op = "idle"
      BY MaxGenAssumption DEF Idle, JobPlaces, Files
    <2> QED BY <1>1, <2>1, JobMoves DEF Outcomes, JobPlaces
  <1>5. tx[g].journal # "none" /\ tx[g].prior < g
    BY <1>1, <1>2 DEF Applying, Recovering, Begun
  <1>6. TypeInv' /\ Begun' /\ Applying'
    BY <1>1, <1>2, <1>3, <1>4, <1>5 DEF TypeInv, Begun, Applying
  <1>7. Recovering'
    BY <1>1, <1>2, <1>3, <1>4 DEF Recovering, Outcomes
  <1>8. /\ s = "committed" => reg = g /\ tx[g].journal # "rolled-back"
        /\ s = "rolled-back" => reg # g /\ tx[g].journal # "committed"
    BY <1>1, <1>2, <1>5, MaxGenAssumption DEF Applying, Recovering, Outcomes, Gens, TypeInv, Tx, Files
  <1>9. CommittedStays' /\ RolledBackStays'
    BY <1>1, <1>2, <1>3, <1>4, <1>8 DEF CommittedStays, RolledBackStays, Recorded, Gens
  <1> QED BY <1>6, <1>7, <1>9

\* A transaction begins above the live registry.
LEMMA StartApplyStep ==
  ASSUME CutoverInv, NEW g \in Gens, StartApply(g)
  PROVE  CutoverInv'
  <1> USE DEF CutoverInv
  <1> DEFINE new == [journal |-> "snapshot", receipt |-> "none", prior |-> reg, priors |-> cons]
  <1>1. /\ tx[g].journal = "none" /\ g > reg /\ reg' = reg /\ cons' = cons
        /\ tx' = [tx EXCEPT ![g] = new]
        /\ job' = [op |-> "apply", gen |-> g, pc |-> "snapshot", i |-> 1]
    BY DEF StartApply, live
  <1>2. new \in Tx
    BY DEF TypeInv, Tx, Journals, Receipts
  <1>3. /\ tx' \in [Gens -> Tx] /\ tx'[g] = new
        /\ \A h \in Gens \ {g} : tx'[h] = tx[h]
    BY <1>1, <1>2 DEF TypeInv
  <1>4. TypeInv'
    BY <1>1, <1>3 DEF TypeInv, Gens, Files, JobPlaces
  <1>5. Begun' /\ Applying' /\ Recovering'
    BY <1>1, <1>3 DEF Begun, Applying, Recovering
  <1>6. CommittedStays' /\ RolledBackStays'
    BY <1>1, <1>3 DEF CommittedStays, RolledBackStays, Recorded
  <1> QED BY <1>4, <1>5, <1>6

\* The steps of an apply that replace or restore one live file, or check them.
LEMMA LiveStep ==
  ASSUME CutoverInv, ReplaceNext \/ ReplaceFails \/ Verify \/ Undo
  PROVE  CutoverInv'
  <1> DEFINE g == job.gen
  <1> USE DEF CutoverInv
  <1>1. job.op = "apply" /\ g \in Gens /\ tx' = tx
    BY DEF ReplaceNext, ReplaceFails, Verify, Undo, At, TypeInv, files
  <1>2. /\ reg \in Files /\ cons \in [Consumers -> Files] /\ g \in Files
        /\ tx[g].prior \in Files /\ tx[g].priors \in [Consumers -> Files]
        /\ tx[g].prior < g /\ tx[g].receipt = "none"
    BY <1>1 DEF TypeInv, Tx, Begun, Applying, Gens, Files
  <1>3. reg' \in Files /\ cons' \in [Consumers -> Files]
    BY <1>2 DEF ReplaceNext, ReplaceFails, Verify, Undo, Replaces, Undoes, live, files
  <1>4. PICK p \in JobPlaces, k \in Nat :
          /\ job'.op = "apply" /\ job'.gen = g /\ job'.pc = p /\ job'.i = k
          /\ job' \in [op : {"idle", "apply", "recover"}, gen : Files, pc : JobPlaces, i : Nat]
          /\ \/ job.pc = "replace" /\ p = "replace" /\ reg' = reg
             \/ job.pc = "replace" /\ p = "verify" /\ reg' = g
             \/ job.pc = "replace" /\ p = "undo" /\ reg' \in {reg, g}
             \/ job.pc = "verify" /\ p \in {"commit", "undo"} /\ reg' = reg
             \/ job.pc = "undo" /\ p = "undo" /\ reg' = reg
             \/ job.pc = "undo" /\ p = "undo-journal" /\ reg' = tx[g].prior
    <2>0. job.i \in Nat /\ TypeInv /\ N \in Nat
      BY NAssumption DEF TypeInv
    <2>1. CASE ReplaceNext
      <3>1. job.i + 1 \in Nat /\ {"replace", "verify"} \subseteq JobPlaces
        BY <2>0 DEF JobPlaces
      <3>2. CASE job.i > N
        BY <2>0, <2>1, <3>1, <3>2, JobMoves, <1>1 DEF ReplaceNext, Replaces, At
      <3>3. CASE ~(job.i > N)
        BY <2>0, <2>1, <3>1, <3>3, JobMoves, <1>1 DEF ReplaceNext, Replaces, At
      <3> QED BY <3>2, <3>3
    <2>2. CASE ReplaceFails
      <3>1. "undo" \in JobPlaces
        BY DEF JobPlaces
      <3> QED BY <2>0, <2>2, <3>1, JobMoves, <1>1 DEF ReplaceFails, Replaces, At, live
    <2>3. CASE Verify
      <3>1. "undo" \in JobPlaces /\ "commit" \in JobPlaces
        BY DEF JobPlaces
      <3> QED BY <2>0, <2>3, <3>1, JobMoves, <1>1 DEF Verify, At, files
    <2>4. CASE Undo
      <3>1. "undo" \in JobPlaces /\ "undo-journal" \in JobPlaces
        BY DEF JobPlaces
      <3>2. CASE job.i = 0
        BY <2>0, <2>4, <3>1, <3>2, JobMoves, <1>1 DEF Undo, Undoes, At
      <3>3. CASE job.i # 0
        <4>1. job.i - 1 \in Nat
          BY <2>0, <3>3
        <4> QED BY <2>0, <2>4, <3>1, <3>3, <4>1, JobMoves, <1>1 DEF Undo, Undoes, At
      <3> QED BY <3>2, <3>3
    <2> QED BY <2>1, <2>2, <2>3, <2>4
  <1>5. TypeInv' /\ Begun' /\ Recovering'
    BY <1>1, <1>2, <1>3, <1>4 DEF TypeInv, Begun, Recovering
  <1>6. Applying'
    BY <1>1, <1>2, <1>4 DEF Applying
  <1>7. tx[g].journal = "applying"
    BY <1>1, <1>4 DEF Applying
  <1>8. reg' \in {reg, g, tx[g].prior} /\ reg \in {g, tx[g].prior}
    BY <1>1, <1>4 DEF Applying
  <1>9. CommittedStays' /\ RolledBackStays'
    BY <1>1, <1>2, <1>4, <1>7, <1>8, MaxGenAssumption DEF CommittedStays, RolledBackStays,
       Recorded, Gens, Files
  <1> QED BY <1>5, <1>6, <1>9
\* A recovery commits only the live generation, and undoes only one whose prior
\* registry is live, so which is neither live nor committed.
LEMMA StartRecoverStep ==
  ASSUME CutoverInv, NEW g \in Gens, StartRecover(g)
  PROVE  CutoverInv'
  <1> USE DEF CutoverInv
  <1>1. PICK p \in {"committed", "restore"}, k \in Nat :
          /\ job' = [op |-> "recover", gen |-> g, pc |-> p, i |-> k]
          /\ p # "restore" => k = 0
          /\ UNCHANGED <<reg, cons, tx>>
          /\ tx[g].journal # "none"
          /\ p = "committed" => reg = g /\ tx[g].journal # "rolled-back"
          /\ p = "restore" => reg = tx[g].prior /\ tx[g].journal # "committed"
    BY NAssumption DEF StartRecover, Outcome, BundleLoads, files
  <1>2. TypeInv' /\ Begun' /\ Applying'
    BY <1>1, MaxGenAssumption DEF TypeInv, Begun, Applying, Gens, Files, JobPlaces
  <1>3. tx[g].prior < g /\ tx[g].prior \in Nat /\ reg \in Nat
    BY <1>1, MaxGenAssumption DEF Begun, TypeInv, Tx, Files
  <1>4. /\ p = "committed" => tx[g].receipt # "rolled-back"
        /\ p = "restore" => tx[g].receipt # "committed"
    BY <1>1, <1>3, MaxGenAssumption DEF CommittedStays, RolledBackStays, Recorded, Gens
  <1>5. Recovering' /\ CommittedStays' /\ RolledBackStays'
    BY <1>1, <1>4 DEF Recovering, CommittedStays, RolledBackStays, Recorded, Outcomes
  <1> QED BY <1>2, <1>5

\* Restoring the targets leaves the registry, which is the prior one already.
LEMMA RestoreStep ==
  ASSUME CutoverInv, Restore
  PROVE  CutoverInv'
  <1> DEFINE g == job.gen
  <1> USE DEF CutoverInv
  <1>1. job.op = "recover" /\ job.pc = "restore" /\ g \in Gens /\ tx' = tx /\ reg = tx[g].prior
    BY DEF Restore, At, TypeInv, Recovering, Outcomes
  <1>2. reg' = reg /\ cons' \in [Consumers -> Files]
    BY <1>1 DEF Restore, Undoes, TypeInv, Tx
  <1>3. PICK p \in {"restore", "rolled-back"}, k \in Nat :
          /\ job'.op = "recover" /\ job'.gen = g /\ job'.pc = p /\ job'.i = k
          /\ p = "rolled-back" => k = 0
          /\ job' \in [op : {"idle", "apply", "recover"}, gen : Files, pc : JobPlaces, i : Nat]
    <2>1. job.i \in Nat /\ {"restore", "rolled-back"} \subseteq JobPlaces
      BY DEF TypeInv, JobPlaces
    <2>2. CASE job.i = 0
      BY <1>1, <2>1, <2>2, JobMoves DEF Restore
    <2>3. CASE job.i # 0
      <3>1. job.i - 1 \in Nat
        BY <2>1, <2>3
      <3> QED BY <1>1, <2>1, <2>3, <3>1, JobMoves DEF Restore
    <2> QED BY <2>2, <2>3
  <1>4. TypeInv' /\ Begun' /\ Applying'
    BY <1>1, <1>2, <1>3 DEF TypeInv, Begun, Applying
  <1>5. Recovering' /\ CommittedStays' /\ RolledBackStays'
    BY <1>1, <1>2, <1>3 DEF Recovering, CommittedStays, RolledBackStays, Recorded, Outcomes
  <1> QED BY <1>4, <1>5

\* The journal of a recovery ends with the outcome its receipt has.
LEMMA FinalStateStep ==
  ASSUME CutoverInv, NEW o \in Outcomes, SetFinalState(o)
  PROVE  CutoverInv'
  <1> DEFINE g == job.gen
  <1> USE DEF CutoverInv
  <1>1. /\ job.op = "recover" /\ job.pc = o /\ g \in Gens /\ Journalled(g, o)
        /\ tx[g].receipt = o /\ job' = Idle /\ reg' = reg /\ cons' = cons
    BY DEF SetFinalState, At, TypeInv, Recovering, live
  <1>2. /\ tx' \in [Gens -> Tx]
        /\ tx'[g].journal = o /\ tx'[g].receipt = o /\ tx'[g].prior = tx[g].prior
        /\ \A h \in Gens \ {g} : tx'[h] = tx[h]
    BY <1>1, SetJournal DEF Outcomes, Journals
  <1>3. TypeInv' /\ Begun' /\ Applying' /\ Recovering'
    BY <1>1, <1>2, MaxGenAssumption DEF TypeInv, Begun, Applying, Recovering, Idle, Files, JobPlaces,
       Outcomes
  <1>4. CommittedStays' /\ RolledBackStays'
    BY <1>1, <1>2 DEF CommittedStays, RolledBackStays, Recorded, Idle, Outcomes
  <1> QED BY <1>3, <1>4

\* Every step keeps the inductive invariant.
LEMMA InvStep == CutoverInv /\ [Next]_vars => CutoverInv'
  <1> SUFFICES ASSUME CutoverInv, [Next]_vars PROVE CutoverInv'
    OBVIOUS
  <1>1. ASSUME NEW g \in Gens, StartApply(g) PROVE CutoverInv'
    BY <1>1, StartApplyStep
  <1>2. CASE WriteJournal \/ BeginApplying \/ Commit \/ UndoJournal
    BY <1>2, JournalStep
  <1>3. CASE ReplaceNext \/ ReplaceFails \/ Verify \/ Undo
    BY <1>3, LiveStep
  <1>4. CASE ApplyReceipt \/ UndoReceipt \/ DiesInReceipt \/ \E o \in Outcomes : Finalize(o)
    BY <1>4, ReceiptStep
  <1>5. ASSUME NEW g \in Gens, StartRecover(g) PROVE CutoverInv'
    BY <1>5, StartRecoverStep
  <1>6. CASE Restore
    BY <1>6, RestoreStep
  <1>7. ASSUME NEW o \in Outcomes, SetFinalState(o) PROVE CutoverInv'
    BY <1>7, FinalStateStep
  <1>8. CASE Dies
    <2>1. job' = Idle /\ UNCHANGED <<reg, cons, tx>>
      BY <1>8 DEF Dies, files
    <2> QED BY <2>1, MaxGenAssumption DEF CutoverInv, TypeInv, Begun, Applying, Recovering,
              CommittedStays, RolledBackStays, Recorded, Idle, Files, JobPlaces
  <1>9. CASE UNCHANGED vars
    BY <1>9 DEF vars, CutoverInv, TypeInv, Begun, Applying, Recovering, CommittedStays,
       RolledBackStays, Recorded
  <1> QED
    BY <1>1, <1>2, <1>3, <1>4, <1>5, <1>6, <1>7, <1>8, <1>9 DEF Next, Apply, Recover

\* The inductive invariant holds in every behaviour of the transaction.
LEMMA Invariance == Spec => []CutoverInv
  BY InvInit, InvStep, PTL DEF Spec

\* apply, recover: for any number of consumers and generations the journal and
\* the receipt of a transaction never name two outcomes.
THEOREM ReceiptsMatchJournals == Spec => []ReceiptMatchesJournal
  <1>1. CutoverInv => ReceiptMatchesJournal
    BY DEF CutoverInv, CommittedStays, RolledBackStays, Recorded, Outcomes, ReceiptMatchesJournal
  <1> QED BY Invariance, <1>1, PTL

\* A record of a committed outcome is never removed.
LEMMA CommittedRecordStays ==
  ASSUME CutoverInv, [Next]_vars, NEW g \in Gens, Recorded(g, "committed")
  PROVE  Recorded(g, "committed")'
  <1> USE DEF CutoverInv
  <1>1. ASSUME NEW h \in Gens, StartApply(h) PROVE Recorded(g, "committed")'
    BY <1>1 DEF StartApply, Begun, Recorded, TypeInv
  <1>2. CASE WriteJournal \/ BeginApplying \/ Commit \/ UndoJournal
    <2>1. /\ job.op = "apply" /\ job.pc \in {"snapshot", "prepared", "commit", "undo-journal"}
          /\ \E s \in Journals : Journalled(job.gen, s)
      BY <1>2 DEF WriteJournal, BeginApplying, Commit, UndoJournal, At, Journals
    <2>2. job.gen \in Gens /\ job.gen # g
      BY <2>1 DEF Applying, Recorded, TypeInv
    <2> QED BY <2>1, <2>2, SetJournal DEF Recorded
  <1>3. CASE ApplyReceipt \/ UndoReceipt \/ DiesInReceipt \/ \E o \in Outcomes : Finalize(o)
    <2>1. PICK s \in Receipts :
            /\ job.op \in {"apply", "recover"} /\ Receipted(job.gen, s)
            /\ \/ tx[job.gen].receipt = "none"
               \/ tx[job.gen].receipt = s
      BY <1>3 DEF ApplyReceipt, UndoReceipt, DiesInReceipt, Finalize, ReceiptAgrees, At, Receipts,
         Outcomes, Applying
    <2>2. job.gen \in Gens
      BY <2>1 DEF TypeInv
    <2> QED BY <2>1, <2>2, SetReceipt DEF Recorded
  <1>4. ASSUME NEW o \in Outcomes, SetFinalState(o) PROVE Recorded(g, "committed")'
    <2>1. /\ job.op = "recover" /\ job.gen \in Gens /\ Journalled(job.gen, o)
          /\ tx[job.gen].receipt = o
      BY <1>4 DEF SetFinalState, At, TypeInv, Recovering
    <2>2. job.gen = g => o = "committed"
      BY <2>1 DEF CommittedStays, Recorded, Outcomes
    <2> QED BY <2>1, <2>2, SetJournal DEF Recorded, Outcomes, Journals
  <1>5. CASE tx' = tx
    BY <1>5 DEF Recorded
  <1> QED
    BY <1>1, <1>2, <1>3, <1>4, <1>5 DEF Next, Apply, Recover, ReplaceNext, ReplaceFails, Verify,
       Undo, StartRecover, Restore, Dies, vars, files

\* recover: a generation once recorded as committed is never taken back, by
\* whatever recoveries of whichever transactions in whatever order.
THEOREM CommittedStaysCommitted == Spec => CommittedIsFinal
  <1>1. CutoverInv /\ CutoverInv' /\ [Next]_vars =>
          [\A g \in Gens :
             "committed" \in {tx[g].journal, tx[g].receipt} =>
               /\ reg = g => reg' >= g
               /\ "rolled-back" \notin {tx'[g].journal, tx'[g].receipt}]_vars
    <2> SUFFICES ASSUME CutoverInv, CutoverInv', [Next]_vars, NEW g \in Gens,
                        Recorded(g, "committed")
                 PROVE  /\ reg' >= g
                        /\ "rolled-back" \notin {tx'[g].journal, tx'[g].receipt}
      BY DEF Recorded
    <2>1. Recorded(g, "committed")'
      BY CommittedRecordStays
    <2> QED BY <2>1 DEF CutoverInv, CommittedStays, Recorded
  <1> QED BY Invariance, <1>1, PTL DEF Spec, CommittedIsFinal

-----------------------------------------------------------------------------
(* An unresolved mixture of generations is always marked by an open         *)
(* transaction.                                                             *)

Opened(g) == tx[g].journal \in {"prepared", "applying"}
BegunTx(g) == tx[g].journal # "none"

\* The consumers behind the k-th are those of the snapshot.
Restored(g, k) == \A c \in Consumers : c > k => cons[c] = tx[g].priors[c]

\* What the places know of the consumers.
Positions ==
    /\ \/ job.op = "apply" /\ job.pc \in {"commit", "receipt"}
       \/ job.op = "recover" /\ job.pc = "committed"
       => LiveIs(job.gen)
    /\ job.pc \in {"undo", "restore"} => Restored(job.gen, job.i)
    /\ \/ job.op = "apply" /\ job.pc \in {"undo-journal", "undo-receipt"}
       \/ job.op = "recover" /\ job.pc = "rolled-back"
       => Restored(job.gen, 0)
    /\ job.op = "recover" /\ job.pc \in {"restore", "rolled-back"} =>
         \A c \in Consumers : tx[job.gen].priors[c] # 0 => tx[job.gen].prior # 0

\* The registry never falls below the prior registry of a begun transaction,
\* which is that of a begun transaction itself or none.
Descent ==
    /\ reg \in Gens => BegunTx(reg)
    /\ \A g \in Gens : BegunTx(g) =>
         /\ tx[g].prior \in Gens => BegunTx(tx[g].prior)
         /\ tx[g].prior <= reg
         /\ job.op = "apply" => tx[g].prior <= tx[job.gen].prior

\* Generation r was left with consumers that are not its own: in a snapshot
\* taken under it, or now.
Hollow(r) ==
    \/ \E g \in Gens, c \in Consumers : BegunTx(g) /\ tx[g].prior = r /\ tx[g].priors[c] # r
    \/ /\ reg = r /\ ~(job.op = "apply" /\ job.gen = r)
       /\ \E c \in Consumers : cons[c] = 0

\* No rollback brings the consumer c of generation r back.
LostAt(r, c) ==
    /\ reg = r => cons[c] # r
    /\ \A g \in Gens : BegunTx(g) /\ tx[g].prior = r => tx[g].priors[c] # r

\* Only an undo that died leaves a generation hollow, and its transaction open
\* for ever: recovery commits it only when every consumer is its own.
HollowIsOpen ==
    \A r \in Gens : Hollow(r) => tx[r].journal = "applying" /\ \E c \in Consumers : LostAt(r, c)

\* The live files, and those an apply in progress goes back to, are of one
\* generation or another transaction is open.
MixedIsOpen ==
    /\ LiveIs(reg) \/ \E h \in Gens : Opened(h)
    /\ job.op = "apply" =>
         \/ \A c \in Consumers : tx[job.gen].priors[c] = tx[job.gen].prior
         \/ \E h \in Gens \ {job.gen} : Opened(h)

WholeInv == CutoverInv /\ Positions /\ Descent /\ HollowIsOpen /\ MixedIsOpen

\* Every step of an apply or a recovery keeps what its place knows of the
\* consumers: those behind the position are the snapshot's.
LEMMA PositionsStep ==
  ASSUME CutoverInv, Positions, [Next]_vars
  PROVE  Positions'
  <1> DEFINE g == job.gen
  <1> USE DEF CutoverInv
  <1>0. /\ job.i \in Nat /\ N \in Nat /\ reg \in Files /\ cons \in [Consumers -> Files]
        /\ job.op # "idle" => g \in Gens
    BY NAssumption DEF TypeInv
  <1>1. ASSUME NEW h \in Gens, StartApply(h) PROVE Positions'
    BY <1>1 DEF StartApply, Positions
  <1>2. CASE WriteJournal \/ BeginApplying \/ Commit \/ UndoJournal
    <2>1. PICK s \in Journals, p \in JobPlaces :
            /\ job.op = "apply" /\ Journalled(g, s) /\ Goes(p) /\ UNCHANGED live
            /\ \/ p \in {"prepared", "replace"}
               \/ job.pc = "commit" /\ p = "receipt"
               \/ job.pc = "undo-journal" /\ p = "undo-receipt"
      BY <1>2 DEF WriteJournal, BeginApplying, Commit, UndoJournal, At, Journals, JobPlaces
    <2>2. tx'[g].priors = tx[g].priors /\ reg' = reg /\ cons' = cons
      BY <1>0, <2>1, SetJournal DEF live
    <2>3. job'.op = "apply" /\ job'.gen = g /\ job'.pc = p
      BY <2>1, JobMoves
    <2> QED BY <2>1, <2>2, <2>3 DEF Positions, Restored, LiveIs
  <1>3. CASE ReplaceNext \/ ReplaceFails
    <2>1. PICK p \in JobPlaces, k \in Nat :
            /\ job'.op = "apply" /\ job'.pc = p /\ job'.i = k
            /\ p \in {"replace", "verify"} \/ (p = "undo" /\ k = N)
      <3>1. {"replace", "verify", "undo"} \subseteq JobPlaces /\ job.i + 1 \in Nat
        BY <1>0 DEF JobPlaces
      <3> QED BY <1>0, <1>3, <3>1, JobMoves DEF ReplaceNext, ReplaceFails, At
    <2> QED BY <1>0, <2>1 DEF Positions, Restored, Consumers
  <1>4. CASE Verify
    <2>1. PICK p \in {"commit", "undo"} :
            /\ job'.op = "apply" /\ job'.gen = g /\ job'.pc = p
            /\ p = "commit" => LiveIs(g)
            /\ p = "undo" => job'.i = N
            /\ UNCHANGED <<reg, cons, tx>>
      <3>1. {"commit", "undo"} \subseteq JobPlaces
        BY DEF JobPlaces
      <3> QED BY <1>0, <1>4, <3>1, JobMoves DEF Verify, At, files
    <2> QED BY <1>0, <2>1 DEF Positions, Restored, Consumers, LiveIs
  <1>5. CASE Undo \/ Restore
    <2>1. PICK p \in JobPlaces :
            /\ Undoes(g, job.i) /\ UNCHANGED tx /\ job.pc \in {"undo", "restore"}
            /\ IF job.i = 0 THEN Goes(p) ELSE GoesTo(p, job.i - 1)
            /\ \/ job.op = "apply" /\ p = (IF job.i = 0 THEN "undo-journal" ELSE "undo")
               \/ job.op = "recover" /\ p = (IF job.i = 0 THEN "rolled-back" ELSE "restore")
                  /\ job.pc = "restore"
      BY <1>5 DEF Undo, Restore, At, JobPlaces
    <2>2. job'.op = job.op /\ job'.gen = g /\ job'.pc = p
          /\ job'.i = IF job.i = 0 THEN 0 ELSE job.i - 1
      <3>1. CASE job.i = 0
        BY <2>1, <3>1, JobMoves
      <3>2. CASE job.i # 0
        <4>1. job.i - 1 \in Nat
          BY <1>0, <3>2
        <4> QED BY <2>1, <3>2, <4>1, JobMoves
      <3> QED BY <3>1, <3>2
    <2>3. Restored(g, job.i)
      BY <2>1 DEF Positions
    <2>4. ASSUME NEW c \in Consumers, c > job'.i PROVE cons'[c] = tx'[g].priors[c]
      <3>1. CASE job.i = 0
        BY <1>0, <2>1, <2>2, <2>3, <2>4, <3>1 DEF Restored, Undoes
      <3>2. CASE job.i # 0 /\ c = job.i
        BY <1>0, <2>1, <2>2, <3>2 DEF Undoes
      <3>3. CASE job.i # 0 /\ c # job.i
        <4>1. c > job.i
          BY <1>0, <2>2, <2>4, <3>3 DEF Consumers
        <4> QED BY <1>0, <2>1, <2>3, <3>3, <4>1 DEF Restored, Undoes
      <3> QED BY <3>1, <3>2, <3>3
    <2>5. tx' = tx /\ job.op # "idle"
      BY <2>1
    <2>6. job.op = "recover" =>
            \A c \in Consumers : tx'[g].priors[c] # 0 => tx'[g].prior # 0
      BY <2>1, <2>5 DEF Positions
    <2>7. Restored(job.gen, job.i)'
      BY <2>2, <2>4 DEF Restored
    <2> QED BY <2>1, <2>2, <2>5, <2>6, <2>7 DEF Positions
  <1>6. CASE ApplyReceipt \/ UndoReceipt \/ DiesInReceipt \/ Dies
    BY <1>6 DEF ApplyReceipt, UndoReceipt, DiesInReceipt, Dies, Idle, Positions
  <1>7. ASSUME NEW o \in Outcomes, Finalize(o) PROVE Positions'
    <2>1. /\ Receipted(g, o) /\ UNCHANGED live /\ job.op = "recover" /\ job.pc = o
          /\ job'.op = "recover" /\ job'.gen = g /\ job'.pc = o
      <3>1. o \in JobPlaces
        BY DEF Outcomes, JobPlaces
      <3> QED BY <1>7, <3>1, JobMoves DEF Finalize, At
    <2>2. tx'[g].priors = tx[g].priors /\ tx'[g].prior = tx[g].prior
          /\ reg' = reg /\ cons' = cons
      BY <1>0, <2>1, SetReceipt DEF live, Outcomes, Receipts
    <2> QED BY <2>1, <2>2 DEF Positions, Restored, LiveIs, Outcomes
  <1>8. ASSUME NEW o \in Outcomes, SetFinalState(o) PROVE Positions'
    BY <1>8 DEF SetFinalState, Idle, Positions
  <1>9. ASSUME NEW h \in Gens, StartRecover(h) PROVE Positions'
    BY <1>0, <1>9 DEF StartRecover, Positions, Restored, Outcome, BundleLoads, LiveIs, files, Consumers
  <1>10. CASE UNCHANGED vars
    BY <1>10 DEF vars, Positions, Restored, LiveIs
  <1> QED
    BY <1>1, <1>2, <1>3, <1>4, <1>5, <1>6, <1>7, <1>8, <1>9, <1>10 DEF Next, Apply, Recover

\* What a step other than the beginning of a transaction may change.
Continues ==
    /\ \A h \in Gens : tx'[h].prior = tx[h].prior /\ tx'[h].priors = tx[h].priors
    /\ \A h \in Gens : BegunTx(h)' <=> BegunTx(h)
    /\ job'.op = "apply" => job.op = "apply" /\ job'.gen = job.gen
    /\ job.op = "apply" /\ job'.op # "apply" =>
         reg' = reg /\ cons' = cons /\ \A h \in Gens : tx'[h].journal = tx[h].journal

\* The journal of the transaction in progress moves, and no file.
JournalMoves(s) ==
    /\ job.op # "idle" /\ reg' = reg /\ cons' = cons
    /\ tx'[job.gen].journal = s
    /\ \A h \in Gens \ {job.gen} : tx'[h].journal = tx[h].journal
    /\ \/ job.op = "apply" /\ job'.op = "apply"
          /\ \/ job.pc \in {"snapshot", "prepared"} /\ s \in {"prepared", "applying"}
             \/ job.pc = "commit" /\ s = "committed"
             \/ job.pc = "undo-journal" /\ s = "rolled-back"
       \/ job.op = "recover" /\ job.pc = s /\ s \in Outcomes

\* A file becomes the candidate.
FileReplaced ==
    /\ job.op = "apply" /\ job'.op = "apply" /\ job.pc = "replace" /\ tx' = tx
    /\ \/ reg' = reg /\ \A c \in Consumers : cons'[c] \in {cons[c], job.gen}
       \/ reg' = job.gen /\ cons' = cons

\* A file becomes that of the snapshot, the registry after the consumers.
FileRestored ==
    /\ job.op # "idle" /\ job.pc \in {"undo", "restore"} /\ tx' = tx /\ job'.op = job.op
    /\ \/ reg' = reg /\ \A c \in Consumers : cons'[c] \in {cons[c], tx[job.gen].priors[c]}
       \/ reg' = tx[job.gen].prior /\ cons' = cons /\ Restored(job.gen, 0)

FilesStay ==
    reg' = reg /\ cons' = cons /\ \A h \in Gens : tx'[h].journal = tx[h].journal

\* Every step begins a transaction, moves its journal, or moves one live file.
LEMMA StepShape ==
  ASSUME CutoverInv, Positions, [Next]_vars
  PROVE  \/ \E g \in Gens : StartApply(g)
         \/ /\ Continues
            /\ \/ FilesStay \/ FileReplaced \/ FileRestored
               \/ \E s \in Outcomes \cup {"prepared", "applying"} : JournalMoves(s)
  <1> DEFINE g == job.gen
  <1> USE DEF CutoverInv
  <1>0. /\ job.i \in Nat /\ N \in Nat /\ reg \in Files /\ cons \in [Consumers -> Files]
        /\ job.op # "idle" => g \in Gens
    BY NAssumption DEF TypeInv
  <1>1. ASSUME UNCHANGED tx, job'.op = "apply" => job.op = "apply" /\ job'.gen = job.gen,
               job.op = "apply" /\ job'.op # "apply" => reg' = reg /\ cons' = cons
        PROVE  Continues
    BY <1>1 DEF Continues, BegunTx
  <1>2. CASE WriteJournal \/ BeginApplying \/ Commit \/ UndoJournal
    <2>1. PICK s \in Outcomes \cup {"prepared", "applying"}, p \in JobPlaces :
            /\ job.op = "apply" /\ Journalled(g, s) /\ Goes(p) /\ UNCHANGED live
            /\ \/ job.pc \in {"snapshot", "prepared"} /\ s \in {"prepared", "applying"}
               \/ job.pc = "commit" /\ s = "committed"
               \/ job.pc = "undo-journal" /\ s = "rolled-back"
      BY <1>2 DEF WriteJournal, BeginApplying, Commit, UndoJournal, At, Outcomes, JobPlaces
    <2>2. s \in Journals /\ s # "none"
      BY DEF Outcomes, Journals
    <2>3. /\ tx'[g].journal = s /\ tx'[g].prior = tx[g].prior /\ tx'[g].priors = tx[g].priors
          /\ \A h \in Gens \ {g} : tx'[h] = tx[h]
          /\ reg' = reg /\ cons' = cons
      BY <1>0, <2>1, <2>2, SetJournal DEF live
    <2>4. job'.op = "apply" /\ job'.gen = g
      BY <2>1, JobMoves
    <2>5. BegunTx(g)
      BY <2>1 DEF Applying, BegunTx
    <2>6. Continues
      BY <2>1, <2>2, <2>3, <2>4, <2>5 DEF Continues, BegunTx
    <2>7. JournalMoves(s)
      BY <2>1, <2>3, <2>4 DEF JournalMoves
    <2> QED BY <2>6, <2>7
  <1>3. CASE ReplaceNext \/ ReplaceFails
    <2>1. job'.op = "apply" /\ job'.gen = g /\ tx' = tx /\ job.op = "apply" /\ job.pc = "replace"
      <3>1. {"replace", "verify", "undo"} \subseteq JobPlaces /\ job.i + 1 \in Nat
        BY <1>0 DEF JobPlaces
      <3> QED BY <1>0, <1>3, <3>1, JobMoves DEF ReplaceNext, ReplaceFails, At
    <2>2. FileReplaced
      BY <1>0, <1>3, <2>1 DEF FileReplaced, ReplaceNext, ReplaceFails, Replaces, live
    <2> QED BY <1>1, <2>1, <2>2
  <1>4. CASE Verify
    <2>1. job'.op = "apply" /\ job'.gen = g /\ job.op = "apply" /\ UNCHANGED <<reg, cons, tx>>
      <3>1. {"commit", "undo"} \subseteq JobPlaces
        BY DEF JobPlaces
      <3> QED BY <1>0, <1>4, <3>1, JobMoves DEF Verify, At, files
    <2> QED BY <1>1, <2>1 DEF FilesStay
  <1>5. CASE Undo \/ Restore
    <2>1. PICK p \in JobPlaces :
            /\ Undoes(g, job.i) /\ UNCHANGED tx /\ job.pc \in {"undo", "restore"} /\ job.op # "idle"
            /\ IF job.i = 0 THEN Goes(p) ELSE GoesTo(p, job.i - 1)
      BY <1>5 DEF Undo, Restore, At, JobPlaces
    <2>2. job'.op = job.op /\ job'.gen = g
      <3>1. CASE job.i = 0
        BY <2>1, <3>1, JobMoves
      <3>2. CASE job.i # 0
        <4>1. job.i - 1 \in Nat
          BY <1>0, <3>2
        <4> QED BY <2>1, <3>2, <4>1, JobMoves
      <3> QED BY <3>1, <3>2
    <2>3. Restored(g, job.i)
      BY <2>1 DEF Positions
    <2>4. FileRestored
      BY <1>0, <2>1, <2>2, <2>3 DEF FileRestored, Undoes
    <2> QED BY <1>1, <2>1, <2>2, <2>4
  <1>6. CASE ApplyReceipt \/ UndoReceipt \/ DiesInReceipt \/ \E o \in Outcomes : Finalize(o)
    <2>1. PICK s \in Receipts :
            Receipted(g, s) /\ UNCHANGED live /\ job.op # "idle" /\ job'.op # "apply"
      <3>1. Outcomes \subseteq Receipts /\ Outcomes \subseteq JobPlaces /\ "torn" \in Receipts
        BY DEF Outcomes, Receipts, JobPlaces
      <3>2. ASSUME NEW o \in Outcomes, Finalize(o) PROVE job'.op # "apply"
        <4>1. GoesTo(o, 1) /\ job.op = "recover"
          BY <3>2 DEF Finalize, At
        <4> QED BY <3>1, <4>1, JobMoves
      <3> QED BY <1>6, <3>1, <3>2 DEF ApplyReceipt, UndoReceipt, DiesInReceipt, Finalize, At, Idle, Outcomes
    <2>2. /\ tx'[g].journal = tx[g].journal /\ tx'[g].prior = tx[g].prior
          /\ tx'[g].priors = tx[g].priors
          /\ \A h \in Gens \ {g} : tx'[h] = tx[h]
          /\ reg' = reg /\ cons' = cons
      BY <1>0, <2>1, SetReceipt DEF live
    <2> QED BY <1>0, <2>1, <2>2 DEF Continues, FilesStay, BegunTx
  <1>7. ASSUME NEW o \in Outcomes, SetFinalState(o)
        PROVE  Continues /\ JournalMoves(o)
    <2>1. /\ job.op = "recover" /\ job.pc = o /\ Journalled(g, o) /\ UNCHANGED live
          /\ job'.op = "idle" /\ o \in Journals /\ o # "none"
      BY <1>7 DEF SetFinalState, At, Idle, Outcomes, Journals
    <2>2. /\ tx'[g].journal = o /\ tx'[g].prior = tx[g].prior /\ tx'[g].priors = tx[g].priors
          /\ \A h \in Gens \ {g} : tx'[h] = tx[h]
          /\ reg' = reg /\ cons' = cons
      BY <1>0, <2>1, SetJournal DEF live
    <2>3. BegunTx(g)
      BY <2>1 DEF Recovering, BegunTx
    <2> QED BY <1>0, <2>1, <2>2, <2>3 DEF Continues, JournalMoves, BegunTx
  <1>8. CASE Dies \/ (\E h \in Gens : StartRecover(h)) \/ UNCHANGED vars
    <2>1. UNCHANGED <<reg, cons, tx>> /\ (job'.op = "apply" => job' = job)
      BY <1>8 DEF Dies, StartRecover, Idle, files, vars
    <2> QED BY <1>1, <2>1 DEF FilesStay
  <1> QED
    BY <1>2, <1>3, <1>4, <1>5, <1>6, <1>7, <1>8 DEF Next, Apply, Recover

\* No step takes the registry below the prior registry of a begun transaction.
LEMMA DescentStep ==
  ASSUME CutoverInv, Positions, Descent, [Next]_vars
  PROVE  Descent'
  <1> USE DEF CutoverInv
  <1>0. /\ reg \in Nat /\ Gens \subseteq Nat
        /\ job.op # "idle" => job.gen \in Gens
        /\ \A h \in Gens : tx[h].prior \in Nat
    BY MaxGenAssumption DEF TypeInv, Tx, Files, Gens
  <1>1. ASSUME NEW g \in Gens, StartApply(g) PROVE Descent'
    <2>1. /\ g > reg /\ reg' = reg /\ job'.gen = g
          /\ tx'[g].journal = "snapshot" /\ tx'[g].prior = reg
          /\ \A h \in Gens \ {g} : tx'[h] = tx[h]
      BY <1>1 DEF StartApply, live, TypeInv
    <2>2. \A h \in Gens : BegunTx(h) => BegunTx(h)'
      BY <2>1 DEF BegunTx
    <2>3. reg' \in Gens => BegunTx(reg)'
      BY <2>1, <2>2 DEF Descent, BegunTx
    <2>4. ASSUME NEW h \in Gens \ {g}, BegunTx(h)'
          PROVE  /\ tx'[h].prior \in Gens => BegunTx(tx[h].prior)'
                 /\ tx'[h].prior <= reg' /\ tx'[h].prior <= tx'[job'.gen].prior
      BY <1>0, <2>1, <2>2, <2>4 DEF Descent, BegunTx
    <2>5. /\ tx'[g].prior \in Gens => BegunTx(tx[g].prior)'
          /\ tx'[g].prior <= reg' /\ tx'[g].prior <= tx'[job'.gen].prior
      BY <1>0, <2>1, <2>2 DEF Descent, BegunTx
    <2> QED BY <2>3, <2>4, <2>5 DEF Descent
  <1>2. ASSUME Continues, reg' = reg PROVE Descent'
    <2>1. \A h \in Gens : BegunTx(h)' <=> BegunTx(h)
      BY <1>2 DEF Continues
    <2>2. reg' \in Gens => BegunTx(reg)'
      BY <1>2, <2>1 DEF Descent, BegunTx
    <2>3. ASSUME NEW h \in Gens, BegunTx(h)'
          PROVE  /\ tx'[h].prior \in Gens => BegunTx(tx[h].prior)'
                 /\ tx'[h].prior <= reg'
                 /\ job'.op = "apply" => tx'[h].prior <= tx'[job'.gen].prior
      BY <1>0, <1>2, <2>1, <2>3 DEF Descent, Continues, BegunTx
    <2> QED BY <2>2, <2>3 DEF Descent
  <1>3. ASSUME Continues, FileReplaced, reg' = job.gen PROVE Descent'
    <2> DEFINE g == job.gen
    <2>1. /\ job.op = "apply" /\ g \in Gens /\ BegunTx(g) /\ tx[g].prior < g /\ tx' = tx
          /\ job'.op = "apply" /\ job'.gen = g
      BY <1>0, <1>3 DEF FileReplaced, Applying, Begun, BegunTx, Continues
    <2>2. \A h \in Gens : BegunTx(h) => tx[h].prior <= tx[g].prior
      BY <2>1 DEF Descent
    <2>3. ASSUME NEW h \in Gens, BegunTx(h)'
          PROVE  /\ tx'[h].prior \in Gens => BegunTx(tx[h].prior)'
                 /\ tx'[h].prior <= reg' /\ tx'[h].prior <= tx'[job'.gen].prior
      <3>1. BegunTx(h) /\ tx'[h] = tx[h] /\ tx'[job'.gen] = tx[g]
        BY <2>1, <2>3 DEF BegunTx
      <3>2. tx[h].prior <= tx[g].prior
        BY <2>2, <3>1
      <3>3. tx[h].prior \in Gens => BegunTx(tx[h].prior)
        BY <3>1 DEF Descent
      <3>4. BegunTx(tx[h].prior) => BegunTx(tx[h].prior)'
        BY <2>1 DEF BegunTx
      <3>5. tx[h].prior <= g
        <4>1. g \in Nat /\ tx[h].prior \in Nat /\ tx[g].prior \in Nat
          BY <1>0, <2>1
        <4>2. tx[g].prior < g
          BY <2>1
        <4> HIDE DEF g
        <4> QED BY <3>2, <4>1, <4>2
      <3> QED BY <1>3, <3>1, <3>2, <3>3, <3>4, <3>5
    <2>4. BegunTx(reg)'
      BY <1>3, <2>1 DEF BegunTx
    <2> QED BY <2>3, <2>4 DEF Descent
  <1>4. ASSUME Continues, FileRestored, reg' = tx[job.gen].prior PROVE Descent'
    <2> DEFINE g == job.gen
    <2>1. /\ g \in Gens /\ tx' = tx /\ job'.op = job.op
          /\ job'.op = "apply" => job'.gen = g
      BY <1>0, <1>4 DEF FileRestored, Continues
    <2>2. CASE job.op = "recover"
      <3>1. reg = tx[g].prior
        BY <1>4, <2>2 DEF FileRestored, Recovering, Outcomes
      <3> QED BY <1>2, <1>4, <3>1
    <2>3. CASE job.op = "apply"
      <3>1. BegunTx(g) /\ \A h \in Gens : BegunTx(h) => tx[h].prior <= tx[g].prior
        BY <2>1, <2>3 DEF Descent, Applying, BegunTx
      <3>2. ASSUME NEW h \in Gens, BegunTx(h)'
            PROVE  /\ tx'[h].prior \in Gens => BegunTx(tx[h].prior)'
                   /\ tx'[h].prior <= reg'
                   /\ job'.op = "apply" => tx'[h].prior <= tx'[job'.gen].prior
        BY <1>0, <1>4, <2>1, <3>1, <3>2 DEF Descent, BegunTx
      <3>3. reg' \in Gens => BegunTx(reg)'
        BY <1>4, <2>1, <3>1 DEF Descent, BegunTx
      <3> QED BY <3>2, <3>3 DEF Descent
    <2> QED BY <1>4, <2>2, <2>3 DEF FileRestored, TypeInv
  <1> QED
    BY StepShape, <1>1, <1>2, <1>3, <1>4 DEF FilesStay, FileReplaced, FileRestored, JournalMoves

\* A generation that a rollback left without one of its consumers keeps its
\* transaction open: no later apply or recovery brings that consumer back.
LEMMA HollowStep ==
  ASSUME CutoverInv, Positions, Descent, HollowIsOpen, [Next]_vars
  PROVE  HollowIsOpen'
  <1> USE DEF CutoverInv
  <1> SUFFICES ASSUME NEW r \in Gens, Hollow(r)'
               PROVE  (tx[r].journal = "applying" /\ \E c \in Consumers : LostAt(r, c))'
    BY DEF HollowIsOpen
  <1> DEFINE g == job.gen
  <1>0. /\ reg \in Nat /\ Gens \subseteq Nat \ {0}
        /\ job.op # "idle" => g \in Gens
        /\ \A h \in Gens : tx[h].prior \in Nat
    BY MaxGenAssumption DEF TypeInv, Tx, Files, Gens
  <1>1. Hollow(r) => tx[r].journal = "applying" /\ \E c \in Consumers : LostAt(r, c)
    BY DEF HollowIsOpen
  \* No transaction has the generation of an apply as its prior registry.
  <1>2. ASSUME job.op = "apply", NEW h \in Gens, BegunTx(h) PROVE tx[h].prior # g
    <2>1. tx[h].prior <= tx[g].prior /\ tx[g].prior < g
      BY <1>0, <1>2 DEF Descent, Applying, Begun, BegunTx
    <2> QED BY <1>0, <1>2, <2>1
  <1>3. ASSUME NEW n \in Gens, StartApply(n)
        PROVE  (tx[r].journal = "applying" /\ \E c \in Consumers : LostAt(r, c))'
    <2>1. /\ n > reg /\ reg' = reg /\ cons' = cons /\ job' # job /\ job'.op = "apply" /\ job'.gen = n
          /\ tx[n].journal = "none" /\ job.op = "idle"
          /\ tx'[n].journal = "snapshot" /\ tx'[n].prior = reg /\ tx'[n].priors = cons
          /\ \A h \in Gens \ {n} : tx'[h] = tx[h]
          /\ \A c \in Consumers : cons[c] = 0 \/ reg = 0 \/ cons[c] = reg
      BY <1>3 DEF StartApply, live, TypeInv, Idle, PriorAccepted
    <2>2. \A h \in Gens : BegunTx(h)' <=> h = n \/ BegunTx(h)
      BY <2>1 DEF BegunTx
    <2>3. Hollow(r)
      BY <1>0, <2>1, <2>2 DEF Hollow
    <2>4. r # n
      BY <1>1, <2>1, <2>3
    <2>5. PICK c \in Consumers : LostAt(r, c)
      BY <1>1, <2>3
    <2>6. LostAt(r, c)'
      BY <2>1, <2>2, <2>5 DEF LostAt
    <2> QED BY <1>1, <2>1, <2>3, <2>4, <2>6
  <1>4. ASSUME Continues, Hollow(r), tx'[r].journal = tx[r].journal,
               reg' = reg /\ cons' = cons
        PROVE  (tx[r].journal = "applying" /\ \E c \in Consumers : LostAt(r, c))'
    <2>1. PICK c \in Consumers : LostAt(r, c)
      BY <1>1, <1>4
    <2>2. LostAt(r, c)'
      BY <1>4, <2>1 DEF LostAt, Continues
    <2> QED BY <1>1, <1>4, <2>2
  <1>5. ASSUME Continues, FilesStay
        PROVE  (tx[r].journal = "applying" /\ \E c \in Consumers : LostAt(r, c))'
    <2>1. CASE Hollow(r)
      BY <1>4, <1>5, <2>1 DEF FilesStay
    <2>2. CASE ~Hollow(r)
      <3>1. job.op = "apply" /\ g = r /\ reg = r
        BY <1>5, <2>2 DEF Hollow, Continues, FilesStay
      <3>2. PICK c \in Consumers : cons[c] = 0
        BY <1>5, <2>2 DEF Hollow, Continues, FilesStay
      <3>3. tx[r].journal = "applying"
        BY <1>0, <3>1, <3>2 DEF Applying, Positions, LiveIs, Begun
      <3>4. LostAt(r, c)'
        BY <1>0, <1>2, <1>5, <3>1, <3>2 DEF LostAt, Continues, FilesStay
      <3> QED BY <1>5, <3>3, <3>4 DEF FilesStay
    <2> QED BY <2>1, <2>2
  <1>6. ASSUME Continues, FileReplaced
        PROVE  (tx[r].journal = "applying" /\ \E c \in Consumers : LostAt(r, c))'
    <2>1. /\ job.op = "apply" /\ g \in Gens /\ tx' = tx /\ job'.op = "apply" /\ job'.gen = g
      BY <1>0, <1>6 DEF FileReplaced, Continues
    <2>2. r # g
      BY <1>2, <2>1 DEF Hollow, BegunTx
    <2>3. Hollow(r)
      BY <1>0, <1>6, <2>1, <2>2 DEF Hollow, BegunTx, FileReplaced
    <2>4. PICK c \in Consumers : LostAt(r, c)
      BY <1>1, <2>3
    <2>5. LostAt(r, c)'
      BY <1>6, <2>1, <2>2, <2>4 DEF LostAt, BegunTx, FileReplaced
    <2> QED BY <1>1, <2>1, <2>3, <2>5
  <1>7. ASSUME Continues, FileRestored
        PROVE  (tx[r].journal = "applying" /\ \E c \in Consumers : LostAt(r, c))'
    <2>1. /\ job.op # "idle" /\ g \in Gens /\ tx' = tx /\ job'.op = job.op
          /\ job.op = "apply" => job'.gen = g
          /\ BegunTx(g)
      BY <1>0, <1>7 DEF FileRestored, Continues, Applying, Recovering, BegunTx, TypeInv
    <2>2. job.op = "apply" => r # g
      BY <1>2, <2>1 DEF Hollow, BegunTx
    <2>3. reg \in {tx[g].prior, g} /\ (job.op = "recover" => reg = tx[g].prior)
      BY <1>7, <2>1 DEF FileRestored, Applying, Recovering, Outcomes, TypeInv
    <2>4. reg' = r => tx[g].prior = r
      BY <1>7, <2>1, <2>2, <2>3 DEF FileRestored, TypeInv
    <2>5. reg' = r => \A c \in Consumers :
                        cons'[c] = tx[g].priors[c] \/ (reg = r /\ cons'[c] = cons[c])
      BY <1>7 DEF FileRestored, Restored, Consumers
    <2>6. Hollow(r)
      BY <1>0, <2>1, <2>4, <2>5 DEF Hollow, BegunTx
    <2>7. PICK c \in Consumers : LostAt(r, c)
      BY <1>1, <2>6
    <2>8. LostAt(r, c)'
      BY <2>1, <2>4, <2>5, <2>7 DEF LostAt, BegunTx
    <2> QED BY <1>1, <2>1, <2>6, <2>8
  <1>8. ASSUME NEW s \in Outcomes \cup {"prepared", "applying"}, Continues, JournalMoves(s)
        PROVE  (tx[r].journal = "applying" /\ \E c \in Consumers : LostAt(r, c))'
    <2>1. /\ job.op \in {"apply", "recover"} /\ g \in Gens /\ reg' = reg /\ cons' = cons
          /\ job.op = "apply" => job'.op = "apply" /\ job'.gen = g
      BY <1>0, <1>8 DEF JournalMoves, Continues
    <2>2. Hollow(r)
      BY <1>8, <2>1 DEF Hollow, Continues
    <2>3. r # g
      <3>1. CASE job.op = "apply"
        BY <1>2, <2>1, <2>2, <3>1 DEF Hollow
      <3>2. CASE job.op = "recover" /\ s = "committed"
        BY <1>1, <1>8, <2>2, <3>2 DEF JournalMoves, Positions, LiveIs, LostAt, Recovering, Outcomes
      <3>3. CASE job.op = "recover" /\ s # "committed"
        <4>1. reg = tx[g].prior /\ tx[g].prior < g
          BY <1>8, <2>1, <3>3 DEF JournalMoves, Recovering, Outcomes, Begun
        <4>2. \A h \in Gens : BegunTx(h) => tx[h].prior <= reg
          BY DEF Descent
        <4>3. \A h \in Gens : BegunTx(h) => tx[h].prior # g
          <5>1. g \in Nat
            BY <1>0, <2>1
          <5> HIDE DEF g
          <5>2. reg < g
            BY <4>1
          <5>3. ASSUME NEW h \in Gens, BegunTx(h) PROVE tx[h].prior # g
            <6>1. tx[h].prior \in Nat /\ tx[h].prior <= reg
              BY <1>0, <4>2, <5>3
            <6> QED BY <1>0, <5>1, <5>2, <6>1
          <5> QED BY <5>3
        <4>4. reg # g
          BY <1>0, <2>1, <4>1
        <4> QED BY <2>2, <4>3, <4>4 DEF Hollow
      <3> QED BY <2>1, <3>1, <3>2, <3>3
    <2> QED BY <1>4, <1>8, <2>1, <2>2, <2>3 DEF JournalMoves
  <1> QED
    BY StepShape, <1>3, <1>5, <1>6, <1>7, <1>8

\* No step makes a mixture of generations without an open transaction beside it.
LEMMA MixedStep ==
  ASSUME CutoverInv, Positions, Descent, HollowIsOpen, MixedIsOpen, [Next]_vars
  PROVE  MixedIsOpen'
  <1> USE DEF CutoverInv
  <1> DEFINE g == job.gen
  <1>0. /\ reg \in Nat /\ Gens \subseteq Nat \ {0}
        /\ job.op # "idle" => g \in Gens
        /\ \A h \in Gens : tx[h].prior \in 0..MaxGen
    BY MaxGenAssumption DEF TypeInv, Tx, Files, Gens
  \* What a recovery goes back to is of one generation, or another transaction is open.
  <1>1. ASSUME job.op = "recover", job.pc \in {"restore", "rolled-back"}
        PROVE  \/ \A c \in Consumers : tx[g].priors[c] = tx[g].prior
               \/ \E h \in Gens \ {g} : tx[h].journal = "applying"
    <2>1. g \in Gens /\ BegunTx(g) /\ tx[g].prior < g
      BY <1>0, <1>1 DEF Recovering, Begun, BegunTx
    <2>2. CASE tx[g].prior = 0
      BY <1>1, <2>2 DEF Positions
    <2>3. CASE tx[g].prior # 0
      <3>1. tx[g].prior \in Gens /\ tx[g].prior # g
        BY <1>0, <2>1, <2>3, MaxGenAssumption DEF Gens
      <3> QED BY <2>1, <3>1 DEF HollowIsOpen, Hollow
    <2> QED BY <2>2, <2>3
  <1>2. ASSUME NEW n \in Gens, StartApply(n) PROVE MixedIsOpen'
    <2>1. /\ reg' = reg /\ cons' = cons /\ job'.op = "apply" /\ job'.gen = n
          /\ tx[n].journal = "none"
          /\ tx'[n].prior = reg /\ tx'[n].priors = cons
          /\ \A h \in Gens \ {n} : tx'[h] = tx[h]
      BY <1>2 DEF StartApply, live, TypeInv
    <2>2. \A h \in Gens : Opened(h) => h # n /\ Opened(h)'
      BY <2>1 DEF Opened
    <2> QED BY <2>1, <2>2 DEF MixedIsOpen, LiveIs
  <1>3. ASSUME Continues, \A h \in Gens : tx'[h].journal = tx[h].journal,
               LiveIs(reg)' \/ \E h \in Gens : Opened(h)
        PROVE  MixedIsOpen'
    <2>1. \A h \in Gens : Opened(h)' <=> Opened(h)
      BY <1>3 DEF Opened
    <2> QED BY <1>0, <1>3, <2>1 DEF MixedIsOpen, Continues
  <1>4. ASSUME Continues, FilesStay PROVE MixedIsOpen'
    BY <1>3, <1>4 DEF FilesStay, MixedIsOpen, LiveIs
  <1>5. ASSUME Continues, FileReplaced PROVE MixedIsOpen'
    BY <1>0, <1>3, <1>5 DEF FileReplaced, Applying, Opened
  <1>6. ASSUME Continues, FileRestored PROVE MixedIsOpen'
    <2>1. tx' = tx /\ job.op \in {"apply", "recover"}
      BY <1>6 DEF FileRestored, TypeInv
    <2>2. CASE job.op = "apply"
      BY <1>0, <1>3, <1>6, <2>1, <2>2 DEF FileRestored, Applying, Opened
    <2>3. CASE job.op = "recover"
      <3>1. job.pc = "restore" /\ reg = tx[g].prior /\ reg' = reg
        BY <1>6, <2>3 DEF FileRestored, Recovering, Outcomes
      <3>2. CASE \E h \in Gens : Opened(h)
        BY <1>3, <1>6, <2>1, <3>2
      <3>3. CASE ~\E h \in Gens : Opened(h)
        <4>1. LiveIs(reg) /\ \A c \in Consumers : tx[g].priors[c] = reg
          BY <1>1, <2>3, <3>1, <3>3 DEF MixedIsOpen, Opened
        <4>2. LiveIs(reg)'
          BY <1>6, <3>1, <4>1 DEF FileRestored, LiveIs
        <4> QED BY <1>3, <1>6, <2>1, <4>2
      <3> QED BY <3>2, <3>3
    <2> QED BY <2>1, <2>2, <2>3
  <1>7. ASSUME NEW s \in Outcomes \cup {"prepared", "applying"}, Continues, JournalMoves(s)
        PROVE  MixedIsOpen'
    <2>1. /\ job.op \in {"apply", "recover"} /\ g \in Gens /\ reg' = reg /\ cons' = cons
          /\ job'.op = "apply" => job'.gen = g
          /\ tx'[g].journal = s
          /\ \A h \in Gens \ {g} : Opened(h)' <=> Opened(h)
          /\ tx'[g].prior = tx[g].prior /\ tx'[g].priors = tx[g].priors
      BY <1>0, <1>7 DEF JournalMoves, Continues, Opened
    <2>2. LiveIs(reg)' \/ \E h \in Gens : Opened(h)'
      <3>1. CASE s \in {"prepared", "applying"}
        BY <2>1, <3>1 DEF Opened
      <3>2. CASE s = "committed"
        <4>1. LiveIs(g) /\ reg = g
          BY <1>7, <3>2 DEF JournalMoves, Positions, LiveIs, Outcomes
        <4> QED BY <2>1, <4>1 DEF LiveIs
      <3>3. CASE s = "rolled-back"
        <4>1. Restored(g, 0) /\ reg = tx[g].prior
          BY <1>7, <2>1, <3>3 DEF JournalMoves, Positions, Applying, Recovering, Outcomes
        <4>2. \A c \in Consumers : cons[c] = tx[g].priors[c]
          BY <4>1 DEF Restored, Consumers
        <4>3. \/ \A c \in Consumers : tx[g].priors[c] = tx[g].prior
              \/ \E h \in Gens \ {g} : Opened(h)
          BY <1>1, <1>7, <2>1, <3>3 DEF JournalMoves, MixedIsOpen, Opened, Outcomes
        <4> QED BY <2>1, <4>1, <4>2, <4>3 DEF LiveIs
      <3> QED BY <3>1, <3>2, <3>3 DEF Outcomes
    <2>3. job'.op = "apply" =>
            \/ \A c \in Consumers : tx'[job'.gen].priors[c] = tx'[job'.gen].prior
            \/ \E h \in Gens \ {job'.gen} : Opened(h)'
      BY <1>7, <2>1 DEF MixedIsOpen, Continues
    <2> QED BY <2>2, <2>3 DEF MixedIsOpen
  <1> QED
    BY StepShape, <1>2, <1>4, <1>5, <1>6, <1>7

\* The files of a host without a registry are of one generation, 0.
LEMMA WholeInit == Init => WholeInv
  <1> SUFFICES ASSUME Init PROVE WholeInv
    OBVIOUS
  <1>1. 0 \notin Gens
    BY DEF Gens
  <1> QED
    BY <1>1, InvInit DEF Init, NoTx, Idle, WholeInv, Positions, Descent, HollowIsOpen, Hollow,
       MixedIsOpen, LiveIs, BegunTx

\* The conjunction of all of the above is an invariant of the specification.
LEMMA WholeInvariance == Spec => []WholeInv
  <1>1. WholeInv /\ [Next]_vars => WholeInv'
    BY InvStep, PositionsStep, DescentStep, HollowStep, MixedStep DEF WholeInv
  <1> QED BY WholeInit, <1>1, PTL DEF Spec

\* apply, recover: for any number of consumers and generations, when every
\* transaction that was begun has reached a final journal state, the live files
\* are whole: a registry with the consumers generated from it, or none at all.
THEOREM ResolvedFilesAreWhole == Spec => []ResolvedIsWhole
  <1>1. WholeInv => ResolvedIsWhole
    <2> SUFFICES ASSUME WholeInv, \A g \in Gens : Final(g) \/ tx[g].journal = "snapshot"
                 PROVE  LoadAccepts \/ LiveIs(0)
      BY DEF ResolvedIsWhole
    <2>1. \A g \in Gens : ~Opened(g)
      BY DEF Final, Opened, Outcomes
    <2>2. LiveIs(reg)
      BY <2>1 DEF WholeInv, MixedIsOpen
    <2> QED BY <2>2 DEF LoadAccepts, LiveIs
  <1> QED BY WholeInvariance, <1>1, PTL

-----------------------------------------------------------------------------
(***************************************************************************)
(* Publication: the groups of a plan, and what is there of each of them.   *)
(***************************************************************************)

\* Where the operations of each group start in the plan.
StartsAt(groups, at) ==
  /\ at \in [1..(Len(groups) + 1) -> Nat]
  /\ at[1] = 0
  /\ \A b \in 1..Len(groups) : at[b + 1] = at[b] + Len(groups[b])

\* Where the groups of a declaration start, and how many groups come before
\* its lock files, its locks, its files, and their release.
Start(d) == CHOOSE at : StartsAt(Groups(d), at)

Setup0(d) == Len(d.directories)
Lock0(d) == Setup0(d) + Len(NewLocks(d))
File0(d) == Lock0(d) + Len(d.locks)
Unlock0(d) == File0(d) + Len(Preserved(d))
End(d) == Unlock0(d) + Len(d.locks)

\* The groups of each kind.
DirGroups(d) == 1..Setup0(d)
SetupGroups(d) == (Setup0(d) + 1)..Lock0(d)
FileGroups(d) == (File0(d) + 1)..Unlock0(d)
Writing(d) == SetupGroups(d) \cup FileGroups(d)

\* The file that group b writes, a new lock file among them.
FileOf(d, b) ==
  IF b \in SetupGroups(d) THEN LockFile(NewLocks(d)[b - Setup0(d)])
  ELSE Preserved(d)[b - File0(d)]

\* The file system F, with the entries K that a power loss may leave, has e at
\* place q, for certain, or as long as its directory is not synchronised.
Settled(F, K, q, e) == F[q] = e /\ K[q] = {e}

Pending(F, K, q, e, m) == F[q] = e /\ K[q] = m

\* A group of which c operations are done: a new directory,
DirectoryAt(F, K, q, c) ==
  /\ c <= 0 => Settled(F, K, q, None)
  /\ c = 1 => Pending(F, K, q, Directory, {None, Directory})
  /\ c >= 2 => Settled(F, K, q, Directory)

\* A file that is written, synchronised or not.
Fresh(F, K, q, x, s) == Pending(F, K, q, File(x, s), {None, File(x, s)})

\* a file that is created,
CreationAt(F, K, f, c) ==
  /\ c <= 0 => Settled(F, K, f.path, None)
  /\ c = 1 => Fresh(F, K, f.path, f.candidate, FALSE)
  /\ c = 2 => Fresh(F, K, f.path, f.candidate, TRUE)
  /\ c >= 3 => Settled(F, K, f.path, File(f.candidate, TRUE))

\* A file that replaced another, as long as its directory is not synchronised.
Swapped(F, K, f) ==
  /\ Pending(F, K, f.temporary, None, {None, File(f.candidate, TRUE)})
  /\ Pending(F, K, f.path, File(f.candidate, TRUE),
             {File(f.previous, TRUE), File(f.candidate, TRUE)})

\* and one that is replaced.
ReplacementAt(F, K, f, c) ==
  /\ c <= 0 => Settled(F, K, f.temporary, None)
  /\ c = 1 => Fresh(F, K, f.temporary, f.candidate, FALSE)
  /\ c = 2 => Fresh(F, K, f.temporary, f.candidate, TRUE)
  /\ c <= 2 => Settled(F, K, f.path, File(f.previous, TRUE))
  /\ c = 3 => Swapped(F, K, f)
  /\ c >= 4 => /\ Settled(F, K, f.temporary, None)
               /\ Settled(F, K, f.path, File(f.candidate, TRUE))

FileAt(F, K, f, c) ==
  IF f.previous = None THEN CreationAt(F, K, f, c) ELSE ReplacementAt(F, K, f, c)

\* Group b of the plan of d is at its c-th operation.
GroupAt(F, K, d, b, c) ==
  /\ b \in DirGroups(d) => DirectoryAt(F, K, d.directories[b], c)
  /\ b \in Writing(d) => FileAt(F, K, FileOf(d, b), c)

\* What a run that stopped in a group may leave of its file.
Pieces(f) ==
  {None, File(f.candidate, TRUE), File(f.candidate, FALSE), File(Torn, TRUE), File(Torn, FALSE)}

Wholes(f) == {File(f.previous, TRUE), File(f.candidate, TRUE)}

CreationPartly(F, K, f) ==
  /\ F[f.path] \in Pieces(f)
  /\ K[f.path] \subseteq Pieces(f)
  /\ F[f.path] = None => K[f.path] = {None}

ReplacementPartly(F, K, f) ==
  /\ F[f.temporary] \in Pieces(f)
  /\ K[f.temporary] \subseteq Pieces(f)
  /\ F[f.path] \in Wholes(f)
  /\ K[f.path] \subseteq Wholes(f)

DirectoryPartly(F, K, q) ==
  /\ F[q] \in {None, Directory}
  /\ K[q] \subseteq {None, Directory}
  /\ F[q] = None => K[q] = {None}

\* Group b was stopped somewhere.
GroupPartly(F, K, d, b) ==
  /\ b \in DirGroups(d) => DirectoryPartly(F, K, d.directories[b])
  /\ b \in Writing(d) =>
       IF FileOf(d, b).previous = None THEN CreationPartly(F, K, FileOf(d, b))
       ELSE ReplacementPartly(F, K, FileOf(d, b))

\* What exists already, and no group writes.
Ground(F, K, d) ==
  /\ \A q \in Standing(d) : Settled(F, K, q, Directory)
  /\ \A i \in DOMAIN d.locks :
       d.locks[i].previous # None =>
         Settled(F, K, d.locks[i].path, File(d.locks[i].previous, TRUE))

\* Every group is at the stage that operation k of the plan expects.
InStep(F, K, d, k) ==
  \A b \in 1..End(d) : GroupAt(F, K, d, b, (k - 1) - Start(d)[b])

\* What a stopped run leaves: the groups before n complete, nothing of those
\* after n, and group n somewhere.
Retained(F, K, d, n) ==
  \A b \in 1..End(d) :
    /\ b < n => GroupAt(F, K, d, b, 4)
    /\ b > n => GroupAt(F, K, d, b, 0)
    /\ b = n => GroupPartly(F, K, d, b)

RetainedAny(F, K, d) == \E n \in 1..(End(d) + 1) : Retained(F, K, d, n)

\* The first group that writes, and what it writes.
First(d) == IF Lock0(d) > 0 THEN 1 ELSE File0(d) + 1

FirstPath(d) ==
  IF Setup0(d) > 0 THEN d.directories[1] ELSE FileOf(d, First(d)).path

\* A run over the remains of another: it is not past its first write.
Behind(F, K, d, k) ==
  /\ k <= Start(d)[First(d)] + 1
  /\ F[FirstPath(d)] # None
  /\ RetainedAny(F, K, d)

\* The locks held before operation k.
HeldAt(d, k) ==
  {d.locks[i].path : i \in
     {j \in DOMAIN d.locks : /\ Start(d)[Lock0(d) + j] + 1 < k
                             /\ k <= Start(d)[(End(d) + 1) - j] + 1}}

\* Whatever a run met, it is in step, or it retains a prefix of its groups.
StateInv ==
  /\ Ground(fs, kept, declared)
  /\ run = "done" => pc = Len(plan) + 1 /\ InStep(fs, kept, declared, pc)
  /\ run = "running" =>
       \/ InStep(fs, kept, declared, pc)
       \/ runs > 1 /\ Behind(fs, kept, declared, pc)
  /\ run = "stopped" => RetainedAny(fs, kept, declared)
  /\ held = IF run = "stopped" THEN {} ELSE HeldAt(declared, pc)

\* A declaration that is accepted and has a file system; the types of its plan.
Fit(d) == d \in Declarations /\ Accepted(d) /\ Consistent(d)

LockDeclarations == [path : Paths, previous : Bytes \cup {None}]

States == Bytes \cup {None, Directory}

OneChange == {Change(p, x, y) : p \in Places, x \in States, y \in States}

TwoChanges == {Over(g, h) : g \in OneChange, h \in OneChange}

Opcodes == {"mkdir", "create", "rename", "fsync", "lock", "unlock"}

Operations == {Operation(c, h) : c \in Opcodes, h \in OneChange \cup TwoChanges}

\* The operations of each kind of group.
DirectoryGroup(q) ==
  << Operation("mkdir", Change(q, None, Directory)), Sync(ParentOf[q], Directory) >>

LockBytes(lock) == IF lock.previous = None THEN Empty ELSE lock.previous

LockGroup(lock, opcode) ==
  << Operation(opcode, Change(lock.path, LockBytes(lock), LockBytes(lock))) >>

CreationGroup(f) ==
  << Operation("create", Change(f.path, None, f.candidate)),
     Sync(f.path, f.candidate), Sync(ParentOf[f.path], Directory) >>

RenameOf(f) ==
  Operation("rename", Over(Change(f.temporary, f.candidate, None),
                           Change(f.path, f.previous, f.candidate)))

ReplacementGroup(f) ==
  << Operation("create", Change(f.temporary, None, f.candidate)),
     Sync(f.temporary, f.candidate), RenameOf(f), Sync(ParentOf[f.path], Directory) >>

FileGroup(f) == IF f.previous = None THEN CreationGroup(f) ELSE ReplacementGroup(f)

\* The paths a group writes.
GroupNames(d, b) ==
  IF b \in DirGroups(d) THEN {d.directories[b]}
  ELSE IF b \in Writing(d) THEN Names(FileOf(d, b)) ELSE {}

Made(d, n) == {d.directories[i] : i \in {j \in DirGroups(d) : j < n}}

\* The number of operations of a group.
GroupSize(d, b) ==
  IF b \in DirGroups(d) THEN 2
  ELSE IF b \in Writing(d) THEN IF FileOf(d, b).previous = None THEN 3 ELSE 4
  ELSE 1

\* The groups before b are complete, b is at its c-th operation, and nothing
\* is there of the groups after it.
Prefix(F, K, d, b, c) ==
  \A e \in 1..End(d) :
    /\ e < b => GroupAt(F, K, d, e, 4)
    /\ e > b => GroupAt(F, K, d, e, 0)
    /\ e = b => GroupAt(F, K, d, e, c)

\* What the operations do to the file system F, with the entries K.
Wrote(F, K, F2, K2, p, x) ==
  /\ F2[p] = x /\ K2[p] = K[p] \cup {x}
  /\ \A q \in Places \ {p} : F2[q] = F[q] /\ K2[q] = K[q]

Renamed(F, K, F2, K2, w, p) ==
  /\ F2[w] = None /\ K2[w] = K[w] \cup {None}
  /\ F2[p] = F[w] /\ K2[p] = K[p] \cup {F[w]}
  /\ \A q \in Places \ {w, p} : F2[q] = F[q] /\ K2[q] = K[q]

SyncedFile(F, K, F2, K2, p) ==
  /\ F2[p] = File(F[p].bytes, TRUE)
  /\ K2[p] = (K[p] \ {F[p]}) \cup {File(F[p].bytes, TRUE)}
  /\ \A q \in Places \ {p} : F2[q] = F[q] /\ K2[q] = K[q]

SyncedDirectory(F, K, F2, K2, directory) ==
  \A q \in Places :
    /\ F2[q] = F[q]
    /\ K2[q] = IF q \in Paths /\ ParentOf[q] = directory THEN {F[q]} ELSE K[q]

\* Outside W nothing changes, except that a place may become certain.
Frame(F, K, F2, K2, W) ==
  \A q \in Places \ W : F2[q] = F[q] /\ (K2[q] = K[q] \/ K2[q] = {F[q]})

\* What the o-th operation of group b does.
DirectoryDone(F, K, F2, K2, q, o) ==
  /\ o = 1 => Wrote(F, K, F2, K2, q, Directory)
  /\ o = 2 => SyncedDirectory(F, K, F2, K2, ParentOf[q])

CreationDone(F, K, F2, K2, f, o) ==
  /\ o = 1 => Wrote(F, K, F2, K2, f.path, File(f.candidate, FALSE))
  /\ o = 2 => SyncedFile(F, K, F2, K2, f.path)
  /\ o = 3 => SyncedDirectory(F, K, F2, K2, ParentOf[f.path])

ReplacementDone(F, K, F2, K2, f, o) ==
  /\ o = 1 => Wrote(F, K, F2, K2, f.temporary, File(f.candidate, FALSE))
  /\ o = 2 => SyncedFile(F, K, F2, K2, f.temporary)
  /\ o = 3 => Renamed(F, K, F2, K2, f.temporary, f.path)
  /\ o = 4 => SyncedDirectory(F, K, F2, K2, ParentOf[f.path])

FileDone(F, K, F2, K2, f, o) ==
  IF f.previous = None THEN CreationDone(F, K, F2, K2, f, o)
  ELSE ReplacementDone(F, K, F2, K2, f, o)

Done(F, K, F2, K2, d, b, o) ==
  /\ b \in DirGroups(d) => DirectoryDone(F, K, F2, K2, d.directories[b], o)
  /\ b \in Writing(d) => FileDone(F, K, F2, K2, FileOf(d, b), o)
  /\ b \notin DirGroups(d) /\ b \notin Writing(d) => F2 = F /\ K2 = K

\* What is left of the entries S of a place.
RemainsOf(S) ==
  UNION {IF IsFile(entry) /\ ~ entry.synced
         THEN {File(entry.bytes, TRUE), File(Torn, TRUE)}
         ELSE {entry} : entry \in S}

Certain(entry) == ~ (IsFile(entry) /\ ~ entry.synced)

\* The power is lost: E is what was left at each place.
Lost(K, F2, K2, E) ==
  \A q \in Places :
    /\ E[q] \in RemainsOf(K[q])
    /\ F2[q] = IF q \in Paths /\ \E above \in Above[q] : E[above] # Directory
               THEN None ELSE E[q]
    /\ K2[q] = {F2[q]}

\* The operation finds in F what it expects.
ReadyIn(F, operation) ==
  \A path \in DOMAIN operation.changes :
    /\ State(F[path]) = operation.changes[path].before
    /\ path \in Paths => F[ParentOf[path]] = Directory

\* Lock i is held before operation k.
HeldBefore(d, i, k) ==
  Start(d)[Lock0(d) + i] + 1 < k /\ k <= Start(d)[(End(d) + 1) - i] + 1

\* The locks held after an operation before which those of H are.
HeldThen(operation, H) ==
  CASE operation.opcode = "lock" -> H \cup DOMAIN operation.changes
    [] operation.opcode = "unlock" -> H \ DOMAIN operation.changes
    [] OTHER -> H

Below == {ss \in Nat \X Nat : ss[1] < ss[2]}

\* A set of naturals that has a member has a least one.
LEMMA LeastNat ==
  ASSUME NEW T, T \subseteq Nat, T # {}
  PROVE  \E x \in T : \A y \in T : x <= y
  <1>1. IsWellFoundedOn(Below, Nat)
    BY NatLessThanWellFounded DEF Below, OpToRel
  <1>2. \E x \in T : \A y \in T : ~ (<<y, x>> \in Below)
    BY <1>1, WFMin
  <1>3. \A x, y \in Nat : y < x => <<y, x>> \in Below
    BY DEF Below
  <1>4. PICK x \in T : \A y \in T : ~ (<<y, x>> \in Below)
    BY <1>2
  <1>5. ASSUME NEW y \in T PROVE x <= y
    <2>1. x \in Nat /\ y \in Nat
      OBVIOUS
    <2>2. ~ (y < x)
      BY <1>3, <1>4, <2>1
    <2> QED BY <2>1, <2>2
  <1> QED BY <1>5

\* What holds of 0 and of every successor holds of every natural.
LEMMA AllNat ==
  ASSUME NEW T, T \subseteq Nat, 0 \in T, \A n \in T : n + 1 \in T
  PROVE  T = Nat
  <1> SUFFICES ASSUME Nat \ T # {} PROVE FALSE
    OBVIOUS
  <1>1. PICK x \in Nat \ T : \A y \in Nat \ T : x <= y
    BY LeastNat, Nat \ T \subseteq Nat
  <1>2. x # 0 /\ x - 1 \in Nat
    BY <1>1
  <1>3. x - 1 \in T
    BY <1>1, <1>2
  <1> QED BY <1>1, <1>2, <1>3

\* What holds of 0, and of a number when it holds of the one before, holds of
\* every number up to N.
LEMMA UpTo ==
  ASSUME NEW M \in Nat, NEW T, 0 \in T, \A n \in 1..M : n - 1 \in T => n \in T
  PROVE  0..M \subseteq T
  <1> DEFINE V == {n \in Nat : n <= M => n \in T}
  <1>1. 0 \in V
    OBVIOUS
  <1>2. ASSUME NEW n \in V PROVE n + 1 \in V
    <2>1. CASE n + 1 <= M
      <3>1. n + 1 \in 1..M /\ (n + 1) - 1 = n /\ n \in T
        BY <2>1
      <3> QED BY <3>1
    <2>2. CASE ~ (n + 1 <= M)
      BY <2>2
    <2> QED BY <2>1, <2>2
  <1> HIDE DEF V
  <1>3. V = Nat
    <2>1. V \subseteq Nat
      BY DEF V
    <2> QED BY <1>1, <1>2, <2>1, AllNat
  <1> QED BY <1>3 DEF V

\* The definitions of the library and of the compiler, as equalities.
LEMMA FlattenIs ==
  \A ss : FlattenSeq(ss) =
            IF Len(ss) = 0 THEN ss
            ELSE (CHOOSE f : f = [i \in 1..Len(ss) |->
                     IF i = 1 THEN ss[i] ELSE f[i - 1] \o ss[i]])[Len(ss)]
  BY DEF FlattenSeq

LEMMA ChangeIs ==
  \A p, x, y : Change(p, x, y) = [q \in {p} |-> [before |-> x, after |-> y]]
  BY DEF Change

LEMMA OverIs ==
  \A p, q, x, y, u, v : p # q =>
     LET c == Over(Change(p, x, y), Change(q, u, v))
     IN  /\ DOMAIN c = {p, q}
         /\ c[p] = [before |-> x, after |-> y]
         /\ c[q] = [before |-> u, after |-> v]
  BY DEF Change, Over

LEMMA ReverseIs ==
  \A s : Reverse(s) = [i \in 1..Len(s) |-> s[(Len(s) - i) + 1]]
  BY DEF Reverse

\* The recursive function of FlattenSeq exists.
LEMMA FlattenExists ==
  ASSUME NEW S, NEW ss \in Seq(Seq(S)), Len(ss) # 0
  PROVE  \E f : f = [i \in 1..Len(ss) |-> IF i = 1 THEN ss[i] ELSE f[i - 1] \o ss[i]]
  <1> DEFINE T == {n \in Nat : \E f \in [0..n -> Seq(S)] :
                     /\ f[0] = <<>>
                     /\ \A i \in 1..n : f[i] = f[i - 1] \o ss[i]}
  <1>1. 0 \in T
    <2> DEFINE f == [n \in 0..0 |-> <<>>]
    <2>1. f \in [0..0 -> Seq(S)] /\ f[0] = <<>> /\ \A i \in 1..0 : f[i] = f[i - 1] \o ss[i]
      OBVIOUS
    <2> HIDE DEF f
    <2> QED BY <2>1
  <1>2. ASSUME NEW n \in 1..Len(ss), n - 1 \in T PROVE n \in T
    <2>0. n \in Nat /\ n - 1 \in Nat /\ Len(ss) \in Nat
      OBVIOUS
    <2>1. PICK f \in [0..(n - 1) -> Seq(S)] :
             f[0] = <<>> /\ \A i \in 1..(n - 1) : f[i] = f[i - 1] \o ss[i]
      BY <1>2
    <2> DEFINE g == [i \in 0..n |-> IF i = n THEN f[n - 1] \o ss[n] ELSE f[i]]
    <2>2. f[n - 1] \in Seq(S) /\ ss[n] \in Seq(S)
      BY <2>0
    <2>3. f[n - 1] \o ss[n] \in Seq(S)
      BY <2>2
    <2>4. g \in [0..n -> Seq(S)]
      BY <2>0, <2>3
    <2>5. g[0] = <<>>
      BY <2>0, <2>1
    <2>6. ASSUME NEW i \in 1..n PROVE g[i] = g[i - 1] \o ss[i]
      <3>1. CASE i = n
        <4>0. n \in 0..n /\ n - 1 \in 0..n /\ n - 1 # n
          BY <2>0
        <4>1. g[n] = f[n - 1] \o ss[n] /\ g[n - 1] = f[n - 1]
          BY <4>0
        <4> HIDE DEF g
        <4> QED BY <3>1, <4>1
      <3>2. CASE i # n
        <4>1. i \in 1..(n - 1) /\ i \in 0..n /\ i - 1 \in 0..n /\ i - 1 # n
          BY <2>0, <3>2
        <4>2. g[i] = f[i] /\ g[i - 1] = f[i - 1]
          BY <3>2, <4>1
        <4> HIDE DEF g
        <4> QED BY <2>1, <4>1, <4>2
      <3> QED BY <3>1, <3>2
    <2> HIDE DEF g
    <2> QED BY <2>0, <2>4, <2>5, <2>6
  <1>3. Len(ss) \in Nat
    OBVIOUS
  <1>4. Len(ss) \in T
    <2> HIDE DEF T
    <2>1. 0..Len(ss) \subseteq T
      BY <1>1, <1>2, <1>3, UpTo
    <2> QED BY <1>3, <2>1
  <1>5. PICK h \in [0..Len(ss) -> Seq(S)] :
           h[0] = <<>> /\ \A i \in 1..Len(ss) : h[i] = h[i - 1] \o ss[i]
    BY <1>4
  <1> DEFINE f == [i \in 1..Len(ss) |-> h[i]]
  <1>6. ASSUME NEW i \in 1..Len(ss)
        PROVE  h[i] = IF i = 1 THEN ss[i] ELSE f[i - 1] \o ss[i]
    <2>1. CASE i = 1
      <3>1. h[i] = <<>> \o ss[i] /\ ss[i] \in Seq(S)
        <4>1. i - 1 = 0
          BY ONLY <2>1
        <4>2. h[0] = <<>> /\ h[i] = h[i - 1] \o ss[i]
          BY ONLY <1>5, i \in 1..Len(ss)
        <4>3. ss[i] \in Seq(S)
          OBVIOUS
        <4> QED BY ONLY <4>1, <4>2, <4>3
      <3>2. <<>> \o ss[i] = ss[i]
        BY <3>1, ConcatEmptySeq
      <3> QED BY <2>1, <3>1, <3>2
    <2>2. CASE i # 1
      <3>1. i - 1 \in 1..Len(ss)
        BY <2>2
      <3> QED BY <1>5, <2>2, <3>1
    <2> QED BY <2>1, <2>2
  <1>7. f = [i \in 1..Len(ss) |-> IF i = 1 THEN ss[i] ELSE f[i - 1] \o ss[i]]
    BY <1>6
  <1> HIDE DEF f
  <1> QED BY <1>7

\* The sequence up to each group.
LEMMA FlattenRuns ==
  ASSUME NEW S, NEW ss \in Seq(Seq(S))
  PROVE  \E h \in [0..Len(ss) -> Seq(S)] :
           /\ h[0] = <<>>
           /\ \A i \in 1..Len(ss) : h[i] = h[i - 1] \o ss[i]
           /\ FlattenSeq(ss) = h[Len(ss)]
  <1>0. Len(ss) \in Nat
    OBVIOUS
  <1>1. CASE Len(ss) = 0
    <2> DEFINE h == [n \in 0..0 |-> <<>>]
    <2>1. ss = <<>>
      BY <1>1, EmptySeq
    <2>2. FlattenSeq(ss) = <<>>
      BY <1>1, <2>1, FlattenIs
    <2>3. /\ h \in [0..Len(ss) -> Seq(S)]
          /\ h[0] = <<>>
          /\ \A i \in 1..Len(ss) : h[i] = h[i - 1] \o ss[i]
          /\ FlattenSeq(ss) = h[Len(ss)]
      BY <1>1, <2>2
    <2> HIDE DEF h
    <2> QED BY <2>3
  <1>2. CASE Len(ss) # 0
    <2> DEFINE f == CHOOSE f : f = [i \in 1..Len(ss) |->
                       IF i = 1 THEN ss[i] ELSE f[i - 1] \o ss[i]]
    <2>1. f = [i \in 1..Len(ss) |-> IF i = 1 THEN ss[i] ELSE f[i - 1] \o ss[i]]
      BY <1>2, FlattenExists
    <2>2. FlattenSeq(ss) = f[Len(ss)]
      BY <1>2, FlattenIs
    <2> HIDE DEF f
    <2> DEFINE h == [i \in 0..Len(ss) |-> IF i = 0 THEN <<>> ELSE f[i]]
    <2>3. ASSUME NEW i \in 1..Len(ss)
          PROVE  f[i] = IF i = 1 THEN ss[i] ELSE f[i - 1] \o ss[i]
      BY <2>1
    <2>4. h[0] = <<>>
      BY <1>0
    <2>5. ASSUME NEW i \in 1..Len(ss) PROVE h[i] = h[i - 1] \o ss[i]
      <3>1. i \in 0..Len(ss) /\ i # 0 /\ i - 1 \in 0..Len(ss) /\ ss[i] \in Seq(S)
        BY <1>0
      <3>2. h[i] = f[i]
        BY <3>1
      <3>3. CASE i = 1
        <4>1. h[i - 1] = <<>>
          BY <3>3, <2>4
        <4>2. <<>> \o ss[i] = ss[i]
          BY <3>1, ConcatEmptySeq
        <4> QED BY <2>3, <3>2, <3>3, <4>1, <4>2
      <3>4. CASE i # 1
        <4>1. i - 1 # 0
          BY <3>1, <3>4
        <4>2. h[i - 1] = f[i - 1]
          BY <3>1, <4>1
        <4> QED BY <2>3, <3>2, <3>4, <4>2
      <3> QED BY <3>3, <3>4
    <2>6. h[Len(ss)] = f[Len(ss)] /\ DOMAIN h = 0..Len(ss)
      BY <1>0, <1>2
    <2> HIDE DEF h
    <2> DEFINE T == {n \in Nat : h[n] \in Seq(S)}
    <2>7. 0 \in T
      <3>1. <<>> \in Seq(S)
        OBVIOUS
      <3> QED BY <2>4, <3>1
    <2>8. ASSUME NEW i \in 1..Len(ss), i - 1 \in T PROVE i \in T
      <3>1. ss[i] \in Seq(S)
        BY <1>0
      <3>2. h[i - 1] \o ss[i] \in Seq(S)
        BY <2>8, <3>1
      <3>3. h[i] \in Seq(S)
        BY <2>5, <3>2
      <3> QED BY <3>3
    <2>9. 0..Len(ss) \subseteq T
      <3> HIDE DEF T
      <3> QED BY <1>0, <2>7, <2>8, UpTo
    <2>10. h = [i \in 0..Len(ss) |-> h[i]]
      BY DEF h
    <2>11. h \in [0..Len(ss) -> Seq(S)]
      BY <2>9, <2>10
    <2> QED BY <2>2, <2>4, <2>5, <2>6, <2>11
  <1> QED BY <1>1, <1>2

\* The groups of a plan start somewhere,
LEMMA StartsExist ==
  ASSUME NEW S, NEW ss \in Seq(Seq(S))
  PROVE  \E at : StartsAt(ss, at)
  <1>1. PICK h \in [0..Len(ss) -> Seq(S)] :
           h[0] = <<>> /\ \A i \in 1..Len(ss) : h[i] = h[i - 1] \o ss[i]
    BY FlattenRuns
  <1>0. Len(ss) \in Nat
    OBVIOUS
  <1> DEFINE at == [b \in 1..(Len(ss) + 1) |-> Len(h[b - 1])]
  <1>2. ASSUME NEW b \in 1..(Len(ss) + 1) PROVE Len(h[b - 1]) \in Nat
    <2>1. b - 1 \in 0..Len(ss)
      BY <1>0
    <2>2. h[b - 1] \in Seq(S)
      BY <2>1
    <2> QED BY <2>2
  <1>3. at \in [1..(Len(ss) + 1) -> Nat]
    BY <1>2
  <1>4. at[1] = 0
    BY <1>0, <1>1
  <1>5. ASSUME NEW b \in 1..Len(ss) PROVE at[b + 1] = at[b] + Len(ss[b])
    <2>1. b \in 1..(Len(ss) + 1) /\ b + 1 \in 1..(Len(ss) + 1) /\ (b + 1) - 1 = b
          /\ b - 1 \in 0..Len(ss)
      BY <1>0
    <2>2. h[b - 1] \in Seq(S) /\ ss[b] \in Seq(S)
      BY <2>1, ElementOfSeq
    <2>3. Len(h[b - 1] \o ss[b]) = Len(h[b - 1]) + Len(ss[b])
      BY <2>2
    <2>4. at[b + 1] = Len(h[(b + 1) - 1]) /\ at[b] = Len(h[b - 1])
      <3>1. \A c \in 1..(Len(ss) + 1) : at[c] = Len(h[c - 1])
        OBVIOUS
      <3> HIDE DEF at
      <3> QED BY <2>1, <3>1
    <2> HIDE DEF at
    <2> QED BY <1>1, <2>1, <2>3, <2>4
  <1> HIDE DEF at
  <1>6. StartsAt(ss, at)
    BY <1>3, <1>4, <1>5 DEF StartsAt
  <1> QED BY <1>6

\* An operation of a group is in the plan where its group starts.
LEMMA FlattenAt ==
  ASSUME NEW S, NEW ss \in Seq(Seq(S)), NEW at, StartsAt(ss, at)
  PROVE  /\ FlattenSeq(ss) \in Seq(S)
         /\ Len(FlattenSeq(ss)) = at[Len(ss) + 1]
         /\ \A b \in 1..Len(ss) : \A o \in 1..Len(ss[b]) :
              FlattenSeq(ss)[at[b] + o] = ss[b][o]
  <1>1. PICK h \in [0..Len(ss) -> Seq(S)] :
           /\ h[0] = <<>> /\ \A i \in 1..Len(ss) : h[i] = h[i - 1] \o ss[i]
           /\ FlattenSeq(ss) = h[Len(ss)]
    BY FlattenRuns
  <1>0. Len(ss) \in Nat
    OBVIOUS
  <1>2. /\ at \in [1..(Len(ss) + 1) -> Nat] /\ at[1] = 0
        /\ \A b \in 1..Len(ss) : at[b + 1] = at[b] + Len(ss[b])
    BY DEF StartsAt
  <1> DEFINE Placed(n) == \A b \in 1..n : \A o \in 1..Len(ss[b]) : h[n][at[b] + o] = ss[b][o]
             Ends(n) == Len(h[n]) = at[n + 1]
             Within(n) == \A b \in 1..n : at[b] + Len(ss[b]) <= at[n + 1]
             T == {n \in Nat : Ends(n) /\ Within(n) /\ Placed(n)}
  <1>3. 0 \in T
    <2>1. Ends(0)
      BY <1>1, <1>2
    <2>2. Placed(0) /\ Within(0)
      OBVIOUS
    <2> QED BY <2>1, <2>2
  <1>4. ASSUME NEW n \in 1..Len(ss), n - 1 \in T PROVE n \in T
    <2>0. /\ n \in Nat /\ n - 1 \in 0..Len(ss) /\ n \in 0..Len(ss) /\ (n - 1) + 1 = n
          /\ n \in 1..(Len(ss) + 1) /\ n + 1 \in 1..(Len(ss) + 1)
      BY <1>0
    <2>1. h[n - 1] \in Seq(S) /\ ss[n] \in Seq(S) /\ at[n] \in Nat
      <3>1. h[n - 1] \in Seq(S)
        BY <2>0
      <3>2. ss[n] \in Seq(S)
        BY ElementOfSeq
      <3>3. at[n] \in Nat
        BY <1>2, <2>0
      <3> QED BY <3>1, <3>2, <3>3
    <2>2. h[n] = h[n - 1] \o ss[n]
      BY <1>1
    <2>3. Len(h[n - 1]) = at[n]
      BY <1>4, <2>0
    <2>4. Ends(n)
      <3>1. Len(h[n]) = Len(h[n - 1]) + Len(ss[n])
        BY <2>1, <2>2, ConcatProperties
      <3>2. at[n + 1] = at[n] + Len(ss[n])
        BY <1>2
      <3> QED BY <2>3, <3>1, <3>2
    <2>5. Within(n)
      <3>1. ASSUME NEW b \in 1..n PROVE at[b] + Len(ss[b]) <= at[n + 1]
        <4>0. at[n + 1] = at[n] + Len(ss[n]) /\ Len(ss[n]) \in Nat
          BY <1>2, <2>1
        <4>1. CASE b = n
          BY <4>0, <4>1, <2>1
        <4>2. CASE b # n
          <5>1. b \in 1..(n - 1) /\ b \in 1..Len(ss) /\ b \in 1..(Len(ss) + 1)
            BY <2>0, <4>2
          <5>2. at[b] + Len(ss[b]) <= at[n]
            BY <1>4, <2>0, <5>1
          <5>3. at[b] \in Nat /\ ss[b] \in Seq(S)
            BY <1>2, <5>1, ElementOfSeq
          <5>4. Len(ss[b]) \in Nat
            BY <5>3
          <5> QED BY <4>0, <5>2, <5>3, <5>4, <2>1
        <4> QED BY <4>1, <4>2
      <3> QED BY <3>1
    <2>6. Placed(n)
      <3>1. ASSUME NEW b \in 1..n, NEW o \in 1..Len(ss[b]) PROVE h[n][at[b] + o] = ss[b][o]
        <4>1. CASE b = n
          <5>1. at[n] + o \in (Len(h[n - 1]) + 1)..(Len(h[n - 1]) + Len(ss[n]))
            BY <2>1, <2>3, <4>1
          <5>0. /\ Len(h[n - 1] \o ss[n]) = Len(h[n - 1]) + Len(ss[n])
                /\ Len(h[n - 1]) \in Nat /\ Len(ss[n]) \in Nat
                /\ \A x \in 1..(Len(h[n - 1]) + Len(ss[n])) :
                     (h[n - 1] \o ss[n])[x] = IF x <= Len(h[n - 1]) THEN h[n - 1][x]
                                              ELSE ss[n][x - Len(h[n - 1])]
            BY <2>1, ConcatProperties, LenProperties
          <5>2. (h[n - 1] \o ss[n])[at[n] + o] = ss[n][(at[n] + o) - Len(h[n - 1])]
            <6>1. at[n] + o \in 1..(Len(h[n - 1]) + Len(ss[n])) /\ ~ (at[n] + o <= Len(h[n - 1]))
              <7>1. \A l, m \in Nat : \A x \in (l + 1)..(l + m) : x \in 1..(l + m) /\ ~ (x <= l)
                OBVIOUS
              <7> QED BY ONLY <5>0, <5>1, <7>1
            <6> QED BY <5>0, <6>1
          <5>3. (at[n] + o) - Len(h[n - 1]) = o
            BY <2>1, <2>3
          <5> QED BY <2>2, <4>1, <5>2, <5>3
        <4>2. CASE b # n
          <5>1. b \in 1..(n - 1) /\ b \in 1..Len(ss) /\ b \in 1..(Len(ss) + 1)
            BY <2>0, <4>2
          <5>2. at[b] + Len(ss[b]) <= at[n] /\ h[n - 1][at[b] + o] = ss[b][o]
            BY <1>4, <2>0, <5>1
          <5>3. at[b] \in Nat /\ ss[b] \in Seq(S)
            BY <1>2, <5>1, ElementOfSeq
          <5>4. Len(ss[b]) \in Nat
            BY <5>3
          <5>5. at[b] + o \in 1..Len(h[n - 1])
            <6>1. o \in 1..Len(ss[b]) /\ o \in Nat /\ at[n] \in Nat
              BY <2>1, <2>3
            <6>2. \A x, y, z, w \in Nat : y \in 1..z /\ x + z <= w => x + y \in 1..w
              OBVIOUS
            <6>3. at[b] + o \in 1..at[n]
              BY ONLY <5>2, <5>3, <5>4, <6>1, <6>2
            <6> QED BY ONLY <2>3, <6>3
          <5>6. (h[n - 1] \o ss[n])[at[b] + o] = h[n - 1][at[b] + o]
            <6>0. /\ Len(h[n - 1]) \in Nat /\ Len(ss[n]) \in Nat
                  /\ \A x \in 1..(Len(h[n - 1]) + Len(ss[n])) :
                       (h[n - 1] \o ss[n])[x] = IF x <= Len(h[n - 1]) THEN h[n - 1][x]
                                                ELSE ss[n][x - Len(h[n - 1])]
              BY <2>1, ConcatProperties, LenProperties
            <6>1. at[b] + o \in 1..(Len(h[n - 1]) + Len(ss[n])) /\ at[b] + o <= Len(h[n - 1])
              <7>1. Len(h[n - 1]) \in Nat /\ Len(ss[n]) \in Nat
                BY <2>1, LenProperties
              <7>2. \A l, m \in Nat : \A x \in 1..l : x \in 1..(l + m) /\ x <= l
                OBVIOUS
              <7> QED BY <5>5, <7>1, <7>2
            <6> QED BY <6>0, <6>1
          <5> QED BY <2>2, <5>2, <5>6
        <4> QED BY <4>1, <4>2
      <3> QED BY <3>1
    <2> HIDE DEF Ends, Within, Placed
    <2> QED BY <2>0, <2>4, <2>5, <2>6
  <1>5. Len(ss) \in T
    <2> HIDE DEF T
    <2>1. 0..Len(ss) \subseteq T
      BY <1>0, <1>3, <1>4, UpTo
    <2> QED BY <1>0, <2>1
  <1>6. h[Len(ss)] \in Seq(S)
    BY <1>0
  <1> QED BY <1>1, <1>5, <1>6

\* each where the one before it ends.
LEMMA StartsOrder ==
  ASSUME NEW S, NEW ss \in Seq(Seq(S)), NEW at, StartsAt(ss, at)
  PROVE  /\ \A b \in 1..(Len(ss) + 1) : at[b] \in Nat
         /\ \A b \in 1..Len(ss) : Len(ss[b]) \in Nat /\ at[b + 1] = at[b] + Len(ss[b])
         /\ \A b \in 1..Len(ss), c \in 1..(Len(ss) + 1) :
              b < c => at[b] + Len(ss[b]) <= at[c]
  <1>0. Len(ss) \in Nat
    OBVIOUS
  <1>1. /\ at \in [1..(Len(ss) + 1) -> Nat] /\ at[1] = 0
        /\ \A b \in 1..Len(ss) : at[b + 1] = at[b] + Len(ss[b])
    BY DEF StartsAt
  <1>2. ASSUME NEW b \in 1..Len(ss) PROVE Len(ss[b]) \in Nat
    <2>1. ss[b] \in Seq(S)
      OBVIOUS
    <2> QED BY <2>1
  <1>3. ASSUME NEW b \in 1..Len(ss), NEW c \in 1..(Len(ss) + 1), b < c
        PROVE  at[b] + Len(ss[b]) <= at[c]
    <2> DEFINE T == {n \in Nat : b < n => at[b] + Len(ss[b]) <= at[n]}
    <2>1. 0 \in T
      OBVIOUS
    <2>2. ASSUME NEW n \in 1..(Len(ss) + 1), n - 1 \in T PROVE n \in T
      <3>0. n \in Nat
        BY <1>0
      <3>1. CASE b < n - 1
        <4>1. n - 1 \in 1..Len(ss) /\ n - 1 \in 1..(Len(ss) + 1) /\ (n - 1) + 1 = n
              /\ b \in 1..(Len(ss) + 1)
          BY <1>0, <3>1
        <4>2. at[n] = at[n - 1] + Len(ss[n - 1]) /\ at[n - 1] \in Nat /\ Len(ss[n - 1]) \in Nat
              /\ at[b] \in Nat /\ Len(ss[b]) \in Nat
          BY <1>1, <1>2, <4>1
        <4>3. at[b] + Len(ss[b]) <= at[n - 1]
          BY <2>2, <3>1
        <4>4. at[b] + Len(ss[b]) <= at[n]
          BY <4>2, <4>3
        <4> QED BY <3>0, <4>4
      <3>2. CASE b = n - 1
        <4>1. n = b + 1
          BY <3>0, <3>2
        <4>2. at[n] = at[b] + Len(ss[b]) /\ at[b] \in Nat /\ Len(ss[b]) \in Nat
          <5>1. b \in 1..(Len(ss) + 1)
            BY <1>0
          <5> QED BY <1>1, <1>2, <4>1, <5>1
        <4> QED BY <3>0, <4>2
      <3>3. CASE ~ (b < n - 1) /\ b # n - 1
        <4>1. ~ (b < n)
          BY <1>0, <3>0, <3>3
        <4> QED BY <3>0, <4>1
      <3> QED BY <3>1, <3>2, <3>3
    <2>3. 0..(Len(ss) + 1) \subseteq T
      <3>1. Len(ss) + 1 \in Nat
        BY <1>0
      <3> HIDE DEF T
      <3> QED BY <3>1, <2>1, <2>2, UpTo
    <2>4. c \in T
      BY <1>0, <2>3
    <2> QED BY <1>3, <2>4
  <1> QED BY <1>1, <1>2, <1>3

\* Every operation of the plan is one of some group.
LEMMA Located ==
  ASSUME NEW S, NEW ss \in Seq(Seq(S)), NEW at, StartsAt(ss, at),
         NEW k \in 1..at[Len(ss) + 1]
  PROVE  \E b \in 1..Len(ss) : \E o \in 1..Len(ss[b]) : k = at[b] + o
  <1>0. Len(ss) \in Nat /\ \A b \in 1..(Len(ss) + 1) : at[b] \in Nat
    BY StartsOrder
  <1>1. at[1] = 0 /\ \A b \in 1..Len(ss) : Len(ss[b]) \in Nat /\ at[b + 1] = at[b] + Len(ss[b])
    BY StartsOrder DEF StartsAt
  <1>2. at[Len(ss) + 1] \in Nat
    BY <1>0
  <1> DEFINE T == {c \in 1..(Len(ss) + 1) : k <= at[c]}
  <1>3. Len(ss) + 1 \in T
    BY <1>0, <1>2
  <1>4. PICK c \in T : \A x \in T : c <= x
    <2>1. T \subseteq Nat /\ T # {}
      BY <1>0, <1>3
    <2> HIDE DEF T
    <2> QED BY <2>1, LeastNat
  <1>5. c # 1
    BY <1>1, <1>2
  <1>6. c - 1 \in 1..Len(ss) /\ (c - 1) + 1 = c /\ c \in Nat /\ c - 1 \in 1..(Len(ss) + 1)
    BY <1>0, <1>5
  <1>7. c - 1 \notin T
    BY <1>4, <1>6
  <1>8. at[c - 1] < k /\ k <= at[c - 1] + Len(ss[c - 1])
    <2>1. at[c - 1] \in Nat /\ k \in Nat
      BY <1>0, <1>2, <1>6
    <2>2. ~ (k <= at[c - 1])
      BY <1>6, <1>7
    <2>3. at[c] = at[c - 1] + Len(ss[c - 1])
      BY <1>1, <1>6
    <2> QED BY <2>1, <2>2, <2>3
  <1>9. k - at[c - 1] \in 1..Len(ss[c - 1]) /\ k = at[c - 1] + (k - at[c - 1])
    <2>1. at[c - 1] \in Nat /\ k \in Nat /\ Len(ss[c - 1]) \in Nat
      BY <1>0, <1>1, <1>2, <1>6
    <2> QED BY <1>8, <2>1
  <1> QED BY <1>6, <1>9

\* What is selected are the elements at the positions, each one once.
LEMMA SelectedAt ==
  ASSUME NEW S, NEW seq \in Seq(S), NEW P
  PROVE  /\ Selected(seq, P) \in Seq(S)
         /\ \E from \in [1..Len(Selected(seq, P)) -> 1..Len(seq)] :
              /\ \A x \in 1..Len(Selected(seq, P)) :
                   from[x] \in P /\ Selected(seq, P)[x] = seq[from[x]]
              /\ \A x, y \in 1..Len(Selected(seq, P)) : from[x] = from[y] => x = y
              /\ \A i \in 1..Len(seq) : i \in P =>
                   \E x \in 1..Len(Selected(seq, P)) : from[x] = i
  <1> DEFINE ss == [i \in DOMAIN seq |-> IF i \in P THEN <<seq[i]>> ELSE <<>>]
             out == Selected(seq, P)
  <1>0. DOMAIN seq = 1..Len(seq) /\ Len(seq) \in Nat
    BY LenProperties
  <1>1. ASSUME NEW i \in 1..Len(seq) PROVE (IF i \in P THEN <<seq[i]>> ELSE <<>>) \in Seq(S)
    <2>1. seq[i] \in S
      BY ElementOfSeq
    <2> QED BY <2>1
  <1>2. ss \in Seq(Seq(S))
    <2>1. ss \in [1..Len(seq) -> Seq(S)]
      BY <1>0, <1>1
    <2> HIDE DEF ss
    <2> QED BY <1>0, <2>1, IsASeq
  <1>3. Len(ss) = Len(seq)
    BY <1>0, <1>2, LenProperties
  <1>4. \A i \in 1..Len(seq) : /\ i \in P => Len(ss[i]) = 1 /\ ss[i][1] = seq[i]
                               /\ i \notin P => Len(ss[i]) = 0
    BY <1>0
  <1>5. out = FlattenSeq(ss)
    BY DEF Selected
  <1> HIDE DEF ss
  <1>6. PICK at : StartsAt(ss, at)
    BY <1>2, StartsExist
  <1>7. /\ out \in Seq(S)
        /\ Len(out) = at[Len(ss) + 1]
        /\ \A b \in 1..Len(ss) : \A o \in 1..Len(ss[b]) : out[at[b] + o] = ss[b][o]
    BY <1>2, <1>5, <1>6, FlattenAt
  <1>8. Len(out) \in Nat /\ DOMAIN out = 1..Len(out)
    BY <1>7, LenProperties
  <1> HIDE DEF out
  <1>9. /\ \A b \in 1..(Len(ss) + 1) : at[b] \in Nat
        /\ \A b \in 1..Len(ss) : Len(ss[b]) \in Nat /\ at[b + 1] = at[b] + Len(ss[b])
        /\ \A b \in 1..Len(ss), c \in 1..(Len(ss) + 1) : b < c => at[b] + Len(ss[b]) <= at[c]
    BY <1>2, <1>6, StartsOrder
  <1>10. ASSUME NEW x \in 1..Len(out)
         PROVE  \E b \in 1..Len(seq) : b \in P /\ x = at[b] + 1 /\ out[x] = seq[b]
    <2>0. x \in 1..at[Len(ss) + 1]
      BY <1>7
    <2>1. PICK b \in 1..Len(ss) : \E o \in 1..Len(ss[b]) : x = at[b] + o
      BY ONLY <1>2, <1>6, <2>0, Located
    <2>2. PICK o \in 1..Len(ss[b]) : x = at[b] + o
      BY <2>1
    <2>3. b \in 1..Len(seq)
      BY <1>3
    <2>4. b \in P
      BY <1>4, <2>3
    <2>5. o = 1
      <3>1. Len(ss[b]) = 1
        BY <1>4, <2>3, <2>4
      <3>2. o \in 1..1
        BY <3>1
      <3> QED BY <3>2
    <2>6. 1 \in 1..Len(ss[b])
      BY <2>5
    <2>7. out[at[b] + 1] = ss[b][1]
      BY <1>7, <2>6
    <2> QED BY <1>4, <2>2, <2>3, <2>4, <2>5, <2>7
  <1>11. ASSUME NEW i \in 1..Len(seq), i \in P
         PROVE  at[i] + 1 \in 1..Len(out)
    <2>1. i \in 1..Len(ss) /\ i \in 1..(Len(ss) + 1) /\ Len(ss) + 1 \in 1..(Len(ss) + 1) /\ i < Len(ss) + 1
      BY <1>0, <1>3
    <2>2. Len(ss[i]) = 1
      BY <1>4, <1>11
    <2>3. at[i] + Len(ss[i]) <= at[Len(ss) + 1] /\ at[i] \in Nat
      BY <1>9, <2>1
    <2> QED BY <1>7, <1>8, <2>2, <2>3
  <1> DEFINE from == [x \in 1..Len(out) |->
                        CHOOSE b \in 1..Len(seq) : b \in P /\ x = at[b] + 1 /\ out[x] = seq[b]]
  <1>12. ASSUME NEW x \in 1..Len(out)
         PROVE  /\ from[x] \in 1..Len(seq) /\ from[x] \in P
                /\ x = at[from[x]] + 1 /\ out[x] = seq[from[x]]
    BY <1>10
  <1>13. from \in [1..Len(out) -> 1..Len(seq)]
    BY <1>12
  <1> HIDE DEF from
  <1>14. ASSUME NEW i \in 1..Len(seq), i \in P
         PROVE  \E x \in 1..Len(out) : from[x] = i
    <2> DEFINE x == at[i] + 1
    <2>1. x \in 1..Len(out)
      BY <1>11, <1>14
    <2>2. from[x] \in 1..Len(seq) /\ from[x] \in P /\ x = at[from[x]] + 1
      BY <1>12, <2>1
    <2>3. ASSUME NEW b \in 1..Len(seq), NEW c \in 1..Len(seq), b \in P, b < c
          PROVE  at[b] # at[c]
      <3>1. b \in 1..Len(ss) /\ c \in 1..(Len(ss) + 1) /\ b \in 1..(Len(ss) + 1)
        BY <1>0, <1>3
      <3>2. at[b] + Len(ss[b]) <= at[c] /\ at[b] \in Nat /\ at[c] \in Nat /\ Len(ss[b]) = 1
        BY <1>4, <1>9, <2>3, <3>1
      <3> QED BY <3>2
    <2>4. at[from[x]] = at[i]
      <3>1. i \in 1..(Len(ss) + 1) /\ from[x] \in 1..(Len(ss) + 1)
        BY <1>0, <1>3, <2>2
      <3>2. at[i] \in Nat /\ at[from[x]] \in Nat
        BY <1>9, <3>1
      <3> QED BY <2>2, <3>2
    <2>5. from[x] = i
      <3>1. ~ (from[x] < i) /\ ~ (i < from[x])
        BY <2>2, <2>3, <2>4, <1>14
      <3> QED BY <1>0, <2>2, <3>1
    <2> QED BY <2>1, <2>5
  <1>15. ASSUME NEW x \in 1..Len(out), NEW y \in 1..Len(out), from[x] = from[y]
         PROVE  x = y
    BY <1>12, <1>15
  <1>16. /\ \A x \in 1..Len(out) : from[x] \in P /\ out[x] = seq[from[x]]
         /\ \A x, y \in 1..Len(out) : from[x] = from[y] => x = y
         /\ \A i \in 1..Len(seq) : i \in P => \E x \in 1..Len(out) : from[x] = i
    BY <1>12, <1>14, <1>15
  <1> QED BY <1>7, <1>13, <1>16 DEF out

\* Two sequences one after the other.
LEMMA ConcatAt ==
  ASSUME NEW S, NEW s \in Seq(S), NEW t \in Seq(S)
  PROVE  /\ s \o t \in Seq(S) /\ Len(s \o t) = Len(s) + Len(t)
         /\ \A i \in 1..Len(s) : (s \o t)[i] = s[i]
         /\ \A i \in 1..Len(t) : (s \o t)[Len(s) + i] = t[i]
  <1>1. /\ s \o t \in Seq(S) /\ Len(s \o t) = Len(s) + Len(t)
        /\ \A i \in 1..(Len(s) + Len(t)) :
             (s \o t)[i] = IF i <= Len(s) THEN s[i] ELSE t[i - Len(s)]
    BY ConcatProperties
  <1>2. Len(s) \in Nat /\ Len(t) \in Nat
    BY LenProperties
  <1>3. ASSUME NEW i \in 1..Len(s) PROVE (s \o t)[i] = s[i]
    <2>1. i \in 1..(Len(s) + Len(t)) /\ i <= Len(s)
      BY <1>2
    <2> QED BY <1>1, <2>1
  <1>4. ASSUME NEW i \in 1..Len(t) PROVE (s \o t)[Len(s) + i] = t[i]
    <2>1. /\ Len(s) + i \in 1..(Len(s) + Len(t)) /\ ~ (Len(s) + i <= Len(s))
          /\ (Len(s) + i) - Len(s) = i
      BY <1>2
    <2> QED BY <1>1, <2>1
  <1> QED BY <1>1, <1>3, <1>4

\* Paths, bytes, directories and nothing are told apart.
LEMMA PathFacts ==
  /\ Paths \subseteq Places
  /\ \A p \in Paths : ParentOf[p] \in Places
  /\ None \notin Paths /\ None # Directory
  /\ \A x \in Bytes : x # None /\ x # Directory
  /\ Empty \in Bytes /\ Torn \in Bytes
  /\ \A x \in Bytes, s \in BOOLEAN : File(x, s) # None /\ File(x, s) # Directory
  BY StatesAssumption, FilesAssumption DEF Paths, Places

\* What the records are made of.
LEMMA FileValues ==
  \A x, s : File(x, s).bytes = x /\ File(x, s).synced = s
  BY DEF File

LEMMA OperationValues ==
  \A c, h : Operation(c, h).opcode = c /\ Operation(c, h).changes = h
  BY DEF Operation

LEMMA CreationValues ==
  \A p, x : /\ Creation(p, x).path = p /\ Creation(p, x).previous = None
            /\ Creation(p, x).candidate = x /\ Creation(p, x).temporary = None
  BY DEF Creation

\* A lock is created as a file with its bytes.
LEMMA LockFileValues ==
  ASSUME NEW lock \in LockDeclarations
  PROVE  /\ LockFile(lock) = Creation(lock.path, LockBytes(lock))
         /\ LockFile(lock) \in FileDeclarations
         /\ LockBytes(lock) \in Bytes
         /\ lock.path \in Paths
         /\ lock.previous = None \/ lock.previous \in Bytes
  <1>1. LockBytes(lock) \in Bytes /\ lock.path \in Paths /\ (lock.previous = None \/ lock.previous \in Bytes)
    BY PathFacts DEF LockDeclarations, LockBytes
  <1>2. LockFile(lock) = Creation(lock.path, LockBytes(lock))
    BY DEF LockFile, LockBytes
  <1>3. Creation(lock.path, LockBytes(lock)) \in FileDeclarations
    BY <1>1 DEF Creation, FileDeclarations
  <1> QED BY <1>1, <1>2, <1>3

\* The sequences a declaration consists of.
LEMMA DeclarationTypes ==
  ASSUME NEW d, Fit(d)
  PROVE  /\ d.files \in Seq(FileDeclarations) /\ d.directories \in Seq(Paths)
         /\ d.locks \in Seq(LockDeclarations)
         /\ Replaced(d) \in Seq(FileDeclarations) /\ NewLocks(d) \in Seq(LockDeclarations)
         /\ Ordered(d) \in Seq(FileDeclarations) /\ Len(Ordered(d)) = Len(Replaced(d))
         /\ \A x \in 1..Len(Replaced(d)) :
              /\ Ordered(d)[x] = d.snapshots[Replaced(d)[x].path]
              /\ Ordered(d)[x] = Creation(Ordered(d)[x].path, Replaced(d)[x].previous)
         /\ Preserved(d) \in Seq(FileDeclarations)
         /\ Declared(d) \in Seq(FileDeclarations)
  <1>1. /\ d.files \in Seq(FileDeclarations) /\ d.directories \in Seq(Paths)
        /\ d.locks \in Seq(LockDeclarations)
        /\ \A path \in DOMAIN d.snapshots : d.snapshots[path] \in FileDeclarations
    BY DeclarationsAssumption DEF Fit, LockDeclarations
  <1>2. Replaced(d) \in Seq(FileDeclarations)
    BY <1>1, SelectedAt DEF Replaced
  <1>3. NewLocks(d) \in Seq(LockDeclarations)
    BY <1>1, SelectedAt DEF NewLocks
  <1>4. ASSUME NEW x \in 1..Len(Replaced(d))
        PROVE  /\ Replaced(d)[x].path \in DOMAIN d.snapshots
               /\ d.snapshots[Replaced(d)[x].path]
                    = Creation(d.snapshots[Replaced(d)[x].path].path, Replaced(d)[x].previous)
    <2>1. Replaced(d)[x] \in ToSet(Replaced(d))
      BY <1>2 DEF ToSet
    <2>2. SnapshotsFit(d)
      BY DEF Fit, Accepted
    <2> QED BY <2>1, <2>2 DEF SnapshotsFit
  <1>5. DOMAIN Replaced(d) = 1..Len(Replaced(d)) /\ Len(Replaced(d)) \in Nat
    BY <1>2, LenProperties
  <1>6. Ordered(d) \in [1..Len(Replaced(d)) -> FileDeclarations]
    BY <1>1, <1>4, <1>5 DEF Ordered
  <1>7. Ordered(d) \in Seq(FileDeclarations) /\ Len(Ordered(d)) = Len(Replaced(d))
    BY <1>5, <1>6, IsASeq, LenProperties
  <1>8. ASSUME NEW x \in 1..Len(Replaced(d))
        PROVE  /\ Ordered(d)[x] = d.snapshots[Replaced(d)[x].path]
               /\ Ordered(d)[x] = Creation(Ordered(d)[x].path, Replaced(d)[x].previous)
    <2>1. Ordered(d)[x] = d.snapshots[Replaced(d)[x].path]
      BY <1>5 DEF Ordered
    <2> QED BY <1>4, <2>1
  <1>9. Preserved(d) \in Seq(FileDeclarations)
    BY <1>1, <1>7, ConcatAt DEF Preserved
  <1> DEFINE ls == [i \in DOMAIN d.locks |-> LockFile(d.locks[i])]
  <1>10. ls \in Seq(FileDeclarations)
    <2>1. DOMAIN d.locks = 1..Len(d.locks) /\ Len(d.locks) \in Nat
      BY <1>1, LenProperties
    <2>2. ASSUME NEW i \in 1..Len(d.locks) PROVE LockFile(d.locks[i]) \in FileDeclarations
      <3>1. d.locks[i] \in LockDeclarations
        BY <1>1, ElementOfSeq
      <3> QED BY <3>1, LockFileValues
    <2>3. ls \in [1..Len(d.locks) -> FileDeclarations]
      BY <2>1, <2>2
    <2> HIDE DEF ls
    <2> QED BY <2>1, <2>3, IsASeq
  <1>11. Declared(d) = Preserved(d) \o ls
    BY DEF Declared
  <1>12. Declared(d) \in Seq(FileDeclarations)
    <2> HIDE DEF ls
    <2> QED BY <1>9, <1>10, <1>11, ConcatAt
  <1> QED BY <1>1, <1>2, <1>3, <1>7, <1>8, <1>9, <1>12

\* Short sequences are joined.
LEMMA TwoAndOne == \A a, b, c : << a, b >> \o << c >> = << a, b, c >>
  <1> SUFFICES ASSUME NEW a, NEW b, NEW c PROVE << a, b >> \o << c >> = << a, b, c >>
    OBVIOUS
  <1> DEFINE S == {a, b, c}
             s == << a, b >>
             t == << c >>
  <1>1. s \in Seq(S) /\ t \in Seq(S) /\ << a, b, c >> \in Seq(S)
    OBVIOUS
  <1>2. Len(s) = 2 /\ Len(t) = 1 /\ Len(<< a, b, c >>) = 3
    OBVIOUS
  <1>3. /\ s \o t \in Seq(S) /\ Len(s \o t) = Len(s) + Len(t)
        /\ \A i \in 1..(Len(s) + Len(t)) :
             (s \o t)[i] = IF i <= Len(s) THEN s[i] ELSE t[i - Len(s)]
    <2> HIDE DEF s, t, S
    <2> QED BY <1>1, ConcatProperties
  <1>4. s[1] = a /\ s[2] = b /\ t[1] = c
    OBVIOUS
  <1>5. \A i \in 1..3 : (s \o t)[i] = << a, b, c >>[i]
    <2>1. 1..3 = {1, 2, 3}
      OBVIOUS
    <2>2. << a, b, c >>[1] = a /\ << a, b, c >>[2] = b /\ << a, b, c >>[3] = c
      OBVIOUS
    <2> HIDE DEF s, t
    <2>3. (s \o t)[1] = s[1] /\ (s \o t)[2] = s[2] /\ (s \o t)[3] = t[1]
      BY <1>2, <1>3
    <2> QED BY <1>4, <2>1, <2>2, <2>3
  <1>6. Len(s \o t) = 3
    <2> HIDE DEF s, t
    <2> QED BY <1>2, <1>3
  <1> DEFINE u == << a, b, c >>
  <1>7. u \in Seq(S) /\ Len(u) = 3
    BY <1>1, <1>2
  <1>8. \A i \in 1..3 : (s \o t)[i] = u[i]
    BY <1>5
  <1> HIDE DEF s, t, u, S
  <1>9. s \o t = u
    BY <1>3, <1>6, <1>7, <1>8, SeqEqual
  <1> QED BY <1>9 DEF s, t, u

LEMMA ThreeAndFour ==
  /\ \A a, b, c : << a, b >> \o <<>> \o << c >> = << a, b, c >>
  /\ \A a, b, c, e : << a, b >> \o << c >> \o << e >> = << a, b, c, e >>
  <1>1. ASSUME NEW a, NEW b, NEW c PROVE << a, b >> \o <<>> \o << c >> = << a, b, c >>
    <2>1. << a, b >> \in Seq({a, b})
      OBVIOUS
    <2>2. << a, b >> \o <<>> = << a, b >>
      BY <2>1, ConcatEmptySeq
    <2> QED BY <2>2, TwoAndOne
  <1>2. ASSUME NEW a, NEW b, NEW c, NEW e
        PROVE  << a, b >> \o << c >> \o << e >> = << a, b, c, e >>
    <2>1. << a, b >> \o << c >> = << a, b, c >>
      BY TwoAndOne
    <2>2. << a, b, c >> \o << e >> = << a, b, c, e >>
      <3> DEFINE S == {a, b, c, e}
                 s == << a, b, c >>
                 t == << e >>
                 u == << a, b, c, e >>
      <3>1. /\ s \in Seq(S) /\ t \in Seq(S) /\ u \in Seq(S)
            /\ Len(s) = 3 /\ Len(t) = 1 /\ Len(u) = 4
        OBVIOUS
      <3>2. /\ s[1] = a /\ s[2] = b /\ s[3] = c /\ t[1] = e
            /\ u[1] = a /\ u[2] = b /\ u[3] = c /\ u[4] = e
        OBVIOUS
      <3>3. 1..4 = {1, 2, 3, 4}
        OBVIOUS
      <3> HIDE DEF s, t, u, S
      <3>4. /\ s \o t \in Seq(S) /\ Len(s \o t) = Len(s) + Len(t)
            /\ \A i \in 1..(Len(s) + Len(t)) :
                 (s \o t)[i] = IF i <= Len(s) THEN s[i] ELSE t[i - Len(s)]
        BY <3>1, ConcatProperties
      <3>5. Len(s \o t) = 4
        BY <3>1, <3>4
      <3>6. (s \o t)[1] = s[1] /\ (s \o t)[2] = s[2] /\ (s \o t)[3] = s[3] /\ (s \o t)[4] = t[1]
        BY <3>1, <3>4
      <3>7. \A i \in 1..4 : (s \o t)[i] = u[i]
        BY <3>2, <3>3, <3>6
      <3>8. s \o t = u
        BY <3>1, <3>4, <3>5, <3>7, SeqEqual
      <3> QED BY <3>8 DEF s, t, u
    <2> QED BY <2>1, <2>2
  <1> QED BY <1>1, <1>2

\* The effects of a file are those of its creation or of its replacement.
LEMMA FileEffectsIs == \A f : FileEffects(f) = FileGroup(f)
  <1> SUFFICES ASSUME NEW f PROVE FileEffects(f) = FileGroup(f)
    OBVIOUS
  <1>1. CASE f.previous = None
    BY <1>1, ThreeAndFour DEF FileEffects, FileGroup, CreationGroup
  <1>2. CASE f.previous # None
    BY <1>2, ThreeAndFour DEF FileEffects, FileGroup, ReplacementGroup, RenameOf
  <1> QED BY <1>1, <1>2

\* What the compiler builds are operations,
LEMMA OperationsHave ==
  ASSUME NEW c \in Opcodes, NEW p \in Places, NEW x \in States, NEW y \in States,
         NEW q \in Places, NEW u \in States, NEW v \in States
  PROVE  /\ Operation(c, Change(p, x, y)) \in Operations
         /\ Sync(p, x) \in Operations
         /\ Operation(c, Over(Change(p, x, y), Change(q, u, v))) \in Operations
  <1>1. /\ Change(p, x, y) \in OneChange /\ Change(p, x, x) \in OneChange
        /\ Change(q, u, v) \in OneChange
    BY DEF OneChange
  <1>2. Over(Change(p, x, y), Change(q, u, v)) \in TwoChanges
    BY <1>1 DEF TwoChanges
  <1>3. \A h \in OneChange \cup TwoChanges : \A o \in Opcodes : Operation(o, h) \in Operations
    BY DEF Operations
  <1>4. "fsync" \in Opcodes
    BY DEF Opcodes
  <1> QED BY <1>1, <1>2, <1>3, <1>4 DEF Sync

\* two for a directory,
LEMMA DirectoryGroupType ==
  ASSUME NEW q \in Paths
  PROVE  DirectoryGroup(q) \in Seq(Operations) /\ Len(DirectoryGroup(q)) = 2
  <1>1. q \in Places /\ ParentOf[q] \in Places /\ None \in States /\ Directory \in States
    BY PathFacts DEF States
  <1>2. /\ Operation("mkdir", Change(q, None, Directory)) \in Operations
        /\ Sync(ParentOf[q], Directory) \in Operations
    BY <1>1, OperationsHave DEF Opcodes
  <1> QED BY <1>2 DEF DirectoryGroup

\* The parts of a declared file that passed the check of its temporary.
LEMMA FileTypes ==
  ASSUME NEW f \in FileDeclarations, TemporaryFits(f)
  PROVE  /\ f.path \in Paths /\ f.candidate \in Bytes
         /\ f.previous = None => f.temporary = None
         /\ f.previous # None => /\ f.previous \in Bytes
                                 /\ f.temporary \in Paths /\ f.temporary # f.path
                                 /\ ParentOf[f.temporary] = ParentOf[f.path]
  BY DEF FileDeclarations, TemporaryFits

\* three for a new file, four for a replacement,
LEMMA FileGroupType ==
  ASSUME NEW f \in FileDeclarations, TemporaryFits(f)
  PROVE  /\ FileGroup(f) \in Seq(Operations)
         /\ Len(FileGroup(f)) = IF f.previous = None THEN 3 ELSE 4
  <1>1. /\ f.path \in Places /\ ParentOf[f.path] \in Places /\ None \in States
        /\ Directory \in States /\ f.candidate \in States
    BY FileTypes, PathFacts DEF States
  <1>2. CASE f.previous = None
    <2>1. /\ Operation("create", Change(f.path, None, f.candidate)) \in Operations
          /\ Sync(f.path, f.candidate) \in Operations
          /\ Sync(ParentOf[f.path], Directory) \in Operations
      BY <1>1, OperationsHave DEF Opcodes
    <2> QED BY <1>2, <2>1 DEF FileGroup, CreationGroup
  <1>3. CASE f.previous # None
    <2>1. f.temporary \in Places /\ f.previous \in States
      BY <1>3, FileTypes, PathFacts DEF States
    <2>2. /\ Operation("create", Change(f.temporary, None, f.candidate)) \in Operations
          /\ Sync(f.temporary, f.candidate) \in Operations
          /\ Sync(ParentOf[f.path], Directory) \in Operations
      BY <1>1, <2>1, OperationsHave DEF Opcodes
    <2>3. RenameOf(f) \in Operations
      BY <1>1, <2>1, OperationsHave DEF RenameOf, Opcodes
    <2> QED BY <1>3, <2>2, <2>3 DEF FileGroup, ReplacementGroup
  <1> QED BY <1>2, <1>3

\* and one for a lock or its release.
LEMMA LockGroupType ==
  ASSUME NEW lock \in LockDeclarations, NEW c \in Opcodes
  PROVE  LockGroup(lock, c) \in Seq(Operations) /\ Len(LockGroup(lock, c)) = 1
  <1>1. lock.path \in Places /\ LockBytes(lock) \in States
    BY LockFileValues, PathFacts DEF States
  <1>2. Operation(c, Change(lock.path, LockBytes(lock), LockBytes(lock))) \in Operations
    BY <1>1, OperationsHave DEF Opcodes
  <1> QED BY <1>2 DEF LockGroup

\* Which file each writing group is about.
LEMMA Sizes ==
  ASSUME NEW d, Fit(d)
  PROVE  /\ Len(d.directories) \in Nat /\ Len(NewLocks(d)) \in Nat /\ Len(d.locks) \in Nat
         /\ Len(Preserved(d)) \in Nat /\ Len(Ordered(d)) \in Nat /\ Len(d.files) \in Nat
         /\ Len(Preserved(d)) = Len(Ordered(d)) + Len(d.files)
         /\ Len(d.files) # 0
         /\ Setup0(d) \in Nat /\ Lock0(d) \in Nat /\ File0(d) \in Nat
         /\ Unlock0(d) \in Nat /\ End(d) \in Nat
         /\ Setup0(d) <= Lock0(d) /\ Lock0(d) <= File0(d) /\ File0(d) < Unlock0(d)
         /\ Unlock0(d) <= End(d)
         /\ Lock0(d) = Setup0(d) + Len(NewLocks(d)) /\ File0(d) = Lock0(d) + Len(d.locks)
         /\ Unlock0(d) = File0(d) + Len(Preserved(d)) /\ End(d) = Unlock0(d) + Len(d.locks)
  <1>1. /\ Len(d.directories) \in Nat /\ Len(NewLocks(d)) \in Nat /\ Len(d.locks) \in Nat
        /\ Len(Preserved(d)) \in Nat /\ Len(Ordered(d)) \in Nat /\ Len(d.files) \in Nat
    BY DeclarationTypes, LenProperties
  <1>2. Len(Preserved(d)) = Len(Ordered(d)) + Len(d.files)
    BY DeclarationTypes, ConcatAt DEF Preserved
  <1>3. Len(d.files) # 0
    <2>1. d.files # <<>>
      BY DEF Fit, Accepted
    <2> QED BY <2>1, DeclarationTypes, EmptySeq
  <1>4. /\ Setup0(d) = Len(d.directories)
        /\ Lock0(d) = Setup0(d) + Len(NewLocks(d)) /\ File0(d) = Lock0(d) + Len(d.locks)
        /\ Unlock0(d) = File0(d) + Len(Preserved(d)) /\ End(d) = Unlock0(d) + Len(d.locks)
    BY DEF Setup0, Lock0, File0, Unlock0, End
  <1>5. \A x, y \in Nat : x + y \in Nat /\ x <= x + y /\ (y # 0 => x < x + y)
    OBVIOUS
  <1>6. Len(Preserved(d)) # 0
    BY <1>1, <1>2, <1>3
  <1>7. Setup0(d) \in Nat
    BY <1>1, <1>4
  <1>8. Lock0(d) \in Nat /\ Setup0(d) <= Lock0(d)
    BY <1>1, <1>4, <1>5, <1>7, Zenon
  <1>9. File0(d) \in Nat /\ Lock0(d) <= File0(d)
    BY <1>1, <1>4, <1>5, <1>8, Zenon
  <1>10. Unlock0(d) \in Nat /\ File0(d) < Unlock0(d)
    BY <1>1, <1>4, <1>5, <1>6, <1>9, Zenon
  <1>11. End(d) \in Nat /\ Unlock0(d) <= End(d)
    BY <1>1, <1>4, <1>5, <1>10, Zenon
  <1> QED BY <1>1, <1>2, <1>3, <1>4, <1>7, <1>8, <1>9, <1>10, <1>11

\* Each file of Preserved is a snapshot or a declared file.
LEMMA PreservedAt ==
  ASSUME NEW d, Fit(d), NEW i \in 1..Len(Preserved(d))
  PROVE  /\ Preserved(d)[i] \in FileDeclarations /\ TemporaryFits(Preserved(d)[i])
         /\ \/ i <= Len(Ordered(d)) /\ Preserved(d)[i] = Ordered(d)[i]
            \/ /\ i > Len(Ordered(d)) /\ i - Len(Ordered(d)) \in 1..Len(d.files)
               /\ Preserved(d)[i] = d.files[i - Len(Ordered(d))]
  <1>1. Preserved(d)[i] \in FileDeclarations
    BY DeclarationTypes, ElementOfSeq
  <1>2. /\ \A j \in 1..Len(Ordered(d)) : Preserved(d)[j] = Ordered(d)[j]
        /\ \A j \in 1..Len(d.files) : Preserved(d)[Len(Ordered(d)) + j] = d.files[j]
    BY DeclarationTypes, ConcatAt DEF Preserved
  <1>3. CASE i <= Len(Ordered(d))
    <2>1. i \in 1..Len(Ordered(d))
      BY <1>3, Sizes
    <2>2. Preserved(d)[i] = Ordered(d)[i]
      BY <1>2, <2>1
    <2>3. Ordered(d)[i] = Creation(Ordered(d)[i].path, Replaced(d)[i].previous)
      BY <2>1, DeclarationTypes
    <2>4. TemporaryFits(Preserved(d)[i])
      BY <2>2, <2>3, CreationValues DEF TemporaryFits
    <2> QED BY <1>1, <1>3, <2>2, <2>4
  <1>4. CASE i > Len(Ordered(d))
    <2> DEFINE j == i - Len(Ordered(d))
    <2>1. j \in 1..Len(d.files) /\ Len(Ordered(d)) + j = i
      BY <1>4, Sizes
    <2>2. Preserved(d)[i] = d.files[j]
      BY <1>2, <2>1
    <2>3. DOMAIN d.files = 1..Len(d.files)
      BY DeclarationTypes, LenProperties
    <2>4. TemporaryFits(d.files[j])
      BY <2>1, <2>3 DEF Fit, Accepted
    <2> QED BY <1>1, <1>4, <2>1, <2>2, <2>4
  <1>5. i <= Len(Ordered(d)) \/ i > Len(Ordered(d))
    BY Sizes
  <1> QED BY <1>3, <1>4, <1>5

\* What a group that writes is about is a declared file.
LEMMA FileOfType ==
  ASSUME NEW d, Fit(d), NEW b \in Writing(d)
  PROVE  FileOf(d, b) \in FileDeclarations /\ TemporaryFits(FileOf(d, b))
  <1>1. CASE b \in SetupGroups(d)
    <2>1. b - Setup0(d) \in 1..Len(NewLocks(d))
      BY <1>1, Sizes DEF SetupGroups
    <2>2. NewLocks(d)[b - Setup0(d)] \in LockDeclarations
      BY <2>1, DeclarationTypes, ElementOfSeq
    <2> QED BY <1>1, <2>2, LockFileValues, CreationValues DEF FileOf, TemporaryFits
  <1>2. CASE b \notin SetupGroups(d)
    <2>1. b - File0(d) \in 1..Len(Preserved(d))
      BY <1>2, Sizes DEF Writing, FileGroups
    <2> QED BY <1>2, <2>1, PreservedAt DEF FileOf
  <1> QED BY <1>1, <1>2

\* The parts of the plan and their lengths.
LEMMA LockEffectsAre ==
  ASSUME NEW d, Fit(d), NEW c \in Opcodes
  PROVE  /\ LockEffects(d, c) \in Seq(Seq(Operations))
         /\ Len(LockEffects(d, c)) = Len(d.locks)
         /\ \A i \in 1..Len(d.locks) : LockEffects(d, c)[i] = LockGroup(d.locks[i], c)
  <1>1. DOMAIN d.locks = 1..Len(d.locks) /\ Len(d.locks) \in Nat
    BY DeclarationTypes, LenProperties
  <1>2. ASSUME NEW i \in 1..Len(d.locks)
        PROVE  LockGroup(d.locks[i], c) \in Seq(Operations)
               /\ LockFile(d.locks[i]).candidate = LockBytes(d.locks[i])
    <2>1. d.locks[i] \in LockDeclarations
      BY DeclarationTypes, ElementOfSeq
    <2> QED BY <2>1, LockGroupType, LockFileValues, CreationValues
  <1>3. LockEffects(d, c) = [i \in 1..Len(d.locks) |-> LockGroup(d.locks[i], c)]
    BY <1>1, <1>2 DEF LockEffects, LockGroup
  <1>4. LockEffects(d, c) \in [1..Len(d.locks) -> Seq(Operations)]
    BY <1>2, <1>3
  <1>5. \A i \in 1..Len(d.locks) : LockEffects(d, c)[i] = LockGroup(d.locks[i], c)
    BY <1>3
  <1>6. LockEffects(d, c) \in Seq(Seq(Operations))
    BY <1>1, <1>4, IsASeq
  <1>7. Len(LockEffects(d, c)) = Len(d.locks)
    BY <1>1, <1>4, <1>6, LenProperties
  <1> QED BY <1>5, <1>6, <1>7

LEMMA EffectsAre ==
  ASSUME NEW files_, files_ \in Seq(FileDeclarations),
         \A i \in 1..Len(files_) : TemporaryFits(files_[i])
  PROVE  /\ Effects(files_) \in Seq(Seq(Operations)) /\ Len(Effects(files_)) = Len(files_)
         /\ \A i \in 1..Len(files_) : Effects(files_)[i] = FileGroup(files_[i])
  <1>1. DOMAIN files_ = 1..Len(files_) /\ Len(files_) \in Nat
    BY LenProperties
  <1>2. ASSUME NEW i \in 1..Len(files_) PROVE FileGroup(files_[i]) \in Seq(Operations)
    <2>1. files_[i] \in FileDeclarations
      BY ElementOfSeq
    <2> QED BY <2>1, FileGroupType
  <1>3. Effects(files_) = [i \in 1..Len(files_) |-> FileGroup(files_[i])]
    BY <1>1, FileEffectsIs DEF Effects
  <1>4. Effects(files_) \in [1..Len(files_) -> Seq(Operations)]
    BY <1>2, <1>3
  <1>5. \A i \in 1..Len(files_) : Effects(files_)[i] = FileGroup(files_[i])
    BY <1>3
  <1>6. Effects(files_) \in Seq(Seq(Operations))
    BY <1>1, <1>4, IsASeq
  <1>7. Len(Effects(files_)) = Len(files_)
    BY <1>1, <1>4, <1>6, LenProperties
  <1> QED BY <1>5, <1>6, <1>7

LEMMA DirectoryEffectsAre ==
  ASSUME NEW d, Fit(d)
  PROVE  /\ DirectoryEffects(d) \in Seq(Seq(Operations))
         /\ Len(DirectoryEffects(d)) = Setup0(d)
         /\ \A i \in 1..Setup0(d) : DirectoryEffects(d)[i] = DirectoryGroup(d.directories[i])
  <1>1. DOMAIN d.directories = 1..Setup0(d) /\ Setup0(d) \in Nat
    BY DeclarationTypes, LenProperties DEF Setup0
  <1>2. ASSUME NEW i \in 1..Setup0(d) PROVE DirectoryGroup(d.directories[i]) \in Seq(Operations)
    <2>1. d.directories[i] \in Paths
      BY DeclarationTypes, ElementOfSeq DEF Setup0
    <2> QED BY <2>1, DirectoryGroupType
  <1>3. DirectoryEffects(d) = [i \in 1..Setup0(d) |-> DirectoryGroup(d.directories[i])]
    BY <1>1 DEF DirectoryEffects, DirectoryGroup
  <1>4. DirectoryEffects(d) \in [1..Setup0(d) -> Seq(Operations)]
    BY <1>2, <1>3
  <1>5. \A i \in 1..Setup0(d) : DirectoryEffects(d)[i] = DirectoryGroup(d.directories[i])
    BY <1>3
  <1>6. DirectoryEffects(d) \in Seq(Seq(Operations))
    BY <1>1, <1>4, IsASeq
  <1>7. Len(DirectoryEffects(d)) = Setup0(d)
    BY <1>1, <1>4, <1>6, LenProperties
  <1> QED BY <1>5, <1>6, <1>7

\* A sequence from its end.
LEMMA ReverseAt ==
  ASSUME NEW S, NEW s \in Seq(S)
  PROVE  /\ Reverse(s) \in Seq(S) /\ Len(Reverse(s)) = Len(s)
         /\ \A i \in 1..Len(s) : Reverse(s)[i] = s[(Len(s) + 1) - i]
  <1>1. Len(s) \in Nat
    BY LenProperties
  <1>2. ASSUME NEW i \in 1..Len(s)
        PROVE  /\ (Len(s) - i) + 1 \in 1..Len(s) /\ s[(Len(s) - i) + 1] \in S
               /\ (Len(s) - i) + 1 = (Len(s) + 1) - i
    <2>1. (Len(s) - i) + 1 \in 1..Len(s) /\ (Len(s) - i) + 1 = (Len(s) + 1) - i
      BY <1>1
    <2> QED BY <2>1, ElementOfSeq
  <1>3. Reverse(s) = [i \in 1..Len(s) |-> s[(Len(s) - i) + 1]]
    BY ReverseIs
  <1>4. Reverse(s) \in [1..Len(s) -> S]
    BY <1>2, <1>3
  <1>5. \A i \in 1..Len(s) : Reverse(s)[i] = s[(Len(s) + 1) - i]
    BY <1>2, <1>3
  <1>6. Reverse(s) \in Seq(S)
    BY <1>1, <1>4, IsASeq
  <1>7. Len(Reverse(s)) = Len(s)
    BY <1>1, <1>4, <1>6, LenProperties
  <1> QED BY <1>5, <1>6, <1>7

\* The five parts of the groups.
LEMMA GroupParts ==
  ASSUME NEW d, Fit(d)
  PROVE  /\ LockSetup(d) \in Seq(Seq(Operations)) /\ Len(LockSetup(d)) = Len(NewLocks(d))
         /\ \A i \in 1..Len(NewLocks(d)) :
              LockSetup(d)[i] = FileGroup(LockFile(NewLocks(d)[i]))
         /\ Effects(Preserved(d)) \in Seq(Seq(Operations))
         /\ Len(Effects(Preserved(d))) = Len(Preserved(d))
         /\ \A i \in 1..Len(Preserved(d)) :
              Effects(Preserved(d))[i] = FileGroup(Preserved(d)[i])
  <1> DEFINE new == [i \in DOMAIN NewLocks(d) |-> LockFile(NewLocks(d)[i])]
  <1>1. DOMAIN NewLocks(d) = 1..Len(NewLocks(d)) /\ Len(NewLocks(d)) \in Nat
    BY DeclarationTypes, LenProperties
  <1>2. ASSUME NEW i \in 1..Len(NewLocks(d))
        PROVE  LockFile(NewLocks(d)[i]) \in FileDeclarations /\ TemporaryFits(LockFile(NewLocks(d)[i]))
    <2>1. NewLocks(d)[i] \in LockDeclarations
      BY DeclarationTypes, ElementOfSeq
    <2> QED BY <2>1, LockFileValues, CreationValues DEF TemporaryFits
  <1>3. new \in [1..Len(NewLocks(d)) -> FileDeclarations]
        /\ \A i \in 1..Len(NewLocks(d)) : new[i] = LockFile(NewLocks(d)[i])
    BY <1>1, <1>2
  <1>4. LockSetup(d) = Effects(new)
    BY DEF LockSetup
  <1> HIDE DEF new
  <1>5. new \in Seq(FileDeclarations) /\ Len(new) = Len(NewLocks(d))
    <2>1. new \in Seq(FileDeclarations)
      BY <1>1, <1>3, IsASeq
    <2> QED BY <1>1, <1>3, <2>1, LenProperties
  <1>6. \A i \in 1..Len(new) : TemporaryFits(new[i])
    BY <1>2, <1>3, <1>5
  <1>7. /\ Effects(new) \in Seq(Seq(Operations)) /\ Len(Effects(new)) = Len(new)
        /\ \A i \in 1..Len(new) : Effects(new)[i] = FileGroup(new[i])
    BY <1>5, <1>6, EffectsAre
  <1>8. \A i \in 1..Len(Preserved(d)) : TemporaryFits(Preserved(d)[i])
    BY PreservedAt
  <1>9. Preserved(d) \in Seq(FileDeclarations)
    BY DeclarationTypes
  <1>10. /\ Effects(Preserved(d)) \in Seq(Seq(Operations))
         /\ Len(Effects(Preserved(d))) = Len(Preserved(d))
         /\ \A i \in 1..Len(Preserved(d)) :
              Effects(Preserved(d))[i] = FileGroup(Preserved(d)[i])
    BY <1>8, <1>9, EffectsAre
  <1> QED BY <1>3, <1>4, <1>5, <1>7, <1>10

\* Where the elements of two joined sequences are.
LEMMA ThenAt ==
  ASSUME NEW S, NEW u, NEW s, NEW v, NEW n, NEW m,
         u \in Seq(S), s \in Seq(S), v = u \o s, n = Len(u), m = n + Len(s)
  PROVE  /\ v \in Seq(S) /\ Len(v) = m
         /\ \A i \in 1..n : v[i] = u[i]
         /\ \A i \in 1..Len(s) : v[n + i] = s[i]
  <1>1. /\ v \in Seq(S) /\ Len(v) = Len(u) + Len(s)
        /\ \A i \in 1..(Len(u) + Len(s)) :
             v[i] = IF i <= Len(u) THEN u[i] ELSE s[i - Len(u)]
    BY ConcatProperties
  <1>2. Len(u) \in Nat /\ Len(s) \in Nat
    BY LenProperties
  <1>3. ASSUME NEW i \in 1..Len(u) PROVE v[i] = u[i]
    BY <1>1, <1>2
  <1>4. ASSUME NEW i \in 1..Len(s) PROVE v[Len(u) + i] = s[i]
    <2>1. Len(u) + i \in 1..(Len(u) + Len(s)) /\ ~ (Len(u) + i <= Len(u))
          /\ (Len(u) + i) - Len(u) = i
      BY <1>2
    <2> QED BY <1>1, <2>1
  <1> QED BY <1>1, <1>3, <1>4

\* What each group of a plan is.
LEMMA GroupsAre ==
  ASSUME NEW d, Fit(d)
  PROVE  /\ Groups(d) \in Seq(Seq(Operations)) /\ Len(Groups(d)) = End(d)
         /\ \A b \in DirGroups(d) : Groups(d)[b] = DirectoryGroup(d.directories[b])
         /\ \A b \in Writing(d) : Groups(d)[b] = FileGroup(FileOf(d, b))
         /\ \A j \in 1..Len(d.locks) :
              /\ Groups(d)[Lock0(d) + j] = LockGroup(d.locks[j], "lock")
              /\ Groups(d)[(End(d) + 1) - j] = LockGroup(d.locks[j], "unlock")
  <1> DEFINE S == Seq(Operations)
             s1 == DirectoryEffects(d)
             s2 == LockSetup(d)
             s3 == LockEffects(d, "lock")
             s4 == Effects(Preserved(d))
             s5 == Reverse(LockEffects(d, "unlock"))
             t == Groups(d)
             u2 == s1 \o s2
             u3 == u2 \o s3
             u4 == u3 \o s4
             n1 == Setup0(d)
             n2 == Lock0(d)
             n3 == File0(d)
             n4 == Unlock0(d)
             n5 == End(d)
  <1>1. t = u4 \o s5 /\ u2 = s1 \o s2 /\ u3 = u2 \o s3 /\ u4 = u3 \o s4
    BY DEF Groups
  <1>2. /\ s1 \in Seq(S) /\ Len(s1) = Setup0(d)
        /\ \A i \in 1..Setup0(d) : s1[i] = DirectoryGroup(d.directories[i])
    BY DirectoryEffectsAre
  <1>3. /\ s2 \in Seq(S) /\ Len(s2) = Len(NewLocks(d))
        /\ \A i \in 1..Len(NewLocks(d)) : s2[i] = FileGroup(LockFile(NewLocks(d)[i]))
        /\ s4 \in Seq(S) /\ Len(s4) = Len(Preserved(d))
        /\ \A i \in 1..Len(Preserved(d)) : s4[i] = FileGroup(Preserved(d)[i])
    BY GroupParts
  <1>4. /\ s3 \in Seq(S) /\ Len(s3) = Len(d.locks)
        /\ \A i \in 1..Len(d.locks) : s3[i] = LockGroup(d.locks[i], "lock")
    BY LockEffectsAre DEF Opcodes
  <1>5. /\ LockEffects(d, "unlock") \in Seq(S)
        /\ Len(LockEffects(d, "unlock")) = Len(d.locks)
        /\ \A i \in 1..Len(d.locks) : LockEffects(d, "unlock")[i] = LockGroup(d.locks[i], "unlock")
    BY LockEffectsAre DEF Opcodes
  <1>6. /\ s5 \in Seq(S) /\ Len(s5) = Len(d.locks)
        /\ \A i \in 1..Len(d.locks) :
             s5[i] = LockEffects(d, "unlock")[(Len(d.locks) + 1) - i]
    BY <1>5, ReverseAt
  <1> HIDE DEF s1, s2, s3, s4, s5, t, S, u2, u3, u4
  <1>11. /\ n1 = Len(s1) /\ n2 = n1 + Len(s2) /\ n3 = n2 + Len(s3)
         /\ n4 = n3 + Len(s4) /\ n5 = n4 + Len(s5)
         /\ n1 \in Nat /\ n2 \in Nat /\ n3 \in Nat /\ n4 \in Nat
         /\ n1 <= n2 /\ n2 <= n3 /\ n3 <= n4
    <2>1. /\ Setup0(d) \in Nat /\ Lock0(d) \in Nat /\ File0(d) \in Nat /\ Unlock0(d) \in Nat
          /\ Setup0(d) <= Lock0(d) /\ Lock0(d) <= File0(d) /\ File0(d) <= Unlock0(d)
          /\ Lock0(d) = Setup0(d) + Len(NewLocks(d)) /\ File0(d) = Lock0(d) + Len(d.locks)
          /\ Unlock0(d) = File0(d) + Len(Preserved(d)) /\ End(d) = Unlock0(d) + Len(d.locks)
      BY Sizes
    <2>2. /\ Setup0(d) = Len(s1) /\ Len(NewLocks(d)) = Len(s2) /\ Len(d.locks) = Len(s3)
          /\ Len(Preserved(d)) = Len(s4) /\ Len(d.locks) = Len(s5)
      BY <1>2, <1>3, <1>4, <1>6
    <2>3. /\ Lock0(d) = Setup0(d) + Len(s2) /\ File0(d) = Lock0(d) + Len(s3)
          /\ Unlock0(d) = File0(d) + Len(s4) /\ End(d) = Unlock0(d) + Len(s5)
      BY <2>1, <2>2
    <2> QED BY <2>1, <2>2, <2>3
  <1>12. /\ Len(s1) \in Nat /\ Len(s2) \in Nat /\ Len(s3) \in Nat /\ Len(s4) \in Nat
         /\ Len(s5) \in Nat
    BY <1>2, <1>3, <1>4, <1>6, LenProperties
  <1>7. /\ t \in Seq(S) /\ Len(t) = n5
        /\ \A i \in 1..Len(s1) : t[i] = s1[i]
        /\ \A i \in 1..Len(s2) : t[n1 + i] = s2[i]
        /\ \A i \in 1..Len(s3) : t[n2 + i] = s3[i]
        /\ \A i \in 1..Len(s4) : t[n3 + i] = s4[i]
        /\ \A i \in 1..Len(s5) : t[n4 + i] = s5[i]
    <2> HIDE DEF n1, n2, n3, n4, n5
    <2>1. /\ u2 \in Seq(S) /\ Len(u2) = n2
          /\ \A i \in 1..n1 : u2[i] = s1[i]
          /\ \A i \in 1..Len(s2) : u2[n1 + i] = s2[i]
      <3>1. /\ s1 \in Seq(S) /\ s2 \in Seq(S) /\ u2 = s1 \o s2
            /\ n1 = Len(s1) /\ n2 = n1 + Len(s2)
        BY <1>1, <1>2, <1>3, <1>11
      <3> QED BY ONLY <3>1, ThenAt
    <2>2. /\ u3 \in Seq(S) /\ Len(u3) = n3
          /\ \A i \in 1..n2 : u3[i] = u2[i]
          /\ \A i \in 1..Len(s3) : u3[n2 + i] = s3[i]
      <3>1. /\ u2 \in Seq(S) /\ s3 \in Seq(S) /\ u3 = u2 \o s3
            /\ n2 = Len(u2) /\ n3 = n2 + Len(s3)
        BY <1>1, <1>3, <1>4, <1>6, <1>11, <2>1
      <3> QED BY ONLY <3>1, ThenAt
    <2>3. /\ u4 \in Seq(S) /\ Len(u4) = n4
          /\ \A i \in 1..n3 : u4[i] = u3[i]
          /\ \A i \in 1..Len(s4) : u4[n3 + i] = s4[i]
      <3>1. /\ u3 \in Seq(S) /\ s4 \in Seq(S) /\ u4 = u3 \o s4
            /\ n3 = Len(u3) /\ n4 = n3 + Len(s4)
        BY <1>1, <1>3, <1>4, <1>6, <1>11, <2>2
      <3> QED BY ONLY <3>1, ThenAt
    <2>4. /\ t \in Seq(S) /\ Len(t) = n5
          /\ \A i \in 1..n4 : t[i] = u4[i]
          /\ \A i \in 1..Len(s5) : t[n4 + i] = s5[i]
      <3>1. /\ u4 \in Seq(S) /\ s5 \in Seq(S) /\ t = u4 \o s5
            /\ n4 = Len(u4) /\ n5 = n4 + Len(s5)
        BY <1>1, <1>3, <1>4, <1>6, <1>11, <2>3
      <3> QED BY ONLY <3>1, ThenAt
    <2>5. ASSUME NEW i \in 1..Len(s1) PROVE t[i] = s1[i]
      <3>1. i \in 1..n1 /\ i \in 1..n2 /\ i \in 1..n3 /\ i \in 1..n4
        BY <1>11, <1>12
      <3> QED BY <2>1, <2>2, <2>3, <2>4, <3>1
    <2>6. ASSUME NEW i \in 1..Len(s2) PROVE t[n1 + i] = s2[i]
      <3>1. n1 + i \in 1..n2 /\ n1 + i \in 1..n3 /\ n1 + i \in 1..n4
        BY <1>11, <1>12
      <3> QED BY <2>1, <2>2, <2>3, <2>4, <3>1
    <2>7. ASSUME NEW i \in 1..Len(s3) PROVE t[n2 + i] = s3[i]
      <3>1. n2 + i \in 1..n3 /\ n2 + i \in 1..n4
        BY <1>11, <1>12
      <3> QED BY <2>2, <2>3, <2>4, <3>1
    <2>8. ASSUME NEW i \in 1..Len(s4) PROVE t[n3 + i] = s4[i]
      <3>1. n3 + i \in 1..n4
        BY <1>11, <1>12
      <3> QED BY <2>3, <2>4, <3>1
    <2> QED BY <2>4, <2>5, <2>6, <2>7, <2>8
  <1>8. \A b \in DirGroups(d) : t[b] = DirectoryGroup(d.directories[b])
    BY <1>2, <1>7 DEF DirGroups
  <1>9. ASSUME NEW b \in Writing(d) PROVE t[b] = FileGroup(FileOf(d, b))
    <2>1. CASE b \in SetupGroups(d)
      <3>1. b - Setup0(d) \in 1..Len(NewLocks(d)) /\ Setup0(d) + (b - Setup0(d)) = b
        BY <2>1, Sizes DEF SetupGroups
      <3>2. t[b] = s2[b - Setup0(d)]
        BY <1>3, <1>7, <3>1
      <3> QED BY <1>3, <2>1, <3>1, <3>2 DEF FileOf
    <2>2. CASE b \notin SetupGroups(d)
      <3>1. b - File0(d) \in 1..Len(Preserved(d)) /\ File0(d) + (b - File0(d)) = b
        BY <2>2, Sizes DEF Writing, FileGroups
      <3>2. t[b] = s4[b - File0(d)]
        BY <1>3, <1>7, <3>1
      <3> QED BY <1>3, <2>2, <3>1, <3>2 DEF FileOf
    <2> QED BY <2>1, <2>2
  <1>10. ASSUME NEW j \in 1..Len(d.locks)
         PROVE  /\ t[Lock0(d) + j] = LockGroup(d.locks[j], "lock")
                /\ t[(End(d) + 1) - j] = LockGroup(d.locks[j], "unlock")
    <2>1. t[Lock0(d) + j] = LockGroup(d.locks[j], "lock")
      BY <1>4, <1>7
    <2> DEFINE k == Len(d.locks)
               i == (k + 1) - j
    <2>2. k \in Nat /\ Unlock0(d) \in Nat /\ End(d) = Unlock0(d) + k
      BY Sizes
    <2>3. j \in 1..k
      OBVIOUS
    <2> HIDE DEF k
    <2>4. i \in 1..k /\ Unlock0(d) + i = (End(d) + 1) - j /\ (k + 1) - i = j
      BY <2>2, <2>3
    <2> HIDE DEF i
    <2>5. i \in 1..Len(d.locks) /\ (Len(d.locks) + 1) - i = j
      BY <2>4 DEF k
    <2>6. t[Unlock0(d) + i] = s5[i]
      BY <1>6, <1>7, <2>5
    <2>7. s5[i] = LockEffects(d, "unlock")[j]
      BY <1>6, <2>5
    <2>8. LockEffects(d, "unlock")[j] = LockGroup(d.locks[j], "unlock")
      BY <1>5
    <2> QED BY <2>1, <2>4, <2>6, <2>7, <2>8
  <1> QED BY <1>7, <1>8, <1>9, <1>10 DEF t, S

\* What the places of Declared hold.
LEMMA DeclaredAt ==
  ASSUME NEW d, Fit(d)
  PROVE  /\ \A i \in 1..Len(Preserved(d)) :
              i \in DOMAIN Declared(d) /\ Declared(d)[i] = Preserved(d)[i]
         /\ \A i \in 1..Len(d.locks) :
              /\ Len(Preserved(d)) + i \in DOMAIN Declared(d)
              /\ Declared(d)[Len(Preserved(d)) + i] = LockFile(d.locks[i])
         /\ \A i \in DOMAIN Declared(d) :
              Declared(d)[i] \in FileDeclarations /\ TemporaryFits(Declared(d)[i])
  <1> DEFINE ls == [i \in DOMAIN d.locks |-> LockFile(d.locks[i])]
             m == Len(Preserved(d))
             n == Len(d.locks)
  <1>1. DOMAIN d.locks = 1..n /\ n \in Nat /\ m \in Nat
    BY DeclarationTypes, LenProperties
  <1>2. ASSUME NEW i \in 1..n
        PROVE  LockFile(d.locks[i]) \in FileDeclarations /\ TemporaryFits(LockFile(d.locks[i]))
    <2>1. d.locks[i] \in LockDeclarations
      BY DeclarationTypes, ElementOfSeq
    <2> QED BY <2>1, LockFileValues, CreationValues DEF TemporaryFits
  <1>3. ls \in [1..n -> FileDeclarations] /\ \A i \in 1..n : ls[i] = LockFile(d.locks[i])
    BY <1>1, <1>2
  <1>4. Declared(d) = Preserved(d) \o ls
    BY DEF Declared
  <1> HIDE DEF ls
  <1>5. ls \in Seq(FileDeclarations) /\ Len(ls) = n
    <2>1. ls \in Seq(FileDeclarations)
      BY <1>1, <1>3, IsASeq
    <2> QED BY <1>1, <1>3, <2>1, LenProperties
  <1>6. Preserved(d) \in Seq(FileDeclarations)
    BY DeclarationTypes
  <1>7. /\ Declared(d) \in Seq(FileDeclarations) /\ Len(Declared(d)) = m + n
        /\ \A i \in 1..m : Declared(d)[i] = Preserved(d)[i]
        /\ \A i \in 1..n : Declared(d)[m + i] = ls[i]
    <2>1. /\ Preserved(d) \in Seq(FileDeclarations) /\ ls \in Seq(FileDeclarations)
          /\ Declared(d) = Preserved(d) \o ls /\ m = Len(Preserved(d)) /\ m + n = m + Len(ls)
      BY <1>4, <1>5, <1>6
    <2> HIDE DEF m, n
    <2>2. /\ Declared(d) \in Seq(FileDeclarations) /\ Len(Declared(d)) = m + n
          /\ \A i \in 1..m : Declared(d)[i] = Preserved(d)[i]
          /\ \A i \in 1..Len(ls) : Declared(d)[m + i] = ls[i]
      BY ONLY <2>1, ThenAt
    <2> QED BY <1>5, <2>2
  <1>8. DOMAIN Declared(d) = 1..(m + n)
    BY <1>7, LenProperties
  <1> HIDE DEF m, n
  <1>9. \A i \in 1..m : i \in DOMAIN Declared(d)
    BY <1>1, <1>8
  <1>10. \A i \in 1..n : m + i \in DOMAIN Declared(d)
    BY <1>1, <1>8
  <1>11. ASSUME NEW i \in DOMAIN Declared(d)
         PROVE  Declared(d)[i] \in FileDeclarations /\ TemporaryFits(Declared(d)[i])
    <2>1. CASE i \in 1..m
      BY <1>7, <2>1, PreservedAt DEF m
    <2>2. CASE i \notin 1..m
      <3>1. i - m \in 1..n /\ m + (i - m) = i
        BY <1>1, <1>8, <2>2
      <3>2. Declared(d)[i] = LockFile(d.locks[i - m])
        BY <1>3, <1>7, <3>1
      <3> QED BY <1>2, <3>1, <3>2
    <2> QED BY <2>1, <2>2
  <1> QED BY <1>3, <1>7, <1>9, <1>10, <1>11 DEF m, n

\* Each writing group has a position in Declared, and no other has the same.
LEMMA GroupPositions ==
  ASSUME NEW d, Fit(d)
  PROVE  \E pos \in [Writing(d) -> DOMAIN Declared(d)] :
           /\ \A b, c \in Writing(d) : pos[b] = pos[c] => b = c
           /\ \A b \in Writing(d) : /\ Declared(d)[pos[b]] = FileOf(d, b)
                                    /\ b \notin SetupGroups(d) => pos[b] = b - File0(d)
           /\ \A b \in SetupGroups(d) : \E i \in 1..Len(d.locks) :
                pos[b] = Len(Preserved(d)) + i /\ d.locks[i].previous = None
           /\ \A i \in 1..Len(d.locks) : d.locks[i].previous = None =>
                \E b \in SetupGroups(d) :
                  pos[b] = Len(Preserved(d)) + i /\ FileOf(d, b) = LockFile(d.locks[i])
  <1> DEFINE P == {i \in DOMAIN d.locks : d.locks[i].previous = None}
             m == Len(Preserved(d))
             n == Len(NewLocks(d))
             l == Len(d.locks)
  <1>1. d.locks \in Seq(LockDeclarations) /\ DOMAIN d.locks = 1..l
    BY DeclarationTypes, LenProperties
  <1>2. PICK from \in [1..n -> 1..l] :
           /\ \A x \in 1..n : from[x] \in P /\ NewLocks(d)[x] = d.locks[from[x]]
           /\ \A x, y \in 1..n : from[x] = from[y] => x = y
           /\ \A i \in 1..l : i \in P => \E x \in 1..n : from[x] = i
    <2>1. NewLocks(d) = Selected(d.locks, P)
      BY DEF NewLocks
    <2> HIDE DEF P
    <2>2. \E from \in [1..Len(Selected(d.locks, P)) -> 1..Len(d.locks)] :
             /\ \A x \in 1..Len(Selected(d.locks, P)) :
                  from[x] \in P /\ Selected(d.locks, P)[x] = d.locks[from[x]]
             /\ \A x, y \in 1..Len(Selected(d.locks, P)) : from[x] = from[y] => x = y
             /\ \A i \in 1..Len(d.locks) : i \in P =>
                  \E x \in 1..Len(Selected(d.locks, P)) : from[x] = i
      BY <1>1, SelectedAt
    <2> QED BY <2>1, <2>2
  <1>3. m \in Nat /\ n \in Nat /\ l \in Nat /\ Setup0(d) \in Nat /\ Lock0(d) = Setup0(d) + n
        /\ File0(d) \in Nat /\ Unlock0(d) = File0(d) + m /\ Lock0(d) <= File0(d)
    BY Sizes
  <1> DEFINE pos == [b \in Writing(d) |->
                       IF b \in SetupGroups(d) THEN m + from[b - Setup0(d)] ELSE b - File0(d)]
  <1> HIDE DEF m, n, l
  <1>4. ASSUME NEW b \in SetupGroups(d)
        PROVE  /\ b \in Writing(d) /\ b - Setup0(d) \in 1..n
               /\ pos[b] = m + from[b - Setup0(d)] /\ from[b - Setup0(d)] \in 1..l
               /\ FileOf(d, b) = LockFile(d.locks[from[b - Setup0(d)]])
               /\ d.locks[from[b - Setup0(d)]].previous = None
    <2>1. b \in Writing(d) /\ b - Setup0(d) \in 1..n
      BY <1>3 DEF Writing, SetupGroups
    <2>2. pos[b] = m + from[b - Setup0(d)]
      BY <2>1
    <2>3. FileOf(d, b) = LockFile(NewLocks(d)[b - Setup0(d)])
      BY DEF FileOf
    <2> QED BY <1>2, <2>1, <2>2, <2>3
  <1>5. ASSUME NEW b \in Writing(d), b \notin SetupGroups(d)
        PROVE  /\ b - File0(d) \in 1..m /\ pos[b] = b - File0(d)
               /\ FileOf(d, b) = Preserved(d)[b - File0(d)]
    BY <1>3, <1>5 DEF Writing, FileGroups, FileOf
  <1>6. ASSUME NEW b \in Writing(d)
        PROVE  pos[b] \in DOMAIN Declared(d) /\ Declared(d)[pos[b]] = FileOf(d, b)
    <2>1. CASE b \in SetupGroups(d)
      BY <1>4, <2>1, DeclaredAt DEF l, m
    <2>2. CASE b \notin SetupGroups(d)
      BY <1>5, <2>2, DeclaredAt DEF m
    <2> QED BY <2>1, <2>2
  <1>7. ASSUME NEW b \in Writing(d), NEW c \in Writing(d), pos[b] = pos[c] PROVE b = c
    <2>0. b \in Int /\ c \in Int
      BY <1>3, Sizes DEF Writing, SetupGroups, FileGroups
    <2>1. CASE b \in SetupGroups(d) /\ c \in SetupGroups(d)
      <3>1. from[b - Setup0(d)] = from[c - Setup0(d)]
        <4>1. /\ pos[b] = m + from[b - Setup0(d)] /\ from[b - Setup0(d)] \in 1..l
              /\ pos[c] = m + from[c - Setup0(d)] /\ from[c - Setup0(d)] \in 1..l
          BY <1>4, <2>1
        <4>2. \A x, y \in 1..l : m + x = m + y => x = y
          BY <1>3
        <4> HIDE DEF pos
        <4>3. m + from[b - Setup0(d)] = m + from[c - Setup0(d)]
          BY <1>7, <4>1
        <4> QED BY <4>1, <4>2, <4>3
      <3>2. b - Setup0(d) = c - Setup0(d)
        BY <1>2, <1>4, <2>1, <3>1
      <3> QED BY <1>3, <2>0, <3>2
    <2>2. CASE b \notin SetupGroups(d) /\ c \notin SetupGroups(d)
      <3>1. b - File0(d) = c - File0(d)
        BY <1>5, <1>7, <2>2
      <3> QED BY <1>3, <2>0, <3>1
    <2>3. \A x \in SetupGroups(d) : \A y \in Writing(d) \ SetupGroups(d) : pos[x] # pos[y]
      <3> TAKE x \in SetupGroups(d)
      <3> TAKE y \in Writing(d) \ SetupGroups(d)
      <3>1. /\ pos[x] = m + from[x - Setup0(d)] /\ from[x - Setup0(d)] \in 1..l
            /\ y - File0(d) \in 1..m /\ pos[y] = y - File0(d)
        BY <1>4, <1>5
      <3> HIDE DEF pos
      <3> QED BY <1>3, <3>1
    <2> QED BY <1>7, <2>1, <2>2, <2>3
  <1>8. ASSUME NEW i \in 1..l, d.locks[i].previous = None
        PROVE  \E b \in SetupGroups(d) : pos[b] = m + i /\ FileOf(d, b) = LockFile(d.locks[i])
    <2>1. PICK x \in 1..n : from[x] = i
      BY <1>1, <1>2, <1>8
    <2>2. Setup0(d) + x \in SetupGroups(d) /\ (Setup0(d) + x) - Setup0(d) = x
      BY <1>3 DEF SetupGroups
    <2> QED BY <1>4, <2>1, <2>2
  <1>9. pos \in [Writing(d) -> DOMAIN Declared(d)]
    BY <1>6
  <1>10. \A b \in SetupGroups(d) : \E i \in 1..l : pos[b] = m + i /\ d.locks[i].previous = None
    BY <1>4
  <1>11. \A b \in Writing(d) : b \notin SetupGroups(d) => pos[b] = b - File0(d)
    BY <1>5
  <1> HIDE DEF pos, P
  <1> QED BY <1>6, <1>7, <1>8, <1>9, <1>10, <1>11 DEF m, l

\* The names and the parents of a declaration, as Accepted relates them.
LEMMA NamesAre ==
  ASSUME NEW d, Fit(d)
  PROVE  /\ \A i, j \in DOMAIN Declared(d) :
              i # j => Names(Declared(d)[i]) \cap Names(Declared(d)[j]) = {}
         /\ \A i \in DOMAIN Declared(d) :
              /\ Names(Declared(d)[i]) \subseteq AllNames(Declared(d))
              /\ Names(Declared(d)[i]) \subseteq Paths
              /\ Declared(d)[i].path \in Names(Declared(d)[i])
              /\ \A p \in Names(Declared(d)[i]) : ParentOf[p] = ParentOf[Declared(d)[i].path]
         /\ AllNames(Declared(d)) \subseteq Paths
         /\ ToSet(d.directories) \cap AllNames(Declared(d)) = {}
         /\ Standing(d) \cap AllNames(Declared(d)) = {}
         /\ Standing(d) \cap ToSet(d.directories) = {}
         /\ ToSet(d.directories) \subseteq Paths
  <1>1. NamesFit(Declared(d)) /\ DirectoriesFit(d) /\ Consistent(d)
    BY DEF Fit, Accepted
  <1>2. ASSUME NEW i \in DOMAIN Declared(d)
        PROVE  /\ Names(Declared(d)[i]) \subseteq AllNames(Declared(d))
               /\ Names(Declared(d)[i]) \subseteq Paths
               /\ Declared(d)[i].path \in Names(Declared(d)[i])
               /\ \A p \in Names(Declared(d)[i]) : ParentOf[p] = ParentOf[Declared(d)[i].path]
    <2>1. Declared(d)[i] \in FileDeclarations /\ TemporaryFits(Declared(d)[i])
      BY DeclaredAt
    <2> DEFINE f == Declared(d)[i]
    <2>2. f.path \in Paths /\ f.path # None
      BY <2>1, FileTypes, PathFacts
    <2>3. ASSUME NEW p \in Names(f) PROVE p \in Paths /\ ParentOf[p] = ParentOf[f.path]
      <3> HIDE DEF f
      <3>1. p \in {f.path, f.temporary} /\ p # None
        BY DEF Names
      <3> QED BY <2>1, <2>2, <3>1, FileTypes DEF f
    <2>4. f.path \in Names(f)
      BY <2>2 DEF Names
    <2>5. Names(f) \subseteq AllNames(Declared(d))
      BY DEF AllNames
    <2> QED BY <2>3, <2>4, <2>5
  <1>3. AllNames(Declared(d)) \subseteq Paths
    BY <1>2 DEF AllNames
  <1>4. ToSet(d.directories) \subseteq Paths
    <2>1. DOMAIN d.directories = 1..Len(d.directories)
      BY DeclarationTypes, LenProperties
    <2>2. \A i \in 1..Len(d.directories) : d.directories[i] \in Paths
      BY DeclarationTypes, ElementOfSeq
    <2> QED BY <2>1, <2>2 DEF ToSet
  <1>5. ToSet(d.directories) \cap AllNames(Declared(d)) = {}
    BY <1>1 DEF DirectoriesFit
  <1>6. Standing(d) \cap AllNames(Declared(d)) = {}
    BY <1>1 DEF Consistent
  <1>7. Standing(d) \cap ToSet(d.directories) = {}
    <2> DEFINE every == UNION {Above[path] : path \in AllNames(Declared(d)) \cup ToSet(d.directories)}
               new == ToSet(d.directories)
    <2>1. Standing(d) = every \ new
      BY DEF Standing
    <2> HIDE DEF every, new
    <2>2. Standing(d) \cap new = {}
      BY <2>1
    <2> QED BY <2>2 DEF new
  <1> QED BY <1>1, <1>2, <1>3, <1>4, <1>5, <1>6, <1>7 DEF NamesFit

\* The groups that write the files of Preserved.
LEMMA FileGroupsAre ==
  ASSUME NEW d, Fit(d)
  PROVE  /\ \A b \in Writing(d) : b \notin SetupGroups(d) =>
              b - File0(d) \in 1..Len(Preserved(d)) /\ FileOf(d, b) = Preserved(d)[b - File0(d)]
         /\ \A i \in 1..Len(Preserved(d)) :
              /\ File0(d) + i \in Writing(d) /\ File0(d) + i \notin SetupGroups(d)
              /\ FileOf(d, File0(d) + i) = Preserved(d)[i]
         /\ Writing(d) \subseteq 1..End(d) /\ DirGroups(d) \subseteq 1..End(d)
         /\ Writing(d) \cap DirGroups(d) = {}
         /\ \A b \in DirGroups(d), c \in Writing(d) : b < c
  <1> DEFINE m == Len(Preserved(d))
  <1>1. /\ m \in Nat /\ Setup0(d) \in Nat /\ Lock0(d) \in Nat /\ File0(d) \in Nat
        /\ Unlock0(d) = File0(d) + m /\ Lock0(d) <= File0(d) /\ Setup0(d) <= Lock0(d)
        /\ Unlock0(d) <= End(d) /\ End(d) \in Nat
    BY Sizes
  <1> HIDE DEF m
  <1>2. ASSUME NEW b \in Writing(d), b \notin SetupGroups(d)
        PROVE  b - File0(d) \in 1..m /\ FileOf(d, b) = Preserved(d)[b - File0(d)]
    BY <1>1, <1>2 DEF Writing, FileGroups, FileOf
  <1>3. ASSUME NEW i \in 1..m
        PROVE  /\ File0(d) + i \in Writing(d) /\ File0(d) + i \notin SetupGroups(d)
               /\ FileOf(d, File0(d) + i) = Preserved(d)[i]
    <2>1. File0(d) + i \in Writing(d) /\ File0(d) + i \notin SetupGroups(d)
          /\ (File0(d) + i) - File0(d) = i
      BY <1>1 DEF Writing, FileGroups, SetupGroups
    <2> QED BY <2>1 DEF FileOf
  <1>4. /\ Writing(d) \subseteq 1..End(d) /\ DirGroups(d) \subseteq 1..End(d)
        /\ Writing(d) \cap DirGroups(d) = {}
        /\ \A b \in DirGroups(d), c \in Writing(d) : b < c
    BY <1>1 DEF Writing, SetupGroups, FileGroups, DirGroups
  <1> QED BY <1>2, <1>3, <1>4 DEF m

\* No path is written by two groups, stands already, or is a lock that exists.
LEMMA GroupNamesApart ==
  ASSUME NEW d, Fit(d)
  PROVE  /\ \A b, c \in 1..End(d) : b # c => GroupNames(d, b) \cap GroupNames(d, c) = {}
         /\ \A b \in 1..End(d) : /\ GroupNames(d, b) \subseteq Paths
                                 /\ GroupNames(d, b) \cap Standing(d) = {}
         /\ \A b \in 1..End(d) : \A i \in 1..Len(d.locks) :
              d.locks[i].previous # None => d.locks[i].path \notin GroupNames(d, b)
  <1> PICK pos \in [Writing(d) -> DOMAIN Declared(d)] :
           /\ \A b, c \in Writing(d) : pos[b] = pos[c] => b = c
           /\ \A b \in Writing(d) : /\ Declared(d)[pos[b]] = FileOf(d, b)
                                    /\ b \notin SetupGroups(d) => pos[b] = b - File0(d)
           /\ \A b \in SetupGroups(d) : \E i \in 1..Len(d.locks) :
                pos[b] = Len(Preserved(d)) + i /\ d.locks[i].previous = None
    BY GroupPositions
  <1>1. ASSUME NEW b \in DirGroups(d)
        PROVE  /\ b \in DOMAIN d.directories /\ d.directories[b] \in ToSet(d.directories)
               /\ GroupNames(d, b) = {d.directories[b]}
    <2>1. DOMAIN d.directories = 1..Setup0(d)
      BY DeclarationTypes, LenProperties DEF Setup0
    <2> QED BY <2>1 DEF DirGroups, ToSet, GroupNames
  <1>2. ASSUME NEW b \in Writing(d)
        PROVE  /\ b \notin DirGroups(d) /\ GroupNames(d, b) = Names(Declared(d)[pos[b]])
               /\ pos[b] \in DOMAIN Declared(d)
               /\ GroupNames(d, b) \subseteq AllNames(Declared(d))
    <2>1. b \notin DirGroups(d)
      BY Sizes DEF DirGroups, Writing, SetupGroups, FileGroups
    <2>2. GroupNames(d, b) = Names(Declared(d)[pos[b]])
      BY <2>1 DEF GroupNames
    <2> QED BY <2>1, <2>2, NamesAre
  <1>3. ASSUME NEW b, b \notin DirGroups(d), b \notin Writing(d) PROVE GroupNames(d, b) = {}
    BY <1>3 DEF GroupNames
  <1>4. ASSUME NEW b \in 1..End(d), NEW c \in 1..End(d), b # c
        PROVE  GroupNames(d, b) \cap GroupNames(d, c) = {}
    <2>1. CASE b \in DirGroups(d) /\ c \in DirGroups(d)
      <3>1. d.directories[b] # d.directories[c]
        <4>1. IsInjective(d.directories)
          BY DEF Fit, Accepted, DirectoriesFit
        <4> QED BY <1>1, <1>4, <2>1, <4>1 DEF IsInjective
      <3> QED BY <1>1, <2>1, <3>1
    <2>2. CASE b \in DirGroups(d) /\ c \in Writing(d)
      BY <1>1, <1>2, <2>2, NamesAre
    <2>3. CASE b \in Writing(d) /\ c \in DirGroups(d)
      BY <1>1, <1>2, <2>3, NamesAre
    <2>4. CASE b \in Writing(d) /\ c \in Writing(d)
      <3>1. pos[b] # pos[c]
        BY <1>4, <2>4
      <3> QED BY <1>2, <2>4, <3>1, NamesAre
    <2> QED BY <1>3, <2>1, <2>2, <2>3, <2>4
  <1>5. ASSUME NEW b \in 1..End(d)
        PROVE  GroupNames(d, b) \subseteq Paths /\ GroupNames(d, b) \cap Standing(d) = {}
    <2>1. CASE b \in DirGroups(d)
      BY <1>1, <2>1, NamesAre
    <2>2. CASE b \in Writing(d)
      BY <1>2, <2>2, NamesAre
    <2> QED BY <1>3, <2>1, <2>2
  <1>6. ASSUME NEW b \in 1..End(d), NEW i \in 1..Len(d.locks), d.locks[i].previous # None
        PROVE  d.locks[i].path \notin GroupNames(d, b)
    <2> DEFINE j == Len(Preserved(d)) + i
    <2>1. j \in DOMAIN Declared(d) /\ Declared(d)[j] = LockFile(d.locks[i])
      BY DeclaredAt
    <2>2. Declared(d)[j].path = d.locks[i].path
      <3>1. d.locks[i] \in LockDeclarations
        BY DeclarationTypes, ElementOfSeq
      <3> QED BY <2>1, <3>1, LockFileValues, CreationValues
    <2>3. d.locks[i].path \in Names(Declared(d)[j]) /\ d.locks[i].path \in AllNames(Declared(d))
      BY <2>1, <2>2, NamesAre
    <2>4. CASE b \in DirGroups(d)
      BY <1>1, <2>3, <2>4, NamesAre
    <2>5. CASE b \in Writing(d)
      <3>1. pos[b] # j
        <4>1. CASE b \in SetupGroups(d)
          <5>1. PICK k \in 1..Len(d.locks) :
                  pos[b] = Len(Preserved(d)) + k /\ d.locks[k].previous = None
            BY <4>1
          <5>2. k # i
            BY <1>6, <5>1
          <5> QED BY <5>1, <5>2, Sizes
        <4>2. CASE b \notin SetupGroups(d)
          <5>1. pos[b] = b - File0(d)
            BY <2>5, <4>2
          <5>2. b - File0(d) \in 1..Len(Preserved(d))
            BY <2>5, <4>2, FileGroupsAre
          <5>3. j > Len(Preserved(d))
            BY Sizes
          <5> HIDE DEF j
          <5> QED BY <5>1, <5>2, <5>3
        <4> QED BY <4>1, <4>2
      <3> HIDE DEF j
      <3> QED BY <1>2, <2>1, <2>3, <2>5, <3>1, NamesAre
    <2> QED BY <1>3, <2>4, <2>5
  <1> QED BY <1>4, <1>5, <1>6

\* The directories above a path are the least set that is closed.
LEMMA AboveLeast ==
  ASSUME NEW p \in Paths
  PROVE  /\ ParentOf[p] \in Above[p]
         /\ \A q \in Above[p] \cap Paths : ParentOf[q] \in Above[p]
         /\ Above[p] \subseteq Places
         /\ \A S \in SUBSET Places :
              ParentOf[p] \in S /\ (\A q \in S \cap Paths : ParentOf[q] \in S)
              => Above[p] \subseteq S
  <1> DEFINE Closed(S) == ParentOf[p] \in S /\ \A q \in S \cap Paths : ParentOf[q] \in S
  <1>1. Above[p] = {x \in Places : \A S \in SUBSET Places : Closed(S) => x \in S}
    BY DEF Above
  <1> QED BY <1>1, PathFacts

\* What is above what stands stands, and so does what is above what exists;
\* what is above the n-th directory stands or is a directory before it.
LEMMA AboveAre ==
  ASSUME NEW d, Fit(d)
  PROVE  /\ Standing(d) \subseteq Places
         /\ \A p \in Standing(d) \cap Paths : Above[p] \subseteq Standing(d)
         /\ \A p \in AllNames(Declared(d)) :
              Above[p] \subseteq Standing(d) \cup ToSet(d.directories)
         /\ \A p \in Existing(d) \cap AllNames(Declared(d)) : Above[p] \subseteq Standing(d)
         /\ \A b \in DirGroups(d) : Above[d.directories[b]] \subseteq Standing(d) \cup Made(d, b)
         /\ ToSet(d.directories) = Made(d, Setup0(d) + 1)
  <1> DEFINE new == ToSet(d.directories)
             names == AllNames(Declared(d))
             S == Standing(d)
  <1>1. S = (UNION {Above[path] : path \in names \cup new}) \ new
    BY DEF Standing
  <1>2. names \subseteq Paths /\ new \subseteq Paths
    BY NamesAre
  <1>3. S \subseteq Places
    <2> HIDE DEF names, new, S
    <2> QED BY <1>1, <1>2, AboveLeast
  <1>4. ASSUME NEW p \in names \cup new PROVE Above[p] \subseteq S \cup new
    BY <1>1
  <1>5. \A p \in S \cap Paths : Above[p] \cap new = {}
    BY DEF Fit, Consistent
  <1>6. \A p \in Existing(d) : ParentOf[p] \notin new
    BY DEF Fit, Accepted, DirectoriesFit
  <1>7. DOMAIN d.directories = 1..Setup0(d) /\ Setup0(d) \in Nat
    BY DeclarationTypes, LenProperties DEF Setup0
  <1>8. \A i \in DOMAIN d.directories : ParentOf[d.directories[i]] \in new =>
          \E j \in 1..(i - 1) : d.directories[j] = ParentOf[d.directories[i]]
    BY DEF Fit, Accepted, DirectoriesFit
  <1>9. new = Made(d, Setup0(d) + 1) /\ \A b \in DirGroups(d) : d.directories[b] \in new
    BY <1>7 DEF ToSet, Made, DirGroups
  <1> HIDE DEF names, new, S
  <1>10. ASSUME NEW p \in S \cap Paths PROVE Above[p] \subseteq S
    <2>1. PICK q \in names \cup new : p \in Above[q]
      BY <1>1
    <2>2. q \in Paths
      BY <1>2
    <2>3. ParentOf[p] \in Above[q] /\ \A x \in Above[q] \cap Paths : ParentOf[x] \in Above[q]
      BY <2>1, <2>2, AboveLeast
    <2>4. Above[p] \subseteq Above[q]
      BY <2>2, <2>3, AboveLeast
    <2> QED BY <1>4, <1>5, <2>4
  <1>11. ASSUME NEW p \in Existing(d) \cap names PROVE Above[p] \subseteq S
    <2>1. ParentOf[p] \in S
      BY <1>2, <1>4, <1>6, AboveLeast
    <2>2. \A q \in S \cap Paths : ParentOf[q] \in S
      BY <1>10, AboveLeast
    <2> QED BY <1>2, <1>3, <2>1, <2>2, AboveLeast
  <1>12. ASSUME NEW b \in DirGroups(d)
         PROVE  ParentOf[d.directories[b]] \in S \cup Made(d, b)
    <2>1. d.directories[b] \in new /\ d.directories[b] \in Paths
      BY <1>2, <1>9
    <2>2. ParentOf[d.directories[b]] \in S \cup new
      BY <1>4, <2>1, AboveLeast
    <2>3. CASE ParentOf[d.directories[b]] \in new
      <3>1. b \in DOMAIN d.directories
        BY <1>7 DEF DirGroups
      <3>2. PICK j \in 1..(b - 1) : d.directories[j] = ParentOf[d.directories[b]]
        BY <1>8, <2>3, <3>1
      <3>3. j \in DirGroups(d) /\ j < b
        BY <1>7 DEF DirGroups
      <3> QED BY <3>2, <3>3 DEF Made
    <2> QED BY <2>2, <2>3
  <1>13. ASSUME NEW b \in DirGroups(d)
         PROVE  Above[d.directories[b]] \subseteq S \cup Made(d, b)
    <2>1. ASSUME NEW q \in (S \cup Made(d, b)) \cap Paths
          PROVE  ParentOf[q] \in S \cup Made(d, b)
      <3>1. CASE q \in S
        BY <1>10, <3>1, AboveLeast
      <3>2. CASE q \in Made(d, b)
        <4>1. PICK j \in DirGroups(d) : j < b /\ q = d.directories[j]
          BY <3>2 DEF Made
        <4>2. Made(d, j) \subseteq Made(d, b)
          BY <1>7, <4>1 DEF Made, DirGroups
        <4> QED BY <1>12, <4>1, <4>2
      <3> QED BY <3>1, <3>2
    <2>2. Made(d, b) \subseteq Places
      BY <1>2, <1>9, PathFacts DEF Made
    <2>3. d.directories[b] \in Paths
      BY <1>2, <1>9
    <2> QED BY <1>3, <1>12, <2>1, <2>2, <2>3, AboveLeast
  <1> QED BY <1>3, <1>4, <1>9, <1>10, <1>11, <1>13 DEF S, new, names

\* The files replaced, and where they and their snapshots are in Preserved.
LEMMA ReplacedAre ==
  ASSUME NEW d, Fit(d)
  PROVE  /\ DOMAIN d.files = 1..Len(d.files) /\ DOMAIN d.locks = 1..Len(d.locks)
         /\ ToSet(Replaced(d)) = {d.files[i] : i \in {j \in 1..Len(d.files) : d.files[j].previous # None}}
         /\ \A i \in 1..Len(d.files) :
              /\ Len(Ordered(d)) + i \in 1..Len(Preserved(d))
              /\ Preserved(d)[Len(Ordered(d)) + i] = d.files[i]
         /\ \A file \in ToSet(Replaced(d)) :
              \E x \in 1..Len(Ordered(d)) :
                /\ x \in 1..Len(Preserved(d))
                /\ Preserved(d)[x] = d.snapshots[file.path]
                /\ d.snapshots[file.path] = Creation(d.snapshots[file.path].path, file.previous)
  <1> DEFINE P == {i \in DOMAIN d.files : d.files[i].previous # None}
             sel == Selected(d.files, P)
  <1>1. DOMAIN d.files = 1..Len(d.files) /\ DOMAIN d.locks = 1..Len(d.locks)
    BY DeclarationTypes, LenProperties
  <1>2. Replaced(d) = sel
    BY DEF Replaced
  <1> HIDE DEF P
  <1>3. /\ sel \in Seq(FileDeclarations)
        /\ \E from \in [1..Len(sel) -> 1..Len(d.files)] :
             /\ \A x \in 1..Len(sel) : from[x] \in P /\ sel[x] = d.files[from[x]]
             /\ \A x, y \in 1..Len(sel) : from[x] = from[y] => x = y
             /\ \A i \in 1..Len(d.files) : i \in P => \E x \in 1..Len(sel) : from[x] = i
    <2>1. d.files \in Seq(FileDeclarations)
      BY DeclarationTypes
    <2> QED BY <2>1, SelectedAt, SMTT(30)
  <1> HIDE DEF sel
  <1>4. PICK from \in [1..Len(sel) -> 1..Len(d.files)] :
             /\ \A x \in 1..Len(sel) : from[x] \in P /\ sel[x] = d.files[from[x]]
             /\ \A i \in 1..Len(d.files) : i \in P => \E x \in 1..Len(sel) : from[x] = i
    BY <1>3
  <1>5. DOMAIN sel = 1..Len(sel)
    BY <1>3, LenProperties
  <1>6. ToSet(Replaced(d)) = {sel[x] : x \in 1..Len(sel)}
    BY <1>2, <1>5 DEF ToSet
  <1>7. {sel[x] : x \in 1..Len(sel)} = {d.files[i] : i \in {j \in 1..Len(d.files) : j \in P}}
    <2>1. ASSUME NEW x \in 1..Len(sel)
          PROVE  sel[x] \in {d.files[i] : i \in {j \in 1..Len(d.files) : j \in P}}
      <3>1. from[x] \in 1..Len(d.files) /\ from[x] \in P /\ sel[x] = d.files[from[x]]
        BY <1>4
      <3> QED BY ONLY <3>1
    <2>2. ASSUME NEW i \in 1..Len(d.files), i \in P
          PROVE  d.files[i] \in {sel[x] : x \in 1..Len(sel)}
      <3>1. PICK x \in 1..Len(sel) : from[x] = i
        BY <1>4, <2>2
      <3>2. sel[x] = d.files[i]
        BY <1>4, <3>1
      <3> QED BY ONLY <3>2, x \in 1..Len(sel)
    <2> QED BY ONLY <2>1, <2>2
  <1>8. {j \in 1..Len(d.files) : j \in P} = {j \in 1..Len(d.files) : d.files[j].previous # None}
    BY <1>1 DEF P
  <1>9. ASSUME NEW i \in 1..Len(d.files)
        PROVE  /\ Len(Ordered(d)) + i \in 1..Len(Preserved(d))
               /\ Preserved(d)[Len(Ordered(d)) + i] = d.files[i]
    <2>1. /\ Preserved(d) = Ordered(d) \o d.files
          /\ Ordered(d) \in Seq(FileDeclarations) /\ d.files \in Seq(FileDeclarations)
      BY DeclarationTypes DEF Preserved
    <2>2. Preserved(d)[Len(Ordered(d)) + i] = d.files[i]
      BY <2>1, ConcatAt
    <2>3. /\ Len(Preserved(d)) \in Nat /\ Len(Ordered(d)) \in Nat /\ Len(d.files) \in Nat
          /\ Len(Preserved(d)) = Len(Ordered(d)) + Len(d.files)
      BY Sizes
    <2>4. Len(Ordered(d)) + i \in 1..Len(Preserved(d))
      BY ONLY <2>3, i \in 1..Len(d.files)
    <2> QED BY ONLY <2>2, <2>4
  <1>10. ASSUME NEW file \in ToSet(Replaced(d))
         PROVE  \E x \in 1..Len(Ordered(d)) :
                  /\ x \in 1..Len(Preserved(d))
                  /\ Preserved(d)[x] = d.snapshots[file.path]
                  /\ d.snapshots[file.path] = Creation(d.snapshots[file.path].path, file.previous)
    <2>1. PICK x \in 1..Len(Replaced(d)) : Replaced(d)[x] = file
      BY <1>2, <1>6
    <2>2. /\ Len(Ordered(d)) = Len(Replaced(d))
          /\ Ordered(d)[x] = d.snapshots[file.path]
          /\ Ordered(d)[x] = Creation(Ordered(d)[x].path, file.previous)
      BY <2>1, DeclarationTypes
    <2>3. x \in 1..Len(Preserved(d))
      <3> DEFINE o == Len(Ordered(d))
                 n == Len(Preserved(d))
                 l == Len(d.files)
      <3>1. o \in Nat /\ l \in Nat /\ n = o + l /\ x \in 1..o
        BY <2>2, Sizes
      <3> HIDE DEF o, n, l
      <3>2. x \in 1..n
        BY <3>1
      <3> QED BY <3>2 DEF n
    <2>4. Preserved(d)[x] = Ordered(d)[x]
      BY <2>2, <2>3, PreservedAt, Sizes
    <2> QED BY <2>2, <2>3, <2>4
  <1> QED BY <1>1, <1>6, <1>7, <1>8, <1>9, <1>10

\* What exists has its place in Declared.
LEMMA ExistingAt ==
  ASSUME NEW d, Fit(d)
  PROVE  /\ Existing(d) = {d.files[i].path : i \in {j \in 1..Len(d.files) : d.files[j].previous # None}}
                            \cup {d.locks[i].path : i \in {j \in 1..Len(d.locks) : d.locks[j].previous # None}}
         /\ \A i \in 1..Len(d.files) :
              /\ Len(Ordered(d)) + i \in DOMAIN Declared(d)
              /\ Declared(d)[Len(Ordered(d)) + i] = d.files[i]
         /\ \A i \in 1..Len(d.locks) :
              /\ Len(Preserved(d)) + i \in DOMAIN Declared(d)
              /\ Declared(d)[Len(Preserved(d)) + i].path = d.locks[i].path
              /\ Names(Declared(d)[Len(Preserved(d)) + i]) = {d.locks[i].path}
              /\ d.locks[i].path \in Paths
         /\ Existing(d) \subseteq AllNames(Declared(d))
  <1>1. Existing(d) = {d.files[i].path : i \in {j \in 1..Len(d.files) : d.files[j].previous # None}}
                        \cup {d.locks[i].path : i \in {j \in 1..Len(d.locks) : d.locks[j].previous # None}}
    <2>1. {file.path : file \in ToSet(Replaced(d))}
            = {d.files[i].path : i \in {j \in 1..Len(d.files) : d.files[j].previous # None}}
      BY ReplacedAre
    <2>2. {lock.path : lock \in {l \in ToSet(d.locks) : l.previous # None}}
            = {d.locks[i].path : i \in {j \in 1..Len(d.locks) : d.locks[j].previous # None}}
      BY ReplacedAre DEF ToSet
    <2> QED BY <2>1, <2>2 DEF Existing
  <1>2. ASSUME NEW i \in 1..Len(d.files)
        PROVE  /\ Len(Ordered(d)) + i \in DOMAIN Declared(d)
               /\ Declared(d)[Len(Ordered(d)) + i] = d.files[i]
    BY ReplacedAre, DeclaredAt
  <1>3. ASSUME NEW i \in 1..Len(d.locks)
        PROVE  /\ Len(Preserved(d)) + i \in DOMAIN Declared(d)
               /\ Declared(d)[Len(Preserved(d)) + i].path = d.locks[i].path
               /\ Names(Declared(d)[Len(Preserved(d)) + i]) = {d.locks[i].path}
               /\ d.locks[i].path \in Paths
    <2>1. d.locks[i] \in LockDeclarations
      BY DeclarationTypes, ElementOfSeq
    <2>2. /\ Len(Preserved(d)) + i \in DOMAIN Declared(d)
          /\ Declared(d)[Len(Preserved(d)) + i] = LockFile(d.locks[i])
      BY DeclaredAt
    <2>3. /\ LockFile(d.locks[i]).path = d.locks[i].path
          /\ LockFile(d.locks[i]).temporary = None /\ d.locks[i].path \in Paths
      BY <2>1, LockFileValues, CreationValues
    <2>4. Names(LockFile(d.locks[i])) = {d.locks[i].path}
      BY <2>3, PathFacts DEF Names
    <2> QED BY <2>2, <2>3, <2>4
  <1>4. Existing(d) \subseteq AllNames(Declared(d))
    <2> SUFFICES ASSUME NEW p \in Existing(d) PROVE p \in AllNames(Declared(d))
      OBVIOUS
    <2>1. \E i \in DOMAIN Declared(d) : Declared(d)[i].path = p
      BY <1>1, <1>2, <1>3
    <2> QED BY <2>1, NamesAre
  <1> QED BY <1>1, <1>2, <1>3, <1>4

\* Two places of Declared with the same path are one.
LEMMA OnePlace ==
  ASSUME NEW d, Fit(d), NEW i \in DOMAIN Declared(d), NEW j \in DOMAIN Declared(d),
         Names(Declared(d)[i]) \cap Names(Declared(d)[j]) # {}
  PROVE  i = j
  BY NamesAre

\* The bytes of what exists.
LEMMA PreviousIs ==
  ASSUME NEW d, Fit(d)
  PROVE  /\ \A i \in 1..Len(d.files) : d.files[i].previous # None =>
              PreviousOf(d, d.files[i].path) = d.files[i].previous
         /\ \A i \in 1..Len(d.locks) : d.locks[i].previous # None =>
              PreviousOf(d, d.locks[i].path) = d.locks[i].previous
         /\ \A i, j \in 1..Len(d.locks) : d.locks[i].path = d.locks[j].path => i = j
  <1>0. Len(Ordered(d)) \in Nat /\ Len(d.files) \in Nat /\ Len(Preserved(d)) = Len(Ordered(d)) + Len(d.files)
    BY Sizes
  <1>1. ASSUME NEW i \in 1..Len(d.locks), NEW j \in 1..Len(d.locks), d.locks[i].path = d.locks[j].path
        PROVE  i = j
    <2>1. Len(Preserved(d)) + i = Len(Preserved(d)) + j
      <3> DEFINE a == Len(Preserved(d)) + i
                 b == Len(Preserved(d)) + j
      <3>1. /\ a \in DOMAIN Declared(d) /\ b \in DOMAIN Declared(d)
            /\ Names(Declared(d)[a]) = {d.locks[i].path} /\ Names(Declared(d)[b]) = {d.locks[j].path}
        BY ExistingAt
      <3> HIDE DEF a, b
      <3>2. a = b
        BY <1>1, <3>1, OnePlace
      <3> QED BY <3>2 DEF a, b
    <2>2. Len(Preserved(d)) \in Nat
      BY Sizes
    <2> QED BY <2>1, <2>2
  <1>2. ASSUME NEW i \in 1..Len(d.files), NEW j \in 1..Len(d.locks)
        PROVE  d.files[i].path # d.locks[j].path
    <2>1. SUFFICES ASSUME d.files[i].path = d.locks[j].path PROVE FALSE
      OBVIOUS
    <2>2. Len(Ordered(d)) + i = Len(Preserved(d)) + j
      <3> DEFINE a == Len(Ordered(d)) + i
                 b == Len(Preserved(d)) + j
      <3>1. /\ a \in DOMAIN Declared(d) /\ b \in DOMAIN Declared(d)
            /\ Declared(d)[a] = d.files[i] /\ Names(Declared(d)[b]) = {d.locks[j].path}
        BY ExistingAt
      <3> HIDE DEF a, b
      <3>2. d.files[i].path \in Names(Declared(d)[a])
        BY <3>1, NamesAre
      <3>3. a = b
        BY <2>1, <3>1, <3>2, OnePlace
      <3> QED BY <3>3 DEF a, b
    <2> DEFINE o == Len(Ordered(d))
               n == Len(d.files)
    <2>3. o \in Nat /\ n \in Nat /\ o + i = (o + n) + j /\ i \in 1..n /\ j \in Nat /\ j >= 1
      BY <1>0, <2>2, Sizes
    <2> HIDE DEF o, n
    <2> QED BY <2>3
  <1>3. ASSUME NEW i \in 1..Len(d.files), NEW j \in 1..Len(d.files), d.files[i].path = d.files[j].path
        PROVE  i = j
    <2>1. Len(Ordered(d)) + i = Len(Ordered(d)) + j
      <3> DEFINE a == Len(Ordered(d)) + i
                 b == Len(Ordered(d)) + j
      <3>1. /\ a \in DOMAIN Declared(d) /\ b \in DOMAIN Declared(d)
            /\ Declared(d)[a] = d.files[i] /\ Declared(d)[b] = d.files[j]
        BY ExistingAt
      <3> HIDE DEF a, b
      <3>2. d.files[i].path \in Names(Declared(d)[a]) /\ d.files[j].path \in Names(Declared(d)[b])
        BY <3>1, NamesAre
      <3>3. a = b
        BY <1>3, <3>1, <3>2, OnePlace
      <3> QED BY <3>3 DEF a, b
    <2> QED BY <1>0, <2>1
  <1>4. ASSUME NEW i \in 1..Len(d.files)
        PROVE  PreviousOf(d, d.files[i].path) = d.files[i].previous
    <2>1. ~ \E lock \in ToSet(d.locks) : lock.path = d.files[i].path
      <3>1. ToSet(d.locks) = {d.locks[j] : j \in 1..Len(d.locks)}
        BY ReplacedAre DEF ToSet
      <3> QED BY <1>2, <3>1
    <2>2. d.files[i] \in ToSet(d.files)
      BY ReplacedAre DEF ToSet
    <2>3. \A file \in ToSet(d.files) : file.path = d.files[i].path => file = d.files[i]
      <3>1. ToSet(d.files) = {d.files[j] : j \in 1..Len(d.files)}
        BY ReplacedAre DEF ToSet
      <3> QED BY <1>3, <3>1
    <2>4. (CHOOSE file \in ToSet(d.files) : file.path = d.files[i].path) = d.files[i]
      BY <2>2, <2>3
    <2> QED BY <2>1, <2>4 DEF PreviousOf
  <1>5. ASSUME NEW i \in 1..Len(d.locks)
        PROVE  PreviousOf(d, d.locks[i].path) = d.locks[i].previous
    <2>1. d.locks[i] \in ToSet(d.locks)
      BY ReplacedAre DEF ToSet
    <2>2. \A lock \in ToSet(d.locks) : lock.path = d.locks[i].path => lock = d.locks[i]
      BY <1>1, ReplacedAre DEF ToSet
    <2>3. (CHOOSE lock \in ToSet(d.locks) : lock.path = d.locks[i].path) = d.locks[i]
      BY <2>1, <2>2
    <2> QED BY <2>1, <2>3 DEF PreviousOf
  <1> QED BY <1>1, <1>4, <1>5

\* What a group writes exists only when it is the file it replaces.
LEMMA WritingAre ==
  ASSUME NEW d, Fit(d), NEW b \in Writing(d)
  PROVE  /\ \A p \in Names(FileOf(d, b)) \cap Existing(d) :
              FileOf(d, b).previous # None /\ p = FileOf(d, b).path
         /\ FileOf(d, b).previous # None =>
              \E i \in 1..Len(d.files) :
                b - File0(d) = Len(Ordered(d)) + i /\ FileOf(d, b) = d.files[i]
         /\ FileOf(d, b).path \in AllNames(Declared(d))
         /\ Names(FileOf(d, b)) \subseteq AllNames(Declared(d))
         /\ \A p \in Names(FileOf(d, b)) : ParentOf[p] = ParentOf[FileOf(d, b).path]
  <1> DEFINE f == FileOf(d, b)
             m == Len(Preserved(d))
             o == Len(Ordered(d))
             n == Len(d.files)
  <1>0. m \in Nat /\ o \in Nat /\ n \in Nat /\ m = o + n
    BY Sizes
  <1>1. PICK pos \in [Writing(d) -> DOMAIN Declared(d)] :
           /\ \A c \in Writing(d) : /\ Declared(d)[pos[c]] = FileOf(d, c)
                                    /\ c \notin SetupGroups(d) => pos[c] = c - File0(d)
           /\ \A c \in SetupGroups(d) : \E i \in 1..Len(d.locks) :
                pos[c] = m + i /\ d.locks[i].previous = None
    BY GroupPositions
  <1> DEFINE x == pos[b]
  <1>2. x \in DOMAIN Declared(d) /\ Declared(d)[x] = f
    BY <1>1
  <1>3. ASSUME NEW i \in 1..n PROVE o + i \in DOMAIN Declared(d) /\ Declared(d)[o + i] = d.files[i]
    BY ExistingAt
  <1>4. ASSUME NEW i \in 1..Len(d.locks)
        PROVE  m + i \in DOMAIN Declared(d) /\ Names(Declared(d)[m + i]) = {d.locks[i].path}
    BY ExistingAt
  <1>5. b \notin SetupGroups(d) => x \in 1..m /\ x = b - File0(d)
    BY <1>1, FileGroupsAre
  <1>6. b \in SetupGroups(d) => \E i \in 1..Len(d.locks) : x = m + i /\ d.locks[i].previous = None
    BY <1>1
  <1>7. /\ Existing(d) = {d.files[i].path : i \in {j \in 1..n : d.files[j].previous # None}}
                            \cup {d.locks[i].path : i \in {j \in 1..Len(d.locks) : d.locks[j].previous # None}}
    BY ExistingAt
  <1>8. f.previous # None => \E i \in 1..n : b - File0(d) = o + i /\ f = d.files[i]
    <2> HAVE f.previous # None
    <2>1. b \notin SetupGroups(d)
      <3> SUFFICES ASSUME b \in SetupGroups(d) PROVE FALSE
        OBVIOUS
      <3>1. f = LockFile(NewLocks(d)[b - Setup0(d)])
        BY DEF FileOf
      <3> QED BY <3>1, CreationValues DEF LockFile
    <2>2. x \in 1..m /\ x = b - File0(d) /\ f = Preserved(d)[x]
      BY <1>5, <2>1, FileGroupsAre
    <2>3. \/ x <= o /\ f = Ordered(d)[x]
          \/ x > o /\ x - o \in 1..n /\ f = d.files[x - o]
      BY <2>2, PreservedAt
    <2>4. ~ (x <= o /\ f = Ordered(d)[x])
      <3> SUFFICES ASSUME x <= o, f = Ordered(d)[x] PROVE FALSE
        OBVIOUS
      <3>1. x \in 1..Len(Replaced(d))
        <4>1. Len(Replaced(d)) = o
          BY DeclarationTypes
        <4> HIDE DEF o, m, x
        <4> QED BY <1>0, <2>2, <4>1
      <3>2. f = Creation(Ordered(d)[x].path, Replaced(d)[x].previous)
        BY <3>1, DeclarationTypes
      <3> QED BY <3>2, CreationValues
    <2> HIDE DEF o, m, x, n, f
    <2>5. x - o \in 1..n /\ f = d.files[x - o] /\ x = o + (x - o)
      BY <1>0, <2>2, <2>3, <2>4
    <2> QED BY <2>2, <2>5
  <1>9. ASSUME NEW p \in Names(f) \cap Existing(d) PROVE f.previous # None /\ p = f.path
    <2>1. CASE \E i \in 1..n : d.files[i].previous # None /\ p = d.files[i].path
      <3>1. PICK i \in 1..n : d.files[i].previous # None /\ p = d.files[i].path
        BY <2>1
      <3>2. o + i \in DOMAIN Declared(d) /\ Declared(d)[o + i] = d.files[i]
        BY <1>3
      <3>3. p \in Names(Declared(d)[o + i])
        BY <3>1, <3>2, NamesAre
      <3>4. o + i = x
        BY <1>2, <3>2, <3>3, OnePlace
      <3>5. f = d.files[i]
        BY <1>2, <3>2, <3>4
      <3> QED BY <3>1, <3>5
    <2>2. CASE \E i \in 1..Len(d.locks) : d.locks[i].previous # None /\ p = d.locks[i].path
      <3>1. PICK i \in 1..Len(d.locks) : d.locks[i].previous # None /\ p = d.locks[i].path
        BY <2>2
      <3>2. m + i = x
        BY <1>2, <1>4, <3>1, OnePlace
      <3> HIDE DEF x, m
      <3>3. b \in SetupGroups(d)
        BY <1>0, <1>5, <3>2
      <3>4. PICK k \in 1..Len(d.locks) : x = m + k /\ d.locks[k].previous = None
        BY <1>6, <3>3
      <3>5. k = i
        BY <1>0, <3>2, <3>4
      <3> QED BY <3>1, <3>4, <3>5
    <2> QED BY <1>7, <2>1, <2>2
  <1>10. /\ f.path \in AllNames(Declared(d)) /\ Names(f) \subseteq AllNames(Declared(d))
         /\ \A p \in Names(f) : ParentOf[p] = ParentOf[f.path]
    BY <1>2, NamesAre
  <1> QED BY <1>8, <1>9, <1>10

\* The file system a plan starts from.
LEMMA StartsFrom ==
  ASSUME NEW d, Fit(d)
  PROVE  /\ \A b \in DirGroups(d) : FileSystemOf(d)[d.directories[b]] = None
         /\ \A b \in Writing(d) :
              IF FileOf(d, b).previous = None
              THEN FileSystemOf(d)[FileOf(d, b).path] = None
              ELSE /\ FileSystemOf(d)[FileOf(d, b).temporary] = None
                   /\ FileSystemOf(d)[FileOf(d, b).path] = File(FileOf(d, b).previous, TRUE)
         /\ \A q \in Standing(d) : FileSystemOf(d)[q] = Directory
         /\ \A i \in 1..Len(d.locks) : d.locks[i].previous # None =>
              FileSystemOf(d)[d.locks[i].path] = File(d.locks[i].previous, TRUE)
  <1>1. ASSUME NEW p \in Places, p \notin Existing(d), p \notin Standing(d)
        PROVE  FileSystemOf(d)[p] = None
    BY <1>1 DEF FileSystemOf
  <1>2. ASSUME NEW p \in Existing(d) PROVE FileSystemOf(d)[p] = File(PreviousOf(d, p), TRUE)
    <2>1. p \in Places /\ p \notin Standing(d)
      BY ExistingAt, NamesAre, PathFacts
    <2> QED BY <2>1 DEF FileSystemOf
  <1>3. ASSUME NEW q \in Standing(d) PROVE FileSystemOf(d)[q] = Directory
    <2>1. q \in Places /\ q \notin Existing(d)
      BY AboveAre, ExistingAt, NamesAre
    <2> QED BY <2>1 DEF FileSystemOf
  <1>4. ASSUME NEW b \in DirGroups(d) PROVE FileSystemOf(d)[d.directories[b]] = None
    <2>1. d.directories[b] \in ToSet(d.directories)
      <3>1. DOMAIN d.directories = 1..Setup0(d)
        BY DeclarationTypes, LenProperties DEF Setup0
      <3> QED BY <3>1 DEF ToSet, DirGroups
    <2>2. d.directories[b] \in Places /\ d.directories[b] \notin Existing(d) /\ d.directories[b] \notin Standing(d)
      BY <2>1, NamesAre, ExistingAt, PathFacts
    <2> QED BY <1>1, <2>2
  <1>5. ASSUME NEW b \in Writing(d)
        PROVE  IF FileOf(d, b).previous = None
               THEN FileSystemOf(d)[FileOf(d, b).path] = None
               ELSE /\ FileSystemOf(d)[FileOf(d, b).temporary] = None
                    /\ FileSystemOf(d)[FileOf(d, b).path] = File(FileOf(d, b).previous, TRUE)
    <2> DEFINE f == FileOf(d, b)
    <2>1. f \in FileDeclarations /\ TemporaryFits(f)
      BY FileOfType
    <2>2. /\ \A p \in Names(f) \cap Existing(d) : f.previous # None /\ p = f.path
          /\ Names(f) \cap Standing(d) = {}
          /\ f.previous # None => \E i \in 1..Len(d.files) : f = d.files[i]
      BY WritingAre, NamesAre
    <2>3. /\ f.path \in Paths /\ f.path \in Names(f)
          /\ f.previous # None => /\ f.temporary \in Paths /\ f.temporary \in Names(f)
                                  /\ f.temporary # f.path
      BY <2>1, FileTypes, PathFacts DEF Names
    <2> HIDE DEF f
    <2>4. CASE f.previous = None
      <3>1. f.path \notin Existing(d) /\ f.path \notin Standing(d) /\ f.path \in Places
        BY <2>2, <2>3, <2>4, PathFacts
      <3> QED BY <1>1, <2>4, <3>1 DEF f
    <2>5. CASE f.previous # None
      <3>1. f.temporary \notin Existing(d) /\ f.temporary \notin Standing(d) /\ f.temporary \in Places
        BY <2>2, <2>3, <2>5, PathFacts
      <3>2. PICK i \in 1..Len(d.files) : f = d.files[i]
        BY <2>2, <2>5
      <3>3. f.path \in Existing(d)
        BY <2>5, <3>2, ExistingAt
      <3>4. PreviousOf(d, f.path) = f.previous
        BY <2>5, <3>2, PreviousIs
      <3> QED BY <1>1, <1>2, <2>5, <3>1, <3>3, <3>4 DEF f
    <2> QED BY <2>4, <2>5 DEF f
  <1>6. ASSUME NEW i \in 1..Len(d.locks), d.locks[i].previous # None
        PROVE  FileSystemOf(d)[d.locks[i].path] = File(d.locks[i].previous, TRUE)
    <2>1. d.locks[i].path \in Existing(d)
      BY <1>6, ExistingAt
    <2> QED BY <1>2, <1>6, <2>1, PreviousIs
  <1> QED BY <1>3, <1>4, <1>5, <1>6

\* The groups that write nothing take or release a lock.
LEMMA LockGroupsAre ==
  ASSUME NEW d, Fit(d), NEW b \in 1..End(d), b \notin DirGroups(d), b \notin Writing(d)
  PROVE  \/ \E j \in 1..Len(d.locks) : b = Lock0(d) + j
         \/ \E j \in 1..Len(d.locks) : b = (End(d) + 1) - j
  <1> DEFINE l == Len(d.locks)
  <1>1. /\ l \in Nat /\ Setup0(d) \in Nat /\ Lock0(d) \in Nat /\ File0(d) = Lock0(d) + l
        /\ Unlock0(d) \in Nat /\ End(d) = Unlock0(d) + l
        /\ File0(d) <= Unlock0(d)
    BY Sizes
  <1> HIDE DEF l
  <1>2. b \in (Lock0(d) + 1)..File0(d) \/ b \in (Unlock0(d) + 1)..End(d)
    BY <1>1 DEF DirGroups, Writing, SetupGroups, FileGroups
  <1>3. CASE b \in (Lock0(d) + 1)..File0(d)
    <2>1. b - Lock0(d) \in 1..l /\ b = Lock0(d) + (b - Lock0(d))
      BY <1>1, <1>3
    <2> QED BY <2>1 DEF l
  <1>4. CASE b \in (Unlock0(d) + 1)..End(d)
    <2>1. (End(d) + 1) - b \in 1..l /\ b = (End(d) + 1) - ((End(d) + 1) - b)
      BY <1>1, <1>4
    <2> QED BY <2>1 DEF l
  <1> QED BY <1>2, <1>3, <1>4

\* The groups of a lock come after the new lock files and around the files.
LEMMA LockPlaces ==
  ASSUME NEW d, Fit(d), NEW j \in 1..Len(d.locks)
  PROVE  /\ Lock0(d) + j \in 1..End(d) /\ (End(d) + 1) - j \in 1..End(d)
         /\ Lock0(d) + j \notin DirGroups(d) /\ Lock0(d) + j \notin Writing(d)
         /\ (End(d) + 1) - j \notin DirGroups(d) /\ (End(d) + 1) - j \notin Writing(d)
         /\ \A b \in FileGroups(d) : Lock0(d) + j < b /\ b < (End(d) + 1) - j
         /\ \A b \in DirGroups(d) \cup SetupGroups(d) : b < Lock0(d) + j /\ b < (End(d) + 1) - j
         /\ Lock0(d) + j < (End(d) + 1) - j
         /\ \A i \in 1..Len(d.locks) : Lock0(d) + i < (End(d) + 1) - j
  <1> DEFINE l == Len(d.locks)
  <1>1. /\ l \in Nat /\ Setup0(d) \in Nat /\ Lock0(d) \in Nat /\ File0(d) = Lock0(d) + l
        /\ Unlock0(d) \in Nat /\ End(d) = Unlock0(d) + l /\ Setup0(d) <= Lock0(d)
        /\ File0(d) <= Unlock0(d) /\ j \in 1..l
    BY Sizes
  <1> HIDE DEF l
  <1>2. \A i \in 1..l : Lock0(d) + i < (End(d) + 1) - j
    BY <1>1
  <1>3. /\ Lock0(d) + j \in 1..End(d) /\ (End(d) + 1) - j \in 1..End(d)
        /\ Lock0(d) + j \notin DirGroups(d) /\ Lock0(d) + j \notin Writing(d)
        /\ (End(d) + 1) - j \notin DirGroups(d) /\ (End(d) + 1) - j \notin Writing(d)
    BY <1>1 DEF DirGroups, Writing, SetupGroups, FileGroups
  <1>4. \A b \in FileGroups(d) : Lock0(d) + j < b /\ b < (End(d) + 1) - j
    BY <1>1 DEF FileGroups
  <1>5. \A b \in DirGroups(d) \cup SetupGroups(d) : b < Lock0(d) + j /\ b < (End(d) + 1) - j
    BY <1>1 DEF SetupGroups, DirGroups
  <1> QED BY <1>1, <1>2, <1>3, <1>4, <1>5 DEF l

\* The size of every group.
LEMMA GroupSizes ==
  ASSUME NEW d, Fit(d), NEW b \in 1..End(d)
  PROVE  Len(Groups(d)[b]) = GroupSize(d, b) /\ GroupSize(d, b) \in 1..4
  <1>1. CASE b \in DirGroups(d)
    <2>1. d.directories[b] \in Paths
      BY <1>1, DeclarationTypes, ElementOfSeq DEF DirGroups, Setup0
    <2> QED BY <1>1, <2>1, GroupsAre, DirectoryGroupType DEF GroupSize
  <1>2. CASE b \in Writing(d)
    <2>1. b \notin DirGroups(d)
      BY <1>2, FileGroupsAre
    <2>2. Len(FileGroup(FileOf(d, b))) = IF FileOf(d, b).previous = None THEN 3 ELSE 4
      BY <1>2, FileOfType, FileGroupType
    <2>3. Groups(d)[b] = FileGroup(FileOf(d, b))
      BY <1>2, GroupsAre
    <2> QED BY <1>2, <2>1, <2>2, <2>3 DEF GroupSize
  <1>3. CASE b \notin DirGroups(d) /\ b \notin Writing(d)
    <2>1. \E j \in 1..Len(d.locks) : \E c \in Opcodes : Groups(d)[b] = LockGroup(d.locks[j], c)
      BY <1>3, LockGroupsAre, GroupsAre DEF Opcodes
    <2>2. PICK j \in 1..Len(d.locks), c \in Opcodes : Groups(d)[b] = LockGroup(d.locks[j], c)
      BY <2>1
    <2>3. d.locks[j] \in LockDeclarations
      BY DeclarationTypes, ElementOfSeq
    <2> QED BY <1>3, <2>2, <2>3, LockGroupType DEF GroupSize
  <1> QED BY <1>1, <1>2, <1>3

\* Where the operations of each group are in the plan.
LEMMA StartIs ==
  ASSUME NEW d, Fit(d)
  PROVE  /\ \A b \in 1..(End(d) + 1) : Start(d)[b] \in Nat
         /\ Start(d)[1] = 0
         /\ \A b \in 1..End(d) : Start(d)[b + 1] = Start(d)[b] + GroupSize(d, b)
         /\ \A b \in 1..End(d), c \in 1..(End(d) + 1) :
              b < c => Start(d)[b] + GroupSize(d, b) <= Start(d)[c]
         /\ Len(Plan(d)) = Start(d)[End(d) + 1] /\ Len(Plan(d)) \in Nat
         /\ \A b \in 1..End(d) : \A o \in 1..GroupSize(d, b) :
              /\ Start(d)[b] + o \in 1..Len(Plan(d))
              /\ Plan(d)[Start(d)[b] + o] = Groups(d)[b][o]
         /\ \A k \in 1..Len(Plan(d)) :
              \E b \in 1..End(d) : \E o \in 1..GroupSize(d, b) : k = Start(d)[b] + o
  <1> DEFINE gs == Groups(d)
             at == Start(d)
             n == End(d)
  <1>1. gs \in Seq(Seq(Operations)) /\ Len(gs) = n /\ n \in Nat
    BY GroupsAre, Sizes
  <1>2. StartsAt(gs, at)
    <2>1. \E x : StartsAt(gs, x)
      BY <1>1, StartsExist
    <2> QED BY <2>1 DEF Start
  <1>3. \A b \in 1..n : Len(gs[b]) = GroupSize(d, b) /\ GroupSize(d, b) \in 1..4
    BY GroupSizes
  <1>4. Plan(d) = FlattenSeq(gs)
    BY DEF Plan
  <1> HIDE DEF gs, at, n
  <1>5. /\ \A b \in 1..(n + 1) : at[b] \in Nat
        /\ \A b \in 1..n : at[b + 1] = at[b] + GroupSize(d, b)
        /\ \A b \in 1..n, c \in 1..(n + 1) : b < c => at[b] + GroupSize(d, b) <= at[c]
    BY <1>1, <1>2, <1>3, StartsOrder
  <1>6. at[1] = 0
    BY <1>2 DEF StartsAt
  <1>7. /\ Len(Plan(d)) = at[n + 1]
        /\ \A b \in 1..n : \A o \in 1..GroupSize(d, b) : Plan(d)[at[b] + o] = gs[b][o]
    <2>0. gs \in Seq(Seq(Operations)) /\ StartsAt(gs, at)
      BY <1>1, <1>2
    <2>1. /\ FlattenSeq(gs) \in Seq(Operations)
          /\ Len(FlattenSeq(gs)) = at[Len(gs) + 1]
          /\ \A b \in 1..Len(gs) : \A o \in 1..Len(gs[b]) :
               FlattenSeq(gs)[at[b] + o] = gs[b][o]
      BY ONLY <2>0, FlattenAt
    <2> QED BY <1>1, <1>3, <1>4, <2>1
  <1>8. ASSUME NEW b \in 1..n, NEW o \in 1..GroupSize(d, b) PROVE at[b] + o \in 1..at[n + 1]
    <2>1. b \in 1..(n + 1) /\ n + 1 \in 1..(n + 1) /\ b < n + 1
      BY <1>1
    <2>2. at[b] \in Nat /\ at[n + 1] \in Nat /\ at[b] + GroupSize(d, b) <= at[n + 1]
      BY <1>5, <2>1
    <2>3. GroupSize(d, b) \in 1..4
      BY <1>3
    <2> QED BY <2>2, <2>3
  <1>9. ASSUME NEW k \in 1..at[n + 1]
        PROVE  \E b \in 1..n : \E o \in 1..GroupSize(d, b) : k = at[b] + o
    <2>1. \E b \in 1..Len(gs) : \E o \in 1..Len(gs[b]) : k = at[b] + o
      BY <1>1, <1>2, Located
    <2> QED BY <1>1, <1>3, <2>1
  <1>10. at[n + 1] \in Nat
    BY <1>1, <1>5
  <1> QED BY <1>5, <1>6, <1>7, <1>8, <1>9, <1>10 DEF gs, at, n

\* Before its first operation and after its last, a group does not change.
LEMMA GroupEnds ==
  ASSUME NEW F, NEW K, NEW d, Fit(d), NEW b \in 1..End(d), NEW c \in Int
  PROVE  /\ c <= 0 => (GroupAt(F, K, d, b, c) <=> GroupAt(F, K, d, b, 0))
         /\ c >= GroupSize(d, b) => (GroupAt(F, K, d, b, c) <=> GroupAt(F, K, d, b, 4))
  <1>1. CASE b \in DirGroups(d)
    <2>1. b \notin Writing(d)
      BY <1>1, FileGroupsAre
    <2>2. \A q : /\ c <= 0 => (DirectoryAt(F, K, q, c) <=> DirectoryAt(F, K, q, 0))
                 /\ c >= 2 => (DirectoryAt(F, K, q, c) <=> DirectoryAt(F, K, q, 4))
      BY DEF DirectoryAt
    <2> QED BY <1>1, <2>1, <2>2 DEF GroupAt, GroupSize
  <1>2. CASE b \in Writing(d)
    <2>1. b \notin DirGroups(d)
      BY <1>2, FileGroupsAre
    <2>2. \A f : /\ c <= 0 => (CreationAt(F, K, f, c) <=> CreationAt(F, K, f, 0))
                 /\ c >= 3 => (CreationAt(F, K, f, c) <=> CreationAt(F, K, f, 4))
      <3> SUFFICES ASSUME NEW f
                   PROVE  /\ c <= 0 => (CreationAt(F, K, f, c) <=> CreationAt(F, K, f, 0))
                          /\ c >= 3 => (CreationAt(F, K, f, c) <=> CreationAt(F, K, f, 4))
        OBVIOUS
      <3>1. c <= 0 => /\ ~ c = 1 /\ ~ c = 2 /\ ~ c = 3 /\ ~ c >= 3 /\ ~ c >= 4 /\ c <= 2
        OBVIOUS
      <3>2. c >= 3 => /\ ~ c <= 0 /\ ~ c = 1 /\ ~ c = 2
        OBVIOUS
      <3>3. /\ 0 <= 0 /\ ~ 0 = 1 /\ ~ 0 = 2 /\ ~ 0 = 3 /\ ~ 0 >= 3 /\ ~ 0 >= 4 /\ 0 <= 2
            /\ ~ 4 <= 0 /\ ~ 4 = 1 /\ ~ 4 = 2 /\ ~ 4 = 3 /\ 4 >= 3 /\ 4 >= 4 /\ ~ 4 <= 2
        OBVIOUS
      <3> QED BY <3>1, <3>2, <3>3, Zenon DEF CreationAt
    <2>3. \A f : /\ c <= 0 => (ReplacementAt(F, K, f, c) <=> ReplacementAt(F, K, f, 0))
                 /\ c >= 4 => (ReplacementAt(F, K, f, c) <=> ReplacementAt(F, K, f, 4))
      <3> SUFFICES ASSUME NEW f
                   PROVE  /\ c <= 0 => (ReplacementAt(F, K, f, c) <=> ReplacementAt(F, K, f, 0))
                          /\ c >= 4 => (ReplacementAt(F, K, f, c) <=> ReplacementAt(F, K, f, 4))
        OBVIOUS
      <3>1. c <= 0 => /\ ~ c = 1 /\ ~ c = 2 /\ ~ c = 3 /\ ~ c >= 3 /\ ~ c >= 4 /\ c <= 2
        OBVIOUS
      <3>2. c >= 4 => /\ ~ c <= 0 /\ ~ c = 1 /\ ~ c = 2 /\ ~ c = 3 /\ ~ c <= 2
        OBVIOUS
      <3>3. /\ 0 <= 0 /\ ~ 0 = 1 /\ ~ 0 = 2 /\ ~ 0 = 3 /\ ~ 0 >= 3 /\ ~ 0 >= 4 /\ 0 <= 2
            /\ ~ 4 <= 0 /\ ~ 4 = 1 /\ ~ 4 = 2 /\ ~ 4 = 3 /\ 4 >= 3 /\ 4 >= 4 /\ ~ 4 <= 2
        OBVIOUS
      <3> QED BY <3>1, <3>2, <3>3, Zenon DEF ReplacementAt
    <2> QED BY <1>2, <2>1, <2>2, <2>3 DEF GroupAt, GroupSize, FileAt
  <1>3. CASE b \notin DirGroups(d) /\ b \notin Writing(d)
    BY <1>3 DEF GroupAt
  <1> QED BY <1>1, <1>2, <1>3

\* The state of the plan at an operation is that of its group.
LEMMA InStepAt ==
  ASSUME NEW F, NEW K, NEW d, Fit(d), NEW b \in 1..End(d), NEW c \in 0..GroupSize(d, b)
  PROVE  InStep(F, K, d, (Start(d)[b] + c) + 1) <=> Prefix(F, K, d, b, c)
  <1> DEFINE at == Start(d)
             n == End(d)
             k == (at[b] + c) + 1
  <1>0. n \in Nat /\ \A e \in 1..n : GroupSize(d, e) \in 1..4 /\ e \in 1..(n + 1)
    BY Sizes, GroupSizes
  <1>1. /\ \A e \in 1..(n + 1) : at[e] \in Nat
        /\ \A x \in 1..n, y \in 1..(n + 1) : x < y => at[x] + GroupSize(d, x) <= at[y]
    BY StartIs
  <1> HIDE DEF at, n
  <1>2. at[b] \in Nat /\ c \in Nat /\ c <= GroupSize(d, b) /\ b \in 1..n /\ k \in Nat
    BY <1>0, <1>1 DEF n
  <1>3. ASSUME NEW e \in 1..n
        PROVE  /\ (k - 1) - at[e] \in Int
               /\ e < b => (k - 1) - at[e] >= GroupSize(d, e)
               /\ e > b => (k - 1) - at[e] <= 0
               /\ e = b => (k - 1) - at[e] = c
    <2>1. at[e] \in Nat /\ GroupSize(d, e) \in 1..4 /\ GroupSize(d, b) \in 1..4
      BY <1>0, <1>1, <1>2
    <2>2. e < b => at[e] + GroupSize(d, e) <= at[b]
      BY <1>0, <1>1, <1>2
    <2>3. e > b => at[b] + GroupSize(d, b) <= at[e]
      BY <1>0, <1>1, <1>2
    <2> QED BY <1>2, <2>1, <2>2, <2>3
  <1>4. ASSUME NEW e \in 1..n
        PROVE  GroupAt(F, K, d, e, (k - 1) - at[e])
                 <=> /\ e < b => GroupAt(F, K, d, e, 4)
                     /\ e > b => GroupAt(F, K, d, e, 0)
                     /\ e = b => GroupAt(F, K, d, e, c)
    <2> DEFINE x == (k - 1) - at[e]
    <2>1. /\ x \in Int /\ (e < b => x >= GroupSize(d, e)) /\ (e > b => x <= 0) /\ (e = b => x = c)
      BY <1>3
    <2>2. e < b \/ e > b \/ e = b
      BY <1>0, <1>2
    <2>3. ~ (e < b /\ e > b) /\ ~ (e < b /\ e = b) /\ ~ (e > b /\ e = b)
      BY <1>0, <1>2
    <2> HIDE DEF x
    <2>4. /\ x <= 0 => (GroupAt(F, K, d, e, x) <=> GroupAt(F, K, d, e, 0))
          /\ x >= GroupSize(d, e) => (GroupAt(F, K, d, e, x) <=> GroupAt(F, K, d, e, 4))
      BY <2>1, GroupEnds DEF n
    <2>5. CASE e < b
      <3>1. GroupAt(F, K, d, e, x) <=> GroupAt(F, K, d, e, 4)
        BY <2>1, <2>4, <2>5
      <3> QED BY <2>3, <2>5, <3>1 DEF x
    <2>6. CASE e > b
      <3>1. GroupAt(F, K, d, e, x) <=> GroupAt(F, K, d, e, 0)
        BY <2>1, <2>4, <2>6
      <3> QED BY <2>3, <2>6, <3>1 DEF x
    <2>7. CASE e = b
      <3>1. x = c
        BY <2>1, <2>7
      <3> QED BY <2>3, <2>7, <3>1 DEF x
    <2> QED BY <2>2, <2>5, <2>6, <2>7
  <1> HIDE DEF k
  <1>5. InStep(F, K, d, k) <=> \A e \in 1..n : GroupAt(F, K, d, e, (k - 1) - at[e])
    BY DEF InStep, at, n
  <1>6. Prefix(F, K, d, b, c)
          <=> \A e \in 1..n : /\ e < b => GroupAt(F, K, d, e, 4)
                              /\ e > b => GroupAt(F, K, d, e, 0)
                              /\ e = b => GroupAt(F, K, d, e, c)
    BY DEF Prefix, n
  <1> QED BY <1>4, <1>5, <1>6 DEF k, at

\* Comparisons the stages of a group are told apart by.
LEMMA Numbers ==
  /\ 0 <= 0 /\ ~ 0 = 1 /\ ~ 0 = 2 /\ ~ 0 = 3 /\ ~ 0 >= 2 /\ ~ 0 >= 3 /\ ~ 0 >= 4 /\ 0 <= 2
  /\ ~ 1 <= 0 /\ 1 = 1 /\ ~ 1 = 2 /\ ~ 1 = 3 /\ ~ 1 >= 2 /\ ~ 1 >= 3 /\ ~ 1 >= 4 /\ 1 <= 2
  /\ ~ 2 <= 0 /\ ~ 2 = 1 /\ 2 = 2 /\ ~ 2 = 3 /\ 2 >= 2 /\ ~ 2 >= 3 /\ ~ 2 >= 4 /\ 2 <= 2
  /\ ~ 3 <= 0 /\ ~ 3 = 1 /\ ~ 3 = 2 /\ 3 = 3 /\ 3 >= 2 /\ 3 >= 3 /\ ~ 3 >= 4 /\ ~ 3 <= 2
  /\ ~ 4 <= 0 /\ ~ 4 = 1 /\ ~ 4 = 2 /\ ~ 4 = 3 /\ 4 >= 2 /\ 4 >= 3 /\ 4 >= 4 /\ ~ 4 <= 2
  OBVIOUS

\* What a group has done after each number of its operations.
LEMMA DirectoryStages ==
  ASSUME NEW F, NEW K, NEW q
  PROVE  /\ DirectoryAt(F, K, q, 0) <=> Settled(F, K, q, None)
         /\ DirectoryAt(F, K, q, 1) <=> Pending(F, K, q, Directory, {None, Directory})
         /\ DirectoryAt(F, K, q, 2) <=> Settled(F, K, q, Directory)
         /\ DirectoryAt(F, K, q, 4) <=> Settled(F, K, q, Directory)
  BY Numbers, Zenon DEF DirectoryAt

\* The stages of a creation and of a replacement, one by one.
LEMMA CreationStages ==
  ASSUME NEW F, NEW K, NEW f
  PROVE  /\ CreationAt(F, K, f, 0) <=> Settled(F, K, f.path, None)
         /\ CreationAt(F, K, f, 1) <=> Fresh(F, K, f.path, f.candidate, FALSE)
         /\ CreationAt(F, K, f, 2) <=> Fresh(F, K, f.path, f.candidate, TRUE)
         /\ CreationAt(F, K, f, 3) <=> Settled(F, K, f.path, File(f.candidate, TRUE))
         /\ CreationAt(F, K, f, 4) <=> Settled(F, K, f.path, File(f.candidate, TRUE))
  BY Numbers, Zenon DEF CreationAt

LEMMA ReplacementStages ==
  ASSUME NEW F, NEW K, NEW f
  PROVE  /\ ReplacementAt(F, K, f, 0)
              <=> Settled(F, K, f.temporary, None) /\ Settled(F, K, f.path, File(f.previous, TRUE))
         /\ ReplacementAt(F, K, f, 1)
              <=> Fresh(F, K, f.temporary, f.candidate, FALSE) /\ Settled(F, K, f.path, File(f.previous, TRUE))
         /\ ReplacementAt(F, K, f, 2)
              <=> Fresh(F, K, f.temporary, f.candidate, TRUE) /\ Settled(F, K, f.path, File(f.previous, TRUE))
         /\ ReplacementAt(F, K, f, 3) <=> Swapped(F, K, f)
         /\ ReplacementAt(F, K, f, 4)
              <=> Settled(F, K, f.temporary, None) /\ Settled(F, K, f.path, File(f.candidate, TRUE))
  BY Numbers, Zenon DEF ReplacementAt

\* A group that writes none of W, and is not under way, stays as it is.
LEMMA GroupFrame ==
  ASSUME NEW F, NEW K, NEW F2, NEW K2, NEW W, NEW d, Fit(d), NEW e \in 1..End(d),
         NEW c \in {0, 4}, Frame(F, K, F2, K2, W), GroupNames(d, e) \cap W = {},
         GroupAt(F, K, d, e, c)
  PROVE  GroupAt(F2, K2, d, e, c)
  <1>1. ASSUME NEW q \in Places \ W, NEW x, Settled(F, K, q, x) PROVE Settled(F2, K2, q, x)
    BY <1>1 DEF Frame, Settled
  <1>2. GroupNames(d, e) \subseteq Places
    BY GroupNamesApart, PathFacts
  <1>3. c = 0 \/ c = 4
    OBVIOUS
  <1>4. CASE e \in DirGroups(d)
    <2> DEFINE q == d.directories[e]
    <2>1. q \in Places \ W /\ e \notin Writing(d)
      BY <1>2, <1>4, FileGroupsAre DEF GroupNames
    <2>2. DirectoryAt(F, K, q, c)
      BY <1>4 DEF GroupAt
    <2> HIDE DEF q
    <2>3. DirectoryAt(F2, K2, q, c)
      BY <1>1, <1>3, <2>1, <2>2, DirectoryStages
    <2> QED BY <2>1, <2>3 DEF GroupAt, q
  <1>5. CASE e \in Writing(d)
    <2> DEFINE f == FileOf(d, e)
    <2>1. f \in FileDeclarations /\ TemporaryFits(f) /\ e \notin DirGroups(d)
      BY <1>5, FileOfType, FileGroupsAre
    <2>2. Names(f) \subseteq Places \ W
      BY <1>2, <1>5, <2>1 DEF GroupNames
    <2>3. FileAt(F, K, f, c)
      BY <1>5 DEF GroupAt
    <2> HIDE DEF f
    <2>4. f.path \in Places \ W /\ (f.previous # None => f.temporary \in Places \ W)
      BY <2>1, <2>2, FileTypes, PathFacts DEF Names
    <2>5. CASE f.previous = None
      <3>1. CreationAt(F2, K2, f, c)
        BY <1>1, <1>3, <2>3, <2>4, <2>5, CreationStages DEF FileAt
      <3> QED BY <1>5, <2>1, <2>5, <3>1 DEF GroupAt, FileAt, f
    <2>6. CASE f.previous # None
      <3>1. ReplacementAt(F, K, f, c)
        BY <2>3, <2>6 DEF FileAt
      <3>2. CASE c = 0
        <4>1. Settled(F, K, f.temporary, None) /\ Settled(F, K, f.path, File(f.previous, TRUE))
          BY <3>1, <3>2, ReplacementStages
        <4>2. Settled(F2, K2, f.temporary, None) /\ Settled(F2, K2, f.path, File(f.previous, TRUE))
          BY <1>1, <2>4, <2>6, <4>1
        <4>3. ReplacementAt(F2, K2, f, 0)
          BY <4>2, ReplacementStages
        <4> QED BY <1>5, <2>1, <2>6, <3>2, <4>3 DEF GroupAt, FileAt, f
      <3>3. CASE c = 4
        <4>1. Settled(F, K, f.temporary, None) /\ Settled(F, K, f.path, File(f.candidate, TRUE))
          BY <3>1, <3>3, ReplacementStages
        <4>2. Settled(F2, K2, f.temporary, None) /\ Settled(F2, K2, f.path, File(f.candidate, TRUE))
          BY <1>1, <2>4, <2>6, <4>1
        <4>3. ReplacementAt(F2, K2, f, 4)
          BY <4>2, ReplacementStages
        <4> QED BY <1>5, <2>1, <2>6, <3>3, <4>3 DEF GroupAt, FileAt, f
      <3> QED BY <1>3, <3>2, <3>3
    <2> QED BY <2>5, <2>6
  <1>6. CASE e \notin DirGroups(d) /\ e \notin Writing(d)
    BY <1>6 DEF GroupAt
  <1> QED BY <1>4, <1>5, <1>6

\* What no group writes is not disturbed by any.
LEMMA GroundFrame ==
  ASSUME NEW F, NEW K, NEW F2, NEW K2, NEW d, Fit(d), NEW b \in 1..End(d),
         NEW W \in SUBSET GroupNames(d, b), Frame(F, K, F2, K2, W), Ground(F, K, d)
  PROVE  Ground(F2, K2, d)
  <1>1. ASSUME NEW q \in Places \ W, NEW x, Settled(F, K, q, x) PROVE Settled(F2, K2, q, x)
    BY <1>1 DEF Frame, Settled
  <1>2. ASSUME NEW q \in Standing(d) PROVE q \in Places \ W
    BY AboveAre, GroupNamesApart
  <1>3. ASSUME NEW i \in DOMAIN d.locks, d.locks[i].previous # None
        PROVE  d.locks[i].path \in Places \ W
    <2>1. i \in 1..Len(d.locks)
      BY ReplacedAre
    <2>2. d.locks[i].path \in Paths
      BY <2>1, ExistingAt
    <2> QED BY <1>3, <2>1, <2>2, PathFacts, GroupNamesApart
  <1> QED BY <1>1, <1>2, <1>3 DEF Ground

\* A step of a group leaves the others as they are.
LEMMA PrefixFrame ==
  ASSUME NEW F, NEW K, NEW F2, NEW K2, NEW d, Fit(d), NEW b \in 1..End(d),
         NEW W \in SUBSET GroupNames(d, b), Frame(F, K, F2, K2, W),
         NEW c, Prefix(F, K, d, b, c)
  PROVE  \A e \in 1..End(d) : /\ e < b => GroupAt(F2, K2, d, e, 4)
                              /\ e > b => GroupAt(F2, K2, d, e, 0)
  <1> SUFFICES ASSUME NEW e \in 1..End(d)
               PROVE  /\ e < b => GroupAt(F2, K2, d, e, 4)
                      /\ e > b => GroupAt(F2, K2, d, e, 0)
    OBVIOUS
  <1>1. e # b => GroupNames(d, e) \cap W = {}
    BY GroupNamesApart
  <1>2. e < b \/ e > b => e # b
    BY Sizes
  <1>3. CASE e < b
    BY <1>1, <1>2, <1>3, GroupFrame, Sizes DEF Prefix
  <1>4. CASE e > b
    BY <1>1, <1>2, <1>4, GroupFrame, Sizes DEF Prefix
  <1> QED BY <1>3, <1>4, Sizes

\* Each kind of operation disturbs the places it names only.
LEMMA Frames ==
  ASSUME NEW F, NEW K, NEW F2, NEW K2, NEW p, NEW w, NEW x
  PROVE  /\ Wrote(F, K, F2, K2, p, x) => Frame(F, K, F2, K2, {p})
         /\ Renamed(F, K, F2, K2, w, p) => Frame(F, K, F2, K2, {w, p})
         /\ SyncedFile(F, K, F2, K2, p) => Frame(F, K, F2, K2, {p})
         /\ SyncedDirectory(F, K, F2, K2, p) => Frame(F, K, F2, K2, {})
  BY DEF Wrote, Renamed, SyncedFile, SyncedDirectory, Frame

\* The operations of a group, one after the other.
LEMMA WriteStep ==
  ASSUME NEW F, NEW K, NEW F2, NEW K2, NEW p, NEW x,
         Settled(F, K, p, None), Wrote(F, K, F2, K2, p, x)
  PROVE  Pending(F2, K2, p, x, {None, x})
  BY DEF Settled, Wrote, Pending

\* What each kind of operation does to one place: a file is synchronised,
LEMMA SyncStep ==
  ASSUME NEW F, NEW K, NEW F2, NEW K2, NEW p, NEW x \in Bytes,
         Fresh(F, K, p, x, FALSE), SyncedFile(F, K, F2, K2, p)
  PROVE  Fresh(F2, K2, p, x, TRUE)
  <1> DEFINE y == File(x, FALSE)
             z == File(x, TRUE)
  <1>1. F[p] = y /\ K[p] = {None, y}
    BY DEF Fresh, Pending
  <1>2. y # None /\ File(y.bytes, TRUE) = z
    BY PathFacts, FileValues
  <1>3. F2[p] = z /\ K2[p] = (K[p] \ {y}) \cup {z}
    BY <1>1, <1>2 DEF SyncedFile
  <1> HIDE DEF y, z
  <1>4. K2[p] = {None, z}
    BY <1>1, <1>2, <1>3
  <1> QED BY <1>3, <1>4 DEF Fresh, Pending, z

\* its entry becomes certain with its directory,
LEMMA SettleStep ==
  ASSUME NEW F, NEW K, NEW F2, NEW K2, NEW p \in Paths, NEW x, NEW m, NEW q, q = ParentOf[p],
         Pending(F, K, p, x, m), SyncedDirectory(F, K, F2, K2, q)
  PROVE  Settled(F2, K2, p, x)
  BY PathFacts DEF Settled, SyncedDirectory, Pending

\* and what is certain elsewhere stays.
LEMMA OtherStep ==
  ASSUME NEW F, NEW K, NEW F2, NEW K2, NEW p \in Places, NEW x, NEW q, q # p, NEW y,
         Settled(F, K, p, x), SyncedFile(F, K, F2, K2, q) \/ Wrote(F, K, F2, K2, q, y)
  PROVE  Settled(F2, K2, p, x)
  BY DEF Settled, SyncedFile, Wrote

\* The steps of a new directory, of a creation and of a replacement.
LEMMA DirectorySteps ==
  ASSUME NEW F, NEW K, NEW F2, NEW K2, NEW q \in Paths
  PROVE  /\ DirectoryAt(F, K, q, 0) /\ Wrote(F, K, F2, K2, q, Directory)
              => DirectoryAt(F2, K2, q, 1)
         /\ DirectoryAt(F, K, q, 1) /\ SyncedDirectory(F, K, F2, K2, ParentOf[q])
              => DirectoryAt(F2, K2, q, 2)
  BY PathFacts, DirectoryStages, WriteStep, SettleStep

LEMMA CreationSteps ==
  ASSUME NEW F, NEW K, NEW F2, NEW K2,
         NEW f \in FileDeclarations, TemporaryFits(f), f.previous = None
  PROVE  /\ CreationAt(F, K, f, 0) /\ Wrote(F, K, F2, K2, f.path, File(f.candidate, FALSE))
              => CreationAt(F2, K2, f, 1)
         /\ CreationAt(F, K, f, 1) /\ SyncedFile(F, K, F2, K2, f.path)
              => CreationAt(F2, K2, f, 2)
         /\ CreationAt(F, K, f, 2) /\ SyncedDirectory(F, K, F2, K2, ParentOf[f.path])
              => CreationAt(F2, K2, f, 3)
  <1>1. f.path \in Paths /\ f.path \in Places /\ f.candidate \in Bytes
    BY FileTypes, PathFacts
  <1>2. ASSUME CreationAt(F, K, f, 0), Wrote(F, K, F2, K2, f.path, File(f.candidate, FALSE))
        PROVE  CreationAt(F2, K2, f, 1)
    <2>1. Settled(F, K, f.path, None)
      BY <1>2, CreationStages
    <2>2. Pending(F2, K2, f.path, File(f.candidate, FALSE), {None, File(f.candidate, FALSE)})
      BY <1>2, <2>1, WriteStep
    <2>3. Fresh(F2, K2, f.path, f.candidate, FALSE)
      BY <2>2 DEF Fresh
    <2> QED BY <2>3, CreationStages
  <1>3. ASSUME CreationAt(F, K, f, 1), SyncedFile(F, K, F2, K2, f.path)
        PROVE  CreationAt(F2, K2, f, 2)
    BY <1>1, <1>3, CreationStages, SyncStep
  <1>4. ASSUME CreationAt(F, K, f, 2), SyncedDirectory(F, K, F2, K2, ParentOf[f.path])
        PROVE  CreationAt(F2, K2, f, 3)
    <2>1. Fresh(F, K, f.path, f.candidate, TRUE)
      BY <1>4, CreationStages
    <2>2. Pending(F, K, f.path, File(f.candidate, TRUE), {None, File(f.candidate, TRUE)})
      BY <2>1 DEF Fresh
    <2>3. Settled(F2, K2, f.path, File(f.candidate, TRUE))
      BY <1>1, <1>4, <2>2, SettleStep
    <2> QED BY <2>3, CreationStages
  <1> QED BY <1>2, <1>3, <1>4

LEMMA ReplacementSteps ==
  ASSUME NEW F, NEW K, NEW F2, NEW K2,
         NEW f \in FileDeclarations, TemporaryFits(f), f.previous # None
  PROVE  /\ ReplacementAt(F, K, f, 0)
              /\ Wrote(F, K, F2, K2, f.temporary, File(f.candidate, FALSE))
              => ReplacementAt(F2, K2, f, 1)
         /\ ReplacementAt(F, K, f, 1) /\ SyncedFile(F, K, F2, K2, f.temporary)
              => ReplacementAt(F2, K2, f, 2)
         /\ ReplacementAt(F, K, f, 2) /\ Renamed(F, K, F2, K2, f.temporary, f.path)
              => ReplacementAt(F2, K2, f, 3)
         /\ ReplacementAt(F, K, f, 3) /\ SyncedDirectory(F, K, F2, K2, ParentOf[f.path])
              => ReplacementAt(F2, K2, f, 4)
  <1>1. /\ f.path \in Paths /\ f.path \in Places
        /\ f.temporary \in Paths /\ f.temporary \in Places /\ f.temporary # f.path
        /\ ParentOf[f.temporary] = ParentOf[f.path] /\ f.candidate \in Bytes
    BY FileTypes, PathFacts
  <1>2. ASSUME ReplacementAt(F, K, f, 0), Wrote(F, K, F2, K2, f.temporary, File(f.candidate, FALSE))
        PROVE  ReplacementAt(F2, K2, f, 1)
    <2>1. Fresh(F2, K2, f.temporary, f.candidate, FALSE)
      <3>1. Settled(F, K, f.temporary, None)
        BY <1>2, ReplacementStages
      <3>2. Pending(F2, K2, f.temporary, File(f.candidate, FALSE), {None, File(f.candidate, FALSE)})
        BY <1>2, <3>1, WriteStep
      <3> QED BY <3>2 DEF Fresh
    <2>2. Settled(F2, K2, f.path, File(f.previous, TRUE))
      <3>1. Settled(F, K, f.path, File(f.previous, TRUE))
        BY <1>2, ReplacementStages
      <3> QED BY <1>1, <1>2, <3>1, OtherStep
    <2> QED BY <2>1, <2>2, ReplacementStages
  <1>3. ASSUME ReplacementAt(F, K, f, 1), SyncedFile(F, K, F2, K2, f.temporary)
        PROVE  ReplacementAt(F2, K2, f, 2)
    <2>1. Fresh(F2, K2, f.temporary, f.candidate, TRUE)
      <3>1. Fresh(F, K, f.temporary, f.candidate, FALSE)
        BY <1>3, ReplacementStages
      <3> QED BY <1>1, <1>3, <3>1, SyncStep
    <2>2. Settled(F2, K2, f.path, File(f.previous, TRUE))
      <3>1. Settled(F, K, f.path, File(f.previous, TRUE))
        BY <1>3, ReplacementStages
      <3> QED BY <1>1, <1>3, <3>1, OtherStep
    <2> QED BY <2>1, <2>2, ReplacementStages
  <1>4. ASSUME ReplacementAt(F, K, f, 2), Renamed(F, K, F2, K2, f.temporary, f.path)
        PROVE  ReplacementAt(F2, K2, f, 3)
    <2> DEFINE t == f.temporary
               p == f.path
               y == File(f.candidate, TRUE)
               z == File(f.previous, TRUE)
    <2>1. Fresh(F, K, t, f.candidate, TRUE) /\ Settled(F, K, p, z)
      BY <1>4, ReplacementStages
    <2>2. F[t] = y /\ K[t] = {None, y} /\ F[p] = z /\ K[p] = {z}
      BY <2>1 DEF Fresh, Pending, Settled
    <2>3. /\ F2[t] = None /\ K2[t] = K[t] \cup {None}
          /\ F2[p] = F[t] /\ K2[p] = K[p] \cup {F[t]}
      BY <1>4 DEF Renamed
    <2> HIDE DEF t, p, y, z
    <2>4. F2[t] = None /\ K2[t] = {None, y} /\ F2[p] = y /\ K2[p] = {z, y}
      BY <2>2, <2>3
    <2>5. Pending(F2, K2, t, None, {None, y}) /\ Pending(F2, K2, p, y, {z, y})
      BY <2>4 DEF Pending
    <2>6. Swapped(F2, K2, f)
      BY <2>5 DEF Swapped, t, p, y, z
    <2> QED BY <2>6, ReplacementStages
  <1>5. ASSUME ReplacementAt(F, K, f, 3), SyncedDirectory(F, K, F2, K2, ParentOf[f.path])
        PROVE  ReplacementAt(F2, K2, f, 4)
    <2>1. Swapped(F, K, f)
      BY <1>5, ReplacementStages
    <2>2. Settled(F2, K2, f.temporary, None)
      BY <1>1, <1>5, <2>1, SettleStep DEF Swapped
    <2>3. Settled(F2, K2, f.path, File(f.candidate, TRUE))
      BY <1>1, <1>5, <2>1, SettleStep DEF Swapped
    <2> QED BY <2>2, <2>3, ReplacementStages
  <1> QED BY <1>2, <1>3, <1>4, <1>5

\* A group at any of its operations is partly done.
LEMMA PiecesHave ==
  ASSUME NEW f, NEW u \in {f.candidate, Torn}, NEW s \in BOOLEAN
  PROVE  File(u, s) \in Pieces(f) /\ None \in Pieces(f)
  BY DEF Pieces

\* Certain entries are pending with one choice.
LEMMA PendingIs ==
  ASSUME NEW F, NEW K, NEW q, NEW x, NEW m
  PROVE  /\ Pending(F, K, q, x, m) <=> F[q] = x /\ K[q] = m
         /\ Settled(F, K, q, x) <=> Pending(F, K, q, x, {x})
  BY DEF Pending, Settled

\* Each stage of a group is one a stopped run may leave.
LEMMA FreshIsPiece ==
  ASSUME NEW F, NEW K, NEW f, NEW q, f.candidate \in Bytes,
         NEW s \in BOOLEAN, Fresh(F, K, q, f.candidate, s)
  PROVE  F[q] \in Pieces(f) /\ K[q] \subseteq Pieces(f) /\ F[q] # None
  <1> DEFINE x == File(f.candidate, s)
  <1>1. x \in Pieces(f) /\ None \in Pieces(f) /\ x # None
    BY PiecesHave, PathFacts
  <1>2. Pending(F, K, q, x, {None, x})
    BY DEF Fresh
  <1> HIDE DEF x
  <1>3. F[q] = x /\ K[q] = {None, x}
    BY <1>2, PendingIs
  <1> QED BY <1>1, <1>3

LEMMA CreationIsPartly ==
  ASSUME NEW F, NEW K, NEW f, NEW c \in 0..4, CreationAt(F, K, f, c), f.candidate \in Bytes
  PROVE  CreationPartly(F, K, f)
  <1> DEFINE p == f.path
             y == File(f.candidate, TRUE)
  <1>1. None \in Pieces(f) /\ y \in Pieces(f) /\ y # None
    BY PiecesHave, PathFacts
  <1>2. c = 0 \/ c = 1 \/ c = 2 \/ c = 3 \/ c = 4
    OBVIOUS
  <1>3. \/ Settled(F, K, p, None) \/ Fresh(F, K, p, f.candidate, FALSE)
        \/ Fresh(F, K, p, f.candidate, TRUE) \/ Settled(F, K, p, y)
    BY <1>2, CreationStages
  <1>4. ASSUME NEW s \in BOOLEAN, Fresh(F, K, p, f.candidate, s)
        PROVE  F[p] \in Pieces(f) /\ K[p] \subseteq Pieces(f) /\ F[p] # None
    BY <1>4, FreshIsPiece
  <1> HIDE DEF p, y
  <1>5. F[p] \in Pieces(f) /\ K[p] \subseteq Pieces(f) /\ (F[p] = None => K[p] = {None})
    <2>1. CASE Settled(F, K, p, None)
      BY <1>1, <2>1 DEF Settled
    <2>2. CASE Settled(F, K, p, y)
      BY <1>1, <2>2 DEF Settled
    <2> QED BY <1>3, <1>4, <2>1, <2>2
  <1> QED BY <1>5 DEF CreationPartly, p

LEMMA ReplacementIsPartly ==
  ASSUME NEW F, NEW K, NEW f, NEW c \in 0..4, ReplacementAt(F, K, f, c), f.candidate \in Bytes
  PROVE  ReplacementPartly(F, K, f)
  <1> DEFINE p == f.path
             t == f.temporary
             y == File(f.candidate, TRUE)
             z == File(f.previous, TRUE)
  <1>1. None \in Pieces(f) /\ y \in Pieces(f) /\ Wholes(f) = {z, y}
    BY PiecesHave DEF Wholes
  <1>2. c = 0 \/ c = 1 \/ c = 2 \/ c = 3 \/ c = 4
    OBVIOUS
  <1>3. /\ \/ Settled(F, K, t, None) \/ Fresh(F, K, t, f.candidate, FALSE)
           \/ Fresh(F, K, t, f.candidate, TRUE) \/ Pending(F, K, t, None, {None, y})
        /\ Settled(F, K, p, z) \/ Pending(F, K, p, y, {z, y}) \/ Settled(F, K, p, y)
    BY <1>2, ReplacementStages DEF Swapped
  <1>4. ASSUME NEW s \in BOOLEAN, Fresh(F, K, t, f.candidate, s)
        PROVE  F[t] \in Pieces(f) /\ K[t] \subseteq Pieces(f) /\ F[t] # None
    BY <1>4, FreshIsPiece
  <1> HIDE DEF p, t, y, z
  <1>5. F[t] \in Pieces(f) /\ K[t] \subseteq Pieces(f)
    <2>1. CASE Settled(F, K, t, None)
      BY <1>1, <2>1 DEF Settled
    <2>2. CASE Pending(F, K, t, None, {None, y})
      BY <1>1, <2>2 DEF Pending
    <2> QED BY <1>3, <1>4, <2>1, <2>2
  <1>6. F[p] \in Wholes(f) /\ K[p] \subseteq Wholes(f)
    <2>1. CASE Settled(F, K, p, z)
      BY <1>1, <2>1 DEF Settled
    <2>2. CASE Settled(F, K, p, y)
      BY <1>1, <2>2 DEF Settled
    <2>3. CASE Pending(F, K, p, y, {z, y})
      BY <1>1, <2>3 DEF Pending
    <2> QED BY <1>3, <2>1, <2>2, <2>3
  <1> QED BY <1>5, <1>6 DEF ReplacementPartly, p, t

LEMMA DirectoryIsPartly ==
  ASSUME NEW F, NEW K, NEW q, NEW c \in 0..4, DirectoryAt(F, K, q, c)
  PROVE  DirectoryPartly(F, K, q)
  <1>1. c = 0 \/ c = 1 \/ c >= 2
    OBVIOUS
  <1>2. \/ Settled(F, K, q, None) \/ Pending(F, K, q, Directory, {None, Directory})
        \/ Settled(F, K, q, Directory)
    BY <1>1 DEF DirectoryAt
  <1> QED BY <1>2, PathFacts DEF Settled, Pending, DirectoryPartly

\* So is a group at any stage, with the groups before and after it.
LEMMA PartlyAt ==
  ASSUME NEW F, NEW K, NEW d, Fit(d), NEW b \in 1..End(d), NEW c \in 0..4, GroupAt(F, K, d, b, c)
  PROVE  GroupPartly(F, K, d, b)
  <1>1. b \in DirGroups(d) => DirectoryPartly(F, K, d.directories[b])
    BY DirectoryIsPartly DEF GroupAt
  <1>2. ASSUME b \in Writing(d)
        PROVE  IF FileOf(d, b).previous = None THEN CreationPartly(F, K, FileOf(d, b))
               ELSE ReplacementPartly(F, K, FileOf(d, b))
    <2>1. FileAt(F, K, FileOf(d, b), c)
      BY <1>2 DEF GroupAt
    <2>2. FileOf(d, b).candidate \in Bytes
      BY <1>2, FileOfType, FileTypes
    <2> QED BY <2>1, <2>2, CreationIsPartly, ReplacementIsPartly DEF FileAt
  <1> QED BY <1>1, <1>2 DEF GroupPartly

LEMMA PrefixRetained ==
  ASSUME NEW F, NEW K, NEW d, Fit(d), NEW b \in 1..End(d), NEW c \in 0..4, Prefix(F, K, d, b, c)
  PROVE  Retained(F, K, d, b) /\ RetainedAny(F, K, d)
  <1>1. GroupPartly(F, K, d, b)
    BY PartlyAt, Sizes DEF Prefix
  <1>2. Retained(F, K, d, b)
    BY <1>1 DEF Retained, Prefix
  <1>3. b \in 1..(End(d) + 1)
    BY Sizes
  <1> QED BY <1>2, <1>3 DEF RetainedAny

\* What a creation that ends after its first bytes leaves.
LEMMA TornPartly ==
  ASSUME NEW F, NEW K, NEW F2, NEW K2, NEW d, Fit(d), NEW b \in Writing(d),
         GroupAt(F, K, d, b, 0),
         NEW w, w = IF FileOf(d, b).previous = None THEN FileOf(d, b).path ELSE FileOf(d, b).temporary,
         Wrote(F, K, F2, K2, w, File(Torn, FALSE))
  PROVE  GroupPartly(F2, K2, d, b)
  <1> DEFINE f == FileOf(d, b)
             x == File(Torn, FALSE)
  <1>1. f \in FileDeclarations /\ TemporaryFits(f) /\ b \notin DirGroups(d)
    BY FileOfType, FileGroupsAre
  <1>2. FileAt(F, K, f, 0)
    BY DEF GroupAt
  <1>3. {None, x} \subseteq Pieces(f) /\ x # None
    BY PiecesHave, PathFacts
  <1>4. Settled(F, K, w, None) /\ (f.previous # None => Settled(F, K, f.path, File(f.previous, TRUE)))
    BY <1>2, CreationStages, ReplacementStages DEF FileAt
  <1>5. F2[w] = x /\ K2[w] = {None, x}
    <2>1. Pending(F2, K2, w, x, {None, x})
      BY <1>4, WriteStep
    <2> HIDE DEF x, f
    <2> QED BY <2>1 DEF Pending
  <1>6. CASE f.previous = None
    <2>1. w = f.path
      BY <1>6
    <2> HIDE DEF f, x
    <2>2. CreationPartly(F2, K2, f)
      BY <1>3, <1>5, <2>1 DEF CreationPartly
    <2> QED BY <1>1, <1>6, <2>2 DEF GroupPartly, f
  <1>7. CASE f.previous # None
    <2>1. w = f.temporary /\ f.path # w /\ f.path \in Places
      BY <1>1, <1>7, FileTypes, PathFacts
    <2>2. Settled(F2, K2, f.path, File(f.previous, TRUE))
      BY <1>4, <1>7, <2>1, OtherStep
    <2>3. F2[f.path] \in Wholes(f) /\ K2[f.path] \subseteq Wholes(f)
      BY <2>2 DEF Settled, Wholes
    <2> HIDE DEF f, x
    <2>4. ReplacementPartly(F2, K2, f)
      BY <1>3, <1>5, <2>1, <2>3 DEF ReplacementPartly
    <2> QED BY <1>1, <1>7, <2>4 DEF GroupPartly, f
  <1> QED BY <1>6, <1>7

\* What is done for a group stays within its names, and takes it one further.
LEMMA DirectoryDoes ==
  ASSUME NEW F, NEW K, NEW F2, NEW K2, NEW q \in Paths, NEW o \in 1..2,
         DirectoryDone(F, K, F2, K2, q, o), DirectoryAt(F, K, q, o - 1)
  PROVE  DirectoryAt(F2, K2, q, o) /\ Frame(F, K, F2, K2, {q})
  <1>1. o = 1 \/ o = 2
    OBVIOUS
  <1>2. CASE o = 1
    <2>1. DirectoryAt(F, K, q, 0) /\ Wrote(F, K, F2, K2, q, Directory)
      BY <1>2 DEF DirectoryDone
    <2> QED BY <1>2, <2>1, DirectorySteps, Frames
  <1>3. CASE o = 2
    <2>1. DirectoryAt(F, K, q, 1) /\ SyncedDirectory(F, K, F2, K2, ParentOf[q])
      BY <1>3 DEF DirectoryDone
    <2>2. Frame(F, K, F2, K2, {})
      BY <2>1, Frames
    <2> QED BY <1>3, <2>1, <2>2, DirectorySteps DEF Frame
  <1> QED BY <1>1, <1>2, <1>3

\* An operation takes its group from one stage to the next.
LEMMA CreationDoes ==
  ASSUME NEW F, NEW K, NEW F2, NEW K2,
         NEW f \in FileDeclarations, TemporaryFits(f), f.previous = None, NEW o \in 1..3,
         CreationDone(F, K, F2, K2, f, o), CreationAt(F, K, f, o - 1)
  PROVE  CreationAt(F2, K2, f, o) /\ Frame(F, K, F2, K2, {f.path})
  <1>1. o = 1 \/ o = 2 \/ o = 3
    OBVIOUS
  <1>2. CASE o = 1
    <2>0. CreationAt(F, K, f, 0)
      BY <1>2
    <2>1. CreationAt(F, K, f, 0) /\ Wrote(F, K, F2, K2, f.path, File(f.candidate, FALSE))
      BY <1>2, <2>0 DEF CreationDone
    <2> QED BY <1>2, <2>1, CreationSteps, Frames
  <1>3. CASE o = 2
    <2>1. CreationAt(F, K, f, 1) /\ SyncedFile(F, K, F2, K2, f.path)
      BY <1>3 DEF CreationDone
    <2> QED BY <1>3, <2>1, CreationSteps, Frames
  <1>4. CASE o = 3
    <2>1. CreationAt(F, K, f, 2) /\ SyncedDirectory(F, K, F2, K2, ParentOf[f.path])
      BY <1>4 DEF CreationDone
    <2>2. Frame(F, K, F2, K2, {})
      BY <2>1, Frames
    <2> QED BY <1>4, <2>1, <2>2, CreationSteps DEF Frame
  <1> QED BY <1>1, <1>2, <1>3, <1>4

LEMMA ReplacementDoes ==
  ASSUME NEW F, NEW K, NEW F2, NEW K2,
         NEW f \in FileDeclarations, TemporaryFits(f), f.previous # None, NEW o \in 1..4,
         ReplacementDone(F, K, F2, K2, f, o), ReplacementAt(F, K, f, o - 1)
  PROVE  ReplacementAt(F2, K2, f, o) /\ Frame(F, K, F2, K2, {f.temporary, f.path})
  <1>1. o = 1 \/ o = 2 \/ o = 3 \/ o = 4
    OBVIOUS
  <1>2. CASE o = 1
    <2>0. ReplacementAt(F, K, f, 0)
      BY <1>2
    <2>1. ReplacementAt(F, K, f, 0) /\ Wrote(F, K, F2, K2, f.temporary, File(f.candidate, FALSE))
      BY <1>2, <2>0 DEF ReplacementDone
    <2>2. Frame(F, K, F2, K2, {f.temporary})
      BY <2>1, Frames
    <2> QED BY <1>2, <2>1, <2>2, ReplacementSteps DEF Frame
  <1>3. CASE o = 2
    <2>1. ReplacementAt(F, K, f, 1) /\ SyncedFile(F, K, F2, K2, f.temporary)
      BY <1>3 DEF ReplacementDone
    <2>2. Frame(F, K, F2, K2, {f.temporary})
      BY <2>1, Frames
    <2> QED BY <1>3, <2>1, <2>2, ReplacementSteps DEF Frame
  <1>4. CASE o = 3
    <2>1. ReplacementAt(F, K, f, 2) /\ Renamed(F, K, F2, K2, f.temporary, f.path)
      BY <1>4 DEF ReplacementDone
    <2> QED BY <1>4, <2>1, ReplacementSteps, Frames
  <1>5. CASE o = 4
    <2>1. ReplacementAt(F, K, f, 3) /\ SyncedDirectory(F, K, F2, K2, ParentOf[f.path])
      BY <1>5 DEF ReplacementDone
    <2>2. Frame(F, K, F2, K2, {})
      BY <2>1, Frames
    <2> QED BY <1>5, <2>1, <2>2, ReplacementSteps DEF Frame
  <1> QED BY <1>1, <1>2, <1>3, <1>4, <1>5

LEMMA GroupDoes ==
  ASSUME NEW F, NEW K, NEW F2, NEW K2, NEW d, Fit(d), NEW b \in 1..End(d),
         NEW o \in 1..GroupSize(d, b), Done(F, K, F2, K2, d, b, o), GroupAt(F, K, d, b, o - 1)
  PROVE  GroupAt(F2, K2, d, b, o) /\ Frame(F, K, F2, K2, GroupNames(d, b))
  <1>1. CASE b \in DirGroups(d)
    <2>1. b \notin Writing(d) /\ d.directories[b] \in Paths
      BY <1>1, FileGroupsAre, DeclarationTypes, ElementOfSeq DEF DirGroups, Setup0
    <2>2. GroupSize(d, b) = 2 /\ GroupNames(d, b) = {d.directories[b]}
      BY <1>1 DEF GroupSize, GroupNames
    <2>3. o \in 1..2
      BY <2>2
    <2>4. /\ DirectoryDone(F, K, F2, K2, d.directories[b], o)
          /\ DirectoryAt(F, K, d.directories[b], o - 1)
      BY <1>1 DEF Done, GroupAt
    <2>5. DirectoryAt(F2, K2, d.directories[b], o) /\ Frame(F, K, F2, K2, {d.directories[b]})
      BY <2>1, <2>3, <2>4, DirectoryDoes
    <2> QED BY <2>1, <2>2, <2>5 DEF GroupAt
  <1>2. CASE b \in Writing(d)
    <2> DEFINE f == FileOf(d, b)
    <2>1. b \notin DirGroups(d) /\ f \in FileDeclarations /\ TemporaryFits(f)
      BY <1>2, FileGroupsAre, FileOfType
    <2>2. GroupNames(d, b) = Names(f)
      BY <1>2, <2>1 DEF GroupNames
    <2>3. FileDone(F, K, F2, K2, f, o) /\ FileAt(F, K, f, o - 1)
      BY <1>2 DEF Done, GroupAt
    <2>4. GroupSize(d, b) = IF f.previous = None THEN 3 ELSE 4
      BY <1>2, <2>1 DEF GroupSize
    <2> HIDE DEF f
    <2>5. f.path # None
      BY <2>1, FileTypes, PathFacts
    <2>6. CASE f.previous = None
      <3>1. o \in 1..3
        BY <2>4, <2>6
      <3>2. CreationAt(F2, K2, f, o) /\ Frame(F, K, F2, K2, {f.path})
        BY <2>1, <2>3, <2>6, <3>1, CreationDoes DEF FileDone, FileAt
      <3>3. Names(f) = {f.path}
        BY <2>1, <2>5, <2>6, FileTypes DEF Names
      <3> QED BY <1>2, <2>1, <2>2, <2>6, <3>2, <3>3 DEF GroupAt, FileAt, f
    <2>7. CASE f.previous # None
      <3>1. o \in 1..4
        BY <2>4, <2>7
      <3>2. ReplacementAt(F2, K2, f, o) /\ Frame(F, K, F2, K2, {f.temporary, f.path})
        BY <2>1, <2>3, <2>7, <3>1, ReplacementDoes DEF FileDone, FileAt
      <3>3. Names(f) = {f.temporary, f.path}
        BY <2>1, <2>5, <2>7, FileTypes, PathFacts DEF Names
      <3> QED BY <1>2, <2>1, <2>2, <2>7, <3>2, <3>3 DEF GroupAt, FileAt, f
    <2> QED BY <2>6, <2>7
  <1>3. CASE b \notin DirGroups(d) /\ b \notin Writing(d)
    <2>1. F2 = F /\ K2 = K
      BY <1>3 DEF Done
    <2> QED BY <1>3, <2>1 DEF GroupAt, Frame
  <1> QED BY <1>1, <1>2, <1>3

\* An operation takes the plan one further.
LEMMA DoneStep ==
  ASSUME NEW F, NEW K, NEW F2, NEW K2, NEW d, Fit(d), NEW b \in 1..End(d),
         NEW o \in 1..GroupSize(d, b), Done(F, K, F2, K2, d, b, o),
         Prefix(F, K, d, b, o - 1), Ground(F, K, d)
  PROVE  Prefix(F2, K2, d, b, o) /\ Ground(F2, K2, d)
  <1> DEFINE W == GroupNames(d, b)
  <1>1. GroupAt(F, K, d, b, o - 1)
    BY Sizes DEF Prefix
  <1>2. GroupAt(F2, K2, d, b, o) /\ Frame(F, K, F2, K2, W)
    BY <1>1, GroupDoes
  <1>3. W \in SUBSET GroupNames(d, b)
    OBVIOUS
  <1> HIDE DEF W
  <1>4. \A e \in 1..End(d) : /\ e < b => GroupAt(F2, K2, d, e, 4)
                             /\ e > b => GroupAt(F2, K2, d, e, 0)
    BY <1>2, <1>3, PrefixFrame
  <1>5. Ground(F2, K2, d)
    BY <1>2, <1>3, GroundFrame
  <1> QED BY <1>2, <1>4, <1>5 DEF Prefix

\* A creation that ends after its first bytes.
LEMMA TornStep ==
  ASSUME NEW F, NEW K, NEW F2, NEW K2, NEW d, Fit(d), NEW b \in Writing(d),
         NEW w, w = IF FileOf(d, b).previous = None THEN FileOf(d, b).path ELSE FileOf(d, b).temporary,
         Wrote(F, K, F2, K2, w, File(Torn, FALSE)),
         Prefix(F, K, d, b, 0), Ground(F, K, d)
  PROVE  RetainedAny(F2, K2, d) /\ Ground(F2, K2, d)
  <1>1. b \in 1..End(d) /\ b \notin DirGroups(d) /\ b \in 1..(End(d) + 1)
    BY FileGroupsAre, Sizes
  <1>2. GroupAt(F, K, d, b, 0)
    BY <1>1, Sizes DEF Prefix
  <1>3. GroupPartly(F2, K2, d, b)
    BY <1>2, TornPartly
  <1>4. FileOf(d, b) \in FileDeclarations /\ TemporaryFits(FileOf(d, b))
    BY FileOfType
  <1>5. w \in Names(FileOf(d, b))
    BY <1>4, FileTypes, PathFacts DEF Names
  <1>6. {w} \in SUBSET GroupNames(d, b)
    BY <1>1, <1>5 DEF GroupNames
  <1>7. Frame(F, K, F2, K2, {w})
    BY Frames
  <1>8. \A e \in 1..End(d) : /\ e < b => GroupAt(F2, K2, d, e, 4)
                             /\ e > b => GroupAt(F2, K2, d, e, 0)
    BY <1>1, <1>6, <1>7, PrefixFrame
  <1>9. Ground(F2, K2, d)
    BY <1>1, <1>6, <1>7, GroundFrame
  <1>10. Retained(F2, K2, d, b)
    BY <1>3, <1>8 DEF Retained
  <1> QED BY <1>1, <1>9, <1>10 DEF RetainedAny

\* The bytes of the files are what they are in the states a run retains.
HoldsIn(F, p, x) == IsFile(F[p]) /\ F[p].bytes = x

\* A file that is there holds its bytes.
LEMMA SettledHolds ==
  ASSUME NEW F, NEW K, NEW p, NEW x \in Bytes, NEW s \in BOOLEAN, F[p] = File(x, s)
  PROVE  HoldsIn(F, p, x) /\ F[p] # None
  BY PathFacts, FileValues DEF HoldsIn, IsFile

\* The group of a declared file, and what its path holds before and after.
LEMMA FilePlaces ==
  ASSUME NEW d, Fit(d), NEW i \in 1..Len(d.files)
  PROVE  /\ (File0(d) + Len(Ordered(d))) + i \in Writing(d)
         /\ (File0(d) + Len(Ordered(d))) + i \in FileGroups(d)
         /\ (File0(d) + Len(Ordered(d))) + i \in 1..End(d)
         /\ FileOf(d, (File0(d) + Len(Ordered(d))) + i) = d.files[i]
         /\ d.files[i] \in FileDeclarations /\ TemporaryFits(d.files[i])
  <1> DEFINE x == Len(Ordered(d)) + i
             g == (File0(d) + Len(Ordered(d))) + i
  <1>0. Len(Ordered(d)) \in Nat /\ File0(d) \in Nat /\ Unlock0(d) = File0(d) + Len(Preserved(d))
        /\ Len(Preserved(d)) \in Nat
    BY Sizes
  <1>1. x \in 1..Len(Preserved(d)) /\ Preserved(d)[x] = d.files[i]
    BY ReplacedAre
  <1>2. g = File0(d) + x
    BY <1>0
  <1> HIDE DEF x
  <1>3. /\ File0(d) + x \in Writing(d) /\ FileOf(d, File0(d) + x) = Preserved(d)[x]
        /\ Writing(d) \subseteq 1..End(d)
    BY <1>1, FileGroupsAre
  <1>4. Preserved(d)[x] \in FileDeclarations /\ TemporaryFits(Preserved(d)[x])
    BY <1>1, PreservedAt
  <1>5. File0(d) + x \in FileGroups(d)
    BY <1>0, <1>1 DEF FileGroups
  <1> QED BY <1>1, <1>2, <1>3, <1>4, <1>5

\* A file before its group and after it.
LEMMA FileBefore ==
  ASSUME NEW F, NEW K, NEW d, NEW b \in Writing(d), GroupAt(F, K, d, b, 0),
         NEW f, f = FileOf(d, b)
  PROVE  F[f.path] = IF f.previous = None THEN None ELSE File(f.previous, TRUE)
  <1>1. FileAt(F, K, f, 0)
    BY DEF GroupAt
  <1>2. CASE f.previous = None
    <2>1. CreationAt(F, K, f, 0)
      BY <1>1, <1>2 DEF FileAt
    <2>2. Settled(F, K, f.path, None)
      BY <2>1, CreationStages
    <2> QED BY <1>2, <2>2 DEF Settled
  <1>3. CASE f.previous # None
    <2>1. ReplacementAt(F, K, f, 0)
      BY <1>1, <1>3 DEF FileAt
    <2>2. Settled(F, K, f.path, File(f.previous, TRUE))
      BY <2>1, ReplacementStages
    <2> QED BY <1>3, <2>2 DEF Settled
  <1> QED BY <1>2, <1>3

LEMMA FileAfter ==
  ASSUME NEW F, NEW K, NEW d, NEW b \in Writing(d), GroupAt(F, K, d, b, 4),
         NEW f, f = FileOf(d, b)
  PROVE  /\ F[f.path] = File(f.candidate, TRUE)
         /\ Settled(F, K, f.path, File(f.candidate, TRUE))
         /\ f.previous # None => Settled(F, K, f.temporary, None)
  <1>1. FileAt(F, K, f, 4)
    BY DEF GroupAt
  <1>2. CASE f.previous = None
    <2>1. CreationAt(F, K, f, 4)
      BY <1>1, <1>2 DEF FileAt
    <2>2. Settled(F, K, f.path, File(f.candidate, TRUE))
      BY <2>1, CreationStages
    <2> QED BY <1>2, <2>2 DEF Settled
  <1>3. CASE f.previous # None
    <2>1. ReplacementAt(F, K, f, 4)
      BY <1>1, <1>3 DEF FileAt
    <2>2. Settled(F, K, f.path, File(f.candidate, TRUE)) /\ Settled(F, K, f.temporary, None)
      BY <2>1, ReplacementStages
    <2> QED BY <1>3, <2>2 DEF Settled
  <1> QED BY <1>2, <1>3

\* What a run retains has every replaced file whole,
LEMMA RetainedWhole ==
  ASSUME NEW F, NEW K, NEW d, Fit(d), RetainedAny(F, K, d),
         NEW i \in 1..Len(d.files), d.files[i].previous # None
  PROVE  HoldsIn(F, d.files[i].path, d.files[i].previous)
           \/ HoldsIn(F, d.files[i].path, d.files[i].candidate)
  <1> DEFINE g == (File0(d) + Len(Ordered(d))) + i
             f == d.files[i]
  <1>1. PICK n \in 1..(End(d) + 1) : Retained(F, K, d, n)
    BY DEF RetainedAny
  <1>2. g \in Writing(d) /\ g \in 1..End(d) /\ FileOf(d, g) = f
    BY FilePlaces
  <1>3. f.previous \in Bytes /\ f.candidate \in Bytes
    BY FilePlaces, FileTypes
  <1>4. F[f.path] = File(f.previous, TRUE) \/ F[f.path] = File(f.candidate, TRUE)
    <2>1. g < n \/ g = n \/ g > n
      BY <1>2, Sizes
    <2> HIDE DEF g, f
    <2>2. CASE g < n
      <3>1. GroupAt(F, K, d, g, 4)
        BY <1>1, <1>2, <2>2 DEF Retained
      <3> QED BY <1>2, <3>1, FileAfter
    <2>3. CASE g > n
      <3>1. f.previous # None
        BY DEF f
      <3>2. GroupAt(F, K, d, g, 0)
        BY <1>1, <1>2, <2>3 DEF Retained
      <3> QED BY <1>2, <3>1, <3>2, FileBefore
    <2>4. CASE g = n
      <3>1. f.previous # None
        BY DEF f
      <3>2. ReplacementPartly(F, K, f)
        BY <1>1, <1>2, <2>4, <3>1 DEF Retained, GroupPartly
      <3> QED BY <3>2 DEF ReplacementPartly, Wholes
    <2> QED BY <2>1, <2>2, <2>3, <2>4
  <1> QED BY <1>3, <1>4, SettledHolds

\* every original in the file or in its snapshot,
LEMMA RetainedOriginals ==
  ASSUME NEW F, NEW K, NEW d, Fit(d), RetainedAny(F, K, d),
         NEW i \in 1..Len(d.files), d.files[i].previous # None
  PROVE  HoldsIn(F, d.files[i].path, d.files[i].previous)
           \/ HoldsIn(F, d.snapshots[d.files[i].path].path, d.files[i].previous)
  <1> DEFINE g == (File0(d) + Len(Ordered(d))) + i
             f == d.files[i]
             s == d.snapshots[f.path]
  <1>1. PICK n \in 1..(End(d) + 1) : Retained(F, K, d, n)
    BY DEF RetainedAny
  <1>2. g \in Writing(d) /\ g \in 1..End(d) /\ FileOf(d, g) = f
    BY FilePlaces
  <1>3. f.previous \in Bytes /\ f.candidate \in Bytes
    BY FilePlaces, FileTypes
  <1>4. f \in ToSet(Replaced(d))
    BY ReplacedAre
  <1>5. PICK x \in 1..Len(Ordered(d)) :
           /\ x \in 1..Len(Preserved(d)) /\ Preserved(d)[x] = s
           /\ s = Creation(s.path, f.previous)
    BY <1>4, ReplacedAre
  <1>6. s.previous = None /\ s.candidate = f.previous
    BY <1>5, CreationValues
  <1>7. /\ File0(d) + x \in Writing(d) /\ FileOf(d, File0(d) + x) = s
        /\ File0(d) + x \in 1..End(d)
    BY <1>5, FileGroupsAre
  <1>8. File0(d) + x < g
    BY Sizes
  <1>9. g > n \/ File0(d) + x < n
    BY <1>2, <1>7, <1>8, Sizes
  <1> HIDE DEF g
  <1>10. F[f.path] = File(f.previous, TRUE) \/ F[s.path] = File(f.previous, TRUE)
    <2> HIDE DEF s
    <2>1. CASE g > n
      <3>1. GroupAt(F, K, d, g, 0)
        BY <1>1, <1>2, <2>1 DEF Retained
      <3>2. f.previous # None
        BY DEF f
      <3> HIDE DEF f
      <3> QED BY <1>2, <3>1, <3>2, FileBefore
    <2>2. CASE File0(d) + x < n
      <3>1. GroupAt(F, K, d, File0(d) + x, 4)
        BY <1>1, <1>7, <2>2 DEF Retained
      <3>2. F[s.path] = File(s.candidate, TRUE)
        <4> HIDE DEF f
        <4> QED BY <1>7, <3>1, FileAfter
      <3> QED BY <1>6, <3>2
    <2> QED BY <1>9, <2>1, <2>2
  <1> QED BY <1>3, <1>10, SettledHolds

\* and no changed file without the files declared before it.
LEMMA RetainedInOrder ==
  ASSUME NEW F, NEW K, NEW d, Fit(d), RetainedAny(F, K, d),
         NEW i \in 1..Len(d.files), NEW j \in 1..Len(d.files), i < j,
         d.files[j].previous # d.files[j].candidate,
         HoldsIn(F, d.files[j].path, d.files[j].candidate)
  PROVE  HoldsIn(F, d.files[i].path, d.files[i].candidate)
  <1> DEFINE first == (File0(d) + Len(Ordered(d))) + i
             next == (File0(d) + Len(Ordered(d))) + j
             f == d.files[i]
             g == d.files[j]
  <1>1. PICK n \in 1..(End(d) + 1) : Retained(F, K, d, n)
    BY DEF RetainedAny
  <1>2. /\ first \in Writing(d) /\ first \in 1..End(d) /\ FileOf(d, first) = f
        /\ next \in Writing(d) /\ next \in 1..End(d) /\ FileOf(d, next) = g
    BY FilePlaces
  <1>3. f.candidate \in Bytes /\ (g.previous # None => g.previous \in Bytes)
    BY FilePlaces, FileTypes
  <1>4. first < next
    BY Sizes
  <1>5. next > n \/ first < n
    BY <1>2, <1>4, Sizes
  <1> HIDE DEF first, next
  <1>6. ~ next > n
    <2> SUFFICES ASSUME next > n PROVE FALSE
      OBVIOUS
    <2>1. GroupAt(F, K, d, next, 0)
      BY <1>1, <1>2 DEF Retained
    <2> HIDE DEF f, g
    <2>2. F[g.path] = None \/ (g.previous # None /\ F[g.path] = File(g.previous, TRUE))
      <3>1. F[g.path] = IF g.previous = None THEN None ELSE File(g.previous, TRUE)
        <4>1. next \in Writing(d) /\ FileOf(d, next) = g
          BY <1>2
        <4> QED BY ONLY <4>1, <2>1, FileBefore
      <3> QED BY <3>1
    <2>3. F[g.path] # None /\ F[g.path].bytes = g.candidate
      BY DEF HoldsIn, IsFile, g
    <2>4. g.previous # g.candidate
      BY DEF g
    <2>5. File(g.previous, TRUE).bytes = g.previous
      BY FileValues
    <2>6. CASE F[g.path] = None
      BY <2>3, <2>6
    <2>7. CASE F[g.path] = File(g.previous, TRUE)
      BY <2>3, <2>4, <2>5, <2>7
    <2> QED BY <2>2, <2>6, <2>7
  <1>7. GroupAt(F, K, d, first, 4)
    BY <1>1, <1>2, <1>5, <1>6 DEF Retained
  <1>8. F[f.path] = File(f.candidate, TRUE)
    <2> HIDE DEF f, g
    <2> QED BY ONLY <1>2, <1>7, FileAfter
  <1> QED BY <1>3, <1>8, SettledHolds

\* The directories above what is done next are there to stay.
LEMMA StandingOrMade ==
  ASSUME NEW F, NEW K, NEW d, Fit(d), Ground(F, K, d), NEW n,
         \A e \in DirGroups(d) : e < n => GroupAt(F, K, d, e, 4)
  PROVE  \A a \in Standing(d) \cup Made(d, n) : Settled(F, K, a, Directory)
  <1>1. ASSUME NEW e \in DirGroups(d), e < n PROVE Settled(F, K, d.directories[e], Directory)
    <2>1. DirectoryAt(F, K, d.directories[e], 4)
      BY <1>1 DEF GroupAt
    <2> QED BY <2>1, DirectoryStages
  <1> QED BY <1>1 DEF Ground, Made

\* When the directory groups are complete, every directory needed is there.
LEMMA AllMade ==
  ASSUME NEW F, NEW K, NEW d, Fit(d), Ground(F, K, d),
         \A e \in DirGroups(d) : GroupAt(F, K, d, e, 4)
  PROVE  \A a \in Standing(d) \cup ToSet(d.directories) : Settled(F, K, a, Directory)
  BY StandingOrMade, AboveAre

\* What a power loss makes of the entries of a place.
LEMMA CertainAre ==
  /\ Certain(None) /\ Certain(Directory)
  /\ \A x : Certain(File(x, TRUE))
  BY FileValues DEF Certain, IsFile

\* Certain entries remain as they are, unsynchronised ones may be torn.
LEMMA RemainsCertain ==
  ASSUME NEW S, \A e \in S : Certain(e)
  PROVE  RemainsOf(S) = S
  <1>1. RemainsOf(S) = UNION {{e} : e \in S}
    BY DEF RemainsOf, Certain
  <1> QED BY <1>1

LEMMA RemainsPieces ==
  ASSUME NEW f, f.candidate \in Bytes, NEW S \in SUBSET Pieces(f)
  PROVE  RemainsOf(S) \subseteq Pieces(f)
  <1> SUFFICES ASSUME NEW e \in S
               PROVE  (IF IsFile(e) /\ ~ e.synced
                       THEN {File(e.bytes, TRUE), File(Torn, TRUE)} ELSE {e}) \subseteq Pieces(f)
    BY DEF RemainsOf
  <1>1. e \in Pieces(f)
    OBVIOUS
  <1>2. File(Torn, TRUE) \in Pieces(f) /\ File(f.candidate, TRUE) \in Pieces(f)
    BY PiecesHave
  <1>3. IsFile(e) => e.bytes \in {f.candidate, Torn}
    <2>1. \/ e = None
          \/ e = File(f.candidate, TRUE) \/ e = File(f.candidate, FALSE)
          \/ e = File(Torn, TRUE) \/ e = File(Torn, FALSE)
      BY <1>1 DEF Pieces
    <2>2. /\ File(f.candidate, TRUE).bytes = f.candidate
          /\ File(f.candidate, FALSE).bytes = f.candidate
          /\ File(Torn, TRUE).bytes = Torn /\ File(Torn, FALSE).bytes = Torn
      BY DEF File
    <2> QED BY <2>1, <2>2 DEF IsFile
  <1> QED BY <1>1, <1>2, <1>3

\* A power loss keeps what is certain under certain directories,
LEMMA LostKeeps ==
  ASSUME NEW F, NEW K, NEW F2, NEW K2, NEW E, Lost(K, F2, K2, E),
         NEW q \in Places, NEW e, Certain(e), Settled(F, K, q, e),
         q \in Paths => \A a \in Above[q] : Settled(F, K, a, Directory)
  PROVE  Settled(F2, K2, q, e)
  <1>1. ASSUME NEW p \in Places, NEW x, Certain(x), Settled(F, K, p, x) PROVE E[p] = x
    <2>1. E[p] \in RemainsOf({x})
      BY <1>1 DEF Lost, Settled
    <2>2. RemainsOf({x}) = {x}
      BY <1>1, RemainsCertain
    <2> QED BY <2>1, <2>2
  <1>2. E[q] = e
    BY <1>1
  <1>3. ASSUME q \in Paths, NEW a \in Above[q] PROVE E[a] = Directory
    BY <1>1, <1>3, CertainAre, AboveLeast
  <1>4. F2[q] = e /\ K2[q] = {e}
    BY <1>2, <1>3 DEF Lost
  <1> QED BY <1>4 DEF Settled

\* creates nothing,
LEMMA LostNone ==
  ASSUME NEW F, NEW K, NEW F2, NEW K2, NEW E, Lost(K, F2, K2, E),
         NEW q \in Places, Settled(F, K, q, None)
  PROVE  Settled(F2, K2, q, None)
  <1>1. E[q] \in RemainsOf({None})
    BY DEF Lost, Settled
  <1>2. RemainsOf({None}) = {None}
    BY CertainAre, RemainsCertain
  <1>3. F2[q] = None /\ K2[q] = {None}
    BY <1>1, <1>2 DEF Lost
  <1> QED BY <1>3 DEF Settled

\* and leaves elsewhere one of the entries that were kept, or nothing.
LEMMA LostAmong ==
  ASSUME NEW K, NEW F2, NEW K2, NEW E, Lost(K, F2, K2, E),
         NEW q \in Places, NEW S, RemainsOf(K[q]) \subseteq S
  PROVE  /\ F2[q] \in S \cup {None} /\ K2[q] = {F2[q]}
         /\ (q \in Paths => \A a \in Above[q] : E[a] = Directory) => F2[q] \in S
  BY DEF Lost

\* It does not touch what the declaration says exists already,
LEMMA LostGround ==
  ASSUME NEW F, NEW K, NEW F2, NEW K2, NEW E, Lost(K, F2, K2, E),
         NEW d, Fit(d), Ground(F, K, d)
  PROVE  Ground(F2, K2, d)
  <1>1. \A a \in Standing(d) : Settled(F, K, a, Directory)
    BY DEF Ground
  <1>2. ASSUME NEW q \in Standing(d) PROVE Settled(F2, K2, q, Directory)
    <2>1. q \in Places /\ (q \in Paths => Above[q] \subseteq Standing(d))
      BY AboveAre
    <2> QED BY <1>1, <2>1, CertainAre, LostKeeps
  <1>3. ASSUME NEW i \in DOMAIN d.locks, d.locks[i].previous # None
        PROVE  Settled(F2, K2, d.locks[i].path, File(d.locks[i].previous, TRUE))
    <2> DEFINE q == d.locks[i].path
               e == File(d.locks[i].previous, TRUE)
    <2>1. i \in 1..Len(d.locks)
      BY ReplacedAre
    <2>2. q \in Existing(d) \cap AllNames(Declared(d)) /\ q \in Paths
      BY <1>3, <2>1, ExistingAt
    <2>3. Above[q] \subseteq Standing(d) /\ q \in Places
      BY <2>2, AboveAre, PathFacts
    <2>4. Settled(F, K, q, e) /\ Certain(e)
      BY <1>3, CertainAre DEF Ground
    <2> HIDE DEF q, e
    <2>5. Settled(F2, K2, q, e)
      BY <1>1, <2>3, <2>4, LostKeeps
    <2> QED BY <2>5 DEF q, e
  <1> QED BY <1>2, <1>3 DEF Ground

\* which has the directories above every replaced file,
LEMMA ReplacedStands ==
  ASSUME NEW F, NEW K, NEW d, Fit(d), Ground(F, K, d),
         NEW b \in Writing(d), FileOf(d, b).previous # None
  PROVE  \A a \in Above[FileOf(d, b).path] : Settled(F, K, a, Directory)
  <1>1. PICK i \in 1..Len(d.files) : FileOf(d, b) = d.files[i]
    BY WritingAre
  <1>2. FileOf(d, b).path \in Existing(d)
    BY <1>1, ExistingAt
  <1>3. FileOf(d, b).path \in AllNames(Declared(d))
    BY WritingAre
  <1>4. Above[FileOf(d, b).path] \subseteq Standing(d)
    BY <1>2, <1>3, AboveAre
  <1> QED BY <1>4 DEF Ground

\* What was complete stays so, as all above it is complete.
LEMMA LostComplete ==
  ASSUME NEW F, NEW K, NEW F2, NEW K2, NEW E, Lost(K, F2, K2, E),
         NEW d, Fit(d), Ground(F, K, d), NEW b \in 1..End(d),
         \A e \in DirGroups(d) : e < b => GroupAt(F, K, d, e, 4),
         GroupAt(F, K, d, b, 4)
  PROVE  GroupAt(F2, K2, d, b, 4)
  <1>1. CASE b \in DirGroups(d)
    <2> DEFINE q == d.directories[b]
    <2>1. b \notin Writing(d) /\ q \in Paths
      BY <1>1, FileGroupsAre, DeclarationTypes, ElementOfSeq DEF DirGroups, Setup0
    <2>2. Above[q] \subseteq Standing(d) \cup Made(d, b)
      BY <1>1, AboveAre
    <2>3. \A a \in Standing(d) \cup Made(d, b) : Settled(F, K, a, Directory)
      BY StandingOrMade
    <2>4. Settled(F, K, q, Directory)
      BY <1>1, DirectoryStages DEF GroupAt
    <2> HIDE DEF q
    <2>5. Settled(F2, K2, q, Directory)
      BY <2>1, <2>2, <2>3, <2>4, PathFacts, CertainAre, LostKeeps
    <2>6. DirectoryAt(F2, K2, q, 4)
      BY <2>5, DirectoryStages
    <2> QED BY <2>1, <2>6 DEF GroupAt, q
  <1>2. CASE b \in Writing(d)
    <2> DEFINE f == FileOf(d, b)
               e == File(f.candidate, TRUE)
    <2>1. b \notin DirGroups(d) /\ f \in FileDeclarations /\ TemporaryFits(f)
      BY <1>2, FileGroupsAre, FileOfType
    <2>2. f.path \in Paths /\ f.path \in Places /\ (f.previous # None => f.temporary \in Places)
      BY <2>1, FileTypes, PathFacts
    <2>3. f.path \in AllNames(Declared(d))
      BY <1>2, WritingAre
    <2>4. \A g \in DirGroups(d) : GroupAt(F, K, d, g, 4)
      BY <1>2, FileGroupsAre
    <2>5. \A a \in Above[f.path] : Settled(F, K, a, Directory)
      BY <2>3, <2>4, AllMade, AboveAre
    <2>6. FileAt(F, K, f, 4)
      BY <1>2 DEF GroupAt
    <2> HIDE DEF f
    <2>7. ASSUME Settled(F, K, f.path, e) PROVE Settled(F2, K2, f.path, e)
      BY <2>2, <2>5, <2>7, CertainAre, LostKeeps
    <2>8. FileAt(F2, K2, f, 4)
      <3>1. CASE f.previous = None
        BY <2>6, <2>7, <3>1, CreationStages DEF FileAt
      <3>2. CASE f.previous # None
        <4>1. Settled(F, K, f.temporary, None) /\ Settled(F, K, f.path, e)
          BY <2>6, <3>2, ReplacementStages DEF FileAt
        <4>2. Settled(F2, K2, f.temporary, None) /\ Settled(F2, K2, f.path, e)
          BY <2>2, <2>7, <3>2, <4>1, LostNone
        <4>3. ReplacementAt(F2, K2, f, 4)
          BY <4>2, ReplacementStages
        <4> QED BY <3>2, <4>3 DEF FileAt
      <3> QED BY <3>1, <3>2
    <2> QED BY <2>1, <2>8 DEF GroupAt, f
  <1>3. CASE b \notin DirGroups(d) /\ b \notin Writing(d)
    BY <1>3 DEF GroupAt
  <1> QED BY <1>1, <1>2, <1>3

\* What was not begun is not there.
LEMMA LostUnbegun ==
  ASSUME NEW F, NEW K, NEW F2, NEW K2, NEW E, Lost(K, F2, K2, E),
         NEW d, Fit(d), Ground(F, K, d), NEW b \in 1..End(d), GroupAt(F, K, d, b, 0)
  PROVE  GroupAt(F2, K2, d, b, 0)
  <1>1. CASE b \in DirGroups(d)
    <2> DEFINE q == d.directories[b]
    <2>1. b \notin Writing(d) /\ q \in Paths
      BY <1>1, FileGroupsAre, DeclarationTypes, ElementOfSeq DEF DirGroups, Setup0
    <2>2. Settled(F, K, q, None)
      BY <1>1, DirectoryStages DEF GroupAt
    <2> HIDE DEF q
    <2>3. Settled(F2, K2, q, None)
      BY <2>1, <2>2, PathFacts, LostNone
    <2>4. DirectoryAt(F2, K2, q, 0)
      BY <2>3, DirectoryStages
    <2> QED BY <2>1, <2>4 DEF GroupAt, q
  <1>2. CASE b \in Writing(d)
    <2> DEFINE f == FileOf(d, b)
    <2>1. b \notin DirGroups(d) /\ f \in FileDeclarations /\ TemporaryFits(f)
      BY <1>2, FileGroupsAre, FileOfType
    <2>2. f.path \in Paths /\ f.path \in Places /\ (f.previous # None => f.temporary \in Places)
      BY <2>1, FileTypes, PathFacts
    <2>3. f.previous # None => \A a \in Above[f.path] : Settled(F, K, a, Directory)
      BY <1>2, ReplacedStands
    <2>4. FileAt(F, K, f, 0)
      BY <1>2 DEF GroupAt
    <2> HIDE DEF f
    <2>5. FileAt(F2, K2, f, 0)
      <3>1. CASE f.previous = None
        BY <2>2, <2>4, <3>1, CreationStages, LostNone DEF FileAt
      <3>2. CASE f.previous # None
        <4> DEFINE e == File(f.previous, TRUE)
        <4>1. Settled(F, K, f.temporary, None) /\ Settled(F, K, f.path, e)
          BY <2>4, <3>2, ReplacementStages DEF FileAt
        <4>2. Certain(e)
          BY CertainAre
        <4>3. Settled(F2, K2, f.temporary, None)
          BY <2>2, <3>2, <4>1, LostNone
        <4>4. Settled(F2, K2, f.path, e)
          <5> HIDE DEF e
          <5> QED BY <2>2, <2>3, <3>2, <4>1, <4>2, LostKeeps
        <4>5. ReplacementAt(F2, K2, f, 0)
          BY <4>3, <4>4, ReplacementStages
        <4> QED BY <3>2, <4>5 DEF FileAt
      <3> QED BY <3>1, <3>2
    <2> QED BY <2>1, <2>5 DEF GroupAt, f
  <1>3. CASE b \notin DirGroups(d) /\ b \notin Writing(d)
    BY <1>3 DEF GroupAt
  <1> QED BY <1>1, <1>2, <1>3

\* What was under way is partly there; a file to be replaced is whole.
LEMMA LostPartly ==
  ASSUME NEW F, NEW K, NEW F2, NEW K2, NEW E, Lost(K, F2, K2, E),
         NEW d, Fit(d), Ground(F, K, d), NEW b \in 1..End(d), GroupPartly(F, K, d, b)
  PROVE  GroupPartly(F2, K2, d, b)
  <1>1. CASE b \in DirGroups(d)
    <2> DEFINE q == d.directories[b]
    <2>1. b \notin Writing(d) /\ q \in Paths
      BY <1>1, FileGroupsAre, DeclarationTypes, ElementOfSeq DEF DirGroups, Setup0
    <2>2. K[q] \subseteq {None, Directory}
      BY <1>1 DEF GroupPartly, DirectoryPartly
    <2>3. RemainsOf(K[q]) \subseteq {None, Directory}
      BY <2>2, CertainAre, RemainsCertain
    <2> HIDE DEF q
    <2>4. F2[q] \in {None, Directory} /\ K2[q] = {F2[q]}
      BY <2>1, <2>3, PathFacts, LostAmong
    <2>5. DirectoryPartly(F2, K2, q)
      BY <2>4 DEF DirectoryPartly
    <2> QED BY <2>1, <2>5 DEF GroupPartly, q
  <1>2. CASE b \in Writing(d)
    <2> DEFINE f == FileOf(d, b)
    <2>1. b \notin DirGroups(d) /\ f \in FileDeclarations /\ TemporaryFits(f)
      BY <1>2, FileGroupsAre, FileOfType
    <2>2. /\ f.path \in Paths /\ f.path \in Places /\ f.candidate \in Bytes
          /\ f.previous # None => f.temporary \in Places
      BY <2>1, FileTypes, PathFacts
    <2>3. f.previous # None => \A a \in Above[f.path] : Settled(F, K, a, Directory)
      BY <1>2, ReplacedStands
    <2>4. IF f.previous = None THEN CreationPartly(F, K, f) ELSE ReplacementPartly(F, K, f)
      BY <1>2 DEF GroupPartly
    <2> HIDE DEF f
    <2>5. ASSUME NEW q \in Places, K[q] \subseteq Pieces(f)
          PROVE  F2[q] \in Pieces(f) /\ K2[q] = {F2[q]}
      <3>1. RemainsOf(K[q]) \subseteq Pieces(f)
        BY <2>2, <2>5, RemainsPieces
      <3>2. None \in Pieces(f)
        BY DEF Pieces
      <3> QED BY <3>1, <3>2, LostAmong
    <2>6. CASE f.previous = None
      <3>1. K[f.path] \subseteq Pieces(f)
        BY <2>4, <2>6 DEF CreationPartly
      <3>2. F2[f.path] \in Pieces(f) /\ K2[f.path] = {F2[f.path]}
        BY <2>2, <2>5, <3>1
      <3>3. CreationPartly(F2, K2, f)
        BY <3>2 DEF CreationPartly
      <3> QED BY <2>1, <2>6, <3>3 DEF GroupPartly, f
    <2>7. CASE f.previous # None
      <3>1. K[f.temporary] \subseteq Pieces(f) /\ K[f.path] \subseteq Wholes(f)
        BY <2>4, <2>7 DEF ReplacementPartly
      <3>2. F2[f.temporary] \in Pieces(f) /\ K2[f.temporary] = {F2[f.temporary]}
        BY <2>2, <2>5, <2>7, <3>1
      <3>3. \A e \in Wholes(f) : Certain(e)
        BY CertainAre DEF Wholes
      <3>4. RemainsOf(K[f.path]) \subseteq Wholes(f)
        BY <3>1, <3>3, RemainsCertain
      <3>5. \A a \in Above[f.path] : E[a] = Directory
        <4>1. RemainsOf({Directory}) = {Directory}
          BY CertainAre, RemainsCertain
        <4>2. Above[f.path] \subseteq Places
          BY <2>2, AboveLeast
        <4> QED BY <2>3, <2>7, <4>1, <4>2 DEF Settled, Lost
      <3>6. F2[f.path] \in Wholes(f) /\ K2[f.path] = {F2[f.path]}
        BY <2>2, <3>4, <3>5, LostAmong
      <3>7. ReplacementPartly(F2, K2, f)
        BY <3>2, <3>6 DEF ReplacementPartly
      <3> QED BY <2>1, <2>7, <3>7 DEF GroupPartly, f
    <2> QED BY <2>6, <2>7
  <1>3. CASE b \notin DirGroups(d) /\ b \notin Writing(d)
    BY <1>3 DEF GroupPartly
  <1> QED BY <1>1, <1>2, <1>3

\* and it leaves what a run retains of the groups before n and of group n.
LEMMA LostRetained ==
  ASSUME NEW F, NEW K, NEW F2, NEW K2, NEW E, Lost(K, F2, K2, E),
         NEW d, Fit(d), Ground(F, K, d), NEW n \in 1..(End(d) + 1), Retained(F, K, d, n)
  PROVE  Retained(F2, K2, d, n)
  <1> SUFFICES ASSUME NEW b \in 1..End(d)
               PROVE  /\ b < n => GroupAt(F2, K2, d, b, 4)
                      /\ b > n => GroupAt(F2, K2, d, b, 0)
                      /\ b = n => GroupPartly(F2, K2, d, b)
    BY DEF Retained
  <1>1. ASSUME b < n PROVE GroupAt(F2, K2, d, b, 4)
    <2>1. ASSUME NEW e \in DirGroups(d), e < b PROVE GroupAt(F, K, d, e, 4)
      <3>1. e \in 1..End(d) /\ e < n
        BY <1>1, <2>1, FileGroupsAre, Sizes
      <3> QED BY <3>1 DEF Retained
    <2>2. GroupAt(F, K, d, b, 4)
      BY <1>1 DEF Retained
    <2> QED BY <2>1, <2>2, LostComplete
  <1>2. ASSUME b > n PROVE GroupAt(F2, K2, d, b, 0)
    <2>1. GroupAt(F, K, d, b, 0)
      BY <1>2 DEF Retained
    <2> QED BY <2>1, LostUnbegun
  <1>3. ASSUME b = n PROVE GroupPartly(F2, K2, d, b)
    <2>1. GroupPartly(F, K, d, b)
      BY <1>3 DEF Retained
    <2> QED BY <2>1, LostPartly
  <1> QED BY <1>1, <1>2, <1>3

\* Where a run is at its start, at its end, and at each operation.
LEMMA InStepStart ==
  ASSUME NEW F, NEW K, NEW d, Fit(d)
  PROVE  InStep(F, K, d, 1) <=> \A b \in 1..End(d) : GroupAt(F, K, d, b, 0)
  <1>1. End(d) \in Nat /\ 1 \in 1..End(d)
    BY Sizes
  <1>2. 0 \in 0..GroupSize(d, 1) /\ (Start(d)[1] + 0) + 1 = 1
    BY <1>1, GroupSizes, StartIs
  <1>3. InStep(F, K, d, 1) <=> Prefix(F, K, d, 1, 0)
    BY <1>1, <1>2, InStepAt
  <1>4. Prefix(F, K, d, 1, 0) <=> \A b \in 1..End(d) : GroupAt(F, K, d, b, 0)
    BY <1>1 DEF Prefix
  <1> QED BY <1>3, <1>4

\* At the end of the plan all groups are complete,
LEMMA InStepEnd ==
  ASSUME NEW F, NEW K, NEW d, Fit(d)
  PROVE  InStep(F, K, d, Len(Plan(d)) + 1) <=> \A b \in 1..End(d) : GroupAt(F, K, d, b, 4)
  <1> DEFINE n == End(d)
  <1>1. n \in Nat /\ n \in 1..n
    BY Sizes
  <1>2. GroupSize(d, n) \in 0..GroupSize(d, n) /\ GroupSize(d, n) \in 1..4
    BY <1>1, GroupSizes
  <1>3. Start(d)[n] + GroupSize(d, n) = Len(Plan(d))
    BY <1>1, StartIs
  <1>4. InStep(F, K, d, Len(Plan(d)) + 1) <=> Prefix(F, K, d, n, GroupSize(d, n))
    BY <1>1, <1>2, <1>3, InStepAt
  <1>5. GroupAt(F, K, d, n, GroupSize(d, n)) <=> GroupAt(F, K, d, n, 4)
    BY <1>1, <1>2, GroupEnds
  <1>6. Prefix(F, K, d, n, GroupSize(d, n)) <=> \A b \in 1..n : GroupAt(F, K, d, b, 4)
    BY <1>1, <1>5 DEF Prefix
  <1> QED BY <1>4, <1>6

\* which is a retained state.
LEMMA CompleteRetained ==
  ASSUME NEW F, NEW K, NEW d, Fit(d)
  PROVE  /\ Retained(F, K, d, End(d) + 1) <=> \A b \in 1..End(d) : GroupAt(F, K, d, b, 4)
         /\ Retained(F, K, d, End(d) + 1) => RetainedAny(F, K, d)
  <1>1. End(d) \in Nat /\ End(d) + 1 \in 1..(End(d) + 1)
    BY Sizes
  <1>2. \A b \in 1..End(d) : b < End(d) + 1 /\ ~ b > End(d) + 1 /\ b # End(d) + 1
    BY <1>1
  <1> QED BY <1>1, <1>2 DEF Retained, RetainedAny

\* Every operation of the plan belongs to a group.
LEMMA PlaceOf ==
  ASSUME NEW d, Fit(d), NEW k \in 1..Len(Plan(d))
  PROVE  \E b \in 1..End(d) : \E o \in 1..GroupSize(d, b) :
           /\ k = Start(d)[b] + o /\ Plan(d)[k] = Groups(d)[b][o]
           /\ o - 1 \in 0..GroupSize(d, b) /\ o \in 0..GroupSize(d, b)
           /\ k = (Start(d)[b] + (o - 1)) + 1 /\ k + 1 = (Start(d)[b] + o) + 1
  <1>1. PICK b \in 1..End(d) : \E o \in 1..GroupSize(d, b) : k = Start(d)[b] + o
    BY StartIs
  <1>2. PICK o \in 1..GroupSize(d, b) : k = Start(d)[b] + o
    BY <1>1
  <1>3. Plan(d)[k] = Groups(d)[b][o]
    BY <1>2, StartIs
  <1>4. GroupSize(d, b) \in 1..4 /\ Start(d)[b] \in Nat
    BY GroupSizes, StartIs, Sizes
  <1>5. /\ o - 1 \in 0..GroupSize(d, b) /\ o \in 0..GroupSize(d, b)
        /\ k = (Start(d)[b] + (o - 1)) + 1 /\ k + 1 = (Start(d)[b] + o) + 1
    BY <1>2, <1>4
  <1> QED BY <1>2, <1>3, <1>5

\* A run in step retains what it has done.
LEMMA InStepRetained ==
  ASSUME NEW F, NEW K, NEW d, Fit(d), NEW k \in 1..(Len(Plan(d)) + 1), InStep(F, K, d, k)
  PROVE  RetainedAny(F, K, d)
  <1>1. Len(Plan(d)) \in Nat
    BY StartIs
  <1>2. CASE k = Len(Plan(d)) + 1
    BY <1>2, InStepEnd, CompleteRetained
  <1>3. CASE k # Len(Plan(d)) + 1
    <2>1. k \in 1..Len(Plan(d))
      BY <1>1, <1>3
    <2>0. PICK b \in 1..End(d) : \E o \in 1..GroupSize(d, b) :
             o - 1 \in 0..GroupSize(d, b) /\ k = (Start(d)[b] + (o - 1)) + 1
      BY <2>1, PlaceOf
    <2>2. PICK o \in 1..GroupSize(d, b) :
             o - 1 \in 0..GroupSize(d, b) /\ k = (Start(d)[b] + (o - 1)) + 1
      BY <2>0
    <2>3. Prefix(F, K, d, b, o - 1)
      BY <2>2, InStepAt
    <2>4. o - 1 \in 0..4
      BY <2>2, GroupSizes
    <2> QED BY <2>3, <2>4, PrefixRetained
  <1> QED BY <1>2, <1>3

\* The first group that writes creates a directory or a file.
LEMMA FirstIs ==
  ASSUME NEW d, Fit(d)
  PROVE  /\ First(d) \in 1..End(d)
         /\ \A b \in 1..End(d) : b < First(d) => b \notin DirGroups(d) /\ b \notin Writing(d)
         /\ First(d) \in DirGroups(d) =>
              FirstPath(d) = d.directories[First(d)] /\ First(d) \notin Writing(d)
         /\ First(d) \notin DirGroups(d) =>
              /\ First(d) \in Writing(d) /\ FileOf(d, First(d)).previous = None
              /\ FirstPath(d) = FileOf(d, First(d)).path
  <1>1. /\ Setup0(d) \in Nat /\ Lock0(d) \in Nat /\ File0(d) \in Nat /\ Unlock0(d) \in Nat
        /\ End(d) \in Nat /\ Setup0(d) <= Lock0(d) /\ Lock0(d) <= File0(d)
        /\ File0(d) < Unlock0(d) /\ Unlock0(d) <= End(d)
        /\ Unlock0(d) = File0(d) + Len(Preserved(d)) /\ Len(Preserved(d)) \in Nat
        /\ Lock0(d) = Setup0(d) + Len(NewLocks(d)) /\ Len(NewLocks(d)) \in Nat
    BY Sizes
  <1>2. CASE Setup0(d) > 0
    <2>1. First(d) = 1 /\ FirstPath(d) = d.directories[1]
      BY <1>1, <1>2 DEF First, FirstPath
    <2>2. 1 \in DirGroups(d) /\ 1 \notin Writing(d) /\ 1 \in 1..End(d)
      BY <1>1, <1>2, FileGroupsAre DEF DirGroups
    <2> QED BY <1>1, <2>1, <2>2
  <1>3. CASE Setup0(d) = 0 /\ Lock0(d) > 0
    <2>1. First(d) = 1 /\ FirstPath(d) = FileOf(d, 1).path
      BY <1>1, <1>3 DEF First, FirstPath
    <2>2. 1 \notin DirGroups(d) /\ 1 \in SetupGroups(d) /\ 1 \in 1..End(d)
      BY <1>1, <1>3 DEF DirGroups, SetupGroups
    <2>3. FileOf(d, 1) = LockFile(NewLocks(d)[1])
      BY <1>3, <2>2 DEF FileOf
    <2>4. FileOf(d, 1).previous = None
      BY <2>3, CreationValues DEF LockFile
    <2>5. 1 \in Writing(d)
      BY <2>2 DEF Writing
    <2> QED BY <1>1, <2>1, <2>2, <2>4, <2>5
  <1>4. CASE Setup0(d) = 0 /\ Lock0(d) = 0
    <2>1. First(d) = File0(d) + 1 /\ FirstPath(d) = FileOf(d, File0(d) + 1).path
      BY <1>1, <1>4 DEF First, FirstPath
    <2>2. DirGroups(d) = {} /\ SetupGroups(d) = {}
      BY <1>1, <1>4 DEF DirGroups, SetupGroups
    <2>3. 1 \in 1..Len(Preserved(d)) /\ File0(d) + 1 \in 1..End(d)
      BY <1>1
    <2>4. File0(d) + 1 \in Writing(d) /\ FileOf(d, File0(d) + 1) = Preserved(d)[1]
      BY <2>3, FileGroupsAre
    <2>5. Preserved(d)[1].previous = None
      <3>1. /\ Len(Ordered(d)) \in Nat /\ Len(Replaced(d)) = Len(Ordered(d))
            /\ Len(d.files) \in Nat /\ Len(d.files) # 0
        BY DeclarationTypes, Sizes
      <3>2. CASE Len(Ordered(d)) > 0
        <4>1. 1 \in 1..Len(Replaced(d)) /\ 1 <= Len(Ordered(d))
          BY <3>1, <3>2
        <4>2. Ordered(d)[1] = Creation(Ordered(d)[1].path, Replaced(d)[1].previous)
          BY <4>1, DeclarationTypes
        <4>3. Preserved(d)[1] = Ordered(d)[1]
          BY <2>3, <4>1, <3>1, PreservedAt
        <4> QED BY <4>2, <4>3, CreationValues
      <3>3. CASE Len(Ordered(d)) = 0
        <4>1. 1 \in 1..Len(d.files) /\ Len(Ordered(d)) + 1 = 1
          BY <3>1, <3>3
        <4>2. Preserved(d)[1] = d.files[1]
          BY <4>1, ReplacedAre
        <4>3. ToSet(Replaced(d)) = {}
          BY <3>1, <3>3, DeclarationTypes, EmptySeq DEF ToSet
        <4>4. d.files[1].previous = None
          BY <4>1, <4>3, ReplacedAre
        <4> QED BY <4>2, <4>4
      <3> QED BY <3>1, <3>2, <3>3
    <2>6. \A b \in 1..End(d) : b < File0(d) + 1 => b \notin FileGroups(d)
      BY <1>1 DEF FileGroups
    <2> QED BY <2>1, <2>2, <2>3, <2>4, <2>5, <2>6 DEF Writing
  <1> QED BY <1>1, <1>2, <1>3, <1>4

\* A first group of which nothing is there was not begun.
LEMMA FirstBegun ==
  ASSUME NEW F, NEW K, NEW d, Fit(d), GroupPartly(F, K, d, First(d)), F[FirstPath(d)] = None
  PROVE  GroupAt(F, K, d, First(d), 0)
  <1> DEFINE b == First(d)
  <1>1. CASE b \in DirGroups(d)
    <2>1. b \notin Writing(d) /\ FirstPath(d) = d.directories[b]
      BY <1>1, FirstIs
    <2>2. Settled(F, K, d.directories[b], None)
      BY <1>1, <2>1 DEF GroupPartly, DirectoryPartly, Settled
    <2> QED BY <2>1, <2>2, DirectoryStages DEF GroupAt
  <1>2. CASE b \notin DirGroups(d)
    <2> DEFINE f == FileOf(d, b)
    <2>1. b \in Writing(d) /\ f.previous = None /\ FirstPath(d) = f.path
      BY <1>2, FirstIs
    <2>2. CreationPartly(F, K, f)
      BY <2>1 DEF GroupPartly
    <2> HIDE DEF f
    <2>3. Settled(F, K, f.path, None)
      BY <2>1, <2>2 DEF CreationPartly, Settled
    <2>4. FileAt(F, K, f, 0)
      BY <2>1, <2>3, CreationStages DEF FileAt
    <2> QED BY <1>2, <2>4 DEF GroupAt, f
  <1> QED BY <1>1, <1>2

\* A complete first group is seen.
LEMMA FirstComplete ==
  ASSUME NEW F, NEW K, NEW d, Fit(d), GroupAt(F, K, d, First(d), 4)
  PROVE  F[FirstPath(d)] # None
  <1> DEFINE b == First(d)
  <1>1. CASE b \in DirGroups(d)
    <2>1. FirstPath(d) = d.directories[b]
      BY <1>1, FirstIs
    <2>2. Settled(F, K, d.directories[b], Directory)
      BY <1>1, DirectoryStages DEF GroupAt
    <2> QED BY <2>1, <2>2, PathFacts DEF Settled
  <1>2. CASE b \notin DirGroups(d)
    <2> DEFINE f == FileOf(d, b)
    <2>1. b \in Writing(d) /\ FirstPath(d) = f.path
      BY <1>2, FirstIs
    <2>2. f.candidate \in Bytes
      BY <2>1, FileOfType, FileTypes
    <2>3. F[f.path] = File(f.candidate, TRUE)
      <3> HIDE DEF b
      <3> QED BY <2>1, FileAfter DEF b
    <2> QED BY <2>1, <2>2, <2>3, PathFacts
  <1> QED BY <1>1, <1>2

\* A plan that is run again starts over or is refused at its first operation
\* that writes.
LEMMA RerunStarts ==
  ASSUME NEW F, NEW K, NEW d, Fit(d), RetainedAny(F, K, d)
  PROVE  InStep(F, K, d, 1) \/ Behind(F, K, d, 1)
  <1>1. PICK n \in 1..(End(d) + 1) : Retained(F, K, d, n)
    BY DEF RetainedAny
  <1>2. First(d) \in 1..End(d) /\ End(d) \in Nat
    BY FirstIs, Sizes
  <1>3. Start(d)[First(d)] \in Nat
    BY <1>2, StartIs
  <1>4. CASE F[FirstPath(d)] # None
    BY <1>3, <1>4 DEF Behind
  <1>5. CASE F[FirstPath(d)] = None
    <2>1. ~ First(d) < n
      <3> SUFFICES ASSUME First(d) < n PROVE FALSE
        OBVIOUS
      <3>1. GroupAt(F, K, d, First(d), 4)
        BY <1>1, <1>2 DEF Retained
      <3> QED BY <1>5, <3>1, FirstComplete
    <2>2. ASSUME NEW b \in 1..End(d) PROVE GroupAt(F, K, d, b, 0)
      <3>1. CASE b < First(d)
        BY <3>1, FirstIs DEF GroupAt
      <3>2. CASE b > n
        BY <1>1, <3>2 DEF Retained
      <3>3. CASE b = First(d) /\ b = n
        BY <1>1, <1>5, <3>3, FirstBegun DEF Retained
      <3> QED BY <1>2, <2>1, <3>1, <3>2, <3>3
    <2> QED BY <2>2, InStepStart
  <1> QED BY <1>4, <1>5

\* What each operation expects is what the operations before it left.
LEMMA StatesAre ==
  /\ State(None) = None /\ State(Directory) = Directory
  /\ \A x \in Bytes, s \in BOOLEAN : State(File(x, s)) = x
  BY PathFacts, FileValues DEF State, IsFile

\* When an operation finds what it expects.
LEMMA ReadyChange ==
  ASSUME NEW F, NEW c, NEW p, NEW x, NEW y, State(F[p]) = x,
         p \in Paths => F[ParentOf[p]] = Directory
  PROVE  ReadyIn(F, Operation(c, Change(p, x, y)))
  <1> DEFINE h == Change(p, x, y)
  <1>1. DOMAIN h = {p} /\ h[p].before = x
    BY DEF Change
  <1>2. Operation(c, h).changes = h
    BY OperationValues
  <1> HIDE DEF h
  <1>3. ReadyIn(F, Operation(c, h))
    BY <1>1, <1>2 DEF ReadyIn
  <1> QED BY <1>3 DEF h

LEMMA ReadyRename ==
  ASSUME NEW F, NEW f, f.temporary # f.path,
         State(F[f.temporary]) = f.candidate, State(F[f.path]) = f.previous,
         F[ParentOf[f.temporary]] = Directory, F[ParentOf[f.path]] = Directory
  PROVE  ReadyIn(F, RenameOf(f))
  <1> DEFINE c == Over(Change(f.temporary, f.candidate, None),
                       Change(f.path, f.previous, f.candidate))
  <1>1. /\ DOMAIN c = {f.temporary, f.path}
        /\ c[f.temporary] = [before |-> f.candidate, after |-> None]
        /\ c[f.path] = [before |-> f.previous, after |-> f.candidate]
    BY DEF Over, Change
  <1>2. RenameOf(f).changes = c
    BY OperationValues DEF RenameOf
  <1> HIDE DEF c
  <1> QED BY <1>1, <1>2 DEF ReadyIn

\* Under existing directories an entry can be made and synchronised.
LEMMA UnderDirectory ==
  ASSUME NEW F, NEW p \in Paths, \A a \in Above[p] : F[a] = Directory
  PROVE  /\ F[ParentOf[p]] = Directory
         /\ ParentOf[p] \in Paths => F[ParentOf[ParentOf[p]]] = Directory
         /\ ReadyIn(F, Sync(ParentOf[p], Directory))
  <1>1. F[ParentOf[p]] = Directory
        /\ (ParentOf[p] \in Paths => F[ParentOf[ParentOf[p]]] = Directory)
    BY AboveLeast
  <1> QED BY <1>1, StatesAre, ReadyChange DEF Sync

\* Each operation of a group in step finds what it expects.
LEMMA ReadyDirectory ==
  ASSUME NEW F, NEW K, NEW q \in Paths, \A a \in Above[q] : F[a] = Directory,
         NEW o \in 1..2, DirectoryAt(F, K, q, o - 1)
  PROVE  ReadyIn(F, DirectoryGroup(q)[o])
  <1>1. F[ParentOf[q]] = Directory /\ ReadyIn(F, Sync(ParentOf[q], Directory))
    BY UnderDirectory
  <1>2. CASE o = 1
    <2>1. DirectoryAt(F, K, q, 0)
      BY <1>2
    <2>2. State(F[q]) = None
      BY <2>1, DirectoryStages, StatesAre DEF Settled
    <2>3. ReadyIn(F, Operation("mkdir", Change(q, None, Directory)))
      BY <1>1, <2>2, ReadyChange
    <2> QED BY <1>2, <2>3 DEF DirectoryGroup
  <1>3. CASE o = 2
    BY <1>1, <1>3 DEF DirectoryGroup
  <1> QED BY <1>2, <1>3

LEMMA ReadyCreation ==
  ASSUME NEW F, NEW K, NEW f \in FileDeclarations, TemporaryFits(f), f.previous = None,
         \A a \in Above[f.path] : F[a] = Directory,
         NEW o \in 1..3, CreationAt(F, K, f, o - 1)
  PROVE  ReadyIn(F, CreationGroup(f)[o])
  <1>0. f.path \in Paths /\ f.candidate \in Bytes
    BY FileTypes
  <1>1. F[ParentOf[f.path]] = Directory /\ ReadyIn(F, Sync(ParentOf[f.path], Directory))
    BY <1>0, UnderDirectory
  <1>2. CASE o = 1
    <2>1. CreationAt(F, K, f, 0)
      BY <1>2
    <2>2. State(F[f.path]) = None
      <3>1. Settled(F, K, f.path, None)
        BY <2>1, CreationStages
      <3> QED BY <3>1, StatesAre DEF Settled
    <2>3. ReadyIn(F, Operation("create", Change(f.path, None, f.candidate)))
      BY <1>1, <2>2, ReadyChange
    <2> QED BY <1>2, <2>3 DEF CreationGroup
  <1>3. CASE o = 2
    <2>1. CreationAt(F, K, f, 1)
      BY <1>3
    <2>2. F[f.path] = File(f.candidate, FALSE)
      BY <2>1, CreationStages DEF Fresh, Pending
    <2>3. State(F[f.path]) = f.candidate
      BY <1>0, <2>2, StatesAre
    <2>4. ReadyIn(F, Sync(f.path, f.candidate))
      BY <1>1, <2>3, ReadyChange DEF Sync
    <2> QED BY <1>3, <2>4 DEF CreationGroup
  <1>4. CASE o = 3
    BY <1>1, <1>4 DEF CreationGroup
  <1> QED BY <1>2, <1>3, <1>4

LEMMA ReadyReplacement ==
  ASSUME NEW F, NEW K, NEW f \in FileDeclarations, TemporaryFits(f), f.previous # None,
         \A a \in Above[f.path] : F[a] = Directory,
         NEW o \in 1..4, ReplacementAt(F, K, f, o - 1)
  PROVE  ReadyIn(F, ReplacementGroup(f)[o])
  <1>0. /\ f.path \in Paths /\ f.candidate \in Bytes /\ f.previous \in Bytes
        /\ f.temporary \in Paths /\ f.temporary # f.path
        /\ ParentOf[f.temporary] = ParentOf[f.path]
    BY FileTypes
  <1>1. F[ParentOf[f.path]] = Directory /\ ReadyIn(F, Sync(ParentOf[f.path], Directory))
    BY <1>0, UnderDirectory
  <1>2. CASE o = 1
    <2>1. ReplacementAt(F, K, f, 0)
      BY <1>2
    <2>2. State(F[f.temporary]) = None
      BY <2>1, ReplacementStages, StatesAre DEF Settled
    <2>3. ReadyIn(F, Operation("create", Change(f.temporary, None, f.candidate)))
      BY <1>0, <1>1, <2>2, ReadyChange
    <2> QED BY <1>2, <2>3 DEF ReplacementGroup
  <1>3. CASE o = 2
    <2>1. ReplacementAt(F, K, f, 1)
      BY <1>3
    <2>2. F[f.temporary] = File(f.candidate, FALSE)
      BY <2>1, ReplacementStages DEF Fresh, Pending
    <2>3. State(F[f.temporary]) = f.candidate
      BY <1>0, <2>2, StatesAre
    <2>4. ReadyIn(F, Sync(f.temporary, f.candidate))
      BY <1>0, <1>1, <2>3, ReadyChange DEF Sync
    <2> QED BY <1>3, <2>4 DEF ReplacementGroup
  <1>4. CASE o = 3
    <2>1. ReplacementAt(F, K, f, 2)
      BY <1>4
    <2>2. F[f.temporary] = File(f.candidate, TRUE) /\ F[f.path] = File(f.previous, TRUE)
      BY <2>1, ReplacementStages DEF Fresh, Pending, Settled
    <2>3. State(F[f.temporary]) = f.candidate /\ State(F[f.path]) = f.previous
      BY <1>0, <2>2, StatesAre
    <2>4. ReadyIn(F, RenameOf(f))
      BY <1>0, <1>1, <2>3, ReadyRename
    <2> QED BY <1>4, <2>4 DEF ReplacementGroup
  <1>5. CASE o = 4
    BY <1>1, <1>5 DEF ReplacementGroup
  <1> QED BY <1>2, <1>3, <1>4, <1>5

\* A lock file is there when it is locked and when it is released.
LEMMA ReadyLock ==
  ASSUME NEW F, NEW K, NEW d, Fit(d), Ground(F, K, d), NEW j \in 1..Len(d.locks),
         \A e \in DirGroups(d) \cup SetupGroups(d) : GroupAt(F, K, d, e, 4), NEW c
  PROVE  ReadyIn(F, LockGroup(d.locks[j], c)[1])
  <1> DEFINE lock == d.locks[j]
             p == lock.path
  <1>0. lock \in LockDeclarations /\ j \in DOMAIN d.locks
    BY DeclarationTypes, ElementOfSeq, ReplacedAre
  <1>1. p \in Paths /\ LockBytes(lock) \in Bytes
    BY <1>0, LockFileValues
  <1>2. p \in AllNames(Declared(d))
    <2>1. /\ Len(Preserved(d)) + j \in DOMAIN Declared(d)
          /\ Names(Declared(d)[Len(Preserved(d)) + j]) = {p}
      BY ExistingAt
    <2> QED BY <2>1, NamesAre
  <1>3. F[ParentOf[p]] = Directory
    <2>1. \A a \in Standing(d) \cup ToSet(d.directories) : Settled(F, K, a, Directory)
      BY AllMade
    <2>2. Above[p] \subseteq Standing(d) \cup ToSet(d.directories)
      BY <1>2, AboveAre
    <2>3. ParentOf[p] \in Above[p]
      BY <1>1, AboveLeast
    <2> HIDE DEF p, lock
    <2> QED BY <2>1, <2>2, <2>3 DEF Settled
  <1>4. F[p] = File(LockBytes(lock), TRUE)
    <2>1. CASE lock.previous # None
      <3>1. Settled(F, K, p, File(lock.previous, TRUE))
        BY <1>0, <2>1 DEF Ground
      <3> QED BY <2>1, <3>1 DEF Settled, LockBytes
    <2>2. CASE lock.previous = None
      <3>1. PICK b \in SetupGroups(d) : FileOf(d, b) = LockFile(lock)
        BY <2>2, GroupPositions
      <3>2. b \in Writing(d) /\ GroupAt(F, K, d, b, 4)
        BY <3>1 DEF Writing
      <3>3. LockFile(lock) = Creation(p, LockBytes(lock))
        BY <1>0, LockFileValues
      <3>4. F[LockFile(lock).path] = File(LockFile(lock).candidate, TRUE)
        <4> HIDE DEF lock, p
        <4> QED BY <3>1, <3>2, FileAfter
      <3>5. LockFile(lock).path = p /\ LockFile(lock).candidate = LockBytes(lock)
        BY <3>3, CreationValues
      <3> QED BY <3>4, <3>5
    <2> QED BY <2>1, <2>2
  <1>5. State(F[p]) = LockBytes(lock)
    BY <1>1, <1>4, StatesAre
  <1> HIDE DEF p
  <1>6. ReadyIn(F, Operation(c, Change(p, LockBytes(lock), LockBytes(lock))))
    BY <1>3, <1>5, ReadyChange
  <1> QED BY <1>6 DEF LockGroup, p

LEMMA ReadyStep ==
  ASSUME NEW F, NEW K, NEW d, Fit(d), Ground(F, K, d), NEW b \in 1..End(d),
         NEW o \in 1..GroupSize(d, b), Prefix(F, K, d, b, o - 1)
  PROVE  ReadyIn(F, Groups(d)[b][o])
  <1>0. GroupAt(F, K, d, b, o - 1)
    BY Sizes DEF Prefix
  <1>00. \A e \in 1..End(d) : e < b => GroupAt(F, K, d, e, 4)
    BY DEF Prefix
  <1>1. CASE b \in DirGroups(d)
    <2> DEFINE q == d.directories[b]
    <2>1. /\ b \notin Writing(d) /\ q \in Paths /\ DirGroups(d) \subseteq 1..End(d)
          /\ GroupSize(d, b) = 2
      BY <1>1, FileGroupsAre, DeclarationTypes, ElementOfSeq DEF DirGroups, Setup0, GroupSize
    <2>2. Above[q] \subseteq Standing(d) \cup Made(d, b)
      BY <1>1, AboveAre
    <2>3. \A a \in Standing(d) \cup Made(d, b) : Settled(F, K, a, Directory)
      BY <1>00, <2>1, StandingOrMade
    <2>4. DirectoryAt(F, K, q, o - 1) /\ Groups(d)[b] = DirectoryGroup(q)
      BY <1>0, <1>1, GroupsAre DEF GroupAt
    <2>5. o \in 1..2
      BY <2>1
    <2> HIDE DEF q
    <2>6. \A a \in Above[q] : F[a] = Directory
      BY <2>2, <2>3 DEF Settled
    <2>7. ReadyIn(F, DirectoryGroup(q)[o])
      BY <2>1, <2>4, <2>5, <2>6, ReadyDirectory
    <2> QED BY <2>4, <2>7
  <1>2. CASE b \in Writing(d)
    <2> DEFINE f == FileOf(d, b)
    <2>1. /\ b \notin DirGroups(d) /\ f \in FileDeclarations /\ TemporaryFits(f)
          /\ DirGroups(d) \subseteq 1..End(d) /\ \A e \in DirGroups(d) : e < b
      BY <1>2, FileGroupsAre, FileOfType
    <2>2. \A a \in Standing(d) \cup ToSet(d.directories) : Settled(F, K, a, Directory)
      BY <1>00, <2>1, AllMade
    <2>3. Above[f.path] \subseteq Standing(d) \cup ToSet(d.directories)
      BY <1>2, WritingAre, AboveAre
    <2>4. FileAt(F, K, f, o - 1) /\ Groups(d)[b] = FileGroup(f)
      BY <1>0, <1>2, GroupsAre DEF GroupAt
    <2>5. GroupSize(d, b) = IF f.previous = None THEN 3 ELSE 4
      BY <1>2, <2>1 DEF GroupSize
    <2> HIDE DEF f
    <2>6. \A a \in Above[f.path] : F[a] = Directory
      BY <2>2, <2>3 DEF Settled
    <2>7. CASE f.previous = None
      <3>1. o \in 1..3 /\ CreationAt(F, K, f, o - 1) /\ Groups(d)[b] = CreationGroup(f)
        BY <2>4, <2>5, <2>7 DEF FileAt, FileGroup
      <3>2. ReadyIn(F, CreationGroup(f)[o])
        BY <2>1, <2>6, <2>7, <3>1, ReadyCreation
      <3> QED BY <3>1, <3>2
    <2>8. CASE f.previous # None
      <3>1. o \in 1..4 /\ ReplacementAt(F, K, f, o - 1) /\ Groups(d)[b] = ReplacementGroup(f)
        BY <2>4, <2>5, <2>8 DEF FileAt, FileGroup
      <3>2. ReadyIn(F, ReplacementGroup(f)[o])
        BY <2>1, <2>6, <2>8, <3>1, ReadyReplacement
      <3> QED BY <3>1, <3>2
    <2> QED BY <2>7, <2>8
  <1>3. CASE b \notin DirGroups(d) /\ b \notin Writing(d)
    <2>1. GroupSize(d, b) = 1
      BY <1>3 DEF GroupSize
    <2>2. o = 1
      BY <2>1
    <2>3. PICK j \in 1..Len(d.locks) : b = Lock0(d) + j \/ b = (End(d) + 1) - j
      BY <1>3, LockGroupsAre
    <2>4. \A e \in DirGroups(d) \cup SetupGroups(d) : e \in 1..End(d) /\ e < b
      BY <2>3, LockPlaces, FileGroupsAre DEF Writing
    <2>5. \A e \in DirGroups(d) \cup SetupGroups(d) : GroupAt(F, K, d, e, 4)
      BY <1>00, <2>4
    <2>6. \E c : Groups(d)[b] = LockGroup(d.locks[j], c)
      BY <2>3, GroupsAre
    <2> QED BY <2>2, <2>5, <2>6, ReadyLock
  <1> QED BY <1>1, <1>2, <1>3

\* What performing an operation does to the file system.
Domains == DOMAIN fs = Places /\ DOMAIN kept = Places

\* What the actions of Publication do, in the terms used here.
LEMMA EntersIs ==
  ASSUME Domains, NEW p \in Places, NEW x, NEW entries,
         DOMAIN entries = {p}, entries[p] = x, Enters(entries)
  PROVE  Wrote(fs, kept, fs', kept', p, x) /\ Domains'
  <1> DEFINE more == [q \in DOMAIN entries |-> kept[q] \cup {entries[q]}]
  <1>1. DOMAIN more = {p} /\ more[p] = kept[p] \cup {x}
    OBVIOUS
  <1>2. fs' = Over(entries, fs) /\ kept' = Over(more, kept)
    BY DEF Enters
  <1> HIDE DEF more
  <1>3. /\ fs' = [q \in Places |-> IF q = p THEN x ELSE fs[q]]
        /\ kept' = [q \in Places |-> IF q = p THEN kept[p] \cup {x} ELSE kept[q]]
    <2>1. {p} \cup Places = Places
      OBVIOUS
    <2>2. fs' = [q \in Places |-> IF q \in {p} THEN entries[q] ELSE fs[q]]
      BY <1>2, <2>1 DEF Over, Domains
    <2>3. kept' = [q \in Places |-> IF q \in {p} THEN more[q] ELSE kept[q]]
      BY <1>1, <1>2, <2>1 DEF Over, Domains
    <2> QED BY <1>1, <2>2, <2>3
  <1> QED BY <1>3 DEF Wrote, Domains

LEMMA PerformMkDir ==
  ASSUME Domains, NEW q \in Paths, NEW operation,
         operation = Operation("mkdir", Change(q, None, Directory)), Perform(operation)
  PROVE  Wrote(fs, kept, fs', kept', q, Directory) /\ Domains'
  <1>1. operation.opcode = "mkdir" /\ DOMAIN operation.changes = {q}
    BY OperationValues DEF Change
  <1>2. MkDir(operation)
    BY <1>1 DEF Perform, Create, Rename, SyncFile, SyncDirectory, LockOrUnlock
  <1> DEFINE entries == [path \in DOMAIN operation.changes |-> Directory]
  <1>3. DOMAIN entries = {q} /\ entries[q] = Directory /\ Enters(entries)
    BY <1>1, <1>2 DEF MkDir
  <1> HIDE DEF entries
  <1> QED BY <1>3, EntersIs, PathFacts

LEMMA WritesIs ==
  ASSUME Domains, NEW p \in Paths, NEW operation, DOMAIN operation.changes = {p},
         NEW bytes, Writes(operation, bytes)
  PROVE  Wrote(fs, kept, fs', kept', p, File(bytes[p], FALSE)) /\ Domains'
  <1> DEFINE entries == [path \in DOMAIN operation.changes |-> File(bytes[path], FALSE)]
  <1>1. DOMAIN entries = {p} /\ entries[p] = File(bytes[p], FALSE) /\ Enters(entries)
    BY DEF Writes
  <1> HIDE DEF entries
  <1> QED BY <1>1, EntersIs, PathFacts

LEMMA PerformCreate ==
  ASSUME Domains, NEW p \in Paths, NEW x, NEW operation,
         operation = Operation("create", Change(p, None, x))
  PROVE  /\ Perform(operation) =>
              Wrote(fs, kept, fs', kept', p, File(x, FALSE)) /\ Domains'
         /\ CreateTorn(operation) =>
              Wrote(fs, kept, fs', kept', p, File(Torn, FALSE)) /\ Domains'
  <1>1. /\ operation.opcode = "create" /\ DOMAIN operation.changes = {p}
        /\ operation.changes[p].after = x
    BY OperationValues DEF Change
  <1>2. ASSUME Perform(operation)
        PROVE  Wrote(fs, kept, fs', kept', p, File(x, FALSE)) /\ Domains'
    <2> DEFINE bytes == [path \in Paths |-> operation.changes[path].after]
    <2>1. Create(operation)
      BY <1>1, <1>2 DEF Perform, MkDir, Rename, SyncFile, SyncDirectory, LockOrUnlock
    <2>2. Writes(operation, bytes) /\ bytes[p] = x
      BY <1>1, <2>1 DEF Create
    <2> HIDE DEF bytes
    <2> QED BY <1>1, <2>2, WritesIs
  <1>3. ASSUME CreateTorn(operation)
        PROVE  Wrote(fs, kept, fs', kept', p, File(Torn, FALSE)) /\ Domains'
    <2> DEFINE bytes == [path \in Paths |-> Torn]
    <2>1. Writes(operation, bytes) /\ bytes[p] = Torn
      BY <1>3 DEF CreateTorn
    <2> HIDE DEF bytes
    <2> QED BY <1>1, <2>1, WritesIs
  <1> QED BY <1>2, <1>3

LEMMA PerformSyncFile ==
  ASSUME Domains, NEW p \in Places, NEW x, NEW operation, operation = Sync(p, x),
         fs[p] \notin {None, Directory}, Perform(operation)
  PROVE  SyncedFile(fs, kept, fs', kept', p) /\ Domains'
  <1>1. operation.opcode = "fsync" /\ DOMAIN operation.changes = {p}
    BY OperationValues DEF Change, Sync
  <1>2. SyncFile(operation)
    BY <1>1 DEF Perform, MkDir, Create, Rename, SyncDirectory, LockOrUnlock
  <1>3. /\ fs' = [fs EXCEPT ![p] = File(fs[p].bytes, TRUE)]
        /\ kept' = [kept EXCEPT ![p] = (@ \ {fs[p]}) \cup {File(fs[p].bytes, TRUE)}]
    BY <1>1, <1>2 DEF SyncFile
  <1> QED BY <1>3 DEF SyncedFile, Domains

LEMMA PerformSyncDirectory ==
  ASSUME Domains, NEW p \in Places, NEW operation, operation = Sync(p, Directory),
         fs[p] = Directory, Perform(operation)
  PROVE  SyncedDirectory(fs, kept, fs', kept', p) /\ Domains'
  <1>1. operation.opcode = "fsync" /\ DOMAIN operation.changes = {p}
    BY OperationValues DEF Change, Sync
  <1>2. SyncDirectory(operation)
    <2>1. ~ SyncFile(operation)
      BY <1>1 DEF SyncFile, IsFile
    <2> QED BY <1>1, <2>1 DEF Perform, MkDir, Create, Rename, LockOrUnlock
  <1> DEFINE certain == [path \in {q \in Paths : ParentOf[q] = p} |-> {fs[path]}]
  <1>3. fs' = fs /\ kept' = Over(certain, kept)
    BY <1>1, <1>2 DEF SyncDirectory
  <1>4. {q \in Paths : ParentOf[q] = p} \cup Places = Places
    BY PathFacts
  <1>5. kept' = [q \in Places |->
                   IF q \in Paths /\ ParentOf[q] = p THEN {fs[q]} ELSE kept[q]]
    BY <1>3, <1>4, PathFacts DEF Over, Domains
  <1> QED BY <1>3, <1>5 DEF SyncedDirectory, Domains

LEMMA PerformRename ==
  ASSUME Domains, NEW f, f.temporary \in Places, f.path \in Places,
         f.temporary # f.path, f.candidate # None,
         NEW operation, operation = RenameOf(f), Perform(operation)
  PROVE  Renamed(fs, kept, fs', kept', f.temporary, f.path) /\ Domains'
  <1> DEFINE t == f.temporary
             p == f.path
  <1>1. /\ operation.opcode = "rename" /\ DOMAIN operation.changes = {t, p}
        /\ operation.changes[t].after = None /\ operation.changes[p].after # None
    BY OperationValues DEF Over, Change, RenameOf
  <1>2. Rename(operation)
    BY <1>1 DEF Perform, MkDir, Create, SyncFile, SyncDirectory, LockOrUnlock
  <1> DEFINE entries == [path \in DOMAIN operation.changes |->
                           IF path = t THEN None ELSE fs[t]]
             more == [path \in DOMAIN entries |-> kept[path] \cup {entries[path]}]
  <1>3. Enters(entries)
    BY <1>1, <1>2 DEF Rename
  <1>4. fs' = Over(entries, fs) /\ kept' = Over(more, kept)
    BY <1>3 DEF Enters
  <1>5. /\ DOMAIN entries = {t, p} /\ entries[t] = None /\ entries[p] = fs[t]
        /\ DOMAIN more = {t, p} /\ more[t] = kept[t] \cup {None}
        /\ more[p] = kept[p] \cup {fs[t]}
    BY <1>1
  <1>6. {t, p} \cup Places = Places
    OBVIOUS
  <1> HIDE DEF entries, more
  <1>7. fs' = [q \in Places |-> IF q \in {t, p} THEN entries[q] ELSE fs[q]]
    BY <1>4, <1>5, <1>6 DEF Over, Domains
  <1>8. kept' = [q \in Places |-> IF q \in {t, p} THEN more[q] ELSE kept[q]]
    BY <1>4, <1>5, <1>6 DEF Over, Domains
  <1> QED BY <1>5, <1>7, <1>8 DEF Renamed, Domains

LEMMA PerformLock ==
  ASSUME NEW lock, NEW c \in {"lock", "unlock"}, NEW operation,
         operation = LockGroup(lock, c)[1]
  PROVE  /\ Perform(operation) => UNCHANGED <<fs, kept>>
         /\ ~ CreateTorn(operation)
         /\ operation.opcode = c /\ DOMAIN operation.changes = {lock.path}
  <1>1. operation.opcode = c /\ DOMAIN operation.changes = {lock.path}
    BY OperationValues DEF LockGroup, Change
  <1> QED BY <1>1 DEF Perform, MkDir, Create, Rename, SyncFile, SyncDirectory, LockOrUnlock,
                      CreateTorn

\* The operations of a group do what the group does.
LEMMA PerformDirectory ==
  ASSUME Domains, NEW q \in Paths, NEW o \in 1..2, \A a \in Above[q] : fs[a] = Directory,
         NEW operation, operation = DirectoryGroup(q)[o]
  PROVE  /\ Perform(operation) => DirectoryDone(fs, kept, fs', kept', q, o) /\ Domains'
         /\ ~ CreateTorn(operation)
  <1>1. CASE o = 1
    <2>1. operation = Operation("mkdir", Change(q, None, Directory))
      BY <1>1 DEF DirectoryGroup
    <2>2. operation.opcode = "mkdir"
      BY <2>1, OperationValues
    <2>3. ASSUME Perform(operation) PROVE Wrote(fs, kept, fs', kept', q, Directory) /\ Domains'
      BY <2>1, <2>3, PerformMkDir
    <2> QED BY <1>1, <2>2, <2>3 DEF DirectoryDone, CreateTorn
  <1>2. CASE o = 2
    <2>1. operation = Sync(ParentOf[q], Directory)
      BY <1>2 DEF DirectoryGroup
    <2>2. operation.opcode = "fsync"
      BY <2>1, OperationValues DEF Sync
    <2>3. fs[ParentOf[q]] = Directory /\ ParentOf[q] \in Places
      BY AboveLeast, PathFacts
    <2>4. ASSUME Perform(operation)
          PROVE  SyncedDirectory(fs, kept, fs', kept', ParentOf[q]) /\ Domains'
      BY <2>1, <2>3, <2>4, PerformSyncDirectory
    <2> QED BY <1>2, <2>2, <2>4 DEF DirectoryDone, CreateTorn
  <1> QED BY <1>1, <1>2

LEMMA PerformCreation ==
  ASSUME Domains, NEW f \in FileDeclarations, TemporaryFits(f), f.previous = None,
         \A a \in Above[f.path] : fs[a] = Directory,
         NEW o \in 1..3, CreationAt(fs, kept, f, o - 1),
         NEW operation, operation = CreationGroup(f)[o]
  PROVE  /\ Perform(operation) => CreationDone(fs, kept, fs', kept', f, o) /\ Domains'
         /\ CreateTorn(operation) =>
              o = 1 /\ Wrote(fs, kept, fs', kept', f.path, File(Torn, FALSE)) /\ Domains'
  <1>0. f.path \in Paths /\ f.path \in Places /\ f.candidate \in Bytes
    BY FileTypes, PathFacts
  <1>1. CASE o = 1
    <2>1. operation = Operation("create", Change(f.path, None, f.candidate))
      BY <1>1 DEF CreationGroup
    <2>2. ASSUME Perform(operation)
          PROVE  Wrote(fs, kept, fs', kept', f.path, File(f.candidate, FALSE)) /\ Domains'
      BY <1>0, <2>1, <2>2, PerformCreate
    <2>3. ASSUME CreateTorn(operation)
          PROVE  Wrote(fs, kept, fs', kept', f.path, File(Torn, FALSE)) /\ Domains'
      BY <1>0, <2>1, <2>3, PerformCreate
    <2>4. ASSUME Perform(operation)
          PROVE  CreationDone(fs, kept, fs', kept', f, o) /\ Domains'
      <3>1. Wrote(fs, kept, fs', kept', f.path, File(f.candidate, FALSE)) /\ Domains'
        BY <2>2, <2>4
      <3>2. ~ o = 2 /\ ~ o = 3
        BY <1>1
      <3> QED BY ONLY <3>1, <3>2 DEF CreationDone
    <2> QED BY <1>1, <2>3, <2>4
  <1>2. CASE o = 2
    <2>1. operation = Sync(f.path, f.candidate)
      BY <1>2 DEF CreationGroup
    <2>2. operation.opcode = "fsync"
      BY <2>1, OperationValues DEF Sync
    <2>3. CreationAt(fs, kept, f, 1)
      BY <1>2
    <2>4. fs[f.path] = File(f.candidate, FALSE)
      BY <2>3, CreationStages DEF Fresh, Pending
    <2>5. fs[f.path] \notin {None, Directory}
      BY <1>0, <2>4, PathFacts
    <2>6. ASSUME Perform(operation)
          PROVE  SyncedFile(fs, kept, fs', kept', f.path) /\ Domains'
      BY <1>0, <2>1, <2>5, <2>6, PerformSyncFile
    <2> QED BY <1>2, <2>2, <2>6 DEF CreationDone, CreateTorn
  <1>3. CASE o = 3
    <2>1. operation = Sync(ParentOf[f.path], Directory)
      BY <1>3 DEF CreationGroup
    <2>2. operation.opcode = "fsync"
      BY <2>1, OperationValues DEF Sync
    <2>3. fs[ParentOf[f.path]] = Directory /\ ParentOf[f.path] \in Places
      BY <1>0, AboveLeast, PathFacts
    <2>4. ASSUME Perform(operation)
          PROVE  SyncedDirectory(fs, kept, fs', kept', ParentOf[f.path]) /\ Domains'
      BY <2>1, <2>3, <2>4, PerformSyncDirectory
    <2> QED BY <1>3, <2>2, <2>4 DEF CreationDone, CreateTorn
  <1>4. o = 1 \/ o = 2 \/ o = 3
    OBVIOUS
  <1> QED BY ONLY <1>1, <1>2, <1>3, <1>4

LEMMA PerformReplacement ==
  ASSUME Domains, NEW f \in FileDeclarations, TemporaryFits(f), f.previous # None,
         \A a \in Above[f.path] : fs[a] = Directory,
         NEW o \in 1..4, ReplacementAt(fs, kept, f, o - 1),
         NEW operation, operation = ReplacementGroup(f)[o]
  PROVE  /\ Perform(operation) => ReplacementDone(fs, kept, fs', kept', f, o) /\ Domains'
         /\ CreateTorn(operation) =>
              o = 1 /\ Wrote(fs, kept, fs', kept', f.temporary, File(Torn, FALSE)) /\ Domains'
  <1>0. /\ f.path \in Paths /\ f.path \in Places /\ f.candidate \in Bytes
        /\ f.temporary \in Paths /\ f.temporary \in Places /\ f.temporary # f.path
        /\ f.candidate # None
    BY FileTypes, PathFacts
  <1>1. CASE o = 1
    <2>1. operation = Operation("create", Change(f.temporary, None, f.candidate))
      BY <1>1 DEF ReplacementGroup
    <2>2. ASSUME Perform(operation)
          PROVE  Wrote(fs, kept, fs', kept', f.temporary, File(f.candidate, FALSE)) /\ Domains'
      BY <1>0, <2>1, <2>2, PerformCreate
    <2>3. ASSUME CreateTorn(operation)
          PROVE  Wrote(fs, kept, fs', kept', f.temporary, File(Torn, FALSE)) /\ Domains'
      BY <1>0, <2>1, <2>3, PerformCreate
    <2>4. ASSUME Perform(operation)
          PROVE  ReplacementDone(fs, kept, fs', kept', f, o) /\ Domains'
      <3>1. Wrote(fs, kept, fs', kept', f.temporary, File(f.candidate, FALSE)) /\ Domains'
        BY <2>2, <2>4
      <3>2. ~ o = 2 /\ ~ o = 3 /\ ~ o = 4
        BY <1>1
      <3> QED BY ONLY <3>1, <3>2 DEF ReplacementDone
    <2> QED BY <1>1, <2>3, <2>4
  <1>2. CASE o = 2
    <2>1. operation = Sync(f.temporary, f.candidate)
      BY <1>2 DEF ReplacementGroup
    <2>2. operation.opcode = "fsync"
      BY <2>1, OperationValues DEF Sync
    <2>3. ReplacementAt(fs, kept, f, 1)
      BY <1>2
    <2>4. fs[f.temporary] = File(f.candidate, FALSE)
      BY <2>3, ReplacementStages DEF Fresh, Pending
    <2>5. fs[f.temporary] \notin {None, Directory}
      BY <1>0, <2>4, PathFacts
    <2>6. ASSUME Perform(operation)
          PROVE  SyncedFile(fs, kept, fs', kept', f.temporary) /\ Domains'
      BY <1>0, <2>1, <2>5, <2>6, PerformSyncFile
    <2> QED BY <1>2, <2>2, <2>6 DEF ReplacementDone, CreateTorn
  <1>3. CASE o = 3
    <2>1. operation = RenameOf(f)
      BY <1>3 DEF ReplacementGroup
    <2>2. operation.opcode = "rename"
      BY <2>1, OperationValues DEF RenameOf
    <2>3. ASSUME Perform(operation)
          PROVE  Renamed(fs, kept, fs', kept', f.temporary, f.path) /\ Domains'
      BY <1>0, <2>1, <2>3, PerformRename
    <2> QED BY <1>3, <2>2, <2>3 DEF ReplacementDone, CreateTorn
  <1>4. CASE o = 4
    <2>1. operation = Sync(ParentOf[f.path], Directory)
      BY <1>4 DEF ReplacementGroup
    <2>2. operation.opcode = "fsync"
      BY <2>1, OperationValues DEF Sync
    <2>3. fs[ParentOf[f.path]] = Directory /\ ParentOf[f.path] \in Places
      BY <1>0, AboveLeast, PathFacts
    <2>4. ASSUME Perform(operation)
          PROVE  SyncedDirectory(fs, kept, fs', kept', ParentOf[f.path]) /\ Domains'
      BY <2>1, <2>3, <2>4, PerformSyncDirectory
    <2> QED BY <1>4, <2>2, <2>4 DEF ReplacementDone, CreateTorn
  <1>5. o = 1 \/ o = 2 \/ o = 3 \/ o = 4
    OBVIOUS
  <1> QED BY ONLY <1>1, <1>2, <1>3, <1>4, <1>5

\* Where an operation creates a file.
Begins(d, b) ==
  IF FileOf(d, b).previous = None THEN FileOf(d, b).path ELSE FileOf(d, b).temporary

\* Each operation of a group in step does what the group needs.
LEMMA Performs ==
  ASSUME Domains, NEW d, Fit(d), Ground(fs, kept, d), NEW b \in 1..End(d),
         NEW o \in 1..GroupSize(d, b), Prefix(fs, kept, d, b, o - 1),
         NEW operation, operation = Groups(d)[b][o]
  PROVE  /\ Perform(operation) => Done(fs, kept, fs', kept', d, b, o) /\ Domains'
         /\ CreateTorn(operation) =>
              /\ b \in Writing(d) /\ o = 1 /\ Domains'
              /\ Wrote(fs, kept, fs', kept', Begins(d, b), File(Torn, FALSE))
  <1>0. GroupAt(fs, kept, d, b, o - 1)
    BY Sizes DEF Prefix
  <1>00. \A e \in 1..End(d) : e < b => GroupAt(fs, kept, d, e, 4)
    BY DEF Prefix
  <1>1. CASE b \in DirGroups(d)
    <2> DEFINE q == d.directories[b]
    <2>1. /\ b \notin Writing(d) /\ q \in Paths /\ DirGroups(d) \subseteq 1..End(d)
          /\ GroupSize(d, b) = 2
      BY <1>1, FileGroupsAre, DeclarationTypes, ElementOfSeq DEF DirGroups, Setup0, GroupSize
    <2>2. Above[q] \subseteq Standing(d) \cup Made(d, b)
      BY <1>1, AboveAre
    <2>3. \A a \in Standing(d) \cup Made(d, b) : Settled(fs, kept, a, Directory)
      BY <1>00, <2>1, StandingOrMade
    <2>4. Groups(d)[b] = DirectoryGroup(q)
      BY <1>1, GroupsAre
    <2>5. o \in 1..2
      BY <2>1
    <2> HIDE DEF q
    <2>6. \A a \in Above[q] : fs[a] = Directory
      BY <2>2, <2>3 DEF Settled
    <2>7. operation = DirectoryGroup(q)[o]
      BY <2>4
    <2>8. /\ Perform(operation) => DirectoryDone(fs, kept, fs', kept', q, o) /\ Domains'
          /\ ~ CreateTorn(operation)
      BY <2>1, <2>5, <2>6, <2>7, PerformDirectory
    <2> QED BY <1>1, <2>1, <2>8 DEF Done, q
  <1>2. CASE b \in Writing(d)
    <2> DEFINE f == FileOf(d, b)
    <2>1. /\ b \notin DirGroups(d) /\ f \in FileDeclarations /\ TemporaryFits(f)
          /\ DirGroups(d) \subseteq 1..End(d) /\ \A e \in DirGroups(d) : e < b
      BY <1>2, FileGroupsAre, FileOfType
    <2>2. \A a \in Standing(d) \cup ToSet(d.directories) : Settled(fs, kept, a, Directory)
      BY <1>00, <2>1, AllMade
    <2>3. Above[f.path] \subseteq Standing(d) \cup ToSet(d.directories)
      BY <1>2, WritingAre, AboveAre
    <2>4. FileAt(fs, kept, f, o - 1) /\ Groups(d)[b] = FileGroup(f)
      BY <1>0, <1>2, GroupsAre DEF GroupAt
    <2>5. GroupSize(d, b) = IF f.previous = None THEN 3 ELSE 4
      BY <1>2, <2>1 DEF GroupSize
    <2> HIDE DEF f
    <2>6. \A a \in Above[f.path] : fs[a] = Directory
      BY <2>2, <2>3 DEF Settled
    <2>7. CASE f.previous = None
      <3>1. o \in 1..3 /\ CreationAt(fs, kept, f, o - 1) /\ operation = CreationGroup(f)[o]
        BY <2>4, <2>5, <2>7 DEF FileAt, FileGroup
      <3>2. /\ Perform(operation) => CreationDone(fs, kept, fs', kept', f, o) /\ Domains'
            /\ CreateTorn(operation) =>
                 o = 1 /\ Wrote(fs, kept, fs', kept', f.path, File(Torn, FALSE)) /\ Domains'
        BY <2>1, <2>6, <2>7, <3>1, PerformCreation
      <3>3. Begins(d, b) = f.path
        BY <2>7 DEF Begins, f
      <3> QED BY <1>2, <2>1, <2>7, <3>2, <3>3 DEF Done, FileDone, f
    <2>8. CASE f.previous # None
      <3>1. o \in 1..4 /\ ReplacementAt(fs, kept, f, o - 1) /\ operation = ReplacementGroup(f)[o]
        BY <2>4, <2>5, <2>8 DEF FileAt, FileGroup
      <3>2. /\ Perform(operation) => ReplacementDone(fs, kept, fs', kept', f, o) /\ Domains'
            /\ CreateTorn(operation) =>
                 o = 1 /\ Wrote(fs, kept, fs', kept', f.temporary, File(Torn, FALSE)) /\ Domains'
        BY <2>1, <2>6, <2>8, <3>1, PerformReplacement
      <3>3. Begins(d, b) = f.temporary
        BY <2>8 DEF Begins, f
      <3> QED BY <1>2, <2>1, <2>8, <3>2, <3>3 DEF Done, FileDone, f
    <2> QED BY <2>7, <2>8
  <1>3. CASE b \notin DirGroups(d) /\ b \notin Writing(d)
    <2>1. GroupSize(d, b) = 1
      BY <1>3 DEF GroupSize
    <2>2. o = 1
      BY <2>1
    <2>3. PICK j \in 1..Len(d.locks) : b = Lock0(d) + j \/ b = (End(d) + 1) - j
      BY <1>3, LockGroupsAre
    <2>4. \E c \in {"lock", "unlock"} : Groups(d)[b] = LockGroup(d.locks[j], c)
      BY <2>3, GroupsAre
    <2>5. (Perform(operation) => UNCHANGED <<fs, kept>>) /\ ~ CreateTorn(operation)
      BY <2>2, <2>4, PerformLock
    <2> QED BY <1>3, <2>5 DEF Done, Domains
  <1> QED BY <1>1, <1>2, <1>3

\* Each lock is taken by one operation and released by another, in this order.
LEMMA OneStart ==
  ASSUME NEW d, Fit(d), NEW b \in 1..End(d), NEW o \in 1..GroupSize(d, b), NEW c \in 1..End(d),
         NEW k, k = Start(d)[b] + o
  PROVE  Start(d)[c] + 1 = k <=> c = b /\ o = 1
  <1> DEFINE at == Start(d)
  <1>0. End(d) \in Nat /\ GroupSize(d, b) \in 1..4 /\ GroupSize(d, c) \in 1..4
    BY Sizes, GroupSizes
  <1>00. b \in 1..(End(d) + 1) /\ c \in 1..(End(d) + 1)
    BY <1>0
  <1>000. at[b] \in Nat /\ at[c] \in Nat
    BY <1>00, StartIs
  <1>1. /\ at[b] \in Nat /\ at[c] \in Nat /\ End(d) \in Nat
        /\ GroupSize(d, b) \in 1..4 /\ GroupSize(d, c) \in 1..4
        /\ b \in 1..(End(d) + 1) /\ c \in 1..(End(d) + 1)
    BY <1>0, <1>00, <1>000
  <1>2. /\ c < b => at[c] + GroupSize(d, c) <= at[b]
        /\ b < c => at[b] + GroupSize(d, b) <= at[c]
    BY <1>1, StartIs
  <1>3. c < b \/ c = b \/ b < c
    BY <1>1
  <1> HIDE DEF at
  <1>4. CASE c < b
    BY <1>1, <1>2, <1>4 DEF at
  <1>5. CASE b < c
    BY <1>1, <1>2, <1>5 DEF at
  <1>6. CASE c = b
    BY <1>1, <1>6 DEF at
  <1> QED BY <1>3, <1>4, <1>5, <1>6

\* A lock is held from its own operation up to its release.
LEMMA HeldIndex ==
  ASSUME NEW d, Fit(d), NEW k \in 1..Len(Plan(d)), NEW i \in 1..Len(d.locks)
  PROVE  HeldBefore(d, i, k + 1) <=>
           /\ HeldBefore(d, i, k) \/ Start(d)[Lock0(d) + i] + 1 = k
           /\ Start(d)[(End(d) + 1) - i] + 1 # k
  <1> DEFINE u == Start(d)[Lock0(d) + i]
             v == Start(d)[(End(d) + 1) - i]
             b == Lock0(d) + i
             c == (End(d) + 1) - i
  <1>0. b \in 1..End(d) /\ c \in 1..End(d) /\ b < c
    BY LockPlaces
  <1>1. /\ b \in 1..End(d) /\ c \in 1..End(d) /\ c \in 1..(End(d) + 1)
        /\ b \in 1..(End(d) + 1) /\ b < c
    <2>1. End(d) \in Nat
      BY Sizes
    <2> HIDE DEF b, c
    <2> QED BY ONLY <1>0, <2>1
  <1> HIDE DEF b, c
  <1>2. u \in Nat /\ v \in Nat
    BY <1>1, StartIs DEF b, c
  <1>3. Start(d)[b] + GroupSize(d, b) <= Start(d)[c] /\ GroupSize(d, b) \in 1..4
    BY <1>1, StartIs, GroupSizes
  <1>4. u + 1 <= v
    BY <1>2, <1>3 DEF b, c
  <1>5. k \in Nat
    BY StartIs
  <1> HIDE DEF u, v
  <1>6. (u + 1 < k + 1 /\ k + 1 <= v + 1)
          <=> ((u + 1 < k /\ k <= v + 1) \/ u + 1 = k) /\ v + 1 # k
    BY <1>2, <1>4, <1>5
  <1> QED BY <1>6 DEF HeldBefore, u, v

LEMMA HeldAtIs ==
  ASSUME NEW d, Fit(d), NEW k
  PROVE  HeldAt(d, k) = {d.locks[i].path : i \in {j \in 1..Len(d.locks) : HeldBefore(d, j, k)}}
  BY ReplacedAre DEF HeldAt, HeldBefore

\* No lock is held at the start or at the end.
LEMMA HeldEnds ==
  ASSUME NEW d, Fit(d)
  PROVE  HeldAt(d, 1) = {} /\ HeldAt(d, Len(Plan(d)) + 1) = {}
  <1>1. ASSUME NEW i \in 1..Len(d.locks)
        PROVE  ~ HeldBefore(d, i, 1) /\ ~ HeldBefore(d, i, Len(Plan(d)) + 1)
    <2> DEFINE b == Lock0(d) + i
               c == (End(d) + 1) - i
               u == Start(d)[b]
               v == Start(d)[c]
    <2>0. b \in 1..End(d) /\ c \in 1..End(d)
      BY LockPlaces
    <2>1. /\ b \in 1..End(d) /\ c \in 1..End(d) /\ c \in 1..(End(d) + 1)
          /\ b \in 1..(End(d) + 1) /\ c < End(d) + 1 /\ End(d) + 1 \in 1..(End(d) + 1)
      <3>1. End(d) \in Nat
        BY Sizes
      <3> HIDE DEF b, c
      <3> QED BY ONLY <2>0, <3>1
    <2> HIDE DEF b, c
    <2>2. /\ u \in Nat /\ v \in Nat /\ Len(Plan(d)) \in Nat
          /\ Start(d)[c] + GroupSize(d, c) <= Start(d)[End(d) + 1]
          /\ Start(d)[End(d) + 1] = Len(Plan(d)) /\ GroupSize(d, c) \in 1..4
      BY <2>1, StartIs, GroupSizes
    <2>3. ~ u + 1 < 1 /\ ~ Len(Plan(d)) + 1 <= v + 1
      BY <2>2
    <2> QED BY <2>3 DEF HeldBefore, b, c
  <1> QED BY <1>1, HeldAtIs

\* Between the locks and their release all are held.
LEMMA HeldAll ==
  ASSUME NEW d, Fit(d), NEW b \in FileGroups(d), NEW o \in 1..GroupSize(d, b), NEW k,
         k = Start(d)[b] + o
  PROVE  HeldAt(d, k) = {lock.path : lock \in ToSet(d.locks)}
  <1>0. b \in 1..End(d) /\ b \in 1..(End(d) + 1)
    BY FileGroupsAre, Sizes DEF Writing
  <1>1. ASSUME NEW i \in 1..Len(d.locks) PROVE HeldBefore(d, i, k)
    <2> DEFINE e == Lock0(d) + i
               c == (End(d) + 1) - i
    <2>0. e \in 1..End(d) /\ c \in 1..End(d) /\ e < b /\ b < c
      BY LockPlaces
    <2>1. /\ e \in 1..End(d) /\ c \in 1..End(d) /\ c \in 1..(End(d) + 1)
          /\ e \in 1..(End(d) + 1) /\ e < b /\ b < c
      <3>1. End(d) \in Nat
        BY Sizes
      <3> HIDE DEF e, c
      <3> QED BY ONLY <2>0, <3>1
    <2> HIDE DEF e, c
    <2>2. /\ Start(d)[e] \in Nat /\ Start(d)[c] \in Nat /\ Start(d)[b] \in Nat
          /\ Start(d)[e] + GroupSize(d, e) <= Start(d)[b]
          /\ Start(d)[b] + GroupSize(d, b) <= Start(d)[c]
          /\ GroupSize(d, e) \in 1..4 /\ GroupSize(d, b) \in 1..4
      BY <1>0, <2>1, StartIs, GroupSizes
    <2>3. Start(d)[e] + 1 < k /\ k <= Start(d)[c] + 1
      <3> DEFINE se == Start(d)[e]
                 sb == Start(d)[b]
                 sc == Start(d)[c]
                 ge == GroupSize(d, e)
                 gb == GroupSize(d, b)
      <3>1. /\ se \in Nat /\ sb \in Nat /\ sc \in Nat /\ ge \in 1..4 /\ gb \in 1..4
            /\ se + ge <= sb /\ sb + gb <= sc /\ k = sb + o /\ o \in 1..gb
        BY <2>2
      <3> HIDE DEF se, sb, sc, ge, gb
      <3>2. se + 1 < k /\ k <= sc + 1
        BY ONLY <3>1
      <3> QED BY <3>2 DEF se, sc
    <2> QED BY <2>3 DEF HeldBefore, e, c
  <1>2. HeldAt(d, k) = {d.locks[i].path : i \in 1..Len(d.locks)}
    BY <1>1, HeldAtIs
  <1>3. ToSet(d.locks) = {d.locks[i] : i \in 1..Len(d.locks)}
    BY ReplacedAre DEF ToSet
  <1> QED BY <1>2, <1>3

\* Only the groups of the locks lock.
LEMMA OtherOpcodes ==
  ASSUME NEW d, Fit(d), NEW b \in DirGroups(d) \cup Writing(d), NEW o \in 1..GroupSize(d, b)
  PROVE  Groups(d)[b][o].opcode \notin {"lock", "unlock"}
  <1>1. CASE b \in DirGroups(d)
    <2>1. GroupSize(d, b) = 2 /\ Groups(d)[b] = DirectoryGroup(d.directories[b])
      BY <1>1, GroupsAre DEF GroupSize
    <2>2. o = 1 \/ o = 2
      BY <2>1
    <2> QED BY <2>1, <2>2, OperationValues DEF DirectoryGroup, Sync
  <1>2. CASE b \in Writing(d)
    <2> DEFINE f == FileOf(d, b)
    <2>1. /\ GroupSize(d, b) = IF f.previous = None THEN 3 ELSE 4
          /\ Groups(d)[b] = FileGroup(f)
      BY <1>2, GroupsAre, FileGroupsAre DEF GroupSize
    <2> HIDE DEF f
    <2>2. CASE f.previous = None
      <3>1. o = 1 \/ o = 2 \/ o = 3
        BY <2>1, <2>2
      <3> QED BY <2>1, <2>2, <3>1, OperationValues DEF FileGroup, CreationGroup, Sync
    <2>3. CASE f.previous # None
      <3>1. o = 1 \/ o = 2 \/ o = 3 \/ o = 4
        BY <2>1, <2>3
      <3> QED BY <2>1, <2>3, <3>1, OperationValues DEF FileGroup, ReplacementGroup, Sync, RenameOf
    <2> QED BY <2>2, <2>3
  <1> QED BY <1>1, <1>2

\* The locks held are those of the place in the plan.
LEMMA HeldNext ==
  ASSUME NEW d, Fit(d), NEW b \in 1..End(d), NEW o \in 1..GroupSize(d, b),
         NEW k \in 1..Len(Plan(d)), k = Start(d)[b] + o,
         NEW operation, operation = Groups(d)[b][o]
  PROVE  HeldAt(d, k + 1) = HeldThen(operation, HeldAt(d, k))
  <1> DEFINE l == Len(d.locks)
             Holders(m) == {i \in 1..l : HeldBefore(d, i, m)}
  <1>1. ASSUME NEW i \in 1..l
        PROVE  /\ Start(d)[Lock0(d) + i] + 1 = k <=> Lock0(d) + i = b /\ o = 1
               /\ Start(d)[(End(d) + 1) - i] + 1 = k <=> (End(d) + 1) - i = b /\ o = 1
    BY LockPlaces, OneStart
  <1>2. ASSUME NEW i \in 1..l
        PROVE  HeldBefore(d, i, k + 1) <=>
                 /\ HeldBefore(d, i, k) \/ (Lock0(d) + i = b /\ o = 1)
                 /\ ~ ((End(d) + 1) - i = b /\ o = 1)
    BY <1>1, HeldIndex
  <1>3. HeldAt(d, k) = {d.locks[i].path : i \in Holders(k)}
        /\ HeldAt(d, k + 1) = {d.locks[i].path : i \in Holders(k + 1)}
    BY HeldAtIs
  <1>4. \A i, j \in 1..l : d.locks[i].path = d.locks[j].path => i = j
    BY PreviousIs
  <1>5. ASSUME b \in DirGroups(d) \cup Writing(d)
        PROVE  HeldAt(d, k + 1) = HeldAt(d, k) /\ operation.opcode \notin {"lock", "unlock"}
    <2>1. ASSUME NEW i \in 1..l PROVE Lock0(d) + i # b /\ (End(d) + 1) - i # b
      BY <1>5, LockPlaces
    <2>2. Holders(k + 1) = Holders(k)
      BY <1>2, <2>1
    <2>3. operation.opcode \notin {"lock", "unlock"}
      BY <1>5, OtherOpcodes
    <2> HIDE DEF Holders
    <2>4. HeldAt(d, k + 1) = HeldAt(d, k)
      BY <1>3, <2>2
    <2> QED BY <2>3, <2>4
  <1>6. ASSUME NEW j \in 1..l, b = Lock0(d) + j
        PROVE  HeldAt(d, k + 1) = HeldAt(d, k) \cup DOMAIN operation.changes
               /\ operation.opcode = "lock"
    <2>1. b \notin DirGroups(d) /\ b \notin Writing(d)
      BY <1>6, LockPlaces
    <2>2. GroupSize(d, b) = 1
      BY <2>1 DEF GroupSize
    <2>3. o = 1
      BY <2>2
    <2>4. operation = LockGroup(d.locks[j], "lock")[1]
      BY <1>6, <2>3, GroupsAre
    <2>5. operation.opcode = "lock" /\ DOMAIN operation.changes = {d.locks[j].path}
      BY <2>4, PerformLock
    <2>6. ASSUME NEW i \in 1..l PROVE (Lock0(d) + i = b <=> i = j) /\ (End(d) + 1) - i # b
      <3>1. Lock0(d) + j < (End(d) + 1) - i
        BY LockPlaces
      <3>2. Lock0(d) \in Nat /\ End(d) \in Nat /\ Len(d.locks) \in Nat
        BY Sizes
      <3> QED BY <1>6, <3>1, <3>2
    <2>7. Holders(k + 1) = Holders(k) \cup {j}
      BY <1>2, <2>3, <2>6
    <2> HIDE DEF Holders
    <2> QED BY <1>3, <2>5, <2>7
  <1>7. ASSUME NEW j \in 1..l, b = (End(d) + 1) - j
        PROVE  HeldAt(d, k + 1) = HeldAt(d, k) \ DOMAIN operation.changes
               /\ operation.opcode = "unlock"
    <2>1. b \notin DirGroups(d) /\ b \notin Writing(d)
      BY <1>7, LockPlaces
    <2>2. GroupSize(d, b) = 1
      BY <2>1 DEF GroupSize
    <2>3. o = 1
      BY <2>2
    <2>4. operation = LockGroup(d.locks[j], "unlock")[1]
      BY <1>7, <2>3, GroupsAre
    <2>5. operation.opcode = "unlock" /\ DOMAIN operation.changes = {d.locks[j].path}
      BY <2>4, PerformLock
    <2>6. ASSUME NEW i \in 1..l PROVE Lock0(d) + i # b /\ ((End(d) + 1) - i = b <=> i = j)
      <3>1. Lock0(d) + i < (End(d) + 1) - j
        BY LockPlaces
      <3>2. Lock0(d) \in Nat /\ End(d) \in Nat /\ Len(d.locks) \in Nat
        BY Sizes
      <3> QED BY <1>7, <3>1, <3>2
    <2>7. Holders(k + 1) = Holders(k) \ {j} /\ Holders(k) \subseteq 1..l
      BY <1>2, <2>3, <2>6
    <2> HIDE DEF Holders
    <2> QED BY <1>3, <1>4, <2>5, <2>7
  <1>8. b \in DirGroups(d) \cup Writing(d)
          \/ (\E j \in 1..l : b = Lock0(d) + j) \/ (\E j \in 1..l : b = (End(d) + 1) - j)
    BY LockGroupsAre
  <1>9. CASE b \in DirGroups(d) \cup Writing(d)
    BY <1>5, <1>9 DEF HeldThen
  <1>10. ASSUME NEW j \in 1..l, b = Lock0(d) + j
         PROVE  HeldAt(d, k + 1) = HeldThen(operation, HeldAt(d, k))
    BY <1>6, <1>10 DEF HeldThen
  <1>11. ASSUME NEW j \in 1..l, b = (End(d) + 1) - j
         PROVE  HeldAt(d, k + 1) = HeldThen(operation, HeldAt(d, k))
    BY <1>7, <1>11 DEF HeldThen
  <1> QED BY <1>8, <1>9, <1>10, <1>11

\* The other operations touch no file, temporary or snapshot.
LEMMA OtherNames ==
  ASSUME NEW d, Fit(d), NEW b \in 1..End(d), b \notin FileGroups(d),
         NEW o \in 1..GroupSize(d, b)
  PROVE  DOMAIN Groups(d)[b][o].changes \cap AllNames(Preserved(d)) = {}
  <1> DEFINE names == AllNames(Preserved(d))
  <1>1. ASSUME NEW p \in names
        PROVE  \E x \in DOMAIN Declared(d) :
                 x \in 1..Len(Preserved(d)) /\ p \in Names(Declared(d)[x])
    <2>1. PICK x \in DOMAIN Preserved(d) : p \in Names(Preserved(d)[x])
      BY DEF AllNames
    <2>2. DOMAIN Preserved(d) = 1..Len(Preserved(d))
      BY DeclarationTypes, LenProperties
    <2> QED BY <2>1, <2>2, DeclaredAt
  <1>2. names \subseteq AllNames(Declared(d))
    BY <1>1, NamesAre
  <1>3. \A p \in AllNames(Declared(d)) \cup ToSet(d.directories) :
          p \in Paths => ParentOf[p] \notin names
    <2>1. SUFFICES ASSUME NEW p \in AllNames(Declared(d)) \cup ToSet(d.directories), p \in Paths
                   PROVE  ParentOf[p] \in Standing(d) \cup ToSet(d.directories)
      BY <1>2, NamesAre
    <2>2. ParentOf[p] \in Above[p]
      BY <2>1, AboveLeast
    <2> QED BY <2>1, <2>2 DEF Standing
  <1>4. ASSUME NEW i \in 1..Len(d.locks) PROVE d.locks[i].path \notin names
    <2> SUFFICES ASSUME d.locks[i].path \in names PROVE FALSE
      OBVIOUS
    <2>1. PICK x \in DOMAIN Declared(d) :
             x \in 1..Len(Preserved(d)) /\ d.locks[i].path \in Names(Declared(d)[x])
      BY <1>1
    <2> DEFINE y == Len(Preserved(d)) + i
    <2>2. y \in DOMAIN Declared(d) /\ Names(Declared(d)[y]) = {d.locks[i].path}
      BY ExistingAt
    <2>3. x # y
      BY <2>1, Sizes
    <2> HIDE DEF y
    <2> QED BY <2>1, <2>2, <2>3, OnePlace
  <1> HIDE DEF names
  <1>5. CASE b \in DirGroups(d)
    <2> DEFINE q == d.directories[b]
    <2>1. /\ b \in DOMAIN d.directories /\ q \in Paths /\ GroupSize(d, b) = 2
          /\ Groups(d)[b] = DirectoryGroup(q)
      BY <1>5, DeclarationTypes, ElementOfSeq, LenProperties, GroupsAre
         DEF DirGroups, Setup0, GroupSize
    <2>2. q \in ToSet(d.directories)
      BY <2>1 DEF ToSet
    <2>3. q \notin names /\ ParentOf[q] \notin names
      BY <1>2, <1>3, <2>1, <2>2, NamesAre
    <2> HIDE DEF q
    <2>4. o = 1 \/ o = 2
      BY <2>1
    <2>5. DOMAIN DirectoryGroup(q)[o].changes \subseteq {q, ParentOf[q]}
      BY <2>4, OperationValues DEF DirectoryGroup, Sync, Change
    <2> QED BY <2>1, <2>3, <2>5 DEF names
  <1>6. CASE b \in SetupGroups(d)
    <2> DEFINE f == FileOf(d, b)
    <2>1. /\ b \in Writing(d) /\ b \notin DirGroups(d) /\ f.previous = None
          /\ Groups(d)[b] = FileGroup(f)
      BY <1>6, FileGroupsAre, GroupsAre, CreationValues DEF Writing, FileOf, LockFile
    <2>2. f.path \in AllNames(Declared(d)) /\ f.path \in Paths
      BY <2>1, WritingAre, NamesAre
    <2>3. \E i \in 1..Len(d.locks) : f.path = d.locks[i].path
      <3>1. b - Setup0(d) \in 1..Len(NewLocks(d)) /\ f = LockFile(NewLocks(d)[b - Setup0(d)])
        BY <1>6, Sizes DEF SetupGroups, FileOf
      <3>2. f.path = NewLocks(d)[b - Setup0(d)].path
        BY <3>1, CreationValues DEF LockFile
      <3>3. PICK i \in 1..Len(d.locks) : NewLocks(d)[b - Setup0(d)] = d.locks[i]
        <4> DEFINE x == b - Setup0(d)
                   P == {i \in DOMAIN d.locks : d.locks[i].previous = None}
        <4>1. d.locks \in Seq(LockDeclarations) /\ NewLocks(d) = Selected(d.locks, P)
          BY DeclarationTypes DEF NewLocks
        <4>2. x \in 1..Len(Selected(d.locks, P))
          BY <3>1, <4>1
        <4> HIDE DEF x, P
        <4>3. PICK from \in [1..Len(Selected(d.locks, P)) -> 1..Len(d.locks)] :
                \A y \in 1..Len(Selected(d.locks, P)) :
                  from[y] \in P /\ Selected(d.locks, P)[y] = d.locks[from[y]]
          BY <4>1, SelectedAt
        <4>4. from[x] \in 1..Len(d.locks) /\ NewLocks(d)[x] = d.locks[from[x]]
          BY <4>1, <4>2, <4>3
        <4> QED BY <4>4 DEF x
      <3> QED BY <3>2, <3>3
    <2>4. f.path \notin names /\ ParentOf[f.path] \notin names
      BY <1>3, <1>4, <2>2, <2>3
    <2>5. GroupSize(d, b) = 3 /\ FileGroup(f) = CreationGroup(f)
      BY <2>1 DEF GroupSize, FileGroup
    <2> HIDE DEF f
    <2>6. o = 1 \/ o = 2 \/ o = 3
      BY <2>5
    <2>7. DOMAIN CreationGroup(f)[o].changes \subseteq {f.path, ParentOf[f.path]}
      BY <2>6, OperationValues DEF CreationGroup, Sync, Change
    <2> QED BY <2>1, <2>4, <2>5, <2>7 DEF names
  <1>7. CASE b \notin DirGroups(d) /\ b \notin Writing(d)
    <2>1. GroupSize(d, b) = 1
      BY <1>7 DEF GroupSize
    <2>2. o = 1
      BY <2>1
    <2>3. PICK j \in 1..Len(d.locks) : b = Lock0(d) + j \/ b = (End(d) + 1) - j
      BY <1>7, LockGroupsAre
    <2>4. \E c \in {"lock", "unlock"} : Groups(d)[b] = LockGroup(d.locks[j], c)
      BY <2>3, GroupsAre
    <2>5. DOMAIN Groups(d)[b][o].changes = {d.locks[j].path}
      <3>1. PICK c \in {"lock", "unlock"} : Groups(d)[b] = LockGroup(d.locks[j], c)
        BY <2>4
      <3>2. Groups(d)[b][o] = LockGroup(d.locks[j], c)[1]
        BY <2>2, <3>1
      <3> QED BY ONLY <3>2, c \in {"lock", "unlock"}, PerformLock
    <2> QED BY <1>4, <2>5 DEF names
  <1> QED BY <1>5, <1>6, <1>7 DEF Writing

\* A run that is behind is refused, as it finds what an earlier run created.
LEMMA RetainedGroup ==
  ASSUME NEW F, NEW K, NEW d, Fit(d), RetainedAny(F, K, d), NEW b \in 1..End(d)
  PROVE  GroupPartly(F, K, d, b)
  <1>1. PICK n \in 1..(End(d) + 1) : Retained(F, K, d, n)
    BY DEF RetainedAny
  <1>2. b < n \/ b = n \/ b > n
    BY Sizes
  <1>3. 0 \in 0..4 /\ 4 \in 0..4
    OBVIOUS
  <1>4. CASE b < n
    <2>1. GroupAt(F, K, d, b, 4)
      BY <1>1, <1>4 DEF Retained
    <2> QED BY <1>3, <2>1, PartlyAt
  <1>5. CASE b > n
    <2>1. GroupAt(F, K, d, b, 0)
      BY <1>1, <1>5 DEF Retained
    <2> QED BY <1>3, <2>1, PartlyAt
  <1>6. CASE b = n
    BY <1>1, <1>6 DEF Retained
  <1> QED BY <1>2, <1>4, <1>5, <1>6

\* What is found where a group was begun is not nothing.
LEMMA FirstKnown ==
  ASSUME NEW F, NEW K, NEW d, Fit(d), RetainedAny(F, K, d), F[FirstPath(d)] # None
  PROVE  State(F[FirstPath(d)]) # None
  <1> DEFINE b == First(d)
  <1>1. b \in 1..End(d)
    BY FirstIs
  <1>2. GroupPartly(F, K, d, b)
    BY <1>1, RetainedGroup
  <1>3. CASE b \in DirGroups(d)
    <2>1. FirstPath(d) = d.directories[b]
      BY <1>3, FirstIs
    <2>2. F[FirstPath(d)] = Directory
      BY <1>2, <1>3, <2>1 DEF GroupPartly, DirectoryPartly
    <2> QED BY <2>2, StatesAre, PathFacts
  <1>4. CASE b \notin DirGroups(d)
    <2> DEFINE f == FileOf(d, b)
    <2>1. b \in Writing(d) /\ f.previous = None /\ FirstPath(d) = f.path
      BY <1>4, FirstIs
    <2>2. f.candidate \in Bytes /\ Torn \in Bytes
      BY <2>1, FileOfType, FileTypes, PathFacts
    <2>3. F[f.path] \in Pieces(f)
      BY <1>2, <2>1 DEF GroupPartly, CreationPartly
    <2> HIDE DEF f
    <2>4. \/ F[f.path] = File(f.candidate, TRUE) \/ F[f.path] = File(f.candidate, FALSE)
          \/ F[f.path] = File(Torn, TRUE) \/ F[f.path] = File(Torn, FALSE)
      BY <2>1, <2>3 DEF Pieces
    <2>5. State(F[f.path]) \in Bytes
      BY <2>2, <2>4, StatesAre
    <2> QED BY <2>1, <2>5, PathFacts
  <1> QED BY <1>3, <1>4

\* The first group that writes expects that its path is free.
LEMMA FirstOperation ==
  ASSUME NEW d, Fit(d)
  PROVE  \E c, x : Groups(d)[First(d)][1] = Operation(c, Change(FirstPath(d), None, x))
  <1> DEFINE b == First(d)
  <1>1. CASE b \in DirGroups(d)
    <2>1. FirstPath(d) = d.directories[b] /\ Groups(d)[b] = DirectoryGroup(d.directories[b])
      BY <1>1, FirstIs, GroupsAre
    <2> QED BY <2>1 DEF DirectoryGroup
  <1>2. CASE b \notin DirGroups(d)
    <2> DEFINE f == FileOf(d, b)
    <2>1. b \in Writing(d) /\ f.previous = None /\ FirstPath(d) = f.path
      BY <1>2, FirstIs
    <2>2. Groups(d)[b] = FileGroup(f)
      BY <2>1, GroupsAre
    <2> HIDE DEF f
    <2>3. Groups(d)[b][1] = Operation("create", Change(f.path, None, f.candidate))
      BY <2>1, <2>2 DEF FileGroup, CreationGroup
    <2> QED BY <2>1, <2>3
  <1> QED BY <1>1, <1>2

\* A second run over remains gets no further than its locks: what it would
\* create is there already.
LEMMA BehindIs ==
  ASSUME NEW F, NEW K, NEW d, Fit(d), NEW b \in 1..End(d), NEW o \in 1..GroupSize(d, b),
         NEW k, k = Start(d)[b] + o, Behind(F, K, d, k), ReadyIn(F, Groups(d)[b][o])
  PROVE  b < First(d) /\ b \notin DirGroups(d) /\ b \notin Writing(d) /\ Behind(F, K, d, k + 1)
  <1> DEFINE at == Start(d)
             a == First(d)
  <1>0. a \in 1..End(d) /\ End(d) \in Nat
    BY FirstIs, Sizes
  <1>00. a \in 1..(End(d) + 1) /\ b \in 1..(End(d) + 1)
    BY <1>0
  <1>1. at[a] \in Nat /\ at[b] \in Nat /\ GroupSize(d, a) \in 1..4 /\ GroupSize(d, b) \in 1..4
    BY <1>0, <1>00, StartIs, GroupSizes
  <1>2. k # at[a] + 1
    <2> SUFFICES ASSUME k = at[a] + 1 PROVE FALSE
      OBVIOUS
    <2>1. b = a /\ o = 1
      BY <1>0, OneStart
    <2>2. PICK c, x : Groups(d)[b][o] = Operation(c, Change(FirstPath(d), None, x))
      BY <2>1, FirstOperation
    <2>3. /\ DOMAIN Groups(d)[b][o].changes = {FirstPath(d)}
          /\ Groups(d)[b][o].changes[FirstPath(d)].before = None
      BY <2>2, OperationValues DEF Change
    <2>4. State(F[FirstPath(d)]) = None
      BY <2>3 DEF ReadyIn
    <2>5. F[FirstPath(d)] # None /\ RetainedAny(F, K, d)
      BY DEF Behind
    <2> QED BY <2>4, <2>5, FirstKnown
  <1>3. k <= at[a] + 1
    BY DEF Behind
  <1>4. k <= at[a] /\ k \in Nat
    BY <1>1, <1>2, <1>3
  <1>5. b < a
    <2> SUFFICES ASSUME ~ b < a PROVE FALSE
      OBVIOUS
    <2>1. a = b \/ a < b
      BY <1>0
    <2>2. a < b => at[a] + GroupSize(d, a) <= at[b]
      BY <1>0, <1>00, StartIs
    <2> HIDE DEF at, a
    <2> QED BY <1>1, <1>4, <2>1, <2>2 DEF at
  <1>6. b \notin DirGroups(d) /\ b \notin Writing(d)
    BY <1>5, FirstIs
  <1>7. k + 1 <= at[a] + 1
    BY <1>1, <1>4
  <1>8. Behind(F, K, d, k + 1)
    BY <1>7 DEF Behind
  <1> QED BY <1>5, <1>6, <1>8

\* So it never ends.
LEMMA BehindEnds ==
  ASSUME NEW F, NEW K, NEW d, Fit(d)
  PROVE  ~ Behind(F, K, d, Len(Plan(d)) + 1)
  <1> DEFINE a == First(d)
  <1>0. a \in 1..End(d) /\ End(d) \in Nat
    BY FirstIs, Sizes
  <1>1. a \in 1..(End(d) + 1) /\ End(d) + 1 \in 1..(End(d) + 1) /\ a < End(d) + 1
    BY <1>0
  <1>2. /\ Start(d)[a] \in Nat /\ GroupSize(d, a) \in 1..4
        /\ Start(d)[a] + GroupSize(d, a) <= Start(d)[End(d) + 1]
        /\ Len(Plan(d)) = Start(d)[End(d) + 1] /\ Len(Plan(d)) \in Nat
    BY <1>0, <1>1, StartIs, GroupSizes
  <1>3. ~ Len(Plan(d)) + 1 <= Start(d)[a] + 1
    BY <1>2
  <1> QED BY <1>3 DEF Behind

(***************************************************************************)
(* The inductive invariant.                                                *)
(***************************************************************************)
PlanInv ==
  /\ Fit(declared) /\ plan = Plan(declared)
  /\ pc \in 1..(Len(plan) + 1)
  /\ run \in {"running", "done", "stopped"}
  /\ runs \in Nat \ {0}
  /\ Domains

PublicationInv == PlanInv /\ StateInv

\* The invariant holds initially, and each action keeps it.
LEMMA PublicationStarts == PublicationInit => PublicationInv
  <1> SUFFICES ASSUME PublicationInit PROVE PublicationInv
    OBVIOUS
  <1> DEFINE d == declared
  <1>1. Fit(d) /\ plan = Plan(d) /\ pc = 1 /\ run = "running" /\ runs = 1 /\ held = {}
    BY DEF PublicationInit, Fit
  <1>2. fs = FileSystemOf(d) /\ DOMAIN fs = Places
        /\ kept = [path \in Places |-> {fs[path]}]
    BY DEF PublicationInit, FileSystemOf
  <1>3. Len(plan) \in Nat
    BY <1>1, StartIs
  <1>4. PlanInv
    BY <1>1, <1>2, <1>3 DEF PlanInv, Domains
  <1>5. \A q \in Places : Settled(fs, kept, q, fs[q])
    BY <1>2 DEF Settled
  <1>6. Ground(fs, kept, d)
    <2>1. ASSUME NEW q \in Standing(d) PROVE Settled(fs, kept, q, Directory)
      <3>1. q \in Places /\ fs[q] = Directory
        BY <1>1, <1>2, AboveAre, StartsFrom
      <3> QED BY <1>5, <3>1
    <2>2. ASSUME NEW i \in DOMAIN d.locks, d.locks[i].previous # None
          PROVE  Settled(fs, kept, d.locks[i].path, File(d.locks[i].previous, TRUE))
      <3>1. i \in 1..Len(d.locks)
        BY <1>1, ReplacedAre
      <3>2. d.locks[i].path \in Places
        BY <1>1, <3>1, ExistingAt, PathFacts
      <3>3. fs[d.locks[i].path] = File(d.locks[i].previous, TRUE)
        BY <1>1, <1>2, <2>2, <3>1, StartsFrom
      <3> QED BY <1>5, <3>2, <3>3
    <2> HIDE DEF d
    <2> QED BY <2>1, <2>2 DEF Ground
  <1>7. InStep(fs, kept, d, 1)
    <2>1. ASSUME NEW b \in 1..End(d) PROVE GroupAt(fs, kept, d, b, 0)
      <3>1. CASE b \in DirGroups(d)
        <4> DEFINE q == d.directories[b]
        <4>1. q \in Places /\ b \notin Writing(d)
          BY <1>1, <3>1, FileGroupsAre, DeclarationTypes, ElementOfSeq, PathFacts
             DEF DirGroups, Setup0
        <4>2. fs[q] = None
          BY <1>1, <1>2, <3>1, StartsFrom
        <4> HIDE DEF q
        <4>3. Settled(fs, kept, q, None)
          BY <1>5, <4>1, <4>2
        <4>4. DirectoryAt(fs, kept, q, 0)
          BY <4>3, DirectoryStages
        <4> QED BY <4>1, <4>4 DEF GroupAt, q
      <3>2. CASE b \in Writing(d)
        <4> DEFINE f == FileOf(d, b)
        <4>1. f \in FileDeclarations /\ TemporaryFits(f) /\ b \notin DirGroups(d)
          BY <1>1, <3>2, FileOfType, FileGroupsAre
        <4>2. IF f.previous = None THEN fs[f.path] = None
              ELSE fs[f.temporary] = None /\ fs[f.path] = File(f.previous, TRUE)
          BY <1>1, <1>2, <3>2, StartsFrom
        <4> HIDE DEF f
        <4>3. f.path \in Places /\ (f.previous # None => f.temporary \in Places)
          BY <4>1, FileTypes, PathFacts
        <4>4. CASE f.previous = None
          <5>1. Settled(fs, kept, f.path, None)
            BY <1>5, <4>2, <4>3, <4>4
          <5>2. CreationAt(fs, kept, f, 0)
            BY <5>1, CreationStages
          <5> QED BY <4>1, <4>4, <5>2 DEF GroupAt, FileAt, f
        <4>5. CASE f.previous # None
          <5>1. Settled(fs, kept, f.temporary, None)
                /\ Settled(fs, kept, f.path, File(f.previous, TRUE))
            BY <1>5, <4>2, <4>3, <4>5
          <5>2. ReplacementAt(fs, kept, f, 0)
            BY <5>1, ReplacementStages
          <5> QED BY <4>1, <4>5, <5>2 DEF GroupAt, FileAt, f
        <4> QED BY <4>4, <4>5
      <3> QED BY <3>1, <3>2 DEF GroupAt
    <2> QED BY <1>1, <2>1, InStepStart
  <1>8. held = HeldAt(d, pc)
    BY <1>1, HeldEnds
  <1>9. StateInv
    BY <1>1, <1>6, <1>7, <1>8 DEF StateInv
  <1> QED BY <1>4, <1>9 DEF PublicationInv

\* A lock and its release change no file.
LEMMA LockGroupDoes ==
  ASSUME NEW d, Fit(d), NEW b \in 1..End(d), NEW o \in 1..GroupSize(d, b),
         b \notin DirGroups(d), b \notin Writing(d), NEW operation, operation = Groups(d)[b][o],
         Perform(operation) \/ CreateTorn(operation)
  PROVE  fs' = fs /\ kept' = kept
  <1>1. GroupSize(d, b) = 1
    BY DEF GroupSize
  <1>2. o = 1
    BY <1>1
  <1>3. PICK j \in 1..Len(d.locks) : b = Lock0(d) + j \/ b = (End(d) + 1) - j
    BY LockGroupsAre
  <1>4. \E c \in {"lock", "unlock"} : Groups(d)[b] = LockGroup(d.locks[j], c)
    BY <1>3, GroupsAre
  <1> QED BY <1>2, <1>4, PerformLock

\* An operation that is performed keeps the invariant.
LEMMA StepKeeps ==
  ASSUME PublicationInv, Step
  PROVE  PublicationInv'
  <1> DEFINE d == declared
  <1>1. /\ Fit(d) /\ plan = Plan(d) /\ pc \in 1..(Len(plan) + 1) /\ runs \in Nat \ {0} /\ Domains
        /\ Ground(fs, kept, d) /\ held = IF run = "stopped" THEN {} ELSE HeldAt(d, pc)
        /\ run = "running" =>
             InStep(fs, kept, d, pc) \/ (runs > 1 /\ Behind(fs, kept, d, pc))
    BY DEF PublicationInv, PlanInv, StateInv
  <1>2. /\ run = "running" /\ pc <= Len(plan) /\ Matches(Current) /\ Perform(Current)
        /\ held' = HeldAfter(Current) /\ pc' = pc + 1
        /\ declared' = declared /\ plan' = plan /\ run' = run /\ runs' = runs
    BY DEF Step, Running
  <1>3. Len(plan) \in Nat /\ pc \in 1..Len(Plan(d)) /\ pc' \in 1..(Len(plan) + 1)
    BY <1>1, <1>2, StartIs
  <1>4. PICK b \in 1..End(d) : \E o \in 1..GroupSize(d, b) :
           /\ pc = Start(d)[b] + o /\ Plan(d)[pc] = Groups(d)[b][o]
           /\ o - 1 \in 0..GroupSize(d, b) /\ o \in 0..GroupSize(d, b)
           /\ pc = (Start(d)[b] + (o - 1)) + 1 /\ pc + 1 = (Start(d)[b] + o) + 1
    <2>1. Fit(d) /\ pc \in 1..Len(Plan(d))
      BY <1>1, <1>3
    <2> HIDE DEF d
    <2> QED BY ONLY <2>1, PlaceOf
  <1>5. PICK o \in 1..GroupSize(d, b) :
           /\ pc = Start(d)[b] + o /\ Plan(d)[pc] = Groups(d)[b][o]
           /\ o - 1 \in 0..GroupSize(d, b) /\ o \in 0..GroupSize(d, b)
           /\ pc = (Start(d)[b] + (o - 1)) + 1 /\ pc + 1 = (Start(d)[b] + o) + 1
    BY <1>4
  <1>6. Current = Groups(d)[b][o]
    BY <1>1, <1>5 DEF Current
  <1>7. held' = HeldAt(d, pc + 1)
    <2>1. HeldAt(d, pc + 1) = HeldThen(Current, HeldAt(d, pc))
      BY <1>1, <1>3, <1>5, <1>6, HeldNext
    <2>2. held = HeldAt(d, pc)
      BY <1>1, <1>2
    <2>3. held' = HeldThen(Current, held)
      BY <1>2 DEF HeldAfter, HeldThen
    <2> QED BY <2>1, <2>2, <2>3
  <1>8. /\ InStep(fs', kept', d, pc + 1) \/ (runs > 1 /\ Behind(fs', kept', d, pc + 1))
        /\ Ground(fs', kept', d) /\ Domains'
    <2>1. CASE InStep(fs, kept, d, pc)
      <3>1. Prefix(fs, kept, d, b, o - 1)
        BY <1>1, <1>5, <2>1, InStepAt
      <3>2. Done(fs, kept, fs', kept', d, b, o) /\ Domains'
        BY <1>1, <1>2, <1>6, <3>1, Performs
      <3>3. Prefix(fs', kept', d, b, o) /\ Ground(fs', kept', d)
        BY <1>1, <3>1, <3>2, DoneStep
      <3>4. InStep(fs', kept', d, pc + 1)
        BY <1>1, <1>5, <3>3, InStepAt
      <3> QED BY <3>2, <3>3, <3>4
    <2>2. CASE runs > 1 /\ Behind(fs, kept, d, pc)
      <3>1. ReadyIn(fs, Groups(d)[b][o])
        BY <1>2, <1>6 DEF Matches, ReadyIn
      <3>2. /\ b \notin DirGroups(d) /\ b \notin Writing(d) /\ Behind(fs, kept, d, pc + 1)
        BY <1>1, <1>5, <2>2, <3>1, BehindIs
      <3>3. fs' = fs /\ kept' = kept
        BY <1>1, <1>2, <1>6, <3>2, LockGroupDoes
      <3> QED BY <1>1, <2>2, <3>2, <3>3 DEF Domains
    <2> QED BY <1>1, <1>2, <2>1, <2>2
  <1>9. PlanInv'
    BY <1>1, <1>2, <1>3, <1>8 DEF PlanInv
  <1>10. StateInv'
    BY <1>2, <1>7, <1>8 DEF StateInv
  <1> QED BY <1>9, <1>10 DEF PublicationInv

LEMMA FinishKeeps ==
  ASSUME PublicationInv, Finish
  PROVE  PublicationInv'
  <1>1. /\ Fit(declared) /\ plan = Plan(declared) /\ pc \in 1..(Len(plan) + 1)
        /\ InStep(fs, kept, declared, pc) \/ Behind(fs, kept, declared, pc)
        /\ held = HeldAt(declared, pc)
    BY DEF PublicationInv, PlanInv, StateInv, Finish
  <1>2. pc > Len(plan) /\ run' = "done"
        /\ UNCHANGED <<declared, plan, pc, runs, held, fs, kept>>
    BY DEF Finish
  <1>3. pc = Len(plan) + 1
    BY <1>1, <1>2, StartIs
  <1>4. InStep(fs, kept, declared, pc)
    BY <1>1, <1>3, BehindEnds
  <1>5. PlanInv'
    BY <1>2 DEF PublicationInv, PlanInv, Domains
  <1>6. StateInv'
    BY <1>1, <1>2, <1>3, <1>4 DEF PublicationInv, StateInv
  <1> QED BY <1>5, <1>6 DEF PublicationInv

\* In every state a power loss or a failure finds a prefix of the plan, the
\* last group of it partly done.
LEMMA AlwaysRetained ==
  ASSUME PublicationInv
  PROVE  RetainedAny(fs, kept, declared)
  <1>1. CASE run = "running"
    <2>1. CASE InStep(fs, kept, declared, pc)
      BY <2>1, InStepRetained DEF PublicationInv, PlanInv
    <2>2. CASE Behind(fs, kept, declared, pc)
      BY <2>2 DEF Behind
    <2> QED BY <1>1, <2>1, <2>2 DEF PublicationInv, StateInv
  <1>2. CASE run = "done"
    BY <1>2, InStepRetained DEF PublicationInv, PlanInv, StateInv
  <1>3. CASE run = "stopped"
    BY <1>3 DEF PublicationInv, StateInv
  <1> QED BY <1>1, <1>2, <1>3 DEF PublicationInv, PlanInv

\* What is left to show of a step that stops the run.
LEMMA StopKeeps ==
  ASSUME PublicationInv, UNCHANGED <<declared, plan, pc, runs>>, run' = "stopped", held' = {},
         RetainedAny(fs', kept', declared), Ground(fs', kept', declared), Domains'
  PROVE  PublicationInv'
  <1>1. PlanInv'
    BY DEF PublicationInv, PlanInv
  <1>2. StateInv'
    BY DEF StateInv
  <1> QED BY <1>1, <1>2 DEF PublicationInv

LEMMA RefuseKeeps ==
  ASSUME PublicationInv, Refuse
  PROVE  PublicationInv'
  <1>1. /\ UNCHANGED <<declared, plan, pc, runs>> /\ run' = "stopped" /\ held' = {}
        /\ fs' = fs /\ kept' = kept
    BY DEF Refuse, Stops
  <1>2. RetainedAny(fs, kept, declared) /\ Ground(fs, kept, declared) /\ Domains
    BY AlwaysRetained DEF PublicationInv, PlanInv, StateInv
  <1>3. RetainedAny(fs', kept', declared) /\ Ground(fs', kept', declared) /\ Domains'
    BY <1>1, <1>2 DEF Domains
  <1> QED BY <1>1, <1>3, StopKeeps

LEMMA FailKeeps ==
  ASSUME PublicationInv, Fail
  PROVE  PublicationInv'
  <1> DEFINE d == declared
  <1>1. /\ Fit(d) /\ plan = Plan(d) /\ pc \in 1..(Len(plan) + 1) /\ Domains
        /\ Ground(fs, kept, d)
        /\ run = "running" =>
             InStep(fs, kept, d, pc) \/ Behind(fs, kept, d, pc)
    BY DEF PublicationInv, PlanInv, StateInv
  <1>2. /\ run = "running" /\ pc <= Len(plan) /\ Matches(Current)
        /\ UNCHANGED <<declared, plan, pc, runs>> /\ run' = "stopped" /\ held' = {}
    BY DEF Fail, Running, Stops
  <1>3. Len(plan) \in Nat /\ pc \in 1..Len(Plan(d))
    BY <1>1, <1>2, StartIs
  <1>4. PICK b \in 1..End(d) : \E o \in 1..GroupSize(d, b) :
           /\ pc = Start(d)[b] + o /\ Plan(d)[pc] = Groups(d)[b][o]
           /\ o - 1 \in 0..GroupSize(d, b) /\ o \in 0..GroupSize(d, b)
           /\ pc = (Start(d)[b] + (o - 1)) + 1 /\ pc + 1 = (Start(d)[b] + o) + 1
    <2>1. Fit(d) /\ pc \in 1..Len(Plan(d))
      BY <1>1, <1>3
    <2> HIDE DEF d
    <2> QED BY ONLY <2>1, PlaceOf
  <1>5. PICK o \in 1..GroupSize(d, b) :
           /\ pc = Start(d)[b] + o /\ Plan(d)[pc] = Groups(d)[b][o]
           /\ o - 1 \in 0..GroupSize(d, b) /\ o \in 0..GroupSize(d, b)
           /\ pc = (Start(d)[b] + (o - 1)) + 1 /\ pc + 1 = (Start(d)[b] + o) + 1
    BY <1>4
  <1>6. Current = Groups(d)[b][o]
    BY <1>1, <1>5 DEF Current
  <1>7. RetainedAny(fs, kept, d)
    BY AlwaysRetained
  <1>8. RetainedAny(fs', kept', d) /\ Ground(fs', kept', d) /\ Domains'
    <2>1. CASE UNCHANGED <<fs, kept>>
      BY <1>1, <1>7, <2>1 DEF Domains
    <2>2. CASE InStep(fs, kept, d, pc) /\ Perform(Current)
      <3>1. Prefix(fs, kept, d, b, o - 1)
        BY <1>1, <1>5, <2>2, InStepAt
      <3>2. Done(fs, kept, fs', kept', d, b, o) /\ Domains'
        BY <1>1, <1>6, <2>2, <3>1, Performs
      <3>3. Prefix(fs', kept', d, b, o) /\ Ground(fs', kept', d)
        BY <1>1, <3>1, <3>2, DoneStep
      <3>4. o \in 0..4
        BY <1>1, GroupSizes
      <3>5. RetainedAny(fs', kept', d)
        BY <1>1, <3>3, <3>4, PrefixRetained
      <3> QED BY <3>2, <3>3, <3>5
    <2>3. CASE InStep(fs, kept, d, pc) /\ CreateTorn(Current)
      <3>1. Prefix(fs, kept, d, b, o - 1)
        BY <1>1, <1>5, <2>3, InStepAt
      <3>2. /\ b \in Writing(d) /\ o = 1 /\ Domains'
            /\ Wrote(fs, kept, fs', kept', Begins(d, b), File(Torn, FALSE))
        BY <1>1, <1>6, <2>3, <3>1, Performs
      <3>3. Prefix(fs, kept, d, b, 0)
        BY <3>1, <3>2
      <3>4. RetainedAny(fs', kept', d) /\ Ground(fs', kept', d)
        BY <1>1, <3>2, <3>3, TornStep DEF Begins
      <3> QED BY <3>2, <3>4
    <2>4. CASE Behind(fs, kept, d, pc) /\ (Perform(Current) \/ CreateTorn(Current))
      <3>1. ReadyIn(fs, Groups(d)[b][o])
        BY <1>2, <1>6 DEF Matches, ReadyIn
      <3>2. b \notin DirGroups(d) /\ b \notin Writing(d)
        BY <1>1, <1>5, <2>4, <3>1, BehindIs
      <3>3. fs' = fs /\ kept' = kept
        BY <1>1, <1>6, <2>4, <3>2, LockGroupDoes
      <3> QED BY <1>1, <1>7, <3>3 DEF Domains
    <2> QED BY <1>1, <1>2, <2>1, <2>2, <2>3, <2>4 DEF Fail
  <1> QED BY <1>2, <1>8, StopKeeps

LEMMA RerunKeeps ==
  ASSUME PublicationInv, Rerun
  PROVE  PublicationInv'
  <1> DEFINE d == declared
  <1>1. /\ Fit(d) /\ plan = Plan(d) /\ runs \in Nat \ {0} /\ Domains
        /\ Ground(fs, kept, d) /\ RetainedAny(fs, kept, d) /\ held = {}
    BY DEF PublicationInv, PlanInv, StateInv, Rerun
  <1>2. /\ run' = "running" /\ runs' = runs + 1 /\ pc' = 1
        /\ UNCHANGED <<declared, plan, held, fs, kept>>
    BY DEF Rerun
  <1>3. runs' \in Nat \ {0} /\ runs' > 1
    BY <1>1, <1>2
  <1>4. Len(plan) \in Nat
    BY <1>1, StartIs
  <1>5. InStep(fs, kept, d, 1) \/ Behind(fs, kept, d, 1)
    BY <1>1, RerunStarts
  <1>6. HeldAt(d, 1) = {}
    BY <1>1, HeldEnds
  <1>7. PlanInv'
    BY <1>1, <1>2, <1>3, <1>4 DEF PlanInv, Domains
  <1>8. StateInv'
    BY <1>1, <1>2, <1>3, <1>5, <1>6 DEF StateInv
  <1> QED BY <1>7, <1>8 DEF PublicationInv

\* A power loss as a choice of what is left.
LEMMA PowerLossIs ==
  ASSUME Domains, PowerLoss
  PROVE  (\E E : Lost(kept, fs', kept', E)) /\ Domains'
  <1>1. PICK left \in [Uncertain -> UNION {Remains(path) : path \in Uncertain}] :
          /\ \A path \in Uncertain : left[path] \in Remains(path)
          /\ fs' = [path \in Places |->
                      IF /\ path \in Paths
                         /\ \E above \in Above[path] : Over(left, fs)[above] # Directory
                      THEN None ELSE Over(left, fs)[path]]
    BY DEF PowerLoss
  <1>2. kept' = [path \in Places |-> {fs'[path]}]
    BY DEF PowerLoss
  <1> DEFINE E == Over(left, fs)
  <1>3. Uncertain \subseteq Places /\ DOMAIN left = Uncertain
    BY <1>1 DEF Uncertain
  <1>4. Uncertain \cup Places = Places
    BY <1>3
  <1>5. E = [q \in Places |-> IF q \in Uncertain THEN left[q] ELSE fs[q]]
    BY <1>3, <1>4 DEF Over, Domains
  <1> HIDE DEF E
  <1>6. ASSUME NEW q \in Places PROVE E[q] \in RemainsOf(kept[q])
    <2>1. Remains(q) = RemainsOf(kept[q])
      BY DEF Remains, RemainsOf
    <2>2. CASE q \in Uncertain
      BY <1>1, <1>5, <2>1, <2>2
    <2>3. CASE q \notin Uncertain
      <3>1. Remains(q) = {fs[q]}
        BY <2>3 DEF Uncertain
      <3> QED BY <1>5, <2>1, <2>3, <3>1
    <2> QED BY <2>2, <2>3
  <1>7. fs' = [path \in Places |->
                 IF path \in Paths /\ \E above \in Above[path] : E[above] # Directory
                 THEN None ELSE E[path]]
    BY <1>1 DEF E
  <1>8. Lost(kept, fs', kept', E)
    BY <1>2, <1>6, <1>7 DEF Lost
  <1> QED BY <1>2, <1>7, <1>8 DEF Domains

LEMMA PowerLossKeeps ==
  ASSUME PublicationInv, PowerLoss
  PROVE  PublicationInv'
  <1> DEFINE d == declared
  <1>1. /\ Fit(d) /\ plan = Plan(d) /\ Domains /\ Ground(fs, kept, d)
        /\ run = "done" => pc = Len(plan) + 1 /\ InStep(fs, kept, d, pc)
    BY DEF PublicationInv, PlanInv, StateInv
  <1>2. /\ run' = IF run = "done" THEN "done" ELSE "stopped"
        /\ held' = {} /\ UNCHANGED <<declared, plan, pc, runs>>
    BY DEF PowerLoss
  <1>3. PICK E : Lost(kept, fs', kept', E)
    BY <1>1, PowerLossIs
  <1>4. Domains'
    BY <1>1, PowerLossIs
  <1>5. Ground(fs', kept', d)
    BY <1>1, <1>3, LostGround
  <1>6. CASE run # "done"
    <2>1. RetainedAny(fs, kept, d)
      BY AlwaysRetained
    <2>2. PICK n \in 1..(End(d) + 1) : Retained(fs, kept, d, n)
      BY <2>1 DEF RetainedAny
    <2>3. Retained(fs', kept', d, n)
      BY <1>1, <1>3, <2>2, LostRetained
    <2>4. RetainedAny(fs', kept', d)
      BY <2>3 DEF RetainedAny
    <2> QED BY <1>2, <1>4, <1>5, <1>6, <2>4, StopKeeps
  <1>7. CASE run = "done"
    <2>1. Retained(fs, kept, d, End(d) + 1)
      BY <1>1, <1>7, InStepEnd, CompleteRetained
    <2>2. End(d) + 1 \in 1..(End(d) + 1)
      BY <1>1, Sizes
    <2>3. Retained(fs', kept', d, End(d) + 1)
      BY <1>1, <1>3, <2>1, <2>2, LostRetained
    <2>4. InStep(fs', kept', d, Len(Plan(d)) + 1)
      BY <1>1, <2>3, InStepEnd, CompleteRetained
    <2>5. PlanInv'
      BY <1>1, <1>2, <1>4, <1>7 DEF PublicationInv, PlanInv
    <2>6. HeldAt(d, Len(Plan(d)) + 1) = {}
      BY <1>1, HeldEnds
    <2>7. StateInv'
      BY <1>1, <1>2, <1>5, <1>7, <2>4, <2>6 DEF StateInv
    <2> QED BY <2>5, <2>7 DEF PublicationInv
  <1> QED BY <1>6, <1>7

\* In every reachable state the file system is what a prefix of the plan
\* leaves, whatever failed before.
THEOREM PublicationInvariant == PublicationSpec => []PublicationInv
  <1>1. PublicationInv /\ [PublicationNext]_publicationVars => PublicationInv'
    <2> SUFFICES ASSUME PublicationInv, [PublicationNext]_publicationVars PROVE PublicationInv'
      OBVIOUS
    <2>1. CASE UNCHANGED publicationVars
      BY <2>1 DEF publicationVars, PublicationInv, PlanInv, StateInv, Domains
    <2> QED BY <2>1, StepKeeps, FinishKeeps, RefuseKeeps, FailKeeps, RerunKeeps, PowerLossKeeps
            DEF PublicationNext
  <1> QED BY <1>1, PublicationStarts, PTL DEF PublicationSpec

\* The operators of the properties, in the terms used here.
LEMMA HoldsIs ==
  ASSUME NEW p, NEW x
  PROVE  Holds(p, x) <=> HoldsIn(fs, p, x)
  BY DEF Holds, HoldsIn

\* Every replaced file is one of the declared files.
LEMMA ReplacedAt ==
  ASSUME NEW d, Fit(d), NEW file \in ToSet(Replaced(d))
  PROVE  \E i \in 1..Len(d.files) : d.files[i].previous # None /\ file = d.files[i]
  BY ReplacedAre

\* A file to be replaced is its previous bytes or its candidate, in every state
\* any sequence of failures, power losses and further runs may lead to.
THEOREM WholeAlways == PublicationSpec => []ReplacedIsWhole
  <1>1. PublicationInv => ReplacedIsWhole
    <2> SUFFICES ASSUME PublicationInv, NEW file \in ToSet(Replaced(declared))
                 PROVE  Holds(file.path, file.previous) \/ Holds(file.path, file.candidate)
      BY DEF ReplacedIsWhole
    <2>1. Fit(declared) /\ RetainedAny(fs, kept, declared)
      BY AlwaysRetained DEF PublicationInv, PlanInv
    <2>2. PICK i \in 1..Len(declared.files) :
             declared.files[i].previous # None /\ file = declared.files[i]
      BY <2>1, ReplacedAt
    <2>3. HoldsIn(fs, declared.files[i].path, declared.files[i].previous)
            \/ HoldsIn(fs, declared.files[i].path, declared.files[i].candidate)
      BY <2>1, <2>2, RetainedWhole
    <2> QED BY <2>2, <2>3, HoldsIs
  <1> QED BY <1>1, PublicationInvariant, PTL

\* The original bytes of every file to be replaced are in the file or in its
\* snapshot, in every state.
THEOREM OriginalsAlways == PublicationSpec => []OriginalsSurvive
  <1>1. PublicationInv => OriginalsSurvive
    <2> SUFFICES ASSUME PublicationInv, NEW file \in ToSet(Replaced(declared))
                 PROVE  Holds(file.path, file.previous)
                          \/ Holds(declared.snapshots[file.path].path, file.previous)
      BY DEF OriginalsSurvive
    <2>1. Fit(declared) /\ RetainedAny(fs, kept, declared)
      BY AlwaysRetained DEF PublicationInv, PlanInv
    <2>2. PICK i \in 1..Len(declared.files) :
             declared.files[i].previous # None /\ file = declared.files[i]
      BY <2>1, ReplacedAt
    <2>3. HoldsIn(fs, declared.files[i].path, declared.files[i].previous)
            \/ HoldsIn(fs, declared.snapshots[declared.files[i].path].path,
                       declared.files[i].previous)
      BY <2>1, <2>2, RetainedOriginals
    <2> QED BY <2>2, <2>3, HoldsIs
  <1> QED BY <1>1, PublicationInvariant, PTL

\* A file that changes is published only if all declared before it are, in
\* every state.
THEOREM OrderAlways == PublicationSpec => []PublishedInOrder
  <1>1. PublicationInv => PublishedInOrder
    <2> SUFFICES ASSUME PublicationInv,
                        NEW i \in DOMAIN declared.files, NEW j \in DOMAIN declared.files, i < j,
                        declared.files[j].previous # declared.files[j].candidate, Published(j)
                 PROVE  Published(i)
      BY DEF PublishedInOrder
    <2>1. Fit(declared) /\ RetainedAny(fs, kept, declared)
      BY AlwaysRetained DEF PublicationInv, PlanInv
    <2>2. i \in 1..Len(declared.files) /\ j \in 1..Len(declared.files)
      BY <2>1, ReplacedAre
    <2>3. HoldsIn(fs, declared.files[j].path, declared.files[j].candidate)
      BY HoldsIs DEF Published
    <2>4. HoldsIn(fs, declared.files[i].path, declared.files[i].candidate)
      BY <2>1, <2>2, <2>3, RetainedInOrder
    <2> QED BY <2>4, HoldsIs DEF Published
  <1> QED BY <1>1, PublicationInvariant, PTL

\* An accepted plan runs through: what an operation of a first run expects is
\* what it finds, files are touched under all the locks only, and at the end
\* every file is published, durably, with no temporary and no lock left.
THEOREM AcceptedAlways == PublicationSpec => []AcceptedPlansComplete
  <1>1. ASSUME PublicationInv, Running PROVE
          /\ runs = 1 => Matches(Current)
          /\ DOMAIN Current.changes \cap AllNames(Preserved(declared)) # {} =>
               held = {lock.path : lock \in ToSet(declared.locks)}
    <2> DEFINE d == declared
    <2>1. /\ Fit(d) /\ plan = Plan(d) /\ pc \in 1..(Len(plan) + 1) /\ Ground(fs, kept, d)
          /\ runs = 1 => InStep(fs, kept, d, pc)
          /\ held = HeldAt(d, pc)
      BY <1>1 DEF PublicationInv, PlanInv, StateInv, Running
    <2>2. pc \in 1..Len(Plan(d))
      BY <1>1, <2>1, StartIs DEF Running
    <2>3. PICK b \in 1..End(d) : \E o \in 1..GroupSize(d, b) :
             /\ pc = Start(d)[b] + o /\ Plan(d)[pc] = Groups(d)[b][o]
             /\ o - 1 \in 0..GroupSize(d, b) /\ pc = (Start(d)[b] + (o - 1)) + 1
      <3>1. Fit(d) /\ pc \in 1..Len(Plan(d))
        BY <2>1, <2>2
      <3> HIDE DEF d
      <3> QED BY ONLY <3>1, PlaceOf
    <2>4. PICK o \in 1..GroupSize(d, b) :
             /\ pc = Start(d)[b] + o /\ Plan(d)[pc] = Groups(d)[b][o]
             /\ o - 1 \in 0..GroupSize(d, b) /\ pc = (Start(d)[b] + (o - 1)) + 1
      BY <2>3
    <2>5. Current = Groups(d)[b][o]
      BY <2>1, <2>4 DEF Current
    <2>6. ASSUME runs = 1 PROVE Matches(Current)
      <3>1. Prefix(fs, kept, d, b, o - 1)
        BY <2>1, <2>4, <2>6, InStepAt
      <3>2. ReadyIn(fs, Groups(d)[b][o])
        BY <2>1, <3>1, ReadyStep
      <3> QED BY <2>5, <3>2 DEF Matches, ReadyIn
    <2>7. ASSUME DOMAIN Current.changes \cap AllNames(Preserved(d)) # {}
          PROVE  held = {lock.path : lock \in ToSet(d.locks)}
      <3>1. b \in FileGroups(d)
        BY <2>1, <2>5, <2>7, OtherNames
      <3> QED BY <2>1, <2>4, <3>1, HeldAll
    <2> QED BY <2>6, <2>7
  <1>2. ASSUME PublicationInv, run = "done" PROVE
          /\ held = {}
          /\ \A file \in ToSet(declared.files) :
               /\ Holds(file.path, file.candidate)
               /\ kept[file.path] = {File(file.candidate, TRUE)}
               /\ file.temporary # None => fs[file.temporary] = None
    <2> DEFINE d == declared
    <2>1. /\ Fit(d) /\ plan = Plan(d) /\ pc = Len(plan) + 1 /\ InStep(fs, kept, d, pc)
          /\ held = HeldAt(d, pc)
      BY <1>2 DEF PublicationInv, PlanInv, StateInv
    <2>2. held = {}
      BY <2>1, HeldEnds
    <2>3. \A b \in 1..End(d) : GroupAt(fs, kept, d, b, 4)
      BY <2>1, InStepEnd
    <2>4. ASSUME NEW file \in ToSet(d.files)
          PROVE  /\ Holds(file.path, file.candidate)
                 /\ kept[file.path] = {File(file.candidate, TRUE)}
                 /\ file.temporary # None => fs[file.temporary] = None
      <3>1. PICK i \in 1..Len(d.files) : file = d.files[i]
        BY <2>1, <2>4, ReplacedAre DEF ToSet
      <3> DEFINE b == (File0(d) + Len(Ordered(d))) + i
      <3>2. /\ b \in Writing(d) /\ b \in 1..End(d) /\ FileOf(d, b) = file
            /\ file \in FileDeclarations /\ TemporaryFits(file)
        BY <2>1, <3>1, FilePlaces
      <3> HIDE DEF b
      <3>3. /\ Settled(fs, kept, file.path, File(file.candidate, TRUE))
            /\ file.previous # None => Settled(fs, kept, file.temporary, None)
        BY <2>3, <3>2, FileAfter
      <3>4. fs[file.path] = File(file.candidate, TRUE)
            /\ kept[file.path] = {File(file.candidate, TRUE)}
        BY <3>3 DEF Settled
      <3>5. file.candidate \in Bytes /\ (file.temporary # None => file.previous # None)
        BY <3>2, FileTypes
      <3>6. Holds(file.path, file.candidate)
        BY <3>4, <3>5, SettledHolds, HoldsIs
      <3> QED BY <3>3, <3>4, <3>5, <3>6 DEF Settled
    <2> QED BY <2>2, <2>4
  <1>3. PublicationInv => AcceptedPlansComplete
    BY <1>1, <1>2 DEF AcceptedPlansComplete
  <1> QED BY <1>3, PublicationInvariant, PTL
=============================================================================
