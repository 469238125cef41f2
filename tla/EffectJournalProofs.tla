------------------------- MODULE EffectJournalProofs -------------------------
(***************************************************************************)
(* Proofs about EffectJournal for any set of processes and parts and any   *)
(* number of frames.  JournalInv is inductive: beside the properties it    *)
(* says what a process between two steps of an append relies on, and that  *)
(* every token, not only one that was used, stands for a durable intent.   *)
(***************************************************************************)
EXTENDS EffectJournal, SequenceTheorems, TLAPS

LockHeld == \A p \in Procs : pc[p] # "idle" => holder = p

\* What the holder relies on in the middle of an append.
InAppend ==
    \A p \in Procs :
      /\ pc[p] \in {"write", "fsync"} => frame \in Frame
      /\ pc[p] = "write" => lease < MaxFrames
      /\ pc[p] = "fsync" => frame = frames[Len(frames)] /\ synced < Len(frames)

Selected == anchor <= reported /\ reported <= synced

\* What was attempted is as old as the durable frames.
SpentIsDurable == \A p \in Procs : \A i \in spent[p] : i.pos <= synced

TokensAreIntents == \A p \in Procs : \A t \in tokens[p] : IsIntent(t.pos, t.part)

JournalInv ==
    /\ TypeOK /\ LockHeld /\ InAppend /\ LeaseIsExact /\ Chained /\ Selected
    /\ WriteAhead /\ TokensAreIntents /\ SpentIsDurable /\ OutcomeClosesTokens

-----------------------------------------------------------------------------
\* A prefix of the frames is a sequence of frames with the same elements.
LEMMA PrefixOfFrames ==
  ASSUME NEW s \in Seq(Frame), NEW n \in 0..Len(s)
  PROVE  /\ SubSeq(s, 1, n) \in Seq(Frame)
         /\ Len(SubSeq(s, 1, n)) = n
         /\ \A k \in 1..n : SubSeq(s, 1, n)[k] = s[k]
  <1>1. \A i \in 1..n : s[i] \in Frame
    BY ElementOfSeq
  <1> QED BY <1>1, SubSeqProperties

\* An appended frame is the last one, and those before it stay.
LEMMA AppendFrame ==
  ASSUME NEW s \in Seq(Frame), NEW f \in Frame
  PROVE  /\ Append(s, f) \in Seq(Frame)
         /\ Len(Append(s, f)) = Len(s) + 1
         /\ Append(s, f)[Len(s) + 1] = f
         /\ \A k \in 1..Len(s) : Append(s, f)[k] = s[k]
  OBVIOUS

\* Within an append the chained frame goes exactly behind the last one.
LEMMA WriteAppends ==
  ASSUME JournalInv, NEW p \in Procs, Write(p)
  PROVE  /\ frame \in Frame /\ frame.prev = Len(frames)
         /\ lease = Len(frames) /\ lease < MaxFrames /\ ~torn
         /\ frames' \in Seq(Frame) /\ Len(frames') = Len(frames) + 1
         /\ frames'[Len(frames) + 1] = frame
         /\ \A k \in 1..Len(frames) : frames'[k] = frames[k]
  <1>1. pc[p] = "write" /\ frames \in Seq(Frame)
    BY DEF Write, JournalInv, TypeOK
  <1>2. Len(frames) \in Nat /\ lease \in Nat
    BY <1>1, LenProperties DEF JournalInv, TypeOK
  <1>3. /\ frame \in Frame /\ lease < MaxFrames
        /\ ~torn /\ frame.prev = lease /\ Len(frames) = lease
    BY <1>1, <1>2 DEF JournalInv, InAppend, LeaseIsExact
  <1>4. frames' = Append(frames, frame)
    BY <1>3 DEF Write
  <1> QED BY <1>1, <1>3, <1>4, AppendFrame

\* An operation starts with the lock free, so with every process idle.
LEMMA LocksFromIdle ==
  ASSUME JournalInv, NEW p \in Procs, Locks(p)
  PROVE  \A q \in Procs : pc[q] = "idle"
  BY NoProcAssumption DEF Locks, JournalInv, LockHeld

\* While one process is in an operation every other one is idle.
LEMMA OthersIdle ==
  ASSUME JournalInv, NEW p \in Procs, pc[p] # "idle"
  PROVE  \A q \in Procs \ {p} : pc[q] = "idle"
  BY DEF JournalInv, LockHeld

-----------------------------------------------------------------------------
\* The empty journal satisfies the inductive invariant.
LEMMA InvInit == Init => JournalInv
  <1> SUFFICES ASSUME Init PROVE JournalInv
    OBVIOUS
  <1>1. frames \in Seq(Frame) /\ Len(frames) = 0
    BY EmptySeq DEF Init
  <1>2. torn \in BOOLEAN /\ permitted \subseteq [pos : Nat, part : Parts]
    BY Zenon DEF Init
  <1>3. TypeOK
    BY <1>1, <1>2, MaxFramesAssumption DEF Init, TypeOK
  <1> QED
    BY <1>1, <1>3 DEF Init, JournalInv, LockHeld, InAppend, LeaseIsExact, Chained,
       Selected, WriteAhead, TokensAreIntents, SpentIsDurable, OutcomeClosesTokens

\* Every step keeps the types.
LEMMA TypeStep == JournalInv /\ [Next]_vars => TypeOK'
  <1> SUFFICES ASSUME JournalInv, [Next]_vars PROVE TypeOK'
    OBVIOUS
  <1>type. TypeOK
    BY DEF JournalInv
  <1>len. Len(frames) \in Nat /\ frames \in Seq(Frame)
    BY <1>type, LenProperties DEF TypeOK
  <1> USE <1>type DEF TypeOK
  <1>1. ASSUME NEW p \in Procs, Lock(p) \/ LockRecovery(p) PROVE TypeOK'
    BY <1>1, <1>len DEF Lock, LockRecovery, Locks, Goes, file, host, local
  <1>2. ASSUME NEW p \in Procs, NEW kind \in Kinds, NEW part \in Parts,
               StartAppend(p, kind, part)
        PROVE  TypeOK'
    <2>1. frame' \in Frame
      BY <1>2 DEF StartAppend, Frame
    <2>2. AfterOutcome(p, part) \in SUBSET Token
      BY DEF AfterOutcome, Closed, Token, Phases
    <2>3. HeldOf(p, part) \in SUBSET [pos : Nat, part : Parts]
      BY DEF HeldOf, Intent, Token
    <2> QED BY <1>2, <2>1, <2>2, <2>3 DEF StartAppend, Goes, file, host, local
  <1>3. ASSUME NEW p \in Procs, Write(p) PROVE TypeOK'
    <2>1. /\ frames' \in Seq(Frame) /\ Len(frames') = Len(frames) + 1
          /\ Len(frames) < MaxFrames
      BY <1>3, WriteAppends
    <2> QED BY <1>3, <1>len, <2>1, MaxFramesAssumption DEF Write, Goes, host, local
  <1>4. ASSUME NEW p \in Procs, WriteFails(p) \/ FsyncFails(p) \/ CloseLease(p) PROVE TypeOK'
    BY <1>4 DEF WriteFails, FsyncFails, CloseLease, Leaves, Goes, file, host, local
  <1>5. ASSUME NEW p \in Procs, Fsync(p) PROVE TypeOK'
    <2>1. frame \in Frame
      BY <1>5 DEF Fsync, JournalInv, InAppend
    <2>2. Issued \in SUBSET Token
      BY <1>len, <2>1 DEF Issued, Token, Phases, Frame
    <2> QED BY <1>5, <1>len, <2>2 DEF Fsync, Goes
  <1>6. ASSUME NEW p \in Procs, Cut(p) PROVE TypeOK'
    <2>1. torn' \in BOOLEAN
      BY <1>6, Zenon DEF Cut
    <2>2. /\ synced' = Len(frames)
          /\ UNCHANGED <<frames, holder, pc, lease, frame, tokens, spent, permitted, reported, anchor>>
      BY <1>6 DEF Cut, host, local
    <2> QED BY <1>len, <2>1, <2>2
  <1>7. ASSUME NEW p \in Procs, Dies(p) \/ DiesWriting(p) PROVE TypeOK'
    BY <1>7 DEF Dies, DiesWriting, Forgets, Leaves, Goes, file, host, local
  <1>8. ASSUME NEW p \in Procs, NEW t \in tokens[p], PrepareFailure(p, t) PROVE TypeOK'
    <2>1. [t EXCEPT !.phase = "failure-prepared"] \in Token
      BY DEF Token, Phases
    <2> QED BY <1>8, <2>1 DEF PrepareFailure, file, host, local
  <1>9. ASSUME NEW p \in Procs, NEW t \in tokens[p], NEW unlink \in BOOLEAN,
               RequireCurrent(p, t, unlink)
        PROVE  TypeOK'
    BY <1>9 DEF RequireCurrent, Intent, Token, file, local
  <1>10. CASE PowerLoss
    <2>1. PICK n \in synced..Len(frames) :
            /\ frames' = SubSeq(frames, 1, n) /\ synced' = n
            /\ torn' \in {FALSE, torn \/ n < Len(frames)}
            /\ holder' = NoProc
            /\ pc' = [p \in Procs |-> "idle"]
            /\ tokens' = [p \in Procs |-> {}] /\ spent' = [p \in Procs |-> {}]
            /\ UNCHANGED <<lease, frame, host>>
      BY <1>10 DEF PowerLoss
    <2>2. n \in 0..Len(frames)
      BY <1>len
    <2>3. frames' \in Seq(Frame) /\ Len(frames') = n
      BY <1>len, <2>1, <2>2, PrefixOfFrames
    <2>4. torn' \in BOOLEAN
      <3>1. torn' = FALSE \/ torn' = (torn \/ n < Len(frames))
        BY <2>1, Zenon
      <3> QED BY <3>1, Zenon
    <2>5. Len(frames') <= MaxFrames /\ synced' \in 0..Len(frames')
      BY <1>len, <2>1, <2>2, <2>3, MaxFramesAssumption
    <2>6. /\ holder' = NoProc /\ pc' = [p \in Procs |-> "idle"]
          /\ tokens' = [p \in Procs |-> {}] /\ spent' = [p \in Procs |-> {}]
          /\ UNCHANGED <<lease, frame, permitted, reported, anchor>>
      BY <2>1 DEF host, local
    <2> QED BY <2>3, <2>4, <2>5, <2>6
  <1>11. CASE SelectAnchor
    BY <1>11 DEF SelectAnchor, file, local
  <1>12. CASE UNCHANGED vars
    BY <1>12 DEF vars
  <1> QED
    BY <1>1, <1>2, <1>3, <1>4, <1>5, <1>6, <1>7, <1>8, <1>9, <1>10, <1>11, <1>12
    DEF Next, Steps, Handlers

\* Every step keeps the inductive invariant.
LEMMA InvStep == JournalInv /\ [Next]_vars => JournalInv'
  <1> SUFFICES ASSUME JournalInv, [Next]_vars PROVE JournalInv'
    OBVIOUS
  <1>type. TypeOK /\ TypeOK'
    BY TypeStep DEF JournalInv
  <1>len. /\ Len(frames) \in Nat /\ frames \in Seq(Frame) /\ synced \in 0..Len(frames)
          /\ lease \in Nat /\ anchor \in Nat /\ reported \in Nat
    BY <1>type, LenProperties DEF TypeOK
  <1>fun. /\ pc \in [Procs -> {"idle", "lease", "write", "fsync", "recovery"}]
          /\ tokens \in [Procs -> SUBSET Token]
          /\ spent \in [Procs -> SUBSET [pos : Nat, part : Parts]]
    BY <1>type DEF TypeOK
  <1> USE DEF JournalInv
  <1>1. ASSUME NEW p \in Procs, Lock(p) \/ LockRecovery(p) PROVE JournalInv'
    <2>1. \A q \in Procs : pc[q] = "idle"
      BY <1>1, LocksFromIdle DEF Lock, LockRecovery
    <2>2. LockHeld' /\ InAppend' /\ LeaseIsExact'
      BY <1>1, <2>1, <1>fun DEF Lock, LockRecovery, Locks, Goes, LockHeld, InAppend, LeaseIsExact
    <2>3. OutcomeClosesTokens' /\ SpentIsDurable'
      BY <1>1 DEF Lock, LockRecovery, OutcomeClosesTokens, SpentIsDurable, file, local
    <2> QED
      BY <1>1, <1>type, <2>2, <2>3 DEF Lock, LockRecovery, Chained, Selected, WriteAhead,
         TokensAreIntents, IsIntent, file, local, host
  <1>2. ASSUME NEW p \in Procs, NEW kind \in Kinds, NEW part \in Parts,
               StartAppend(p, kind, part)
        PROVE  JournalInv'
    <2>1. \A q \in Procs \ {p} : pc[q] = "idle"
      BY <1>2, OthersIdle DEF StartAppend
    <2>2. /\ frame' = [kind |-> kind, part |-> part, prev |-> lease]
          /\ pc' = [pc EXCEPT ![p] = "write"] /\ pc[p] = "lease"
          /\ lease < MaxFrames /\ lease = Len(frames) /\ ~torn
          /\ UNCHANGED <<frames, torn, synced, holder, lease, permitted, reported, anchor>>
      BY <1>2 DEF StartAppend, MayAppend, Goes, file, host, local
    <2>3. LockHeld' /\ InAppend' /\ LeaseIsExact'
      BY <2>1, <2>2, <1>fun, <1>len DEF LockHeld, InAppend, LeaseIsExact, Frame
    <2>4. CASE kind # "effect-outcome"
      <3>1. UNCHANGED <<tokens, spent>>
        BY <1>2, <2>4 DEF StartAppend, local
      <3> QED
        BY <1>type, <2>2, <2>3, <3>1 DEF Chained, Selected, WriteAhead, IsIntent,
           TokensAreIntents, SpentIsDurable, OutcomeClosesTokens
    <2>5. CASE kind = "effect-outcome"
      <3>1. /\ tokens' = [tokens EXCEPT ![p] = AfterOutcome(p, part)]
            /\ spent' = [spent EXCEPT ![p] = spent[p] \cup HeldOf(p, part)]
        BY <1>2, <2>5 DEF StartAppend
      <3>2. \A t \in AfterOutcome(p, part) :
              /\ \E u \in tokens[p] : /\ u.pos = t.pos /\ u.part = t.part
                                      /\ t.phase # "closed" => u.phase = t.phase
              /\ t.phase # "closed" => t.part # part
        BY <1>fun DEF AfterOutcome, Closed, Token
      <3>3. TokensAreIntents'
        BY <2>2, <3>1, <3>2, <1>fun DEF TokensAreIntents, IsIntent
      <3>4. \A i \in HeldOf(p, part) : i.part = part /\ i.pos <= synced
        BY <1>fun DEF HeldOf, Intent, TokensAreIntents, IsIntent
      <3>5. SpentIsDurable'
        BY <2>2, <3>1, <3>4, <1>fun DEF SpentIsDurable
      <3>6. OutcomeClosesTokens'
        BY <3>1, <3>2, <3>4, <1>fun DEF OutcomeClosesTokens, Intent
      <3> QED
        BY <1>type, <2>2, <2>3, <3>3, <3>5, <3>6 DEF Chained, Selected, WriteAhead, IsIntent
    <2> QED BY <2>4, <2>5
  <1>3. ASSUME NEW p \in Procs, Write(p) PROVE JournalInv'
    <2>1. \A q \in Procs \ {p} : pc[q] = "idle"
      BY <1>3, OthersIdle DEF Write
    <2>2. /\ frame \in Frame /\ frame.prev = Len(frames)
          /\ lease = Len(frames) /\ ~torn
          /\ Len(frames') = Len(frames) + 1 /\ frames'[Len(frames) + 1] = frame
          /\ \A k \in 1..Len(frames) : frames'[k] = frames[k]
      BY <1>3, WriteAppends
    <2>3. /\ pc[p] = "write" /\ pc' = [pc EXCEPT ![p] = "fsync"]
          /\ UNCHANGED <<torn, synced, holder, lease, frame, tokens, spent, permitted, reported, anchor>>
      BY <1>3 DEF Write, Goes, host, local
    <2>4. LockHeld' /\ InAppend' /\ LeaseIsExact'
      BY <2>1, <2>2, <2>3, <1>fun, <1>len DEF LockHeld, InAppend, LeaseIsExact
    <2>5. Chained'
      <3> SUFFICES ASSUME NEW k \in 1..(Len(frames) + 1) PROVE frames'[k].prev = k - 1
        BY <2>2 DEF Chained
      <3>1. CASE k \in 1..Len(frames)
        BY <2>2, <3>1 DEF Chained
      <3>2. CASE k = Len(frames) + 1
        BY <2>2, <3>2, <1>len
      <3> QED BY <3>1, <3>2, <1>len
    <2>6. WriteAhead' /\ TokensAreIntents'
      BY <2>2, <2>3, <1>len DEF WriteAhead, TokensAreIntents, IsIntent
    <2>7. OutcomeClosesTokens' /\ SpentIsDurable'
      BY <2>3 DEF OutcomeClosesTokens, SpentIsDurable
    <2> QED BY <1>type, <2>3, <2>4, <2>5, <2>6, <2>7 DEF Selected
  <1>4. ASSUME NEW p \in Procs, WriteFails(p) \/ FsyncFails(p) \/ CloseLease(p)
        PROVE  JournalInv'
    <2>1. /\ pc[p] # "idle"
          /\ \/ pc' = [pc EXCEPT ![p] = "lease"] /\ holder' = holder
             \/ pc' = [pc EXCEPT ![p] = "idle"]
          /\ UNCHANGED <<frames, synced, lease, frame, tokens, spent, permitted, reported, anchor>>
      BY <1>4 DEF WriteFails, FsyncFails, CloseLease, Leaves, Goes, file, host, local
    <2>2. \A q \in Procs \ {p} : pc[q] = "idle"
      BY <2>1, OthersIdle
    <2>3. LockHeld' /\ InAppend' /\ LeaseIsExact'
      BY <2>1, <2>2, <1>fun DEF LockHeld, InAppend, LeaseIsExact
    <2>4. OutcomeClosesTokens' /\ SpentIsDurable'
      BY <2>1 DEF OutcomeClosesTokens, SpentIsDurable
    <2> QED
      BY <1>type, <2>1, <2>3, <2>4 DEF Chained, Selected, WriteAhead, TokensAreIntents, IsIntent
  <1>5. ASSUME NEW p \in Procs, Fsync(p) PROVE JournalInv'
    <2>1. \A q \in Procs \ {p} : pc[q] = "idle"
      BY <1>5, OthersIdle DEF Fsync
    <2>2. /\ pc[p] = "fsync" /\ pc' = [pc EXCEPT ![p] = "lease"]
          /\ synced' = Len(frames) /\ reported' = Len(frames)
          /\ tokens' = [tokens EXCEPT ![p] = tokens[p] \cup Issued]
          /\ UNCHANGED <<frames, torn, holder, frame, spent, permitted, anchor>>
      BY <1>5 DEF Fsync, Goes
    <2>3. LockHeld' /\ InAppend' /\ LeaseIsExact'
      BY <2>1, <2>2, <1>fun DEF LockHeld, InAppend, LeaseIsExact
    <2>4. Chained' /\ Selected' /\ WriteAhead'
      BY <2>2, <1>len DEF Chained, Selected, WriteAhead, IsIntent
    <2>5. Len(frames) \in 1..Len(frames) /\ frame = frames[Len(frames)]
      BY <2>2, <1>len DEF InAppend, LeaseIsExact
    <2>6. \A t \in Issued : /\ t.pos = Len(frames) /\ t.part = frame.part
                            /\ frame.kind = "effect-intent"
      BY DEF Issued
    <2>7. TokensAreIntents'
      BY <2>2, <2>5, <2>6, <1>fun, <1>len DEF TokensAreIntents, IsIntent
    <2>8. SpentIsDurable' /\ \A q \in Procs : \A i \in spent[q] : i.pos < Len(frames)
      BY <2>2, <1>fun, <1>len DEF SpentIsDurable, InAppend
    <2>9. OutcomeClosesTokens'
      BY <2>2, <2>6, <2>8, <1>fun, <1>len DEF OutcomeClosesTokens, Intent
    <2> QED BY <1>type, <2>3, <2>4, <2>7, <2>8, <2>9
  <1>6. ASSUME NEW p \in Procs, Cut(p) PROVE JournalInv'
    <2>1. /\ pc[p] = "recovery" /\ synced' = Len(frames)
          /\ UNCHANGED <<frames, holder, pc, lease, frame, tokens, spent, permitted, reported, anchor>>
      BY <1>6 DEF Cut, host, local
    <2>2. \A q \in Procs : pc[q] \notin {"write", "fsync"}
      BY <2>1, OthersIdle
    <2>3. LockHeld' /\ InAppend' /\ LeaseIsExact'
      BY <2>1, <2>2 DEF LockHeld, InAppend, LeaseIsExact
    <2>4. Selected' /\ WriteAhead' /\ TokensAreIntents' /\ SpentIsDurable'
      BY <2>1, <1>len, <1>fun DEF Selected, WriteAhead, TokensAreIntents, SpentIsDurable, IsIntent
    <2> QED
      BY <1>type, <2>1, <2>3, <2>4 DEF Chained, OutcomeClosesTokens
  <1>7. ASSUME NEW p \in Procs, Dies(p) \/ DiesWriting(p) PROVE JournalInv'
    <2>1. /\ pc' = [pc EXCEPT ![p] = "idle"]
          /\ tokens' = [tokens EXCEPT ![p] = {}] /\ spent' = [spent EXCEPT ![p] = {}]
          /\ UNCHANGED <<frames, synced, lease, frame, permitted, reported, anchor>>
          /\ \/ holder' = (IF holder = p THEN NoProc ELSE holder) /\ torn' = torn
             \/ pc[p] = "write" /\ holder' = NoProc
      BY <1>7 DEF Dies, DiesWriting, Forgets, Leaves, Goes, file, host, local
    <2>2. pc[p] = "write" => \A q \in Procs \ {p} : pc[q] = "idle"
      BY OthersIdle
    <2>3. LockHeld' /\ InAppend' /\ LeaseIsExact'
      BY <2>1, <2>2, <1>fun DEF LockHeld, InAppend, LeaseIsExact
    <2>4. OutcomeClosesTokens' /\ SpentIsDurable' /\ TokensAreIntents'
      BY <2>1, <1>fun DEF OutcomeClosesTokens, SpentIsDurable, TokensAreIntents, IsIntent
    <2> QED
      BY <1>type, <2>1, <2>3, <2>4 DEF Chained, Selected, WriteAhead, IsIntent
  <1>8. ASSUME NEW p \in Procs, NEW t \in tokens[p], PrepareFailure(p, t) PROVE JournalInv'
    <2> DEFINE u == [t EXCEPT !.phase = "failure-prepared"]
    <2>1. /\ t.phase = "active"
          /\ tokens' = [tokens EXCEPT ![p] = (tokens[p] \ {t}) \cup {u}]
          /\ UNCHANGED <<frames, torn, synced, holder, pc, lease, frame, spent,
                         permitted, reported, anchor>>
      BY <1>8 DEF PrepareFailure, file, host, local
    <2>2. u.pos = t.pos /\ u.part = t.part
      BY <1>fun DEF Token
    <2> HIDE DEF u
    <2>3. \A q \in Procs : \A v \in tokens'[q] :
            \E w \in tokens[q] : /\ v.pos = w.pos /\ v.part = w.part
                                 /\ w.phase = "closed" => v.phase = "closed"
      BY <2>1, <2>2, <1>fun
    <2>4. SpentIsDurable' /\ TokensAreIntents'
      BY <2>1, <2>3 DEF SpentIsDurable, TokensAreIntents, IsIntent
    <2>5. OutcomeClosesTokens'
      <3> SUFFICES ASSUME NEW q \in Procs, NEW v \in tokens'[q], Intent(v) \in spent[q]
                   PROVE  v.phase = "closed"
        BY <2>1 DEF OutcomeClosesTokens, Intent
      <3>1. PICK w \in tokens[q] : /\ v.pos = w.pos /\ v.part = w.part
                                   /\ w.phase = "closed" => v.phase = "closed"
        BY <2>3
      <3>2. Intent(w) \in spent[q]
        BY <3>1 DEF Intent
      <3> QED BY <3>1, <3>2 DEF OutcomeClosesTokens
    <2> QED
      BY <1>type, <2>1, <2>4, <2>5 DEF LockHeld, InAppend, LeaseIsExact, Chained, Selected,
         WriteAhead, IsIntent
  <1>9. ASSUME NEW p \in Procs, NEW t \in tokens[p], NEW unlink \in BOOLEAN,
               RequireCurrent(p, t, unlink)
        PROVE  JournalInv'
    <2>1. /\ permitted' = permitted \cup {[pos |-> t.pos, part |-> t.part]}
          /\ UNCHANGED <<frames, torn, synced, holder, pc, lease, frame, tokens, spent,
                         reported, anchor>>
      BY <1>9 DEF RequireCurrent, Intent, file, local
    <2>2. WriteAhead'
      BY <2>1 DEF WriteAhead, TokensAreIntents, IsIntent
    <2> QED
      BY <1>type, <2>1, <2>2 DEF LockHeld, InAppend, LeaseIsExact, Chained, Selected,
         TokensAreIntents, SpentIsDurable, OutcomeClosesTokens, IsIntent
  <1>10. CASE PowerLoss
    <2>1. PICK n \in synced..Len(frames) :
            /\ frames' = SubSeq(frames, 1, n) /\ synced' = n
            /\ pc' = [p \in Procs |-> "idle"]
            /\ tokens' = [p \in Procs |-> {}] /\ spent' = [p \in Procs |-> {}]
            /\ UNCHANGED <<permitted, reported, anchor>>
      BY <1>10 DEF PowerLoss, host, local
    <2>2. n \in 0..Len(frames) /\ synced <= n
      BY <1>len
    <2>3. Len(frames') = n /\ \A k \in 1..n : frames'[k] = frames[k]
      BY <1>len, <2>1, <2>2, PrefixOfFrames
    <2>4. Chained' /\ Selected'
      BY <1>len, <2>1, <2>2, <2>3 DEF Chained, Selected
    <2>5. WriteAhead'
      <3>1. \A k \in 1..synced : k \in 1..n
        BY <1>len, <2>2
      <3>2. \A i \in permitted : i.pos \in 1..n /\ frames'[i.pos] = frames[i.pos]
        BY <2>3, <3>1 DEF WriteAhead, IsIntent
      <3> QED BY <2>1, <3>2 DEF WriteAhead, IsIntent
    <2> QED
      BY <1>type, <2>1, <2>4, <2>5 DEF LockHeld, InAppend, LeaseIsExact, TokensAreIntents,
         SpentIsDurable, OutcomeClosesTokens
  <1>11. CASE SelectAnchor
    BY <1>11, <1>type, <1>len DEF SelectAnchor, file, local, LockHeld, InAppend, LeaseIsExact,
       Chained, Selected, WriteAhead, TokensAreIntents, SpentIsDurable, OutcomeClosesTokens, IsIntent
  <1>12. CASE UNCHANGED vars
    BY <1>12, <1>type DEF vars, LockHeld, InAppend, LeaseIsExact, Chained, Selected,
       WriteAhead, TokensAreIntents, SpentIsDurable, OutcomeClosesTokens, IsIntent
  <1> QED
    BY <1>1, <1>2, <1>3, <1>4, <1>5, <1>6, <1>7, <1>8, <1>9, <1>10, <1>11, <1>12
    DEF Next, Steps, Handlers

\* The inductive invariant holds in every behaviour of the journal.
LEMMA Invariance == Spec => []JournalInv
  BY InvInit, InvStep, PTL DEF Spec

\* The journal keeps its types, and its budget of frames, for every number of
\* processes, parts and frames.
THEOREM TypeCorrect == Spec => []TypeOK
  <1>1. JournalInv => TypeOK
    BY DEF JournalInv
  <1> QED BY Invariance, <1>1, PTL

\* Whatever failed, was retried or died, recovery can read the file up to its
\* damage, and the damage lies behind the selected head.
THEOREM Recoverable == Spec => []AlwaysRecoverable
  <1>1. JournalInv => AlwaysRecoverable
    <2> SUFFICES ASSUME JournalInv PROVE AlwaysRecoverable
      OBVIOUS
    <2>1. synced \in 0..Len(frames) /\ reported \in Nat /\ anchor \in Nat /\ Len(frames) \in Nat
      BY LenProperties DEF JournalInv, TypeOK
    <2> QED BY <2>1 DEF JournalInv, Selected, AlwaysRecoverable, TailScanAccepts
  <1> QED BY Invariance, <1>1, PTL

\* No mutation is ever permitted for an intent that a crash can still remove.
THEOREM NeverAheadOfJournal == Spec => []WriteAhead
  <1>1. JournalInv => WriteAhead
    BY DEF JournalInv
  <1> QED BY Invariance, <1>1, PTL

\* Once a process has begun to append an outcome of a part, no token of that part
\* that it held permits anything again, even if the append failed.
THEOREM OutcomesCloseTokens == Spec => []OutcomeClosesTokens
  <1>1. JournalInv => OutcomeClosesTokens
    BY DEF JournalInv
  <1> QED BY Invariance, <1>1, PTL

\* One lease appends exactly behind what it retains.
THEOREM LeasesAreExact == Spec => []LeaseIsExact
  <1>1. JournalInv => LeaseIsExact
    BY DEF JournalInv
  <1> QED BY Invariance, <1>1, PTL
=============================================================================
