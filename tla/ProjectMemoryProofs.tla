------------------------- MODULE ProjectMemoryProofs -------------------------
(***************************************************************************)
(* Proofs about ProjectMemory for any writers, any records and any number  *)
(* of generations.  MemoryInv is inductive: a candidate is a successor of  *)
(* the current manifest until it replaces it, the files it has reached     *)
(* hold it, and what the history retains is linked down to the first       *)
(* generation.  What the whole chain satisfies follows from one link by    *)
(* induction over the distance from the current generation.                *)
(***************************************************************************)
EXTENDS ProjectMemory, WellFoundedInduction, TLAPS

Places == {"idle", "retain", "write", "index", "manifest", "load"}

TypeInv ==
    /\ content \in [Ids -> {"absent", "torn", "whole"}]
    /\ pc \in [Writers -> Places] /\ DOMAIN cand = Writers

LockHeld == \A w \in Writers : pc[w] # "idle" => holder = w

\* A manifest that is well formed, follows its predecessor, and whose records
\* have their contents.
Sound(m) ==
    /\ m.time \in Nat /\ m.recs \subseteq Records /\ Builds(m)
    /\ Transition(m.prev, m) /\ ContentVerifies(m)

\* What a commit relies on in each place.
Committing ==
    \A w \in Writers :
      /\ pc[w] \in {"retain", "write", "index", "manifest"} =>
           cand[w].prev = current /\ Sound(cand[w])
      /\ pc[w] \in {"index", "manifest", "load"} => cand[w] \in history
      /\ pc[w] = "manifest" => index = cand[w]
      /\ pc[w] = "load" => current = cand[w]

\* Every retained generation is sound and its predecessor is retained: the
\* step by which verify_project_memory_history walks down the chain.
HistoryLinked ==
    /\ current # NoManifest => current \in history
    /\ \A m \in history : Sound(m) /\ (m.prev # NoManifest => m.prev \in history)

IndexFollows ==
    index # current => index \in history /\ index.prev = current

MemoryInv == TypeInv /\ LockHeld /\ Committing /\ HistoryLinked /\ IndexFollows

-----------------------------------------------------------------------------
\* The empty store satisfies the inductive invariant.
LEMMA InvInit == Init => MemoryInv
  BY DEF Init, MemoryInv, TypeInv, LockHeld, Committing, HistoryLinked, IndexFollows, Places

\* Contents only become whole, so what verified goes on verifying.
LEMMA SoundStays ==
  ASSUME TypeInv, NEW i \in Ids, CreateContent(i) \/ WriteContent(i), NEW m, Sound(m)
  PROVE  Sound(m)'
  <1>1. \A j \in Ids : content[j] = "whole" => content'[j] = "whole"
    BY DEF TypeInv, CreateContent, WriteContent
  <1>2. \A r \in m.recs : r.id \in Ids
    BY DEF Sound, Ids
  <1>3. ContentVerifies(m)'
    BY <1>1, <1>2 DEF Sound, ContentVerifies
  <1> QED BY <1>3 DEF Sound

\* While one writer commits every other one is idle.
LEMMA OthersIdle ==
  ASSUME MemoryInv, NEW w \in Writers, pc[w] # "idle"
  PROVE  \A v \in Writers \ {w} : pc[v] = "idle"
  BY DEF MemoryInv, LockHeld

\* Every step keeps the inductive invariant.
LEMMA InvStep == MemoryInv /\ [Next]_vars => MemoryInv'
  <1> SUFFICES ASSUME MemoryInv, [Next]_vars PROVE MemoryInv'
    OBVIOUS
  <1> USE DEF MemoryInv
  <1>1. ASSUME NEW i \in Ids, CreateContent(i) \/ WriteContent(i) PROVE MemoryInv'
    <2>1. UNCHANGED <<history, torn, index, current, holder, pc, cand>>
      BY <1>1 DEF CreateContent, WriteContent, files
    <2>2. \A m : Sound(m) => Sound(m)'
      BY <1>1, SoundStays
    <2>3. TypeInv'
      BY <1>1 DEF CreateContent, WriteContent, files, TypeInv
    <2>4. Committing'
      BY <2>1, <2>2 DEF Committing
    <2>5. HistoryLinked'
      BY <2>1, <2>2 DEF HistoryLinked
    <2> QED BY <2>1, <2>3, <2>4, <2>5 DEF LockHeld, IndexFollows
  <1>2. ASSUME NEW w \in Writers, NEW m \in Candidates, StartCommit(w, m) PROVE MemoryInv'
    <2>1. \A v \in Writers : pc[v] = "idle"
      BY <1>2, NoManifestAssumption DEF StartCommit, Free, LockHeld
    <2>2. /\ holder' = w /\ pc' = [pc EXCEPT ![w] = "retain"] /\ cand' = [cand EXCEPT ![w] = m]
          /\ UNCHANGED <<content, history, torn, index, current>>
          /\ m.prev = current /\ Builds(m) /\ Transition(current, m) /\ ContentVerifies(m)
      BY <1>2 DEF StartCommit, files
    <2>3. \A n : Sound(n)' <=> Sound(n)
      BY <2>2 DEF Sound, ContentVerifies
    <2>4. Sound(m)
      BY <2>2 DEF Sound, Candidates
    <2>5. Committing'
      BY <2>1, <2>2, <2>3, <2>4 DEF Committing, TypeInv, Places
    <2>6. HistoryLinked'
      BY <2>2, <2>3 DEF HistoryLinked
    <2> QED BY <2>1, <2>2, <2>5, <2>6 DEF TypeInv, LockHeld, IndexFollows, Places
  <1>3. ASSUME NEW w \in Writers, Commit(w) PROVE MemoryInv'
    <2>1. pc[w] # "idle"
      BY <1>3 DEF Commit, RetainAgain, CreateHistory, WriteHistory, ReplaceIndex,
         ReplaceManifest, Return, Dies
    <2>2. \A v \in Writers \ {w} : pc[v] = "idle"
      BY <2>1, OthersIdle
    <2>3. \A n : Sound(n)' <=> Sound(n)
      BY <1>3 DEF Commit, RetainAgain, CreateHistory, WriteHistory, ReplaceIndex,
         ReplaceManifest, Return, Dies, Sound, ContentVerifies
    <2>4. CASE RetainAgain(w) \/ CreateHistory(w)
      <3>1. PICK p \in {"index", "write"} :
              /\ pc' = [pc EXCEPT ![w] = p] /\ pc[w] = "retain"
              /\ p = "index" => cand[w] \in history
              /\ UNCHANGED <<content, history, index, current, holder, cand>>
        BY <2>4 DEF RetainAgain, CreateHistory, files
      <3> QED BY <2>2, <2>3, <3>1 DEF TypeInv, LockHeld, Committing, HistoryLinked, IndexFollows,
                 Places
    <2>5. CASE WriteHistory(w)
      <3>1. /\ pc' = [pc EXCEPT ![w] = "index"] /\ pc[w] = "write"
            /\ history' = history \cup {cand[w]}
            /\ UNCHANGED <<content, index, current, holder, cand>>
        BY <2>5 DEF WriteHistory
      <3>2. HistoryLinked'
        BY <2>3, <3>1 DEF Committing, HistoryLinked
      <3> QED BY <2>2, <2>3, <3>1, <3>2 DEF TypeInv, LockHeld, Committing, IndexFollows, Places
    <2>6. CASE ReplaceIndex(w)
      <3>1. /\ pc' = [pc EXCEPT ![w] = "manifest"] /\ pc[w] = "index" /\ index' = cand[w]
            /\ UNCHANGED <<content, history, current, holder, cand>>
        BY <2>6 DEF ReplaceIndex
      <3> QED BY <2>2, <2>3, <3>1 DEF TypeInv, LockHeld, Committing, HistoryLinked, IndexFollows,
                 Places
    <2>7. CASE ReplaceManifest(w)
      <3>1. /\ pc' = [pc EXCEPT ![w] = "load"] /\ pc[w] = "manifest" /\ current' = cand[w]
            /\ UNCHANGED <<content, history, index, holder, cand>>
        BY <2>7 DEF ReplaceManifest
      <3> QED BY <2>2, <2>3, <3>1 DEF TypeInv, LockHeld, Committing, HistoryLinked, IndexFollows,
                 Places
    <2>8. CASE Return(w) \/ Dies(w)
      <3>1. /\ pc' = [pc EXCEPT ![w] = "idle"] /\ cand' = [cand EXCEPT ![w] = NoManifest]
            /\ UNCHANGED <<content, history, index, current>>
        BY <2>8 DEF Return, Dies, Releases, files
      <3> QED BY <2>2, <2>3, <3>1 DEF TypeInv, LockHeld, Committing, HistoryLinked, IndexFollows,
                 Places
    <2> QED BY <1>3, <2>4, <2>5, <2>6, <2>7, <2>8 DEF Commit
  <1>4. CASE UNCHANGED vars
    <2>1. UNCHANGED <<content, history, torn, index, current, holder, pc, cand>>
      BY <1>4 DEF vars
    <2>2. \A n : Sound(n)' <=> Sound(n)
      BY <2>1 DEF Sound, ContentVerifies
    <2> QED BY <2>1, <2>2 DEF TypeInv, LockHeld, Committing, HistoryLinked, IndexFollows
  <1> QED BY <1>1, <1>2, <1>3, <1>4 DEF Next

\* The inductive invariant holds in every behaviour of the store.
LEMMA Invariance == Spec => []MemoryInv
  BY InvInit, InvStep, PTL DEF Spec

\* verify_project_memory_history: whichever commits died or were retried, every
\* retained generation verifies and its predecessor is retained, for any
\* number of generations: the history verifies down to its first.
THEOREM RetainedIsLinked == Spec => []HistoryLinked
  <1>1. MemoryInv => HistoryLinked
    BY DEF MemoryInv
  <1> QED BY Invariance, <1>1, PTL

\* commit: an index that does not match the current manifest belongs to a
\* retained successor of it.
THEOREM IndexIsOneAhead == Spec => []IndexOneAhead
  <1>1. MemoryInv => IndexOneAhead
    BY DEF MemoryInv, IndexFollows, HistoryLinked, Sound, IndexOneAhead
  <1> QED BY Invariance, <1>1, PTL

\* commit: the current manifest is only ever replaced by its own successor.
THEOREM ChainGrowsBySuccessors == Spec => ChainOnlyGrows
  <1>1. MemoryInv /\ [Next]_vars => [current' # current => current'.prev = current]_vars
    <2> SUFFICES ASSUME MemoryInv, [Next]_vars, current' # current
                 PROVE  current'.prev = current
      OBVIOUS
    <2>1. PICK w \in Writers : ReplaceManifest(w)
      BY DEF Next, CreateContent, WriteContent, Commit, RetainAgain, CreateHistory, WriteHistory,
         ReplaceIndex, Return, Dies, StartCommit, files, vars
    <2> QED BY <2>1 DEF ReplaceManifest, MemoryInv, Committing
  <1> QED BY Invariance, <1>1, PTL DEF Spec, ChainOnlyGrows
-----------------------------------------------------------------------------
(* The chain of generations is a recursive function of the distance from   *)
(* the current one.  What holds of all of it is shown by a least distance  *)
(* at which it would fail.                                                 *)

Below == {ss \in Nat \X Nat : ss[1] < ss[2]}

\* A set of naturals that has a member has a least one.
LEMMA LeastNat ==
  ASSUME NEW T, T \subseteq Nat, T # {}
  PROVE  \E x \in T : \A y \in T : x <= y
  <1>1. IsWellFoundedOn(Below, Nat)
    BY NatLessThanWellFounded DEF Below, OpToRel
  <1>2. \E x \in T : \A y \in T : ~ (<<y, x>> \in Below)
    BY <1>1, WFMin
  <1>3. \A x, y \in Nat : y < x => <<y, x>> \in Below
    BY DEF Below
  <1>4. PICK x \in T : \A y \in T : ~ (<<y, x>> \in Below)
    BY <1>2
  <1>5. ASSUME NEW y \in T PROVE x <= y
    <2>1. x \in Nat /\ y \in Nat
      OBVIOUS
    <2>2. ~ (y < x)
      BY <1>3, <1>4, <2>1
    <2> QED BY <2>1, <2>2
  <1> QED BY <1>5

\* What holds of 0 and of every successor holds of every natural.
LEMMA AllNat ==
  ASSUME NEW T, T \subseteq Nat, 0 \in T, \A n \in T : n + 1 \in T
  PROVE  T = Nat
  <1> SUFFICES ASSUME Nat \ T # {} PROVE FALSE
    OBVIOUS
  <1>1. PICK x \in Nat \ T : \A y \in Nat \ T : x <= y
    BY LeastNat, Nat \ T \subseteq Nat
  <1>2. x # 0 /\ x - 1 \in Nat
    BY <1>1
  <1>3. x - 1 \in T
    BY <1>1, <1>2
  <1> QED BY <1>1, <1>2, <1>3

Iterates(step, a, f, D) == f[0] = a /\ \A n \in D : n + 1 \in D => f[n + 1] = step[f[n]]

\* A step on a set can be iterated from any member of it.
LEMMA Iteration ==
  ASSUME NEW S, NEW step \in [S -> S], NEW a \in S
  PROVE  \E f \in [Nat -> S] : f[0] = a /\ \A n \in Nat : f[n + 1] = step[f[n]]
  <1> DEFINE Part(k) == {f \in [0..k -> S] : Iterates(step, a, f, 0..k)}
  <1>1. \A k \in Nat : Part(k) # {}
    <2> DEFINE T == {k \in Nat : Part(k) # {}}
    <2>1. 0 \in T
      <3>1. [n \in 0..0 |-> a] \in Part(0)
        BY DEF Iterates
      <3> QED BY <3>1
    <2>2. ASSUME NEW k \in T PROVE k + 1 \in T
      <3>1. PICK f \in Part(k) : TRUE
        OBVIOUS
      <3>2. f \in [0..k -> S] /\ Iterates(step, a, f, 0..k)
        BY <3>1
      <3> DEFINE g == [n \in 0..(k + 1) |-> IF n = k + 1 THEN step[f[k]] ELSE f[n]]
      <3>3. g \in [0..(k + 1) -> S]
        BY <3>2
      <3>4. g[0] = a
        BY <3>2 DEF Iterates
      <3>5. ASSUME NEW n \in 0..(k + 1), n + 1 \in 0..(k + 1) PROVE g[n + 1] = step[g[n]]
        <4>1. n \in 0..k /\ g[n] = f[n]
          BY <3>5
        <4>2. CASE n = k
          BY <4>1, <4>2
        <4>3. CASE n # k
          <5>1. n + 1 \in 0..k /\ g[n + 1] = f[n + 1]
            BY <3>5, <4>1, <4>3
          <5> QED BY <3>2, <4>1, <5>1 DEF Iterates
        <4> QED BY <4>2, <4>3
      <3>6. g \in Part(k + 1)
        BY <3>3, <3>4, <3>5 DEF Iterates
      <3> QED BY <3>6
    <2> HIDE DEF T
    <2>3. T \subseteq Nat
      BY DEF T
    <2>4. T = Nat
      BY <2>1, <2>2, <2>3, AllNat
    <2> QED BY <2>4 DEF T
  \* Two parts agree as far as both go.
  <1>2. ASSUME NEW j \in Nat, NEW k \in Nat, j <= k, NEW f \in Part(j), NEW g \in Part(k)
        PROVE  \A n \in 0..j : f[n] = g[n]
    <2> DEFINE T == {n \in Nat : n <= j => f[n] = g[n]}
    <2>1. 0 \in T
      BY DEF Iterates
    <2>2. ASSUME NEW n \in T PROVE n + 1 \in T
      <3>1. CASE n + 1 <= j
        <4>1. n \in 0..j /\ n + 1 \in 0..j /\ n \in 0..k /\ n + 1 \in 0..k
          BY <1>2, <3>1
        <4>2. f[n + 1] = step[f[n]] /\ g[n + 1] = step[g[n]]
          BY <4>1 DEF Iterates
        <4> QED BY <4>1, <4>2
      <3>2. CASE ~(n + 1 <= j)
        BY <3>2
      <3> QED BY <3>1, <3>2
    <2> HIDE DEF T
    <2>3. T \subseteq Nat
      BY DEF T
    <2>4. T = Nat
      BY <2>1, <2>2, <2>3, AllNat
    <2> QED BY <2>4 DEF T
  <1> DEFINE pick == [k \in Nat |-> CHOOSE f \in Part(k) : TRUE]
  <1>3. ASSUME NEW k \in Nat PROVE pick[k] \in Part(k)
    <2> HIDE DEF Part
    <2>1. \E f : f \in Part(k)
      BY <1>1
    <2>2. (CHOOSE f \in Part(k) : TRUE) \in Part(k)
      BY <2>1
    <2> QED BY <2>2
  <1> DEFINE F == [n \in Nat |-> pick[n][n]]
  <1>4. F \in [Nat -> S]
    <2>1. ASSUME NEW n \in Nat PROVE pick[n][n] \in S
      <3>1. pick[n] \in [0..n -> S]
        BY <1>3
      <3> HIDE DEF pick
      <3> QED BY <3>1
    <2> QED BY <2>1
  <1>5. F[0] = a
    <2>1. pick[0] \in Part(0)
      BY <1>3
    <2> HIDE DEF pick
    <2> QED BY <2>1 DEF Iterates
  <1>6. ASSUME NEW n \in Nat PROVE F[n + 1] = step[F[n]]
    <2>1. pick[n] \in Part(n) /\ pick[n + 1] \in Part(n + 1)
      <3> HIDE DEF pick, Part
      <3> QED BY <1>3
    <2>2. F[n] = pick[n][n] /\ F[n + 1] = pick[n + 1][n + 1]
      OBVIOUS
    <2> HIDE DEF pick, F
    <2>3. pick[n][n] = pick[n + 1][n]
      <3> HIDE DEF Part
      <3>1. n <= n + 1 /\ n + 1 \in Nat /\ n \in 0..n
        OBVIOUS
      <3> QED BY <1>2, <2>1, <3>1
    <2>4. n \in 0..(n + 1) /\ n + 1 \in 0..(n + 1)
      OBVIOUS
    <2>5. pick[n + 1][n + 1] = step[pick[n + 1][n]]
      BY <2>1, <2>4 DEF Iterates
    <2> QED BY <2>2, <2>3, <2>5
  <1> HIDE DEF F
  <1> QED BY <1>4, <1>5, <1>6
\* The function of Chain: the generations before m, by their distance from it.
Back(m) == CHOOSE f : f = [n \in Nat |->
             IF n = 0 THEN m ELSE IF f[n - 1] = NoManifest THEN NoManifest ELSE f[n - 1].prev]

\* From a set that is closed under predecessors, the chain is defined, goes from
\* each generation to its predecessor, and stays in the set.
LEMMA BackIsDefined ==
  ASSUME NEW H, NEW m \in H \cup {NoManifest},
         \A x \in H : x.prev # NoManifest => x.prev \in H
  PROVE  /\ Back(m) \in [Nat -> H \cup {NoManifest}]
         /\ Back(m)[0] = m
         /\ \A n \in Nat : Back(m)[n + 1] =
              IF Back(m)[n] = NoManifest THEN NoManifest ELSE Back(m)[n].prev
  <1> DEFINE S == H \cup {NoManifest}
             step == [x \in S |-> IF x = NoManifest THEN NoManifest ELSE x.prev]
             Is(f) == f = [n \in Nat |-> IF n = 0 THEN m
                             ELSE IF f[n - 1] = NoManifest THEN NoManifest ELSE f[n - 1].prev]
  <1>1. step \in [S -> S]
    OBVIOUS
  <1>2. PICK f \in [Nat -> S] : f[0] = m /\ \A n \in Nat : f[n + 1] = step[f[n]]
    <2>1. m \in S
      OBVIOUS
    <2> HIDE DEF step, S
    <2> QED BY <1>1, <2>1, Iteration
  <1>3. Is(f)
    <2>1. ASSUME NEW n \in Nat
          PROVE  f[n] = IF n = 0 THEN m
                        ELSE IF f[n - 1] = NoManifest THEN NoManifest ELSE f[n - 1].prev
      <3>1. CASE n = 0
        BY <1>2, <3>1
      <3>2. CASE n # 0
        <4>1. n - 1 \in Nat /\ (n - 1) + 1 = n
          BY <3>2
        <4>2. f[n] = step[f[n - 1]] /\ f[n - 1] \in S
          BY <1>2, <4>1
        <4> QED BY <3>2, <4>2
      <3> QED BY <3>1, <3>2
    <2> QED BY <2>1
  <1> DEFINE b == Back(m)
  <1>4. Is(b)
    <2>1. b = CHOOSE g : Is(g)
      BY DEF Back
    <2> HIDE DEF Is, b
    <2> QED BY <1>3, <2>1
  <1>5. /\ b[0] = m
        /\ \A n \in Nat : b[n + 1] = IF b[n] = NoManifest THEN NoManifest ELSE b[n].prev
    <2>1. \A n \in Nat : b[n] = IF n = 0 THEN m
            ELSE IF b[n - 1] = NoManifest THEN NoManifest ELSE b[n - 1].prev
      <3> HIDE DEF b
      <3> QED BY <1>4
    <2> HIDE DEF b
    <2>2. ASSUME NEW n \in Nat
          PROVE  b[n + 1] = IF b[n] = NoManifest THEN NoManifest ELSE b[n].prev
      <3>1. n + 1 \in Nat /\ n + 1 # 0 /\ (n + 1) - 1 = n
        OBVIOUS
      <3> QED BY <2>1, <3>1
    <2> QED BY <2>1, <2>2
  <1>6. \A n \in Nat : b[n] \in S
    <2> HIDE DEF b
    <2> DEFINE T == {n \in Nat : b[n] \in S}
    <2>1. 0 \in T
      BY <1>5
    <2>2. ASSUME NEW n \in T PROVE n + 1 \in T
      BY <1>5
    <2> HIDE DEF T
    <2>3. T \subseteq Nat
      BY DEF T
    <2>4. T = Nat
      BY <2>1, <2>2, <2>3, AllNat
    <2> QED BY <2>4 DEF T
  <1>7. b \in [Nat -> S]
    <2>1. b = [n \in Nat |-> b[n]]
      BY <1>4
    <2> HIDE DEF b
    <2> QED BY <1>6, <2>1
  <1> QED BY <1>5, <1>7

\* The chain is the values of that function up to the bound.
LEMMA ChainIsBack ==
  ASSUME NEW m
  PROVE  Chain(m) = {Back(m)[n] : n \in 0..MaxTime} \ {NoManifest}
  BY DEF Chain, Back

\* verify_project_memory_history: whichever commits died and were retried, and for
\* any number of generations, every whole object verifies and the chain consists
\* of whole objects, so only an object that is partly written is refused.
THEOREM OnlyTornObjectsAreRefused == Spec => []OnlyTornIsRefused
  <1>1. MemoryInv => OnlyTornIsRefused
    <2> SUFFICES ASSUME MemoryInv PROVE OnlyTornIsRefused
      OBVIOUS
    <2>1. EntriesVerify
      BY DEF MemoryInv, HistoryLinked, Sound, EntriesVerify
    <2>2. LinksVerify
      <3>1. Back(current) \in [Nat -> history \cup {NoManifest}]
        BY BackIsDefined DEF MemoryInv, HistoryLinked
      <3>2. Chain(current) \subseteq history
        BY <3>1, ChainIsBack, BoundsAssumption
      <3> QED BY <3>2 DEF MemoryInv, HistoryLinked, Sound, LinksVerify
    <2>3. current # NoManifest /\ index = current => Loads
      BY DEF MemoryInv, HistoryLinked, Sound, Loads
    <2> QED BY <2>1, <2>2, <2>3 DEF HistoryVerifies, OnlyTornIsRefused
  <1> QED BY Invariance, <1>1, PTL

\* commit_project_memory_generation: for any number of generations, no assertion
\* of an earlier one is lost: it is current, expired, or superseded in between.
THEOREM AssertionsAreAccounted == Spec => []NoAssertionLost
  <1>1. MemoryInv => NoAssertionLost
    <2> SUFFICES ASSUME MemoryInv, current # NoManifest
                 PROVE  \A m \in Chain(current) : \A r \in m.recs :
                          \/ r \in current.recs
                          \/ ~CurrentAt(r, current.time)
                          \/ \E n \in Chain(current) : n.time > m.time
                               /\ \E s \in n.recs : r.id \in s.supersedes
      BY DEF NoAssertionLost
    <2> DEFINE b == Back(current)
    <2>1. /\ b \in [Nat -> history \cup {NoManifest}]
          /\ b[0] = current
          /\ \A n \in Nat : b[n + 1] = IF b[n] = NoManifest THEN NoManifest ELSE b[n].prev
      BY BackIsDefined DEF MemoryInv, HistoryLinked
    <2>2. Chain(current) = {b[n] : n \in 0..MaxTime} \ {NoManifest}
      BY ChainIsBack
    <2> HIDE DEF b
    <2>3. \A x \in history : Sound(x)
      BY DEF MemoryInv, HistoryLinked
    \* What became of a record of the generation at distance n.
    <2> DEFINE Accounted(n, r) ==
                 \/ r \in current.recs
                 \/ ~CurrentAt(r, current.time)
                 \/ \E k \in 0..n : b[k] # NoManifest /\ b[k].time > b[n].time
                      /\ \E s \in b[k].recs : r.id \in s.supersedes
               Good(n) == b[n] # NoManifest =>
                            b[n].time <= current.time /\ \A r \in b[n].recs : Accounted(n, r)
               T == {n \in Nat : Good(n)}
    <2>4. 0 \in T
      <3>1. current.time \in Nat
        BY <2>1, <2>3 DEF Sound
      <3> QED BY <2>1, <3>1
    <2>5. ASSUME NEW n \in T, b[n + 1] # NoManifest PROVE n + 1 \in T
      <3> DEFINE x == b[n]
                 y == b[n + 1]
      <3>1. x # NoManifest /\ y = x.prev /\ x \in history /\ y \in history /\ n \in Nat
        BY <2>1, <2>5
      <3>2. Good(n)
        OBVIOUS
      <3>3. x.time <= current.time /\ \A r \in x.recs : Accounted(n, r)
        BY <3>1, <3>2
      <3> HIDE DEF Accounted, Good
      <3>4. Transition(y, x) /\ y # NoManifest
        BY <2>3, <2>5, <3>1 DEF Sound
      <3>5. /\ x.time \in Nat /\ y.time \in Nat /\ current.time \in Nat
            /\ \A r \in Records : r.until \in Nat
            /\ y.recs \subseteq Records
        BY <2>1, <2>3, <3>1, RecordsAssumption DEF Sound
      <3>6. x.time > y.time
        BY <3>4 DEF Transition
      <3>7. ASSUME NEW r \in y.recs PROVE Accounted(n + 1, r)
        <4>1. CASE r.id \in IdsIn(x)
          <5>1. r \in x.recs
            BY <3>4, <4>1 DEF Transition, IdsIn
          <5>2. Accounted(n, r)
            BY <3>3, <5>1
          <5>3. \A k \in 0..n : /\ k \in 0..(n + 1)
                               /\ b[k].time > x.time => b[k].time > y.time \/ b[k] = NoManifest
            <6>1. \A k \in 0..n : b[k] # NoManifest => b[k].time \in Nat
              BY <2>1, <2>3, <3>1 DEF Sound
            <6> QED BY <3>1, <3>5, <3>6, <6>1
          <5> QED BY <5>2, <5>3 DEF Accounted
        <4>2. CASE ~CurrentAt(r, x.time)
          <5>1. r.until \in Nat
            BY <3>5
          <5>2. ~CurrentAt(r, current.time)
            BY <3>3, <3>5, <4>2, <5>1 DEF CurrentAt
          <5> QED BY <5>2 DEF Accounted
        <4>3. CASE \E s \in Introduced(y, x) : r.id \in s.supersedes
          <5>1. n \in 0..(n + 1) /\ \E s \in x.recs : r.id \in s.supersedes
            BY <3>1, <4>3 DEF Introduced
          <5> QED BY <3>1, <3>6, <5>1 DEF Accounted
        <4> QED BY <3>4, <4>1, <4>2, <4>3 DEF Transition
      <3>8. y.time <= current.time
        BY <3>3, <3>5, <3>6
      <3> QED BY <3>1, <3>7, <3>8 DEF Good
    <2>6. ASSUME NEW n \in T PROVE n + 1 \in T
      BY <2>5
    <2> HIDE DEF T
    <2>7. T \subseteq Nat
      BY DEF T
    <2>8. T = Nat
      BY <2>4, <2>6, <2>7, AllNat
    <2>9. ASSUME NEW n \in 0..MaxTime, b[n] # NoManifest, NEW r \in b[n].recs
          PROVE  \/ r \in current.recs
                 \/ ~CurrentAt(r, current.time)
                 \/ \E x \in Chain(current) : x.time > b[n].time
                      /\ \E s \in x.recs : r.id \in s.supersedes
      <3>1. Good(n) /\ n \in Nat /\ 0..n \subseteq 0..MaxTime
        BY <2>8, BoundsAssumption DEF T
      <3>2. Accounted(n, r)
        BY <2>9, <3>1
      <3> QED BY <2>2, <3>1, <3>2
    <2> HIDE DEF Accounted, Good
    <2> QED BY <2>2, <2>9
  <1> QED BY Invariance, <1>1, PTL
=============================================================================
