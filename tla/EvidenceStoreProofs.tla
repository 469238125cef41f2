------------------------- MODULE EvidenceStoreProofs -------------------------
(***************************************************************************)
(* Proofs about EvidenceStore for any set of publishers and objects, any   *)
(* sizes and any budgets.  StoreInv is inductive; beside the property it   *)
(* says that the object a publisher works on is not one already returned,  *)
(* what is synchronised before each step, and that a staging file a        *)
(* publisher is about to rename or remove is still counted.  BudgetInv,    *)
(* at the end, bounds what a power loss may leave.                         *)
(***************************************************************************)
EXTENDS EvidenceStore, FiniteSetTheorems, WellFoundedInduction, TLAPS

LockHeld == \A p \in Procs : pc[p] # "idle" => holder = p

Fresh == \A p \in Procs : pc[p] # "idle" => obj[p] \notin published

Synced ==
    \A p \in Procs :
      /\ pc[p] \in {"rename", "fsync-dir", "verify"} => data[obj[p]] = "synced"
      /\ pc[p] = "verify" => survivors = {dir}

Staged ==
    \A p \in Procs :
      /\ obj[p] \in Journal /\ pc[p] \in {"write", "fsync"} => dir.staging > 0
      /\ pc[p] = "rename" => obj[p] \in Journal /\ dir.staging > 0

StoreInv ==
    TypeOK /\ LockHeld /\ Fresh /\ Synced /\ Staged /\ PublishedIsDurable

-----------------------------------------------------------------------------
\* While one publisher works every other one is idle.
LEMMA OthersIdle ==
  ASSUME StoreInv, NEW p \in Procs, pc[p] # "idle"
  PROVE  \A q \in Procs \ {p} : pc[q] = "idle"
  BY DEF StoreInv, LockHeld

\* A publication starts with the lock free, so with every publisher idle.
LEMMA LocksFromIdle ==
  ASSUME StoreInv, NEW p \in Procs, Locks(p)
  PROVE  \A q \in Procs : pc[q] = "idle"
  BY NoProcAssumption DEF Locks, StoreInv, LockHeld

\* The new store satisfies the inductive invariant.
LEMMA InvInit == Init => StoreInv
  BY DEF Init, StoreInv, TypeOK, Directory, LockHeld, Fresh, Synced, Staged, PublishedIsDurable

\* Every step keeps the inductive invariant.
LEMMA InvStep == StoreInv /\ [Next]_vars => StoreInv'
  <1> SUFFICES ASSUME StoreInv, [Next]_vars PROVE StoreInv'
    OBVIOUS
  <1> USE DEF StoreInv
  <1>type. /\ dir \in Directory /\ survivors \subseteq Directory /\ dir \in survivors
           /\ data \in [Objects -> {"torn", "written", "synced"}]
           /\ holder \in Procs \cup {NoProc}
           /\ pc \in [Procs -> {"idle", "create", "write", "fsync", "rename", "fsync-dir",
                                "verify"}]
           /\ obj \in [Procs -> Objects]
           /\ published \subseteq Objects /\ found \subseteq Objects
    BY DEF TypeOK
  <1>dir. dir.names \in SUBSET Objects /\ dir.staging \in Nat
    BY <1>type DEF Directory
  <1>1. ASSUME NEW p \in Procs, NEW o \in Objects, PublishAgain(p, o) PROVE StoreInv'
    BY <1>1 DEF PublishAgain, TypeOK, LockHeld, Fresh, Synced, Staged, PublishedIsDurable
  <1>2. ASSUME NEW p \in Procs, NEW o \in Objects, Publish(p, o) PROVE StoreInv'
    <2>1. \A q \in Procs : pc[q] = "idle"
      BY <1>2, LocksFromIdle DEF Publish
    <2>2. o \notin published
      BY <1>2, <1>type DEF Publish, PublishedIsDurable
    <2> QED
      BY <1>2, <1>type, <2>1, <2>2 DEF Publish, Goes, results, TypeOK, LockHeld, Fresh,
         Synced, Staged, PublishedIsDurable
  <1>3. ASSUME NEW p \in Procs, Create(p) PROVE StoreInv'
    <2>1. \A q \in Procs \ {p} : pc[q] = "idle"
      BY <1>3, OthersIdle DEF Create
    <2>2. /\ pc[p] = "create" /\ pc' = [pc EXCEPT ![p] = "write"]
          /\ UNCHANGED <<holder, obj, published, found>>
          /\ survivors' = survivors \cup {dir'}
      BY <1>3 DEF Create, Changes, Goes, results
    <2>3. /\ dir' \in Directory /\ dir.names \subseteq dir'.names
          /\ obj[p] \in Journal => dir'.staging > 0
          /\ data' \in [Objects -> {"torn", "written", "synced"}]
          /\ \A o \in Objects \ {obj[p]} : data'[o] = data[o]
      BY <1>3, <1>type, <1>dir DEF Create, Changes, Directory
    <2>4. TypeOK' /\ LockHeld' /\ Fresh'
      BY <1>type, <2>1, <2>2, <2>3 DEF TypeOK, LockHeld, Fresh
    <2>5. Synced' /\ Staged'
      BY <1>type, <2>1, <2>2, <2>3 DEF Synced, Staged
    <2>6. PublishedIsDurable'
      BY <1>type, <2>2, <2>3 DEF PublishedIsDurable, Fresh
    <2> QED BY <2>4, <2>5, <2>6
  <1>4. ASSUME NEW p \in Procs, Write(p) \/ Fsync(p) PROVE StoreInv'
    <2>1. \A q \in Procs \ {p} : pc[q] = "idle"
      BY <1>4, OthersIdle DEF Write, Fsync
    <2>2. PICK d \in {"written", "synced"}, l \in {"fsync", "rename", "fsync-dir"} :
            /\ pc[p] \in {"write", "fsync"} /\ pc' = [pc EXCEPT ![p] = l]
            /\ data' = [data EXCEPT ![obj[p]] = d]
            /\ l # "fsync" => d = "synced"
            /\ l = "rename" => obj[p] \in Journal
            /\ UNCHANGED <<dir, survivors, holder, obj, published, found>>
      BY <1>4 DEF Write, Fsync, Goes, results
    <2>3. TypeOK' /\ LockHeld' /\ Fresh'
      BY <1>type, <2>1, <2>2 DEF TypeOK, LockHeld, Fresh
    <2>4. Synced' /\ Staged'
      BY <1>type, <2>1, <2>2 DEF Synced, Staged
    <2>5. PublishedIsDurable'
      BY <1>type, <2>2 DEF PublishedIsDurable, Fresh
    <2> QED BY <2>3, <2>4, <2>5
  <1>5. ASSUME NEW p \in Procs, Rename(p) PROVE StoreInv'
    <2>1. \A q \in Procs \ {p} : pc[q] = "idle"
      BY <1>5, OthersIdle DEF Rename
    <2>2. /\ pc[p] = "rename" /\ pc' = [pc EXCEPT ![p] = "fsync-dir"]
          /\ dir' = [names |-> dir.names \cup {obj[p]}, staging |-> dir.staging - 1]
          /\ survivors' = survivors \cup {dir'}
          /\ UNCHANGED <<data, holder, obj, published, found>>
      BY <1>5 DEF Rename, Changes, Goes, results
    <2>3. dir' \in Directory /\ dir.names \subseteq dir'.names
      BY <1>5, <1>type, <1>dir, <2>2 DEF Staged, Rename, Directory
    <2>4. TypeOK' /\ LockHeld' /\ Fresh'
      BY <1>type, <2>1, <2>2, <2>3 DEF TypeOK, LockHeld, Fresh
    <2>5. Synced' /\ Staged'
      BY <1>type, <2>1, <2>2 DEF Synced, Staged
    <2>6. PublishedIsDurable'
      BY <1>type, <2>2, <2>3 DEF PublishedIsDurable
    <2> QED BY <2>4, <2>5, <2>6
  <1>6. ASSUME NEW p \in Procs, FsyncDir(p) PROVE StoreInv'
    <2>1. \A q \in Procs \ {p} : pc[q] = "idle"
      BY <1>6, OthersIdle DEF FsyncDir
    <2> QED
      BY <1>6, <1>type, <2>1 DEF FsyncDir, Goes, results, TypeOK, LockHeld, Fresh, Synced,
         Staged, PublishedIsDurable
  <1>7. ASSUME NEW p \in Procs, Return(p) PROVE StoreInv'
    <2>1. \A q \in Procs \ {p} : pc[q] = "idle"
      BY <1>7, OthersIdle DEF Return
    <2>2. data[obj[p]] = "synced" /\ \A d \in survivors : obj[p] \in d.names
      BY <1>7 DEF Return, Synced
    <2> QED
      BY <1>7, <1>type, <2>1, <2>2 DEF Return, Leaves, Goes, TypeOK, LockHeld, Fresh, Synced,
         Staged, PublishedIsDurable
  <1>8. ASSUME NEW p \in Procs, Fails(p) \/ Dies(p) PROVE StoreInv'
    <2>1. \A q \in Procs \ {p} : pc[q] = "idle"
      BY <1>8, OthersIdle DEF Fails, Dies
    <2>2. /\ pc' = [pc EXCEPT ![p] = "idle"] /\ holder' = NoProc
          /\ UNCHANGED <<data, obj, published, found>>
          /\ \/ UNCHANGED <<dir, survivors>>
             \/ /\ obj[p] \in Journal /\ pc[p] \in {"write", "fsync", "rename"}
                /\ dir' = [dir EXCEPT !.staging = @ - 1]
                /\ survivors' = survivors \cup {dir'}
      BY <1>8 DEF Fails, Dies, Changes, Leaves, Goes, results
    <2>3. /\ dir' \in Directory /\ dir'.names = dir.names
          /\ dir' \in survivors' /\ survivors' \subseteq Directory
          /\ \A d \in survivors' : d \in survivors \/ d.names = dir.names
      BY <1>type, <1>dir, <2>2 DEF Staged, Directory
    <2>4. \A q \in Procs : pc'[q] = "idle"
      BY <1>type, <2>1, <2>2
    <2>5. PublishedIsDurable'
      BY <1>type, <2>2, <2>3 DEF PublishedIsDurable
    <2> QED
      BY <1>type, <2>2, <2>3, <2>4, <2>5 DEF TypeOK, LockHeld, Fresh, Synced, Staged
  <1>9. CASE PowerLoss
    <2>1. /\ dir' \in survivors /\ survivors' = {dir'}
          /\ data' \in [Objects -> {"torn", "synced"}]
          /\ \A o \in Objects : data[o] # "written" => data'[o] = data[o]
          /\ holder' = NoProc /\ pc' = [p \in Procs |-> "idle"]
          /\ UNCHANGED <<obj, published, found>>
      BY <1>9 DEF PowerLoss, results
    <2>2. data' \in [Objects -> {"torn", "written", "synced"}]
      BY <2>1
    <2> QED
      BY <1>type, <2>1, <2>2 DEF TypeOK, LockHeld, Fresh, Synced, Staged, PublishedIsDurable
  <1>10. CASE UNCHANGED vars
    BY <1>10 DEF vars, results, TypeOK, LockHeld, Fresh, Synced, Staged, PublishedIsDurable
  <1> QED
    BY <1>1, <1>2, <1>3, <1>4, <1>5, <1>6, <1>7, <1>8, <1>9, <1>10 DEF Next, Steps

\* The inductive invariant holds in every behaviour of the store.
LEMMA Invariance == Spec => []StoreInv
  BY InvInit, InvStep, PTL DEF Spec

\* The store keeps its types; no failure or crash takes the count of staging
\* files below zero.
THEOREM TypeCorrect == Spec => []TypeOK
  <1>1. StoreInv => TypeOK
    BY DEF StoreInv
  <1> QED BY Invariance, <1>1, PTL

\* An object that its publisher returned survives whole whatever follows, for
\* every number of publishers and objects and every budget.
THEOREM ReturnedObjectsSurvive == Spec => []PublishedIsDurable
  <1>1. StoreInv => PublishedIsDurable
    BY DEF StoreInv
  <1> QED BY Invariance, <1>1, PTL

-----------------------------------------------------------------------------
(***************************************************************************)
(* The bytes of a directory are a fold over its names.  They are the value *)
(* at that set of any function that is additive on its subsets, so an      *)
(* object adds its own size whatever the fold's order.                     *)
(***************************************************************************)

Below == {ss \in Nat \X Nat : ss[1] < ss[2]}

\* A set of naturals that has a member has a least one.
LEMMA LeastNat ==
  ASSUME NEW T, T \subseteq Nat, T # {}
  PROVE  \E x \in T : \A y \in T : x <= y
  <1>1. IsWellFoundedOn(Below, Nat)
    BY NatLessThanWellFounded DEF Below, OpToRel
  <1>2. \E x \in T : \A y \in T : ~ (<<y, x>> \in Below)
    BY <1>1, WFMin
  <1>3. \A x, y \in Nat : y < x => <<y, x>> \in Below
    BY DEF Below
  <1>4. PICK x \in T : \A y \in T : ~ (<<y, x>> \in Below)
    BY <1>2
  <1>5. ASSUME NEW y \in T PROVE x <= y
    <2>1. x \in Nat /\ y \in Nat
      OBVIOUS
    <2>2. ~ (y < x)
      BY <1>3, <1>4, <2>1
    <2> QED BY <2>1, <2>2
  <1> QED BY <1>5

Chosen(T) == CHOOSE x \in T : TRUE

\* f is what the fold over S evaluates.
Recurses(f, S) ==
    f = [T \in SUBSET S |-> IF T = {} THEN 0 ELSE Size[Chosen(T)] + f[T \ {Chosen(T)}]]

Additive(g, S) ==
    /\ g \in [SUBSET S -> Nat] /\ g[{}] = 0
    /\ \A T \in SUBSET S : \A x \in S \ T : g[T \cup {x}] = Size[x] + g[T]

LEMMA BytesRecurse ==
  ASSUME NEW d PROVE Bytes(d) = (CHOOSE f : Recurses(f, d.names))[d.names]
  BY DEF Bytes, MapThenSumSet, MapThenFoldSet, Recurses, Chosen

\* One object more extends an additive function.
LEMMA AdditiveExtends ==
  ASSUME NEW S \in SUBSET Objects, NEW x \in S, NEW f, Additive(f, S \ {x})
  PROVE  \E g : Additive(g, S)
  <1> DEFINE g == [T \in SUBSET S |-> IF x \in T THEN Size[x] + f[T \ {x}] ELSE f[T]]
  <1>0. \A y \in S : Size[y] \in Nat
    BY SizeAssumption
  <1>1. \A T \in SUBSET S : T \ {x} \in SUBSET (S \ {x}) /\ f[T \ {x}] \in Nat
    BY DEF Additive
  <1>2. \A T \in SUBSET S : x \notin T => T \ {x} = T
    OBVIOUS
  <1>3. \A T \in SUBSET S : g[T] = IF x \in T THEN Size[x] + f[T \ {x}] ELSE f[T \ {x}]
    BY <1>2
  <1>4. g \in [SUBSET S -> Nat]
    <2>1. \A T \in SUBSET S :
            (IF x \in T THEN Size[x] + f[T \ {x}] ELSE f[T \ {x}]) \in Nat
      BY <1>0, <1>1
    <2>2. \A T \in SUBSET S : g[T] \in Nat
      BY <1>3, <2>1
    <2> QED BY <2>2
  <1>5. g[{}] = 0
    BY DEF Additive
  <1>6. ASSUME NEW T \in SUBSET S, NEW y \in S \ T PROVE g[T \cup {y}] = Size[y] + g[T]
    <2>1. T \cup {y} \in SUBSET S /\ Size[x] \in Nat /\ Size[y] \in Nat /\ f[T \ {x}] \in Nat
      BY <1>0, <1>1
    <2>2. CASE y = x
      <3>1. (T \cup {y}) \ {x} = T \ {x} /\ x \in T \cup {y} /\ x \notin T
        BY <2>2
      <3> HIDE DEF g
      <3>2. g[T \cup {y}] = Size[x] + f[(T \cup {y}) \ {x}]
        BY <1>3, <2>1, <3>1
      <3>3. g[T] = f[T \ {x}]
        BY <1>3, <3>1
      <3> QED BY <2>2, <3>1, <3>2, <3>3
    <2>3. CASE y # x
      <3>1. (T \cup {y}) \ {x} = (T \ {x}) \cup {y} /\ (x \in T \cup {y} <=> x \in T)
        BY <2>3
      <3>2. f[(T \ {x}) \cup {y}] = Size[y] + f[T \ {x}]
        BY <1>1, <2>3 DEF Additive
      <3> HIDE DEF g
      <3>3. g[T \cup {y}] = IF x \in T THEN Size[x] + (Size[y] + f[T \ {x}])
                            ELSE Size[y] + f[T \ {x}]
        BY <1>3, <2>1, <3>1, <3>2
      <3>4. g[T] = IF x \in T THEN Size[x] + f[T \ {x}] ELSE f[T \ {x}]
        BY <1>3
      <3> QED BY <2>1, <3>3, <3>4
    <2> QED BY <2>2, <2>3
  <1> HIDE DEF g
  <1>7. Additive(g, S)
    BY <1>4, <1>5, <1>6 DEF Additive
  <1> QED BY <1>7

\* There is an additive function on every finite set of objects.
LEMMA AdditiveExists ==
  ASSUME NEW S \in SUBSET Objects, IsFiniteSet(S)
  PROVE  \E g : Additive(g, S)
  <1> DEFINE Has(R) == \E g : Additive(g, R)
             Bad == {n \in Nat : \E R \in SUBSET Objects :
                                   IsFiniteSet(R) /\ Cardinality(R) = n /\ ~ Has(R)}
  <1> HIDE DEF Has
  <1>1. SUFFICES ASSUME ~ Has(S) PROVE FALSE
    BY DEF Has
  <1>2. Bad # {}
    BY <1>1, FS_CardinalityType
  <1>3. PICK n \in Bad : \A m \in Bad : n <= m
    BY <1>2, LeastNat, Bad \subseteq Nat
  <1>4. PICK R \in SUBSET Objects : IsFiniteSet(R) /\ Cardinality(R) = n /\ ~ Has(R)
    BY <1>3
  <1>5. R # {}
    <2>1. ASSUME R = {} PROVE Additive([T \in SUBSET R |-> 0], R)
      BY <2>1 DEF Additive
    <2> QED BY <1>4, <2>1 DEF Has
  <1>6. PICK x \in R : TRUE
    BY <1>5
  <1>7. R \ {x} \in SUBSET Objects /\ IsFiniteSet(R \ {x}) /\ Cardinality(R \ {x}) = n - 1
    BY <1>4, <1>6, FS_RemoveElement
  <1>8. Has(R \ {x})
    <2>1. Cardinality(R \ {x}) \in Nat
      BY <1>7, FS_CardinalityType
    <2>2. n \in Nat /\ n - 1 \notin Bad
      BY <1>3
    <2> QED BY <1>7, <2>1, <2>2
  <1>9. Has(R)
    BY <1>4, <1>6, <1>8, AdditiveExtends DEF Has
  <1> QED BY <1>4, <1>9

\* An additive function is what the fold evaluates, and there is no other.
LEMMA AdditiveRecurses ==
  ASSUME NEW S \in SUBSET Objects, NEW g, Additive(g, S) PROVE Recurses(g, S)
  <1>1. ASSUME NEW T \in SUBSET S, T # {}
        PROVE  g[T] = Size[Chosen(T)] + g[T \ {Chosen(T)}]
    <2>1. Chosen(T) \in T
      BY <1>1 DEF Chosen
    <2>2. T = (T \ {Chosen(T)}) \cup {Chosen(T)}
      BY <2>1
    <2> QED BY <2>1, <2>2 DEF Additive
  <1>2. \A T \in SUBSET S : g[T] = IF T = {} THEN 0 ELSE Size[Chosen(T)] + g[T \ {Chosen(T)}]
    BY <1>1 DEF Additive
  <1>3. g = [T \in SUBSET S |-> g[T]]
    BY DEF Additive
  <1> QED BY <1>2, <1>3 DEF Recurses

LEMMA RecursionIsUnique ==
  ASSUME NEW S, IsFiniteSet(S), NEW f, Recurses(f, S), NEW g, Recurses(g, S)
  PROVE  f[S] = g[S]
  <1> DEFINE Bad == {n \in Nat : \E T \in SUBSET S : Cardinality(T) = n /\ f[T] # g[T]}
  <1>1. SUFFICES ASSUME f[S] # g[S] PROVE FALSE
    OBVIOUS
  <1>2. Bad # {}
    BY <1>1, FS_CardinalityType
  <1>3. PICK n \in Bad : \A m \in Bad : n <= m
    BY <1>2, LeastNat, Bad \subseteq Nat
  <1>4. PICK T \in SUBSET S : Cardinality(T) = n /\ f[T] # g[T]
    BY <1>3
  <1>5. /\ f[T] = IF T = {} THEN 0 ELSE Size[Chosen(T)] + f[T \ {Chosen(T)}]
        /\ g[T] = IF T = {} THEN 0 ELSE Size[Chosen(T)] + g[T \ {Chosen(T)}]
    BY DEF Recurses
  <1>6. T # {} /\ f[T \ {Chosen(T)}] # g[T \ {Chosen(T)}]
    BY <1>4, <1>5
  <1>7. Chosen(T) \in T
    BY <1>6 DEF Chosen
  <1>8. IsFiniteSet(T \ {Chosen(T)}) /\ Cardinality(T \ {Chosen(T)}) = n - 1
    BY <1>4, <1>7, FS_Subset, FS_RemoveElement
  <1>9. n - 1 \in Bad
    BY <1>3, <1>6, <1>8, FS_CardinalityType
  <1> QED BY <1>3, <1>9

\* The bytes of a directory are what any additive function says.
LEMMA BytesAre ==
  ASSUME NEW d, d.names \in SUBSET Objects, IsFiniteSet(d.names), NEW g, Additive(g, d.names)
  PROVE  Bytes(d) = g[d.names]
  <1>1. Recurses(g, d.names)
    BY AdditiveRecurses
  <1>2. Recurses(CHOOSE f : Recurses(f, d.names), d.names)
    BY <1>1
  <1> QED BY <1>1, <1>2, RecursionIsUnique, BytesRecurse

\* An object adds its size, and the same names have the same bytes.
LEMMA BytesGrow ==
  ASSUME NEW d, d.names \in SUBSET Objects, IsFiniteSet(d.names),
         NEW e, NEW o \in Objects \ d.names, e.names = d.names \cup {o}
  PROVE  Bytes(e) = Bytes(d) + Size[o]
  <1> DEFINE S == d.names
  <1>1. IsFiniteSet(e.names) /\ e.names \in SUBSET Objects
    BY FS_AddElement
  <1>2. PICK g : Additive(g, e.names)
    BY <1>1, AdditiveExists
  <1> DEFINE h == [T \in SUBSET S |-> g[T]]
  <1>3. Additive(h, S)
    <2>1. \A T \in SUBSET S : \A x \in S \ T : T \cup {x} \in SUBSET S /\ x \in e.names \ T
      OBVIOUS
    <2>2. SUBSET S \subseteq SUBSET e.names /\ {} \in SUBSET S
      OBVIOUS
    <2> QED BY <1>2, <2>1, <2>2 DEF Additive
  <1>4. h[S] = g[S]
    OBVIOUS
  <1> HIDE DEF h
  <1>5. Bytes(d) = h[S] /\ Bytes(e) = g[e.names]
    BY <1>1, <1>2, <1>3, BytesAre
  <1>6. g[e.names] = Size[o] + g[S] /\ g[S] \in Nat
    BY <1>2 DEF Additive
  <1> QED BY <1>4, <1>5, <1>6, SizeAssumption

LEMMA BytesType ==
  ASSUME NEW d, d.names \in SUBSET Objects, IsFiniteSet(d.names)
  PROVE  Bytes(d) \in Nat /\ \A e : e.names = d.names => Bytes(e) = Bytes(d)
  <1>1. PICK g : Additive(g, d.names)
    BY AdditiveExists
  <1>2. Bytes(d) = g[d.names] /\ g[d.names] \in Nat
    BY <1>1, BytesAre DEF Additive
  <1>3. \A e : e.names = d.names => Bytes(e) = Bytes(d)
    BY BytesRecurse
  <1> QED BY <1>2, <1>3

-----------------------------------------------------------------------------
(***************************************************************************)
(* Within the budgets.  BudgetInv says of every directory a power loss may *)
(* leave what the scan demands, and of a publication in progress that what *)
(* it still adds was left room for.                                        *)
(***************************************************************************)

\* Names only come, and those of the journal domain with their bytes.
NamesOnlyCome ==
    \A d \in survivors :
      /\ d.names \subseteq dir.names
      /\ \A o \in d.names \cap Journal : data[o] = "synced"

WithinBudgets ==
    \A d \in survivors :
      /\ IsFiniteSet(d.names)
      /\ Entries(d) <= MaxObjects /\ Bytes(d) <= MaxTotalBytes

Reserved ==
    \A p \in Procs :
      /\ pc[p] = "create" => Entries(dir) < MaxObjects
      /\ pc[p] = "create" \/ (obj[p] \in Journal /\ pc[p] \in {"write", "fsync", "rename"}) =>
           obj[p] \notin dir.names /\ Bytes(dir) + Size[obj[p]] <= MaxTotalBytes

BudgetInv == NamesOnlyCome /\ WithinBudgets /\ Reserved

\* A directory that holds nothing has no bytes.
LEMMA NoBytes ==
  ASSUME NEW d, d.names = {} PROVE Bytes(d) = 0
  <1>1. IsFiniteSet(d.names) /\ d.names \in SUBSET Objects
    BY FS_EmptySet
  <1>2. PICK g : Additive(g, d.names)
    BY <1>1, AdditiveExists
  <1> QED BY <1>1, <1>2, BytesAre DEF Additive

LEMMA BudgetInit == Init => BudgetInv
  <1> SUFFICES ASSUME Init PROVE BudgetInv
    OBVIOUS
  <1>1. survivors = {dir} /\ dir.names = {} /\ dir.staging = 0
    BY DEF Init
  <1>2. IsFiniteSet(dir.names) /\ Entries(dir) = 0 /\ Bytes(dir) = 0
    BY <1>1, FS_EmptySet, NoBytes DEF Entries
  <1>3. \A p \in Procs : pc[p] = "idle"
    BY DEF Init
  <1> QED
    BY <1>1, <1>2, <1>3, BudgetAssumption DEF BudgetInv, NamesOnlyCome, WithinBudgets, Reserved

\* What is known of the visible directory.
LEMMA Visible ==
  ASSUME StoreInv, BudgetInv
  PROVE  /\ dir.names \in SUBSET Objects /\ dir.staging \in Nat
         /\ IsFiniteSet(dir.names) /\ Cardinality(dir.names) \in Nat
         /\ Entries(dir) = Cardinality(dir.names) + dir.staging /\ Entries(dir) <= MaxObjects
         /\ Bytes(dir) \in Nat /\ Bytes(dir) <= MaxTotalBytes
         /\ \A o \in dir.names \cap Journal : data[o] = "synced"
  <1>1. dir \in survivors /\ dir.names \in SUBSET Objects /\ dir.staging \in Nat
    BY DEF StoreInv, TypeOK, Directory
  <1>2. IsFiniteSet(dir.names) /\ Entries(dir) <= MaxObjects /\ Bytes(dir) <= MaxTotalBytes
        /\ \A o \in dir.names \cap Journal : data[o] = "synced"
    BY <1>1 DEF BudgetInv, NamesOnlyCome, WithinBudgets
  <1> QED BY <1>1, <1>2, FS_CardinalityType, BytesType DEF Entries

\* A new state of the directory that is within the budgets and whose journal
\* objects are synchronised may survive beside those before.
LEMMA DirectoryChanges ==
  ASSUME StoreInv, BudgetInv, survivors' = survivors \cup {dir'},
         dir.names \subseteq dir'.names, IsFiniteSet(dir'.names),
         Entries(dir') <= MaxObjects, Bytes(dir') <= MaxTotalBytes,
         \A o \in dir'.names \cap Journal : data'[o] = "synced"
  PROVE  NamesOnlyCome' /\ WithinBudgets'
  <1>1. \A d \in survivors' : d.names \subseteq dir'.names
    BY DEF BudgetInv, NamesOnlyCome
  <1>2. NamesOnlyCome'
    BY <1>1 DEF NamesOnlyCome
  <1>3. \A d \in survivors' :
          IsFiniteSet(d.names) /\ Entries(d) <= MaxObjects /\ Bytes(d) <= MaxTotalBytes
    BY DEF BudgetInv, WithinBudgets
  <1>4. WithinBudgets'
    BY <1>3 DEF WithinBudgets
  <1> QED BY <1>2, <1>4

\* Every step keeps the budgets.
LEMMA BudgetStep == StoreInv /\ BudgetInv /\ [Next]_vars => BudgetInv'
  <1> SUFFICES ASSUME StoreInv, BudgetInv, [Next]_vars PROVE BudgetInv'
    OBVIOUS
  <1>type. /\ survivors \subseteq Directory /\ dir \in survivors
           /\ data \in [Objects -> {"torn", "written", "synced"}]
           /\ pc \in [Procs -> {"idle", "create", "write", "fsync", "rename", "fsync-dir",
                                "verify"}]
           /\ obj \in [Procs -> Objects]
    BY DEF StoreInv, TypeOK
  <1>dir. /\ dir.names \in SUBSET Objects /\ dir.staging \in Nat
          /\ IsFiniteSet(dir.names) /\ Cardinality(dir.names) \in Nat
          /\ Entries(dir) = Cardinality(dir.names) + dir.staging /\ Entries(dir) <= MaxObjects
          /\ Bytes(dir) \in Nat /\ Bytes(dir) <= MaxTotalBytes
          /\ \A o \in dir.names \cap Journal : data[o] = "synced"
    BY Visible
  <1>reserved. \A p \in Procs :
      /\ pc[p] = "create" => Entries(dir) < MaxObjects
      /\ pc[p] = "create" \/ (obj[p] \in Journal /\ pc[p] \in {"write", "fsync", "rename"}) =>
           obj[p] \notin dir.names /\ Bytes(dir) + Size[obj[p]] <= MaxTotalBytes
    BY DEF BudgetInv, Reserved
  <1>const. MaxObjects \in Nat /\ MaxTotalBytes \in Nat /\ \A o \in Objects : Size[o] \in Nat
    BY BudgetAssumption, SizeAssumption
  <1>same. ASSUME dir' = dir, survivors' = survivors,
                  \A o \in dir.names \cap Journal : data'[o] = data[o]
           PROVE  NamesOnlyCome' /\ WithinBudgets'
    <2>1. survivors' = survivors \cup {dir'}
      BY <1>type, <1>same
    <2> QED BY <1>dir, <1>same, <2>1, DirectoryChanges
  <1>1. ASSUME NEW p \in Procs, NEW o \in Objects, PublishAgain(p, o) PROVE BudgetInv'
    BY <1>1 DEF PublishAgain, BudgetInv, NamesOnlyCome, WithinBudgets, Reserved
  <1>2. ASSUME NEW p \in Procs, NEW o \in Objects, Publish(p, o) PROVE BudgetInv'
    <2>1. \A q \in Procs : pc[q] = "idle"
      BY <1>2, LocksFromIdle DEF Publish
    <2>2. /\ UNCHANGED <<dir, survivors, data>> /\ o \notin dir.names
          /\ obj' = [obj EXCEPT ![p] = o] /\ pc' = [pc EXCEPT ![p] = "create"]
          /\ Entries(dir) < MaxObjects /\ Bytes(dir) + Size[o] <= MaxTotalBytes
      BY <1>2 DEF Publish, Goes, Fits
    <2>3. Reserved'
      BY <1>type, <2>1, <2>2 DEF Reserved
    <2> QED BY <1>same, <2>2, <2>3 DEF BudgetInv
  <1>3. ASSUME NEW p \in Procs, Create(p) PROVE BudgetInv'
    <2>1. \A q \in Procs \ {p} : pc[q] = "idle"
      BY <1>3, OthersIdle DEF Create
    <2>2. /\ pc[p] = "create" /\ pc' = [pc EXCEPT ![p] = "write"] /\ obj' = obj
          /\ survivors' = survivors \cup {dir'}
      BY <1>3 DEF Create, Changes, Goes
    <2>3. /\ obj[p] \in Objects /\ obj[p] \notin dir.names /\ Entries(dir) < MaxObjects
          /\ Bytes(dir) + Size[obj[p]] <= MaxTotalBytes
      BY <1>type, <1>reserved, <2>2
    <2>4. CASE obj[p] \in Journal
      <3>1. /\ dir'.names = dir.names /\ dir'.staging = dir.staging + 1 /\ data' = data
        BY <1>3, <1>type, <2>4 DEF Create, Changes, Directory
      <3>2. Entries(dir') = Entries(dir) + 1 /\ Bytes(dir') = Bytes(dir)
        BY <1>dir, <3>1, BytesType DEF Entries
      <3>3. Entries(dir') <= MaxObjects
        BY <1>dir, <1>const, <2>3, <3>2
      <3>4. NamesOnlyCome' /\ WithinBudgets'
        BY <1>dir, <2>2, <3>1, <3>2, <3>3, DirectoryChanges
      <3>5. Reserved'
        BY <1>type, <2>1, <2>2, <2>3, <3>1, <3>2 DEF Reserved
      <3> QED BY <3>4, <3>5 DEF BudgetInv
    <2>5. CASE obj[p] \notin Journal
      <3>1. /\ dir'.names = dir.names \cup {obj[p]} /\ dir'.staging = dir.staging
            /\ data' = [data EXCEPT ![obj[p]] = "torn"]
        BY <1>3, <1>type, <2>5 DEF Create, Changes, Directory
      <3>2. /\ IsFiniteSet(dir'.names) /\ Cardinality(dir'.names) = Cardinality(dir.names) + 1
            /\ Bytes(dir') = Bytes(dir) + Size[obj[p]]
        <4>1. /\ IsFiniteSet(dir.names \cup {obj[p]})
              /\ Cardinality(dir.names \cup {obj[p]}) = Cardinality(dir.names) + 1
          BY <1>dir, <2>3, FS_AddElement
        <4>2. Bytes(dir') = Bytes(dir) + Size[obj[p]]
          <5>1. dir'.names = dir.names \cup {obj[p]} /\ obj[p] \in Objects \ dir.names
            BY <2>3, <3>1
          <5> QED BY <1>dir, <5>1, BytesGrow
        <4> QED BY <3>1, <4>1, <4>2
      <3>3. Entries(dir') <= MaxObjects /\ Bytes(dir') <= MaxTotalBytes
        BY <1>dir, <1>const, <2>3, <3>1, <3>2 DEF Entries
      <3>4. NamesOnlyCome' /\ WithinBudgets'
        BY <1>dir, <1>type, <2>2, <2>5, <3>1, <3>2, <3>3, DirectoryChanges
      <3>5. Reserved'
        BY <1>type, <2>1, <2>2, <2>5 DEF Reserved
      <3> QED BY <3>4, <3>5 DEF BudgetInv
    <2> QED BY <2>4, <2>5
  <1>4. ASSUME NEW p \in Procs, Write(p) \/ Fsync(p) PROVE BudgetInv'
    <2>1. \A q \in Procs \ {p} : pc[q] = "idle"
      BY <1>4, OthersIdle DEF Write, Fsync
    <2>2. PICK d \in {"written", "synced"}, l \in {"fsync", "rename", "fsync-dir"} :
            /\ pc[p] \in {"write", "fsync"} /\ pc' = [pc EXCEPT ![p] = l]
            /\ data' = [data EXCEPT ![obj[p]] = d]
            /\ UNCHANGED <<dir, survivors, obj>>
      BY <1>4 DEF Write, Fsync, Goes
    <2>3. \A o \in dir.names \cap Journal : data'[o] = data[o]
      BY <1>type, <1>dir, <1>reserved, <2>2
    <2>4. Reserved'
      BY <1>type, <1>reserved, <2>1, <2>2 DEF Reserved
    <2> QED BY <1>same, <2>2, <2>3, <2>4 DEF BudgetInv
  <1>5. ASSUME NEW p \in Procs, Rename(p) PROVE BudgetInv'
    <2>1. \A q \in Procs \ {p} : pc[q] = "idle"
      BY <1>5, OthersIdle DEF Rename
    <2>2. /\ pc[p] = "rename" /\ pc' = [pc EXCEPT ![p] = "fsync-dir"]
          /\ dir'.names = dir.names \cup {obj[p]} /\ dir'.staging = dir.staging - 1
          /\ survivors' = survivors \cup {dir'}
          /\ UNCHANGED <<data, obj>>
      BY <1>5 DEF Rename, Changes, Goes
    <2>3. obj[p] \in Journal /\ dir.staging > 0 /\ data[obj[p]] = "synced"
      BY <2>2 DEF StoreInv, Staged, Synced
    <2>4. /\ obj[p] \in Objects /\ obj[p] \notin dir.names
          /\ Bytes(dir) + Size[obj[p]] <= MaxTotalBytes
      BY <1>type, <1>reserved, <2>2, <2>3
    <2>5. /\ IsFiniteSet(dir'.names) /\ Cardinality(dir'.names) = Cardinality(dir.names) + 1
          /\ Bytes(dir') = Bytes(dir) + Size[obj[p]]
      <3>1. /\ IsFiniteSet(dir.names \cup {obj[p]})
            /\ Cardinality(dir.names \cup {obj[p]}) = Cardinality(dir.names) + 1
        BY <1>dir, <2>4, FS_AddElement
      <3>2. Bytes(dir') = Bytes(dir) + Size[obj[p]]
        BY <1>dir, <2>2, <2>4, BytesGrow
      <3> QED BY <2>2, <3>1, <3>2
    <2>6. Entries(dir') <= MaxObjects /\ Bytes(dir') <= MaxTotalBytes
      BY <1>dir, <2>2, <2>3, <2>4, <2>5 DEF Entries
    <2>7. NamesOnlyCome' /\ WithinBudgets'
      BY <1>dir, <2>2, <2>3, <2>5, <2>6, DirectoryChanges
    <2>8. Reserved'
      BY <1>type, <2>1, <2>2 DEF Reserved
    <2> QED BY <2>7, <2>8 DEF BudgetInv
  <1>6. ASSUME NEW p \in Procs, FsyncDir(p) PROVE BudgetInv'
    <2>1. \A q \in Procs \ {p} : pc[q] = "idle"
      BY <1>6, OthersIdle DEF FsyncDir
    <2>2. /\ pc' = [pc EXCEPT ![p] = "verify"] /\ survivors' = {dir}
          /\ UNCHANGED <<dir, data, obj>>
      BY <1>6 DEF FsyncDir, Goes
    <2>3. NamesOnlyCome' /\ WithinBudgets'
      BY <1>dir, <2>2 DEF NamesOnlyCome, WithinBudgets
    <2>4. Reserved'
      BY <1>type, <2>1, <2>2 DEF Reserved
    <2> QED BY <2>3, <2>4 DEF BudgetInv
  <1>7. ASSUME NEW p \in Procs, Return(p) PROVE BudgetInv'
    <2>1. \A q \in Procs \ {p} : pc[q] = "idle"
      BY <1>7, OthersIdle DEF Return
    <2>2. pc' = [pc EXCEPT ![p] = "idle"] /\ UNCHANGED <<dir, survivors, data, obj>>
      BY <1>7 DEF Return, Leaves, Goes
    <2>3. Reserved'
      BY <1>type, <2>1, <2>2 DEF Reserved
    <2> QED BY <1>same, <2>2, <2>3 DEF BudgetInv
  <1>8. ASSUME NEW p \in Procs, Fails(p) \/ Dies(p) PROVE BudgetInv'
    <2>1. \A q \in Procs \ {p} : pc[q] = "idle"
      BY <1>8, OthersIdle DEF Fails, Dies
    <2>2. /\ pc' = [pc EXCEPT ![p] = "idle"] /\ UNCHANGED <<data, obj>>
          /\ \/ UNCHANGED <<dir, survivors>>
             \/ /\ obj[p] \in Journal /\ pc[p] \in {"write", "fsync", "rename"}
                /\ dir' = [dir EXCEPT !.staging = @ - 1]
                /\ survivors' = survivors \cup {dir'}
      BY <1>8 DEF Fails, Dies, Changes, Leaves, Goes, results
    <2>3. Reserved'
      BY <1>type, <2>1, <2>2 DEF Reserved
    <2>4. CASE UNCHANGED <<dir, survivors>>
      BY <1>same, <2>2, <2>3, <2>4 DEF BudgetInv
    <2>5. CASE ~ UNCHANGED <<dir, survivors>>
      <3>1. /\ dir'.names = dir.names /\ dir'.staging = dir.staging - 1
            /\ survivors' = survivors \cup {dir'}
        BY <1>type, <2>2, <2>5 DEF Directory
      <3>2. Entries(dir') <= MaxObjects /\ Bytes(dir') = Bytes(dir)
        BY <1>dir, <1>const, <3>1, BytesType DEF Entries
      <3>3. NamesOnlyCome' /\ WithinBudgets'
        BY <1>dir, <2>2, <3>1, <3>2, DirectoryChanges
      <3> QED BY <2>3, <3>3 DEF BudgetInv
    <2> QED BY <2>4, <2>5
  <1>9. CASE PowerLoss
    <2>1. /\ dir' \in survivors /\ survivors' = {dir'}
          /\ \A o \in Objects : data[o] # "written" => data'[o] = data[o]
          /\ pc' = [p \in Procs |-> "idle"]
      BY <1>9 DEF PowerLoss
    <2>2. \A o \in dir'.names \cap Journal : data'[o] = "synced"
      BY <1>type, <2>1 DEF BudgetInv, NamesOnlyCome, Directory
    <2>3. NamesOnlyCome'
      BY <2>1, <2>2 DEF NamesOnlyCome
    <2>4. IsFiniteSet(dir'.names) /\ Entries(dir') <= MaxObjects /\ Bytes(dir') <= MaxTotalBytes
      BY <2>1 DEF BudgetInv, WithinBudgets
    <2>5. WithinBudgets' /\ Reserved'
      BY <2>1, <2>4 DEF WithinBudgets, Reserved
    <2> QED BY <2>3, <2>5 DEF BudgetInv
  <1>10. CASE UNCHANGED vars
    BY <1>10 DEF vars, BudgetInv, NamesOnlyCome, WithinBudgets, Reserved
  <1> QED
    BY <1>1, <1>2, <1>3, <1>4, <1>5, <1>6, <1>7, <1>8, <1>9, <1>10 DEF Next, Steps

\* Whatever crashes and failures came before, and whatever remnants they left,
\* the store refuses its readers only over a torn object created in place: the
\* budgets hold in every directory that a power loss may leave, for any sizes,
\* and no name of a journal object ever stands for bytes that are not whole.
THEOREM OnlyTornInPlaceRefuses == Spec => []RefusesOnlyTornInPlace
  <1>1. StoreInv /\ BudgetInv => RefusesOnlyTornInPlace
    <2> SUFFICES ASSUME StoreInv, BudgetInv, ~ScanAccepts
                 PROVE  \E o \in dir.names \ Journal : data[o] = "torn"
      BY DEF RefusesOnlyTornInPlace
    <2>1. PICK o \in dir.names : data[o] = "torn"
      BY Visible DEF ScanAccepts
    <2> QED BY <2>1, Visible
  <1> QED BY <1>1, Invariance, BudgetInit, BudgetStep, PTL DEF Spec
=============================================================================
