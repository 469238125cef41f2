----------------------------- MODULE ConsumeOnce -----------------------------
(***************************************************************************)
(* What the permit consumption ledger promises its callers, with no file,  *)
(* lock or process in sight: an identifier is burned before any caller is  *)
(* told that it was consumed, at most one caller is ever told so, and only *)
(* an identifier nobody was told about may become unburned again (a crash  *)
(* dropped it).  docs/permit-consumption-ledger.md: "rejects replay across *)
(* both the permit and optional single-use UUID fields".                   *)
(***************************************************************************)
EXTENDS Naturals

CONSTANT Ids        \* permit and single-use UUIDs, one name space

VARIABLES
    spent,          \* identifiers a reader of the ledger finds consumed
    uses            \* [id -> number of callers told "you consumed it"]

onceVars == <<spent, uses>>

TypeOK ==
    /\ spent \subseteq Ids
    /\ uses \in [Ids -> Nat]

Init ==
    /\ spent = {}
    /\ uses = [i \in Ids |-> 0]

\* The identifiers of one permit become visible as consumed.
Burn(S) ==
    /\ S \cap spent = {}
    /\ spent' = spent \cup S
    /\ UNCHANGED uses

\* One caller learns that its permit was consumed.
Honour(S) ==
    /\ S \subseteq spent
    /\ \A i \in S : uses[i] = 0
    /\ uses' = [i \in Ids |-> uses[i] + (IF i \in S THEN 1 ELSE 0)]
    /\ UNCHANGED spent

\* A crash drops identifiers that no caller was told about.
Forget(S) ==
    /\ \A i \in S : uses[i] = 0
    /\ spent' = spent \ S
    /\ UNCHANGED uses

Next == \E S \in SUBSET Ids : Burn(S) \/ Honour(S) \/ Forget(S)

Spec == Init /\ [][Next]_onceVars
=============================================================================
