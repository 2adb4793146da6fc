-------------------------- MODULE InductionLemmas --------------------------
(***************************************************************************)
(* Induction over the naturals in a form that first-order provers can use:   *)
(* what is proved by induction is membership in a set, never an operator.    *)
(* The other proof modules use it for what a recursive function computes     *)
(* and for minimal elements.                                                *)
(***************************************************************************)
EXTENDS Integers, FiniteSetTheorems, TLAPS

(* A set of naturals that is not empty has a least element. *)
LEMMA LeastElement ==
  ASSUME NEW T \in SUBSET Nat, T # {}
  PROVE  \E m \in T : \A k \in T : m <= k
<1> DEFINE R == OpToRel(<, Nat)
<1>1. IsWellFoundedOn(R, Nat)
  BY NatLessThanWellFounded
<1>2. PICK m \in T : \A k \in T : ~(<<k, m>> \in R)
  <2> HIDE DEF R
  <2> QED BY <1>1, WFMin
<1>3. \A k \in T : ~(k < m)
  BY <1>2 DEF OpToRel
<1> QED BY <1>3

(* A set that holds 0, and n + 1 whenever it holds n, holds the naturals. *)
LEMMA Induct ==
  ASSUME NEW T, 0 \in T, \A n \in Nat : n \in T => n + 1 \in T
  PROVE  Nat \subseteq T
<1> SUFFICES ASSUME Nat \ T # {} PROVE FALSE
  OBVIOUS
<1>1. PICK m \in Nat \ T : \A k \in Nat \ T : m <= k
  BY LeastElement
<1>2. m - 1 \in Nat /\ m - 1 \in T
  BY <1>1
<1> QED BY <1>2

(* The same up to N. *)
LEMMA InductTo ==
  ASSUME NEW N \in Nat, NEW T, 0 \in T, \A n \in 0 .. N - 1 : n \in T => n + 1 \in T
  PROVE  0 .. N \subseteq T
<1> DEFINE U == {n \in Nat : n <= N => n \in T}
<1>1. 0 \in U
  OBVIOUS
<1>2. ASSUME NEW n \in Nat, n \in U PROVE n + 1 \in U
  BY <1>2
<1> HIDE DEF U
<1>3. Nat \subseteq U
  BY <1>1, <1>2, Induct
<1> QED BY <1>3 DEF U

(* A set that holds a part of S whenever it holds the smaller parts of that    *)
(* part holds all parts of S, if S is finite.                                *)
LEMMA InductParts ==
  ASSUME NEW S, IsFiniteSet(S), NEW T,
         \A s \in SUBSET S : (\A r \in SUBSET s : r # s => r \in T) => s \in T
  PROVE  SUBSET S \subseteq T
<1> DEFINE U == (SUBSET S) \ T
<1> SUFFICES ASSUME U # {} PROVE FALSE
  OBVIOUS
<1>1. IsWellFoundedOn(StrictSubsetOrdering(S), SUBSET S)
  <2>1. FiniteSubsetsOf(S) = SUBSET S
    BY FS_FiniteSubsetsOfFinite
  <2>2. IsWellFoundedOn(StrictSubsetOrdering(S), FiniteSubsetsOf(S))
    BY FS_StrictSubsetOrderingWellFounded, Zenon
  <2> QED BY <2>1, <2>2
<1>2. U \subseteq SUBSET S
  OBVIOUS
<1>3. PICK s \in U : \A r \in U : ~(<<r, s>> \in StrictSubsetOrdering(S))
  <2> HIDE DEF U
  <2> QED BY <1>1, <1>2, WFMin
<1>4. \A r \in SUBSET s : r # s => r \in T
  <2> SUFFICES ASSUME NEW r \in SUBSET s, r # s, r \notin T PROVE FALSE
    OBVIOUS
  <2>1. r \in U /\ <<r, s>> \in StrictSubsetOrdering(S)
    BY DEF StrictSubsetOrdering
  <2> QED BY <1>3, <2>1
<1> QED BY <1>3, <1>4

=============================================================================
