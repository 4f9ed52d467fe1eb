---------------------------- MODULE LeastNumber ----------------------------
(***************************************************************************)
(* The least-number principle for sets of natural numbers, in a form that  *)
(* needs no operator as a parameter.  With it a proof can argue by the     *)
(* first number for which something fails.                                 *)
(***************************************************************************)
EXTENDS Integers, FiniteSetTheorems, WellFoundedInduction, TLAPS

\* Among some natural numbers one is the least.  A number is ordered like the
\* interval below it, and finite sets are well-founded under inclusion.
LEMMA LeastNumber ==
  ASSUME NEW T \in SUBSET Nat, T /= {}
  PROVE  \E m \in T : \A n \in T : m <= n
<1> DEFINE below == {0 .. n : n \in T}
           less == StrictSubsetOrdering(Nat)
<1>1. IsWellFoundedOn(less, FiniteSubsetsOf(Nat))
  BY FS_StrictSubsetOrderingWellFounded
<1>2. below \subseteq FiniteSubsetsOf(Nat)
  <2>1. ASSUME NEW n \in T
        PROVE  0 .. n \in FiniteSubsetsOf(Nat)
    <3>1. IsFiniteSet(0 .. n)
      BY FS_Interval
    <3>2. QED BY <3>1 DEF FiniteSubsetsOf
  <2>2. QED BY <2>1
<1>3. below /= {}
  OBVIOUS
<1>4. PICK s \in below : \A t \in below : ~ (<<t, s>> \in less)
  <2> HIDE DEF below, less
  <2>1. QED BY <1>1, <1>2, <1>3, WFMin
<1>5. PICK m \in T : s = 0 .. m
  OBVIOUS
<1>6. ASSUME NEW n \in T, n < m
      PROVE  FALSE
  <2>1. 0 .. n \subseteq 0 .. m /\ m \in 0 .. m /\ m \notin 0 .. n
    BY <1>6
  <2>2. 0 .. n \in SUBSET Nat /\ 0 .. m \in SUBSET Nat
    OBVIOUS
  <2>3. <<0 .. n, 0 .. m>> \in less
    BY <2>1, <2>2 DEF StrictSubsetOrdering
  <2>4. QED BY <1>4, <1>5, <2>3
<1>7. QED BY <1>6
=============================================================================
