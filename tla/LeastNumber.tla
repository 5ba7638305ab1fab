---------------------------- MODULE LeastNumber -----------------------------
(***************************************************************************)
(* The least element of a set of natural numbers, which stands in for      *)
(* induction in the proofs that need one.  It comes from the theorem that  *)
(* finite sets are well founded under inclusion.                           *)
(***************************************************************************)
EXTENDS Integers, FiniteSetTheorems, TLAPS

\* A set of natural numbers has a least element.
LEMMA LeastNatural ==
    ASSUME NEW M \in SUBSET Nat, M # {}
    PROVE  \E n \in M : \A m \in M : n <= m
<1> DEFINE Up(n) == 0 .. n
           T == {Up(n) : n \in M}
<1>1. IsWellFoundedOn(StrictSubsetOrdering(Nat), FiniteSubsetsOf(Nat))
    BY FS_StrictSubsetOrderingWellFounded
<1>2. T \subseteq FiniteSubsetsOf(Nat) /\ T # {}
    <2>1. \A n \in M : IsFiniteSet(0 .. n) /\ 0 .. n \in SUBSET Nat
        BY FS_Interval
    <2> QED BY <2>1 DEF FiniteSubsetsOf
<1>3. PICK s \in T : \A t \in T : ~ (<<t, s>> \in StrictSubsetOrdering(Nat))
    <2> HIDE DEF T
    <2> QED BY <1>1, <1>2, WFMin
<1>4. PICK n \in M : s = Up(n)
    OBVIOUS
<1>5. ASSUME NEW m \in M, m < n PROVE FALSE
    <2>1. Up(m) \in SUBSET Nat /\ Up(n) \in SUBSET Nat /\ Up(m) \subseteq Up(n)
        BY <1>5
    <2>2. n \in Up(n) /\ n \notin Up(m)
        BY <1>5
    <2>3. <<Up(m), Up(n)>> \in StrictSubsetOrdering(Nat)
        BY <2>1, <2>2 DEF StrictSubsetOrdering
    <2> QED BY <1>3, <1>4, <2>3
<1> QED BY <1>5
=============================================================================
