------------------------------- MODULE NatSets ------------------------------
(***************************************************************************)
(* Induction over the naturals, and the last place of a list, stated for   *)
(* sets: a theorem about every predicate cannot be instantiated by the     *)
(* provers.  Both follow from the fact that there is no infinite           *)
(* descending chain of finite sets.                                        *)
(***************************************************************************)
EXTENDS Naturals, TLAPS

FST == INSTANCE FiniteSetTheorems

\* Induction, for sets of naturals: there is no descending chain of intervals.
LEMMA SetInduction ==
  ASSUME NEW S \in SUBSET Nat, 0 \in S, \A n \in S : n + 1 \in S
  PROVE  S = Nat
<1> DEFINE T == {0 .. x - 1 : x \in Nat \ S}
           R == FST!StrictSubsetOrdering(Nat)
           F == FST!FiniteSubsetsOf(Nat)
<1> SUFFICES ASSUME Nat \ S # {} PROVE FALSE
  OBVIOUS
<1>1. \E s \in T : \A t \in T : <<t, s>> \notin R
  <2>1. FST!IsWellFoundedOn(R, F)
    BY FST!FS_StrictSubsetOrderingWellFounded
  <2>2. ASSUME NEW x \in Nat PROVE 0 .. x - 1 \in F
    <3>1. FST!IsFiniteSet(0 .. x - 1)
      BY FST!FS_Interval
    <3> QED BY <3>1 DEF FST!FiniteSubsetsOf
  <2>3. T # {} /\ T \subseteq F
    BY <2>2
  <2> HIDE DEF R, T, F
  <2> QED BY FST!WFMin, <2>1, <2>2, <2>3
<1>2. PICK x \in Nat \ S : \A y \in Nat \ S : <<0 .. y - 1, 0 .. x - 1>> \notin R
  BY <1>1
<1>3. x - 1 \in Nat \ S
  OBVIOUS
<1>4. <<0 .. x - 1 - 1, 0 .. x - 1>> \in R
  BY <1>3 DEF FST!StrictSubsetOrdering
<1> QED BY <1>2, <1>3, <1>4

\* Of some places in a list one is the last: the rest of the list is shortest.
LEMMA LastPlace ==
  ASSUME NEW n \in Nat, NEW S \in SUBSET (1 .. n), S # {}
  PROVE  \E k \in S : \A j \in S : j <= k
<1> DEFINE T == {1 .. n - k : k \in S}
           R == FST!StrictSubsetOrdering(Nat)
           F == FST!FiniteSubsetsOf(Nat)
<1>1. \E s \in T : \A t \in T : <<t, s>> \notin R
  <2>1. FST!IsWellFoundedOn(R, F)
    BY FST!FS_StrictSubsetOrderingWellFounded
  <2>2. ASSUME NEW k \in S PROVE 1 .. n - k \in F
    <3>1. FST!IsFiniteSet(1 .. n - k) /\ 1 .. n - k \subseteq Nat
      BY FST!FS_Interval
    <3> QED BY <3>1 DEF FST!FiniteSubsetsOf
  <2>3. T # {} /\ T \subseteq F
    BY <2>2
  <2> HIDE DEF R, T, F
  <2> QED BY FST!WFMin, <2>1, <2>2, <2>3
<1>2. PICK k \in S : \A j \in S : <<1 .. n - j, 1 .. n - k>> \notin R
  BY <1>1
<1>3. ASSUME NEW j \in S, j > k PROVE FALSE
  <2>1. 1 .. n - j \subseteq 1 .. n - k /\ n - k \in 1 .. n - k /\ n - k \notin 1 .. n - j
    BY <1>3
  <2>2. <<1 .. n - j, 1 .. n - k>> \in R
    BY <2>1 DEF FST!StrictSubsetOrdering
  <2> QED BY <1>2, <2>2
<1>4. \A j \in S : j <= k
  BY <1>3
<1> QED BY <1>4
=============================================================================
