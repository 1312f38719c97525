------------------------------- MODULE Extrema -------------------------------
(***************************************************************************)
(* That the Min and Max of a set of naturals are members of it and bound   *)
(* it.  The models use Min for the next peer of a loop and Max for the     *)
(* last record of a key, the length of the good part of a log and the      *)
(* highest sequence number.  The existence proofs go by least elements,    *)
(* which well-foundedness of < on Nat provides.                            *)
(***************************************************************************)
EXTENDS Integers, FiniteSetsExt, FiniteSetTheorems, TLAPS

\* A non-empty set of naturals has a least element.
LEMMA LeastExists ==
    ASSUME NEW S \in SUBSET Nat, S # {}
    PROVE  \E x \in S : \A y \in S : x <= y
<1> DEFINE R == OpToRel(<, Nat)
<1>1. IsWellFoundedOn(R, Nat)
  BY NatLessThanWellFounded
<1>2. PICK x \in S : \A y \in S : ~ (<<y, x>> \in R)
  <2> HIDE DEF R
  <2> QED BY <1>1, WFMin
<1>3. \A y \in S : ~ (y < x)
  BY <1>2 DEF OpToRel
<1> QED BY <1>3

\* A set that holds 0, and each number up to N if it holds the number before
\* it, holds all of them: what is true before the first turn of a loop, and
\* after each turn if it was true before that turn, is true after the last.
LEMMA EveryTurn ==
    ASSUME NEW N \in Nat, NEW T \in SUBSET Nat, 0 \in T,
           \A n \in 1..N : n - 1 \in T => n \in T
    PROVE  \A n \in 0..N : n \in T
<1> DEFINE S == {n \in 0..N : n \notin T}
<1> SUFFICES ASSUME S # {} PROVE FALSE
  OBVIOUS
<1>1. PICK x \in S : \A y \in S : x <= y
  <2> S \in SUBSET Nat OBVIOUS
  <2> HIDE DEF S
  <2> QED BY LeastExists
<1>2. x \in 1..N /\ x - 1 \in 0..N
  BY <1>1
<1>3. x - 1 \in T
  BY <1>1, <1>2
<1> QED BY <1>1, <1>2, <1>3

\* Min of a non-empty set of naturals is its least element.
LEMMA MinIsLeast ==
    ASSUME NEW S \in SUBSET Nat, S # {}
    PROVE  Min(S) \in S /\ \A y \in S : Min(S) <= y
  BY LeastExists DEF Min

\* A non-empty set of naturals with an upper bound has a greatest element.
LEMMA MaxOfBounded ==
    ASSUME NEW S \in SUBSET Nat, S # {}, NEW n \in Nat, \A y \in S : y <= n
    PROVE  Max(S) \in S /\ \A y \in S : y <= Max(S)
<1> DEFINE T == {m \in Nat : \A y \in S : y <= m}
<1>1. PICK b \in T : \A m \in T : b <= m
  <2> T \in SUBSET Nat /\ T # {} OBVIOUS
  <2> HIDE DEF T
  <2> QED BY LeastExists
<1>2. b \in S
  <2> SUFFICES ASSUME b \notin S PROVE FALSE OBVIOUS
  <2>1. PICK y \in S : TRUE OBVIOUS
  <2>2. b - 1 \in T BY <2>1
  <2> QED BY <1>1, <2>2
<1>3. \E x \in S : \A y \in S : x >= y
  BY <1>1, <1>2
<1> QED BY <1>3 DEF Max

\* A finite set of naturals has an upper bound.  Otherwise the map of each
\* element to the next larger one would be an injection of the set into the
\* set without its least element.
LEMMA FiniteIsBounded ==
    ASSUME NEW S \in SUBSET Nat, IsFiniteSet(S)
    PROVE  \E n \in Nat : \A y \in S : y <= n
<1> SUFFICES ASSUME S # {}, \A n \in Nat : \E y \in S : y > n PROVE FALSE
  OBVIOUS
<1> DEFINE above(s) == {y \in S : y > s}
           succ == [s \in S |-> Min(above(s))]
           T == S \ {Min(S)}
<1>1. \A s \in S : succ[s] \in S /\ succ[s] > s /\ \A y \in S : y > s => succ[s] <= y
  <2> TAKE s \in S
  <2>1. above(s) \in SUBSET Nat /\ above(s) # {} OBVIOUS
  <2>2. Min(above(s)) \in above(s) /\ \A y \in above(s) : Min(above(s)) <= y
    <3> HIDE DEF above
    <3> QED BY <2>1, MinIsLeast
  <2> QED BY <2>2
<1>2. Min(S) \in S /\ \A y \in S : Min(S) <= y
  BY MinIsLeast
<1> HIDE DEF above
<1>3. \A s \in S : succ[s] \in T
  <2> TAKE s \in S
  <2> DEFINE n == succ[s]
  <2>1. n \in S /\ n > s /\ Min(S) <= s /\ s \in Nat /\ n \in Nat /\ Min(S) \in Nat
    BY <1>1, <1>2
  <2> HIDE DEF n
  <2>2. n # Min(S) BY <2>1
  <2> QED BY <2>1, <2>2 DEF n
<1>4. succ \in [S -> T]
  BY <1>3
<1>5. IsFiniteSet(T) /\ Cardinality(T) = Cardinality(S) - 1
  BY <1>2, FS_RemoveElement
<1>6. Cardinality(S) \in Nat
  BY FS_CardinalityType
<1> HIDE DEF succ, T
<1>7. Cardinality(T) < Cardinality(S)
  BY <1>5, <1>6
<1>8. PICK x \in S, y \in S : x # y /\ succ[x] = succ[y]
  BY <1>4, <1>5, <1>7, FS_PigeonHole
<1>9. /\ x \in Nat /\ y \in Nat /\ succ[x] \in Nat /\ succ[x] > x /\ succ[x] > y
      /\ y > x => succ[x] <= y
      /\ x > y => succ[x] <= x
  BY <1>1, <1>8
<1> QED BY <1>8, <1>9

\* Max of a finite non-empty set of naturals is its greatest element.
LEMMA MaxIsGreatest ==
    ASSUME NEW S \in SUBSET Nat, S # {}, IsFiniteSet(S)
    PROVE  Max(S) \in S /\ \A y \in S : y <= Max(S)
  BY FiniteIsBounded, MaxOfBounded
=============================================================================
