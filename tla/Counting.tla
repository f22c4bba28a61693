------------------------------ MODULE Counting -------------------------------
(***************************************************************************)
(* How many elements of a sequence have a property, as the cardinality of  *)
(* the set of their positions, and how that number changes when the        *)
(* sequence is appended to or read from.                                   *)
(***************************************************************************)
EXTENDS Integers, Sequences, FiniteSets, FiniteSetTheorems, TLAPS

\* The positions of a sequence that hold an element of M
Positions(q, M) == {i \in DOMAIN q : q[i] \in M}

\* The positions are finitely many.
LEMMA PositionsFinite ==
  ASSUME NEW S, NEW q \in Seq(S), NEW M
  PROVE  IsFiniteSet(Positions(q, M)) /\ Cardinality(Positions(q, M)) \in Nat
<1>1. IsFiniteSet(1..Len(q)) /\ Positions(q, M) \in SUBSET (1..Len(q))
  BY FS_Interval DEF Positions
<1>2. IsFiniteSet(Positions(q, M))
  BY <1>1, FS_Subset
<1> QED BY <1>2, FS_CardinalityType

\* An empty sequence counts nothing.
LEMMA CountEmpty ==
  ASSUME NEW M
  PROVE  Cardinality(Positions(<< >>, M)) = 0
<1>1. Positions(<< >>, M) = {}
  BY DEF Positions
<1> QED BY <1>1, FS_EmptySet

\* Appending counts the element appended.
LEMMA CountAppend ==
  ASSUME NEW S, NEW q \in Seq(S), NEW m \in S, NEW M
  PROVE  Cardinality(Positions(Append(q, m), M)) =
           Cardinality(Positions(q, M)) + IF m \in M THEN 1 ELSE 0
<1> DEFINE n == Len(q) + 1
<1>1. IsFiniteSet(Positions(q, M))
  BY PositionsFinite
<1>2. CASE m \in M
  <2>1. Positions(Append(q, m), M) = Positions(q, M) \cup {n} /\ n \notin Positions(q, M)
    BY <1>2 DEF Positions
  <2> QED BY <1>1, <1>2, <2>1, FS_AddElement
<1>3. CASE m \notin M
  <2>1. Positions(Append(q, m), M) = Positions(q, M)
    BY <1>3 DEF Positions
  <2> QED BY <1>1, <1>3, <2>1, FS_CardinalityType
<1> QED BY <1>2, <1>3

\* Reading the front discounts the element read.
LEMMA CountTail ==
  ASSUME NEW S, NEW q \in Seq(S), q # << >>, NEW M
  PROVE  Cardinality(Positions(Tail(q), M)) =
           Cardinality(Positions(q, M)) - IF Head(q) \in M THEN 1 ELSE 0
<1> DEFINE P == Positions(q, M) \ {1}
           T == Positions(Tail(q), M)
           f == [i \in P |-> i - 1]
<1>1. IsFiniteSet(Positions(q, M)) /\ Cardinality(Positions(q, M)) \in Nat
  BY PositionsFinite
<1>2. /\ IsFiniteSet(P)
      /\ Cardinality(P) = Cardinality(Positions(q, M)) - IF Head(q) \in M THEN 1 ELSE 0
  <2>1. 1 \in Positions(q, M) <=> Head(q) \in M
    BY DEF Positions
  <2> QED BY <1>1, <2>1, FS_RemoveElement
<1>3. P \subseteq Int /\ T \subseteq Int
  BY DEF Positions
<1>4. \A i \in P : i - 1 \in T
  BY DEF Positions
<1>5. \A j \in T : j + 1 \in P /\ (j + 1) - 1 = j
  BY DEF Positions
<1>6. f \in Bijection(P, T)
  <2> HIDE DEF P, T
  <2>1. f \in [P -> T]
    BY <1>4
  <2>2. \A a, b \in P : f[a] = f[b] => a = b
    BY <1>3
  <2>3. \A j \in T : \E i \in P : f[i] = j
    BY <1>5
  <2> QED BY <2>1, <2>2, <2>3 DEF Bijection, Injection, Surjection, IsInjective
<1>7. ExistsBijection(P, T)
  BY <1>6 DEF ExistsBijection
<1>8. Cardinality(T) = Cardinality(P)
  BY <1>2, <1>7, FS_Bijection
<1> QED BY <1>2, <1>8
============================================================================
