------------------------------ MODULE Counting ------------------------------
(***************************************************************************)
(* The limits this system promises are counts: of drivers at a statement,  *)
(* of rows of a table.  A step moves one element in or out of the set      *)
(* counted; these lemmas say what that does to the count.                  *)
(***************************************************************************)
EXTENDS Integers, FiniteSets, FiniteSetTheorems, TLAPS

\* 1 for a member, 0 otherwise.
Share(x, S) == IF x \in S THEN 1 ELSE 0

\* A subset of a finite set has a count, no greater than the set's.
LEMMA CountSubset ==
  ASSUME NEW S, IsFiniteSet(S), NEW A \in SUBSET S
  PROVE  /\ IsFiniteSet(A) /\ Cardinality(A) \in Nat /\ Cardinality(S) \in Nat
         /\ Cardinality(A) <= Cardinality(S)
  BY FS_Subset, FS_CardinalityType

\* A set with an element missing counts less than the whole.
LEMMA CountProperSubset ==
  ASSUME NEW S, IsFiniteSet(S), NEW A \in SUBSET S, NEW x \in S, x \notin A
  PROVE  Cardinality(A) < Cardinality(S)
<1>1. /\ Cardinality(A) \in Nat /\ Cardinality(S) \in Nat
      /\ Cardinality(A) <= Cardinality(S)
  BY CountSubset
<1>2. Cardinality(S) # Cardinality(A)
  BY FS_Subset
<1>. QED
  BY <1>1, <1>2

\* Sets that differ in one element only differ by that element's share.
LEMMA CountMove ==
  ASSUME NEW A, NEW B, NEW x, IsFiniteSet(A), A \ {x} = B \ {x}
  PROVE  /\ IsFiniteSet(B) /\ Cardinality(A) \in Nat /\ Cardinality(B) \in Nat
         /\ Cardinality(B) = Cardinality(A) - Share(x, A) + Share(x, B)
<1> DEFINE C == A \ {x}
<1>1. IsFiniteSet(C) /\ Cardinality(C) = Cardinality(A) - Share(x, A)
  BY FS_RemoveElement, FS_CardinalityType DEF Share
<1>2. x \notin C /\ B = IF x \in B THEN C \cup {x} ELSE C
  OBVIOUS
<1>3. IsFiniteSet(B) /\ Cardinality(B) = Cardinality(C) + Share(x, B)
  <2>1. CASE x \in B
    <3>1. B = C \cup {x}
      BY <1>2, <2>1
    <3>2. IsFiniteSet(C \cup {x}) /\ Cardinality(C \cup {x}) = Cardinality(C) + 1
      BY <1>1, <1>2, FS_AddElement
    <3>. QED
      BY <2>1, <3>1, <3>2 DEF Share
  <2>2. CASE x \notin B
    <3>1. B = C
      BY <1>2, <2>2
    <3>. QED
      BY <1>1, <2>2, <3>1, FS_CardinalityType DEF Share
  <2>. QED
    BY <2>1, <2>2
<1>. QED
  BY <1>1, <1>3, FS_CardinalityType
=============================================================================
