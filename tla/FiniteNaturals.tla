--------------------------- MODULE FiniteNaturals ---------------------------
(***************************************************************************)
(* Facts about sets of natural numbers that the proofs of several          *)
(* components rest on.  They take the place of induction: a property that  *)
(* fails for some number fails for a least one.                            *)
(***************************************************************************)
EXTENDS Naturals, FiniteSetTheorems, WellFoundedInduction, TLAPS

\* A set of natural numbers that is not empty has a least element.
LEMMA NatMin ==
  ASSUME NEW T \in SUBSET Nat, T # {}
  PROVE  \E m \in T : \A n \in T : m <= n
<1> DEFINE R == {p \in Nat \X Nat : p[1] < p[2]}
<1>1. IsWellFoundedOn(R, Nat)
  BY NatLessThanWellFounded DEF OpToRel
<1>2. \A m, n \in Nat : <<n, m>> \notin R => m <= n
  OBVIOUS
<1> HIDE DEF R
<1>3. PICK m \in T : \A n \in T : <<n, m>> \notin R
  BY <1>1, WFMin
<1> QED
  BY <1>2, <1>3

\* A bounded one has a greatest element.
LEMMA NatMax ==
  ASSUME NEW T \in SUBSET Nat, T # {}, NEW b \in Nat, \A n \in T : n <= b
  PROVE  \E m \in T : \A n \in T : n <= m
<1> DEFINE Bounds == {m \in Nat : \A n \in T : n <= m}
<1>1. PICK m \in Bounds : \A n \in Bounds : m <= n
  <2>1. b \in Bounds
    OBVIOUS
  <2> HIDE DEF Bounds
  <2>2. Bounds \in SUBSET Nat
    BY DEF Bounds
  <2> QED
    BY <2>1, <2>2, NatMin
<1>2. m \in T
  <2> SUFFICES ASSUME m \notin T PROVE FALSE
    OBVIOUS
  <2>1. PICK n \in T : TRUE
    OBVIOUS
  <2>2. m - 1 \in Bounds
    BY <2>1
  <2> QED
    BY <1>1, <2>2
<1> QED
  BY <1>1, <1>2

\* The elements of a finite set of natural numbers can be listed in their order.
LEMMA EnumerationExists ==
  ASSUME NEW S \in SUBSET Nat, IsFiniteSet(S)
  PROVE  \E s \in [1..Cardinality(S) -> S] : \A k, l \in DOMAIN s : k < l => s[k] < s[l]
<1> DEFINE Enum(U) == \E s \in [1..Cardinality(U) -> U] :
                         \A k, l \in DOMAIN s : k < l => s[k] < s[l]
           Bad == {Cardinality(U) : U \in {V \in SUBSET Nat : IsFiniteSet(V) /\ ~Enum(V)}}
<1> SUFFICES ASSUME ~Enum(S) PROVE FALSE
  OBVIOUS
<1>1. Bad \in SUBSET Nat /\ Bad # {}
  BY FS_CardinalityType
<1> HIDE DEF Bad
<1>2. PICK n \in Bad : \A k \in Bad : n <= k
  BY <1>1, NatMin
<1>3. PICK U \in SUBSET Nat : IsFiniteSet(U) /\ ~Enum(U) /\ Cardinality(U) = n
  BY DEF Bad
<1>4. U # {}
  <2> SUFFICES ASSUME U = {} PROVE FALSE
    OBVIOUS
  <2>1. Cardinality(U) = 0
    BY FS_EmptySet
  <2>2. 1..Cardinality(U) = {}
    BY <2>1
  <2>3. [x \in {} |-> x] \in [1..Cardinality(U) -> U]
    BY <2>2
  <2> QED
    BY <1>3, <2>2, <2>3
<1>5. PICK m \in U : \A x \in U : m <= x
  BY <1>4, NatMin
<1> DEFINE V == U \ {m}
<1>6. IsFiniteSet(V) /\ Cardinality(V) = n - 1 /\ n \in Nat /\ V \in SUBSET Nat
  BY <1>1, <1>3, FS_RemoveElement
<1>7. Enum(V)
  <2> SUFFICES ASSUME ~Enum(V) PROVE FALSE
    OBVIOUS
  <2>1. n - 1 \in Bad
    BY <1>6 DEF Bad
  <2> QED
    BY <1>1, <1>2, <2>1
<1>8. n \in Nat \ {0}
  BY <1>1, <1>3, <1>4, FS_EmptySet
<1>9. PICK t \in [1..n-1 -> V] : \A k, l \in DOMAIN t : k < l => t[k] < t[l]
  BY <1>6, <1>7
<1> DEFINE s == [i \in 1..n |-> IF i = 1 THEN m ELSE t[i - 1]]
<1>10. s \in [1..n -> U]
  BY <1>8, <1>9
<1>11. \A k, l \in 1..n : k < l => s[k] < s[l]
  <2> SUFFICES ASSUME NEW k \in 1..n, NEW l \in 1..n, k < l PROVE s[k] < s[l]
    OBVIOUS
  <2>1. l - 1 \in 1..n-1 /\ s[l] = t[l - 1]
    BY <1>8
  <2>2. CASE k = 1
    <3>1. t[l - 1] \in U /\ t[l - 1] # m /\ s[k] = m
      BY <2>1, <2>2, <1>9, <1>8
    <3>2. m \in Nat /\ t[l - 1] \in Nat /\ m <= t[l - 1]
      BY <3>1, <1>5
    <3>3. m < t[l - 1]
      BY <3>1, <3>2
    <3> QED
      BY <2>1, <3>1, <3>3
  <2>3. CASE k # 1
    BY <2>1, <2>3, <1>8, <1>9
  <2> QED
    BY <2>2, <2>3
<1> QED
  BY <1>3, <1>10, <1>11
=============================================================================
