-------------------------- MODULE LaneInboxSafety --------------------------
(***************************************************************************)
(* Theorems about LaneInbox that hold for any number of items and hook     *)
(* messages.                                                               *)
(*                                                                         *)
(* Items are their numbers, so that the inbox in order of arrival is a     *)
(* rising sequence: IInv.  A rising sequence is fixed by what it holds,    *)
(* and so is every part of it, which turns the planners, the comparison of *)
(* two plans and the refinement into statements about sets.  Effect says   *)
(* once what each step does to the items; the theorems follow from it.     *)
(***************************************************************************)
EXTENDS LaneInbox, FiniteSetTheorems, SequenceTheorems, TLAPS

-----------------------------------------------------------------------------
(* Parts of a sequence *)

Rising(s) == \A i, j \in 1..Len(s) : i < j => s[i] < s[j]

\* A finite set of numbers is counted off by the rank of its members ...
LEMMA RankProperties ==
    ASSUME NEW numbers \in SUBSET Nat, IsFiniteSet(numbers)
    PROVE  /\ \A n \in numbers : Rank(numbers, n) \in 1..Cardinality(numbers)
           /\ \A m, n \in numbers : m < n => Rank(numbers, m) < Rank(numbers, n)
<1> DEFINE Below(n) == {m \in numbers : m <= n}
<1>1. ASSUME NEW n \in numbers
      PROVE  /\ IsFiniteSet(Below(n)) /\ Cardinality(Below(n)) \in Nat
             /\ Cardinality(Below(n)) <= Cardinality(numbers)
             /\ n \in Below(n)
  <2>1. Below(n) \in SUBSET numbers /\ n \in Below(n)
    OBVIOUS
  <2>2. IsFiniteSet(Below(n)) /\ Cardinality(Below(n)) <= Cardinality(numbers)
    BY <2>1, FS_Subset
  <2> QED BY <2>1, <2>2, FS_CardinalityType
<1>2. Cardinality(numbers) \in Nat
  BY FS_CardinalityType
<1>3. ASSUME NEW n \in numbers PROVE Rank(numbers, n) \in 1..Cardinality(numbers)
  <2>1. Cardinality(Below(n)) # 0
    BY <1>1, FS_EmptySet
  <2> QED BY <1>1, <1>2, <2>1 DEF Rank
<1>4. ASSUME NEW m \in numbers, NEW n \in numbers, m < n
      PROVE  Rank(numbers, m) < Rank(numbers, n)
  <2>1. Below(m) \in SUBSET Below(n) /\ n \notin Below(m)
    <3>1. \A a, b, c \in Nat : (a < b /\ c <= a => c <= b) /\ (a < b => ~(b <= a))
      OBVIOUS
    <3>2. m \in Nat /\ n \in Nat /\ \A c \in numbers : c \in Nat
      OBVIOUS
    <3> QED BY <1>4, <3>1, <3>2
  <2>2. /\ Cardinality(Below(m)) <= Cardinality(Below(n))
        /\ Cardinality(Below(m)) # Cardinality(Below(n))
    BY <1>1, <2>1, FS_Subset
  <2> QED BY <1>1, <2>2 DEF Rank
<1> QED BY <1>3, <1>4

\* ... and every rank up to its size is taken.
LEMMA RankOnto ==
    ASSUME NEW numbers \in SUBSET Nat, IsFiniteSet(numbers)
    PROVE  \A k \in 1..Cardinality(numbers) : \E n \in numbers : Rank(numbers, n) = k
<1> DEFINE size == Cardinality(numbers)
           f == [n \in numbers |-> Rank(numbers, n)]
<1>1. size \in Nat
  BY FS_CardinalityType
<1>2. f \in Injection(numbers, 1..size)
  <2>1. f \in [numbers -> 1..size]
    BY RankProperties
  <2>2. ASSUME NEW m \in numbers, NEW n \in numbers, f[m] = f[n] PROVE m = n
    <3>1. Rank(numbers, m) = Rank(numbers, n) /\ m \in Nat /\ n \in Nat
      BY <2>2
    <3>2. Rank(numbers, m) \in Nat /\ Rank(numbers, n) \in Nat
      BY <1>1, RankProperties
    <3>3. ~(m < n) /\ ~(n < m)
      BY <3>1, <3>2, RankProperties
    <3> QED BY <3>1, <3>3
  <2> QED BY <2>1, <2>2 DEF Injection, IsInjective
<1>3. IsFiniteSet(1..size) /\ Cardinality(1..size) = size
  BY <1>1, FS_Interval
<1>4. f \in Surjection(numbers, 1..size)
  BY <1>2, <1>3, FS_Injection
<1> QED BY <1>4 DEF Surjection

\* The ascending list of a finite set is rising and holds exactly its members ...
LEMMA AscendingProperties ==
    ASSUME NEW numbers \in SUBSET Nat, IsFiniteSet(numbers)
    PROVE  /\ Ascending(numbers) \in Seq(numbers)
           /\ Len(Ascending(numbers)) = Cardinality(numbers)
           /\ Cardinality(numbers) \in Nat
           /\ Rising(Ascending(numbers))
           /\ Items(Ascending(numbers)) = numbers
           /\ \A k \in 1..Cardinality(numbers) :
                 Ascending(numbers)[k] \in numbers /\ Rank(numbers, Ascending(numbers)[k]) = k
<1> DEFINE size == Cardinality(numbers)
           s == Ascending(numbers)
<1>1. size \in Nat
  BY FS_CardinalityType
<1>2. ASSUME NEW k \in 1..size
      PROVE  s[k] \in numbers /\ Rank(numbers, s[k]) = k
  BY RankOnto DEF Ascending
<1>3. s \in Seq(numbers) /\ Len(s) = size
  <2>1. s \in [1..size -> numbers]
    BY <1>2 DEF Ascending
  <2>2. s \in Seq(numbers)
    BY <1>1, <2>1, SeqDef
  <2> QED BY <1>1, <2>1, <2>2, LenProperties
<1> HIDE DEF s
<1>4. Rising(s)
  <2>1. ASSUME NEW i \in 1..size, NEW j \in 1..size, i < j PROVE s[i] < s[j]
    <3>1. s[i] \in numbers /\ s[j] \in numbers /\ Rank(numbers, s[i]) = i /\ Rank(numbers, s[j]) = j
      BY <1>2
    <3>2. ~(s[j] < s[i]) /\ s[i] # s[j]
      <4>1. s[j] < s[i] => j < i
        BY <3>1, RankProperties
      <4>2. i \in Nat /\ j \in Nat /\ i < j
        BY <2>1
      <4> QED BY <3>1, <4>1, <4>2
    <3>3. s[i] \in Nat /\ s[j] \in Nat
      BY <3>1
    <3> QED BY <3>2, <3>3
  <2> QED BY <1>3, <2>1 DEF Rising
<1>5. Items(s) = numbers
  <2>1. Items(s) \subseteq numbers
    BY <1>2, <1>3 DEF Items
  <2>2. ASSUME NEW n \in numbers PROVE n \in Items(s)
    <3> DEFINE k == Rank(numbers, n)
    <3>1. k \in 1..size
      BY RankProperties
    <3> HIDE DEF k
    <3>2. s[k] \in numbers /\ Rank(numbers, s[k]) = k
      BY <1>2, <3>1
    <3>3. ~(s[k] < n) /\ ~(n < s[k])
      <4>1. Rank(numbers, s[k]) = Rank(numbers, n) /\ Rank(numbers, n) \in Nat
        BY <1>1, <3>1, <3>2 DEF k
      <4>2. /\ s[k] < n => Rank(numbers, s[k]) < Rank(numbers, n)
            /\ n < s[k] => Rank(numbers, n) < Rank(numbers, s[k])
        BY <3>2, RankProperties
      <4>3. \A a \in Nat : ~(a < a)
        OBVIOUS
      <4> QED BY <4>1, <4>2, <4>3
    <3>4. s[k] = n
      <4>1. s[k] \in Nat /\ n \in Nat
        BY <3>2
      <4> QED BY <3>3, <4>1
    <3> QED BY <1>3, <3>1, <3>4 DEF Items
  <2> QED BY <2>1, <2>2
<1> QED BY <1>1, <1>2, <1>3, <1>4, <1>5 DEF s

\* ... and there is only one rising list of them.
LEMMA AscendingUnique ==
    ASSUME NEW s \in Seq(Nat), Rising(s)
    PROVE  IsFiniteSet(Items(s)) /\ Items(s) \in SUBSET Nat /\ Ascending(Items(s)) = s
<1> DEFINE numbers == Items(s)
<1>1. Len(s) \in Nat /\ DOMAIN s = 1..Len(s) /\ \A i \in 1..Len(s) : s[i] \in Nat
  BY LenProperties, ElementOfSeq
<1>2. numbers \in SUBSET Nat /\ \A i \in 1..Len(s) : s[i] \in numbers
  BY <1>1 DEF Items
<1>3. \A i, j \in 1..Len(s) : s[i] <= s[j] <=> i <= j
  <2> TAKE i, j \in 1..Len(s)
  <2>1. (i < j => s[i] < s[j]) /\ (j < i => s[j] < s[i]) /\ (i = j => s[i] = s[j])
    BY DEF Rising
  <2>2. i \in Nat /\ j \in Nat /\ s[i] \in Nat /\ s[j] \in Nat
    BY <1>1
  <2> QED BY <2>1, <2>2
<1>4. ASSUME NEW n \in 0..Len(s)
      PROVE  /\ IsFiniteSet({s[j] : j \in 1..n})
             /\ Cardinality({s[j] : j \in 1..n}) = n
  <2> DEFINE T == {s[j] : j \in 1..n}
             g == [j \in 1..n |-> s[j]]
  <2>1. \A j \in 1..n : j \in 1..Len(s)
    BY <1>1
  <2>2. g \in Bijection(1..n, T)
    <3>1. \A i, j \in 1..n : g[i] = g[j] => i = j
      <4> SUFFICES ASSUME NEW i \in 1..n, NEW j \in 1..n, s[i] = s[j] PROVE i = j
        OBVIOUS
      <4>1. s[i] <= s[j] /\ s[j] <= s[i]
        BY <1>1, <2>1
      <4>2. i <= j /\ j <= i
        BY <1>3, <2>1, <4>1
      <4> QED BY <4>2
    <3>2. g \in [1..n -> T]
      OBVIOUS
    <3>3. \A t \in T : \E j \in 1..n : g[j] = t
      OBVIOUS
    <3> QED BY <3>1, <3>2, <3>3 DEF Bijection, Injection, Surjection, IsInjective
  <2>3. IsFiniteSet(1..n) /\ Cardinality(1..n) = n
    BY FS_Interval
  <2> QED BY <2>2, <2>3, FS_Bijection DEF ExistsBijection
<1>5. IsFiniteSet(numbers) /\ Cardinality(numbers) = Len(s)
  <2>1. Len(s) \in 0..Len(s)
    BY <1>1
  <2> QED BY <1>4, <2>1 DEF Items
<1>6. ASSUME NEW k \in 1..Len(s) PROVE Rank(numbers, s[k]) = k
  <2>1. {m \in numbers : m <= s[k]} = {s[j] : j \in 1..k}
    <3>1. ASSUME NEW m \in numbers, m <= s[k] PROVE m \in {s[j] : j \in 1..k}
      <4>1. PICK j \in 1..Len(s) : m = s[j]
        BY DEF Items
      <4>2. j <= k
        BY <1>3, <3>1, <4>1
      <4> QED BY <4>1, <4>2
    <3>2. ASSUME NEW j \in 1..k PROVE s[j] \in numbers /\ s[j] <= s[k]
      <4>1. j \in 1..Len(s) /\ j <= k
        BY <1>1
      <4> QED BY <1>2, <1>3, <4>1
    <3> QED BY <3>1, <3>2
  <2>2. k \in 0..Len(s)
    OBVIOUS
  <2> QED BY <1>4, <2>1, <2>2 DEF Rank
<1>7. ASSUME NEW k \in 1..Len(s) PROVE Ascending(numbers)[k] = s[k]
  <2> DEFINE n == Ascending(numbers)[k]
  <2>1. n \in numbers /\ Rank(numbers, n) = k
    BY <1>2, <1>5, AscendingProperties
  <2>2. s[k] \in numbers /\ Rank(numbers, s[k]) = k
    BY <1>2, <1>6
  <2>3. ~(n < s[k]) /\ ~(s[k] < n)
    <3> HIDE DEF n
    <3> QED BY <1>2, <1>5, <2>1, <2>2, RankProperties
  <2> QED BY <1>2, <2>1, <2>2, <2>3
<1>8. Ascending(numbers) = s
  <2>1. Ascending(numbers) \in Seq(numbers) /\ Len(Ascending(numbers)) = Len(s)
    BY <1>2, <1>5, AscendingProperties
  <2> QED BY <1>7, <2>1, SeqEqual
<1> QED BY <1>2, <1>5, <1>8
\* The places of a sequence that are kept.
LEMMA PlacesFinite ==
    ASSUME NEW S, NEW s \in Seq(S), NEW items
    PROVE  /\ Places(s, items) \in SUBSET Nat /\ IsFiniteSet(Places(s, items))
           /\ \A n \in Places(s, items) : n \in 1..Len(s) /\ s[n] \in items
<1>1. Len(s) \in Nat
  BY LenProperties
<1>2. Places(s, items) \in SUBSET (1..Len(s))
  BY DEF Places
<1>3. IsFiniteSet(1..Len(s))
  BY <1>1, FS_Interval
<1> QED BY <1>1, <1>2, <1>3, FS_Subset DEF Places

\* What a filter keeps is what the sequence holds of the set.
LEMMA KeptProperties ==
    ASSUME NEW S, NEW s \in Seq(S), NEW items
    PROVE  /\ Kept(s, items) \in Seq(S \cap items)
           /\ Len(Kept(s, items)) = Cardinality(Places(s, items))
           /\ Cardinality(Places(s, items)) \in Nat
           /\ \A k \in 1..Cardinality(Places(s, items)) :
                 Ascending(Places(s, items))[k] \in Places(s, items)
           /\ Items(Kept(s, items)) = Items(s) \cap items
<1> DEFINE places == Places(s, items)
           size == Cardinality(places)
           A == Ascending(places)
           K == Kept(s, items)
<1>1. places \in SUBSET Nat /\ IsFiniteSet(places)
      /\ \A n \in places : n \in 1..Len(s) /\ s[n] \in items
  BY PlacesFinite
<1>2. /\ size \in Nat /\ Len(A) = size /\ Items(A) = places
      /\ \A k \in 1..size : A[k] \in places
  BY <1>1, AscendingProperties
<1>3. K = [k \in 1..size |-> s[A[k]]]
  BY DEF Kept
<1> HIDE DEF places, A
<1>4. ASSUME NEW k \in 1..size PROVE s[A[k]] \in S \cap items
  <2>1. A[k] \in 1..Len(s) /\ s[A[k]] \in items
    BY <1>1, <1>2
  <2> QED BY <2>1, ElementOfSeq
<1>5. K \in Seq(S \cap items) /\ Len(K) = size
  <2> HIDE DEF K, size
  <2>1. K \in [1..size -> S \cap items]
    BY <1>3, <1>4
  <2>2. K \in Seq(S \cap items)
    BY <1>2, <2>1, SeqDef
  <2> QED BY <1>2, <2>1, <2>2, LenProperties
<1>6. Items(K) = Items(s) \cap items
  <2> HIDE DEF K, size
  <2>1. ASSUME NEW x \in Items(K) PROVE x \in Items(s) \cap items
    <3>1. PICK k \in 1..size : x = s[A[k]]
      BY <1>3, <1>5, <2>1 DEF Items
    <3>2. A[k] \in 1..Len(s) /\ s[A[k]] \in items
      BY <1>1, <1>2, <3>1
    <3> QED BY <3>1, <3>2 DEF Items
  <2>2. ASSUME NEW x \in Items(s) \cap items PROVE x \in Items(K)
    <3>1. PICK n \in 1..Len(s) : x = s[n]
      BY <2>2 DEF Items
    <3>2. n \in places
      BY <2>2, <3>1 DEF places, Places
    <3>3. PICK k \in 1..size : n = A[k]
      BY <1>2, <3>2 DEF Items
    <3>4. K[k] = x
      BY <1>3, <3>1, <3>3
    <3> QED BY <1>5, <3>3, <3>4 DEF Items
  <2> QED BY <2>1, <2>2
<1> QED BY <1>2, <1>3, <1>5, <1>6 DEF places, A

\* A part of a rising sequence is the ascending list of what it holds.
LEMMA KeptOfRising ==
    ASSUME NEW s \in Seq(Nat), Rising(s), NEW items
    PROVE  /\ Rising(Kept(s, items))
           /\ IsFiniteSet(Items(s) \cap items)
           /\ Kept(s, items) = Ascending(Items(s) \cap items)
<1> DEFINE places == Places(s, items)
           size == Cardinality(places)
           A == Ascending(places)
           K == Kept(s, items)
<1>1. /\ places \in SUBSET Nat /\ IsFiniteSet(places) /\ \A n \in places : n \in 1..Len(s)
  BY PlacesFinite
<1>2. /\ K \in Seq(Nat \cap items) /\ Len(K) = size /\ size \in Nat
      /\ \A k \in 1..size : A[k] \in places
      /\ Items(K) = Items(s) \cap items
  BY KeptProperties
<1>6. K = [k \in 1..size |-> s[A[k]]]
  BY DEF Kept
<1>3. Rising(A) /\ Len(A) = size
  BY <1>1, AscendingProperties
<1> HIDE DEF places, size, A, K
<1>4. Rising(K)
  <2>1. ASSUME NEW i \in 1..size, NEW j \in 1..size, i < j PROVE K[i] < K[j]
    <3>1. A[i] < A[j] /\ A[i] \in 1..Len(s) /\ A[j] \in 1..Len(s)
      BY <1>1, <1>2, <1>3, <2>1 DEF Rising
    <3>2. s[A[i]] < s[A[j]]
      BY <3>1 DEF Rising
    <3> QED BY <1>6, <3>2
  <2> QED BY <1>2, <2>1 DEF Rising
<1>5. K \in Seq(Nat)
  BY <1>2, SeqDef
<1> QED BY <1>2, <1>4, <1>5, AscendingUnique DEF K

\* Filtering two sequences one after the other.
LEMMA KeptConcat ==
    ASSUME NEW S, NEW s \in Seq(S), NEW t \in Seq(S), NEW items
    PROVE  Kept(s \o t, items) = Kept(s, items) \o Kept(t, items)
<1> DEFINE u == s \o t
           P == Places(s, items)  Q == Places(t, items)  R == Places(u, items)
           m == Cardinality(P)    n == Cardinality(Q)
           A == Ascending(P)      B == Ascending(Q)
           shifted == [k \in 1..n |-> Len(s) + B[k]]
           C == A \o shifted
<1>1. /\ u \in Seq(S) /\ Len(u) = Len(s) + Len(t) /\ Len(s) \in Nat /\ Len(t) \in Nat
      /\ \A i \in 1..Len(u) : u[i] = IF i <= Len(s) THEN s[i] ELSE t[i - Len(s)]
  BY ConcatProperties, LenProperties
<1>2. /\ m \in Nat /\ Len(A) = m /\ A \in Seq(P) /\ Rising(A) /\ Items(A) = P
      /\ P \in SUBSET Nat /\ \A p \in P : p \in 1..Len(s) /\ s[p] \in items
  BY PlacesFinite, AscendingProperties
<1>3. /\ n \in Nat /\ Len(B) = n /\ B \in Seq(Q) /\ Rising(B) /\ Items(B) = Q
      /\ Q \in SUBSET Nat /\ \A q \in Q : q \in 1..Len(t) /\ t[q] \in items
  BY PlacesFinite, AscendingProperties
<1>4. /\ Kept(s, items) \in Seq(S \cap items) /\ Len(Kept(s, items)) = m
      /\ \A k \in 1..m : A[k] \in P
      /\ Kept(s, items) = [k \in 1..m |-> s[A[k]]]
  <2>1. Kept(s, items) = [k \in 1..m |-> s[A[k]]]
    BY DEF Kept
  <2> QED BY <2>1, KeptProperties
<1>5. /\ Kept(t, items) \in Seq(S \cap items) /\ Len(Kept(t, items)) = n
      /\ \A k \in 1..n : B[k] \in Q
      /\ Kept(t, items) = [k \in 1..n |-> t[B[k]]]
  <2>1. Kept(t, items) = [k \in 1..n |-> t[B[k]]]
    BY DEF Kept
  <2> QED BY <2>1, KeptProperties
<1>6. R = {p \in 1..Len(u) : u[p] \in items} /\ P = {p \in 1..Len(s) : s[p] \in items}
      /\ Q = {q \in 1..Len(t) : t[q] \in items}
  BY DEF Places
<1> HIDE DEF u, P, Q, R, m, n, A, B
<1>7. /\ A \in Seq(Nat) /\ shifted \in Seq(Nat) /\ Len(shifted) = n
      /\ \A k \in 1..n : shifted[k] = Len(s) + B[k]
  <2>1. A \in Seq(Nat)
    <3>1. \A k \in 1..Len(A) : A[k] \in Nat
      BY <1>2, <1>4
    <3> QED BY <1>2, <3>1, LenProperties, SeqDef
  <2>2. shifted \in [1..n -> Nat]
    <3>1. \A k \in 1..n : Len(s) + B[k] \in Nat
      <4>1. \A k \in 1..n : B[k] \in Nat
        BY <1>3, <1>5
      <4> QED BY <1>1, <4>1
    <3> QED BY <3>1
  <2>3. shifted \in Seq(Nat)
    BY <1>3, <2>2, SeqDef
  <2>4. Len(shifted) = n
    BY <1>3, <2>2, <2>3, LenProperties
  <2> QED BY <2>1, <2>3, <2>4
<1> HIDE DEF shifted
<1>8. /\ C \in Seq(Nat) /\ Len(C) = m + n
      /\ \A k \in 1..(m + n) : C[k] = IF k <= m THEN A[k] ELSE Len(s) + B[k - m]
  <2>1. /\ C \in Seq(Nat) /\ Len(C) = m + n
        /\ \A k \in 1..(m + n) : C[k] = IF k <= m THEN A[k] ELSE shifted[k - m]
    BY <1>2, <1>7, ConcatProperties
  <2>2. ASSUME NEW k \in 1..(m + n), ~(k <= m) PROVE k - m \in 1..n
    BY <1>2, <1>3, <2>2
  <2> QED BY <1>7, <2>1, <2>2
<1> HIDE DEF C
<1>9. ASSUME NEW k \in 1..(m + n)
      PROVE  \/ k \in 1..m /\ C[k] = A[k] /\ A[k] \in P /\ A[k] \in 1..Len(s)
             \/ /\ k - m \in 1..n /\ ~(k <= m) /\ C[k] = Len(s) + B[k - m]
                /\ B[k - m] \in Q /\ B[k - m] \in 1..Len(t)
  <2>1. k \in 1..m \/ (k - m \in 1..n /\ ~(k <= m))
    BY <1>2, <1>3
  <2>2. CASE k \in 1..m
    <3>1. k <= m
      BY <2>2
    <3> QED BY <1>2, <1>4, <1>8, <2>2, <3>1
  <2>3. CASE k - m \in 1..n /\ ~(k <= m)
    BY <1>3, <1>5, <1>8, <2>3
  <2> QED BY <2>1, <2>2, <2>3
<1>10. Rising(C)
  <2>1. ASSUME NEW i \in 1..(m + n), NEW j \in 1..(m + n), i < j PROVE C[i] < C[j]
    <3>1. CASE j \in 1..m
      <4>1. i \in 1..m
        BY <1>2, <1>3, <2>1, <3>1
      <4>2. A[i] < A[j]
        BY <1>2, <2>1, <3>1, <4>1 DEF Rising
      <4>3. i <= m /\ j <= m
        BY <3>1, <4>1
      <4> QED BY <1>8, <4>2, <4>3
    <3>2. CASE ~(j \in 1..m) /\ i \in 1..m
      <4>1. C[i] = A[i] /\ A[i] \in 1..Len(s)
        BY <1>9, <3>2
      <4>2. C[j] = Len(s) + B[j - m] /\ B[j - m] \in 1..Len(t)
        BY <1>9, <3>2
      <4> QED BY <1>1, <4>1, <4>2
    <3>3. CASE ~(j \in 1..m) /\ ~(i \in 1..m)
      <4>1. /\ C[i] = Len(s) + B[i - m] /\ B[i - m] \in 1..Len(t) /\ i - m \in 1..n
            /\ C[j] = Len(s) + B[j - m] /\ B[j - m] \in 1..Len(t) /\ j - m \in 1..n
        BY <1>9, <3>3
      <4>2. i - m < j - m
        BY <1>2, <2>1
      <4>3. B[i - m] < B[j - m]
        BY <1>3, <4>1, <4>2 DEF Rising
      <4> QED BY <1>1, <4>1, <4>3
    <3> QED BY <3>1, <3>2, <3>3
  <2> QED BY <1>8, <2>1 DEF Rising
<1>11. Items(C) = R
  <2>1. ASSUME NEW k \in 1..(m + n) PROVE C[k] \in R
    <3>1. CASE k \in 1..m /\ C[k] = A[k] /\ A[k] \in P /\ A[k] \in 1..Len(s)
      <4>1. A[k] \in 1..Len(u) /\ A[k] <= Len(s) /\ s[A[k]] \in items
        BY <1>1, <1>2, <3>1
      <4>2. u[A[k]] = s[A[k]]
        BY <1>1, <4>1
      <4> QED BY <1>6, <3>1, <4>1, <4>2
    <3>2. CASE /\ k - m \in 1..n /\ C[k] = Len(s) + B[k - m]
               /\ B[k - m] \in Q /\ B[k - m] \in 1..Len(t)
      <4> DEFINE b == B[k - m]
      <4>1. b \in 1..Len(t) /\ t[b] \in items /\ C[k] = Len(s) + b
        BY <1>3, <3>2
      <4> HIDE DEF b
      <4>2. Len(s) + b \in 1..Len(u) /\ ~(Len(s) + b <= Len(s)) /\ (Len(s) + b) - Len(s) = b
        BY <1>1, <4>1
      <4>3. u[Len(s) + b] = t[b]
        BY <1>1, <4>2
      <4> QED BY <1>6, <4>1, <4>2, <4>3
    <3> QED BY <1>9, <3>1, <3>2
  <2>2. ASSUME NEW p \in R PROVE \E k \in 1..(m + n) : C[k] = p
    <3>1. p \in 1..Len(u) /\ u[p] \in items
      BY <1>6
    <3>2. CASE p <= Len(s)
      <4>1. p \in P
        BY <1>1, <1>6, <3>1, <3>2
      <4>2. PICK k \in 1..m : A[k] = p
        BY <1>2, <4>1 DEF Items
      <4>3. k \in 1..(m + n) /\ k <= m
        BY <1>2, <1>3
      <4> QED BY <1>8, <4>2, <4>3
    <3>3. CASE ~(p <= Len(s))
      <4>1. p - Len(s) \in 1..Len(t) /\ u[p] = t[p - Len(s)]
        BY <1>1, <3>1, <3>3
      <4>2. p - Len(s) \in Q
        BY <1>6, <3>1, <4>1
      <4>3. PICK k \in 1..n : B[k] = p - Len(s)
        BY <1>3, <4>2 DEF Items
      <4>4. m + k \in 1..(m + n) /\ ~(m + k <= m) /\ (m + k) - m = k
        BY <1>2, <1>3
      <4>5. C[m + k] = Len(s) + (p - Len(s))
        BY <1>8, <4>3, <4>4
      <4>6. Len(s) + (p - Len(s)) = p
        BY <1>1, <3>1
      <4> QED BY <4>4, <4>5, <4>6
    <3> QED BY <3>2, <3>3
  <2> QED BY <1>8, <2>1, <2>2 DEF Items
<1>12. Ascending(R) = C
  BY <1>8, <1>10, <1>11, AscendingUnique
<1>13. /\ Kept(u, items) \in Seq(S \cap items) /\ Len(Kept(u, items)) = m + n
       /\ Kept(u, items) = [k \in 1..(m + n) |-> u[C[k]]]
  <2>1. IsFiniteSet(R) /\ R \in SUBSET Nat
    BY <1>1, PlacesFinite DEF R
  <2>2. Cardinality(R) = m + n
    BY <1>8, <1>12, <2>1, AscendingProperties
  <2>3. Kept(u, items) = [k \in 1..(m + n) |-> u[C[k]]]
    BY <1>12, <2>2 DEF Kept, R
  <2>4. Kept(u, items) \in Seq(S \cap items) /\ Len(Kept(u, items)) = Cardinality(R)
    BY <1>1, KeptProperties DEF R
  <2> QED BY <2>2, <2>3, <2>4
<1> DEFINE both == Kept(s, items) \o Kept(t, items)
<1>14. /\ both \in Seq(S \cap items) /\ Len(both) = m + n
       /\ \A k \in 1..(m + n) :
             both[k] = IF k <= m THEN Kept(s, items)[k] ELSE Kept(t, items)[k - m]
  <2>1. /\ Kept(s, items) \in Seq(S \cap items) /\ Len(Kept(s, items)) = m
        /\ Kept(t, items) \in Seq(S \cap items) /\ Len(Kept(t, items)) = n
    BY <1>4, <1>5
  <2> QED BY <2>1, ConcatProperties
<1> HIDE DEF both
<1>15. ASSUME NEW k \in 1..(m + n)
       PROVE  Kept(u, items)[k] = both[k]
  <2>1. both[k] = IF k <= m THEN Kept(s, items)[k] ELSE Kept(t, items)[k - m]
    BY <1>14
  <2>2. CASE k \in 1..m /\ C[k] = A[k] /\ A[k] \in P /\ A[k] \in 1..Len(s)
    <3>1. A[k] \in 1..Len(u) /\ A[k] <= Len(s) /\ k <= m
      BY <1>1, <2>2
    <3>2. u[A[k]] = s[A[k]]
      BY <1>1, <3>1
    <3> QED BY <1>4, <1>13, <2>1, <2>2, <3>1, <3>2
  <2>3. CASE /\ k - m \in 1..n /\ ~(k <= m) /\ C[k] = Len(s) + B[k - m]
             /\ B[k - m] \in Q /\ B[k - m] \in 1..Len(t)
    <3> DEFINE b == B[k - m]
    <3>1. b \in 1..Len(t) /\ C[k] = Len(s) + b /\ Kept(t, items)[k - m] = t[b]
      BY <1>5, <2>3
    <3> HIDE DEF b
    <3>2. Len(s) + b \in 1..Len(u) /\ ~(Len(s) + b <= Len(s)) /\ (Len(s) + b) - Len(s) = b
      BY <1>1, <3>1
    <3>3. u[Len(s) + b] = t[b]
      BY <1>1, <3>2
    <3> QED BY <1>13, <2>1, <2>3, <3>1, <3>3
  <2> QED BY <1>9, <2>2, <2>3
<1>16. Kept(u, items) = both
  <2>1. /\ Kept(u, items) \in Seq(S \cap items) /\ Len(Kept(u, items)) = Len(both)
        /\ both \in Seq(S \cap items)
        /\ \A k \in 1..Len(Kept(u, items)) : Kept(u, items)[k] = both[k]
    BY <1>13, <1>14, <1>15
  <2> QED BY <2>1, SeqEqual
<1> QED BY <1>16 DEF u, both

\* Filtering keeps everything, or nothing, where all items or none are asked for.
LEMMA KeptAll ==
    ASSUME NEW S, NEW s \in Seq(S), NEW items, S \subseteq items
    PROVE  Kept(s, items) = s
<1> DEFINE id == [k \in 1..Len(s) |-> k]
<1>1. Len(s) \in Nat /\ \A k \in 1..Len(s) : s[k] \in S
  BY LenProperties, ElementOfSeq
<1>2. id \in Seq(Nat) /\ Len(id) = Len(s)
  <2>1. id \in [1..Len(s) -> Nat]
    OBVIOUS
  <2>2. id \in Seq(Nat)
    BY <1>1, <2>1, SeqDef
  <2> QED BY <1>1, <2>1, <2>2, LenProperties
<1>3. Places(s, items) = 1..Len(s)
  BY <1>1 DEF Places
<1>4. Rising(id) /\ Items(id) = 1..Len(s)
  BY <1>2 DEF Rising, Items
<1>5. Ascending(Places(s, items)) = id
  BY <1>2, <1>3, <1>4, AscendingUnique
<1>6. Cardinality(Places(s, items)) = Len(s)
  <2>1. Cardinality(1..Len(s)) = IF 1 > Len(s) THEN 0 ELSE Len(s) - 1 + 1
    BY <1>1, FS_Interval
  <2>2. Cardinality(1..Len(s)) = Len(s)
    BY <1>1, <2>1
  <2> QED BY <1>3, <2>2
<1>7. /\ Kept(s, items) \in Seq(S \cap items) /\ Len(Kept(s, items)) = Len(s)
      /\ Kept(s, items) = [k \in 1..Len(s) |-> s[id[k]]]
  <2>1. Kept(s, items) = [k \in 1..Len(s) |-> s[id[k]]]
    BY <1>5, <1>6 DEF Kept
  <2> QED BY <1>6, <2>1, KeptProperties
<1>8. \A k \in 1..Len(s) : Kept(s, items)[k] = s[k]
  BY <1>7
<1> QED BY <1>7, <1>8, SeqEqual

LEMMA KeptNone ==
    ASSUME NEW S, NEW s \in Seq(S), NEW items, S \cap items = {}
    PROVE  Kept(s, items) = <<>>
<1>1. Kept(s, items) \in Seq({}) 
  BY KeptProperties
<1>2. Len(Kept(s, items)) \in Nat /\ ~(1 \in 1..Len(Kept(s, items)))
  BY <1>1, LenProperties, ElementOfSeq
<1>3. Len(Kept(s, items)) = 0
  BY <1>2
<1> QED BY <1>1, <1>3, EmptySeq

-----------------------------------------------------------------------------
(* The inductive invariant *)

\* Items are numbered as they arrive, and the inbox keeps them in that order.
Stock ==
    /\ kinds \in Seq(Kinds)
    /\ inbox \in Seq(1..Len(kinds)) /\ Rising(inbox)
    /\ branch \in Seq(0..Len(kinds))
    /\ withdrawn \subseteq 1..Len(kinds)

\* Where the operation stands, and where the hook may be asked.
Course ==
    /\ leaf \in Leaves
    /\ resume \in {"need_assistant", "may_finish"}
    /\ cancelled \in BOOLEAN
    /\ modes \in Modes
    /\ asking \in BOOLEAN
    /\ asking => leaf \in {"checkpoint", "threshold"} /\ resume = "may_finish"

\* Nothing is planned for the hook but notes: anything else continues the run.
Planned == planned \in Seq({i \in 1..Len(kinds) : kinds[i] = "note"})

IInv == Stock /\ Course /\ Planned

-----------------------------------------------------------------------------
(* The parts of the inbox *)

\* A list of more is one of those, too.
LEMMA Wider == ASSUME NEW S, NEW T, S \subseteq T, NEW s \in Seq(S) PROVE s \in Seq(T)
<1>1. Len(s) \in Nat /\ s \in [1..Len(s) -> S]
  BY LenProperties
<1>2. s \in [1..Len(s) -> T]
  BY <1>1
<1> QED BY <1>1, <1>2, SeqDef

\* The inbox holds numbers of items that were offered.
LEMMA InboxShape ==
    ASSUME Stock
    PROVE  /\ Len(kinds) \in Nat
           /\ inbox \in Seq(Nat)
           /\ Items(inbox) \subseteq 1..Len(kinds)
           /\ \A i \in 1..Len(kinds) : kinds[i] \in Kinds
<1>1. Len(kinds) \in Nat /\ \A i \in 1..Len(kinds) : kinds[i] \in Kinds
  BY LenProperties, ElementOfSeq DEF Stock
<1>2. inbox \in Seq(1..Len(kinds)) /\ 1..Len(kinds) \subseteq Nat
  BY <1>1 DEF Stock
<1>3. inbox \in Seq(Nat)
  BY <1>2, Wider
<1>4. Items(inbox) \subseteq 1..Len(kinds)
  BY <1>2, ElementOfSeq DEF Items
<1> QED BY <1>1, <1>3, <1>4

\* What is taken of the inbox and what stays behind, both in its order.
LEMMA InboxParts ==
    ASSUME Stock, NEW items
    PROVE  /\ InInbox(items) \in Seq(1..Len(kinds))
           /\ InInbox(items) = Ascending(Items(inbox) \cap items)
           /\ Items(InInbox(items)) = Items(inbox) \cap items
           /\ Rising(InInbox(items))
           /\ Without(items) \in Seq(1..Len(kinds))
           /\ Items(Without(items)) = Items(inbox) \ items
           /\ Rising(Without(items))
<1>1. inbox \in Seq(Nat) /\ inbox \in Seq(1..Len(kinds)) /\ Rising(inbox)
  BY InboxShape DEF Stock
<1>2. ASSUME NEW part
      PROVE  /\ Kept(inbox, part) \in Seq(1..Len(kinds)) /\ Rising(Kept(inbox, part))
             /\ Items(Kept(inbox, part)) = Items(inbox) \cap part
             /\ Kept(inbox, part) = Ascending(Items(inbox) \cap part)
  <2>1. /\ Kept(inbox, part) \in Seq((1..Len(kinds)) \cap part)
        /\ Items(Kept(inbox, part)) = Items(inbox) \cap part
    BY <1>1, KeptProperties
  <2>2. (1..Len(kinds)) \cap part \subseteq 1..Len(kinds)
    OBVIOUS
  <2>3. Kept(inbox, part) \in Seq(1..Len(kinds))
    BY <2>1, <2>2, Wider
  <2> QED BY <1>1, <2>1, <2>3, KeptOfRising
<1>3. Items(inbox) \cap (Items(inbox) \ items) = Items(inbox) \ items
  OBVIOUS
<1> QED BY <1>2, <1>3 DEF InInbox, Without

\* No item is left behind that came before one that is taken of its kind.
InTurn(items) == \A i \in items, j \in Items(inbox) \ items : kinds[i] = kinds[j] => i < j

\* What may enter the conversation in the middle of a run.
MidRun(items) ==
    \A i \in items :
        /\ kinds[i] # "nextRun"
        /\ kinds[i] = "followUp" =>
              resume = "may_finish" /\ ~\E j \in Items(inbox) : kinds[j] \in {"steer", "write"}

\* A mode takes the first item of a kind, or all of them: never a later one alone.
LEMMA EligibleShape ==
    ASSUME Stock, NEW kind, NEW mode
    PROVE  /\ Eligible(kind, mode) \subseteq {i \in Items(inbox) : kinds[i] = kind}
           /\ \A i \in Eligible(kind, mode), j \in Items(inbox) \ Eligible(kind, mode) :
                 kinds[j] = kind => i < j
           /\ (\E i \in Items(inbox) : kinds[i] = kind) => Eligible(kind, mode) # {}
           /\ Items(OfKind(kind)) = {i \in Items(inbox) : kinds[i] = kind}
<1> DEFINE ofKind == {i \in Items(inbox) : kinds[i] = kind}
           queue == OfKind(kind)
<1>1. /\ queue \in Seq(1..Len(kinds)) /\ Rising(queue) /\ Items(queue) = ofKind
  <2>1. Items(inbox) \cap ofKind = ofKind
    OBVIOUS
  <2> QED BY <2>1, InboxParts DEF OfKind, InInbox
<1>2. Len(queue) \in Nat /\ \A n \in 1..Len(queue) : queue[n] \in ofKind
  BY <1>1, LenProperties DEF Items
<1>3. Eligible(kind, mode) = {queue[n] : n \in {m \in 1..Len(queue) : mode = "all" \/ m = 1}}
  BY DEF Eligible
<1> HIDE DEF queue
<1>4. Eligible(kind, mode) \subseteq ofKind
  BY <1>2, <1>3
<1>5. ASSUME NEW i \in Eligible(kind, mode), NEW j \in Items(inbox) \ Eligible(kind, mode),
             kinds[j] = kind
      PROVE  i < j
  <2>1. PICK n \in 1..Len(queue) : j = queue[n]
    BY <1>1, <1>5 DEF Items
  <2>2. mode # "all" /\ n # 1
    BY <1>3, <2>1
  <2>3. i = queue[1] /\ 1 \in 1..Len(queue)
    BY <1>2, <1>3, <2>2
  <2>4. 1 < n
    BY <1>2, <2>2
  <2> QED BY <1>1, <2>1, <2>3, <2>4 DEF Rising
<1>6. ASSUME NEW i \in Items(inbox), kinds[i] = kind PROVE Eligible(kind, mode) # {}
  <2>1. PICK n \in 1..Len(queue) : i = queue[n]
    BY <1>1, <1>6 DEF Items
  <2>2. 1 \in 1..Len(queue)
    BY <1>2
  <2> QED BY <1>3, <2>2
<1> QED BY <1>1, <1>4, <1>5, <1>6 DEF queue

\* What a boundary takes; a finish that continues nothing leaves no more than the
\* items of the next run.
LEMMA DueShape ==
    ASSUME Stock, NEW followUps \in BOOLEAN, followUps => resume = "may_finish"
    PROVE  /\ Due(followUps) \subseteq Items(inbox)
           /\ InTurn(Due(followUps))
           /\ MidRun(Due(followUps))
           /\ (followUps /\ ~Projects(Due(followUps))) =>
                 \A i \in Items(inbox) \ Due(followUps) : kinds[i] = "nextRun"
<1> DEFINE steer == Eligible("steer", modes.steer)
           late == Eligible("followUp", modes.followUp)
           now == QueuedWrites \cup steer
<1>1. /\ Items(inbox) \subseteq 1..Len(kinds)
      /\ \A i \in Items(inbox) : kinds[i] \in Kinds
  BY InboxShape
<1>2. /\ steer \subseteq {i \in Items(inbox) : kinds[i] = "steer"}
      /\ \A i \in steer, j \in Items(inbox) \ steer : kinds[j] = "steer" => i < j
      /\ (\E i \in Items(inbox) : kinds[i] = "steer") => steer # {}
  BY EligibleShape
<1>3. /\ late \subseteq {i \in Items(inbox) : kinds[i] = "followUp"}
      /\ \A i \in late, j \in Items(inbox) \ late : kinds[j] = "followUp" => i < j
      /\ (\E i \in Items(inbox) : kinds[i] = "followUp") => late # {}
  BY EligibleShape
<1>4. QueuedWrites = {i \in Items(inbox) : kinds[i] \in {"write", "note"}}
  BY DEF QueuedWrites, Writes
<1>5. Due(followUps) = IF followUps /\ ~Projects(now) THEN now \cup late ELSE now
  BY DEF Due
<1> HIDE DEF steer, late
<1>6. Due(followUps) \subseteq Items(inbox)
  BY <1>2, <1>3, <1>4, <1>5
<1>7. InTurn(now) /\ InTurn(now \cup late)
  BY <1>2, <1>3, <1>4 DEF InTurn
<1>8. ASSUME ~Projects(now)
      PROVE  /\ ~\E j \in Items(inbox) : kinds[j] \in {"steer", "write"}
             /\ late # {} => Projects(now \cup late)
  <2>1. steer = {} /\ ~\E i \in QueuedWrites : kinds[i] = "write"
    BY <1>2, <1>8 DEF Projects
  <2>2. late # {} => Projects(now \cup late)
    BY <1>3 DEF Projects
  <2> QED BY <1>2, <1>4, <2>1, <2>2
<1>9. MidRun(now)
  BY <1>2, <1>4 DEF MidRun
<1>10. (followUps /\ ~Projects(now)) => MidRun(now \cup late)
  BY <1>2, <1>3, <1>4, <1>8 DEF MidRun
<1>11. ASSUME followUps, ~Projects(Due(followUps)), NEW i \in Items(inbox) \ Due(followUps)
       PROVE  kinds[i] = "nextRun"
  <2>1. ~Projects(now)
    BY <1>5, <1>11
  <2>2. Due(followUps) = now \cup late /\ late = {}
    BY <1>5, <1>8, <1>11, <2>1
  <2>3. kinds[i] \notin {"steer", "write", "note", "followUp"}
    BY <1>3, <1>4, <1>8, <1>11, <2>1, <2>2
  <2> QED BY <1>1, <2>3 DEF Kinds, Messages, Writes
<1> QED BY <1>5, <1>6, <1>7, <1>9, <1>10, <1>11

\* What the acceptance of a run takes.
LEMMA AcceptedShape ==
    ASSUME Stock, NEW m
    PROVE  Accepted(m) \subseteq Items(inbox) /\ InTurn(Accepted(m))
<1> DEFINE steer == Eligible("steer", m.steer)
           late == Eligible("followUp", m.followUp)
           nextRun == Items(OfKind("nextRun"))
<1>1. /\ steer \subseteq {i \in Items(inbox) : kinds[i] = "steer"}
      /\ \A i \in steer, j \in Items(inbox) \ steer : kinds[j] = "steer" => i < j
  BY EligibleShape
<1>2. /\ late \subseteq {i \in Items(inbox) : kinds[i] = "followUp"}
      /\ \A i \in late, j \in Items(inbox) \ late : kinds[j] = "followUp" => i < j
  BY EligibleShape
<1>3. nextRun = {i \in Items(inbox) : kinds[i] = "nextRun"}
  BY EligibleShape
<1>4. QueuedWrites = {i \in Items(inbox) : kinds[i] \in {"write", "note"}}
  BY DEF QueuedWrites, Writes
<1>5. Accepted(m) = QueuedWrites \cup nextRun \cup steer \cup late
  BY DEF Accepted
<1> HIDE DEF steer, late, nextRun
<1> QED BY <1>1, <1>2, <1>3, <1>4, <1>5 DEF InTurn

-----------------------------------------------------------------------------
(* What a step does to the items *)

Queues(kind) ==
    /\ kinds' = Append(kinds, kind) /\ inbox' = Append(inbox, Len(kinds) + 1)
    /\ UNCHANGED <<branch, withdrawn>>

Delivers(kind) ==
    /\ Idle
    /\ kinds' = Append(kinds, kind)
    /\ branch' = Append(branch \o InInbox(QueuedWrites), Len(kinds) + 1)
    /\ inbox' = Without(QueuedWrites)
    /\ UNCHANGED withdrawn

Withdraws(items) ==
    /\ inbox' = Without(items) /\ withdrawn' = withdrawn \cup items
    /\ UNCHANGED <<kinds, branch>>

\* A planner takes items that are due; a finish takes all it found.
Takes(items) ==
    /\ InTurn(items)
    /\ ~Idle => MidRun(items)
    /\ (asking /\ leaf' = "none") => items = Due(TRUE) /\ ~Projects(items)
    /\ Place(items)
    /\ UNCHANGED <<kinds, withdrawn>>

\* The hook's answer, behind what was placed for it.
Answers(items) ==
    /\ asking
    /\ items = Due(TRUE) /\ InTurn(items) /\ ~Projects(items) /\ MidRun(items)
    /\ InInbox(items) = planned
    /\ branch' = Append(branch \o InInbox(items), FollowUp)
    /\ inbox' = Without(items)
    /\ UNCHANGED <<kinds, withdrawn>>

Stays == UNCHANGED <<kinds, inbox, branch, withdrawn>>

\* Every step does one of these to the items.
Effect ==
    \/ (\E kind \in Kinds : Queues(kind)) /\ ~(asking /\ leaf' = "none")
    \/ (\E kind \in Writes : Delivers(kind)) /\ ~asking
    \/ (\E items \in SUBSET Items(inbox) : Withdraws(items)) /\ ~(asking /\ leaf' = "none")
    \/ \E items \in SUBSET Items(inbox) : Takes(items) \/ Answers(items)
    \/ Stays /\ ~(asking /\ leaf' = "none")

LEMMA ClientEffect == ASSUME IInv, Client PROVE Effect
<1> USE DEF IInv
<1>0. asking => leaf \in {"checkpoint", "threshold"}
  BY DEF Course
<1>1. ASSUME NEW kind \in Kinds, Enqueue(kind) PROVE Effect
  BY <1>0, <1>1 DEF Enqueue, Mint, op, Queues, Effect
<1>2. ASSUME NEW kind \in Kinds, AppendEntry(kind) PROVE Effect
  <2>1. /\ kind \in Writes /\ kinds' = Append(kinds, kind) /\ UNCHANGED withdrawn
        /\ leaf' = leaf
    BY <1>2 DEF AppendEntry, Mint, op
  <2>2. CASE Idle
    <3>1. Delivers(kind)
      BY <1>2, <2>1, <2>2 DEF AppendEntry, Delivers
    <3> QED BY <1>0, <2>1, <2>2, <3>1 DEF Effect, Idle
  <2>3. CASE ~Idle
    <3>1. Queues(kind)
      BY <1>2, <2>1, <2>3 DEF AppendEntry, Queues
    <3> QED BY <1>0, <2>1, <3>1 DEF Effect
  <2> QED BY <2>2, <2>3
<1>3. ASSUME NEW i \in Items(inbox), CancelQueued(i) PROVE Effect
  <2>1. Withdraws({i}) /\ leaf' = leaf /\ {i} \in SUBSET Items(inbox)
    BY <1>3 DEF CancelQueued, Withdraws, op
  <2> QED BY <1>0, <2>1 DEF Effect
<1>4. CASE RequestAbort
  <2>1. Withdraws(Returned) /\ leaf' = leaf
    BY <1>4 DEF RequestAbort, Withdraws
  <2>2. Returned \subseteq Items(inbox)
    <3>1. Items(OfKind("steer")) \cup Items(OfKind("followUp")) \subseteq Items(inbox)
      BY EligibleShape
    <3> QED BY <3>1 DEF Returned
  <2> QED BY <1>0, <2>1, <2>2 DEF Effect
<1>5. ASSUME NEW m \in Modes, NEW prompt \in BOOLEAN, AcceptRun(m, prompt) PROVE Effect
  <2>1. Idle /\ Place(Accepted(m)) /\ UNCHANGED <<kinds, withdrawn>> /\ leaf' = "starting"
    BY <1>5 DEF AcceptRun, Place
  <2>2. Accepted(m) \in SUBSET Items(inbox) /\ InTurn(Accepted(m))
    BY AcceptedShape
  <2>3. Takes(Accepted(m))
    BY <2>1, <2>2 DEF Takes
  <2> QED BY <2>2, <2>3 DEF Effect
<1>6. CASE AcceptStructural
  BY <1>6 DEF AcceptStructural, Stays, Effect
<1> QED BY <1>1, <1>2, <1>3, <1>4, <1>5, <1>6 DEF Client

LEMMA DriveEffect == ASSUME IInv, Drive PROVE Effect
<1> USE DEF IInv
<1>0. asking => leaf \in {"checkpoint", "threshold"} /\ resume = "may_finish"
  BY DEF Course
<1>1. ASSUME NEW flag \in BOOLEAN, flag => resume = "may_finish",
             Place(Due(flag)), UNCHANGED <<kinds, withdrawn>>, leaf' # "none"
      PROVE  Effect
  <2>1. Due(flag) \in SUBSET Items(inbox) /\ InTurn(Due(flag)) /\ MidRun(Due(flag))
    BY <1>1, DueShape
  <2>2. Takes(Due(flag))
    BY <1>1, <2>1 DEF Takes
  <2> QED BY <2>1, <2>2 DEF Effect
<1>2. ASSUME NEW flag \in BOOLEAN, flag => resume = "may_finish", Continue(Due(flag)) PROVE Effect
  BY <1>1, <1>2 DEF Continue, Move
<1>3. ASSUME NEW items, AskRunEnd(items) PROVE Effect
  BY <1>0, <1>3 DEF AskRunEnd, Stays, Effect, op
<1>4. ASSUME NEW threshold \in BOOLEAN, Checkpoint(threshold) PROVE Effect
  <2> DEFINE flag == ~threshold /\ resume = "may_finish"
  <2>1. flag \in BOOLEAN /\ (flag => resume = "may_finish")
    OBVIOUS
  <2>2. \/ Continue(Due(flag)) \/ AskRunEnd(Due(flag))
        \/ Place(Due(flag)) /\ Move("threshold", resume)
    BY <1>4 DEF Checkpoint
  <2> HIDE DEF flag
  <2> QED BY <1>1, <1>2, <1>3, <2>1, <2>2 DEF Move
<1>5. CASE Summarised
  <2>1. Continue(Due(FALSE)) \/ (Place(Due(FALSE)) /\ Move("checkpoint", "may_finish"))
    BY <1>5 DEF Summarised
  <2> QED BY <1>1, <1>2, <2>1 DEF Move
<1>6. CASE Declined
  <2> DEFINE flag == resume = "may_finish"
  <2>1. flag \in BOOLEAN /\ (flag => resume = "may_finish")
    OBVIOUS
  <2>2. Continue(Due(flag)) \/ AskRunEnd(Due(flag))
    BY <1>6 DEF Declined
  <2> HIDE DEF flag
  <2> QED BY <1>2, <1>3, <2>1, <2>2
<1>7. ASSUME NEW followUp \in BOOLEAN, HookEnds(followUp) PROVE Effect
  <2> DEFINE items == Due(TRUE)
  <2>1. asking /\ resume = "may_finish"
    BY <1>0, <1>7 DEF HookEnds
  <2>2. items \in SUBSET Items(inbox) /\ InTurn(items) /\ MidRun(items)
    BY <2>1, DueShape
  <2>3. \/ Place(items) /\ Move("busy", "need_assistant")
        \/ /\ ~Projects(items) /\ PlanIsCurrent(items)
           /\ branch' = Append(branch \o InInbox(items), FollowUp)
           /\ inbox' = Without(items)
           /\ Move("busy", "need_assistant")
        \/ ~Projects(items) /\ Place(items) /\ Leave
    BY <1>7 DEF HookEnds, Replanned
  <2>4. CASE Place(items) /\ Move("busy", "need_assistant")
    BY <1>1, <2>1, <2>4 DEF Move
  <2>5. CASE /\ ~Projects(items) /\ PlanIsCurrent(items)
             /\ branch' = Append(branch \o InInbox(items), FollowUp)
             /\ inbox' = Without(items)
             /\ Move("busy", "need_assistant")
    <3>1. Answers(items)
      BY <2>1, <2>2, <2>5 DEF Answers, PlanIsCurrent, Move
    <3> QED BY <2>2, <3>1 DEF Effect
  <2>6. CASE ~Projects(items) /\ Place(items) /\ Leave
    <3>1. Takes(items)
      BY <2>2, <2>6 DEF Takes, Leave
    <3> QED BY <2>2, <3>1 DEF Effect
  <2> QED BY <2>3, <2>4, <2>5, <2>6
<1>8. CASE HookDropped
  BY <1>0, <1>8 DEF HookDropped, Stays, Effect, op
<1>9. CASE StartRun \/ Overflow \/ Ends \/ Aborted
  BY <1>9 DEF StartRun, Overflow, Ends, Aborted, At, Keep, Move, Leave, Stays, Effect
<1>10. ASSUME NEW cont \in {"need_assistant", "may_finish"}, Settle(cont) PROVE Effect
  BY <1>10 DEF Settle, Keep, Move, Stays, Effect
<1> QED BY <1>4, <1>5, <1>6, <1>7, <1>8, <1>9, <1>10 DEF Drive

LEMMA StepEffect == ASSUME IInv, [Next]_vars PROVE Effect
<1>1. CASE UNCHANGED vars
  <2>1. asking => leaf' # "none"
    BY <1>1 DEF IInv, Course, vars
  <2> QED BY <1>1, <2>1 DEF vars, Stays, Effect
<1> QED BY <1>1, ClientEffect, DriveEffect DEF Next

-----------------------------------------------------------------------------
(* The invariant is kept *)

LEMMA StockKept == ASSUME Stock, Effect PROVE Stock'
<1>1. /\ Len(kinds) \in Nat /\ Items(inbox) \subseteq 1..Len(kinds)
      /\ kinds \in Seq(Kinds) /\ inbox \in Seq(1..Len(kinds)) /\ branch \in Seq(0..Len(kinds))
      /\ Rising(inbox) /\ withdrawn \subseteq 1..Len(kinds)
  BY InboxShape DEF Stock
<1>2. ASSUME NEW kind \in Kinds, kinds' = Append(kinds, kind)
      PROVE  /\ kinds' \in Seq(Kinds) /\ Len(kinds') = Len(kinds) + 1
             /\ \A part \in Seq(1..Len(kinds)) : part \in Seq(1..Len(kinds'))
             /\ \A part \in Seq(0..Len(kinds)) : part \in Seq(0..Len(kinds'))
             /\ 1..Len(kinds) \subseteq 1..Len(kinds')
             /\ Len(kinds) + 1 \in 1..Len(kinds') /\ Len(kinds) + 1 \in 0..Len(kinds')
  <2>1. kinds' \in Seq(Kinds) /\ Len(kinds') = Len(kinds) + 1
    BY <1>1, <1>2, AppendProperties
  <2>2. \A n \in Nat : /\ 1..n \subseteq 1..(n + 1) /\ 0..n \subseteq 0..(n + 1)
                        /\ n + 1 \in 1..(n + 1) /\ n + 1 \in 0..(n + 1)
    OBVIOUS
  <2>3. /\ 1..Len(kinds) \subseteq 1..Len(kinds') /\ 0..Len(kinds) \subseteq 0..Len(kinds')
        /\ Len(kinds) + 1 \in 1..Len(kinds') /\ Len(kinds) + 1 \in 0..Len(kinds')
    BY <1>1, <2>1, <2>2, Zenon
  <2> QED BY <2>1, <2>3, Wider
<1>3. ASSUME NEW items
      PROVE  /\ branch \o InInbox(items) \in Seq(0..Len(kinds))
             /\ Without(items) \in Seq(1..Len(kinds)) /\ Rising(Without(items))
  <2>1. InInbox(items) \in Seq(1..Len(kinds)) /\ 1..Len(kinds) \subseteq 0..Len(kinds)
    <3>1. \A n \in Nat : 1..n \subseteq 0..n
      OBVIOUS
    <3> QED BY <1>1, <3>1, InboxParts
  <2>2. InInbox(items) \in Seq(0..Len(kinds))
    BY <2>1, Wider
  <2> QED BY <1>1, <2>2, ConcatProperties, InboxParts
<1>4. ASSUME NEW kind \in Kinds, Queues(kind) PROVE Stock'
  <2>1. /\ inbox' = Append(inbox, Len(kinds) + 1) /\ branch' = branch /\ withdrawn' = withdrawn
        /\ kinds' = Append(kinds, kind)
    BY <1>4 DEF Queues
  <2>2. inbox' \in Seq(1..Len(kinds'))
    BY <1>1, <1>2, <2>1, AppendProperties
  <2>3. Rising(inbox')
    <3>1. /\ Len(inbox) \in Nat /\ Len(inbox') = Len(inbox) + 1
          /\ \A i \in 1..Len(inbox) : inbox'[i] = inbox[i] /\ inbox[i] \in 1..Len(kinds)
          /\ inbox'[Len(inbox) + 1] = Len(kinds) + 1
      <4>1. inbox \in Seq(Nat) /\ Len(kinds) + 1 \in Nat
        BY <1>1, InboxShape
      <4>2. Len(inbox) \in Nat /\ \A i \in 1..Len(inbox) : inbox[i] \in 1..Len(kinds)
        BY <1>1, LenProperties, ElementOfSeq
      <4> QED BY <2>1, <4>1, <4>2, AppendProperties
    <3>2. ASSUME NEW i \in 1..Len(inbox'), NEW j \in 1..Len(inbox'), i < j
          PROVE  inbox'[i] < inbox'[j]
      <4>1. i \in 1..Len(inbox)
        BY <3>1, <3>2
      <4>2. CASE j \in 1..Len(inbox)
        BY <1>1, <3>1, <3>2, <4>1, <4>2 DEF Rising
      <4>3. CASE j = Len(inbox) + 1
        <5>1. inbox'[i] \in 1..Len(kinds) /\ inbox'[j] = Len(kinds) + 1
          BY <3>1, <4>1, <4>3
        <5> QED BY <1>1, <5>1
      <4> QED BY <3>1, <4>2, <4>3
    <3> QED BY <3>2 DEF Rising
  <2> QED BY <1>1, <1>2, <2>1, <2>2, <2>3 DEF Stock
<1>5. ASSUME NEW kind \in Writes, Delivers(kind) PROVE Stock'
  <2>1. kind \in Kinds /\ kinds' = Append(kinds, kind) /\ withdrawn' = withdrawn
        /\ branch' = Append(branch \o InInbox(QueuedWrites), Len(kinds) + 1)
        /\ inbox' = Without(QueuedWrites)
    BY <1>5 DEF Delivers, Kinds
  <2>2. branch' \in Seq(0..Len(kinds'))
    BY <1>2, <1>3, <2>1, AppendProperties
  <2> QED BY <1>1, <1>2, <1>3, <2>1, <2>2 DEF Stock
<1>6. ASSUME NEW items \in SUBSET Items(inbox), Withdraws(items) PROVE Stock'
  BY <1>1, <1>3, <1>6 DEF Withdraws, Stock
<1>7. ASSUME NEW items \in SUBSET Items(inbox), Takes(items) PROVE Stock'
  BY <1>1, <1>3, <1>7 DEF Takes, Place, Stock
<1>8. ASSUME NEW items \in SUBSET Items(inbox), Answers(items) PROVE Stock'
  <2>1. FollowUp \in 0..Len(kinds)
    BY <1>1 DEF FollowUp
  <2>2. Append(branch \o InInbox(items), FollowUp) \in Seq(0..Len(kinds))
    BY <1>3, <2>1, AppendProperties
  <2> QED BY <1>1, <1>3, <1>8, <2>2 DEF Answers, Stock
<1>9. CASE Stays
  BY <1>1, <1>9 DEF Stays, Stock
<1> QED BY <1>4, <1>5, <1>6, <1>7, <1>8, <1>9 DEF Effect
LEMMA CourseKept == ASSUME Course, [Next]_vars PROVE Course'
<1>0. /\ leaf \in Leaves /\ resume \in {"need_assistant", "may_finish"} /\ cancelled \in BOOLEAN
      /\ modes \in Modes /\ asking \in BOOLEAN
      /\ asking => leaf \in {"checkpoint", "threshold"} /\ resume = "may_finish"
  BY DEF Course
<1>1. ASSUME UNCHANGED <<op, asking>> PROVE Course'
  BY <1>0, <1>1 DEF op, Course
<1>2. CASE UNCHANGED vars
  BY <1>1, <1>2 DEF vars, op
<1>3. CASE Client
  <2>1. ASSUME NEW kind \in Kinds, Enqueue(kind) \/ AppendEntry(kind) PROVE Course'
    BY <1>1, <2>1 DEF Enqueue, AppendEntry, pass
  <2>2. ASSUME NEW i \in Items(inbox), CancelQueued(i) PROVE Course'
    BY <1>1, <2>2 DEF CancelQueued, pass
  <2>3. CASE RequestAbort
    BY <1>0, <2>3 DEF RequestAbort, pass, Course
  <2>4. ASSUME NEW m \in Modes, NEW prompt \in BOOLEAN, AcceptRun(m, prompt) PROVE Course'
    BY <1>0, <2>4 DEF AcceptRun, Idle, pass, Course, Leaves
  <2>5. CASE AcceptStructural
    BY <1>0, <2>5 DEF AcceptStructural, Idle, pass, Course, Leaves
  <2> QED BY <1>3, <2>1, <2>2, <2>3, <2>4, <2>5 DEF Client
<1>4. CASE Drive
  <2>1. ASSUME NEW next \in Leaves, NEW cont \in {"need_assistant", "may_finish"},
               Move(next, cont), asking' = FALSE
        PROVE  Course'
    BY <1>0, <2>1 DEF Move, Course
  <2>2. ASSUME Leave, asking' = FALSE PROVE Course'
    BY <1>0, <2>2 DEF Leave, Course, Leaves
  <2>3. ASSUME NEW items, AskRunEnd(items), leaf \in {"checkpoint", "threshold"},
               resume = "may_finish"
        PROVE  Course'
    BY <1>0, <2>3 DEF AskRunEnd, op, Course
  <2>4. {"busy", "checkpoint", "threshold", "overflow"} \subseteq Leaves
    BY DEF Leaves
  <2>5. ASSUME NEW items, Continue(items), ~asking PROVE Course'
    BY <1>0, <2>1, <2>4, <2>5 DEF Continue, pass
  <2>6. ASSUME NEW threshold \in BOOLEAN, Checkpoint(threshold) PROVE Course'
    <3>1. /\ ~asking /\ leaf = "checkpoint"
          /\ \E items : \/ Continue(items)
                        \/ Move("threshold", resume) /\ UNCHANGED pass
                        \/ AskRunEnd(items) /\ resume = "may_finish"
      BY <2>6 DEF Checkpoint, At
    <3> QED BY <1>0, <2>1, <2>3, <2>4, <2>5, <3>1 DEF pass
  <2>7. CASE Summarised
    <3>1. /\ ~asking
          /\ \E items : \/ Continue(items)
                        \/ Move("checkpoint", "may_finish") /\ UNCHANGED pass
      BY <2>7 DEF Summarised, At
    <3> QED BY <1>0, <2>1, <2>4, <2>5, <3>1 DEF pass
  <2>8. CASE Declined
    <3>1. /\ ~asking /\ leaf = "threshold"
          /\ \E items : Continue(items) \/ (AskRunEnd(items) /\ resume = "may_finish")
      BY <2>8 DEF Declined, At
    <3> QED BY <2>3, <2>5, <3>1
  <2>9. ASSUME NEW followUp \in BOOLEAN, HookEnds(followUp) PROVE Course'
    <3>1. asking' = FALSE /\ (Move("busy", "need_assistant") \/ Leave)
      BY <2>9 DEF HookEnds, Answered
    <3> QED BY <2>1, <2>2, <2>4, <3>1
  <2>10. CASE HookDropped
    BY <1>0, <2>10 DEF HookDropped, Answered, op, Course
  <2>11. CASE StartRun \/ Overflow
    BY <1>0, <2>1, <2>4, <2>11 DEF StartRun, Overflow, At, pass
  <2>12. CASE Ends \/ Aborted
    BY <1>0, <2>2, <2>12 DEF Ends, Aborted, At, pass
  <2>13. ASSUME NEW cont \in {"need_assistant", "may_finish"}, Settle(cont) PROVE Course'
    BY <1>0, <2>1, <2>4, <2>13 DEF Settle, pass
  <2> QED BY <1>4, <2>6, <2>7, <2>8, <2>9, <2>10, <2>11, <2>12, <2>13 DEF Drive
<1> QED BY <1>2, <1>3, <1>4 DEF Next

\* What a finish was planned with are notes, and items keep their kind.
LEMMA PlannedKept == ASSUME IInv, [Next]_vars PROVE Planned'
<1> USE DEF IInv
<1> DEFINE Notes == {i \in 1..Len(kinds) : kinds[i] = "note"}
<1>1. Len(kinds) \in Nat /\ Items(inbox) \subseteq 1..Len(kinds)
  BY InboxShape
<1>2. planned' = planned \/ planned' = <<>> \/ planned' \in Seq(Notes)
  <2>1. ASSUME NEW items, AskRunEnd(items), ~Projects(items) PROVE planned' \in Seq(Notes)
    <3>1. planned' = InInbox(items)
      BY <2>1 DEF AskRunEnd
    <3>2. \A i \in items : kinds[i] = "note"
      BY <2>1 DEF Projects
    <3>3. InInbox(items) \in Seq((1..Len(kinds)) \cap items)
      BY KeptProperties DEF InInbox, Stock
    <3>4. (1..Len(kinds)) \cap items \subseteq Notes
      BY <3>2
    <3> QED BY <3>1, <3>3, <3>4, Wider
  <2>2. CASE UNCHANGED vars
    BY <2>2 DEF vars
  <2>3. CASE Client
    BY <2>3 DEF Client, Enqueue, AppendEntry, CancelQueued, RequestAbort, AcceptRun,
                AcceptStructural, pass
  <2>4. CASE Drive
    <3>1. ASSUME NEW threshold \in BOOLEAN, Checkpoint(threshold)
          PROVE  UNCHANGED planned \/ planned' \in Seq(Notes)
      <4>1. UNCHANGED planned \/ \E items : AskRunEnd(items) /\ ~Projects(items)
        BY <3>1 DEF Checkpoint, Continue, pass
      <4> QED BY <2>1, <4>1
    <3>2. CASE Declined
      <4>1. UNCHANGED planned \/ \E items : AskRunEnd(items) /\ ~Projects(items)
        BY <3>2 DEF Declined, Continue, pass
      <4> QED BY <2>1, <4>1
    <3>3. ASSUME NEW followUp \in BOOLEAN, HookEnds(followUp) PROVE planned' = <<>>
      BY <3>3 DEF HookEnds, Answered
    <3>4. CASE Summarised
      BY <3>4 DEF Summarised, Continue, pass
    <3>5. CASE StartRun \/ Overflow \/ Ends \/ Aborted
      BY <3>5 DEF StartRun, Overflow, Ends, Aborted, pass
    <3>6. CASE HookDropped
      BY <3>6 DEF HookDropped, Answered
    <3>7. ASSUME NEW cont \in {"need_assistant", "may_finish"}, Settle(cont)
          PROVE  UNCHANGED planned
      BY <3>7 DEF Settle, pass
    <3> QED BY <2>4, <3>1, <3>2, <3>3, <3>4, <3>5, <3>6, <3>7 DEF Drive
  <2> QED BY <2>2, <2>3, <2>4 DEF Next
<1>3. Notes \subseteq {i \in 1..Len(kinds') : kinds'[i] = "note"}
  <2>1. CASE kinds' = kinds
    BY <2>1
  <2>2. ASSUME NEW kind \in Kinds, kinds' = Append(kinds, kind)
        PROVE  Notes \subseteq {i \in 1..Len(kinds') : kinds'[i] = "note"}
    <3>1. Len(kinds') = Len(kinds) + 1 /\ \A i \in 1..Len(kinds) : kinds'[i] = kinds[i]
      BY <2>2, AppendProperties DEF Stock
    <3>2. \A i \in 1..Len(kinds) : i \in 1..(Len(kinds) + 1)
      BY <1>1
    <3> QED BY <3>1, <3>2
  <2>3. (kinds' = kinds) \/ \E kind \in Kinds : kinds' = Append(kinds, kind)
    <3>1. Effect
      BY StepEffect
    <3> QED BY <3>1 DEF Effect, Queues, Delivers, Withdraws, Takes, Answers, Stays, Kinds
  <2> QED BY <2>1, <2>2, <2>3
<1>4. planned' \in Seq(Notes)
  <2>1. planned \in Seq(Notes) /\ <<>> \in Seq(Notes)
    BY DEF Planned
  <2> QED BY <1>2, <2>1
<1> HIDE DEF Notes
<1>5. planned' \in Seq({i \in 1..Len(kinds') : kinds'[i] = "note"})
  BY <1>3, <1>4, Wider
<1> QED BY <1>5 DEF Planned

LEMMA InitHolds == Init => IInv
<1> SUFFICES ASSUME Init PROVE IInv
  OBVIOUS
<1>1. kinds = <<>> /\ Len(kinds) = 0 /\ inbox = <<>> /\ branch = <<>> /\ planned = <<>>
  BY DEF Init
<1>2. Stock
  BY <1>1 DEF Init, Stock, Rising
<1>3. Planned
  BY <1>1 DEF Planned
<1>4. Course
  BY DEF Init, Course, Leaves
<1> QED BY <1>2, <1>3, <1>4 DEF IInv

LEMMA Invariant == Spec => []IInv
<1>1. IInv /\ [Next]_vars => IInv'
  <2> SUFFICES ASSUME IInv, [Next]_vars PROVE IInv'
    OBVIOUS
  <2>1. Stock'
    BY StepEffect, StockKept DEF IInv
  <2>2. Course'
    BY CourseKept DEF IInv
  <2> QED BY <2>1, <2>2, PlannedKept DEF IInv
<1> QED BY <1>1, InitHolds, PTL DEF Spec

-----------------------------------------------------------------------------
(* What enters the conversation *)

\* What follows the old branch is the part that a step appended.
LEMMA NewEntries ==
    ASSUME Stock, NEW part \in Seq(Nat), NEW last \in Nat, NEW entry, Enters(entry)
    PROVE  /\ branch' = branch \o part => entry \in Items(part)
           /\ branch' = Append(branch \o part, last) => entry \in Items(part) \cup {last}
           /\ branch' # branch
<1>1. branch \in Seq(Nat) /\ Len(branch) \in Nat /\ Len(part) \in Nat
  <2>1. branch \in Seq(0..Len(kinds)) /\ 0..Len(kinds) \subseteq Nat
    BY InboxShape DEF Stock
  <2>2. branch \in Seq(Nat)
    BY <2>1, Wider
  <2> QED BY <2>2, LenProperties
<1>2. /\ branch \o part \in Seq(Nat) /\ Len(branch \o part) = Len(branch) + Len(part)
      /\ \A n \in 1..(Len(branch) + Len(part)) :
            (branch \o part)[n] = IF n <= Len(branch) THEN branch[n] ELSE part[n - Len(branch)]
  BY <1>1, ConcatProperties
<1>3. PICK n \in Len(branch) + 1..Len(branch') : branch'[n] = entry
  BY DEF Enters
<1>4. ASSUME NEW m \in Len(branch) + 1..(Len(branch) + Len(part))
      PROVE  (branch \o part)[m] \in Items(part)
  <2>1. m \in 1..(Len(branch) + Len(part)) /\ ~(m <= Len(branch)) /\ m - Len(branch) \in 1..Len(part)
    BY <1>1
  <2> QED BY <1>2, <2>1 DEF Items
<1>5. branch' = branch \o part => entry \in Items(part)
  BY <1>2, <1>3, <1>4
<1>6. ASSUME branch' = Append(branch \o part, last) PROVE entry \in Items(part) \cup {last}
  <2> DEFINE whole == branch \o part
  <2>1. /\ Len(branch') = Len(whole) + 1 /\ branch'[Len(whole) + 1] = last
        /\ \A m \in 1..Len(whole) : branch'[m] = whole[m]
    BY <1>2, <1>6, AppendProperties
  <2>2. CASE n = Len(whole) + 1
    BY <1>3, <2>1, <2>2
  <2>3. CASE n # Len(whole) + 1
    <3>1. n \in Len(branch) + 1..(Len(branch) + Len(part)) /\ n \in 1..Len(whole)
      BY <1>1, <1>2, <1>3, <2>1, <2>3
    <3> QED BY <1>3, <1>4, <2>1, <3>1
  <2> QED BY <2>2, <2>3
<1>7. branch' # branch
  BY <1>1, <1>3
<1> QED BY <1>5, <1>6, <1>7

\* Steps other than the hook's answer place items of the inbox, or a write of their own.
LEMMA OnlyItemsEnter ==
    ASSUME IInv, Effect, NEW entry, Enters(entry)
    PROVE  \/ \E kind \in Writes : Delivers(kind) /\ entry \in 1..(Len(kinds) + 1)
           \/ \E items \in SUBSET Items(inbox) : Takes(items) /\ entry \in items
           \/ \E items \in SUBSET Items(inbox) : Answers(items) /\ entry \in items \cup {FollowUp}
<1> USE DEF IInv
<1>1. Len(kinds) \in Nat /\ Items(inbox) \subseteq 1..Len(kinds)
  BY InboxShape
<1>2. ASSUME NEW items
      PROVE  InInbox(items) \in Seq(Nat) /\ Items(InInbox(items)) = Items(inbox) \cap items
  <2>1. InInbox(items) \in Seq(1..Len(kinds)) /\ 1..Len(kinds) \subseteq Nat
    <3>1. 1..Len(kinds) \subseteq Nat
      BY <1>1
    <3> QED BY <3>1, InboxParts
  <2>2. InInbox(items) \in Seq(Nat)
    BY <2>1, Wider
  <2> QED BY <2>2, InboxParts
<1>3. branch' # branch
  <2>1. <<>> \in Seq(Nat) /\ 0 \in Nat
    OBVIOUS
  <2> QED BY <2>1, NewEntries
<1>4. ASSUME NEW kind \in Writes, Delivers(kind) PROVE entry \in 1..(Len(kinds) + 1)
  <2>1. Len(kinds) + 1 \in Nat /\ branch' = Append(branch \o InInbox(QueuedWrites), Len(kinds) + 1)
    BY <1>1, <1>4 DEF Delivers
  <2>2. entry \in (Items(inbox) \cap QueuedWrites) \cup {Len(kinds) + 1}
    BY <1>2, <2>1, NewEntries
  <2>3. \A n \in Nat : 1..n \subseteq 1..(n + 1) /\ n + 1 \in 1..(n + 1)
    OBVIOUS
  <2> QED BY <1>1, <2>2, <2>3
<1>5. ASSUME NEW items \in SUBSET Items(inbox), Takes(items) PROVE entry \in items
  <2>1. branch' = branch \o InInbox(items) /\ 0 \in Nat
    BY <1>5 DEF Takes, Place
  <2> QED BY <1>2, <2>1, NewEntries
<1>6. ASSUME NEW items \in SUBSET Items(inbox), Answers(items) PROVE entry \in items \cup {FollowUp}
  <2>1. branch' = Append(branch \o InInbox(items), FollowUp) /\ FollowUp \in Nat
    BY <1>6 DEF Answers, FollowUp
  <2> QED BY <1>2, <2>1, NewEntries
<1> QED BY <1>3, <1>4, <1>5, <1>6 DEF Effect, Queues, Withdraws, Stays

-----------------------------------------------------------------------------
(* The theorems *)

\* The state is well formed, a finish waits for the hook only where the run may
\* finish, and it was planned with nothing but notes (planBoundaryInbox).
THEOREM TypeCorrect == Spec => []TypeOK
<1>1. IInv => TypeOK
  BY DEF IInv, Stock, Course, Planned, TypeOK
<1> QED BY <1>1, Invariant, PTL

\* A run that finishes, or goes on with the hook's message, leaves nothing queued
\* but for the next run, however much arrived while the hook was asked:
\* finishRunBoundary plans again.
THEOREM FinishLeavesNothing == Spec => NothingLeftBehind
<1>1. ASSUME IInv, [Next]_vars, asking, leaf' = "none" \/ Enters(FollowUp),
             NEW i \in Items(inbox')
      PROVE  kinds[i] = "nextRun"
  <2> USE DEF IInv
  <2>1. Effect /\ resume = "may_finish"
    BY <1>1, StepEffect DEF Course
  <2>2. FollowUp \notin Items(inbox)
    BY <1>1, InboxShape DEF FollowUp
  <2>3. \E items \in SUBSET Items(inbox) :
           items = Due(TRUE) /\ ~Projects(items) /\ inbox' = Without(items)
    <3>1. CASE leaf' = "none"
      BY <1>1, <2>1, <3>1 DEF Effect, Takes, Answers, Place
    <3>2. CASE Enters(FollowUp)
      <4>1. ~\E kind \in Writes : Delivers(kind)
        BY <1>1 DEF Delivers, Idle, Course
      <4> QED BY <1>1, <2>1, <2>2, <3>2, <4>1, OnlyItemsEnter DEF Answers
    <3> QED BY <1>1, <3>1, <3>2
  <2>4. Items(inbox') = Items(inbox) \ Due(TRUE)
    BY <1>1, <2>3, InboxParts
  <2> QED BY <1>1, <2>1, <2>3, <2>4, DueShape
<1>2. IInv /\ [Next]_vars =>
          [asking /\ (leaf' = "none" \/ Enters(FollowUp))
              => \A i \in Items(inbox') : kinds[i] = "nextRun"]_vars
  BY <1>1
<1> QED BY <1>2, Invariant, PTL DEF Spec, NothingLeftBehind

\* The hook's message enters directly behind what the hook was shown: an answer
\* to a plan that was overtaken is dropped (hookPlanIsCurrent).
THEOREM AnswerIsCurrent == Spec => HookAnswersWhatItSaw
<1>1. ASSUME IInv, [Next]_vars, Enters(FollowUp)
      PROVE  branch' = Append(branch \o planned, FollowUp)
  <2>1. Effect
    BY <1>1, StepEffect
  <2>2. FollowUp \notin Items(inbox) /\ FollowUp \notin 1..(Len(kinds) + 1)
    BY <1>1, InboxShape DEF IInv, FollowUp
  <2>3. \E items \in SUBSET Items(inbox) : Answers(items)
    BY <1>1, <2>1, <2>2, OnlyItemsEnter
  <2> QED BY <2>3 DEF Answers
<1>2. IInv /\ [Next]_vars =>
          [Enters(FollowUp) => branch' = Append(branch \o planned, FollowUp)]_vars
  BY <1>1
<1> QED BY <1>2, Invariant, PTL DEF Spec, HookAnswersWhatItSaw

\* In the middle of a run no message of the next run enters, and a follow-up only
\* when nothing queued would continue the run without it (planBoundaryInbox).
THEOREM EntersInTurn == Spec => PlacedInTurn
<1>1. ASSUME IInv, [Next]_vars, ~Idle, NEW i \in Items(inbox), Enters(i)
      PROVE  /\ kinds[i] # "nextRun"
             /\ kinds[i] = "followUp" =>
                   resume = "may_finish" /\ ~\E j \in Items(inbox) : kinds[j] \in {"steer", "write"}
  <2>1. Effect
    BY <1>1, StepEffect
  <2>2. i # FollowUp
    BY <1>1, InboxShape DEF IInv, FollowUp
  <2>3. \E items \in SUBSET Items(inbox) : (Takes(items) \/ Answers(items)) /\ i \in items
    BY <1>1, <2>1, <2>2, OnlyItemsEnter DEF Delivers
  <2> QED BY <1>1, <2>3 DEF Takes, Answers, MidRun
<1>2. IInv /\ [Next]_vars =>
          [~Idle => \A i \in Items(inbox) : Enters(i) =>
              /\ kinds[i] # "nextRun"
              /\ kinds[i] = "followUp" =>
                    resume = "may_finish"
                    /\ ~\E j \in Items(inbox) : kinds[j] \in {"steer", "write"}]_vars
  BY <1>1
<1> QED BY <1>2, Invariant, PTL DEF Spec, PlacedInTurn

\* Only an operation can be cancelled: its marker leaves with it.
MarkerHasOwner == cancelled \in BOOLEAN /\ (cancelled => leaf # "none")

LEMMA MarkerOwned == Spec => []MarkerHasOwner
<1>1. Init => MarkerHasOwner
  BY DEF Init, MarkerHasOwner
<1>2. MarkerHasOwner /\ [Next]_vars => MarkerHasOwner'
  <2> SUFFICES ASSUME MarkerHasOwner, [Next]_vars PROVE MarkerHasOwner'
    OBVIOUS
  <2>1. CASE Client
    <3>1. ASSUME NEW kind \in Kinds, Enqueue(kind) \/ AppendEntry(kind) PROVE MarkerHasOwner'
      BY <3>1 DEF Enqueue, AppendEntry, MarkerHasOwner, op
    <3>2. ASSUME NEW i \in Items(inbox), CancelQueued(i) PROVE MarkerHasOwner'
      BY <3>2 DEF CancelQueued, MarkerHasOwner, op
    <3>3. ASSUME RequestAbort PROVE MarkerHasOwner'
      BY <3>3 DEF RequestAbort, Idle, MarkerHasOwner
    <3>4. ASSUME NEW m \in Modes, NEW prompt \in BOOLEAN, AcceptRun(m, prompt) PROVE MarkerHasOwner'
      BY <3>4 DEF AcceptRun, MarkerHasOwner
    <3>5. ASSUME AcceptStructural PROVE MarkerHasOwner'
      BY <3>5 DEF AcceptStructural, MarkerHasOwner
    <3> QED BY <2>1, <3>1, <3>2, <3>3, <3>4, <3>5 DEF Client
  <2>2. CASE Drive
    <3>1. ASSUME NEW next \in Leaves \ {"none"}, NEW cont, Move(next, cont) PROVE MarkerHasOwner'
      BY <3>1 DEF Move, MarkerHasOwner
    <3>2. ASSUME Leave PROVE MarkerHasOwner'
      BY <3>2 DEF Leave, MarkerHasOwner
    <3>3. ASSUME NEW items, AskRunEnd(items) PROVE MarkerHasOwner'
      BY <3>3 DEF AskRunEnd, MarkerHasOwner, op
    <3>4. ASSUME HookDropped PROVE MarkerHasOwner'
      BY <3>4 DEF HookDropped, MarkerHasOwner, op
    <3>5. {"busy", "checkpoint", "threshold", "overflow"} \subseteq Leaves \ {"none"}
      BY DEF Leaves
    <3>6. ASSUME NEW items, Continue(items) PROVE MarkerHasOwner'
      BY <3>1, <3>5, <3>6 DEF Continue
    <3>7. ASSUME NEW threshold \in BOOLEAN, Checkpoint(threshold) PROVE MarkerHasOwner'
      BY <3>1, <3>3, <3>5, <3>6, <3>7 DEF Checkpoint
    <3>8. ASSUME Summarised \/ Declined PROVE MarkerHasOwner'
      BY <3>1, <3>3, <3>5, <3>6, <3>8 DEF Summarised, Declined
    <3>9. ASSUME NEW followUp \in BOOLEAN, HookEnds(followUp) PROVE MarkerHasOwner'
      BY <3>1, <3>2, <3>5, <3>9 DEF HookEnds
    <3>10. ASSUME NEW cont \in {"need_assistant", "may_finish"}, Settle(cont) PROVE MarkerHasOwner'
      BY <3>1, <3>5, <3>10 DEF Settle
    <3>11. ASSUME StartRun \/ Overflow PROVE MarkerHasOwner'
      BY <3>1, <3>5, <3>11 DEF StartRun, Overflow
    <3>12. ASSUME Ends \/ Aborted PROVE MarkerHasOwner'
      BY <3>2, <3>12 DEF Ends, Aborted
    <3> QED BY <2>2, <3>4, <3>7, <3>8, <3>9, <3>10, <3>11, <3>12 DEF Drive
  <2>3. CASE UNCHANGED vars
    BY <2>3 DEF vars, MarkerHasOwner
  <2> QED BY <2>1, <2>2, <2>3 DEF Next
<1> QED BY <1>1, <1>2, PTL DEF Spec

\* No planner of a cancelled operation places anything, and an idle append finds
\* the lane busy with it.
THEOREM CancelledConsumesNothing == Spec => CancelledPlacesNothing
<1>1. ASSUME MarkerHasOwner, [Next]_vars, cancelled PROVE branch' = branch
  <2> USE <1>1
  <2>1. CASE Client
    <3>1. ASSUME NEW kind \in Kinds, Enqueue(kind) \/ AppendEntry(kind) PROVE branch' = branch
      BY <3>1 DEF Enqueue, AppendEntry, Idle, MarkerHasOwner
    <3> QED BY <2>1, <3>1 DEF Client, CancelQueued, RequestAbort, AcceptRun, AcceptStructural, Idle, MarkerHasOwner
  <2>2. CASE Drive
    <3>1. ~Running
      BY DEF Running
    <3>2. ASSUME NEW stage, At(stage) PROVE FALSE
      BY <3>1, <3>2 DEF At
    <3>3. ASSUME NEW threshold \in BOOLEAN PROVE ~Checkpoint(threshold)
      BY <3>2 DEF Checkpoint
    <3>4. ASSUME NEW followUp \in BOOLEAN PROVE ~HookEnds(followUp)
      BY <3>1 DEF HookEnds
    <3>5. ~StartRun /\ ~Summarised /\ ~Declined /\ ~Overflow /\ ~Ends
      BY <3>2 DEF StartRun, Summarised, Declined, Overflow, Ends
    <3> QED BY <2>2, <3>3, <3>4, <3>5 DEF Drive, HookDropped, Settle, Aborted, Keep
  <2>3. CASE UNCHANGED vars
    BY <2>3 DEF vars
  <2> QED BY <2>1, <2>2, <2>3 DEF Next
<1>2. MarkerHasOwner /\ [Next]_vars => [cancelled => branch' = branch]_vars
  BY <1>1
<1> QED BY <1>2, MarkerOwned, PTL DEF Spec, CancelledPlacesNothing

-----------------------------------------------------------------------------
(* Refinement *)

\* The items of the branch, without the messages of the hook.
Placed(sequence) == Kept(sequence, Nat \ {FollowUp})

\* Items appended to the branch are placed, a message of the hook is not.
LEMMA PlacedAfter ==
    ASSUME NEW s \in Seq(Nat), NEW t \in Seq(Nat \ {FollowUp})
    PROVE  /\ Placed(s) \in Seq(Nat)
           /\ Placed(s \o t) = Placed(s) \o t
           /\ Placed(Append(s \o t, FollowUp)) = Placed(s) \o t
<1>1. t \in Seq(Nat) /\ FollowUp \in Nat /\ s \o t \in Seq(Nat) /\ <<FollowUp>> \in Seq(Nat)
  <2>1. Nat \ {FollowUp} \subseteq Nat /\ FollowUp \in Nat
    BY DEF FollowUp
  <2>2. t \in Seq(Nat)
    BY <2>1, Wider
  <2>3. <<FollowUp>> \in Seq(Nat)
    BY <2>1
  <2> QED BY <2>1, <2>2, <2>3, ConcatProperties
<1>2. Placed(t) = t
  <2>1. Nat \ {FollowUp} \subseteq Nat \ {FollowUp}
    OBVIOUS
  <2> QED BY <2>1, KeptAll DEF Placed
<1>3. ASSUME NEW v \in Seq(Nat), NEW w \in Seq(Nat) PROVE Placed(v \o w) = Placed(v) \o Placed(w)
  <2> DEFINE placed == Nat \ {FollowUp}
  <2>0. \A items : Kept(v \o w, items) = Kept(v, items) \o Kept(w, items)
    BY KeptConcat
  <2> HIDE DEF placed
  <2>1. Kept(v \o w, placed) = Kept(v, placed) \o Kept(w, placed)
    BY <2>0, Zenon
  <2> QED BY <2>1, Zenon DEF Placed, placed
<1>4. Placed(<<FollowUp>>) = <<>>
  <2> DEFINE one == <<FollowUp>>
  <2>1. one \in Seq({FollowUp}) /\ {FollowUp} \cap (Nat \ {FollowUp}) = {}
    OBVIOUS
  <2> HIDE DEF one
  <2>2. Kept(one, Nat \ {FollowUp}) = <<>>
    BY <2>1, KeptNone
  <2> QED BY <2>2 DEF Placed, one
<1>5. Append(s \o t, FollowUp) = (s \o t) \o <<FollowUp>>
  BY <1>1, AppendIsConcat
<1>6. Placed(s \o t) = Placed(s) \o t
  BY <1>1, <1>2, <1>3
<1>7. ASSUME NEW v \in Seq(Nat) PROVE Placed(v) \in Seq(Nat)
  <2>1. Placed(v) \in Seq(Nat \cap (Nat \ {FollowUp}))
    BY KeptProperties DEF Placed
  <2>2. Nat \cap (Nat \ {FollowUp}) \subseteq Nat
    OBVIOUS
  <2> QED BY <2>1, <2>2, Wider
<1>8. Placed(Append(s \o t, FollowUp)) = Placed(s \o t)
  <2>1. Placed((s \o t) \o <<FollowUp>>) = Placed(s \o t) \o Placed(<<FollowUp>>)
    BY <1>1, <1>3, Zenon
  <2>2. Placed(s \o t) \o <<>> = Placed(s \o t)
    BY <1>1, <1>7, ConcatEmptySeq
  <2> QED BY <1>4, <1>5, <2>1, <2>2, Zenon
<1> QED BY <1>6, <1>7, <1>8, Zenon

\* A rising list behind what was placed before.
LEMMA RisingEnters ==
    ASSUME NEW t \in Seq(Nat), Rising(t), Placed(branch) \in Seq(Nat),
           Placed(branch') = Placed(branch) \o t,
           NEW waiting, NEW known, Items(t) \subseteq waiting,
           \A i \in Items(t), j \in waiting \ Items(t) : known[i] = known[j] => i < j,
           Items(inbox') = waiting \ Items(t)
    PROVE  Mailbox!Enter(Items(t), waiting, known)
<1> DEFINE before == Placed(branch)
           after == Placed(branch')
           new == (Len(before) + 1)..Len(after)
<1>1. /\ Len(before) \in Nat /\ Len(t) \in Nat /\ Len(after) = Len(before) + Len(t)
      /\ \A n \in 1..(Len(before) + Len(t)) :
            after[n] = IF n <= Len(before) THEN before[n] ELSE t[n - Len(before)]
  BY ConcatProperties, LenProperties
<1> HIDE DEF before, after
<1>2. \A n \in 1..Len(before) : n <= Len(after) /\ after[n] = before[n]
  BY <1>1
<1>3. ASSUME NEW n \in new
      PROVE  n - Len(before) \in 1..Len(t) /\ after[n] = t[n - Len(before)]
  BY <1>1
<1>4. {after[n] : n \in new} = Items(t)
  <2>1. ASSUME NEW k \in 1..Len(t) PROVE \E n \in new : after[n] = t[k]
    <3>1. Len(before) + k \in new /\ (Len(before) + k) - Len(before) = k
      BY <1>1
    <3> QED BY <1>3, <3>1
  <2>2. \A n \in new : after[n] \in Items(t)
    BY <1>3 DEF Items
  <2>3. ASSUME NEW x \in Items(t) PROVE x \in {after[n] : n \in new}
    <3>1. PICK k \in 1..Len(t) : x = t[k]
      BY DEF Items
    <3> QED BY <2>1, <3>1
  <2>4. ASSUME NEW x \in {after[n] : n \in new} PROVE x \in Items(t)
    BY <2>2
  <2> HIDE DEF new
  <2> QED BY <2>3, <2>4
<1>5. ASSUME NEW m \in new, NEW n \in new, m < n PROVE after[m] < after[n]
  <2>1. m - Len(before) < n - Len(before)
    BY <1>1, <1>5
  <2> QED BY <1>3, <2>1 DEF Rising
<1> QED BY <1>2, <1>4, <1>5 DEF Mailbox!Enter, Placed, before, after

\* A planner's step, and the hook's answer, are one placement of the mailbox.
LEMMA TakenRefines ==
    ASSUME Stock, NEW items \in SUBSET Items(inbox), InTurn(items),
           inbox' = Without(items), UNCHANGED <<kinds, withdrawn>>,
           branch' = branch \o InInbox(items)
              \/ branch' = Append(branch \o InInbox(items), FollowUp)
    PROVE  Mailbox!Place
<1>1. /\ branch \in Seq(Nat)
      /\ InInbox(items) \in Seq(Nat \ {FollowUp}) /\ InInbox(items) \in Seq(Nat)
      /\ Items(InInbox(items)) = items /\ Rising(InInbox(items))
      /\ Items(inbox') = Items(inbox) \ items
  <2>1. /\ Len(kinds) \in Nat /\ branch \in Seq(0..Len(kinds)) /\ 0..Len(kinds) \subseteq Nat
        /\ 1..Len(kinds) \subseteq Nat \ {FollowUp} /\ 1..Len(kinds) \subseteq Nat
    BY InboxShape DEF Stock, FollowUp
  <2>2. /\ InInbox(items) \in Seq(1..Len(kinds)) /\ Rising(InInbox(items))
        /\ Items(InInbox(items)) = Items(inbox) \cap items
        /\ Items(inbox') = Items(inbox) \ items
    BY InboxParts
  <2>3. Items(inbox) \cap items = items
    OBVIOUS
  <2> QED BY <2>1, <2>2, <2>3, Wider
<1>2. Placed(branch') = Placed(branch) \o InInbox(items) /\ Placed(branch) \in Seq(Nat)
  BY <1>1, PlacedAfter
<1>3. Mailbox!Enter(items, Items(inbox), kinds)
  BY <1>1, <1>2, RisingEnters DEF InTurn
<1> QED BY <1>3 DEF Mailbox!Place

\* An append to an idle lane arrives and is placed at once, behind the queued writes.
LEMMA DeliveredRefines ==
    ASSUME Stock, NEW kind \in Writes, Delivers(kind) PROVE Mailbox!Deliver(kind)
<1> DEFINE new == Len(kinds) + 1
           items == QueuedWrites \cup {new}
           list == Append(InInbox(QueuedWrites), new)
<1>1. /\ Len(kinds) \in Nat /\ Items(inbox) \subseteq 1..Len(kinds) /\ branch \in Seq(Nat)
      /\ kinds' = Append(kinds, kind) /\ kind \in Kinds /\ kinds \in Seq(Kinds)
      /\ branch' = Append(branch \o InInbox(QueuedWrites), new)
      /\ inbox' = Without(QueuedWrites) /\ withdrawn' = withdrawn
  <2>1. branch \in Seq(0..Len(kinds)) /\ 0..Len(kinds) \subseteq Nat
    BY InboxShape DEF Stock
  <2> QED BY <2>1, InboxShape, Wider DEF Delivers, Stock, Kinds
<1>2. /\ InInbox(QueuedWrites) \in Seq(1..Len(kinds)) /\ Rising(InInbox(QueuedWrites))
      /\ Items(InInbox(QueuedWrites)) = QueuedWrites
      /\ Items(inbox') = Items(inbox) \ QueuedWrites
  <2>1. Items(inbox) \cap QueuedWrites = QueuedWrites
    BY DEF QueuedWrites
  <2> QED BY <1>1, <2>1, InboxParts
<1>3. /\ new \in Nat \ {FollowUp} /\ new \notin Items(inbox)
      /\ InInbox(QueuedWrites) \in Seq(Nat \ {FollowUp})
  <2>1. 1..Len(kinds) \subseteq Nat \ {FollowUp} /\ new \in Nat \ {FollowUp} /\ new \notin 1..Len(kinds)
    BY <1>1 DEF FollowUp
  <2> QED BY <1>1, <1>2, <2>1, Wider
<1> DEFINE I == InInbox(QueuedWrites)
<1> HIDE DEF new, I
<1>4. /\ list \in Seq(Nat \ {FollowUp}) /\ list \in Seq(Nat) /\ Len(list) = Len(I) + 1
      /\ Len(I) \in Nat
      /\ \A n \in 1..Len(I) : list[n] = I[n]
      /\ list[Len(I) + 1] = new
  <2>1. I \in Seq(Nat \ {FollowUp}) /\ list = Append(I, new)
    BY <1>3 DEF I
  <2>2. Nat \ {FollowUp} \subseteq Nat
    OBVIOUS
  <2>3. list \in Seq(Nat \ {FollowUp})
    BY <1>3, <2>1, AppendProperties
  <2>4. list \in Seq(Nat)
    BY <2>2, <2>3, Wider
  <2> QED BY <1>3, <2>1, <2>3, <2>4, AppendProperties, LenProperties
<1>5. I \in Seq(1..Len(kinds)) /\ Rising(I) /\ Items(I) = QueuedWrites
  BY <1>2 DEF I
<1> HIDE DEF list
<1>6. Rising(list)
  <2>1. ASSUME NEW i \in 1..Len(list), NEW j \in 1..Len(list), i < j PROVE list[i] < list[j]
    <3>1. i \in 1..Len(I)
      BY <1>4, <2>1
    <3>2. I[i] \in 1..Len(kinds)
      BY <1>5, <3>1, ElementOfSeq
    <3>3. CASE j \in 1..Len(I)
      BY <1>4, <1>5, <2>1, <3>1, <3>3 DEF Rising
    <3>4. CASE j = Len(I) + 1
      <4>1. list[i] = I[i] /\ list[j] = Len(kinds) + 1
        BY <1>4, <3>1, <3>4 DEF new
      <4> QED BY <1>1, <3>2, <4>1
    <3> QED BY <1>4, <3>3, <3>4
  <2> QED BY <2>1 DEF Rising
<1>7. Items(list) = items
  <2>1. \A x : x \in Items(list) <=> x \in Items(I) \/ x = new
    BY <1>4 DEF Items
  <2> QED BY <1>5, <2>1
<1>8. Placed(branch) \in Seq(Nat) /\ Placed(branch') = Placed(branch) \o list
  <2>1. branch' = branch \o list
    <3>1. I \in Seq(Nat) /\ new \in Nat /\ <<new>> \in Seq(Nat) /\ branch \in Seq(Nat)
      <4>1. 1..Len(kinds) \subseteq Nat
        BY <1>1
      <4>2. I \in Seq(Nat)
        BY <1>5, <4>1, Wider
      <4> QED BY <1>1, <1>3, <4>2
    <3>2. branch \o I \in Seq(Nat)
      BY <3>1, ConcatProperties
    <3>3. Append(branch \o I, new) = (branch \o I) \o <<new>>
      BY <3>1, <3>2, AppendIsConcat
    <3>4. (branch \o I) \o <<new>> = branch \o (I \o <<new>>)
      BY <3>1, ConcatAssociative
    <3>5. list = I \o <<new>>
      BY <3>1, AppendIsConcat DEF list, I
    <3> QED BY <1>1, <3>3, <3>4, <3>5 DEF I
  <2> QED BY <1>1, <1>4, <2>1, PlacedAfter
<1>9. ASSUME NEW i \in items, NEW j \in (Items(inbox) \cup {new}) \ items
       PROVE  kinds'[i] # kinds'[j]
  <2>1. kinds'[new] = kind /\ \A n \in 1..Len(kinds) : kinds'[n] = kinds[n]
    BY <1>1, AppendProperties DEF new
  <2>2. j \in Items(inbox) /\ kinds[j] \notin Writes
    BY DEF QueuedWrites
  <2>3. kinds'[j] \notin Writes
    BY <1>1, <2>1, <2>2
  <2>4. kinds'[i] \in Writes
    <3>1. CASE i = new
      BY <2>1, <3>1
    <3>2. CASE i \in QueuedWrites
      BY <1>1, <2>1, <3>2 DEF QueuedWrites
    <3> QED BY <3>1, <3>2
  <2> QED BY <2>3, <2>4
<1>10. /\ items \subseteq Items(inbox) \cup {new} /\ new \in items
       /\ Items(inbox') = (Items(inbox) \cup {new}) \ items
  BY <1>2, <1>3 DEF QueuedWrites
<1>11. Mailbox!Enter(items, Items(inbox) \cup {new}, kinds')
  <2> HIDE DEF items
  <2> QED BY <1>4, <1>6, <1>7, <1>8, <1>9, <1>10, RisingEnters
<1> QED BY <1>1, <1>10, <1>11 DEF Mailbox!Deliver, new

LEMMA StepRefines == ASSUME IInv, [Next]_vars PROVE [Mailbox!Next]_(Mailbox!vars)
<1> USE DEF IInv
<1>0. Effect
  BY StepEffect
<1>1. ASSUME NEW kind \in Kinds, Queues(kind) PROVE Mailbox!Offer(kind)
  <2>1. /\ inbox \in Seq(Nat) /\ Len(kinds) + 1 \in Nat /\ inbox' = Append(inbox, Len(kinds) + 1)
    BY <1>1, InboxShape DEF Queues
  <2>2. /\ Len(inbox) \in Nat /\ Len(inbox') = Len(inbox) + 1
        /\ \A n \in 1..Len(inbox) : inbox'[n] = inbox[n]
        /\ inbox'[Len(inbox) + 1] = Len(kinds) + 1
    BY <2>1, AppendProperties, LenProperties
  <2>3. Items(inbox') = Items(inbox) \cup {Len(kinds) + 1}
    <3>1. \A x : x \in Items(inbox') <=> x \in Items(inbox) \/ x = Len(kinds) + 1
      BY <2>2 DEF Items
    <3> QED BY <3>1
  <2> QED BY <1>1, <2>3 DEF Queues, Mailbox!Offer
<1>2. ASSUME NEW kind \in Writes, Delivers(kind) PROVE Mailbox!Next
  BY <1>2, DeliveredRefines DEF Mailbox!Next, Kinds
<1>3. ASSUME NEW items \in SUBSET Items(inbox), Withdraws(items) PROVE Mailbox!Withdraw
  <2>1. Items(inbox') = Items(inbox) \ items
    BY <1>3, InboxParts DEF Withdraws
  <2> QED BY <1>3, <2>1 DEF Withdraws, Mailbox!Withdraw
<1>4. ASSUME NEW items \in SUBSET Items(inbox), Takes(items) \/ Answers(items) PROVE Mailbox!Place
  BY <1>4, TakenRefines DEF Takes, Answers, Place
<1>5. CASE Stays
  BY <1>5 DEF Stays, Mailbox!vars
<1> QED BY <1>0, <1>1, <1>2, <1>3, <1>4, <1>5 DEF Effect, Mailbox!Next

\* The inbox and the branch are an ordered mailbox: what arrives enters the
\* conversation once, in its turn, or is withdrawn (planBoundaryInbox, and the
\* removal of its items are one mutation).
THEOREM ImplementsMailbox == Spec => RefinesMailbox
<1>1. Init => Mailbox!Init
  <2> SUFFICES ASSUME Init PROVE Mailbox!Init
    OBVIOUS
  <2>1. kinds = <<>> /\ inbox = <<>> /\ branch = <<>> /\ withdrawn = {}
    BY DEF Init
  <2>2. Items(inbox) = {}
    BY <2>1 DEF Items
  <2>3. Kept(branch, Nat \ {FollowUp}) = <<>>
    <3> DEFINE none == {}
               empty == <<>>
               placed == Nat \ {FollowUp}
    <3>1. empty \in Seq(none) /\ none \subseteq placed
      OBVIOUS
    <3> HIDE DEF none, empty, placed
    <3>2. Kept(empty, placed) = empty
      BY <3>1, KeptAll
    <3> QED BY <2>1, <3>2 DEF empty, placed
  <2> QED BY <2>1, <2>2, <2>3 DEF Mailbox!Init
<1>2. IInv /\ [Next]_vars => [Mailbox!Next]_(Mailbox!vars)
  BY StepRefines
<1> QED BY <1>1, <1>2, Invariant, PTL DEF Spec, RefinesMailbox, Mailbox!Spec

=============================================================================
