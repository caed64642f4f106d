---------------------------- MODULE ListsProofs -----------------------------
EXTENDS Lists, FiniteSetTheorems, FunctionTheorems, TLAPS

\* R puts the elements of S in a row.
StrictOrder(S, R) ==
  /\ \A i \in S : <<i, i>> \notin R
  /\ \A i, j \in S : i = j \/ <<i, j>> \in R \/ <<j, i>> \in R
  /\ \A i, j, k \in S : <<i, j>> \in R /\ <<j, k>> \in R => <<i, k>> \in R

\* What is earlier has fewer elements before it.
LEMMA EarlierHasFewer ==
  ASSUME NEW S, IsFiniteSet(S), NEW R, StrictOrder(S, R),
         NEW i \in S, NEW j \in S, <<i, j>> \in R
  PROVE  Cardinality(Ahead(S, R, i)) < Cardinality(Ahead(S, R, j))
<1>. DEFINE A == Ahead(S, R, i)
            B == Ahead(S, R, j)
<1>1. A \in SUBSET B /\ i \in B /\ i \notin A
  BY DEF StrictOrder, Ahead
<1>2. IsFiniteSet(B)
  <2>1. B \in SUBSET S
    BY DEF Ahead
  <2>. QED BY <2>1, FS_Subset
<1>. HIDE DEF A, B
<1>3. IsFiniteSet(A) /\ Cardinality(A) <= Cardinality(B) /\ Cardinality(A) # Cardinality(B)
  BY <1>1, <1>2, FS_Subset
<1>4. Cardinality(A) \in Nat /\ Cardinality(B) \in Nat
  BY <1>2, <1>3, FS_CardinalityType
<1>. QED BY <1>3, <1>4 DEF A, B

\* Every element has its place and every place its element.
LEMMA PlacesAreTaken ==
  ASSUME NEW S, IsFiniteSet(S), NEW R, StrictOrder(S, R)
  PROVE  /\ Cardinality(S) \in Nat
         /\ \A i \in S : Cardinality(Ahead(S, R, i)) + 1 \in 1..Cardinality(S)
         /\ \A k \in 1..Cardinality(S) : \E i \in S : Cardinality(Ahead(S, R, i)) = k - 1
<1>. DEFINE n == Cardinality(S)
            place == [i \in S |-> Cardinality(Ahead(S, R, i)) + 1]
<1>1. n \in Nat
  BY FS_CardinalityType
<1>2. ASSUME NEW i \in S PROVE place[i] \in 1..n
  <2>1. Ahead(S, R, i) \in SUBSET S /\ i \notin Ahead(S, R, i)
    BY DEF Ahead, StrictOrder
  <2>2. /\ IsFiniteSet(Ahead(S, R, i))
        /\ Cardinality(Ahead(S, R, i)) <= n
        /\ Cardinality(Ahead(S, R, i)) # n
    BY <2>1, FS_Subset
  <2>3. Cardinality(Ahead(S, R, i)) \in Nat
    BY <2>2, FS_CardinalityType
  <2>. QED BY <1>1, <2>2, <2>3
<1>3. ASSUME NEW i \in S PROVE Cardinality(Ahead(S, R, i)) \in Nat
  <2>1. Ahead(S, R, i) \in SUBSET S
    BY DEF Ahead
  <2>. QED BY <2>1, FS_Subset, FS_CardinalityType
<1>4. ASSUME NEW i \in S, NEW j \in S, place[i] = place[j] PROVE i = j
  <2>1. Cardinality(Ahead(S, R, i)) = Cardinality(Ahead(S, R, j))
    BY <1>3, <1>4
  <2>2. ~(<<i, j>> \in R) /\ ~(<<j, i>> \in R)
    BY <1>3, <2>1, EarlierHasFewer
  <2>. QED BY <2>2 DEF StrictOrder
<1>5. place \in Injection(S, 1..n)
  BY <1>2, <1>4, Fun_IsInj
<1>6. IsFiniteSet(1..n) /\ Cardinality(1..n) = n
  BY <1>1, FS_Interval
<1>7. place \in Surjection(S, 1..n)
  BY <1>5, <1>6, FS_Injection
<1>. HIDE DEF place, n
<1>8. \A k \in 1..n : \E i \in S : place[i] = k
  BY <1>7, Fun_SurjectionProperties
<1>. USE DEF place, n
<1>9. ASSUME NEW k \in 1..n PROVE \E i \in S : Cardinality(Ahead(S, R, i)) = k - 1
  <2>1. PICK i \in S : place[i] = k
    BY <1>8
  <2>. QED BY <1>3, <2>1
<1>. QED BY <1>1, <1>2, <1>9

-----------------------------------------------------------------------------
\* The list Ranked makes: each element once, in the order of R, at its place.
LEMMA RankedLists ==
  ASSUME NEW S, IsFiniteSet(S), NEW R, StrictOrder(S, R), NEW q, q = Ranked(S, R)
  PROVE  /\ Cardinality(S) \in Nat
         /\ q \in [1..Cardinality(S) -> S]
         /\ \A k \in 1..Cardinality(S) : Cardinality(Ahead(S, R, q[k])) = k - 1
         /\ \A i \in S : \E k \in 1..Cardinality(S) : q[k] = i
         /\ \A j, k \in 1..Cardinality(S) : <<q[j], q[k]>> \in R <=> j < k
         /\ \A j, k \in 1..Cardinality(S) : q[j] = q[k] => j = k
<1>. DEFINE n == Cardinality(S)
<1>1. /\ n \in Nat
      /\ \A i \in S : Cardinality(Ahead(S, R, i)) + 1 \in 1..n
      /\ \A k \in 1..n : \E i \in S : Cardinality(Ahead(S, R, i)) = k - 1
  BY PlacesAreTaken
<1>2. ASSUME NEW k \in 1..n PROVE q[k] \in S /\ Cardinality(Ahead(S, R, q[k])) = k - 1
  <2>1. q[k] = CHOOSE i \in S : Cardinality(Ahead(S, R, i)) = k - 1
    BY DEF Ranked
  <2>. QED BY <1>1, <2>1
<1>3. q \in [1..n -> S]
  BY <1>2 DEF Ranked
<1>4. ASSUME NEW i \in S PROVE Cardinality(Ahead(S, R, i)) \in Nat
  <2>1. Ahead(S, R, i) \in SUBSET S
    BY DEF Ahead
  <2>. QED BY <2>1, FS_Subset, FS_CardinalityType
<1>5. \A i, j \in S : <<i, j>> \in R =>
        Cardinality(Ahead(S, R, i)) < Cardinality(Ahead(S, R, j))
  BY EarlierHasFewer
<1>6. ASSUME NEW j \in 1..n, NEW k \in 1..n
      PROVE  /\ <<q[j], q[k]>> \in R <=> j < k
             /\ q[j] = q[k] => j = k
  <2>1. q[j] \in S /\ q[k] \in S
    BY <1>2
  <2>2. j - 1 = k - 1 => j = k
    OBVIOUS
  <2>3. q[j] = q[k] => j = k
    BY <1>2, <2>2
  <2>4. <<q[j], q[k]>> \in R => j < k
    <3>. SUFFICES ASSUME <<q[j], q[k]>> \in R PROVE j < k
      OBVIOUS
    <3>1. j - 1 < k - 1
      BY <1>2, <1>5, <2>1
    <3>. QED BY <3>1
  <2>5. <<q[k], q[j]>> \in R => k < j
    <3>. SUFFICES ASSUME <<q[k], q[j]>> \in R PROVE k < j
      OBVIOUS
    <3>1. k - 1 < j - 1
      BY <1>2, <1>5, <2>1
    <3>. QED BY <3>1
  <2>6. q[j] = q[k] \/ <<q[j], q[k]>> \in R \/ <<q[k], q[j]>> \in R
    BY <2>1 DEF StrictOrder
  <2>7. j < k => ~(k < j) /\ j # k
    OBVIOUS
  <2>. QED BY <2>3, <2>4, <2>5, <2>6, <2>7
<1>7. ASSUME NEW i \in S PROVE \E k \in 1..n : q[k] = i
  <2>. DEFINE k == Cardinality(Ahead(S, R, i)) + 1
  <2>1. k \in 1..n
    BY <1>1
  <2>2. Cardinality(Ahead(S, R, q[k])) = Cardinality(Ahead(S, R, i))
    <3>1. Cardinality(Ahead(S, R, q[k])) = k - 1
      BY <1>2, <2>1
    <3>. QED BY <1>4, <3>1
  <2>3. q[k] \in S
    BY <1>2, <2>1
  <2>4. ~(<<q[k], i>> \in R) /\ ~(<<i, q[k]>> \in R)
    BY <1>4, <1>5, <2>2, <2>3
  <2>5. q[k] = i
    BY <2>3, <2>4 DEF StrictOrder
  <2>. QED BY <2>1, <2>5
<1>. QED BY <1>1, <1>2, <1>3, <1>6, <1>7

Below(S, i) == {j \in S : j < i}

\* The elements of a finite set of numbers, in ascending order.
LEMMA InOrderLists ==
  ASSUME NEW S \in SUBSET Int, IsFiniteSet(S), NEW q, q = InOrder(S),
         NEW n, n = Cardinality(S)
  PROVE  /\ n \in Nat /\ q \in [1..n -> S]
         /\ q \in Seq(S) /\ Len(q) = n /\ DOMAIN q = 1..n
         /\ \A k \in 1..n : q[k] \in S
         /\ \A k \in 1..n : Cardinality(Below(S, q[k])) = k - 1
         /\ \A i \in S : \E k \in 1..n : q[k] = i
         /\ \A j, k \in 1..n : q[j] < q[k] <=> j < k
         /\ \A j, k \in 1..n : q[j] = q[k] => j = k
<1>. DEFINE R == Ascending(S)
<1>1. \A i, j \in S : <<i, j>> \in R <=> i < j
  BY DEF Ascending
<1>2. \A i \in S : Ahead(S, R, i) = Below(S, i)
  BY <1>1 DEF Ahead, Below
<1>3. \A i, j, k \in S : /\ ~(i < i)
                         /\ i = j \/ i < j \/ j < i
                         /\ i < j /\ j < k => i < k
  OBVIOUS
<1>4. StrictOrder(S, R)
  BY <1>1, <1>3 DEF StrictOrder
<1>5. q = Ranked(S, R)
  BY DEF InOrder
<1>. HIDE DEF R
<1>6. /\ n \in Nat
      /\ q \in [1..n -> S]
      /\ \A k \in 1..n : Cardinality(Ahead(S, R, q[k])) = k - 1
      /\ \A i \in S : \E k \in 1..n : q[k] = i
      /\ \A j, k \in 1..n : <<q[j], q[k]>> \in R <=> j < k
      /\ \A j, k \in 1..n : q[j] = q[k] => j = k
  BY <1>4, <1>5, RankedLists
<1>7. \A k \in 1..n : q[k] \in S
  BY <1>6
<1>8. q \in Seq(S) /\ Len(q) = n /\ DOMAIN q = 1..n
  BY <1>6
<1>9. \A j, k \in 1..n : q[j] < q[k] <=> j < k
  BY <1>1, <1>6, <1>7
<1>10. \A k \in 1..n : Cardinality(Below(S, q[k])) = k - 1
  BY <1>2, <1>6, <1>7
<1>. QED BY <1>6, <1>7, <1>8, <1>9, <1>10

LEMMA NumbersUpTo == \A n \in Nat : IsFiniteSet(1..n) /\ Cardinality(1..n) = n
  BY FS_Interval

\* The places of a list.
LEMMA PlacesOf ==
  ASSUME NEW T, NEW s \in Seq(T)
  PROVE  /\ Len(s) \in Nat /\ DOMAIN s = 1..Len(s) /\ DOMAIN s \in SUBSET Nat
         /\ IsFiniteSet(DOMAIN s) /\ Cardinality(DOMAIN s) = Len(s)
<1>1. \A n \in Nat : IsFiniteSet(1..n) /\ Cardinality(1..n) = n
  BY NumbersUpTo
<1>2. DOMAIN s = 1..Len(s) /\ Len(s) \in Nat
  OBVIOUS
<1>. QED BY <1>1, <1>2

\* What is picked out of a list: as many entries as positions, each the entry
\* of its position.
LEMMA FilteredLists ==
  ASSUME NEW T, NEW s \in Seq(T), NEW S \in SUBSET DOMAIN s
  PROVE  /\ IsFiniteSet(S) /\ Cardinality(S) \in Nat /\ Cardinality(S) <= Len(s)
         /\ DOMAIN InOrder(S) = 1..Cardinality(S)
         /\ Filtered(s, S) \in Seq(T) /\ Len(Filtered(s, S)) = Cardinality(S)
         /\ \A k \in 1..Cardinality(S) : InOrder(S)[k] \in S
         /\ \A k \in 1..Cardinality(S) : Filtered(s, S)[k] = s[InOrder(S)[k]]
<1>. DEFINE at == InOrder(S)
<1>1. IsFiniteSet(DOMAIN s) /\ Cardinality(DOMAIN s) = Len(s) /\ DOMAIN s = 1..Len(s)
  BY PlacesOf
<1>2. IsFiniteSet(S) /\ Cardinality(S) <= Len(s)
  BY <1>1, FS_Subset
<1>3. S \in SUBSET Int
  BY <1>1
<1>4. /\ Cardinality(S) \in Nat /\ DOMAIN at = 1..Cardinality(S)
      /\ \A k \in 1..Cardinality(S) : at[k] \in S
  BY <1>2, <1>3, InOrderLists
<1>. HIDE DEF at
<1>5. Filtered(s, S) = [k \in 1..Cardinality(S) |-> s[at[k]]]
  BY <1>4 DEF Filtered, at
<1>6. \A k \in 1..Cardinality(S) : s[at[k]] \in T
  BY <1>4
<1>. QED BY <1>2, <1>4, <1>5, <1>6 DEF at

\* A number above all others goes to the end.
LEMMA InOrderGrows ==
  ASSUME NEW S \in SUBSET Int, IsFiniteSet(S), NEW m \in Int, \A i \in S : i < m,
         NEW n, n = Cardinality(S)
  PROVE  /\ Cardinality(S \cup {m}) = n + 1
         /\ \A k \in 1..n : InOrder(S \cup {m})[k] = InOrder(S)[k]
         /\ InOrder(S \cup {m})[n + 1] = m
<1>. DEFINE T == S \cup {m}
            q == InOrder(S)
            r == InOrder(T)
<1>1. m \notin S /\ T \in SUBSET Int
  OBVIOUS
<1>2. IsFiniteSet(T) /\ Cardinality(T) = n + 1 /\ n \in Nat
  BY <1>1, FS_AddElement, FS_CardinalityType
<1>3. /\ \A k \in 1..n : q[k] \in S /\ Cardinality(Below(S, q[k])) = k - 1
  BY InOrderLists
<1>4. /\ \A k \in 1..(n + 1) : Cardinality(Below(T, r[k])) = k - 1
      /\ \A i \in T : \E k \in 1..(n + 1) : r[k] = i
  <2>1. r = InOrder(T)
    OBVIOUS
  <2>. HIDE DEF T, r
  <2>. QED BY ONLY <1>1, <1>2, <2>1, InOrderLists
<1>5. \A i \in S : Below(T, i) = Below(S, i)
  BY DEF Below
<1>6. Below(T, m) = S
  <2>1. ~(m < m)
    OBVIOUS
  <2>2. \A j : j \in Below(T, m) <=> j \in S
    BY <2>1 DEF Below
  <2>. QED BY <2>2 DEF Below
<1>7. \A i \in S : i \in T
  OBVIOUS
<1>8. m \in T
  OBVIOUS
<1>. HIDE DEF T, q, r
<1>9. ASSUME NEW k \in 1..n PROVE r[k] = q[k]
  <2>1. q[k] \in T /\ Cardinality(Below(T, q[k])) = k - 1
    BY <1>3, <1>5, <1>7
  <2>2. PICK j \in 1..(n + 1) : r[j] = q[k]
    BY <1>4, <2>1
  <2>3. Cardinality(Below(T, q[k])) = j - 1
    BY <1>4, <2>2
  <2>4. j = k
    BY <1>2, <2>1, <2>3
  <2>. QED BY <2>2, <2>4
<1>10. r[n + 1] = m
  <2>1. PICK j \in 1..(n + 1) : r[j] = m
    BY <1>4, <1>8
  <2>2. n = j - 1
    BY <1>4, <1>6, <2>1
  <2>3. j = n + 1
    BY <1>2, <2>2
  <2>. QED BY <2>1, <2>3
<1>. QED BY <1>2, <1>9, <1>10 DEF T, q, r

\* So one more entry of a list is picked out.
LEMMA FilteredGrows ==
  ASSUME NEW T, NEW s \in Seq(T), NEW S \in SUBSET DOMAIN s, NEW m \in DOMAIN s,
         \A i \in S : i < m
  PROVE  Filtered(s, S \cup {m}) = Append(Filtered(s, S), s[m])
<1>. DEFINE U == S \cup {m}
            n == Cardinality(S)
<1>1. /\ IsFiniteSet(S) /\ n \in Nat /\ Filtered(s, S) \in Seq(T) /\ Len(Filtered(s, S)) = n
      /\ \A k \in 1..n : Filtered(s, S)[k] = s[InOrder(S)[k]]
  BY FilteredLists
<1>2. U \in SUBSET DOMAIN s
  OBVIOUS
<1>3. /\ Filtered(s, U) \in Seq(T) /\ Len(Filtered(s, U)) = Cardinality(U)
      /\ \A k \in 1..Cardinality(U) : Filtered(s, U)[k] = s[InOrder(U)[k]]
  <2>. HIDE DEF U
  <2>. QED BY <1>2, FilteredLists
<1>4. S \in SUBSET Int /\ m \in Int
  BY PlacesOf
<1>5. /\ Cardinality(U) = n + 1
      /\ \A k \in 1..n : InOrder(U)[k] = InOrder(S)[k]
      /\ InOrder(U)[n + 1] = m
  BY <1>1, <1>4, InOrderGrows
<1>. HIDE DEF U, n
<1>6. \A k \in 1..n : Filtered(s, U)[k] = Filtered(s, S)[k]
  BY <1>1, <1>3, <1>5
<1>7. Filtered(s, U)[n + 1] = s[m]
  BY <1>1, <1>3, <1>5
<1>8. s[m] \in T
  OBVIOUS
<1>. DEFINE a == Filtered(s, S)
            b == Filtered(s, U)
<1>9. /\ a \in Seq(T) /\ Len(a) = n /\ b \in Seq(T) /\ Len(b) = n + 1
      /\ \A k \in 1..n : b[k] = a[k]
      /\ b[n + 1] = s[m]
  BY <1>1, <1>3, <1>5, <1>6, <1>7
<1>. HIDE DEF a, b
<1>10. b = Append(a, s[m])
  BY <1>1, <1>8, <1>9
<1>. QED BY <1>10 DEF a, b, U

=============================================================================
