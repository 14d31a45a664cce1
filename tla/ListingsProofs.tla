--------------------------- MODULE ListingsProofs ---------------------------
(***************************************************************************)
(* What Listing and Picked return.                                         *)
(***************************************************************************)
EXTENDS Listings, FiniteSetTheorems, SequenceTheorems, TLAPS

TotalOrder(R, S) ==
    /\ \A x \in S : <<x, x>> \in R
    /\ \A x, y \in S : <<x, y>> \in R \/ <<y, x>> \in R
    /\ \A x, y \in S : <<x, y>> \in R /\ <<y, x>> \in R => x = y
    /\ \A x, y, z \in S : <<x, y>> \in R /\ <<y, z>> \in R => <<x, z>> \in R

Below(x, S, R) == {y \in S : <<y, x>> \in R}
Rank(S, R) == [x \in S |-> Cardinality(Below(x, S, R))]

(* Each element of S has a rank of its own, and the ranks leave no gap.    *)
LEMMA RankFacts ==
    ASSUME NEW S, IsFiniteSet(S), NEW R, TotalOrder(R, S)
    PROVE  /\ Rank(S, R) \in Bijection(S, 1..Cardinality(S))
           /\ \A x, y \in S : Rank(S, R)[x] < Rank(S, R)[y] => <<x, y>> \in R
  <1> DEFINE B(x) == Below(x, S, R)
             rank == Rank(S, R)
             n == Cardinality(S)
  <1>1. n \in Nat
    BY FS_CardinalityType
  <1>2. ASSUME NEW x \in S
        PROVE  /\ IsFiniteSet(B(x)) /\ Cardinality(B(x)) \in 1..n
    <2>1. B(x) \in SUBSET S /\ x \in B(x)
      BY DEF Below, TotalOrder
    <2>2. IsFiniteSet(B(x)) /\ Cardinality(B(x)) <= n
      BY <2>1, FS_Subset
    <2>3. Cardinality(B(x)) \in Nat /\ Cardinality(B(x)) # 0
      BY <2>1, <2>2, FS_CardinalityType, FS_EmptySet
    <2> QED
      BY <1>1, <2>2, <2>3
  <1>3. ASSUME NEW x \in S, NEW y \in S, <<x, y>> \in R, x # y
        PROVE  Cardinality(B(x)) < Cardinality(B(y))
    <2>1. B(x) \in SUBSET B(y) /\ y \in B(y) /\ y \notin B(x)
      BY <1>3 DEF Below, TotalOrder
    <2>2. Cardinality(B(x)) <= Cardinality(B(y)) /\ Cardinality(B(x)) # Cardinality(B(y))
      BY <1>2, <2>1, FS_Subset
    <2> QED
      BY <1>2, <2>2
  <1>4. rank \in [S -> 1..n] /\ \A x \in S : rank[x] = Cardinality(B(x))
    BY <1>2 DEF Rank
  <1>5. \A x, y \in S : rank[x] = rank[y] => x = y
    <2> SUFFICES ASSUME NEW x \in S, NEW y \in S, x # y PROVE rank[x] # rank[y]
      OBVIOUS
    <2>1. <<x, y>> \in R \/ <<y, x>> \in R
      BY DEF TotalOrder
    <2> QED
      BY <1>2, <1>3, <1>4, <2>1
  <1>6. rank \in Injection(S, 1..n)
    BY <1>4, <1>5 DEF Injection, IsInjective
  <1>7. IsFiniteSet(1..n) /\ Cardinality(1..n) = n
    BY <1>1, FS_Interval
  <1>8. rank \in Surjection(S, 1..n)
    BY <1>6, <1>7, FS_Injection
  <1>9. \A x, y \in S : rank[x] < rank[y] => <<x, y>> \in R
    <2> SUFFICES ASSUME NEW x \in S, NEW y \in S, rank[x] < rank[y] PROVE <<x, y>> \in R
      OBVIOUS
    <2>1. x # y /\ ~(rank[y] < rank[x])
      BY <1>2, <1>4
    <2>2. <<x, y>> \in R \/ <<y, x>> \in R
      BY DEF TotalOrder
    <2> QED
      BY <1>3, <1>4, <2>1, <2>2
  <1> QED
    BY <1>6, <1>8, <1>9 DEF Bijection

(* A listing lists each element once, and in order.                        *)
LEMMA ListingFacts ==
    ASSUME NEW S, IsFiniteSet(S), NEW R, TotalOrder(R, S)
    PROVE  /\ Listing(S, R) \in Seq(S)
           /\ Len(Listing(S, R)) = Cardinality(S)
           /\ DOMAIN Listing(S, R) = 1..Cardinality(S)
           /\ Cardinality(S) \in Nat
           /\ \A k \in 1..Cardinality(S) : Listing(S, R)[k] \in S
           /\ \A x \in S : \E k \in 1..Cardinality(S) : Listing(S, R)[k] = x
           /\ \A k, l \in 1..Cardinality(S) :
                 k < l => /\ <<Listing(S, R)[k], Listing(S, R)[l]>> \in R
                          /\ Listing(S, R)[k] # Listing(S, R)[l]
  <1> DEFINE L == Listing(S, R)
             rank == Rank(S, R)
             n == Cardinality(S)
  <1>1. n \in Nat
    BY FS_CardinalityType
  <1>2. /\ rank \in [S -> 1..n]
        /\ \A x, y \in S : rank[x] = rank[y] => x = y
        /\ \A k \in 1..n : \E x \in S : rank[x] = k
        /\ \A x, y \in S : rank[x] < rank[y] => <<x, y>> \in R
    BY RankFacts DEF Bijection, Injection, Surjection, IsInjective
  <1>3. \A x \in S : rank[x] = Cardinality({y \in S : <<y, x>> \in R})
    BY DEF Rank, Below
  <1>4. ASSUME NEW k \in 1..n PROVE L[k] \in S /\ rank[L[k]] = k
    <2>1. L[k] = CHOOSE x \in S : Cardinality({y \in S : <<y, x>> \in R}) = k
      BY DEF Listing
    <2>2. \E x \in S : Cardinality({y \in S : <<y, x>> \in R}) = k
      BY <1>2, <1>3
    <2>3. L[k] \in S /\ Cardinality({y \in S : <<y, L[k]>> \in R}) = k
      BY <2>1, <2>2
    <2> QED
      BY <1>3, <2>3
  <1>5. L \in [1..n -> S]
    BY <1>4 DEF Listing
  <1>6. L \in Seq(S) /\ Len(L) = n /\ DOMAIN L = 1..n
    BY <1>1, <1>5, SeqDef, LenProperties
  <1>7. \A x \in S : L[rank[x]] = x /\ rank[x] \in 1..n
    BY <1>2, <1>4
  <1>8. \A k, l \in 1..n : k < l => <<L[k], L[l]>> \in R /\ L[k] # L[l]
    BY <1>1, <1>2, <1>4
  <1> QED
    BY <1>1, <1>4, <1>6, <1>7, <1>8

(* What is picked from a sequence are its elements at the given indexes,   *)
(* in their order.                                                         *)
LEMMA PickedFacts ==
    ASSUME NEW E, NEW s \in Seq(E), NEW I \in SUBSET DOMAIN s
    PROVE  \E at \in [1..Len(Picked(s, I)) -> I] :
              /\ Picked(s, I) \in Seq(E)
              /\ \A k \in 1..Len(Picked(s, I)) : Picked(s, I)[k] = s[at[k]]
              /\ \A i \in I : \E k \in 1..Len(Picked(s, I)) : at[k] = i
              /\ \A k, l \in 1..Len(Picked(s, I)) : k < l => at[k] < at[l]
  <1> DEFINE at == Listing(I, UpTo(I))
             n == Cardinality(I)
  <1>1. /\ Len(s) \in Nat /\ DOMAIN s = 1..Len(s) /\ s \in [1..Len(s) -> E]
    BY LenProperties
  <1>2. I \in SUBSET Int /\ IsFiniteSet(I)
    <2>1. I \in SUBSET (1..Len(s))
      BY <1>1
    <2>2. IsFiniteSet(1..Len(s))
      BY <1>1, FS_Interval
    <2> QED
      BY <2>1, <2>2, FS_Subset
  <1>3. TotalOrder(UpTo(I), I)
    <2>1. \A i, j \in I : <<i, j>> \in UpTo(I) <=> i <= j
      BY DEF UpTo
    <2>2. \A i, j, k \in I : i \in Int /\ j \in Int /\ k \in Int
      BY <1>2
    <2> QED
      BY <2>1, <2>2 DEF TotalOrder
  <1>4. /\ DOMAIN at = 1..n /\ n \in Nat
        /\ \A k \in 1..n : at[k] \in I
        /\ \A i \in I : \E k \in 1..n : at[k] = i
        /\ \A k, l \in 1..n : k < l => <<at[k], at[l]>> \in UpTo(I) /\ at[k] # at[l]
    BY <1>2, <1>3, ListingFacts
  <1>5. \A k, l \in 1..n : k < l => at[k] < at[l]
    <2> SUFFICES ASSUME NEW k \in 1..n, NEW l \in 1..n, k < l PROVE at[k] < at[l]
      OBVIOUS
    <2>1. at[k] <= at[l] /\ at[k] # at[l] /\ at[k] \in Int /\ at[l] \in Int
      BY <1>2, <1>4 DEF UpTo
    <2> QED
      BY <2>1
  <1>6. Picked(s, I) = [k \in 1..n |-> s[at[k]]]
    BY <1>4 DEF Picked
  <1>7. \A k \in 1..n : s[at[k]] \in E
    BY <1>1, <1>4
  <1>8. Picked(s, I) \in [1..n -> E]
    BY <1>6, <1>7
  <1>9. Picked(s, I) \in Seq(E) /\ Len(Picked(s, I)) = n
    BY <1>4, <1>8, SeqDef, LenProperties
  <1>10. at \in [1..n -> I]
    BY <1>4 DEF Listing
  <1> QED
    BY <1>4, <1>5, <1>6, <1>9, <1>10

(* A set of naturals that is not empty has a first element.                *)
LEMMA FirstFacts ==
    ASSUME NEW I \in SUBSET Nat, I # {}
    PROVE  First(I) \in I /\ \A k \in I : First(I) <= k
  <1>1. PICK m \in I : TRUE
    OBVIOUS
  <1> DEFINE J == {i \in I : i <= m}
  <1>2. IsFiniteSet(J)
    BY FS_BoundedSetOfNaturals
  <1>3. TotalOrder(UpTo(J), J)
    <2>1. \A i, j \in J : <<i, j>> \in UpTo(J) <=> i <= j
      BY DEF UpTo
    <2> QED
      BY <2>1 DEF TotalOrder
  <1>4. Cardinality(J) \in Nat /\ Cardinality(J) # 0
    BY <1>1, <1>2, FS_CardinalityType, FS_EmptySet
  <1>5. \E l \in J : \A x \in J : l <= x
    <2> DEFINE R == UpTo(J)
               L == Listing(J, R)
               n == Cardinality(J)
    <2> HIDE DEF J, R
    <2>1. /\ \A k \in 1..n : L[k] \in J
          /\ \A x \in J : \E k \in 1..n : L[k] = x
          /\ \A k, l \in 1..n : k < l => <<L[k], L[l]>> \in R
      BY <1>2, <1>3, ListingFacts DEF R
    <2>2. 1 \in 1..n
      BY <1>4
    <2> HIDE DEF L, n
    <2>3. ASSUME NEW x \in J PROVE x = L[1] \/ <<L[1], x>> \in R
      <3>1. PICK k \in 1..n : L[k] = x
        BY <2>1
      <3>2. k = 1 \/ 1 < k
        BY <1>4 DEF n
      <3> QED
        BY <2>1, <2>2, <3>1, <3>2
    <2>4. \A x \in J : x \in Nat
      BY DEF J
    <2>5. \A x \in J : <<L[1], x>> \in R => L[1] <= x
      BY DEF R, UpTo
    <2>6. L[1] \in J /\ L[1] <= L[1]
      BY <2>1, <2>2, <2>4
    <2>7. \A x \in J : L[1] <= x
      BY <2>3, <2>5, <2>6
    <2> QED
      BY <2>6, <2>7
  <1>6. \E i \in I : \A k \in I : i <= k
    <2>1. PICK l \in J : \A x \in J : l <= x
      BY <1>5
    <2>2. ASSUME NEW k \in I PROVE l <= k
      <3>1. k \in J \/ m <= k
        OBVIOUS
      <3> QED
        BY <1>1, <2>1, <3>1
    <2> QED
      BY <2>1, <2>2
  <1> QED
    BY <1>6 DEF First

(* Induction, for a set of naturals.                                       *)
LEMMA SetInduction ==
    ASSUME NEW P, 0 \in P, \A n \in Nat : n \in P => n + 1 \in P
    PROVE  Nat \subseteq P
  <1> SUFFICES ASSUME Nat \ P # {} PROVE FALSE
    OBVIOUS
  <1> DEFINE m == First(Nat \ P)
  <1>1. m \in Nat \ P /\ \A k \in Nat \ P : m <= k
    BY FirstFacts
  <1> HIDE DEF m
  <1>2. m - 1 \in Nat /\ m - 1 \in P /\ (m - 1) + 1 = m
    BY <1>1
  <1> QED
    BY <1>1, <1>2
=============================================================================
