--------------------------- MODULE NegotiateProofs ---------------------------
(***************************************************************************)
(* Theorems about Negotiate.tla.                                           *)
(***************************************************************************)
EXTENDS Negotiate, ListingsProofs

-----------------------------------------------------------------------------
(* Lists.                                                                  *)

LEMMA AtFacts ==
    ASSUME NEW E, NEW s \in Seq(E), NEW x \in ToSet(s)
    PROVE  At(s, x) \in 1..Len(s) /\ s[At(s, x)] = x
  BY LenProperties DEF At, ToSet

LEMMA ToSetFacts ==
    ASSUME NEW E, NEW s \in Seq(E)
    PROVE  /\ ToSet(s) \subseteq E
           /\ \A i \in 1..Len(s) : s[i] \in ToSet(s)
           /\ \A x \in ToSet(s) : \E i \in 1..Len(s) : s[i] = x
           /\ \A x : Contains(s, x) <=> x \in ToSet(s)
  BY LenProperties DEF ToSet, Contains

LEMMA MinFacts ==
    ASSUME NEW I \in SUBSET Nat, I # {}
    PROVE  Min(I) \in I /\ \A k \in I : Min(I) <= k
  BY FirstFacts DEF Min, First

LEMMA MaxFacts ==
    ASSUME NEW n \in Int, NEW I \in SUBSET Int, \A k \in I : k <= n, I # {}
    PROVE  Max(I) \in I /\ \A k \in I : k <= Max(I)
  <1> DEFINE J == {j \in Nat : n - j \in I}
  <1>1. J # {}
    <2>1. PICK k \in I : TRUE
      OBVIOUS
    <2>2. n - k \in Nat /\ n - (n - k) = k
      BY <2>1
    <2> QED
      BY <2>1, <2>2
  <1>2. J \in SUBSET Nat
    OBVIOUS
  <1>3. First(J) \in J /\ \A j \in J : First(J) <= j
    BY <1>1, <1>2, FirstFacts
  <1> DEFINE m == n - First(J)
  <1>4. m \in I
    BY <1>3
  <1>5. \A k \in I : k <= m
    <2> TAKE k \in I
    <2>1. n - k \in J
      <3>1. n - k \in Nat /\ n - (n - k) = k
        OBVIOUS
      <3> QED
        BY <3>1
    <2>2. First(J) \in Nat /\ First(J) <= n - k
      BY <1>3, <2>1
    <2> QED
      BY <2>2
  <1> HIDE DEF m
  <1> QED
    BY <1>4, <1>5 DEF Max

(* One element less.                                                       *)
LEMMA RemoveAtFacts ==
    ASSUME NEW E, NEW s \in Seq(E), NEW k \in 1..Len(s)
    PROVE  /\ RemoveAt(s, k) \in Seq(E)
           /\ Len(RemoveAt(s, k)) = Len(s) - 1
           /\ \A i \in 1..Len(s) - 1 : RemoveAt(s, k)[i] = IF i < k THEN s[i] ELSE s[i + 1]
  <1> DEFINE u == SubSeq(s, 1, k - 1)
             v == SubSeq(s, k + 1, Len(s))
  <1>1. Len(s) \in Nat /\ \A i \in 1..Len(s) : s[i] \in E
    BY LenProperties, ElementOfSeq
  <1>2. /\ u \in Seq(E) /\ Len(u) = k - 1
        /\ \A i \in 1..k - 1 : u[i] = s[i]
    <2>1. 1 \in Int /\ k - 1 \in Int /\ \A i \in 1..k - 1 : s[i] \in E
      BY <1>1
    <2>2. /\ u \in Seq(E) /\ Len(u) = IF 1 <= k - 1 THEN k - 1 - 1 + 1 ELSE 0
          /\ \A i \in 1..k - 1 - 1 + 1 : u[i] = s[1 + i - 1]
      BY ONLY <2>1, SubSeqProperties
    <2> QED
      BY <2>2, <1>1
  <1>3. /\ v \in Seq(E) /\ Len(v) = Len(s) - k
        /\ \A i \in 1..Len(s) - k : v[i] = s[k + i]
    <2>1. k + 1 \in Int /\ Len(s) \in Int /\ \A i \in k + 1..Len(s) : s[i] \in E
      BY <1>1
    <2>2. /\ v \in Seq(E) /\ Len(v) = IF k + 1 <= Len(s) THEN Len(s) - (k + 1) + 1 ELSE 0
          /\ \A i \in 1..Len(s) - (k + 1) + 1 : v[i] = s[(k + 1) + i - 1]
      BY ONLY <2>1, SubSeqProperties
    <2> QED
      BY <2>2, <1>1
  <1>4. RemoveAt(s, k) = u \o v
    BY DEF RemoveAt
  <1> HIDE DEF u, v
  <1>5. /\ u \o v \in Seq(E) /\ Len(u \o v) = Len(u) + Len(v)
        /\ \A i \in 1..Len(u) + Len(v) : (u \o v)[i] = IF i <= Len(u) THEN u[i] ELSE v[i - Len(u)]
    BY <1>2, <1>3, ConcatProperties
  <1>6. ASSUME NEW i \in 1..Len(s) - 1
        PROVE  (u \o v)[i] = IF i < k THEN s[i] ELSE s[i + 1]
    <2>1. (u \o v)[i] = IF i <= k - 1 THEN u[i] ELSE v[i - (k - 1)]
      BY <1>1, <1>2, <1>3, <1>5
    <2>2. CASE i < k
      BY <2>1, <2>2, <1>2, <1>1
    <2>3. CASE ~(i < k)
      <3>1. i - (k - 1) \in 1..Len(s) - k /\ k + (i - (k - 1)) = i + 1
        BY <2>3, <1>1
      <3> QED
        BY <2>1, <2>3, <3>1, <1>3, <1>1
    <2> QED
      BY <2>2, <2>3
  <1> QED
    BY <1>1, <1>2, <1>3, <1>4, <1>5, <1>6

LEMMA RemoveFirstFacts ==
    ASSUME NEW E, NEW s \in Seq(E), IsInjective(s), NEW x \in ToSet(s)
    PROVE  /\ RemoveFirst(s, x) \in Seq(E)
           /\ Len(s) \in Nat /\ At(s, x) \in 1..Len(s) /\ s[At(s, x)] = x
           /\ Len(RemoveFirst(s, x)) = Len(s) - 1
           /\ \A i \in 1..Len(s) - 1 :
                 RemoveFirst(s, x)[i] = IF i < At(s, x) THEN s[i] ELSE s[i + 1]
  <1> DEFINE I == {i \in 1..Len(s) : s[i] = x}
             k == At(s, x)
  <1>1. Len(s) \in Nat /\ DOMAIN s = 1..Len(s)
    BY LenProperties
  <1>2. k \in 1..Len(s) /\ s[k] = x
    BY AtFacts
  <1>3. \A i \in 1..Len(s) : s[i] = x => i = k
    BY <1>1, <1>2 DEF IsInjective
  <1>4. I = {k} /\ I \in SUBSET Nat /\ I # {}
    BY <1>1, <1>2, <1>3
  <1>5. Min(I) = k
    BY <1>4, MinFacts
  <1>6. SelectInSeq(s, LAMBDA v : v = x) = k
    BY <1>4, <1>5 DEF SelectInSeq
  <1>7. RemoveFirst(s, x) = RemoveAt(s, k)
    BY <1>2, <1>6 DEF RemoveFirst
  <1> HIDE DEF k
  <1> QED
    BY <1>1, <1>2, <1>7, RemoveAtFacts DEF k

LEMMA RemoveFirstNot ==
    ASSUME NEW E, NEW s \in Seq(E), NEW x, x \notin ToSet(s)
    PROVE  RemoveFirst(s, x) = s
  BY LenProperties DEF RemoveFirst, ToSet

(* What is left of a list: the others, in the same order.                  *)
LEMMA Removal ==
    ASSUME NEW E, NEW s \in Seq(E), IsInjective(s), NEW x
    PROVE  /\ RemoveFirst(s, x) \in Seq(E)
           /\ IsInjective(RemoveFirst(s, x))
           /\ ToSet(RemoveFirst(s, x)) = ToSet(s) \ {x}
  <1> DEFINE t == RemoveFirst(s, x)
             k == At(s, x)
  <1>1. CASE x \notin ToSet(s)
    BY <1>1, RemoveFirstNot
  <1>2. CASE x \in ToSet(s)
    <2>1. /\ t \in Seq(E) /\ Len(s) \in Nat /\ k \in 1..Len(s) /\ s[k] = x
          /\ Len(t) = Len(s) - 1
          /\ \A i \in 1..Len(s) - 1 : t[i] = IF i < k THEN s[i] ELSE s[i + 1]
      BY <1>2, RemoveFirstFacts
    <2> HIDE DEF t, k
    <2>2. DOMAIN s = 1..Len(s) /\ DOMAIN t = 1..Len(s) - 1
      BY <2>1, LenProperties
    <2>3. \A i, j \in 1..Len(s) : s[i] = s[j] => i = j
      BY <2>2 DEF IsInjective
    <2>4. \A i \in 1..Len(s) - 1 : t[i] \in ToSet(s) /\ t[i] # x
      <3> TAKE i \in 1..Len(s) - 1
      <3>1. i \in 1..Len(s) /\ i + 1 \in 1..Len(s)
        BY <2>1
      <3>2. CASE i < k
        BY <2>1, <2>2, <2>3, <3>1, <3>2 DEF ToSet
      <3>3. CASE ~(i < k)
        <4>1. i + 1 # k
          BY <2>1, <3>3
        <4> QED
          BY <2>1, <2>2, <2>3, <3>1, <3>3, <4>1 DEF ToSet
      <3> QED
        BY <3>2, <3>3
    <2>5. ASSUME NEW i \in 1..Len(s), i # k
          PROVE  \E j \in 1..Len(s) - 1 : t[j] = s[i]
      <3>1. CASE i < k
        <4>1. i \in 1..Len(s) - 1
          BY <2>1, <3>1
        <4> QED
          BY <2>1, <3>1, <4>1
      <3>2. CASE i > k
        <4>1. i - 1 \in 1..Len(s) - 1 /\ ~(i - 1 < k) /\ (i - 1) + 1 = i
          BY <2>1, <3>2
        <4> QED
          BY <2>1, <4>1
      <3> QED
        BY <2>1, <2>5, <3>1, <3>2
    <2>6. ToSet(t) = ToSet(s) \ {x}
      <3>1. \A y \in ToSet(t) : y \in ToSet(s) \ {x}
        BY <2>2, <2>4 DEF ToSet
      <3>2. ASSUME NEW y \in ToSet(s) \ {x} PROVE y \in ToSet(t)
        <4>1. PICK i \in 1..Len(s) : s[i] = y
          BY <2>2 DEF ToSet
        <4>2. i # k
          BY <2>1, <4>1
        <4>3. PICK j \in 1..Len(s) - 1 : t[j] = s[i]
          BY <2>5, <4>2
        <4> QED
          BY <2>2, <4>1, <4>3 DEF ToSet
      <3> QED
        BY <3>1, <3>2
    <2>7. IsInjective(t)
      <3> SUFFICES ASSUME NEW i \in 1..Len(s) - 1, NEW j \in 1..Len(s) - 1, t[i] = t[j]
                   PROVE  i = j
        BY <2>2 DEF IsInjective
      <3> DEFINE f == IF i < k THEN i ELSE i + 1
                 g == IF j < k THEN j ELSE j + 1
      <3>1. t[i] = s[f] /\ t[j] = s[g]
        BY <2>1
      <3>2. f \in 1..Len(s) /\ g \in 1..Len(s)
        BY <2>1
      <3>3. f = g
        BY <3>1, <3>2, <2>3
      <3> QED
        BY <3>3, <2>1
    <2> QED
      BY <2>1, <2>6, <2>7 DEF t
  <1> QED
    BY <1>1, <1>2

LEMMA InsertAtFacts ==
    ASSUME NEW E, NEW s \in Seq(E), NEW k \in 1..Len(s), NEW x \in E
    PROVE  /\ InsertAt(s, k, x) \in Seq(E)
           /\ Len(InsertAt(s, k, x)) = Len(s) + 1
           /\ \A i \in 1..Len(s) + 1 :
                 InsertAt(s, k, x)[i] = IF i < k THEN s[i] ELSE IF i = k THEN x ELSE s[i - 1]
  <1> DEFINE u == SubSeq(s, 1, k - 1)
             v == SubSeq(s, k, Len(s))
             w == u \o <<x>>
  <1>1. Len(s) \in Nat /\ \A i \in 1..Len(s) : s[i] \in E
    BY LenProperties, ElementOfSeq
  <1>2. /\ u \in Seq(E) /\ Len(u) = k - 1
        /\ \A i \in 1..k - 1 : u[i] = s[i]
    <2>1. 1 \in Int /\ k - 1 \in Int /\ \A i \in 1..k - 1 : s[i] \in E
      BY <1>1
    <2>2. /\ u \in Seq(E) /\ Len(u) = IF 1 <= k - 1 THEN k - 1 - 1 + 1 ELSE 0
          /\ \A i \in 1..k - 1 - 1 + 1 : u[i] = s[1 + i - 1]
      BY ONLY <2>1, SubSeqProperties
    <2> QED
      BY <2>2, <1>1
  <1>3. /\ v \in Seq(E) /\ Len(v) = (Len(s) - k) + 1
        /\ \A i \in 1..(Len(s) - k) + 1 : v[i] = s[(k + i) - 1]
    <2>1. k \in Int /\ Len(s) \in Int /\ \A i \in k..Len(s) : s[i] \in E
      BY <1>1
    <2>2. /\ v \in Seq(E) /\ Len(v) = IF k <= Len(s) THEN Len(s) - k + 1 ELSE 0
          /\ \A i \in 1..Len(s) - k + 1 : v[i] = s[k + i - 1]
      BY ONLY <2>1, SubSeqProperties
    <2> QED
      BY <2>2, <1>1
  <1>4. InsertAt(s, k, x) = w \o v
    BY DEF InsertAt
  <1>5. <<x>> \in Seq(E) /\ Len(<<x>>) = 1 /\ <<x>>[1] = x
    OBVIOUS
  <1> DEFINE one == <<x>>
  <1> HIDE DEF u, v, one
  <1>6. /\ w \in Seq(E) /\ Len(w) = k
        /\ \A i \in 1..k : w[i] = IF i < k THEN s[i] ELSE x
    <2>1. /\ u \o one \in Seq(E) /\ Len(u \o one) = Len(u) + Len(one)
          /\ \A i \in 1..Len(u) + Len(one) :
                (u \o one)[i] = IF i <= Len(u) THEN u[i] ELSE one[i - Len(u)]
      BY <1>2, <1>5, ConcatProperties DEF one
    <2>2. w = u \o one
      BY DEF one
    <2>3. Len(one) = 1 /\ one[1] = x
      BY <1>5 DEF one
    <2>4. ASSUME NEW i \in 1..k PROVE w[i] = IF i < k THEN s[i] ELSE x
      <3>1. w[i] = IF i <= k - 1 THEN u[i] ELSE one[i - (k - 1)]
        BY <1>1, <1>2, <2>1, <2>2, <2>3
      <3>2. CASE i < k
        BY <3>1, <3>2, <1>2, <1>1
      <3>3. CASE ~(i < k)
        <4> HIDE DEF w
        <4>1. i - (k - 1) = 1 /\ ~(i <= k - 1)
          BY <3>3, <1>1
        <4>2. w[i] = one[i - (k - 1)]
          BY <3>1, <4>1
        <4>3. one[i - (k - 1)] = x
          BY <4>1, <2>3
        <4> QED
          BY <3>3, <4>2, <4>3
      <3> QED
        BY <3>2, <3>3
    <2> QED
      BY <1>1, <1>2, <2>1, <2>2, <2>3, <2>4
  <1> HIDE DEF w
  <1>7. /\ w \o v \in Seq(E) /\ Len(w \o v) = Len(w) + Len(v)
        /\ \A i \in 1..Len(w) + Len(v) : (w \o v)[i] = IF i <= Len(w) THEN w[i] ELSE v[i - Len(w)]
    BY <1>3, <1>6, ConcatProperties
  <1>8. ASSUME NEW i \in 1..Len(s) + 1
        PROVE  (w \o v)[i] = IF i < k THEN s[i] ELSE IF i = k THEN x ELSE s[i - 1]
    <2>1. (w \o v)[i] = IF i <= k THEN w[i] ELSE v[i - k]
      BY <1>1, <1>3, <1>6, <1>7
    <2>2. CASE i <= k
      <3>1. i \in 1..k /\ (~(i < k) => i = k)
        BY <2>2, <1>1
      <3> QED
        BY <2>1, <2>2, <3>1, <1>6
    <2>3. CASE ~(i <= k)
      <3>1. i - k \in 1..(Len(s) - k) + 1 /\ (k + (i - k)) - 1 = i - 1 /\ ~(i < k) /\ i # k
        BY <2>3, <1>1
      <3> QED
        BY <2>1, <2>3, <3>1, <1>3
    <2> QED
      BY <2>2, <2>3
  <1> QED
    BY <1>1, <1>3, <1>4, <1>6, <1>7, <1>8

(* One element more: x before the first element in T, or at the end.       *)
Firsts(s, T) == {i \in 1..Len(s) : s[i] \in T}
Inserting(s, x, T) ==
    IF Firsts(s, T) = {} THEN Append(s, x) ELSE InsertAt(s, Min(Firsts(s, T)), x)

Placed(s, x, T, t, k) ==
    /\ \A i \in 1..Len(s) + 1 : t[i] = IF i < k THEN s[i] ELSE IF i = k THEN x ELSE s[i - 1]
    /\ \A i \in 1..k - 1 : s[i] \notin T
    /\ k \in 1..Len(s) => s[k] \in T

LEMMA InsertingFacts ==
    ASSUME NEW E, NEW s \in Seq(E), NEW x \in E, NEW T
    PROVE  /\ Inserting(s, x, T) \in Seq(E)
           /\ Len(s) \in Nat
           /\ Len(Inserting(s, x, T)) = Len(s) + 1
           /\ \E k \in 1..Len(s) + 1 : Placed(s, x, T, Inserting(s, x, T), k)
  <1> DEFINE I == Firsts(s, T)
             t == Inserting(s, x, T)
  <1>1. Len(s) \in Nat /\ I \in SUBSET Nat
    BY LenProperties DEF Firsts
  <1>2. CASE I = {}
    <2>1. t = Append(s, x)
      BY <1>2 DEF Inserting
    <2>2. /\ t \in Seq(E) /\ Len(t) = Len(s) + 1
          /\ \A i \in 1..Len(s) : t[i] = s[i]
          /\ t[Len(s) + 1] = x
      BY <2>1, AppendProperties
    <2> DEFINE k == Len(s) + 1
    <2>3. \A i \in 1..Len(s) + 1 : t[i] = IF i < k THEN s[i] ELSE IF i = k THEN x ELSE s[i - 1]
      BY <1>1, <2>2
    <2>4. \A i \in 1..k - 1 : s[i] \notin T
      BY <1>1, <1>2 DEF Firsts
    <2>5. k \in 1..Len(s) + 1 /\ k \notin 1..Len(s)
      BY <1>1
    <2> QED
      BY <1>1, <2>2, <2>3, <2>4, <2>5 DEF Placed
  <1>3. CASE I # {}
    <2> DEFINE k == Min(I)
    <2>1. k \in I /\ \A i \in I : k <= i
      BY <1>1, <1>3, MinFacts
    <2>2. t = InsertAt(s, k, x)
      BY <1>3 DEF Inserting
    <2> HIDE DEF k
    <2>3. k \in 1..Len(s) /\ s[k] \in T
      BY <2>1 DEF Firsts
    <2>4. /\ t \in Seq(E) /\ Len(t) = Len(s) + 1
          /\ \A i \in 1..Len(s) + 1 : t[i] = IF i < k THEN s[i] ELSE IF i = k THEN x ELSE s[i - 1]
      BY <2>2, <2>3, InsertAtFacts
    <2>5. \A i \in 1..k - 1 : s[i] \notin T
      <3> SUFFICES ASSUME NEW i \in 1..k - 1, s[i] \in T PROVE FALSE
        OBVIOUS
      <3>1. i \in 1..Len(s) /\ ~(k <= i)
        BY <1>1, <2>3
      <3> QED
        BY <2>1, <3>1 DEF Firsts
    <2>6. k \in 1..Len(s) + 1
      BY <1>1, <2>3
    <2> QED
      BY <1>1, <2>3, <2>4, <2>5, <2>6 DEF Placed
  <1> QED
    BY <1>2, <1>3

LEMMA Insertion ==
    ASSUME NEW E, NEW s \in Seq(E), IsInjective(s), NEW x \in E, x \notin ToSet(s), NEW T
    PROVE  /\ Inserting(s, x, T) \in Seq(E)
           /\ IsInjective(Inserting(s, x, T))
           /\ ToSet(Inserting(s, x, T)) = ToSet(s) \cup {x}
  <1> DEFINE t == Inserting(s, x, T)
  <1>1. /\ t \in Seq(E) /\ Len(s) \in Nat /\ Len(t) = Len(s) + 1
        /\ \E k \in 1..Len(s) + 1 : Placed(s, x, T, t, k)
    BY InsertingFacts
  <1>2. PICK k \in 1..Len(s) + 1 :
              \A i \in 1..Len(s) + 1 :
                    t[i] = IF i < k THEN s[i] ELSE IF i = k THEN x ELSE s[i - 1]
    BY <1>1 DEF Placed
  <1> HIDE DEF t
  <1>3. DOMAIN s = 1..Len(s) /\ DOMAIN t = 1..Len(s) + 1
    BY <1>1, LenProperties
  <1>4. \A i, j \in 1..Len(s) : s[i] = s[j] => i = j
    BY <1>3 DEF IsInjective
  <1>5. \A i \in 1..Len(s) : s[i] # x
    BY <1>3 DEF ToSet
  <1>6. ASSUME NEW i \in 1..Len(s)
        PROVE  \E j \in 1..Len(s) + 1 : t[j] = s[i]
    <2>1. CASE i < k
      <3>1. i \in 1..Len(s) + 1
        BY <1>1
      <3> QED
        BY <1>2, <2>1, <3>1
    <2>2. CASE ~(i < k)
      <3>1. i + 1 \in 1..Len(s) + 1 /\ ~(i + 1 < k) /\ i + 1 # k /\ (i + 1) - 1 = i
        BY <1>1, <2>2
      <3> QED
        BY <1>2, <3>1
    <2> QED
      BY <2>1, <2>2
  <1>7. \A i \in 1..Len(s) + 1 : i # k => t[i] \in ToSet(s)
    <2> TAKE i \in 1..Len(s) + 1
    <2> HAVE i # k
    <2>1. CASE i < k
      <3>1. i \in 1..Len(s)
        BY <1>1, <2>1
      <3> QED
        BY <1>2, <1>3, <2>1, <3>1 DEF ToSet
    <2>2. CASE ~(i < k)
      <3>1. i - 1 \in 1..Len(s)
        BY <1>1, <2>2
      <3> QED
        BY <1>2, <1>3, <2>2, <3>1 DEF ToSet
    <2> QED
      BY <2>1, <2>2
  <1>8. t[k] = x
    BY <1>1, <1>2
  <1>9. ToSet(t) = ToSet(s) \cup {x}
    <2>1. \A y \in ToSet(t) : y \in ToSet(s) \cup {x}
      <3> SUFFICES ASSUME NEW i \in 1..Len(s) + 1 PROVE t[i] \in ToSet(s) \cup {x}
        BY <1>3 DEF ToSet
      <3> QED
        BY <1>7, <1>8
    <2>2. x \in ToSet(t)
      BY <1>3, <1>8 DEF ToSet
    <2>3. ASSUME NEW y \in ToSet(s) PROVE y \in ToSet(t)
      <3>1. PICK i \in 1..Len(s) : s[i] = y
        BY <1>3 DEF ToSet
      <3>2. PICK j \in 1..Len(s) + 1 : t[j] = s[i]
        BY <1>6
      <3> QED
        BY <1>3, <3>1, <3>2 DEF ToSet
    <2> QED
      BY <2>1, <2>2, <2>3
  <1>10. IsInjective(t)
    <2> SUFFICES ASSUME NEW i \in 1..Len(s) + 1, NEW j \in 1..Len(s) + 1, t[i] = t[j]
                 PROVE  i = j
      BY <1>3 DEF IsInjective
    <2> DEFINE f == IF i < k THEN i ELSE i - 1
               g == IF j < k THEN j ELSE j - 1
    <2>1. CASE i = k \/ j = k
      BY <1>7, <1>8, <2>1
    <2>2. CASE i # k /\ j # k
      <3>1. t[i] = s[f] /\ t[j] = s[g]
        BY <1>2, <2>2
      <3>2. f \in 1..Len(s) /\ g \in 1..Len(s)
        BY <1>1, <2>2
      <3>3. f = g
        BY <3>1, <3>2, <1>4
      <3> QED
        BY <3>3, <2>2, <1>1
    <2> QED
      BY <2>1, <2>2
  <1> QED
    BY <1>1, <1>9, <1>10 DEF t

(* Lists in an order.                                                      *)
Ordered(s, R) == \A i, j \in 1..Len(s) : i < j => <<s[i], s[j]>> \in R

LEMMA RemovalOrdered ==
    ASSUME NEW E, NEW s \in Seq(E), IsInjective(s), NEW x, NEW R, Ordered(s, R)
    PROVE  Ordered(RemoveFirst(s, x), R)
  <1>1. CASE x \notin ToSet(s)
    BY <1>1, RemoveFirstNot
  <1>2. CASE x \in ToSet(s)
    <2> DEFINE t == RemoveFirst(s, x)
               k == At(s, x)
    <2>1. /\ Len(s) \in Nat /\ k \in 1..Len(s)
          /\ Len(t) = Len(s) - 1
          /\ \A i \in 1..Len(s) - 1 : t[i] = IF i < k THEN s[i] ELSE s[i + 1]
      BY <1>2, RemoveFirstFacts
    <2> HIDE DEF t, k
    <2> SUFFICES ASSUME NEW i \in 1..Len(s) - 1, NEW j \in 1..Len(s) - 1, i < j
                 PROVE  <<t[i], t[j]>> \in R
      BY <2>1 DEF Ordered, t
    <2> DEFINE f == IF i < k THEN i ELSE i + 1
               g == IF j < k THEN j ELSE j + 1
    <2>2. t[i] = s[f] /\ t[j] = s[g]
      BY <2>1
    <2>3. f \in 1..Len(s) /\ g \in 1..Len(s) /\ f < g
      BY <2>1
    <2> QED
      BY <2>2, <2>3 DEF Ordered
  <1> QED
    BY <1>1, <1>2

LEMMA InsertionOrdered ==
    ASSUME NEW E, NEW s \in Seq(E), NEW x \in E, NEW T, NEW R, Ordered(s, R),
           \A y \in ToSet(s) : y \notin T => <<y, x>> \in R,
           \A y \in ToSet(s) : y \in T => <<x, y>> \in R,
           \A y, z \in ToSet(s) : y \in T /\ <<y, z>> \in R => <<x, z>> \in R
    PROVE  Ordered(Inserting(s, x, T), R)
  <1> DEFINE t == Inserting(s, x, T)
  <1>1. /\ t \in Seq(E) /\ Len(s) \in Nat /\ Len(t) = Len(s) + 1
        /\ \E k \in 1..Len(s) + 1 : Placed(s, x, T, t, k)
    BY InsertingFacts
  <1>2. PICK k \in 1..Len(s) + 1 :
              /\ \A i \in 1..Len(s) + 1 :
                    t[i] = IF i < k THEN s[i] ELSE IF i = k THEN x ELSE s[i - 1]
              /\ \A i \in 1..k - 1 : s[i] \notin T
              /\ k \in 1..Len(s) => s[k] \in T
    BY <1>1 DEF Placed
  <1> HIDE DEF t
  <1>3. \A i \in 1..Len(s) : s[i] \in ToSet(s)
    BY LenProperties DEF ToSet
  <1> SUFFICES ASSUME NEW i \in 1..Len(s) + 1, NEW j \in 1..Len(s) + 1, i < j
               PROVE  <<t[i], t[j]>> \in R
    BY <1>1 DEF Ordered, t
  <1>4. CASE i # k /\ j # k
    <2> DEFINE f == IF i < k THEN i ELSE i - 1
               g == IF j < k THEN j ELSE j - 1
    <2>1. t[i] = s[f] /\ t[j] = s[g]
      BY <1>2, <1>4
    <2>2. f \in 1..Len(s) /\ g \in 1..Len(s) /\ f < g
      BY <1>1, <1>4
    <2> QED
      BY <2>1, <2>2 DEF Ordered
  <1>5. CASE j = k
    <2>1. i \in 1..k - 1 /\ i \in 1..Len(s) /\ i < k
      BY <1>1, <1>5
    <2>2. t[i] = s[i] /\ t[j] = x
      BY <1>2, <1>5, <2>1
    <2> QED
      BY <1>2, <1>3, <2>1, <2>2
  <1>6. CASE i = k
    <2>1. /\ k \in 1..Len(s) /\ j - 1 \in 1..Len(s) /\ k <= j - 1
          /\ ~(j < k) /\ j # k
      BY <1>1, <1>6
    <2>2. t[i] = x /\ t[j] = s[j - 1]
      BY <1>2, <1>6, <2>1
    <2>3. s[k] \in T /\ s[k] \in ToSet(s) /\ s[j - 1] \in ToSet(s)
      BY <1>2, <1>3, <2>1
    <2>4. CASE k = j - 1
      BY <2>2, <2>3, <2>4
    <2>5. CASE k < j - 1
      <3>1. <<s[k], s[j - 1]>> \in R
        BY <2>1, <2>5 DEF Ordered
      <3> QED
        BY <2>2, <2>3, <3>1
    <2> QED
      BY <2>1, <2>4, <2>5
  <1> QED
    BY <1>4, <1>5, <1>6

-----------------------------------------------------------------------------
(* Sums.                                                                   *)

Units(f, S) == UNION {{x} \X (1..f[x]) : x \in S}

LEMMA UnitsOfOne ==
    ASSUME NEW x, NEW n \in Nat
    PROVE  IsFiniteSet({x} \X (1..n)) /\ Cardinality({x} \X (1..n)) = n
  <1> DEFINE g == [i \in 1..n |-> <<x, i>>]
  <1>1. IsFiniteSet(1..n) /\ Cardinality(1..n) = n
    <2>1. 1 \in Int /\ n \in Int
      OBVIOUS
    <2>2. IsFiniteSet(1..n) /\ Cardinality(1..n) = IF 1 > n THEN 0 ELSE n - 1 + 1
      BY <2>1, FS_Interval
    <2> QED
      BY <2>2
  <1>2. g \in Bijection(1..n, {x} \X (1..n))
    BY DEF Bijection, Injection, Surjection, IsInjective
  <1>3. ExistsBijection(1..n, {x} \X (1..n))
    BY <1>2 DEF ExistsBijection
  <1> QED
    BY <1>1, <1>3, FS_Bijection

LEMMA UnitsSplit ==
    ASSUME NEW f, NEW S, NEW x \in S
    PROVE  /\ Units(f, S) = Units(f, S \ {x}) \cup ({x} \X (1..f[x]))
           /\ Units(f, S \ {x}) \cap ({x} \X (1..f[x])) = {}
  <1>1. \A T, e : e \in Units(f, T) <=> \E y \in T : e \in {y} \X (1..f[y])
    BY DEF Units
  <1>2. \A y, e : e \in {y} \X (1..f[y]) => e[1] = y
    OBVIOUS
  <1>3. ASSUME NEW e \in Units(f, S)
        PROVE  e \in Units(f, S \ {x}) \/ e \in {x} \X (1..f[x])
    <2>1. PICK y \in S : e \in {y} \X (1..f[y])
      BY <1>1
    <2>2. y = x \/ y \in S \ {x}
      OBVIOUS
    <2> QED
      BY <1>1, <2>1, <2>2
  <1>4. ASSUME NEW e \in Units(f, S \ {x})
        PROVE  e \in Units(f, S) /\ e \notin {x} \X (1..f[x])
    <2>1. PICK y \in S \ {x} : e \in {y} \X (1..f[y])
      BY <1>1
    <2> QED
      BY <1>1, <1>2, <2>1
  <1>5. \A e \in {x} \X (1..f[x]) : e \in Units(f, S)
    BY <1>1
  <1> QED
    BY <1>3, <1>4, <1>5

LEMMA UnitsFinite ==
    ASSUME NEW D, NEW f \in [D -> Nat], NEW S \in SUBSET D, IsFiniteSet(S)
    PROVE  IsFiniteSet(Units(f, S))
  <1> DEFINE P == {n \in Nat : \A T \in SUBSET S : Cardinality(T) = n => IsFiniteSet(Units(f, T))}
  <1>1. 0 \in P
    <2>1. ASSUME NEW T \in SUBSET S, Cardinality(T) = 0 PROVE IsFiniteSet(Units(f, T))
      <3>1. IsFiniteSet(T)
        BY FS_Subset
      <3>2. T = {}
        BY <2>1, <3>1, FS_EmptySet
      <3>3. Units(f, {}) = {}
        BY DEF Units
      <3> QED
        BY <3>2, <3>3, FS_EmptySet
    <2> QED
      BY <2>1
  <1>2. ASSUME NEW n \in Nat, n \in P PROVE n + 1 \in P
    <2>1. ASSUME NEW T \in SUBSET S, Cardinality(T) = n + 1 PROVE IsFiniteSet(Units(f, T))
      <3>1. IsFiniteSet(T)
        BY FS_Subset
      <3>2. T # {}
        BY <2>1, <3>1, FS_EmptySet
      <3>3. PICK x \in T : TRUE
        BY <3>2
      <3>4. Cardinality(T \ {x}) = n
        <4>1. Cardinality(T \ {x}) = IF x \in T THEN Cardinality(T) - 1 ELSE Cardinality(T)
          BY <3>1, FS_RemoveElement
        <4> QED
          BY <2>1, <4>1
      <3>5. IsFiniteSet(Units(f, T \ {x}))
        BY <1>2, <3>4
      <3>6. IsFiniteSet({x} \X (1..f[x]))
        BY UnitsOfOne
      <3> DEFINE A == Units(f, T \ {x})
                 B == {x} \X (1..f[x])
      <3>7. Units(f, T) = A \cup B
        BY UnitsSplit
      <3> HIDE DEF A, B
      <3>8. IsFiniteSet(A) /\ IsFiniteSet(B)
        BY <3>5, <3>6 DEF A, B
      <3>9. IsFiniteSet(A \cup B)
        BY <3>8, FS_Union
      <3> QED
        BY <3>7, <3>9
    <2> QED
      BY <2>1
  <1> HIDE DEF P
  <1>3. Nat \subseteq P
    BY <1>1, <1>2, SetInduction
  <1>4. Cardinality(S) \in Nat
    BY FS_CardinalityType
  <1> QED
    BY <1>3, <1>4 DEF P

LEMMA SumFacts ==
    ASSUME NEW D, NEW f \in [D -> Nat], NEW S \in SUBSET D, IsFiniteSet(S)
    PROVE  /\ Sum(f, S) \in Nat
           /\ \A x \in S : Sum(f, S) = Sum(f, S \ {x}) + f[x]
  <1>1. Sum(f, S) = Cardinality(Units(f, S)) /\ Sum(f, S) \in Nat
    BY UnitsFinite, FS_CardinalityType DEF Sum, Units
  <1>2. ASSUME NEW x \in S PROVE Sum(f, S) = Sum(f, S \ {x}) + f[x]
    <2> DEFINE A == Units(f, S \ {x})
               B == {x} \X (1..f[x])
    <2>1. IsFiniteSet(S \ {x})
      BY FS_Subset
    <2>2. IsFiniteSet(A) /\ Cardinality(A) \in Nat
      BY <2>1, UnitsFinite, FS_CardinalityType
    <2>3. f[x] \in Nat
      OBVIOUS
    <2>4. IsFiniteSet(B) /\ Cardinality(B) = f[x]
      BY <2>3, UnitsOfOne
    <2>5. Units(f, S) = A \cup B /\ A \cap B = {}
      BY UnitsSplit
    <2>6. Sum(f, S \ {x}) = Cardinality(A)
      BY DEF Sum, Units
    <2> HIDE DEF A, B
    <2>7. Cardinality(A \cup B) = Cardinality(A) + Cardinality(B) - Cardinality(A \cap B)
      <3>1. IsFiniteSet(A) /\ IsFiniteSet(B)
        BY <2>2, <2>4
      <3> QED
        BY ONLY <3>1, FS_Union
    <2>8. Cardinality({}) = 0
      BY FS_EmptySet
    <2>9. Cardinality(A \cup B) = Cardinality(A) + f[x]
      <3> DEFINE a == Cardinality(A)
                 b == f[x]
      <3>1. a \in Nat /\ b \in Nat /\ Cardinality(A \cup B) = a + b - 0
        BY <2>2, <2>3, <2>4, <2>5, <2>7, <2>8
      <3> QED
        BY <3>1
    <2>10. Sum(f, S) = Cardinality(A \cup B)
      BY <1>1, <2>5
    <2> QED
      BY <2>6, <2>9, <2>10
  <1> QED
    BY <1>1, <1>2

LEMMA SumAdd ==
    ASSUME NEW D, NEW f \in [D -> Nat], NEW S \in SUBSET D, IsFiniteSet(S), NEW x \in D, x \notin S
    PROVE  Sum(f, S \cup {x}) = Sum(f, S) + f[x]
  <1>1. IsFiniteSet(S \cup {x})
    BY FS_AddElement
  <1>2. (S \cup {x}) \ {x} = S
    OBVIOUS
  <1> QED
    BY <1>1, <1>2, SumFacts

LEMMA SumSame ==
    ASSUME NEW f, NEW g, NEW S, \A x \in S : f[x] = g[x]
    PROVE  Sum(f, S) = Sum(g, S)
  <1>1. Units(f, S) = Units(g, S)
    BY DEF Units
  <1> QED
    BY <1>1 DEF Sum, Units

-----------------------------------------------------------------------------
(* The cell and its measures.                                              *)

LEMMA ToSetFinite ==
    ASSUME NEW E, NEW s \in Seq(E)
    PROVE  IsFiniteSet(ToSet(s))
  <1>1. Len(s) \in Nat /\ s \in [1..Len(s) -> E] /\ DOMAIN s = 1..Len(s)
    BY LenProperties
  <1>2. IsFiniteSet(1..Len(s))
    BY <1>1, FS_Interval
  <1>3. s \in Surjection(1..Len(s), ToSet(s))
    BY <1>1 DEF Surjection, ToSet
  <1> QED
    BY <1>2, <1>3, FS_Surjection

Conf == conf \in Cells /\ avg = [a \in Active |-> Average(a)] /\ turn \in 1..Len(conf.agents)

LEMMA ConfFacts ==
    ASSUME conf \in Cells
    PROVE  /\ conf.agents \in Seq(Agent) /\ Len(conf.agents) \in Nat \ {0}
           /\ IsInjective(conf.agents) /\ Active \subseteq Agent
           /\ \A i \in 1..Len(conf.agents) : conf.agents[i] \in Active
           /\ Len(conf.agents) = 1 => Active = {conf.agents[1]}
           /\ conf.precision \in [Agent -> Nat]
           /\ conf.cap \in [Partition -> Nat \ {0}]
           /\ conf.fixed \in [Agent -> [Partition -> Nat]]
           /\ conf.servers \in Seq(Server) /\ IsInjective(conf.servers) /\ ToSet(conf.servers) = Server
           /\ conf.order \in Seq(Partition) /\ IsInjective(conf.order) /\ ToSet(conf.order) = Partition
           /\ conf.threaded \in Seq(Volume) /\ IsInjective(conf.threaded)
           /\ ToSet(conf.threaded) = Volume
           /\ conf.on \in [Partition -> Server] /\ conf.place \in [Volume -> Partition]
           /\ conf.size \in [Volume -> Nat] /\ conf.quota \in [Volume -> Nat]
           /\ conf.weekuse \in [Volume -> Nat]
           /\ conf.admits \in [Partition -> SUBSET Volume]
           /\ conf.ntransactions \in Nat /\ conf.nvoltrans \in Nat
           /\ NULL \notin Volume /\ NULL \notin Request
  <1>1. conf \in Cell
    BY NegotiateAssumption
  <1>2. /\ conf.agents # <<>> /\ IsInjective(conf.agents)
        /\ ToSet(conf.servers) = Server /\ IsInjective(conf.servers)
        /\ ToSet(conf.order) = Partition /\ IsInjective(conf.order)
        /\ ToSet(conf.threaded) = Volume /\ IsInjective(conf.threaded)
        /\ NULL \notin Volume /\ NULL \notin Request
    BY NegotiateAssumption
  <1>3. conf.agents \in Seq(Agent)
    BY <1>1 DEF Cell
  <1>4. /\ conf.precision \in [Agent -> Nat]
        /\ conf.cap \in [Partition -> Nat \ {0}]
        /\ conf.fixed \in [Agent -> [Partition -> Nat]]
        /\ conf.servers \in Seq(Server)
        /\ conf.order \in Seq(Partition)
        /\ conf.threaded \in Seq(Volume)
        /\ conf.on \in [Partition -> Server] /\ conf.place \in [Volume -> Partition]
        /\ conf.size \in [Volume -> Nat] /\ conf.quota \in [Volume -> Nat]
        /\ conf.weekuse \in [Volume -> Nat]
        /\ conf.admits \in [Partition -> SUBSET Volume]
        /\ conf.ntransactions \in Nat /\ conf.nvoltrans \in Nat
    BY <1>1 DEF Cell
  <1>5. Len(conf.agents) \in Nat \ {0}
    BY <1>2, <1>3, EmptySeq
  <1>6. /\ Active \subseteq Agent
        /\ \A i \in 1..Len(conf.agents) : conf.agents[i] \in Active
        /\ \A a \in Active : \E i \in 1..Len(conf.agents) : conf.agents[i] = a
    BY <1>3, ToSetFacts DEF Active
  <1>7. Len(conf.agents) = 1 => Active = {conf.agents[1]}
    BY <1>6
  <1> QED
    BY <1>2, <1>3, <1>4, <1>5, <1>6, <1>7

LEMMA MeFacts ==
    ASSUME conf \in Cells, turn \in 1..Len(conf.agents)
    PROVE  Me \in Active /\ Me \in Agent /\ (Len(conf.agents) = 1 => Active = {Me} /\ turn = 1)
  BY ConfFacts DEF Me

LEMMA Finite ==
    ASSUME conf \in Cells
    PROVE  IsFiniteSet(Server) /\ IsFiniteSet(Partition) /\ IsFiniteSet(Volume)
  BY ConfFacts, ToSetFinite

LEMMA GainFacts ==
    ASSUME conf \in Cells, NEW a \in Agent, NEW v \in Volume
    PROVE  /\ Gain(a, v) \in Nat /\ Weight(a, v) \in Nat /\ Key(a, v) \in Int
           /\ a # "byoverdraft" => Gain(a, v) = Weight(a, v)
  <1>1. conf.size[v] \in Nat /\ conf.quota[v] \in Nat /\ conf.weekuse[v] \in Nat
    BY ConfFacts
  <1>2. CASE a = "bysize"
    BY <1>1, <1>2 DEF Gain, Weight, Key
  <1>3. CASE a = "bynumber"
    BY <1>1, <1>3 DEF Gain, Weight, Key
  <1>4. CASE a = "byweekuse"
    BY <1>1, <1>4 DEF Gain, Weight, Key
  <1>5. CASE a = "byoverdraft"
    BY <1>1, <1>5 DEF Gain, Weight, Key
  <1> QED
    BY <1>2, <1>3, <1>4, <1>5 DEF Agent

LEMMA CapFacts ==
    ASSUME conf \in Cells, NEW a \in Agent
    PROVE  Cap(a) \in [Partition -> Nat \ {0}]
  BY ConfFacts DEF Cap

LEMMA LoadOfFacts ==
    ASSUME conf \in Cells, NEW a \in Agent, NEW p \in Partition, NEW where
    PROVE  LoadOf(a, p, where) \in Nat
  <1> DEFINE f == [v \in Volume |-> Gain(a, v)]
             S == {v \in Volume : where[v] = p}
  <1>1. f \in [Volume -> Nat]
    BY GainFacts
  <1>2. IsFiniteSet(S)
    BY Finite, FS_Subset
  <1>3. Sum(f, S) \in Nat
    BY <1>1, <1>2, SumFacts
  <1>4. conf.fixed[a][p] \in Nat
    BY ConfFacts
  <1> QED
    BY <1>3, <1>4 DEF LoadOf

(* A volume moves from p to q.                                             *)
(* there: the volumes are where they were, but v is at q.                  *)
MovedTo(where, v, q, there) ==
    /\ there \in [Volume -> Partition]
    /\ there[v] = q
    /\ \A w \in Volume \ {v} : there[w] = where[w]

Total(f, p, where) == Sum(f, {w \in Volume : where[w] = p})

LEMMA SumMove ==
    ASSUME conf \in Cells, NEW f \in [Volume -> Nat], NEW where \in [Volume -> Partition],
           NEW v \in Volume, NEW q \in Partition, where[v] # q,
           NEW there, MovedTo(where, v, q, there)
    PROVE  /\ \A p \in Partition : Total(f, p, where) \in Nat /\ Total(f, p, there) \in Nat
           /\ Total(f, where[v], there) = Total(f, where[v], where) - f[v]
           /\ Total(f, q, there) = Total(f, q, where) + f[v]
           /\ \A p \in Partition \ {where[v], q} : Total(f, p, there) = Total(f, p, where)
  <1> DEFINE S(p) == {w \in Volume : where[w] = p}
             T(p) == {w \in Volume : there[w] = p}
  <1>1. \A p \in Partition : /\ S(p) \in SUBSET Volume /\ IsFiniteSet(S(p))
                             /\ T(p) \in SUBSET Volume /\ IsFiniteSet(T(p))
    BY Finite, FS_Subset
  <1>2. there[v] = q /\ \A w \in Volume \ {v} : there[w] = where[w]
    BY DEF MovedTo
  <1>3. T(where[v]) = S(where[v]) \ {v} /\ v \in S(where[v])
    BY <1>2
  <1>4. T(q) = S(q) \cup {v} /\ v \notin S(q)
    BY <1>2
  <1>5. \A p \in Partition \ {where[v], q} : T(p) = S(p)
    BY <1>2
  <1>6. where[v] \in Partition /\ f[v] \in Nat
    OBVIOUS
  <1> HIDE DEF S, T
  <1>7. \A p \in Partition : Sum(f, S(p)) \in Nat /\ Sum(f, T(p)) \in Nat
    BY <1>1, SumFacts
  <1>8. Sum(f, S(where[v])) = Sum(f, T(where[v])) + f[v]
    BY <1>1, <1>3, <1>6, SumFacts
  <1>9. Sum(f, T(q)) = Sum(f, S(q)) + f[v]
    BY <1>1, <1>4, SumAdd
  <1>10. Sum(f, T(where[v])) = Sum(f, S(where[v])) - f[v]
    BY <1>6, <1>7, <1>8
  <1> QED
    BY <1>5, <1>7, <1>9, <1>10 DEF S, T, Total

(* Arithmetic modulo a word.                                               *)
LEMMA Remainder ==
    ASSUME NEW w \in Nat \ {0}, NEW x \in Int, NEW k \in Int, NEW r \in 0..(w - 1), x = w * k + r
    PROVE  x % w = r
  <1> DEFINE j == x \div w
             s == x % w
  <1>1. j \in Int /\ s \in 0..(w - 1) /\ x = w * j + s
    OBVIOUS
  <1> HIDE DEF j, s
  <1>2. w * (k - j) = s - r
    BY <1>1
  <1>3. CASE k - j > 0
    <2>1. w * (k - j) >= w
      BY <1>1, <1>3
    <2> QED
      BY <1>1, <1>2, <2>1
  <1>4. CASE k - j < 0
    <2>1. w * (k - j) <= -w
      BY <1>1, <1>4
    <2> QED
      BY <1>1, <1>2, <2>1
  <1>5. CASE k - j = 0
    BY <1>1, <1>2, <1>5 DEF s
  <1> QED
    BY <1>1, <1>3, <1>4, <1>5

LEMMA Wrapped ==
    ASSUME NEW w \in Nat \ {0}, NEW x \in Int, NEW d \in Int
    PROVE  x % w \in Nat /\ ((x % w) + d) % w = (x + d) % w
  <1> DEFINE r == x % w
             k == x \div w
             s == (r + d) % w
             j == (r + d) \div w
  <1>1. k \in Int /\ r \in 0..(w - 1) /\ x = w * k + r
    OBVIOUS
  <1> HIDE DEF r, k
  <1>2. j \in Int /\ s \in 0..(w - 1) /\ r + d = w * j + s
    BY <1>1
  <1> HIDE DEF s, j
  <1>3. x + d = w * (k + j) + s /\ x + d \in Int /\ k + j \in Int
    BY <1>1, <1>2
  <1>4. (x + d) % w = s
    BY <1>2, <1>3, Remainder
  <1> QED
    BY <1>1, <1>4 DEF r, s

(* What the counter of a partition holds when the volumes are at where.    *)
Reckoned(a, p, where) ==
    IF a = "byoverdraft"
    THEN (LoadOf(a, p, where) + (Promised(p, where) - Promised(p, conf.place))) % Word
    ELSE LoadOf(a, p, where)

LEMMA PromisedFacts ==
    ASSUME conf \in Cells, NEW p \in Partition, NEW where
    PROVE  Promised(p, where) \in Nat
  <1>1. IsFiniteSet({v \in Volume : where[v] = p}) /\ conf.quota \in [Volume -> Nat]
    BY Finite, FS_Subset, ConfFacts
  <1> QED
    BY <1>1, SumFacts DEF Promised

LEMMA ReckonedFacts ==
    ASSUME conf \in Cells, NEW a \in Agent, NEW p \in Partition, NEW where
    PROVE  Reckoned(a, p, where) \in Nat
  <1>1. LoadOf(a, p, where) \in Nat /\ Promised(p, where) \in Nat /\ Promised(p, conf.place) \in Nat
    BY LoadOfFacts, PromisedFacts
  <1>2. Word \in Nat \ {0}
    BY NegotiateAssumption
  <1>3. LoadOf(a, p, where) + (Promised(p, where) - Promised(p, conf.place)) \in Int
    BY <1>1
  <1> QED
    BY <1>1, <1>2, <1>3, Wrapped DEF Reckoned

LEMMA ChangeFacts ==
    ASSUME conf \in Cells, NEW a \in Agent, NEW v \in Volume
    PROVE  /\ Change(a, v) \in Nat
           /\ a # "byoverdraft" => Change(a, v) = Gain(a, v)
           /\ a = "byoverdraft" => Change(a, v) = Gain(a, v) + conf.quota[v]
  <1>1. Gain(a, v) \in Nat /\ conf.quota[v] \in Nat
    BY GainFacts, ConfFacts
  <1> QED
    BY <1>1 DEF Change

LEMMA ReckonedMove ==
    ASSUME conf \in Cells, NEW a \in Agent, NEW where \in [Volume -> Partition],
           NEW v \in Volume, NEW q \in Partition, where[v] # q,
           NEW there, MovedTo(where, v, q, there)
    PROVE  /\ Reckoned(a, where[v], there) = Counter(a, Reckoned(a, where[v], where) - Change(a, v))
           /\ Reckoned(a, q, there) = Counter(a, Reckoned(a, q, where) + Change(a, v))
           /\ \A p \in Partition \ {where[v], q} : Reckoned(a, p, there) = Reckoned(a, p, where)
  <1> DEFINE f == [w \in Volume |-> Gain(a, w)]
             h == where[v]
  <1>1. f \in [Volume -> Nat] /\ f[v] = Gain(a, v) /\ Gain(a, v) \in Nat
    BY GainFacts
  <1>2. h \in Partition
    OBVIOUS
  <1>3. \A p \in Partition : conf.fixed[a][p] \in Nat /\ LoadOf(a, p, where) \in Nat
    <2>1. conf.fixed[a] \in [Partition -> Nat]
      BY ConfFacts
    <2> QED
      BY <2>1, LoadOfFacts
  <1>4. /\ LoadOf(a, h, there) = LoadOf(a, h, where) - Gain(a, v)
        /\ LoadOf(a, q, there) = LoadOf(a, q, where) + Gain(a, v)
        /\ \A p \in Partition \ {h, q} : LoadOf(a, p, there) = LoadOf(a, p, where)
    <2>1. \A p, w : LoadOf(a, p, w) = conf.fixed[a][p] + Total(f, p, w)
      BY DEF LoadOf, Total
    <2> HIDE DEF f
    <2>2. /\ \A p \in Partition : Total(f, p, where) \in Nat /\ Total(f, p, there) \in Nat
          /\ Total(f, h, there) = Total(f, h, where) - f[v]
          /\ Total(f, q, there) = Total(f, q, where) + f[v]
          /\ \A p \in Partition \ {h, q} : Total(f, p, there) = Total(f, p, where)
      BY <1>1, SumMove
    <2> HIDE DEF h
    <2> QED
      BY <1>1, <1>2, <1>3, <2>1, <2>2
  <1>5. /\ conf.quota[v] \in Nat
        /\ Promised(h, there) = Promised(h, where) - conf.quota[v]
        /\ Promised(q, there) = Promised(q, where) + conf.quota[v]
        /\ \A p \in Partition \ {h, q} : Promised(p, there) = Promised(p, where)
    <2>1. conf.quota \in [Volume -> Nat]
      BY ConfFacts
    <2>2. \A p, w : Promised(p, w) = Total(conf.quota, p, w)
      BY DEF Promised, Total
    <2>3. /\ Total(conf.quota, h, there) = Total(conf.quota, h, where) - conf.quota[v]
          /\ Total(conf.quota, q, there) = Total(conf.quota, q, where) + conf.quota[v]
          /\ \A p \in Partition \ {h, q} :
                 Total(conf.quota, p, there) = Total(conf.quota, p, where)
      BY <2>1, SumMove
    <2> QED
      BY <2>1, <2>2, <2>3
  <1>6. \A p \in Partition : Promised(p, where) \in Nat /\ Promised(p, conf.place) \in Nat
    BY PromisedFacts
  <1> HIDE DEF f, h
  <1>7. CASE a # "byoverdraft"
    <2>1. Change(a, v) = Gain(a, v)
      BY <1>7, ChangeFacts
    <2>2. \A p, w : Reckoned(a, p, w) = LoadOf(a, p, w)
      BY <1>7 DEF Reckoned
    <2>3. \A x : Counter(a, x) = x
      BY <1>7 DEF Counter
    <2> QED
      BY <1>4, <2>1, <2>2, <2>3 DEF h
  <1>8. CASE a = "byoverdraft"
    <2> DEFINE at(p) == LoadOf(a, p, where) + (Promised(p, where) - Promised(p, conf.place))
               c == Change(a, v)
    <2>1. \A p \in Partition : at(p) \in Int
      BY <1>3, <1>6
    <2>2. c \in Nat /\ c = Gain(a, v) + conf.quota[v] /\ Word \in Nat \ {0}
      BY <1>8, ChangeFacts, NegotiateAssumption
    <2>3. /\ LoadOf(a, h, there) + (Promised(h, there) - Promised(h, conf.place)) = at(h) + -c
          /\ LoadOf(a, q, there) + (Promised(q, there) - Promised(q, conf.place)) = at(q) + c
      BY <1>1, <1>2, <1>3, <1>4, <1>5, <1>6, <2>2
    <2>4. \A p : Reckoned(a, p, where) = at(p) % Word
      BY <1>8 DEF Reckoned
    <2>5. Reckoned(a, h, there) = (at(h) + -c) % Word /\ Reckoned(a, q, there) = (at(q) + c) % Word
      BY <1>8, <2>3 DEF Reckoned
    <2>6. \A p \in Partition \ {h, q} : Reckoned(a, p, there) = Reckoned(a, p, where)
      BY <1>4, <1>5, <1>8 DEF Reckoned
    <2> HIDE DEF at, c
    <2>7. /\ at(h) % Word \in Nat
          /\ ((at(h) % Word) + -c) % Word = (at(h) + -c) % Word
          /\ ((at(q) % Word) + c) % Word = (at(q) + c) % Word
      <3>1. -c \in Int /\ c \in Int /\ at(h) \in Int /\ at(q) \in Int
        BY <1>2, <2>1, <2>2
      <3> QED
        BY <2>2, <3>1, Wrapped
    <2>8. (at(h) % Word) - c = (at(h) % Word) + -c
      BY <2>2, <2>7
    <2>9. /\ Counter(a, Reckoned(a, h, where) - c) = ((at(h) % Word) - c) % Word
          /\ Counter(a, Reckoned(a, q, where) + c) = ((at(q) % Word) + c) % Word
      BY <1>8, <2>4 DEF Counter
    <2>10. /\ Reckoned(a, h, there) = Counter(a, Reckoned(a, h, where) - c)
           /\ Reckoned(a, q, there) = Counter(a, Reckoned(a, q, where) + c)
      BY <2>5, <2>7, <2>8, <2>9
    <2> QED
      BY <2>6, <2>10 DEF c, h
  <1> QED
    BY <1>7, <1>8 DEF h

LEMMA AverageFacts ==
    ASSUME conf \in Cells, NEW a \in Active, avg = [b \in Active |-> Average(b)]
    PROVE  /\ avg[a].total \in Nat /\ avg[a].space \in Nat
           /\ Margin(a) \in Int
           /\ \A k \in Nat : Window(a, k) \in Int
           /\ \A k \in Nat, p \in Partition : Bound(a, p, k) \in Int
  <1>1. a \in Agent
    BY ConfFacts
  <1>2. [v \in Volume |-> Gain(a, v)] \in [Volume -> Nat]
    BY <1>1, GainFacts
  <1>3. /\ Sum(conf.fixed[a], Partition) \in Nat
        /\ Sum([v \in Volume |-> Gain(a, v)], Volume) \in Nat
        /\ Sum(Cap(a), Partition) \in Nat
    <2>1. conf.fixed[a] \in [Partition -> Nat] /\ Cap(a) \in [Partition -> Nat]
      BY <1>1, ConfFacts, CapFacts
    <2> QED
      BY <2>1, <1>2, Finite, SumFacts
  <1>4. avg[a].total \in Nat /\ avg[a].space \in Nat
    BY <1>3 DEF Average
  <1>5. conf.precision[a] \in Nat
    BY <1>1, ConfFacts
  <1>6. Margin(a) \in Int
    BY <1>4, <1>5 DEF Margin
  <1>7. ASSUME NEW k \in Nat PROVE Window(a, k) \in Int
    <2>1. avg[a].space * avg[a].total \in Nat /\ 100 * k \in Nat
      BY <1>4
    <2> QED
      BY <1>4, <1>6, <2>1 DEF Window
  <1>8. ASSUME NEW k \in Nat, NEW p \in Partition PROVE Bound(a, p, k) \in Int
    <2>1. Cap(a)[p] \in Nat /\ Window(a, k) \in Int
      BY <1>1, <1>7, CapFacts
    <2> QED
      BY <2>1 DEF Bound
  <1> QED
    BY <1>4, <1>6, <1>7, <1>8

LEMMA ScaledFacts ==
    ASSUME conf \in Cells, NEW a \in Active, avg = [b \in Active |-> Average(b)], NEW k \in Nat
    PROVE  /\ \A x \in Int : Scaled(a, x, k) \in Int
           /\ \A x, y \in Int : x <= y => Scaled(a, x, k) <= Scaled(a, y, k)
  <1> DEFINE s == avg[a].space
             u == 100 * k * s * s
  <1>1. s \in Nat
    BY AverageFacts
  <1>2. u \in Nat
    <2>1. 100 * k \in Nat
      OBVIOUS
    <2>2. 100 * k * s \in Nat
      BY <1>1, <2>1
    <2> QED
      BY <1>1, <2>2
  <1>3. \A x \in Int : Scaled(a, x, k) = u * x
    BY DEF Scaled
  <1> HIDE DEF u
  <1>4. \A x \in Int : u * x \in Int
    BY <1>2
  <1>5. ASSUME NEW x \in Int, NEW y \in Int, x <= y PROVE u * x <= u * y
    <2>1. PICK d \in Nat : y = x + d
      <3>1. y - x \in Nat /\ y = x + (y - x)
        BY <1>5
      <3> QED
        BY <3>1
    <2>2. u * y = u * x + u * d /\ u * d \in Nat /\ u * x \in Int
      BY <1>2, <2>1
    <2> QED
      BY <2>2
  <1> QED
    BY <1>3, <1>4, <1>5

-----------------------------------------------------------------------------
(* The lists of an agent.                                                  *)

VolumesBehind(a, v) == {w \in Volume : Key(a, w) <= Key(a, v)}
PartitionsBehind(a, ld, p) ==
    {q \in Partition : IF a = "bynumber" THEN ld[q] * conf.cap[p] < ld[p] * conf.cap[q]
                       ELSE ld[q] * conf.cap[p] <= ld[p] * conf.cap[q]}
UsedMore(ld, p) == {q \in Partition : ld[q] > ld[p]}
ServersBehind(ld, s) == {t \in Server : Use(ld, t) <= Use(ld, s)}

LEMMA InsertVIs ==
    ASSUME NEW a, NEW s \in Seq(Volume), NEW v
    PROVE  InsertV(a, s, v) = Inserting(s, v, VolumesBehind(a, v))
  <1> DEFINE I == {i \in 1..Len(s) : Key(a, s[i]) <= Key(a, v)}
             k == SelectInSeq(s, LAMBDA w : Key(a, w) <= Key(a, v))
  <1>1. \A i \in 1..Len(s) : s[i] \in Volume
    BY ElementOfSeq
  <1>2. I = Firsts(s, VolumesBehind(a, v)) /\ I \in SUBSET Nat
    BY <1>1, LenProperties DEF Firsts, VolumesBehind
  <1>3. k = IF I # {} THEN Min(I) ELSE 0
    BY DEF SelectInSeq
  <1>4. InsertV(a, s, v) = IF k = 0 THEN Append(s, v) ELSE InsertAt(s, k, v)
    BY DEF InsertV, InsertBefore
  <1>5. I # {} => Min(I) \in 1..Len(s)
    BY <1>2, MinFacts
  <1> HIDE DEF I, k
  <1> QED
    BY <1>2, <1>3, <1>4, <1>5, LenProperties DEF Inserting

LEMMA InsertPIs ==
    ASSUME NEW a, NEW ld, NEW s \in Seq(Partition), NEW p
    PROVE  InsertP(a, ld, s, p) = Inserting(s, p, PartitionsBehind(a, ld, p))
  <1> DEFINE Test(q) == LET x == ld[q] * conf.cap[p]
                            y == ld[p] * conf.cap[q]
                        IN  IF a = "bynumber" THEN x < y ELSE x <= y
             I == {i \in 1..Len(s) : Test(s[i])}
             k == SelectInSeq(s, Test)
  <1>1. \A i \in 1..Len(s) : s[i] \in Partition
    BY ElementOfSeq
  <1>2. I = Firsts(s, PartitionsBehind(a, ld, p)) /\ I \in SUBSET Nat
    BY <1>1, LenProperties DEF Firsts, PartitionsBehind
  <1>3. k = IF I # {} THEN Min(I) ELSE 0
    BY DEF SelectInSeq
  <1>4. InsertP(a, ld, s, p) = IF k = 0 THEN Append(s, p) ELSE InsertAt(s, k, p)
    BY DEF InsertP, InsertBefore
  <1>5. I # {} => Min(I) \in 1..Len(s)
    BY <1>2, MinFacts
  <1> HIDE DEF I, k
  <1> QED
    BY <1>2, <1>3, <1>4, <1>5, LenProperties DEF Inserting

LEMMA InsertOnIs ==
    ASSUME NEW ld, NEW s \in Seq(Partition), NEW p
    PROVE  InsertOn(ld, s, p) = Inserting(s, p, UsedMore(ld, p))
  <1> DEFINE I == {i \in 1..Len(s) : ld[s[i]] > ld[p]}
             k == SelectInSeq(s, LAMBDA q : ld[q] > ld[p])
  <1>1. \A i \in 1..Len(s) : s[i] \in Partition
    BY ElementOfSeq
  <1>2. I = Firsts(s, UsedMore(ld, p)) /\ I \in SUBSET Nat
    BY <1>1, LenProperties DEF Firsts, UsedMore
  <1>3. k = IF I # {} THEN Min(I) ELSE 0
    BY DEF SelectInSeq
  <1>4. InsertOn(ld, s, p) = IF k = 0 THEN Append(s, p) ELSE InsertAt(s, k, p)
    BY DEF InsertOn, InsertBefore
  <1>5. I # {} => Min(I) \in 1..Len(s)
    BY <1>2, MinFacts
  <1> HIDE DEF I, k
  <1> QED
    BY <1>2, <1>3, <1>4, <1>5, LenProperties DEF Inserting

LEMMA InsertSIs ==
    ASSUME NEW ld, NEW s \in Seq(Server), NEW t
    PROVE  InsertS(ld, s, t) = Inserting(s, t, ServersBehind(ld, t))
  <1> DEFINE I == {i \in 1..Len(s) : Use(ld, s[i]) <= Use(ld, t)}
             k == SelectInSeq(s, LAMBDA u : Use(ld, u) <= Use(ld, t))
  <1>1. \A i \in 1..Len(s) : s[i] \in Server
    BY ElementOfSeq
  <1>2. I = Firsts(s, ServersBehind(ld, t)) /\ I \in SUBSET Nat
    BY <1>1, LenProperties DEF Firsts, ServersBehind
  <1>3. k = IF I # {} THEN Min(I) ELSE 0
    BY DEF SelectInSeq
  <1>4. InsertS(ld, s, t) = IF k = 0 THEN Append(s, t) ELSE InsertAt(s, k, t)
    BY DEF InsertS, InsertBefore
  <1>5. I # {} => Min(I) \in 1..Len(s)
    BY <1>2, MinFacts
  <1> HIDE DEF I, k
  <1> QED
    BY <1>2, <1>3, <1>4, <1>5, LenProperties DEF Inserting

(* A sorted list is a permutation.                                         *)
Permutes(s, S) == s \in Seq(S) /\ IsInjective(s) /\ ToSet(s) = S

LEMMA ListingPermutes ==
    ASSUME NEW S, IsFiniteSet(S), NEW R, TotalOrder(R, S)
    PROVE  Permutes(Listing(S, R), S) /\ Ordered(Listing(S, R), R)
  <1> DEFINE L == Listing(S, R)
             n == Cardinality(S)
  <1>1. /\ L \in Seq(S) /\ Len(L) = n /\ DOMAIN L = 1..n /\ n \in Nat
        /\ \A k \in 1..n : L[k] \in S
        /\ \A x \in S : \E k \in 1..n : L[k] = x
        /\ \A k, l \in 1..n : k < l => <<L[k], L[l]>> \in R /\ L[k] # L[l]
    BY ListingFacts
  <1> HIDE DEF L, n
  <1>2. \A k, l \in 1..n : L[k] = L[l] => k = l
    <2> SUFFICES ASSUME NEW k \in 1..n, NEW l \in 1..n, L[k] = L[l], k # l PROVE FALSE
      OBVIOUS
    <2>1. k < l \/ l < k
      BY <1>1
    <2> QED
      BY <1>1, <2>1
  <1>3. IsInjective(L) /\ ToSet(L) = S
    BY <1>1, <1>2 DEF IsInjective, ToSet
  <1>4. Ordered(L, R)
    BY <1>1 DEF Ordered
  <1> QED
    BY <1>1, <1>3, <1>4 DEF Permutes, L

Ahead(S, key, unit, rank) ==
    {e \in S \X S :
        LET x == key[e[1]] * unit[e[2]]
            y == key[e[2]] * unit[e[1]]
        IN  x > y \/ (x = y /\ rank[e[1]] >= rank[e[2]])}

(* Fractions compare like their cross products.                            *)
LEMMA Fractions ==
    ASSUME NEW a \in Int, NEW b \in Int, NEW c \in Int,
           NEW u \in Nat \ {0}, NEW v \in Nat \ {0}, NEW w \in Nat \ {0},
           a * v >= b * u, b * w >= c * v
    PROVE  /\ a * w >= c * u
           /\ a * w = c * u => a * v = b * u /\ b * w = c * v
  <1>1. \A x, y \in Int, z \in Nat \ {0} : (x >= y <=> x * z >= y * z) /\ (x = y <=> x * z = y * z)
    <2> TAKE x \in Int, y \in Int
    <2> TAKE z \in Nat \ {0}
    <2>1. x * z - y * z = (x - y) * z
      OBVIOUS
    <2>2. x * z \in Int /\ y * z \in Int /\ x - y \in Int
      OBVIOUS
    <2>3. /\ x - y = 0 => (x - y) * z = 0
          /\ x - y < 0 => (x - y) * z < 0
          /\ x - y > 0 => (x - y) * z > 0
      <3> DEFINE e == x - y
      <3>1. e \in Int /\ z \in Int /\ z > 0
        OBVIOUS
      <3> HIDE DEF e
      <3>2. (e = 0 => e * z = 0) /\ (e < 0 => e * z < 0) /\ (e > 0 => e * z > 0)
        BY <3>1
      <3> QED
        BY <3>2 DEF e
    <2> DEFINE d == (x - y) * z
               l == x * z
               r == y * z
    <2>4. l - r = d /\ l \in Int /\ r \in Int
      BY <2>1, <2>2
    <2> HIDE DEF d, l, r
    <2>5. (x = y => d = 0) /\ (x < y => d < 0) /\ (x > y => d > 0)
      BY <2>2, <2>3 DEF d
    <2>6. (x >= y <=> l >= r) /\ (x = y <=> l = r)
      BY <2>4, <2>5
    <2> QED
      BY <2>6 DEF l, r
  <1> DEFINE av == a * v
             bu == b * u
             bw == b * w
             cv == c * v
             aw == a * w
             cu == c * u
  <1>2. av \in Int /\ bu \in Int /\ bw \in Int /\ cv \in Int /\ aw \in Int /\ cu \in Int
    OBVIOUS
  <1>3. av * w = aw * v /\ bu * w = bw * u /\ cv * u = cu * v
    OBVIOUS
  <1>4. av >= bu /\ bw >= cv
    OBVIOUS
  <1> HIDE DEF av, bu, bw, cv, aw, cu
  <1> DEFINE x == av * w
             y == bu * w
             z == cv * u
  <1>5. x \in Int /\ y \in Int /\ z \in Int
    BY <1>2
  <1>6. x >= y /\ (x = y <=> av = bu)
    BY <1>1, <1>2, <1>4
  <1>7. y >= z /\ (y = z <=> bw = cv)
    <2>1. bw * u >= cv * u /\ (bw * u = cv * u <=> bw = cv)
      BY <1>1, <1>2, <1>4
    <2> QED
      BY <1>3, <2>1
  <1>8. (aw >= cu <=> x >= z) /\ (aw = cu <=> x = z)
    <2>1. (aw >= cu <=> aw * v >= cu * v) /\ (aw = cu <=> aw * v = cu * v)
      BY <1>1, <1>2
    <2> QED
      BY <1>3, <2>1
  <1> HIDE DEF x, y, z
  <1>9. aw >= cu /\ (aw = cu => av = bu /\ bw = cv)
    BY <1>5, <1>6, <1>7, <1>8
  <1> QED
    BY <1>9 DEF av, bu, bw, cv, aw, cu

LEMMA InsertedFacts ==
    ASSUME NEW S, IsFiniteSet(S), NEW key \in [S -> Int], NEW unit \in [S -> Nat \ {0}],
           NEW rank \in [S -> Int], \A x, y \in S : rank[x] = rank[y] => x = y
    PROVE  /\ Permutes(Inserted(S, key, unit, rank), S)
           /\ Ordered(Inserted(S, key, unit, rank), Ahead(S, key, unit, rank))
  <1> DEFINE R == Ahead(S, key, unit, rank)
             f(x, y) == key[x] * unit[y]
  <1>1. \A x, y \in S : f(x, y) \in Int /\ rank[x] \in Int
    OBVIOUS
  <1>2. \A x, y \in S : <<x, y>> \in R <=>
              f(x, y) > f(y, x) \/ (f(x, y) = f(y, x) /\ rank[x] >= rank[y])
    BY DEF Ahead
  <1>3. ASSUME NEW x \in S, NEW y \in S, NEW z \in S, f(x, y) >= f(y, x), f(y, z) >= f(z, y)
        PROVE  /\ f(x, z) >= f(z, x)
               /\ f(x, z) = f(z, x) => f(x, y) = f(y, x) /\ f(y, z) = f(z, y)
    BY <1>3, Fractions
  <1> HIDE DEF f
  <1>4. TotalOrder(R, S)
    <2>1. \A x \in S : <<x, x>> \in R
      BY <1>1, <1>2
    <2>2. \A x, y \in S : <<x, y>> \in R \/ <<y, x>> \in R
      <3> TAKE x \in S, y \in S
      <3> DEFINE u == f(x, y)
                 v == f(y, x)
      <3>1. u \in Int /\ v \in Int /\ rank[x] \in Int /\ rank[y] \in Int
        BY <1>1
      <3>2. /\ <<x, y>> \in R <=> u > v \/ (u = v /\ rank[x] >= rank[y])
            /\ <<y, x>> \in R <=> v > u \/ (v = u /\ rank[y] >= rank[x])
        BY <1>2
      <3> HIDE DEF u, v
      <3> QED
        BY <3>1, <3>2
    <2>3. \A x, y \in S : <<x, y>> \in R /\ <<y, x>> \in R => x = y
      <3> SUFFICES ASSUME NEW x \in S, NEW y \in S, <<x, y>> \in R, <<y, x>> \in R
                   PROVE  rank[x] = rank[y]
        OBVIOUS
      <3> DEFINE u == f(x, y)
                 v == f(y, x)
      <3>1. u \in Int /\ v \in Int /\ rank[x] \in Int /\ rank[y] \in Int
        BY <1>1
      <3>2. /\ u > v \/ (u = v /\ rank[x] >= rank[y])
            /\ v > u \/ (v = u /\ rank[y] >= rank[x])
        BY <1>2
      <3> HIDE DEF u, v
      <3> QED
        BY <3>1, <3>2
    <2>4. \A x, y, z \in S : <<x, y>> \in R /\ <<y, z>> \in R => <<x, z>> \in R
      <3> SUFFICES ASSUME NEW x \in S, NEW y \in S, NEW z \in S, <<x, y>> \in R, <<y, z>> \in R
                   PROVE  f(x, z) > f(z, x) \/ (f(x, z) = f(z, x) /\ rank[x] >= rank[z])
        BY <1>2
      <3>1. /\ f(x, y) \in Int /\ f(y, x) \in Int /\ f(y, z) \in Int /\ f(z, y) \in Int
            /\ f(x, z) \in Int /\ f(z, x) \in Int
            /\ rank[x] \in Int /\ rank[y] \in Int /\ rank[z] \in Int
        BY <1>1
      <3>2. /\ f(x, y) > f(y, x) \/ (f(x, y) = f(y, x) /\ rank[x] >= rank[y])
            /\ f(y, z) > f(z, y) \/ (f(y, z) = f(z, y) /\ rank[y] >= rank[z])
        BY <1>2
      <3>3. f(x, y) >= f(y, x) /\ f(y, z) >= f(z, y)
        BY <3>1, <3>2
      <3>4. /\ f(x, z) >= f(z, x)
            /\ f(x, z) = f(z, x) => f(x, y) = f(y, x) /\ f(y, z) = f(z, y)
        BY <1>3, <3>3
      <3> DEFINE u == f(x, z)
                 v == f(z, x)
      <3>5. u \in Int /\ v \in Int /\ u >= v /\ (u = v => rank[x] >= rank[z])
        BY <3>1, <3>2, <3>4
      <3> HIDE DEF u, v
      <3>6. u > v \/ (u = v /\ rank[x] >= rank[z])
        BY <3>5
      <3> QED
        BY <3>6 DEF u, v
    <2> HIDE DEF R
    <2> QED
      BY <2>1, <2>2, <2>3, <2>4 DEF TotalOrder
  <1>5. Inserted(S, key, unit, rank) = Listing(S, R)
    BY DEF Inserted, Ahead
  <1> HIDE DEF R
  <1>6. Permutes(Listing(S, R), S) /\ Ordered(Listing(S, R), R)
    BY <1>4, ListingPermutes
  <1> QED
    BY <1>5, <1>6 DEF R

LEMMA RankFirstLast ==
    ASSUME NEW E, NEW list \in Seq(E), NEW S \in SUBSET ToSet(list)
    PROVE  /\ LastFirst(S, list) \in [S -> Int] /\ FirstFirst(S, list) \in [S -> Int]
           /\ \A x, y \in S : LastFirst(S, list)[x] = LastFirst(S, list)[y] => x = y
           /\ \A x, y \in S : FirstFirst(S, list)[x] = FirstFirst(S, list)[y] => x = y
  <1>1. \A x \in S : At(list, x) \in 1..Len(list) /\ list[At(list, x)] = x
    BY AtFacts
  <1>2. Len(list) \in Nat
    BY LenProperties
  <1>3. \A x \in S : At(list, x) \in Int
    BY <1>1, <1>2
  <1>4. \A x, y \in S : At(list, x) = At(list, y) => x = y
    BY <1>1
  <1>5. \A x, y \in S : -At(list, x) = -At(list, y) => At(list, x) = At(list, y)
    <2> TAKE x \in S, y \in S
    <2> DEFINE i == At(list, x)
               j == At(list, y)
    <2>1. i \in Int /\ j \in Int
      BY <1>3
    <2> HIDE DEF i, j
    <2>2. -i = -j => i = j
      BY <2>1
    <2> QED
      BY <2>2 DEF i, j
  <1>6. \A x \in S : -At(list, x) \in Int
    BY <1>3
  <1> QED
    BY <1>3, <1>4, <1>5, <1>6 DEF LastFirst, FirstFirst

(* The partitions of a server within a chain.                              *)
Its(s) == {p \in Partition : conf.on[p] = s}

LEMMA OnFacts ==
    ASSUME NEW c \in Seq(Partition), IsInjective(c), NEW s, NEW R, Ordered(c, R)
    PROVE  /\ Permutes(On(c, s), {p \in ToSet(c) : conf.on[p] = s})
           /\ Ordered(On(c, s), R)
  <1> DEFINE I == {i \in DOMAIN c : conf.on[c[i]] = s}
             w == Picked(c, I)
  <1>1. Len(c) \in Nat /\ DOMAIN c = 1..Len(c)
    BY LenProperties
  <1>2. PICK at \in [1..Len(w) -> I] :
              /\ w \in Seq(Partition)
              /\ \A k \in 1..Len(w) : w[k] = c[at[k]]
              /\ \A i \in I : \E k \in 1..Len(w) : at[k] = i
              /\ \A k, l \in 1..Len(w) : k < l => at[k] < at[l]
    BY PickedFacts
  <1>3. On(c, s) = w
    BY DEF On
  <1> HIDE DEF w
  <1>4. Len(w) \in Nat /\ DOMAIN w = 1..Len(w)
    BY <1>2, LenProperties
  <1>5. \A k \in 1..Len(w) : at[k] \in 1..Len(c) /\ conf.on[c[at[k]]] = s
    BY <1>1
  <1>6. \A i, j \in 1..Len(c) : c[i] = c[j] => i = j
    BY <1>1 DEF IsInjective
  <1>7. IsInjective(w)
    <2> SUFFICES ASSUME NEW k \in 1..Len(w), NEW l \in 1..Len(w), w[k] = w[l], k # l PROVE FALSE
      BY <1>4 DEF IsInjective
    <2>1. at[k] = at[l]
      BY <1>2, <1>5, <1>6
    <2>2. k < l \/ l < k
      BY <1>4
    <2>3. at[k] \in Nat /\ at[l] \in Nat
      BY <1>1, <1>5
    <2>4. at[k] < at[l] \/ at[l] < at[k]
      BY <1>2, <2>2
    <2> QED
      BY <2>1, <2>3, <2>4
  <1>8. ToSet(w) = {p \in ToSet(c) : conf.on[p] = s}
    <2>1. ASSUME NEW p \in ToSet(w) PROVE p \in ToSet(c) /\ conf.on[p] = s
      <3>1. PICK k \in 1..Len(w) : w[k] = p
        BY <1>4 DEF ToSet
      <3> QED
        BY <1>1, <1>2, <1>5, <3>1 DEF ToSet
    <2>2. ASSUME NEW p \in ToSet(c), conf.on[p] = s PROVE p \in ToSet(w)
      <3>1. PICK i \in 1..Len(c) : c[i] = p
        BY <1>1 DEF ToSet
      <3>2. i \in I
        BY <1>1, <2>2, <3>1
      <3>3. PICK k \in 1..Len(w) : at[k] = i
        BY <1>2, <3>2
      <3> QED
        BY <1>2, <1>4, <3>1, <3>3 DEF ToSet
    <2> QED
      BY <2>1, <2>2
  <1>9. Ordered(w, R)
    <2> SUFFICES ASSUME NEW k \in 1..Len(w), NEW l \in 1..Len(w), k < l PROVE <<w[k], w[l]>> \in R
      BY DEF Ordered
    <2>1. at[k] < at[l]
      BY <1>2
    <2> QED
      BY <1>2, <1>5, <2>1 DEF Ordered
  <1>10. w \in Seq(ToSet(w))
    <2>1. \A k \in 1..Len(w) : w[k] \in ToSet(w)
      BY <1>4 DEF ToSet
    <2>2. w \in [1..Len(w) -> ToSet(w)]
      BY <1>2, <2>1, LenProperties
    <2> QED
      BY <1>4, <2>2, SeqDef
  <1> QED
    BY <1>3, <1>7, <1>8, <1>9, <1>10 DEF Permutes

JoinOrder(parts, servers) ==
    {e \in Partition \X Partition :
        LET s == conf.on[e[1]]
            t == conf.on[e[2]]
        IN  IF s = t THEN At(parts[s], e[1]) <= At(parts[s], e[2])
            ELSE At(servers, s) < At(servers, t)}

LEMMA PermutesAt ==
    ASSUME NEW S, NEW s, Permutes(s, S)
    PROVE  /\ Len(s) \in Nat /\ DOMAIN s = 1..Len(s)
           /\ \A x \in S : At(s, x) \in 1..Len(s) /\ At(s, x) \in Int /\ s[At(s, x)] = x
           /\ \A i \in 1..Len(s) : s[i] \in S /\ At(s, s[i]) = i
           /\ \A x, y \in S : At(s, x) = At(s, y) => x = y
  <1>1. s \in Seq(S) /\ IsInjective(s) /\ ToSet(s) = S
    BY DEF Permutes
  <1>2. Len(s) \in Nat /\ DOMAIN s = 1..Len(s)
    BY <1>1, LenProperties
  <1>3. \A x \in S : At(s, x) \in 1..Len(s) /\ s[At(s, x)] = x
    BY <1>1, AtFacts
  <1>4. \A i \in 1..Len(s) : s[i] \in S
    BY <1>1, ToSetFacts
  <1>5. \A i \in 1..Len(s) : At(s, s[i]) = i
    BY <1>1, <1>2, <1>3, <1>4 DEF IsInjective
  <1> QED
    BY <1>2, <1>3, <1>4, <1>5

LEMMA JoinedFacts ==
    ASSUME conf \in Cells, NEW parts, NEW servers, Permutes(servers, Server),
           \A s \in Server : Permutes(parts[s], Its(s))
    PROVE  /\ Permutes(Joined(parts, servers), Partition)
           /\ Ordered(Joined(parts, servers), JoinOrder(parts, servers))
  <1> DEFINE R == JoinOrder(parts, servers)
             on(p) == conf.on[p]
             i(p) == At(servers, on(p))
             k(p) == At(parts[on(p)], p)
  <1>1. \A p \in Partition : on(p) \in Server /\ p \in Its(on(p))
    BY ConfFacts DEF Its
  <1>2. \A p \in Partition : i(p) \in Int /\ k(p) \in Int
    BY <1>1, PermutesAt
  <1>3. \A p, q \in Partition : i(p) = i(q) => on(p) = on(q)
    BY <1>1, PermutesAt
  <1>4. \A p, q \in Partition : on(p) = on(q) /\ k(p) = k(q) => p = q
    <2> SUFFICES ASSUME NEW p \in Partition, NEW q \in Partition, on(p) = on(q), k(p) = k(q)
                 PROVE  p = q
      OBVIOUS
    <2> DEFINE s == on(p)
    <2>1. p \in Its(s) /\ q \in Its(s) /\ s \in Server
      BY <1>1
    <2>2. Permutes(parts[s], Its(s))
      BY <2>1
    <2>3. At(parts[s], p) = At(parts[s], q)
      OBVIOUS
    <2> HIDE DEF s
    <2> QED
      BY <2>1, <2>2, <2>3, PermutesAt
  <1>5. \A p, q \in Partition : <<p, q>> \in R <=>
              IF on(p) = on(q) THEN k(p) <= k(q) ELSE i(p) < i(q)
    BY DEF JoinOrder
  <1>6. \A p, q \in Partition : on(p) = on(q) => i(p) = i(q)
    OBVIOUS
  <1> HIDE DEF on, i, k, R
  <1>7. TotalOrder(R, Partition)
    <2>1. \A p \in Partition : <<p, p>> \in R
      BY <1>2, <1>5
    <2>2. \A p, q \in Partition : <<p, q>> \in R \/ <<q, p>> \in R
      <3> TAKE p \in Partition, q \in Partition
      <3>1. i(p) \in Int /\ i(q) \in Int /\ k(p) \in Int /\ k(q) \in Int
        BY <1>2
      <3> QED
        BY <1>3, <1>5, <3>1
    <2>3. \A p, q \in Partition : <<p, q>> \in R /\ <<q, p>> \in R => p = q
      <3> SUFFICES ASSUME NEW p \in Partition, NEW q \in Partition, <<p, q>> \in R, <<q, p>> \in R
                   PROVE  on(p) = on(q) /\ k(p) = k(q)
        BY <1>4
      <3>1. i(p) \in Int /\ i(q) \in Int /\ k(p) \in Int /\ k(q) \in Int
        BY <1>2
      <3> QED
        BY <1>5, <3>1
    <2>4. \A p, q, r \in Partition : <<p, q>> \in R /\ <<q, r>> \in R => <<p, r>> \in R
      <3> SUFFICES ASSUME NEW p \in Partition, NEW q \in Partition, NEW r \in Partition,
                          <<p, q>> \in R, <<q, r>> \in R
                   PROVE  IF on(p) = on(r) THEN k(p) <= k(r) ELSE i(p) < i(r)
        BY <1>5
      <3>1. /\ i(p) \in Int /\ i(q) \in Int /\ i(r) \in Int
            /\ k(p) \in Int /\ k(q) \in Int /\ k(r) \in Int
        BY <1>2
      <3>2. /\ IF on(p) = on(q) THEN k(p) <= k(q) ELSE i(p) < i(q)
            /\ IF on(q) = on(r) THEN k(q) <= k(r) ELSE i(q) < i(r)
        BY <1>5
      <3>3. /\ on(p) = on(q) => i(p) = i(q)
            /\ on(q) = on(r) => i(q) = i(r)
            /\ on(p) = on(r) => i(p) = i(r)
        BY <1>6
      <3> QED
        BY <3>1, <3>2, <3>3
    <2> QED
      BY <2>1, <2>2, <2>3, <2>4 DEF TotalOrder
  <1>8. IsFiniteSet(Partition)
    BY Finite
  <1>9. Joined(parts, servers) = Listing(Partition, R)
    BY DEF Joined, R, JoinOrder
  <1> QED
    BY <1>7, <1>8, <1>9, ListingPermutes DEF R

-----------------------------------------------------------------------------
(* The order of the chains.                                                *)

Denser(ld) == {e \in Partition \X Partition :
                  ld[e[1]] * conf.cap[e[2]] >= ld[e[2]] * conf.cap[e[1]]}
LessUsed(ld) == {e \in Partition \X Partition : ld[e[1]] <= ld[e[2]]}
Busier(ld) == {e \in Server \X Server : Use(ld, e[1]) >= Use(ld, e[2])}
ServerOrder(ld) ==
    {e \in Partition \X Partition :
        IF conf.on[e[1]] = conf.on[e[2]] THEN ld[e[1]] <= ld[e[2]]
        ELSE Use(ld, conf.on[e[1]]) >= Use(ld, conf.on[e[2]])}

Sorted(a, ld, b) ==
    /\ Permutes(b.chain, Partition)
    /\ a # "byweekuse" => Ordered(b.chain, Denser(ld))
    /\ a = "byweekuse" => /\ Ordered(b.chain, ServerOrder(ld))
                          /\ Permutes(b.servers, Server)
                          /\ Ordered(b.servers, Busier(ld))

LEMMA OrderedElse ==
    ASSUME NEW E, NEW s \in Seq(E), NEW R, NEW Q, Ordered(s, R),
           \A x, y \in ToSet(s) : <<x, y>> \in R => <<x, y>> \in Q
    PROVE  Ordered(s, Q)
  <1>1. \A i \in 1..Len(s) : s[i] \in ToSet(s)
    BY ToSetFacts
  <1> QED
    BY <1>1 DEF Ordered

LEMMA PermutesOrdered ==
    ASSUME NEW S, NEW s, Permutes(s, S), NEW R, Ordered(s, R), NEW x \in S, NEW y \in S,
           At(s, x) < At(s, y)
    PROVE  <<x, y>> \in R
  <1>1. /\ At(s, x) \in 1..Len(s) /\ At(s, y) \in 1..Len(s)
        /\ s[At(s, x)] = x /\ s[At(s, y)] = y
    BY PermutesAt
  <1>2. <<s[At(s, x)], s[At(s, y)]>> \in R
    BY <1>1 DEF Ordered
  <1> QED
    BY <1>1, <1>2

LEMMA UseFacts ==
    ASSUME conf \in Cells, NEW ld \in [Partition -> Nat], NEW s
    PROVE  Use(ld, s) \in Nat
  <1>1. IsFiniteSet({p \in Partition : conf.on[p] = s})
    BY Finite, FS_Subset
  <1> QED
    BY <1>1, SumFacts DEF Use

LEMMA JoinedSorted ==
    ASSUME conf \in Cells, NEW ld \in [Partition -> Nat], NEW parts, NEW servers,
           Permutes(servers, Server), Ordered(servers, Busier(ld)),
           \A s \in Server : Permutes(parts[s], Its(s)) /\ Ordered(parts[s], LessUsed(ld))
    PROVE  /\ Permutes(Joined(parts, servers), Partition)
           /\ Ordered(Joined(parts, servers), ServerOrder(ld))
  <1> DEFINE c == Joined(parts, servers)
             R == JoinOrder(parts, servers)
  <1>1. Permutes(c, Partition) /\ Ordered(c, R)
    BY JoinedFacts
  <1>2. ASSUME NEW p \in Partition, NEW q \in Partition, <<p, q>> \in R
        PROVE  <<p, q>> \in ServerOrder(ld)
    <2> DEFINE s == conf.on[p]
               t == conf.on[q]
    <2>1. s \in Server /\ t \in Server
      BY ConfFacts
    <2>2. IF s = t THEN At(parts[s], p) <= At(parts[s], q) ELSE At(servers, s) < At(servers, t)
      BY <1>2 DEF JoinOrder
    <2>3. CASE s = t
      <3> DEFINE u == parts[s]
      <3>1. Permutes(u, Its(s)) /\ Ordered(u, LessUsed(ld)) /\ p \in Its(s) /\ q \in Its(s)
        BY <2>1, <2>3 DEF Its
      <3>2. At(u, p) <= At(u, q)
        BY <2>2, <2>3
      <3> HIDE DEF u, s, t
      <3>3. /\ At(u, p) \in Int /\ At(u, q) \in Int
            /\ At(u, p) = At(u, q) => p = q
        BY <3>1, PermutesAt
      <3>4. CASE At(u, p) < At(u, q)
        <4>1. <<p, q>> \in LessUsed(ld)
          BY <3>1, <3>4, PermutesOrdered
        <4>2. ld[p] <= ld[q]
          BY <4>1 DEF LessUsed
        <4> QED
          BY <4>2, <2>3 DEF ServerOrder, s, t
      <3>5. CASE p = q
        <4>1. ld[p] <= ld[q]
          BY <3>5
        <4> QED
          BY <4>1, <2>3 DEF ServerOrder, s, t
      <3> QED
        BY <3>2, <3>3, <3>4, <3>5
    <2>4. CASE s # t
      <3>1. At(servers, s) < At(servers, t)
        BY <2>2, <2>4
      <3> HIDE DEF s, t
      <3>2. <<s, t>> \in Busier(ld)
        BY <2>1, <3>1, PermutesOrdered
      <3>3. Use(ld, s) >= Use(ld, t)
        BY <3>2 DEF Busier
      <3> QED
        BY <2>4, <3>3 DEF ServerOrder, s, t
    <2> QED
      BY <2>3, <2>4
  <1>3. c \in Seq(Partition) /\ ToSet(c) = Partition
    BY <1>1 DEF Permutes
  <1> HIDE DEF c, R
  <1>4. Ordered(c, ServerOrder(ld))
    BY <1>1, <1>2, <1>3, OrderedElse
  <1> QED
    BY <1>1, <1>4 DEF c

(* Taking an element out and putting another one in.                       *)
LEMMA PermutesRemoval ==
    ASSUME NEW S, NEW s, Permutes(s, S), NEW x
    PROVE  Permutes(RemoveFirst(s, x), S \ {x})
  <1> DEFINE t == RemoveFirst(s, x)
  <1>1. s \in Seq(S) /\ IsInjective(s) /\ ToSet(s) = S
    BY DEF Permutes
  <1>2. t \in Seq(S) /\ IsInjective(t) /\ ToSet(t) = S \ {x}
    BY <1>1, Removal
  <1> HIDE DEF t
  <1>3. t \in Seq(S \ {x})
    <2>1. Len(t) \in Nat /\ t \in [1..Len(t) -> S] /\ \A i \in 1..Len(t) : t[i] \in S \ {x}
      BY <1>2, LenProperties, ToSetFacts
    <2>2. t \in [1..Len(t) -> S \ {x}]
      BY <2>1
    <2> QED
      BY <2>1, <2>2, SeqDef
  <1> QED
    BY <1>2, <1>3 DEF Permutes, t

LEMMA PermutesInsertion ==
    ASSUME NEW S, NEW s, Permutes(s, S), NEW x, x \notin S, NEW T
    PROVE  Permutes(Inserting(s, x, T), S \cup {x})
  <1>1. s \in Seq(S) /\ IsInjective(s) /\ ToSet(s) = S
    BY DEF Permutes
  <1>2. s \in Seq(S \cup {x})
    BY <1>1, SeqMonotonic
  <1> QED
    BY <1>1, <1>2, Insertion DEF Permutes

LEMMA PermutesInside ==
    ASSUME NEW S, NEW s, Permutes(s, S), NEW E, S \subseteq E
    PROVE  s \in Seq(E) /\ IsInjective(s) /\ ToSet(s) = S
  BY SeqMonotonic DEF Permutes

LEMMA InsertPOrdered ==
    ASSUME conf \in Cells, NEW a, NEW ld \in [Partition -> Nat], NEW s \in Seq(Partition),
           Ordered(s, Denser(ld)), NEW p \in Partition
    PROVE  Ordered(InsertP(a, ld, s, p), Denser(ld))
  <1> DEFINE T == PartitionsBehind(a, ld, p)
             R == Denser(ld)
             f(q, r) == ld[q] * conf.cap[r]
  <1>1. \A q, r \in Partition : f(q, r) \in Int
    BY ConfFacts
  <1>2. \A q, r \in Partition : <<q, r>> \in R <=> f(q, r) >= f(r, q)
    BY DEF Denser
  <1>3. \A q \in Partition : q \in T <=> IF a = "bynumber" THEN f(q, p) < f(p, q) ELSE f(q, p) <= f(p, q)
    BY DEF PartitionsBehind
  <1>4. ASSUME NEW q \in Partition, NEW r \in Partition, NEW t \in Partition,
               f(q, r) >= f(r, q), f(r, t) >= f(t, r)
        PROVE  f(q, t) >= f(t, q)
    <2>1. /\ ld[q] \in Int /\ ld[r] \in Int /\ ld[t] \in Int
          /\ conf.cap[q] \in Nat \ {0} /\ conf.cap[r] \in Nat \ {0} /\ conf.cap[t] \in Nat \ {0}
      BY ConfFacts
    <2> DEFINE x == ld[q]
               y == ld[r]
               z == ld[t]
               u == conf.cap[q]
               v == conf.cap[r]
               w == conf.cap[t]
    <2>2. x * v >= y * u /\ y * w >= z * v
      BY <1>4
    <2>3. /\ x \in Int /\ y \in Int /\ z \in Int
          /\ u \in Nat \ {0} /\ v \in Nat \ {0} /\ w \in Nat \ {0}
      BY <2>1
    <2> HIDE DEF x, y, z, u, v, w
    <2>4. x * w >= z * u
      BY <2>2, <2>3, Fractions
    <2> QED
      BY <2>4 DEF x, z, u, w
  <1>0. Ordered(s, R)
    OBVIOUS
  <1> HIDE DEF T, R, f
  <1>5. \A q \in Partition : q \notin T => <<q, p>> \in R
    <2> TAKE q \in Partition
    <2>1. f(q, p) \in Int /\ f(p, q) \in Int
      BY <1>1
    <2> QED
      BY <1>2, <1>3, <2>1
  <1>6. \A q \in Partition : q \in T => <<p, q>> \in R
    <2> TAKE q \in Partition
    <2>1. f(q, p) \in Int /\ f(p, q) \in Int
      BY <1>1
    <2> QED
      BY <1>2, <1>3, <2>1
  <1>7. \A q, r \in Partition : q \in T /\ <<q, r>> \in R => <<p, r>> \in R
    BY <1>2, <1>4, <1>6
  <1>8. ToSet(s) \subseteq Partition
    BY ToSetFacts
  <1>9. Ordered(Inserting(s, p, T), R)
    BY <1>0, <1>5, <1>6, <1>7, <1>8, InsertionOrdered
  <1> QED
    BY <1>9, InsertPIs DEF T, R

LEMMA InsertOnOrdered ==
    ASSUME NEW ld \in [Partition -> Nat], NEW s \in Seq(Partition),
           Ordered(s, LessUsed(ld)), NEW p \in Partition
    PROVE  Ordered(InsertOn(ld, s, p), LessUsed(ld))
  <1> DEFINE T == UsedMore(ld, p)
             R == LessUsed(ld)
  <1>1. \A q, r \in Partition : <<q, r>> \in R <=> ld[q] <= ld[r]
    BY DEF LessUsed
  <1>2. \A q \in Partition : q \in T <=> ld[q] > ld[p]
    BY DEF UsedMore
  <1>3. Ordered(s, R) /\ \A q \in Partition : ld[q] \in Int
    OBVIOUS
  <1> HIDE DEF T, R
  <1>4. ToSet(s) \subseteq Partition
    BY ToSetFacts
  <1>5. /\ \A q \in ToSet(s) : q \notin T => <<q, p>> \in R
        /\ \A q \in ToSet(s) : q \in T => <<p, q>> \in R
        /\ \A q, r \in ToSet(s) : q \in T /\ <<q, r>> \in R => <<p, r>> \in R
    BY <1>1, <1>2, <1>3, <1>4
  <1>6. Ordered(Inserting(s, p, T), R)
    BY <1>3, <1>5, InsertionOrdered
  <1> QED
    BY <1>6, InsertOnIs DEF T, R

LEMMA InsertSOrdered ==
    ASSUME conf \in Cells, NEW ld \in [Partition -> Nat], NEW s \in Seq(Server),
           Ordered(s, Busier(ld)), NEW t \in Server
    PROVE  Ordered(InsertS(ld, s, t), Busier(ld))
  <1> DEFINE T == ServersBehind(ld, t)
             R == Busier(ld)
  <1>1. \A q, r \in Server : <<q, r>> \in R <=> Use(ld, q) >= Use(ld, r)
    BY DEF Busier
  <1>2. \A q \in Server : q \in T <=> Use(ld, q) <= Use(ld, t)
    BY DEF ServersBehind
  <1>3. Ordered(s, R) /\ \A q \in Server : Use(ld, q) \in Int
    BY UseFacts
  <1> HIDE DEF T, R
  <1>4. ToSet(s) \subseteq Server
    BY ToSetFacts
  <1>5. /\ \A q \in ToSet(s) : q \notin T => <<q, t>> \in R
        /\ \A q \in ToSet(s) : q \in T => <<t, q>> \in R
        /\ \A q, r \in ToSet(s) : q \in T /\ <<q, r>> \in R => <<t, r>> \in R
    BY <1>1, <1>2, <1>3, <1>4
  <1>6. Ordered(Inserting(s, t, T), R)
    BY <1>3, <1>5, InsertionOrdered
  <1> QED
    BY <1>6, InsertSIs DEF T, R

(* setrequest sorts the two partitions of a move in again.                 *)
LEMMA CutFacts ==
    ASSUME NEW E, NEW s, Permutes(s, E), NEW R, Ordered(s, R), NEW Q, NEW x \in E, NEW y \in E,
           \A u, v \in E \ {x, y} : <<u, v>> \in R => <<u, v>> \in Q
    PROVE  LET cut == RemoveFirst(RemoveFirst(s, x), y)
           IN  Permutes(cut, E \ {x, y}) /\ Ordered(cut, Q) /\ Ordered(cut, R)
  <1> DEFINE one == RemoveFirst(s, x)
             cut == RemoveFirst(one, y)
  <1>1. s \in Seq(E) /\ IsInjective(s)
    BY DEF Permutes
  <1>2. Permutes(one, E \ {x}) /\ Ordered(one, R)
    BY <1>1, PermutesRemoval, RemovalOrdered
  <1>3. one \in Seq(E \ {x}) /\ IsInjective(one)
    BY <1>2 DEF Permutes
  <1> HIDE DEF one
  <1>4. Permutes(cut, (E \ {x}) \ {y}) /\ Ordered(cut, R)
    BY <1>2, <1>3, PermutesRemoval, RemovalOrdered
  <1> HIDE DEF cut
  <1>5. Permutes(cut, E \ {x, y})
    <2>1. (E \ {x}) \ {y} = E \ {x, y}
      OBVIOUS
    <2> QED
      BY <1>4, <2>1
  <1>6. cut \in Seq(E \ {x, y}) /\ ToSet(cut) = E \ {x, y}
    BY <1>5 DEF Permutes
  <1>7. Ordered(cut, Q)
    BY <1>4, <1>6, OrderedElse
  <1> QED
    BY <1>4, <1>5, <1>7 DEF cut, one

Alike(ld, new, m) == \A p \in Partition \ {m.from, m.to} : new[p] = ld[p]

LEMMA ResortedChain ==
    ASSUME conf \in Cells, NEW a, a # "byweekuse", NEW ld \in [Partition -> Nat],
           NEW new \in [Partition -> Nat], NEW b, Sorted(a, ld, b), NEW m \in Request,
           m.from # m.to, Alike(ld, new, m)
    PROVE  Sorted(a, new, Resorted(a, b, new, m))
  <1> DEFINE p == m.from
             q == m.to
             cut == RemoveFirst(RemoveFirst(b.chain, p), q)
             one == InsertP(a, new, cut, p)
             both == InsertP(a, new, one, q)
  <1>1. p \in Partition /\ q \in Partition /\ p # q
    BY DEF Request
  <1>2. Permutes(b.chain, Partition) /\ Ordered(b.chain, Denser(ld))
    BY DEF Sorted
  <1>3. \A u, v \in Partition \ {p, q} : <<u, v>> \in Denser(ld) => <<u, v>> \in Denser(new)
    BY DEF Denser, Alike
  <1>4. Resorted(a, b, new, m).chain = both
    BY DEF Resorted
  <1> HIDE DEF p, q
  <1>5. Permutes(cut, Partition \ {p, q}) /\ Ordered(cut, Denser(new))
    BY <1>1, <1>2, <1>3, CutFacts
  <1> HIDE DEF cut
  <1>6. cut \in Seq(Partition)
    BY <1>5, PermutesInside
  <1>7. Permutes(one, (Partition \ {p, q}) \cup {p}) /\ Ordered(one, Denser(new))
    BY <1>1, <1>5, <1>6, InsertPOrdered, InsertPIs, PermutesInsertion
  <1> HIDE DEF one
  <1>8. one \in Seq(Partition)
    BY <1>1, <1>7, PermutesInside
  <1>9. Permutes(both, ((Partition \ {p, q}) \cup {p}) \cup {q}) /\ Ordered(both, Denser(new))
    BY <1>1, <1>7, <1>8, InsertPOrdered, InsertPIs, PermutesInsertion
  <1>10. ((Partition \ {p, q}) \cup {p}) \cup {q} = Partition
    BY <1>1
  <1> HIDE DEF both
  <1> QED
    BY <1>4, <1>9, <1>10 DEF Sorted

LEMMA ResortedServers ==
    ASSUME conf \in Cells, NEW ld \in [Partition -> Nat],
           NEW new \in [Partition -> Nat], NEW b, Sorted("byweekuse", ld, b), NEW m \in Request,
           m.from # m.to, Alike(ld, new, m)
    PROVE  LET t == Resorted("byweekuse", b, new, m).servers
           IN  Permutes(t, Server) /\ Ordered(t, Busier(new))
  <1> DEFINE s == conf.on[m.from]
             t == conf.on[m.to]
             cut == RemoveFirst(RemoveFirst(b.servers, s), t)
             one == InsertS(new, cut, s)
             both == InsertS(new, one, t)
             res == IF s = t THEN one ELSE both
  <1>1. s \in Server /\ t \in Server
    BY ConfFacts DEF Request
  <1>2. Permutes(b.servers, Server) /\ Ordered(b.servers, Busier(ld))
    BY DEF Sorted
  <1>3. \A u \in Server \ {s, t} : Use(ld, u) = Use(new, u)
    <2> TAKE u \in Server \ {s, t}
    <2>1. \A x \in {x \in Partition : conf.on[x] = u} : ld[x] = new[x]
      BY DEF Alike
    <2> QED
      BY <2>1, SumSame DEF Use
  <1>4. Resorted("byweekuse", b, new, m).servers = res
    BY DEF Resorted
  <1> HIDE DEF s, t
  <1>5. \A u, v \in Server \ {s, t} : <<u, v>> \in Busier(ld) => <<u, v>> \in Busier(new)
    BY <1>3 DEF Busier
  <1>6. Permutes(cut, Server \ {s, t}) /\ Ordered(cut, Busier(new))
    BY <1>1, <1>2, <1>5, CutFacts
  <1> HIDE DEF cut
  <1>7. cut \in Seq(Server)
    BY <1>6, PermutesInside
  <1>8. Permutes(one, (Server \ {s, t}) \cup {s}) /\ Ordered(one, Busier(new))
    BY <1>1, <1>6, <1>7, InsertSOrdered, InsertSIs, PermutesInsertion
  <1> HIDE DEF one
  <1>9. CASE s = t
    <2>1. (Server \ {s, t}) \cup {s} = Server
      BY <1>1, <1>9
    <2> QED
      BY <1>4, <1>8, <1>9, <2>1
  <1>10. CASE s # t
    <2>1. one \in Seq(Server)
      BY <1>1, <1>8, PermutesInside
    <2>2. t \notin (Server \ {s, t}) \cup {s}
      BY <1>10
    <2>3. Permutes(both, ((Server \ {s, t}) \cup {s}) \cup {t}) /\ Ordered(both, Busier(new))
      BY <1>1, <1>8, <2>1, <2>2, InsertSOrdered, InsertSIs, PermutesInsertion
    <2>4. ((Server \ {s, t}) \cup {s}) \cup {t} = Server
      BY <1>1
    <2> HIDE DEF both
    <2> QED
      BY <1>4, <1>10, <2>3, <2>4
  <1> QED
    BY <1>9, <1>10

LEMMA ResortedParts ==
    ASSUME conf \in Cells, NEW ld \in [Partition -> Nat],
           NEW new \in [Partition -> Nat], NEW b, Sorted("byweekuse", ld, b), NEW m \in Request,
           m.from # m.to, Alike(ld, new, m)
    PROVE  Sorted("byweekuse", new, Resorted("byweekuse", b, new, m))
  <1> DEFINE p == m.from
             q == m.to
             cut == RemoveFirst(RemoveFirst(b.chain, p), q)
             left == [s \in Server |-> On(cut, s)]
             one == [left EXCEPT ![conf.on[p]] = InsertOn(new, @, p)]
             both == [one EXCEPT ![conf.on[q]] = InsertOn(new, @, q)]
             t == Resorted("byweekuse", b, new, m).servers
  <1>1. p \in Partition /\ q \in Partition /\ p # q
    BY DEF Request
  <1>2. conf.on \in [Partition -> Server]
    BY ConfFacts
  <1>3. Permutes(b.chain, Partition) /\ Ordered(b.chain, ServerOrder(ld))
    BY DEF Sorted
  <1>4. \A u, v \in Partition \ {p, q} : <<u, v>> \in ServerOrder(ld) => <<u, v>> \in ServerOrder(ld)
    OBVIOUS
  <1>5. \A u \in Partition \ {p, q} : new[u] = ld[u]
    BY DEF Alike
  <1>6. Permutes(t, Server) /\ Ordered(t, Busier(new))
    BY ResortedServers
  <1>7. Resorted("byweekuse", b, new, m).chain = Joined(both, t)
    BY DEF Resorted
  <1> HIDE DEF p, q, t
  <1>8. Permutes(cut, Partition \ {p, q}) /\ Ordered(cut, ServerOrder(ld))
    BY <1>1, <1>3, <1>4, CutFacts
  <1> HIDE DEF cut
  <1>9. cut \in Seq(Partition) /\ IsInjective(cut) /\ ToSet(cut) = Partition \ {p, q}
    BY <1>8, PermutesInside
  <1>10. ASSUME NEW s \in Server
         PROVE  /\ Permutes(left[s], {x \in Partition \ {p, q} : conf.on[x] = s})
                /\ Ordered(left[s], LessUsed(new))
    <2> DEFINE l == On(cut, s)
               S == {x \in Partition \ {p, q} : conf.on[x] = s}
    <2>1. Permutes(l, S) /\ Ordered(l, ServerOrder(ld))
      BY <1>8, <1>9, OnFacts
    <2>2. \A x, y \in S : <<x, y>> \in ServerOrder(ld) => <<x, y>> \in LessUsed(new)
      BY <1>5 DEF ServerOrder, LessUsed
    <2>3. l \in Seq(S) /\ ToSet(l) = S
      BY <2>1 DEF Permutes
    <2> HIDE DEF l, S
    <2>4. Ordered(l, LessUsed(new))
      BY <2>1, <2>2, <2>3, OrderedElse
    <2> QED
      BY <2>1, <2>4 DEF l, S
  <1> HIDE DEF left
  <1>11. DOMAIN left = Server
    BY DEF left
  <1>12. ASSUME NEW s \in Server
         PROVE  /\ Permutes(one[s], {x \in Partition \ {q} : conf.on[x] = s})
                /\ Ordered(one[s], LessUsed(new))
    <2> DEFINE S == {x \in Partition \ {p, q} : conf.on[x] = s}
    <2>1. Permutes(left[s], S) /\ Ordered(left[s], LessUsed(new))
      BY <1>10
    <2>2. S \subseteq Partition
      OBVIOUS
    <2>3. CASE s = conf.on[p]
      <3>1. one[s] = InsertOn(new, left[s], p)
        BY <1>11, <2>3
      <3>2. S \cup {p} = {x \in Partition \ {q} : conf.on[x] = s} /\ p \notin S
        BY <1>1, <2>3
      <3> HIDE DEF S, one
      <3>3. left[s] \in Seq(Partition)
        BY <2>1, <2>2, PermutesInside
      <3>4. Permutes(one[s], S \cup {p}) /\ Ordered(one[s], LessUsed(new))
        BY <1>1, <2>1, <3>1, <3>2, <3>3, InsertOnOrdered, InsertOnIs, PermutesInsertion
      <3> QED
        BY <3>2, <3>4
    <2>4. CASE s # conf.on[p]
      <3>1. one[s] = left[s]
        BY <1>11, <2>4
      <3>2. S = {x \in Partition \ {q} : conf.on[x] = s}
        BY <1>1, <2>4
      <3> HIDE DEF S, one
      <3> QED
        BY <2>1, <3>1, <3>2
    <2> QED
      BY <2>3, <2>4
  <1>13. DOMAIN one = Server
    BY <1>11
  <1> HIDE DEF one
  <1>14. ASSUME NEW s \in Server
         PROVE  Permutes(both[s], Its(s)) /\ Ordered(both[s], LessUsed(new))
    <2> DEFINE S == {x \in Partition \ {q} : conf.on[x] = s}
    <2>1. Permutes(one[s], S) /\ Ordered(one[s], LessUsed(new))
      BY <1>12
    <2>2. S \subseteq Partition
      OBVIOUS
    <2>3. CASE s = conf.on[q]
      <3>1. both[s] = InsertOn(new, one[s], q)
        BY <1>13, <2>3
      <3>2. S \cup {q} = Its(s) /\ q \notin S
        BY <1>1, <2>3 DEF Its
      <3> HIDE DEF S, both
      <3>3. one[s] \in Seq(Partition)
        BY <2>1, <2>2, PermutesInside
      <3>4. Permutes(both[s], S \cup {q}) /\ Ordered(both[s], LessUsed(new))
        BY <1>1, <2>1, <3>1, <3>2, <3>3, InsertOnOrdered, InsertOnIs, PermutesInsertion
      <3> QED
        BY <3>2, <3>4
    <2>4. CASE s # conf.on[q]
      <3>1. both[s] = one[s]
        BY <1>13, <2>4
      <3>2. S = Its(s)
        BY <1>1, <2>4 DEF Its
      <3> HIDE DEF S, both
      <3> QED
        BY <2>1, <3>1, <3>2
    <2> QED
      BY <2>3, <2>4
  <1> HIDE DEF both
  <1>15. /\ Permutes(Joined(both, t), Partition)
         /\ Ordered(Joined(both, t), ServerOrder(new))
    BY <1>6, <1>14, JoinedSorted
  <1> QED
    BY <1>6, <1>7, <1>15 DEF Sorted, t

LEMMA ResortedSorted ==
    ASSUME conf \in Cells, NEW a, NEW ld \in [Partition -> Nat],
           NEW new \in [Partition -> Nat], NEW b, Sorted(a, ld, b), NEW m \in Request,
           m.from # m.to, Alike(ld, new, m)
    PROVE  Sorted(a, new, Resorted(a, b, new, m))
  BY ResortedChain, ResortedParts

(* servconf sorts everything in.                                           *)
LEMMA OpeningVols ==
    ASSUME conf \in Cells, NEW a \in Agent, NEW ld
    PROVE  LET b == Opening(a, ld)
           IN  /\ DOMAIN b.vols = Partition
               /\ \A p \in Partition : Permutes(b.vols[p], {v \in Volume : conf.place[v] = p})
               /\ b.nextvol = [p \in Partition |-> FirstOf(b.vols[p])]
  <1> DEFINE here(p) == {v \in Volume : conf.place[v] = p}
             vols == [p \in Partition |->
                        Inserted(here(p), [v \in here(p) |-> Key(a, v)], Whole(here(p)),
                                 LastFirst(here(p), conf.threaded))]
  <1>1. /\ Opening(a, ld).vols = vols
        /\ Opening(a, ld).nextvol = [p \in Partition |-> FirstOf(vols[p])]
    BY DEF Opening
  <1>2. ASSUME NEW p \in Partition PROVE Permutes(vols[p], here(p))
    <2> DEFINE S == here(p)
               key == [v \in S |-> Key(a, v)]
               rank == LastFirst(S, conf.threaded)
    <2>1. S \in SUBSET Volume /\ IsFiniteSet(S)
      BY Finite, FS_Subset
    <2>2. key \in [S -> Int]
      BY <2>1, GainFacts
    <2>3. Whole(S) \in [S -> Nat \ {0}]
      BY DEF Whole
    <2>4. rank \in [S -> Int] /\ \A x, y \in S : rank[x] = rank[y] => x = y
      <3> HIDE DEF S
      <3>1. conf.threaded \in Seq(Volume) /\ ToSet(conf.threaded) = Volume
        BY ConfFacts
      <3>2. S \in SUBSET ToSet(conf.threaded)
        BY <2>1, <3>1
      <3> QED
        BY <3>1, <3>2, RankFirstLast
    <2>5. vols[p] = Inserted(S, key, Whole(S), rank)
      OBVIOUS
    <2> HIDE DEF S, key, rank, vols
    <2>6. Permutes(vols[p], S)
      BY <2>1, <2>2, <2>3, <2>4, <2>5, InsertedFacts
    <2> QED
      BY <2>6 DEF S
  <1>3. DOMAIN vols = Partition
    OBVIOUS
  <1> HIDE DEF vols
  <1> QED
    BY <1>1, <1>2, <1>3
LEMMA OpeningSorted ==
    ASSUME conf \in Cells, NEW a \in Agent, NEW ld \in [Partition -> Nat]
    PROVE  Sorted(a, ld, Opening(a, ld))
  <1> DEFINE key(s) == [p \in Its(s) |-> -ld[p]]
             parts == [s \in Server |-> Inserted(Its(s), key(s), Whole(Its(s)),
                                                 FirstFirst(Its(s), conf.order))]
             ranks == LastFirst(Server, conf.servers)
             use == [s \in Server |-> Use(ld, s)]
             servers == Inserted(Server, use, Whole(Server), ranks)
             rank == IF a = "bynumber" THEN FirstFirst(Partition, conf.order)
                     ELSE LastFirst(Partition, conf.order)
             chain == Inserted(Partition, ld, conf.cap, rank)
  <1>1. IsFiniteSet(Partition) /\ IsFiniteSet(Server)
    BY Finite
  <1>2. /\ conf.order \in Seq(Partition) /\ ToSet(conf.order) = Partition
        /\ conf.servers \in Seq(Server) /\ ToSet(conf.servers) = Server
        /\ conf.cap \in [Partition -> Nat \ {0}]
    BY ConfFacts
  <1>3. CASE a # "byweekuse"
    <2>1. Opening(a, ld).chain = chain
      BY <1>3 DEF Opening
    <2>2. rank \in [Partition -> Int] /\ \A x, y \in Partition : rank[x] = rank[y] => x = y
      <3>1. Partition \in SUBSET ToSet(conf.order)
        BY <1>2
      <3>2. /\ LastFirst(Partition, conf.order) \in [Partition -> Int]
            /\ FirstFirst(Partition, conf.order) \in [Partition -> Int]
            /\ \A x, y \in Partition : LastFirst(Partition, conf.order)[x]
                                       = LastFirst(Partition, conf.order)[y] => x = y
            /\ \A x, y \in Partition : FirstFirst(Partition, conf.order)[x]
                                       = FirstFirst(Partition, conf.order)[y] => x = y
        BY <1>2, <3>1, RankFirstLast
      <3>3. rank = FirstFirst(Partition, conf.order) \/ rank = LastFirst(Partition, conf.order)
        OBVIOUS
      <3> HIDE DEF rank
      <3> QED
        BY <3>2, <3>3
    <2> HIDE DEF rank
    <2>3. ld \in [Partition -> Int]
      OBVIOUS
    <2>4. /\ Permutes(chain, Partition)
          /\ Ordered(chain, Ahead(Partition, ld, conf.cap, rank))
      BY <1>1, <1>2, <2>2, <2>3, InsertedFacts
    <2>5. \A x, y \in Partition : <<x, y>> \in Ahead(Partition, ld, conf.cap, rank)
                                  => <<x, y>> \in Denser(ld)
      <3> SUFFICES ASSUME NEW x \in Partition, NEW y \in Partition,
                          <<x, y>> \in Ahead(Partition, ld, conf.cap, rank)
                   PROVE  ld[x] * conf.cap[y] >= ld[y] * conf.cap[x]
        BY DEF Denser
      <3> DEFINE f == ld[x] * conf.cap[y]
                 g == ld[y] * conf.cap[x]
      <3>1. f \in Int /\ g \in Int
        BY <1>2
      <3>2. f > g \/ f = g
        BY DEF Ahead
      <3> HIDE DEF f, g
      <3>3. f >= g
        BY <3>1, <3>2
      <3> QED
        BY <3>3 DEF f, g
    <2> HIDE DEF chain
    <2>6. chain \in Seq(Partition) /\ ToSet(chain) = Partition
      BY <2>4 DEF Permutes
    <2>7. Ordered(chain, Denser(ld))
      BY <2>4, <2>5, <2>6, OrderedElse
    <2> QED
      BY <1>3, <2>1, <2>4, <2>7 DEF Sorted
  <1>4. CASE a = "byweekuse"
    <2>1. Opening(a, ld).chain = Joined(parts, servers) /\ Opening(a, ld).servers = servers
      BY <1>4 DEF Opening, Its
    <2>2. Permutes(servers, Server) /\ Ordered(servers, Busier(ld))
      <3>1. use \in [Server -> Int]
        BY UseFacts
      <3>2. Whole(Server) \in [Server -> Nat \ {0}]
        BY DEF Whole
      <3>3. ranks \in [Server -> Int] /\ \A x, y \in Server : ranks[x] = ranks[y] => x = y
        <4>1. Server \in SUBSET ToSet(conf.servers)
          BY <1>2
        <4> QED
          BY <1>2, <4>1, RankFirstLast
      <3>4. \A x, y \in Server : <<x, y>> \in Ahead(Server, use, Whole(Server), ranks)
                                 => <<x, y>> \in Busier(ld)
        <4> SUFFICES ASSUME NEW x \in Server, NEW y \in Server,
                            <<x, y>> \in Ahead(Server, use, Whole(Server), ranks)
                     PROVE  Use(ld, x) >= Use(ld, y)
          BY DEF Busier
        <4>1. Use(ld, x) \in Int /\ Use(ld, y) \in Int
          BY UseFacts
        <4>2. /\ use[x] = Use(ld, x) /\ use[y] = Use(ld, y)
              /\ Whole(Server)[x] = 1 /\ Whole(Server)[y] = 1
          BY DEF Whole
        <4> HIDE DEF use, ranks
        <4>3. use[x] * 1 > use[y] * 1 \/ use[x] * 1 = use[y] * 1
          BY <4>2 DEF Ahead
        <4> QED
          BY <4>1, <4>2, <4>3
      <3> HIDE DEF use, ranks
      <3>5. Permutes(servers, Server) /\ Ordered(servers, Ahead(Server, use, Whole(Server), ranks))
        BY <1>1, <3>1, <3>2, <3>3, InsertedFacts
      <3> HIDE DEF servers
      <3>6. servers \in Seq(Server) /\ ToSet(servers) = Server
        BY <3>5 DEF Permutes
      <3>7. Ordered(servers, Busier(ld))
        BY <3>4, <3>5, <3>6, OrderedElse
      <3> QED
        BY <3>5, <3>7
    <2>3. ASSUME NEW s \in Server
          PROVE  Permutes(parts[s], Its(s)) /\ Ordered(parts[s], LessUsed(ld))
      <3> DEFINE S == Its(s)
                 w == Whole(S)
                 r == FirstFirst(S, conf.order)
                 k == key(s)
                 l == Inserted(S, k, w, r)
      <3>1. S \in SUBSET Partition /\ IsFiniteSet(S)
        BY <1>1, FS_Subset DEF Its
      <3>2. k \in [S -> Int] /\ w \in [S -> Nat \ {0}]
        BY <3>1 DEF Whole
      <3>3. parts[s] = l
        OBVIOUS
      <3>4. \A x \in S : k[x] = -ld[x] /\ w[x] = 1
        BY DEF Whole
      <3> HIDE DEF S, k, w, parts
      <3>5. r \in [S -> Int] /\ \A x, y \in S : r[x] = r[y] => x = y
        <4>1. S \in SUBSET ToSet(conf.order)
          BY <1>2, <3>1
        <4> QED
          BY <1>2, <4>1, RankFirstLast
      <3> HIDE DEF r
      <3>6. Permutes(l, S) /\ Ordered(l, Ahead(S, k, w, r))
        BY <3>1, <3>2, <3>5, InsertedFacts
      <3>7. \A x, y \in S : <<x, y>> \in Ahead(S, k, w, r) => <<x, y>> \in LessUsed(ld)
        <4> SUFFICES ASSUME NEW x \in S, NEW y \in S, <<x, y>> \in Ahead(S, k, w, r)
                     PROVE  ld[x] <= ld[y]
          BY <3>1 DEF LessUsed
        <4>1. k[x] * 1 > k[y] * 1 \/ k[x] * 1 = k[y] * 1
          BY <3>4 DEF Ahead
        <4>2. ld[x] \in Int /\ ld[y] \in Int
          BY <3>1
        <4> QED
          BY <3>4, <4>1, <4>2
      <3> HIDE DEF l
      <3>8. l \in Seq(S) /\ ToSet(l) = S
        BY <3>6 DEF Permutes
      <3>9. Ordered(l, LessUsed(ld))
        BY <3>6, <3>7, <3>8, OrderedElse
      <3> QED
        BY <3>3, <3>6, <3>9 DEF S
    <2> HIDE DEF parts, servers
    <2>4. /\ Permutes(Joined(parts, servers), Partition)
          /\ Ordered(Joined(parts, servers), ServerOrder(ld))
      BY <2>2, <2>3, JoinedSorted
    <2> QED
      BY <1>4, <2>1, <2>2, <2>4 DEF Sorted
  <1> QED
    BY <1>3, <1>4

-----------------------------------------------------------------------------
(* The volumes of a partition and the pointers into their lists.           *)

Book == [chain : Seq(Partition), servers : Seq(Server), vols : [Partition -> Seq(Volume)],
         nextvol : [Partition -> Volume \cup {NULL}]]

Holds(b, where) ==
    \A p \in Partition : /\ IsInjective(b.vols[p])
                         /\ \A v \in ToSet(b.vols[p]) : where[v] = p

Behind(s, x) == {y \in ToSet(s) : At(s, x) <= At(s, y)}

LEMMA TailFacts ==
    ASSUME NEW E, NEW s \in Seq(E), IsInjective(s), NEW x \in ToSet(s)
    PROVE  LET t == SubSeq(s, At(s, x), Len(s))
           IN  /\ t \in Seq(E) /\ Len(t) = (Len(s) - At(s, x)) + 1
               /\ At(s, x) \in 1..Len(s) /\ Len(s) \in Nat /\ s[At(s, x)] = x
               /\ \A i \in 1..Len(t) : t[i] = s[(At(s, x) + i) - 1]
               /\ ToSet(t) = Behind(s, x)
  <1> DEFINE k == At(s, x)
             t == SubSeq(s, k, Len(s))
  <1>1. Permutes(s, ToSet(s))
    <2>1. \A i \in 1..Len(s) : s[i] \in ToSet(s)
      BY ToSetFacts
    <2>2. Len(s) \in Nat /\ s \in [1..Len(s) -> ToSet(s)]
      BY <2>1, LenProperties
    <2>3. s \in Seq(ToSet(s))
      BY <2>2, SeqDef
    <2> QED
      BY <2>3 DEF Permutes
  <1>2. /\ Len(s) \in Nat /\ k \in 1..Len(s) /\ s[k] = x
        /\ \A i \in 1..Len(s) : s[i] \in ToSet(s) /\ At(s, s[i]) = i
        /\ \A y \in ToSet(s) : At(s, y) \in 1..Len(s) /\ s[At(s, y)] = y
    BY <1>1, PermutesAt
  <1>3. \A i \in 1..Len(s) : s[i] \in E
    BY <1>2, ToSetFacts
  <1> HIDE DEF k
  <1>4. /\ t \in Seq(E) /\ Len(t) = (Len(s) - k) + 1
        /\ \A i \in 1..(Len(s) - k) + 1 : t[i] = s[(k + i) - 1]
    <2>1. k \in Int /\ Len(s) \in Int /\ \A i \in k..Len(s) : s[i] \in E
      BY <1>2, <1>3
    <2>2. /\ t \in Seq(E) /\ Len(t) = IF k <= Len(s) THEN Len(s) - k + 1 ELSE 0
          /\ \A i \in 1..Len(s) - k + 1 : t[i] = s[k + i - 1]
      BY ONLY <2>1, SubSeqProperties
    <2> QED
      BY <2>2, <1>2
  <1> HIDE DEF t
  <1>5. DOMAIN t = 1..(Len(s) - k) + 1
    BY <1>4, LenProperties
  <1>6. ToSet(t) = Behind(s, x)
    <2>1. ASSUME NEW y \in ToSet(t) PROVE y \in Behind(s, x)
      <3>1. PICK i \in 1..(Len(s) - k) + 1 : t[i] = y
        BY <1>5 DEF ToSet
      <3>2. (k + i) - 1 \in 1..Len(s) /\ k <= (k + i) - 1
        BY <1>2
      <3>3. y = s[(k + i) - 1]
        BY <1>4, <3>1
      <3> QED
        BY <1>2, <3>2, <3>3 DEF Behind, k
    <2>2. ASSUME NEW y \in Behind(s, x) PROVE y \in ToSet(t)
      <3> DEFINE j == At(s, y)
      <3>1. k <= j /\ j \in 1..Len(s) /\ s[j] = y
        BY <1>2 DEF Behind, k
      <3> HIDE DEF j
      <3>2. (j - k) + 1 \in 1..(Len(s) - k) + 1 /\ (k + ((j - k) + 1)) - 1 = j
        BY <1>2, <3>1
      <3>3. t[(j - k) + 1] = y
        BY <1>4, <3>1, <3>2
      <3> QED
        BY <1>5, <3>2, <3>3 DEF ToSet
    <2> QED
      BY <2>1, <2>2
  <1> QED
    BY <1>2, <1>4, <1>6 DEF k, t

LEMMA BookFacts ==
    ASSUME NEW b \in Book, NEW p \in Partition
    PROVE  /\ b.vols \in [Partition -> Seq(Volume)] /\ b.vols[p] \in Seq(Volume)
           /\ b.nextvol \in [Partition -> Volume \cup {NULL}]
           /\ b.nextvol[p] \in Volume \cup {NULL}
           /\ b.chain \in Seq(Partition) /\ b.servers \in Seq(Server)
           /\ ToSet(b.vols[p]) \subseteq Volume
           /\ \A v : Contains(b.vols[p], v) <=> v \in ToSet(b.vols[p])
  <1>1. b.vols \in [Partition -> Seq(Volume)] /\ b.vols[p] \in Seq(Volume)
    BY DEF Book
  <1>2. /\ ToSet(b.vols[p]) \subseteq Volume
        /\ \A v : Contains(b.vols[p], v) <=> v \in ToSet(b.vols[p])
    BY <1>1, ToSetFacts
  <1> QED
    BY <1>1, <1>2 DEF Book

LEMMA FromFacts ==
    ASSUME NEW b \in Book, NEW where, Holds(b, where), NEW v
    PROVE  /\ \A p \in Partition : v \in ToSet(b.vols[p]) =>
                  From(b, v) = SubSeq(b.vols[p], At(b.vols[p], v), Len(b.vols[p]))
           /\ (\A p \in Partition : v \notin ToSet(b.vols[p])) => From(b, v) = <<v>>
  <1>1. \A p \in Partition : Contains(b.vols[p], v) <=> v \in ToSet(b.vols[p])
    BY BookFacts
  <1>2. ASSUME NEW p \in Partition, v \in ToSet(b.vols[p])
        PROVE  From(b, v) = SubSeq(b.vols[p], At(b.vols[p], v), Len(b.vols[p]))
    <2>1. \A q \in Partition : Contains(b.vols[q], v) => q = where[v]
      BY <1>1 DEF Holds
    <2>2. Contains(b.vols[p], v) /\ p = where[v]
      BY <1>1, <1>2 DEF Holds
    <2> DEFINE q == CHOOSE q \in Partition : Contains(b.vols[q], v)
    <2>3. q \in Partition /\ Contains(b.vols[q], v)
      BY <2>2
    <2>4. From(b, v) = SubSeq(b.vols[q], At(b.vols[q], v), Len(b.vols[q]))
      BY <2>2 DEF From
    <2> HIDE DEF q
    <2>5. q = p
      BY <2>1, <2>2, <2>3
    <2> QED
      BY <2>4, <2>5
  <1>3. (\A p \in Partition : v \notin ToSet(b.vols[p])) => From(b, v) = <<v>>
    BY <1>1 DEF From
  <1> QED
    BY <1>2, <1>3

LEMMA FirstOfFacts ==
    ASSUME NEW E, NEW s \in Seq(E)
    PROVE  /\ s = <<>> => FirstOf(s) = NULL
           /\ s # <<>> => FirstOf(s) = s[1] /\ FirstOf(s) \in ToSet(s) /\ Len(s) \in Nat \ {0}
  BY EmptySeq, LenProperties, HeadTailProperties DEF FirstOf, ToSet

LEMMA FollowingFacts ==
    ASSUME NEW b \in Book, NEW where, Holds(b, where), NEW v \in Volume, Following(b, v) # NULL
    PROVE  \E p \in Partition : /\ v \in ToSet(b.vols[p])
                                /\ Following(b, v) \in ToSet(b.vols[p]) \ {v}
  <1> DEFINE t == From(b, v)
  <1>1. CASE \A p \in Partition : v \notin ToSet(b.vols[p])
    <2>1. From(b, v) = <<v>>
      BY <1>1, FromFacts
    <2>2. Tail(<<v>>) = <<>>
      OBVIOUS
    <2> QED
      BY <2>1, <2>2 DEF Following, FirstOf
  <1>2. ASSUME NEW p \in Partition, v \in ToSet(b.vols[p])
        PROVE  Following(b, v) \in ToSet(b.vols[p]) \ {v}
    <2> DEFINE s == b.vols[p]
               k == At(s, v)
               u == Tail(t)
    <2>1. t = SubSeq(s, k, Len(s))
      BY <1>2, FromFacts
    <2>2. s \in Seq(Volume) /\ IsInjective(s)
      BY BookFacts DEF Holds
    <2> HIDE DEF s
    <2>3. v \in ToSet(s)
      BY <1>2 DEF s
    <2>4. /\ SubSeq(s, k, Len(s)) \in Seq(Volume) /\ Len(SubSeq(s, k, Len(s))) = (Len(s) - k) + 1
          /\ k \in 1..Len(s) /\ Len(s) \in Nat /\ s[k] = v
          /\ \A i \in 1..Len(SubSeq(s, k, Len(s))) : SubSeq(s, k, Len(s))[i] = s[(k + i) - 1]
      BY <2>2, <2>3, TailFacts
    <2> HIDE DEF t, k
    <2>5. /\ t \in Seq(Volume) /\ Len(t) = (Len(s) - k) + 1
          /\ \A i \in 1..(Len(s) - k) + 1 : t[i] = s[(k + i) - 1]
      BY <2>1, <2>4
    <2>6. t # <<>>
      BY <2>4, <2>5, EmptySeq
    <2>7. /\ u \in Seq(Volume) /\ Len(u) = Len(t) - 1
          /\ \A i \in 1..Len(u) : u[i] = t[i + 1]
      BY <2>5, <2>6, HeadTailProperties
    <2>8. Following(b, v) = FirstOf(u)
      BY DEF Following, t
    <2> HIDE DEF u
    <2>9. u # <<>>
      BY <2>8 DEF FirstOf
    <2>10. FirstOf(u) = u[1] /\ Len(u) \in Nat \ {0}
      BY <2>7, <2>9, FirstOfFacts
    <2>11. u[1] = t[2] /\ 2 \in 1..(Len(s) - k) + 1
      BY <2>4, <2>5, <2>7, <2>10
    <2>12. t[2] = s[k + 1] /\ k + 1 \in 1..Len(s) /\ k + 1 # k
      BY <2>4, <2>5, <2>11
    <2>13. DOMAIN s = 1..Len(s)
      BY <2>2, LenProperties
    <2>14. s[k + 1] \in ToSet(s) \ {v}
      BY <2>2, <2>4, <2>12, <2>13 DEF ToSet, IsInjective
    <2> QED
      BY <2>8, <2>10, <2>11, <2>12, <2>14 DEF s
  <1> QED
    BY <1>1, <1>2
LEMMA DiscardvFacts ==
    ASSUME NEW b \in Book, NEW where, Holds(b, where), NEW v \in Volume, NEW p \in Partition
    PROVE  LET c == Discardv(b, v, p)
           IN  /\ c \in Book /\ Holds(c, where)
               /\ c.chain = b.chain /\ c.servers = b.servers
               /\ \A q \in Partition : q # p => c.vols[q] = b.vols[q] /\ c.nextvol[q] = b.nextvol[q]
               /\ c.vols[p] = RemoveFirst(b.vols[p], v)
               /\ ToSet(c.vols[p]) = ToSet(b.vols[p]) \ {v}
               /\ c.nextvol[p] = IF b.nextvol[p] = v THEN Following(b, v) ELSE b.nextvol[p]
  <1> DEFINE c == Discardv(b, v, p)
             s == RemoveFirst(b.vols[p], v)
             n == IF b.nextvol[p] = v THEN Following(b, v) ELSE b.nextvol[p]
  <1>1. /\ b.vols \in [Partition -> Seq(Volume)]
        /\ b.nextvol \in [Partition -> Volume \cup {NULL}]
    BY BookFacts
  <1>2. c = [b EXCEPT !.nextvol = [b.nextvol EXCEPT ![p] = n], !.vols = [b.vols EXCEPT ![p] = s]]
    BY DEF Discardv, Book
  <1>3. b.vols[p] \in Seq(Volume) /\ IsInjective(b.vols[p])
    BY BookFacts DEF Holds
  <1>4. s \in Seq(Volume) /\ IsInjective(s) /\ ToSet(s) = ToSet(b.vols[p]) \ {v}
    BY <1>3, Removal
  <1>5. Following(b, v) \in Volume \cup {NULL}
    <2>1. SUFFICES ASSUME Following(b, v) # NULL PROVE Following(b, v) \in Volume
      OBVIOUS
    <2>2. \A q \in Partition : ToSet(b.vols[q]) \subseteq Volume
      BY BookFacts
    <2> QED
      BY <2>1, <2>2, FollowingFacts
  <1>6. n \in Volume \cup {NULL}
    BY <1>1, <1>5
  <1> HIDE DEF c, s, n
  <1>7. c \in Book
    BY <1>1, <1>2, <1>4, <1>6 DEF Book
  <1>8. /\ c.chain = b.chain /\ c.servers = b.servers
        /\ \A q \in Partition : q # p => c.vols[q] = b.vols[q] /\ c.nextvol[q] = b.nextvol[q]
        /\ c.vols[p] = s /\ c.nextvol[p] = n
    BY <1>1, <1>2 DEF Book
  <1>9. Holds(c, where)
    BY <1>4, <1>8 DEF Holds
  <1> QED
    BY <1>4, <1>7, <1>8, <1>9 DEF c, s, n

(* The book b of a fits the volumes and the loads before the move m.       *)
Ready(a, b, m, where, there, ld, new) ==
    /\ conf \in Cells /\ b \in Book /\ where \in [Volume -> Partition] /\ Holds(b, where)
    /\ m \in Request /\ where[m.vol] = m.from /\ m.from # m.to
    /\ MovedTo(where, m.vol, m.to, there)
    /\ ld \in [Partition -> Nat] /\ new \in [Partition -> Nat]
    /\ Sorted(a, ld, b) /\ Alike(ld, new, m)

LEMMA SetRequestFacts ==
    ASSUME NEW a, NEW b, NEW m, NEW where, NEW there, NEW ld, NEW new,
           Ready(a, b, m, where, there, ld, new)
    PROVE  LET c == SetRequest(a, b, new, m)
           IN  /\ c \in Book /\ Holds(c, there)
               /\ Sorted(a, new, c)
               /\ \A q \in Partition \ {m.from, m.to} : c.vols[q] = b.vols[q]
               /\ c.vols[m.from] = RemoveFirst(b.vols[m.from], m.vol)
               /\ ToSet(c.vols[m.from]) = ToSet(b.vols[m.from]) \ {m.vol}
               /\ ToSet(c.vols[m.to]) = ToSet(b.vols[m.to]) \cup {m.vol}
               /\ \A q \in Partition : c.nextvol[q] =
                     IF Reopens(a, new, m.from) THEN FirstOf(c.vols[q]) ELSE b.nextvol[q]
  <1> DEFINE c == SetRequest(a, b, new, m)
             r == Resorted(a, b, new, m)
             v == m.vol
             p == m.from
             q == m.to
             s == RemoveFirst(b.vols[p], v)
             t == InsertV(a, b.vols[q], v)
             vols == [b.vols EXCEPT ![p] = s, ![q] = InsertV(a, @, v)]
             n == IF Reopens(a, new, p) THEN [x \in Partition |-> FirstOf(vols[x])] ELSE b.nextvol
  <1>0. /\ conf \in Cells /\ b \in Book /\ where \in [Volume -> Partition] /\ Holds(b, where)
        /\ m \in Request /\ where[m.vol] = m.from /\ m.from # m.to
        /\ MovedTo(where, m.vol, m.to, there)
        /\ ld \in [Partition -> Nat] /\ new \in [Partition -> Nat]
        /\ Sorted(a, ld, b) /\ Alike(ld, new, m)
    BY DEF Ready
  <1>1. p \in Partition /\ q \in Partition /\ p # q /\ v \in Volume
    BY <1>0 DEF Request
  <1>2. /\ b.vols \in [Partition -> Seq(Volume)]
        /\ b.nextvol \in [Partition -> Volume \cup {NULL}]
    BY <1>0, <1>1, BookFacts
  <1>3. Sorted(a, new, r)
    BY <1>0, ResortedSorted
  <1>4. r.chain \in Seq(Partition) /\ r.servers \in Seq(Server)
    <2>1. r.chain \in Seq(Partition)
      BY <1>3 DEF Sorted, Permutes
    <2>2. CASE a = "byweekuse"
      BY <1>3, <2>1, <2>2 DEF Sorted, Permutes
    <2>3. CASE a # "byweekuse"
      <3>1. r.servers = <<>>
        BY <2>3 DEF Resorted
      <3> QED
        BY <2>1, <3>1
    <2> QED
      BY <2>2, <2>3
  <1>5. c = [chain |-> r.chain, servers |-> r.servers, vols |-> vols, nextvol |-> n]
    BY DEF SetRequest
  <1>6. where[v] = p /\ MovedTo(where, v, q, there)
    BY <1>0
  <1>7. /\ b.vols[p] \in Seq(Volume) /\ IsInjective(b.vols[p])
        /\ b.vols[q] \in Seq(Volume) /\ IsInjective(b.vols[q])
        /\ v \notin ToSet(b.vols[q])
    BY <1>0, <1>1, <1>2, <1>6 DEF Holds
  <1>8. vols = [[b.vols EXCEPT ![p] = s] EXCEPT ![q] = t]
    BY <1>1, <1>2
  <1> HIDE DEF v, p, q, r, vols, c
  <1>9. s \in Seq(Volume) /\ IsInjective(s) /\ ToSet(s) = ToSet(b.vols[p]) \ {v}
    BY <1>7, Removal
  <1>10. t \in Seq(Volume) /\ IsInjective(t) /\ ToSet(t) = ToSet(b.vols[q]) \cup {v}
    BY <1>1, <1>7, Insertion, InsertVIs
  <1> HIDE DEF s, t
  <1>11. /\ vols \in [Partition -> Seq(Volume)]
         /\ vols[p] = s /\ vols[q] = t
         /\ \A x \in Partition \ {p, q} : vols[x] = b.vols[x]
    BY <1>1, <1>2, <1>8, <1>9, <1>10
  <1>12. \A x \in Partition : FirstOf(vols[x]) \in Volume \cup {NULL}
    <2> TAKE x \in Partition
    <2>1. vols[x] \in Seq(Volume) /\ ToSet(vols[x]) \subseteq Volume
      BY <1>11, ToSetFacts
    <2> QED
      BY <2>1, FirstOfFacts
  <1>13. n \in [Partition -> Volume \cup {NULL}]
    BY <1>2, <1>12
  <1>14. \A x \in Partition : n[x] = IF Reopens(a, new, p) THEN FirstOf(vols[x]) ELSE b.nextvol[x]
    OBVIOUS
  <1> HIDE DEF n
  <1>15. c \in Book
    BY <1>4, <1>5, <1>11, <1>13 DEF Book
  <1>16. /\ c.vols = vols /\ c.nextvol = n /\ c.chain = r.chain /\ c.servers = r.servers
    BY <1>5
  <1>17. Sorted(a, new, c)
    BY <1>3, <1>16 DEF Sorted
  <1>18. Holds(c, there)
    <2> SUFFICES ASSUME NEW x \in Partition
                 PROVE  /\ IsInjective(vols[x])
                        /\ \A w \in ToSet(vols[x]) : there[w] = x
      BY <1>16 DEF Holds
    <2>1. \A w \in Volume : there[w] = IF w = v THEN q ELSE where[w]
      BY <1>6 DEF MovedTo
    <2>2. \A w \in ToSet(b.vols[x]) : where[w] = x /\ w \in Volume
      BY <1>0, BookFacts DEF Holds
    <2>3. CASE x = p
      BY <1>1, <1>9, <1>11, <2>1, <2>2, <2>3
    <2>4. CASE x = q
      BY <1>1, <1>10, <1>11, <2>1, <2>2, <2>4
    <2>5. CASE x \in Partition \ {p, q}
      <3>1. v \notin ToSet(b.vols[x])
        BY <1>6, <2>2, <2>5
      <3> QED
        BY <1>0, <1>11, <2>1, <2>2, <2>5, <3>1 DEF Holds
    <2> QED
      BY <2>3, <2>4, <2>5
  <1> QED
    BY <1>9, <1>10, <1>11, <1>14, <1>15, <1>16, <1>17, <1>18 DEF c, v, p, q, s

LEMMA OpeningFacts ==
    ASSUME conf \in Cells, NEW a \in Agent, NEW ld \in [Partition -> Nat]
    PROVE  LET b == Opening(a, ld)
           IN  b \in Book /\ Holds(b, conf.place) /\ Sorted(a, ld, b)
  <1> DEFINE b == Opening(a, ld)
  <1>1. Sorted(a, ld, b)
    BY OpeningSorted
  <1>2. /\ DOMAIN b.vols = Partition
        /\ \A p \in Partition : Permutes(b.vols[p], {v \in Volume : conf.place[v] = p})
        /\ b.nextvol = [p \in Partition |-> FirstOf(b.vols[p])]
    BY OpeningVols
  <1>3. /\ b = [chain |-> b.chain, servers |-> b.servers, vols |-> b.vols, nextvol |-> b.nextvol]
        /\ \E f : b.vols = [p \in Partition |-> f[p]]
        /\ a # "byweekuse" => b.servers = <<>>
    <2> DEFINE f == [p \in Partition |-> b.vols[p]]
    <2>1. b.vols = f
      BY DEF Opening
    <2> QED
      BY <2>1 DEF Opening
  <1> HIDE DEF b
  <1>4. \A p \in Partition : /\ b.vols[p] \in Seq(Volume) /\ IsInjective(b.vols[p])
                             /\ ToSet(b.vols[p]) = {v \in Volume : conf.place[v] = p}
    <2> TAKE p \in Partition
    <2>1. Permutes(b.vols[p], {v \in Volume : conf.place[v] = p})
      BY <1>2
    <2> QED
      BY <2>1, PermutesInside
  <1>5. b.vols \in [Partition -> Seq(Volume)]
    BY <1>3, <1>4
  <1>6. \A p \in Partition : FirstOf(b.vols[p]) \in Volume \cup {NULL}
    <2> TAKE p \in Partition
    <2>1. ToSet(b.vols[p]) \subseteq Volume
      BY <1>4
    <2> QED
      BY <1>4, <2>1, FirstOfFacts
  <1>7. b.nextvol \in [Partition -> Volume \cup {NULL}]
    BY <1>2, <1>6
  <1>8. b.chain \in Seq(Partition) /\ b.servers \in Seq(Server)
    <2>1. b.chain \in Seq(Partition)
      BY <1>1 DEF Sorted, Permutes
    <2>2. CASE a = "byweekuse"
      BY <1>1, <2>1, <2>2 DEF Sorted, Permutes
    <2>3. CASE a # "byweekuse"
      <3>1. b.servers = <<>>
        BY <1>3, <2>3
      <3> QED
        BY <2>1, <3>1
    <2> QED
      BY <2>2, <2>3
  <1>9. b \in Book
    BY <1>3, <1>5, <1>7, <1>8 DEF Book
  <1>10. Holds(b, conf.place)
    BY <1>4 DEF Holds
  <1> QED
    BY <1>1, <1>9, <1>10 DEF b

-----------------------------------------------------------------------------
(* The search for a volume and a destination.                              *)

LEMMA DestFacts ==
    ASSUME NEW v, NEW k \in Int
    PROVE  /\ Dest(v, k) = 0 \/ Dest(v, k) \in 1..k
           /\ Dest(v, k) # 0 => Fits(Me, Chain[Dest(v, k)], v, 2)
           /\ \A i \in 1..k : i > Dest(v, k) => ~Fits(Me, Chain[i], v, 2)
  <1> DEFINE I == {i \in 1..k : Fits(Me, Chain[i], v, 2)}
             d == Dest(v, k)
  <1>1. d = IF I # {} THEN Max(I) ELSE 0
    BY DEF Dest, SelectLastInSubSeq
  <1>2. I \in SUBSET Int /\ \A i \in I : i <= k
    OBVIOUS
  <1>3. I # {} => d \in I /\ \A i \in I : i <= d
    BY <1>1, <1>2, MaxFacts
  <1>4. \A i : i \in I <=> i \in 1..k /\ Fits(Me, Chain[i], v, 2)
    OBVIOUS
  <1> HIDE DEF d, I
  <1>5. \A i \in 1..k : i > d => ~Fits(Me, Chain[i], v, 2)
    <2> SUFFICES ASSUME NEW i \in 1..k, i > d, i \in I PROVE FALSE
      BY <1>4
    <2>1. i <= d /\ d \in Int
      BY <1>2, <1>3
    <2> QED
      BY <2>1
  <1>6. I = {} => d = 0
    BY <1>1
  <1> QED
    BY <1>3, <1>4, <1>5, <1>6 DEF d

LEMMA PolledFacts ==
    ASSUME NEW v, NEW s, NEW k \in Nat
    PROVE  PolledDest(v, s, k) # 0 => /\ PolledDest(v, s, k) \in k..Len(Chain)
                                      /\ Fits(Me, Chain[PolledDest(v, s, k)], v, 2)
  <1> DEFINE I == {i \in k..Len(Chain) : conf.on[Chain[i]] = s /\ Fits(Me, Chain[i], v, 2)}
             d == PolledDest(v, s, k)
  <1> SUFFICES ASSUME d # 0
               PROVE  d \in k..Len(Chain) /\ Fits(Me, Chain[d], v, 2)
    OBVIOUS
  <1>1. I # {} /\ d = Min(I)
    BY DEF PolledDest, SelectInSubSeq
  <1>2. I \in SUBSET Nat
    OBVIOUS
  <1>3. d \in I
    BY <1>1, <1>2, MinFacts
  <1> QED
    BY <1>3

LEMMA FirstDestFacts ==
    ASSUME Chain \in Seq(Partition), NEW v
    PROVE  /\ FirstDest(v) # 0 => FirstDest(v) \in 1..Len(Chain) /\ Fits(Me, Chain[FirstDest(v)], v, 2)
           /\ Me # "byweekuse" => \A i \in 1..Len(Chain) :
                 i > FirstDest(v) => ~Fits(Me, Chain[i], v, 2)
  <1>1. Len(Chain) \in Int
    BY LenProperties
  <1>2. CASE Me = "byweekuse"
    <2>1. FirstDest(v) = PolledDest(v, Last(book[Me].servers), 1)
      BY <1>2 DEF FirstDest
    <2> QED
      BY <1>2, <2>1, PolledFacts
  <1>3. CASE Me # "byweekuse"
    <2>1. FirstDest(v) = Dest(v, Len(Chain))
      BY <1>3 DEF FirstDest
    <2> QED
      BY <1>1, <2>1, DestFacts
  <1> QED
    BY <1>2, <1>3

LEMMA NextDestFacts ==
    ASSUME Permutes(Chain, Partition), mover \in Request
    PROVE  /\ NextDest # 0 => /\ NextDest \in 1..Len(Chain)
                              /\ Fits(Me, Chain[NextDest], mover.vol, 2)
           /\ Me # "byweekuse" =>
                 /\ NextDest # 0 => NextDest < Position(mover.to)
                 /\ \A i \in 1..Len(Chain) : i > NextDest /\ i < Position(mover.to) =>
                       ~Fits(Me, Chain[i], mover.vol, 2)
  <1> DEFINE k == Position(mover.to)
  <1>1. Len(Chain) \in Nat /\ k \in 1..Len(Chain)
    BY PermutesAt DEF Request, Position
  <1> HIDE DEF k
  <1>2. CASE Me = "byweekuse"
    <2> DEFINE s == conf.on[mover.to]
    <2>1. NextDest = PolledDest(mover.vol, s, k + 1)
      BY <1>2 DEF NextDest, k
    <2>2. k + 1 \in Nat
      BY <1>1
    <2> HIDE DEF s
    <2>3. NextDest # 0 => /\ NextDest \in k + 1..Len(Chain)
                          /\ Fits(Me, Chain[NextDest], mover.vol, 2)
      BY <2>1, <2>2, PolledFacts
    <2> QED
      BY <1>1, <1>2, <2>3
  <1>3. CASE Me # "byweekuse"
    <2>1. NextDest = Dest(mover.vol, k - 1)
      BY <1>3 DEF NextDest, k
    <2>2. k - 1 \in Int
      BY <1>1
    <2>3. /\ NextDest = 0 \/ NextDest \in 1..k - 1
          /\ NextDest # 0 => Fits(Me, Chain[NextDest], mover.vol, 2)
          /\ \A i \in 1..k - 1 : i > NextDest => ~Fits(Me, Chain[i], mover.vol, 2)
      BY <2>1, <2>2, DestFacts
    <2>4. NextDest # 0 => NextDest \in 1..Len(Chain) /\ NextDest < k
      BY <1>1, <2>3
    <2>5. \A i \in 1..Len(Chain) : i < k => i \in 1..k - 1
      BY <1>1
    <2> QED
      BY <1>3, <2>3, <2>4, <2>5 DEF k
  <1> QED
    BY <1>2, <1>3

LEMMA ChoiceFacts ==
    ASSUME NEW p, Remaining(book[Me], p) \in Seq(Volume)
    PROVE  LET r == Remaining(book[Me], p)
           IN  /\ Choice(p) # 0 => /\ Overloaded(Me, p) /\ Choice(p) \in 1..Len(r)
                                   /\ Wanted(p, r[Choice(p)])
                                   /\ \A i \in 1..Choice(p) - 1 : ~Wanted(p, r[i])
               /\ Choice(p) = 0 /\ Overloaded(Me, p) => \A v \in ToSet(r) : ~Wanted(p, v)
  <1> DEFINE r == Remaining(book[Me], p)
             I == {i \in 1..Len(r) : Wanted(p, r[i])}
             k == Choice(p)
  <1>1. Len(r) \in Nat /\ DOMAIN r = 1..Len(r)
    BY LenProperties
  <1>2. Overloaded(Me, p) => k = IF I # {} THEN Min(I) ELSE 0
    BY DEF Choice, SelectInSeq
  <1>3. ~Overloaded(Me, p) => k = 0
    BY DEF Choice
  <1>4. I \in SUBSET Nat
    OBVIOUS
  <1>5. I # {} => Min(I) \in I /\ \A i \in I : Min(I) <= i
    BY <1>4, MinFacts
  <1>6. \A i : i \in I <=> i \in 1..Len(r) /\ Wanted(p, r[i])
    OBVIOUS
  <1> HIDE DEF I, k, r
  <1>7. ASSUME k # 0
        PROVE  /\ Overloaded(Me, p) /\ k \in 1..Len(r) /\ Wanted(p, r[k])
               /\ \A i \in 1..k - 1 : ~Wanted(p, r[i])
    <2>1. Overloaded(Me, p) /\ I # {} /\ k = Min(I)
      BY <1>2, <1>3, <1>7
    <2>2. k \in 1..Len(r) /\ Wanted(p, r[k]) /\ \A i \in I : k <= i
      BY <2>1, <1>5, <1>6
    <2>3. \A i \in 1..k - 1 : i \in 1..Len(r) /\ ~(k <= i)
      BY <1>1, <2>2
    <2> QED
      BY <2>1, <2>2, <2>3, <1>6
  <1>8. ASSUME k = 0, Overloaded(Me, p), NEW v \in ToSet(r)
        PROVE  ~Wanted(p, v)
    <2>1. I = {}
      BY <1>2, <1>5, <1>6, <1>8
    <2>2. PICK i \in 1..Len(r) : r[i] = v
      BY <1>1, <1>8 DEF ToSet
    <2> QED
      BY <1>6, <2>1, <2>2
  <1> QED
    BY <1>7, <1>8 DEF k, r

LEMMA StartFacts ==
    ASSUME conf \in Cells, Permutes(Chain, Partition), mover \in {NULL} \cup Request
    PROVE  /\ Start \in Nat \ {0}
           /\ mover = NULL => Start = 1
           /\ mover # NULL /\ Me # "byweekuse" => Start = Position(mover.from)
  <1>1. \A p \in Partition : Position(p) \in Nat \ {0}
    BY PermutesAt DEF Position
  <1>2. CASE mover = NULL
    BY <1>2 DEF Start
  <1>3. CASE mover # NULL /\ Me = "byweekuse"
    <2> DEFINE s == conf.on[mover.from]
               l == On(Chain, s)
    <2>1. mover.from \in Partition
      BY <1>3 DEF Request
    <2>2. Chain \in Seq(Partition) /\ IsInjective(Chain) /\ ToSet(Chain) = Partition
      BY DEF Permutes
    <2>3. Ordered(Chain, {e \in Partition \X Partition : TRUE})
      <3>1. \A i \in 1..Len(Chain) : Chain[i] \in Partition
        BY <2>2, ToSetFacts
      <3> QED
        BY <3>1 DEF Ordered
    <2>4. Permutes(l, {p \in Partition : conf.on[p] = s})
      BY <2>2, <2>3, OnFacts
    <2>5. Start = Position(l[1])
      BY <1>3 DEF Start
    <2>6. mover.from \in {p \in Partition : conf.on[p] = s}
      BY <2>1
    <2> HIDE DEF l, s
    <2>7. At(l, mover.from) \in 1..Len(l) /\ Len(l) \in Nat
          /\ \A i \in 1..Len(l) : l[i] \in {p \in Partition : conf.on[p] = s}
      BY <2>4, <2>6, PermutesAt
    <2>8. 1 \in 1..Len(l)
      BY <2>7
    <2>9. l[1] \in Partition
      BY <2>7, <2>8
    <2> QED
      BY <1>1, <1>3, <2>5, <2>9
  <1>4. CASE mover # NULL /\ Me # "byweekuse"
    <2>1. Start = Position(mover.from) /\ mover.from \in Partition
      BY <1>4 DEF Start, Request
    <2> QED
      BY <1>1, <1>4, <2>1
  <1> QED
    BY <1>2, <1>3, <1>4

LEMMA FoundFacts ==
    ASSUME conf \in Cells, Permutes(Chain, Partition), mover \in {NULL} \cup Request
    PROVE  /\ Found # 0 => /\ Found \in Start..Len(Chain) /\ Choice(Chain[Found]) # 0
                           /\ Found \in 1..Len(Chain) /\ Chain[Found] \in Partition
                           /\ \A i \in Start..Found - 1 : Choice(Chain[i]) = 0
           /\ Found = 0 => \A i \in Start..Len(Chain) : Choice(Chain[i]) = 0
  <1> DEFINE I == {i \in Start..Len(Chain) : Choice(Chain[i]) # 0}
  <1>1. Start \in Nat \ {0}
    BY StartFacts
  <1>2. Len(Chain) \in Nat /\ \A i \in 1..Len(Chain) : Chain[i] \in Partition
    BY PermutesAt
  <1>3. Found = IF I # {} THEN Min(I) ELSE 0
    BY DEF Found, SelectInSubSeq
  <1>4. I \in SUBSET Nat
    BY <1>1
  <1>5. I # {} => Min(I) \in I /\ \A i \in I : Min(I) <= i
    BY <1>4, MinFacts
  <1>6. \A i : i \in I <=> i \in Start..Len(Chain) /\ Choice(Chain[i]) # 0
    OBVIOUS
  <1> HIDE DEF I
  <1>7. ASSUME Found # 0
        PROVE  /\ Found \in Start..Len(Chain) /\ Choice(Chain[Found]) # 0
               /\ Found \in 1..Len(Chain) /\ Chain[Found] \in Partition
               /\ \A i \in Start..Found - 1 : Choice(Chain[i]) = 0
    <2>1. Found \in I /\ \A i \in I : Found <= i
      BY <1>3, <1>5, <1>7
    <2>2. Found \in Start..Len(Chain) /\ Choice(Chain[Found]) # 0
      BY <1>6, <2>1
    <2>3. Found \in 1..Len(Chain)
      BY <1>1, <1>2, <2>2
    <2>4. \A i \in Start..Found - 1 : i \in Start..Len(Chain) /\ ~(Found <= i)
      BY <1>1, <1>2, <2>2
    <2> QED
      BY <1>2, <1>6, <2>1, <2>2, <2>3, <2>4
  <1>8. Found = 0 => \A i \in Start..Len(Chain) : Choice(Chain[i]) = 0
    <2> SUFFICES ASSUME Found = 0, NEW i \in Start..Len(Chain), Choice(Chain[i]) # 0 PROVE FALSE
      OBVIOUS
    <2>1. I # {} /\ Min(I) \in I
      BY <1>5, <1>6
    <2>2. 0 \in Start..Len(Chain)
      BY <1>3, <1>6, <2>1
    <2> QED
      BY <1>1, <2>2
  <1> QED
    BY <1>7, <1>8

LEMMA RemainingFacts ==
    ASSUME NEW b \in Book, NEW where, Holds(b, where), NEW p \in Partition
    PROVE  LET r == Remaining(b, p)
               n == b.nextvol[p]
           IN  /\ r \in Seq(Volume)
               /\ n = NULL => r = <<>>
               /\ \A q \in Partition : n # NULL /\ n \in ToSet(b.vols[q]) =>
                     r = SubSeq(b.vols[q], At(b.vols[q], n), Len(b.vols[q]))
               /\ n # NULL /\ (\A q \in Partition : n \notin ToSet(b.vols[q])) => r = <<n>>
  <1> DEFINE r == Remaining(b, p)
             n == b.nextvol[p]
  <1>1. n = NULL => r = <<>>
    BY DEF Remaining
  <1>2. n # NULL => r = From(b, n) /\ n \in Volume
    BY BookFacts DEF Remaining
  <1> HIDE DEF n, r
  <1>3. \A q \in Partition : n # NULL /\ n \in ToSet(b.vols[q]) =>
            r = SubSeq(b.vols[q], At(b.vols[q], n), Len(b.vols[q]))
    BY <1>2, FromFacts
  <1>4. n # NULL /\ (\A q \in Partition : n \notin ToSet(b.vols[q])) => r = <<n>>
    BY <1>2, FromFacts
  <1>5. r \in Seq(Volume)
    <2>1. CASE n = NULL
      BY <1>1, <2>1
    <2>2. CASE n # NULL /\ \A q \in Partition : n \notin ToSet(b.vols[q])
      BY <1>2, <1>4, <2>2
    <2>3. ASSUME n # NULL, NEW q \in Partition, n \in ToSet(b.vols[q])
          PROVE  r \in Seq(Volume)
      <3> DEFINE s == b.vols[q]
      <3>1. s \in Seq(Volume) /\ IsInjective(s) /\ n \in ToSet(s)
        BY <2>3, BookFacts DEF Holds
      <3>2. r = SubSeq(s, At(s, n), Len(s))
        BY <1>3, <2>3
      <3> HIDE DEF s
      <3>3. SubSeq(s, At(s, n), Len(s)) \in Seq(Volume)
        BY <3>1, TailFacts
      <3> QED
        BY <3>2, <3>3
    <2> QED
      BY <2>1, <2>2, <2>3
  <1> QED
    BY <1>1, <1>3, <1>4, <1>5 DEF n, r

LEMMA NextFacts ==
    ASSUME NEW E, NEW r \in Seq(E), NEW k \in 1..Len(r)
    PROVE  LET x == FirstOf(SubSeq(r, k + 1, Len(r)))
           IN  /\ k = Len(r) => x = NULL
               /\ k < Len(r) => x = r[k + 1] /\ x \in E
  <1> DEFINE t == SubSeq(r, k + 1, Len(r))
  <1>1. Len(r) \in Nat /\ \A i \in 1..Len(r) : r[i] \in E
    BY LenProperties, ElementOfSeq
  <1>2. /\ t \in Seq(E) /\ Len(t) = Len(r) - k
        /\ \A i \in 1..Len(r) - k : t[i] = r[k + i]
    <2>1. k + 1 \in Int /\ Len(r) \in Int /\ \A i \in k + 1..Len(r) : r[i] \in E
      BY <1>1
    <2>2. /\ t \in Seq(E) /\ Len(t) = IF k + 1 <= Len(r) THEN Len(r) - (k + 1) + 1 ELSE 0
          /\ \A i \in 1..Len(r) - (k + 1) + 1 : t[i] = r[(k + 1) + i - 1]
      BY ONLY <2>1, SubSeqProperties
    <2> QED
      BY <2>2, <1>1
  <1> HIDE DEF t
  <1>3. CASE k = Len(r)
    <2>1. t = <<>>
      BY <1>1, <1>2, <1>3, EmptySeq
    <2>2. FirstOf(t) = NULL
      BY <2>1 DEF FirstOf
    <2> QED
      BY <1>1, <1>3, <2>2 DEF t
  <1>4. CASE k < Len(r)
    <2>1. t # <<>> /\ 1 \in 1..Len(r) - k
      BY <1>1, <1>2, <1>4, EmptySeq
    <2>2. FirstOf(t) = t[1] /\ t[1] = r[k + 1]
      BY <1>2, <2>1, FirstOfFacts
    <2>3. r[k + 1] \in E
      BY <1>1, <1>4
    <2> QED
      BY <1>1, <1>4, <2>2, <2>3 DEF t
  <1> QED
    BY <1>1, <1>3, <1>4

-----------------------------------------------------------------------------
(* The inductive invariant of the books.                                   *)

Books ==
    /\ conf \in Cells
    /\ TypeOK
    /\ LoadsConserved
    /\ BooksAgree
    /\ \A a \in Active : Sorted(a, load[a], book[a])

Asking ==
    mover # NULL => /\ mover.from = home[mover.vol]
                    /\ Fits(Me, mover.to, mover.vol, 2)

LEMMA LoadsReckoned ==
    LoadsConserved <=> load = [a \in Active |-> [p \in Partition |-> Reckoned(a, p, home)]]
  <1>1. ASSUME NEW a, NEW p
        PROVE  (IF a = "byoverdraft" THEN Counter(a, LoadOf(a, p, home) + Drift(p))
                ELSE LoadOf(a, p, home)) = Reckoned(a, p, home)
    BY DEF Counter, Drift, Reckoned
  <1> QED
    BY <1>1 DEF LoadsConserved

LEMMA LoadsReckonedNext ==
    LoadsConserved' <=> (load = [a \in Active |-> [p \in Partition |-> Reckoned(a, p, home)]])'
  BY LoadsReckoned, PTL

LEMMA BooksFacts ==
    ASSUME Books
    PROVE  /\ conf \in Cells /\ avg = [a \in Active |-> Average(a)]
           /\ turn \in 1..Len(conf.agents) /\ Me \in Active
           /\ Active \subseteq Agent
           /\ book \in [Active -> Book] /\ DOMAIN book = Active
           /\ load \in [Active -> [Partition -> Nat]]
           /\ home \in [Volume -> Partition]
           /\ mover # NULL => mover \in Request
           /\ \A a \in Active : /\ book[a] \in Book /\ Holds(book[a], home)
                                /\ load[a] \in [Partition -> Nat]
                                /\ Sorted(a, load[a], book[a])
                                /\ Permutes(book[a].chain, Partition)
                                /\ \A p \in Partition : load[a][p] = Reckoned(a, p, home)
  <1>1. conf \in Cells /\ TypeOK
    BY DEF Books
  <1>2. Me \in Active /\ Active \subseteq Agent
    BY <1>1, ConfFacts, MeFacts DEF TypeOK
  <1>3. book \in [Active -> Book]
    BY <1>1 DEF TypeOK, Book
  <1>4. \A a \in Active, p \in Partition : load[a][p] = Reckoned(a, p, home) /\ load[a][p] \in Nat
    <2>1. load = [a \in Active |-> [p \in Partition |-> Reckoned(a, p, home)]]
      BY LoadsReckoned DEF Books
    <2> QED
      BY <1>1, <1>2, <2>1, ReckonedFacts
  <1>5. load \in [Active -> [Partition -> Nat]]
    BY <1>1, <1>4 DEF TypeOK
  <1>6. \A a \in Active : Holds(book[a], home)
    BY DEF Books, BooksAgree, Holds
  <1>7. \A a \in Active : Sorted(a, load[a], book[a]) /\ Permutes(book[a].chain, Partition)
    BY DEF Books, Sorted
  <1>8. /\ avg = [a \in Active |-> Average(a)] /\ turn \in 1..Len(conf.agents)
        /\ home \in [Volume -> Partition] /\ (mover # NULL => mover \in Request)
    BY <1>1 DEF TypeOK
  <1> QED
    BY <1>1, <1>2, <1>3, <1>4, <1>5, <1>6, <1>7, <1>8

LEMMA InitBooks == Init => Books /\ Asking
  <1> SUFFICES ASSUME Init PROVE Books /\ Asking
    OBVIOUS
  <1>1. /\ conf \in Cells /\ pc = "ask" /\ turn = 1 /\ activity = FALSE /\ mover = NULL
        /\ home = conf.place /\ moves = <<>> /\ budget = conf.ntransactions
        /\ avg = [a \in Active |-> Average(a)] /\ ntimes = [v \in Volume |-> 0]
    BY DEF Init
  <1>2. /\ Active \subseteq Agent /\ conf.place \in [Volume -> Partition]
        /\ Len(conf.agents) \in Nat \ {0} /\ conf.ntransactions \in Nat
    BY <1>1, ConfFacts
  <1>3. load = [a \in Active |-> [p \in Partition |-> Reckoned(a, p, conf.place)]]
    <2>1. load = [a \in Active |-> [p \in Partition |-> Counter(a, LoadOf(a, p, conf.place))]]
      BY DEF Init
    <2>2. ASSUME NEW a \in Active, NEW p \in Partition
          PROVE  Counter(a, LoadOf(a, p, conf.place)) = Reckoned(a, p, conf.place)
      <3>1. LoadOf(a, p, conf.place) \in Nat /\ Promised(p, conf.place) \in Nat
        BY <1>1, <1>2, LoadOfFacts, PromisedFacts
      <3>2. LoadOf(a, p, conf.place) + (Promised(p, conf.place) - Promised(p, conf.place))
                = LoadOf(a, p, conf.place)
        BY <3>1
      <3> QED
        BY <3>2 DEF Counter, Reckoned
    <2> QED
      BY <2>1, <2>2
  <1>4. \A a \in Active : load[a] \in [Partition -> Nat]
    BY <1>1, <1>2, <1>3, ReckonedFacts
  <1>5. book = [a \in Active |-> Opening(a, load[a])]
    BY DEF Init
  <1>6. \A a \in Active : book[a] \in Book /\ Holds(book[a], home) /\ Sorted(a, load[a], book[a])
    BY <1>1, <1>2, <1>4, <1>5, OpeningFacts
  <1>7. TypeOK
    <2>1. book \in [Active -> Book]
      BY <1>5, <1>6
    <2>2. load \in [Active -> [Partition -> Nat]]
      BY <1>3, <1>4
    <2>3. 1 \in 1..Len(conf.agents)
      BY <1>2
    <2>4. moves \in Seq(Request)
      BY <1>1
    <2>5. ntimes \in [Volume -> Nat] /\ budget \in Int
      BY <1>1, <1>2
    <2> QED
      BY <1>1, <1>2, <2>1, <2>2, <2>3, <2>4, <2>5 DEF TypeOK, Book
  <1>8. LoadsConserved
    BY <1>1, <1>3, LoadsReckoned
  <1>9. BooksAgree
    <2>1. \A a \in Active, p \in Partition :
              ToSet(book[a].vols[p]) = {v \in Volume : conf.place[v] = p}
      <3> TAKE a \in Active, p \in Partition
      <3> DEFINE b == Opening(a, load[a])
      <3>1. b = book[a]
        BY <1>5
      <3>2. \A q \in Partition : Permutes(b.vols[q], {v \in Volume : conf.place[v] = q})
        BY <1>1, <1>2, OpeningVols
      <3> HIDE DEF b
      <3> QED
        BY <3>1, <3>2 DEF Permutes
    <2>2. \A a \in Active : Holds(book[a], home)
      BY <1>6
    <2> QED
      BY <2>1, <2>2 DEF BooksAgree, Holds
  <1> QED
    BY <1>1, <1>6, <1>7, <1>8, <1>9 DEF Books, Asking

(* What depends on the cell and the loads only.                            *)
LEMMA SameCell ==
    ASSUME conf' = conf, avg' = avg
    PROVE  /\ Active' = Active
           /\ \A a, v : Gain(a, v)' = Gain(a, v) /\ Weight(a, v)' = Weight(a, v)
           /\ \A a, x, k : Scaled(a, x, k)' = Scaled(a, x, k) /\ Margin(a)' = Margin(a)
           /\ \A a, k : Window(a, k)' = Window(a, k)
           /\ \A a, p, k : Bound(a, p, k)' = Bound(a, p, k)
           /\ \A a : Cap(a)' = Cap(a) /\ Average(a)' = Average(a)
           /\ \A a, p, where : Reckoned(a, p, where)' = Reckoned(a, p, where)
           /\ \A p, where : Promised(p, where)' = Promised(p, where)
           /\ \A a, ld, b : Sorted(a, ld, b)' <=> Sorted(a, ld, b)
  <1>1. Active' = Active
    BY DEF Active
  <1>2. \A a, v : Gain(a, v)' = Gain(a, v) /\ Weight(a, v)' = Weight(a, v)
    BY DEF Gain, Weight
  <1>3. \A a : Margin(a)' = Margin(a)
    BY DEF Margin
  <1>4. \A a, x, k : Scaled(a, x, k)' = Scaled(a, x, k)
    BY DEF Scaled
  <1>5. \A a, k : Window(a, k)' = Window(a, k)
    BY <1>3 DEF Window
  <1>6. \A a : Cap(a)' = Cap(a)
    BY DEF Cap
  <1>7. \A a, p, k : Bound(a, p, k)' = Bound(a, p, k)
    BY <1>5, <1>6 DEF Bound
  <1>8. \A a : Average(a)' = Average(a)
    BY <1>2, <1>6 DEF Average
  <1>9. /\ \A a, p, where : Reckoned(a, p, where)' = Reckoned(a, p, where)
        /\ \A p, where : Promised(p, where)' = Promised(p, where)
    <2>1. \A a, p, where : LoadOf(a, p, where)' = LoadOf(a, p, where)
      BY <1>2 DEF LoadOf
    <2>2. \A p, where : Promised(p, where)' = Promised(p, where)
      BY DEF Promised
    <2> QED
      BY <2>1, <2>2 DEF Reckoned
  <1>10. \A ld, s : Use(ld, s)' = Use(ld, s)
    BY DEF Use
  <1>11. ASSUME NEW a, NEW ld, NEW b
         PROVE  Sorted(a, ld, b)' <=> Sorted(a, ld, b)
    <2>1. Denser(ld)' = Denser(ld)
      BY DEF Denser
    <2>2. Busier(ld)' = Busier(ld)
      BY <1>10 DEF Busier
    <2>3. ServerOrder(ld)' = ServerOrder(ld)
      BY <1>10 DEF ServerOrder
    <2> QED
      BY <2>1, <2>2, <2>3 DEF Sorted
  <1> QED
    BY <1>1, <1>2, <1>3, <1>4, <1>5, <1>6, <1>7, <1>8, <1>9, <1>11

LEMMA TypeStep ==
    ASSUME TypeOK, conf' = conf, avg' = avg, pc' \in {"ask", "judge", "done", "panic", "crash"},
           turn' \in 1..Len(conf.agents), activity' \in BOOLEAN, mover' \in {NULL} \cup Request,
           pc' = "judge" => mover' # NULL, home' \in [Volume -> Partition],
           load' \in [Active -> [Partition -> Nat]], ntimes' \in [Volume -> Nat],
           moves' \in Seq(Request), budget' \in Int, book' \in [Active -> Book]
    PROVE  TypeOK'
  <1>1. Active' = Active /\ \A a : Average(a)' = Average(a)
    BY SameCell
  <1>2. avg' = [a \in Active' |-> Average(a)']
    BY <1>1 DEF TypeOK
  <1> QED
    BY <1>1, <1>2 DEF TypeOK, Book

(* The steps that move nothing: no list changes, nor any load.             *)
Kept ==
    /\ conf' = conf /\ avg' = avg /\ home' = home /\ load' = load
    /\ book' \in [Active -> Book]
    /\ \A a \in Active : /\ book'[a].chain = book[a].chain /\ book'[a].servers = book[a].servers
                         /\ book'[a].vols = book[a].vols

LEMMA KeptBooks ==
    ASSUME Books, TypeOK', Kept
    PROVE  Books'
  <1>1. /\ conf' = conf /\ avg' = avg /\ home' = home /\ load' = load
        /\ \A a \in Active : /\ book'[a].chain = book[a].chain /\ book'[a].servers = book[a].servers
                             /\ book'[a].vols = book[a].vols
    BY DEF Kept
  <1>2. /\ Active' = Active
        /\ \A a, p, where : Reckoned(a, p, where)' = Reckoned(a, p, where)
        /\ \A a, ld, b : Sorted(a, ld, b)' <=> Sorted(a, ld, b)
    BY <1>1, SameCell
  <1>3. LoadsConserved'
    <2>1. load = [a \in Active |-> [p \in Partition |-> Reckoned(a, p, home)]]
      BY LoadsReckoned DEF Books
    <2>2. load' = [a \in Active' |-> [p \in Partition |-> Reckoned(a, p, home)']]
      BY <1>1, <1>2, <2>1
    <2> QED
      BY <2>2, LoadsReckonedNext
  <1>4. BooksAgree'
    BY <1>1, <1>2 DEF Books, BooksAgree
  <1>5. \A a \in Active : Sorted(a, load'[a], book'[a])
    BY <1>1 DEF Books, Sorted
  <1>6. \A a \in Active' : Sorted(a, load[a], book[a])'
    BY <1>2, <1>5
  <1> QED
    BY <1>1, <1>3, <1>4, <1>6 DEF Books

LEMMA FitsKept ==
    ASSUME conf' = conf, avg' = avg, load' = load
    PROVE  /\ \A a, p, v, k : Fits(a, p, v, k)' <=> Fits(a, p, v, k)
           /\ \A a, p, v : StaysAboveLower(a, p, v)' <=> StaysAboveLower(a, p, v)
           /\ \A a, p : Overloaded(a, p)' <=> Overloaded(a, p)
           /\ turn' = turn => Me' = Me
  <1>1. /\ \A a, v : Weight(a, v)' = Weight(a, v)
        /\ \A a, x, k : Scaled(a, x, k)' = Scaled(a, x, k) /\ Margin(a)' = Margin(a)
        /\ \A a, p, k : Bound(a, p, k)' = Bound(a, p, k)
        /\ \A a : Cap(a)' = Cap(a)
    BY SameCell
  <1>2. \A a, p, v, k : Fits(a, p, v, k)' <=> Fits(a, p, v, k)
    BY <1>1 DEF Fits
  <1>3. \A a, p, v : StaysAboveLower(a, p, v)' <=> StaysAboveLower(a, p, v)
    BY <1>1 DEF StaysAboveLower
  <1>4. \A a, p : Overloaded(a, p)' <=> Overloaded(a, p)
    BY <1>1 DEF Overloaded
  <1>5. turn' = turn => Me' = Me
    BY DEF Me
  <1> QED
    BY <1>2, <1>3, <1>4, <1>5

LEMMA TurnFacts ==
    ASSUME conf \in Cells, turn \in 1..Len(conf.agents),
           turn' = IF turn < Len(conf.agents) THEN turn + 1 ELSE 1
    PROVE  /\ turn' \in 1..Len(conf.agents)
           /\ Len(conf.agents) = 1 => turn' = turn /\ ~(turn < Len(conf.agents))
  <1> DEFINE n == Len(conf.agents)
  <1>1. n \in Nat \ {0}
    BY ConfFacts
  <1>2. turn \in 1..n /\ turn' = IF turn < n THEN turn + 1 ELSE 1
    OBVIOUS
  <1> HIDE DEF n
  <1>3. CASE turn < n
    <2>1. turn' = turn + 1
      BY <1>2, <1>3
    <2>2. turn' \in 1..n /\ n # 1
      BY <1>1, <1>2, <1>3, <2>1
    <2> QED
      BY <2>2 DEF n
  <1>4. CASE ~(turn < n)
    <2>1. turn' = 1
      BY <1>2, <1>4
    <2>2. n = 1 => turn = 1
      BY <1>1, <1>2
    <2>3. turn' \in 1..n
      BY <1>1, <2>1
    <2> QED
      BY <1>4, <2>1, <2>2, <2>3 DEF n
  <1> QED
    BY <1>3, <1>4

LEMMA NextTurnFacts ==
    ASSUME conf \in Cells, turn \in 1..Len(conf.agents), NEW x \in BOOLEAN, NextTurn(x)
    PROVE  /\ turn' \in 1..Len(conf.agents) /\ activity' \in BOOLEAN /\ pc' \in {"ask", "done"}
           /\ Len(conf.agents) = 1 => turn' = turn /\ activity' = FALSE
                                      /\ pc' = IF x THEN "ask" ELSE "done"
  <1>1. turn' = IF turn < Len(conf.agents) THEN turn + 1 ELSE 1
    <2>1. CASE turn < Len(conf.agents)
      BY <2>1 DEF NextTurn
    <2>2. CASE ~(turn < Len(conf.agents))
      BY <2>2 DEF NextTurn
    <2> QED
      BY <2>1, <2>2
  <1>2. /\ turn' \in 1..Len(conf.agents)
        /\ Len(conf.agents) = 1 => turn' = turn /\ ~(turn < Len(conf.agents))
    BY <1>1, TurnFacts
  <1>3. CASE turn < Len(conf.agents)
    <2>1. activity' = x /\ pc' = "ask"
      BY <1>3 DEF NextTurn
    <2> QED
      BY <1>2, <1>3, <2>1
  <1>4. CASE ~(turn < Len(conf.agents))
    <2>1. activity' = FALSE
      BY <1>4 DEF NextTurn
    <2>2. pc' = IF x THEN "ask" ELSE "done"
      BY <1>4 DEF NextTurn
    <2>3. pc' \in {"ask", "done"}
      BY <2>2
    <2> QED
      BY <1>2, <2>1, <2>2, <2>3
  <1> QED
    BY <1>3, <1>4

LEMMA PointersFacts ==
    ASSUME Books, NEW last
    PROVE  /\ Pointers(last) \in [Partition -> Volume \cup {NULL}]
           /\ \A p \in Partition : Pointers(last)[p] \in {NULL, book[Me].nextvol[p]}
           /\ \A p \in Partition \ Exhausted(last) : Pointers(last)[p] = book[Me].nextvol[p]
           /\ \A p \in Exhausted(last) \cap Partition : Pointers(last)[p] = NULL
  <1>1. book[Me] \in Book
    BY BooksFacts
  <1>2. book[Me].nextvol \in [Partition -> Volume \cup {NULL}]
    BY <1>1 DEF Book
  <1> DEFINE E == Exhausted(last)
             n == book[Me].nextvol
  <1>3. Pointers(last) = [p \in Partition |-> IF p \in E THEN NULL ELSE n[p]]
    BY DEF Pointers
  <1> HIDE DEF E, n
  <1>4. n \in [Partition -> Volume \cup {NULL}]
    BY <1>2 DEF n
  <1>5. \A p \in Partition : (IF p \in E THEN NULL ELSE n[p]) \in Volume \cup {NULL}
    BY <1>4
  <1>6. Pointers(last) \in [Partition -> Volume \cup {NULL}]
    BY <1>3, <1>5
  <1>7. \A p \in Partition : Pointers(last)[p] = IF p \in E THEN NULL ELSE n[p]
    BY <1>3
  <1>8. \A p \in Partition : Pointers(last)[p] \in {NULL, n[p]}
    BY <1>7
  <1>9. /\ \A p \in Partition \ E : Pointers(last)[p] = n[p]
        /\ \A p \in E \cap Partition : Pointers(last)[p] = NULL
    BY <1>7
  <1> QED
    BY <1>6, <1>8, <1>9 DEF E, n

(* A new list of pointers for the agent whose turn it is.                  *)
LEMMA NewPointers ==
    ASSUME Books, conf' = conf, avg' = avg, home' = home, load' = load,
           NEW n \in [Partition -> Volume \cup {NULL}], book' = [book EXCEPT ![Me].nextvol = n]
    PROVE  /\ Kept
           /\ book'[Me].nextvol = n
           /\ \A a \in Active \ {Me} : book'[a] = book[a]
  <1>1. /\ Me \in Active /\ book \in [Active -> Book] /\ \A a \in Active : book[a] \in Book
    BY BooksFacts
  <1> DEFINE b == [book[Me] EXCEPT !.nextvol = n]
  <1>2. b \in Book /\ b.nextvol = n /\ b.chain = book[Me].chain /\ b.servers = book[Me].servers
        /\ b.vols = book[Me].vols
    BY <1>1 DEF Book
  <1>3. book' = [book EXCEPT ![Me] = b]
    BY <1>1 DEF Book
  <1> HIDE DEF b
  <1>4. book'[Me] = b /\ \A a \in Active \ {Me} : book'[a] = book[a]
    BY <1>1, <1>3
  <1>5. book' \in [Active -> Book]
    BY <1>1, <1>2, <1>3
  <1> QED
    BY <1>1, <1>2, <1>4, <1>5 DEF Kept

(* What is proposed: the first wanted volume of the partition found.       *)
LEMMA ProposeFacts ==
    ASSUME Books, Propose
    PROVE  LET p == Chain[Found]
               r == Remaining(book[Me], p)
               k == Choice(p)
               v == r[k]
           IN  /\ p \in Partition /\ r \in Seq(Volume) /\ k \in 1..Len(r) /\ v \in Volume
               /\ Found \in 1..Len(Chain)
               /\ Overloaded(Me, p) /\ Wanted(p, v)
               /\ mover' = [vol |-> v, from |-> home[v], to |-> Chain[FirstDest(v)]]
               /\ mover' \in Request
               /\ FirstDest(v) \in 1..Len(Chain)
               /\ Fits(Me, Chain[FirstDest(v)], v, 2)
               /\ Kept
               /\ book'[Me].nextvol =
                     [Pointers(Found - 1) EXCEPT ![p] = FirstOf(SubSeq(r, k + 1, Len(r)))]
               /\ \A a \in Active \ {Me} : book'[a] = book[a]
  <1> DEFINE p == Chain[Found]
             r == Remaining(book[Me], p)
             k == Choice(p)
             v == r[k]
             d == FirstDest(v)
             x == FirstOf(SubSeq(r, k + 1, Len(r)))
             n == [Pointers(Found - 1) EXCEPT ![p] = x]
  <1>1. /\ conf \in Cells /\ Me \in Active /\ Permutes(Chain, Partition)
        /\ book[Me] \in Book /\ Holds(book[Me], home)
        /\ mover \in {NULL} \cup Request /\ home \in [Volume -> Partition]
    BY BooksFacts DEF Chain
  <1>2. /\ Found # 0 /\ mover' = [vol |-> v, from |-> home[v], to |-> Chain[d]]
        /\ book' = [book EXCEPT ![Me].nextvol = n]
        /\ conf' = conf /\ avg' = avg /\ home' = home /\ load' = load
    BY DEF Propose, Source
  <1>3. p \in Partition /\ k # 0 /\ Found \in 1..Len(Chain)
    BY <1>1, <1>2, FoundFacts
  <1>4. r \in Seq(Volume)
    BY <1>1, <1>3, RemainingFacts
  <1>5. Overloaded(Me, p) /\ k \in 1..Len(r) /\ Wanted(p, v)
    BY <1>3, <1>4, ChoiceFacts
  <1>6. v \in Volume
    BY <1>4, <1>5, ElementOfSeq
  <1>7. x \in Volume \cup {NULL}
    <2>1. Len(r) \in Nat
      BY <1>4, LenProperties
    <2> QED
      BY <1>4, <1>5, <2>1, NextFacts
  <1>8. n \in [Partition -> Volume \cup {NULL}]
    BY <1>7, PointersFacts
  <1>9. Kept /\ book'[Me].nextvol = n /\ \A a \in Active \ {Me} : book'[a] = book[a]
    BY <1>2, <1>8, NewPointers
  <1>10. Chain \in Seq(Partition)
    BY <1>1 DEF Permutes
  <1>11. d # 0
    BY <1>5 DEF Wanted
  <1>12. d \in 1..Len(Chain) /\ Fits(Me, Chain[d], v, 2)
    BY <1>10, <1>11, FirstDestFacts
  <1>13. Chain[d] \in Partition
    BY <1>10, <1>12, ElementOfSeq
  <1>14. mover' \in Request
    BY <1>1, <1>2, <1>6, <1>13 DEF Request
  <1> QED
    BY <1>2, <1>3, <1>4, <1>5, <1>6, <1>9, <1>12, <1>14

(* What a move does to the loads: they follow the volume.                  *)
LEMMA AcceptLoads ==
    ASSUME Books, Asking, Accept
    PROVE  /\ mover \in Request /\ mover.from # mover.to /\ home[mover.vol] = mover.from
           /\ mover.vol \in Volume /\ mover.from \in Partition /\ mover.to \in Partition
           /\ conf' = conf /\ avg' = avg /\ MovedTo(home, mover.vol, mover.to, home')
           /\ home' \in [Volume -> Partition]
           /\ load' = [a \in Active |-> [p \in Partition |-> Reckoned(a, p, home')]]
           /\ \A a \in Active : /\ load'[a] = Shift(a, mover) /\ load'[a] \in [Partition -> Nat]
                                /\ Alike(load[a], load'[a], mover)
                                /\ load'[a][mover.from] =
                                       Counter(a, load[a][mover.from] - Change(a, mover.vol))
                                /\ load'[a][mover.to] =
                                       Counter(a, load[a][mover.to] + Change(a, mover.vol))
  <1> DEFINE v == mover.vol
             p == mover.from
             q == mover.to
  <1>1. /\ conf \in Cells /\ mover \in Request /\ Active \subseteq Agent
        /\ home \in [Volume -> Partition] /\ load \in [Active -> [Partition -> Nat]]
        /\ \A a \in Active : /\ load[a] \in [Partition -> Nat]
                             /\ \A x \in Partition : load[a][x] = Reckoned(a, x, home)
    <2>1. pc = "judge"
      BY DEF Accept
    <2>2. mover # NULL
      BY <2>1 DEF Books, TypeOK
    <2> QED
      BY <2>2, BooksFacts
  <1>2. mover # NULL
    BY DEF Accept, Books, TypeOK
  <1>3. p # q /\ home[v] = p
    BY <1>2 DEF Accept, Asking
  <1>4. v \in Volume /\ p \in Partition /\ q \in Partition
    BY <1>1 DEF Request
  <1>5. conf' = conf /\ avg' = avg /\ home' = [home EXCEPT ![v] = q]
    BY DEF Accept
  <1>6. load' = [a \in Active |-> Shift(a, mover)]
    BY DEF Accept
  <1>7. \A a \in Active : Shift(a, mover) =
            [load[a] EXCEPT ![p] = Counter(a, @ - Change(a, v)), ![q] = Counter(a, @ + Change(a, v))]
    BY DEF Shift
  <1> HIDE DEF v, p, q
  <1>8. ASSUME NEW a \in Active
        PROVE  /\ Shift(a, mover) \in [Partition -> Nat]
               /\ Shift(a, mover)[p] = Counter(a, load[a][p] - Change(a, v))
               /\ Shift(a, mover)[q] = Counter(a, load[a][q] + Change(a, v))
               /\ \A x \in Partition \ {p, q} : Shift(a, mover)[x] = load[a][x]
               /\ \A x \in Partition : Shift(a, mover)[x] = Reckoned(a, x, home')
    <2> DEFINE l == Shift(a, mover)
               g == Change(a, v)
               f == load[a]
    <2>1. /\ Reckoned(a, p, home') = Counter(a, Reckoned(a, p, home) - g)
          /\ Reckoned(a, q, home') = Counter(a, Reckoned(a, q, home) + g)
          /\ \A x \in Partition \ {p, q} : Reckoned(a, x, home') = Reckoned(a, x, home)
      <3>1. home[v] # q /\ a \in Agent
        BY <1>1, <1>3
      <3>2. MovedTo(home, v, q, home')
        BY <1>1, <1>4, <1>5 DEF MovedTo
      <3>3. /\ Reckoned(a, home[v], home') = Counter(a, Reckoned(a, home[v], home) - g)
            /\ Reckoned(a, q, home') = Counter(a, Reckoned(a, q, home) + g)
            /\ \A x \in Partition \ {home[v], q} : Reckoned(a, x, home') = Reckoned(a, x, home)
        BY <1>1, <1>4, <3>1, <3>2, ReckonedMove
      <3> HIDE DEF g
      <3> QED
        BY <1>3, <3>3
    <2>2. f \in [Partition -> Nat] /\ \A x \in Partition : f[x] = Reckoned(a, x, home)
      BY <1>1
    <2>3. l = [f EXCEPT ![p] = Counter(a, @ - g), ![q] = Counter(a, @ + g)]
      BY <1>7
    <2> HIDE DEF l, g, f
    <2>4. /\ DOMAIN l = Partition /\ l[p] = Counter(a, f[p] - g) /\ l[q] = Counter(a, f[q] + g)
          /\ \A x \in Partition \ {p, q} : l[x] = f[x]
      BY <1>3, <1>4, <2>2, <2>3
    <2>5. \A x \in Partition : l[x] = Reckoned(a, x, home')
      BY <1>4, <2>1, <2>2, <2>4
    <2>6. \A x \in Partition : Reckoned(a, x, home') \in Nat
      BY <1>1, ReckonedFacts
    <2>7. l = [x \in Partition |-> l[x]]
      BY <2>2, <2>3
    <2>8. l \in [Partition -> Nat]
      BY <2>5, <2>6, <2>7
    <2> QED
      BY <2>4, <2>5, <2>8 DEF l, g, f
  <1>9. load' = [a \in Active |-> [x \in Partition |-> Reckoned(a, x, home')]]
    <2>1. \A a \in Active : Shift(a, mover) = [x \in Partition |-> Reckoned(a, x, home')]
      BY <1>8
    <2> QED
      BY <1>6, <2>1
  <1>10. home' \in [Volume -> Partition]
    BY <1>1, <1>4, <1>5
  <1>11. \A a \in Active : load'[a] = Shift(a, mover)
    BY <1>6
  <1>12. \A a \in Active : Alike(load[a], load'[a], mover)
    BY <1>8, <1>11 DEF Alike, p, q
  <1>13. MovedTo(home, v, q, home')
    BY <1>1, <1>4, <1>5 DEF MovedTo
  <1> QED
    BY <1>1, <1>3, <1>4, <1>5, <1>8, <1>9, <1>10, <1>11, <1>12, <1>13 DEF v, p, q

Limited(m) == ntimes[m.vol] + 1 = conf.nvoltrans

(* What a move does to the book of an agent.                               *)
LEMMA AcceptBook ==
    ASSUME Books, Asking, Accept, NEW a \in Active
    PROVE  LET b == book[a]
               c == book'[a]
               m == mover
           IN  /\ c \in Book /\ Holds(c, home') /\ Sorted(a, load'[a], c)
               /\ \A x \in Partition \ {m.from, m.to} : c.vols[x] = b.vols[x]
               /\ c.vols[m.from] = RemoveFirst(b.vols[m.from], m.vol)
               /\ ToSet(c.vols[m.from]) = ToSet(b.vols[m.from]) \ {m.vol}
               /\ ToSet(c.vols[m.to]) =
                     IF Limited(m) THEN ToSet(b.vols[m.to]) ELSE ToSet(b.vols[m.to]) \cup {m.vol}
               /\ \A x \in Partition \ {m.to} : c.nextvol[x] =
                     IF Reopens(a, load'[a], m.from) THEN FirstOf(c.vols[x]) ELSE b.nextvol[x]
               /\ LET n == c.nextvol[m.to]
                  IN  \/ n = NULL \/ n \in ToSet(c.vols[m.to])
                      \/ ~Reopens(a, load'[a], m.from) /\ n = b.nextvol[m.to]
  <1> DEFINE b == book[a]
             d == SetRequest(a, b, load'[a], mover)
             c == book'[a]
             v == mover.vol
             p == mover.from
             q == mover.to
             open == Reopens(a, load'[a], p)
  <1>1. /\ conf \in Cells /\ b \in Book /\ Holds(b, home) /\ home \in [Volume -> Partition]
        /\ load[a] \in [Partition -> Nat] /\ Sorted(a, load[a], b)
    BY BooksFacts
  <1>2. /\ mover \in Request /\ home[v] = p /\ p # q
        /\ v \in Volume /\ p \in Partition /\ q \in Partition
        /\ MovedTo(home, v, q, home') /\ home' \in [Volume -> Partition]
        /\ load'[a] = Shift(a, mover) /\ load'[a] \in [Partition -> Nat]
        /\ Alike(load[a], load'[a], mover)
    BY AcceptLoads
  <1>3. c = IF Limited(mover) THEN Discardv(d, v, q) ELSE d
    <2>1. c = Announced(a, mover)
      BY DEF Accept
    <2> QED
      BY <1>2, <2>1 DEF Announced, Limited
  <1>4. /\ d \in Book /\ Holds(d, home') /\ Sorted(a, load'[a], d)
        /\ \A x \in Partition \ {p, q} : d.vols[x] = b.vols[x]
        /\ d.vols[p] = RemoveFirst(b.vols[p], v)
        /\ ToSet(d.vols[p]) = ToSet(b.vols[p]) \ {v}
        /\ ToSet(d.vols[q]) = ToSet(b.vols[q]) \cup {v}
        /\ \A x \in Partition : d.nextvol[x] = IF open THEN FirstOf(d.vols[x]) ELSE b.nextvol[x]
    <2> DEFINE l == load[a]
               n == load'[a]
               m == mover
               e == SetRequest(a, b, n, m)
               there == home'
    <2>1. /\ conf \in Cells /\ b \in Book /\ home \in [Volume -> Partition] /\ Holds(b, home)
          /\ m \in Request /\ home[m.vol] = m.from /\ m.from # m.to
          /\ MovedTo(home, m.vol, m.to, there)
          /\ l \in [Partition -> Nat] /\ n \in [Partition -> Nat]
          /\ Sorted(a, l, b) /\ Alike(l, n, m)
      BY <1>1, <1>2
    <2> HIDE DEF l, n, m, b, there
    <2>0. Ready(a, b, m, home, there, l, n)
      BY <2>1 DEF Ready
    <2>2. /\ e \in Book /\ Holds(e, there) /\ Sorted(a, n, e)
          /\ \A x \in Partition \ {m.from, m.to} : e.vols[x] = b.vols[x]
          /\ e.vols[m.from] = RemoveFirst(b.vols[m.from], m.vol)
          /\ ToSet(e.vols[m.from]) = ToSet(b.vols[m.from]) \ {m.vol}
          /\ ToSet(e.vols[m.to]) = ToSet(b.vols[m.to]) \cup {m.vol}
          /\ \A x \in Partition :
                 e.nextvol[x] = IF Reopens(a, n, m.from) THEN FirstOf(e.vols[x]) ELSE b.nextvol[x]
      BY <2>0, SetRequestFacts
    <2>3. e = d
      BY DEF d, m, n, e
    <2> HIDE DEF e
    <2> QED
      BY <2>2, <2>3 DEF n, m, there, v, p, q, open
  <1> HIDE DEF b, c, d, v, p, q, open
  <1>5. v \notin ToSet(b.vols[q])
    BY <1>1, <1>2, <1>4 DEF Holds
  <1>6. \A x \in Partition : FirstOf(d.vols[x]) = NULL \/ FirstOf(d.vols[x]) \in ToSet(d.vols[x])
    <2> TAKE x \in Partition
    <2>1. d.vols[x] \in Seq(Volume)
      BY <1>4, BookFacts
    <2> QED
      BY <2>1, FirstOfFacts
  <1>7. CASE ~Limited(mover)
    <2>1. c = d
      BY <1>3, <1>7
    <2>2. \/ c.nextvol[q] = NULL \/ c.nextvol[q] \in ToSet(c.vols[q])
          \/ ~open /\ c.nextvol[q] = b.nextvol[q]
      BY <1>2, <1>4, <1>6, <2>1
    <2> QED
      BY <1>4, <1>5, <1>7, <2>1, <2>2 DEF b, c, v, p, q, open
  <1>8. CASE Limited(mover)
    <2>1. c = Discardv(d, v, q)
      BY <1>3, <1>8
    <2>2. /\ c \in Book /\ Holds(c, home')
          /\ c.chain = d.chain /\ c.servers = d.servers
          /\ \A x \in Partition : x # q => c.vols[x] = d.vols[x] /\ c.nextvol[x] = d.nextvol[x]
          /\ ToSet(c.vols[q]) = ToSet(d.vols[q]) \ {v}
          /\ c.nextvol[q] = IF d.nextvol[q] = v THEN Following(d, v) ELSE d.nextvol[q]
      <3>1. d \in Book /\ Holds(d, home') /\ v \in Volume /\ q \in Partition
        BY <1>2, <1>4
      <3> QED
        BY ONLY <2>1, <3>1, DiscardvFacts, SMTT(60)
    <2>3. Sorted(a, load'[a], c)
      BY <1>4, <2>2 DEF Sorted
    <2>4. ToSet(c.vols[q]) = ToSet(b.vols[q])
      BY <1>4, <1>5, <2>2
    <2>5. \/ c.nextvol[q] = NULL \/ c.nextvol[q] \in ToSet(c.vols[q])
          \/ ~open /\ c.nextvol[q] = b.nextvol[q]
      <3>1. CASE d.nextvol[q] = v
        <4>1. c.nextvol[q] = Following(d, v)
          BY <2>2, <3>1
        <4>2. ASSUME Following(d, v) # NULL PROVE Following(d, v) \in ToSet(c.vols[q])
          <5>1. PICK x \in Partition : v \in ToSet(d.vols[x]) /\ Following(d, v) \in ToSet(d.vols[x]) \ {v}
            BY <1>2, <1>4, <1>5, <4>2, FollowingFacts
          <5>2. x = q
            BY <1>2, <1>4, <1>5, <5>1 DEF Holds
          <5> QED
            BY <2>2, <5>1, <5>2
        <4> QED
          BY <4>1, <4>2
      <3>2. CASE d.nextvol[q] # v
        BY <1>2, <1>4, <1>6, <2>2, <3>2
      <3> QED
        BY <3>1, <3>2
    <2>6. \A x \in Partition \ {q} : c.nextvol[x] = IF open THEN FirstOf(c.vols[x]) ELSE b.nextvol[x]
      BY <1>4, <2>2
    <2> QED
      BY <1>2, <1>4, <1>8, <2>2, <2>3, <2>4, <2>5, <2>6 DEF b, c, v, p, q, open
  <1> QED
    BY <1>7, <1>8

LEMMA BooksStep ==
    ASSUME conf \in Cells, TypeOK', conf' = conf, avg' = avg,
           load' = [a \in Active |-> [p \in Partition |-> Reckoned(a, p, home')]],
           \A a \in Active : Holds(book'[a], home') /\ Sorted(a, load'[a], book'[a]),
           \A a, b \in Active, p \in Partition :
               ToSet(book'[a].vols[p]) = ToSet(book'[b].vols[p])
    PROVE  Books'
  <1>1. /\ Active' = Active
        /\ \A a, p, where : Reckoned(a, p, where)' = Reckoned(a, p, where)
        /\ \A a, ld, b : Sorted(a, ld, b)' <=> Sorted(a, ld, b)
    BY SameCell
  <1>2. LoadsConserved'
    <2>1. load' = [a \in Active' |-> [p \in Partition |-> Reckoned(a, p, home)']]
      BY <1>1
    <2> QED
      BY <2>1, LoadsReckonedNext
  <1>3. BooksAgree'
    BY <1>1 DEF BooksAgree, Holds
  <1>4. \A a \in Active' : Sorted(a, load[a], book[a])'
    BY <1>1
  <1> QED
    BY <1>2, <1>3, <1>4 DEF Books

LEMMA SameLists ==
    ASSUME Books
    PROVE  \A a, b \in Active, p \in Partition : ToSet(book[a].vols[p]) = ToSet(book[b].vols[p])
  BY DEF Books, BooksAgree

LEMMA RedirectBooks ==
    ASSUME Books, Asking, Redirect
    PROVE  Books' /\ Asking' /\ Kept /\ mover' \in Request
  <1>1. /\ conf \in Cells /\ Me \in Active /\ Permutes(Chain, Partition)
        /\ mover \in Request /\ book \in [Active -> Book]
    BY BooksFacts DEF Redirect, Redirectable, Chain
  <1>2. /\ NextDest # 0 /\ mover' = [mover EXCEPT !.to = Chain[NextDest]] /\ pc' = "judge"
        /\ UNCHANGED <<conf, avg, turn, activity, home, load, ntimes, moves, budget, book>>
    BY DEF Redirect, Redirectable
  <1> DEFINE q == Chain[NextDest]
  <1>3. q \in Partition /\ Fits(Me, q, mover.vol, 2)
    BY <1>1, <1>2, NextDestFacts, PermutesAt
  <1> HIDE DEF q
  <1>4. /\ mover' \in Request /\ mover'.vol = mover.vol /\ mover'.from = mover.from /\ mover'.to = q
    BY <1>1, <1>2, <1>3 DEF Request, q
  <1>5. Kept
    BY <1>1, <1>2 DEF Kept
  <1>6. TypeOK'
    <2>1. TypeOK /\ NULL \notin Request
      BY <1>1, ConfFacts DEF Books
    <2>2. UNCHANGED <<conf, avg, turn, activity, home, load, ntimes, moves, budget, book>>
      BY <1>2
    <2>3. /\ turn \in 1..Len(conf.agents) /\ activity \in BOOLEAN /\ home \in [Volume -> Partition]
          /\ load \in [Active -> [Partition -> Nat]] /\ ntimes \in [Volume -> Nat]
          /\ moves \in Seq(Request) /\ budget \in Int
      BY <2>1 DEF TypeOK
    <2>4. pc' = "judge"
      BY <1>2
    <2> QED
      BY <1>1, <1>4, <2>1, <2>2, <2>3, <2>4, TypeStep
  <1>7. Asking'
    <2>1. /\ \A a, p, v, k : Fits(a, p, v, k)' <=> Fits(a, p, v, k)
          /\ Me' = Me /\ home' = home
      BY <1>2, FitsKept
    <2>2. Fits(Me', mover'.to, mover'.vol, 2)
      BY <1>3, <1>4, <2>1
    <2>3. Fits(Me, mover.to, mover.vol, 2)'
      BY <2>1, <2>2
    <2>4. mover'.from = home'[mover'.vol]
      BY <1>1, <1>4, <2>1 DEF Asking, Redirect, Redirectable
    <2> QED
      BY <2>3, <2>4 DEF Asking
  <1> QED
    BY <1>4, <1>5, <1>6, <1>7, KeptBooks

LEMMA ProposeBooks ==
    ASSUME Books, Propose
    PROVE  Books' /\ Asking'
  <1> DEFINE p == Chain[Found]
             r == Remaining(book[Me], p)
             v == r[Choice(p)]
             q == Chain[FirstDest(v)]
  <1>1. /\ mover' = [vol |-> v, from |-> home[v], to |-> q] /\ mover' \in Request
        /\ Fits(Me, q, v, 2) /\ Kept
    BY ProposeFacts
  <1> HIDE DEF p, r, v, q
  <1>2. /\ UNCHANGED <<conf, avg, turn, activity, home, load, ntimes, moves, budget>>
        /\ pc' = "judge"
    BY DEF Propose
  <1>3. TypeOK'
    <2>1. TypeOK /\ NULL \notin Request
      BY ConfFacts DEF Books
    <2>2. /\ turn \in 1..Len(conf.agents) /\ activity \in BOOLEAN /\ home \in [Volume -> Partition]
          /\ load \in [Active -> [Partition -> Nat]] /\ ntimes \in [Volume -> Nat]
          /\ moves \in Seq(Request) /\ budget \in Int
      BY <2>1 DEF TypeOK
    <2>3. book' \in [Active -> Book]
      BY <1>1 DEF Kept
    <2> QED
      BY <1>1, <1>2, <2>1, <2>2, <2>3, TypeStep
  <1>4. Asking'
    <2>1. /\ \A a, x, w, k : Fits(a, x, w, k)' <=> Fits(a, x, w, k)
          /\ Me' = Me /\ home' = home
      BY <1>2, FitsKept
    <2>2. Fits(Me', mover'.to, mover'.vol, 2)
      BY <1>1, <2>1
    <2>3. Fits(Me, mover.to, mover.vol, 2)'
      BY <2>1, <2>2
    <2>4. mover'.from = home'[mover'.vol]
      BY <1>1, <2>1
    <2> QED
      BY <2>3, <2>4 DEF Asking
  <1> QED
    BY <1>1, <1>3, <1>4, KeptBooks

LEMMA GiveUpFacts ==
    ASSUME Books, GiveUp
    PROVE  /\ Kept /\ mover' = NULL
           /\ book'[Me].nextvol = Pointers(Len(Chain))
           /\ \A a \in Active \ {Me} : book'[a] = book[a]
  <1>1. /\ book' = [book EXCEPT ![Me].nextvol = Pointers(Len(Chain))] /\ mover' = NULL
        /\ conf' = conf /\ avg' = avg /\ home' = home /\ load' = load
    BY DEF GiveUp
  <1>2. Pointers(Len(Chain)) \in [Partition -> Volume \cup {NULL}]
    BY PointersFacts
  <1> QED
    BY <1>1, <1>2, NewPointers

LEMMA GiveUpBooks ==
    ASSUME Books, GiveUp
    PROVE  Books' /\ Asking'
  <1>1. Kept /\ mover' = NULL
    BY GiveUpFacts
  <1>2. UNCHANGED <<conf, avg, home, load, ntimes, moves, budget>> /\ NextTurn(activity)
    BY DEF GiveUp
  <1>3. TypeOK'
    <2>1. TypeOK
      BY DEF Books
    <2>2. /\ turn \in 1..Len(conf.agents) /\ activity \in BOOLEAN /\ home \in [Volume -> Partition]
          /\ load \in [Active -> [Partition -> Nat]] /\ ntimes \in [Volume -> Nat]
          /\ moves \in Seq(Request) /\ budget \in Int
      BY <2>1 DEF TypeOK
    <2>3. book' \in [Active -> Book]
      BY <1>1 DEF Kept
    <2>4. turn' \in 1..Len(conf.agents) /\ activity' \in BOOLEAN /\ pc' \in {"ask", "done"}
      BY <1>2, <2>2, NextTurnFacts DEF Books
    <2>5. pc' \in {"ask", "judge", "done", "panic", "crash"} /\ pc' # "judge"
      BY <2>4
    <2>6. mover' \in {NULL} \cup Request
      BY <1>1
    <2> QED
      BY <1>2, <2>1, <2>2, <2>3, <2>4, <2>5, <2>6, TypeStep
  <1> QED
    BY <1>1, <1>3, KeptBooks DEF Asking

(* The request stays as it is: it is refused, or the program ends.         *)
LEMMA StillBooks ==
    ASSUME Books, Asking, pc' \in {"ask", "done", "panic", "crash"},
           UNCHANGED <<conf, avg, turn, activity, mover, home, load, ntimes, moves, budget, book>>
    PROVE  Books' /\ Asking'
  <1>1. Kept
    BY BooksFacts DEF Kept
  <1>2. TypeOK'
    <2>1. TypeOK
      BY DEF Books
    <2>2. /\ turn \in 1..Len(conf.agents) /\ activity \in BOOLEAN /\ home \in [Volume -> Partition]
          /\ load \in [Active -> [Partition -> Nat]] /\ ntimes \in [Volume -> Nat]
          /\ moves \in Seq(Request) /\ budget \in Int /\ mover \in {NULL} \cup Request
      BY <2>1 DEF TypeOK
    <2>3. book' \in [Active -> Book]
      BY <1>1 DEF Kept
    <2>4. pc' \in {"ask", "judge", "done", "panic", "crash"} /\ pc' # "judge"
      OBVIOUS
    <2> QED
      BY <2>1, <2>2, <2>3, <2>4, TypeStep
  <1>3. Asking'
    <2>1. /\ \A a, x, w, k : Fits(a, x, w, k)' <=> Fits(a, x, w, k)
          /\ Me' = Me /\ home' = home /\ mover' = mover
      BY FitsKept
    <2>2. mover' # NULL => Fits(Me', mover'.to, mover'.vol, 2) /\ mover'.from = home'[mover'.vol]
      BY <2>1 DEF Asking
    <2>3. mover' # NULL => Fits(Me, mover.to, mover.vol, 2)'
      BY <2>1, <2>2
    <2> QED
      BY <2>2, <2>3 DEF Asking
  <1> QED
    BY <1>1, <1>2, <1>3, KeptBooks

(* A volume is discarded from the lists of every agent.                    *)
Discards ==
    /\ book' = [a \in Active |-> Discardv(book[a], mover.vol, home[mover.vol])]
    /\ mover' = NULL /\ pc' = "ask"
    /\ UNCHANGED <<conf, avg, turn, activity, home, load, ntimes, moves, budget>>

LEMMA DiscardBook ==
    ASSUME Books, mover \in Request, Discards, NEW a \in Active
    PROVE  LET b == book[a]
               c == book'[a]
               p == home[mover.vol]
           IN  /\ c \in Book /\ Holds(c, home) /\ p \in Partition /\ mover.vol \in Volume
               /\ c.chain = b.chain /\ c.servers = b.servers
               /\ \A q \in Partition : q # p => c.vols[q] = b.vols[q] /\ c.nextvol[q] = b.nextvol[q]
               /\ c.vols[p] = RemoveFirst(b.vols[p], mover.vol)
               /\ ToSet(c.vols[p]) = ToSet(b.vols[p]) \ {mover.vol}
               /\ c.nextvol[p] = IF b.nextvol[p] = mover.vol THEN Following(b, mover.vol) ELSE b.nextvol[p]
  <1> DEFINE b == book[a]
             c == book'[a]
             v == mover.vol
             p == home[v]
  <1>1. b \in Book /\ Holds(b, home) /\ v \in Volume /\ p \in Partition
    BY BooksFacts DEF Request
  <1>2. c = Discardv(b, v, p)
    BY DEF Discards
  <1> HIDE DEF b, c, v, p
  <1>3. LET d == Discardv(b, v, p)
        IN  /\ d \in Book /\ Holds(d, home)
            /\ d.chain = b.chain /\ d.servers = b.servers
            /\ \A q \in Partition : q # p => d.vols[q] = b.vols[q] /\ d.nextvol[q] = b.nextvol[q]
            /\ d.vols[p] = RemoveFirst(b.vols[p], v)
            /\ ToSet(d.vols[p]) = ToSet(b.vols[p]) \ {v}
            /\ d.nextvol[p] = IF b.nextvol[p] = v THEN Following(b, v) ELSE b.nextvol[p]
    BY <1>1, DiscardvFacts
  <1> QED
    BY <1>1, <1>2, <1>3 DEF b, c, v, p

LEMMA RejectCases ==
    ASSUME Books, Reject
    PROVE  /\ mover \in Request
           /\ Discards
              \/ (turn < Len(conf.agents) /\ pc' = "crash" /\ UNCHANGED
                  <<conf, avg, turn, activity, mover, home, load, ntimes, moves, budget, book>>)
  <1>1. mover \in Request
    BY BooksFacts DEF Reject, Books, TypeOK
  <1> QED
    BY <1>1 DEF Reject, Discards

LEMMA DiscardBooks ==
    ASSUME Books, mover \in Request, Discards
    PROVE  Books' /\ Asking'
  <1> DEFINE p == home[mover.vol]
  <1>1. \A a \in Active :
            /\ book'[a] \in Book /\ Holds(book'[a], home)
            /\ book'[a].chain = book[a].chain /\ book'[a].servers = book[a].servers
            /\ \A q \in Partition : q # p => book'[a].vols[q] = book[a].vols[q]
            /\ ToSet(book'[a].vols[p]) = ToSet(book[a].vols[p]) \ {mover.vol}
    BY DiscardBook
  <1> HIDE DEF p
  <1>2. /\ UNCHANGED <<conf, avg, turn, activity, home, load, ntimes, moves, budget>>
        /\ mover' = NULL /\ pc' = "ask" /\ DOMAIN book' = Active
        /\ book' = [a \in Active |-> book'[a]]
    BY DEF Discards
  <1>3. book' \in [Active -> Book]
    BY <1>1, <1>2
  <1>4. TypeOK'
    <2>1. TypeOK
      BY DEF Books
    <2>2. /\ turn \in 1..Len(conf.agents) /\ activity \in BOOLEAN /\ home \in [Volume -> Partition]
          /\ load \in [Active -> [Partition -> Nat]] /\ ntimes \in [Volume -> Nat]
          /\ moves \in Seq(Request) /\ budget \in Int
      BY <2>1 DEF TypeOK
    <2>3. /\ pc' \in {"ask", "judge", "done", "panic", "crash"} /\ pc' # "judge"
          /\ mover' \in {NULL} \cup Request
      BY <1>2
    <2> QED
      BY <1>2, <1>3, <2>1, <2>2, <2>3, TypeStep
  <1>5. \A a \in Active : Sorted(a, load'[a], book'[a])
    BY <1>1, <1>2 DEF Books, Sorted
  <1>6. \A a, b \in Active, q \in Partition : ToSet(book'[a].vols[q]) = ToSet(book'[b].vols[q])
    <2> TAKE a, b \in Active, q \in Partition
    <2>1. \A y \in Partition : ToSet(book[a].vols[y]) = ToSet(book[b].vols[y])
      BY SameLists
    <2>2. CASE q = p
      <3>1. /\ ToSet(book'[a].vols[p]) = ToSet(book[a].vols[p]) \ {mover.vol}
            /\ ToSet(book'[b].vols[p]) = ToSet(book[b].vols[p]) \ {mover.vol}
        BY <1>1
      <3>2. ToSet(book[a].vols[p]) = ToSet(book[b].vols[p])
        BY <2>1, <2>2
      <3> QED
        BY <2>2, <3>1, <3>2
    <2>3. CASE q # p
      BY <1>1, <2>1, <2>3
    <2> QED
      BY <2>2, <2>3
  <1>7. load' = [a \in Active |-> [q \in Partition |-> Reckoned(a, q, home')]]
    BY <1>2, LoadsReckoned DEF Books
  <1>8. conf \in Cells
    BY DEF Books
  <1>9. Books'
    BY <1>1, <1>2, <1>4, <1>5, <1>6, <1>7, <1>8, BooksStep
  <1> QED
    BY <1>2, <1>9 DEF Asking

LEMMA AcceptRest ==
    ASSUME Accept
    PROVE  /\ ntimes' = [ntimes EXCEPT ![mover.vol] = @ + 1]
           /\ moves' = Append(moves, mover) /\ mover' = NULL /\ budget' = budget - 1
           /\ budget' = 0 => pc' = "done" /\ turn' = turn /\ activity' = TRUE
           /\ budget' # 0 => NextTurn(TRUE)
           /\ Admitted /\ Consent /\ ~AtLimit(mover.vol) /\ pc = "judge"
           /\ book' = [a \in Active |-> book'[a]]
  <1>1. /\ ntimes' = [ntimes EXCEPT ![mover.vol] = @ + 1]
        /\ moves' = Append(moves, mover) /\ mover' = NULL /\ budget' = budget - 1
        /\ Admitted /\ Consent /\ ~AtLimit(mover.vol) /\ pc = "judge"
    BY DEF Accept
  <1>2. book' = [a \in Active |-> book'[a]]
    BY DEF Accept
  <1>3. /\ budget' = 0 => pc' = "done" /\ turn' = turn /\ activity' = TRUE
        /\ budget' # 0 => NextTurn(TRUE)
    BY DEF Accept
  <1> QED
    BY <1>1, <1>2, <1>3

LEMMA AcceptBooks ==
    ASSUME Books, Asking, Accept
    PROVE  Books' /\ Asking'
  <1> DEFINE p == mover.from
             q == mover.to
             v == mover.vol
             more(S) == IF Limited(mover) THEN S ELSE S \cup {v}
  <1>1. /\ mover \in Request /\ p # q /\ home[v] = p
        /\ v \in Volume /\ p \in Partition /\ q \in Partition
        /\ conf' = conf /\ avg' = avg /\ home' \in [Volume -> Partition]
        /\ load' = [a \in Active |-> [x \in Partition |-> Reckoned(a, x, home')]]
        /\ \A a \in Active : load'[a] \in [Partition -> Nat]
    BY AcceptLoads
  <1>2. \A a \in Active :
            /\ book'[a] \in Book /\ Holds(book'[a], home') /\ Sorted(a, load'[a], book'[a])
            /\ \A x \in Partition \ {p, q} : book'[a].vols[x] = book[a].vols[x]
            /\ ToSet(book'[a].vols[p]) = ToSet(book[a].vols[p]) \ {v}
            /\ ToSet(book'[a].vols[q]) = more(ToSet(book[a].vols[q]))
    BY AcceptBook
  <1> HIDE DEF p, q, v, more
  <1>3. \A a, b \in Active, x \in Partition : ToSet(book'[a].vols[x]) = ToSet(book'[b].vols[x])
    <2> TAKE a, b \in Active, x \in Partition
    <2>1. \A y \in Partition : ToSet(book[a].vols[y]) = ToSet(book[b].vols[y])
      BY SameLists
    <2>2. CASE x = p
      BY <1>1, <1>2, <2>1, <2>2
    <2>3. CASE x = q
      BY <1>1, <1>2, <2>1, <2>3
    <2>4. CASE x \in Partition \ {p, q}
      BY <1>1, <1>2, <2>1, <2>4
    <2> QED
      BY <2>2, <2>3, <2>4
  <1>4. TypeOK'
    <2>1. TypeOK /\ conf \in Cells
      BY DEF Books
    <2>2. /\ turn \in 1..Len(conf.agents) /\ ntimes \in [Volume -> Nat]
          /\ moves \in Seq(Request) /\ budget \in Int
      BY <2>1 DEF TypeOK
    <2>3. /\ ntimes' = [ntimes EXCEPT ![v] = @ + 1]
          /\ moves' = Append(moves, mover) /\ mover' = NULL /\ budget' = budget - 1
          /\ book' = [a \in Active |-> book'[a]]
      BY AcceptRest DEF v
    <2>4. /\ turn' \in 1..Len(conf.agents) /\ activity' \in BOOLEAN /\ pc' \in {"ask", "done"}
      <3>1. CASE budget' = 0
        BY <2>2, <3>1, AcceptRest
      <3>2. CASE budget' # 0
        <4>1. NextTurn(TRUE) /\ TRUE \in BOOLEAN
          BY <3>2, AcceptRest
        <4> QED
          BY <2>1, <2>2, <4>1, NextTurnFacts
      <3> QED
        BY <3>1, <3>2
    <2>5. /\ pc' \in {"ask", "judge", "done", "panic", "crash"} /\ pc' # "judge"
          /\ mover' \in {NULL} \cup Request
      BY <2>3, <2>4
    <2>6. ntimes' \in [Volume -> Nat]
      BY <1>1, <2>2, <2>3
    <2>7. moves' \in Seq(Request)
      BY <1>1, <2>2, <2>3, AppendProperties
    <2>8. budget' \in Int
      BY <2>2, <2>3
    <2>9. load' \in [Active -> [Partition -> Nat]]
      <3>1. \A a \in Active : load'[a] \in [Partition -> Nat]
        BY <1>1
      <3>2. load' = [a \in Active |-> load'[a]]
        BY <1>1
      <3> QED
        BY <3>1, <3>2
    <2>10. book' \in [Active -> Book]
      BY <1>2, <2>3
    <2> QED
      BY <1>1, <2>1, <2>4, <2>5, <2>6, <2>7, <2>8, <2>9, <2>10, TypeStep
  <1>5. conf \in Cells
    BY DEF Books
  <1>6. Books'
    BY <1>1, <1>2, <1>3, <1>4, <1>5, BooksStep
  <1>7. mover' = NULL
    BY AcceptRest
  <1> QED
    BY <1>6, <1>7 DEF Asking

LEMMA NextBooks == Books /\ Asking /\ [Next]_vars => Books' /\ Asking'
  <1> SUFFICES ASSUME Books, Asking, [Next]_vars PROVE Books' /\ Asking'
    OBVIOUS
  <1>1. CASE Redirect
    BY <1>1, RedirectBooks
  <1>2. CASE Propose
    BY <1>2, ProposeBooks
  <1>3. CASE GiveUp
    BY <1>3, GiveUpBooks
  <1>4. CASE Refuse
    <2>1. /\ pc' \in {"ask", "done", "panic", "crash"}
          /\ UNCHANGED <<conf, avg, turn, activity, mover, home, load, ntimes, moves, budget, book>>
      BY <1>4 DEF Refuse
    <2> QED
      BY <2>1, StillBooks
  <1>5. CASE Reject
    <2>1. mover \in Request
      BY <1>5, RejectCases
    <2>2. CASE Discards
      BY <2>1, <2>2, DiscardBooks
    <2>3. CASE ~Discards
      <3>1. /\ pc' \in {"ask", "done", "panic", "crash"}
            /\ UNCHANGED <<conf, avg, turn, activity, mover, home, load, ntimes, moves, budget, book>>
        BY <1>5, <2>3, RejectCases
      <3> QED
        BY <3>1, StillBooks
    <2> QED
      BY <2>2, <2>3
  <1>6. CASE Accept
    BY <1>6, AcceptBooks
  <1>7. CASE Panic
    <2>1. /\ pc' \in {"ask", "done", "panic", "crash"}
          /\ UNCHANGED <<conf, avg, turn, activity, mover, home, load, ntimes, moves, budget, book>>
      BY <1>7 DEF Panic
    <2> QED
      BY <2>1, StillBooks
  <1>8. CASE UNCHANGED vars
    <2>1. UNCHANGED <<conf, pc, avg, turn, activity, mover, home, load, ntimes, moves, budget, book>>
      BY <1>8 DEF vars
    <2>2. Kept
      BY <2>1, BooksFacts DEF Kept
    <2>3. TypeOK'
      <3>1. /\ TypeOK /\ pc \in {"ask", "judge", "done", "panic", "crash"}
            /\ pc = "judge" => mover # NULL
        BY DEF Books, TypeOK
      <3>2. /\ turn \in 1..Len(conf.agents) /\ activity \in BOOLEAN /\ home \in [Volume -> Partition]
            /\ load \in [Active -> [Partition -> Nat]] /\ ntimes \in [Volume -> Nat]
            /\ moves \in Seq(Request) /\ budget \in Int /\ mover \in {NULL} \cup Request
        BY <3>1 DEF TypeOK
      <3>3. book' \in [Active -> Book]
        BY <2>2 DEF Kept
      <3> QED
        BY <2>1, <3>1, <3>2, <3>3, TypeStep
    <2>4. Asking'
      <3>1. /\ \A a, x, w, k : Fits(a, x, w, k)' <=> Fits(a, x, w, k)
            /\ Me' = Me /\ home' = home /\ mover' = mover
        BY <2>1, FitsKept
      <3>2. mover' # NULL => Fits(Me', mover'.to, mover'.vol, 2) /\ mover'.from = home'[mover'.vol]
        BY <3>1 DEF Asking
      <3>3. mover' # NULL => Fits(Me, mover.to, mover.vol, 2)'
        BY <3>1, <3>2
      <3> QED
        BY <3>2, <3>3 DEF Asking
    <2> QED
      BY <2>2, <2>3, <2>4, KeptBooks
  <1> QED
    BY <1>1, <1>2, <1>3, <1>4, <1>5, <1>6, <1>7, <1>8 DEF Next

LEMMA BooksImply == Books => TypeOK /\ BooksRight
  <1> SUFFICES ASSUME Books PROVE BooksRight
    BY DEF Books
  <1>1. LoadsConserved /\ BooksAgree
    BY DEF Books
  <1>2. ChainSorted
    <2> SUFFICES ASSUME NEW a \in Active
                 PROVE  LET c == book[a].chain
                            t == book[a].servers
                        IN  /\ IsInjective(c) /\ ToSet(c) = Partition
                            /\ a = "byweekuse" => IsInjective(t) /\ ToSet(t) = Server
                            /\ \A i, j \in 1..Len(c) : i < j =>
                                   IF a # "byweekuse"
                                   THEN load[a][c[i]] * conf.cap[c[j]] >= load[a][c[j]] * conf.cap[c[i]]
                                   ELSE IF conf.on[c[i]] = conf.on[c[j]] THEN load[a][c[i]] <= load[a][c[j]]
                                   ELSE Use(load[a], conf.on[c[i]]) >= Use(load[a], conf.on[c[j]])
      BY DEF ChainSorted
    <2> DEFINE c == book[a].chain
               t == book[a].servers
               ld == load[a]
    <2>1. Sorted(a, ld, book[a])
      BY BooksFacts
    <2>2. /\ IsInjective(c) /\ ToSet(c) = Partition
          /\ a = "byweekuse" => IsInjective(t) /\ ToSet(t) = Server
      BY <2>1 DEF Sorted, Permutes
    <2>3. ASSUME a # "byweekuse", NEW i \in 1..Len(c), NEW j \in 1..Len(c), i < j
          PROVE  ld[c[i]] * conf.cap[c[j]] >= ld[c[j]] * conf.cap[c[i]]
      <3>1. <<c[i], c[j]>> \in Denser(ld)
        BY <2>1, <2>3 DEF Sorted, Ordered
      <3> QED
        BY <3>1 DEF Denser
    <2>4. ASSUME a = "byweekuse", NEW i \in 1..Len(c), NEW j \in 1..Len(c), i < j
          PROVE  IF conf.on[c[i]] = conf.on[c[j]] THEN ld[c[i]] <= ld[c[j]]
                 ELSE Use(ld, conf.on[c[i]]) >= Use(ld, conf.on[c[j]])
      <3>1. <<c[i], c[j]>> \in ServerOrder(ld)
        BY <2>1, <2>4 DEF Sorted, Ordered
      <3> QED
        BY <3>1 DEF ServerOrder
    <2> QED
      BY <2>2, <2>3, <2>4
  <1> QED
    BY <1>1, <1>2 DEF BooksRight

LEMMA AlwaysBooks == Spec => [](Books /\ Asking)
  BY InitBooks, NextBooks, PTL DEF Spec

(* All variables of balance() stay in their types, for every cell and      *)
(* every choice of agents.                                                 *)
THEOREM TypeCorrect == Spec => []TypeOK
  BY AlwaysBooks, BooksImply, PTL

(* The counters that domove adjusts move by move are those of a recount,   *)
(* the agents list the same volumes, each once and on the partition it is  *)
(* on, and the chain of every agent (for byweekuse, its servers and their  *)
(* partitions) is a permutation in the order its search relies on: after   *)
(* every proposal, refusal, discard and move.                              *)
THEOREM BooksCorrect == Spec => []BooksRight
  BY AlwaysBooks, BooksImply, PTL
-----------------------------------------------------------------------------
(* The transactions, replayed.                                             *)

Moved(s, v, n) == {i \in 1..n : s[i].vol = v}
WhereIn(s, v, n) ==
    IF Moved(s, v, n) = {} THEN conf.place[v] ELSE s[Max(Moved(s, v, n))].to

LEMMA MovedMax ==
    ASSUME NEW s, NEW v, NEW n \in Int, Moved(s, v, n) # {}
    PROVE  /\ Max(Moved(s, v, n)) \in Moved(s, v, n) /\ Max(Moved(s, v, n)) \in 1..n
           /\ \A k \in Moved(s, v, n) : k <= Max(Moved(s, v, n))
  <1> DEFINE I == {i \in 1..n : s[i].vol = v}
  <1>1. I = Moved(s, v, n)
    BY DEF Moved
  <1>2. I \in SUBSET Int /\ I \subseteq 1..n /\ \A i \in I : i <= n
    OBVIOUS
  <1>3. I # {}
    BY <1>1
  <1>4. Max(I) \in I /\ \A k \in I : k <= Max(I)
    BY <1>2, <1>3, MaxFacts
  <1> HIDE DEF I
  <1> QED
    BY <1>1, <1>2, <1>4

LastMove(s, v, n) == SelectLastInSubSeq(s, 1, n, LAMBDA m : m.vol = v)

LEMMA LastMoved ==
    ASSUME NEW s, NEW v, NEW n \in Int
    PROVE  /\ LastMove(s, v, n) = IF Moved(s, v, n) = {} THEN 0 ELSE Max(Moved(s, v, n))
           /\ Moved(s, v, n) # {} => LastMove(s, v, n) \in 1..n
  <1>1. LastMove(s, v, n) = IF Moved(s, v, n) # {} THEN Max(Moved(s, v, n)) ELSE 0
    BY DEF LastMove, SelectLastInSubSeq, Moved
  <1> QED
    BY <1>1, MovedMax

LEMMA WhereIs ==
    ASSUME NEW v, NEW n \in Int
    PROVE  /\ Where(v, n) = WhereIn(moves, v, n)
           /\ conf' = conf => Where(v, n)' = WhereIn(moves', v, n)
  <1>1. Where(v, n) = LET k == LastMove(moves, v, n)
                      IN  IF k = 0 THEN conf.place[v] ELSE moves[k].to
    BY DEF Where, LastMove
  <1>2. Where(v, n)' = LET k == LastMove(moves', v, n)
                       IN  IF k = 0 THEN conf'.place[v] ELSE moves'[k].to
    BY DEF Where, LastMove, SelectLastInSubSeq
  <1>3. Where(v, n) = WhereIn(moves, v, n)
    BY <1>1, LastMoved DEF WhereIn
  <1>4. conf' = conf => Where(v, n)' = WhereIn(moves', v, n)
    BY <1>2, LastMoved DEF WhereIn
  <1> QED
    BY <1>3, <1>4

Replays(s, where) ==
    /\ \A n \in 1..Len(s) : /\ WhereIn(s, s[n].vol, n - 1) = s[n].from
                            /\ s[n].from # s[n].to /\ s[n].vol \in conf.admits[s[n].to]
    /\ where = [v \in Volume |-> WhereIn(s, v, Len(s))]

LEMMA ReplayIs ==
    ASSUME moves \in Seq(Request)
    PROVE  MovesReplay <=> Replays(moves, home)
  <1>1. Len(moves) \in Int /\ \A n \in 1..Len(moves) : n - 1 \in Int
    OBVIOUS
  <1>2. \A v : Where(v, Len(moves)) = WhereIn(moves, v, Len(moves))
    BY <1>1, WhereIs
  <1>3. \A n \in 1..Len(moves) :
            Where(moves[n].vol, n - 1) = WhereIn(moves, moves[n].vol, n - 1)
    BY <1>1, WhereIs
  <1> QED
    BY <1>2, <1>3 DEF MovesReplay, Replays

LEMMA ReplayWas ==
    ASSUME conf' = conf, moves' \in Seq(Request)
    PROVE  MovesReplay' <=> Replays(moves', home')
  <1>1. Len(moves') \in Int /\ \A n \in 1..Len(moves') : n - 1 \in Int
    OBVIOUS
  <1>2. \A v : Where(v, Len(moves))' = WhereIn(moves', v, Len(moves'))
    BY <1>1, WhereIs
  <1>3. \A n \in 1..Len(moves') :
            Where(moves[n].vol, n - 1)' = WhereIn(moves', moves'[n].vol, n - 1)
    BY <1>1, WhereIs
  <1> QED
    BY <1>2, <1>3 DEF MovesReplay, Replays

LEMMA WhereAppend ==
    ASSUME NEW s \in Seq(Request), NEW m \in Request, NEW v
    PROVE  /\ \A n \in 0..Len(s) : WhereIn(Append(s, m), v, n) = WhereIn(s, v, n)
           /\ WhereIn(Append(s, m), v, Len(s) + 1) =
                  IF m.vol = v THEN m.to ELSE WhereIn(s, v, Len(s))
  <1> DEFINE t == Append(s, m)
             l == Len(s)
  <1>1. /\ l \in Nat /\ \A i \in 1..l : t[i] = s[i]
        /\ t[l + 1] = m
    OBVIOUS
  <1> HIDE DEF t, l
  <1>2. ASSUME NEW n \in 0..l PROVE WhereIn(t, v, n) = WhereIn(s, v, n)
    <2>1. \A i \in 1..n : i \in 1..l
      BY <1>1
    <2>2. Moved(t, v, n) = Moved(s, v, n)
      BY <1>1, <2>1 DEF Moved
    <2>3. CASE Moved(s, v, n) = {}
      BY <2>2, <2>3 DEF WhereIn
    <2>4. CASE Moved(s, v, n) # {}
      <3>1. Max(Moved(s, v, n)) \in Moved(s, v, n)
        <4>1. n \in Int
          BY <1>1
        <4> QED
          BY <2>4, <4>1, MovedMax
      <3>2. Max(Moved(s, v, n)) \in 1..n
        BY <3>1 DEF Moved
      <3> QED
        BY <1>1, <2>1, <2>2, <2>4, <3>2 DEF WhereIn
    <2> QED
      BY <2>3, <2>4
  <1>3. CASE m.vol = v
    <2>1. l + 1 \in Moved(t, v, l + 1)
      BY <1>1, <1>3 DEF Moved
    <2>2. l + 1 \in Int
      BY <1>1
    <2>3. /\ Max(Moved(t, v, l + 1)) \in 1..(l + 1)
          /\ l + 1 <= Max(Moved(t, v, l + 1))
      BY <2>1, <2>2, MovedMax
    <2>4. Max(Moved(t, v, l + 1)) = l + 1
      BY <1>1, <2>3
    <2> QED
      BY <1>1, <1>2, <1>3, <2>1, <2>4 DEF WhereIn, t, l
  <1>4. CASE m.vol # v
    <2>1. Moved(t, v, l + 1) = Moved(t, v, l)
      BY <1>1, <1>4 DEF Moved
    <2>2. WhereIn(t, v, l + 1) = WhereIn(t, v, l)
      BY <2>1 DEF WhereIn
    <2>3. WhereIn(t, v, l) = WhereIn(s, v, l)
      BY <1>1, <1>2
    <2> QED
      BY <1>2, <1>4, <2>2, <2>3 DEF t, l
  <1> QED
    BY <1>3, <1>4

LEMMA InitReplay == Init => MovesReplay
  <1> SUFFICES ASSUME Init PROVE MovesReplay
    OBVIOUS
  <1>1. moves = <<>> /\ home = conf.place /\ conf \in Cells
    BY DEF Init
  <1>2. home \in [Volume -> Partition] /\ moves \in Seq(Request) /\ Len(moves) = 0
    BY <1>1, ConfFacts
  <1>3. \A v \in Volume : WhereIn(moves, v, Len(moves)) = conf.place[v]
    <2>1. \A v : Moved(moves, v, Len(moves)) = {}
      BY <1>2 DEF Moved
    <2> QED
      BY <2>1 DEF WhereIn
  <1>4. Replays(moves, home)
    BY <1>1, <1>2, <1>3 DEF Replays
  <1> QED
    BY <1>2, <1>4, ReplayIs

LEMMA NextReplay ==
    ASSUME Books, Asking, Books', MovesReplay, [Next]_vars
    PROVE  MovesReplay'
  <1>1. /\ moves \in Seq(Request) /\ moves' \in Seq(Request)
        /\ home \in [Volume -> Partition]
    BY DEF Books, TypeOK
  <1>2. Replays(moves, home)
    BY <1>1, ReplayIs
  <1>3. CASE Accept
    <2> DEFINE l == Len(moves)
               t == moves'
    <2>1. /\ mover \in Request /\ mover.from # mover.to /\ home[mover.vol] = mover.from
          /\ conf' = conf /\ MovedTo(home, mover.vol, mover.to, home')
      BY <1>3, AcceptLoads
    <2>2. t = Append(moves, mover) /\ Admitted
      BY <1>3, AcceptRest
    <2>0. l \in Nat
      BY <1>1
    <2>3. \A v, n : n \in 0..l => WhereIn(t, v, n) = WhereIn(moves, v, n)
      BY <1>1, <2>1, <2>2, WhereAppend
    <2>4. \A v : WhereIn(t, v, l + 1) = IF mover.vol = v THEN mover.to ELSE WhereIn(moves, v, l)
      BY <1>1, <2>1, <2>2, WhereAppend
    <2>5. Len(t) = l + 1 /\ \A n \in 1..l : t[n] = moves[n]
      BY <1>1, <2>1, <2>2
    <2>6. t[l + 1] = mover
      BY <1>1, <2>1, <2>2
    <2>7. \A v \in Volume : home[v] = WhereIn(moves, v, l)
      BY <1>2 DEF Replays
    <2>8. mover.vol \in Volume
      BY <2>1 DEF Request
    <2>9. \A n \in 1..l : /\ WhereIn(moves, moves[n].vol, n - 1) = moves[n].from
                          /\ moves[n].from # moves[n].to
                          /\ moves[n].vol \in conf.admits[moves[n].to]
      BY <1>2 DEF Replays
    <2> HIDE DEF l, t
    <2>10. ASSUME NEW n \in 1..(l + 1)
           PROVE  /\ WhereIn(t, t[n].vol, n - 1) = t[n].from
                  /\ t[n].from # t[n].to /\ t[n].vol \in conf.admits[t[n].to]
      <3>1. CASE n \in 1..l
        <4>1. n - 1 \in 0..l /\ t[n] = moves[n]
          BY <2>0, <2>5, <3>1
        <4> QED
          BY <2>3, <2>9, <3>1, <4>1
      <3>2. CASE n = l + 1
        <4>1. n - 1 = l /\ l \in 0..l /\ t[n] = mover
          BY <2>0, <2>6, <3>2
        <4>2. WhereIn(t, mover.vol, l) = mover.from
          BY <2>1, <2>3, <2>7, <2>8, <4>1
        <4> QED
          BY <2>1, <2>2, <4>1, <4>2 DEF Admitted
      <3> QED
        BY <2>0, <3>1, <3>2
    <2>11. home' = [v \in Volume |-> WhereIn(t, v, l + 1)]
      <3>1. home' \in [Volume -> Partition]
        BY <2>1 DEF MovedTo
      <3>2. \A v \in Volume : home'[v] = WhereIn(t, v, l + 1)
        BY <2>1, <2>4, <2>7 DEF MovedTo
      <3> QED
        BY <3>1, <3>2
    <2>12. Replays(t, home')
      BY <2>5, <2>10, <2>11 DEF Replays
    <2> QED
      BY <1>1, <2>1, <2>12, ReplayWas DEF t
  <1>4. CASE ~Accept
    <2>1. UNCHANGED <<conf, moves, home>>
      BY <1>4 DEF Next, Redirect, Propose, GiveUp, Refuse, Reject, Panic, vars
    <2> QED
      BY <1>1, <1>2, <2>1, ReplayWas
  <1> QED
    BY <1>3, <1>4

(* The list of transactions that balance() leaves to the dispatcher can be *)
(* carried out in its order: each finds its volume where it says, goes to  *)
(* another partition that admits it, and all of them lead to the placement *)
(* the agents negotiated.                                                  *)
THEOREM ReplayCorrect == Spec => []MovesReplay
  <1>1. Books /\ Asking /\ Books' /\ MovesReplay /\ [Next]_vars => MovesReplay'
    BY NextReplay
  <1> QED
    BY <1>1, InitReplay, AlwaysBooks, PTL DEF Spec
-----------------------------------------------------------------------------
(* The pointers of the agents.  One that leads out of the list of its      *)
(* partition is astray; only some volumes, which no list holds, are found  *)
(* that way.                                                               *)

Pointing(books, W) ==
    \A a \in Active, p \in Partition :
        books[a].nextvol[p] \in {NULL} \cup ToSet(books[a].vols[p]) \cup W
Clear(books, W) ==
    \A a \in Active, p \in Partition : ToSet(books[a].vols[p]) \cap W = {}

LEMMA RemainingWithin ==
    ASSUME Books, NEW W, Pointing(book, W), Clear(book, W), NEW p \in Partition,
           NEW k \in 1..Len(Remaining(book[Me], p))
    PROVE  LET r == Remaining(book[Me], p)
               s == book[Me].vols[p]
               x == FirstOf(SubSeq(r, k + 1, Len(r)))
           IN  \/ r[k] \in W /\ x = NULL
               \/ r[k] \in ToSet(s) /\ x \in {NULL} \cup ToSet(s) /\ x # r[k]
  <1> DEFINE b == book[Me]
             r == Remaining(b, p)
             s == b.vols[p]
             n == b.nextvol[p]
             x == FirstOf(SubSeq(r, k + 1, Len(r)))
  <1>1. b \in Book /\ Holds(b, home) /\ Me \in Active
    BY BooksFacts
  <1>2. s \in Seq(Volume) /\ IsInjective(s)
    BY <1>1, BookFacts DEF Holds
  <1>3. /\ r \in Seq(Volume)
        /\ n = NULL => r = <<>>
        /\ \A q \in Partition : n # NULL /\ n \in ToSet(b.vols[q]) =>
              r = SubSeq(b.vols[q], At(b.vols[q], n), Len(b.vols[q]))
        /\ n # NULL /\ (\A q \in Partition : n \notin ToSet(b.vols[q])) => r = <<n>>
    BY <1>1, RemainingFacts
  <1>4. n \in {NULL} \cup ToSet(s) \cup W
    BY <1>1 DEF Pointing
  <1>5. \A q \in Partition : ToSet(b.vols[q]) \cap W = {}
    BY <1>1 DEF Clear
  <1>6. k \in 1..Len(r) /\ k \in Nat /\ Len(r) \in Nat
    BY <1>3
  <1>7. /\ k = Len(r) => x = NULL
        /\ k < Len(r) => x = r[k + 1]
    BY <1>3, <1>6, NextFacts
  <1>8. NULL \notin Volume
    BY ConfFacts DEF Books
  <1> HIDE DEF b, r, s, n, x
  <1>9. n # NULL
    <2> SUFFICES ASSUME n = NULL PROVE FALSE
      OBVIOUS
    <2>1. Len(r) = 0
      BY <1>3
    <2> QED
      BY <1>6, <2>1
  <1>10. CASE n \in W
    <2>1. r = <<n>>
      BY <1>3, <1>5, <1>9, <1>10
    <2>2. Len(r) = 1 /\ r[1] = n
      BY <2>1
    <2>3. k = 1
      BY <1>6, <2>2
    <2> QED
      BY <1>7, <1>10, <2>2, <2>3 DEF x, r, b
  <1>11. CASE n \in ToSet(s)
    <2>1. r = SubSeq(s, At(s, n), Len(s))
      BY <1>3, <1>9, <1>11 DEF s
    <2>2. /\ Len(r) = (Len(s) - At(s, n)) + 1
          /\ At(s, n) \in 1..Len(s) /\ Len(s) \in Nat
          /\ \A i \in 1..Len(r) : r[i] = s[(At(s, n) + i) - 1]
          /\ ToSet(r) = Behind(s, n)
      BY <1>2, <1>11, <2>1, TailFacts
    <2>3. \A i \in 1..Len(r) : (At(s, n) + i) - 1 \in 1..Len(s)
      BY <1>6, <2>2
    <2>4. \A i \in 1..Len(r) : r[i] \in ToSet(s)
      BY <1>3, <2>2, ToSetFacts DEF Behind
    <2>5. \A i, j \in 1..Len(r) : r[i] = r[j] => i = j
      <3> SUFFICES ASSUME NEW i \in 1..Len(r), NEW j \in 1..Len(r), r[i] = r[j] PROVE i = j
        OBVIOUS
      <3> DEFINE e == (At(s, n) + i) - 1
                 f == (At(s, n) + j) - 1
      <3>1. e \in 1..Len(s) /\ f \in 1..Len(s) /\ s[e] = s[f]
        BY <2>2, <2>3
      <3>2. e = f => i = j
        BY <2>2
      <3> HIDE DEF e, f
      <3>3. DOMAIN s = 1..Len(s)
        BY <1>2, LenProperties
      <3>4. e = f
        BY <1>2, <3>1, <3>3 DEF IsInjective
      <3> QED
        BY <3>2, <3>4
    <2>6. CASE k = Len(r)
      BY <1>2, <1>6, <1>7, <1>8, <2>4, <2>6, ToSetFacts DEF x, r, b, s
    <2>7. CASE k < Len(r)
      <3>1. k + 1 \in 1..Len(r) /\ k # k + 1
        BY <1>6, <2>7
      <3>2. x = r[k + 1] /\ x \in ToSet(s) /\ x # r[k] /\ r[k] \in ToSet(s)
        BY <1>6, <1>7, <2>4, <2>5, <2>7, <3>1
      <3> QED
        BY <3>2 DEF x, r, b, s
    <2> QED
      BY <1>6, <2>6, <2>7
  <1> QED
    BY <1>4, <1>9, <1>10, <1>11

LEMMA ProposePointers ==
    ASSUME Books, Propose, NEW W, Pointing(book, W), Clear(book, W)
    PROVE  /\ Pointing(book', W) /\ Clear(book', W)
           /\ mover'.vol \in W
              \/ (/\ Overloaded(Me, mover'.from) /\ StaysAboveLower(Me, mover'.from, mover'.vol)
                  /\ mover'.vol \in ToSet(book[Me].vols[mover'.from])
                  /\ book'[Me].nextvol[mover'.from] # mover'.vol)
  <1> DEFINE p == Chain[Found]
             r == Remaining(book[Me], p)
             k == Choice(p)
             v == r[k]
             s == book[Me].vols[p]
             x == FirstOf(SubSeq(r, k + 1, Len(r)))
  <1>1. /\ p \in Partition /\ k \in 1..Len(r)
        /\ Overloaded(Me, p) /\ Wanted(p, v)
        /\ mover' = [vol |-> v, from |-> home[v], to |-> Chain[FirstDest(v)]]
        /\ Kept
        /\ book'[Me].nextvol = [Pointers(Found - 1) EXCEPT ![p] = x]
        /\ \A a \in Active \ {Me} : book'[a] = book[a]
    BY ProposeFacts
  <1>2. \/ v \in W /\ x = NULL
        \/ v \in ToSet(s) /\ x \in {NULL} \cup ToSet(s) /\ x # v
    BY <1>1, RemainingWithin
  <1>3. /\ Pointers(Found - 1) \in [Partition -> Volume \cup {NULL}]
        /\ \A q \in Partition : Pointers(Found - 1)[q] \in {NULL, book[Me].nextvol[q]}
    BY PointersFacts
  <1>4. /\ Me \in Active /\ Holds(book[Me], home)
        /\ \A a \in Active : book'[a].vols = book[a].vols
    BY <1>1, BooksFacts DEF Kept
  <1>5. StaysAboveLower(Me, p, v)
    BY <1>1 DEF Wanted
  <1> HIDE DEF p, r, k, v, s, x
  <1>6. v \in ToSet(s) => home[v] = p
    BY <1>1, <1>4 DEF Holds, s
  <1>7. Clear(book', W)
    BY <1>4 DEF Clear
  <1>8. /\ book'[Me].nextvol[p] = x
        /\ \A q \in Partition \ {p} : book'[Me].nextvol[q] \in {NULL, book[Me].nextvol[q]}
    BY <1>1, <1>3
  <1>9. Pointing(book', W)
    <2> SUFFICES ASSUME NEW a \in Active, NEW q \in Partition
                 PROVE  book'[a].nextvol[q] \in {NULL} \cup ToSet(book'[a].vols[q]) \cup W
      BY DEF Pointing
    <2>1. book[a].nextvol[q] \in {NULL} \cup ToSet(book[a].vols[q]) \cup W
      BY DEF Pointing
    <2>2. CASE a # Me
      BY <1>1, <2>1, <2>2
    <2>3. CASE a = Me /\ q # p
      BY <1>4, <1>8, <2>1, <2>3
    <2>4. CASE a = Me /\ q = p
      BY <1>2, <1>4, <1>8, <2>4 DEF s
    <2> QED
      BY <2>2, <2>3, <2>4
  <1>10. mover'.vol = v /\ mover'.from = home[v]
    BY <1>1
  <1>11. v \in W
         \/ (/\ Overloaded(Me, home[v]) /\ StaysAboveLower(Me, home[v], v)
             /\ v \in ToSet(book[Me].vols[home[v]])
             /\ book'[Me].nextvol[home[v]] # v)
    <2>1. CASE v \in W
      BY <2>1
    <2>2. CASE v \in ToSet(s) /\ x # v
      BY <1>1, <1>5, <1>6, <1>8, <2>2 DEF s
    <2> QED
      BY <1>2, <2>1, <2>2
  <1> QED
    BY <1>7, <1>9, <1>10, <1>11

LEMMA GiveUpPointers ==
    ASSUME Books, GiveUp, NEW W, Pointing(book, W), Clear(book, W)
    PROVE  Pointing(book', W) /\ Clear(book', W)
  <1>1. /\ Kept /\ book'[Me].nextvol = Pointers(Len(Chain))
        /\ \A a \in Active \ {Me} : book'[a] = book[a]
    BY GiveUpFacts
  <1>2. \A q \in Partition : Pointers(Len(Chain))[q] \in {NULL, book[Me].nextvol[q]}
    BY PointersFacts
  <1>3. \A a \in Active : book'[a].vols = book[a].vols
    BY <1>1 DEF Kept
  <1>4. \A a \in Active, q \in Partition : book'[a].nextvol[q] \in {NULL, book[a].nextvol[q]}
    BY <1>1, <1>2
  <1> QED
    BY <1>3, <1>4 DEF Pointing, Clear

LEMMA DiscardPointers ==
    ASSUME Books, mover \in Request, Discards, NEW W, Pointing(book, W), Clear(book, W)
    PROVE  Pointing(book', W) /\ Clear(book', W)
  <1> DEFINE v == mover.vol
             p == home[v]
  <1>1. ASSUME NEW a \in Active, NEW q \in Partition
        PROVE  /\ book'[a].nextvol[q] \in {NULL} \cup ToSet(book'[a].vols[q]) \cup W
               /\ ToSet(book'[a].vols[q]) \cap W = {}
    <2> DEFINE b == book[a]
               c == book'[a]
    <2>1. b \in Book /\ Holds(b, home)
      BY BooksFacts
    <2>2. /\ b.nextvol[q] \in {NULL} \cup ToSet(b.vols[q]) \cup W
          /\ ToSet(b.vols[q]) \cap W = {}
      BY DEF Pointing, Clear
    <2>3. /\ p \in Partition /\ v \in Volume
          /\ \A x \in Partition : x # p => c.vols[x] = b.vols[x] /\ c.nextvol[x] = b.nextvol[x]
          /\ ToSet(c.vols[p]) = ToSet(b.vols[p]) \ {v}
          /\ c.nextvol[p] = IF b.nextvol[p] = v THEN Following(b, v) ELSE b.nextvol[p]
      BY DiscardBook
    <2>4. Following(b, v) # NULL => Following(b, v) \in ToSet(b.vols[p]) \ {v}
      <3> SUFFICES ASSUME Following(b, v) # NULL PROVE Following(b, v) \in ToSet(b.vols[p]) \ {v}
        OBVIOUS
      <3>1. PICK x \in Partition : /\ v \in ToSet(b.vols[x])
                                   /\ Following(b, v) \in ToSet(b.vols[x]) \ {v}
        BY <2>1, <2>3, FollowingFacts
      <3>2. x = p
        BY <2>1, <3>1 DEF Holds
      <3> QED
        BY <3>1, <3>2
    <2> HIDE DEF b, c, v, p
    <2>5. CASE q # p
      BY <2>2, <2>3, <2>5 DEF c
    <2>6. CASE q = p
      BY <2>2, <2>3, <2>4, <2>6 DEF c
    <2> QED
      BY <2>5, <2>6
  <1> QED
    BY <1>1 DEF Pointing, Clear

LEMMA AcceptPointers ==
    ASSUME Books, Asking, Accept, NEW W, NEW X, Pointing(book, W), W \subseteq X,
           \A a \in Active : book[a].nextvol[mover.from] = mover.vol => mover.vol \in X
    PROVE  Pointing(book', X)
  <1> SUFFICES ASSUME NEW a \in Active, NEW q \in Partition
               PROVE  book'[a].nextvol[q] \in {NULL} \cup ToSet(book'[a].vols[q]) \cup X
    BY DEF Pointing
  <1> DEFINE b == book[a]
             c == book'[a]
             m == mover
  <1>1. b.nextvol[q] \in {NULL} \cup ToSet(b.vols[q]) \cup W
    BY DEF Pointing
  <1>2. m.from # m.to
    BY AcceptLoads
  <1>3. /\ c \in Book
        /\ \A x \in Partition \ {m.from, m.to} : c.vols[x] = b.vols[x]
        /\ ToSet(c.vols[m.from]) = ToSet(b.vols[m.from]) \ {m.vol}
        /\ ToSet(c.vols[m.to]) =
              IF Limited(m) THEN ToSet(b.vols[m.to]) ELSE ToSet(b.vols[m.to]) \cup {m.vol}
        /\ \A x \in Partition \ {m.to} : c.nextvol[x] =
              IF Reopens(a, load'[a], m.from) THEN FirstOf(c.vols[x]) ELSE b.nextvol[x]
        /\ LET n == c.nextvol[m.to]
           IN  \/ n = NULL \/ n \in ToSet(c.vols[m.to])
               \/ ~Reopens(a, load'[a], m.from) /\ n = b.nextvol[m.to]
    BY AcceptBook
  <1>4. FirstOf(c.vols[q]) \in {NULL} \cup ToSet(c.vols[q])
    BY <1>3, BookFacts, FirstOfFacts
  <1>5. b.nextvol[m.from] = m.vol => m.vol \in X
    OBVIOUS
  <1> HIDE DEF b, c, m
  <1>6. CASE q = m.to
    BY <1>1, <1>3, <1>6 DEF c
  <1>7. CASE q = m.from
    BY <1>1, <1>2, <1>3, <1>4, <1>5, <1>7 DEF c
  <1>8. CASE q \notin {m.from, m.to}
    BY <1>1, <1>3, <1>4, <1>8 DEF c
  <1> QED
    BY <1>6, <1>7, <1>8
-----------------------------------------------------------------------------
(* The limits.                                                             *)

Counted ==
    /\ \A v \in Volume : ntimes[v] <= conf.nvoltrans
    /\ Len(moves) + budget = conf.ntransactions
    /\ conf.ntransactions > 0 => budget >= 0 /\ (pc \in {"ask", "judge"} => budget > 0)

LEMMA InitCounted == Init => Counted
  <1> SUFFICES ASSUME Init PROVE Counted
    OBVIOUS
  <1>1. /\ conf \in Cells /\ moves = <<>> /\ budget = conf.ntransactions
        /\ ntimes = [v \in Volume |-> 0]
    BY DEF Init
  <1>2. conf.ntransactions \in Nat /\ conf.nvoltrans \in Nat
    BY <1>1, ConfFacts
  <1> QED
    BY <1>1, <1>2 DEF Counted

LEMMA NextCounted ==
    ASSUME Books, Asking, Counted, [Next]_vars
    PROVE  Counted'
  <1>1. /\ conf \in Cells /\ ntimes \in [Volume -> Nat] /\ moves \in Seq(Request)
        /\ budget \in Int /\ mover \in {NULL} \cup Request
    BY DEF Books, TypeOK
  <1>2. conf.ntransactions \in Nat /\ conf.nvoltrans \in Nat
    BY <1>1, ConfFacts
  <1>3. CASE Accept
    <2>1. mover \in Request /\ conf' = conf
      BY <1>3, AcceptLoads
    <2>2. /\ ntimes' = [ntimes EXCEPT ![mover.vol] = @ + 1]
          /\ moves' = Append(moves, mover) /\ budget' = budget - 1
          /\ budget' = 0 => pc' = "done"
      BY <1>3, AcceptRest
    <2>3. ntimes[mover.vol] # conf.nvoltrans /\ pc = "judge"
      BY <1>3 DEF Accept, AtLimit
    <2>4. Len(moves') = Len(moves) + 1 /\ Len(moves) \in Nat
      BY <1>1, <2>1, <2>2
    <2>5. \A v \in Volume : ntimes'[v] <= conf.nvoltrans
      BY <1>1, <1>2, <2>2, <2>3 DEF Counted
    <2>6. Len(moves') + budget' = conf.ntransactions
      BY <1>1, <2>2, <2>4 DEF Counted
    <2>7. conf.ntransactions > 0 => budget' >= 0 /\ (pc' \in {"ask", "judge"} => budget' > 0)
      BY <1>1, <2>2, <2>3 DEF Counted
    <2> QED
      BY <2>1, <2>5, <2>6, <2>7 DEF Counted
  <1>4. CASE ~Accept
    <2>1. /\ UNCHANGED <<conf, ntimes, moves, budget>>
          /\ pc' \in {"ask", "judge"} => pc \in {"ask", "judge"}
      BY <1>4 DEF Next, Redirect, Propose, GiveUp, Refuse, Reject, Panic, vars
    <2> QED
      BY <2>1 DEF Counted
  <1> QED
    BY <1>3, <1>4

(* With -v 1 the volumes that were moved are in no list, and a pointer     *)
(* that is astray leads to such a volume; a request for any other is for a *)
(* partition above the move bound.                                         *)
Once == {v \in Volume : ntimes[v] = 1}
Onward == mover # NULL => mover.vol \in Once \/ Overloaded(Me, mover.from)
MovedOnce == Counted /\ Pointing(book, Once) /\ Clear(book, Once) /\ Onward /\ pc # "panic"

LEMMA OpeningPointers ==
    ASSUME Init, NEW W
    PROVE  /\ Pointing(book, W)
           /\ ntimes = [v \in Volume |-> 0] /\ mover = NULL /\ pc = "ask"
  <1>1. Books
    BY InitBooks
  <1>2. /\ book = [a \in Active |-> Opening(a, load[a])]
        /\ ntimes = [v \in Volume |-> 0] /\ mover = NULL /\ pc = "ask"
    BY DEF Init
  <1>3. ASSUME NEW a \in Active, NEW p \in Partition
        PROVE  book[a].nextvol[p] \in {NULL} \cup ToSet(book[a].vols[p]) \cup W
    <2>1. book[a] \in Book /\ conf \in Cells /\ a \in Agent
      BY <1>1, BooksFacts
    <2>2. book[a].nextvol = [q \in Partition |-> FirstOf(book[a].vols[q])]
      BY <1>2, <2>1, OpeningVols
    <2>3. book[a].nextvol[p] = FirstOf(book[a].vols[p])
      BY <2>2
    <2>4. book[a].vols[p] \in Seq(Volume)
      BY <2>1, BookFacts
    <2> QED
      BY <2>3, <2>4, FirstOfFacts
  <1> QED
    BY <1>2, <1>3 DEF Pointing

LEMMA InitOnce == Init => MovedOnce
  <1> SUFFICES ASSUME Init PROVE MovedOnce
    OBVIOUS
  <1>1. ntimes = [v \in Volume |-> 0] /\ mover = NULL /\ pc = "ask"
    BY OpeningPointers
  <1>2. Once = {}
    BY <1>1 DEF Once
  <1>3. Pointing(book, Once)
    BY OpeningPointers
  <1>4. Clear(book, Once)
    BY <1>2 DEF Clear
  <1> QED
    BY <1>1, <1>3, <1>4, InitCounted DEF MovedOnce, Onward

LEMMA NoPanic ==
    ASSUME Books, Asking, MovedOnce, conf.nvoltrans = 1
    PROVE  ~Panic
  <1> SUFFICES ASSUME Panic PROVE FALSE
    OBVIOUS
  <1> DEFINE v == mover.vol
             p == mover.from
  <1>1. /\ mover \in Request /\ pc = "judge" /\ mover # NULL
        /\ ntimes[v] # 1 /\ p = mover.to
    BY BooksFacts DEF Panic, AtLimit, Books, TypeOK
  <1>2. v \in Volume /\ p \in Partition
    BY <1>1 DEF Request
  <1>3. Overloaded(Me, p)
    BY <1>1 DEF MovedOnce, Onward, Once
  <1>4. Fits(Me, p, v, 2)
    BY <1>1 DEF Asking
  <1>5. /\ conf \in Cells /\ Me \in Active /\ avg = [a \in Active |-> Average(a)]
        /\ load[Me] \in [Partition -> Nat] /\ Me \in Agent
    BY BooksFacts
  <1> HIDE DEF v, p
  <1>6. /\ load[Me][p] \in Int /\ load[Me][p] + Weight(Me, v) \in Int
        /\ load[Me][p] <= load[Me][p] + Weight(Me, v)
    BY <1>2, <1>5, GainFacts
  <1>7. /\ Scaled(Me, load[Me][p], 2) <= Scaled(Me, load[Me][p] + Weight(Me, v), 2)
        /\ Scaled(Me, load[Me][p], 2) \in Int /\ Scaled(Me, load[Me][p] + Weight(Me, v), 2) \in Int
        /\ Bound(Me, p, 2) \in Int
    BY <1>2, <1>5, <1>6, ScaledFacts, AverageFacts
  <1>8. /\ Scaled(Me, load[Me][p], 2) > Bound(Me, p, 2)
        /\ Scaled(Me, load[Me][p] + Weight(Me, v), 2) < Bound(Me, p, 2)
    BY <1>3, <1>4 DEF Overloaded, Fits
  <1> QED
    BY <1>7, <1>8

LEMMA AcceptOnce ==
    ASSUME Books, Asking, Books', MovedOnce, conf.nvoltrans = 1, Accept
    PROVE  MovedOnce'
  <1> DEFINE v == mover.vol
  <1>1. /\ mover \in Request /\ mover.from # mover.to /\ home[v] = mover.from
        /\ conf' = conf /\ v \in Volume /\ mover.from \in Partition /\ mover.to \in Partition
    BY AcceptLoads
  <1>2. /\ ntimes' = [ntimes EXCEPT ![v] = @ + 1] /\ mover' = NULL
        /\ ntimes \in [Volume -> Nat]
    BY AcceptRest DEF Books, TypeOK
  <1>3. ntimes[v] # 1 /\ pc' # "panic"
    BY DEF Accept, AtLimit, NextTurn
  <1>4. ntimes[v] = 0
    BY <1>1, <1>2, <1>3 DEF MovedOnce, Counted
  <1>5. Once' = Once \cup {v}
    BY <1>1, <1>2, <1>4 DEF Once
  <1>6. Limited(mover)
    BY <1>4 DEF Limited
  <1>7. Pointing(book', Once')
    BY <1>5, AcceptPointers DEF MovedOnce
  <1>8. Clear(book', Once')
    <2> SUFFICES ASSUME NEW a \in Active, NEW q \in Partition
                 PROVE  ToSet(book'[a].vols[q]) \cap Once' = {}
      BY DEF Clear
    <2>1. ToSet(book[a].vols[q]) \cap Once = {}
      BY DEF MovedOnce, Clear
    <2>2. v \in ToSet(book[a].vols[q]) => q = mover.from
      BY <1>1, BooksFacts DEF Holds
    <2>3. /\ \A x \in Partition \ {mover.from, mover.to} : book'[a].vols[x] = book[a].vols[x]
          /\ ToSet(book'[a].vols[mover.from]) = ToSet(book[a].vols[mover.from]) \ {v}
          /\ ToSet(book'[a].vols[mover.to]) = ToSet(book[a].vols[mover.to])
      BY <1>6, AcceptBook
    <2> HIDE DEF v
    <2>4. CASE q = mover.from
      BY <1>5, <2>1, <2>3, <2>4
    <2>5. CASE q = mover.to
      BY <1>1, <1>5, <2>1, <2>2, <2>3, <2>5
    <2>6. CASE q \notin {mover.from, mover.to}
      BY <1>5, <2>1, <2>2, <2>3, <2>6
    <2> QED
      BY <2>4, <2>5, <2>6
  <1>9. Active' = Active
    BY <1>1 DEF Active
  <1>10. Counted'
    BY NextCounted DEF MovedOnce, Next
  <1> QED
    BY <1>2, <1>3, <1>7, <1>8, <1>9, <1>10 DEF MovedOnce, Onward, Pointing, Clear

LEMMA NextOnce ==
    ASSUME Books, Asking, Books', MovedOnce, conf.nvoltrans = 1, [Next]_vars
    PROVE  MovedOnce'
  <1>1. Counted'
    BY NextCounted DEF MovedOnce
  <1>2. Pointing(book, Once) /\ Clear(book, Once) /\ Onward /\ pc # "panic"
    BY DEF MovedOnce
  <1>3. ASSUME conf' = conf, ntimes' = ntimes
        PROVE  /\ Active' = Active /\ Once' = Once
               /\ Pointing(book', Once) /\ Clear(book', Once) => Pointing(book, Once)' /\ Clear(book, Once)'
    BY <1>3 DEF Active, Once, Pointing, Clear
  <1>4. CASE Accept
    BY <1>4, AcceptOnce
  <1>5. CASE Propose
    <2>1. /\ Pointing(book', Once) /\ Clear(book', Once)
          /\ mover'.vol \in Once \/ Overloaded(Me, mover'.from)
      BY <1>2, <1>5, ProposePointers
    <2>2. UNCHANGED <<conf, avg, turn, load, ntimes>> /\ pc' = "judge"
      BY <1>5 DEF Propose
    <2>3. Me' = Me /\ \A a, p : Overloaded(a, p)' <=> Overloaded(a, p)
      BY <2>2, FitsKept
    <2>4. mover'.vol \in Once' \/ Overloaded(Me', mover'.from)
      BY <1>3, <2>1, <2>2, <2>3
    <2>5. mover'.vol \in Once' \/ Overloaded(Me, mover.from)'
      BY <2>3, <2>4
    <2> QED
      BY <1>1, <1>3, <2>1, <2>2, <2>5 DEF MovedOnce, Onward
  <1>6. CASE GiveUp
    <2>1. Pointing(book', Once) /\ Clear(book', Once) /\ mover' = NULL
      BY <1>2, <1>6, GiveUpPointers, GiveUpFacts
    <2>2. UNCHANGED <<conf, ntimes>> /\ pc' # "panic"
      BY <1>6 DEF GiveUp, NextTurn
    <2> QED
      BY <1>1, <1>3, <2>1, <2>2 DEF MovedOnce, Onward
  <1>7. CASE Reject /\ Discards
    <2>1. Pointing(book', Once) /\ Clear(book', Once) /\ mover' = NULL
      BY <1>2, <1>7, DiscardPointers, RejectCases DEF Discards
    <2>2. UNCHANGED <<conf, ntimes>> /\ pc' # "panic"
      BY <1>7 DEF Discards
    <2> QED
      BY <1>1, <1>3, <2>1, <2>2 DEF MovedOnce, Onward
  <1>8. CASE ~Accept /\ ~Propose /\ ~GiveUp /\ ~(Reject /\ Discards)
    <2>1. /\ UNCHANGED <<conf, avg, turn, load, ntimes, book>> /\ pc' # "panic"
          /\ mover' # NULL => mover # NULL /\ mover'.vol = mover.vol /\ mover'.from = mover.from
      <3>1. CASE Redirect
        <4>1. mover # NULL /\ mover \in Request
          BY <3>1, BooksFacts DEF Redirect, Redirectable
        <4> QED
          BY <3>1, <4>1 DEF Redirect, Request
      <3>2. CASE Reject
        <4>1. pc' = "crash" /\ UNCHANGED <<conf, avg, turn, load, ntimes, book, mover>>
          BY <1>8, <3>2, RejectCases
        <4> QED
          BY <4>1
      <3>3. CASE Refuse
        BY <3>3 DEF Refuse
      <3>4. CASE UNCHANGED vars
        BY <1>2, <3>4 DEF vars
      <3>5. ~Panic
        BY NoPanic
      <3> QED
        BY <1>8, <3>1, <3>2, <3>3, <3>4, <3>5 DEF Next
    <2>2. Me' = Me /\ \A a, p : Overloaded(a, p)' <=> Overloaded(a, p)
      BY <2>1, FitsKept
    <2>3. mover' # NULL => mover'.vol \in Once' \/ Overloaded(Me', mover'.from)
      BY <1>2, <1>3, <2>1, <2>2 DEF Onward
    <2>5. mover' # NULL => mover'.vol \in Once' \/ Overloaded(Me, mover.from)'
      BY <2>2, <2>3
    <2>4. Pointing(book', Once) /\ Clear(book', Once)
      BY <1>2, <2>1
    <2> QED
      BY <1>1, <1>3, <2>1, <2>5, <2>4 DEF MovedOnce, Onward
  <1> QED
    BY <1>4, <1>5, <1>6, <1>7, <1>8

(* -v and -t hold for whatever the agents propose: no volume is moved more *)
(* often than nvoltrans, no more than ntransactions moves are made, and    *)
(* with -v 1 no agent ever returns a null transaction.                     *)
THEOREM LimitsCorrect == Spec => []LimitsKept
  <1> DEFINE Inv == Counted /\ (conf.nvoltrans = 1 => MovedOnce)
  <1>1. Init => Inv
    BY InitCounted, InitOnce
  <1>2. Books /\ Asking /\ Books' /\ Inv /\ [Next]_vars => Inv'
    <2> SUFFICES ASSUME Books, Asking, Books', Inv, [Next]_vars PROVE Inv'
      OBVIOUS
    <2>1. Counted'
      BY NextCounted
    <2>2. conf' = conf
      BY DEF Next, Redirect, Propose, GiveUp, Refuse, Reject, Accept, Panic, vars
    <2>3. conf.nvoltrans = 1 => MovedOnce'
      BY NextOnce
    <2> QED
      BY <2>1, <2>2, <2>3
  <1>3. Inv => LimitsKept
    BY DEF Counted, MovedOnce, LimitsKept
  <1> HIDE DEF Inv
  <1> QED
    BY <1>1, <1>2, <1>3, AlwaysBooks, PTL DEF Spec
-----------------------------------------------------------------------------
(* The precision.  An agent alone has no pointer astray, and its request   *)
(* stays within its window.                                                *)

LEMMA WindowFacts ==
    ASSUME NEW c \in Nat, NEW w \in Int, NEW m \in Nat
    PROVE  c * (2 * w + m) <= 2 * (c * (w + m))
  <1> DEFINE x == c * w
             y == c * m
  <1>1. x \in Int /\ y \in Int
    OBVIOUS
  <1>2. c * (2 * w + m) = 2 * x + y
    OBVIOUS
  <1>3. c * (w + m) = x + y
    OBVIOUS
  <1>4. y >= 0
    BY Z3
  <1> HIDE DEF x, y
  <1> QED
    BY <1>1, <1>2, <1>3, <1>4

(* Below the move bound is below the upper bound.                          *)
LEMMA MoveBelowUpper ==
    ASSUME conf \in Cells, NEW a \in Active, avg = [b \in Active |-> Average(b)],
           NEW p \in Partition, NEW x \in Int, Margin(a) >= 0,
           Scaled(a, x, 2) < Bound(a, p, 2)
    PROVE  Scaled(a, x, 1) < Bound(a, p, 1)
  <1> DEFINE s == avg[a].space
             t == avg[a].total
             w == 100 * s * t
             m == Margin(a)
             c == Cap(a)[p]
             y == 100 * s * s * x
  <1>1. a \in Agent
    BY ConfFacts
  <1>2. s \in Nat /\ t \in Nat /\ m \in Nat
    BY AverageFacts
  <1>3. c \in Nat
    BY <1>1, CapFacts
  <1>4. w \in Int /\ y \in Int
    BY <1>2
  <1>5. Scaled(a, x, 2) = 2 * y /\ Scaled(a, x, 1) = y
    <2>1. 100 * 2 * s * s * x = 2 * (100 * s * s * x)
      BY <1>2
    <2>2. 100 * 1 * s * s * x = 100 * s * s * x
      BY <1>2
    <2> QED
      BY <2>1, <2>2 DEF Scaled
  <1>6. Bound(a, p, 2) = c * (2 * w + m) /\ Bound(a, p, 1) = c * (w + m)
    <2>1. 100 * 2 * s * t = 2 * w /\ 100 * 1 * s * t = w
      BY <1>2
    <2> HIDE DEF w
    <2> QED
      BY <2>1 DEF Bound, Window
  <1> HIDE DEF s, t, w, m, c, y
  <1>7. c * (2 * w + m) <= 2 * (c * (w + m))
    BY <1>2, <1>3, <1>4, WindowFacts
  <1>8. c * (2 * w + m) \in Int /\ c * (w + m) \in Int
    BY <1>2, <1>3, <1>4
  <1> DEFINE d == c * (2 * w + m)
             e == c * (w + m)
  <1>9. d \in Int /\ e \in Int /\ d <= 2 * e /\ 2 * y < d
    BY <1>5, <1>6, <1>7, <1>8
  <1> HIDE DEF d, e
  <1>10. y < e
    BY <1>4, <1>9
  <1> QED
    BY <1>5, <1>6, <1>10 DEF e

Solo ==
    /\ Pointing(book, {})
    /\ mover # NULL => /\ Overloaded(Me, mover.from)
                       /\ StaysAboveLower(Me, mover.from, mover.vol)
                       /\ mover.vol \in ToSet(book[Me].vols[mover.from])
                       /\ book[Me].nextvol[mover.from] # mover.vol

LEMMA NextSolo ==
    ASSUME Books, Asking, Solo, Len(conf.agents) = 1, [Next]_vars
    PROVE  Solo'
  <1>1. Pointing(book, {}) /\ Clear(book, {})
    BY DEF Solo, Clear
  <1>2. ASSUME conf' = conf
        PROVE  Active' = Active /\ (Pointing(book', {}) => Pointing(book, {})')
    BY <1>2 DEF Active, Pointing
  <1>3. Active = {Me}
    BY BooksFacts, MeFacts
  <1>4. CASE Accept
    <2>1. mover # NULL /\ conf' = conf
      BY <1>4, AcceptLoads, ConfFacts DEF Books
    <2>2. mover' = NULL
      BY <1>4, AcceptRest
    <2>3. \A a \in Active : book[a].nextvol[mover.from] # mover.vol
      BY <1>3, <2>1 DEF Solo
    <2>4. Pointing(book', {})
      BY <1>1, <1>4, <2>3, AcceptPointers
    <2> QED
      BY <1>2, <2>1, <2>2, <2>4 DEF Solo
  <1>5. CASE Propose
    <2>1. /\ Pointing(book', {})
          /\ Overloaded(Me, mover'.from) /\ StaysAboveLower(Me, mover'.from, mover'.vol)
          /\ mover'.vol \in ToSet(book[Me].vols[mover'.from])
          /\ book'[Me].nextvol[mover'.from] # mover'.vol
      BY <1>1, <1>5, ProposePointers
    <2>2. UNCHANGED <<conf, avg, turn, load>>
      BY <1>5 DEF Propose
    <2>3. book'[Me].vols = book[Me].vols
      BY <1>5, BooksFacts, ProposeFacts DEF Kept
    <2>4. /\ Me' = Me /\ \A a, p : Overloaded(a, p)' <=> Overloaded(a, p)
          /\ \A a, p, v : StaysAboveLower(a, p, v)' <=> StaysAboveLower(a, p, v)
      BY <2>2, FitsKept
    <2>5. /\ Overloaded(Me', mover'.from) /\ StaysAboveLower(Me', mover'.from, mover'.vol)
          /\ mover'.vol \in ToSet(book'[Me'].vols[mover'.from])
          /\ book'[Me'].nextvol[mover'.from] # mover'.vol
      BY <2>1, <2>3, <2>4
    <2>6. /\ Overloaded(Me, mover.from)' /\ StaysAboveLower(Me, mover.from, mover.vol)'
      BY <2>4, <2>5
    <2> QED
      BY <1>2, <2>1, <2>2, <2>5, <2>6 DEF Solo
  <1>6. CASE GiveUp
    <2>1. Pointing(book', {}) /\ mover' = NULL
      BY <1>1, <1>6, GiveUpPointers, GiveUpFacts
    <2>2. conf' = conf
      BY <1>6 DEF GiveUp
    <2> QED
      BY <1>2, <2>1, <2>2 DEF Solo
  <1>7. CASE Reject /\ Discards
    <2>1. Pointing(book', {}) /\ mover' = NULL /\ conf' = conf
      BY <1>1, <1>7, DiscardPointers, RejectCases DEF Discards
    <2> QED
      BY <1>2, <2>1 DEF Solo
  <1>8. CASE ~Accept /\ ~Propose /\ ~GiveUp /\ ~(Reject /\ Discards)
    <2>1. /\ UNCHANGED <<conf, avg, turn, load, book>>
          /\ mover' # NULL => mover # NULL /\ mover'.vol = mover.vol /\ mover'.from = mover.from
      <3>1. CASE Redirect
        <4>1. mover # NULL /\ mover \in Request
          BY <3>1, BooksFacts DEF Redirect, Redirectable
        <4> QED
          BY <3>1, <4>1 DEF Redirect, Request
      <3>2. CASE Reject
        <4>1. UNCHANGED <<conf, avg, turn, load, book, mover>>
          BY <1>8, <3>2, RejectCases
        <4> QED
          BY <4>1
      <3>3. CASE Refuse
        BY <3>3 DEF Refuse
      <3>4. CASE UNCHANGED vars
        BY <3>4 DEF vars
      <3>5. CASE Panic
        BY <3>5 DEF Panic
      <3> QED
        BY <1>8, <3>1, <3>2, <3>3, <3>4, <3>5 DEF Next
    <2>2. /\ Me' = Me /\ \A a, p : Overloaded(a, p)' <=> Overloaded(a, p)
          /\ \A a, p, v : StaysAboveLower(a, p, v)' <=> StaysAboveLower(a, p, v)
      BY <2>1, FitsKept
    <2>3. mover' # NULL =>
              /\ Overloaded(Me', mover'.from) /\ StaysAboveLower(Me', mover'.from, mover'.vol)
              /\ mover'.vol \in ToSet(book'[Me'].vols[mover'.from])
              /\ book'[Me'].nextvol[mover'.from] # mover'.vol
      BY <2>1, <2>2 DEF Solo
    <2>4. mover' # NULL =>
              Overloaded(Me, mover.from)' /\ StaysAboveLower(Me, mover.from, mover.vol)'
      BY <2>2, <2>3
    <2>5. Pointing(book', {})
      BY <1>1, <2>1
    <2> QED
      BY <1>2, <2>1, <2>3, <2>4, <2>5 DEF Solo
  <1> QED
    BY <1>4, <1>5, <1>6, <1>7, <1>8

LEMMA LoadsGrow ==
    ASSUME Books, Asking, Accept, NEW a \in Active \ {"byoverdraft"}, NEW p \in Partition
    PROVE  /\ load'[a][p] > load[a][p] =>
                 p = mover.to /\ load'[a][p] = load[a][p] + Gain(a, mover.vol)
           /\ load'[a][p] < load[a][p] => p = mover.from
  <1> DEFINE g == Gain(a, mover.vol)
  <1>1. /\ load'[a] \in [Partition -> Nat] /\ Alike(load[a], load'[a], mover)
        /\ load'[a][mover.from] = load[a][mover.from] - g
        /\ load'[a][mover.to] = load[a][mover.to] + g
        /\ mover.vol \in Volume
    <2>1. conf \in Cells /\ a \in Agent
      BY BooksFacts
    <2>2. Change(a, mover.vol) = g
      BY <2>1, AcceptLoads, ChangeFacts
    <2> QED
      BY <2>2, AcceptLoads DEF Counter
  <1>2. load[a] \in [Partition -> Nat] /\ conf \in Cells /\ a \in Agent
    BY BooksFacts
  <1>3. g \in Nat
    BY <1>1, <1>2, GainFacts
  <1> HIDE DEF g
  <1>4. load'[a][p] \in Nat /\ load[a][p] \in Nat
    BY <1>1, <1>2
  <1>5. CASE p = mover.to
    BY <1>1, <1>3, <1>4, <1>5 DEF g
  <1>6. CASE p = mover.from /\ p # mover.to
    BY <1>1, <1>3, <1>4, <1>6
  <1>7. CASE p \notin {mover.from, mover.to}
    <2>1. load'[a][p] = load[a][p]
      BY <1>1, <1>7 DEF Alike
    <2> QED
      BY <1>4, <2>1
  <1> QED
    BY <1>5, <1>6, <1>7

LEMMA AcceptPrecise ==
    ASSUME Books, Asking, Accept
    PROVE  KeepsBelowUpper(Active \ {"byoverdraft"})
  <1> SUFFICES ASSUME NEW a \in Active \ {"byoverdraft"}, NEW p \in Partition,
                      Margin(a) >= 0, load'[a][p] > load[a][p]
               PROVE  Scaled(a, load'[a][p], 1) < Bound(a, p, 1)
    BY DEF KeepsBelowUpper
  <1>1. p = mover.to /\ load'[a][p] = load[a][p] + Gain(a, mover.vol)
    BY LoadsGrow
  <1>2. /\ conf \in Cells /\ a \in Active /\ a \in Agent /\ avg = [b \in Active |-> Average(b)]
        /\ load[a] \in [Partition -> Nat] /\ mover.vol \in Volume
    BY BooksFacts, AcceptLoads
  <1>3. Gain(a, mover.vol) = Weight(a, mover.vol) /\ Gain(a, mover.vol) \in Nat
    BY <1>2, GainFacts
  <1>4. CASE a # Me
    <2>1. Fits(a, mover.to, mover.vol, 1)
      BY <1>2, <1>4, AcceptRest DEF Consent
    <2> QED
      BY <1>1, <1>3, <2>1 DEF Fits
  <1>5. CASE a = Me
    <2>1. mover # NULL
      BY AcceptLoads, ConfFacts DEF Books
    <2>2. Fits(a, mover.to, mover.vol, 2)
      BY <1>5, <2>1 DEF Asking
    <2>3. Scaled(a, load'[a][p], 2) < Bound(a, p, 2)
      BY <1>1, <1>3, <2>2 DEF Fits
    <2>4. load'[a][p] \in Int
      BY <1>1, <1>2, <1>3
    <2> QED
      BY <1>2, <2>3, <2>4, MoveBelowUpper
  <1> QED
    BY <1>4, <1>5

LEMMA AcceptMeasured ==
    ASSUME Books, Asking, Accept, Len(conf.agents) = 1 => Solo
    PROVE  NeverOvershoots(Active \ {"byoverdraft"})
  <1> DEFINE v == moves'[Len(moves')].vol
  <1> SUFFICES ASSUME NEW a \in Active \ {"byoverdraft"}, NEW p \in Partition,
                      Len(conf.agents) = 1
               PROVE  /\ load'[a][p] > load[a][p] => Scaled(a, load'[a][p], 2) < Bound(a, p, 2)
                      /\ load'[a][p] < load[a][p] => Overloaded(a, p) /\ StaysAboveLower(a, p, v)
    BY DEF NeverOvershoots
  <1>1. v = mover.vol
    <2>1. moves' = Append(moves, mover) /\ moves \in Seq(Request)
      BY AcceptRest DEF Books, TypeOK
    <2>2. moves'[Len(moves')] = mover
      BY <2>1
    <2> QED
      BY <2>2
  <1>2. a = Me
    BY BooksFacts, MeFacts
  <1>3. mover # NULL
    BY AcceptLoads, ConfFacts DEF Books
  <1>4. Fits(a, mover.to, mover.vol, 2)
    BY <1>2, <1>3 DEF Asking
  <1>5. Overloaded(a, mover.from) /\ StaysAboveLower(a, mover.from, mover.vol)
    BY <1>2, <1>3 DEF Solo
  <1> HIDE DEF v
  <1>6. ASSUME load'[a][p] > load[a][p]
        PROVE  Scaled(a, load'[a][p], 2) < Bound(a, p, 2)
    <2>1. p = mover.to /\ load'[a][p] = load[a][p] + Gain(a, v)
      BY <1>1, <1>6, LoadsGrow
    <2>2. Gain(a, v) = Weight(a, v)
      BY <1>1, AcceptLoads, BooksFacts, GainFacts
    <2> QED
      BY <1>1, <1>4, <2>1, <2>2 DEF Fits
  <1>7. ASSUME load'[a][p] < load[a][p] PROVE Overloaded(a, p) /\ StaysAboveLower(a, p, v)
    <2>1. p = mover.from
      BY <1>7, LoadsGrow
    <2> QED
      BY <1>1, <1>5, <2>1
  <1> QED
    BY <1>6, <1>7

(* No move lifts a partition over the upper bound of an agent, whichever   *)
(* agent proposed it, byoverdraft apart; and any other agent alone moves   *)
(* only off overloaded partitions, stays above its lower bound there and   *)
(* below its move bound where the volume goes: nothing needs to be undone. *)
THEOREM PrecisionKept == Spec => WithinPrecision
  <1> DEFINE Inv == Len(conf.agents) = 1 => Solo
             Kept2 == LET A == Active \ {"byoverdraft"} IN KeepsBelowUpper(A) /\ NeverOvershoots(A)
  <1>1. Init => Inv
    BY OpeningPointers DEF Solo
  <1>2. Books /\ Asking /\ Inv /\ [Next]_vars => Inv'
    <2> SUFFICES ASSUME Books, Asking, Inv, [Next]_vars PROVE Inv'
      OBVIOUS
    <2>1. conf' = conf
      BY DEF Next, Redirect, Propose, GiveUp, Refuse, Reject, Accept, Panic, vars
    <2> QED
      BY <2>1, NextSolo
  <1>3. Books /\ Asking /\ Inv /\ [Next]_vars => [Kept2]_vars
    <2> SUFFICES ASSUME Books, Asking, Inv, [Next]_vars PROVE Kept2
      OBVIOUS
    <2>1. CASE Accept
      BY <2>1, AcceptPrecise, AcceptMeasured
    <2>2. CASE ~Accept
      <3>1. load' = load
        BY <2>2 DEF Next, Redirect, Propose, GiveUp, Refuse, Reject, Panic, vars
      <3>2. \A a \in Active, p \in Partition : load[a][p] \in Nat
        BY BooksFacts
      <3>3. \A a \in Active, p \in Partition : ~(load'[a][p] > load[a][p]) /\ ~(load'[a][p] < load[a][p])
        BY <3>1, <3>2
      <3> QED
        BY <3>3 DEF KeepsBelowUpper, NeverOvershoots
    <2> QED
      BY <2>1, <2>2
  <1> HIDE DEF Inv
  <1> QED
    BY <1>1, <1>2, <1>3, AlwaysBooks, PTL DEF Spec, WithinPrecision
-----------------------------------------------------------------------------
(* The completeness of the search of bysize or bynumber on its own.        *)

Hopeless(p, v) ==
    \A q \in Partition :
        ~(StaysAboveLower(Me, p, v) /\ Fits(Me, q, v, 2) /\ v \in conf.admits[q])
Left(s, n) == IF n = NULL THEN {} ELSE Behind(s, n)

(* The volumes that the pointers have passed have no place to go, or they  *)
(* are on request now.                                                     *)
Tried ==
    \A p \in Partition : Overloaded(Me, p) =>
        \A v \in ToSet(book[Me].vols[p]) \ Left(book[Me].vols[p], book[Me].nextvol[p]) :
            Hopeless(p, v) \/ (mover # NULL /\ v = mover.vol)
(* The partitions in front of the one with the request have nothing to     *)
(* give.                                                                   *)
Before ==
    mover # NULL => \A p \in Partition :
        Position(p) < Position(mover.from) /\ Overloaded(Me, p) =>
            \A v \in ToSet(book[Me].vols[p]) : Hopeless(p, v)
(* Of the partitions behind its destination none takes the volume.         *)
Denied ==
    mover # NULL => \A q \in Partition :
        Position(q) > Position(mover.to) \/ (pc = "ask" /\ q = mover.to) =>
            ~(Fits(Me, q, mover.vol, 2) /\ mover.vol \in conf.admits[q])
NothingLeft ==
    \A p \in Partition : Overloaded(Me, p) =>
        \A v \in ToSet(book[Me].vols[p]) : Hopeless(p, v)
Searching ==
    /\ pc \in {"ask", "judge"} => Tried /\ Before /\ Denied
    /\ pc = "done" /\ budget # 0 => NothingLeft
Simple == Len(conf.agents) = 1 /\ Me \in {"bysize", "bynumber"}

LEMMA ChainFacts ==
    ASSUME Books
    PROVE  /\ Permutes(Chain, Partition) /\ Chain \in Seq(Partition) /\ Len(Chain) \in Nat
           /\ \A q \in Partition : Position(q) \in 1..Len(Chain) /\ Chain[Position(q)] = q
           /\ \A i \in 1..Len(Chain) : Chain[i] \in Partition /\ Position(Chain[i]) = i
           /\ \A q, p \in Partition : Position(q) = Position(p) => q = p
  <1>1. Permutes(Chain, Partition)
    BY BooksFacts DEF Chain
  <1>2. /\ Len(Chain) \in Nat
        /\ \A x \in Partition : At(Chain, x) \in 1..Len(Chain) /\ Chain[At(Chain, x)] = x
        /\ \A i \in 1..Len(Chain) : Chain[i] \in Partition /\ At(Chain, Chain[i]) = i
        /\ \A x, y \in Partition : At(Chain, x) = At(Chain, y) => x = y
    BY <1>1, PermutesAt
  <1> QED
    BY <1>1, <1>2 DEF Position, Permutes

LEMMA DenialHopeless ==
    ASSUME Books, Simple, pc = "ask", ~Redirectable, mover # NULL, Denied
    PROVE  \A p \in Partition : Hopeless(p, mover.vol)
  <1>1. mover \in Request /\ mover.to \in Partition
    BY BooksFacts DEF Request
  <1>2. NextDest = 0 /\ Me # "byweekuse"
    BY DEF Redirectable, Simple
  <1>3. \A i \in 1..Len(Chain) : i > 0 /\ i < Position(mover.to) => ~Fits(Me, Chain[i], mover.vol, 2)
    <2>1. Permutes(Chain, Partition)
      BY ChainFacts
    <2>2. \A i \in 1..Len(Chain) : i > NextDest /\ i < Position(mover.to) =>
              ~Fits(Me, Chain[i], mover.vol, 2)
      BY <1>1, <1>2, <2>1, NextDestFacts
    <2> QED
      BY <1>2, <2>2
  <1>4. ASSUME NEW q \in Partition
        PROVE  ~(Fits(Me, q, mover.vol, 2) /\ mover.vol \in conf.admits[q])
    <2>1. /\ Position(q) \in 1..Len(Chain) /\ Chain[Position(q)] = q
          /\ Position(mover.to) \in 1..Len(Chain) /\ Len(Chain) \in Nat
          /\ Position(q) = Position(mover.to) => q = mover.to
      BY <1>1, ChainFacts
    <2>2. CASE Position(q) < Position(mover.to)
      <3>1. Position(q) > 0
        BY <2>1
      <3> QED
        BY <1>3, <2>1, <2>2, <3>1
    <2>3. CASE Position(q) > Position(mover.to)
      BY <2>3 DEF Denied
    <2>4. CASE q = mover.to
      BY <2>4 DEF Denied
    <2>5. \/ Position(q) < Position(mover.to) \/ Position(q) > Position(mover.to)
          \/ Position(q) = Position(mover.to)
      BY <2>1
    <2> QED
      BY <2>1, <2>2, <2>3, <2>4, <2>5
  <1> QED
    BY <1>4 DEF Hopeless

LEMMA NotWanted ==
    ASSUME Books, Simple, NEW p \in Partition, NEW v, ~Wanted(p, v)
    PROVE  Hopeless(p, v)
  <1>1. ~StaysAboveLower(Me, p, v) \/ FirstDest(v) = 0
    BY DEF Wanted, Simple
  <1>2. CASE ~StaysAboveLower(Me, p, v)
    BY <1>2 DEF Hopeless
  <1>3. CASE FirstDest(v) = 0
    <2>1. Chain \in Seq(Partition) /\ Me # "byweekuse"
      BY ChainFacts DEF Simple
    <2>2. \A i \in 1..Len(Chain) : i > FirstDest(v) => ~Fits(Me, Chain[i], v, 2)
      BY <2>1, FirstDestFacts
    <2>3. \A q \in Partition : Position(q) \in 1..Len(Chain) /\ Chain[Position(q)] = q
      BY ChainFacts
    <2>4. \A i \in 1..Len(Chain) : i > FirstDest(v)
      BY <1>3
    <2>5. \A q \in Partition : ~Fits(Me, q, v, 2)
      BY <2>2, <2>3, <2>4
    <2> QED
      BY <2>5 DEF Hopeless
  <1> QED
    BY <1>1, <1>2, <1>3

LEMMA RemainingLeft ==
    ASSUME Books, Solo, NEW p \in Partition
    PROVE  LET r == Remaining(book[Me], p)
               s == book[Me].vols[p]
               n == book[Me].nextvol[p]
           IN  /\ s \in Seq(Volume) /\ IsInjective(s) /\ r \in Seq(Volume)
               /\ n = NULL \/ (n \in ToSet(s) /\ r = SubSeq(s, At(s, n), Len(s)))
               /\ ToSet(r) = Left(s, n)
  <1> DEFINE b == book[Me]
             r == Remaining(b, p)
             s == b.vols[p]
             n == b.nextvol[p]
  <1>1. b \in Book /\ Holds(b, home) /\ Me \in Active
    BY BooksFacts
  <1>2. s \in Seq(Volume) /\ IsInjective(s)
    BY <1>1, BookFacts DEF Holds
  <1>3. /\ r \in Seq(Volume)
        /\ n = NULL => r = <<>>
        /\ \A q \in Partition : n # NULL /\ n \in ToSet(b.vols[q]) =>
              r = SubSeq(b.vols[q], At(b.vols[q], n), Len(b.vols[q]))
    BY <1>1, RemainingFacts
  <1>4. n = NULL \/ n \in ToSet(s)
    BY <1>1 DEF Solo, Pointing
  <1> HIDE DEF b, r, n
  <1>5. n # NULL => n \in ToSet(s) /\ r = SubSeq(s, At(s, n), Len(s))
    BY <1>3, <1>4
  <1> HIDE DEF s
  <1>6. CASE n = NULL
    <2>1. ToSet(r) = {}
      BY <1>3, <1>6 DEF ToSet
    <2> QED
      BY <1>2, <1>3, <1>6, <2>1 DEF Left, b, r, s, n
  <1>7. CASE n # NULL
    <2>1. ToSet(r) = Behind(s, n)
      BY <1>2, <1>5, <1>7, TailFacts
    <2> QED
      BY <1>2, <1>3, <1>5, <1>7, <2>1 DEF Left, b, r, s, n
  <1> QED
    BY <1>6, <1>7

LEMMA VainHopeless ==
    ASSUME Books, Solo, Simple, Tried, NEW p \in Partition, Overloaded(Me, p), Choice(p) = 0,
           mover # NULL => Hopeless(p, mover.vol)
    PROVE  \A v \in ToSet(book[Me].vols[p]) : Hopeless(p, v)
  <1> DEFINE s == book[Me].vols[p]
             n == book[Me].nextvol[p]
             r == Remaining(book[Me], p)
  <1>1. r \in Seq(Volume) /\ ToSet(r) = Left(s, n)
    BY RemainingLeft
  <1>2. \A v \in ToSet(r) : ~Wanted(p, v)
    BY <1>1, ChoiceFacts
  <1>3. \A v \in Left(s, n) : Hopeless(p, v)
    BY <1>1, <1>2, NotWanted
  <1>4. \A v \in ToSet(s) \ Left(s, n) : Hopeless(p, v)
    BY DEF Tried
  <1> QED
    BY <1>3, <1>4

LEMMA VainTo ==
    ASSUME Books, Solo, Simple, Tried, Before,
           mover # NULL => \A p \in Partition : Hopeless(p, mover.vol),
           NEW m \in Int, m <= Len(Chain), \A i \in Start..m : Choice(Chain[i]) = 0
    PROVE  \A i \in 1..m : Overloaded(Me, Chain[i]) =>
               \A v \in ToSet(book[Me].vols[Chain[i]]) : Hopeless(Chain[i], v)
  <1> SUFFICES ASSUME NEW i \in 1..m, Overloaded(Me, Chain[i])
               PROVE  \A v \in ToSet(book[Me].vols[Chain[i]]) : Hopeless(Chain[i], v)
    OBVIOUS
  <1>1. conf \in Cells /\ mover \in {NULL} \cup Request
    BY DEF Books, TypeOK
  <1>2. /\ Start \in Nat \ {0}
        /\ mover = NULL => Start = 1
        /\ mover # NULL /\ Me # "byweekuse" => Start = Position(mover.from)
    BY <1>1, ChainFacts, StartFacts
  <1>3. i \in 1..Len(Chain) /\ Len(Chain) \in Nat
    BY ChainFacts
  <1>4. Chain[i] \in Partition /\ Position(Chain[i]) = i
    BY <1>3, ChainFacts
  <1>5. CASE i < Start
    <2>1. mover # NULL /\ Start = Position(mover.from)
      BY <1>2, <1>5 DEF Simple
    <2> QED
      BY <1>4, <1>5, <2>1 DEF Before
  <1>6. CASE i >= Start
    <2>1. i \in Start..m
      BY <1>2, <1>6
    <2> QED
      BY <1>4, <2>1, VainHopeless
  <1> QED
    BY <1>2, <1>5, <1>6

(* In the list s, with the pointer at n, k more volumes are passed.        *)
Passed(s, n, r, k, x) ==
    /\ r = SubSeq(s, At(s, n), Len(s)) /\ k \in 1..Len(r)
    /\ x = FirstOf(SubSeq(r, k + 1, Len(r)))

LEMMA LeftFacts ==
    ASSUME NEW E, NEW s \in Seq(E), IsInjective(s), NULL \notin E, NEW n \in ToSet(s),
           NEW r, NEW k, NEW x, Passed(s, n, r, k, x)
    PROVE  \A w \in Left(s, n) \ Left(s, x) : \E i \in 1..k : w = r[i]
  <1> DEFINE d == At(s, n)
  <1>1. /\ r \in Seq(E) /\ Len(r) = (Len(s) - d) + 1
        /\ d \in 1..Len(s) /\ Len(s) \in Nat
        /\ \A i \in 1..Len(r) : r[i] = s[(d + i) - 1]
        /\ ToSet(r) = Behind(s, n)
    BY TailFacts DEF Passed
  <1>2. /\ k = Len(r) => x = NULL
        /\ k < Len(r) => x = r[k + 1] /\ x \in E
    BY <1>1, NextFacts DEF Passed
  <1>3. k \in 1..Len(r)
    BY DEF Passed
  <1>4. n # NULL
    <2>1. ToSet(s) \subseteq E
      BY ToSetFacts
    <2> QED
      BY <2>1
  <1> SUFFICES ASSUME NEW w \in Left(s, n) \ Left(s, x) PROVE \E i \in 1..k : w = r[i]
    OBVIOUS
  <1> HIDE DEF d
  <1>5. w \in ToSet(r)
    BY <1>1, <1>4 DEF Left
  <1>6. PICK i \in 1..Len(r) : r[i] = w
    BY <1>1, <1>5, ToSetFacts
  <1>7. ASSUME i > k PROVE FALSE
    <2>1. k < Len(r) /\ k + 1 \in 1..Len(r)
      BY <1>1, <1>3, <1>7
    <2>2. x = r[k + 1] /\ x \in E
      BY <1>2, <2>1
    <2> DEFINE e == (d + i) - 1
               f == (d + (k + 1)) - 1
    <2>3. e \in 1..Len(s) /\ f \in 1..Len(s) /\ f <= e
      BY <1>1, <1>3, <1>6, <1>7, <2>1
    <2>4. w = s[e] /\ x = s[f]
      BY <1>1, <1>6, <2>1, <2>2
    <2> HIDE DEF e, f
    <2>5. w \in ToSet(s) /\ x \in ToSet(s)
      BY <2>3, <2>4, ToSetFacts
    <2>6. /\ At(s, w) \in 1..Len(s) /\ s[At(s, w)] = w
          /\ At(s, x) \in 1..Len(s) /\ s[At(s, x)] = x
      BY <2>5, AtFacts
    <2>7. At(s, w) = e /\ At(s, x) = f
      BY <2>3, <2>4, <2>6 DEF IsInjective
    <2>8. w \in Left(s, x)
      BY <2>2, <2>3, <2>5, <2>7 DEF Left, Behind
    <2> QED
      BY <2>8
  <1>8. i \in 1..k
    BY <1>1, <1>3, <1>6, <1>7
  <1> QED
    BY <1>6, <1>8

(* What the next request leaves behind: s is the list of its partition, n  *)
(* the old pointer and x the new one.                                      *)
LEMMA ProposePassed ==
    ASSUME Books, Solo, Simple, Tried, NEW p \in Partition, Overloaded(Me, p),
           mover # NULL => Hopeless(p, mover.vol), Choice(p) # 0
    PROVE  LET s == book[Me].vols[p]
               r == Remaining(book[Me], p)
               v == r[Choice(p)]
               x == FirstOf(SubSeq(r, Choice(p) + 1, Len(r)))
           IN  /\ v \in ToSet(s)
               /\ \A w \in ToSet(s) \ Left(s, x) : Hopeless(p, w) \/ w = v
  <1> DEFINE s == book[Me].vols[p]
             n == book[Me].nextvol[p]
             r == Remaining(book[Me], p)
             k == Choice(p)
             v == r[k]
             x == FirstOf(SubSeq(r, k + 1, Len(r)))
  <1>1. /\ s \in Seq(Volume) /\ IsInjective(s) /\ r \in Seq(Volume)
        /\ n = NULL \/ (n \in ToSet(s) /\ r = SubSeq(s, At(s, n), Len(s)))
        /\ ToSet(r) = Left(s, n)
    BY RemainingLeft
  <1>2. /\ k \in 1..Len(r)
        /\ \A i \in 1..k - 1 : ~Wanted(p, r[i])
    BY <1>1, ChoiceFacts
  <1>3. \A i \in 1..k - 1 : Hopeless(p, r[i])
    BY <1>2, NotWanted
  <1>4. \A w \in ToSet(s) \ Left(s, n) : Hopeless(p, w)
    BY DEF Tried
  <1>5. NULL \notin Volume
    BY ConfFacts DEF Books
  <1> HIDE DEF s, n, r, k, v, x
  <1>6. v \in ToSet(r)
    BY <1>1, <1>2, ToSetFacts DEF v
  <1>7. n # NULL
    BY <1>1, <1>6 DEF Left
  <1>8. n \in ToSet(s) /\ r = SubSeq(s, At(s, n), Len(s))
    BY <1>1, <1>7
  <1>9. \A w \in Left(s, n) \ Left(s, x) : \E i \in 1..k : w = r[i]
    <2>1. Passed(s, n, r, k, x)
      BY <1>2, <1>8 DEF Passed, x
    <2>2. s \in Seq(Volume) /\ IsInjective(s) /\ n \in ToSet(s)
      BY <1>1, <1>8
    <2> QED
      BY ONLY <1>5, <2>1, <2>2, LeftFacts
  <1>10. v \in ToSet(s)
    BY <1>1, <1>6, <1>7 DEF Left, Behind
  <1>11. ASSUME NEW w \in ToSet(s) \ Left(s, x) PROVE Hopeless(p, w) \/ w = v
    <2>1. CASE w \notin Left(s, n)
      BY <1>4, <1>11, <2>1
    <2>2. CASE w \in Left(s, n)
      <3>1. PICK i \in 1..k : w = r[i]
        BY <1>9, <1>11, <2>2
      <3>2. k \in Int /\ i \in Int
        BY <1>2
      <3>3. i = k \/ i \in 1..k - 1
        BY <3>1, <3>2
      <3> QED
        BY <1>3, <3>1, <3>3 DEF v
    <2> QED
      BY <2>1, <2>2
  <1> QED
    BY <1>10, <1>11 DEF s, r, k, v, x

LEMMA HopelessKept ==
    ASSUME conf' = conf, avg' = avg, load' = load, turn' = turn
    PROVE  /\ \A p, v : Hopeless(p, v)' <=> Hopeless(p, v)
           /\ \A p : Overloaded(Me, p)' <=> Overloaded(Me, p)
           /\ \A q, v, k : Fits(Me, q, v, k)' <=> Fits(Me, q, v, k)
           /\ Me' = Me
  <1>1. /\ \A a, p, v, k : Fits(a, p, v, k)' <=> Fits(a, p, v, k)
        /\ \A a, p, v : StaysAboveLower(a, p, v)' <=> StaysAboveLower(a, p, v)
        /\ \A a, p : Overloaded(a, p)' <=> Overloaded(a, p)
        /\ Me' = Me
    BY FitsKept
  <1>2. ASSUME NEW p, NEW v PROVE Hopeless(p, v)' <=> Hopeless(p, v)
    <2>1. \A q : Fits(Me, q, v, 2)' <=> Fits(Me, q, v, 2)
      BY <1>1
    <2>2. StaysAboveLower(Me, p, v)' <=> StaysAboveLower(Me, p, v)
      BY <1>1
    <2> QED
      BY <2>1, <2>2 DEF Hopeless
  <1>3. \A p : Overloaded(Me, p)' <=> Overloaded(Me, p)
    BY <1>1
  <1>4. \A q, v, k : Fits(Me, q, v, k)' <=> Fits(Me, q, v, k)
    BY <1>1
  <1> QED
    BY <1>1, <1>2, <1>3, <1>4

LEMMA DenialAsked ==
    ASSUME Books, Simple, pc = "ask", ~Redirectable, Searching
    PROVE  mover # NULL => \A p \in Partition : Hopeless(p, mover.vol)
  BY DenialHopeless DEF Searching

LEMMA ProposeSearch ==
    ASSUME Books, Solo, Simple, Searching, Propose
    PROVE  Searching'
  <1> DEFINE p == Chain[Found]
             r == Remaining(book[Me], p)
             k == Choice(p)
             v == r[k]
             s == book[Me].vols[p]
             x == FirstOf(SubSeq(r, k + 1, Len(r)))
             d == FirstDest(v)
  <1>1. /\ p \in Partition /\ Found \in 1..Len(Chain)
        /\ Overloaded(Me, p)
        /\ mover' = [vol |-> v, from |-> home[v], to |-> Chain[d]]
        /\ mover' \in Request /\ d \in 1..Len(Chain)
        /\ Kept
        /\ book'[Me].nextvol = [Pointers(Found - 1) EXCEPT ![p] = x]
    BY ProposeFacts
  <1>2. /\ pc = "ask" /\ ~Redirectable /\ Found # 0 /\ pc' = "judge"
        /\ UNCHANGED <<conf, avg, turn, load>>
    BY DEF Propose
  <1>3. Tried /\ Before /\ Denied
    BY <1>2 DEF Searching
  <1>4. mover # NULL => \A q \in Partition : Hopeless(q, mover.vol)
    BY <1>2, DenialAsked
  <1>5. Permutes(Chain, Partition) /\ Chain \in Seq(Partition) /\ conf \in Cells
        /\ mover \in {NULL} \cup Request
    BY ChainFacts DEF Books, TypeOK
  <1>6. /\ Choice(p) # 0
        /\ \A i \in Start..Found - 1 : Choice(Chain[i]) = 0
    BY <1>2, <1>5, FoundFacts
  <1>7. Me \in Active /\ Holds(book[Me], home) /\ NULL \notin Request
    BY BooksFacts, ConfFacts
  <1>8. /\ Pointers(Found - 1) \in [Partition -> Volume \cup {NULL}]
        /\ \A q \in Partition \ Exhausted(Found - 1) : Pointers(Found - 1)[q] = book[Me].nextvol[q]
    BY PointersFacts
  <1>9. /\ v \in ToSet(s)
        /\ \A w \in ToSet(s) \ Left(s, x) : Hopeless(p, w) \/ w = v
    BY <1>1, <1>3, <1>4, <1>6, ProposePassed
  <1>10. \A i \in 1..Found - 1 : Overloaded(Me, Chain[i]) =>
             \A w \in ToSet(book[Me].vols[Chain[i]]) : Hopeless(Chain[i], w)
    <2>1. Found - 1 \in Int /\ Found - 1 <= Len(Chain)
      BY <1>1
    <2> QED
      BY <1>3, <1>4, <1>6, <2>1, VainTo
  <1>11. \A i \in Start..Found - 1 : i \in 1..Found - 1
    <2>1. Start \in Nat \ {0}
      BY <1>5, StartFacts
    <2> QED
      BY <2>1
  <1>12. Me # "byweekuse"
    BY DEF Simple
  <1>13. \A i \in 1..Len(Chain) : i > d => ~Fits(Me, Chain[i], v, 2)
    BY <1>5, <1>12, FirstDestFacts
  <1>14. Position(p) = Found /\ Position(Chain[d]) = d
    BY <1>1, ChainFacts
  <1>15. \A q \in Exhausted(Found - 1) : Overloaded(Me, q) =>
             \A w \in ToSet(book[Me].vols[q]) : Hopeless(q, w)
    <2> TAKE q \in Exhausted(Found - 1)
    <2>1. PICK i \in Start..Found - 1 : q = Chain[i]
      BY DEF Exhausted
    <2> QED
      BY <1>10, <1>11, <2>1
  <1> HIDE DEF p, r, k, v, s, x, d
  <1>16. home[v] = p
    BY <1>1, <1>7, <1>9 DEF Holds, s
  <1>17. mover' # NULL /\ mover'.vol = v /\ mover'.from = p /\ mover'.to = Chain[d]
    BY <1>1, <1>7, <1>16
  <1>18. /\ \A q, w : Hopeless(q, w)' <=> Hopeless(q, w)
         /\ \A q : Overloaded(Me, q)' <=> Overloaded(Me, q)
         /\ \A q, w, j : Fits(Me, q, w, j)' <=> Fits(Me, q, w, j)
         /\ Me' = Me /\ conf' = conf
    BY <1>2, HopelessKept
  <1>19. book'[Me].vols = book[Me].vols /\ book'[Me].chain = book[Me].chain
    BY <1>1, <1>7 DEF Kept
  <1>20. \A q : Position(q)' = Position(q)
    BY <1>18, <1>19 DEF Position, Chain
  <1>21. \A q \in Partition : Overloaded(Me, q) =>
             \A w \in ToSet(book[Me].vols[q]) \ Left(book[Me].vols[q], book'[Me].nextvol[q]) :
                 Hopeless(q, w) \/ w = v
    <2> SUFFICES ASSUME NEW q \in Partition, Overloaded(Me, q),
                        NEW w \in ToSet(book[Me].vols[q]) \ Left(book[Me].vols[q], book'[Me].nextvol[q])
                 PROVE  Hopeless(q, w) \/ w = v
      OBVIOUS
    <2>1. CASE q = p
      <3>1. book'[Me].nextvol[q] = x
        BY <1>1, <1>8, <2>1
      <3> QED
        BY <1>9, <2>1, <3>1 DEF s
    <2>2. CASE q # p /\ q \in Exhausted(Found - 1)
      BY <1>15, <2>2
    <2>3. CASE q # p /\ q \notin Exhausted(Found - 1)
      <3>1. book'[Me].nextvol[q] = book[Me].nextvol[q]
        BY <1>1, <1>8, <2>3
      <3>2. w \in ToSet(book[Me].vols[q]) \ Left(book[Me].vols[q], book[Me].nextvol[q])
        BY <3>1
      <3>3. Hopeless(q, w) \/ (mover # NULL /\ w = mover.vol)
        BY <1>3, <3>2 DEF Tried
      <3> QED
        BY <1>4, <3>3
    <2> QED
      BY <2>1, <2>2, <2>3
  <1>22. Tried'
    <2>1. \A q \in Partition : Overloaded(Me, q)' =>
             \A w \in ToSet(book'[Me'].vols[q]) \ Left(book'[Me'].vols[q], book'[Me'].nextvol[q]) :
                 Hopeless(q, w)' \/ (mover' # NULL /\ w = mover'.vol)
      BY <1>17, <1>18, <1>19, <1>21
    <2>2. \A t, n : Left(t, n)' = Left(t, n)
      BY DEF Left, Behind
    <2> QED
      BY <2>1 DEF Tried, Left, Behind
  <1>23. Before'
    <2>1. \A q \in Partition : Position(q) < Position(p) /\ Overloaded(Me, q) =>
              \A w \in ToSet(book[Me].vols[q]) : Hopeless(q, w)
      <3> SUFFICES ASSUME NEW q \in Partition, Position(q) < Position(p), Overloaded(Me, q)
                   PROVE  \A w \in ToSet(book[Me].vols[q]) : Hopeless(q, w)
        OBVIOUS
      <3>1. Position(q) \in 1..Len(Chain) /\ Chain[Position(q)] = q
        BY ChainFacts
      <3>2. Position(q) \in 1..Found - 1
        BY <1>1, <1>14, <3>1
      <3> QED
        BY <1>10, <3>1, <3>2
    <2>2. Position(mover.from)' = Position(mover'.from)
      BY <1>18, <1>19 DEF Position, Chain
    <2>3. \A q \in Partition : Position(q)' < Position(mover.from)' /\ Overloaded(Me, q)' =>
              \A w \in ToSet(book'[Me'].vols[q]) : Hopeless(q, w)'
      BY <1>17, <1>18, <1>19, <1>20, <2>1, <2>2
    <2> QED
      BY <2>3 DEF Before
  <1>24. Denied'
    <2>1. \A q \in Partition : Position(q) > d => ~Fits(Me, q, v, 2)
      <3> SUFFICES ASSUME NEW q \in Partition, Position(q) > d PROVE ~Fits(Me, q, v, 2)
        OBVIOUS
      <3>1. Position(q) \in 1..Len(Chain) /\ Chain[Position(q)] = q
        BY ChainFacts
      <3> QED
        BY <1>13, <3>1
    <2>2. Position(mover.to)' = Position(mover'.to)
      BY <1>18, <1>19 DEF Position, Chain
    <2>3. Position(mover.to)' = d
      BY <1>14, <1>17, <2>2
    <2>4. \A q \in Partition : Position(q)' > Position(mover.to)' => ~Fits(Me, q, mover'.vol, 2)
      BY <1>17, <1>20, <2>1, <2>3
    <2>5. \A q \in Partition : Position(q)' > Position(mover.to)' => ~Fits(Me, q, mover.vol, 2)'
      <3>1. \A q : Fits(Me, q, mover.vol, 2)' <=> Fits(Me, q, mover'.vol, 2)
        BY <1>2, <1>18 DEF Fits, Scaled, Bound, Window, Margin, Weight, Cap
      <3> QED
        BY <2>4, <3>1
    <2> QED
      BY <1>2, <2>5 DEF Denied
  <1> QED
    BY <1>2, <1>22, <1>23, <1>24 DEF Searching

LEMMA GiveUpSearch ==
    ASSUME Books, Solo, Simple, Searching, GiveUp
    PROVE  Searching'
  <1>1. /\ pc = "ask" /\ ~Redirectable /\ Found = 0
        /\ UNCHANGED <<conf, avg, load>> /\ NextTurn(activity)
    BY DEF GiveUp
  <1>2. /\ conf \in Cells /\ turn \in 1..Len(conf.agents) /\ activity \in BOOLEAN
        /\ mover \in {NULL} \cup Request
    BY DEF Books, TypeOK
  <1>3. turn' = turn
    BY <1>1, <1>2, NextTurnFacts DEF Simple
  <1>4. NothingLeft
    <2>1. Permutes(Chain, Partition) /\ Len(Chain) \in Nat
      BY ChainFacts
    <2>2. \A i \in Start..Len(Chain) : Choice(Chain[i]) = 0
      BY <1>1, <1>2, <2>1, FoundFacts
    <2>3. mover # NULL => \A p \in Partition : Hopeless(p, mover.vol)
      BY <1>1, DenialAsked
    <2>4. Tried /\ Before
      BY <1>1 DEF Searching
    <2>5. \A i \in 1..Len(Chain) : Overloaded(Me, Chain[i]) =>
              \A v \in ToSet(book[Me].vols[Chain[i]]) : Hopeless(Chain[i], v)
      <3>1. Len(Chain) \in Int /\ Len(Chain) <= Len(Chain)
        BY <2>1
      <3> QED
        BY <2>2, <2>3, <2>4, <3>1, VainTo
    <2>6. \A q \in Partition : Position(q) \in 1..Len(Chain) /\ Chain[Position(q)] = q
      BY ChainFacts
    <2> QED
      BY <2>5, <2>6 DEF NothingLeft
  <1>5. mover' = NULL /\ book'[Me].vols = book[Me].vols
    BY GiveUpFacts, BooksFacts DEF Kept
  <1>6. /\ \A p, v : Hopeless(p, v)' <=> Hopeless(p, v)
        /\ \A p : Overloaded(Me, p)' <=> Overloaded(Me, p)
        /\ Me' = Me
    BY <1>1, <1>3, HopelessKept
  <1>7. \A p \in Partition : Overloaded(Me, p)' =>
            \A v \in ToSet(book'[Me'].vols[p]) : Hopeless(p, v)'
    BY <1>4, <1>5, <1>6 DEF NothingLeft
  <1>8. Tried' /\ Before' /\ Denied'
    BY <1>5, <1>7 DEF Tried, Before, Denied
  <1>9. NothingLeft'
    BY <1>7 DEF NothingLeft
  <1> QED
    BY <1>8, <1>9 DEF Searching

LEMMA SameSearch ==
    ASSUME UNCHANGED <<conf, avg, load, turn, book>>, Tried, Before,
           \/ mover' = mover
           \/ mover # NULL /\ mover' # NULL /\ mover'.vol = mover.vol /\ mover'.from = mover.from
    PROVE  Tried' /\ Before'
  <1>1. /\ \A p, v : Hopeless(p, v)' <=> Hopeless(p, v)
        /\ \A p : Overloaded(Me, p)' <=> Overloaded(Me, p)
        /\ Me' = Me
    BY HopelessKept
  <1>2. \A p \in Partition : Overloaded(Me, p)' =>
            \A v \in ToSet(book'[Me'].vols[p]) \ Left(book'[Me'].vols[p], book'[Me'].nextvol[p]) :
                Hopeless(p, v)' \/ (mover' # NULL /\ v = mover'.vol)
    BY <1>1 DEF Tried
  <1>3. Tried'
    BY <1>2 DEF Tried, Left, Behind
  <1>4. \A p : Position(p)' = Position(p)
    BY <1>1 DEF Position, Chain
  <1>5. mover' # NULL => Position(mover.from)' = Position(mover.from)
    <2>1. Position(mover.from)' = Position(mover'.from)
      BY <1>1 DEF Position, Chain
    <2> QED
      BY <2>1
  <1>6. mover' # NULL => \A p \in Partition :
            Position(p)' < Position(mover.from)' /\ Overloaded(Me, p)' =>
                \A v \in ToSet(book'[Me'].vols[p]) : Hopeless(p, v)'
    BY <1>1, <1>4, <1>5 DEF Before
  <1>7. Before'
    BY <1>6 DEF Before
  <1> QED
    BY <1>3, <1>7

LEMMA RedirectSearch ==
    ASSUME Books, Simple, Searching, Redirect
    PROVE  Searching'
  <1>1. mover # NULL /\ NextDest # 0 /\ pc = "ask" /\ pc' = "judge"
        /\ mover' = [mover EXCEPT !.to = Chain[NextDest]]
        /\ UNCHANGED <<conf, avg, load, turn, book>>
    BY DEF Redirect, Redirectable
  <1>2. mover \in Request /\ mover.to \in Partition
    BY <1>1, BooksFacts DEF Request
  <1>3. mover'.vol = mover.vol /\ mover'.from = mover.from /\ mover'.to = Chain[NextDest]
    BY <1>1, <1>2 DEF Request
  <1>4. NULL \notin Request /\ mover' \in Request
    <2>1. Permutes(Chain, Partition) /\ \A i \in 1..Len(Chain) : Chain[i] \in Partition
      BY ChainFacts
    <2>2. Chain[NextDest] \in Partition
      BY <1>1, <1>2, <2>1, NextDestFacts
    <2>3. NULL \notin Request
      BY ConfFacts DEF Books
    <2> QED
      BY <1>1, <1>2, <2>2, <2>3 DEF Request
  <1>5. Tried /\ Before /\ Denied
    BY <1>1 DEF Searching
  <1>6. Tried' /\ Before'
    <2>1. mover' # NULL
      BY <1>4
    <2> QED
      BY <1>1, <1>3, <1>5, <2>1, SameSearch
  <1>7. Permutes(Chain, Partition) /\ Me # "byweekuse"
    BY ChainFacts DEF Simple
  <1>8. /\ NextDest \in 1..Len(Chain)
        /\ \A i \in 1..Len(Chain) : i > NextDest /\ i < Position(mover.to) =>
               ~Fits(Me, Chain[i], mover.vol, 2)
    BY <1>1, <1>2, <1>7, NextDestFacts
  <1>9. Position(mover'.to) = NextDest
    BY <1>3, <1>8, ChainFacts
  <1>10. ASSUME NEW q \in Partition, Position(q) > NextDest
         PROVE  ~(Fits(Me, q, mover.vol, 2) /\ mover.vol \in conf.admits[q])
    <2>1. /\ Position(q) \in 1..Len(Chain) /\ Chain[Position(q)] = q
          /\ Position(mover.to) \in 1..Len(Chain) /\ Len(Chain) \in Nat
          /\ Position(q) = Position(mover.to) => q = mover.to
      BY <1>2, ChainFacts
    <2>2. CASE Position(q) < Position(mover.to)
      BY <1>8, <1>10, <2>1, <2>2
    <2>3. CASE Position(q) > Position(mover.to) \/ q = mover.to
      BY <1>1, <1>5, <2>3 DEF Denied
    <2>4. \/ Position(q) < Position(mover.to) \/ Position(q) > Position(mover.to)
          \/ Position(q) = Position(mover.to)
      BY <2>1
    <2> QED
      BY <2>1, <2>2, <2>3, <2>4
  <1>11. /\ \A q, w, j : Fits(Me, q, w, j)' <=> Fits(Me, q, w, j)
         /\ Me' = Me
    BY <1>1, HopelessKept
  <1>12. \A p : Position(p)' = Position(p)
    BY <1>1, <1>11 DEF Position, Chain
  <1>13. Position(mover.to)' = NextDest
    <2>1. Position(mover.to)' = Position(mover'.to)
      BY <1>1, <1>11 DEF Position, Chain
    <2> QED
      BY <1>9, <2>1
  <1>14. \A q : Fits(Me, q, mover.vol, 2)' <=> Fits(Me, q, mover'.vol, 2)
    BY <1>1, <1>11 DEF Fits, Scaled, Bound, Window, Margin, Weight, Cap
  <1>15. \A q \in Partition : Position(q)' > Position(mover.to)' =>
             ~(Fits(Me, q, mover.vol, 2)' /\ mover'.vol \in conf'.admits[q])
    BY <1>1, <1>3, <1>10, <1>12, <1>13, <1>14
  <1>16. Denied'
    BY <1>1, <1>15 DEF Denied
  <1> QED
    BY <1>1, <1>6, <1>16 DEF Searching

LEMMA RefuseSearch ==
    ASSUME Books, Simple, Searching, Refuse
    PROVE  Searching'
  <1>1. /\ pc = "judge" /\ pc' = "ask" /\ ~(Admitted /\ Consent) /\ mover' = mover
        /\ UNCHANGED <<conf, avg, load, turn, book>>
    BY DEF Refuse
  <1>2. Tried /\ Before /\ Denied
    BY <1>1 DEF Searching
  <1>3. Tried' /\ Before'
    BY <1>1, <1>2, SameSearch
  <1>4. Active = {Me}
    BY BooksFacts, MeFacts DEF Simple
  <1>5. mover.vol \notin conf.admits[mover.to]
    BY <1>1, <1>4 DEF Consent, Admitted
  <1>6. /\ \A q, w, j : Fits(Me, q, w, j)' <=> Fits(Me, q, w, j)
        /\ Me' = Me
    BY <1>1, HopelessKept
  <1>7. \A p : Position(p)' = Position(p)
    BY <1>1, <1>6 DEF Position, Chain
  <1>8. Position(mover.to)' = Position(mover.to)
    BY <1>1, <1>6 DEF Position, Chain
  <1>9. \A q : Fits(Me, q, mover.vol, 2)' <=> Fits(Me, q, mover.vol, 2)
    BY <1>1, <1>6 DEF Fits, Scaled, Bound, Window, Margin, Weight, Cap
  <1>10. mover' # NULL => \A q \in Partition :
             Position(q)' > Position(mover.to)' \/ q = mover'.to =>
                 ~(Fits(Me, q, mover.vol, 2)' /\ mover'.vol \in conf'.admits[q])
    BY <1>1, <1>2, <1>5, <1>7, <1>8, <1>9 DEF Denied
  <1>11. Denied'
    BY <1>10 DEF Denied
  <1> QED
    BY <1>1, <1>3, <1>11 DEF Searching

(* Taking a volume out of a list leaves the others behind the pointer.     *)
LEMMA LeftRemoval ==
    ASSUME NEW E, NEW s \in Seq(E), IsInjective(s), NEW x, NEW n, n # x,
           n = NULL \/ n \in ToSet(s),
           NEW w \in ToSet(s) \ {x}, w \in Left(s, n)
    PROVE  w \in Left(RemoveFirst(s, x), n)
  <1> DEFINE t == RemoveFirst(s, x)
             R == {e \in E \X E : At(s, e[1]) <= At(s, e[2])}
  <1>1. n # NULL /\ n \in ToSet(s) /\ At(s, n) <= At(s, w)
    BY DEF Left, Behind
  <1>2. t \in Seq(E) /\ IsInjective(t) /\ ToSet(t) = ToSet(s) \ {x}
    BY Removal
  <1>3. Permutes(s, ToSet(s))
    <2>1. s \in Seq(ToSet(s))
      <3>1. \A i \in 1..Len(s) : s[i] \in ToSet(s)
        BY ToSetFacts
      <3> QED
        BY <3>1
    <2> QED
      BY <2>1 DEF Permutes
  <1>4. /\ Len(s) \in Nat
        /\ \A y \in ToSet(s) : At(s, y) \in 1..Len(s) /\ s[At(s, y)] = y
        /\ \A i \in 1..Len(s) : s[i] \in ToSet(s) /\ At(s, s[i]) = i
        /\ \A y, z \in ToSet(s) : At(s, y) = At(s, z) => y = z
    BY <1>3, PermutesAt
  <1>5. ToSet(s) \subseteq E
    BY ToSetFacts
  <1>6. Ordered(s, R)
    <2> SUFFICES ASSUME NEW i \in 1..Len(s), NEW j \in 1..Len(s), i < j PROVE <<s[i], s[j]>> \in R
      BY DEF Ordered
    <2>1. s[i] \in E /\ s[j] \in E /\ At(s, s[i]) = i /\ At(s, s[j]) = j
      BY <1>4, <1>5
    <2>2. At(s, s[i]) <= At(s, s[j])
      BY <2>1
    <2> QED
      BY <2>1, <2>2
  <1>7. Ordered(t, R)
    BY <1>6, RemovalOrdered
  <1>8. Permutes(t, ToSet(t))
    <2>1. t \in Seq(ToSet(t))
      <3>1. \A i \in 1..Len(t) : t[i] \in ToSet(t)
        BY <1>2, ToSetFacts
      <3> QED
        BY <1>2, <3>1
    <2> QED
      BY <1>2, <2>1 DEF Permutes
  <1>9. n \in ToSet(t) /\ w \in ToSet(t)
    BY <1>1, <1>2
  <1>10. At(t, n) \in Int /\ At(t, w) \in Int
    BY <1>8, <1>9, PermutesAt
  <1> HIDE DEF t
  <1>11. ASSUME At(t, w) < At(t, n) PROVE FALSE
    <2>1. <<w, n>> \in R
      BY <1>7, <1>8, <1>9, <1>11, PermutesOrdered
    <2>2. At(s, w) <= At(s, n)
      BY <2>1
    <2>3. At(s, w) = At(s, n)
      BY <1>1, <1>4, <2>2
    <2>4. w = n
      BY <1>1, <1>4, <2>3
    <2> QED
      BY <1>10, <1>11, <2>4
  <1>12. At(t, n) <= At(t, w)
    BY <1>10, <1>11
  <1> QED
    BY <1>1, <1>9, <1>12 DEF Left, Behind, t

LEMMA DiscardSearch ==
    ASSUME Books, Asking, Solo, Simple, Searching, Reject, Discards
    PROVE  Searching'
  <1> DEFINE v == mover.vol
             p == home[v]
             b == book[Me]
             c == book'[Me]
  <1>1. /\ pc = "judge" /\ pc' = "ask" /\ mover' = NULL
        /\ UNCHANGED <<conf, avg, load, turn>>
    BY DEF Reject, Discards
  <1>2. mover \in Request /\ mover # NULL /\ Me \in Active
    BY <1>1, RejectCases, BooksFacts DEF Books, TypeOK
  <1>3. Tried
    BY <1>1 DEF Searching
  <1>4. /\ p \in Partition
        /\ \A q \in Partition : q # p => c.vols[q] = b.vols[q] /\ c.nextvol[q] = b.nextvol[q]
        /\ c.vols[p] = RemoveFirst(b.vols[p], v)
        /\ ToSet(c.vols[p]) = ToSet(b.vols[p]) \ {v}
        /\ c.nextvol[p] = IF b.nextvol[p] = v THEN Following(b, v) ELSE b.nextvol[p]
    BY <1>2, DiscardBook
  <1>5. b.nextvol[p] # v
    BY <1>2 DEF Solo, Asking
  <1>6. /\ Holds(b, home) /\ b \in Book
        /\ \A q \in Partition : b.nextvol[q] = NULL \/ b.nextvol[q] \in ToSet(b.vols[q])
    BY <1>2, BooksFacts DEF Solo, Pointing
  <1>7. \A q \in Partition : b.vols[q] \in Seq(Volume) /\ IsInjective(b.vols[q])
    BY <1>6, BookFacts DEF Holds
  <1>8. /\ \A q, w : Hopeless(q, w)' <=> Hopeless(q, w)
        /\ \A q : Overloaded(Me, q)' <=> Overloaded(Me, q)
        /\ Me' = Me
    BY <1>1, HopelessKept
  <1> HIDE DEF p, v
  <1>9. ASSUME NEW q \in Partition, Overloaded(Me, q),
               NEW w \in ToSet(c.vols[q]) \ Left(c.vols[q], c.nextvol[q])
        PROVE  Hopeless(q, w)
    <2>1. w \in ToSet(b.vols[q]) /\ w # v
      <3>1. CASE q = p
        BY <1>4, <1>9, <3>1
      <3>2. CASE q # p
        <4>1. w \in ToSet(b.vols[q])
          BY <1>4, <1>9, <3>2
        <4>2. home[w] = q
          BY <1>6, <4>1 DEF Holds
        <4> QED
          BY <3>2, <4>1, <4>2 DEF p
      <3> QED
        BY <3>1, <3>2
    <2>2. w \notin Left(b.vols[q], b.nextvol[q])
      <3>1. CASE q = p
        <4>1. c.nextvol[p] = b.nextvol[p]
          BY <1>4, <1>5
        <4>2. w \in Left(b.vols[p], b.nextvol[p]) =>
                  w \in Left(RemoveFirst(b.vols[p], v), b.nextvol[p])
          BY <1>4, <1>5, <1>6, <1>7, <2>1, <3>1, LeftRemoval
        <4> QED
          BY <1>4, <1>9, <3>1, <4>1, <4>2
      <3>2. CASE q # p
        BY <1>4, <1>9, <3>2
      <3> QED
        BY <3>1, <3>2
    <2> QED
      BY <1>3, <1>9, <2>1, <2>2 DEF Tried, v
  <1>10. \A q \in Partition : Overloaded(Me, q)' =>
            \A w \in ToSet(book'[Me'].vols[q]) \ Left(book'[Me'].vols[q], book'[Me'].nextvol[q]) :
                Hopeless(q, w)'
    BY <1>8, <1>9
  <1>11. Tried'
    BY <1>10 DEF Tried, Left, Behind
  <1>12. Before' /\ Denied'
    BY <1>1 DEF Before, Denied
  <1> QED
    BY <1>1, <1>11, <1>12 DEF Searching

(* After a move: the measures of the agent, and what they tell of before.  *)
Lower(a, p) == Cap(a)[p] * (100 * avg[a].space * avg[a].total - Margin(a))

LEMMA AcceptTurn ==
    ASSUME Books, Asking, Simple, Accept
    PROVE  /\ turn' = turn /\ Me' = Me /\ conf' = conf /\ avg' = avg /\ mover' = NULL
           /\ pc' = "done" => budget' = 0
  <1>1. conf' = conf /\ avg' = avg /\ mover' = NULL
    BY AcceptLoads, AcceptRest
  <1>2. /\ budget' = 0 => turn' = turn
        /\ budget' # 0 => NextTurn(TRUE)
    BY AcceptRest
  <1>3. conf \in Cells /\ turn \in 1..Len(conf.agents) /\ TRUE \in BOOLEAN
    BY DEF Books, TypeOK
  <1>4. budget' # 0 => turn' = turn /\ pc' = "ask"
    BY <1>2, <1>3, NextTurnFacts DEF Simple
  <1>5. turn' = turn
    BY <1>2, <1>4
  <1> QED
    BY <1>1, <1>4, <1>5 DEF Me

LEMMA AcceptMeasures ==
    ASSUME Books, Asking, Simple, Accept
    PROVE  /\ \A p : Overloaded(Me, p)' <=> Scaled(Me, load'[Me][p], 2) > Bound(Me, p, 2)
           /\ \A q, v : Fits(Me, q, v, 2)' <=>
                  Scaled(Me, load'[Me][q] + Weight(Me, v), 2) < Bound(Me, q, 2)
           /\ \A p, v : StaysAboveLower(Me, p, v)' <=>
                  (Me # "bynumber" =>
                      Scaled(Me, load'[Me][p] - Weight(Me, v), 1) > Lower(Me, p))
  <1>1. Me' = Me /\ conf' = conf /\ avg' = avg
    BY AcceptTurn
  <1>2. /\ \A a, v : Weight(a, v)' = Weight(a, v)
        /\ \A a, x, k : Scaled(a, x, k)' = Scaled(a, x, k) /\ Margin(a)' = Margin(a)
        /\ \A a, p, k : Bound(a, p, k)' = Bound(a, p, k)
        /\ \A a : Cap(a)' = Cap(a)
    BY <1>1, SameCell
  <1>3. \A a, p : Overloaded(a, p)' <=> Scaled(a, load'[a][p], 2) > Bound(a, p, 2)
    BY <1>2 DEF Overloaded
  <1>4. \A a, q, v : Fits(a, q, v, 2)' <=>
            Scaled(a, load'[a][q] + Weight(a, v), 2) < Bound(a, q, 2)
    BY <1>2 DEF Fits
  <1>5. \A a, p, v : StaysAboveLower(a, p, v)' <=>
            (a # "bynumber" => Scaled(a, load'[a][p] - Weight(a, v), 1) > Lower(a, p))
    BY <1>1, <1>2 DEF StaysAboveLower, Lower
  <1>6. \A p : Overloaded(Me, p)' <=> Scaled(Me, load'[Me][p], 2) > Bound(Me, p, 2)
    BY <1>1, <1>3
  <1>7. \A q, v : Fits(Me, q, v, 2)' <=>
            Scaled(Me, load'[Me][q] + Weight(Me, v), 2) < Bound(Me, q, 2)
    BY <1>1, <1>4
  <1>8. \A p, v : StaysAboveLower(Me, p, v)' <=>
            (Me # "bynumber" => Scaled(Me, load'[Me][p] - Weight(Me, v), 1) > Lower(Me, p))
    BY <1>1, <1>5
  <1> QED
    BY <1>6, <1>7, <1>8

(* A move that leaves the source at or above the move bound gives no other *)
(* volume a place to go.                                                   *)
LEMMA AcceptFits ==
    ASSUME Books, Asking, Simple, Accept, ~Reopens(Me, load'[Me], mover.from),
           NEW q \in Partition, NEW v \in Volume, Fits(Me, q, v, 2)'
    PROVE  Fits(Me, q, v, 2)
  <1>1. /\ conf \in Cells /\ Me \in Active /\ Me \in Agent /\ avg = [b \in Active |-> Average(b)]
        /\ load[Me] \in [Partition -> Nat] /\ load'[Me] \in [Partition -> Nat]
        /\ mover.from \in Partition
    BY BooksFacts, AcceptLoads
  <1>2. Weight(Me, v) \in Nat
    BY <1>1, GainFacts
  <1>3. /\ \A x \in Int : Scaled(Me, x, 2) \in Int
        /\ \A x, y \in Int : x <= y => Scaled(Me, x, 2) <= Scaled(Me, y, 2)
    BY <1>1, ScaledFacts
  <1>4. \A p \in Partition : Bound(Me, p, 2) \in Int
    BY <1>1, AverageFacts
  <1>5. Scaled(Me, load'[Me][q] + Weight(Me, v), 2) < Bound(Me, q, 2)
    BY AcceptMeasures
  <1>6. ~(Scaled(Me, load'[Me][mover.from], 2) < Bound(Me, mover.from, 2))
    BY DEF Reopens, Simple
  <1>7. q # mover.from
    <2> SUFFICES ASSUME q = mover.from PROVE FALSE
      OBVIOUS
    <2>1. load'[Me][q] \in Int /\ load'[Me][q] + Weight(Me, v) \in Int
          /\ load'[Me][q] <= load'[Me][q] + Weight(Me, v)
      BY <1>1, <1>2
    <2>2. Scaled(Me, load'[Me][q], 2) <= Scaled(Me, load'[Me][q] + Weight(Me, v), 2)
      BY <1>3, <2>1
    <2>3. /\ Scaled(Me, load'[Me][q], 2) \in Int /\ Bound(Me, q, 2) \in Int
          /\ Scaled(Me, load'[Me][q] + Weight(Me, v), 2) \in Int
      BY <1>3, <1>4, <2>1
    <2> QED
      BY <1>5, <1>6, <2>2, <2>3
  <1>8. load[Me][q] <= load'[Me][q]
    <2>1. ~(load'[Me][q] < load[Me][q])
      BY <1>1, <1>7, LoadsGrow DEF Simple
    <2> QED
      BY <1>1, <2>1
  <1>9. /\ load[Me][q] + Weight(Me, v) \in Int /\ load'[Me][q] + Weight(Me, v) \in Int
        /\ load[Me][q] + Weight(Me, v) <= load'[Me][q] + Weight(Me, v)
    BY <1>1, <1>2, <1>8
  <1>10. Scaled(Me, load[Me][q] + Weight(Me, v), 2) <= Scaled(Me, load'[Me][q] + Weight(Me, v), 2)
    BY <1>3, <1>9
  <1>11. /\ Scaled(Me, load[Me][q] + Weight(Me, v), 2) \in Int /\ Bound(Me, q, 2) \in Int
         /\ Scaled(Me, load'[Me][q] + Weight(Me, v), 2) \in Int
    BY <1>3, <1>4, <1>9
  <1> QED
    BY <1>5, <1>10, <1>11 DEF Fits

(* A partition that is overloaded after a move was so before, and is not   *)
(* the one that got the volume.                                            *)
LEMMA AcceptOver ==
    ASSUME Books, Asking, Simple, Accept, NEW p \in Partition, Overloaded(Me, p)'
    PROVE  Overloaded(Me, p) /\ p # mover.to /\ load'[Me][p] <= load[Me][p]
  <1>1. /\ conf \in Cells /\ Me \in Active /\ Me \in Agent /\ avg = [b \in Active |-> Average(b)]
        /\ load[Me] \in [Partition -> Nat] /\ load'[Me] \in [Partition -> Nat]
        /\ mover.vol \in Volume
    BY BooksFacts, AcceptLoads
  <1>2. Gain(Me, mover.vol) = Weight(Me, mover.vol) /\ Gain(Me, mover.vol) \in Nat
    BY <1>1, GainFacts DEF Simple
  <1>3. /\ \A x \in Int : Scaled(Me, x, 2) \in Int
        /\ \A x, y \in Int : x <= y => Scaled(Me, x, 2) <= Scaled(Me, y, 2)
    BY <1>1, ScaledFacts
  <1>4. Bound(Me, p, 2) \in Int
    BY <1>1, AverageFacts
  <1>5. Scaled(Me, load'[Me][p], 2) > Bound(Me, p, 2)
    BY AcceptMeasures
  <1>6. p # mover.to
    <2> SUFFICES ASSUME p = mover.to PROVE FALSE
      OBVIOUS
    <2>1. mover # NULL
      BY AcceptLoads, ConfFacts DEF Books
    <2>2. Scaled(Me, load[Me][p] + Weight(Me, mover.vol), 2) < Bound(Me, p, 2)
      BY <2>1 DEF Asking, Fits
    <2>3. load'[Me][p] = load[Me][p] + Weight(Me, mover.vol)
      <3>1. Change(Me, mover.vol) = Gain(Me, mover.vol) /\ Me # "byoverdraft"
        BY <1>1, ChangeFacts DEF Simple
      <3> QED
        BY <1>1, <1>2, <3>1, AcceptLoads DEF Counter
    <2>4. Scaled(Me, load'[Me][p], 2) < Bound(Me, p, 2)
      BY <2>2, <2>3
    <2>5. load'[Me][p] \in Int
      BY <1>1
    <2>6. Scaled(Me, load'[Me][p], 2) \in Int
      BY <1>3, <2>5
    <2> QED
      BY <1>4, <1>5, <2>4, <2>6
  <1>7. load'[Me][p] <= load[Me][p]
    <2>1. ~(load'[Me][p] > load[Me][p])
      BY <1>1, <1>6, LoadsGrow DEF Simple
    <2> QED
      BY <1>1, <2>1
  <1>8. load'[Me][p] \in Int /\ load[Me][p] \in Int
    BY <1>1
  <1>9. /\ Scaled(Me, load'[Me][p], 2) \in Int /\ Scaled(Me, load[Me][p], 2) \in Int
        /\ Scaled(Me, load'[Me][p], 2) <= Scaled(Me, load[Me][p], 2)
    BY <1>3, <1>7, <1>8
  <1>10. Scaled(Me, load[Me][p], 2) > Bound(Me, p, 2)
    BY <1>4, <1>5, <1>9
  <1> QED
    BY <1>6, <1>7, <1>10 DEF Overloaded

LEMMA AcceptLower ==
    ASSUME Books, Asking, Simple, Accept, NEW p \in Partition, NEW v \in Volume,
           load'[Me][p] <= load[Me][p], StaysAboveLower(Me, p, v)'
    PROVE  StaysAboveLower(Me, p, v)
  <1>1. /\ conf \in Cells /\ Me \in Active /\ Me \in Agent /\ avg = [b \in Active |-> Average(b)]
        /\ load[Me] \in [Partition -> Nat] /\ load'[Me] \in [Partition -> Nat]
    BY BooksFacts, AcceptLoads
  <1>2. Weight(Me, v) \in Nat
    BY <1>1, GainFacts
  <1>3. /\ \A x \in Int : Scaled(Me, x, 1) \in Int
        /\ \A x, y \in Int : x <= y => Scaled(Me, x, 1) <= Scaled(Me, y, 1)
    BY <1>1, ScaledFacts
  <1>4. Lower(Me, p) \in Int
    <2>1. Cap(Me)[p] \in Nat
      BY <1>1, CapFacts
    <2>2. avg[Me].total \in Nat /\ avg[Me].space \in Nat /\ Margin(Me) \in Int
      BY <1>1, AverageFacts
    <2> QED
      BY <2>1, <2>2 DEF Lower
  <1>5. Me # "bynumber" => Scaled(Me, load'[Me][p] - Weight(Me, v), 1) > Lower(Me, p)
    BY AcceptMeasures
  <1>6. /\ load[Me][p] - Weight(Me, v) \in Int /\ load'[Me][p] - Weight(Me, v) \in Int
        /\ load'[Me][p] - Weight(Me, v) <= load[Me][p] - Weight(Me, v)
    BY <1>1, <1>2
  <1>7. /\ Scaled(Me, load'[Me][p] - Weight(Me, v), 1) <= Scaled(Me, load[Me][p] - Weight(Me, v), 1)
        /\ Scaled(Me, load'[Me][p] - Weight(Me, v), 1) \in Int
        /\ Scaled(Me, load[Me][p] - Weight(Me, v), 1) \in Int
    BY <1>3, <1>6
  <1>8. Me # "bynumber" => Scaled(Me, load[Me][p] - Weight(Me, v), 1) > Lower(Me, p)
    BY <1>4, <1>5, <1>7
  <1> QED
    BY <1>8 DEF StaysAboveLower, Lower

LEMMA HopelessLess ==
    ASSUME Books, Asking, Simple, Accept, ~Reopens(Me, load'[Me], mover.from),
           NEW p \in Partition, load'[Me][p] <= load[Me][p], NEW v \in Volume, Hopeless(p, v)
    PROVE  Hopeless(p, v)'
  <1>1. Me' = Me /\ conf' = conf
    BY AcceptTurn
  <1>2. ASSUME NEW q \in Partition
        PROVE  ~(StaysAboveLower(Me, p, v)' /\ Fits(Me, q, v, 2)' /\ v \in conf'.admits[q])
    BY <1>1, AcceptFits, AcceptLower DEF Hopeless
  <1>3. \A q \in Partition :
            ~(StaysAboveLower(Me, p, v)' /\ Fits(Me, q, v, 2)' /\ v \in conf'.admits[q])
    BY <1>2
  <1> QED
    BY <1>3 DEF Hopeless

(* A list behind its first volume is the whole list.                       *)
LEMMA LeftAll ==
    ASSUME NEW E, NEW s \in Seq(E), IsInjective(s), NULL \notin E
    PROVE  ToSet(s) \subseteq Left(s, FirstOf(s))
  <1> SUFFICES ASSUME NEW w \in ToSet(s) PROVE w \in Left(s, FirstOf(s))
    OBVIOUS
  <1>1. At(s, w) \in 1..Len(s) /\ s[At(s, w)] = w
    BY AtFacts
  <1>2. s # <<>> /\ Len(s) \in Nat
    BY <1>1, EmptySeq
  <1>3. FirstOf(s) = s[1] /\ FirstOf(s) \in ToSet(s)
    BY <1>2, FirstOfFacts
  <1>4. FirstOf(s) # NULL
    <2>1. ToSet(s) \subseteq E
      BY ToSetFacts
    <2> QED
      BY <1>3, <2>1
  <1>5. At(s, FirstOf(s)) \in 1..Len(s) /\ s[At(s, FirstOf(s))] = FirstOf(s)
    BY <1>3, AtFacts
  <1>6. 1 \in 1..Len(s)
    BY <1>1, <1>2
  <1>7. At(s, FirstOf(s)) = 1
    BY <1>3, <1>5, <1>6 DEF IsInjective
  <1>8. At(s, FirstOf(s)) <= At(s, w)
    BY <1>1, <1>2, <1>7
  <1> QED
    BY <1>4, <1>8 DEF Left, Behind

LEMMA AcceptTried ==
    ASSUME Books, Asking, Solo, Simple, Searching, Accept,
           NEW p \in Partition, Overloaded(Me, p)',
           NEW w \in ToSet(book'[Me].vols[p]) \ Left(book'[Me].vols[p], book'[Me].nextvol[p])
    PROVE  Hopeless(p, w)'
  <1> DEFINE b == book[Me]
             c == book'[Me]
             m == mover
  <1>1. Me \in Active /\ m # NULL /\ m.from # m.to /\ m.from \in Partition
    BY AcceptLoads, BooksFacts, ConfFacts
  <1>2. /\ c \in Book /\ Holds(c, home')
        /\ \A x \in Partition \ {m.from, m.to} : c.vols[x] = b.vols[x]
        /\ c.vols[m.from] = RemoveFirst(b.vols[m.from], m.vol)
        /\ ToSet(c.vols[m.from]) = ToSet(b.vols[m.from]) \ {m.vol}
        /\ \A x \in Partition \ {m.to} : c.nextvol[x] =
              IF Reopens(Me, load'[Me], m.from) THEN FirstOf(c.vols[x]) ELSE b.nextvol[x]
    BY <1>1, AcceptBook
  <1>3. Tried /\ b.nextvol[m.from] # m.vol
    BY <1>1, AcceptRest DEF Searching, Solo
  <1>4. /\ Holds(b, home) /\ b \in Book
        /\ b.nextvol[p] = NULL \/ b.nextvol[p] \in ToSet(b.vols[p])
    BY <1>1, BooksFacts DEF Solo, Pointing
  <1>5. Overloaded(Me, p) /\ p # m.to /\ load'[Me][p] <= load[Me][p]
    BY AcceptOver
  <1>6. /\ b.vols[p] \in Seq(Volume) /\ IsInjective(b.vols[p])
        /\ c.vols[p] \in Seq(Volume) /\ IsInjective(c.vols[p])
    BY <1>2, <1>4, BookFacts DEF Holds
  <1>7. NULL \notin Volume
    BY ConfFacts DEF Books
  <1>8. c.nextvol[p] = IF Reopens(Me, load'[Me], m.from) THEN FirstOf(c.vols[p]) ELSE b.nextvol[p]
    BY <1>2, <1>5
  <1>9. ~Reopens(Me, load'[Me], m.from)
    <2> SUFFICES ASSUME Reopens(Me, load'[Me], m.from) PROVE FALSE
      OBVIOUS
    <2>1. c.nextvol[p] = FirstOf(c.vols[p])
      BY <1>8
    <2>2. ToSet(c.vols[p]) \subseteq Left(c.vols[p], FirstOf(c.vols[p]))
      BY <1>6, <1>7, LeftAll
    <2> QED
      BY <2>1, <2>2
  <1>10. c.nextvol[p] = b.nextvol[p]
    BY <1>8, <1>9
  <1>11. w \in ToSet(b.vols[p]) /\ w # m.vol
    <2>1. CASE p = m.from
      BY <1>2, <2>1
    <2>2. CASE p # m.from
      <3>1. w \in ToSet(b.vols[p])
        BY <1>2, <1>5, <2>2
      <3>2. home[w] = p
        BY <1>4, <3>1 DEF Holds
      <3>3. home[m.vol] = m.from
        BY AcceptLoads
      <3> QED
        BY <2>2, <3>1, <3>2, <3>3
    <2> QED
      BY <2>1, <2>2
  <1>12. w \notin Left(b.vols[p], b.nextvol[p])
    <2>1. CASE p = m.from
      <3>1. w \in Left(b.vols[p], b.nextvol[p]) =>
                w \in Left(RemoveFirst(b.vols[p], m.vol), b.nextvol[p])
        BY <1>3, <1>4, <1>6, <1>11, <2>1, LeftRemoval
      <3> QED
        BY <1>2, <1>10, <2>1, <3>1
    <2>2. CASE p # m.from
      BY <1>2, <1>5, <1>10, <2>2
    <2> QED
      BY <2>1, <2>2
  <1>13. Hopeless(p, w)
    BY <1>3, <1>5, <1>11, <1>12 DEF Tried
  <1>14. w \in Volume
    BY <1>6, <1>11, ToSetFacts
  <1> QED
    BY <1>5, <1>9, <1>13, <1>14, HopelessLess

LEMMA AcceptSearch ==
    ASSUME Books, Asking, Solo, Simple, Searching, Accept
    PROVE  Searching'
  <1>1. /\ Me' = Me /\ mover' = NULL
        /\ pc' = "done" => budget' = 0
    BY AcceptTurn
  <1>2. \A p \in Partition : Overloaded(Me, p)' =>
            \A w \in ToSet(book'[Me'].vols[p]) \ Left(book'[Me'].vols[p], book'[Me'].nextvol[p]) :
                Hopeless(p, w)'
    BY <1>1, AcceptTried
  <1>3. Tried'
    BY <1>2 DEF Tried, Left, Behind
  <1>4. Before' /\ Denied'
    BY <1>1 DEF Before, Denied
  <1> QED
    BY <1>1, <1>3, <1>4 DEF Searching

LEMMA StillSearch ==
    ASSUME Searching, UNCHANGED vars
    PROVE  Searching'
  <1>1. UNCHANGED <<conf, avg, load, turn, book, pc, mover, budget>>
    BY DEF vars
  <1>2. /\ \A p, v : Hopeless(p, v)' <=> Hopeless(p, v)
        /\ \A p : Overloaded(Me, p)' <=> Overloaded(Me, p)
        /\ \A q, v, k : Fits(Me, q, v, k)' <=> Fits(Me, q, v, k)
        /\ Me' = Me
    BY <1>1, HopelessKept
  <1>3. Tried /\ Before => Tried' /\ Before'
    BY <1>1, SameSearch
  <1>4. Denied => Denied'
    <2> SUFFICES ASSUME Denied PROVE Denied'
      OBVIOUS
    <2>1. \A p : Position(p)' = Position(p)
      BY <1>1, <1>2 DEF Position, Chain
    <2>2. Position(mover.to)' = Position(mover.to)
      BY <1>1, <1>2 DEF Position, Chain
    <2>3. \A q : Fits(Me, q, mover.vol, 2)' <=> Fits(Me, q, mover.vol, 2)
      BY <1>1, <1>2 DEF Fits, Scaled, Bound, Window, Margin, Weight, Cap
    <2>4. mover' # NULL => \A q \in Partition :
              Position(q)' > Position(mover.to)' \/ (pc' = "ask" /\ q = mover'.to) =>
                  ~(Fits(Me, q, mover.vol, 2)' /\ mover'.vol \in conf'.admits[q])
      BY <1>1, <2>1, <2>2, <2>3 DEF Denied
    <2> QED
      BY <2>4 DEF Denied
  <1>5. NothingLeft => NothingLeft'
    <2> SUFFICES ASSUME NothingLeft PROVE NothingLeft'
      OBVIOUS
    <2>1. \A p \in Partition : Overloaded(Me, p)' =>
              \A v \in ToSet(book'[Me'].vols[p]) : Hopeless(p, v)'
      BY <1>1, <1>2 DEF NothingLeft
    <2> QED
      BY <2>1 DEF NothingLeft
  <1> QED
    BY <1>1, <1>3, <1>4, <1>5 DEF Searching

LEMMA NextSearch ==
    ASSUME Books, Asking, Solo, Simple, Searching, [Next]_vars
    PROVE  Searching'
  <1>1. CASE Redirect
    BY <1>1, RedirectSearch
  <1>2. CASE Propose
    BY <1>2, ProposeSearch
  <1>3. CASE GiveUp
    BY <1>3, GiveUpSearch
  <1>4. CASE Refuse
    BY <1>4, RefuseSearch
  <1>5. CASE Reject
    <2>1. CASE Discards
      BY <1>5, <2>1, DiscardSearch
    <2>2. CASE pc' = "crash"
      BY <2>2 DEF Searching
    <2> QED
      BY <1>5, <2>1, <2>2, RejectCases
  <1>6. CASE Accept
    BY <1>6, AcceptSearch
  <1>7. CASE Panic
    <2>1. pc' = "panic"
      BY <1>7 DEF Panic
    <2> QED
      BY <2>1 DEF Searching
  <1>8. CASE UNCHANGED vars
    BY <1>8, StillSearch
  <1> QED
    BY <1>1, <1>2, <1>3, <1>4, <1>5, <1>6, <1>7, <1>8 DEF Next

LEMMA InitSearch == Init => Searching
  <1> SUFFICES ASSUME Init PROVE Searching
    OBVIOUS
  <1>1. mover = NULL /\ pc = "ask"
    BY DEF Init
  <1>2. Books
    BY InitBooks
  <1>3. Me \in Active /\ conf \in Cells /\ book[Me] \in Book /\ Holds(book[Me], home) /\ Me \in Agent
    BY <1>2, BooksFacts
  <1>4. book[Me].nextvol = [q \in Partition |-> FirstOf(book[Me].vols[q])]
    <2>1. book = [a \in Active |-> Opening(a, load[a])]
      BY DEF Init
    <2>2. book[Me] = Opening(Me, load[Me])
      BY <1>3, <2>1
    <2> QED
      BY <1>3, <2>2, OpeningVols
  <1>5. Tried
    <2> SUFFICES ASSUME NEW p \in Partition
                 PROVE  ToSet(book[Me].vols[p]) \subseteq Left(book[Me].vols[p], book[Me].nextvol[p])
      BY DEF Tried
    <2>1. book[Me].nextvol[p] = FirstOf(book[Me].vols[p])
      BY <1>4
    <2>2. book[Me].vols[p] \in Seq(Volume) /\ IsInjective(book[Me].vols[p])
      BY <1>3, BookFacts DEF Holds
    <2>3. NULL \notin Volume
      BY <1>3, ConfFacts
    <2> QED
      BY <2>1, <2>2, <2>3, LeftAll
  <1> QED
    BY <1>1, <1>5 DEF Searching, Before, Denied

LEMMA SoloTurn ==
    ASSUME Books, Books', [Next]_vars, Len(conf.agents) = 1
    PROVE  conf' = conf /\ Me' = Me
  <1>1. conf' = conf
    BY DEF Next, Redirect, Propose, GiveUp, Refuse, Reject, Accept, Panic, vars
  <1>2. turn \in 1..Len(conf.agents) /\ turn' \in 1..Len(conf'.agents)
    BY DEF Books, TypeOK
  <1>3. Len(conf'.agents) = 1
    BY <1>1
  <1>4. turn = 1 /\ turn' = 1
    <2>1. turn \in 1..1 /\ turn' \in 1..1
      BY ONLY Len(conf.agents) = 1, <1>2, <1>3
    <2> QED
      BY ONLY <2>1
  <1> QED
    BY <1>1, <1>4 DEF Me

(* When bysize or bynumber comes to its end alone and within -t, no volume *)
(* left in its lists, on any overloaded partition, has a partition to go   *)
(* to: neither the pointers that are passed on, nor the destinations that  *)
(* are skipped once they were denied, lose a move.                         *)
THEOREM SearchCorrect == Spec => []SearchComplete
  <1> DEFINE Inv == /\ Len(conf.agents) = 1 => Solo
                    /\ Simple => Searching
  <1>1. Init => Inv
    BY OpeningPointers, InitSearch DEF Solo
  <1>2. Books /\ Asking /\ Books' /\ Inv /\ [Next]_vars => Inv'
    <2> SUFFICES ASSUME Books, Asking, Books', Inv, [Next]_vars PROVE Inv'
      OBVIOUS
    <2>1. conf' = conf
      BY DEF Next, Redirect, Propose, GiveUp, Refuse, Reject, Accept, Panic, vars
    <2>2. Len(conf.agents) = 1 => Solo'
      BY NextSolo
    <2>3. Simple' => Simple
      BY <2>1, SoloTurn DEF Simple
    <2>4. Simple => Searching'
      BY NextSearch DEF Simple
    <2> QED
      BY <2>1, <2>2, <2>3, <2>4
  <1>3. Books /\ Inv => SearchComplete
    <2> SUFFICES ASSUME Books, Inv, pc = "done", budget # 0, Len(conf.agents) = 1,
                        Active \subseteq {"bysize", "bynumber"},
                        NEW a \in Active, NEW p \in Partition, Overloaded(a, p),
                        NEW v \in ToSet(book[a].vols[p]), NEW q \in Partition
                 PROVE  ~(StaysAboveLower(a, p, v) /\ Fits(a, q, v, 2) /\ v \in conf.admits[q])
      BY DEF SearchComplete, CompleteFor
    <2>1. a = Me /\ Simple
      BY BooksFacts, MeFacts DEF Simple
    <2>2. NothingLeft
      BY <2>1 DEF Searching
    <2>3. Hopeless(p, v)
      BY <2>1, <2>2 DEF NothingLeft
    <2> QED
      BY <2>1, <2>3 DEF Hopeless
  <1> HIDE DEF Inv
  <1> QED
    BY <1>1, <1>2, <1>3, AlwaysBooks, PTL DEF Spec
=============================================================================
