--------------------------- MODULE PackageProofs ---------------------------
(***************************************************************************)
(* Theorems about Package.tla: files are never torn, the line with the     *)
(* letter W decides, a run changes only what is its own, its exit status   *)
(* tells what was replaced, and one run without a failing call leaves the  *)
(* disk as the configuration has it.                                       *)
(*                                                                         *)
(* The first four rest on Inv, which says of each place in the program     *)
(* what the disk and the variables are; the others also on Walk, which     *)
(* says what the walks have still to visit, and on what a visit leaves.    *)
(***************************************************************************)
EXTENDS Package, SequenceTheorems, FiniteSetTheorems, TLAPS

-----------------------------------------------------------------------------
(* Paths.                                                                  *)

LEMMA PrefixFacts ==
    ASSUME NEW S, NEW p \in Seq(S), NEW k \in 0..Len(p)
    PROVE  /\ SubSeq(p, 1, k) \in Seq(S) /\ Len(SubSeq(p, 1, k)) = k
           /\ \A i \in 1..k : SubSeq(p, 1, k)[i] = p[i]
  <1>1. Len(p) \in Nat /\ \A i \in 1..k : p[i] \in S
    BY LenProperties, ElementOfSeq
  <1>2. k \in Int /\ 1 \in Int /\ (k - 1) + 1 = k /\ \A i \in 1..k : (1 + i) - 1 = i
    BY <1>1
  <1>3. /\ SubSeq(p, 1, k) \in Seq(S)
        /\ Len(SubSeq(p, 1, k)) = IF 1 <= k THEN (k - 1) + 1 ELSE 0
        /\ \A i \in 1..(k - 1) + 1 : SubSeq(p, 1, k)[i] = p[(1 + i) - 1]
    BY <1>1, <1>2, SubSeqProperties
  <1>4. ~(1 <= k) => k = 0
    BY <1>1
  <1> QED
    BY <1>2, <1>3, <1>4

(* What is above a path are the paths it goes on.                          *)
LEMMA AboveIff ==
    ASSUME NEW S, NEW p \in Seq(S), NEW q
    PROVE  q \in Above(p) <=> /\ q \in Seq(S) /\ Len(q) < Len(p)
                              /\ \A i \in 1..Len(q) : q[i] = p[i]
  <1>1. Len(p) \in Nat
    BY LenProperties
  <1>2. ASSUME q \in Above(p)
        PROVE  q \in Seq(S) /\ Len(q) < Len(p) /\ \A i \in 1..Len(q) : q[i] = p[i]
    <2>1. PICK k \in 0..Len(p) - 1 : q = SubSeq(p, 1, k)
      BY <1>2 DEF Above
    <2> QED
      BY <1>1, <2>1, PrefixFacts
  <1>3. ASSUME q \in Seq(S), Len(q) < Len(p), \A i \in 1..Len(q) : q[i] = p[i]
        PROVE  q \in Above(p)
    <2> DEFINE k == Len(q)
    <2>1. k \in 0..Len(p) - 1 /\ k \in 0..Len(p)
      BY <1>1, <1>3, LenProperties
    <2>2. SubSeq(p, 1, k) \in Seq(S) /\ Len(SubSeq(p, 1, k)) = k /\ \A i \in 1..k : SubSeq(p, 1, k)[i] = p[i]
      BY <2>1, PrefixFacts
    <2>3. q = SubSeq(p, 1, k)
      BY <1>3, <2>2, SeqEqual
    <2> QED
      BY <2>1, <2>3 DEF Above
  <1> QED
    BY <1>2, <1>3

LEMMA AboveOrder ==
    ASSUME NEW S, NEW p \in Seq(S)
    PROVE  /\ p \notin Above(p)
           /\ \A q \in Above(p) : q \in Seq(S) /\ Above(q) \subseteq Above(p) /\ p \notin Above(q)
           /\ \A q, r \in Above(p) : q = r \/ q \in Above(r) \/ r \in Above(q)
  <1>1. Len(p) \in Nat
    BY LenProperties
  <1>2. p \notin Above(p)
    BY <1>1, AboveIff
  <1>3. ASSUME NEW q \in Above(p)
        PROVE  q \in Seq(S) /\ Above(q) \subseteq Above(p) /\ p \notin Above(q)
    <2>1. q \in Seq(S) /\ Len(q) < Len(p) /\ \A i \in 1..Len(q) : q[i] = p[i]
      BY <1>3, AboveIff
    <2>2. Len(q) \in Nat
      BY <2>1, LenProperties
    <2>3. ASSUME NEW r \in Above(q)
          PROVE  r \in Above(p)
      <3>1. r \in Seq(S) /\ Len(r) < Len(q) /\ \A i \in 1..Len(r) : r[i] = q[i]
        BY <2>1, <2>3, AboveIff
      <3>2. Len(r) \in Nat
        BY <3>1, LenProperties
      <3>3. Len(r) < Len(p) /\ \A i \in 1..Len(r) : r[i] = p[i]
        BY <1>1, <2>1, <2>2, <3>1, <3>2
      <3> QED
        BY <3>1, <3>3, AboveIff
    <2>4. p \notin Above(q)
      BY <2>3, <1>2
    <2> QED
      BY <2>1, <2>3, <2>4
  <1>4. ASSUME NEW q \in Above(p), NEW r \in Above(p)
        PROVE  q = r \/ q \in Above(r) \/ r \in Above(q)
    <2>1. /\ q \in Seq(S) /\ Len(q) < Len(p) /\ \A i \in 1..Len(q) : q[i] = p[i]
          /\ r \in Seq(S) /\ Len(r) < Len(p) /\ \A i \in 1..Len(r) : r[i] = p[i]
      BY <1>4, AboveIff
    <2>2. Len(q) \in Nat /\ Len(r) \in Nat
      BY <2>1, LenProperties
    <2>3. CASE Len(q) < Len(r)
      <3>1. \A i \in 1..Len(q) : q[i] = r[i]
        BY <2>1, <2>2, <2>3
      <3> QED
        BY <2>1, <2>3, <3>1, AboveIff
    <2>4. CASE Len(r) < Len(q)
      <3>1. \A i \in 1..Len(r) : r[i] = q[i]
        BY <2>1, <2>2, <2>4
      <3> QED
        BY <2>1, <2>4, <3>1, AboveIff
    <2>5. CASE Len(q) = Len(r)
      <3>1. \A i \in 1..Len(q) : q[i] = r[i]
        BY <2>1, <2>5
      <3> QED
        BY <2>1, <2>5, <3>1, SeqEqual
    <2> QED
      BY <2>2, <2>3, <2>4, <2>5
  <1> QED
    BY <1>2, <1>3, <1>4

LEMMA FrontFacts ==
    ASSUME NEW S, NEW p \in Seq(S), p # <<>>
    PROVE  /\ Front(p) \in Seq(S) /\ Front(p) # p /\ Last(p) \in S
           /\ Above(p) = Above(Front(p)) \cup {Front(p)}
           /\ <<>> \in Above(p)
           /\ Len(Front(p)) = Len(p) - 1 /\ p[Len(p)] = Last(p)
  <1> DEFINE f == Front(p)
  <1>1. Len(p) \in Nat \ {0} /\ Len(p) - 1 \in 0..Len(p)
    BY LenProperties, EmptySeq
  <1>2. f \in Seq(S) /\ Len(f) = Len(p) - 1 /\ \A i \in 1..Len(f) : f[i] = p[i]
    BY <1>1, PrefixFacts DEF Front
  <1>3. Last(p) \in S
    BY <1>1, ElementOfSeq DEF Last
  <1>4. f \in Above(p)
    BY <1>1, <1>2, AboveIff
  <1>5. f # p
    BY <1>4, AboveOrder
  <1>6. ASSUME NEW q \in Above(p), q # f
        PROVE  q \in Above(f)
    <2>1. q \in Seq(S) /\ Len(q) < Len(p) /\ \A i \in 1..Len(q) : q[i] = p[i]
      BY <1>6, AboveIff
    <2>2. Len(q) \in Nat
      BY <2>1, LenProperties
    <2>3. \A i \in 1..Len(q) : q[i] = f[i]
      BY <1>1, <1>2, <2>1, <2>2
    <2>4. Len(q) # Len(f)
      BY <1>2, <1>6, <2>1, <2>3, SeqEqual
    <2>5. Len(q) < Len(f)
      BY <1>1, <1>2, <2>1, <2>2, <2>4
    <2> QED
      BY <1>2, <2>1, <2>3, <2>5, AboveIff
  <1>7. Above(f) \subseteq Above(p)
    BY <1>4, AboveOrder
  <1>8. <<>> \in Above(p)
    <2>1. <<>> \in Seq(S) /\ Len(<<>>) = 0
      BY EmptySeq
    <2>2. Len(<<>>) < Len(p) /\ \A i \in 1..Len(<<>>) : <<>>[i] = p[i]
      BY <1>1, <2>1
    <2> QED
      BY <2>1, <2>2, AboveIff
  <1> QED
    BY <1>2, <1>3, <1>4, <1>5, <1>6, <1>7, <1>8 DEF Last

LEMMA RootAbove == Above(<<>>) = {}
  <1>1. Len(<<>>) = 0
    BY EmptySeq
  <1>2. 0..Len(<<>>) - 1 = {}
    BY <1>1
  <1> QED
    BY <1>2 DEF Above

(* An entry of a directory.                                                *)
LEMMA AppendFacts ==
    ASSUME NEW S, NEW p \in Seq(S), NEW x \in S
    PROVE  /\ Append(p, x) \in Seq(S) /\ Append(p, x) # <<>>
           /\ Front(Append(p, x)) = p /\ Last(Append(p, x)) = x
           /\ Above(Append(p, x)) = Above(p) \cup {p}
  <1> DEFINE a == Append(p, x)
  <1>1. /\ a \in Seq(S) /\ a # <<>> /\ Len(a) = Len(p) + 1
        /\ \A i \in 1..Len(p) : a[i] = p[i]
        /\ a[Len(p) + 1] = x
    BY AppendProperties
  <1>2. Len(p) \in Nat
    BY LenProperties
  <1>3. Len(p) \in 0..Len(a) /\ Len(a) - 1 = Len(p)
    BY <1>1, <1>2
  <1>4. Front(a) = p
    <2>1. /\ Front(a) \in Seq(S) /\ Len(Front(a)) = Len(p)
          /\ \A i \in 1..Len(p) : Front(a)[i] = a[i]
      BY <1>1, <1>3, PrefixFacts DEF Front
    <2>2. \A i \in 1..Len(p) : Front(a)[i] = p[i]
      BY <1>1, <2>1
    <2> QED
      BY <2>1, <2>2, SeqEqual
  <1>5. Last(a) = x
    BY <1>1 DEF Last
  <1> QED
    BY <1>1, <1>4, <1>5, FrontFacts

LEMMA FrontLast ==
    ASSUME NEW S, NEW p \in Seq(S), p # <<>>
    PROVE  Append(Front(p), Last(p)) = p
  <1> DEFINE f == Front(p)  a == Append(f, Last(p))
  <1>1. f \in Seq(S) /\ Last(p) \in S /\ Len(f) = Len(p) - 1
    BY FrontFacts
  <1>2. Len(p) \in Nat \ {0} /\ Len(p) - 1 \in 0..Len(p)
    BY LenProperties, EmptySeq
  <1>3. \A i \in 1..Len(f) : f[i] = p[i]
    BY <1>1, <1>2, PrefixFacts DEF Front
  <1>4. /\ a \in Seq(S) /\ Len(a) = Len(p)
        /\ \A i \in 1..Len(f) : a[i] = f[i]
        /\ a[Len(p)] = Last(p)
    BY <1>1, <1>2, AppendProperties
  <1>5. \A i \in 1..Len(p) : a[i] = p[i]
    <2> TAKE i \in 1..Len(p)
    <2>1. CASE i = Len(p)
      BY <2>1, <1>4 DEF Last
    <2>2. CASE i # Len(p)
      <3>1. i \in 1..Len(f)
        BY <1>1, <1>2, <2>2
      <3> QED
        BY <3>1, <1>3, <1>4
    <2> QED
      BY <2>1, <2>2
  <1> QED
    BY <1>4, <1>5, SeqEqual

(* The step down from a directory towards what is below it.                *)
LEMMA StepDown ==
    ASSUME NEW S, NEW p \in Seq(S), NEW q \in Above(p)
    PROVE  LET r == SubSeq(p, 1, Len(q) + 1)
           IN  /\ r \in Seq(S) /\ r # <<>> /\ Front(r) = q
               /\ r = p \/ r \in Above(p)
               /\ q \in Above(r)
  <1> DEFINE r == SubSeq(p, 1, Len(q) + 1)
  <1>1. q \in Seq(S) /\ Len(q) < Len(p) /\ \A i \in 1..Len(q) : q[i] = p[i]
    BY AboveIff
  <1>2. Len(q) \in Nat /\ Len(p) \in Nat /\ Len(q) + 1 \in 0..Len(p)
    BY <1>1, LenProperties
  <1>3. r \in Seq(S) /\ Len(r) = Len(q) + 1 /\ \A i \in 1..Len(q) + 1 : r[i] = p[i]
    BY <1>2, PrefixFacts
  <1>4. r # <<>>
    BY <1>2, <1>3, EmptySeq
  <1>5. Front(r) = q
    <2>1. Len(r) - 1 = Len(q) /\ Len(q) \in 0..Len(r)
      BY <1>2, <1>3
    <2>2. Front(r) \in Seq(S) /\ Len(Front(r)) = Len(q) /\ \A i \in 1..Len(q) : Front(r)[i] = r[i]
      BY <1>3, <2>1, PrefixFacts DEF Front
    <2>3. \A i \in 1..Len(q) : i \in 1..Len(q) + 1
      BY <1>2
    <2>4. \A i \in 1..Len(q) : Front(r)[i] = q[i]
      BY <1>1, <1>3, <2>2, <2>3
    <2> QED
      BY <1>1, <2>2, <2>4, SeqEqual
  <1>6. r = p \/ r \in Above(p)
    <2>1. CASE Len(q) + 1 = Len(p)
      <3>1. Len(r) = Len(p) /\ \A i \in 1..Len(r) : r[i] = p[i]
        BY <1>3, <2>1
      <3> QED
        BY <1>3, <3>1, SeqEqual
    <2>2. CASE Len(q) + 1 # Len(p)
      <3>1. Len(r) < Len(p)
        BY <1>2, <1>3, <2>2
      <3> QED
        BY <1>3, <3>1, AboveIff
    <2> QED
      BY <2>1, <2>2
  <1>7. q \in Above(r)
    BY <1>3, <1>4, <1>5, FrontFacts
  <1> QED
    BY <1>3, <1>4, <1>5, <1>6, <1>7

(* Plain names, and the names beside them.                                 *)
LEMMA PlainPath ==
    /\ Plain \subseteq Path /\ <<>> \in Plain
    /\ \A p \in Plain : p # <<>> => Last(p)[2] = ""
  <1>1. Base \X {""} \subseteq Base \X Suffix
    BY DEF Suffix
  <1>2. Plain \subseteq Path
    BY <1>1, SeqMonotonic DEF Plain, Path
  <1>3. ASSUME NEW p \in Plain, p # <<>>
        PROVE  Last(p)[2] = ""
    <2>1. Last(p) \in Base \X {""}
      BY <1>3, FrontFacts DEF Plain
    <2> QED
      BY <2>1
  <1> QED
    BY <1>2, <1>3, EmptySeq DEF Plain

LEMMA Pair ==
    ASSUME NEW x, NEW y, NEW z, NEW t, <<x, y>> = <<z, t>>
    PROVE  x = z /\ y = t
  OBVIOUS

LEMMA OfPairs ==
    ASSUME NEW A, NEW B, NEW x \in A \X B
    PROVE  x = <<x[1], x[2]>> /\ x[1] \in A /\ x[2] \in B
  OBVIOUS

LEMMA PathOrder ==
    ASSUME NEW p \in Path
    PROVE  /\ p \notin Above(p)
           /\ \A q \in Above(p) : q \in Path /\ Above(q) \subseteq Above(p) /\ p \notin Above(q)
           /\ \A q, r \in Above(p) : q = r \/ q \in Above(r) \/ r \in Above(q)
           /\ p \in Plain => Above(p) \subseteq Plain
           /\ p # <<>> => /\ Front(p) \in Above(p) /\ Front(p) \in Path /\ <<>> \in Above(p)
                          /\ Above(p) = Above(Front(p)) \cup {Front(p)}
           /\ \A q \in Above(p) :
                 LET r == SubSeq(p, 1, Len(q) + 1)
                 IN  r \in Path /\ r # <<>> /\ Front(r) = q /\ q \in Above(r) /\ (r = p \/ r \in Above(p))
  <1>1. p \in Plain => Above(p) \subseteq Plain
    BY AboveOrder DEF Plain
  <1>2. \A q \in Above(p) :
                 LET r == SubSeq(p, 1, Len(q) + 1)
                 IN  r \in Path /\ r # <<>> /\ Front(r) = q /\ q \in Above(r) /\ (r = p \/ r \in Above(p))
    BY StepDown DEF Path
  <1>3. p # <<>> => /\ Front(p) \in Above(p) /\ Front(p) \in Path /\ <<>> \in Above(p)
                    /\ Above(p) = Above(Front(p)) \cup {Front(p)}
    BY FrontFacts DEF Path
  <1> QED
    BY <1>1, <1>2, <1>3, AboveOrder DEF Path

LEMMA PlainAppend ==
    ASSUME NEW p \in Plain, NEW x \in Base \X {""}
    PROVE  /\ Append(p, x) \in Plain /\ Append(p, x) # <<>>
           /\ Front(Append(p, x)) = p /\ Last(Append(p, x)) = x
           /\ Above(Append(p, x)) = Above(p) \cup {p}
  <1> DEFINE S == Base \X {""}
  <1>1. p \in Seq(S) /\ x \in S /\ Plain = Seq(S)
    BY DEF Plain
  <1> HIDE DEF S
  <1> QED
    BY <1>1, AppendFacts

LEMMA ExtFacts ==
    ASSUME NEW p \in Path, p # <<>>, NEW s \in Suffix
    PROVE  /\ Ext(p, s) \in Path /\ Ext(p, s) # <<>>
           /\ Front(Ext(p, s)) = Front(p) /\ Last(Ext(p, s)) = <<Last(p)[1], s>>
           /\ Above(Ext(p, s)) = Above(p)
           /\ s # "" => Ext(p, s) \notin Plain
  <1>1. Front(p) \in Path /\ Last(p) \in Base \X Suffix /\ Above(p) = Above(Front(p)) \cup {Front(p)}
    BY FrontFacts DEF Path
  <1>2. <<Last(p)[1], s>> \in Base \X Suffix
    BY <1>1
  <1>3. /\ Ext(p, s) \in Path /\ Ext(p, s) # <<>>
        /\ Front(Ext(p, s)) = Front(p) /\ Last(Ext(p, s)) = <<Last(p)[1], s>>
        /\ Above(Ext(p, s)) = Above(Front(p)) \cup {Front(p)}
    BY <1>1, <1>2, AppendFacts DEF Path, Ext
  <1>4. <<Last(p)[1], s>>[2] = s
    OBVIOUS
  <1>5. s # "" => Ext(p, s) \notin Plain
    <2>1. Ext(p, s) \in Plain => Last(Ext(p, s))[2] = ""
      BY <1>3, PlainPath
    <2> QED
      BY <1>3, <1>4, <2>1
  <1> QED
    BY <1>1, <1>3, <1>5

LEMMA ExtInjective ==
    ASSUME NEW p \in Plain, p # <<>>, NEW q \in Plain, q # <<>>,
           NEW s \in Suffix, NEW u \in Suffix, Ext(p, s) = Ext(q, u)
    PROVE  p = q /\ s = u
  <1> DEFINE a == Last(p)[1]  b == Last(q)[1]
  <1>1. Front(p) = Front(q) /\ <<a, s>> = <<b, u>>
    BY ExtFacts, PlainPath
  <1>2. Last(p) = <<a, "">> /\ Last(q) = <<b, "">>
    <2>1. Last(p) \in Base \X {""} /\ Last(q) \in Base \X {""}
      BY FrontFacts DEF Plain
    <2>2. Last(p) = <<a, Last(p)[2]>> /\ Last(q) = <<b, Last(q)[2]>>
      BY <2>1, OfPairs
    <2>3. Last(p)[2] = "" /\ Last(q)[2] = ""
      BY PlainPath
    <2> QED
      BY <2>2, <2>3
  <1>3. a = b /\ s = u
    <2> HIDE DEF a, b
    <2> QED
      BY <1>1, Pair
  <1> QED
    BY <1>1, <1>2, <1>3, FrontLast DEF Plain

-----------------------------------------------------------------------------
(* The inductive invariant.                                                *)

(* Before update the disk is as the run found it, and the walk at the root.*)
Phases ==
    /\ pc \in {"load", "check"} => disk = before /\ cur = <<>>
    /\ pc = "load" => work = <<>>
    /\ opts.lazy /\ pc \in Running => disk = before
RootNode ==
    /\ tree[<<>>].type \subseteq DIR
    /\ "proto" \in tree[<<>>].flag => "type" \in tree[<<>>].flag

(* What update does belongs to the type of the node.                       *)
Handled == {CHR, BLK, LNK, DIR, REG, SOCK, FIFO}
FileSteps == {"reg", "cp", "copying", "rmold", "ln", "mv", "mvbusy", "tim"}
Clearing == after = Routine(tree[cur].type) /\ ret = -1
Cleaning == tree[cur].type = DIR /\ after = IF ret = 0 THEN "mod" ELSE "update"
Stages ==
    /\ pc \in {"spec", "mknod"} => tree[cur].type \in {CHR, BLK}
    /\ pc \in {"link", "symlink"} => tree[cur].type = LNK
    /\ pc \in {"mkdir", "clean"} => tree[cur].type = DIR
    /\ pc \in FileSteps => tree[cur].type = REG
    /\ pc \in {"mod", "own"} => tree[cur].type \in {CHR, BLK, DIR, REG}
    /\ pc = "rm" => tree[cur].type \in Handled /\ (Clearing \/ Cleaning)

(* What is under the path of the node: what the node wants, or a directory *)
(* that could not be removed.                                              *)
Wanted == cur \in DOMAIN disk /\ disk[cur].type = tree[cur].type
Present == ~opts.lazy =>
    /\ pc \in Running \ {"update", "rm"} /\ cur \in DOMAIN disk =>
          disk[cur].type \in {tree[cur].type, DIR}
    /\ pc = "rm" /\ cur \in DOMAIN disk => cur \in victims \/ disk[cur].type \in {tree[cur].type, DIR}
    /\ pc \in {"rm", "spec", "link", "mkdir", "clean"} \cup (FileSteps \ {"mvbusy"}) /\ ret = 0 => Wanted

(* The new file is whole before anything is done to the old one.           *)
NewWhole ==
    /\ pc \in {"cp", "copying", "rmold", "ln", "mv", "mvbusy"} => "proto" \in tree[cur].flag
    /\ pc \in {"copying", "rmold", "ln", "mv", "mvbusy"} /\ ~opts.lazy => New \in DOMAIN disk
    /\ pc \in {"rmold", "ln", "mv", "mvbusy"} /\ ~opts.lazy =>
          disk[New].data = Stat(Master(tree[cur], cur)).data
    /\ pc \in {"cp", "copying"} /\ "old" \in tree[cur].flag => ret = 0
    /\ pc \in {"rmold", "ln"} => ret = 0 /\ "old" \in tree[cur].flag
    /\ pc = "mvbusy" => cur \notin busy /\ cur \notin DOMAIN disk

(* What rm may remove: what is in the way of the node, or what is unnamed  *)
(* in a directory to be cleaned.                                           *)
Victim(v) ==
    /\ v \in Path
    /\ \/ /\ ret = -1 /\ (v = cur \/ (Under(v, cur) /\ tree[cur].type # DIR))
          /\ cur \in DOMAIN before /\ before[cur].type # tree[cur].type /\ cur # <<>>
       \/ Unnamed(v, cur)
Victims == pc = "rm" => \A v \in victims : Victim(v)

(* What is on the disk under a plain name was there before, or is what the *)
(* tree has.                                                               *)
Origin == pc \in Running =>
    \A p \in DOMAIN disk : p \in Plain =>
        \/ p \in DOMAIN before /\ disk[p].type = before[p].type
        \/ p \in DOMAIN tree /\ disk[p].type = tree[p].type

(* A file that is replaced is whole, and a text in use has not changed.    *)
Twice(p) == IsFile(before, p) /\ IsFile(tree, p) /\ Walked(p)
Whole(p) ==
    /\ IsFile(disk, p) /\ disk[p].data \in {before[p].data} \cup MasterData(tree[p], p)
    /\ p \in busy => disk[p].data = before[p].data
Aside(p) ==
    /\ pc = "mvbusy" /\ cur = p /\ p \in BusyTexts
    /\ Ext(p, "busy") \in DOMAIN disk /\ disk[Ext(p, "busy")].data = before[p].data
FilesWhole == pc \in Running => \A p \in DOMAIN before : Twice(p) => Whole(p) \/ Aside(p)

(* The line with the letter W, before and after it is read.                *)
Winner(i) == i \in DOMAIN conf /\ WinsAlone(i)
Decided(i) ==
    /\ conf[i].path \in DOMAIN tree /\ "type" \in tree[conf[i].path].flag
    /\ \/ tree[conf[i].path].type = Kind[conf[i].kind]
       \/ OnTheWay(i) /\ tree[conf[i].path].type = Kind[conf[i].kind] \cup DIR
Open(i) ==
    conf[i].path \in DOMAIN tree =>
        /\ "win" \notin tree[conf[i].path].flag
        /\ "type" \notin tree[conf[i].path].flag =>
               \/ tree[conf[i].path].type = {}
               \/ OnTheWay(i) /\ tree[conf[i].path].type = DIR
Winners ==
    \A i \in DOMAIN conf : Winner(i) =>
        /\ pc = "load" /\ i > line => Open(i)
        /\ pc = "load" /\ i <= line => Decided(i) /\ "win" \in tree[conf[i].path].flag
        /\ pc = "check" \/ Visited => Decided(i)

Inv ==
    /\ TypeOK /\ Phases /\ RootNode /\ Stages /\ Present /\ NewWhole
    /\ Victims /\ Origin /\ FilesWhole

-----------------------------------------------------------------------------
(* Types, functions and disks.                                             *)

LEMMA TypesDiffer ==
    /\ \A x, y \in {"B", "C", "D", "F", "L", "N", "P", "S"} : Kind[x] = Kind[y] => x = y
    /\ DIR \notin {CHR, BLK, LNK, REG, SOCK, FIFO, {}} /\ REG \notin {CHR, BLK, LNK, SOCK, FIFO, {}}
    /\ LNK \notin {CHR, BLK, SOCK, FIFO, {}} /\ SOCK \notin {CHR, BLK, FIFO, {}}
    /\ {} \notin Handled
  <1>1. /\ 4 \in DIR /\ 4 \notin CHR /\ 4 \in BLK /\ 4 \notin LNK /\ 4 \notin REG /\ 4 \in SOCK /\ 4 \notin FIFO
        /\ 2 \notin DIR /\ 2 \in CHR /\ 2 \in BLK /\ 2 \in LNK /\ 2 \notin REG /\ 2 \notin SOCK /\ 2 \notin FIFO
        /\ 8 \notin DIR /\ 8 \notin CHR /\ 8 \notin BLK /\ 8 \in LNK /\ 8 \in REG /\ 8 \in SOCK /\ 8 \notin FIFO
        /\ 1 \in FIFO
    BY DEF DIR, CHR, BLK, LNK, REG, SOCK, FIFO
  <1>2. /\ Kind["B"] = BLK /\ Kind["C"] = CHR /\ Kind["D"] = DIR /\ Kind["F"] = REG
        /\ Kind["L"] = LNK /\ Kind["N"] = {} /\ Kind["P"] = FIFO /\ Kind["S"] = SOCK
    BY DEF Kind
  <1>3. /\ DIR \notin {CHR, BLK, LNK, REG, SOCK, FIFO, {}} /\ REG \notin {CHR, BLK, LNK, SOCK, FIFO, {}}
        /\ LNK \notin {CHR, BLK, SOCK, FIFO, {}} /\ SOCK \notin {CHR, BLK, FIFO, {}}
        /\ CHR \notin {BLK, FIFO, {}} /\ BLK \notin {FIFO, {}} /\ FIFO # {}
    BY <1>1
  <1>4. {} \notin Handled
    BY <1>3 DEF Handled
  <1> QED
    BY <1>2, <1>3, <1>4

LEMMA RoutineFacts ==
    ASSUME NEW type \in Handled
    PROVE  /\ Routine(type) \in {"spec", "link", "mkdir", "reg", "update"}
           /\ Routine(type) = "spec" => type \in {CHR, BLK}
           /\ Routine(type) = "link" => type = LNK
           /\ Routine(type) = "mkdir" => type = DIR
           /\ Routine(type) = "reg" => type = REG
  BY TypesDiffer DEF Routine, Handled

LEMMA WithFacts ==
    ASSUME NEW t, NEW p, NEW x
    PROVE  /\ DOMAIN With(t, p, x) = DOMAIN t \cup {p} /\ With(t, p, x)[p] = x
           /\ \A q \in DOMAIN t : q # p => With(t, p, x)[q] = t[q]
  BY DEF With

LEMMA WithoutFacts ==
    ASSUME NEW t, NEW Q
    PROVE  /\ DOMAIN Without(t, Q) = DOMAIN t \ Q
           /\ \A q \in DOMAIN t \ Q : Without(t, Q)[q] = t[q]
  BY DEF Without

Fits(x, p) ==
    /\ DOMAIN x = DOMAIN NoInode
    /\ p \notin Plain => x.type = REG
    /\ x.type = LNK => ~ReadOnly(x)

LEMMA DiskFacts ==
    ASSUME NEW d, IsDisk(d), NEW p \in DOMAIN d
    PROVE  /\ p \in Path /\ Fits(d[p], p)
           /\ \A q \in Above(p) : q \in DOMAIN d /\ d[q].type = DIR
           /\ d[p].type # DIR => Below(d, p) = {}
           /\ p # <<>> => Front(p) \in DOMAIN d /\ d[Front(p)].type = DIR
  <1>1. /\ p \in Path /\ Fits(d[p], p)
        /\ \A q \in Above(p) : q \in DOMAIN d /\ d[q].type = DIR
    BY DEF IsDisk, Fits
  <1>2. d[p].type # DIR => Below(d, p) = {}
    BY DEF IsDisk, Below, Under
  <1>3. p # <<>> => Front(p) \in Above(p)
    BY <1>1, FrontFacts DEF Path
  <1> QED
    BY <1>1, <1>2, <1>3

LEMMA NothingBelow ==
    ASSUME NEW d, IsDisk(d), NEW p, p \notin DOMAIN d
    PROVE  Below(d, p) = {}
  BY DEF IsDisk, Below, Under

LEMMA DiskWith ==
    ASSUME NEW d, IsDisk(d), NEW p \in Path, p # <<>>, NEW x, Fits(x, p),
           Front(p) \in DOMAIN d, d[Front(p)].type = DIR, Below(d, p) = {}
    PROVE  IsDisk(With(d, p, x))
  <1> DEFINE e == With(d, p, x)
  <1>1. DOMAIN e = DOMAIN d \cup {p} /\ e[p] = x /\ \A q \in DOMAIN d : q # p => e[q] = d[q]
    BY DEF With
  <1>2. /\ DOMAIN d \subseteq Path /\ <<>> \in DOMAIN d /\ d[<<>>].type = DIR
    BY DEF IsDisk
  <1>3. Above(p) = Above(Front(p)) \cup {Front(p)} /\ p \notin Above(p)
    BY FrontFacts, AboveOrder DEF Path
  <1>4. \A q \in Above(Front(p)) : q \in DOMAIN d /\ d[q].type = DIR
    BY DiskFacts
  <1>5. \A q \in Above(p) : q \in DOMAIN e /\ e[q].type = DIR
    BY <1>1, <1>3, <1>4
  <1>6. ASSUME NEW r \in DOMAIN d, r # p
        PROVE  Fits(e[r], r) /\ \A q \in Above(r) : q \in DOMAIN e /\ e[q].type = DIR
    <2>1. p \notin Above(r)
      BY <1>6 DEF Below, Under
    <2>2. Fits(d[r], r) /\ \A q \in Above(r) : q \in DOMAIN d /\ d[q].type = DIR
      BY DiskFacts
    <2> QED
      BY <1>1, <1>6, <2>1, <2>2
  <1> HIDE DEF e
  <1>7. <<>> \in DOMAIN e /\ e[<<>>].type = DIR /\ DOMAIN e \subseteq Path
    BY <1>1, <1>2
  <1>8. \A r \in DOMAIN e : Fits(e[r], r) /\ \A q \in Above(r) : q \in DOMAIN e /\ e[q].type = DIR
    BY <1>1, <1>5, <1>6
  <1>9. IsDisk(e)
    BY <1>7, <1>8 DEF IsDisk, Fits
  <1> QED
    BY <1>9 DEF e

LEMMA DiskWithout ==
    ASSUME NEW d, IsDisk(d), NEW p, p # <<>>, Below(d, p) = {}
    PROVE  IsDisk(Without(d, {p}))
  <1> DEFINE e == Without(d, {p})
  <1>1. DOMAIN e = DOMAIN d \ {p} /\ \A q \in DOMAIN d \ {p} : e[q] = d[q]
    BY WithoutFacts
  <1>2. ASSUME NEW r \in DOMAIN e
        PROVE  Fits(e[r], r) /\ \A q \in Above(r) : q \in DOMAIN e /\ e[q].type = DIR
    <2>1. r \in DOMAIN d /\ e[r] = d[r] /\ p \notin Above(r)
      BY <1>1 DEF Below, Under
    <2>2. Fits(d[r], r) /\ \A q \in Above(r) : q \in DOMAIN d /\ d[q].type = DIR
      BY <2>1, DiskFacts
    <2> QED
      BY <1>1, <2>1, <2>2
  <1>3. <<>> \in DOMAIN e /\ e[<<>>].type = DIR /\ DOMAIN e \subseteq Path
    BY <1>1 DEF IsDisk
  <1> HIDE DEF e
  <1>4. IsDisk(e)
    BY <1>2, <1>3 DEF IsDisk, Fits
  <1> QED
    BY <1>4 DEF e

LEMMA DiskExcept ==
    ASSUME NEW d, IsDisk(d), NEW p \in DOMAIN d, NEW x, Fits(x, p), x.type = d[p].type
    PROVE  IsDisk([d EXCEPT ![p] = x])
  <1> DEFINE e == [d EXCEPT ![p] = x]
  <1>1. DOMAIN e = DOMAIN d /\ e[p] = x /\ \A q \in DOMAIN d : q # p => e[q] = d[q]
    OBVIOUS
  <1>2. \A q \in DOMAIN d : e[q].type = d[q].type
    BY <1>1
  <1>3. ASSUME NEW r \in DOMAIN e
        PROVE  Fits(e[r], r) /\ \A q \in Above(r) : q \in DOMAIN e /\ e[q].type = DIR
    <2>1. Fits(d[r], r) /\ \A q \in Above(r) : q \in DOMAIN d /\ d[q].type = DIR
      BY <1>1, DiskFacts
    <2> QED
      BY <1>1, <1>2, <2>1
  <1>4. <<>> \in DOMAIN e /\ e[<<>>].type = DIR /\ DOMAIN e \subseteq Path
    BY <1>1, <1>2 DEF IsDisk
  <1> HIDE DEF e
  <1>5. IsDisk(e)
    BY <1>3, <1>4 DEF IsDisk, Fits
  <1> QED
    BY <1>5 DEF e

-----------------------------------------------------------------------------
(* The tree.                                                               *)

LEMMA NodeFields ==
    /\ {"flag", "type", "mode", "mask", "uid", "mtime", "size", "proto", "rdev", "hash"} = DOMAIN NewNode
    /\ NewNode.flag = {} /\ NewNode.type = {}
    /\ {"type", "mode", "uid", "mtime", "data", "link"} = DOMAIN NoInode
  BY DEF NewNode, NoInode, Inode

LEMMA TreeFacts ==
    ASSUME NEW t, IsTree(t), NEW p \in DOMAIN t
    PROVE  /\ p \in Plain /\ p \in Path /\ DOMAIN t[p] = DOMAIN NewNode
           /\ \A q \in Above(p) : q \in DOMAIN t /\ DIR \subseteq t[q].type
           /\ p # <<>> => Front(p) \in Above(p)
  <1>1. p \in Plain /\ p \in Path /\ DOMAIN t[p] = DOMAIN NewNode
    BY PlainPath DEF IsTree
  <1>2. \A q \in Above(p) : q \in DOMAIN t /\ DIR \subseteq t[q].type
    BY DEF IsTree
  <1>3. p # <<>> => Front(p) \in Above(p)
    BY <1>1, FrontFacts DEF Path
  <1> QED
    BY <1>1, <1>2, <1>3

LEMMA AboveFinite ==
    ASSUME NEW S, NEW p \in Seq(S)
    PROVE  IsFiniteSet(Above(p))
  <1> DEFINE I == 0..Len(p) - 1  f == [k \in I |-> SubSeq(p, 1, k)]
  <1>1. Len(p) \in Nat
    BY LenProperties
  <1>2. 0 \in Int /\ Len(p) - 1 \in Int
    BY <1>1
  <1>3. IsFiniteSet(I)
    BY <1>2, FS_Interval
  <1>4. f \in Surjection(I, Above(p))
    BY DEF Above, Surjection
  <1> QED
    BY <1>3, <1>4, FS_Surjection

(* A node may change its type only to one with the same bits and more.     *)
LEMMA TreeWith ==
    ASSUME NEW t, IsTree(t), NEW p \in Plain, NEW n, DOMAIN n = DOMAIN NewNode,
           \A q \in Above(p) : q \in DOMAIN t /\ DIR \subseteq t[q].type,
           p \in DOMAIN t => t[p].type \subseteq n.type
    PROVE  IsTree(With(t, p, n))
  <1> DEFINE u == With(t, p, n)
  <1>1. DOMAIN u = DOMAIN t \cup {p} /\ u[p] = n /\ \A q \in DOMAIN t : q # p => u[q] = t[q]
    BY DEF With
  <1> HIDE DEF u
  <1>2. IsFiniteSet(DOMAIN u) /\ DOMAIN u \subseteq Plain /\ <<>> \in DOMAIN u
    BY <1>1, FS_AddElement DEF IsTree
  <1>3. \A q \in DOMAIN t : DIR \subseteq t[q].type => DIR \subseteq u[q].type
    BY <1>1
  <1>4. ASSUME NEW r \in DOMAIN u
        PROVE  DOMAIN u[r] = DOMAIN NewNode /\ \A q \in Above(r) : q \in DOMAIN u /\ DIR \subseteq u[q].type
    <2>1. CASE r = p
      BY <1>1, <1>3, <2>1
    <2>2. CASE r # p
      <3>1. r \in DOMAIN t /\ u[r] = t[r]
        BY <1>1, <2>2
      <3> QED
        BY <1>1, <1>3, <3>1, TreeFacts
    <2> QED
      BY <2>1, <2>2
  <1>5. IsTree(u)
    BY <1>2, <1>4 DEF IsTree
  <1> QED
    BY <1>5 DEF u

LEMMA LookedUp ==
    ASSUME IsTree(tree), NEW e \in Line
    PROVE  LET t == LookupPath(e)
           IN  /\ DOMAIN t = DOMAIN tree \cup Above(e.path) \cup {e.path}
               /\ \A q \in DOMAIN t : DOMAIN t[q] = DOMAIN NewNode
               /\ t[e.path] = IF e.path \in DOMAIN tree THEN tree[e.path] ELSE NewNode
               /\ \A q \in DOMAIN tree :
                     /\ t[q].flag = tree[q].flag
                     /\ q \notin Above(e.path) \/ "type" \in tree[q].flag => t[q] = tree[q]
                     /\ t[q].type = tree[q].type \/ t[q].type = tree[q].type \cup DIR
               /\ \A q \in DOMAIN t \ DOMAIN tree : t[q].flag = {} /\ t[q].type \subseteq DIR
               /\ \A q \in Above(e.path) : "type" \notin t[q].flag => DIR \subseteq t[q].type
  <1> DEFINE t == LookupPath(e)
             old(q) == IF q \in DOMAIN tree THEN tree[q] ELSE NewNode
             way == Above(e.path) \cup {e.path}
  <1>1. e.path \in Plain
    BY DEF Line
  <1>2. e.path \notin Above(e.path)
    BY <1>1, AboveOrder DEF Plain
  <1>3. DOMAIN t = DOMAIN tree \cup way
    BY DEF LookupPath
  <1>4. \A q \in DOMAIN t : t[q] = IF q # e.path /\ q \in way /\ "type" \notin old(q).flag
                                   THEN [old(q) EXCEPT !.type = @ \cup DIR] ELSE old(q)
    BY DEF LookupPath
  <1>5. \A q : DOMAIN old(q) = DOMAIN NewNode
    BY TreeFacts
  <1> HIDE DEF t, old
  <1>6. ASSUME NEW q \in DOMAIN t
        PROVE  /\ DOMAIN t[q] = DOMAIN NewNode /\ t[q].flag = old(q).flag
               /\ q \notin Above(e.path) \/ "type" \in old(q).flag => t[q] = old(q)
               /\ q \in Above(e.path) /\ "type" \notin old(q).flag => t[q].type = old(q).type \cup DIR
    <2>1. CASE q \in Above(e.path) /\ "type" \notin old(q).flag
      <3>1. t[q] = [old(q) EXCEPT !.type = @ \cup DIR]
        BY <1>2, <1>4, <2>1
      <3>2. "type" \in DOMAIN old(q) /\ "flag" \in DOMAIN old(q)
        BY <1>5, NodeFields
      <3> QED
        BY <1>5, <2>1, <3>1, <3>2
    <2>2. CASE ~(q \in Above(e.path) /\ "type" \notin old(q).flag)
      <3>1. t[q] = old(q)
        BY <1>4, <2>2
      <3> QED
        BY <1>5, <2>2, <3>1
    <2> QED
      BY <2>1, <2>2
  <1>7. /\ \A q \in DOMAIN tree : old(q) = tree[q]
        /\ \A q : q \notin DOMAIN tree => old(q) = NewNode
    BY DEF old
  <1>8. t[e.path] = IF e.path \in DOMAIN tree THEN tree[e.path] ELSE NewNode
    BY <1>2, <1>3, <1>6, <1>7
  <1>9. \A q \in DOMAIN tree :
            /\ t[q].flag = tree[q].flag
            /\ q \notin Above(e.path) \/ "type" \in tree[q].flag => t[q] = tree[q]
            /\ t[q].type = tree[q].type \/ t[q].type = tree[q].type \cup DIR
    BY <1>3, <1>6, <1>7
  <1>10. \A q \in DOMAIN t \ DOMAIN tree : t[q].flag = {} /\ t[q].type \subseteq DIR
    BY <1>6, <1>7, NodeFields
  <1>11. \A q \in Above(e.path) : "type" \notin t[q].flag => DIR \subseteq t[q].type
    BY <1>3, <1>6
  <1> QED
    BY <1>3, <1>6, <1>8, <1>9, <1>10, <1>11 DEF t

LEMMA LookedUpTree ==
    ASSUME IsTree(tree), NEW e \in Line, ~Blocked(e)
    PROVE  IsTree(LookupPath(e))
  <1> DEFINE t == LookupPath(e)
  <1>1. /\ DOMAIN t = DOMAIN tree \cup Above(e.path) \cup {e.path}
        /\ \A q \in DOMAIN t : DOMAIN t[q] = DOMAIN NewNode
        /\ \A q \in DOMAIN tree :
               /\ t[q].flag = tree[q].flag
               /\ q \notin Above(e.path) \/ "type" \in tree[q].flag => t[q] = tree[q]
               /\ t[q].type = tree[q].type \/ t[q].type = tree[q].type \cup DIR
        /\ \A q \in DOMAIN t \ DOMAIN tree : t[q].flag = {}
        /\ \A q \in Above(e.path) : "type" \notin t[q].flag => DIR \subseteq t[q].type
    BY LookedUp
  <1> HIDE DEF t
  <1>2. e.path \in Plain
    BY DEF Line
  <1>3. Above(e.path) \subseteq Plain /\ IsFiniteSet(Above(e.path))
    BY <1>2, AboveOrder, AboveFinite DEF Plain
  <1>4. IsFiniteSet(DOMAIN t)
    <2>1. IsFiniteSet(DOMAIN tree \cup Above(e.path))
      BY <1>3, FS_Union DEF IsTree
    <2>2. IsFiniteSet((DOMAIN tree \cup Above(e.path)) \cup {e.path})
      BY <2>1, FS_AddElement
    <2> QED
      BY <1>1, <2>2
  <1>5. DOMAIN t \subseteq Plain /\ <<>> \in DOMAIN t
    BY <1>1, <1>2, <1>3 DEF IsTree
  <1>6. \A q \in Above(e.path) : q \in DOMAIN t /\ DIR \subseteq t[q].type
    <2> TAKE q \in Above(e.path)
    <2>1. q \in DOMAIN t
      BY <1>1
    <2>2. CASE "type" \in t[q].flag
      <3>1. q \in DOMAIN tree
        BY <1>1, <2>1, <2>2
      <3>2. "type" \in tree[q].flag /\ t[q] = tree[q]
        BY <1>1, <2>2, <3>1
      <3>3. tree[q].type = DIR
        BY <3>1, <3>2 DEF Blocked, Under
      <3> QED
        BY <2>1, <3>2, <3>3
    <2> QED
      BY <1>1, <2>1, <2>2
  <1>7. ASSUME NEW r \in DOMAIN t
        PROVE  \A q \in Above(r) : q \in DOMAIN t /\ DIR \subseteq t[q].type
    <2>1. CASE r \in DOMAIN tree
      <3> TAKE q \in Above(r)
      <3>1. q \in DOMAIN tree /\ DIR \subseteq tree[q].type
        BY <2>1, TreeFacts
      <3>2. t[q].type = tree[q].type \/ t[q].type = tree[q].type \cup DIR
        BY <1>1, <3>1
      <3>3. DIR \subseteq t[q].type
        BY <3>1, <3>2
      <3> QED
        BY <1>1, <3>1, <3>3
    <2>2. CASE r \in Above(e.path) \cup {e.path}
      <3>1. CASE r \in Above(e.path)
        <4>1. e.path \in Path
          BY <1>2, PlainPath
        <4>2. Above(r) \subseteq Above(e.path)
          BY <3>1, <4>1, PathOrder
        <4> QED
          BY <1>6, <4>2
      <3>2. CASE r = e.path
        BY <1>6, <3>2
      <3> QED
        BY <2>2, <3>1, <3>2
    <2> QED
      BY <1>1, <2>1, <2>2
  <1>8. IsTree(t)
    BY <1>1, <1>4, <1>5, <1>7 DEF IsTree
  <1> QED
    BY <1>8 DEF t

LEMMA WipedTree ==
    ASSUME NEW t, IsTree(t), NEW p \in DOMAIN t
    PROVE  /\ IsTree(Wiped(t, p))
           /\ DOMAIN Wiped(t, p) = DOMAIN t \ Below(t, p)
           /\ Wiped(t, p)[p] = NewNode
           /\ \A q \in DOMAIN t \ Below(t, p) : q # p => Wiped(t, p)[q] = t[q]
  <1> DEFINE w == Wiped(t, p)
  <1>0. p \notin Below(t, p)
    BY TreeFacts, AboveOrder DEF Below, Under, Path
  <1>1. /\ DOMAIN w = DOMAIN t \ Below(t, p) /\ w[p] = NewNode
        /\ \A q \in DOMAIN t \ Below(t, p) : q # p => w[q] = t[q]
    BY <1>0 DEF Wiped, With, Without
  <1> HIDE DEF w
  <1>2. IsFiniteSet(DOMAIN w) /\ DOMAIN w \subseteq Plain
    <2>1. DOMAIN w \subseteq DOMAIN t
      BY <1>1
    <2> QED
      BY <2>1, FS_Subset DEF IsTree
  <1>3. <<>> \in DOMAIN w
    <2>1. <<>> \notin Below(t, p)
      BY RootAbove DEF Below, Under
    <2> QED
      BY <1>1, <2>1 DEF IsTree
  <1>4. ASSUME NEW r \in DOMAIN w
        PROVE  DOMAIN w[r] = DOMAIN NewNode /\ \A q \in Above(r) : q \in DOMAIN w /\ DIR \subseteq w[q].type
    <2>1. r \in DOMAIN t /\ p \notin Above(r) /\ r \in Path
      BY <1>1, TreeFacts DEF Below, Under
    <2>2. DOMAIN w[r] = DOMAIN NewNode
      BY <1>1, <2>1, TreeFacts
    <2>3. ASSUME NEW q \in Above(r)
          PROVE  q \in DOMAIN w /\ DIR \subseteq w[q].type
      <3>1. q \in DOMAIN t /\ DIR \subseteq t[q].type
        BY <2>1, <2>3, TreeFacts
      <3>2. p \notin Above(q)
        BY <2>1, <2>3, AboveOrder DEF Path
      <3>3. q \notin Below(t, p) /\ q # p
        BY <2>1, <2>3, <3>2 DEF Below, Under
      <3> QED
        BY <1>1, <3>1, <3>3
    <2> QED
      BY <2>2, <2>3
  <1>5. IsTree(w)
    BY <1>2, <1>3, <1>4 DEF IsTree
  <1> QED
    BY <1>1, <1>5 DEF w

LEMMA MergedFacts ==
    ASSUME NEW n, DOMAIN n = DOMAIN NewNode, NEW e \in Line
    PROVE  /\ DOMAIN Merged(n, e) = DOMAIN NewNode
           /\ Merged(n, e).type = n.type \cup Kind[e.kind]
           /\ "type" \in Merged(n, e).flag
           /\ "win" \in Merged(n, e).flag <=> "win" \in n.flag \cup e.opts
           /\ "mtime" \in Merged(n, e).flag <=> "mtime" \in n.flag \cup e.opts
  BY NodeFields DEF Merged, Flags, Said

(* One line of the configuration file.                                     *)
LEMMA LineFacts ==
    ASSUME TypeOK, line < Len(conf)
    PROVE  /\ Len(conf) \in Nat /\ DOMAIN conf = 1..Len(conf) /\ line + 1 \in 1..Len(conf)
           /\ conf[line + 1] \in Line /\ conf[line + 1].path \in Plain
           /\ conf[line + 1].path = <<>> => Kind[conf[line + 1].kind] \subseteq DIR
  <1>1. conf \in Confs /\ conf \in Seq(Line) /\ line \in 0..Len(conf)
    BY PackageAssumption DEF TypeOK
  <1>2. Len(conf) \in Nat /\ DOMAIN conf = 1..Len(conf)
    BY <1>1, LenProperties
  <1>3. line + 1 \in 1..Len(conf)
    BY <1>1, <1>2
  <1>4. conf[line + 1] \in Line
    BY <1>1, <1>3, ElementOfSeq
  <1>5. conf[line + 1].path = <<>> => conf[line + 1].kind \in {"D", "N"}
    BY <1>1, <1>2, <1>3, PackageAssumption
  <1>6. Kind["D"] \subseteq DIR /\ Kind["N"] \subseteq DIR
    BY DEF Kind
  <1> QED
    BY <1>2, <1>3, <1>4, <1>5, <1>6 DEF Line

LEMMA EntryTree ==
    ASSUME TypeOK, RootNode, LoadEntry
    PROVE  IsTree(tree') /\ RootNode'
  <1> DEFINE e == conf[line + 1]
             t == LookupPath(e)
             n == t[e.path]
             conflict == TypeConflict(n, e) \/ AbsConflict(n, e)
             wins == OneWins(n.flag, e.opts)
             loses == conflict /\ wins /\ "win" \in n.flag
             t2 == IF conflict /\ wins THEN Wiped(t, e.path) ELSE t
  <1>1. /\ e \in Line /\ e.path \in Plain /\ e.path \in Path
        /\ e.path = <<>> => Kind[e.kind] \subseteq DIR
    BY LineFacts, PlainPath DEF LoadEntry
  <1>2. IsTree(tree)
    BY DEF TypeOK
  <1>3. CASE tree' = tree
    BY <1>2, <1>3 DEF RootNode
  <1>4. CASE ~Blocked(e) /\ tree' = IF loses THEN t ELSE With(t2, e.path, Merged(t2[e.path], e))
    <2>1. IsTree(t) /\ e.path \in DOMAIN t
      BY <1>1, <1>2, <1>4, LookedUp, LookedUpTree
    <2>2. t[<<>>].type \subseteq DIR /\ ("proto" \in t[<<>>].flag => "type" \in t[<<>>].flag)
      <3>1. <<>> \in DOMAIN tree
        BY <1>2 DEF IsTree
      <3>2. t[<<>>].flag = tree[<<>>].flag
            /\ (t[<<>>].type = tree[<<>>].type \/ t[<<>>].type = tree[<<>>].type \cup DIR)
        BY <1>1, <1>2, <3>1, LookedUp
      <3> QED
        BY <3>2 DEF RootNode
    <2> HIDE DEF t
    <2>3. /\ IsTree(t2) /\ e.path \in DOMAIN t2
          /\ t2[<<>>].type \subseteq DIR /\ ("proto" \in t2[<<>>].flag => "type" \in t2[<<>>].flag)
      <3>1. CASE conflict /\ wins
        <4>1. /\ t2 = Wiped(t, e.path) /\ IsTree(Wiped(t, e.path))
              /\ DOMAIN Wiped(t, e.path) = DOMAIN t \ Below(t, e.path)
              /\ Wiped(t, e.path)[e.path] = NewNode
              /\ \A q \in DOMAIN t \ Below(t, e.path) : q # e.path => Wiped(t, e.path)[q] = t[q]
          BY <2>1, <3>1, WipedTree
        <4>2. e.path \notin Below(t, e.path) /\ <<>> \notin Below(t, e.path)
          BY <1>1, PathOrder, RootAbove DEF Below, Under
        <4>3. <<>> \in DOMAIN t
          BY <2>1 DEF IsTree
        <4>4. CASE e.path = <<>>
          BY <2>1, <4>1, <4>2, <4>4, NodeFields
        <4>5. CASE e.path # <<>>
          BY <2>1, <2>2, <4>1, <4>2, <4>3, <4>5
        <4> QED
          BY <4>4, <4>5
      <3>2. CASE ~(conflict /\ wins)
        BY <2>1, <2>2, <3>2
      <3> QED
        BY <3>1, <3>2
    <2> HIDE DEF conflict, wins, t2
    <2>4. CASE loses
      <3>1. tree' = t
        BY <1>4, <2>4
      <3> QED
        BY <2>1, <2>2, <3>1 DEF RootNode
    <2>5. CASE ~loses
      <3> DEFINE x == Merged(t2[e.path], e)
      <3>1. tree' = With(t2, e.path, x)
        BY <1>4, <2>5
      <3>2. /\ DOMAIN x = DOMAIN NewNode /\ x.type = t2[e.path].type \cup Kind[e.kind]
            /\ "type" \in x.flag
        BY <1>1, <2>3, TreeFacts, MergedFacts
      <3>3. \A q \in Above(e.path) : q \in DOMAIN t2 /\ DIR \subseteq t2[q].type
        BY <2>3, TreeFacts
      <3> HIDE DEF x
      <3>4. IsTree(tree')
        BY <1>1, <2>3, <3>1, <3>2, <3>3, TreeWith
      <3>5. tree'[<<>>] = IF e.path = <<>> THEN x ELSE t2[<<>>]
        BY <2>3, <3>1 DEF IsTree, With
      <3>6. RootNode'
        BY <1>1, <2>3, <3>2, <3>5 DEF RootNode
      <3> QED
        BY <3>4, <3>6
    <2> QED
      BY <2>4, <2>5
  <1> QED
    BY <1>3, <1>4 DEF LoadEntry

-----------------------------------------------------------------------------
(* check: the tree grows, and a type that was given stays.                 *)

LEMMA TypedFacts ==
    ASSUME NEW np, DOMAIN np = DOMAIN NewNode, NEW m, NEW stb
    PROVE  /\ DOMAIN Completed(Typed(np, m), stb) = DOMAIN NewNode
           /\ np.type \subseteq Completed(Typed(np, m), stb).type
           /\ "type" \in np.flag => Completed(Typed(np, m), stb).type = np.type
           /\ "type" \in Completed(Typed(np, m), stb).flag
  <1> DEFINE n == Typed(np, m)
  <1>1. /\ DOMAIN n = DOMAIN NewNode /\ np.type \subseteq n.type
        /\ "type" \in np.flag => n.type = np.type
        /\ "type" \in n.flag
    BY NodeFields DEF Typed
  <1> HIDE DEF n
  <1>2. /\ DOMAIN Completed(n, stb) = DOMAIN NewNode /\ Completed(n, stb).type = n.type
        /\ n.flag \subseteq Completed(n, stb).flag
    BY <1>1, NodeFields DEF Completed
  <1>3. /\ DOMAIN Completed(n, stb) = DOMAIN NewNode
        /\ np.type \subseteq Completed(n, stb).type
        /\ "type" \in np.flag => Completed(n, stb).type = np.type
        /\ "type" \in Completed(n, stb).flag
    BY <1>1, <1>2
  <1> QED
    BY <1>3 DEF n

LEMMA InheritedFacts ==
    ASSUME NEW np, NEW old, DOMAIN old = DOMAIN NewNode, NEW name
    PROVE  /\ DOMAIN Inherited(np, old, name) = DOMAIN NewNode
           /\ Inherited(np, old, name).type = old.type
           /\ "type" \in Inherited(np, old, name).flag <=> "type" \in old.flag
  <1> DEFINE n == Augmented(np, old)
  <1>1. /\ DOMAIN n = DOMAIN NewNode /\ n.type = old.type /\ ("type" \in n.flag <=> "type" \in old.flag)
    BY NodeFields DEF Augmented
  <1> HIDE DEF n
  <1>2. /\ DOMAIN WithProto(np, n, name) = DOMAIN NewNode /\ WithProto(np, n, name).type = n.type
        /\ "type" \in WithProto(np, n, name).flag <=> "type" \in n.flag
    BY <1>1, NodeFields DEF WithProto
  <1> DEFINE w == [n EXCEPT !.flag = @ \cup (np.flag \cap {"win"})]
  <1>3. /\ DOMAIN w = DOMAIN NewNode /\ w.type = n.type
        /\ "type" \in w.flag <=> "type" \in n.flag
    BY <1>1, NodeFields
  <1>4. Inherited(np, old, name) \in {WithProto(np, n, name), old, w}
    BY DEF Inherited, n
  <1> HIDE DEF w
  <1> QED
    BY <1>1, <1>2, <1>3, <1>4

LEMMA EntriesFacts ==
    ASSUME TypeOK, NEW m
    PROVE  Entries(m) \subseteq Base \X {""} /\ IsFiniteSet(Entries(m))
  <1>1. DOMAIN vice \subseteq Plain /\ IsFiniteSet(DOMAIN vice)
    BY PackageAssumption DEF TypeOK
  <1> DEFINE C == Children(vice, m)  f == [q \in C |-> Last(q)]
  <1>2. C \subseteq DOMAIN vice /\ <<>> \notin C
    BY DEF Children
  <1>3. IsFiniteSet(C)
    BY <1>1, <1>2, FS_Subset
  <1>4. f \in Surjection(C, Entries(m))
    BY DEF Entries, Surjection
  <1>5. \A q \in C : Last(q) \in Base \X {""}
    BY <1>1, <1>2, FrontFacts DEF Plain
  <1>6. IsFiniteSet(Entries(m))
    BY <1>3, <1>4, FS_Surjection
  <1> QED
    BY <1>5, <1>6 DEF Entries

LEMMA ScannedTree ==
    ASSUME TypeOK, NEW p \in DOMAIN tree, NEW np, DOMAIN np = DOMAIN NewNode,
           tree[p].type \subseteq np.type, np.type = DIR, NEW m
    PROVE  LET t == Scan(np, p, m)
           IN  /\ IsTree(t) /\ DOMAIN tree \subseteq DOMAIN t /\ t[p] = np
               /\ \A q \in DOMAIN tree \ {p} :
                     t[q].type = tree[q].type /\ ("type" \in t[q].flag <=> "type" \in tree[q].flag)
               /\ \A q \in DOMAIN tree \ {p} : q = <<>> \/ Front(q) # p => t[q] = tree[q]
               /\ \A q \in DOMAIN t \ DOMAIN tree : q # <<>> /\ Front(q) = p
  <1> DEFINE t == Scan(np, p, m)
             new == {Append(p, name) : name \in Entries(m)}
  <1>1. IsTree(tree) /\ p \in Plain
    BY TreeFacts DEF TypeOK
  <1>2. Entries(m) \subseteq Base \X {""} /\ IsFiniteSet(Entries(m))
    BY EntriesFacts
  <1>3. \A name \in Entries(m) :
            /\ Append(p, name) \in Plain /\ Append(p, name) # <<>> /\ Append(p, name) # p
            /\ Front(Append(p, name)) = p /\ Last(Append(p, name)) = name
            /\ Above(Append(p, name)) = Above(p) \cup {p}
    <2> TAKE name \in Entries(m)
    <2>0. name \in Base \X {""}
      BY <1>2
    <2>1. /\ Append(p, name) \in Plain /\ Append(p, name) # <<>>
          /\ Front(Append(p, name)) = p /\ Last(Append(p, name)) = name
          /\ Above(Append(p, name)) = Above(p) \cup {p}
      BY <1>1, <2>0, PlainAppend
    <2>2. p \notin Above(p)
      BY <1>1, PlainPath, PathOrder
    <2> QED
      BY <2>1, <2>2
  <1>4. IsFiniteSet(new)
    <2> DEFINE f == [name \in Entries(m) |-> Append(p, name)]
    <2>1. f \in Surjection(Entries(m), new)
      BY DEF Surjection
    <2> QED
      BY <1>2, <2>1, FS_Surjection
  <1>5. /\ DOMAIN t = DOMAIN tree \cup new
        /\ \A q \in DOMAIN t : t[q] = IF q = p THEN np
               ELSE IF q # <<>> /\ Front(q) = p /\ Last(q) \in Entries(m)
                    THEN Inherited(np, ChildNode(p, Last(q)), Last(q)) ELSE tree[q]
    BY DEF Scan
  <1> HIDE DEF t
  <1>6. \A q \in DOMAIN tree \cup new : q # <<>> /\ Front(q) = p =>
            ChildNode(p, Last(q)) = IF q \in DOMAIN tree THEN tree[q] ELSE NewNode
    <2> TAKE q \in DOMAIN tree \cup new
    <2>1. q \in Plain
      <3>1. CASE q \in DOMAIN tree
        BY <1>1, <3>1, TreeFacts
      <3>2. CASE q \in new
        BY <1>3, <3>2
      <3> QED
        BY <3>1, <3>2
    <2>2. q # <<>> => Append(Front(q), Last(q)) = q
      BY <2>1, FrontLast DEF Plain
    <2> QED
      BY <2>2 DEF ChildNode
  <1>7. ASSUME NEW q \in DOMAIN t, q # p
        PROVE  /\ DOMAIN t[q] = DOMAIN NewNode
               /\ q \in DOMAIN tree => t[q].type = tree[q].type /\ ("type" \in t[q].flag <=> "type" \in tree[q].flag)
    <2>1. CASE q # <<>> /\ Front(q) = p /\ Last(q) \in Entries(m)
      <3> DEFINE c == IF q \in DOMAIN tree THEN tree[q] ELSE NewNode
      <3>1. t[q] = Inherited(np, c, Last(q))
        BY <1>5, <1>6, <1>7, <2>1
      <3>2. DOMAIN c = DOMAIN NewNode
        BY <1>1, TreeFacts
      <3> HIDE DEF c
      <3>3. DOMAIN t[q] = DOMAIN NewNode /\ t[q].type = c.type /\ ("type" \in t[q].flag <=> "type" \in c.flag)
        BY <3>1, <3>2, InheritedFacts
      <3> QED
        BY <3>3 DEF c
    <2>2. CASE ~(q # <<>> /\ Front(q) = p /\ Last(q) \in Entries(m))
      <3>1. t[q] = tree[q]
        BY <1>5, <1>7, <2>2
      <3>2. q \notin new
        BY <1>3, <2>2
      <3>3. q \in DOMAIN tree
        BY <1>5, <3>2
      <3> QED
        BY <1>1, <3>1, <3>3, TreeFacts
    <2> QED
      BY <2>1, <2>2
  <1>8. t[p] = np /\ DOMAIN tree \subseteq DOMAIN t
    BY <1>5
  <1>9. \A q \in DOMAIN tree : DIR \subseteq tree[q].type => DIR \subseteq t[q].type
    BY <1>7, <1>8
  <1>10. ASSUME NEW r \in DOMAIN t
         PROVE  DOMAIN t[r] = DOMAIN NewNode /\ \A q \in Above(r) : q \in DOMAIN t /\ DIR \subseteq t[q].type
    <2>1. DOMAIN t[r] = DOMAIN NewNode
      BY <1>7, <1>8
    <2>2. CASE r \in DOMAIN tree
      <3>1. \A q \in Above(r) : q \in DOMAIN tree /\ DIR \subseteq tree[q].type
        BY <1>1, <2>2, TreeFacts
      <3> QED
        BY <1>8, <1>9, <2>1, <3>1
    <2>3. CASE r \in new
      <3>1. Above(r) = Above(p) \cup {p}
        BY <1>3, <2>3
      <3>2. \A q \in Above(p) : q \in DOMAIN tree /\ DIR \subseteq tree[q].type
        BY <1>1, TreeFacts
      <3>3. DIR \subseteq t[p].type
        BY <1>8
      <3> QED
        BY <1>8, <1>9, <2>1, <3>1, <3>2, <3>3
    <2> QED
      BY <1>5, <2>2, <2>3
  <1>11. IsFiniteSet(DOMAIN t) /\ DOMAIN t \subseteq Plain /\ <<>> \in DOMAIN t
    <2>1. IsFiniteSet(DOMAIN tree \cup new)
      BY <1>1, <1>4, FS_Union DEF IsTree
    <2> QED
      BY <1>1, <1>3, <1>5, <2>1 DEF IsTree
  <1>12. IsTree(t)
    BY <1>10, <1>11 DEF IsTree
  <1>13. \A q \in DOMAIN tree \ {p} : q = <<>> \/ Front(q) # p => t[q] = tree[q]
    BY <1>5
  <1>14. \A q \in DOMAIN t \ DOMAIN tree : q # <<>> /\ Front(q) = p
    BY <1>3, <1>5
  <1> QED
    BY <1>7, <1>8, <1>12, <1>13, <1>14 DEF t

LEMMA CheckedTree ==
    ASSUME TypeOK, NEW p \in DOMAIN tree, NEW m
    PROVE  LET t == Checked(tree[p], p, m)
           IN  /\ IsTree(t) /\ DOMAIN tree \subseteq DOMAIN t
               /\ \A q \in DOMAIN tree :
                     /\ "type" \in tree[q].flag => t[q].type = tree[q].type /\ "type" \in t[q].flag
                     /\ q # p => t[q].type = tree[q].type /\ ("type" \in t[q].flag <=> "type" \in tree[q].flag)
               /\ t[p] # tree[p] => "proto" \in tree[p].flag /\ "type" \in t[p].flag
               /\ \A q \in DOMAIN tree \ {p} : q = <<>> \/ Front(q) # p => t[q] = tree[q]
               /\ \A q \in DOMAIN t \ DOMAIN tree : q # <<>> /\ Front(q) = p /\ t[p].type = DIR
  <1> DEFINE np == tree[p]
             stb == IF "type" \notin np.flag /\ "copy" \notin np.flag THEN vice[m] ELSE Stat(m)
             n == Completed(Typed(np, m), stb)
             t == Checked(np, p, m)
  <1>1. IsTree(tree) /\ DOMAIN np = DOMAIN NewNode /\ p \in Plain
    BY TreeFacts DEF TypeOK
  <1>2. CASE "proto" \notin np.flag \/ ("type" \in np.flag /\ np.type = LNK)
    <2>1. t = tree
      BY <1>2 DEF Checked
    <2> HIDE DEF t, np
    <2> QED
      BY <1>1, <2>1 DEF t, np
  <1>3. CASE ~("proto" \notin np.flag \/ ("type" \in np.flag /\ np.type = LNK))
    <2>1. t = IF n.type = DIR THEN Scan(n, p, m) ELSE With(tree, p, n)
      BY <1>3 DEF Checked
    <2>2. /\ DOMAIN n = DOMAIN NewNode /\ np.type \subseteq n.type
          /\ "type" \in np.flag => n.type = np.type
          /\ "type" \in n.flag
      BY <1>1, TypedFacts
    <2> HIDE DEF n, t
    <2>3. CASE n.type = DIR
      <3>1. LET u == Scan(n, p, m)
            IN /\ IsTree(u) /\ DOMAIN tree \subseteq DOMAIN u /\ u[p] = n
               /\ \A q \in DOMAIN tree \ {p} :
                     u[q].type = tree[q].type /\ ("type" \in u[q].flag <=> "type" \in tree[q].flag)
               /\ \A q \in DOMAIN tree \ {p} : q = <<>> \/ Front(q) # p => u[q] = tree[q]
               /\ \A q \in DOMAIN u \ DOMAIN tree : q # <<>> /\ Front(q) = p
        BY <2>2, <2>3, ScannedTree
      <3>2. t = Scan(n, p, m)
        BY <2>1, <2>3
      <3> QED
        BY <1>3, <2>2, <2>3, <3>1, <3>2 DEF t, np
    <2>4. CASE n.type # DIR
      <3>1. t = With(tree, p, n)
        BY <2>1, <2>4
      <3>2. DOMAIN t = DOMAIN tree /\ t[p] = n /\ \A q \in DOMAIN tree : q # p => t[q] = tree[q]
        BY <3>1 DEF With
      <3>3. \A q \in Above(p) : q \in DOMAIN tree /\ DIR \subseteq tree[q].type
        BY <1>1, TreeFacts
      <3>4. IsTree(t)
        BY <1>1, <2>2, <3>1, <3>3, TreeWith
      <3> QED
        BY <1>3, <2>2, <3>2, <3>4 DEF t, np
    <2> QED
      BY <2>3, <2>4
  <1> QED
    BY <1>2, <1>3

(* The order in which the children of a directory are visited.             *)
LEMMA OrderFacts ==
    ASSUME NEW K, IsFiniteSet(K), NEW o \in SetToSeqs(K)
    PROVE  /\ o \in Seq(K)
           /\ \A i, j \in 1..Len(o) : i # j => o[i] # o[j]
           /\ \A x \in K : \E i \in 1..Len(o) : o[i] = x
  <1> DEFINE n == Cardinality(K)  R == {o[i] : i \in 1..n}
  <1>1. n \in Nat
    BY FS_CardinalityType
  <1>2. o \in [1..n -> K] /\ \A i, j \in 1..n : i # j => o[i] # o[j]
    BY DEF SetToSeqs
  <1>3. o \in Seq(K)
    BY <1>1, <1>2, SeqDef
  <1>4. Len(o) = n
    BY <1>1, <1>2, <1>3, LenProperties
  <1>5. R \subseteq K /\ IsFiniteSet(R)
    BY <1>2, FS_Subset
  <1>6. o \in Surjection(1..n, R) /\ o \in Injection(1..n, R)
    BY <1>2 DEF Surjection, Injection, IsInjective
  <1>7. IsFiniteSet(1..n) /\ Cardinality(1..n) = n
    BY <1>1, FS_Interval
  <1>8. Cardinality(R) = n
    <2> HIDE DEF R, n
    <2> QED
      BY <1>6, <1>7, FS_Surjection
  <1>9. R = K
    <2> HIDE DEF R
    <2> QED
      BY <1>5, <1>8, FS_Subset
  <1> QED
    BY <1>2, <1>3, <1>4, <1>9

Order(o, t, p) ==
    /\ o \in Seq(DOMAIN t)
    /\ \A i, j \in 1..Len(o) : i # j => o[i] # o[j]
    /\ \A i \in 1..Len(o) : t[p].type = DIR /\ o[i] # <<>> /\ Front(o[i]) = p
    /\ t[p].type = DIR => \A q \in Children(t, p) : \E i \in 1..Len(o) : o[i] = q

LEMMA DescendFacts ==
    ASSUME NEW t, IsTree(t), NEW p, work \in Seq(DOMAIN t), work # <<>>, Descend(t, p)
    PROVE  /\ work' \in Seq(DOMAIN t)
           /\ \E o : Order(o, t, p) /\ work' = o \o Tail(work) /\ Len(work') = Len(o) + (Len(work) - 1)
  <1> DEFINE K == IF t[p].type = DIR THEN Children(t, p) ELSE {}
  <1>1. PICK o \in SetToSeqs(K) : work' = o \o Tail(work)
    BY DEF Descend
  <1>2. K \subseteq DOMAIN t /\ IsFiniteSet(K)
    <2>1. K \subseteq DOMAIN t
      BY DEF Children
    <2> QED
      BY <2>1, FS_Subset DEF IsTree
  <1>3. /\ o \in Seq(K)
        /\ \A i, j \in 1..Len(o) : i # j => o[i] # o[j]
        /\ \A x \in K : \E i \in 1..Len(o) : o[i] = x
    <2> HIDE DEF K
    <2> QED
      BY <1>1, <1>2, OrderFacts
  <1>4. \A i \in 1..Len(o) : o[i] \in K
    BY <1>3, ElementOfSeq
  <1>5. o \in Seq(DOMAIN t)
    BY <1>2, <1>3, SeqMonotonic
  <1>6. Tail(work) \in Seq(DOMAIN t) /\ Len(Tail(work)) = Len(work) - 1
    BY HeadTailProperties
  <1>7. work' \in Seq(DOMAIN t) /\ Len(work') = Len(o) + (Len(work) - 1)
    BY <1>1, <1>5, <1>6, ConcatProperties
  <1>8. Order(o, t, p)
    BY <1>3, <1>4, <1>5 DEF Children, Order
  <1> QED
    BY <1>1, <1>7, <1>8

-----------------------------------------------------------------------------
(* What a step does to the disk.                                           *)

LEMMA Untouched ==
    ASSUME NEW p, p \notin Altered
    PROVE  /\ p \in DOMAIN disk <=> p \in DOMAIN disk'
           /\ p \in DOMAIN disk => disk'[p] = disk[p]
  BY DEF Altered

LEMMA UnchangedDisk ==
    ASSUME disk' = disk
    PROVE  Altered = {}
  BY DEF Altered

LEMMA SuffixFree ==
    ASSUME NEW d, IsDisk(d), NEW p \in Path, p # <<>>, NEW s \in {"new", "old", "busy"}
    PROVE  /\ Ext(p, s) \in Path /\ Ext(p, s) # <<>> /\ Ext(p, s) \notin Plain
           /\ Front(Ext(p, s)) = Front(p) /\ Above(Ext(p, s)) = Above(p)
           /\ Below(d, Ext(p, s)) = {}
           /\ Ext(p, s) \in DOMAIN d => d[Ext(p, s)].type = REG
  <1>1. s \in Suffix /\ s # ""
    BY DEF Suffix
  <1>2. /\ Ext(p, s) \in Path /\ Ext(p, s) # <<>> /\ Ext(p, s) \notin Plain
        /\ Front(Ext(p, s)) = Front(p) /\ Above(Ext(p, s)) = Above(p)
    BY <1>1, ExtFacts
  <1>3. Ext(p, s) \in DOMAIN d => d[Ext(p, s)].type = REG
    BY <1>2 DEF IsDisk
  <1>4. Below(d, Ext(p, s)) = {}
    BY <1>3, TypesDiffer, DiskFacts, NothingBelow
  <1> QED
    BY <1>2, <1>3, <1>4

(* rm of one name.                                                         *)
LEMMA RemovedFacts ==
    ASSUME TypeOK, NEW p \in Path, p # <<>>, disk' = Removed(p)
    PROVE  /\ IsDisk(disk')
           /\ Altered \subseteq {p} \cup {q \in {Ext(p, "busy")} : p \in busy}
           /\ Below(disk, p) # {} => disk' = disk
           /\ Below(disk, p) = {} => p \notin DOMAIN disk'
  <1>1. IsDisk(disk) /\ busy \subseteq Plain
    BY PackageAssumption DEF TypeOK
  <1>2. CASE Below(disk, p) # {}
    <2>1. disk' = disk
      BY <1>2 DEF Removed
    <2> QED
      BY <1>1, <1>2, <2>1, UnchangedDisk
  <1>3. CASE Below(disk, p) = {} /\ p \notin busy
    <2>1. disk' = Without(disk, {p})
      BY <1>3 DEF Removed
    <2>2. IsDisk(disk')
      BY <1>1, <1>3, <2>1, DiskWithout
    <2>3. DOMAIN disk' = DOMAIN disk \ {p} /\ \A q \in DOMAIN disk \ {p} : disk'[q] = disk[q]
      BY <2>1 DEF Without
    <2>4. Altered \subseteq {p} /\ p \notin DOMAIN disk'
      BY <2>3 DEF Altered
    <2> QED
      BY <1>3, <2>2, <2>4
  <1>4. CASE Below(disk, p) = {} /\ p \in busy
    <2> DEFINE b == Ext(p, "busy")  d == Without(disk, {p})
    <2>1. disk' = With(d, b, disk[p])
      BY <1>4 DEF Removed
    <2>2. p \in DOMAIN disk /\ disk[p].type = REG /\ p \in Plain
      BY <1>1, <1>4 DEF TypeOK
    <2>3. Front(p) \in DOMAIN disk /\ disk[Front(p)].type = DIR /\ Front(p) # p /\ Fits(disk[p], p)
      BY <1>1, <2>2, DiskFacts, PathOrder
    <2>4. IsDisk(d)
      BY <1>1, <1>4, DiskWithout
    <2>5. DOMAIN d = DOMAIN disk \ {p} /\ \A q \in DOMAIN disk \ {p} : d[q] = disk[q]
      BY WithoutFacts
    <2>6. /\ b \in Path /\ b # <<>> /\ b \notin Plain /\ Front(b) = Front(p) /\ Below(d, b) = {}
      BY <2>4, SuffixFree
    <2>7. Fits(disk[p], b)
      BY <2>2, <2>3, TypesDiffer DEF Fits
    <2> HIDE DEF d, b
    <2>8. Front(b) \in DOMAIN d /\ d[Front(b)].type = DIR
      BY <2>3, <2>5, <2>6
    <2>9. IsDisk(disk')
      BY <2>1, <2>4, <2>6, <2>7, <2>8, DiskWith
    <2>10. DOMAIN disk' = DOMAIN d \cup {b} /\ \A q \in DOMAIN d : q # b => disk'[q] = d[q]
      BY <2>1 DEF With
    <2>11. p # b
      BY <2>2, <2>6
    <2>12. Altered \subseteq {p, b}
      BY <2>5, <2>10 DEF Altered
    <2>13. p \notin DOMAIN disk'
      BY <2>5, <2>10, <2>11
    <2>14. b \in {q \in {Ext(p, "busy")} : p \in busy}
      BY <1>4 DEF b
    <2> QED
      BY <1>4, <2>9, <2>12, <2>13, <2>14
  <1> QED
    BY <1>2, <1>3, <1>4

(* rm of a name that is no text in use, unless nobody may write it.        *)
LEMMA RemovedUnless ==
    ASSUME TypeOK, NEW p \in Path, p # <<>>, p \notin busy, RemoveUnlessReadOnly(p)
    PROVE  /\ IsDisk(disk') /\ Altered \subseteq {p}
           /\ opts.lazy => disk' = disk
           /\ busy' = busy
           /\ p \in DOMAIN disk' => p \in DOMAIN disk /\ disk'[p] = disk[p]
  <1>1. IsDisk(disk)
    BY DEF TypeOK
  <1>2. CASE disk' = disk
    BY <1>1, <1>2, UnchangedDisk DEF RemoveUnlessReadOnly
  <1>3. CASE disk' = Removed(p) /\ ~opts.lazy
    <2>1. /\ IsDisk(disk') /\ Altered \subseteq {p} \cup {q \in {Ext(p, "busy")} : p \in busy}
          /\ Below(disk, p) # {} => disk' = disk
          /\ Below(disk, p) = {} => p \notin DOMAIN disk'
      BY <1>3, RemovedFacts
    <2>2. busy' = busy
      BY DEF RemoveUnlessReadOnly
    <2>3. Altered \subseteq {p}
      BY <2>1
    <2>4. p \in DOMAIN disk' => p \in DOMAIN disk /\ disk'[p] = disk[p]
      BY <2>1
    <2> QED
      BY <1>3, <2>1, <2>2, <2>3, <2>4
  <1> QED
    BY <1>2, <1>3 DEF RemoveUnlessReadOnly, SetDisk

(* A new entry of a directory.                                             *)
LEMMA MadeFacts ==
    ASSUME TypeOK, NEW p \in Path, NEW x, Fits(x, p), HasRoom(p), disk' = With(disk, p, x)
    PROVE  /\ IsDisk(disk') /\ Altered \subseteq {p}
           /\ DOMAIN disk' = DOMAIN disk \cup {p} /\ disk'[p] = x
  <1>1. IsDisk(disk) /\ p \notin DOMAIN disk /\ p # <<>>
    BY DEF TypeOK, HasRoom, IsDisk
  <1>2. Front(p) \in DOMAIN disk /\ disk[Front(p)].type = DIR
    BY NodeFields, TypesDiffer DEF HasRoom, Lstat, NoInode, Inode
  <1>3. Below(disk, p) = {}
    BY <1>1, NothingBelow
  <1>4. IsDisk(disk')
    BY <1>1, <1>2, <1>3, DiskWith
  <1>5. DOMAIN disk' = DOMAIN disk \cup {p} /\ disk'[p] = x /\ \A q \in DOMAIN disk : q # p => disk'[q] = disk[q]
    BY DEF With
  <1>6. Altered \subseteq {p}
    BY <1>5 DEF Altered
  <1> QED
    BY <1>4, <1>5, <1>6

(* A change of the attributes or the data of an inode.                     *)
LEMMA ChangedFacts ==
    ASSUME TypeOK, NEW p, NEW x, p \in DOMAIN disk => Fits(x, p) /\ x.type = disk[p].type,
           disk' = [disk EXCEPT ![p] = x]
    PROVE  /\ IsDisk(disk') /\ Altered \subseteq {p}
           /\ DOMAIN disk' = DOMAIN disk
           /\ p \in DOMAIN disk => disk'[p] = x
  <1>1. IsDisk(disk)
    BY DEF TypeOK
  <1>2. DOMAIN disk' = DOMAIN disk /\ \A q \in DOMAIN disk : q # p => disk'[q] = disk[q]
    OBVIOUS
  <1>3. p \in DOMAIN disk => disk'[p] = x
    OBVIOUS
  <1>4. IsDisk(disk')
    <2>1. CASE p \in DOMAIN disk
      BY <1>1, <2>1, DiskExcept
    <2>2. CASE p \notin DOMAIN disk
      <3>1. \A q \in DOMAIN disk : disk'[q] = disk[q]
        BY <1>2, <2>2
      <3> QED
        BY <1>1, <1>2, <3>1 DEF IsDisk
    <2> QED
      BY <2>1, <2>2
  <1> QED
    BY <1>2, <1>3, <1>4 DEF Altered

-----------------------------------------------------------------------------
(* What is left alone by a step of update.                                 *)

Frame == UNCHANGED <<conf, opts, vice, before, line, tree, work, cur>>

LEMMA TypeKept ==
    ASSUME TypeOK, UNCHANGED <<conf, opts, vice, line, tree>>,
           pc' \in Running \cup {"done"}, ret' \in {0, -1}, status' \in {0, 2, 4},
           failed' \in BOOLEAN, after' \in Running,
           work' \in Seq(DOMAIN tree), cur' \in DOMAIN tree, IsDisk(disk'),
           \A p \in busy' : p \in BusyTexts \cap DOMAIN disk' /\ disk'[p].type = REG
    PROVE  TypeOK'
  BY DEF TypeOK

LEMMA BusyKept ==
    ASSUME TypeOK, busy' \subseteq busy, \A p \in busy' : p \notin Altered
    PROVE  \A p \in busy' : p \in BusyTexts \cap DOMAIN disk' /\ disk'[p].type = REG
  <1> TAKE p \in busy'
  <1>1. p \in BusyTexts \cap DOMAIN disk /\ disk[p].type = REG
    BY DEF TypeOK
  <1>2. p \in DOMAIN disk' /\ disk'[p] = disk[p]
    BY <1>1, Untouched
  <1> QED
    BY <1>1, <1>2

LEMMA OriginKept ==
    ASSUME Inv, pc \in Running, UNCHANGED <<before, tree>>,
           \A p \in Altered : p \in Plain /\ p \in DOMAIN disk' =>
               \/ p \in DOMAIN disk /\ disk'[p].type = disk[p].type
               \/ p \in DOMAIN tree /\ disk'[p].type = tree[p].type
    PROVE  Origin'
  <1>1. ASSUME NEW p \in DOMAIN disk', p \in Plain
        PROVE  \/ p \in DOMAIN before /\ disk'[p].type = before[p].type
               \/ p \in DOMAIN tree /\ disk'[p].type = tree[p].type
    <2>1. CASE p \in Altered
      BY <1>1, <2>1 DEF Inv, Origin
    <2>2. CASE p \notin Altered
      BY <1>1, <2>2, Untouched DEF Inv, Origin
    <2> QED
      BY <2>1, <2>2
  <1> QED
    BY <1>1 DEF Origin

LEMMA FilesKept ==
    ASSUME Inv, pc \in Running, UNCHANGED <<before, tree, vice>>, busy' \subseteq busy,
           \A p \in Altered : p # cur => ~Twice(p),
           \A p \in DOMAIN before : p = cur /\ Twice(p) => Whole(p)' \/ Aside(p)'
    PROVE  FilesWhole'
  <1>1. ASSUME NEW p \in DOMAIN before, Twice(p), p # cur
        PROVE  Whole(p)'
    <2>1. Whole(p) \/ Aside(p)
      BY <1>1 DEF Inv, FilesWhole
    <2>2. Whole(p)
      BY <1>1, <2>1 DEF Aside
    <2>3. p \in DOMAIN disk' /\ disk'[p] = disk[p]
      BY <1>1, <2>2, Untouched DEF Whole, IsFile
    <2> QED
      BY <2>2, <2>3 DEF Whole, IsFile, Stat, MasterData, Master
  <1>2. \A p : Twice(p)' <=> Twice(p)
    BY DEF Twice, IsFile, Walked
  <1>3. ASSUME NEW p \in DOMAIN before, Twice(p), p = cur
        PROVE  Whole(p)' \/ Aside(p)'
    BY <1>3
  <1> QED
    BY <1>1, <1>2, <1>3 DEF FilesWhole

(* The node is still whole when its entry of the disk is left alone.       *)
LEMMA CurKept ==
    ASSUME Inv, pc \in Running, pc # "mvbusy", UNCHANGED <<before, tree, vice>>, busy' \subseteq busy,
           NEW p \in DOMAIN before, Twice(p), p \notin Altered
    PROVE  Whole(p)'
  <1>1. Whole(p)
    BY DEF Inv, FilesWhole, Aside
  <1>2. p \in DOMAIN disk' /\ disk'[p] = disk[p]
    BY <1>1, Untouched DEF Whole, IsFile
  <1> QED
    BY <1>1, <1>2 DEF Whole, IsFile, Stat, MasterData, Master

LEMMA NotTwice ==
    ASSUME TypeOK, NEW p, p \notin Plain
    PROVE  ~Twice(p) /\ p \notin busy /\ p \notin DOMAIN tree
  BY PackageAssumption DEF TypeOK, IsTree, Twice, IsFile

LEMMA AsBefore ==
    ASSUME disk = before, NEW p \in DOMAIN before, Twice(p)
    PROVE  Whole(p)
  BY DEF Twice, Whole, IsFile

(* What every step of update keeps but rm's victims and the stages.        *)
LEMMA StepKeeps ==
    ASSUME Inv, pc \in Running, Frame, pc' \in Running, ret' \in {0, -1}, status' \in {0, 2, 4},
           failed' \in BOOLEAN, after' \in Running, IsDisk(disk'), busy' \subseteq busy,
           opts.lazy => disk' = disk,
           \A p \in Altered : p \in Plain /\ p \in DOMAIN disk' =>
               \/ p \in DOMAIN disk /\ disk'[p].type = disk[p].type
               \/ p \in DOMAIN tree /\ disk'[p].type = tree[p].type,
           \A p \in Altered : p # cur => ~Twice(p),
           \A p \in DOMAIN before : p = cur /\ Twice(p) => Whole(p)' \/ Aside(p)',
           \A p \in busy' : p \in Altered => p \in DOMAIN disk' /\ disk'[p].type = REG
    PROVE  TypeOK' /\ Phases' /\ RootNode' /\ Origin' /\ FilesWhole'
  <1>1. TypeOK /\ UNCHANGED <<conf, opts, vice, before, line, tree, work, cur>>
    BY DEF Inv, Frame
  <1>2. ASSUME NEW p \in busy'
        PROVE  p \in BusyTexts \cap DOMAIN disk' /\ disk'[p].type = REG
    <2>1. p \in BusyTexts /\ p \in DOMAIN disk /\ disk[p].type = REG
      BY <1>1 DEF TypeOK
    <2> QED
      BY <1>2, <2>1, Untouched
  <1>3. work' \in Seq(DOMAIN tree) /\ cur' \in DOMAIN tree
    BY <1>1 DEF TypeOK
  <1>4. TypeOK'
    BY <1>1, <1>2, <1>3, TypeKept
  <1>5. Phases' /\ RootNode'
    <2>1. pc' \notin {"load", "check"}
      BY DEF Running
    <2> QED
      BY <1>1, <2>1 DEF Inv, Phases, RootNode
  <1>6. Origin'
    BY <1>1, OriginKept
  <1>7. FilesWhole'
    BY <1>1, FilesKept
  <1> QED
    BY <1>4, <1>5, <1>6, <1>7

(* A step that leaves every plain name alone.                              *)
LEMMA BesideKeeps ==
    ASSUME Inv, pc \in Running, pc # "mvbusy", Frame, pc' \in Running, ret' \in {0, -1},
           status' \in {0, 2, 4}, failed' \in BOOLEAN, after' \in Running, IsDisk(disk'),
           busy' = busy, opts.lazy => disk' = disk, Altered \cap Plain = {}
    PROVE  /\ TypeOK' /\ Phases' /\ RootNode' /\ Origin' /\ FilesWhole'
           /\ cur \in DOMAIN disk' <=> cur \in DOMAIN disk
           /\ cur \in DOMAIN disk => disk'[cur] = disk[cur]
  <1>1. TypeOK /\ UNCHANGED <<before, tree, vice>>
    BY DEF Inv, Frame
  <1>2. cur \in DOMAIN tree /\ IsTree(tree)
    BY <1>1 DEF TypeOK
  <1>3. cur \in Plain
    BY <1>2, TreeFacts
  <1>4. \A p \in Altered : ~Twice(p) /\ p \notin busy
    BY <1>1, NotTwice
  <1>5. ASSUME NEW p \in DOMAIN before, p = cur, Twice(p)
        PROVE  Whole(p)'
    BY <1>1, <1>3, <1>5, CurKept
  <1>6. TypeOK' /\ Phases' /\ RootNode' /\ Origin' /\ FilesWhole'
    BY <1>4, <1>5, StepKeeps
  <1> QED
    BY <1>3, <1>6, Untouched

(* A step that changes the entry of a node that is no file.                *)
LEMMA OtherKeeps ==
    ASSUME Inv, pc \in Running, Frame, pc' \in Running, ret' \in {0, -1}, tree[cur].type # REG,
           status' \in {0, 2, 4}, failed' \in BOOLEAN, after' \in Running, IsDisk(disk'),
           busy' = busy, cur \in busy => disk' = disk, opts.lazy => disk' = disk, Altered \subseteq {cur},
           cur \in DOMAIN disk' =>
               (cur \in DOMAIN disk /\ disk'[cur].type = disk[cur].type) \/ disk'[cur].type = tree[cur].type
    PROVE  TypeOK' /\ Phases' /\ RootNode' /\ Origin' /\ FilesWhole'
  <1>1. TypeOK /\ cur \in DOMAIN tree
    BY DEF Inv, TypeOK
  <1>2. ~Twice(cur)
    BY DEF Twice, IsFile
  <1>3. \A p \in busy' : p \notin Altered
    BY UnchangedDisk
  <1> QED
    BY <1>1, <1>2, <1>3, StepKeeps

-----------------------------------------------------------------------------
(* update: one lemma for each step.  A step keeps the invariant, changes   *)
(* nothing under the option n, and else only what is its own.              *)

Good == Inv' /\ (opts.lazy => disk' = disk) /\ \A p \in Altered : Owned(p)

LEMMA CurFacts ==
    ASSUME Inv
    PROVE  /\ TypeOK /\ IsTree(tree) /\ IsDisk(disk) /\ ret \in {0, -1} /\ status \in {0, 2, 4}
           /\ failed \in BOOLEAN /\ after \in Running
           /\ cur \in DOMAIN tree /\ cur \in Plain /\ cur \in Path
           /\ tree[cur].type \in Handled \ {DIR} => cur # <<>>
           /\ tree[cur].type # {} => Owned(cur)
  <1>1. /\ TypeOK /\ IsTree(tree) /\ IsDisk(disk) /\ ret \in {0, -1} /\ status \in {0, 2, 4}
        /\ failed \in BOOLEAN /\ after \in Running /\ cur \in DOMAIN tree
    BY DEF Inv, TypeOK
  <1>2. cur \in Plain /\ cur \in Path
    BY <1>1, TreeFacts
  <1>3. tree[cur].type \in Handled \ {DIR} => cur # <<>>
    <2>1. tree[<<>>].type \subseteq {4}
      BY DEF Inv, RootNode, DIR
    <2>2. tree[<<>>].type # {} => tree[<<>>].type = {4}
      BY <2>1
    <2> QED
      BY <2>2, TypesDiffer DEF DIR
  <1>4. tree[cur].type # {} => Owned(cur)
    BY <1>1 DEF Owned
  <1> QED
    BY <1>1, <1>2, <1>3, <1>4 DEF Running

LEMMA VisitGood == ASSUME Inv, VisitNode PROVE Good
  <1> DEFINE p == Head(work)  np == tree[p]
             there == p \in DOMAIN disk
             other == there /\ disk[p].type # np.type
  <1>1. /\ TypeOK /\ IsTree(tree) /\ IsDisk(disk) /\ ret \in {0, -1} /\ status \in {0, 2, 4}
        /\ failed \in BOOLEAN /\ after \in Running
    BY CurFacts
  <1>2. /\ UNCHANGED <<conf, opts, vice, before, line, tree, disk, busy, status, failed>>
        /\ pc = "update" /\ work # <<>> /\ work \in Seq(DOMAIN tree) /\ Descend(tree, p) /\ cur' = p
    BY <1>1 DEF VisitNode, Update, world, TypeOK
  <1>3. p \in DOMAIN tree /\ work' \in Seq(DOMAIN tree)
    BY <1>1, <1>2, HeadTailProperties, DescendFacts
  <1>4. p \in Plain /\ p \in Path
    BY <1>1, <1>3, TreeFacts
  <1>5. /\ Running \cup {"done"} # {} /\ "update" \in Running /\ "rm" \in Running
        /\ {"spec", "link", "mkdir", "reg", "update"} \subseteq Running
    BY DEF Running
  <1>6. \/ pc' = "update" /\ UNCHANGED <<ret, removal>>
        \/ /\ np.type \in Handled
           /\ ret' = IF there /\ ~other THEN 0 ELSE -1
           /\ IF other
              THEN /\ pc' = "rm" /\ after' = Routine(np.type)
                   /\ victims' = {p} \cup Below(disk, p)
              ELSE pc' = Routine(np.type) /\ UNCHANGED removal
    BY <1>2 DEF VisitNode, Handled
  <1>7. np.type \in Handled => /\ Routine(np.type) \in {"spec", "link", "mkdir", "reg", "update"}
                               /\ Routine(np.type) = "spec" => np.type \in {CHR, BLK}
                               /\ Routine(np.type) = "link" => np.type = LNK
                               /\ Routine(np.type) = "mkdir" => np.type = DIR
                               /\ Routine(np.type) = "reg" => np.type = REG
    BY RoutineFacts
  <1> HIDE DEF p, np, there, other
  <1>8. /\ pc' \in {"rm", "spec", "link", "mkdir", "reg", "update"} /\ ret' \in {0, -1} /\ after' \in Running
        /\ pc' = "rm" => other
    BY <1>1, <1>5, <1>6, <1>7 DEF removal
  <1>9. TypeOK'
    <2>1. \A q \in busy' : q \in BusyTexts \cap DOMAIN disk' /\ disk'[q].type = REG
      BY <1>1, <1>2 DEF TypeOK
    <2>2. pc' \in Running
      BY <1>5, <1>8
    <2> QED
      BY <1>1, <1>2, <1>3, <1>8, <2>1, <2>2, TypeKept
  <1>10. Phases' /\ RootNode'
    BY <1>2, <1>5, <1>8 DEF Inv, Phases, RootNode
  <1>11. Origin' /\ FilesWhole'
    <2>1. Origin'
      BY <1>2, <1>5 DEF Inv, Origin
    <2>2. \A q \in DOMAIN before : Twice(q) => Whole(q)
      BY <1>2, <1>5 DEF Inv, FilesWhole, Aside
    <2>3. FilesWhole'
      BY <1>2, <2>2 DEF FilesWhole, Twice, Whole, IsFile, Walked, Stat, MasterData, Master
    <2> QED
      BY <2>1, <2>3
  <1>12. NewWhole'
    BY <1>8 DEF NewWhole
  <1>13. there => \/ p \in DOMAIN before /\ disk[p].type = before[p].type
                  \/ disk[p].type = np.type
    BY <1>2, <1>4, <1>5 DEF Inv, Origin, there, np
  <1>14. ASSUME pc' = "rm"
         PROVE  Inv'
    <2>1. /\ other /\ np.type \in Handled /\ ret' = -1 /\ after' = Routine(np.type)
          /\ victims' = {p} \cup Below(disk, p)
      BY <1>6, <1>8, <1>14
    <2>2. /\ p \in DOMAIN disk /\ disk[p].type # np.type
          /\ p \in DOMAIN before /\ before[p].type # np.type
      BY <1>13, <2>1 DEF other, there
    <2>3. p # <<>>
      <3>1. p = <<>> => disk[p].type = DIR
        BY <1>1 DEF IsDisk
      <3>2. p = <<>> => np.type \subseteq DIR
        BY DEF Inv, RootNode, np
      <3>3. np.type # {}
        BY <2>1, TypesDiffer
      <3> QED
        BY <2>2, <3>1, <3>2, <3>3 DEF DIR
    <2>4. \A v \in Below(disk, p) : v \in Path /\ Under(v, p) /\ np.type # DIR
      <3> TAKE v \in Below(disk, p)
      <3>1. disk[p].type = DIR
        BY <1>1, <2>2, DiskFacts
      <3> QED
        BY <1>1, <2>2, <3>1 DEF IsDisk, Below
    <2>5. Stages'
      BY <1>2, <1>14, <2>1 DEF Stages, Clearing, FileSteps, np
    <2>6. Present'
      BY <1>2, <1>14, <2>1 DEF Present, FileSteps
    <2>7. Victims'
      <3>1. ASSUME NEW v \in victims'
            PROVE  Victim(v)'
        <4>1. v \in Path /\ (v = p \/ (Under(v, p) /\ np.type # DIR))
          BY <1>4, <2>1, <2>4
        <4> QED
          BY <1>2, <2>1, <2>2, <2>3, <4>1 DEF Victim, np
      <3> QED
        BY <3>1 DEF Victims
    <2> QED
      BY <1>9, <1>10, <1>11, <1>12, <2>5, <2>6, <2>7 DEF Inv
  <1>15. ASSUME pc' # "rm"
         PROVE  Inv'
    <2>1. pc' = "update" \/ (np.type \in Handled /\ pc' = Routine(np.type) /\ ~other
                             /\ ret' = IF there THEN 0 ELSE -1)
      BY <1>6, <1>15
    <2>2. Stages'
      BY <1>2, <1>7, <1>8, <1>15, <2>1 DEF Stages, FileSteps, np
    <2>3. pc' # "update" => (there => disk[p].type = np.type) /\ (ret' = 0 => there)
      BY <2>1 DEF other
    <2>4. Present'
      BY <1>2, <1>8, <1>15, <2>3 DEF Present, Wanted, FileSteps, Running, there, np
    <2>5. Victims'
      BY <1>15 DEF Victims
    <2> QED
      BY <1>9, <1>10, <1>11, <1>12, <2>2, <2>4, <2>5 DEF Inv
  <1>16. Inv'
    BY <1>14, <1>15
  <1> QED
    BY <1>2, <1>16, UnchangedDisk DEF Good

(* The child of a directory on the way to what is below it.                *)
LEMMA ChildOnWay ==
    ASSUME NEW v \in Path, NEW q \in Path, q # <<>>, v = q \/ q \in Above(v)
    PROVE  Front(q) \in Above(v) /\ SubSeq(v, 1, Len(Front(q)) + 1) = q
  <1> DEFINE c == Front(q)  r == SubSeq(v, 1, Len(c) + 1)
  <1>1. Len(q) \in Nat \ {0} /\ Len(v) \in Nat
    BY LenProperties, EmptySeq DEF Path
  <1>2. Len(c) = Len(q) - 1 /\ c \in Above(q)
    BY FrontFacts DEF Path
  <1>3. c \in Above(v)
    BY <1>2, PathOrder
  <1>4. Len(q) <= Len(v) /\ \A i \in 1..Len(q) : q[i] = v[i]
    <2>1. CASE v = q
      BY <1>1, <2>1
    <2>2. CASE q \in Above(v)
      BY <1>1, <2>2, AboveIff DEF Path
    <2> QED
      BY <2>1, <2>2
  <1>5. Len(c) + 1 = Len(q) /\ Len(q) \in 0..Len(v)
    BY <1>1, <1>2, <1>4
  <1>6. r \in Path /\ Len(r) = Len(q) /\ \A i \in 1..Len(q) : r[i] = v[i]
    BY <1>5, PrefixFacts DEF Path
  <1>7. r = q
    BY <1>4, <1>6, SeqEqual DEF Path
  <1> QED
    BY <1>3, <1>7

(* What rm may remove is no file that a line names.                        *)
LEMMA VictimFacts ==
    ASSUME Inv, pc = "rm", NEW v, Victim(v)
    PROVE  /\ v \in Path /\ v # <<>> /\ ~Twice(v) /\ Owned(v)
           /\ v \in busy => Owned(Ext(v, "busy"))
           /\ ret = 0 => v # cur
  <1>1. /\ TypeOK /\ IsTree(tree) /\ IsDisk(disk) /\ cur \in DOMAIN tree /\ cur \in Plain /\ cur \in Path
        /\ tree[cur].type \in Handled /\ tree[cur].type # {}
    BY CurFacts, TypesDiffer DEF Inv, Stages
  <1>2. v \in Path
    BY DEF Victim
  <1>3. v \in busy => v \in BusyTexts /\ v \in Plain
    BY <1>1, PackageAssumption DEF TypeOK
  <1>4. CASE v = cur /\ ret = -1 /\ cur \in DOMAIN before /\ before[cur].type # tree[cur].type /\ cur # <<>>
    <2>1. ~Twice(v) /\ Owned(v)
      BY <1>1, <1>4, CurFacts DEF Twice, IsFile
    <2>2. v \in busy => Owned(Ext(v, "busy"))
      BY <1>1, <1>3, <1>4 DEF Owned
    <2> QED
      BY <1>2, <1>4, <2>1, <2>2
  <1>5. CASE Under(v, cur) /\ tree[cur].type # DIR /\ cur \in DOMAIN before /\ before[cur].type # tree[cur].type
    <2>1. ~Twice(v)
      BY <1>5 DEF Twice, Walked, Under
    <2>2. v # <<>> /\ v # cur
      BY <1>1, <1>5, RootAbove, PathOrder DEF Under
    <2>3. Owned(v)
      BY <1>1, <1>5 DEF Owned, InTheWay
    <2>4. Owned(Ext(v, "busy"))
      <3>1. Above(Ext(v, "busy")) = Above(v)
        BY <1>1, <1>2, <2>2, SuffixFree
      <3> QED
        BY <1>1, <1>5, <3>1 DEF Owned, InTheWay, Under
    <2> QED
      BY <1>2, <2>1, <2>2, <2>3, <2>4
  <1>6. CASE Unnamed(v, cur)
    <2> DEFINE r == SubSeq(v, 1, Len(cur) + 1)
    <2>1. cur \in Above(v) /\ "clean" \in tree[cur].flag /\ r \notin DOMAIN tree
      BY <1>6 DEF Unnamed, Under
    <2>2. r \in Path /\ r # <<>> /\ Front(r) = cur /\ (r = v \/ r \in Above(v))
      BY <1>2, <2>1, PathOrder
    <2> HIDE DEF r
    <2>3. v # <<>> /\ v # cur
      BY <1>1, <2>1, RootAbove, PathOrder
    <2>4. v \notin DOMAIN tree
      BY <1>1, <2>1, <2>2, TreeFacts
    <2>5. Owned(v)
      BY <1>1, <1>6 DEF Owned
    <2>6. Owned(Ext(v, "busy"))
      <3> DEFINE b == Ext(v, "busy")  u == SubSeq(b, 1, Len(cur) + 1)
      <3>1. b \in Path /\ b # <<>> /\ b \notin Plain /\ Above(b) = Above(v)
        BY <1>1, <1>2, <2>3, SuffixFree
      <3>2. u \notin DOMAIN tree
        <4>1. CASE r \in Above(v)
          <5>1. SubSeq(b, 1, Len(Front(r)) + 1) = r
            BY <2>2, <3>1, <4>1, ChildOnWay
          <5> QED
            BY <2>1, <2>2, <5>1
        <4>2. CASE r = v
          <5>1. Front(b) = cur
            BY <1>1, <1>2, <2>2, <2>3, <4>2, SuffixFree
          <5>2. SubSeq(b, 1, Len(Front(b)) + 1) = b
            BY <3>1, ChildOnWay
          <5>3. u = b
            BY <5>1, <5>2
          <5> QED
            BY <1>1, <3>1, <5>3, NotTwice
        <4> QED
          BY <2>2, <4>1, <4>2
      <3>3. Unnamed(b, cur)
        BY <2>1, <3>1, <3>2 DEF Unnamed, Under
      <3> QED
        BY <1>1, <3>3 DEF Owned
    <2> QED
      BY <1>2, <2>3, <2>4, <2>5, <2>6 DEF Twice, IsFile
  <1> QED
    BY <1>4, <1>5, <1>6 DEF Victim

LEMMA RemoveGood == ASSUME Inv, RemoveNext PROVE Good
  <1>1. /\ TypeOK /\ IsTree(tree) /\ IsDisk(disk) /\ ret \in {0, -1} /\ status \in {0, 2, 4}
        /\ failed \in BOOLEAN /\ after \in Running
        /\ cur \in DOMAIN tree /\ cur \in Plain /\ cur \in Path
    BY CurFacts
  <1>2. pc = "rm" /\ pc \in Running /\ Frame /\ UNCHANGED <<ret, after, status>>
    BY DEF RemoveNext, Frame, walk, world, Running
  <1>3. /\ tree[cur].type \in Handled /\ (Clearing \/ Cleaning)
    BY <1>2 DEF Inv, Stages
  <1>4. ASSUME victims = {}, pc' = after, UNCHANGED <<disk, busy, victims, failed>>
        PROVE  Good
    <2>1. Altered = {}
      BY <1>4, UnchangedDisk
    <2>2. TypeOK' /\ Phases' /\ RootNode' /\ Origin' /\ FilesWhole'
      BY <1>1, <1>2, <1>4, <2>1, BesideKeeps
    <2>3. /\ after \in {"spec", "link", "mkdir", "reg", "update", "mod"}
          /\ after = "spec" => tree[cur].type \in {CHR, BLK}
          /\ after = "link" => tree[cur].type = LNK
          /\ after = "mkdir" => tree[cur].type = DIR
          /\ after = "reg" => tree[cur].type = REG
          /\ after = "mod" => tree[cur].type = DIR
      BY <1>3, RoutineFacts DEF Clearing, Cleaning
    <2>4. Stages' /\ NewWhole' /\ Victims'
      BY <1>2, <1>4, <2>3 DEF Stages, NewWhole, Victims, FileSteps, Frame
    <2>5. Present'
      BY <1>2, <1>4, <2>3 DEF Inv, Present, Wanted, Frame, FileSteps
    <2> QED
      BY <1>4, <2>1, <2>2, <2>4, <2>5 DEF Good, Inv
  <1>5. ASSUME NEW p \in victims, SetDisk(Removed(p)),
               busy' = IF opts.lazy THEN busy ELSE busy \ {p},
               failed' = (failed \/ (~opts.lazy /\ (p \in busy \/ p \in DOMAIN disk'))),
               victims' = victims \ {p}, pc' = pc
        PROVE  Good
    <2>1. Victim(p)
      BY <1>2 DEF Inv, Victims
    <2>2. /\ p \in Path /\ p # <<>> /\ ~Twice(p) /\ Owned(p)
          /\ p \in busy => Owned(Ext(p, "busy"))
          /\ ret = 0 => p # cur
      BY <1>2, <2>1, VictimFacts
    <2>3. /\ Ext(p, "busy") \notin Plain /\ ~Twice(Ext(p, "busy")) /\ Ext(p, "busy") \notin busy
      BY <1>1, <2>2, SuffixFree, NotTwice
    <2>4. opts.lazy => disk' = disk
      BY <1>5 DEF SetDisk
    <2>5. ~opts.lazy => /\ IsDisk(disk')
                        /\ Altered \subseteq {p} \cup {q \in {Ext(p, "busy")} : p \in busy}
                        /\ Below(disk, p) # {} => disk' = disk
                        /\ Below(disk, p) = {} => p \notin DOMAIN disk'
      BY <1>1, <1>5, <2>2, RemovedFacts DEF SetDisk
    <2>6. /\ IsDisk(disk') /\ Altered \subseteq {p} \cup {q \in {Ext(p, "busy")} : p \in busy}
          /\ p \in Altered => p \notin DOMAIN disk'
      BY <1>1, <2>4, <2>5, UnchangedDisk
    <2>7. failed' \in BOOLEAN /\ busy' \subseteq busy
      BY <1>1, <1>5
    <2>8. \A q \in busy' : q \notin Altered
      BY <1>5, <2>3, <2>4, <2>6, UnchangedDisk
    <2>9. \A q \in Altered : ~Twice(q) /\ (q \in Plain => q \notin DOMAIN disk')
      BY <2>2, <2>3, <2>6
    <2>10. ASSUME NEW q \in DOMAIN before, q = cur, Twice(q)
           PROVE  Whole(q)'
      BY <1>2, <2>7, <2>9, <2>10, CurKept DEF Frame
    <2>11. TypeOK' /\ Phases' /\ RootNode' /\ Origin' /\ FilesWhole'
      <3>1. \A q \in Altered : q \in Plain /\ q \in DOMAIN disk' =>
               \/ q \in DOMAIN disk /\ disk'[q].type = disk[q].type
               \/ q \in DOMAIN tree /\ disk'[q].type = tree[q].type
        BY <2>9
      <3>2. pc' \in Running /\ ret' \in {0, -1} /\ status' \in {0, 2, 4} /\ after' \in Running
        BY <1>1, <1>2, <1>5
      <3> QED
        BY <1>2, <2>4, <2>6, <2>7, <2>8, <2>9, <2>10, <3>1, <3>2, StepKeeps
    <2>12. Stages'
      BY <1>2, <1>3, <1>5 DEF Stages, Frame, Clearing, Cleaning, FileSteps
    <2>13. NewWhole'
      BY <1>2, <1>5 DEF NewWhole
    <2>14. Victims'
      <3>1. ASSUME NEW v \in victims'
            PROVE  Victim(v)'
        <4>1. Victim(v)
          BY <1>2, <1>5 DEF Inv, Victims
        <4> QED
          BY <1>2, <4>1 DEF Victim, Unnamed, Frame
      <3> QED
        BY <3>1 DEF Victims
    <2>15. Present'
      <3>1. CASE opts.lazy
        BY <1>2, <3>1 DEF Present, Frame
      <3>2. CASE ~opts.lazy
        <4>1. Present
          BY DEF Inv
        <4>2. ret = 0 => Wanted'
          <5>1. ret = 0 => Wanted /\ cur \notin Altered
            BY <1>1, <1>2, <2>2, <2>3, <2>6, <3>2, <4>1 DEF Present
          <5> QED
            BY <1>2, <5>1, Untouched DEF Wanted, Frame
        <4>3. cur \in DOMAIN disk' => cur \in victims' \/ disk'[cur].type \in {tree[cur].type, DIR}
          <5>1. CASE cur \in Altered
            BY <1>1, <2>9, <5>1
          <5>2. CASE cur \notin Altered
            <6>1. cur \in DOMAIN disk' => cur \in DOMAIN disk /\ disk'[cur] = disk[cur]
              BY <5>2, Untouched
            <6>2. cur \in DOMAIN disk => cur \in victims \/ disk[cur].type \in {tree[cur].type, DIR}
              BY <1>2, <3>2, <4>1 DEF Present
            <6>3. cur = p /\ cur \in DOMAIN disk' => disk[cur].type = DIR
              BY <1>1, <2>5, <3>2, <6>1, DiskFacts
            <6> QED
              BY <1>5, <6>1, <6>2, <6>3
          <5> QED
            BY <5>1, <5>2
        <4> QED
          BY <1>2, <1>5, <4>2, <4>3 DEF Present, Frame, FileSteps
      <3> QED
        BY <3>1, <3>2
    <2>16. \A q \in Altered : Owned(q)
      BY <2>2, <2>6
    <2> QED
      BY <2>4, <2>11, <2>12, <2>13, <2>14, <2>15, <2>16 DEF Good, Inv
  <1>6. /\ victims = {} => pc' = after /\ UNCHANGED <<disk, busy, victims, failed>>
        /\ victims # {} => \E p \in victims :
            /\ SetDisk(Removed(p))
            /\ busy' = IF opts.lazy THEN busy ELSE busy \ {p}
            /\ failed' = (failed \/ (~opts.lazy /\ (p \in busy \/ p \in DOMAIN disk')))
            /\ victims' = victims \ {p} /\ pc' = pc
    BY DEF RemoveNext
  <1>7. CASE victims = {}
    BY <1>4, <1>6, <1>7
  <1>8. CASE victims # {}
    BY <1>5, <1>6, <1>8
  <1> QED
    BY <1>7, <1>8

(* A step that does nothing but go on.                                     *)
LEMMA StillGood ==
    ASSUME Inv, pc \in Running, pc # "mvbusy", Frame, pc' \in Running \ {"rm"}, ret' \in {0, -1},
           status' \in {0, 2, 4}, failed' \in BOOLEAN, after' \in Running, UNCHANGED <<disk, busy>>,
           Stages', Present', NewWhole'
    PROVE  Good
  <1>1. Altered = {}
    BY UnchangedDisk
  <1>2. IsDisk(disk') /\ pc' # "rm"
    BY CurFacts
  <1>3. TypeOK' /\ Phases' /\ RootNode' /\ Origin' /\ FilesWhole'
    BY <1>1, <1>2, BesideKeeps
  <1> QED
    BY <1>1, <1>2, <1>3 DEF Good, Inv, Victims

LEMMA DeviceGood == ASSUME Inv, CheckDevice PROVE Good
  <1> DEFINE wrong == ret = 0 /\ tree[cur].rdev # disk[cur].data
  <1>1. /\ TypeOK /\ IsTree(tree) /\ IsDisk(disk) /\ ret \in {0, -1} /\ status \in {0, 2, 4}
        /\ failed \in BOOLEAN /\ after \in Running /\ cur \in Plain /\ cur \in Path
    BY CurFacts
  <1>2. pc = "spec" /\ pc \in Running /\ Frame /\ UNCHANGED <<victims, after, status, failed>>
    BY DEF CheckDevice, Frame, walk, world, removal, Running
  <1>3. tree[cur].type \in {CHR, BLK} /\ tree[cur].type \in Handled \ {DIR} /\ tree[cur].type \notin {REG, LNK, {}}
    BY <1>2, TypesDiffer DEF Inv, Stages, Handled
  <1>4. cur # <<>> /\ Owned(cur)
    BY <1>3, CurFacts
  <1>5. /\ ~opts.lazy /\ cur \in DOMAIN disk => disk[cur].type \in {tree[cur].type, DIR}
        /\ ~opts.lazy /\ ret = 0 => cur \in DOMAIN disk /\ disk[cur].type = tree[cur].type
    BY <1>2 DEF Inv, Present, Wanted
  <1>6. \/ /\ wrong /\ RemoveUnlessReadOnly(cur) /\ ret' = -1 /\ pc' = "mknod"
        \/ UNCHANGED <<disk, busy>> /\ ret' = -1 /\ pc' = "mknod"
        \/ UNCHANGED <<disk, busy, ret>> /\ pc' = IF ret = 0 THEN "mod" ELSE "update"
    BY DEF CheckDevice
  <1> HIDE DEF wrong
  <1>7. ret' \in {0, -1} /\ pc' \in {"mknod", "mod", "update"} /\ pc' \in Running \ {"rm"}
    BY <1>1, <1>6 DEF Running
  <1>8. Stages' /\ NewWhole' /\ Victims'
    BY <1>2, <1>3, <1>7 DEF Stages, NewWhole, Victims, FileSteps, Frame
  <1>9. CASE UNCHANGED <<disk, busy>>
    <2>1. Present'
      BY <1>2, <1>5, <1>7, <1>9 DEF Present, Frame, FileSteps
    <2> QED
      BY <1>1, <1>2, <1>7, <1>8, <1>9, <2>1, StillGood
  <1>10. CASE wrong /\ RemoveUnlessReadOnly(cur) /\ ~opts.lazy
    <2>1. cur \notin busy
      BY <1>3, <1>5, <1>10, <1>1 DEF TypeOK, wrong
    <2>2. /\ IsDisk(disk') /\ Altered \subseteq {cur} /\ busy' = busy
          /\ cur \in DOMAIN disk' => cur \in DOMAIN disk /\ disk'[cur] = disk[cur]
      BY <1>1, <1>4, <1>10, <2>1, RemovedUnless
    <2>3. TypeOK' /\ Phases' /\ RootNode' /\ Origin' /\ FilesWhole'
      BY <1>1, <1>2, <1>3, <1>7, <1>10, <2>1, <2>2, OtherKeeps
    <2>4. Present'
      <3>1. cur \in DOMAIN disk' => disk'[cur].type \in {tree[cur].type, DIR}
        BY <1>5, <1>10, <2>2
      <3> QED
        BY <1>2, <1>7, <3>1 DEF Present, Frame, FileSteps
    <2> QED
      BY <1>4, <1>8, <1>10, <2>2, <2>3, <2>4 DEF Good, Inv
  <1>11. CASE opts.lazy /\ RemoveUnlessReadOnly(cur)
    <2>1. UNCHANGED <<disk, busy>>
      BY <1>11 DEF RemoveUnlessReadOnly, SetDisk
    <2> QED
      BY <1>9, <2>1
  <1> QED
    BY <1>6, <1>9, <1>10, <1>11

(* The entry of a node is made: a device, a link, a directory.             *)
LEMMA MakeKeeps ==
    ASSUME Inv, pc \in Running, Frame, pc' \in Running, ret' \in {0, -1}, NEW x, Fits(x, cur),
           tree[cur].type # REG, x.type = tree[cur].type,
           UNCHANGED <<busy, status, failed>>, after' \in Running,
           SetDisk(IF HasRoom(cur) THEN With(disk, cur, x) ELSE disk)
    PROVE  /\ TypeOK' /\ Phases' /\ RootNode' /\ Origin' /\ FilesWhole'
           /\ Altered \subseteq {cur} /\ (opts.lazy => disk' = disk)
           /\ cur \in DOMAIN disk' =>
                  (cur \in DOMAIN disk /\ disk'[cur] = disk[cur]) \/ disk'[cur].type = tree[cur].type
  <1>1. /\ TypeOK /\ IsDisk(disk) /\ status \in {0, 2, 4} /\ failed \in BOOLEAN /\ cur \in Path
    BY CurFacts
  <1>2. CASE disk' = disk
    <2>1. TypeOK' /\ Phases' /\ RootNode' /\ Origin' /\ FilesWhole'
      BY <1>1, <1>2, UnchangedDisk, OtherKeeps
    <2> QED
      BY <1>2, <2>1, UnchangedDisk
  <1>3. CASE HasRoom(cur) /\ disk' = With(disk, cur, x) /\ ~opts.lazy
    <2>1. IsDisk(disk') /\ Altered \subseteq {cur} /\ disk'[cur] = x
      BY <1>1, <1>3, MadeFacts
    <2>2. cur \notin busy
      BY <1>1, <1>3 DEF HasRoom, TypeOK
    <2>3. TypeOK' /\ Phases' /\ RootNode' /\ Origin' /\ FilesWhole'
      BY <1>1, <1>3, <2>1, <2>2, OtherKeeps
    <2> QED
      BY <1>3, <2>1, <2>3
  <1> QED
    BY <1>2, <1>3 DEF SetDisk

LEMMA InodeFields ==
    ASSUME NEW type, NEW mode, NEW uid, NEW mtime, NEW data
    PROVE  /\ DOMAIN Inode(type, mode, uid, mtime, data) = DOMAIN NoInode
           /\ Inode(type, mode, uid, mtime, data).type = type
           /\ Inode(type, mode, uid, mtime, data).data = data
  BY DEF Inode, NoInode

LEMMA MakeDeviceGood == ASSUME Inv, MakeDevice PROVE Good
  <1> DEFINE x == Inode(tree[cur].type, tree[cur].mode, 0, 0, tree[cur].rdev)
  <1>1. /\ ret \in {0, -1} /\ after \in Running /\ cur \in Plain /\ cur \in Path
    BY CurFacts
  <1>2. /\ pc = "mknod" /\ pc \in Running /\ Frame /\ UNCHANGED <<busy, victims, after, status, failed>>
        /\ SetDisk(IF HasRoom(cur) THEN With(disk, cur, x) ELSE disk)
        /\ ret' = IF ~opts.lazy /\ cur \in DOMAIN disk' THEN 0 ELSE -1
        /\ pc' = IF ret' = 0 THEN "mod" ELSE "update"
    BY DEF MakeDevice, Frame, walk, world, removal, Running
  <1>3. tree[cur].type \in {CHR, BLK} /\ tree[cur].type \notin {REG, LNK, {}}
    <2>1. tree[cur].type \in {CHR, BLK}
      BY <1>2 DEF Inv, Stages
    <2> QED
      BY <2>1, TypesDiffer DEF Handled
  <1>4. Owned(cur)
    BY <1>3, CurFacts
  <1>5. ~opts.lazy /\ cur \in DOMAIN disk => disk[cur].type \in {tree[cur].type, DIR}
    BY <1>2 DEF Inv, Present, Running
  <1>6. ret' \in {0, -1} /\ pc' \in {"mod", "update"} /\ pc' \in Running
    BY <1>2 DEF Running
  <1>7. Fits(x, cur) /\ x.type = tree[cur].type
    BY <1>1, <1>3, InodeFields DEF Fits
  <1> HIDE DEF x
  <1>8. /\ TypeOK' /\ Phases' /\ RootNode' /\ Origin' /\ FilesWhole'
        /\ Altered \subseteq {cur} /\ (opts.lazy => disk' = disk)
        /\ cur \in DOMAIN disk' =>
               (cur \in DOMAIN disk /\ disk'[cur] = disk[cur]) \/ disk'[cur].type = tree[cur].type
    BY <1>1, <1>2, <1>3, <1>6, <1>7, MakeKeeps
  <1>9. Stages' /\ NewWhole' /\ Victims'
    BY <1>2, <1>3, <1>6 DEF Stages, NewWhole, Victims, FileSteps, Frame
  <1>10. Present'
    BY <1>2, <1>5, <1>6, <1>8 DEF Present, Frame, FileSteps
  <1> QED
    BY <1>4, <1>8, <1>9, <1>10 DEF Good, Inv

LEMMA LinkGood == ASSUME Inv, CheckLink PROVE Good
  <1>1. /\ TypeOK /\ IsTree(tree) /\ IsDisk(disk) /\ ret \in {0, -1} /\ status \in {0, 2, 4}
        /\ failed \in BOOLEAN /\ after \in Running /\ cur \in Plain /\ cur \in Path
    BY CurFacts
  <1>2. pc = "link" /\ pc \in Running /\ Frame /\ UNCHANGED <<ret, victims, after, status, failed>>
    BY DEF CheckLink, Frame, walk, world, removal, Running
  <1>3. tree[cur].type = LNK /\ tree[cur].type \in Handled \ {DIR} /\ tree[cur].type \notin {REG, {}}
    BY <1>2, TypesDiffer DEF Inv, Stages, Handled
  <1>4. cur # <<>> /\ Owned(cur)
    BY <1>3, CurFacts
  <1>5. /\ ~opts.lazy /\ cur \in DOMAIN disk => disk[cur].type \in {tree[cur].type, DIR}
        /\ ~opts.lazy /\ ret = 0 => cur \in DOMAIN disk /\ disk[cur].type = tree[cur].type
    BY <1>2 DEF Inv, Present, Wanted
  <1>6. /\ pc' \in {"update", "symlink"} /\ pc' \in Running \ {"rm"}
        /\ (ret = 0 /\ RemoveUnlessReadOnly(cur)) \/ UNCHANGED <<disk, busy>>
    BY DEF CheckLink, Running
  <1>7. Stages' /\ NewWhole' /\ Victims'
    BY <1>2, <1>3, <1>6 DEF Stages, NewWhole, Victims, FileSteps, Frame
  <1>8. CASE UNCHANGED <<disk, busy>>
    <2>1. Present'
      BY <1>2, <1>5, <1>6, <1>8 DEF Present, Frame, FileSteps
    <2> QED
      BY <1>1, <1>2, <1>6, <1>7, <1>8, <2>1, StillGood
  <1>9. CASE ret = 0 /\ RemoveUnlessReadOnly(cur) /\ ~opts.lazy
    <2>1. cur \notin busy
      BY <1>3, <1>5, <1>9, <1>1 DEF TypeOK
    <2>2. /\ IsDisk(disk') /\ Altered \subseteq {cur} /\ busy' = busy
          /\ cur \in DOMAIN disk' => cur \in DOMAIN disk /\ disk'[cur] = disk[cur]
      BY <1>1, <1>4, <1>9, <2>1, RemovedUnless
    <2>3. TypeOK' /\ Phases' /\ RootNode' /\ Origin' /\ FilesWhole'
      BY <1>1, <1>2, <1>3, <1>6, <1>9, <2>1, <2>2, OtherKeeps
    <2>4. Present'
      BY <1>2, <1>5, <1>6, <1>9, <2>2 DEF Present, Frame, FileSteps
    <2> QED
      BY <1>4, <1>7, <1>9, <2>2, <2>3, <2>4 DEF Good, Inv
  <1>10. CASE opts.lazy /\ RemoveUnlessReadOnly(cur)
    <2>1. UNCHANGED <<disk, busy>>
      BY <1>10 DEF RemoveUnlessReadOnly, SetDisk
    <2> QED
      BY <1>8, <2>1
  <1> QED
    BY <1>6, <1>8, <1>9, <1>10

LEMMA MakeLinkGood == ASSUME Inv, MakeLink PROVE Good
  <1> DEFINE x == Link(Target(tree[cur], cur))
  <1>1. /\ ret \in {0, -1} /\ after \in Running /\ cur \in Plain /\ cur \in Path
    BY CurFacts
  <1>2. /\ pc = "symlink" /\ pc \in Running /\ Frame /\ UNCHANGED <<busy, ret, victims, after, status, failed>>
        /\ SetDisk(IF HasRoom(cur) THEN With(disk, cur, x) ELSE disk)
        /\ pc' = "update" /\ pc' \in Running
    BY DEF MakeLink, Frame, walk, world, removal, Running
  <1>3. tree[cur].type = LNK /\ tree[cur].type \notin {REG, {}}
    BY <1>2, TypesDiffer DEF Inv, Stages
  <1>4. Owned(cur)
    BY <1>3, CurFacts
  <1>5. Fits(x, cur) /\ x.type = tree[cur].type
    BY <1>1, <1>3, InodeFields DEF Fits, Link, ReadOnly, Perm, Inode, NoInode
  <1> HIDE DEF x
  <1>6. /\ TypeOK' /\ Phases' /\ RootNode' /\ Origin' /\ FilesWhole'
        /\ Altered \subseteq {cur} /\ (opts.lazy => disk' = disk)
    BY <1>1, <1>2, <1>3, <1>5, MakeKeeps
  <1>7. Stages' /\ NewWhole' /\ Victims' /\ Present'
    BY <1>2 DEF Stages, NewWhole, Victims, FileSteps, Present
  <1> QED
    BY <1>4, <1>6, <1>7 DEF Good, Inv

LEMMA MakeDirectoryGood == ASSUME Inv, MakeDirectory PROVE Good
  <1> DEFINE x == Inode(DIR, tree[cur].mode, 0, 0, 0)
  <1>1. /\ ret \in {0, -1} /\ after \in Running /\ cur \in Plain /\ cur \in Path
        /\ status \in {0, 2, 4} /\ failed \in BOOLEAN
    BY CurFacts
  <1>2. /\ pc = "mkdir" /\ pc \in Running /\ Frame /\ UNCHANGED <<busy, victims, after, status, failed>>
        /\ pc' = "clean" /\ pc' \in Running \ {"rm"} /\ pc # "mvbusy"
        /\ \/ ret = 0 /\ UNCHANGED <<disk, ret>>
           \/ /\ SetDisk(IF HasRoom(cur) THEN With(disk, cur, x) ELSE disk)
              /\ ret' = IF ~opts.lazy /\ cur \in DOMAIN disk' THEN 0 ELSE -1
    BY DEF MakeDirectory, Frame, walk, world, removal, Running
  <1>3. tree[cur].type = DIR /\ tree[cur].type \notin {REG, LNK, {}}
    BY <1>2, TypesDiffer DEF Inv, Stages
  <1>4. Owned(cur)
    BY <1>3, CurFacts
  <1>5. /\ ~opts.lazy /\ cur \in DOMAIN disk => disk[cur].type = DIR
        /\ ~opts.lazy /\ ret = 0 => cur \in DOMAIN disk /\ disk[cur].type = tree[cur].type
    BY <1>2, <1>3 DEF Inv, Present, Wanted, Running
  <1>6. Fits(x, cur) /\ x.type = tree[cur].type
    BY <1>1, <1>3, InodeFields DEF Fits
  <1> HIDE DEF x
  <1>7. ret' \in {0, -1}
    BY <1>1, <1>2
  <1>8. Stages' /\ NewWhole' /\ Victims'
    BY <1>2, <1>3 DEF Stages, NewWhole, Victims, FileSteps, Frame
  <1>9. CASE ret = 0 /\ UNCHANGED <<disk, ret>>
    <2>1. Present'
      BY <1>2, <1>3, <1>5, <1>9 DEF Present, Wanted, Frame, FileSteps
    <2> QED
      BY <1>1, <1>2, <1>7, <1>8, <1>9, <2>1, StillGood
  <1>10. CASE /\ SetDisk(IF HasRoom(cur) THEN With(disk, cur, x) ELSE disk)
              /\ ret' = IF ~opts.lazy /\ cur \in DOMAIN disk' THEN 0 ELSE -1
    <2>1. /\ TypeOK' /\ Phases' /\ RootNode' /\ Origin' /\ FilesWhole'
          /\ Altered \subseteq {cur} /\ (opts.lazy => disk' = disk)
          /\ cur \in DOMAIN disk' =>
                 (cur \in DOMAIN disk /\ disk'[cur] = disk[cur]) \/ disk'[cur].type = tree[cur].type
      BY <1>1, <1>2, <1>3, <1>6, <1>7, <1>10, MakeKeeps
    <2>2. Present'
      BY <1>2, <1>3, <1>5, <1>10, <2>1 DEF Present, Wanted, Frame, FileSteps
    <2> QED
      BY <1>4, <1>8, <2>1, <2>2 DEF Good, Inv
  <1> QED
    BY <1>2, <1>9, <1>10

LEMMA CleanGood == ASSUME Inv, CleanDirectory PROVE Good
  <1>1. /\ ret \in {0, -1} /\ status \in {0, 2, 4} /\ IsDisk(disk)
        /\ failed \in BOOLEAN /\ after \in Running /\ cur \in Plain /\ cur \in Path
    BY CurFacts
  <1>2. /\ pc = "clean" /\ pc \in Running /\ pc # "mvbusy" /\ Frame /\ UNCHANGED <<disk, busy, ret, status, failed>>
        /\ after' = IF ret = 0 THEN "mod" ELSE "update"
        /\ \/ /\ "clean" \in tree[cur].flag /\ pc' = "rm"
              /\ victims' = UNION {{q} \cup Below(disk, q) : q \in Unlisted(cur)}
           \/ pc' = after'
    BY DEF CleanDirectory, Frame, walk, world, Running
  <1>3. tree[cur].type = DIR /\ tree[cur].type \in Handled
    BY <1>2 DEF Inv, Stages, Handled
  <1>4. /\ ~opts.lazy /\ cur \in DOMAIN disk => disk[cur].type = DIR
        /\ ~opts.lazy /\ ret = 0 => cur \in DOMAIN disk /\ disk[cur].type = tree[cur].type
    BY <1>2, <1>3 DEF Inv, Present, Wanted, Running
  <1>5. after' \in {"mod", "update"} /\ after' \in Running /\ pc' \in {"rm", "mod", "update"} /\ pc' \in Running
    BY <1>2 DEF Running
  <1>6. Stages' /\ NewWhole'
    BY <1>2, <1>3, <1>5 DEF Stages, NewWhole, Cleaning, FileSteps, Frame
  <1>7. Present'
    BY <1>2, <1>3, <1>4, <1>5 DEF Present, Wanted, FileSteps, Frame
  <1>8. CASE pc' # "rm"
    BY <1>1, <1>2, <1>5, <1>6, <1>7, <1>8, StillGood
  <1>9. CASE pc' = "rm"
    <2>1. "clean" \in tree[cur].flag /\ victims' = UNION {{q} \cup Below(disk, q) : q \in Unlisted(cur)}
      BY <1>2, <1>5, <1>9
    <2>2. ASSUME NEW v \in victims'
          PROVE  Victim(v)'
      <3>1. PICK q \in Unlisted(cur) : v = q \/ v \in Below(disk, q)
        BY <2>1
      <3>2. q \in DOMAIN disk /\ q # <<>> /\ Front(q) = cur /\ q \notin DOMAIN tree
        BY <3>1 DEF Unlisted, Children
      <3>3. q \in Path /\ v \in Path /\ (v = q \/ q \in Above(v))
        BY <1>1, <3>1, <3>2 DEF IsDisk, Below, Under
      <3>4. cur \in Above(v) /\ SubSeq(v, 1, Len(cur) + 1) = q
        BY <3>2, <3>3, ChildOnWay
      <3>5. Unnamed(v, cur)
        BY <2>1, <3>2, <3>4 DEF Unnamed, Under
      <3> QED
        BY <1>2, <3>3, <3>5 DEF Victim, Unnamed, Frame
    <2>3. Victims'
      BY <2>2 DEF Victims
    <2>4. TypeOK' /\ Phases' /\ RootNode' /\ Origin' /\ FilesWhole'
      BY <1>1, <1>2, <1>5, UnchangedDisk, BesideKeeps
    <2> QED
      BY <1>2, <1>6, <1>7, <2>3, <2>4, UnchangedDisk DEF Good, Inv
  <1> QED
    BY <1>8, <1>9

(* The steps for a file.                                                   *)
LEMMA FileFacts ==
    ASSUME Inv, pc \in FileSteps
    PROVE  /\ pc \in Running /\ tree[cur].type = REG /\ Owned(cur) /\ cur # <<>>
           /\ \A p \in {New, Old, Ext(cur, "busy")} :
                 /\ p \in Path /\ p # <<>> /\ p \notin Plain /\ p \notin busy /\ ~Twice(p)
                 /\ Front(p) = Front(cur) /\ Below(disk, p) = {}
                 /\ p \in DOMAIN disk => disk[p].type = REG
           /\ New # Old /\ New # Ext(cur, "busy") /\ Owned(New)
           /\ "old" \in tree[cur].flag => Owned(Old)
           /\ cur \in BusyTexts => Owned(Ext(cur, "busy"))
           /\ ~opts.lazy /\ cur \in DOMAIN disk => disk[cur].type \in {REG, DIR}
  <1>1. TypeOK /\ IsDisk(disk) /\ cur \in DOMAIN tree /\ cur \in Plain /\ cur \in Path
    BY CurFacts
  <1>2. tree[cur].type = REG /\ pc \in Running /\ pc \in Running \ {"update", "rm"}
    BY DEF Inv, Stages, FileSteps, Running
  <1>3. REG \in Handled \ {DIR} /\ REG # {}
    BY TypesDiffer DEF Handled
  <1>4. cur # <<>> /\ Owned(cur)
    BY <1>2, <1>3, CurFacts
  <1>5. \A s \in {"new", "old", "busy"} :
            /\ Ext(cur, s) \in Path /\ Ext(cur, s) # <<>> /\ Ext(cur, s) \notin Plain
            /\ Front(Ext(cur, s)) = Front(cur) /\ Below(disk, Ext(cur, s)) = {}
            /\ Ext(cur, s) \in DOMAIN disk => disk[Ext(cur, s)].type = REG
    BY <1>1, <1>4, SuffixFree
  <1>6. \A p \in {New, Old, Ext(cur, "busy")} : \E s \in {"new", "old", "busy"} : p = Ext(cur, s)
    BY DEF New, Old
  <1>7. \A p \in {New, Old, Ext(cur, "busy")} :
            /\ p \in Path /\ p # <<>> /\ p \notin Plain
            /\ Front(p) = Front(cur) /\ Below(disk, p) = {}
            /\ p \in DOMAIN disk => disk[p].type = REG
    BY <1>5, <1>6
  <1>8. \A p \in {New, Old, Ext(cur, "busy")} : p \notin busy /\ ~Twice(p)
    BY <1>1, <1>7, NotTwice
  <1>9. New # Old /\ New # Ext(cur, "busy")
    BY <1>1, <1>4, ExtInjective DEF New, Old, Suffix
  <1>10. /\ Owned(New) /\ ("old" \in tree[cur].flag => Owned(Old))
         /\ cur \in BusyTexts => Owned(Ext(cur, "busy"))
    BY <1>1, <1>2, <1>3 DEF Owned, New, Old
  <1>11. ~opts.lazy /\ cur \in DOMAIN disk => disk[cur].type \in {REG, DIR}
    BY <1>2 DEF Inv, Present
  <1> QED
    BY <1>2, <1>4, <1>7, <1>8, <1>9, <1>10, <1>11

LEMMA CheckFileGood == ASSUME Inv, CheckFile PROVE Good
  <1> DEFINE copy == "proto" \in tree[cur].flag /\ (ret < 0 \/ ("init" \notin tree[cur].flag /\ Outdated(tree[cur], disk[cur])))
  <1>1. /\ TypeOK /\ IsTree(tree) /\ ret \in {0, -1} /\ cur \in DOMAIN tree /\ cur \in Plain
    BY CurFacts
  <1>2. /\ pc = "reg" /\ pc \in FileSteps /\ pc \in Running
        /\ UNCHANGED <<conf, opts, vice, before, line, work, cur, disk, busy, ret, victims, after, status, failed>>
        /\ pc' = IF copy THEN "cp" ELSE IF ret = 0 THEN "mod" ELSE "update"
        /\ tree' = IF copy /\ ret < 0 THEN [tree EXCEPT ![cur].flag = @ \ {"old"}] ELSE tree
    BY DEF CheckFile, walk, world, removal, FileSteps, Running
  <1>3. tree[cur].type = REG /\ cur # <<>>
    BY <1>2, FileFacts
  <1>4. /\ DOMAIN tree' = DOMAIN tree
        /\ \A p \in DOMAIN tree : /\ p # cur => tree'[p] = tree[p]
                                 /\ DOMAIN tree'[p] = DOMAIN tree[p]
                                 /\ tree'[p].type = tree[p].type /\ tree'[p].proto = tree[p].proto
                                 /\ tree'[p].flag \subseteq tree[p].flag /\ tree[p].flag \subseteq tree'[p].flag \cup {"old"}
        /\ copy /\ ret < 0 => "old" \notin tree'[cur].flag
    <2>1. CASE copy /\ ret < 0
      <3>1. tree' = [tree EXCEPT ![cur] = [tree[cur] EXCEPT !.flag = @ \ {"old"}]]
        BY <1>2, <2>1
      <3>2. DOMAIN tree[cur] = DOMAIN NewNode
        BY <1>1, TreeFacts
      <3>3. DOMAIN tree' = DOMAIN tree /\ tree'[cur] = [tree[cur] EXCEPT !.flag = @ \ {"old"}]
            /\ \A p \in DOMAIN tree : p # cur => tree'[p] = tree[p]
        BY <1>1, <3>1
      <3>4. /\ tree'[cur].flag = tree[cur].flag \ {"old"} /\ DOMAIN tree'[cur] = DOMAIN tree[cur]
            /\ tree'[cur].type = tree[cur].type /\ tree'[cur].proto = tree[cur].proto
        BY <3>2, <3>3, NodeFields
      <3> QED
        BY <3>3, <3>4
    <2>2. CASE ~(copy /\ ret < 0)
      BY <1>2, <2>2
    <2> QED
      BY <2>1, <2>2
  <1> HIDE DEF copy
  <1>5. pc' \in {"cp", "mod", "update"} /\ pc' \in Running
    BY <1>2 DEF Running
  <1>6. TypeOK'
    <2>1. IsTree(tree')
      BY <1>1, <1>4 DEF IsTree
    <2> QED
      BY <1>1, <1>2, <1>4, <1>5, <2>1 DEF TypeOK
  <1>7. Phases' /\ RootNode'
    <2>1. pc' \notin {"load", "check"}
      BY <1>5
    <2>2. tree'[<<>>] = tree[<<>>]
      BY <1>1, <1>3, <1>4 DEF IsTree
    <2> QED
      BY <1>2, <2>1, <2>2 DEF Inv, Phases, RootNode
  <1>8. Stages' /\ Victims'
    BY <1>1, <1>2, <1>3, <1>4, <1>5, TypesDiffer DEF Stages, Victims, FileSteps
  <1>9. Present'
    BY <1>1, <1>2, <1>4, <1>5 DEF Inv, Present, Wanted, FileSteps, Running
  <1>10. NewWhole'
    <2>1. pc' = "cp" => copy
      BY <1>2
    <2>2. /\ pc' = "cp" /\ "old" \in tree'[cur].flag => ret = 0
          /\ pc' = "cp" => "proto" \in tree'[cur].flag
      BY <1>1, <1>4, <2>1 DEF copy
    <2> QED
      BY <1>2, <1>5, <2>2 DEF NewWhole
  <1>11. Origin'
    BY <1>2, <1>4 DEF Inv, Origin
  <1>12. FilesWhole'
    <2>1. \A p : IsFile(tree, p) <=> IsFile(tree', p)
      BY <1>4 DEF IsFile
    <2>2. \A p \in DOMAIN tree : Walked(p)' <=> Walked(p)
      <3>1. \A p \in DOMAIN tree : \A q \in Above(p) : q \in DOMAIN tree
        BY <1>1 DEF IsTree
      <3> QED
        BY <1>4, <3>1 DEF Walked
    <2>3. \A p : Twice(p)' <=> Twice(p)
      BY <1>2, <1>4, <2>1, <2>2 DEF Twice, IsFile
    <2>4. \A p \in DOMAIN tree : MasterData(tree[p], p)' = MasterData(tree[p], p)
      <3>1. \A p \in DOMAIN tree : Master(tree[p], p)' = Master(tree[p], p)
        BY <1>4 DEF Master
      <3>2. \A p \in DOMAIN tree : "proto" \in tree'[p].flag <=> "proto" \in tree[p].flag
        BY <1>4
      <3> QED
        BY <1>2, <3>1, <3>2 DEF Stat, MasterData
    <2>5. ASSUME NEW p \in DOMAIN before, Twice(p)
          PROVE  Whole(p)'
      <3>1. Whole(p)
        BY <1>2, <2>5 DEF Inv, FilesWhole, Aside
      <3>2. p \in DOMAIN tree
        BY <2>5 DEF Twice, IsFile
      <3> QED
        BY <1>2, <2>4, <3>1, <3>2 DEF Whole, IsFile
    <2> QED
      BY <1>2, <2>3, <2>5 DEF FilesWhole
  <1> QED
    BY <1>2, <1>6, <1>7, <1>8, <1>9, <1>10, <1>11, <1>12, UnchangedDisk DEF Good, Inv

LEMMA OpenNewGood == ASSUME Inv, OpenNew PROVE Good
  <1> DEFINE fits == New \in DOMAIN disk \/ HasRoom(New)
             x == Inode(REG, IF New \in DOMAIN disk THEN disk[New].mode ELSE {"r", "w"}, 0, 0, 0)
  <1>1. /\ TypeOK /\ IsDisk(disk) /\ ret \in {0, -1} /\ status \in {0, 2, 4} /\ after \in Running
        /\ failed \in BOOLEAN /\ cur \in Plain
    BY CurFacts
  <1>2. /\ pc = "cp" /\ pc \in FileSteps /\ pc # "mvbusy" /\ Frame
        /\ UNCHANGED <<busy, ret, victims, after, status>>
        /\ pc' = IF fits \/ opts.lazy THEN "copying" ELSE "update"
        /\ failed' = (failed \/ pc' = "update")
        /\ SetDisk(IF fits THEN With(disk, New, x) ELSE disk)
    BY DEF OpenNew, Frame, walk, world, removal, FileSteps
  <1>3. /\ pc \in Running /\ tree[cur].type = REG
        /\ New \in Path /\ New # <<>> /\ New \notin Plain /\ Front(New) = Front(cur) /\ Below(disk, New) = {}
        /\ Owned(New)
    BY <1>2, FileFacts
  <1>4. pc' \in {"copying", "update"} /\ pc' \in Running /\ failed' \in BOOLEAN
    BY <1>1, <1>2 DEF Running
  <1>5. fits => Front(New) \in DOMAIN disk /\ disk[Front(New)].type = DIR
    BY <1>1, <1>3, DiskFacts, NodeFields, TypesDiffer DEF HasRoom, Lstat, NoInode, Inode
  <1>6. Fits(x, New)
    BY TypesDiffer, InodeFields DEF Fits
  <1> HIDE DEF fits, x
  <1>7. /\ IsDisk(disk') /\ Altered \subseteq {New} /\ (opts.lazy => disk' = disk)
        /\ ~opts.lazy /\ pc' = "copying" => New \in DOMAIN disk'
    <2>1. CASE fits /\ ~opts.lazy
      <3>1. disk' = With(disk, New, x)
        BY <1>2, <2>1 DEF SetDisk
      <3>2. IsDisk(disk')
        BY <1>1, <1>3, <1>5, <1>6, <2>1, <3>1, DiskWith
      <3>3. DOMAIN disk' = DOMAIN disk \cup {New} /\ \A q \in DOMAIN disk : q # New => disk'[q] = disk[q]
        BY <3>1 DEF With
      <3>4. Altered \subseteq {New}
        BY <3>3 DEF Altered
      <3> QED
        BY <2>1, <3>2, <3>3, <3>4
    <2>2. CASE ~(fits /\ ~opts.lazy)
      <3>1. disk' = disk
        BY <1>2, <2>2 DEF SetDisk
      <3> QED
        BY <1>1, <1>2, <2>2, <3>1, UnchangedDisk
    <2> QED
      BY <2>1, <2>2
  <1>8. /\ TypeOK' /\ Phases' /\ RootNode' /\ Origin' /\ FilesWhole'
        /\ cur \in DOMAIN disk' <=> cur \in DOMAIN disk
        /\ cur \in DOMAIN disk => disk'[cur] = disk[cur]
    BY <1>1, <1>2, <1>3, <1>4, <1>7, BesideKeeps
  <1>9. Stages' /\ Victims'
    BY <1>2, <1>3, <1>4 DEF Stages, Victims, FileSteps, Frame
  <1>10. Present'
    BY <1>2, <1>4, <1>8 DEF Inv, Present, Wanted, FileSteps, Frame, Running
  <1>11. NewWhole'
    BY <1>2, <1>4, <1>7 DEF Inv, NewWhole, New, Frame
  <1> QED
    BY <1>3, <1>7, <1>8, <1>9, <1>10, <1>11 DEF Good, Inv

LEMMA CopyGood == ASSUME Inv, CopyData PROVE Good
  <1> DEFINE data == Stat(Master(tree[cur], cur)).data  x == [disk[New] EXCEPT !.data = data]
  <1>1. /\ TypeOK /\ IsDisk(disk) /\ ret \in {0, -1} /\ status \in {0, 2, 4} /\ after \in Running
        /\ failed \in BOOLEAN /\ cur \in Plain
    BY CurFacts
  <1>2. /\ pc = "copying" /\ pc \in FileSteps /\ pc # "mvbusy" /\ Frame
        /\ UNCHANGED <<busy, ret, victims, after, status, failed>>
        /\ pc' = IF "old" \in tree[cur].flag THEN "rmold" ELSE "mv"
        /\ SetDisk([disk EXCEPT ![New] = x])
    BY DEF CopyData, Frame, walk, world, removal, FileSteps
  <1>3. /\ pc \in Running /\ tree[cur].type = REG /\ New \notin Plain /\ Owned(New)
        /\ New \in DOMAIN disk => disk[New].type = REG
    BY <1>2, FileFacts
  <1>4. pc' \in {"rmold", "mv"} /\ pc' \in Running
    BY <1>2 DEF Running
  <1>5. New \in DOMAIN disk => Fits(x, New) /\ x.type = disk[New].type /\ x.data = data
    <2>1. New \in DOMAIN disk => DOMAIN disk[New] = DOMAIN NoInode
      BY <1>1 DEF IsDisk
    <2>2. New \in DOMAIN disk => DOMAIN x = DOMAIN NoInode /\ x.type = disk[New].type /\ x.data = data
      BY <2>1, NodeFields
    <2> QED
      BY <1>3, <2>2, TypesDiffer DEF Fits
  <1> HIDE DEF x, data
  <1>6. /\ IsDisk(disk') /\ Altered \subseteq {New} /\ (opts.lazy => disk' = disk)
        /\ ~opts.lazy /\ New \in DOMAIN disk => New \in DOMAIN disk' /\ disk'[New].data = data
    <2>1. CASE opts.lazy
      BY <1>1, <1>2, <2>1, UnchangedDisk DEF SetDisk
    <2>2. CASE ~opts.lazy
      BY <1>1, <1>2, <1>5, <2>2, ChangedFacts DEF SetDisk
    <2> QED
      BY <2>1, <2>2
  <1>7. /\ TypeOK' /\ Phases' /\ RootNode' /\ Origin' /\ FilesWhole'
        /\ cur \in DOMAIN disk' <=> cur \in DOMAIN disk
        /\ cur \in DOMAIN disk => disk'[cur] = disk[cur]
    BY <1>1, <1>2, <1>3, <1>4, <1>6, BesideKeeps
  <1>8. Stages' /\ Victims'
    BY <1>2, <1>3, <1>4 DEF Stages, Victims, FileSteps, Frame
  <1>9. Present'
    BY <1>2, <1>4, <1>7 DEF Inv, Present, Wanted, FileSteps, Frame, Running
  <1>10. NewWhole'
    <2>1. NewWhole
      BY DEF Inv
    <2>2. ~opts.lazy => New \in DOMAIN disk' /\ disk'[New].data = data
      BY <1>2, <1>6, <2>1 DEF NewWhole
    <2>3. /\ pc' = "rmold" => "old" \in tree[cur].flag /\ ret = 0
          /\ "proto" \in tree[cur].flag
      BY <1>2, <2>1 DEF NewWhole
    <2> QED
      BY <1>2, <1>4, <2>2, <2>3 DEF NewWhole, New, data, Stat, Master, Frame
  <1> QED
    BY <1>3, <1>6, <1>7, <1>8, <1>9, <1>10 DEF Good, Inv

LEMMA GiveUpGood == ASSUME Inv, CopyFails \/ CannotReplace PROVE Good
  <1>1. /\ ret \in {0, -1} /\ status \in {0, 2, 4} /\ after \in Running
    BY CurFacts
  <1>2. /\ pc \in {"copying", "mv"} /\ pc \in Running /\ pc # "mvbusy" /\ Frame
        /\ UNCHANGED <<disk, busy, ret, after, status>>
        /\ pc' = "update" /\ pc' \in Running \ {"rm"} /\ failed' \in BOOLEAN
    BY DEF CopyFails, CannotReplace, Report, Frame, walk, world, removal, Running
  <1>3. Stages' /\ Present' /\ NewWhole'
    BY <1>2 DEF Stages, Present, NewWhole, FileSteps
  <1> QED
    BY <1>1, <1>2, <1>3, StillGood

LEMMA RemoveOldGood == ASSUME Inv, RemoveOld PROVE Good
  <1>1. /\ TypeOK /\ IsDisk(disk) /\ ret \in {0, -1} /\ status \in {0, 2, 4} /\ after \in Running
        /\ failed \in BOOLEAN /\ cur \in Plain
    BY CurFacts
  <1>2. /\ pc = "rmold" /\ pc \in FileSteps /\ pc # "mvbusy" /\ Frame
        /\ UNCHANGED <<ret, victims, after, status, failed>>
        /\ pc' = "ln" /\ pc' \in Running /\ RemoveUnlessReadOnly(Old)
    BY DEF RemoveOld, Frame, walk, world, removal, FileSteps, Running
  <1>3. ret = 0 /\ "old" \in tree[cur].flag
    BY <1>2 DEF Inv, NewWhole
  <1>4. /\ pc \in Running /\ tree[cur].type = REG
        /\ Old \in Path /\ Old # <<>> /\ Old \notin Plain /\ Old \notin busy /\ Owned(Old) /\ New # Old
    BY <1>2, <1>3, FileFacts
  <1>5. /\ IsDisk(disk') /\ Altered \subseteq {Old} /\ (opts.lazy => disk' = disk) /\ busy' = busy
    BY <1>1, <1>2, <1>4, RemovedUnless
  <1>6. /\ TypeOK' /\ Phases' /\ RootNode' /\ Origin' /\ FilesWhole'
        /\ cur \in DOMAIN disk' <=> cur \in DOMAIN disk
        /\ cur \in DOMAIN disk => disk'[cur] = disk[cur]
    BY <1>1, <1>2, <1>4, <1>5, BesideKeeps
  <1>7. Stages' /\ Victims'
    BY <1>2, <1>4 DEF Stages, Victims, FileSteps, Frame
  <1>8. Present'
    BY <1>2, <1>6 DEF Inv, Present, Wanted, FileSteps, Frame, Running
  <1>9. NewWhole'
    <2>1. New \in DOMAIN disk => New \in DOMAIN disk' /\ disk'[New] = disk[New]
      BY <1>4, <1>5, Untouched
    <2> QED
      BY <1>2, <1>3, <2>1 DEF Inv, NewWhole, New, Stat, MasterData, Master, Frame
  <1> QED
    BY <1>4, <1>5, <1>6, <1>7, <1>8, <1>9 DEF Good, Inv

LEMMA LinkOldGood == ASSUME Inv, LinkOld PROVE Good
  <1>1. /\ TypeOK /\ IsDisk(disk) /\ ret \in {0, -1} /\ status \in {0, 2, 4} /\ after \in Running
        /\ failed \in BOOLEAN /\ cur \in Plain
    BY CurFacts
  <1>2. /\ pc = "ln" /\ pc \in FileSteps /\ pc # "mvbusy" /\ Frame
        /\ UNCHANGED <<busy, ret, victims, after, status, failed>>
        /\ pc' = "mv" /\ pc' \in Running
        /\ SetDisk(IF cur \in DOMAIN disk /\ HasRoom(Old) THEN With(disk, Old, disk[cur]) ELSE disk)
    BY DEF LinkOld, Frame, walk, world, removal, FileSteps, Running
  <1>3. ret = 0 /\ "old" \in tree[cur].flag
    BY <1>2 DEF Inv, NewWhole
  <1>4. /\ pc \in Running /\ tree[cur].type = REG
        /\ Old \in Path /\ Old \notin Plain /\ Owned(Old) /\ New # Old
    BY <1>2, <1>3, FileFacts
  <1>5. IsDisk(disk') /\ Altered \subseteq {Old} /\ (opts.lazy => disk' = disk)
    <2>1. CASE disk' = disk
      BY <1>1, <2>1, UnchangedDisk
    <2>2. CASE ~opts.lazy /\ cur \in DOMAIN disk /\ HasRoom(Old) /\ disk' = With(disk, Old, disk[cur])
      <3>1. disk[cur].type = REG
        BY <1>2, <1>3, <1>4, <2>2 DEF Inv, Present, Wanted
      <3>2. Fits(disk[cur], Old)
        BY <1>1, <2>2, <3>1, TypesDiffer DEF Fits, IsDisk
      <3> QED
        BY <1>1, <1>4, <2>2, <3>2, MadeFacts
    <2> QED
      BY <1>2, <2>1, <2>2 DEF SetDisk
  <1>6. /\ TypeOK' /\ Phases' /\ RootNode' /\ Origin' /\ FilesWhole'
        /\ cur \in DOMAIN disk' <=> cur \in DOMAIN disk
        /\ cur \in DOMAIN disk => disk'[cur] = disk[cur]
    BY <1>1, <1>2, <1>4, <1>5, BesideKeeps
  <1>7. Stages' /\ Victims'
    BY <1>2, <1>4 DEF Stages, Victims, FileSteps, Frame
  <1>8. Present'
    BY <1>2, <1>6 DEF Inv, Present, Wanted, FileSteps, Frame, Running
  <1>9. NewWhole'
    <2>1. New \in DOMAIN disk => New \in DOMAIN disk' /\ disk'[New] = disk[New]
      BY <1>4, <1>5, Untouched
    <2> QED
      BY <1>2, <2>1 DEF Inv, NewWhole, New, Stat, MasterData, Master, Frame
  <1> QED
    BY <1>4, <1>5, <1>6, <1>7, <1>8, <1>9 DEF Good, Inv

LEMMA ReplaceGood == ASSUME Inv, ReplaceFile PROVE Good
  <1> DEFINE data == Stat(Master(tree[cur], cur)).data
  <1>1. /\ TypeOK /\ IsDisk(disk) /\ ret \in {0, -1} /\ status \in {0, 2, 4} /\ after \in Running
        /\ failed \in BOOLEAN /\ cur \in Plain /\ cur \in Path /\ cur \in DOMAIN tree
    BY CurFacts
  <1>2. /\ pc \in {"mv", "mvbusy"} /\ pc \in FileSteps /\ Frame
        /\ opts.lazy \/ (cur \notin busy /\ Lstat(cur).type # DIR)
        /\ UNCHANGED <<busy, victims, after, failed>>
        /\ disk' = IF opts.lazy THEN disk ELSE With(Without(disk, {New}), cur, disk[New])
        /\ status' \in {4, status} /\ ret' = IF cur \in DOMAIN disk' THEN 0 ELSE -1
        /\ pc' = IF ret' = 0 THEN "tim" ELSE "update"
    BY DEF ReplaceFile, NewInPlace, Renamed, Frame, walk, world, removal, FileSteps
  <1>3. /\ pc \in Running /\ tree[cur].type = REG /\ Owned(cur) /\ cur # <<>>
        /\ New \in Path /\ New # <<>> /\ New \notin Plain /\ New \notin busy /\ ~Twice(New) /\ Owned(New)
        /\ Front(New) = Front(cur) /\ Below(disk, New) = {}
        /\ New \in DOMAIN disk => disk[New].type = REG
    BY <1>2, FileFacts
  <1>4. ret' \in {0, -1} /\ pc' \in {"tim", "update"} /\ pc' \in Running /\ status' \in {0, 2, 4}
    BY <1>1, <1>2 DEF Running
  <1>5. ~opts.lazy => New \in DOMAIN disk /\ disk[New].data = data /\ "proto" \in tree[cur].flag
    BY <1>2 DEF Inv, NewWhole
  <1> HIDE DEF data
  <1>6. /\ IsDisk(disk') /\ Altered \subseteq {New, cur}
        /\ ~opts.lazy => cur \in DOMAIN disk' /\ disk'[cur] = disk[New] /\ New \notin DOMAIN disk'
    <2>1. CASE opts.lazy
      BY <1>1, <1>2, <2>1, UnchangedDisk
    <2>2. CASE ~opts.lazy
      <3> DEFINE d == Without(disk, {New})
      <3>1. disk' = With(d, cur, disk[New])
        BY <1>2, <2>2
      <3>2. IsDisk(d)
        BY <1>1, <1>3, DiskWithout
      <3>3. DOMAIN d = DOMAIN disk \ {New} /\ \A q \in DOMAIN d : d[q] = disk[q]
        BY DEF Without
      <3>4. Front(New) \in DOMAIN disk /\ disk[Front(New)].type = DIR /\ Front(New) # New
        BY <1>1, <1>3, <1>5, <2>2, DiskFacts, PathOrder
      <3>5. Fits(disk[New], cur)
        BY <1>1, <1>3, <1>5, <2>2, TypesDiffer DEF Fits, IsDisk
      <3>6. Below(disk, cur) = {}
        BY <1>1, <1>2, <2>2, DiskFacts, NothingBelow DEF Lstat
      <3>7. Below(d, cur) = {}
        BY <3>3, <3>6 DEF Below
      <3> HIDE DEF d
      <3>8. IsDisk(disk')
        BY <1>1, <1>3, <3>1, <3>2, <3>3, <3>4, <3>5, <3>7, DiskWith
      <3>9. DOMAIN disk' = DOMAIN d \cup {cur} /\ disk'[cur] = disk[New] /\ \A q \in DOMAIN d : q # cur => disk'[q] = d[q]
        BY <3>1 DEF With
      <3>10. Altered \subseteq {New, cur}
        BY <3>3, <3>9 DEF Altered
      <3> QED
        BY <1>1, <1>3, <3>3, <3>8, <3>9, <3>10
    <2> QED
      BY <2>1, <2>2
  <1>7. TypeOK' /\ Phases' /\ RootNode' /\ Origin' /\ FilesWhole'
    <2>1. \A p \in Altered : p # cur => ~Twice(p)
      BY <1>3, <1>6
    <2>2. ASSUME NEW p \in DOMAIN before, p = cur, Twice(p)
          PROVE  Whole(p)'
      <3>1. CASE ~opts.lazy
        BY <1>2, <1>3, <1>5, <1>6, <2>2, <3>1 DEF Whole, IsFile, data, Stat, MasterData, Master, Frame
      <3>2. CASE opts.lazy
        <4>1. disk = before /\ disk' = disk
          BY <1>2, <1>3, <3>2 DEF Inv, Phases
        <4>2. Whole(p)
          BY <2>2, <4>1, AsBefore
        <4> QED
          BY <1>2, <4>1, <4>2 DEF Whole, IsFile, Stat, MasterData, Master, Frame
      <3> QED
        BY <3>1, <3>2
    <2>3. \A p \in busy' : p \notin Altered
      BY <1>2, <1>3, <1>6, UnchangedDisk
    <2>4. \A p \in Altered : p \in Plain /\ p \in DOMAIN disk' =>
               \/ p \in DOMAIN disk /\ disk'[p].type = disk[p].type
               \/ p \in DOMAIN tree /\ disk'[p].type = tree[p].type
      BY <1>1, <1>2, <1>3, <1>5, <1>6, UnchangedDisk
    <2> QED
      BY <1>1, <1>2, <1>3, <1>4, <1>6, <2>1, <2>2, <2>3, <2>4, StepKeeps
  <1>8. Stages' /\ Victims' /\ NewWhole'
    BY <1>2, <1>3, <1>4 DEF Stages, Victims, NewWhole, FileSteps, Frame
  <1>9. Present'
    BY <1>2, <1>3, <1>4, <1>5, <1>6 DEF Present, Wanted, FileSteps, Frame
  <1> QED
    BY <1>2, <1>3, <1>6, <1>7, <1>8, <1>9 DEF Good, Inv

LEMMA MoveAwayGood == ASSUME Inv, MoveBusyAway PROVE Good
  <1> DEFINE b == Ext(cur, "busy")
  <1>1. /\ TypeOK /\ IsDisk(disk) /\ ret \in {0, -1} /\ status \in {0, 2, 4} /\ after \in Running
        /\ cur \in Plain /\ cur \in Path /\ cur \in DOMAIN tree
    BY CurFacts
  <1>2. /\ pc = "mv" /\ pc \in FileSteps /\ Frame /\ cur \in busy /\ ~opts.lazy
        /\ UNCHANGED <<ret, victims, after, status>> /\ failed' = TRUE
        /\ disk' = With(Without(disk, {cur}), b, disk[cur]) /\ busy' = busy \ {cur}
        /\ pc' = "mvbusy" /\ pc' \in Running
    BY DEF MoveBusyAway, Renamed, Report, Frame, walk, world, removal, FileSteps, Running
  <1>3. /\ pc \in Running /\ tree[cur].type = REG /\ Owned(cur) /\ cur # <<>>
        /\ b \notin Plain /\ b \notin busy /\ ~Twice(b) /\ New # b /\ New \notin Plain
    BY <1>2, FileFacts
  <1>4. cur \in BusyTexts /\ cur \in DOMAIN disk /\ disk[cur].type = REG /\ Owned(b)
    BY <1>1, <1>2, FileFacts DEF TypeOK
  <1>5. Below(disk, cur) = {}
    BY <1>1, <1>4, DiskFacts, TypesDiffer
  <1>6. disk' = Removed(cur)
    BY <1>2, <1>5 DEF Removed
  <1>7. /\ IsDisk(disk') /\ cur \notin DOMAIN disk' /\ Altered \subseteq {cur, b}
    BY <1>1, <1>3, <1>5, <1>6, RemovedFacts
  <1>8. b \in DOMAIN disk' /\ disk'[b] = disk[cur]
    BY <1>2 DEF With
  <1> HIDE DEF b
  <1>9. TypeOK' /\ Phases' /\ RootNode' /\ Origin' /\ FilesWhole'
    <2>1. ASSUME NEW p \in DOMAIN before, p = cur, Twice(p)
          PROVE  Aside(p)'
      <3>1. Whole(p)
        BY <1>2, <1>3, <2>1 DEF Inv, FilesWhole, Aside
      <3>2. disk[cur].data = before[p].data
        BY <1>2, <2>1, <3>1 DEF Whole
      <3> QED
        BY <1>2, <1>4, <1>8, <2>1, <3>2 DEF Aside, b, Frame
    <2>2. \A p \in busy' : p \notin Altered
      BY <1>2, <1>3, <1>7
    <2>3. \A p \in Altered : ~(p \in Plain /\ p \in DOMAIN disk')
      BY <1>3, <1>7
    <2> QED
      BY <1>1, <1>2, <1>3, <1>7, <2>1, <2>2, <2>3, StepKeeps
  <1>10. Stages' /\ Victims'
    BY <1>2, <1>3 DEF Stages, Victims, FileSteps, Frame
  <1>11. Present'
    BY <1>2, <1>7 DEF Present, FileSteps, Frame
  <1>12. NewWhole'
    <2>1. New \in DOMAIN disk => New \in DOMAIN disk' /\ disk'[New] = disk[New]
      BY <1>1, <1>3, <1>7, Untouched
    <2> QED
      BY <1>2, <1>7, <2>1 DEF Inv, NewWhole, New, Stat, MasterData, Master, Frame
  <1> QED
    BY <1>2, <1>3, <1>4, <1>7, <1>9, <1>10, <1>11, <1>12 DEF Good, Inv

LEMMA AttributeGood ==
    ASSUME Inv, pc \in {"tim", "mod", "own"}, pc' \in {"mod", "own", "update"}, Frame,
           UNCHANGED <<busy, ret, victims, after, status, failed>>, NEW x,
           cur \in DOMAIN disk => /\ DOMAIN x = DOMAIN disk[cur]
                                 /\ x.type = disk[cur].type /\ x.data = disk[cur].data,
           disk' = disk \/ (~opts.lazy /\ disk' = [disk EXCEPT ![cur] = x])
    PROVE  Good
  <1>1. /\ TypeOK /\ IsDisk(disk) /\ ret \in {0, -1} /\ status \in {0, 2, 4} /\ after \in Running
        /\ failed \in BOOLEAN /\ cur \in Plain /\ cur \in DOMAIN tree
    BY CurFacts
  <1>2. pc \in Running /\ pc' \in Running \ {"rm"} /\ pc # "mvbusy" /\ UNCHANGED <<before, tree, vice>>
    BY DEF Running, Frame
  <1>3. tree[cur].type \in {CHR, BLK, DIR, REG}
    BY DEF Inv, Stages, FileSteps
  <1>4. tree[cur].type # LNK /\ DIR # LNK /\ tree[cur].type # {}
    BY <1>3, TypesDiffer DEF Handled
  <1>5. ~opts.lazy /\ cur \in DOMAIN disk => disk[cur].type \in {tree[cur].type, DIR}
    BY <1>2 DEF Inv, Present, Running
  <1>6. Stages' /\ NewWhole' /\ Victims'
    BY <1>2, <1>3 DEF Stages, NewWhole, Victims, FileSteps, Frame
  <1>7. CASE disk' = disk
    <2>1. Present'
      BY <1>2, <1>5, <1>7 DEF Present, FileSteps, Frame
    <2> QED
      BY <1>1, <1>2, <1>6, <1>7, <2>1, StillGood
  <1>8. CASE ~opts.lazy /\ disk' = [disk EXCEPT ![cur] = x]
    <2>1. cur \in DOMAIN disk => Fits(x, cur) /\ x.type = disk[cur].type
      BY <1>1, <1>4, <1>5, <1>8 DEF Fits, IsDisk
    <2>2. /\ IsDisk(disk') /\ Altered \subseteq {cur} /\ DOMAIN disk' = DOMAIN disk
          /\ cur \in DOMAIN disk => disk'[cur] = x
      BY <1>1, <1>8, <2>1, ChangedFacts
    <2>3. ASSUME NEW p \in DOMAIN before, p = cur, Twice(p)
          PROVE  Whole(p)'
      <3>1. Whole(p)
        BY <1>2, <2>3 DEF Inv, FilesWhole, Aside
      <3> QED
        BY <1>2, <2>2, <2>3, <3>1 DEF Whole, IsFile, Stat, MasterData, Master, Frame
    <2>4. \A p \in busy' : p \in Altered => p \in DOMAIN disk' /\ disk'[p].type = REG
      BY <1>1, <2>2 DEF TypeOK
    <2>5. \A p \in Altered : p \in Plain /\ p \in DOMAIN disk' =>
               \/ p \in DOMAIN disk /\ disk'[p].type = disk[p].type
               \/ p \in DOMAIN tree /\ disk'[p].type = tree[p].type
      BY <2>2
    <2>6. TypeOK' /\ Phases' /\ RootNode' /\ Origin' /\ FilesWhole'
      BY <1>1, <1>2, <1>8, <2>2, <2>3, <2>4, <2>5, StepKeeps
    <2>7. Present'
      BY <1>2, <1>5, <1>8, <2>2 DEF Present, FileSteps, Frame
    <2>8. Owned(cur)
      BY <1>4, CurFacts
    <2> QED
      BY <1>6, <1>8, <2>2, <2>6, <2>7, <2>8 DEF Good, Inv
  <1> QED
    BY <1>7, <1>8

LEMMA SetGood == ASSUME Inv, SetTime \/ SetMode \/ SetOwner PROVE Good
  <1> DEFINE x == [disk[cur] EXCEPT !.mtime = tree[cur].mtime]
             y == [disk[cur] EXCEPT !.mode = tree[cur].mode]
             z == [disk[cur] EXCEPT !.uid = tree[cur].uid]
  <1>1. cur \in DOMAIN disk => DOMAIN disk[cur] = DOMAIN NoInode
    BY CurFacts DEF IsDisk
  <1>2. /\ pc \in {"tim", "mod", "own"} /\ pc' \in {"mod", "own", "update"} /\ Frame
        /\ UNCHANGED <<busy, ret, victims, after, status, failed>>
    BY DEF SetTime, SetMode, SetOwner, Frame, walk, world, removal
  <1>3. CASE SetTime
    <2>1. disk' = disk \/ (~opts.lazy /\ disk' = [disk EXCEPT ![cur] = x])
      BY <1>3 DEF SetTime, SetDisk
    <2>2. cur \in DOMAIN disk => DOMAIN x = DOMAIN disk[cur] /\ x.type = disk[cur].type /\ x.data = disk[cur].data
      BY <1>1, NodeFields
    <2> HIDE DEF x
    <2> QED
      BY <1>2, <2>1, <2>2, AttributeGood
  <1>4. CASE SetMode
    <2>1. disk' = disk \/ (~opts.lazy /\ disk' = [disk EXCEPT ![cur] = y])
      BY <1>4 DEF SetMode, SetDisk
    <2>2. cur \in DOMAIN disk => DOMAIN y = DOMAIN disk[cur] /\ y.type = disk[cur].type /\ y.data = disk[cur].data
      BY <1>1, NodeFields
    <2> HIDE DEF y
    <2> QED
      BY <1>2, <2>1, <2>2, AttributeGood
  <1>5. CASE SetOwner
    <2>1. disk' = disk \/ (~opts.lazy /\ disk' = [disk EXCEPT ![cur] = z])
      BY <1>5 DEF SetOwner, SetDisk
    <2>2. cur \in DOMAIN disk => DOMAIN z = DOMAIN disk[cur] /\ z.type = disk[cur].type /\ z.data = disk[cur].data
      BY <1>1, NodeFields
    <2> HIDE DEF z
    <2> QED
      BY <1>2, <2>1, <2>2, AttributeGood
  <1> QED
    BY <1>3, <1>4, <1>5

(* The steps that end a run, and what happens between two.                 *)
LEMMA EndGood == ASSUME Inv, Finish \/ Release PROVE Good
  <1>1. /\ UNCHANGED <<conf, opts, disk, line, tree, work, cur, ret, victims, after, before>>
        /\ pc' \in {"done", "idle"} /\ busy' \subseteq busy
        /\ status' = status /\ failed' \in BOOLEAN /\ DOMAIN vice' = DOMAIN vice
    <2>1. failed \in BOOLEAN
      BY CurFacts
    <2>2. CASE Finish
      BY <2>1, <2>2 DEF Finish, walk, world, removal
    <2>3. CASE Release
      BY <2>1, <2>3 DEF Release, walk, world, removal
    <2> QED
      BY <2>2, <2>3
  <1>2. pc' \notin Running \cup {"load", "check", "rm"} \cup FileSteps
    BY <1>1 DEF Running, FileSteps
  <1>3. TypeOK'
    BY <1>1 DEF Inv, TypeOK
  <1>4. Phases' /\ RootNode' /\ Stages' /\ Present' /\ NewWhole' /\ Victims' /\ Origin' /\ FilesWhole'
    BY <1>1, <1>2 DEF Inv, Phases, RootNode, Stages, Present, NewWhole, Victims, Origin, FilesWhole, FileSteps, Running
  <1> QED
    BY <1>1, <1>3, <1>4, UnchangedDisk DEF Good, Inv

(* What a power failure may take is the data of files copied in this run.  *)
LEMMA CrashDoes ==
    ASSUME Inv, Crash
    PROVE  /\ UNCHANGED <<conf, opts, vice, line, tree, work, cur, ret, victims, after, before, status>>
           /\ pc \in Running /\ pc' = "crashed" /\ failed' = TRUE /\ busy' \subseteq busy
           /\ opts.lazy => disk' = disk
           /\ DOMAIN disk' = DOMAIN disk
           /\ \A p \in DOMAIN disk : p \notin Unflushed => disk'[p] = disk[p]
           /\ \A p \in DOMAIN disk : /\ DOMAIN disk'[p] = DOMAIN NoInode
                                     /\ \A f \in DOMAIN NoInode : f # "data" => disk'[p][f] = disk[p][f]
  <1>1. IsDisk(disk)
    BY DEF Inv, TypeOK
  <1>2. \A p \in DOMAIN disk : DOMAIN disk[p] = DOMAIN NoInode
    BY <1>1 DEF IsDisk
  <1>3. PICK S \in SUBSET Unflushed : SetDisk(Lost(S))
    BY DEF Crash
  <1>4. disk' = disk \/ disk' = [p \in DOMAIN disk |-> IF p \in S THEN [disk[p] EXCEPT !.data = 0] ELSE disk[p]]
    BY <1>3 DEF SetDisk, Lost
  <1>5. opts.lazy => disk' = disk
    BY <1>3 DEF SetDisk
  <1>6. /\ DOMAIN disk' = DOMAIN disk
        /\ \A p \in DOMAIN disk : disk'[p] = disk[p] \/ (p \in S /\ disk'[p] = [disk[p] EXCEPT !.data = 0])
    BY <1>4
  <1>7. \A p \in DOMAIN disk : /\ DOMAIN disk'[p] = DOMAIN NoInode
                              /\ \A f \in DOMAIN NoInode : f # "data" => disk'[p][f] = disk[p][f]
    BY <1>2, <1>6
  <1>8. /\ UNCHANGED <<conf, opts, vice, line, tree, work, cur, ret, victims, after, before, status>>
        /\ pc \in Running /\ pc' = "crashed" /\ failed' = TRUE /\ busy' \subseteq busy
    BY DEF Crash, Report, walk, removal
  <1> QED
    BY <1>3, <1>5, <1>6, <1>7, <1>8

LEMMA CrashGood == ASSUME Inv, Crash PROVE Good
  <1>1. /\ UNCHANGED <<conf, opts, vice, line, tree, work, cur, ret, victims, after, before, status>>
        /\ pc \in Running /\ pc' = "crashed" /\ failed' = TRUE /\ busy' \subseteq busy
        /\ opts.lazy => disk' = disk
        /\ DOMAIN disk' = DOMAIN disk
        /\ \A p \in DOMAIN disk : p \notin Unflushed => disk'[p] = disk[p]
        /\ \A p \in DOMAIN disk : /\ DOMAIN disk'[p] = DOMAIN NoInode
                                  /\ \A f \in DOMAIN NoInode : f # "data" => disk'[p][f] = disk[p][f]
    BY CrashDoes
  <1>2. pc' \notin Running \cup {"load", "check", "rm"} \cup FileSteps
    BY <1>1 DEF Running, FileSteps
  <1>3. {"type", "mode"} \subseteq DOMAIN NoInode
    BY DEF NoInode, Inode
  <1>4. \A p \in DOMAIN disk : disk'[p].type = disk[p].type /\ disk'[p].mode = disk[p].mode
    BY <1>1, <1>3
  <1>5. IsDisk(disk')
    <2>1. IsDisk(disk)
      BY DEF Inv, TypeOK
    <2> QED
      BY <1>1, <1>4, <2>1 DEF IsDisk, ReadOnly
  <1>6. TypeOK'
    BY <1>1, <1>4, <1>5 DEF Inv, TypeOK
  <1>7. Phases' /\ RootNode' /\ Stages' /\ Present' /\ NewWhole' /\ Victims' /\ Origin' /\ FilesWhole'
    BY <1>1, <1>2 DEF Inv, Phases, RootNode, Stages, Present, NewWhole, Victims, Origin, FilesWhole, FileSteps, Running
  <1>8. \A p \in Altered : p \in Unflushed
    BY <1>1 DEF Altered
  <1>9. \A p \in Unflushed : Owned(p)
    <2>1. pc \in {"copying", "rmold", "ln", "mv", "mvbusy"} => Owned(New)
      BY FileFacts DEF FileSteps
    <2> QED
      BY <2>1, TypesDiffer DEF Unflushed, Owned, IsFile
  <1> QED
    BY <1>1, <1>6, <1>7, <1>8, <1>9 DEF Good, Inv

LEMMA FreshTree ==
    LET t == [q \in {<<>>} |-> NewNode] IN IsTree(t) /\ t[<<>>].type = {} /\ t[<<>>].flag = {}
  <1> DEFINE t == [q \in {<<>>} |-> NewNode]
  <1>1. DOMAIN t = {<<>>} /\ t[<<>>] = NewNode
    OBVIOUS
  <1>2. IsFiniteSet({<<>>}) /\ <<>> \in Plain /\ Above(<<>>) = {}
    BY FS_Singleton, PlainPath, RootAbove
  <1>3. IsTree(t)
    BY <1>1, <1>2 DEF IsTree
  <1> QED
    BY <1>1, <1>3, NodeFields

LEMMA RerunGood == ASSUME Inv, Rerun PROVE Good
  <1>1. /\ UNCHANGED <<conf, opts, vice, disk, busy>> /\ pc' = "load" /\ line' = 0
        /\ tree' = [q \in {<<>>} |-> NewNode] /\ work' = <<>> /\ cur' = <<>> /\ ret' = 0
        /\ after' = "update" /\ status' = 0 /\ before' = disk /\ failed' = FALSE
    BY DEF Rerun, Begin
  <1>2. IsTree(tree') /\ tree'[<<>>].type = {} /\ tree'[<<>>].flag = {}
    BY <1>1, FreshTree
  <1>3. <<>> \in DOMAIN tree' /\ work' \in Seq(DOMAIN tree')
    BY <1>1, EmptySeq
  <1>4. line' \in 0..Len(conf')
    <2>1. Len(conf) \in Nat
      BY PackageAssumption, LenProperties DEF Inv, TypeOK
    <2> QED
      BY <1>1, <2>1
  <1>5. TypeOK'
    BY <1>1, <1>2, <1>3, <1>4 DEF Inv, TypeOK, Running
  <1>6. pc' \notin Running \cup {"rm"} \cup FileSteps
    BY <1>1 DEF Running, FileSteps
  <1>7. Phases' /\ RootNode' /\ Stages' /\ Present' /\ NewWhole' /\ Victims' /\ Origin' /\ FilesWhole'
    BY <1>1, <1>2, <1>6 DEF Phases, RootNode, Stages, Present, NewWhole, Victims, Origin, FilesWhole, FileSteps, Running
  <1> QED
    BY <1>1, <1>5, <1>7, UnchangedDisk DEF Good, Inv

LEMMA BeginsGood == ASSUME Init PROVE Inv
  <1>1. /\ conf \in Confs /\ opts \in Options /\ vice \in Masters /\ disk \in Disks
        /\ busy \in SUBSET {p \in BusyTexts \cap DOMAIN disk : disk[p].type = REG}
        /\ pc = "load" /\ line = 0 /\ tree = [q \in {<<>>} |-> NewNode] /\ work = <<>> /\ cur = <<>> /\ ret = 0
        /\ after = "update" /\ status = 0 /\ before = disk /\ failed = FALSE
    BY DEF Init
  <1>2. IsTree(tree) /\ tree[<<>>].type = {} /\ tree[<<>>].flag = {}
    BY <1>1, FreshTree
  <1>3. <<>> \in DOMAIN tree /\ work \in Seq(DOMAIN tree)
    BY <1>1, EmptySeq
  <1>4. line \in 0..Len(conf)
    <2>1. Len(conf) \in Nat
      BY <1>1, PackageAssumption, LenProperties
    <2> QED
      BY <1>1, <2>1
  <1>5. IsDisk(disk)
    BY <1>1, PackageAssumption
  <1>6. TypeOK
    BY <1>1, <1>2, <1>3, <1>4, <1>5 DEF TypeOK, Running
  <1>7. pc \notin Running \cup {"rm"} \cup FileSteps
    BY <1>1 DEF Running, FileSteps
  <1>8. Phases /\ RootNode /\ Stages /\ Present /\ NewWhole /\ Victims /\ Origin /\ FilesWhole
    BY <1>1, <1>2, <1>7 DEF Phases, RootNode, Stages, Present, NewWhole, Victims, Origin, FilesWhole, FileSteps, Running
  <1> QED
    BY <1>6, <1>8 DEF Inv

(* The steps of load and check leave the disk alone.                       *)
LEMMA ReadKeeps ==
    ASSUME Inv, pc \in {"load", "check"}, pc' \in {"load", "check", "fatal"}, pc' = "load" => work' = <<>>,
           UNCHANGED <<conf, opts, vice, before, disk, busy, cur, ret, after, failed>>,
           IsTree(tree'), RootNode', line' \in 0..Len(conf), work' \in Seq(DOMAIN tree'), cur \in DOMAIN tree',
           status' \in {0, 2, 4}
    PROVE  Good
  <1>1. TypeOK'
    BY DEF Inv, TypeOK
  <1>2. pc' \notin Running \cup {"rm"} \cup FileSteps /\ disk = before /\ cur = <<>>
    BY DEF Running, FileSteps, Inv, Phases
  <1>3. Phases' /\ Stages' /\ Present' /\ NewWhole' /\ Victims' /\ Origin' /\ FilesWhole'
    BY <1>2 DEF Phases, Stages, Present, NewWhole, Victims, Origin, FilesWhole, FileSteps, Running
  <1> QED
    BY <1>1, <1>3, UnchangedDisk DEF Good, Inv

LEMMA LoadGood == ASSUME Inv, LoadEntry \/ Loaded PROVE Good
  <1>1. /\ TypeOK /\ IsTree(tree) /\ line \in 0..Len(conf) /\ status \in {0, 2, 4} /\ <<>> \in DOMAIN tree
        /\ cur \in DOMAIN tree /\ RootNode
    BY CurFacts DEF Inv, TypeOK, IsTree
  <1>2. pc = "load" /\ work = <<>> /\ cur = <<>>
    BY DEF LoadEntry, Loaded, Inv, Phases
  <1>3. CASE LoadEntry
    <2>1. /\ UNCHANGED <<conf, opts, vice, before, disk, busy, work, cur, ret, after, failed>>
          /\ pc' \in {"load", "fatal"} /\ status' \in {0, 2, 4} /\ line' \in {line, line + 1} /\ line < Len(conf)
      BY <1>1, <1>2, <1>3 DEF LoadEntry, Fatal, walk, world, removal
    <2>2. IsTree(tree') /\ RootNode'
      BY <1>1, <1>3, EntryTree
    <2>3. line' \in 0..Len(conf)
      BY <1>1, <2>1, LineFacts
    <2>4. <<>> \in DOMAIN tree' /\ work' \in Seq(DOMAIN tree')
      BY <1>2, <2>1, <2>2, EmptySeq DEF IsTree
    <2> QED
      BY <1>2, <2>1, <2>2, <2>3, <2>4, ReadKeeps
  <1>4. CASE Loaded
    <2>1. /\ UNCHANGED <<conf, opts, vice, before, disk, busy, line, tree, cur, ret, after, failed, status>>
          /\ pc' = "check" /\ work' = <<<<>>>>
      BY <1>4 DEF Loaded, world, removal
    <2>2. work' \in Seq(DOMAIN tree')
      BY <1>1, <2>1
    <2>3. RootNode'
      BY <1>1, <2>1 DEF RootNode
    <2> QED
      BY <1>1, <1>2, <2>1, <2>2, <2>3, ReadKeeps
  <1> QED
    BY <1>3, <1>4

LEMMA CheckGood == ASSUME Inv, CheckNode PROVE Good
  <1> DEFINE p == Head(work)  np == tree[p]  m == Master(np, p)  t == Checked(np, p, m)
  <1>1. /\ TypeOK /\ IsTree(tree) /\ line \in 0..Len(conf) /\ status \in {0, 2, 4} /\ <<>> \in DOMAIN tree
        /\ cur \in DOMAIN tree /\ RootNode /\ work \in Seq(DOMAIN tree)
    BY CurFacts DEF Inv, TypeOK, IsTree
  <1>2. /\ pc = "check" /\ work # <<>> /\ UNCHANGED <<conf, opts, vice, before, disk, busy, line, cur, ret, after, failed>>
        /\ \/ pc' = "fatal" /\ status' = 2 /\ UNCHANGED <<tree, work>>
           \/ tree' = t /\ Descend(tree', p) /\ UNCHANGED <<pc, status>>
    BY DEF CheckNode, Fatal, world, removal
  <1>3. p \in DOMAIN tree
    BY <1>1, <1>2, HeadTailProperties
  <1>4. CASE pc' = "fatal" /\ status' = 2 /\ UNCHANGED <<tree, work>>
    <2>1. RootNode'
      BY <1>1, <1>4 DEF RootNode
    <2> QED
      BY <1>1, <1>2, <1>4, <2>1, ReadKeeps
  <1>5. CASE tree' = t /\ Descend(tree', p) /\ UNCHANGED <<pc, status>>
    <2>1. /\ IsTree(t) /\ DOMAIN tree \subseteq DOMAIN t
          /\ \A q \in DOMAIN tree :
                /\ "type" \in tree[q].flag => t[q].type = tree[q].type /\ "type" \in t[q].flag
                /\ q # p => t[q].type = tree[q].type /\ ("type" \in t[q].flag <=> "type" \in tree[q].flag)
          /\ t[p] # tree[p] => "proto" \in tree[p].flag /\ "type" \in t[p].flag
          /\ \A q \in DOMAIN tree \ {p} : q = <<>> \/ Front(q) # p => t[q] = tree[q]
      BY <1>1, <1>3, CheckedTree
    <2> HIDE DEF t
    <2>2. work' \in Seq(DOMAIN tree')
      <3>1. work \in Seq(DOMAIN t)
        BY <1>1, <2>1, SeqMonotonic
      <3> HIDE DEF p
      <3> QED
        BY <1>2, <1>5, <2>1, <3>1, DescendFacts
    <2>3. RootNode'
      <3>1. CASE p = <<>>
        <4>1. CASE t[p] = tree[p]
          BY <1>1, <1>5, <3>1, <4>1 DEF RootNode
        <4>2. CASE t[p] # tree[p]
          <5>1. "type" \in tree[p].flag /\ "type" \in t[p].flag
            BY <1>1, <2>1, <3>1, <4>2 DEF RootNode
          <5>2. t[p].type = tree[p].type
            BY <1>3, <2>1, <5>1
          <5> QED
            BY <1>1, <1>5, <3>1, <5>1, <5>2 DEF RootNode
        <4> QED
          BY <4>1, <4>2
      <3>2. CASE p # <<>>
        <4>1. t[<<>>] = tree[<<>>]
          BY <1>1, <2>1, <3>2
        <4> QED
          BY <1>1, <1>5, <4>1 DEF RootNode
      <3> QED
        BY <3>1, <3>2
    <2>4. IsTree(tree') /\ cur \in DOMAIN tree' /\ pc' = "check"
      BY <1>1, <1>2, <1>5, <2>1
    <2> QED
      BY <1>1, <1>2, <1>5, <2>2, <2>3, <2>4, ReadKeeps
  <1> QED
    BY <1>2, <1>4, <1>5

LEMMA AllCheckedGood == ASSUME Inv, AllChecked PROVE Good
  <1>1. /\ TypeOK /\ <<>> \in DOMAIN tree /\ disk = before /\ cur = <<>> /\ RootNode
    BY DEF Inv, TypeOK, IsTree, AllChecked, Phases
  <1>2. /\ UNCHANGED <<conf, opts, vice, before, disk, busy, line, tree, cur, ret, victims, after, failed, status>>
        /\ pc' = "update" /\ work' = <<<<>>>>
    BY DEF AllChecked, world, removal
  <1>3. work' \in Seq(DOMAIN tree')
    BY <1>1, <1>2
  <1>4. TypeOK'
    BY <1>1, <1>2, <1>3 DEF TypeOK, Running
  <1>5. Phases' /\ RootNode' /\ Stages' /\ Present' /\ NewWhole' /\ Victims'
    BY <1>1, <1>2 DEF Phases, RootNode, Stages, Present, NewWhole, Victims, FileSteps
  <1>6. Origin' /\ FilesWhole'
    <2>1. ASSUME NEW p \in DOMAIN before, Twice(p)'
          PROVE  Whole(p)'
      BY <1>1, <1>2, <2>1 DEF Twice, Whole, IsFile
    <2> QED
      BY <1>1, <1>2, <2>1 DEF Origin, FilesWhole
  <1> QED
    BY <1>2, <1>4, <1>5, <1>6, UnchangedDisk DEF Good, Inv

-----------------------------------------------------------------------------
(* The theorems.                                                           *)

LEMMA StepGood == ASSUME Inv, Next PROVE Good
  BY VisitGood, RemoveGood, DeviceGood, MakeDeviceGood, LinkGood, MakeLinkGood, MakeDirectoryGood,
     CleanGood, CheckFileGood, OpenNewGood, CopyGood, GiveUpGood, RemoveOldGood, LinkOldGood,
     ReplaceGood, MoveAwayGood, SetGood, EndGood, CrashGood, RerunGood, LoadGood, CheckGood, AllCheckedGood
  DEF Next, Package, Load, Check, UpdateFile, UpdateOther

LEMMA StutterKeeps == ASSUME Inv, UNCHANGED vars PROVE Inv'
  <1>1. /\ UNCHANGED <<conf, opts, vice, disk, busy, pc, line, tree, work, cur, ret, victims, after,
                       status, before, failed>>
    BY DEF vars
  <1>2. TypeOK'
    BY <1>1 DEF Inv, TypeOK
  <1>3. Phases' /\ RootNode' /\ Stages' /\ Present' /\ NewWhole'
    BY <1>1 DEF Inv, Phases, RootNode, Stages, Clearing, Cleaning, Present, Wanted, NewWhole, New, Stat, MasterData, Master
  <1>4. Victims'
    BY <1>1 DEF Inv, Victims, Victim, Unnamed
  <1>5. Origin' /\ FilesWhole'
    BY <1>1 DEF Inv, Origin, FilesWhole, Twice, Whole, Aside, IsFile, Walked, Stat, MasterData, Master
  <1> QED
    BY <1>2, <1>3, <1>4, <1>5 DEF Inv

THEOREM InvCorrect == Spec => []Inv
  <1>1. Init => Inv
    BY BeginsGood
  <1>2. Inv /\ [Next]_vars => Inv'
    BY StepGood, StutterKeeps DEF Good
  <1> QED
    BY <1>1, <1>2, PTL DEF Spec

(* Every variable stays in its type: whatever package makes, removes and   *)
(* renames, everything on the disk is in a directory.                      *)
THEOREM TypeCorrect == Spec => []TypeOK
  <1>1. Inv => TypeOK
    BY DEF Inv
  <1> QED
    BY <1>1, InvCorrect, PTL

(* A file that is replaced is at every call there in full, as it was or as *)
(* its master is, or aside under .busy: so it is when package is killed.   *)
THEOREM FilesCorrect == Spec => []NeverTorn
  <1>1. Inv => NeverTorn
    <2> SUFFICES ASSUME Inv, pc \in Running, NEW p \in DOMAIN before, Twice(p)
                 PROVE  \/ IsFile(disk, p) /\ disk[p].data \in {before[p].data} \cup MasterData(tree[p], p)
                        \/ p \in BusyTexts /\ Lstat(Ext(p, "busy")).data = before[p].data
      BY DEF NeverTorn, AllWhole, Twice
    <2>1. Whole(p) \/ Aside(p)
      BY DEF Inv, FilesWhole
    <2> QED
      BY <2>1 DEF Whole, Aside, Lstat
  <1> QED
    BY <1>1, InvCorrect, PTL

(* A step changes only what the configuration names, what package itself   *)
(* puts beside it, what is not named in a directory to be cleaned, and     *)
(* what is in the way of something else; nothing under the option n.       *)
THEOREM OnlyItsOwnCorrect == Spec => OnlyItsOwn
  <1>1. Inv /\ [Next]_vars => [~opts.lazy /\ Altered \subseteq {p \in Altered : Owned(p)}]_disk
    <2>1. Inv /\ Next => Good
      BY StepGood
    <2>2. Good => [~opts.lazy /\ Altered \subseteq {p \in Altered : Owned(p)}]_disk
      BY DEF Good
    <2>3. UNCHANGED vars => disk' = disk
      BY DEF vars
    <2> QED
      BY <2>1, <2>2, <2>3
  <1> QED
    BY <1>1, InvCorrect, PTL DEF Spec, OnlyItsOwn

-----------------------------------------------------------------------------
(* The line with the letter W.                                             *)

LEMMA WinnerPath ==
    ASSUME TypeOK, NEW i \in DOMAIN conf
    PROVE  conf[i] \in Line /\ conf[i].path \in Plain /\ conf[i].path \in Path
  <1>1. conf \in Seq(Line)
    BY PackageAssumption DEF TypeOK
  <1>2. conf[i] \in Line
    BY <1>1, ElementOfSeq, LenProperties
  <1> QED
    BY <1>2, PlainPath DEF Line

(* The nodes that a line leaves alone.                                     *)
LEMMA WinnersLoad ==
    ASSUME TypeOK, Winners, LoadEntry, pc' = "load"
    PROVE  Winners'
  <1> DEFINE e == conf[line + 1]
             t == LookupPath(e)
             n == t[e.path]
             conflict == TypeConflict(n, e) \/ AbsConflict(n, e)
             wins == OneWins(n.flag, e.opts)
             loses == conflict /\ wins /\ "win" \in n.flag
             t2 == IF conflict /\ wins THEN Wiped(t, e.path) ELSE t
             x == Merged(t2[e.path], e)
  <1>1. /\ IsTree(tree) /\ e \in Line /\ e.path \in Plain /\ e.path \in Path
        /\ line + 1 \in DOMAIN conf /\ line \in Nat /\ DOMAIN conf = 1..Len(conf) /\ Len(conf) \in Nat
    <2>1. line < Len(conf) /\ IsTree(tree) /\ line \in 0..Len(conf)
      BY DEF LoadEntry, TypeOK
    <2>2. /\ Len(conf) \in Nat /\ DOMAIN conf = 1..Len(conf) /\ line + 1 \in 1..Len(conf)
          /\ e \in Line /\ e.path \in Plain
      BY <2>1, LineFacts
    <2> HIDE DEF e
    <2>3. e.path \in Path
      BY <2>2, PlainPath
    <2>4. line \in Nat /\ line + 1 \in DOMAIN conf
      BY <2>1, <2>2
    <2> QED
      BY <2>1, <2>2, <2>3, <2>4
  <1>2. /\ pc = "load" /\ conf' = conf /\ line' = line + 1 /\ ~Blocked(e)
        /\ tree' = IF loses THEN t ELSE With(t2, e.path, x)
        /\ TypeConflict(n, e) => wins
    BY DEF LoadEntry, Fatal, world
  <1>3. /\ DOMAIN t = DOMAIN tree \cup Above(e.path) \cup {e.path}
        /\ \A q \in DOMAIN t : DOMAIN t[q] = DOMAIN NewNode
        /\ n = IF e.path \in DOMAIN tree THEN tree[e.path] ELSE NewNode
        /\ \A q \in DOMAIN tree :
               /\ t[q].flag = tree[q].flag
               /\ q \notin Above(e.path) \/ "type" \in tree[q].flag => t[q] = tree[q]
               /\ t[q].type = tree[q].type \/ t[q].type = tree[q].type \cup DIR
        /\ \A q \in DOMAIN t \ DOMAIN tree : t[q].flag = {} /\ t[q].type \subseteq DIR
    BY <1>1, LookedUp
  <1>4. IsTree(t) /\ e.path \in DOMAIN t
    BY <1>1, <1>2, <1>3, LookedUpTree
  <1> HIDE DEF t
  <1>5. /\ conflict /\ wins => t2[e.path] = NewNode
        /\ ~(conflict /\ wins) => t2[e.path] = n
        /\ DOMAIN t2[e.path] = DOMAIN NewNode /\ e.path \in DOMAIN t2 /\ DOMAIN t2 \subseteq DOMAIN t
        /\ \A q \in DOMAIN t : q # e.path /\ ~(conflict /\ wins /\ Under(q, e.path)) => q \in DOMAIN t2
        /\ \A q \in DOMAIN t2 : q # e.path => t2[q] = t[q]
    <2>1. CASE conflict /\ wins
      <3>1. /\ t2 = Wiped(t, e.path)
            /\ DOMAIN Wiped(t, e.path) = DOMAIN t \ Below(t, e.path)
            /\ Wiped(t, e.path)[e.path] = NewNode
            /\ \A q \in DOMAIN t \ Below(t, e.path) : q # e.path => Wiped(t, e.path)[q] = t[q]
        BY <1>4, <2>1, WipedTree
      <3>2. e.path \notin Below(t, e.path)
        BY <1>1, PathOrder DEF Below, Under
      <3>3. \A q \in DOMAIN t : ~Under(q, e.path) => q \notin Below(t, e.path)
        BY DEF Below
      <3> QED
        BY <1>4, <2>1, <3>1, <3>2, <3>3
    <2>2. CASE ~(conflict /\ wins)
      <3>1. t2 = t
        BY <2>2
      <3> QED
        BY <1>3, <1>4, <2>2, <3>1
    <2> QED
      BY <2>1, <2>2
  <1> HIDE DEF t2
  <1>6. /\ DOMAIN x = DOMAIN NewNode /\ x.type = t2[e.path].type \cup Kind[e.kind] /\ "type" \in x.flag
        /\ "win" \in x.flag <=> "win" \in t2[e.path].flag \cup e.opts
    BY <1>1, <1>5, MergedFacts
  <1> HIDE DEF x
  <1>7. /\ DOMAIN tree' \subseteq DOMAIN t /\ e.path \in DOMAIN tree'
        /\ \A q \in DOMAIN tree' : q # e.path => tree'[q] = t[q]
        /\ \A q \in DOMAIN t : q # e.path /\ ~(conflict /\ wins /\ ~loses /\ Under(q, e.path)) => q \in DOMAIN tree'
        /\ tree'[e.path] = IF loses THEN n ELSE x
    <2>1. CASE loses
      BY <1>2, <1>4, <2>1
    <2>2. CASE ~loses
      <3>1. tree' = With(t2, e.path, x)
        BY <1>2, <2>2
      <3>2. /\ DOMAIN tree' = DOMAIN t2 \cup {e.path} /\ tree'[e.path] = x
            /\ \A q \in DOMAIN t2 : q # e.path => tree'[q] = t2[q]
        BY <3>1 DEF With
      <3> QED
        BY <1>4, <1>5, <2>2, <3>2
    <2> QED
      BY <2>1, <2>2
  <1>8. NewNode.flag = {} /\ NewNode.type = {}
    BY NodeFields
  <1>9. wins <=> ("win" \in n.flag) # ("win" \in e.opts)
    BY DEF OneWins
  <1> HIDE DEF wins
  <1>10. ASSUME NEW i \in DOMAIN conf, Winner(i), i > line + 1
         PROVE  Open(i)'
    <2> DEFINE q == conf[i].path
    <2>1. Open(i) /\ q \in Path
      BY <1>1, <1>2, <1>10, WinnerPath DEF Winners
    <2>2. e.path = q => "win" \notin e.opts
      BY <1>1, <1>10 DEF Winner, WinsAlone
    <2>12. q \in Above(e.path) => OnTheWay(i)
      <3>1. line + 1 \in 1..i - 1
        BY <1>1, <1>10
      <3> QED
        BY <3>1 DEF OnTheWay, Under
    <2>13. OnTheWay(i)' <=> OnTheWay(i)
      BY <1>2 DEF OnTheWay
    <2>3. CASE q = e.path
      <3>1. "win" \notin n.flag
        BY <1>3, <1>8, <2>1, <2>3 DEF Open
      <3>2. ~loses /\ tree'[q] = x
        BY <1>7, <2>3, <3>1
      <3>3. "win" \notin x.flag
        BY <1>5, <1>6, <1>8, <2>2, <2>3, <3>1
      <3> QED
        BY <1>2, <1>6, <3>2, <3>3 DEF Open
    <2>4. CASE q # e.path
      <3>1. q \in DOMAIN tree' => q \in DOMAIN t /\ tree'[q] = t[q]
        BY <1>7, <2>4
      <3>2. CASE q \in DOMAIN tree /\ q \in DOMAIN tree'
        <4>1. t[q].flag = tree[q].flag /\ "win" \notin t[q].flag
          BY <1>3, <2>1, <3>2 DEF Open
        <4>2. ASSUME "type" \notin t[q].flag
              PROVE  t[q].type = {} \/ (OnTheWay(i) /\ t[q].type = DIR)
          <5>1. tree[q].type = {} \/ (OnTheWay(i) /\ tree[q].type = DIR)
            BY <2>1, <3>2, <4>1, <4>2 DEF Open
          <5>2. q \notin Above(e.path) => t[q] = tree[q]
            BY <1>3, <3>2
          <5>3. t[q].type = tree[q].type \/ t[q].type = tree[q].type \cup DIR
            BY <1>3, <3>2
          <5> QED
            BY <2>12, <5>1, <5>2, <5>3
        <4> QED
          BY <1>2, <2>13, <3>1, <3>2, <4>1, <4>2 DEF Open
      <3>3. CASE q \notin DOMAIN tree /\ q \in DOMAIN tree'
        <4>1. q \in Above(e.path) /\ t[q].flag = {} /\ t[q].type \subseteq DIR
          BY <1>3, <2>4, <3>1, <3>3
        <4>2. t[q].type = {} \/ t[q].type = DIR
          BY <4>1 DEF DIR
        <4> QED
          BY <1>2, <2>12, <2>13, <3>1, <3>3, <4>1, <4>2 DEF Open
      <3>4. CASE q \notin DOMAIN tree'
        BY <1>2, <3>4 DEF Open
      <3> QED
        BY <3>2, <3>3, <3>4
    <2> QED
      BY <2>3, <2>4
  <1>11. ASSUME NEW i \in DOMAIN conf, Winner(i), i = line + 1
         PROVE  Decided(i)' /\ "win" \in tree'[conf[i].path].flag
    <2>1. Open(i) /\ "win" \in e.opts /\ conf[i] = e
      BY <1>1, <1>2, <1>11 DEF Winners, Winner, WinsAlone
    <2>2. "win" \notin n.flag /\ ("type" \notin n.flag => n.type = {} \/ (OnTheWay(i) /\ n.type = DIR))
      BY <1>3, <1>8, <2>1 DEF Open
    <2>3. wins /\ ~loses
      BY <1>9, <2>1, <2>2
    <2>12. OnTheWay(i)' <=> OnTheWay(i)
      BY <1>2 DEF OnTheWay
    <2>4. t2[e.path].type \in {{}, Kind[e.kind]} \/ (OnTheWay(i) /\ t2[e.path].type = DIR)
      <3>1. CASE conflict
        BY <1>5, <1>8, <2>3, <3>1
      <3>2. CASE ~conflict
        BY <1>5, <2>2, <3>2 DEF TypeConflict
      <3> QED
        BY <3>1, <3>2
    <2>5. /\ x.type = Kind[e.kind] \/ (OnTheWay(i) /\ x.type = Kind[e.kind] \cup DIR)
          /\ "win" \in x.flag
      BY <1>6, <2>1, <2>4
    <2>6. tree'[conf[i].path] = x /\ conf[i].path \in DOMAIN tree' /\ "type" \in x.flag /\ conf[i] = conf'[i]
      BY <1>2, <1>6, <1>7, <2>1, <2>3
    <2> QED
      BY <2>1, <2>5, <2>6, <2>12 DEF Decided
  <1>12. ASSUME NEW i \in DOMAIN conf, Winner(i), i <= line
         PROVE  Decided(i)' /\ "win" \in tree'[conf[i].path].flag
    <2> DEFINE q == conf[i].path
    <2>1. Decided(i) /\ "win" \in tree[q].flag /\ q \in Path
      BY <1>1, <1>2, <1>12, WinnerPath DEF Winners
    <2>2. i # line + 1 /\ line + 1 > i
      BY <1>1, <1>12
    <2>3. /\ e.path = q => "win" \notin e.opts
          /\ Under(q, e.path) => "win" \notin e.opts
      BY <1>1, <1>12, <2>2 DEF Winner, WinsAlone
    <2>12. OnTheWay(i)' <=> OnTheWay(i)
      BY <1>2 DEF OnTheWay
    <2>4. q \in DOMAIN t /\ t[q] = tree[q]
      BY <1>3, <2>1 DEF Decided
    <2>5. CASE q = e.path
      <3>1. n = tree[q] /\ "win" \in n.flag /\ wins
        BY <1>3, <1>9, <2>1, <2>3, <2>5 DEF Decided
      <3>2. CASE conflict
        <4>1. tree'[q] = n
          BY <1>7, <2>5, <3>1, <3>2
        <4> QED
          BY <1>2, <1>7, <2>1, <2>5, <2>12, <3>1, <4>1 DEF Decided
      <3>3. CASE ~conflict
        <4>1. n.type = Kind[e.kind]
          BY <2>1, <3>1, <3>3 DEF TypeConflict, Decided
        <4>2. x.type = n.type /\ "win" \in x.flag /\ tree'[q] = x
          BY <1>5, <1>6, <1>7, <2>5, <3>1, <3>3, <4>1
        <4> QED
          BY <1>2, <1>6, <1>7, <2>1, <2>5, <2>12, <3>1, <4>2 DEF Decided
      <3> QED
        BY <3>2, <3>3
    <2>6. CASE q # e.path
      <3>1. ~(conflict /\ wins /\ ~loses /\ Under(q, e.path))
        BY <1>9, <2>3
      <3>2. q \in DOMAIN tree' /\ tree'[q] = tree[q]
        BY <1>7, <2>4, <2>6, <3>1
      <3> QED
        BY <1>2, <2>1, <2>12, <3>2 DEF Decided
    <2> QED
      BY <2>5, <2>6
  <1>13. \A i \in DOMAIN conf : Winner(i)' <=> Winner(i)
    BY <1>2 DEF Winner, WinsAlone
  <1> HIDE DEF e, n, conflict, loses
  <1>14. ASSUME NEW i \in DOMAIN conf, Winner(i)
         PROVE  /\ i > line' => Open(i)'
                /\ i <= line' => Decided(i)' /\ "win" \in tree'[conf[i].path].flag
    <2>1. i > line' => i > line + 1
      BY <1>2
    <2>2. i <= line' => i = line + 1 \/ i <= line
      BY <1>1, <1>2
    <2> QED
      BY <1>10, <1>11, <1>12, <1>14, <2>1, <2>2
  <1> QED
    BY <1>2, <1>13, <1>14 DEF Winners, Visited, Running

LEMMA WinnersStep ==
    ASSUME Inv, Winners, Next
    PROVE  Winners'
  <1>1. /\ TypeOK /\ line \in 0..Len(conf) /\ Len(conf) \in Nat /\ DOMAIN conf = 1..Len(conf) /\ conf' = conf
    <2>1. conf \in Seq(Line) /\ line \in 0..Len(conf)
      BY PackageAssumption DEF Inv, TypeOK
    <2>2. conf' = conf
      BY DEF Next, Package, Load, Check, UpdateFile, UpdateOther, LoadEntry, Loaded, CheckNode, AllChecked,
             CheckFile, OpenNew, CopyData, RemoveOld, LinkOld, ReplaceFile, MoveBusyAway, CannotReplace, SetTime,
             VisitNode, RemoveNext, CheckDevice, MakeDevice, CheckLink, MakeLink, MakeDirectory, CleanDirectory,
             SetMode, SetOwner, Finish, CopyFails, Crash, Rerun, Release, world
    <2> QED
      BY <2>1, <2>2, LenProperties DEF Inv
  <1>2. \A i \in DOMAIN conf : (Winner(i)' <=> Winner(i)) /\ (OnTheWay(i)' <=> OnTheWay(i))
    BY <1>1 DEF Winner, WinsAlone, OnTheWay
  <1>3. CASE LoadEntry
    <2>1. CASE pc' = "load"
      BY <1>1, <1>3, <2>1, WinnersLoad
    <2>2. CASE pc' # "load"
      <3>1. pc' = "fatal"
        BY <1>3, <2>2 DEF LoadEntry, Fatal
      <3> QED
        BY <3>1 DEF Winners, Visited, Running
    <2> QED
      BY <2>1, <2>2
  <1>4. CASE Loaded
    <2>1. pc = "load" /\ line = Len(conf) /\ pc' = "check" /\ UNCHANGED <<conf, tree>>
      BY <1>4 DEF Loaded, world
    <2>2. \A i \in DOMAIN conf : Winner(i) => Decided(i)
      BY <1>1, <2>1 DEF Winners
    <2>3. \A i \in DOMAIN conf : Decided(i)' <=> Decided(i)
      BY <1>2, <2>1 DEF Decided
    <2> QED
      BY <1>1, <1>2, <2>1, <2>2, <2>3 DEF Winners
  <1>5. CASE CheckNode
    <2> DEFINE p == Head(work)  np == tree[p]  m == Master(np, p)  t == Checked(np, p, m)
    <2>1. /\ pc = "check" /\ work # <<>>
          /\ pc' = "fatal" \/ (pc' = "check" /\ tree' = t)
      BY <1>5 DEF CheckNode, Fatal
    <2>2. p \in DOMAIN tree
      BY <1>1, <2>1, HeadTailProperties DEF TypeOK
    <2>3. /\ DOMAIN tree \subseteq DOMAIN t
          /\ \A q \in DOMAIN tree : "type" \in tree[q].flag => t[q].type = tree[q].type /\ "type" \in t[q].flag
      BY <1>1, <2>2, CheckedTree
    <2>4. CASE pc' = "fatal"
      BY <2>4 DEF Winners, Visited, Running
    <2>5. CASE pc' = "check" /\ tree' = t
      <3>1. \A i \in DOMAIN conf : Winner(i) => Decided(i)
        BY <2>1 DEF Winners
      <3> HIDE DEF t
      <3>2. \A i \in DOMAIN conf : Decided(i) => Decided(i)'
        BY <1>1, <1>2, <2>3, <2>5 DEF Decided
      <3> QED
        BY <1>1, <1>2, <2>5, <3>1, <3>2 DEF Winners
    <2> QED
      BY <2>1, <2>4, <2>5
  <1>6. CASE Rerun
    <2>1. /\ pc' = "load" /\ line' = 0 /\ tree' = [q \in {<<>>} |-> NewNode]
      BY <1>6 DEF Rerun, Begin
    <2>2. tree'[<<>>].type = {} /\ tree'[<<>>].flag = {} /\ DOMAIN tree' = {<<>>}
      BY <2>1, FreshTree
    <2>3. \A i \in DOMAIN conf : Open(i)'
      BY <1>1, <2>2 DEF Open
    <2>4. \A i \in DOMAIN conf : i > line'
      BY <1>1, <2>1
    <2> QED
      BY <1>1, <2>1, <2>3, <2>4 DEF Winners, Visited, Running
  <1>7. CASE Release
    <2>1. pc' = "idle"
      BY <1>7 DEF Release
    <2> QED
      BY <2>1 DEF Winners, Visited, Running
  <1>8. CASE /\ pc = "check" \/ pc \in Running
             /\ DOMAIN tree' = DOMAIN tree
             /\ \A q \in DOMAIN tree : tree'[q].type = tree[q].type /\ ("type" \in tree[q].flag => "type" \in tree'[q].flag)
             /\ pc' # "load"
    <2>1. \A i \in DOMAIN conf : Winner(i) => Decided(i)
      BY <1>8 DEF Winners, Visited
    <2>2. \A i \in DOMAIN conf : Decided(i) => Decided(i)'
      BY <1>1, <1>2, <1>8 DEF Decided
    <2> QED
      BY <1>1, <1>2, <1>8, <2>1, <2>2 DEF Winners
  <1>9. CASE CheckFile
    <2>1. /\ pc = "reg" /\ pc' # "load"
          /\ tree' = tree \/ tree' = [tree EXCEPT ![cur].flag = @ \ {"old"}]
      BY <1>9 DEF CheckFile
    <2>2. cur \in DOMAIN tree /\ DOMAIN tree[cur] = DOMAIN NewNode
      BY CurFacts, TreeFacts
    <2>3. CASE tree' = tree
      BY <1>8, <2>1, <2>3 DEF Running
    <2>4. CASE tree' = [tree EXCEPT ![cur] = [tree[cur] EXCEPT !.flag = @ \ {"old"}]]
      <3>1. /\ DOMAIN tree' = DOMAIN tree /\ tree'[cur] = [tree[cur] EXCEPT !.flag = @ \ {"old"}]
            /\ \A q \in DOMAIN tree : q # cur => tree'[q] = tree[q]
        BY <2>2, <2>4
      <3>2. tree'[cur].flag = tree[cur].flag \ {"old"} /\ tree'[cur].type = tree[cur].type
        BY <2>2, <3>1, NodeFields
      <3>3. \A q \in DOMAIN tree : tree'[q].type = tree[q].type /\ ("type" \in tree[q].flag => "type" \in tree'[q].flag)
        BY <3>1, <3>2
      <3> QED
        BY <1>8, <2>1, <3>1, <3>3 DEF Running
    <2> QED
      BY <2>1, <2>3, <2>4
  <1>10. CASE (pc = "check" \/ pc \in Running) /\ tree' = tree /\ pc' # "load"
    BY <1>8, <1>10
  <1>11. CASE AllChecked
    <2>1. pc = "check" /\ tree' = tree /\ pc' # "load"
      BY <1>11 DEF AllChecked
    <2> QED
      BY <1>10, <2>1
  <1>12. CASE (UpdateFile \/ UpdateOther \/ CopyFails \/ Crash) /\ ~CheckFile
    <2>1. pc \in Running /\ tree' = tree
      BY <1>12 DEF UpdateFile, UpdateOther, OpenNew, CopyData, RemoveOld, LinkOld, ReplaceFile, MoveBusyAway,
             CannotReplace, SetTime, VisitNode, RemoveNext, CheckDevice, MakeDevice, CheckLink, MakeLink,
             MakeDirectory, CleanDirectory, SetMode, SetOwner, Finish, CopyFails, Crash, Update, Running
    <2>2. Inv'
      BY StepGood DEF Good
    <2>3. pc' # "load"
      <3>1. \A type : Routine(type) # "load"
        BY DEF Routine
      <3>2. after # "load"
        BY CurFacts DEF Running
      <3> QED
        BY <1>12, <2>1, <3>1, <3>2 DEF UpdateFile, UpdateOther, OpenNew, CopyData, RemoveOld, LinkOld, ReplaceFile, MoveBusyAway,
             CannotReplace, SetTime, VisitNode, RemoveNext, CheckDevice, MakeDevice, CheckLink, MakeLink,
             MakeDirectory, CleanDirectory, SetMode, SetOwner, Finish, CopyFails, Crash, Update, Running
    <2> QED
      BY <1>10, <2>1, <2>3
  <1> QED
    BY <1>3, <1>4, <1>5, <1>6, <1>7, <1>9, <1>11, <1>12 DEF Next, Package, Load, Check, UpdateFile

(* The only line for a path with the letter W decides its type, unless a   *)
(* later line with W wipes a directory it is in; a line for something      *)
(* below the path that came first adds the bits of a directory.            *)
THEOREM WinnerCorrect == Spec => []WinnerDecides
  <1>1. Init => Winners
    <2> SUFFICES ASSUME Init
                 PROVE  Winners
      OBVIOUS
    <2>1. Inv /\ pc = "load" /\ line = 0 /\ tree = [q \in {<<>>} |-> NewNode]
      BY BeginsGood DEF Init
    <2>2. tree[<<>>].type = {} /\ tree[<<>>].flag = {} /\ DOMAIN tree = {<<>>}
      BY <2>1, FreshTree
    <2>3. \A i \in DOMAIN conf : Open(i)
      BY <2>2 DEF Open
    <2>4. \A i \in DOMAIN conf : i > line
      <3>1. conf \in Seq(Line)
        BY <2>1, PackageAssumption DEF Inv, TypeOK
      <3>2. DOMAIN conf = 1..Len(conf) /\ Len(conf) \in Nat
        BY <3>1, LenProperties
      <3> QED
        BY <2>1, <3>2
    <2> QED
      BY <2>1, <2>3, <2>4 DEF Winners, Visited, Running
  <1>2. Inv /\ Winners /\ [Next]_vars => Winners'
    <2>1. Winners /\ UNCHANGED vars => Winners'
      BY DEF vars, Winners, Winner, WinsAlone, OnTheWay, Open, Decided, Visited
    <2> QED
      BY <2>1, WinnersStep
  <1>3. Winners => WinnerDecides
    <2> SUFFICES ASSUME Winners, Visited \/ pc = "check", NEW i \in DOMAIN conf, Winner(i)
                 PROVE  \/ tree[conf[i].path].type = Kind[conf[i].kind]
                        \/ OnTheWay(i) /\ tree[conf[i].path].type = Kind[conf[i].kind] \cup DIR
      BY DEF WinnerDecides, Winner
    <2> QED
      BY DEF Winners, Decided
  <1> QED
    BY <1>1, <1>2, <1>3, InvCorrect, PTL DEF Spec

-----------------------------------------------------------------------------
(* The invariant of the walks.                                             *)

(* What check and update have still to visit; no two of the nodes on the   *)
(* list are on one path.                                                   *)
InWork(p) == \E i \in 1..Len(work) : p = work[i] \/ Under(p, work[i])
Apart == \A i, j \in 1..Len(work) : i # j => work[i] # work[j] /\ ~Under(work[i], work[j])
Reached == \A i \in 1..Len(work) : Walked(work[i])

(* What check has found out about a node.                                  *)
Complete(p) ==
    LET np == tree[p]
        stb == Stat(Master(np, p))
    IN  /\ "type" \in np.flag
        /\ "proto" \in np.flag /\ np.type = REG => np.size = Size[stb.data] /\ np.mtime = stb.mtime

Walk ==
    /\ pc \in {"load", "check"} => status = 0
    /\ pc = "load" => \A p \in DOMAIN tree : "mtime" \notin tree[p].flag
    /\ pc = "check" \/ pc \in Running => Apart /\ Reached
    /\ pc = "check" => \A p \in DOMAIN tree :
          /\ InWork(p) => "mtime" \notin tree[p].flag
          /\ Walked(p) => InWork(p) \/ Complete(p)
    /\ pc \in Running \ {"update"} => /\ Walked(cur) /\ ~InWork(cur)
                                      /\ \A p \in DOMAIN tree : Walked(p) /\ Under(p, cur) => InWork(p)
    /\ pc \in Running \cup {"done"} => \A p \in DOMAIN tree : Walked(p) => Complete(p)
    /\ pc = "done" => work = <<>>

(* Why a file is replaced, and what is then in its place: that a file with *)
(* the letter Q was replaced is seen at the end by comparing the disks.    *)
Copying == {"cp", "copying", "rmold", "ln", "mv", "mvbusy"}
Noted(p) == IsFile(tree, p) /\ "stat" \in tree[p].flag
Cause(p) ==
    \/ ~IsFile(before, p)
    \/ before[p].mtime # tree[p].mtime
    \/ \E d \in MasterData(tree[p], p) : Size[before[p].data] # Size[d]
    \/ "hash" \in tree[p].flag
Placed(p) == p \in DOMAIN disk =>
    /\ disk[p].type = REG /\ disk[p].data \in MasterData(tree[p], p)
    /\ disk[p].mtime = tree[p].mtime \/ (pc = "tim" /\ cur = p)

ToldAt(p) ==
    /\ Noted(p) /\ p \in DOMAIN disk /\ Replaced(p) => status = 4
    /\ IsFile(tree, p) /\ Walked(p) /\ Replaced(p) => Cause(p)
Telling(p) == Noted(p) /\ Cause(p) /\ Placed(p)
Told == pc \in Running \cup {"done"} /\ ~opts.lazy =>
    /\ \A p \in DOMAIN tree : ToldAt(p)
    /\ pc \in Copying \cup {"tim"} => Cause(cur)
    /\ pc = "tim" /\ Noted(cur) => status = 4
    /\ pc = "reg" \/ (pc = "rm" /\ after = "reg") => ret = 0 \/ ~IsFile(disk, cur)
    /\ status = 4 => \E p \in DOMAIN tree : Telling(p)

(* A run in which no call failed: what is on the list is as it was, what   *)
(* was visited is as it should be, and the node under way is half way.     *)
Smooth == pc \in Running \cup {"done"} /\ ~failed /\ ~opts.lazy
Fresh(p) ==
    /\ p \in DOMAIN disk <=> p \in DOMAIN before
    /\ p \in DOMAIN disk => disk[p] = before[p]
OldFresh(p) == p # <<>> /\ Ext(p, "old") \in DOMAIN disk =>
    Ext(p, "old") \in DOMAIN before /\ disk[Ext(p, "old")] = before[Ext(p, "old")]
Pending == Smooth => \A p \in DOMAIN tree : Walked(p) /\ InWork(p) => Fresh(p) /\ OldFresh(p)

(* A node that was visited.                                                *)
OldSaved(p) ==
    "old" \in tree[p].flag /\ IsFile(before, p) /\ ~Kept(Ext(p, "old")) =>
        Ext(p, "old") \in DOMAIN disk /\ disk[Ext(p, "old")].data = before[p].data
OldKept(p) == IsFile(tree, p) /\ Replaced(p) => OldSaved(p)
Spare(p) == {Ext(q, "old") : q \in Children(tree, p)} \cup (IF pc \in Copying THEN {New} ELSE {})
DirIs(p) ==
    /\ p \in DOMAIN disk /\ disk[p].type = DIR
    /\ "clean" \in tree[p].flag => Unlisted(p) \subseteq Spare(p)
FileIs(p) ==
    /\ p \in DOMAIN disk /\ disk[p].type = REG
    /\ "proto" \in tree[p].flag /\ ~("init" \in tree[p].flag /\ IsFile(before, p)) =>
          LET stb == Stat(Master(tree[p], p))
          IN  /\ disk[p].mtime = stb.mtime
              /\ \/ disk[p].data = stb.data
                 \/ ~Replaced(p) /\ Size[disk[p].data] = Size[stb.data]
                    /\ ("hash" \in tree[p].flag => disk[p].data = tree[p].hash)
    /\ Ext(p, "new") \in DOMAIN disk => ~Replaced(p)
DeviceIs(p) ==
    /\ p \in DOMAIN disk /\ disk[p].type = tree[p].type
    /\ "rdev" \in tree[p].flag /\ ~Kept(p) => disk[p].data = tree[p].rdev
Finished(p) ==
    /\ tree[p].type = DIR => DirIs(p) /\ SameAttributes(tree[p], disk[p])
    /\ tree[p].type # DIR => Matches(tree[p], p)
    /\ OldKept(p)
Visits == Smooth => \A p \in DOMAIN tree :
    Walked(p) /\ ~InWork(p) /\ (pc \in {"update", "done"} \/ p # cur) => Finished(p)

(* The node under way, from one step of its function to the next.          *)
Gone(p) == p \notin DOMAIN disk
Ready(p) == IF ret = 0 THEN Fresh(p) /\ p \in DOMAIN disk /\ disk[p].type = tree[p].type ELSE Gone(p)
Cleared(p) ==
    IF ret = 0 THEN tree[p].type = DIR /\ Unlisted(p) \subseteq victims
    ELSE after = Routine(tree[p].type) /\ (p \in victims \/ Gone(p))
Copied(p) == IsFile(disk, p) /\ Ext(p, "new") \notin DOMAIN disk /\ disk[p].data \in MasterData(tree[p], p)
Made(p) ==
    /\ tree[p].type = DIR => DirIs(p)
    /\ tree[p].type = REG => FileIs(p)
    /\ tree[p].type \in {CHR, BLK} => DeviceIs(p)
    /\ OldKept(p)
Midway(p) ==
    /\ pc = "rm" => Cleared(p)
    /\ pc \in {"spec", "link", "mkdir", "reg", "cp", "copying", "rmold", "ln"} => Ready(p)
    /\ pc \in {"rm"} \cup FileSteps /\ tree[p].type = REG /\ ret = -1 => ~IsFile(before, p)
    /\ pc \in {"rm", "reg", "cp", "copying", "rmold"} /\ tree[p].type = REG => OldFresh(p)
    /\ pc = "mknod" => Gone(p) \/ (Kept(p) /\ disk[p].type = tree[p].type)
    /\ pc = "symlink" => Gone(p)
    /\ pc = "clean" => ret = 0 /\ p \in DOMAIN disk /\ disk[p].type = DIR
    /\ pc = "ln" => Gone(Ext(p, "old")) \/ Kept(Ext(p, "old"))
    /\ pc \in {"mv", "tim"} => OldSaved(p)
    /\ pc = "tim" => Copied(p)
    /\ pc \in {"mod", "own"} => Made(p)
    /\ pc = "own" /\ "mode" \in tree[p].flag => disk[p].mode = tree[p].mode
    /\ pc # "mvbusy"
Current == Smooth => \A p \in {cur} : Midway(p)

-----------------------------------------------------------------------------
(* The walks of check and update.                                          *)

(* What a walk that goes on from its first node has still to visit.        *)
LEMMA Siblings ==
    ASSUME NEW p \in Path, NEW x \in Path, NEW y \in Path, x # y,
           x # <<>>, Front(x) = p, y # <<>>, Front(y) = p
    PROVE  ~Under(x, y) /\ Under(x, p) /\ x # p
  <1>1. p \in Above(x) /\ p \in Above(y) /\ Above(x) = Above(p) \cup {p}
    BY PathOrder
  <1>2. y # p /\ y \notin Above(p) /\ x # p
    BY <1>1, PathOrder
  <1> QED
    BY <1>1, <1>2 DEF Under

LEMMA Cousins ==
    ASSUME NEW p \in Path, NEW x \in Path, x # <<>>, Front(x) = p,
           NEW w \in Path, w # p, ~Under(w, p), ~Under(p, w)
    PROVE  x # w /\ ~Under(x, w) /\ ~Under(w, x)
  <1>1. p \in Above(x) /\ Above(x) = Above(p) \cup {p}
    BY PathOrder
  <1>2. x \in Above(w) => p \in Above(w)
    BY <1>1, PathOrder
  <1> QED
    BY <1>1, <1>2 DEF Under

LEMMA Descended ==
    ASSUME NEW t, IsTree(t), work \in Seq(DOMAIN t), work # <<>>, Apart, NEW p, p = Head(work), Descend(t, p)
    PROVE  /\ p \in DOMAIN t /\ InWork(p)
           /\ Apart'
           /\ \A q \in Path : InWork(q)' => InWork(q) /\ q # p
           /\ \A q \in DOMAIN t : InWork(q) => \/ InWork(q)' \/ q = p
                                               \/ Under(q, p) /\ t[p].type # DIR
           /\ t[p].type = DIR => \A q \in DOMAIN t : Under(q, p) => InWork(q)'
           /\ \A i \in 1..Len(work') :
                 \/ \E j \in 1..Len(work) : j # 1 /\ work'[i] = work[j]
                 \/ t[p].type = DIR /\ work'[i] # <<>> /\ Front(work'[i]) = p
           /\ \A j \in 1..Len(work) : j # 1 => work[j] # p /\ ~Under(work[j], p) /\ ~Under(p, work[j])
  <1>0. PICK o : Order(o, t, p) /\ work' = o \o Tail(work) /\ Len(work') = Len(o) + (Len(work) - 1)
    BY DescendFacts
  <1>1. /\ o \in Seq(DOMAIN t) /\ work' = o \o Tail(work) /\ Len(work') = Len(o) + (Len(work) - 1)
        /\ \A i, j \in 1..Len(o) : i # j => o[i] # o[j]
        /\ \A i \in 1..Len(o) : t[p].type = DIR /\ o[i] # <<>> /\ Front(o[i]) = p
        /\ t[p].type = DIR => \A q \in Children(t, p) : \E i \in 1..Len(o) : o[i] = q
    BY <1>0 DEF Order
  <1>2. /\ Len(work) \in Nat \ {0} /\ Len(o) \in Nat /\ p = work[1] /\ p \in DOMAIN t
        /\ Tail(work) \in Seq(DOMAIN t) /\ Len(Tail(work)) = Len(work) - 1
        /\ \A i \in 1..Len(Tail(work)) : Tail(work)[i] = work[i + 1]
    BY <1>1, HeadTailProperties, LenProperties, EmptySeq
  <1>3. \A x \in DOMAIN t : x \in Path
    BY TreeFacts
  <1>4. /\ \A i \in 1..Len(o) : o[i] \in Path /\ o[i] \in DOMAIN t
        /\ \A i \in 1..Len(work) : work[i] \in Path /\ work[i] \in DOMAIN t
    BY <1>1, <1>3, ElementOfSeq
  <1>5. \A j \in 1..Len(work) : j # 1 => work[j] # p /\ ~Under(work[j], p) /\ ~Under(p, work[j])
    BY <1>2 DEF Apart
  <1>6. \A i \in 1..Len(work') :
            \/ i \in 1..Len(o) /\ work'[i] = o[i]
            \/ i \notin 1..Len(o) /\ i - Len(o) + 1 \in 1..Len(work) /\ i - Len(o) + 1 # 1 /\ work'[i] = work[i - Len(o) + 1]
    <2> TAKE i \in 1..Len(work')
    <2>1. CASE i <= Len(o)
      <3>1. i \in 1..Len(o) + Len(Tail(work))
        BY <1>1, <1>2
      <3>2. work'[i] = o[i]
        BY <1>1, <1>2, <2>1, <3>1, ConcatProperties
      <3> QED
        BY <1>1, <1>2, <2>1, <3>2
    <2>2. CASE ~(i <= Len(o))
      <3>1. i \in 1..Len(o) + Len(Tail(work)) /\ i - Len(o) \in 1..Len(Tail(work))
        BY <1>1, <1>2, <2>2
      <3>2. work'[i] = Tail(work)[i - Len(o)]
        BY <1>1, <1>2, <2>2, <3>1, ConcatProperties
      <3> QED
        BY <1>1, <1>2, <2>2, <3>1, <3>2
    <2> QED
      BY <2>1, <2>2
  <1>7. \A i \in 1..Len(o) : i \in 1..Len(work') /\ work'[i] = o[i]
    <2> TAKE i \in 1..Len(o)
    <2>1. i \in 1..Len(work')
      BY <1>1, <1>2
    <2> QED
      BY <1>6, <2>1
  <1>8. \A j \in 1..Len(work) : j # 1 => j - 1 + Len(o) \in 1..Len(work') /\ work'[j - 1 + Len(o)] = work[j]
    <2> SUFFICES ASSUME NEW j \in 1..Len(work), j # 1
                 PROVE  j - 1 + Len(o) \in 1..Len(work') /\ work'[j - 1 + Len(o)] = work[j]
      OBVIOUS
    <2>1. j - 1 + Len(o) \in 1..Len(work') /\ ~(j - 1 + Len(o) \in 1..Len(o)) /\ (j - 1 + Len(o)) - Len(o) + 1 = j
      BY <1>1, <1>2
    <2> QED
      BY <1>6, <2>1
  <1>9. Apart'
    <2> SUFFICES ASSUME NEW i \in 1..Len(work'), NEW j \in 1..Len(work'), i # j
                 PROVE  work'[i] # work'[j] /\ ~Under(work'[i], work'[j])
      BY DEF Apart
    <2>1. CASE i \in 1..Len(o) /\ j \in 1..Len(o)
      BY <1>1, <1>2, <1>3, <1>4, <1>6, <2>1, Siblings
    <2>2. CASE i \in 1..Len(o) /\ j \notin 1..Len(o)
      <3>1. work'[i] = o[i] /\ j - Len(o) + 1 \in 1..Len(work) /\ j - Len(o) + 1 # 1 /\ work'[j] = work[j - Len(o) + 1]
        BY <1>6, <2>2
      <3> QED
        BY <1>1, <1>2, <1>3, <1>4, <1>5, <2>2, <3>1, Cousins
    <2>3. CASE i \notin 1..Len(o) /\ j \in 1..Len(o)
      <3>1. work'[j] = o[j] /\ i - Len(o) + 1 \in 1..Len(work) /\ i - Len(o) + 1 # 1 /\ work'[i] = work[i - Len(o) + 1]
        BY <1>6, <2>3
      <3> QED
        BY <1>1, <1>2, <1>3, <1>4, <1>5, <2>3, <3>1, Cousins
    <2>4. CASE i \notin 1..Len(o) /\ j \notin 1..Len(o)
      <3>1. /\ j - Len(o) + 1 \in 1..Len(work) /\ work'[j] = work[j - Len(o) + 1]
            /\ i - Len(o) + 1 \in 1..Len(work) /\ work'[i] = work[i - Len(o) + 1]
        BY <1>6, <2>4
      <3>2. i - Len(o) + 1 # j - Len(o) + 1
        BY <1>2
      <3> QED
        BY <3>1, <3>2 DEF Apart
    <2> QED
      BY <2>1, <2>2, <2>3, <2>4
  <1>10. \A q \in Path : InWork(q)' => InWork(q) /\ q # p
    <2> SUFFICES ASSUME NEW q \in Path, NEW i \in 1..Len(work'), q = work'[i] \/ Under(q, work'[i])
                 PROVE  InWork(q) /\ q # p
      BY DEF InWork
    <2>1. CASE i \in 1..Len(o)
      <3>1. o[i] \in Path /\ work'[i] = o[i] /\ o[i] # <<>> /\ Front(o[i]) = p
        BY <1>1, <1>4, <1>6, <2>1
      <3>2. p \in Above(o[i])
        BY <3>1, PathOrder
      <3>3. p \in Above(q)
        BY <3>1, <3>2, PathOrder DEF Under
      <3> QED
        BY <1>2, <3>3, PathOrder DEF InWork, Under
    <2>2. CASE i \notin 1..Len(o)
      <3>1. i - Len(o) + 1 \in 1..Len(work) /\ i - Len(o) + 1 # 1 /\ work'[i] = work[i - Len(o) + 1]
        BY <1>6, <2>2
      <3> QED
        BY <1>5, <3>1 DEF InWork
    <2> QED
      BY <2>1, <2>2
  <1>11. ASSUME t[p].type = DIR, NEW q \in DOMAIN t, Under(q, p)
         PROVE  InWork(q)'
    <2> DEFINE r == SubSeq(q, 1, Len(p) + 1)
    <2>1. q \in Path /\ p \in Above(q)
      BY <1>3, <1>11 DEF Under
    <2>2. r \in Path /\ r # <<>> /\ Front(r) = p /\ (r = q \/ r \in Above(q))
      BY <2>1, PathOrder
    <2> HIDE DEF r
    <2>3. r \in DOMAIN t
      BY <1>11, <2>2, TreeFacts
    <2>4. r \in Children(t, p)
      BY <2>2, <2>3 DEF Children
    <2>5. PICK i \in 1..Len(o) : o[i] = r
      BY <1>1, <1>11, <2>4
    <2> QED
      BY <1>7, <2>2, <2>5 DEF InWork, Under
  <1>12. ASSUME NEW q \in DOMAIN t, InWork(q), q # p, ~(Under(q, p) /\ t[p].type # DIR)
         PROVE  InWork(q)'
    <2>1. CASE Under(q, p)
      BY <1>11, <1>12, <2>1
    <2>2. CASE ~Under(q, p)
      <3>1. PICK j \in 1..Len(work) : q = work[j] \/ Under(q, work[j])
        BY <1>12 DEF InWork
      <3>2. j # 1
        BY <1>2, <1>12, <2>2, <3>1
      <3> QED
        BY <1>8, <3>1, <3>2 DEF InWork
    <2> QED
      BY <2>1, <2>2
  <1>13. InWork(p)
    BY <1>2 DEF InWork
  <1>14. \A i \in 1..Len(work') :
                 \/ \E j \in 1..Len(work) : j # 1 /\ work'[i] = work[j]
                 \/ t[p].type = DIR /\ work'[i] # <<>> /\ Front(work'[i]) = p
    BY <1>1, <1>6
  <1> QED
    BY <1>2, <1>5, <1>9, <1>10, <1>11, <1>12, <1>13, <1>14

(* What check notes of a node.                                             *)
LEMMA CompletedFacts ==
    ASSUME NEW np, DOMAIN np = DOMAIN NewNode, NEW m, NEW p, m = Master(np, p),
           NEW stb, stb = IF "type" \notin np.flag /\ "copy" \notin np.flag THEN vice[m] ELSE Stat(m),
           NEW n, n = Completed(Typed(np, m), stb)
    PROVE  /\ "type" \in n.flag
           /\ n.type = REG => /\ n.size = Size[Stat(Master(n, p)).data]
                              /\ "mtime" \notin np.flag => n.mtime = Stat(Master(n, p)).mtime
  <1> DEFINE ty == Typed(np, m)
             asLink == "type" \notin np.flag /\ "copy" \notin np.flag
             link == asLink /\ vice[m].type = LNK
  <1>1. /\ DOMAIN ty = DOMAIN NewNode /\ "type" \in ty.flag
        /\ ty.type = IF "type" \in np.flag THEN np.type
                     ELSE np.type \cup (IF asLink THEN vice[m].type ELSE Stat(m).type)
        /\ ~link => ty.proto = np.proto /\ ty.flag = np.flag \cup {"type"}
    BY NodeFields DEF Typed
  <1> HIDE DEF ty
  <1>2. /\ n.type = ty.type /\ ty.flag \subseteq n.flag /\ n.proto = ty.proto
        /\ n.flag \subseteq ty.flag \cup {"mode", "uid", "mtime", "rdev"}
        /\ n.type = REG => n.size = Size[stb.data]
        /\ "mtime" \notin ty.flag => n.mtime = stb.mtime
    BY <1>1, NodeFields DEF Completed, ty
  <1>3. ASSUME n.type = REG
        PROVE  ~link /\ stb = Stat(m)
    <2>1. asLink => vice[m].type \subseteq REG
      BY <1>1, <1>2, <1>3
    <2>2. 2 \in LNK /\ 2 \notin REG
      BY DEF LNK, REG
    <2>3. asLink => vice[m].type # LNK
      BY <2>1, <2>2
    <2> QED
      BY <2>3 DEF Stat
  <1>4. n.type = REG => Master(n, p) = m
    BY <1>1, <1>2, <1>3 DEF Master
  <1> QED
    BY <1>1, <1>2, <1>3, <1>4

LEMMA InheritedTime ==
    ASSUME NEW np, NEW old, DOMAIN old = DOMAIN NewNode, NEW name
    PROVE  "mtime" \in Inherited(np, old, name).flag <=> "mtime" \in old.flag
  <1> DEFINE n == Augmented(np, old)  w == [n EXCEPT !.flag = @ \cup (np.flag \cap {"win"})]
  <1>1. DOMAIN n = DOMAIN NewNode /\ ("mtime" \in n.flag <=> "mtime" \in old.flag)
    BY NodeFields DEF Augmented
  <1> HIDE DEF n
  <1>2. "mtime" \in WithProto(np, n, name).flag <=> "mtime" \in n.flag
    BY <1>1, NodeFields DEF WithProto
  <1>3. "mtime" \in w.flag <=> "mtime" \in n.flag
    BY <1>1, NodeFields
  <1>4. Inherited(np, old, name) \in {WithProto(np, n, name), old, w}
    BY DEF Inherited, n
  <1> HIDE DEF w
  <1> QED
    BY <1>1, <1>2, <1>3, <1>4

LEMMA ScannedNode ==
    ASSUME TypeOK, NEW p \in DOMAIN tree, NEW np, NEW m, NEW q \in DOMAIN Scan(np, p, m)
    PROVE  /\ q = p => Scan(np, p, m)[q] = np
           /\ q # p => \/ q \in DOMAIN tree /\ Scan(np, p, m)[q] = tree[q]
                       \/ \E old, name : /\ old = IF q \in DOMAIN tree THEN tree[q] ELSE NewNode
                                         /\ Scan(np, p, m)[q] = Inherited(np, old, name)
  <1>1. /\ q \in DOMAIN tree \cup {Append(p, name) : name \in Entries(m)}
        /\ Scan(np, p, m)[q] = IF q = p THEN np
                               ELSE IF q # <<>> /\ Front(q) = p /\ Last(q) \in Entries(m)
                                    THEN Inherited(np, ChildNode(p, Last(q)), Last(q)) ELSE tree[q]
    BY DEF Scan
  <1>2. p \in Path /\ \A x \in DOMAIN tree : x \in Path
    BY TreeFacts DEF TypeOK
  <1>3. Entries(m) \subseteq Base \X Suffix
    <2>1. Base \X {""} \subseteq Base \X Suffix
      BY DEF Suffix
    <2> QED
      BY <2>1, EntriesFacts
  <1>4. ASSUME q # <<>>, Front(q) = p, Last(q) \in Entries(m), q # p
        PROVE  \E old, name : /\ old = IF q \in DOMAIN tree THEN tree[q] ELSE NewNode
                              /\ Scan(np, p, m)[q] = Inherited(np, old, name)
    <2>1. q \in Path
      BY <1>1, <1>2, <1>3, AppendFacts DEF Path
    <2>2. Append(p, Last(q)) = q
      BY <1>4, <2>1, FrontLast DEF Path
    <2>3. ChildNode(p, Last(q)) = IF q \in DOMAIN tree THEN tree[q] ELSE NewNode
      BY <2>2 DEF ChildNode
    <2> QED
      BY <1>1, <1>4, <2>3
  <1>5. ASSUME q # p, ~(q # <<>> /\ Front(q) = p /\ Last(q) \in Entries(m))
        PROVE  q \in DOMAIN tree /\ Scan(np, p, m)[q] = tree[q]
    <2>1. \A name \in Entries(m) : /\ Append(p, name) # <<>> /\ Front(Append(p, name)) = p
                                   /\ Last(Append(p, name)) = name
      BY <1>2, <1>3, AppendFacts DEF Path
    <2> QED
      BY <1>1, <1>5, <2>1
  <1> QED
    BY <1>1, <1>4, <1>5

(* What check has found out of a node when it goes on.                     *)
LEMMA CheckedComplete ==
    ASSUME TypeOK, NEW p \in DOMAIN tree, NEW m, m = Master(tree[p], p), ~CheckFatal(tree[p], p, m),
           "mtime" \notin tree[p].flag, NEW n, n = Checked(tree[p], p, m)[p]
    PROVE  /\ "type" \in n.flag
           /\ "proto" \in n.flag /\ n.type = REG =>
                 n.size = Size[Stat(Master(n, p)).data] /\ n.mtime = Stat(Master(n, p)).mtime
  <1> DEFINE np == tree[p]
             stb == IF "type" \notin np.flag /\ "copy" \notin np.flag THEN vice[m] ELSE Stat(m)
             x == Completed(Typed(np, m), stb)
             t == Checked(np, p, m)
  <1>1. IsTree(tree) /\ DOMAIN np = DOMAIN NewNode /\ p \in Plain
    BY TreeFacts DEF TypeOK
  <1>2. CASE "proto" \notin np.flag
    <2>1. n = np /\ "type" \in np.flag
      BY <1>2 DEF Checked, CheckFatal
    <2> QED
      BY <1>2, <2>1
  <1>3. CASE "type" \in np.flag /\ np.type = LNK
    <2>1. n = np /\ REG # LNK
      BY <1>3, TypesDiffer DEF Checked
    <2> QED
      BY <1>3, <2>1
  <1>4. CASE ~("proto" \notin np.flag \/ ("type" \in np.flag /\ np.type = LNK))
    <2>1. t = IF x.type = DIR THEN Scan(x, p, m) ELSE With(tree, p, x)
      BY <1>4 DEF Checked
    <2>2. DOMAIN x = DOMAIN NewNode /\ np.type \subseteq x.type
      BY <1>1, TypedFacts
    <2>3. /\ "type" \in x.flag
          /\ x.type = REG => /\ x.size = Size[Stat(Master(x, p)).data]
                             /\ x.mtime = Stat(Master(x, p)).mtime
      BY <1>1, CompletedFacts
    <2> HIDE DEF x
    <2>4. CASE x.type = DIR
      <3>1. Scan(x, p, m)[p] = x
        BY <2>2, <2>4, ScannedTree
      <3> QED
        BY <2>1, <2>3, <2>4, <3>1
    <2>5. CASE x.type # DIR
      <3>1. n = x
        BY <2>1, <2>5 DEF With
      <3> QED
        BY <2>3, <3>1
    <2> QED
      BY <2>4, <2>5
  <1> QED
    BY <1>2, <1>3, <1>4

(* Only the node itself is marked as visited by check.                     *)
LEMMA CheckedTimes ==
    ASSUME TypeOK, NEW p \in DOMAIN tree, NEW m, NEW q \in DOMAIN Checked(tree[p], p, m), q # p,
           "mtime" \in Checked(tree[p], p, m)[q].flag
    PROVE  q \in DOMAIN tree /\ "mtime" \in tree[q].flag
  <1> DEFINE np == tree[p]
             stb == IF "type" \notin np.flag /\ "copy" \notin np.flag THEN vice[m] ELSE Stat(m)
             x == Completed(Typed(np, m), stb)
             t == Checked(np, p, m)
  <1>1. \A r \in DOMAIN tree : DOMAIN tree[r] = DOMAIN NewNode
    BY TreeFacts DEF TypeOK
  <1>2. CASE "proto" \notin np.flag \/ ("type" \in np.flag /\ np.type = LNK)
    <2>1. t = tree
      BY <1>2 DEF Checked
    <2> QED
      BY <2>1
  <1>3. CASE ~("proto" \notin np.flag \/ ("type" \in np.flag /\ np.type = LNK))
    <2>1. t = IF x.type = DIR THEN Scan(x, p, m) ELSE With(tree, p, x)
      BY <1>3 DEF Checked
    <2> HIDE DEF x
    <2>2. CASE x.type = DIR
      <3>1. t = Scan(x, p, m) /\ q \in DOMAIN Scan(x, p, m) /\ "mtime" \in Scan(x, p, m)[q].flag
        BY <2>1, <2>2
      <3>2. CASE q \in DOMAIN tree /\ Scan(x, p, m)[q] = tree[q]
        BY <3>1, <3>2
      <3>3. ASSUME NEW old, NEW name, old = IF q \in DOMAIN tree THEN tree[q] ELSE NewNode,
                   Scan(x, p, m)[q] = Inherited(x, old, name)
            PROVE  q \in DOMAIN tree /\ "mtime" \in tree[q].flag
        <4>1. DOMAIN old = DOMAIN NewNode
          BY <1>1, <3>3
        <4>2. "mtime" \in old.flag
          BY <3>1, <3>3, <4>1, InheritedTime
        <4> QED
          BY <3>3, <4>2, NodeFields
      <3> QED
        BY <3>1, <3>2, <3>3, ScannedNode
    <2>3. CASE x.type # DIR
      BY <2>1, <2>3 DEF With
    <2> QED
      BY <2>2, <2>3
  <1> QED
    BY <1>2, <1>3

(* The walks: what is on the list, and what check has found out.           *)
LEMMA WalkLoad == ASSUME Inv, Walk, LoadEntry PROVE Walk'
  <1> DEFINE e == conf[line + 1]
             t == LookupPath(e)
             n == t[e.path]
             conflict == TypeConflict(n, e) \/ AbsConflict(n, e)
             wins == OneWins(n.flag, e.opts)
             loses == conflict /\ wins /\ "win" \in n.flag
             t2 == IF conflict /\ wins THEN Wiped(t, e.path) ELSE t
             x == Merged(t2[e.path], e)
  <1>1. pc = "load" /\ status = 0 /\ \A q \in DOMAIN tree : "mtime" \notin tree[q].flag
    BY DEF LoadEntry, Walk
  <1>2. CASE pc' = "fatal"
    BY <1>2 DEF Walk, Running
  <1>3. CASE pc' # "fatal"
    <2>1. /\ pc' = "load" /\ status' = 0 /\ ~Blocked(e) /\ e.opts \subseteq Mask[e.kind] \cup {"win"}
          /\ tree' = IF loses THEN t ELSE With(t2, e.path, x)
      BY <1>1, <1>3 DEF LoadEntry, Fatal
    <2>2. e \in Line /\ e.path \in Path /\ IsTree(tree)
      BY LineFacts, PlainPath DEF LoadEntry, Inv, TypeOK
    <2>3. "mtime" \notin e.opts
      <3>1. e.kind \in DOMAIN Kind
        BY <2>2 DEF Line
      <3>2. \A k \in DOMAIN Kind : "mtime" \notin Mask[k] \cup {"win"}
        BY DEF Kind, Mask
      <3> QED
        BY <2>1, <3>1, <3>2
    <2>4. /\ IsTree(t) /\ e.path \in DOMAIN t
          /\ \A q \in DOMAIN t : "mtime" \notin t[q].flag /\ DOMAIN t[q] = DOMAIN NewNode
      <3>1. IsTree(t)
        BY <2>1, <2>2, LookedUpTree
      <3>2. /\ DOMAIN t = DOMAIN tree \cup Above(e.path) \cup {e.path}
            /\ \A q \in DOMAIN t : DOMAIN t[q] = DOMAIN NewNode
            /\ \A q \in DOMAIN tree : t[q].flag = tree[q].flag
            /\ \A q \in DOMAIN t \ DOMAIN tree : t[q].flag = {}
        BY <2>2, LookedUp
      <3> HIDE DEF t
      <3>3. \A q \in DOMAIN t : "mtime" \notin t[q].flag
        BY <1>1, <3>2
      <3> QED
        BY <3>1, <3>2, <3>3
    <2> HIDE DEF t
    <2>5. e.path \in DOMAIN t2 /\ \A q \in DOMAIN t2 : "mtime" \notin t2[q].flag /\ DOMAIN t2[q] = DOMAIN NewNode
      <3>1. CASE conflict /\ wins
        <4>1. /\ t2 = Wiped(t, e.path)
              /\ DOMAIN Wiped(t, e.path) = DOMAIN t \ Below(t, e.path)
              /\ Wiped(t, e.path)[e.path] = NewNode
              /\ \A q \in DOMAIN t \ Below(t, e.path) : q # e.path => Wiped(t, e.path)[q] = t[q]
          BY <2>4, <3>1, WipedTree
        <4>2. e.path \notin Below(t, e.path)
          BY <2>2, PathOrder DEF Below, Under
        <4>3. NewNode.flag = {}
          BY NodeFields
        <4> HIDE DEF t2
        <4> QED
          BY <2>4, <4>1, <4>2, <4>3
      <3>2. CASE ~(conflict /\ wins)
        BY <2>4, <3>2
      <3> QED
        BY <3>1, <3>2
    <2> HIDE DEF t2
    <2>6. "mtime" \notin x.flag
      BY <2>2, <2>3, <2>5, MergedFacts
    <2> HIDE DEF x
    <2>7. \A q \in DOMAIN tree' : "mtime" \notin tree'[q].flag
      <3>1. CASE loses
        BY <2>1, <2>4, <3>1
      <3>2. CASE ~loses
        <4>1. tree' = With(t2, e.path, x)
          BY <2>1, <3>2
        <4> QED
          BY <2>5, <2>6, <4>1 DEF With
      <3> QED
        BY <3>1, <3>2
    <2> QED
      BY <2>1, <2>7 DEF Walk, Running
  <1> QED
    BY <1>2, <1>3

(* A walk begins at the root.                                              *)
LEMMA FromTheRoot ==
    ASSUME NEW t, IsTree(t), work' = <<<<>>>>, tree' = t
    PROVE  Apart' /\ Reached' /\ \A p \in DOMAIN t : InWork(p)'
  <1>1. Len(work') = 1 /\ work'[1] = <<>> /\ 1..Len(work') = {1}
    OBVIOUS
  <1>2. \A p \in DOMAIN t : p = <<>> \/ <<>> \in Above(p)
    BY TreeFacts, PathOrder
  <1> QED
    BY <1>1, <1>2, RootAbove DEF Apart, Reached, Walked, InWork, Under

LEMMA WalkLoaded == ASSUME Inv, Walk, Loaded PROVE Walk'
  <1>1. /\ pc = "load" /\ pc' = "check" /\ work' = <<<<>>>> /\ tree' = tree /\ status' = 0 /\ IsTree(tree)
        /\ \A p \in DOMAIN tree : "mtime" \notin tree[p].flag
    BY DEF Loaded, Walk, Inv, TypeOK
  <1>2. Apart' /\ Reached' /\ \A p \in DOMAIN tree : InWork(p)'
    BY <1>1, FromTheRoot
  <1> QED
    BY <1>1, <1>2 DEF Walk, Running

LEMMA WalkAllChecked == ASSUME Inv, Walk, AllChecked PROVE Walk'
  <1>1. /\ pc = "check" /\ work = <<>> /\ pc' = "update" /\ work' = <<<<>>>> /\ tree' = tree /\ vice' = vice
        /\ IsTree(tree)
    BY DEF AllChecked, world, Inv, TypeOK
  <1>2. Apart' /\ Reached'
    BY <1>1, FromTheRoot
  <1>3. \A p \in DOMAIN tree : ~InWork(p)
    BY <1>1 DEF InWork
  <1>4. \A p \in DOMAIN tree : Walked(p) => Complete(p)
    BY <1>1, <1>3 DEF Walk
  <1>5. \A p \in DOMAIN tree : (Walked(p)' <=> Walked(p)) /\ (Complete(p)' <=> Complete(p))
    BY <1>1 DEF Walked, Complete, Stat, Master
  <1> QED
    BY <1>1, <1>2, <1>4, <1>5 DEF Walk, Running

(* A step from the first node of the list to the others and its children.  *)
LEMMA WalkedOn ==
    ASSUME IsTree(tree), NEW t, IsTree(t), tree' = t, work \in Seq(DOMAIN tree), work \in Seq(DOMAIN t), work # <<>>, Apart,
           Reached, NEW p, p = Head(work), Descend(t, p),
           \A q \in DOMAIN tree \ {p} : t[q].type = tree[q].type
    PROVE  Apart' /\ Reached'
  <1>1. /\ p \in DOMAIN t /\ Apart'
        /\ \A i \in 1..Len(work') :
                 \/ \E j \in 1..Len(work) : j # 1 /\ work'[i] = work[j]
                 \/ t[p].type = DIR /\ work'[i] # <<>> /\ Front(work'[i]) = p
        /\ \A j \in 1..Len(work) : j # 1 => work[j] # p /\ ~Under(work[j], p) /\ ~Under(p, work[j])
    BY Descended
  <1>2. Walked(p) /\ p \in DOMAIN tree /\ p \in Path
    <2>1. 1 \in 1..Len(work) /\ work[1] = p /\ p \in DOMAIN tree
      BY HeadTailProperties, EmptySeq, LenProperties
    <2> QED
      BY <2>1, TreeFacts DEF Reached
  <1>3. \A q \in DOMAIN tree : p \notin Above(q) /\ Walked(q) => \A r \in Above(q) : t[r].type = DIR
    BY TreeFacts DEF Walked
  <1>4. ASSUME NEW i \in 1..Len(work')
        PROVE  \A r \in Above(work'[i]) : t[r].type = DIR
    <2>1. ASSUME NEW j \in 1..Len(work), j # 1, work'[i] = work[j]
          PROVE  \A r \in Above(work'[i]) : t[r].type = DIR
      <3>1. work[j] \in DOMAIN tree /\ p \notin Above(work[j]) /\ Walked(work[j])
        BY <1>1, <2>1, ElementOfSeq DEF Under, Reached
      <3> QED
        BY <1>3, <2>1, <3>1
    <2>2. CASE t[p].type = DIR /\ work'[i] # <<>> /\ Front(work'[i]) = p
      <3>1. work' \in Seq(DOMAIN t)
        BY DescendFacts
      <3>2. work'[i] \in Path
        BY <3>1, ElementOfSeq, TreeFacts
      <3>3. Above(work'[i]) = Above(p) \cup {p}
        BY <2>2, <3>2, PathOrder
      <3>4. \A r \in Above(p) : t[r].type = DIR
        BY <1>2, <1>3, PathOrder
      <3> QED
        BY <2>2, <3>3, <3>4
    <2> QED
      BY <1>1, <2>1, <2>2
  <1> QED
    BY <1>1, <1>4 DEF Walked, Reached

LEMMA WalkCheck == ASSUME Inv, Walk, CheckNode PROVE Walk'
  <1> DEFINE p == Head(work)  m == Master(tree[p], p)
  <1>1. /\ TypeOK /\ IsTree(tree) /\ work \in Seq(DOMAIN tree) /\ pc = "check" /\ work # <<>> /\ vice' = vice
        /\ \/ pc' = "fatal"
           \/ ~CheckFatal(tree[p], p, m) /\ tree' = Checked(tree[p], p, m) /\ Descend(tree', p) /\ UNCHANGED <<pc, status>>
    BY DEF CheckNode, Fatal, world, Inv, TypeOK
  <1>2. CASE pc' = "fatal"
    BY <1>2 DEF Walk, Running
  <1>3. ASSUME NEW q, q = p, NEW t, t = tree', pc' # "fatal"
        PROVE  Walk'
    <2>1. /\ ~CheckFatal(tree[q], q, m) /\ m = Master(tree[q], q) /\ t = Checked(tree[q], q, m) /\ Descend(t, q)
          /\ pc' = "check" /\ status' = status
      BY <1>1, <1>3
    <2>2. q \in DOMAIN tree /\ InWork(q) /\ "mtime" \notin tree[q].flag
      <3>1. q = work[1] /\ 1 \in 1..Len(work) /\ q \in DOMAIN tree
        BY <1>1, <1>3, HeadTailProperties, EmptySeq, LenProperties
      <3> QED
        BY <1>1, <3>1 DEF Walk, InWork
    <2> HIDE DEF p, m
    <2>3. /\ IsTree(t) /\ DOMAIN tree \subseteq DOMAIN t
          /\ \A r \in DOMAIN tree \ {q} : t[r].type = tree[r].type
          /\ \A r \in DOMAIN tree \ {q} : r = <<>> \/ Front(r) # q => t[r] = tree[r]
          /\ \A r \in DOMAIN t \ DOMAIN tree : r # <<>> /\ Front(r) = q /\ t[q].type = DIR
      BY <1>1, <2>1, <2>2, CheckedTree
    <2>4. \A r \in DOMAIN t : r # q /\ "mtime" \in t[r].flag => r \in DOMAIN tree /\ "mtime" \in tree[r].flag
      BY <1>1, <2>1, <2>2, CheckedTimes
    <2>5. Complete(q)'
      <3>1. /\ "type" \in t[q].flag
            /\ "proto" \in t[q].flag /\ t[q].type = REG =>
                 t[q].size = Size[Stat(Master(t[q], q)).data] /\ t[q].mtime = Stat(Master(t[q], q)).mtime
        BY <1>1, <2>1, <2>2, CheckedComplete
      <3> QED
        BY <1>1, <1>3, <3>1 DEF Complete, Stat, Master
    <2>6. work \in Seq(DOMAIN t)
      BY <1>1, <2>3, SeqMonotonic
    <2>7. Apart /\ Reached
      BY <1>1 DEF Walk
    <2>8. /\ \A r \in Path : InWork(r)' => InWork(r) /\ r # q
          /\ \A r \in DOMAIN t : InWork(r) => InWork(r)' \/ r = q \/ (Under(r, q) /\ t[q].type # DIR)
          /\ t[q].type = DIR => \A r \in DOMAIN t : Under(r, q) => InWork(r)'
      BY <1>1, <1>3, <2>1, <2>3, <2>6, <2>7, Descended DEF p
    <2>9. Apart' /\ Reached'
      BY <1>1, <1>3, <2>1, <2>3, <2>6, <2>7, WalkedOn DEF p
    <2>10. ASSUME NEW r \in DOMAIN t, InWork(r)'
           PROVE  "mtime" \notin t[r].flag
      <3>1. InWork(r) /\ r # q
        BY <2>3, <2>8, <2>10, TreeFacts
      <3> QED
        BY <1>1, <2>4, <3>1 DEF Walk
    <2>11. ASSUME NEW r \in DOMAIN t, Walked(r)', ~InWork(r)'
           PROVE  Complete(r)'
      <3>1. r \in Path
        BY <2>3, TreeFacts
      <3>2. CASE r = q
        BY <2>5, <3>2
      <3>3. CASE q \in Above(r)
        <4>1. t[q].type = DIR
          BY <1>3, <2>11, <3>3 DEF Walked
        <4> QED
          BY <2>8, <2>11, <3>3, <4>1 DEF Under
      <3>4. CASE r # q /\ q \notin Above(r)
        <4>1. r = <<>> \/ Front(r) # q
          BY <3>1, <3>4, PathOrder
        <4>2. r \in DOMAIN tree /\ t[r] = tree[r]
          BY <2>3, <3>4, <4>1
        <4>3. \A x \in Above(r) : x \in DOMAIN tree \ {q}
          BY <1>1, <3>4, <4>2, TreeFacts
        <4>4. Walked(r)
          BY <1>3, <2>3, <2>11, <4>3 DEF Walked
        <4>5. ~InWork(r)
          BY <2>8, <2>11, <3>4 DEF Under
        <4>6. Complete(r)
          BY <1>1, <4>2, <4>4, <4>5 DEF Walk
        <4> QED
          BY <1>1, <1>3, <4>2, <4>6 DEF Complete, Stat, Master
      <3> QED
        BY <3>2, <3>3, <3>4
    <2> QED
      BY <1>1, <1>3, <2>1, <2>9, <2>10, <2>11 DEF Walk, Running
  <1> QED
    BY <1>2, <1>3

LEMMA WalkVisit == ASSUME Inv, Walk, VisitNode PROVE Walk'
  <1> DEFINE p == Head(work)
  <1>1. /\ TypeOK /\ IsTree(tree) /\ work \in Seq(DOMAIN tree) /\ pc = "update" /\ work # <<>>
        /\ UNCHANGED <<tree, vice, status>> /\ Descend(tree, p) /\ cur' = p
    BY DEF VisitNode, Update, world, Inv, TypeOK
  <1>2. pc' \in Running /\ pc' # "done"
    <2>1. pc' \in {"update", "rm", Routine(tree[p].type)}
      BY <1>1 DEF VisitNode
    <2>2. Routine(tree[p].type) \in {"spec", "link", "mkdir", "reg", "update"}
      BY DEF Routine
    <2> QED
      BY <2>1, <2>2 DEF Running
  <1>3. ASSUME NEW q, q = p
        PROVE  /\ Apart' /\ Reached' /\ q \in DOMAIN tree /\ Walked(q)
               /\ \A r \in Path : InWork(r)' => r # q
               /\ tree[q].type = DIR => \A r \in DOMAIN tree : Under(r, q) => InWork(r)'
    <2>1. Apart /\ Reached
      BY <1>1 DEF Walk, Running
    <2>2. q = work[1] /\ 1 \in 1..Len(work) /\ q \in DOMAIN tree
      BY <1>1, <1>3, HeadTailProperties, EmptySeq, LenProperties
    <2>3. Descend(tree, q) /\ q = Head(work)
      BY <1>1, <1>3
    <2> HIDE DEF p
    <2> QED
      BY <1>1, <2>1, <2>2, <2>3, Descended, WalkedOn DEF Reached
  <1>4. /\ Apart' /\ Reached' /\ cur' \in DOMAIN tree /\ Walked(cur)'
        /\ ~InWork(cur)'
        /\ \A r \in DOMAIN tree : Walked(r) /\ Under(r, cur') => InWork(r)'
    <2> DEFINE q == p
    <2>1. q \in DOMAIN tree /\ Walked(q) /\ \A r \in Path : InWork(r)' => r # q
      BY <1>3
    <2>2. q \in Path
      BY <1>1, <2>1, TreeFacts
    <2>3. ~InWork(cur)'
      <3>1. ASSUME NEW c, c = cur'
            PROVE  ~InWork(c)'
        BY <1>1, <2>1, <2>2, <3>1
      <3> QED
        BY <3>1 DEF InWork
    <2>4. Walked(cur)'
      BY <1>1, <2>1 DEF Walked
    <2>5. \A r \in DOMAIN tree : Walked(r) /\ Under(r, q) => InWork(r)'
      <3>1. \A r \in DOMAIN tree : Walked(r) /\ Under(r, q) => tree[q].type = DIR
        BY DEF Walked, Under
      <3> QED
        BY <1>3, <3>1
    <2> QED
      BY <1>1, <1>3, <2>3, <2>4, <2>5
  <1>5. \A r \in DOMAIN tree : (Walked(r)' <=> Walked(r)) /\ (Complete(r)' <=> Complete(r))
    BY <1>1 DEF Walked, Complete, Stat, Master
  <1>6. \A r \in DOMAIN tree : Walked(r) => Complete(r)
    BY <1>1 DEF Walk, Running
  <1>7. \A r \in DOMAIN tree' : Walked(r)' => Complete(r)'
    BY <1>1, <1>5, <1>6
  <1>8. pc' # "check" /\ pc' # "load"
    BY <1>2 DEF Running
  <1>9. \A r \in DOMAIN tree' : Walked(r)' /\ Under(r, cur)' => InWork(r)'
    BY <1>1, <1>4, <1>5 DEF Under
  <1> QED
    BY <1>2, <1>4, <1>7, <1>8, <1>9 DEF Walk

(* The steps at one node leave the walk alone.                             *)
LEMMA WalkStays ==
    ASSUME Inv, Walk, pc \in Running, UNCHANGED <<vice, work, cur>>,
           \/ pc # "update" /\ pc' \in Running
           \/ pc = "update" /\ work = <<>> /\ pc' = "done",
           DOMAIN tree' = DOMAIN tree, \A q \in DOMAIN tree :
               /\ \A f \in {"type", "proto", "abs"} : f \in tree'[q].flag <=> f \in tree[q].flag
               /\ tree'[q].type = tree[q].type /\ tree'[q].proto = tree[q].proto
               /\ tree'[q].size = tree[q].size /\ tree'[q].mtime = tree[q].mtime
    PROVE  Walk'
  <1>1. /\ Apart /\ Reached /\ \A q \in DOMAIN tree : Walked(q) => Complete(q)
        /\ pc # "update" => /\ Walked(cur) /\ ~InWork(cur)
                            /\ \A q \in DOMAIN tree : Walked(q) /\ Under(q, cur) => InWork(q)
    BY DEF Walk
  <1>2. /\ IsTree(tree) /\ work \in Seq(DOMAIN tree) /\ cur \in DOMAIN tree
    BY DEF Inv, TypeOK
  <1>3. ASSUME NEW q \in DOMAIN tree
        PROVE  (Walked(q)' <=> Walked(q)) /\ (Complete(q)' <=> Complete(q)) /\ (InWork(q)' <=> InWork(q))
    <2>1. \A r \in Above(q) : r \in DOMAIN tree
      BY <1>2, TreeFacts
    <2>2. Walked(q)' <=> Walked(q)
      BY <2>1 DEF Walked
    <2>3. Master(tree'[q], q) = Master(tree[q], q)
      BY DEF Master
    <2>4. Complete(q)' <=> Complete(q)
      BY <2>3 DEF Complete, Stat, Master
    <2>5. InWork(q)' <=> InWork(q)
      BY DEF InWork
    <2> QED
      BY <2>2, <2>4, <2>5
  <1>4. Apart' /\ Reached'
    <2>1. Apart'
      BY <1>1 DEF Apart
    <2>2. \A i \in 1..Len(work) : work[i] \in DOMAIN tree
      BY <1>2, ElementOfSeq
    <2>3. \A i \in 1..Len(work) : Walked(work[i])
      BY <1>1 DEF Reached
    <2>4. \A i \in 1..Len(work) : \A r \in Above(work[i]) : tree'[r].type = DIR
      <3>1. \A q \in DOMAIN tree : Walked(q) => \A r \in Above(q) : tree'[r].type = DIR
        BY <1>2, TreeFacts DEF Walked
      <3> QED
        BY <2>2, <2>3, <3>1
    <2> QED
      BY <2>1, <2>4 DEF Reached, Walked
  <1>5. /\ \A q \in DOMAIN tree' : Walked(q)' => Complete(q)'
        /\ pc # "update" => /\ Walked(cur)' /\ ~InWork(cur)'
                            /\ \A q \in DOMAIN tree' : Walked(q)' /\ Under(q, cur)' => InWork(q)'
    <2>1. \A q \in DOMAIN tree' : Walked(q)' => Complete(q)'
      BY <1>1, <1>3
    <2>2. pc # "update" => Walked(cur)' /\ ~InWork(cur)'
      <3>1. \A r \in Above(cur) : r \in DOMAIN tree
        BY <1>2, TreeFacts
      <3> QED
        BY <1>1, <3>1 DEF Walked, InWork
    <2>3. pc # "update" => \A q \in DOMAIN tree' : Walked(q)' /\ Under(q, cur)' => InWork(q)'
      BY <1>1, <1>3 DEF Under
    <2> QED
      BY <2>1, <2>2, <2>3
  <1>6. pc' \notin {"load", "check"} /\ "done" \notin Running
    BY DEF Running
  <1> QED
    BY <1>4, <1>5, <1>6 DEF Walk

-----------------------------------------------------------------------------
(* The steps at the node that is visited.                                  *)
AtFile ==
    \/ CheckFile \/ OpenNew \/ CopyData \/ CopyFails \/ RemoveOld \/ LinkOld
    \/ ReplaceFile \/ MoveBusyAway \/ CannotReplace \/ SetTime
AtOther ==
    \/ RemoveNext \/ CheckDevice \/ MakeDevice \/ CheckLink \/ MakeLink
    \/ MakeDirectory \/ CleanDirectory \/ SetMode \/ SetOwner
AtNode == AtFile \/ AtOther
SameNodes ==
    /\ DOMAIN tree' = DOMAIN tree
    /\ \A p \in DOMAIN tree :
          /\ tree'[p].type = tree[p].type /\ tree'[p].proto = tree[p].proto
          /\ tree'[p].size = tree[p].size /\ tree'[p].mtime = tree[p].mtime
          /\ tree'[p].mode = tree[p].mode /\ tree'[p].uid = tree[p].uid
          /\ tree'[p].rdev = tree[p].rdev /\ tree'[p].hash = tree[p].hash
          /\ tree'[p].flag = tree[p].flag \/ (p = cur /\ tree'[p].flag = tree[p].flag \ {"old"})
          /\ p # cur => tree'[p] = tree[p]

LEMMA FileFrame ==
    ASSUME Inv, AtFile
    PROVE  /\ pc \in FileSteps /\ pc \in Running \ {"update"} /\ pc' \in FileSteps \cup {"mod", "update"}
           /\ UNCHANGED <<conf, opts, vice, before, work, cur>>
           /\ SameNodes
           /\ failed => failed'
           /\ ~CheckFile => tree' = tree
           /\ CheckFile => /\ UNCHANGED <<disk, ret, status, failed>> /\ pc = "reg" /\ pc' \in {"cp", "mod", "update"}
                           /\ tree' = tree \/ pc' = "cp"
  <1>1. cur \in DOMAIN tree /\ DOMAIN tree[cur] = DOMAIN NewNode
    BY CurFacts, TreeFacts
  <1>2. ASSUME tree' = tree
        PROVE  SameNodes
    BY <1>2 DEF SameNodes
  <1>3. CASE CheckFile
    <2>1. /\ pc = "reg" /\ pc' \in {"cp", "mod", "update"} /\ UNCHANGED <<conf, opts, vice, before, work, cur, disk, ret, status, failed>>
          /\ tree' = tree \/ (tree' = [tree EXCEPT ![cur].flag = @ \ {"old"}] /\ pc' = "cp")
      BY <1>3 DEF CheckFile, walk, world
    <2>2. SameNodes
      <3>1. CASE tree' = [tree EXCEPT ![cur] = [tree[cur] EXCEPT !.flag = @ \ {"old"}]]
        <4>1. /\ DOMAIN tree' = DOMAIN tree /\ tree'[cur] = [tree[cur] EXCEPT !.flag = @ \ {"old"}]
              /\ \A p \in DOMAIN tree : p # cur => tree'[p] = tree[p]
          BY <1>1, <3>1
        <4>2. /\ tree'[cur].type = tree[cur].type /\ tree'[cur].proto = tree[cur].proto
              /\ tree'[cur].size = tree[cur].size /\ tree'[cur].mtime = tree[cur].mtime
              /\ tree'[cur].mode = tree[cur].mode /\ tree'[cur].uid = tree[cur].uid
              /\ tree'[cur].rdev = tree[cur].rdev /\ tree'[cur].hash = tree[cur].hash
              /\ tree'[cur].flag = tree[cur].flag \ {"old"}
          BY <1>1, <4>1, NodeFields
        <4> QED
          BY <4>1, <4>2 DEF SameNodes
      <3> QED
        BY <1>2, <2>1, <3>1
    <2> QED
      BY <1>3, <2>1, <2>2 DEF FileSteps, Running
  <1>4. CASE ~CheckFile
    <2> DEFINE same == UNCHANGED <<conf, opts, vice, before, work, cur, tree>>
               to == pc \in FileSteps /\ pc' \in FileSteps \cup {"mod", "update"}
    <2>1. to /\ same /\ (failed => failed')
      <3>1. CASE OpenNew
        BY <3>1 DEF OpenNew, FileSteps, walk, world
      <3>2. CASE CopyData
        BY <3>2 DEF CopyData, FileSteps, walk, world
      <3>3. CASE CopyFails
        BY <3>3 DEF CopyFails, FileSteps, walk, Report
      <3>4. CASE RemoveOld
        BY <3>4 DEF RemoveOld, FileSteps, walk, world
      <3>5. CASE LinkOld
        BY <3>5 DEF LinkOld, FileSteps, walk, world
      <3>6. CASE ReplaceFile
        BY <3>6 DEF ReplaceFile, FileSteps, walk, world
      <3>7. CASE MoveBusyAway
        BY <3>7 DEF MoveBusyAway, FileSteps, walk, world, Report
      <3>8. CASE CannotReplace
        BY <3>8 DEF CannotReplace, FileSteps, walk, world, Report
      <3>9. CASE SetTime
        BY <3>9 DEF SetTime, FileSteps, walk, world
      <3> QED
        BY <1>4, <3>1, <3>2, <3>3, <3>4, <3>5, <3>6, <3>7, <3>8, <3>9 DEF AtFile
    <2> QED
      BY <1>2, <1>4, <2>1 DEF FileSteps, Running
  <1> QED
    BY <1>3, <1>4

LEMMA OtherFrame ==
    ASSUME Inv, AtOther
    PROVE  /\ pc \in Running \ ({"update"} \cup FileSteps) /\ pc' \in Running
           /\ UNCHANGED <<conf, opts, vice, before, tree, work, cur, status>>
           /\ failed => failed'
  <1>1. after \in Running
    BY CurFacts
  <1> DEFINE same == UNCHANGED <<conf, opts, vice, before, tree, work, cur, status>>
             to == pc \in {"rm", "spec", "mknod", "link", "symlink", "mkdir", "clean", "mod", "own"} /\ pc' \in Running
  <1>2. to /\ same /\ (failed => failed')
    <2>1. CASE RemoveNext
      BY <1>1, <2>1 DEF RemoveNext, Running, walk, world
    <2>2. CASE CheckDevice
      BY <1>1, <2>2 DEF CheckDevice, Running, walk, world
    <2>3. CASE MakeDevice
      BY <1>1, <2>3 DEF MakeDevice, Running, walk, world
    <2>4. CASE CheckLink
      BY <1>1, <2>4 DEF CheckLink, Running, walk, world
    <2>5. CASE MakeLink
      BY <1>1, <2>5 DEF MakeLink, Running, walk, world
    <2>6. CASE MakeDirectory
      BY <1>1, <2>6 DEF MakeDirectory, Running, walk, world
    <2>7. CASE CleanDirectory
      BY <1>1, <2>7 DEF CleanDirectory, Running, walk, world
    <2>8. CASE SetMode
      BY <1>1, <2>8 DEF SetMode, Running, walk, world
    <2>9. CASE SetOwner
      BY <1>1, <2>9 DEF SetOwner, Running, walk, world
    <2> QED
      BY <2>1, <2>2, <2>3, <2>4, <2>5, <2>6, <2>7, <2>8, <2>9 DEF AtOther
  <1> QED
    BY <1>2 DEF FileSteps, Running

LEMMA NodeFrame ==
    ASSUME Inv, AtNode
    PROVE  /\ pc \in Running \ {"update"} /\ pc' \in Running
           /\ UNCHANGED <<conf, opts, vice, before, work, cur>> /\ SameNodes /\ (failed => failed')
  <1>1. CASE AtFile
    BY <1>1, FileFrame DEF FileSteps, Running
  <1>2. CASE AtOther
    <2>1. tree' = tree
      BY <1>2, OtherFrame
    <2>2. SameNodes
      BY <2>1 DEF SameNodes
    <2> QED
      BY <1>2, <2>2, OtherFrame
  <1> QED
    BY <1>1, <1>2 DEF AtNode

(* The steps, by what they do to the walk.                                 *)
LEMMA Steps ==
    ASSUME Next
    PROVE  LoadEntry \/ Loaded \/ CheckNode \/ AllChecked \/ VisitNode \/ AtNode \/ Finish \/ Crash \/ Rerun \/ Release
  BY DEF Next, Package, Load, Check, UpdateFile, UpdateOther, AtNode, AtFile, AtOther

LEMMA WalkStep == ASSUME Inv, Walk, Next PROVE Walk'
  <1>1. CASE AtNode
    <2>1. /\ pc \in Running \ {"update"} /\ pc' \in Running
          /\ UNCHANGED <<vice, work, cur>> /\ SameNodes
      BY <1>1, NodeFrame
    <2>2. \A q \in DOMAIN tree : \A f \in {"type", "proto", "abs"} : f \in tree'[q].flag <=> f \in tree[q].flag
      BY <2>1 DEF SameNodes
    <2> QED
      BY <2>1, <2>2, WalkStays DEF SameNodes
  <1>2. CASE Finish
    <2>1. pc = "update" /\ work = <<>> /\ pc' = "done" /\ UNCHANGED <<vice, work, cur, tree>>
      BY <1>2 DEF Finish, walk, world
    <2>2. pc \in Running
      BY <2>1 DEF Running
    <2> QED
      BY <2>1, <2>2, WalkStays
  <1>3. CASE Crash \/ Release
    <2>1. pc' \in {"crashed", "idle"}
      BY <1>3 DEF Crash, Release
    <2> QED
      BY <2>1 DEF Walk, Running
  <1>4. CASE Rerun
    <2>1. /\ pc' = "load" /\ status' = 0 /\ tree' = [q \in {<<>>} |-> NewNode]
      BY <1>4 DEF Rerun, Begin
    <2>2. \A q \in DOMAIN tree' : "mtime" \notin tree'[q].flag
      BY <2>1, FreshTree
    <2> QED
      BY <2>1, <2>2 DEF Walk, Running
  <1> QED
    BY <1>1, <1>2, <1>3, <1>4, Steps, WalkLoad, WalkLoaded, WalkCheck, WalkAllChecked, WalkVisit

LEMMA WalkStutters == ASSUME Walk, UNCHANGED vars PROVE Walk'
  <1>1. UNCHANGED <<vice, pc, tree, work, cur, status>>
    BY DEF vars
  <1>2. /\ Apart' <=> Apart
        /\ Reached' <=> Reached
    BY <1>1 DEF Apart, Reached, Walked
  <1>3. \A p : (Walked(p)' <=> Walked(p)) /\ (InWork(p)' <=> InWork(p)) /\ (Complete(p)' <=> Complete(p))
    BY <1>1 DEF Walked, InWork, Complete, Stat, Master
  <1>4. (Walked(cur)' <=> Walked(cur)) /\ (InWork(cur)' <=> InWork(cur)) /\ \A p : Under(p, cur)' <=> Under(p, cur)
    BY <1>1 DEF Walked, InWork, Under
  <1> QED
    BY <1>1, <1>2, <1>3, <1>4 DEF Walk

LEMMA WalkBegins == ASSUME Init PROVE Walk
  <1>1. pc = "load" /\ status = 0 /\ tree = [q \in {<<>>} |-> NewNode]
    BY DEF Init
  <1>2. \A q \in DOMAIN tree : "mtime" \notin tree[q].flag
    BY <1>1, FreshTree
  <1> QED
    BY <1>1, <1>2 DEF Walk, Running

(* What a step at a node may change: the entry of the node, the two names  *)
(* beside it, and what rm removes.                                         *)
LEMMA AltersWith ==
    ASSUME NEW p, NEW x, disk' = With(disk, p, x)
    PROVE  Altered \subseteq {p} /\ DOMAIN disk' = DOMAIN disk \cup {p} /\ disk'[p] = x
  BY DEF With, Altered

LEMMA AltersExcept ==
    ASSUME NEW p, NEW x, disk' = [disk EXCEPT ![p] = x]
    PROVE  Altered \subseteq {p} /\ DOMAIN disk' = DOMAIN disk /\ (p \in DOMAIN disk => disk'[p] = x)
  BY DEF Altered

LEMMA AltersRenamed ==
    ASSUME NEW p, NEW q, p # q, disk' = Renamed(p, q)
    PROVE  /\ Altered \subseteq {p, q} /\ q \in DOMAIN disk' /\ disk'[q] = disk[p] /\ p \notin DOMAIN disk'
           /\ DOMAIN disk' = (DOMAIN disk \ {p}) \cup {q}
  <1> DEFINE d == Without(disk, {p})
  <1>1. disk' = With(d, q, disk[p])
    BY DEF Renamed
  <1>2. DOMAIN d = DOMAIN disk \ {p} /\ \A r \in DOMAIN d : d[r] = disk[r]
    BY DEF Without
  <1> HIDE DEF d
  <1>3. DOMAIN disk' = DOMAIN d \cup {q} /\ disk'[q] = disk[p] /\ \A r \in DOMAIN d : r # q => disk'[r] = d[r]
    BY <1>1 DEF With
  <1> QED
    BY <1>2, <1>3 DEF Altered

LEMMA RemoveDoes ==
    ASSUME Inv, RemoveNext, ~opts.lazy
    PROVE  /\ pc = "rm"
           /\ \A p \in Altered : p \in Plain \/ ~failed' => Victim(p) /\ p \in victims /\ p \notin DOMAIN disk'
           /\ victims = {} => pc' = after /\ UNCHANGED <<disk, busy, victims, failed>>
           /\ victims # {} => /\ pc' = "rm" /\ \E v \in victims : victims' = victims \ {v} /\ (~failed' => v \notin DOMAIN disk')
           /\ UNCHANGED <<ret, after>>
  <1>1. pc = "rm" /\ TypeOK /\ UNCHANGED <<ret, after>>
    BY DEF RemoveNext, Inv
  <1>2. CASE victims = {}
    <2>1. pc' = after /\ UNCHANGED <<disk, busy, victims, failed>>
      BY <1>2 DEF RemoveNext
    <2> QED
      BY <1>1, <1>2, <2>1, UnchangedDisk
  <1>3. CASE victims # {}
    <2>1. PICK v \in victims :
            /\ SetDisk(Removed(v))
            /\ failed' = (failed \/ (~opts.lazy /\ (v \in busy \/ v \in DOMAIN disk')))
            /\ victims' = victims \ {v} /\ UNCHANGED pc
      BY <1>3 DEF RemoveNext
    <2>2. Victim(v) /\ disk' = Removed(v)
      BY <1>1, <2>1 DEF Inv, Victims, SetDisk
    <2>3. v \in Path /\ v # <<>>
      BY <1>1, <2>2, VictimFacts
    <2>4. /\ Altered \subseteq {v} \cup {q \in {Ext(v, "busy")} : v \in busy}
          /\ Below(disk, v) # {} => disk' = disk
          /\ Below(disk, v) = {} => v \notin DOMAIN disk'
      BY <1>1, <2>2, <2>3, RemovedFacts
    <2>5. Ext(v, "busy") \notin Plain /\ (v # Ext(v, "busy") \/ v \notin busy)
      <3>1. Ext(v, "busy") \notin Plain
        BY <1>1, <2>3, SuffixFree DEF TypeOK
      <3>2. v \in busy => v \in Plain
        BY <1>1, PackageAssumption DEF TypeOK
      <3> QED
        BY <3>1, <3>2
    <2>6. ASSUME NEW p \in Altered
          PROVE  /\ p \in Plain \/ ~failed' => p = v
                 /\ p = v => p \notin DOMAIN disk'
      <3>1. p = v => p \notin DOMAIN disk'
        BY <2>4, <2>6, UnchangedDisk
      <3>2. p # v => p \notin Plain /\ failed'
        BY <2>1, <2>4, <2>5, <2>6
      <3> QED
        BY <3>1, <3>2
    <2>8. \E u \in victims : victims' = victims \ {u} /\ (~failed' => u \notin DOMAIN disk')
      BY <2>1
    <2> QED
      BY <1>1, <1>3, <2>1, <2>2, <2>6, <2>8
  <1> QED
    BY <1>2, <1>3

LEMMA Footprint ==
    ASSUME Inv, AtNode, ~opts.lazy
    PROVE  \A p \in Altered :
              \/ p = cur
              \/ pc \in FileSteps /\ p \in {New, Old}
              \/ pc = "rm" /\ p \notin DOMAIN disk' /\ Victim(p)
              \/ failed' /\ p \notin Plain
  <1>1. /\ TypeOK /\ cur \in Path /\ cur \in Plain /\ (tree[cur].type \in Handled \ {DIR} => cur # <<>>)
    BY CurFacts
  <1>2. CASE RemoveNext
    BY <1>2, RemoveDoes
  <1>3. CASE \/ CheckFile \/ CopyFails \/ CannotReplace \/ CleanDirectory
    <2>1. disk' = disk
      BY <1>3 DEF CheckFile, CopyFails, CannotReplace, CleanDirectory
    <2> QED
      BY <2>1, UnchangedDisk
  <1>4. CASE CheckDevice \/ CheckLink
    <2>1. UNCHANGED disk \/ (ret = 0 /\ RemoveUnlessReadOnly(cur))
      BY <1>4 DEF CheckDevice, CheckLink
    <2>2. tree[cur].type \in {CHR, BLK, LNK} /\ pc \in {"spec", "link"}
      BY <1>4 DEF CheckDevice, CheckLink, Inv, Stages
    <2>3. cur # <<>> /\ tree[cur].type # REG
      BY <1>1, <2>2, TypesDiffer DEF Handled
    <2>4. ret = 0 => cur \notin busy
      BY <1>1, <2>2, <2>3 DEF Inv, Present, Wanted, TypeOK
    <2> QED
      BY <1>1, <2>1, <2>3, <2>4, RemovedUnless, UnchangedDisk
  <1>5. CASE MakeDevice \/ MakeLink \/ MakeDirectory
    <2>1. UNCHANGED disk \/ \E x : disk' = With(disk, cur, x)
      BY <1>5 DEF MakeDevice, MakeLink, MakeDirectory, SetDisk
    <2> QED
      BY <2>1, AltersWith, UnchangedDisk
  <1>6. CASE SetTime \/ SetMode \/ SetOwner
    <2>1. UNCHANGED disk \/ \E x : disk' = [disk EXCEPT ![cur] = x]
      BY <1>6 DEF SetTime, SetMode, SetOwner, SetDisk
    <2> QED
      BY <2>1, AltersExcept, UnchangedDisk
  <1>7. CASE OpenNew
    <2>1. pc \in FileSteps /\ (UNCHANGED disk \/ \E x : disk' = With(disk, New, x))
      BY <1>7 DEF OpenNew, SetDisk, FileSteps
    <2> QED
      BY <2>1, AltersWith, UnchangedDisk
  <1>8. CASE CopyData
    <2>1. pc \in FileSteps /\ (UNCHANGED disk \/ \E x : disk' = [disk EXCEPT ![New] = x])
      BY <1>8 DEF CopyData, SetDisk, FileSteps
    <2> QED
      BY <2>1, AltersExcept, UnchangedDisk
  <1>9. CASE RemoveOld
    <2>1. pc \in FileSteps /\ RemoveUnlessReadOnly(Old)
      BY <1>9 DEF RemoveOld, FileSteps
    <2>2. Old \in Path /\ Old # <<>> /\ Old \notin busy
      BY <2>1, FileFacts
    <2> QED
      BY <1>1, <2>1, <2>2, RemovedUnless
  <1>10. CASE LinkOld
    <2>1. pc \in FileSteps /\ (UNCHANGED disk \/ \E x : disk' = With(disk, Old, x))
      BY <1>10 DEF LinkOld, SetDisk, FileSteps
    <2> QED
      BY <2>1, AltersWith, UnchangedDisk
  <1>11. CASE ReplaceFile
    <2>1. pc \in FileSteps /\ disk' = Renamed(New, cur)
      BY <1>11 DEF ReplaceFile, NewInPlace, FileSteps
    <2>2. New # cur
      BY <1>1, <2>1, FileFacts
    <2> QED
      BY <2>1, <2>2, AltersRenamed
  <1>12. CASE MoveBusyAway
    <2>1. pc \in FileSteps /\ disk' = Renamed(cur, Ext(cur, "busy")) /\ failed'
      BY <1>12 DEF MoveBusyAway, FileSteps, Report
    <2>2. Ext(cur, "busy") \notin Plain /\ cur # Ext(cur, "busy")
      BY <1>1, <2>1, FileFacts
    <2>3. Altered \subseteq {cur, Ext(cur, "busy")}
      BY <2>1, <2>2, AltersRenamed
    <2> QED
      BY <2>1, <2>2, <2>3
  <1> QED
    BY <1>2, <1>3, <1>4, <1>5, <1>6, <1>7, <1>8, <1>9, <1>10, <1>11, <1>12 DEF AtNode, AtFile, AtOther

-----------------------------------------------------------------------------
(* The exit status.                                                        *)

(* What a step at a node says of the nodes.                                *)
LEMMA NodeSays ==
    ASSUME Inv, AtNode, NEW p \in DOMAIN tree
    PROVE  /\ IsFile(tree, p)' <=> IsFile(tree, p)
           /\ Noted(p)' <=> Noted(p)
           /\ Walked(p)' <=> Walked(p)
           /\ Cause(p)' <=> Cause(p)
           /\ MasterData(tree[p], p)' = MasterData(tree[p], p)
           /\ tree'[p].mtime = tree[p].mtime
  <1>1. UNCHANGED <<vice, before>> /\ SameNodes
    BY NodeFrame
  <1>2. /\ p \in DOMAIN tree' /\ tree'[p].type = tree[p].type /\ tree'[p].proto = tree[p].proto /\ tree'[p].mtime = tree[p].mtime
        /\ \A f \in {"proto", "abs", "hash", "stat"} : f \in tree'[p].flag <=> f \in tree[p].flag
    BY <1>1 DEF SameNodes
  <1>3. Master(tree'[p], p) = Master(tree[p], p)
    BY <1>2 DEF Master
  <1>4. MasterData(tree[p], p)' = MasterData(tree[p], p)
    BY <1>1, <1>2, <1>3 DEF MasterData, Stat
  <1>5. IsFile(tree, p)' <=> IsFile(tree, p)
    BY <1>2 DEF IsFile
  <1>6. Noted(p)' <=> Noted(p)
    BY <1>2, <1>5 DEF Noted
  <1>7. Cause(p)' <=> Cause(p)
    BY <1>1, <1>2, <1>4 DEF Cause, IsFile
  <1>8. \A q \in Above(p) : q \in DOMAIN tree
    BY CurFacts, TreeFacts
  <1>9. Walked(p)' <=> Walked(p)
    BY <1>1, <1>8 DEF Walked, SameNodes
  <1> QED
    BY <1>2, <1>4, <1>5, <1>6, <1>7, <1>9

(* What rm removes is not on the way of the walk.                          *)
LEMMA VictimApart ==
    ASSUME Inv, NEW p \in DOMAIN tree, p # cur, Victim(p)
    PROVE  ~Walked(p)
  <1>1. IsTree(tree) /\ p \in Path
    BY CurFacts, TreeFacts
  <1>2. CASE Under(p, cur) /\ tree[cur].type # DIR
    BY <1>2 DEF Walked, Under
  <1>3. CASE Unnamed(p, cur)
    <2> DEFINE r == SubSeq(p, 1, Len(cur) + 1)
    <2>1. cur \in Above(p) /\ r \notin DOMAIN tree
      BY <1>3 DEF Unnamed, Under
    <2>2. r = p \/ r \in Above(p)
      BY <1>1, <2>1, PathOrder
    <2> QED
      BY <1>1, <2>1, <2>2, TreeFacts
  <1> QED
    BY <1>2, <1>3 DEF Victim

LEMMA ElsewhereKept ==
    ASSUME Inv, AtNode, ~opts.lazy, NEW p \in DOMAIN tree, p # cur
    PROVE  p \in Altered => p \notin DOMAIN disk' /\ ~Walked(p)
  <1>1. p \in Plain
    BY CurFacts, TreeFacts
  <1>2. pc \in FileSteps => New \notin Plain /\ Old \notin Plain
    BY FileFacts
  <1> QED
    BY <1>1, <1>2, Footprint, VictimApart

LEMMA ToldElsewhere ==
    ASSUME Inv, AtNode, ~opts.lazy, NEW p \in DOMAIN tree, p # cur, status = 4 => status' = 4
    PROVE  /\ ToldAt(p) => ToldAt(p)'
           /\ Telling(p) => Telling(p)'
  <1>1. /\ IsFile(tree, p)' <=> IsFile(tree, p)
        /\ Noted(p)' <=> Noted(p)
        /\ Walked(p)' <=> Walked(p)
        /\ Cause(p)' <=> Cause(p)
        /\ MasterData(tree[p], p)' = MasterData(tree[p], p)
        /\ tree'[p].mtime = tree[p].mtime
    BY NodeSays
  <1>2. UNCHANGED <<before, cur>>
    BY NodeFrame
  <1>3. CASE p \in Altered
    <2>1. p \notin DOMAIN disk' /\ ~Walked(p)
      BY <1>3, ElsewhereKept
    <2> QED
      BY <1>1, <2>1 DEF ToldAt, Telling, Placed
  <1>4. CASE p \notin Altered
    <2>1. (p \in DOMAIN disk' <=> p \in DOMAIN disk) /\ (p \in DOMAIN disk => disk'[p] = disk[p])
      BY <1>4, Untouched
    <2>2. Replaced(p)' <=> Replaced(p)
      BY <1>2, <2>1 DEF Replaced
    <2>3. Placed(p) => Placed(p)'
      BY <1>1, <1>2, <2>1 DEF Placed
    <2> QED
      BY <1>1, <2>1, <2>2, <2>3 DEF ToldAt, Telling
  <1> QED
    BY <1>3, <1>4

(* The node itself.                                                        *)
ToldNow(c) ==
    /\ ToldAt(c)
    /\ pc \in Copying \cup {"tim"} => Cause(c)
    /\ pc = "tim" /\ Noted(c) => status = 4
    /\ pc = "reg" \/ (pc = "rm" /\ after = "reg") => ret = 0 \/ ~IsFile(disk, c)

LEMMA ToldOther ==
    ASSUME Inv, AtOther, ~opts.lazy, tree[cur].type # REG, NEW c, c = cur
    PROVE  ToldNow(c)' /\ ~Noted(c)
  <1>1. AtNode
    BY DEF AtNode
  <1>2. UNCHANGED <<tree, cur>> /\ Inv' /\ c \in DOMAIN tree
    <2>1. Inv'
      BY <1>1, StepGood DEF AtNode, AtOther, Next, Package, UpdateOther, Good
    <2> QED
      BY <2>1, OtherFrame, CurFacts
  <1>3. ~IsFile(tree, c) /\ ~IsFile(tree, c)' /\ ~Noted(c) /\ ~Noted(c)'
    BY <1>2 DEF IsFile, Noted
  <1>4. pc' \notin FileSteps
    BY <1>2 DEF Inv, Stages
  <1>5. ASSUME pc' = "rm", after' = "reg"
        PROVE  FALSE
    <2>1. tree[cur].type \in Handled /\ (after' = Routine(tree[cur].type) \/ after' \in {"mod", "update"})
      BY <1>2, <1>5 DEF Inv, Stages, Clearing, Cleaning
    <2> QED
      BY <1>5, <2>1, RoutineFacts
  <1>6. pc' \notin Copying \cup {"tim", "reg"}
    BY <1>4 DEF FileSteps, Copying
  <1> QED
    BY <1>3, <1>5, <1>6 DEF ToldNow, ToldAt

(* Steps that leave the entry of a file as it is.                          *)
LEMMA ToldSame ==
    ASSUME Inv, AtNode, NEW c, c = cur, ToldAt(c), c \notin Altered, status' = status, pc # "tim"
    PROVE  ToldAt(c)' /\ (Telling(c) => Telling(c)')
  <1>1. c \in DOMAIN tree /\ UNCHANGED <<before, cur>>
    BY CurFacts, NodeFrame
  <1>2. (c \in DOMAIN disk' <=> c \in DOMAIN disk) /\ (c \in DOMAIN disk => disk'[c] = disk[c])
    BY Untouched
  <1>3. Replaced(c)' <=> Replaced(c)
    BY <1>1, <1>2 DEF Replaced
  <1>4. /\ IsFile(tree, c)' <=> IsFile(tree, c)
        /\ Noted(c)' <=> Noted(c)
        /\ Walked(c)' <=> Walked(c)
        /\ Cause(c)' <=> Cause(c)
        /\ MasterData(tree[c], c)' = MasterData(tree[c], c)
        /\ tree'[c].mtime = tree[c].mtime
    BY <1>1, NodeSays
  <1>5. Placed(c) => Placed(c)'
    BY <1>2, <1>4 DEF Placed
  <1> QED
    BY <1>2, <1>3, <1>4, <1>5 DEF ToldAt, Telling

LEMMA ToldRemove ==
    ASSUME Inv, Told, RemoveNext, ~opts.lazy, tree[cur].type = REG, NEW c, c = cur
    PROVE  ToldNow(c)' /\ (Telling(c) => Telling(c)')
  <1>1. /\ c \in DOMAIN tree /\ c \in Plain /\ c \in Path /\ c # <<>> /\ AtNode /\ UNCHANGED <<before, cur, tree, status>>
    BY CurFacts, OtherFrame, TypesDiffer DEF AtNode, AtOther, Handled
  <1>2. pc = "rm" /\ UNCHANGED <<ret, after>> /\ (pc' = after \/ pc' = "rm")
        /\ (c \in Altered => Victim(c) /\ c \notin DOMAIN disk')
    BY <1>1, RemoveDoes
  <1>3. after = "reg" /\ ret = -1
    <2>1. Clearing
      BY <1>2, TypesDiffer DEF Inv, Stages, Cleaning
    <2> QED
      BY <2>1, TypesDiffer DEF Clearing, Routine
  <1>4. ToldAt(c) /\ ~IsFile(disk, c)
    BY <1>1, <1>2, <1>3 DEF Told, Running
  <1>5. pc' \in {"rm", "reg"} /\ pc' \notin Copying \cup {"tim"} /\ pc # "tim"
    BY <1>2, <1>3 DEF Copying
  <1>6. CASE c \notin Altered
    <2>1. ToldAt(c)' /\ (Telling(c) => Telling(c)')
      BY <1>1, <1>4, <1>5, <1>6, ToldSame
    <2>2. ~IsFile(disk, c)'
      BY <1>4, <1>6, Untouched DEF IsFile
    <2> QED
      BY <1>5, <2>1, <2>2 DEF ToldNow
  <1>7. CASE c \in Altered
    <2>1. ~IsFile(before, c)
      <3>1. ~Unnamed(c, c)
        BY <1>1, PathOrder DEF Unnamed, Under
      <3> QED
        BY <1>1, <1>2, <1>7, <3>1 DEF Victim, IsFile
    <2>2. Cause(c)
      BY <2>1 DEF Cause
    <2>3. Cause(c)' /\ (Noted(c)' <=> Noted(c))
      BY <1>1, <2>2, NodeSays
    <2> QED
      BY <1>2, <1>5, <1>7, <2>3 DEF ToldNow, ToldAt, Telling, Placed, IsFile
  <1> QED
    BY <1>6, <1>7

(* A file is copied when it is not what its master is.                     *)
LEMMA ToldCheck ==
    ASSUME Inv, Walk, Told, CheckFile, ~opts.lazy, NEW c, c = cur
    PROVE  ToldNow(c)' /\ (Telling(c) => Telling(c)')
  <1>1. /\ c \in DOMAIN tree /\ AtNode /\ UNCHANGED <<before, vice, cur, disk, ret, status>> /\ pc = "reg"
        /\ pc \in Running \ {"update"} /\ pc' \in {"cp", "mod", "update"} /\ ret \in {0, -1} /\ IsDisk(disk)
    BY CurFacts, FileFrame DEF AtNode, AtFile
  <1>2. ToldAt(c) /\ (ret = 0 \/ ~IsFile(disk, c)) /\ tree[c].type = REG
    BY <1>1 DEF Told, Inv, Stages, FileSteps
  <1>3. c \notin Altered
    BY <1>1, UnchangedDisk
  <1>4. ToldAt(c)' /\ (Telling(c) => Telling(c)')
    BY <1>1, <1>2, <1>3, ToldSame
  <1>5. ASSUME pc' = "cp"
        PROVE  Cause(c)
    <2>1. /\ "proto" \in tree[c].flag
          /\ ret < 0 \/ Outdated(tree[c], disk[c])
      BY <1>5 DEF CheckFile
    <2>2. Walked(c) /\ Complete(c)
      BY <1>1 DEF Walk
    <2>3. CASE Replaced(c)
      BY <1>1, <1>2, <2>2, <2>3 DEF ToldAt, IsFile
    <2>4. CASE ~IsFile(before, c)
      BY <2>4 DEF Cause
    <2>5. CASE ~Replaced(c) /\ IsFile(before, c)
      <3>1. /\ c \in DOMAIN before /\ c \in DOMAIN disk /\ disk[c].type = REG
            /\ disk[c].data = before[c].data /\ disk[c].mtime = before[c].mtime
        BY <2>5 DEF Replaced, IsFile
      <3>2. ret = 0
        BY <1>2, <3>1 DEF IsFile
      <3>3. Outdated(tree[c], disk[c])
        BY <2>1, <3>2
      <3>4. tree[c].size = Size[Stat(Master(tree[c], c)).data]
        BY <1>2, <2>1, <2>2 DEF Complete
      <3>5. Stat(Master(tree[c], c)).data \in MasterData(tree[c], c)
        BY <2>1 DEF MasterData
      <3> QED
        BY <3>1, <3>3, <3>4, <3>5 DEF Outdated, Cause
    <2> QED
      BY <2>3, <2>4, <2>5
  <1>6. Cause(c)' <=> Cause(c)
    BY <1>1, NodeSays
  <1> QED
    BY <1>1, <1>4, <1>5, <1>6 DEF ToldNow, Copying

LEMMA ToldBeside ==
    ASSUME Inv, Told, OpenNew \/ CopyData \/ CopyFails \/ RemoveOld \/ LinkOld \/ CannotReplace, ~opts.lazy, NEW c, c = cur
    PROVE  ToldNow(c)' /\ (Telling(c) => Telling(c)') /\ pc \in Copying
  <1>1. /\ c \in DOMAIN tree /\ AtNode /\ pc \in FileSteps /\ UNCHANGED <<before, vice, cur>>
    BY CurFacts, FileFrame DEF AtNode, AtFile
  <1>2. pc \in Copying /\ pc # "tim" /\ pc' \in Copying \cup {"update"} /\ status' = status
    BY DEF OpenNew, CopyData, CopyFails, RemoveOld, LinkOld, CannotReplace, Copying
  <1>3. New # cur /\ Old # cur /\ Old \in Path /\ Old # <<>> /\ Old \notin busy /\ TypeOK
    BY <1>1, FileFacts, CurFacts
  <1>4. c \notin Altered
    <2>1. CASE CopyFails \/ CannotReplace
      BY <2>1, UnchangedDisk DEF CopyFails, CannotReplace
    <2>2. CASE OpenNew
      <3>1. UNCHANGED disk \/ \E x : disk' = With(disk, New, x)
        BY <2>2 DEF OpenNew, SetDisk
      <3> QED
        BY <1>3, <3>1, AltersWith, UnchangedDisk
    <2>3. CASE CopyData
      <3>1. UNCHANGED disk \/ \E x : disk' = [disk EXCEPT ![New] = x]
        BY <2>3 DEF CopyData, SetDisk
      <3> QED
        BY <1>3, <3>1, AltersExcept, UnchangedDisk
    <2>4. CASE RemoveOld
      BY <1>3, <2>4, RemovedUnless DEF RemoveOld
    <2>5. CASE LinkOld
      <3>1. UNCHANGED disk \/ \E x : disk' = With(disk, Old, x)
        BY <2>5 DEF LinkOld, SetDisk
      <3> QED
        BY <1>3, <3>1, AltersWith, UnchangedDisk
    <2> QED
      BY <2>1, <2>2, <2>3, <2>4, <2>5
  <1>5. ToldAt(c) /\ Cause(c)
    BY <1>1, <1>2 DEF Told, Running, Copying
  <1>6. ToldAt(c)' /\ (Telling(c) => Telling(c)')
    BY <1>1, <1>2, <1>4, <1>5, ToldSame
  <1>7. Cause(c)'
    BY <1>1, <1>5, NodeSays
  <1> QED
    BY <1>2, <1>6, <1>7 DEF ToldNow, Copying

LEMMA ToldReplace ==
    ASSUME Inv, Told, ReplaceFile \/ MoveBusyAway, ~opts.lazy, NEW c, c = cur
    PROVE  /\ ToldNow(c)' /\ (Telling(c) => Telling(c)')
           /\ status' = 4 => status = 4 \/ Telling(c)'
           /\ status = 4 => status' = 4
  <1>1. /\ c \in DOMAIN tree /\ AtNode /\ pc \in FileSteps /\ UNCHANGED <<before, vice, cur, tree>>
    BY CurFacts, FileFrame DEF AtNode, AtFile, ReplaceFile, MoveBusyAway, CheckFile
  <1>2. pc \in {"mv", "mvbusy"} /\ pc \in Copying /\ pc \in Running
    BY DEF ReplaceFile, MoveBusyAway, Copying, Running
  <1>3. /\ New # c /\ Ext(c, "busy") # c /\ (New \in DOMAIN disk => disk[New].type = REG)
    BY <1>1, FileFacts, CurFacts
  <1>4. /\ "proto" \in tree[c].flag /\ New \in DOMAIN disk /\ disk[New].data = Stat(Master(tree[c], c)).data
    BY <1>2 DEF Inv, NewWhole
  <1>5. Cause(c)
    BY <1>2 DEF Told
  <1>6. /\ Cause(c)' /\ (Noted(c)' <=> Noted(c)) /\ MasterData(tree[c], c)' = MasterData(tree[c], c)
    BY <1>1, <1>5, NodeSays
  <1>7. Noted(c) <=> "stat" \in tree[c].flag
    BY <1>1 DEF Noted, IsFile, Inv, Stages
  <1>8. CASE ReplaceFile
    <2>1. /\ disk' = Renamed(New, c) /\ status' = (IF "stat" \in tree[c].flag THEN 4 ELSE status)
          /\ ret' = IF c \in DOMAIN disk' THEN 0 ELSE -1
          /\ pc' = IF ret' = 0 THEN "tim" ELSE "update"
      BY <1>8 DEF ReplaceFile, NewInPlace
    <2>2. c \in DOMAIN disk' /\ disk'[c] = disk[New]
      BY <1>3, <2>1, AltersRenamed
    <2>3. pc' = "tim"
      BY <2>1, <2>2
    <2>4. ToldAt(c)'
      BY <1>6, <1>7, <2>1 DEF ToldAt
    <2>5. Placed(c)'
      BY <1>1, <1>3, <1>4, <1>6, <2>2, <2>3 DEF Placed, MasterData
    <2>6. Telling(c)' <=> Noted(c)
      BY <1>6, <2>5 DEF Telling
    <2>7. ToldNow(c)'
      BY <1>6, <1>7, <2>1, <2>3, <2>4 DEF ToldNow
    <2> QED
      BY <1>7, <2>1, <2>6, <2>7 DEF Telling
  <1>9. CASE MoveBusyAway
    <2>1. disk' = Renamed(c, Ext(c, "busy")) /\ status' = status /\ pc' = "mvbusy"
      BY <1>9 DEF MoveBusyAway
    <2>2. c \notin DOMAIN disk'
      BY <1>3, <2>1, AltersRenamed
    <2> QED
      BY <1>6, <2>1, <2>2 DEF ToldNow, ToldAt, Telling, Placed
  <1> QED
    BY <1>8, <1>9

LEMMA ToldAttributes ==
    ASSUME Inv, Told, SetTime \/ SetMode \/ SetOwner, ~opts.lazy, tree[cur].type = REG, NEW c, c = cur
    PROVE  ToldNow(c)' /\ (Telling(c) => Telling(c)')
  <1>1. /\ c \in DOMAIN tree /\ AtNode /\ UNCHANGED <<before, vice, cur, tree, status>> /\ IsDisk(disk)
    BY CurFacts, NodeFrame DEF AtNode, AtFile, AtOther, SetTime, SetMode, SetOwner
  <1>2. pc \in {"tim", "mod", "own"} /\ pc \in Running /\ pc' \in {"mod", "own", "update"}
    BY DEF SetTime, SetMode, SetOwner, Running
  <1>3. /\ DOMAIN disk' = DOMAIN disk
        /\ c \in DOMAIN disk => /\ disk'[c].type = disk[c].type /\ disk'[c].data = disk[c].data
                                /\ disk'[c].mtime = IF pc = "tim" THEN tree[c].mtime ELSE disk[c].mtime
    <2>1. c \in DOMAIN disk => DOMAIN disk[c] = DOMAIN NoInode
      BY <1>1, DiskFacts DEF Fits
    <2>2. CASE SetTime
      <3>1. pc = "tim" /\ disk' = [disk EXCEPT ![c] = [disk[c] EXCEPT !.mtime = tree[c].mtime]]
        BY <2>2 DEF SetTime, SetDisk
      <3> QED
        BY <2>1, <3>1, NodeFields
    <2>3. CASE SetMode
      <3>1. pc = "mod" /\ (disk' = disk \/ disk' = [disk EXCEPT ![c] = [disk[c] EXCEPT !.mode = tree[c].mode]])
        BY <2>3 DEF SetMode, SetDisk
      <3> QED
        BY <2>1, <3>1, NodeFields
    <2>4. CASE SetOwner
      <3>1. pc = "own" /\ (disk' = disk \/ disk' = [disk EXCEPT ![c] = [disk[c] EXCEPT !.uid = tree[c].uid]])
        BY <2>4 DEF SetOwner, SetDisk
      <3> QED
        BY <2>1, <3>1, NodeFields
    <2> QED
      BY <2>2, <2>3, <2>4
  <1>4. /\ IsFile(tree, c)' <=> IsFile(tree, c)
        /\ Noted(c)' <=> Noted(c)
        /\ Walked(c)' <=> Walked(c)
        /\ Cause(c)' <=> Cause(c)
        /\ MasterData(tree[c], c)' = MasterData(tree[c], c)
    BY <1>1, NodeSays
  <1>5. ToldAt(c) /\ (pc = "tim" => Cause(c) /\ (Noted(c) => status = 4))
    BY <1>1, <1>2 DEF Told
  <1>6. pc # "tim" => (Replaced(c)' <=> Replaced(c))
    BY <1>1, <1>3 DEF Replaced
  <1>7. ToldAt(c)'
    BY <1>1, <1>3, <1>4, <1>5, <1>6 DEF ToldAt
  <1>8. Telling(c) => Telling(c)'
    BY <1>1, <1>3, <1>4 DEF Telling, Placed
  <1> QED
    BY <1>2, <1>7, <1>8 DEF ToldNow, Copying

LEMMA ToldNode == ASSUME Inv, Walk, Told, AtNode PROVE Told'
  <1>1. /\ pc \in Running \ {"update"} /\ pc' \in Running
        /\ UNCHANGED <<opts, before, vice, cur>> /\ DOMAIN tree' = DOMAIN tree
    BY NodeFrame DEF SameNodes
  <1>2. CASE opts.lazy
    BY <1>1, <1>2 DEF Told
  <1>3. ASSUME ~opts.lazy, NEW c, c = cur
        PROVE  Told'
    <2>1. c \in DOMAIN tree /\ \A p \in DOMAIN tree : ToldAt(p)
      BY <1>1, <1>3, CurFacts DEF Told
    <2>2. /\ ToldNow(c)' /\ (Telling(c) => Telling(c)')
          /\ status' = 4 => status = 4 \/ Telling(c)'
          /\ status = 4 => status' = 4
      <3>1. CASE AtOther /\ tree[cur].type # REG
        BY <1>3, <3>1, ToldOther, OtherFrame DEF Telling
      <3>2. CASE RemoveNext /\ tree[cur].type = REG
        BY <1>3, <3>2, ToldRemove DEF RemoveNext
      <3>3. CASE CheckFile
        BY <1>3, <3>3, ToldCheck DEF CheckFile
      <3>4. CASE OpenNew \/ CopyData \/ CopyFails \/ RemoveOld \/ LinkOld \/ CannotReplace
        <4>1. status' = status
          BY <3>4 DEF OpenNew, CopyData, CopyFails, RemoveOld, LinkOld, CannotReplace
        <4> QED
          BY <1>3, <3>4, <4>1, ToldBeside
      <3>5. CASE ReplaceFile \/ MoveBusyAway
        BY <1>3, <3>5, ToldReplace
      <3>6. CASE SetTime \/ ((SetMode \/ SetOwner) /\ tree[cur].type = REG)
        <4>1. tree[cur].type = REG
          BY <3>6 DEF SetTime, Inv, Stages, FileSteps
        <4>2. status' = status
          BY <3>6 DEF SetTime, SetMode, SetOwner
        <4> QED
          BY <1>3, <3>6, <4>1, <4>2, ToldAttributes
      <3>7. CASE AtOther /\ tree[cur].type = REG
        <4>1. RemoveNext \/ SetMode \/ SetOwner
          BY <3>7, TypesDiffer DEF AtOther, CheckDevice, MakeDevice, CheckLink, MakeLink, MakeDirectory, CleanDirectory, Inv, Stages
        <4> QED
          BY <3>2, <3>6, <3>7, <4>1
      <3> QED
        BY <3>1, <3>3, <3>4, <3>5, <3>6, <3>7 DEF AtNode, AtFile
    <2>3. ASSUME NEW p \in DOMAIN tree
          PROVE  ToldAt(p)' /\ (Telling(p) => Telling(p)')
      <3>1. CASE p = c
        BY <2>2, <3>1 DEF ToldNow
      <3>2. CASE p # c
        BY <1>3, <2>1, <2>2, <3>2, ToldElsewhere
      <3> QED
        BY <3>1, <3>2
    <2>4. status' = 4 => \E p \in DOMAIN tree : Telling(p)'
      BY <1>1, <1>3, <2>1, <2>2, <2>3 DEF Told
    <2>5. ToldNow(cur)'
      <3>1. cur' = c
        BY <1>1, <1>3
      <3> QED
        BY <2>2, <3>1 DEF ToldNow, ToldAt, Noted, Cause, IsFile, Walked, Replaced
    <2> QED
      BY <1>1, <2>3, <2>4, <2>5 DEF Told, ToldNow
  <1> QED
    BY <1>2, <1>3

LEMMA ToldVisit == ASSUME Inv, Walk, Told, VisitNode PROVE Told'
  <1>1. /\ pc = "update" /\ pc \in Running /\ UNCHANGED <<tree, disk, before, vice, status, opts>>
    BY DEF VisitNode, Update, world, Running
  <1>2. /\ pc' \in {"update", "rm", Routine(tree[cur'].type)}
        /\ pc' = "rm" => after' = Routine(tree[cur'].type) /\ cur' \in DOMAIN disk /\ disk[cur'].type # tree[cur'].type
        /\ pc' \notin {"update", "rm"} => ret' = 0 \/ cur' \notin DOMAIN disk
    <2> DEFINE p == Head(work)  type == tree[p].type  there == p \in DOMAIN disk  other == there /\ disk[p].type # type
    <2>1. /\ cur' = p
          /\ \/ pc' = pc
             \/ /\ ret' = IF there /\ ~other THEN 0 ELSE -1
                /\ IF other THEN pc' = "rm" /\ after' = Routine(type) ELSE pc' = Routine(type)
      BY DEF VisitNode
    <2>2. Routine(type) # "rm"
      BY DEF Routine
    <2> HIDE DEF p
    <2> QED
      BY <1>1, <2>1, <2>2
  <1>3. Routine(tree[cur'].type) \in {"spec", "link", "mkdir", "reg", "update"} /\ (Routine(tree[cur'].type) = "reg" => tree[cur'].type = REG)
    BY DEF Routine
  <1>4. pc' \notin Copying \cup {"tim"} /\ pc # "tim"
    BY <1>1, <1>2, <1>3 DEF Copying
  <1>5. pc' = "reg" \/ (pc' = "rm" /\ after' = "reg") => ret' = 0 \/ ~IsFile(disk, cur)'
    BY <1>1, <1>2, <1>3 DEF IsFile
  <1>6. ASSUME NEW p \in DOMAIN tree
        PROVE  (ToldAt(p) => ToldAt(p)') /\ (Telling(p) => Telling(p)')
    <2>1. /\ Noted(p)' <=> Noted(p)
          /\ Cause(p)' <=> Cause(p)
          /\ Replaced(p)' <=> Replaced(p)
          /\ Walked(p)' <=> Walked(p)
          /\ IsFile(tree, p)' <=> IsFile(tree, p)
          /\ MasterData(tree[p], p)' = MasterData(tree[p], p)
      BY <1>1 DEF Noted, Cause, Replaced, Walked, IsFile, MasterData, Stat, Master
    <2>2. Placed(p) => Placed(p)'
      BY <1>1, <1>4, <2>1 DEF Placed
    <2> QED
      BY <1>1, <2>1, <2>2 DEF ToldAt, Telling
  <1>7. CASE opts.lazy
    BY <1>1, <1>7 DEF Told
  <1>8. CASE ~opts.lazy
    <2>1. /\ \A p \in DOMAIN tree : ToldAt(p)
          /\ status = 4 => \E p \in DOMAIN tree : Telling(p)
      BY <1>1, <1>8 DEF Told
    <2>2. status' = 4 => \E p \in DOMAIN tree' : Telling(p)'
      BY <1>1, <1>6, <2>1
    <2>3. \A p \in DOMAIN tree' : ToldAt(p)'
      BY <1>1, <1>6, <2>1
    <2> QED
      BY <1>4, <1>5, <2>2, <2>3 DEF Told
  <1> QED
    BY <1>7, <1>8

LEMMA ToldBegins == ASSUME Inv, Walk, AllChecked PROVE Told'
  <1>1. /\ pc = "check" /\ pc' = "update" /\ status = 0 /\ disk = before
        /\ UNCHANGED <<disk, before, tree, status, vice>>
    BY DEF AllChecked, Walk, Inv, Phases, world
  <1>2. ASSUME NEW p \in DOMAIN tree
        PROVE  ToldAt(p)'
    BY <1>1 DEF ToldAt, Replaced, Cause, IsFile
  <1> QED
    BY <1>1, <1>2 DEF Told, Copying

LEMMA ToldStep == ASSUME Inv, Walk, Told, Next PROVE Told'
  <1>1. CASE LoadEntry \/ Loaded \/ CheckNode \/ Crash \/ Rerun \/ Release
    <2>1. pc' \in {"load", "check", "fatal", "crashed", "idle"}
      BY <1>1 DEF LoadEntry, Loaded, CheckNode, Crash, Rerun, Begin, Release, Fatal
    <2> QED
      BY <2>1 DEF Told, Running
  <1>2. CASE Finish
    <2>1. pc = "update" /\ pc' = "done" /\ UNCHANGED <<tree, disk, before, vice, status, opts>>
      BY <1>2 DEF Finish, world
    <2>2. \A p : /\ Noted(p)' <=> Noted(p)
                 /\ Cause(p)' <=> Cause(p)
                 /\ Replaced(p)' <=> Replaced(p)
                 /\ Walked(p)' <=> Walked(p)
                 /\ IsFile(tree, p)' <=> IsFile(tree, p)
                 /\ MasterData(tree[p], p)' = MasterData(tree[p], p)
      BY <2>1 DEF Noted, Cause, Replaced, Walked, IsFile, MasterData, Stat, Master
    <2>3. \A p : Placed(p) => Placed(p)'
      BY <2>1, <2>2 DEF Placed
    <2>4. \A p : (ToldAt(p) => ToldAt(p)') /\ (Telling(p) => Telling(p)')
      BY <2>1, <2>2, <2>3 DEF ToldAt, Telling
    <2>5. ~opts.lazy => /\ \A p \in DOMAIN tree : ToldAt(p)
                        /\ status = 4 => \E p \in DOMAIN tree : Telling(p)
      BY <2>1 DEF Told, Running
    <2>6. ~opts'.lazy => /\ \A p \in DOMAIN tree' : ToldAt(p)'
                         /\ status' = 4 => \E p \in DOMAIN tree' : Telling(p)'
      BY <2>1, <2>4, <2>5
    <2> QED
      BY <2>1, <2>6 DEF Told, Copying
  <1> QED
    BY <1>1, <1>2, Steps, ToldBegins, ToldVisit, ToldNode

LEMMA ToldStutters == ASSUME Told, UNCHANGED vars PROVE Told'
  <1>1. UNCHANGED <<tree, disk, before, vice, status, opts, pc, cur, ret, after>>
    BY DEF vars
  <1>2. \A p : /\ Noted(p)' <=> Noted(p)
               /\ Cause(p)' <=> Cause(p)
               /\ Replaced(p)' <=> Replaced(p)
               /\ Walked(p)' <=> Walked(p)
               /\ IsFile(tree, p)' <=> IsFile(tree, p)
               /\ IsFile(disk, p)' <=> IsFile(disk, p)
               /\ MasterData(tree[p], p)' = MasterData(tree[p], p)
    BY <1>1 DEF Noted, Cause, Replaced, Walked, IsFile, MasterData, Stat, Master
  <1>3. \A p : Placed(p)' <=> Placed(p)
    BY <1>1, <1>2 DEF Placed
  <1>4. \A p : (ToldAt(p)' <=> ToldAt(p)) /\ (Telling(p)' <=> Telling(p))
    BY <1>1, <1>2, <1>3 DEF ToldAt, Telling
  <1>5. (Cause(cur)' <=> Cause(cur)) /\ (Noted(cur)' <=> Noted(cur)) /\ (IsFile(disk, cur)' <=> IsFile(disk, cur))
    BY <1>1 DEF Noted, Cause, IsFile, MasterData, Stat, Master
  <1> QED
    BY <1>1, <1>4, <1>5 DEF Told

LEMMA ToldAtLast == ASSUME Inv, Told PROVE RebootTold
  <1>1. SUFFICES ASSUME pc = "done", ~opts.lazy
                 PROVE  LET q == {p \in DOMAIN tree : tree[p].type = REG /\ "stat" \in tree[p].flag}
                        IN  /\ (\E p \in q : p \in DOMAIN disk /\ Replaced(p)) => status = 4
                            /\ status = 4 => \E p \in q : Replaced(p) \/ "hash" \in tree[p].flag
    BY DEF RebootTold
  <1>2. \A p \in DOMAIN tree : Noted(p) <=> tree[p].type = REG /\ "stat" \in tree[p].flag
    BY DEF Noted, IsFile
  <1>3. \A p \in DOMAIN tree : ToldAt(p)
    BY <1>1 DEF Told
  <1>4. ASSUME status = 4
        PROVE  \E p \in DOMAIN tree : Noted(p) /\ (Replaced(p) \/ "hash" \in tree[p].flag)
    <2>1. PICK p \in DOMAIN tree : Telling(p)
      BY <1>1, <1>4 DEF Told
    <2>2. ASSUME ~Replaced(p)
          PROVE  "hash" \in tree[p].flag
      <3>1. /\ p \in DOMAIN before /\ p \in DOMAIN disk /\ before[p].type = disk[p].type
            /\ before[p].data = disk[p].data /\ before[p].mtime = disk[p].mtime
        BY <2>2 DEF Replaced
      <3>2. disk[p].type = REG /\ disk[p].data \in MasterData(tree[p], p) /\ disk[p].mtime = tree[p].mtime
        BY <1>1, <2>1, <3>1 DEF Telling, Placed
      <3>3. \A d \in MasterData(tree[p], p) : d = disk[p].data
        BY <3>2 DEF MasterData
      <3> QED
        BY <2>1, <3>1, <3>2, <3>3 DEF Telling, Cause, IsFile
    <2> QED
      BY <2>1, <2>2 DEF Telling
  <1> QED
    BY <1>2, <1>3, <1>4 DEF ToldAt

(* The exit status is 4 when a file with the letter Q was replaced, and    *)
(* only then, or for a hash: updatereg sets it at the rename, long before  *)
(* main exits with it, and no other call takes it back.                    *)
THEOREM RebootCorrect == Spec => []RebootTold
  <1>1. Init => Inv /\ Walk /\ Told
    <2>1. Init => pc = "load"
      BY DEF Init
    <2>2. pc = "load" => Told
      BY DEF Told, Running
    <2> QED
      BY <2>1, <2>2, BeginsGood, WalkBegins
  <1>2. Inv /\ Walk /\ Told /\ [Next]_vars => (Inv /\ Walk /\ Told)'
    BY StepGood, StutterKeeps, WalkStep, WalkStutters, ToldStep, ToldStutters DEF Good
  <1>3. Inv /\ Told => RebootTold
    BY ToldAtLast
  <1> QED
    BY <1>1, <1>2, <1>3, PTL DEF Spec

-----------------------------------------------------------------------------
(* A run in which no call failed.                                          *)

LEMMA DeviceTypes == FIFO \notin {CHR, BLK} /\ {} \notin {CHR, BLK}
  <1>1. 1 \in FIFO /\ 1 \notin CHR /\ 1 \notin BLK /\ 2 \in CHR /\ 2 \in BLK
    BY DEF FIFO, CHR, BLK
  <1> QED
    BY <1>1

LEMMA SmoothNode ==
    ASSUME Inv, AtNode, Smooth'
    PROVE  /\ Smooth /\ ~failed' /\ ~opts.lazy /\ pc \in Running \ {"update"} /\ pc' \in Running
           /\ UNCHANGED <<opts, before, vice, work, cur>> /\ DOMAIN tree' = DOMAIN tree
           /\ \A p \in DOMAIN tree : p # cur => tree'[p] = tree[p]
           /\ \A p \in DOMAIN tree : Walked(p)' <=> Walked(p)
           /\ \A p \in DOMAIN tree : InWork(p)' <=> InWork(p)
  <1>1. /\ pc \in Running \ {"update"} /\ pc' \in Running
        /\ UNCHANGED <<opts, before, vice, work, cur>> /\ SameNodes /\ (failed => failed')
    BY NodeFrame
  <1>2. \A p \in DOMAIN tree : Walked(p)' <=> Walked(p)
    BY NodeSays
  <1>3. \A p \in DOMAIN tree : InWork(p)' <=> InWork(p)
    BY <1>1 DEF InWork
  <1> QED
    BY <1>1, <1>2, <1>3 DEF Smooth, SameNodes

(* The names beside another node than the one that is visited.             *)
LEMMA BesideElsewhere ==
    ASSUME Inv, Walk, AtNode, ~opts.lazy, ~failed', NEW p \in DOMAIN tree, p # cur, p # <<>>,
           NEW s \in {"new", "old"}, Ext(p, s) \in Altered
    PROVE  Ext(p, s) \notin DOMAIN disk' /\ (Walked(p) => InWork(p))
  <1> DEFINE x == Ext(p, s)
  <1>1. /\ p \in Plain /\ p \in Path /\ cur \in Plain /\ cur \in Path /\ TypeOK /\ pc \in Running \ {"update"}
        /\ IsDisk(disk)
    BY CurFacts, TreeFacts, NodeFrame
  <1>2. x \notin Plain /\ Above(x) = Above(p)
    BY <1>1, SuffixFree
  <1>3. ASSUME pc \in FileSteps
        PROVE  x # New /\ x # Old
    <2>1. cur # <<>> /\ s \in Suffix /\ "new" \in Suffix /\ "old" \in Suffix
      BY <1>3, FileFacts DEF Suffix
    <2> QED
      BY <1>1, <2>1, ExtInjective DEF New, Old
  <1>4. pc = "rm" /\ x \notin DOMAIN disk' /\ Victim(x)
    BY <1>1, <1>2, <1>3, Footprint
  <1>5. Under(p, cur)
    BY <1>1, <1>2, <1>4 DEF Victim, Unnamed, Under
  <1> QED
    BY <1>1, <1>4, <1>5 DEF Walk

LEMMA PendingNode == ASSUME Inv, Walk, Pending, AtNode PROVE Pending'
  <1>1. SUFFICES ASSUME Smooth', NEW p \in DOMAIN tree, Walked(p)', InWork(p)'
                 PROVE  Fresh(p)' /\ OldFresh(p)'
    BY SmoothNode DEF Pending
  <1>2. /\ Smooth /\ ~failed' /\ ~opts.lazy /\ pc \in Running \ {"update"} /\ before' = before
        /\ Walked(p) /\ InWork(p)
    BY <1>1, SmoothNode
  <1>3. p # cur /\ Fresh(p) /\ OldFresh(p)
    BY <1>2 DEF Walk, Pending
  <1>4. (p \in DOMAIN disk' <=> p \in DOMAIN disk) /\ (p \in DOMAIN disk => disk'[p] = disk[p])
    BY <1>2, <1>3, ElsewhereKept, Untouched
  <1>5. ASSUME p # <<>>, Ext(p, "old") \in DOMAIN disk'
        PROVE  Ext(p, "old") \in DOMAIN disk /\ disk'[Ext(p, "old")] = disk[Ext(p, "old")]
    BY <1>2, <1>3, <1>5, BesideElsewhere, Untouched
  <1> QED
    BY <1>2, <1>3, <1>4, <1>5 DEF Fresh, OldFresh

(* While a file is copied its new copy is the one thing that is too much.  *)
LEMMA NewWhileCopying ==
    ASSUME Inv, AtNode, ~opts.lazy, ~failed', pc \in FileSteps, New \in DOMAIN disk', New \in Altered \/ pc \in Copying
    PROVE  pc' \in Copying
  <1>1. /\ New # cur /\ Old # New /\ Old \in Path /\ Old # <<>> /\ Old \notin busy /\ TypeOK
    BY FileFacts, CurFacts
  <1>2. AtFile
    BY OtherFrame DEF AtNode
  <1>3. CASE OpenNew
    BY <1>3 DEF OpenNew, Copying
  <1>4. CASE CopyData \/ RemoveOld \/ LinkOld
    BY <1>4 DEF CopyData, RemoveOld, LinkOld, Copying
  <1>5. CASE CopyFails \/ MoveBusyAway \/ CannotReplace
    BY <1>5 DEF CopyFails, MoveBusyAway, CannotReplace, Report
  <1>6. CASE CheckFile
    <2>1. pc = "reg" /\ disk' = disk
      BY <1>6 DEF CheckFile
    <2> QED
      BY <2>1, UnchangedDisk DEF Copying
  <1>7. CASE ReplaceFile
    <2>1. disk' = Renamed(New, cur)
      BY <1>7 DEF ReplaceFile, NewInPlace
    <2>2. New \notin DOMAIN disk'
      BY <1>1, <2>1, AltersRenamed
    <2> QED
      BY <2>2
  <1>8. CASE SetTime
    <2>1. pc = "tim" /\ \E x : disk' = [disk EXCEPT ![cur] = x]
      BY <1>8 DEF SetTime, SetDisk
    <2>2. New \notin Altered
      BY <1>1, <2>1, AltersExcept
    <2> QED
      BY <2>1, <2>2 DEF Copying
  <1> QED
    BY <1>2, <1>3, <1>4, <1>5, <1>6, <1>7, <1>8 DEF AtFile

LEMMA FinishedElsewhere ==
    ASSUME Inv, Walk, AtNode, Smooth', NEW p \in DOMAIN tree, p # cur, Walked(p), ~InWork(p), Finished(p)
    PROVE  Finished(p)'
  <1>1. /\ ~failed' /\ ~opts.lazy /\ UNCHANGED <<opts, before, vice, cur>> /\ DOMAIN tree' = DOMAIN tree /\ tree'[p] = tree[p]
    BY SmoothNode
  <1>2. (p \in DOMAIN disk' <=> p \in DOMAIN disk) /\ (p \in DOMAIN disk => disk'[p] = disk[p])
    BY <1>1, ElsewhereKept, Untouched
  <1>3. Replaced(p)' <=> Replaced(p)
    BY <1>1, <1>2 DEF Replaced
  <1>4. p = <<>> => tree[p].type # REG
    BY TypesDiffer DEF Inv, RootNode, DIR, REG
  <1>5. ASSUME p # <<>>, NEW s \in {"new", "old"}
        PROVE  /\ Ext(p, s) \in DOMAIN disk' <=> Ext(p, s) \in DOMAIN disk
               /\ Ext(p, s) \in DOMAIN disk => disk'[Ext(p, s)] = disk[Ext(p, s)]
    BY <1>1, <1>5, BesideElsewhere, Untouched
  <1>6. OldKept(p)'
    <2>1. OldKept(p)
      BY DEF Finished
    <2> QED
      BY <1>1, <1>3, <1>4, <1>5, <2>1 DEF OldKept, OldSaved, IsFile, Kept
  <1>7. CASE tree[p].type = DIR
    <2>1. DirIs(p) /\ SameAttributes(tree[p], disk[p])
      BY <1>7 DEF Finished
    <2>2. ASSUME NEW q \in Unlisted(p)', "clean" \in tree[p].flag
          PROVE  q \in Spare(p)'
      <3>1. q \in DOMAIN disk' /\ q # <<>> /\ Front(q) = p /\ q \notin DOMAIN tree
        BY <1>1, <2>2 DEF Unlisted, Children
      <3>2. ASSUME pc \in FileSteps
            PROVE  cur # <<>> /\ Front(New) = Front(cur) /\ Front(Old) = Front(cur)
        BY <3>2, FileFacts
      <3>3. CASE \E r \in Children(tree, p) : q = Ext(r, "old")
        BY <1>1, <3>3 DEF Spare, Children
      <3>4. CASE pc \in FileSteps /\ q = Old
        <4>1. cur \in Children(tree, p)
          BY <3>1, <3>2, <3>4, CurFacts DEF Children
        <4> QED
          BY <3>3, <3>4, <4>1 DEF Old
      <3>5. CASE pc \in FileSteps /\ q = New /\ (q \in Altered \/ pc \in Copying)
        <4>1. pc' \in Copying
          BY <1>1, <3>1, <3>5, NewWhileCopying
        <4> QED
          BY <1>1, <3>5, <4>1 DEF Spare, New
      <3>6. CASE q \in Altered
        <4>1. q # cur
          BY <3>1, CurFacts
        <4>2. pc \in FileSteps /\ q \in {New, Old}
          BY <1>1, <3>1, <3>6, <4>1, Footprint
        <4> QED
          BY <3>4, <3>5, <3>6, <4>2
      <3>7. CASE q \notin Altered
        <4>1. q \in Unlisted(p)
          BY <3>1, <3>7, Untouched DEF Unlisted, Children
        <4>2. q \in Spare(p)
          BY <2>1, <2>2, <4>1 DEF DirIs
        <4>3. pc \in Copying => pc \in FileSteps
          BY DEF Copying, FileSteps
        <4> QED
          BY <3>3, <3>5, <4>2, <4>3 DEF Spare
      <3> QED
        BY <3>6, <3>7
    <2>3. DirIs(p)'
      <3>1. "clean" \in tree'[p].flag => \A q \in Unlisted(p)' : q \in Spare(p)'
        BY <1>1, <2>2
      <3> QED
        BY <1>1, <1>2, <1>7, <2>1, <3>1 DEF DirIs
    <2>4. SameAttributes(tree[p], disk[p])'
      BY <1>1, <1>2, <2>1 DEF SameAttributes, DirIs
    <2> QED
      BY <1>1, <1>6, <1>7, <2>3, <2>4 DEF Finished
  <1>8. CASE tree[p].type = REG
    <2>1. FileMatches(tree[p], p)
      BY <1>8, TypesDiffer DEF Finished, Matches
    <2>2. FileMatches(tree[p], p)'
      <3>1. Stat(Master(tree[p], p))' = Stat(Master(tree[p], p))
        BY <1>1 DEF Stat, Master
      <3>2. Ext(p, "new") \in DOMAIN disk' => Ext(p, "new") \in DOMAIN disk
        BY <1>4, <1>5, <1>8
      <3> QED
        BY <1>1, <1>2, <1>3, <2>1, <3>1, <3>2 DEF FileMatches, SameAttributes, IsFile
    <2>3. Matches(tree[p], p)' <=> FileMatches(tree[p], p)'
      BY <1>1, <1>8, TypesDiffer DEF Matches
    <2> QED
      BY <1>1, <1>6, <1>8, <2>2, <2>3, TypesDiffer DEF Finished
  <1>9. CASE tree[p].type \notin {DIR, REG}
    <2>1. Matches(tree[p], p)
      BY <1>9 DEF Finished
    <2>2. Lstat(p)' = Lstat(p)
      BY <1>2 DEF Lstat
    <2>3. Matches(tree[p], p)'
      <3>1. CASE tree[p].type = LNK
        <4>1. LinkMatches(tree[p], p)
          BY <2>1, <3>1, TypesDiffer DEF Matches
        <4>2. LinkMatches(tree[p], p)'
          BY <1>1, <1>2, <4>1 DEF LinkMatches, Target, Master
        <4> QED
          BY <1>1, <3>1, <4>2, TypesDiffer DEF Matches
      <3>2. CASE tree[p].type \in {CHR, BLK}
        <4>1. DeviceMatches(tree[p], p)
          BY <2>1, <3>2, TypesDiffer, DeviceTypes DEF Matches
        <4>2. DeviceMatches(tree[p], p)'
          BY <1>1, <1>2, <4>1 DEF DeviceMatches, Kept, SameAttributes
        <4> QED
          BY <1>1, <3>2, <4>2, TypesDiffer, DeviceTypes DEF Matches
      <3>3. CASE tree[p].type \in {SOCK, FIFO}
        BY <1>1, <1>2, <2>1, <2>2, <3>3, TypesDiffer DEF Matches
      <3>4. CASE tree[p].type \notin {DIR, REG, LNK, CHR, BLK, SOCK, FIFO}
        BY <1>1, <3>4 DEF Matches
      <3> QED
        BY <1>9, <3>1, <3>2, <3>3, <3>4
    <2> QED
      BY <1>1, <1>6, <1>9, <2>3 DEF Finished
  <1> QED
    BY <1>7, <1>8, <1>9

(* The node under way, from one step to the next.                          *)
Onward(p) == Midway(p) /\ (pc = "update" => Finished(p))

LEMMA Here ==
    ASSUME Inv, Walk, Current, AtNode, Smooth', NEW c, c = cur
    PROVE  /\ TypeOK /\ IsDisk(disk) /\ c \in DOMAIN tree /\ c \in Plain /\ c \in Path
           /\ tree[c].type \in Handled \ {DIR} => c # <<>>
           /\ Smooth /\ ~failed' /\ ~opts.lazy /\ UNCHANGED <<opts, before, vice, cur>> /\ DOMAIN tree' = DOMAIN tree
           /\ Midway(c) /\ Walked(c) /\ Complete(c) /\ ret \in {0, -1}
  <1>1. /\ Smooth /\ ~failed' /\ ~opts.lazy /\ UNCHANGED <<opts, before, vice, cur>> /\ DOMAIN tree' = DOMAIN tree
        /\ pc \in Running \ {"update"}
    BY SmoothNode
  <1>2. Midway(c) /\ Walked(c)
    BY <1>1 DEF Current, Walk
  <1>3. Complete(c)
    BY <1>1, <1>2, CurFacts DEF Walk
  <1> QED
    BY <1>1, <1>2, <1>3, CurFacts

(* The directory of the node was visited before it.                        *)
LEMMA ParentThere ==
    ASSUME Inv, Walk, Visits, Smooth, pc \in Running \ {"update"}, cur # <<>>
    PROVE  Front(cur) \in DOMAIN disk /\ disk[Front(cur)].type = DIR
  <1> DEFINE f == Front(cur)
  <1>1. cur \in DOMAIN tree /\ cur \in Path /\ IsTree(tree) /\ work \in Seq(DOMAIN tree)
    BY CurFacts DEF TypeOK
  <1>2. f \in Above(cur) /\ cur \notin Above(cur) /\ Above(f) \subseteq Above(cur)
    BY <1>1, PathOrder
  <1>3. f \in DOMAIN tree /\ f # cur
    BY <1>1, <1>2, TreeFacts
  <1>4. Walked(cur) /\ ~InWork(cur)
    BY DEF Walk
  <1>5. Walked(f) /\ tree[f].type = DIR
    BY <1>2, <1>4 DEF Walked
  <1>6. ~InWork(f)
    BY <1>2, <1>4 DEF InWork, Under
  <1>7. Finished(f)
    BY <1>3, <1>5, <1>6 DEF Visits
  <1> QED
    BY <1>5, <1>7 DEF Finished, DirIs

LEMMA Room ==
    ASSUME Inv, Walk, Visits, Smooth, pc \in Running \ {"update"}, NEW p, p \notin DOMAIN disk,
           p = cur \/ (p \in {New, Old} /\ pc \in FileSteps)
    PROVE  HasRoom(p)
  <1>1. <<>> \in DOMAIN disk
    BY CurFacts DEF IsDisk
  <1>2. cur # <<>> /\ Front(p) = Front(cur)
    BY <1>1, FileFacts
  <1> QED
    BY <1>2, ParentThere DEF HasRoom, Lstat

LEMMA GoneUnlessReadOnly ==
    ASSUME TypeOK, ~opts.lazy, NEW p \in Path, p # <<>>, RemoveUnlessReadOnly(p), p \in DOMAIN disk => disk[p].type # DIR,
           p \in DOMAIN disk'
    PROVE  p \in DOMAIN disk /\ disk'[p] = disk[p] /\ opts.kflag /\ ReadOnly(disk[p])
  <1>1. IsDisk(disk)
    BY DEF TypeOK
  <1>2. CASE p \in DOMAIN disk /\ ~(opts.kflag /\ ReadOnly(disk[p]))
    <2>1. disk' = Removed(p) /\ Below(disk, p) = {}
      BY <1>1, <1>2, DiskFacts DEF RemoveUnlessReadOnly, SetDisk
    <2> QED
      BY <2>1, RemovedFacts
  <1>3. CASE ~(p \in DOMAIN disk /\ ~(opts.kflag /\ ReadOnly(disk[p])))
    BY <1>3 DEF RemoveUnlessReadOnly, SetDisk
  <1> QED
    BY <1>2, <1>3

(* rm.                                                                     *)
LEMMA OnRemove ==
    ASSUME Inv, Walk, Current, RemoveNext, Smooth', NEW c, c = cur
    PROVE  Onward(c)'
  <1>1. /\ AtNode /\ pc = "rm" /\ UNCHANGED <<tree, ret, after>>
    BY DEF AtNode, AtOther, RemoveNext
  <1>2. /\ TypeOK /\ c \in DOMAIN tree /\ ~failed' /\ ~opts.lazy /\ UNCHANGED <<opts, before, vice, cur>>
        /\ Midway(c) /\ ret \in {0, -1}
    BY <1>1, Here
  <1>3. /\ Cleared(c)
        /\ tree[c].type = REG => OldFresh(c) /\ (ret = -1 => ~IsFile(before, c))
    BY <1>1, <1>2 DEF Midway
  <1>4. \A p \in DOMAIN disk' : p \in DOMAIN disk /\ disk'[p] = disk[p]
    BY <1>2, RemoveDoes, Untouched
  <1>5. OldFresh(c) => OldFresh(c)'
    BY <1>2, <1>4 DEF OldFresh
  <1>6. Gone(c) => Gone(c)'
    BY <1>4 DEF Gone
  <1>7. tree[c].type = REG => OldFresh(c)' /\ (ret = -1 => ~IsFile(before, c)')
    BY <1>2, <1>3, <1>5 DEF IsFile
  <1>8. CASE victims # {}
    <2>1. PICK v \in victims : pc' = "rm" /\ victims' = victims \ {v} /\ v \notin DOMAIN disk'
      BY <1>2, <1>8, RemoveDoes
    <2>2. CASE ret = 0
      <3>1. Unlisted(c)' \subseteq Unlisted(c)
        BY <1>1, <1>4 DEF Unlisted, Children
      <3>2. Unlisted(c)' \subseteq DOMAIN disk'
        BY DEF Unlisted, Children
      <3>3. Cleared(c)'
        BY <1>1, <1>3, <2>1, <2>2, <3>1, <3>2 DEF Cleared
      <3> QED
        BY <1>1, <1>7, <2>1, <3>3 DEF Onward, Midway
    <2>3. CASE ret = -1
      <3>1. Cleared(c)'
        BY <1>1, <1>3, <1>6, <2>1, <2>3 DEF Cleared, Gone
      <3> QED
        BY <1>1, <1>7, <2>1, <3>1 DEF Onward, Midway
    <2> QED
      BY <1>2, <2>2, <2>3
  <1>9. CASE victims = {}
    <2>1. pc' = after /\ disk' = disk
      BY <1>2, <1>9, RemoveDoes
    <2>2. CASE ret = 0
      <3>1. after = "mod" /\ tree[c].type = DIR /\ Unlisted(c) = {}
        BY <1>1, <1>3, <1>9, <2>2 DEF Cleared, Inv, Stages, Clearing, Cleaning
      <3>2. c \in DOMAIN disk /\ disk[c].type = DIR
        BY <1>1, <1>2, <2>2, <3>1 DEF Inv, Present, Wanted
      <3>3. DirIs(c)'
        BY <1>1, <2>1, <3>1, <3>2 DEF DirIs, Unlisted, Children
      <3>4. Made(c)'
        BY <1>1, <3>1, <3>3, TypesDiffer DEF Made, OldKept, IsFile
      <3> QED
        BY <2>1, <3>1, <3>4 DEF Onward, Midway, FileSteps
    <2>3. CASE ret = -1
      <3>1. after = Routine(tree[c].type) /\ Gone(c) /\ tree[c].type \in Handled
        BY <1>1, <1>3, <1>9, <2>3 DEF Cleared, Inv, Stages
      <3>2. Ready(c)'
        BY <1>1, <1>6, <2>3, <3>1 DEF Ready
      <3>3. pc' \in {"spec", "link", "mkdir", "reg", "update"}
        BY <2>1, <3>1, RoutineFacts
      <3>4. ASSUME pc' = "update"
            PROVE  Finished(c)'
        <4>1. tree[c].type \in {SOCK, FIFO}
          BY <2>1, <3>1, <3>4 DEF Routine, Handled
        <4>2. Matches(tree[c], c)'
          BY <1>1, <1>6, <3>1, <4>1, TypesDiffer, DeviceTypes DEF Matches, Gone
        <4> QED
          BY <1>1, <4>1, <4>2, TypesDiffer DEF Finished, OldKept, IsFile
      <3> QED
        BY <1>1, <1>7, <3>2, <3>3, <3>4 DEF Onward, Midway, FileSteps
    <2> QED
      BY <1>2, <2>2, <2>3
  <1> QED
    BY <1>8, <1>9

(* updatespec.                                                             *)
LEMMA OnDevice ==
    ASSUME Inv, Walk, Current, Visits, CheckDevice \/ MakeDevice, Smooth', NEW c, c = cur
    PROVE  Onward(c)'
  <1>1. /\ AtNode /\ tree' = tree /\ tree[c].type \in {CHR, BLK} /\ pc \in Running \ {"update"}
    BY DEF AtNode, AtOther, CheckDevice, MakeDevice, Inv, Stages, Running
  <1>2. /\ TypeOK /\ IsDisk(disk) /\ c \in Path /\ c # <<>> /\ Smooth /\ ~opts.lazy /\ UNCHANGED <<opts, before, vice, cur>>
        /\ Midway(c) /\ ret \in {0, -1}
    BY <1>1, Here, TypesDiffer DEF Handled
  <1>3. tree[c].type \notin {DIR, REG, LNK, SOCK, FIFO} /\ OldKept(c)'
    BY <1>1, TypesDiffer, DeviceTypes DEF OldKept, IsFile
  <1>4. ASSUME DeviceIs(c)', pc' = "mod"
        PROVE  Onward(c)'
    BY <1>1, <1>3, <1>4 DEF Onward, Midway, Made
  <1>5. CASE CheckDevice /\ "rdev" \in tree[c].flag /\ ((ret = 0 /\ tree[c].rdev # disk[c].data) \/ ret < 0)
    <2>1. pc = "spec" /\ pc' = "mknod"
      BY <1>5 DEF CheckDevice
    <2>2. Ready(c)
      BY <1>2, <2>1 DEF Midway
    <2>3. CASE ret = 0
      <3>1. RemoveUnlessReadOnly(c) /\ c \in DOMAIN disk /\ disk[c].type # DIR /\ disk[c].type = tree[c].type /\ Fresh(c)
        BY <1>1, <1>5, <2>2, <2>3, TypesDiffer DEF CheckDevice, Ready
      <3>2. c \in DOMAIN disk' => disk'[c] = disk[c] /\ opts.kflag /\ ReadOnly(disk[c])
        BY <1>2, <3>1, GoneUnlessReadOnly
      <3>3. Gone(c)' \/ (Kept(c)' /\ disk'[c].type = tree'[c].type)
        BY <1>1, <1>2, <3>1, <3>2 DEF Gone, Kept, Fresh
      <3> QED
        BY <2>1, <3>3 DEF Onward, Midway, FileSteps
    <2>4. CASE ret = -1
      <3>1. disk' = disk /\ Gone(c)
        BY <1>5, <2>2, <2>4 DEF CheckDevice, Ready
      <3> QED
        BY <2>1, <3>1 DEF Onward, Midway, FileSteps, Gone
    <2> QED
      BY <1>2, <2>3, <2>4
  <1>6. CASE CheckDevice /\ ~("rdev" \in tree[c].flag /\ ((ret = 0 /\ tree[c].rdev # disk[c].data) \/ ret < 0))
    <2>1. pc = "spec" /\ pc' = (IF ret = 0 THEN "mod" ELSE "update") /\ disk' = disk
      BY <1>6 DEF CheckDevice
    <2>2. Ready(c)
      BY <1>2, <2>1 DEF Midway
    <2>3. CASE ret = 0
      <3>1. DeviceIs(c)'
        BY <1>1, <1>2, <1>6, <2>1, <2>2, <2>3 DEF DeviceIs, Ready
      <3> QED
        BY <1>4, <2>1, <2>3, <3>1
    <2>4. CASE ret = -1
      <3>1. DeviceMatches(tree[c], c)'
        BY <1>1, <1>6, <2>1, <2>2, <2>4 DEF DeviceMatches, Ready, Gone
      <3>2. Matches(tree[c], c)'
        BY <1>1, <1>3, <3>1 DEF Matches
      <3> QED
        BY <1>1, <1>3, <2>1, <2>4, <3>2 DEF Onward, Midway, Finished, FileSteps
    <2> QED
      BY <1>2, <2>3, <2>4
  <1>7. CASE MakeDevice
    <2>1. /\ pc = "mknod" /\ ret' = (IF c \in DOMAIN disk' THEN 0 ELSE -1) /\ pc' = IF ret' = 0 THEN "mod" ELSE "update"
          /\ disk' = IF HasRoom(c) THEN With(disk, c, Inode(tree[c].type, tree[c].mode, 0, 0, tree[c].rdev)) ELSE disk
      BY <1>2, <1>7 DEF MakeDevice, SetDisk
    <2>2. Gone(c) \/ (Kept(c) /\ disk[c].type = tree[c].type)
      BY <1>2, <2>1 DEF Midway
    <2>3. CASE Gone(c)
      <3>1. HasRoom(c)
        BY <1>1, <1>2, <2>3, Room DEF Gone
      <3>2. c \in DOMAIN disk' /\ disk'[c] = Inode(tree[c].type, tree[c].mode, 0, 0, tree[c].rdev)
        BY <2>1, <3>1, AltersWith
      <3>3. disk'[c].type = tree[c].type /\ disk'[c].data = tree[c].rdev
        BY <3>2 DEF Inode
      <3> QED
        BY <1>1, <1>4, <2>1, <3>2, <3>3 DEF DeviceIs
    <2>4. CASE ~Gone(c)
      <3>1. c \in DOMAIN disk' /\ Kept(c)' /\ disk'[c].type = tree'[c].type
        BY <1>1, <1>2, <2>1, <2>2, <2>4 DEF Gone, HasRoom, Kept
      <3> QED
        BY <1>4, <2>1, <3>1 DEF DeviceIs
    <2> QED
      BY <2>3, <2>4
  <1> QED
    BY <1>5, <1>6, <1>7

(* updatelink.                                                             *)
LEMMA OnLink ==
    ASSUME Inv, Walk, Current, Visits, CheckLink \/ MakeLink, Smooth', NEW c, c = cur
    PROVE  Onward(c)'
  <1>1. /\ AtNode /\ tree' = tree /\ tree[c].type = LNK /\ pc \in Running \ {"update"} /\ pc' \in {"update", "symlink"}
    BY DEF AtNode, AtOther, CheckLink, MakeLink, Inv, Stages, Running
  <1>2. /\ TypeOK /\ IsDisk(disk) /\ c \in Path /\ c # <<>> /\ Smooth /\ ~opts.lazy /\ UNCHANGED <<opts, before, vice, cur>>
        /\ Midway(c) /\ ret \in {0, -1}
    BY <1>1, Here, TypesDiffer DEF Handled
  <1>3. ASSUME LinkMatches(tree[c], c)', pc' = "update"
        PROVE  Onward(c)'
    <2>1. Matches(tree[c], c)'
      BY <1>1, <1>3, TypesDiffer DEF Matches
    <2>2. OldKept(c)'
      BY <1>1, TypesDiffer DEF OldKept, IsFile
    <2> QED
      BY <1>1, <1>3, <2>1, <2>2, TypesDiffer DEF Onward, Midway, Finished, FileSteps
  <1>4. CASE CheckLink /\ pc' = "update"
    <2>1. /\ pc = "link" /\ disk' = disk
          /\ "proto" \notin tree[c].flag \/ (ret = 0 /\ ("init" \in tree[c].flag \/ disk[c].link = Target(tree[c], c)))
      BY <1>4 DEF CheckLink
    <2>2. Ready(c)
      BY <1>2, <2>1 DEF Midway
    <2>3. LinkMatches(tree[c], c)'
      BY <1>1, <1>2, <2>1, <2>2 DEF LinkMatches, Ready, Gone, Target, Master
    <2> QED
      BY <1>3, <1>4, <2>3
  <1>5. CASE CheckLink /\ pc' = "symlink"
    <2>1. pc = "link" /\ IF ret = 0 THEN RemoveUnlessReadOnly(c) ELSE disk' = disk
      BY <1>5 DEF CheckLink
    <2>2. Ready(c)
      BY <1>2, <2>1 DEF Midway
    <2>3. c \in DOMAIN disk /\ disk[c].type = LNK => disk[c].type # DIR /\ ~ReadOnly(disk[c])
      BY <1>2, DiskFacts, TypesDiffer DEF Fits
    <2>4. Gone(c)'
      BY <1>1, <1>2, <2>1, <2>2, <2>3, GoneUnlessReadOnly DEF Gone, Ready
    <2> QED
      BY <1>5, <2>4 DEF Onward, Midway, FileSteps
  <1>6. CASE MakeLink
    <2>1. /\ pc = "symlink" /\ pc' = "update"
          /\ disk' = IF HasRoom(c) THEN With(disk, c, Link(Target(tree[c], c))) ELSE disk
      BY <1>2, <1>6 DEF MakeLink, SetDisk
    <2>2. Gone(c)
      BY <1>2, <2>1 DEF Midway
    <2>3. HasRoom(c)
      BY <1>1, <1>2, <2>2, Room DEF Gone
    <2>4. c \in DOMAIN disk' /\ disk'[c] = Link(Target(tree[c], c))
      BY <2>1, <2>3, AltersWith
    <2>5. disk'[c].type = LNK /\ disk'[c].link = Target(tree[c], c)
      BY <2>4 DEF Link, Inode
    <2>6. LinkMatches(tree[c], c)'
      BY <1>1, <1>2, <2>4, <2>5 DEF LinkMatches, Lstat, Target, Master
    <2> QED
      BY <1>3, <2>1, <2>6
  <1> QED
    BY <1>1, <1>4, <1>5, <1>6

(* updatedir and fixdir.                                                   *)
LEMMA OnDirectory ==
    ASSUME Inv, Walk, Current, Visits, MakeDirectory \/ CleanDirectory, Smooth', NEW c, c = cur
    PROVE  Onward(c)'
  <1>1. /\ AtNode /\ tree' = tree /\ tree[c].type = DIR /\ pc \in Running \ {"update"}
    BY DEF AtNode, AtOther, MakeDirectory, CleanDirectory, Inv, Stages, Running
  <1>2. /\ TypeOK /\ IsDisk(disk) /\ c \in Path /\ Smooth /\ ~opts.lazy /\ UNCHANGED <<opts, before, vice, cur>>
        /\ Midway(c) /\ ret \in {0, -1} /\ Complete(c)
    BY <1>1, Here
  <1>3. tree[c].type # REG
    BY <1>1, TypesDiffer
  <1>4. CASE MakeDirectory
    <2>1. /\ pc = "mkdir" /\ pc' = "clean"
          /\ IF ret = 0 THEN UNCHANGED <<disk, ret>>
             ELSE /\ disk' = IF HasRoom(c) THEN With(disk, c, Inode(DIR, tree[c].mode, 0, 0, 0)) ELSE disk
                  /\ ret' = IF c \in DOMAIN disk' THEN 0 ELSE -1
      BY <1>2, <1>4 DEF MakeDirectory, SetDisk
    <2>2. Ready(c)
      BY <1>2, <2>1 DEF Midway
    <2>3. ret' = 0 /\ c \in DOMAIN disk' /\ disk'[c].type = DIR
      <3>1. CASE ret = 0
        BY <1>1, <2>1, <2>2, <3>1 DEF Ready
      <3>2. CASE ret = -1
        <4>1. HasRoom(c)
          BY <1>1, <1>2, <2>2, <3>2, Room DEF Ready, Gone
        <4>2. disk' = With(disk, c, Inode(DIR, tree[c].mode, 0, 0, 0))
          BY <2>1, <3>2, <4>1
        <4>3. c \in DOMAIN disk' /\ disk'[c] = Inode(DIR, tree[c].mode, 0, 0, 0)
          BY <4>2, AltersWith
        <4> QED
          BY <2>1, <3>2, <4>3 DEF Inode
      <3> QED
        BY <1>2, <3>1, <3>2
    <2> QED
      BY <2>1, <2>3 DEF Onward, Midway, FileSteps
  <1>5. CASE CleanDirectory
    <2>1. /\ pc = "clean" /\ UNCHANGED <<disk, ret>>
          /\ after' = (IF ret = 0 THEN "mod" ELSE "update")
          /\ IF "clean" \in tree[c].flag /\ "type" \in tree[c].flag
             THEN pc' = "rm" /\ victims' = UNION {{q} \cup Below(disk, q) : q \in Unlisted(c)}
             ELSE pc' = after'
      BY <1>5 DEF CleanDirectory, NoInhibit
    <2>2. ret = 0 /\ c \in DOMAIN disk /\ disk[c].type = DIR
      BY <1>2, <2>1 DEF Midway
    <2>3. Unlisted(c)' = Unlisted(c)
      BY <1>1, <2>1 DEF Unlisted, Children
    <2>4. CASE pc' = "rm"
      <3>1. Unlisted(c) \subseteq victims'
        BY <2>1, <2>2, <2>4
      <3>2. Cleared(c)'
        BY <1>1, <2>1, <2>2, <2>3, <3>1 DEF Cleared
      <3> QED
        BY <1>1, <1>3, <2>4, <3>2 DEF Onward, Midway
    <2>5. CASE pc' # "rm"
      <3>1. pc' = "mod" /\ "clean" \notin tree[c].flag
        BY <1>2, <2>1, <2>2, <2>5 DEF Complete
      <3>2. Made(c)'
        BY <1>1, <1>3, <2>1, <2>2, <3>1, TypesDiffer DEF Made, DirIs, OldKept, IsFile
      <3> QED
        BY <3>1, <3>2 DEF Onward, Midway, FileSteps
    <2> QED
      BY <2>4, <2>5
  <1> QED
    BY <1>4, <1>5

(* dochtim, dochmod and dochown change one attribute.                      *)
LEMMA Attribute ==
    ASSUME IsDisk(disk), ~opts.lazy, SetMode \/ SetOwner, NEW c, c = cur
    PROVE  /\ DOMAIN disk' = DOMAIN disk
           /\ \A p \in DOMAIN disk : p # c => disk'[p] = disk[p]
           /\ c \in DOMAIN disk => /\ disk'[c].type = disk[c].type /\ disk'[c].data = disk[c].data
                                   /\ disk'[c].mtime = disk[c].mtime
                                   /\ SetMode /\ "mode" \in tree[c].flag => disk'[c].mode = tree[c].mode
                                   /\ SetOwner => disk'[c].mode = disk[c].mode
                                   /\ SetOwner /\ "uid" \in tree[c].flag => disk'[c].uid = tree[c].uid
  <1>1. c \in DOMAIN disk => DOMAIN disk[c] = DOMAIN NoInode
    BY DiskFacts DEF Fits
  <1>2. CASE SetMode
    <2>1. /\ pc = "mod"
          /\ disk' = IF "mode" \in tree[c].flag THEN [disk EXCEPT ![c] = [disk[c] EXCEPT !.mode = tree[c].mode]] ELSE disk
      BY <1>2 DEF SetMode, SetDisk
    <2>2. ~SetOwner
      BY <2>1 DEF SetOwner
    <2> QED
      BY <1>1, <2>1, <2>2, NodeFields
  <1>3. CASE SetOwner
    <2>1. /\ pc = "own"
          /\ disk' = IF "uid" \in tree[c].flag THEN [disk EXCEPT ![c] = [disk[c] EXCEPT !.uid = tree[c].uid]] ELSE disk
      BY <1>3 DEF SetOwner, SetDisk
    <2>2. ~SetMode
      BY <2>1 DEF SetMode
    <2> QED
      BY <1>1, <2>1, <2>2, NodeFields
  <1> QED
    BY <1>2, <1>3

LEMMA MadeStays ==
    ASSUME UNCHANGED <<opts, before, vice, tree>>, pc \notin Copying, pc' \notin Copying, NEW c \in Path,
           DOMAIN disk' = DOMAIN disk, \A p \in DOMAIN disk : p # c => disk'[p] = disk[p],
           c \in DOMAIN disk => disk'[c].type = disk[c].type /\ disk'[c].data = disk[c].data /\ disk'[c].mtime = disk[c].mtime,
           tree[c].type = REG => Ext(c, "old") # c, Made(c)
    PROVE  Made(c)'
  <1>1. Replaced(c)' <=> Replaced(c)
    BY DEF Replaced
  <1>2. OldKept(c)'
    BY <1>1 DEF Made, OldKept, OldSaved, IsFile, Kept
  <1>3. tree[c].type = DIR => DirIs(c)'
    BY DEF Made, DirIs, Unlisted, Children, Spare
  <1>4. tree[c].type = REG => FileIs(c)'
    <2>1. Stat(Master(tree[c], c))' = Stat(Master(tree[c], c))
      BY DEF Stat, Master
    <2> QED
      BY <1>1, <2>1 DEF Made, FileIs, IsFile
  <1>5. tree[c].type \in {CHR, BLK} => DeviceIs(c)'
    BY DEF Made, DeviceIs, Kept
  <1> QED
    BY <1>2, <1>3, <1>4, <1>5 DEF Made

LEMMA OnAttribute ==
    ASSUME Inv, Walk, Current, SetMode \/ SetOwner, Smooth', NEW c, c = cur
    PROVE  Onward(c)'
  <1>1. /\ AtNode /\ tree' = tree /\ tree[c].type \in {CHR, BLK, DIR, REG} /\ pc \in {"mod", "own"} /\ pc' \in {"own", "update"}
    BY DEF AtNode, AtOther, SetMode, SetOwner, Inv, Stages
  <1>2. /\ TypeOK /\ IsDisk(disk) /\ c \in Path /\ Smooth /\ ~opts.lazy /\ UNCHANGED <<opts, before, vice, cur>>
        /\ Midway(c) /\ (tree[c].type = REG => c # <<>>)
    BY <1>1, Here, TypesDiffer DEF Handled
  <1>3. tree[c].type = REG => Ext(c, "old") # c
    <2>1. c \in Plain
      BY <1>1, Here
    <2> QED
      BY <1>2, <2>1, SuffixFree
  <1>4. Made(c)
    BY <1>1, <1>2 DEF Midway
  <1>5. c \in DOMAIN disk
    BY <1>1, <1>4 DEF Made, DirIs, FileIs, DeviceIs
  <1>6. /\ DOMAIN disk' = DOMAIN disk
        /\ \A p \in DOMAIN disk : p # c => disk'[p] = disk[p]
        /\ disk'[c].type = disk[c].type /\ disk'[c].data = disk[c].data
        /\ disk'[c].mtime = disk[c].mtime
        /\ SetMode /\ "mode" \in tree[c].flag => disk'[c].mode = tree[c].mode
        /\ SetOwner => disk'[c].mode = disk[c].mode
        /\ SetOwner /\ "uid" \in tree[c].flag => disk'[c].uid = tree[c].uid
    BY <1>2, <1>5, Attribute
  <1>7. Made(c)'
    <2>1. pc \notin Copying /\ pc' \notin Copying
      BY <1>1 DEF Copying
    <2> QED
      BY <1>1, <1>2, <1>3, <1>4, <1>6, <2>1, MadeStays
  <1>8. CASE SetMode
    <2>1. pc' = "own"
      BY <1>8 DEF SetMode
    <2>2. ("mode" \in tree[c].flag => disk[c].mode = tree[c].mode)'
      BY <1>1, <1>6, <1>8
    <2> QED
      BY <1>7, <2>1, <2>2 DEF Onward, Midway, FileSteps
  <1>9. CASE SetOwner
    <2>1. pc = "own" /\ pc' = "update"
      BY <1>9 DEF SetOwner
    <2>2. "mode" \in tree[c].flag => disk[c].mode = tree[c].mode
      BY <1>2, <2>1 DEF Midway
    <2>3. SameAttributes(tree[c], disk[c])'
      BY <1>1, <1>6, <1>9, <2>2 DEF SameAttributes
    <2>4. CASE tree[c].type = DIR
      BY <1>1, <1>7, <2>1, <2>3, <2>4 DEF Made, Finished, Onward, Midway, FileSteps
    <2>5. CASE tree[c].type = REG
      <3>1. FileIs(c)' /\ OldKept(c)'
        BY <1>1, <1>7, <2>5 DEF Made
      <3>2. FileMatches(tree[c], c)'
        BY <2>3, <3>1 DEF FileIs, FileMatches
      <3>3. Matches(tree[c], c)'
        BY <1>1, <2>5, <3>2, TypesDiffer DEF Matches
      <3> QED
        BY <1>1, <2>1, <2>5, <3>1, <3>3, TypesDiffer DEF Finished, Onward, Midway, FileSteps
    <2>6. CASE tree[c].type \in {CHR, BLK}
      <3>1. DeviceIs(c)' /\ OldKept(c)'
        BY <1>1, <1>7, <2>6 DEF Made
      <3>2. DeviceMatches(tree[c], c)'
        BY <1>1, <2>3, <3>1 DEF DeviceIs, DeviceMatches, Lstat
      <3>3. Matches(tree[c], c)'
        BY <1>1, <2>6, <3>2, TypesDiffer, DeviceTypes DEF Matches
      <3> QED
        BY <1>1, <2>1, <2>6, <3>1, <3>3, TypesDiffer DEF Finished, Onward, Midway, FileSteps
    <2> QED
      BY <1>1, <2>4, <2>5, <2>6
  <1> QED
    BY <1>8, <1>9

(* updatereg: the file is compared with its master.                        *)
LEMMA OnFile ==
    ASSUME Inv, Walk, Current, CheckFile, Smooth', NEW c, c = cur
    PROVE  Onward(c)'
  <1> DEFINE copy == "proto" \in tree[c].flag /\ (ret < 0 \/ ("init" \notin tree[c].flag /\ Outdated(tree[c], disk[c])))
             stb == Stat(Master(tree[c], c))
  <1>1. /\ AtNode /\ AtFile /\ pc = "reg" /\ pc \in FileSteps /\ tree[c].type = REG /\ UNCHANGED <<disk, ret>>
        /\ pc' = IF copy THEN "cp" ELSE IF ret = 0 THEN "mod" ELSE "update"
    BY DEF AtNode, AtFile, CheckFile, Inv, Stages, FileSteps
  <1>2. /\ TypeOK /\ c \in DOMAIN tree /\ c \in Path /\ ~opts.lazy /\ UNCHANGED <<opts, before, vice, cur>>
        /\ Midway(c) /\ ret \in {0, -1} /\ Complete(c)
    BY <1>1, Here
  <1>3. /\ Ready(c) /\ OldFresh(c) /\ (ret = -1 => ~IsFile(before, c))
    BY <1>1, <1>2 DEF Midway
  <1>4. /\ SameNodes /\ tree'[c].type = REG
        /\ tree' = tree \/ pc' = "cp"
    BY <1>1, <1>2, FileFrame DEF SameNodes
  <1>5. (Fresh(c)' <=> Fresh(c)) /\ (OldFresh(c)' <=> OldFresh(c)) /\ (Gone(c)' <=> Gone(c))
    BY <1>1, <1>2 DEF Fresh, OldFresh, Gone
  <1>6. CASE copy
    <2>1. pc' = "cp"
      BY <1>1, <1>6
    <2>2. Ready(c)'
      BY <1>1, <1>3, <1>4, <1>5 DEF Ready
    <2>3. OldFresh(c)' /\ (ret' = -1 => ~IsFile(before, c)')
      BY <1>1, <1>2, <1>3, <1>5 DEF IsFile
    <2> QED
      BY <2>1, <2>2, <2>3 DEF Onward, Midway, FileSteps
  <1>7. CASE ~copy /\ ret = 0
    <2>1. pc' = "mod" /\ tree' = tree
      BY <1>1, <1>4, <1>7
    <2>2. Fresh(c) /\ c \in DOMAIN disk /\ disk[c].type = REG /\ ~Replaced(c)
      BY <1>1, <1>3, <1>7 DEF Ready, Fresh, Replaced
    <2>3. ~Replaced(c)'
      BY <1>1, <1>2, <2>2 DEF Replaced
    <2>4. ASSUME "proto" \in tree[c].flag, ~("init" \in tree[c].flag /\ IsFile(before, c))
          PROVE  disk[c].mtime = stb.mtime /\ Size[disk[c].data] = Size[stb.data] /\ ("hash" \in tree[c].flag => disk[c].data = tree[c].hash)
      <3>1. ~Outdated(tree[c], disk[c])
        BY <1>7, <2>2, <2>4 DEF Fresh, IsFile
      <3>2. tree[c].size = Size[stb.data] /\ tree[c].mtime = stb.mtime
        BY <1>1, <1>2, <2>4 DEF Complete
      <3> QED
        BY <3>1, <3>2 DEF Outdated
    <2>5. FileIs(c)'
      <3>1. stb' = stb
        BY <1>2, <2>1 DEF Stat, Master
      <3> HIDE DEF stb
      <3>2. /\ c \in DOMAIN disk' /\ disk'[c].type = REG
            /\ "proto" \in tree'[c].flag /\ ~("init" \in tree'[c].flag /\ IsFile(before, c)') =>
                  /\ disk'[c].mtime = stb'.mtime
                  /\ ~Replaced(c)' /\ Size'[disk'[c].data] = Size'[stb'.data]
                  /\ ("hash" \in tree'[c].flag => disk'[c].data = tree'[c].hash)
        BY <1>1, <1>2, <2>1, <2>2, <2>3, <2>4, <3>1 DEF IsFile
      <3> QED
        BY <2>3, <3>2 DEF FileIs, stb
    <2>6. Made(c)'
      BY <1>4, <2>3, <2>5, TypesDiffer DEF Made, OldKept
    <2> QED
      BY <2>1, <2>6 DEF Onward, Midway, FileSteps
  <1>8. CASE ~copy /\ ret = -1
    <2>1. pc' = "update" /\ tree' = tree
      BY <1>1, <1>4, <1>8
    <2>2. "proto" \notin tree'[c].flag /\ c \notin DOMAIN disk' /\ ~IsFile(before, c)'
      BY <1>1, <1>2, <1>3, <1>8, <2>1 DEF Ready, Gone, IsFile
    <2>3. FileMatches(tree[c], c)'
      BY <2>2 DEF FileMatches
    <2>4. Matches(tree[c], c)'
      BY <1>4, <2>3, TypesDiffer DEF Matches
    <2>5. OldKept(c)'
      BY <2>2 DEF OldKept, OldSaved
    <2> QED
      BY <1>4, <2>1, <2>4, <2>5, TypesDiffer DEF Finished, Onward, Midway, FileSteps
  <1> QED
    BY <1>2, <1>6, <1>7, <1>8

(* cp, and the copy with the suffix .old.                                  *)
LEMMA OnCopy ==
    ASSUME Inv, Walk, Current, Visits, OpenNew \/ CopyData \/ RemoveOld \/ LinkOld, Smooth', NEW c, c = cur
    PROVE  Onward(c)'
  <1> DEFINE o == Ext(c, "old")
  <1>1. /\ AtNode /\ AtFile /\ pc \in FileSteps /\ tree[c].type = REG /\ tree' = tree /\ ret' = ret /\ pc \in Running \ {"update"}
    BY DEF AtNode, AtFile, OpenNew, CopyData, RemoveOld, LinkOld, Inv, Stages, FileSteps, Running
  <1>2. /\ TypeOK /\ c \in DOMAIN tree /\ c \in Path /\ c \in Plain /\ ~failed' /\ ~opts.lazy /\ UNCHANGED <<opts, before, vice, cur>>
        /\ Midway(c) /\ ret \in {0, -1} /\ Smooth
    BY <1>1, Here
  <1>3. /\ New # c /\ o # c /\ New # o /\ o \in Path /\ o # <<>> /\ o = Old /\ o \notin busy
        /\ o \in DOMAIN disk => disk[o].type # DIR
    <2>1. Old = o
      BY <1>2 DEF Old
    <2> QED
      BY <1>1, <1>2, <2>1, FileFacts, TypesDiffer
  <1> HIDE DEF o
  <1>4. ASSUME c \notin Altered
        PROVE  /\ c \in DOMAIN disk' <=> c \in DOMAIN disk
               /\ c \in DOMAIN disk => disk'[c] = disk[c]
               /\ Ready(c) => Ready(c)'
               /\ ret = -1 /\ ~IsFile(before, c) /\ ret' = -1 => ~IsFile(before, c)'
    <2>1. (c \in DOMAIN disk' <=> c \in DOMAIN disk) /\ (c \in DOMAIN disk => disk'[c] = disk[c])
      BY <1>4, Untouched
    <2>2. Ready(c) => Ready(c)'
      BY <1>1, <1>2, <2>1 DEF Ready, Fresh, Gone
    <2> QED
      BY <1>2, <2>1, <2>2 DEF IsFile
  <1>5. ASSUME o \notin Altered
        PROVE  OldFresh(c) => OldFresh(c)'
    <2>1. (o \in DOMAIN disk' <=> o \in DOMAIN disk) /\ (o \in DOMAIN disk => disk'[o] = disk[o])
      BY <1>5, Untouched
    <2> QED
      BY <1>2, <2>1 DEF OldFresh, o
  <1>6. CASE OpenNew \/ CopyData
    <2>1. Altered \subseteq {New}
      <3>1. UNCHANGED disk \/ \E x : disk' = With(disk, New, x) \/ disk' = [disk EXCEPT ![New] = x]
        BY <1>6 DEF OpenNew, CopyData, SetDisk
      <3> QED
        BY <3>1, AltersWith, AltersExcept, UnchangedDisk
    <2>2. c \notin Altered /\ o \notin Altered
      BY <1>3, <2>1
    <2>3. Ready(c) /\ OldFresh(c) /\ (ret = -1 => ~IsFile(before, c))
      BY <1>1, <1>2, <1>6 DEF Midway, OpenNew, CopyData
    <2>4. Ready(c)' /\ OldFresh(c)' /\ (ret' = -1 => ~IsFile(before, c)')
      BY <1>1, <1>4, <1>5, <2>2, <2>3
    <2>5. pc' = "copying" \/ pc' = "rmold" \/ (pc' = "mv" /\ "old" \notin tree[c].flag)
      BY <1>2, <1>6 DEF OpenNew, CopyData
    <2>6. pc' = "mv" => OldSaved(c)'
      BY <1>1, <2>5 DEF OldSaved
    <2> QED
      BY <2>4, <2>5, <2>6 DEF Onward, Midway
  <1>7. CASE RemoveOld
    <2>1. pc = "rmold" /\ pc' = "ln" /\ RemoveUnlessReadOnly(o)
      BY <1>3, <1>7 DEF RemoveOld
    <2>2. Ready(c) /\ OldFresh(c) /\ ret = 0 /\ c # <<>>
      BY <1>1, <1>2, <2>1, FileFacts DEF Midway, Inv, NewWhole
    <2>3. c \notin Altered
      BY <1>2, <1>3, <2>1, RemovedUnless
    <2>4. o \in DOMAIN disk' => o \in DOMAIN disk /\ opts.kflag /\ ReadOnly(disk[o])
      BY <1>2, <1>3, <2>1, GoneUnlessReadOnly
    <2>5. Gone(o)' \/ Kept(o)'
      BY <1>2, <2>2, <2>4 DEF Gone, Kept, OldFresh, o
    <2>6. Ready(c)'
      BY <1>4, <2>2, <2>3
    <2> QED
      BY <1>1, <2>1, <2>2, <2>5, <2>6 DEF Onward, Midway, o
  <1>8. CASE LinkOld
    <2>1. /\ pc = "ln" /\ pc' = "mv"
          /\ disk' = IF c \in DOMAIN disk /\ HasRoom(o) THEN With(disk, o, disk[c]) ELSE disk
      BY <1>2, <1>3, <1>8 DEF LinkOld, SetDisk
    <2>2. Ready(c) /\ ret = 0 /\ (Gone(o) \/ Kept(o))
      BY <1>2, <2>1 DEF Midway, Inv, NewWhole, o
    <2>3. c \in DOMAIN disk /\ c \in DOMAIN before /\ disk[c] = before[c]
      BY <2>2 DEF Ready, Fresh
    <2>4. CASE Gone(o)
      <3>1. HasRoom(o)
        BY <1>1, <1>2, <1>3, <2>4, Room DEF Gone
      <3>2. o \in DOMAIN disk' /\ disk'[o] = disk[c]
        BY <2>1, <2>3, <3>1, AltersWith
      <3>3. OldSaved(c)'
        BY <1>2, <2>3, <3>2 DEF OldSaved, o
      <3> QED
        BY <1>1, <2>1, <2>2, <3>3 DEF Onward, Midway
    <2>5. CASE Kept(o)
      <3>1. Kept(o)'
        BY <1>2, <2>5 DEF Kept
      <3>2. OldSaved(c)'
        BY <3>1 DEF OldSaved, o
      <3> QED
        BY <1>1, <2>1, <2>2, <3>2 DEF Onward, Midway
    <2> QED
      BY <2>2, <2>4, <2>5
  <1> QED
    BY <1>6, <1>7, <1>8

(* mv and dochtim.                                                         *)
LEMMA OnReplace ==
    ASSUME Inv, Walk, Current, ReplaceFile \/ SetTime, Smooth', NEW c, c = cur
    PROVE  Onward(c)'
  <1> DEFINE o == Ext(c, "old")  stb == Stat(Master(tree[c], c))
  <1>1. /\ AtNode /\ AtFile /\ pc \in FileSteps /\ tree[c].type = REG /\ tree' = tree
    BY DEF AtNode, AtFile, ReplaceFile, SetTime, Inv, Stages, FileSteps
  <1>2. /\ TypeOK /\ IsDisk(disk) /\ c \in DOMAIN tree /\ c \in Path /\ c \in Plain /\ ~opts.lazy /\ UNCHANGED <<opts, before, vice, cur>>
        /\ Midway(c) /\ Complete(c)
    BY <1>1, Here
  <1>3. /\ New # c /\ o # c /\ New # o /\ New = Ext(c, "new")
        /\ New \in DOMAIN disk => disk[New].type = REG
    <2>1. Old = o /\ New = Ext(c, "new")
      BY <1>2 DEF Old, New
    <2> QED
      BY <1>1, <1>2, <2>1, FileFacts
  <1>4. OldSaved(c)
    BY <1>1, <1>2 DEF Midway, ReplaceFile, SetTime
  <1> HIDE DEF o
  <1>5. ASSUME o \notin Altered
        PROVE  OldSaved(c)'
    <2>1. (o \in DOMAIN disk' <=> o \in DOMAIN disk) /\ (o \in DOMAIN disk => disk'[o] = disk[o])
      BY <1>5, Untouched
    <2> QED
      BY <1>1, <1>2, <1>4, <2>1 DEF OldSaved, IsFile, Kept, o
  <1>6. CASE ReplaceFile
    <2>1. /\ disk' = Renamed(New, c) /\ pc = "mv"
          /\ ret' = IF c \in DOMAIN disk' THEN 0 ELSE -1
          /\ pc' = IF ret' = 0 THEN "tim" ELSE "update"
      BY <1>2, <1>6 DEF ReplaceFile, NewInPlace, Midway
    <2>2. /\ "proto" \in tree[c].flag /\ New \in DOMAIN disk /\ disk[New].data = stb.data
      BY <1>2, <2>1 DEF Inv, NewWhole
    <2>3. /\ Altered \subseteq {New, c} /\ c \in DOMAIN disk' /\ disk'[c] = disk[New] /\ New \notin DOMAIN disk'
      BY <1>3, <2>1, AltersRenamed
    <2>4. ret' = 0 /\ pc' = "tim"
      BY <2>1, <2>3
    <2>5. OldSaved(c)'
      BY <1>3, <1>5, <2>3
    <2>6. Copied(c)'
      <3>1. MasterData(tree[c], c)' = {stb.data}
        BY <1>1, <1>2, <2>2 DEF MasterData, Stat, Master
      <3> QED
        BY <1>3, <2>2, <2>3, <3>1 DEF Copied, IsFile
    <2> QED
      BY <2>4, <2>5, <2>6 DEF Onward, Midway
  <1>7. CASE SetTime
    <2>1. /\ pc = "tim" /\ pc' = "mod"
          /\ disk' = [disk EXCEPT ![c] = [disk[c] EXCEPT !.mtime = tree[c].mtime]]
      BY <1>2, <1>7 DEF SetTime, SetDisk
    <2>2. IsFile(disk, c) /\ Ext(c, "new") \notin DOMAIN disk /\ disk[c].data \in MasterData(tree[c], c)
      BY <1>2, <2>1 DEF Midway, Copied
    <2>3. DOMAIN disk[c] = DOMAIN NoInode
      BY <1>2, <2>2, DiskFacts DEF Fits, IsFile
    <2>4. /\ DOMAIN disk' = DOMAIN disk /\ Altered \subseteq {c}
          /\ disk'[c].type = REG /\ disk'[c].data = disk[c].data /\ disk'[c].mtime = tree[c].mtime
      BY <2>1, <2>2, <2>3, NodeFields DEF IsFile, Altered
    <2>5. OldSaved(c)'
      BY <1>3, <1>5, <2>4
    <2>6. "proto" \in tree[c].flag /\ disk[c].data = stb.data
      BY <2>2 DEF MasterData
    <2>7. tree[c].mtime = stb.mtime
      BY <1>1, <1>2, <2>6 DEF Complete
    <2>8. FileIs(c)'
      <3>1. stb' = stb
        BY <1>1, <1>2 DEF Stat, Master
      <3> HIDE DEF stb
      <3>2. /\ c \in DOMAIN disk' /\ disk'[c].type = REG /\ disk'[c].mtime = stb'.mtime /\ disk'[c].data = stb'.data
            /\ Ext(c, "new") \notin DOMAIN disk'
        BY <2>2, <2>4, <2>6, <2>7, <3>1 DEF IsFile
      <3> QED
        BY <3>2 DEF FileIs, stb
    <2>9. Made(c)'
      BY <1>1, <2>5, <2>8, TypesDiffer DEF Made, OldKept
    <2> QED
      BY <2>1, <2>9 DEF Onward, Midway, FileSteps
  <1> QED
    BY <1>6, <1>7

LEMMA OnNode ==
    ASSUME Inv, Walk, Current, Visits, AtNode, Smooth', NEW c, c = cur
    PROVE  Onward(c)'
  <1>1. CASE CopyFails \/ MoveBusyAway \/ CannotReplace
    <2>1. failed'
      BY <1>1 DEF CopyFails, MoveBusyAway, CannotReplace, Report
    <2> QED
      BY <2>1 DEF Smooth
  <1> QED
    BY <1>1, OnRemove, OnDevice, OnLink, OnDirectory, OnAttribute, OnFile, OnCopy, OnReplace DEF AtNode, AtFile, AtOther

LEMMA VisitsNode == ASSUME Inv, Walk, Current, Visits, AtNode PROVE (Visits /\ Current)'
  <1>1. SUFFICES ASSUME Smooth'
                 PROVE  /\ \A p \in {cur'} : Midway(p)'
                        /\ \A p \in DOMAIN tree' :
                              Walked(p)' /\ ~InWork(p)' /\ (pc' \in {"update", "done"} \/ p # cur') => Finished(p)'
    BY DEF Visits, Current
  <1>2. /\ Smooth /\ UNCHANGED cur /\ DOMAIN tree' = DOMAIN tree /\ pc' \in Running
        /\ \A p \in DOMAIN tree : (Walked(p)' <=> Walked(p)) /\ (InWork(p)' <=> InWork(p))
    BY <1>1, SmoothNode
  <1>3. ASSUME NEW c, c = cur
        PROVE  Midway(c)' /\ (pc' = "update" => Finished(c)')
    BY <1>1, <1>3, OnNode DEF Onward
  <1>4. \A p \in {cur'} : Midway(p)'
    BY <1>2, <1>3
  <1>5. ASSUME NEW p \in DOMAIN tree, Walked(p)', ~InWork(p)', pc' \in {"update", "done"} \/ p # cur
        PROVE  Finished(p)'
    <2>1. CASE p = cur
      <3>1. pc' = "update"
        BY <1>2, <1>5, <2>1 DEF Running
      <3> QED
        BY <1>3, <2>1, <3>1
    <2>2. CASE p # cur
      <3>1. Finished(p) /\ Walked(p) /\ ~InWork(p)
        BY <1>2, <1>5, <2>2 DEF Visits
      <3> QED
        BY <1>1, <2>2, <3>1, FinishedElsewhere
    <2> QED
      BY <2>1, <2>2
  <1> QED
    BY <1>2, <1>4, <1>5

(* What is said of a node says the same while nothing of it changes.       *)
LEMMA SameSaid ==
    ASSUME UNCHANGED <<tree, disk, before, vice, opts>>, NEW p,
           \/ pc \notin Copying /\ pc' \notin Copying
           \/ pc' = pc /\ cur' = cur
    PROVE  /\ Walked(p)' <=> Walked(p)
           /\ Fresh(p)' <=> Fresh(p)
           /\ OldFresh(p)' <=> OldFresh(p)
           /\ Finished(p)' <=> Finished(p)
  <1>1. /\ Walked(p)' <=> Walked(p)
        /\ Fresh(p)' <=> Fresh(p)
        /\ OldFresh(p)' <=> OldFresh(p)
    BY DEF Walked, Fresh, OldFresh
  <1>2. (Replaced(p)' <=> Replaced(p)) /\ Spare(p)' = Spare(p) /\ Unlisted(p)' = Unlisted(p) /\ Lstat(p)' = Lstat(p)
    BY DEF Replaced, Spare, Unlisted, Children, Lstat, New
  <1>3. DirIs(p)' <=> DirIs(p)
    BY <1>2 DEF DirIs
  <1>4. SameAttributes(tree[p], disk[p])' <=> SameAttributes(tree[p], disk[p])
    BY DEF SameAttributes
  <1>5. OldKept(p)' <=> OldKept(p)
    BY <1>2 DEF OldKept, OldSaved, IsFile, Kept
  <1>6. Matches(tree[p], p)' <=> Matches(tree[p], p)
    <2>1. FileMatches(tree[p], p)' <=> FileMatches(tree[p], p)
      BY <1>2, <1>4 DEF FileMatches, SameAttributes, IsFile, Stat, Master
    <2>2. LinkMatches(tree[p], p)' <=> LinkMatches(tree[p], p)
      BY <1>2 DEF LinkMatches, Target, Master
    <2>3. DeviceMatches(tree[p], p)' <=> DeviceMatches(tree[p], p)
      BY <1>2 DEF DeviceMatches, SameAttributes, Kept
    <2> QED
      BY <1>2, <2>1, <2>2, <2>3 DEF Matches, SameAttributes, Children
  <1> QED
    BY <1>1, <1>3, <1>4, <1>5, <1>6 DEF Finished

LEMMA OnVisit ==
    ASSUME Inv, Walk, Pending, VisitNode, Smooth', NEW c, c = Head(work)
    PROVE  c \in DOMAIN tree /\ Walked(c) /\ cur' = c /\ Onward(c)'
  <1> DEFINE type == tree[c].type  there == c \in DOMAIN disk  other == there /\ disk[c].type # type
  <1>1. /\ pc = "update" /\ work # <<>> /\ work \in Seq(DOMAIN tree) /\ cur' = c
        /\ UNCHANGED <<tree, disk, before, vice, opts, failed>>
    BY CurFacts DEF VisitNode, Update, TypeOK, world
  <1>2. /\ c = work[1] /\ 1 \in 1..Len(work) /\ c \in DOMAIN tree /\ Reached /\ Smooth
    BY <1>1, HeadTailProperties, EmptySeq, LenProperties DEF Walk, Running, Smooth
  <1>3. Walked(c) /\ InWork(c)
    BY <1>2 DEF Reached, InWork
  <1>4. Fresh(c) /\ OldFresh(c)
    BY <1>2, <1>3 DEF Pending
  <1>5. Fresh(c)' /\ OldFresh(c)' /\ (Gone(c)' <=> Gone(c))
    BY <1>1, <1>4 DEF Fresh, OldFresh, Gone
  <1>6. \/ type \notin Handled /\ pc' = pc
        \/ /\ type \in Handled
           /\ ret' = IF there /\ ~other THEN 0 ELSE -1
           /\ IF other
              THEN pc' = "rm" /\ after' = Routine(type) /\ victims' = {c} \cup Below(disk, c)
              ELSE pc' = Routine(type)
    <2>1. ~(there /\ Inhibited(tree[c], disk[c]))
      BY DEF Inhibited
    <2> QED
      BY <2>1 DEF VisitNode, Handled
  <1>7. CASE type \notin Handled /\ pc' = pc
    <2>1. tree[c].type \notin {DIR, REG, LNK, CHR, BLK, SOCK, FIFO}
      BY <1>7 DEF Handled
    <2>2. Matches(tree[c], c)' /\ OldKept(c)'
      BY <1>1, <2>1 DEF Matches, OldKept, IsFile
    <2> QED
      BY <1>1, <1>2, <1>3, <1>7, <2>1, <2>2 DEF Onward, Midway, Finished, FileSteps
  <1>8. CASE type \in Handled /\ other
    <2>1. ret' = -1 /\ pc' = "rm" /\ after' = Routine(type) /\ c \in victims'
      BY <1>6, <1>8
    <2>2. Cleared(c)'
      BY <1>1, <2>1 DEF Cleared
    <2>3. tree[c].type = REG => ~IsFile(before, c)'
      BY <1>1, <1>4, <1>8 DEF Fresh, IsFile
    <2> QED
      BY <1>1, <1>2, <1>3, <1>5, <2>1, <2>2, <2>3 DEF Onward, Midway
  <1>9. CASE type \in Handled /\ ~other
    <2>1. ret' = (IF there THEN 0 ELSE -1) /\ pc' = Routine(type)
      BY <1>6, <1>9
    <2>2. pc' \in {"spec", "link", "mkdir", "reg", "update"}
      BY <1>9, <2>1, RoutineFacts
    <2>3. Ready(c)'
      BY <1>1, <1>5, <1>9, <2>1 DEF Ready, Gone
    <2>4. ret' = -1 => ~IsFile(before, c)'
      BY <1>1, <1>4, <2>1 DEF Fresh, IsFile
    <2>5. ASSUME pc' = "update"
          PROVE  Finished(c)'
      <3>1. tree[c].type \in {SOCK, FIFO}
        BY <1>9, <2>1, <2>5 DEF Routine, Handled
      <3>2. Matches(tree[c], c)'
        BY <1>1, <1>9, <3>1, TypesDiffer, DeviceTypes DEF Matches
      <3> QED
        BY <1>1, <3>1, <3>2, TypesDiffer DEF Finished, OldKept, IsFile
    <2> QED
      BY <1>1, <1>2, <1>3, <1>5, <2>2, <2>3, <2>4, <2>5 DEF Onward, Midway, FileSteps
  <1> QED
    BY <1>6, <1>7, <1>8, <1>9

LEMMA VisitsVisit == ASSUME Inv, Walk, Pending, Visits, VisitNode PROVE (Pending /\ Visits /\ Current)'
  <1>1. SUFFICES ASSUME Smooth'
                 PROVE  (Pending /\ Visits /\ Current)'
    BY DEF Pending, Visits, Current
  <1>2. PICK c : c = Head(work)
    OBVIOUS
  <1>3. c \in DOMAIN tree /\ Walked(c) /\ cur' = c /\ Onward(c)'
    BY <1>1, <1>2, OnVisit
  <1>4. /\ pc = "update" /\ work # <<>> /\ work \in Seq(DOMAIN tree) /\ Descend(tree, c) /\ IsTree(tree)
        /\ UNCHANGED <<tree, disk, before, vice, opts, failed>>
    BY <1>2, CurFacts DEF VisitNode, Update, TypeOK, world
  <1>5. Smooth /\ Apart /\ pc' \in {"update", "rm", "spec", "link", "mkdir", "reg"}
    <2>1. Routine(tree[c].type) \in {"spec", "link", "mkdir", "reg", "update"}
      BY DEF Routine
    <2> QED
      BY <1>1, <1>2, <1>4, <2>1 DEF Smooth, Walk, Running, VisitNode
  <1>6. ASSUME NEW p \in DOMAIN tree
        PROVE  /\ p \in Path
               /\ InWork(p)' => InWork(p)
               /\ InWork(p) => InWork(p)' \/ p = c \/ (Under(p, c) /\ tree[c].type # DIR)
               /\ Walked(p)' <=> Walked(p)
               /\ Fresh(p)' <=> Fresh(p)
               /\ OldFresh(p)' <=> OldFresh(p)
               /\ Finished(p)' <=> Finished(p)
    <2>1. p \in Path
      BY <1>4, TreeFacts
    <2>2. /\ InWork(p)' => InWork(p)
          /\ InWork(p) => InWork(p)' \/ p = c \/ (Under(p, c) /\ tree[c].type # DIR)
      BY <1>2, <1>4, <1>5, <2>1, Descended
    <2>3. pc \notin Copying /\ pc' \notin Copying
      BY <1>4, <1>5 DEF Copying
    <2> QED
      BY <1>4, <2>1, <2>2, <2>3, SameSaid
  <1>7. Pending'
    BY <1>4, <1>5, <1>6 DEF Pending
  <1>8. ASSUME NEW p \in DOMAIN tree, Walked(p)', ~InWork(p)', pc' \in {"update", "done"} \/ p # cur'
        PROVE  Finished(p)'
    <2>1. CASE p = c
      <3>1. pc' = "update"
        BY <1>3, <1>5, <1>8, <2>1
      <3> QED
        BY <1>3, <2>1, <3>1 DEF Onward
    <2>2. CASE p # c
      <3>1. Walked(p)
        BY <1>6, <1>8
      <3>2. ~InWork(p)
        BY <1>6, <1>8, <2>2, <3>1 DEF Walked, Under
      <3> QED
        BY <1>4, <1>5, <1>6, <3>1, <3>2 DEF Visits
    <2> QED
      BY <2>1, <2>2
  <1>9. Visits'
    BY <1>4, <1>8 DEF Visits
  <1>10. \A p \in {cur'} : Midway(p)'
    BY <1>3 DEF Onward
  <1> QED
    BY <1>7, <1>9, <1>10 DEF Current

LEMMA VisitsStep == ASSUME Inv, Walk, Pending, Visits, Current, Next PROVE (Pending /\ Visits /\ Current)'
  <1>1. CASE LoadEntry \/ Loaded \/ CheckNode \/ Crash \/ Rerun \/ Release
    <2>1. pc' \in {"load", "check", "fatal", "crashed", "idle"}
      BY <1>1 DEF LoadEntry, Loaded, CheckNode, Crash, Rerun, Begin, Release, Fatal
    <2> QED
      BY <2>1 DEF Pending, Visits, Current, Smooth, Running
  <1>2. CASE AllChecked
    <2>1. /\ pc = "check" /\ pc' = "update" /\ disk = before /\ IsTree(tree)
          /\ UNCHANGED <<disk, before, tree>> /\ work' = <<<<>>>>
      BY <1>2, CurFacts DEF AllChecked, Inv, Phases, world
    <2>2. \A p \in DOMAIN tree : InWork(p)'
      BY <2>1, FromTheRoot
    <2>3. Pending'
      BY <2>1 DEF Pending, Fresh, OldFresh
    <2>4. Visits'
      BY <2>1, <2>2 DEF Visits
    <2>5. Current'
      BY <2>1 DEF Current, Midway, FileSteps
    <2> QED
      BY <2>3, <2>4, <2>5
  <1>3. CASE Finish
    <2>1. /\ pc = "update" /\ pc' = "done" /\ UNCHANGED <<tree, disk, before, vice, opts, failed, work, cur>>
      BY <1>3 DEF Finish, walk, world
    <2>2. pc \notin Copying /\ pc' \notin Copying /\ pc \in Running
      BY <2>1 DEF Copying, Running
    <2>3. Smooth' => Smooth
      BY <2>1, <2>2 DEF Smooth
    <2>4. \A p : /\ Walked(p)' <=> Walked(p)
                 /\ Fresh(p)' <=> Fresh(p)
                 /\ OldFresh(p)' <=> OldFresh(p)
                 /\ Finished(p)' <=> Finished(p)
                 /\ InWork(p)' <=> InWork(p)
      BY <2>1, <2>2, SameSaid DEF InWork
    <2>5. Pending'
      BY <2>1, <2>3, <2>4 DEF Pending
    <2>6. Visits'
      BY <2>1, <2>3, <2>4 DEF Visits
    <2>7. Current'
      BY <2>1 DEF Current, Midway, FileSteps
    <2> QED
      BY <2>5, <2>6, <2>7
  <1> QED
    BY <1>1, <1>2, <1>3, Steps, VisitsVisit, VisitsNode, PendingNode

LEMMA VisitsStutter ==
    ASSUME Pending, Visits, Current, UNCHANGED vars
    PROVE  (Pending /\ Visits /\ Current)'
  <1>1. UNCHANGED <<tree, disk, before, vice, opts, failed, work, cur, pc, ret, victims, after>>
    BY DEF vars
  <1>2. Smooth' <=> Smooth
    BY <1>1 DEF Smooth
  <1>3. \A p : /\ Walked(p)' <=> Walked(p)
               /\ Fresh(p)' <=> Fresh(p)
               /\ OldFresh(p)' <=> OldFresh(p)
               /\ Finished(p)' <=> Finished(p)
               /\ InWork(p)' <=> InWork(p)
    BY <1>1, SameSaid DEF InWork
  <1>4. Pending' /\ Visits'
    BY <1>1, <1>2, <1>3 DEF Pending, Visits
  <1>5. ASSUME NEW p, Midway(p)
        PROVE  Midway(p)'
    <2>1. /\ Cleared(p)' <=> Cleared(p)
          /\ Ready(p)' <=> Ready(p)
          /\ Gone(p)' <=> Gone(p)
          /\ Kept(p)' <=> Kept(p)
          /\ Gone(Ext(p, "old"))' <=> Gone(Ext(p, "old"))
          /\ Kept(Ext(p, "old"))' <=> Kept(Ext(p, "old"))
      BY <1>1, <1>3 DEF Cleared, Ready, Gone, Kept, Unlisted, Children
    <2>2. /\ OldSaved(p)' <=> OldSaved(p)
          /\ Copied(p)' <=> Copied(p)
          /\ IsFile(before, p)' <=> IsFile(before, p)
      BY <1>1 DEF OldSaved, Copied, IsFile, Kept, MasterData, Stat, Master
    <2>3. Made(p)' <=> Made(p)
      <3>1. (Replaced(p)' <=> Replaced(p)) /\ Spare(p)' = Spare(p) /\ Unlisted(p)' = Unlisted(p)
        BY <1>1 DEF Replaced, Spare, Unlisted, Children, New
      <3>2. DirIs(p)' <=> DirIs(p)
        BY <1>1, <3>1 DEF DirIs
      <3>3. FileIs(p)' <=> FileIs(p)
        BY <1>1, <3>1 DEF FileIs, IsFile, Stat, Master
      <3>4. DeviceIs(p)' <=> DeviceIs(p)
        BY <1>1, <2>1 DEF DeviceIs
      <3>5. OldKept(p)' <=> OldKept(p)
        BY <1>1, <2>2, <3>1 DEF OldKept, IsFile
      <3> QED
        BY <1>1, <3>2, <3>3, <3>4, <3>5 DEF Made
    <2> QED
      BY <1>1, <1>3, <1>5, <2>1, <2>2, <2>3 DEF Midway
  <1>6. Current'
    <2>1. Smooth' => \A p \in {cur} : Midway(p)
      BY <1>2 DEF Current
    <2>2. Smooth' => \A p \in {cur'} : Midway(p)'
      BY <1>1, <1>5, <2>1
    <2> QED
      BY <2>2 DEF Current
  <1> QED
    BY <1>4, <1>6

LEMMA FinishedAtLast == ASSUME Inv, Walk, Visits PROVE Converged
  <1>1. SUFFICES ASSUME pc = "done", ~failed, ~opts.lazy
                 PROVE  AllMatch /\ OldCopiesKept
    BY DEF Converged
  <1>2. /\ work = <<>> /\ Smooth
    BY <1>1 DEF Walk, Smooth
  <1>3. ASSUME NEW p \in DOMAIN tree, Walked(p)
        PROVE  Finished(p)
    BY <1>1, <1>2, <1>3 DEF Visits, InWork
  <1>4. ASSUME NEW p \in DOMAIN tree, Walked(p)
        PROVE  Matches(tree[p], p)
    <2>1. Finished(p)
      BY <1>3, <1>4
    <2>2. CASE tree[p].type = DIR
      <3>1. Spare(p) = {Ext(q, "old") : q \in Children(tree, p)}
        BY <1>1 DEF Spare, Copying
      <3>2. DirIs(p) /\ SameAttributes(tree[p], disk[p])
        BY <2>1, <2>2 DEF Finished
      <3> QED
        BY <2>2, <3>1, <3>2, TypesDiffer DEF DirIs, Matches, Lstat
    <2> QED
      BY <2>1, <2>2 DEF Finished
  <1>5. OldCopiesKept
    BY <1>3 DEF OldCopiesKept, Finished, OldKept, OldSaved, Lstat
  <1> QED
    BY <1>4, <1>5 DEF AllMatch

(* A run in which no call failed leaves every node the walk of update      *)
(* comes to as the tree has it, and the copies the letter O asks for; what *)
(* an earlier run that was stopped at any call had left does not matter.   *)
THEOREM ConvergedCorrect == Spec => []Converged
  <1>1. Init => Inv /\ Walk /\ Pending /\ Visits /\ Current
    <2>1. Init => pc = "load"
      BY DEF Init
    <2>2. pc = "load" => Pending /\ Visits /\ Current
      BY DEF Pending, Visits, Current, Smooth, Running
    <2> QED
      BY <2>1, <2>2, BeginsGood, WalkBegins
  <1>2. Inv /\ Walk /\ Pending /\ Visits /\ Current /\ [Next]_vars => (Inv /\ Walk /\ Pending /\ Visits /\ Current)'
    BY StepGood, StutterKeeps, WalkStep, WalkStutters, VisitsStep, VisitsStutter DEF Good
  <1>3. Inv /\ Walk /\ Visits => Converged
    BY FinishedAtLast
  <1> QED
    BY <1>1, <1>2, <1>3, PTL DEF Spec

-----------------------------------------------------------------------------
(* A disk that needs nothing.                                              *)

(* A node for which a run that finds the disk d has nothing to do.         *)
InLine(np, p, d) ==
    CASE np.type = DIR -> /\ p \in DOMAIN d /\ d[p].type = DIR /\ SameAttributes(np, d[p])
                          /\ "clean" \in np.flag => Children(d, p) \subseteq DOMAIN tree
      [] np.type = LNK -> /\ p \in DOMAIN d => d[p].type = LNK
                          /\ "proto" \in np.flag =>
                                 p \in DOMAIN d /\ ("init" \in np.flag \/ d[p].link = Target(np, p))
      [] np.type \in {CHR, BLK} -> /\ p \in DOMAIN d => d[p].type = np.type /\ SameAttributes(np, d[p])
                                   /\ "rdev" \in np.flag => p \in DOMAIN d /\ d[p].data = np.rdev
      [] np.type = REG -> /\ p \in DOMAIN d => d[p].type = REG /\ SameAttributes(np, d[p])
                          /\ "proto" \in np.flag =>
                                 p \in DOMAIN d /\ ("init" \in np.flag \/ ~Outdated(np, d[p]))
      [] np.type \in {SOCK, FIFO} -> p \in DOMAIN d => d[p].type = np.type
      [] OTHER -> TRUE
NothingToDo == \A p \in DOMAIN tree : Walked(p) => InLine(tree[p], p, before)

(* The disk is what it was: each name, and each field of its inode.        *)
Unaltered ==
    /\ DOMAIN disk = DOMAIN before
    /\ \A p \in DOMAIN disk : \A f \in DOMAIN NoInode : disk[p][f] = before[p][f]

(* A run that finds the whole disk in line leaves it as it is, and exits   *)
(* with 0: a machine that needs nothing is not rebooted.                   *)
LeftAlone == Visited /\ NothingToDo => Unaltered /\ status = 0

(* On the way, no step but those that look and those that set a mode and   *)
(* an owner to what they are.                                              *)
Looking ==
    /\ pc \notin {"mknod", "symlink"} \cup (FileSteps \ {"reg"})
    /\ pc = "rm" => victims = {} /\ after = "mod" /\ tree[cur].type = DIR
    /\ pc \in {"spec", "link", "mkdir", "clean", "reg"} => (ret = 0 <=> cur \in DOMAIN disk)
    /\ pc = "clean" => ret = 0
    /\ pc \in {"mod", "own", "rm"} => cur \in DOMAIN disk
Quiet == Visited /\ NothingToDo => Unaltered /\ status = 0 /\ Looking

LEMMA InLineCases ==
    ASSUME NEW np, NEW p, NEW d, InLine(np, p, d)
    PROVE  /\ np.type = DIR => /\ p \in DOMAIN d /\ d[p].type = DIR /\ SameAttributes(np, d[p])
                               /\ "clean" \in np.flag => Children(d, p) \subseteq DOMAIN tree
           /\ np.type = LNK => /\ p \in DOMAIN d => d[p].type = LNK
                               /\ "proto" \in np.flag =>
                                      p \in DOMAIN d /\ ("init" \in np.flag \/ d[p].link = Target(np, p))
           /\ np.type \in {CHR, BLK} => /\ p \in DOMAIN d => d[p].type = np.type /\ SameAttributes(np, d[p])
                                        /\ "rdev" \in np.flag => p \in DOMAIN d /\ d[p].data = np.rdev
           /\ np.type = REG => /\ p \in DOMAIN d => d[p].type = REG /\ SameAttributes(np, d[p])
                               /\ "proto" \in np.flag =>
                                      p \in DOMAIN d /\ ("init" \in np.flag \/ ~Outdated(np, d[p]))
           /\ np.type \in Handled /\ p \in DOMAIN d => d[p].type = np.type
  <1> DEFINE dir == /\ p \in DOMAIN d /\ d[p].type = DIR /\ SameAttributes(np, d[p])
                    /\ "clean" \in np.flag => Children(d, p) \subseteq DOMAIN tree
             link == /\ p \in DOMAIN d => d[p].type = LNK
                     /\ "proto" \in np.flag =>
                            p \in DOMAIN d /\ ("init" \in np.flag \/ d[p].link = Target(np, p))
             device == /\ p \in DOMAIN d => d[p].type = np.type /\ SameAttributes(np, d[p])
                       /\ "rdev" \in np.flag => p \in DOMAIN d /\ d[p].data = np.rdev
             file == /\ p \in DOMAIN d => d[p].type = REG /\ SameAttributes(np, d[p])
                     /\ "proto" \in np.flag =>
                            p \in DOMAIN d /\ ("init" \in np.flag \/ ~Outdated(np, d[p]))
             other == p \in DOMAIN d => d[p].type = np.type
  <1>1. (CASE np.type = DIR -> dir [] np.type = LNK -> link [] np.type \in {CHR, BLK} -> device
           [] np.type = REG -> file [] np.type \in {SOCK, FIFO} -> other [] OTHER -> TRUE)
    BY DEF InLine
  <1> HIDE DEF dir, link, device, file, other
  <1>2. /\ np.type = DIR => dir
        /\ np.type = LNK => link
        /\ np.type \in {CHR, BLK} => device
        /\ np.type = REG => file
        /\ np.type \in {SOCK, FIFO} => other
    BY <1>1, TypesDiffer, DeviceTypes
  <1>3. np.type \in Handled => np.type \in {DIR, LNK, CHR, BLK, REG, SOCK, FIFO}
    BY DEF Handled
  <1> QED
    BY <1>2, <1>3 DEF dir, link, device, file, other

(* The steps at a node leave it in line with the disk of the beginning.    *)
LEMMA LineKept ==
    ASSUME Inv, AtNode, NothingToDo'
    PROVE  NothingToDo
  <1>1. UNCHANGED before /\ SameNodes
    BY NodeFrame
  <1>2. ASSUME NEW p \in DOMAIN tree, Walked(p), NEW np, np = tree[p], NEW mp, mp = tree'[p]
        PROVE  InLine(np, p, before)
    <2>1. Walked(p)' /\ p \in DOMAIN tree' /\ DOMAIN tree' = DOMAIN tree
      BY <1>1, <1>2, NodeSays DEF SameNodes
    <2>2. InLine(mp, p, before)
      BY <1>1, <1>2, <2>1 DEF NothingToDo, InLine, Children, SameAttributes, Outdated, Target, Master
    <2>3. /\ np.type = mp.type /\ np.proto = mp.proto /\ np.size = mp.size /\ np.mtime = mp.mtime
          /\ np.mode = mp.mode /\ np.uid = mp.uid /\ np.rdev = mp.rdev /\ np.hash = mp.hash
          /\ \A f \in {"clean", "proto", "abs", "init", "rdev", "mode", "uid", "hash"} : f \in np.flag <=> f \in mp.flag
      BY <1>1, <1>2 DEF SameNodes
    <2>4. /\ \A x : SameAttributes(np, x) <=> SameAttributes(mp, x)
          /\ \A x : Outdated(np, x) <=> Outdated(mp, x)
          /\ Target(np, p) = Target(mp, p)
      BY <2>3 DEF SameAttributes, Outdated, Target, Master
    <2> QED
      BY <2>2, <2>3, <2>4 DEF InLine
  <1> QED
    BY <1>2 DEF NothingToDo

(* What the disk says of the node under way.                               *)
LEMMA CurInLine ==
    ASSUME Inv, Walk, NothingToDo, Quiet, pc \in Running \ {"update"}
    PROVE  /\ Looking /\ Unaltered /\ status = 0 /\ InLine(tree[cur], cur, before)
           /\ cur \in DOMAIN disk <=> cur \in DOMAIN before
           /\ cur \in DOMAIN disk => \A f \in {"type", "data", "link", "mtime", "mode", "uid"} :
                                         disk[cur][f] = before[cur][f]
           /\ Children(disk, cur) = Children(before, cur)
  <1>1. Looking /\ Unaltered /\ status = 0
    BY DEF Quiet, Visited
  <1>2. cur \in DOMAIN tree /\ Walked(cur)
    BY CurFacts DEF Walk
  <1>3. InLine(tree[cur], cur, before)
    BY <1>2 DEF NothingToDo
  <1>4. /\ cur \in DOMAIN disk <=> cur \in DOMAIN before
        /\ cur \in DOMAIN disk => \A f \in {"type", "data", "link", "mtime", "mode", "uid"} :
                                      disk[cur][f] = before[cur][f]
    BY <1>1, NodeFields DEF Unaltered
  <1>5. Children(disk, cur) = Children(before, cur)
    BY <1>1 DEF Unaltered, Children
  <1> QED
    BY <1>1, <1>3, <1>4, <1>5

LEMMA UnalteredKept ==
    ASSUME UNCHANGED <<disk, before>>, Unaltered
    PROVE  Unaltered'
  BY DEF Unaltered

LEMMA QuietFile == ASSUME Inv, Walk, Quiet, NothingToDo, AtFile PROVE (Unaltered /\ status = 0 /\ Looking)'
  <1> DEFINE np == tree[cur]
  <1>1. /\ pc \in FileSteps /\ pc \in Running \ {"update"} /\ UNCHANGED <<cur, before>>
        /\ CheckFile => pc = "reg" /\ UNCHANGED <<disk, ret, status>>
    BY FileFrame
  <1>2. /\ Looking /\ Unaltered /\ status = 0 /\ InLine(np, cur, before)
        /\ cur \in DOMAIN disk <=> cur \in DOMAIN before
        /\ cur \in DOMAIN disk => \A f \in {"type", "data", "link", "mtime", "mode", "uid"} :
                                      disk[cur][f] = before[cur][f]
    BY <1>1, CurInLine
  <1>3. pc = "reg" /\ (ret = 0 <=> cur \in DOMAIN disk) /\ np.type = REG
    BY <1>1, <1>2 DEF Looking, Inv, Stages
  <1>4. CheckFile
    BY <1>3 DEF AtFile, OpenNew, CopyData, CopyFails, RemoveOld, LinkOld, ReplaceFile, MoveBusyAway,
                CannotReplace, SetTime
  <1>5. "proto" \in np.flag => cur \in DOMAIN before /\ ("init" \in np.flag \/ ~Outdated(np, before[cur]))
    BY <1>2, <1>3, InLineCases
  <1>6. cur \in DOMAIN disk => (Outdated(np, disk[cur]) <=> Outdated(np, before[cur]))
    BY <1>2 DEF Outdated
  <1>7. ret \in {0, -1}
    BY CurFacts
  <1> HIDE DEF np
  <1>8. ~("proto" \in np.flag /\ (ret < 0 \/ ("init" \notin np.flag /\ Outdated(np, disk[cur]))))
    BY <1>2, <1>3, <1>5, <1>6, <1>7
  <1>9. pc' = IF ret = 0 THEN "mod" ELSE "update"
    BY <1>4, <1>8 DEF CheckFile, np
  <1>10. Unaltered' /\ status' = 0
    BY <1>1, <1>2, <1>4, UnalteredKept
  <1>11. Looking'
    BY <1>1, <1>3, <1>4, <1>9 DEF Looking, FileSteps
  <1> QED
    BY <1>10, <1>11

LEMMA QuietOther == ASSUME Inv, Walk, Quiet, NothingToDo, AtOther PROVE (Unaltered /\ status = 0 /\ Looking)'
  <1> DEFINE np == tree[cur]
  <1>1. /\ pc \in Running \ {"update"} /\ UNCHANGED <<cur, before, status, tree>>
    BY OtherFrame
  <1>2. /\ Looking /\ Unaltered /\ status = 0 /\ InLine(np, cur, before)
        /\ cur \in DOMAIN disk <=> cur \in DOMAIN before
        /\ cur \in DOMAIN disk => \A f \in {"type", "data", "link", "mtime", "mode", "uid"} :
                                      disk[cur][f] = before[cur][f]
        /\ Children(disk, cur) = Children(before, cur)
    BY <1>1, CurInLine
  <1>3. ret \in {0, -1} /\ IsDisk(disk)
    BY CurFacts
  <1>4. ~MakeDevice /\ ~MakeLink
    BY <1>2 DEF Looking, MakeDevice, MakeLink
  <1>5. CASE RemoveNext
    <2>1. pc = "rm" /\ victims = {} /\ after = "mod" /\ cur \in DOMAIN disk
      BY <1>2, <1>5 DEF RemoveNext, Looking
    <2>2. pc' = "mod" /\ UNCHANGED disk
      BY <1>5, <2>1 DEF RemoveNext
    <2>3. Looking'
      BY <1>1, <2>1, <2>2 DEF Looking, FileSteps
    <2> QED
      BY <1>1, <1>2, <2>2, <2>3, UnalteredKept
  <1>6. CASE CheckDevice
    <2>1. pc = "spec" /\ (ret = 0 <=> cur \in DOMAIN disk) /\ np.type \in {CHR, BLK}
      BY <1>2, <1>6 DEF CheckDevice, Looking, Inv, Stages
    <2>2. "rdev" \in np.flag => cur \in DOMAIN before /\ before[cur].data = np.rdev
      BY <1>2, <2>1, InLineCases
    <2> HIDE DEF np
    <2>3. ~("rdev" \in np.flag /\ ((ret = 0 /\ np.rdev # disk[cur].data) \/ ret < 0))
      BY <1>2, <1>3, <2>1, <2>2
    <2>4. pc' = (IF ret = 0 THEN "mod" ELSE "update") /\ UNCHANGED disk
      BY <1>6, <2>3 DEF CheckDevice, np
    <2>5. Looking'
      BY <1>1, <2>1, <2>4 DEF Looking, FileSteps
    <2> QED
      BY <1>1, <1>2, <2>4, <2>5, UnalteredKept
  <1>7. CASE CheckLink
    <2>1. pc = "link" /\ (ret = 0 <=> cur \in DOMAIN disk) /\ np.type = LNK
      BY <1>2, <1>7 DEF CheckLink, Looking, Inv, Stages
    <2>2. "proto" \in np.flag =>
              cur \in DOMAIN before /\ ("init" \in np.flag \/ before[cur].link = Target(np, cur))
      BY <1>2, <2>1, InLineCases
    <2> HIDE DEF np
    <2>3. "proto" \notin np.flag \/ (ret = 0 /\ ("init" \in np.flag \/ disk[cur].link = Target(np, cur)))
      BY <1>2, <1>3, <2>1, <2>2
    <2>4. pc' = "update" /\ UNCHANGED disk
      BY <1>7, <2>3 DEF CheckLink, np
    <2>5. Looking'
      BY <2>4 DEF Looking, FileSteps
    <2> QED
      BY <1>1, <1>2, <2>4, <2>5, UnalteredKept
  <1>8. CASE MakeDirectory
    <2>1. pc = "mkdir" /\ (ret = 0 <=> cur \in DOMAIN disk) /\ np.type = DIR
      BY <1>2, <1>8 DEF MakeDirectory, Looking, Inv, Stages
    <2>2. cur \in DOMAIN disk /\ ret = 0
      BY <1>2, <2>1, InLineCases
    <2>3. pc' = "clean" /\ UNCHANGED <<disk, ret>>
      BY <1>8, <2>2 DEF MakeDirectory
    <2>4. Looking'
      BY <1>1, <2>2, <2>3 DEF Looking, FileSteps
    <2> QED
      BY <1>1, <1>2, <2>3, <2>4, UnalteredKept
  <1>9. CASE CleanDirectory
    <2>1. pc = "clean" /\ ret = 0 /\ cur \in DOMAIN disk /\ np.type = DIR
      BY <1>2, <1>9 DEF CleanDirectory, Looking, Inv, Stages
    <2>2. "clean" \in np.flag => Unlisted(cur) = {}
      BY <1>2, <2>1, InLineCases DEF Unlisted
    <2>3. after' = "mod" /\ pc' \in {"rm", "mod"} /\ UNCHANGED disk /\ (pc' = "rm" => victims' = {})
      BY <1>9, <2>1, <2>2 DEF CleanDirectory
    <2>4. Looking'
      BY <1>1, <2>1, <2>3 DEF Looking, FileSteps
    <2> QED
      BY <1>1, <1>2, <2>3, <2>4, UnalteredKept
  <1>10. CASE SetMode \/ SetOwner
    <2>1. pc \in {"mod", "own"} /\ pc' \in {"own", "update"} /\ cur \in DOMAIN disk
      BY <1>2, <1>10 DEF SetMode, SetOwner, Looking
    <2>2. np.type \in {CHR, BLK, DIR, REG}
      BY <2>1 DEF Inv, Stages
    <2>3. SameAttributes(np, before[cur])
      BY <1>2, <2>1, <2>2, InLineCases
    <2>4. ("mode" \in np.flag => np.mode = disk[cur].mode) /\ ("uid" \in np.flag => np.uid = disk[cur].uid)
      BY <1>2, <2>1, <2>3 DEF SameAttributes
    <2>5. \/ UNCHANGED disk
          \/ disk' = [disk EXCEPT ![cur] = [disk[cur] EXCEPT !.mode = disk[cur].mode]]
          \/ disk' = [disk EXCEPT ![cur] = [disk[cur] EXCEPT !.uid = disk[cur].uid]]
      <3>1. CASE SetMode
        BY <2>4, <3>1 DEF SetMode, SetDisk
      <3>2. CASE SetOwner
        BY <2>4, <3>2 DEF SetOwner, SetDisk
      <3> QED
        BY <1>10, <3>1, <3>2
    <2>6. DOMAIN disk[cur] = DOMAIN NoInode
      BY <1>3, <2>1, DiskFacts DEF Fits
    <2>7. DOMAIN disk' = DOMAIN disk /\ \A p \in DOMAIN disk : \A f \in DOMAIN NoInode : disk'[p][f] = disk[p][f]
      BY <2>1, <2>5, <2>6
    <2>8. Unaltered'
      BY <1>1, <1>2, <2>7 DEF Unaltered
    <2>9. Looking'
      BY <1>1, <2>1, <2>7 DEF Looking, FileSteps
    <2> QED
      BY <1>1, <1>2, <2>8, <2>9
  <1> QED
    BY <1>4, <1>5, <1>6, <1>7, <1>8, <1>9, <1>10 DEF AtOther

LEMMA QuietVisit == ASSUME Inv, Walk, Quiet, NothingToDo, VisitNode PROVE (Unaltered /\ status = 0 /\ Looking)'
  <1> DEFINE p == Head(work)
             np == tree[p]
  <1>1. /\ pc = "update" /\ work # <<>> /\ cur' = p /\ UNCHANGED <<disk, before, status, tree>>
    BY DEF VisitNode, Update, world
  <1>2. p \in DOMAIN tree /\ Walked(p)
    <2>1. work \in Seq(DOMAIN tree) /\ work # <<>>
      BY <1>1 DEF Inv, TypeOK
    <2>2. 1 \in 1..Len(work) /\ p = work[1] /\ p \in DOMAIN tree
      BY <2>1
    <2>3. Reached
      BY <1>1 DEF Walk, Running
    <2> QED
      BY <2>2, <2>3 DEF Reached
  <1>3. InLine(np, p, before)
    BY <1>2 DEF NothingToDo
  <1>4. Unaltered /\ status = 0
    BY <1>1 DEF Quiet, Visited, Running
  <1>5. p \in DOMAIN disk => disk[p].type = before[p].type /\ p \in DOMAIN before
    BY <1>4, NodeFields DEF Unaltered
  <1>6. np.type \in Handled /\ p \in DOMAIN disk => disk[p].type = np.type
    BY <1>3, <1>5, InLineCases
  <1> HIDE DEF p, np
  <1>7. \/ UNCHANGED pc
        \/ /\ np.type \in Handled /\ pc' = Routine(np.type)
           /\ ret' = IF p \in DOMAIN disk THEN 0 ELSE -1
    <2>1. \/ UNCHANGED pc
          \/ /\ np.type \in Handled
             /\ ret' = IF p \in DOMAIN disk /\ disk[p].type = np.type THEN 0 ELSE -1
             /\ (p \in DOMAIN disk /\ disk[p].type # np.type) \/ pc' = Routine(np.type)
      BY DEF VisitNode, Handled, p, np
    <2> QED
      BY <1>6, <2>1
  <1>8. Looking'
    <2>1. CASE UNCHANGED pc
      BY <1>1, <2>1 DEF Looking, FileSteps
    <2>2. CASE np.type \in Handled /\ pc' = Routine(np.type) /\ ret' = IF p \in DOMAIN disk THEN 0 ELSE -1
      <3>1. pc' \in {"spec", "link", "mkdir", "reg", "update"}
        BY <2>2, RoutineFacts
      <3>2. ret' = 0 <=> cur' \in DOMAIN disk'
        BY <1>1, <2>2
      <3> QED
        BY <3>1, <3>2 DEF Looking, FileSteps
    <2> QED
      BY <1>7, <2>1, <2>2
  <1> QED
    BY <1>1, <1>4, <1>8, UnalteredKept

LEMMA QuietStep == ASSUME Inv, Walk, Quiet, Next PROVE Quiet'
  <1>1. CASE AtNode
    <2>1. Visited
      BY <1>1, NodeFrame DEF Visited
    <2> QED
      BY <1>1, <2>1, LineKept, QuietFile, QuietOther DEF AtNode, Quiet
  <1>2. CASE VisitNode
    <2>1. Visited /\ UNCHANGED <<tree, before>>
      BY <1>2 DEF VisitNode, Update, Visited, Running, world
    <2>2. NothingToDo' => NothingToDo
      BY <2>1 DEF NothingToDo, InLine, Walked, Children, Outdated, SameAttributes, Target, Master
    <2> QED
      BY <1>2, <2>2, QuietVisit DEF Quiet
  <1>3. CASE Finish
    <2>1. Visited /\ UNCHANGED <<tree, before, disk, status>> /\ pc' = "done"
      BY <1>3 DEF Finish, Visited, Running, world
    <2>2. NothingToDo' => NothingToDo
      BY <2>1 DEF NothingToDo, InLine, Walked, Children, Outdated, SameAttributes, Target, Master
    <2>3. Looking'
      BY <2>1 DEF Looking, FileSteps
    <2> QED
      BY <2>1, <2>2, <2>3, UnalteredKept DEF Quiet
  <1>4. CASE AllChecked
    <2>1. disk = before /\ status = 0 /\ UNCHANGED <<disk, before, status>> /\ pc' = "update"
      BY <1>4 DEF AllChecked, Inv, Phases, Walk, world
    <2> QED
      BY <2>1 DEF Quiet, Unaltered, Looking, FileSteps
  <1>5. CASE LoadEntry \/ Loaded \/ CheckNode \/ Rerun \/ Release
    <2>1. pc' \in {"load", "check", "fatal", "idle"}
      BY <1>5 DEF LoadEntry, Loaded, CheckNode, Rerun, Release, Fatal, Begin
    <2> QED
      BY <2>1 DEF Quiet, Visited, Running
  <1>6. CASE Crash
    <2>1. Visited /\ pc \in Running /\ UNCHANGED <<tree, before, status>> /\ pc' = "crashed"
      BY <1>6, CrashDoes DEF Visited
    <2>2. NothingToDo' => NothingToDo
      BY <2>1 DEF NothingToDo, InLine, Walked, Children, Outdated, SameAttributes, Target, Master
    <2>3. Looking'
      BY <2>1 DEF Looking, FileSteps
    <2>4. ASSUME NothingToDo
          PROVE  Unaltered' /\ status' = 0
      <3>1. Unaltered /\ status = 0 /\ Looking
        BY <2>1, <2>4 DEF Quiet
      <3>2. pc \notin {"copying", "rmold", "ln", "mv", "mvbusy"}
        BY <3>1 DEF Looking, FileSteps
      <3>3. \A p \in DOMAIN disk : ~Replaced(p)
        BY <3>1 DEF Unaltered, Replaced, NoInode, Inode
      <3>4. Unflushed = {}
        BY <3>2, <3>3 DEF Unflushed
      <3>5. DOMAIN disk' = DOMAIN disk /\ \A p \in DOMAIN disk : disk'[p] = disk[p]
        BY <1>6, <3>4, CrashDoes
      <3> QED
        BY <2>1, <3>1, <3>5 DEF Unaltered
    <2> QED
      BY <2>2, <2>3, <2>4 DEF Quiet
  <1> QED
    BY <1>1, <1>2, <1>3, <1>4, <1>5, <1>6, Steps

LEMMA QuietStutters == ASSUME Quiet, UNCHANGED vars PROVE Quiet'
  <1>1. UNCHANGED <<vice, pc, tree, disk, before, cur, ret, victims, after, status>>
    BY DEF vars
  <1>2. (NothingToDo' <=> NothingToDo) /\ (Unaltered' <=> Unaltered) /\ (Looking' <=> Looking) /\ (Visited' <=> Visited)
    BY <1>1 DEF NothingToDo, InLine, Walked, Children, Outdated, SameAttributes, Target, Master,
                Unaltered, Looking, Visited
  <1> QED
    BY <1>1, <1>2 DEF Quiet

(* A machine whose disk is as the configuration and its masters have it is *)
(* left alone, at every call of the run and wherever it stops: nothing on  *)
(* the disk changes, and the exit status asks for no reboot.               *)
THEOREM LeftAloneCorrect == Spec => []LeftAlone
  <1>1. Init => Walk /\ Quiet
    <2>1. Init => ~Visited
      BY DEF Init, Visited, Running
    <2> QED
      BY <2>1, WalkBegins DEF Quiet
  <1>2. Inv /\ Inv' /\ Walk /\ Quiet /\ [Next]_vars => Walk' /\ Quiet'
    BY WalkStep, WalkStutters, QuietStep, QuietStutters
  <1>3. Quiet => LeftAlone
    BY DEF Quiet, LeftAlone
  <1> QED
    BY <1>1, <1>2, <1>3, InvCorrect, PTL DEF Spec

(* What even a run in which no call failed does not bring in line: copies  *)
(* under .old in a directory to be cleaned, with nothing else unlisted     *)
(* there; a hash that the master does not have, and a device that nobody   *)
(* may write.                                                              *)
Restless(p) ==
    \/ /\ tree[p].type = DIR /\ "clean" \in tree[p].flag
       /\ Unlisted(p) # {} /\ Unlisted(p) \subseteq {Ext(q, "old") : q \in Children(tree, p)}
    \/ tree[p].type = REG /\ "hash" \in tree[p].flag /\ disk[p].data # tree[p].hash
    \/ tree[p].type \in {CHR, BLK} /\ Kept(p)

(* Nothing else is left for a second run to do.                            *)
LeftInLine ==
    pc = "done" /\ ~failed /\ ~opts.lazy =>
        \A p \in DOMAIN tree : Walked(p) => InLine(tree[p], p, disk) \/ Restless(p)

LEMMA InLineAtLast == ASSUME Converged, Walk PROVE LeftInLine
  <1>1. SUFFICES ASSUME pc = "done", ~failed, ~opts.lazy, NEW p \in DOMAIN tree, Walked(p), ~Restless(p)
                 PROVE  InLine(tree[p], p, disk)
    BY DEF LeftInLine
  <1> DEFINE np == tree[p]
  <1>2. Matches(np, p) /\ Complete(p)
    BY <1>1 DEF Converged, AllMatch, Walk
  <1>3. CASE np.type = DIR
    <2>1. Lstat(p).type = DIR /\ SameAttributes(np, disk[p])
      BY <1>2, <1>3, TypesDiffer DEF Matches
    <2>2. p \in DOMAIN disk /\ disk[p].type = DIR
      BY <2>1, TypesDiffer, NodeFields DEF Lstat, NoInode, Inode
    <2>3. "clean" \in np.flag => Unlisted(p) \subseteq {Ext(q, "old") : q \in Children(tree, p)}
      BY <1>2, <1>3, TypesDiffer DEF Matches
    <2>4. "clean" \in np.flag => Unlisted(p) = {}
      BY <1>1, <1>3, <2>3 DEF Restless
    <2>5. "clean" \in np.flag => Children(disk, p) \subseteq DOMAIN tree
      BY <2>4 DEF Unlisted
    <2> QED
      BY <1>3, <2>1, <2>2, <2>5, TypesDiffer DEF InLine
  <1>4. CASE np.type = LNK
    <2>1. LinkMatches(np, p)
      BY <1>2, <1>4, TypesDiffer DEF Matches
    <2> QED
      BY <1>4, <2>1, TypesDiffer DEF InLine, LinkMatches
  <1>5. CASE np.type \in {CHR, BLK}
    <2>1. DeviceMatches(np, p) /\ ~Kept(p)
      BY <1>1, <1>2, <1>5, TypesDiffer, DeviceTypes DEF Matches, Restless
    <2> QED
      BY <1>5, <2>1, TypesDiffer, DeviceTypes DEF InLine, DeviceMatches
  <1>6. CASE np.type = REG
    <2>1. FileMatches(np, p) /\ ("hash" \in np.flag => disk[p].data = np.hash)
      BY <1>1, <1>2, <1>6, TypesDiffer DEF Matches, Restless
    <2>2. ASSUME "proto" \in np.flag, "init" \notin np.flag
          PROVE  ~Outdated(np, disk[p])
      <3>1. np.size = Size[Stat(Master(np, p)).data] /\ np.mtime = Stat(Master(np, p)).mtime
        BY <1>2, <1>6, <2>2 DEF Complete
      <3>2. disk[p].mtime = Stat(Master(np, p)).mtime /\ Size[disk[p].data] = Size[Stat(Master(np, p)).data]
        BY <2>1, <2>2 DEF FileMatches
      <3> QED
        BY <2>1, <3>1, <3>2 DEF Outdated
    <2> QED
      BY <1>6, <2>1, <2>2, TypesDiffer DEF InLine, FileMatches
  <1>7. CASE np.type \in {SOCK, FIFO}
    <2>1. p \in DOMAIN disk => disk[p].type = np.type
      BY <1>2, <1>7, TypesDiffer DEF Matches
    <2> QED
      BY <1>7, <2>1, TypesDiffer DEF InLine
  <1>8. CASE np.type \notin {DIR, LNK, CHR, BLK, REG, SOCK, FIFO}
    BY <1>8 DEF InLine
  <1> QED
    BY <1>3, <1>4, <1>5, <1>6, <1>7, <1>8

(* One run in which no call failed is enough for the next, if nothing      *)
(* changes between them, to find nothing to do but what is Restless.       *)
THEOREM LeftInLineCorrect == Spec => []LeftInLine
  <1>1. Init => Walk
    BY WalkBegins
  <1>2. Inv /\ Inv' /\ Walk /\ [Next]_vars => Walk'
    BY WalkStep, WalkStutters
  <1>3. Converged /\ Walk => LeftInLine
    BY InLineAtLast
  <1> QED
    BY <1>1, <1>2, <1>3, InvCorrect, ConvergedCorrect, PTL DEF Spec

=============================================================================
