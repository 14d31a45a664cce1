--------------------------- MODULE SentinelProofs ---------------------------
(***************************************************************************)
(* Proofs about Sentinel, for every number of servers and disks, every     *)
(* configuration file and every sequence of answers.                       *)
(***************************************************************************)
EXTENDS Sentinel, FiniteSetTheorems, FunctionTheorems, TLAPS

-----------------------------------------------------------------------------
(* Labels.                                                                 *)

(* What DisplayFaithful says of one label.                                 *)
Faithful(e, f) == /\ e.n = e.msg[format.nitpick]
                  /\ e.t = Shown(f, e.mode, e.msg[format.trouble])

Formatted == format \in [trouble : Format, nitpick : Format]

LEMMA TextFacts == /\ None \in Text /\ Unread \in Text /\ None # Unread
                   /\ \A k \in Int : /\ <<"name", k>> \in Text /\ <<"time", k>> \in Text
                                     /\ <<"percent", k>> \in Text \ {Unread}
                                     /\ <<"blocks", k>> \in Text \ {Unread}
  BY DEF None, Unread, Text

LEMMA FlipFacts ==
    ASSUME Formatted, NEW f, NEW e \in Entry, NEW mode \in {"clear", "warn"}
    PROVE  /\ FlipLabel(e, f, mode) \in Entry
           /\ FlipLabel(e, f, mode).mode = mode
           /\ FlipLabel(e, f, mode).msg = e.msg
           /\ Faithful(e, f) => Faithful(FlipLabel(e, f, mode), f)
  BY TextFacts DEF Formatted, Entry, FlipLabel, Faithful, Shown

LEMMA ChangeFacts ==
    ASSUME Formatted, NEW f, NEW e \in Entry, NEW fmt \in Format, NEW text \in Text
    PROVE  /\ ChangeLabel(e, f, fmt, text) \in Entry
           /\ ChangeLabel(e, f, fmt, text).mode = e.mode
           /\ ChangeLabel(e, f, fmt, text).msg = [e.msg EXCEPT ![fmt] = text]
           /\ Faithful(e, f) => Faithful(ChangeLabel(e, f, fmt, text), f)
  BY TextFacts DEF Formatted, Entry, ChangeLabel, Faithful, Shown

LEMMA ChangeBothFacts ==
    ASSUME Formatted, NEW f, NEW e \in Entry, NEW text \in Text
    PROVE  /\ ChangeBoth(e, f, text) \in Entry
           /\ ChangeBoth(e, f, text).mode = e.mode
           /\ \A fmt \in Format : ChangeBoth(e, f, text).msg[fmt] = text
           /\ Faithful(e, f) => Faithful(ChangeBoth(e, f, text), f)
  <1>1. "percent" \in Format /\ "blocks" \in Format /\ e.msg \in [Format -> Text]
    BY DEF Format, Entry
  <1>2. PICK e1 \in Entry : e1 = ChangeLabel(e, f, "percent", text)
    BY <1>1, ChangeFacts
  <1>3. ChangeBoth(e, f, text) = ChangeLabel(e1, f, "blocks", text)
    BY <1>2 DEF ChangeBoth
  <1>4. e1.msg = [e.msg EXCEPT !["percent"] = text] /\ e1.mode = e.mode
        /\ (Faithful(e, f) => Faithful(e1, f))
    BY <1>1, <1>2, ChangeFacts
  <1>5. PICK e2 \in Entry : e2 = ChangeLabel(e1, f, "blocks", text)
    BY <1>1, ChangeFacts
  <1>6. e2.msg = [e1.msg EXCEPT !["blocks"] = text] /\ e2.mode = e1.mode
        /\ (Faithful(e1, f) => Faithful(e2, f))
    BY <1>1, <1>5, ChangeFacts
  <1>7. \A fmt \in Format : e2.msg[fmt] = text
    BY <1>1, <1>4, <1>6 DEF Format
  <1> QED
    BY <1>3, <1>4, <1>5, <1>6, <1>7

-----------------------------------------------------------------------------
(* Counting warnings.                                                      *)

Triples == Server \X Slot \X Format
FlagSet(w) == {x \in Triples : x[3] \in w[x[1]][x[2]]}
Warned == [Server -> [Slot -> SUBSET Format]]

LEMMA SizesFinite == /\ IsFiniteSet(Server) /\ IsFiniteSet(Slot)
                     /\ \A S : S \subseteq Server \/ S \subseteq Slot => IsFiniteSet(S) /\ Cardinality(S) \in Nat
  <1>1. 1 \in Int /\ NumServers \in Int /\ NumDisks \in Int
    BY SizesAssumption
  <1>2. IsFiniteSet(Server) /\ IsFiniteSet(Slot)
    BY <1>1, FS_Interval DEF Server, Slot
  <1> QED
    BY <1>2, FS_Subset, FS_CardinalityType

LEMMA TriplesFinite == IsFiniteSet(Triples)
  <1>1. IsFiniteSet(Server) /\ IsFiniteSet(Slot)
    BY SizesFinite
  <1>2. IsFiniteSet(Format)
    <2>1. Format = {"percent"} \cup {"blocks"}
      BY DEF Format
    <2> QED
      BY <2>1, FS_Singleton, FS_Union
  <1>3. IsFiniteSet(Server \X (Slot \X Format))
    BY <1>1, <1>2, FS_Product
  <1>4. PICK f : f = [p \in Server \X (Slot \X Format) |-> <<p[1], p[2][1], p[2][2]>>]
    OBVIOUS
  <1>5. f \in Surjection(Server \X (Slot \X Format), Triples)
    <2>1. f \in [Server \X (Slot \X Format) -> Triples]
      BY <1>4 DEF Triples
    <2>2. ASSUME NEW t \in Triples PROVE \E p \in Server \X (Slot \X Format) : f[p] = t
      <3>1. <<t[1], <<t[2], t[3]>>>> \in Server \X (Slot \X Format) /\ t = <<t[1], t[2], t[3]>>
        BY DEF Triples
      <3>2. f[<<t[1], <<t[2], t[3]>>>>] = t
        BY <1>4, <3>1
      <3> QED
        BY <3>1, <3>2
    <2> QED
      BY <2>1, <2>2 DEF Surjection
  <1> QED
    BY <1>3, <1>5, FS_Surjection

LEMMA FlagSetFinite == ASSUME NEW w PROVE IsFiniteSet(FlagSet(w)) /\ Cardinality(FlagSet(w)) \in Nat
  BY TriplesFinite, FS_Subset, FS_CardinalityType DEF FlagSet

(* One flag goes on or off.                                                *)
Elsewhere(w, w1, s, d) == \A p \in Server, c \in Slot : p # s \/ c # d => w1[p][c] = w[p][c]

LEMMA FlagOn ==
    ASSUME NEW w, NEW w1, NEW s \in Server, NEW d \in Slot, NEW flag \in Format,
           flag \notin w[s][d], w1[s][d] = w[s][d] \cup {flag}, Elsewhere(w, w1, s, d)
    PROVE  Cardinality(FlagSet(w1)) = Cardinality(FlagSet(w)) + 1
  <1>1. FlagSet(w1) = FlagSet(w) \cup {<<s, d, flag>>}
    BY DEF FlagSet, Triples, Elsewhere
  <1>2. <<s, d, flag>> \notin FlagSet(w)
    BY DEF FlagSet
  <1> QED
    BY <1>1, <1>2, FlagSetFinite, FS_AddElement

LEMMA FlagOff ==
    ASSUME NEW w, NEW w1, NEW s \in Server, NEW d \in Slot, NEW flag \in Format,
           flag \in w[s][d], w1[s][d] = w[s][d] \ {flag}, Elsewhere(w, w1, s, d)
    PROVE  Cardinality(FlagSet(w1)) = Cardinality(FlagSet(w)) - 1
  <1>1. FlagSet(w1) = FlagSet(w) \ {<<s, d, flag>>}
    BY DEF FlagSet, Triples, Elsewhere
  <1>2. <<s, d, flag>> \in FlagSet(w)
    BY DEF FlagSet, Triples
  <1> QED
    BY <1>1, <1>2, FlagSetFinite, FS_RemoveElement

(* All flags of a server go off: what ServerGoesDown takes off the count.  *)
FlagsIn(w, s, flag) == {d \in Slot : flag \in w[s][d]}

LEMMA OneFlagOfServer ==
    ASSUME NEW w \in Warned, NEW s \in Server, NEW flag \in Format
    PROVE  LET T == {x \in FlagSet(w) : x[1] = s /\ x[3] = flag}
           IN  /\ IsFiniteSet(T) /\ Cardinality(T) = Cardinality(FlagsIn(w, s, flag))
               /\ Cardinality(T) \in Nat
  <1>1. PICK T : T = {x \in FlagSet(w) : x[1] = s /\ x[3] = flag}
    OBVIOUS
  <1>2. PICK S : S = FlagsIn(w, s, flag)
    OBVIOUS
  <1>3. IsFiniteSet(T)
    BY <1>1, FlagSetFinite, FS_Subset
  <1>4. PICK f : f = [x \in T |-> x[2]]
    OBVIOUS
  <1>5. f \in Bijection(T, S)
    <2>1. f \in [T -> S]
      BY <1>1, <1>2, <1>4 DEF FlagSet, Triples, FlagsIn
    <2>2. ASSUME NEW x \in T, NEW y \in T, f[x] = f[y] PROVE x = y
      BY <1>1, <1>4, <2>2 DEF FlagSet, Triples
    <2>3. ASSUME NEW d \in S PROVE \E x \in T : f[x] = d
      <3>1. <<s, d, flag>> \in T
        BY <1>1, <1>2 DEF FlagSet, Triples, FlagsIn
      <3> QED
        BY <3>1, <1>4
    <2> QED
      BY <2>1, <2>2, <2>3, Fun_IsBij
  <1>6. Cardinality(S) = Cardinality(T)
    BY <1>3, <1>5, FS_Bijection DEF ExistsBijection
  <1> QED
    BY <1>1, <1>2, <1>3, <1>6, FS_CardinalityType

LEMMA ServerFlagsOff ==
    ASSUME NEW w \in Warned, NEW s \in Server
    PROVE  Cardinality(FlagSet([w EXCEPT ![s] = [d \in Slot |-> {}]])) =
               Cardinality(FlagSet(w)) - (Cardinality(FlagsIn(w, s, "percent")) + Cardinality(FlagsIn(w, s, "blocks")))
  <1>1. PICK P : P = {x \in FlagSet(w) : x[1] = s /\ x[3] = "percent"}
    OBVIOUS
  <1>2. PICK B : B = {x \in FlagSet(w) : x[1] = s /\ x[3] = "blocks"}
    OBVIOUS
  <1>3. "percent" \in Format /\ "blocks" \in Format
    BY DEF Format
  <1>4. /\ IsFiniteSet(P) /\ Cardinality(P) = Cardinality(FlagsIn(w, s, "percent")) /\ Cardinality(P) \in Nat
        /\ IsFiniteSet(B) /\ Cardinality(B) = Cardinality(FlagsIn(w, s, "blocks")) /\ Cardinality(B) \in Nat
    BY <1>1, <1>2, <1>3, OneFlagOfServer
  <1>5. P \cap B = {}
    BY <1>1, <1>2
  <1>6. FlagSet([w EXCEPT ![s] = [d \in Slot |-> {}]]) = FlagSet(w) \ (P \cup B)
    BY <1>1, <1>2 DEF FlagSet, Triples, Warned, Format
  <1>7. Cardinality(P \cup B) = Cardinality(P) + Cardinality(B)
    <2>1. Cardinality(P \cup B) = Cardinality(P) + Cardinality(B) - 0
      BY <1>4, <1>5, FS_Union, FS_EmptySet
    <2> QED
      BY <2>1, <1>4
  <1>8. FlagSet(w) \cap (P \cup B) = P \cup B
    BY <1>1, <1>2
  <1>9. Cardinality(FlagSet(w) \ (P \cup B)) = Cardinality(FlagSet(w)) - Cardinality(P \cup B)
    <2>1. PICK F : F = FlagSet(w)
      OBVIOUS
    <2>2. Cardinality(F \ (P \cup B)) = Cardinality(F) - Cardinality(F \cap (P \cup B))
      BY <2>1, FlagSetFinite, FS_Difference
    <2> QED
      BY <1>8, <2>1, <2>2
  <1> QED
    BY <1>4, <1>6, <1>7, <1>9

-----------------------------------------------------------------------------
(* check_disk.                                                             *)

Verdict == [warning : SUBSET Format, entry : Entry, count : Int, fresh : Nat]

Marked(j) == j.entry.mode = "warn" <=> j.warning # {}

Stepped(j, r, flag) ==
    \/ r.warning = j.warning /\ r.count = j.count
    \/ flag \notin j.warning /\ r.warning = j.warning \cup {flag} /\ r.count = j.count + 1
    \/ flag \in j.warning /\ r.warning = j.warning \ {flag} /\ r.count = j.count - 1

(* One threshold changes at most its own flag, the count with it, and      *)
(* leaves the label highlighted exactly when a flag is on.                 *)
LEMMA JudgeFacts ==
    ASSUME Formatted, NEW f, NEW j \in Verdict, NEW flag \in Format, NEW bad,
           Marked(j), Faithful(j.entry, f),
           NEW r, r = Judge(j, f, flag, bad)
    PROVE  /\ r \in Verdict /\ Marked(r) /\ Faithful(r.entry, f)
           /\ r.entry.msg = j.entry.msg
           /\ Stepped(j, r, flag)
  <1>1. /\ j.entry \in Entry /\ j.warning \in SUBSET Format /\ j.count \in Int /\ j.fresh \in Nat
        /\ j = [warning |-> j.warning, entry |-> j.entry, count |-> j.count, fresh |-> j.fresh]
    BY DEF Verdict
  <1>2. PICK on \in Entry : on = FlipLabel(j.entry, f, "warn")
    BY <1>1, FlipFacts
  <1>3. PICK off \in Entry : off = FlipLabel(j.entry, f, "clear")
    BY <1>1, FlipFacts
  <1>4. /\ on.mode = "warn" /\ on.msg = j.entry.msg /\ Faithful(on, f)
        /\ off.mode = "clear" /\ off.msg = j.entry.msg /\ Faithful(off, f)
    BY <1>1, <1>2, <1>3, FlipFacts
  <1>5. CASE bad /\ flag \notin j.warning
    <2>1. r = [warning |-> j.warning \cup {flag}, entry |-> on,
               count |-> j.count + 1, fresh |-> j.fresh + 1]
      BY <1>2, <1>5 DEF Judge
    <2>2. r \in Verdict
      BY <1>1, <2>1 DEF Verdict
    <2>3. Marked(r)
      BY <1>4, <2>1 DEF Marked
    <2>4. r.entry = on /\ r.warning = j.warning \cup {flag} /\ r.count = j.count + 1
      BY <2>1
    <2> QED
      BY <1>4, <1>5, <2>2, <2>3, <2>4 DEF Stepped
  <1>6. CASE ~bad /\ flag \in j.warning
    <2>1. r = [warning |-> j.warning \ {flag}, entry |-> IF j.warning = {flag} THEN off ELSE j.entry,
               count |-> j.count - 1, fresh |-> j.fresh]
      BY <1>3, <1>6 DEF Judge
    <2>2. r \in Verdict
      BY <1>1, <2>1 DEF Verdict
    <2>3. Marked(r)
      BY <1>4, <1>6, <2>1 DEF Marked
    <2>4. /\ r.entry = off \/ r.entry = j.entry
          /\ r.warning = j.warning \ {flag} /\ r.count = j.count - 1
      BY <2>1
    <2> QED
      BY <1>4, <1>6, <2>2, <2>3, <2>4 DEF Stepped
  <1>7. CASE ~(bad /\ flag \notin j.warning) /\ ~(~bad /\ flag \in j.warning)
    <2>1. r = j
      BY <1>7 DEF Judge
    <2> QED
      BY <2>1 DEF Stepped
  <1> QED
    BY <1>5, <1>6, <1>7

LEMMA SteppedCounts ==
    ASSUME NEW j, NEW r, NEW flag \in Format, Stepped(j, r, flag), j.count \in Int,
           NEW w, NEW w1, NEW s \in Server, NEW d \in Slot,
           w[s][d] = j.warning, w1[s][d] = r.warning, Elsewhere(w, w1, s, d)
    PROVE  Cardinality(FlagSet(w1)) - r.count = Cardinality(FlagSet(w)) - j.count
  <1>1. j.count \in Int
    OBVIOUS
  <1>2. CASE r.warning = j.warning /\ r.count = j.count
    <2>1. FlagSet(w1) = FlagSet(w)
      BY <1>2 DEF FlagSet, Triples, Elsewhere
    <2> QED
      BY <1>2, <2>1
  <1>3. CASE flag \notin j.warning /\ r.warning = j.warning \cup {flag} /\ r.count = j.count + 1
    <2>1. Cardinality(FlagSet(w1)) = Cardinality(FlagSet(w)) + 1
      BY <1>3, FlagOn
    <2> QED
      BY <1>1, <1>3, <2>1, FlagSetFinite
  <1>4. CASE flag \in j.warning /\ r.warning = j.warning \ {flag} /\ r.count = j.count - 1
    <2>1. Cardinality(FlagSet(w1)) = Cardinality(FlagSet(w)) - 1
      BY <1>4, FlagOff
    <2> QED
      BY <1>1, <1>4, <2>1, FlagSetFinite
  <1> QED
    BY <1>2, <1>3, <1>4 DEF Stepped

(* The label of a disk tells the reading last.                             *)
Tells(e, old) == \A fmt \in Format : e.msg[fmt] = IF old[fmt] = Unread THEN None ELSE old[fmt]

Reading == [percent : Text, blocks : Text]

LEMMA RefreshOne ==
    ASSUME Formatted, NEW f, NEW e \in Entry, NEW fmt \in Format, NEW old \in Text, NEW text \in Text,
           Faithful(e, f), e.msg[fmt] = (IF old = Unread THEN None ELSE old), text # Unread,
           NEW r, r = IF old # text THEN ChangeLabel(e, f, fmt, text) ELSE e
    PROVE  r \in Entry /\ r.mode = e.mode /\ Faithful(r, f) /\ r.msg = [e.msg EXCEPT ![fmt] = text]
  <1>1. CASE old # text
    BY <1>1, ChangeFacts
  <1>2. CASE old = text
    BY <1>2 DEF Entry
  <1> QED
    BY <1>1, <1>2

LEMMA RefreshedFacts ==
    ASSUME Formatted, NEW f, NEW e \in Entry, NEW old \in Reading, NEW new \in Reading,
           Faithful(e, f), Tells(e, old), new.percent # Unread, new.blocks # Unread,
           NEW r, r = Refreshed(e, f, old, new.percent, new.blocks)
    PROVE  r \in Entry /\ r.mode = e.mode /\ Faithful(r, f) /\ Tells(r, new)
  <1>1. PICK op \in Text, np \in Text, ob \in Text, nb \in Text :
            op = old.percent /\ np = new.percent /\ ob = old.blocks /\ nb = new.blocks
    BY DEF Reading
  <1>2. /\ e.msg["percent"] = (IF op = Unread THEN None ELSE op)
        /\ e.msg["blocks"] = (IF ob = Unread THEN None ELSE ob)
        /\ "percent" \in Format /\ "blocks" \in Format /\ e.msg \in [Format -> Text]
    BY <1>1 DEF Tells, Reading, Format, Entry
  <1>3. PICK e1 : e1 = IF op # np THEN ChangeLabel(e, f, "percent", np) ELSE e
    OBVIOUS
  <1>4. e1 \in Entry /\ e1.mode = e.mode /\ Faithful(e1, f) /\ e1.msg = [e.msg EXCEPT !["percent"] = np]
    BY <1>1, <1>2, <1>3, RefreshOne
  <1>5. PICK e2 \in Entry : e2 = e1
    BY <1>4
  <1>6. r = IF ob # nb THEN ChangeLabel(e2, f, "blocks", nb) ELSE e2
    BY <1>1, <1>3, <1>5 DEF Refreshed
  <1>7. e2.msg["blocks"] = (IF ob = Unread THEN None ELSE ob)
    BY <1>2, <1>4, <1>5
  <1>8. r \in Entry /\ r.mode = e2.mode /\ Faithful(r, f) /\ r.msg = [e2.msg EXCEPT !["blocks"] = nb]
    <2>1. Faithful(e2, f) /\ nb # Unread
      BY <1>1, <1>4, <1>5
    <2> QED
      BY <1>2, <1>6, <1>7, <2>1, RefreshOne
  <1>9. Tells(r, new)
    BY <1>1, <1>2, <1>4, <1>5, <1>8 DEF Tells, Format, Reading
  <1> QED
    BY <1>4, <1>5, <1>8, <1>9

-----------------------------------------------------------------------------
(* The invariant.                                                          *)

(* No flag is on of a server that is down or was not heard of yet, and     *)
(* disks are checked of the other servers only.                            *)
Settled == /\ \A s \in Server, d \in Slot : s \in down \cup pending => warning[s][d] = {}
           /\ pc = "disk" => Here \notin down \cup pending

(* What the supervisor says is what was the count at the end of a round,   *)
(* and between two rounds the count has not changed since.                 *)
Told == /\ super = "warn" <=> old_count # 0
        /\ pc = "idle" => old_count = warn_count

(* The format buttons rewrite the labels of disks only: the others have    *)
(* the same text in both formats.                                          *)
OneText(e) == e.msg["percent"] = e.msg["blocks"]
Plain == \A s \in Server, f \in {SERVER_NAME, BOOT_TIME, START_TIME} : OneText(entry[s][f])

IInv == /\ TypeOK /\ WarnCountExact /\ HighlightExact /\ DisplayFaithful
        /\ LabelsCurrent /\ Settled /\ Told /\ Plain

LEMMA OtherFields ==
    \A f \in Field : f \notin {DiskLabel(d) : d \in Slot} => f \in {SERVER_NAME, BOOT_TIME, START_TIME}
  <1> SUFFICES ASSUME NEW f \in Field, f \notin {SERVER_NAME, BOOT_TIME, START_TIME}
               PROVE  f \in {DiskLabel(d) : d \in Slot}
    OBVIOUS
  <1>1. f - 2 \in Slot /\ DiskLabel(f - 2) = f
    BY SizesAssumption DEF Field, SERVER_NAME, BOOT_TIME, START_TIME, Slot, DiskLabel
  <1> QED
    BY <1>1

(* A label that was never highlighted, with one text throughout.           *)
Blank(e, f) == /\ e \in Entry /\ e.mode = "clear" /\ Faithful(e, f) /\ OneText(e)
               /\ f # SERVER_NAME => \A fmt \in Format : e.msg[fmt] = None

LEMMA BlankFacts ==
    ASSUME Formatted, NEW f, NEW text \in Text, f # SERVER_NAME => text = None
    PROVE  Blank([mode |-> "clear", msg |-> [fmt \in Format |-> text], n |-> text, t |-> text], f)
  BY DEF Blank, Entry, Faithful, Shown, Formatted, OneText, Format

LEMMA LabelFields ==
    /\ {SERVER_NAME, BOOT_TIME, START_TIME} \subseteq Field
    /\ \A d \in Slot : DiskLabel(d) \in Field \ {SERVER_NAME, BOOT_TIME, START_TIME}
    /\ \A c, d \in Slot : DiskLabel(c) = DiskLabel(d) => c = d
  BY SizesAssumption DEF SERVER_NAME, BOOT_TIME, START_TIME, Field, Slot, DiskLabel

LEMMA InitInv == Init => IInv
  <1> SUFFICES ASSUME Init PROVE IInv
    OBVIOUS
  <1>1. 1 \in Server /\ 1 \in Slot
    BY SizesAssumption DEF Server, Slot
  <1>2. ASSUME NEW s \in Server, NEW f \in Field
        PROVE  Blank(entry[s][f], f)
    <2>1. PICK text : text = IF f = SERVER_NAME THEN <<"name", s>> ELSE None
      OBVIOUS
    <2>2. text \in Text /\ (f # SERVER_NAME => text = None)
      <3>1. s \in Int
        BY SizesAssumption DEF Server
      <3>2. <<"name", s>> \in Text /\ None \in Text
        BY <3>1, TextFacts
      <3> QED
        BY <2>1, <3>2
    <2>3. Formatted
      BY DEF Init, Formatted, Format
    <2>4. entry[s][f] = [mode |-> "clear", msg |-> [fmt \in Format |-> text], n |-> text, t |-> text]
      BY <2>1 DEF Init
    <2> QED
      BY <2>2, <2>3, <2>4, BlankFacts
  <1>3. TypeOK
    <2>1. entry \in [Server -> [Field -> Entry]]
      <3>1. \A s \in Server, f \in Field : entry[s][f] \in Entry
        BY <1>2 DEF Blank
      <3> QED
        BY <3>1 DEF Init
    <2>2. setup \in Setup /\ setup \in Setups
      BY SentinelAssumption DEF Init
    <2>3. limit \in [Server -> [Slot -> Limit]]
      BY <2>2 DEF Init, Setup
    <2>4. last \in [Server -> [Slot -> [percent : Text, blocks : Text]]]
      BY TextFacts DEF Init
    <2> QED
      BY <1>1, <2>1, <2>2, <2>3, <2>4 DEF Init, TypeOK, Format
  <1>4. WarnCountExact
    <2>1. DiskFlags = {}
      BY DEF Init, DiskFlags, Format
    <2> QED
      BY <2>1, FS_EmptySet DEF Init, WarnCountExact
  <1>5. HighlightExact
    <2>1. \A s \in Server, f \in Field : entry[s][f].mode = "clear"
      BY <1>2 DEF Blank
    <2> QED
      BY <2>1, LabelFields DEF Init, HighlightExact
  <1>6. DisplayFaithful
    BY <1>2 DEF Blank, Faithful, DisplayFaithful
  <1>7. LabelsCurrent
    <2>1. \A s \in Server, d \in Slot, fmt \in Format : entry[s][DiskLabel(d)].msg[fmt] = None /\ last[s][d][fmt] = Unread
      BY <1>2, LabelFields DEF Blank, Init, Format
    <2> QED
      BY <2>1 DEF Init, LabelsCurrent
  <1>8. Settled /\ Told
    BY DEF Init, Settled, Told
  <1>9. Plain
    BY <1>2, LabelFields DEF Blank, Plain
  <1> QED
    BY <1>3, <1>4, <1>5, <1>6, <1>7, <1>8, <1>9 DEF IInv

-----------------------------------------------------------------------------
(* Steps that leave warnings and labels alone.                             *)

Quiet == UNCHANGED <<down, warning, last, pending, entry, warn_count, format>>

LEMMA QuietKeeps ==
    ASSUME WarnCountExact, HighlightExact, DisplayFaithful, LabelsCurrent, Plain, Quiet
    PROVE  WarnCountExact' /\ HighlightExact' /\ DisplayFaithful' /\ LabelsCurrent' /\ Plain'
  BY DEF Quiet, WarnCountExact, DiskFlags, HighlightExact, DisplayFaithful, LabelsCurrent, Shown,
         Plain, OneText

LEMMA NextServerFacts ==
    ASSUME TypeOK, NextServer
    PROVE  pc' \in {"server", "super"} /\ at' \in [server : Server, disk : Slot]
  BY SizesAssumption DEF TypeOK, NextServer, Server, Slot

LEMMA NextDiskFacts ==
    ASSUME TypeOK, NextDisk
    PROVE  /\ pc' \in {"server", "disk", "super"} /\ at' \in [server : Server, disk : Slot]
           /\ pc' = "disk" => at'.server = at.server
  <1>1. CASE at.disk < NumDisks
    BY <1>1, SizesAssumption DEF TypeOK, NextDisk, Slot
  <1>2. CASE ~(at.disk < NumDisks)
    BY <1>2, NextServerFacts DEF NextDisk
  <1> QED
    BY <1>1, <1>2

LEMMA QuietInv ==
    ASSUME IInv, ReadPipe \/ ProberDies \/ ServerStillDown \/ BadPartition \/ SkipDisk
                     \/ UpdateSupervisor \/ SwitchWindow \/ Quit
    PROVE  IInv'
  <1> USE DEF disks, counts, view
  <1>1. Quiet
    BY DEF ReadPipe, ProberDies, ServerStillDown, BadPartition, SkipDisk, UpdateSupervisor,
           SwitchWindow, Quit, Quiet
  <1>2. TypeOK'
    <2>1. CASE ReadPipe
      <3>1. 1 \in Server /\ 1 \in Slot
        BY SizesAssumption DEF Server, Slot
      <3> QED
        BY <2>1, <3>1 DEF IInv, TypeOK, ReadPipe
    <2>2. CASE ProberDies \/ BadPartition \/ Quit \/ SwitchWindow
      BY <2>2 DEF IInv, TypeOK, ProberDies, BadPartition, Quit, SwitchWindow
    <2>3. CASE ServerStillDown
      BY <2>3, NextServerFacts DEF IInv, TypeOK, ServerStillDown
    <2>4. CASE SkipDisk
      BY <2>4, NextDiskFacts DEF IInv, TypeOK, SkipDisk
    <2>5. CASE UpdateSupervisor
      BY <2>5 DEF IInv, TypeOK, UpdateSupervisor, SupervisorLabel
    <2> QED
      BY <2>1, <2>2, <2>3, <2>4, <2>5
  <1>3. Settled'
    <2>1. CASE SkipDisk
      BY <2>1, NextDiskFacts DEF IInv, Settled, Here, SkipDisk
    <2>2. CASE ServerStillDown
      BY <2>2, NextServerFacts DEF IInv, Settled, ServerStillDown
    <2>3. CASE ReadPipe \/ ProberDies \/ BadPartition \/ UpdateSupervisor \/ SwitchWindow \/ Quit
      BY <2>3 DEF IInv, Settled, ReadPipe, ProberDies, BadPartition, UpdateSupervisor, SwitchWindow, Quit
    <2> QED
      BY <2>1, <2>2, <2>3
  <1>4. Told'
    <2>1. CASE SkipDisk
      BY <2>1, NextDiskFacts DEF IInv, Told, SkipDisk
    <2>2. CASE ServerStillDown
      BY <2>2, NextServerFacts DEF IInv, Told, ServerStillDown
    <2>3. CASE UpdateSupervisor
      BY <2>3 DEF IInv, TypeOK, Told, UpdateSupervisor, SupervisorLabel
    <2>4. CASE ReadPipe \/ ProberDies \/ BadPartition \/ SwitchWindow \/ Quit
      BY <2>4 DEF IInv, Told, ReadPipe, ProberDies, BadPartition, SwitchWindow, Quit
    <2> QED
      BY <2>1, <2>2, <2>3, <2>4
  <1>5. WarnCountExact' /\ HighlightExact' /\ DisplayFaithful' /\ LabelsCurrent' /\ Plain'
    BY <1>1, QuietKeeps DEF IInv
  <1> QED
    BY <1>2, <1>3, <1>4, <1>5 DEF IInv

-----------------------------------------------------------------------------
(* A server goes down.                                                     *)

LEMMA GoesDownInv == ASSUME IInv, ServerGoesDown PROVE IInv'
  <1> USE DEF disks, counts, view
  <1>1. Here \in Server /\ Here \notin down /\ Formatted
    BY DEF IInv, TypeOK, ServerGoesDown, Here, Formatted
  <1>2. PICK s \in Server : s = Here
    BY <1>1
  <1>3. ASSUME NEW f \in Field
        PROVE  /\ entry'[s][f] \in Entry /\ entry'[s][f].mode = "warn" /\ Faithful(entry'[s][f], f)
               /\ f # SERVER_NAME => \A fmt \in Format : entry'[s][f].msg[fmt] = None
               /\ f = SERVER_NAME => entry'[s][f].msg = entry[s][f].msg
    <2>1. PICK e \in Entry : e = entry[s][f]
      BY DEF IInv, TypeOK
    <2>2. Faithful(e, f)
      BY <2>1 DEF IInv, DisplayFaithful, Faithful
    <2>3. PICK e1 : e1 = IF f = SERVER_NAME THEN e ELSE ChangeBoth(e, f, None)
      OBVIOUS
    <2>4. e1 \in Entry /\ Faithful(e1, f) /\ (f # SERVER_NAME => \A fmt \in Format : e1.msg[fmt] = None)
      BY <1>1, <2>2, <2>3, TextFacts, ChangeBothFacts
    <2>5. entry'[s][f] = FlipLabel(e1, f, "warn")
      BY <1>2, <2>1, <2>3 DEF ServerGoesDown, IInv, TypeOK
    <2>6. "warn" \in {"clear", "warn"}
      OBVIOUS
    <2>7. /\ FlipLabel(e1, f, "warn") \in Entry /\ FlipLabel(e1, f, "warn").mode = "warn"
          /\ FlipLabel(e1, f, "warn").msg = e1.msg /\ Faithful(FlipLabel(e1, f, "warn"), f)
      BY <1>1, <2>4, <2>6, FlipFacts
    <2> QED
      BY <2>1, <2>3, <2>4, <2>5, <2>7
  <1>4. ASSUME NEW r \in Server, r # s PROVE entry'[r] = entry[r] /\ warning'[r] = warning[r] /\ last'[r] = last[r]
    BY <1>2, <1>4 DEF ServerGoesDown, ForgetReadings, IInv, TypeOK
  <1>5. /\ warning'[s] = [d \in Slot |-> {}]
        /\ last'[s] = [d \in Slot |-> [percent |-> Unread, blocks |-> Unread]]
    BY <1>2 DEF ServerGoesDown, ForgetReadings, IInv, TypeOK
  <1>6. TypeOK'
    <2>1. entry' \in [Server -> [Field -> Entry]]
      <3>1. entry'[s] \in [Field -> Entry]
        <4>1. \A f \in Field : entry'[s][f] \in Entry
          BY <1>3
        <4>2. entry'[s] = [f \in Field |-> entry'[s][f]]
          BY <1>2 DEF ServerGoesDown, IInv, TypeOK
        <4> QED
          BY <4>1, <4>2
      <3>2. entry' = [entry EXCEPT ![s] = entry'[s]]
        BY <1>2 DEF ServerGoesDown, IInv, TypeOK
      <3> QED
        BY <3>1, <3>2 DEF IInv, TypeOK
    <2>2. warning' \in [Server -> [Slot -> SUBSET Format]]
      BY <1>2 DEF ServerGoesDown, IInv, TypeOK
    <2>3. last' \in [Server -> [Slot -> [percent : Text, blocks : Text]]]
      BY <1>2, TextFacts DEF ServerGoesDown, ForgetReadings, IInv, TypeOK
    <2>4. Forgotten(Here) \in Int
      <3>1. Cardinality(Flags(Here)) \in Nat /\ Cardinality(BlockFlags(Here)) \in Nat
        BY SizesFinite DEF Flags, BlockFlags
      <3> QED
        BY <3>1 DEF Forgotten
    <2>5. warn_count' \in Int /\ new_trouble' \in Nat
      BY <2>4 DEF ServerGoesDown, IInv, TypeOK
    <2>6. pc' \in {"server", "super"} /\ at' \in [server : Server, disk : Slot]
      BY NextServerFacts DEF ServerGoesDown, IInv
    <2>7. down' \in SUBSET Server
      BY <1>1 DEF ServerGoesDown, IInv, TypeOK
    <2> QED
      BY <2>1, <2>2, <2>3, <2>5, <2>6, <2>7 DEF ServerGoesDown, IInv, TypeOK
  <1>7. WarnCountExact'
    <2>1. warning \in Warned /\ DiskFlags = FlagSet(warning) /\ DiskFlags' = FlagSet(warning')
      BY DEF IInv, TypeOK, Warned, DiskFlags, FlagSet, Triples
    <2>2. Forgotten(s) = Cardinality(FlagsIn(warning, s, "percent")) + Cardinality(FlagsIn(warning, s, "blocks"))
      BY DEF Forgotten, Flags, BlockFlags, FlagsIn
    <2>3. Cardinality(FlagSet(warning')) = Cardinality(FlagSet(warning)) - Forgotten(s)
      <3>1. warning' = [warning EXCEPT ![s] = [d \in Slot |-> {}]]
        BY <1>2 DEF ServerGoesDown
      <3> QED
        BY <2>1, <2>2, <3>1, ServerFlagsOff
    <2>4. Cardinality(down') = Cardinality(down) + 1 /\ Cardinality(down) \in Nat
      <3>1. IsFiniteSet(down)
        BY SizesFinite DEF IInv, TypeOK
      <3> QED
        BY <1>1, <3>1, FS_AddElement, FS_CardinalityType DEF ServerGoesDown
    <2>5. Cardinality(FlagSet(warning)) \in Nat /\ Forgotten(s) \in Int
      <3>1. Cardinality(FlagSet(warning')) \in Nat /\ Cardinality(FlagSet(warning)) \in Nat
        BY FlagSetFinite
      <3>2. \A flag : Cardinality(FlagsIn(warning, s, flag)) \in Nat
        BY SizesFinite DEF FlagsIn
      <3> QED
        BY <2>2, <3>1, <3>2
    <2>6. warn_count = Cardinality(down) + Cardinality(FlagSet(warning))
      BY <2>1 DEF IInv, WarnCountExact
    <2>7. warn_count' = warn_count + 1 - Forgotten(s)
      BY <1>2 DEF ServerGoesDown
    <2>8. warn_count' = Cardinality(down') + Cardinality(FlagSet(warning'))
      BY <2>3, <2>4, <2>5, <2>6, <2>7
    <2> QED
      BY <2>1, <2>8 DEF WarnCountExact
  <1>8. DisplayFaithful'
    <2>1. \A r \in Server, f \in Field : entry'[r][f].n = entry'[r][f].msg[format.nitpick]
              /\ entry'[r][f].t = Shown(f, entry'[r][f].mode, entry'[r][f].msg[format.trouble])
      BY <1>3, <1>4 DEF Faithful, IInv, DisplayFaithful
    <2> QED
      BY <2>1 DEF ServerGoesDown, DisplayFaithful, Shown
  <1>9. HighlightExact'
    <2>1. \A f \in {SERVER_NAME, BOOT_TIME, START_TIME} : f \in Field
      BY LabelFields
    <2>2. \A r \in Server : r \in down' <=> r \in down \/ r = s
      BY <1>2 DEF ServerGoesDown
    <2>3. \A r \in Server, f \in {SERVER_NAME, BOOT_TIME, START_TIME} : entry'[r][f].mode = "warn" <=> r \in down'
      BY <1>3, <1>4, <2>1, <2>2 DEF IInv, HighlightExact
    <2>4. \A r \in Server, d \in Slot : entry'[r][DiskLabel(d)].mode = "warn" <=> r \in down' \/ warning'[r][d] # {}
      BY <1>3, <1>4, <2>2, LabelFields DEF IInv, HighlightExact
    <2> QED
      BY <2>3, <2>4 DEF HighlightExact
  <1>10. LabelsCurrent'
    <2>1. \A d \in Slot :
              /\ last'[s][d] = [percent |-> Unread, blocks |-> Unread]
              /\ \A fmt \in Format : last'[s][d][fmt] = Unread /\ entry'[s][DiskLabel(d)].msg[fmt] = None
      BY <1>3, <1>5, LabelFields DEF Format
    <2>2. \A r \in Server : r # s => (r \in down' <=> r \in down)
      BY <1>2 DEF ServerGoesDown
    <2>3. ASSUME NEW r \in Server, NEW d \in Slot
          PROVE  /\ r \in down' => last'[r][d] = [percent |-> Unread, blocks |-> Unread]
                 /\ \A fmt \in Format : entry'[r][DiskLabel(d)].msg[fmt] =
                        IF last'[r][d][fmt] = Unread THEN None ELSE last'[r][d][fmt]
      <3>1. CASE r = s
        BY <2>1, <3>1
      <3>2. CASE r # s
        BY <1>4, <2>2, <3>2 DEF IInv, LabelsCurrent
      <3> QED
        BY <3>1, <3>2
    <2> QED
      BY <2>3 DEF LabelsCurrent
  <1>11. Settled'
    <2>1. pc' # "disk"
      BY NextServerFacts DEF ServerGoesDown, IInv
    <2>2. \A r \in Server, d \in Slot : r \in down' \cup pending' => warning'[r][d] = {}
      BY <1>2, <1>4, <1>5 DEF ServerGoesDown, IInv, Settled
    <2> QED
      BY <2>1, <2>2 DEF Settled
  <1>12. Told'
    BY NextServerFacts DEF ServerGoesDown, IInv, Told
  <1>13. Plain'
    <2>1. ASSUME NEW r \in Server, NEW f \in {SERVER_NAME, BOOT_TIME, START_TIME}
          PROVE  OneText(entry'[r][f])
      <3>1. CASE r = s
        BY <1>3, <3>1, LabelFields DEF IInv, Plain, OneText, Format
      <3>2. CASE r # s
        BY <1>4, <3>2 DEF IInv, Plain
      <3> QED
        BY <3>1, <3>2
    <2> QED
      BY <2>1 DEF Plain, OneText
  <1> QED
    BY <1>6, <1>7, <1>8, <1>9, <1>10, <1>11, <1>12, <1>13 DEF IInv

-----------------------------------------------------------------------------
(* A server responds.  What its disk sections overwrite was off already.   *)

LEMMA UpdatedFacts ==
    ASSUME Formatted, NEW f, NEW e \in Entry, NEW back, NEW new \in Answer, Faithful(e, f),
           NEW r, r = Updated(e, f, back, new)
    PROVE  /\ r \in Entry /\ Faithful(r, f)
           /\ r.mode = IF back THEN "clear" ELSE e.mode
           /\ f \notin {BOOT_TIME, START_TIME} => r.msg = e.msg
           /\ OneText(e) => OneText(r)
  <1>1. PICK e1 : e1 = IF back THEN FlipLabel(e, f, "clear") ELSE e
    OBVIOUS
  <1>2. /\ e1 \in Entry /\ Faithful(e1, f) /\ e1.msg = e.msg
        /\ e1.mode = IF back THEN "clear" ELSE e.mode
    BY <1>1, FlipFacts
  <1>3. r = e1 \/ (f \in {BOOT_TIME, START_TIME} /\ \E k \in Int : r = ChangeBoth(e1, f, <<"time", k>>))
    <2>1. new.boot \in Int /\ new.start \in Int
      BY DEF Answer
    <2>2. CASE f = BOOT_TIME /\ (back \/ new.boot # times[Here].boot)
      BY <1>1, <2>1, <2>2 DEF Updated, BOOT_TIME, START_TIME
    <2>3. CASE f = START_TIME /\ (back \/ new.start # times[Here].start)
      BY <1>1, <2>1, <2>3 DEF Updated, BOOT_TIME, START_TIME
    <2>4. CASE /\ ~(f = BOOT_TIME /\ (back \/ new.boot # times[Here].boot))
               /\ ~(f = START_TIME /\ (back \/ new.start # times[Here].start))
      BY <1>1, <2>4 DEF Updated
    <2> QED
      BY <2>2, <2>3, <2>4
  <1>4. CASE r = e1
    BY <1>2, <1>4 DEF OneText
  <1>5. CASE f \in {BOOT_TIME, START_TIME} /\ \E k \in Int : r = ChangeBoth(e1, f, <<"time", k>>)
    <2>1. PICK k \in Int : r = ChangeBoth(e1, f, <<"time", k>>)
      BY <1>5
    <2>2. <<"time", k>> \in Text
      BY TextFacts
    <2>3. r \in Entry /\ Faithful(r, f) /\ r.mode = e1.mode /\ OneText(r)
      <3>1. PICK text \in Text : text = <<"time", k>>
        BY <2>2
      <3>2. PICK e2 \in Entry : e2 = e1
        BY <1>2
      <3>3. r = ChangeBoth(e2, f, text) /\ Faithful(e2, f)
        BY <1>2, <2>1, <3>1, <3>2
      <3> QED
        BY <3>2, <3>3, ChangeBothFacts DEF OneText, Format
    <2>4. f \in {BOOT_TIME, START_TIME}
      BY <1>5
    <2> QED
      BY <1>2, <2>3, <2>4
  <1> QED
    BY <1>3, <1>4, <1>5

LEMMA RespondsInv == ASSUME IInv, ServerResponds PROVE IInv'
  <1> USE DEF disks, counts, view
  <1>1. Here \in Server /\ Formatted /\ results[Here] \in Answer
    BY SentinelAssumption DEF IInv, TypeOK, Here, Formatted
  <1>2. PICK s \in Server : s = Here
    BY <1>1
  <1>3. ASSUME NEW f \in Field
        PROVE  /\ entry'[s][f] \in Entry /\ Faithful(entry'[s][f], f)
               /\ entry'[s][f].mode = IF s \in down THEN "clear" ELSE entry[s][f].mode
               /\ f \notin {BOOT_TIME, START_TIME} => entry'[s][f].msg = entry[s][f].msg
               /\ OneText(entry[s][f]) => OneText(entry'[s][f])
    <2>1. PICK e \in Entry : e = entry[s][f]
      BY DEF IInv, TypeOK
    <2>2. Faithful(e, f)
      BY <2>1 DEF IInv, DisplayFaithful, Faithful
    <2>3. PICK new \in Answer : new = results[Here]
      BY <1>1
    <2>4. PICK back : back = (Here \in down)
      OBVIOUS
    <2>5. PICK r : r = Updated(e, f, back, new)
      OBVIOUS
    <2>6. /\ r \in Entry /\ Faithful(r, f) /\ r.mode = IF back THEN "clear" ELSE e.mode
          /\ f \notin {BOOT_TIME, START_TIME} => r.msg = e.msg
          /\ OneText(e) => OneText(r)
      BY <1>1, <2>2, <2>5, UpdatedFacts
    <2>7. entry'[s][f] = Updated(entry[s][f], f, s \in down, results[s])
      BY <1>2 DEF ServerResponds, IInv, TypeOK
    <2>8. entry'[s][f] = r
      BY <1>2, <2>1, <2>3, <2>4, <2>5, <2>7
    <2> QED
      BY <1>2, <2>1, <2>4, <2>6, <2>8
  <1>4. ASSUME NEW r \in Server, r # s PROVE entry'[r] = entry[r]
    BY <1>2, <1>4 DEF ServerResponds, IInv, TypeOK
  <1>5. warning' = warning /\ last' = last /\ format' = format
    <2>1. CASE s \in pending
      <3>1. [d \in Slot |-> IF d \in Initialized(Here) THEN {} ELSE warning[Here][d]] = warning[Here]
        <4>1. \A d \in Slot : warning[s][d] = {}
          BY <2>1 DEF IInv, Settled
        <4>2. warning[s] = [d \in Slot |-> warning[s][d]]
          BY DEF IInv, TypeOK
        <4>3. PICK w : w = warning[Here]
          OBVIOUS
        <4> QED
          BY <1>2, <4>1, <4>2
      <3>2. warning' = [warning EXCEPT ![Here] = warning[Here]]
        BY <3>1 DEF ServerResponds
      <3> QED
        BY <1>2, <3>2 DEF ServerResponds, IInv, TypeOK
    <2>2. CASE s \notin pending
      <3>1. Initialized(Here) = {}
        BY <1>2, <2>2 DEF Initialized
      <3>2. [d \in Slot |-> IF d \in Initialized(Here) THEN {} ELSE warning[Here][d]] = warning[Here]
        BY <1>2, <3>1 DEF IInv, TypeOK
      <3>3. warning' = [warning EXCEPT ![Here] = warning[Here]]
        BY <3>2 DEF ServerResponds
      <3> QED
        BY <1>2, <3>3 DEF ServerResponds, IInv, TypeOK
    <2> QED
      BY <2>1, <2>2
  <1>6. TypeOK'
    <2>1. entry' \in [Server -> [Field -> Entry]]
      <3>1. entry'[s] \in [Field -> Entry]
        <4>1. \A f \in Field : entry'[s][f] \in Entry
          BY <1>3
        <4>2. entry'[s] = [f \in Field |-> entry'[s][f]]
          BY <1>2 DEF ServerResponds, IInv, TypeOK
        <4> QED
          BY <4>1, <4>2
      <3>2. entry' = [entry EXCEPT ![s] = entry'[s]]
        BY <1>2 DEF ServerResponds, IInv, TypeOK
      <3> QED
        BY <3>1, <3>2 DEF IInv, TypeOK
    <2>2. times' \in [Server -> [boot : Nat, start : Nat]]
      BY <1>1 DEF ServerResponds, IInv, TypeOK, Answer
    <2>3. at' \in [server : Server, disk : Slot] /\ pc' = "disk"
      <3>1. 1 \in Slot
        BY SizesAssumption DEF Slot
      <3>2. at' = [at EXCEPT !.disk = 1] /\ at \in [server : Server, disk : Slot] /\ pc' = "disk"
        BY DEF ServerResponds, IInv, TypeOK
      <3> QED
        BY <3>1, <3>2
    <2> QED
      BY <1>5, <2>1, <2>2, <2>3 DEF ServerResponds, IInv, TypeOK
  <1>7. WarnCountExact'
    <2>1. PICK D : D = down
      OBVIOUS
    <2>2. IsFiniteSet(D)
      BY <2>1, SizesFinite DEF IInv, TypeOK
    <2>3. warn_count' - warn_count = Cardinality(down') - Cardinality(down)
      <3>1. CASE s \in down
        <4>1. down' = D \ {s} /\ warn_count' = warn_count - 1 /\ warn_count \in Int
          BY <1>2, <2>1, <3>1 DEF ServerResponds, IInv, TypeOK
        <4>2. Cardinality(D \ {s}) = Cardinality(D) - 1 /\ Cardinality(D) \in Nat
          BY <2>1, <2>2, <3>1, FS_RemoveElement, FS_CardinalityType
        <4> QED
          BY <2>1, <4>1, <4>2
      <3>2. CASE s \notin down
        <4>1. down' = down /\ warn_count' = warn_count
          BY <1>2, <3>2 DEF ServerResponds
        <4> QED
          BY <2>1, <2>2, <4>1, FS_CardinalityType DEF IInv, TypeOK
      <3> QED
        BY <3>1, <3>2
    <2>4. DiskFlags' = DiskFlags /\ DiskFlags = FlagSet(warning)
      BY <1>5 DEF DiskFlags, FlagSet, Triples
    <2>5. Cardinality(down') \in Nat /\ Cardinality(down) \in Nat /\ Cardinality(DiskFlags) \in Nat
      BY <2>4, SizesFinite, FlagSetFinite DEF ServerResponds, IInv, TypeOK
    <2>6. warn_count \in Int /\ warn_count' \in Int /\ warn_count = Cardinality(down) + Cardinality(DiskFlags)
      BY DEF ServerResponds, IInv, TypeOK, WarnCountExact
    <2> QED
      BY <2>3, <2>4, <2>5, <2>6 DEF WarnCountExact
  <1>8. DisplayFaithful'
    <2>1. \A r \in Server, f \in Field : entry'[r][f].n = entry'[r][f].msg[format.nitpick]
              /\ entry'[r][f].t = Shown(f, entry'[r][f].mode, entry'[r][f].msg[format.trouble])
      BY <1>3, <1>4 DEF Faithful, IInv, DisplayFaithful
    <2> QED
      BY <1>5, <2>1 DEF DisplayFaithful, Shown
  <1>9. \A r \in Server : r \in down' <=> r \in down /\ r # s
    BY <1>2 DEF ServerResponds
  <1>10. HighlightExact'
    <2>1. \A r \in Server, f \in {SERVER_NAME, BOOT_TIME, START_TIME} : entry'[r][f].mode = "warn" <=> r \in down'
      BY <1>3, <1>4, <1>9, LabelFields DEF IInv, HighlightExact
    <2>2. \A d \in Slot : s \in down => warning[s][d] = {}
      BY DEF IInv, Settled
    <2>3. \A r \in Server, d \in Slot : entry'[r][DiskLabel(d)].mode = "warn" <=> r \in down' \/ warning[r][d] # {}
      BY <1>3, <1>4, <1>9, <2>2, LabelFields DEF IInv, HighlightExact
    <2> QED
      BY <1>5, <2>1, <2>3 DEF HighlightExact
  <1>11. LabelsCurrent'
    <2>1. \A r \in Server, d \in Slot : entry'[r][DiskLabel(d)].msg = entry[r][DiskLabel(d)].msg
      BY <1>3, <1>4, LabelFields
    <2> QED
      BY <1>5, <1>9, <2>1 DEF IInv, LabelsCurrent
  <1>12. Settled'
    <2>1. Here' = Here
      BY DEF ServerResponds, Here, IInv, TypeOK
    <2> QED
      BY <1>2, <1>5, <1>9, <2>1 DEF ServerResponds, IInv, Settled
  <1>13. Told'
    BY DEF ServerResponds, IInv, Told
  <1>14. Plain'
    <2>1. \A r \in Server, f \in {SERVER_NAME, BOOT_TIME, START_TIME} : OneText(entry'[r][f])
      BY <1>3, <1>4, LabelFields DEF IInv, Plain
    <2> QED
      BY <2>1 DEF Plain, OneText
  <1> QED
    BY <1>6, <1>7, <1>8, <1>10, <1>11, <1>12, <1>13, <1>14 DEF IInv

-----------------------------------------------------------------------------
(* A disk is checked.                                                      *)

LEMMA PercentFullType == ASSUME NEW r \in Disk PROVE PercentFull(r) \in Int
  <1>1. PICK total \in Nat \ {0}, used \in Int : total = r.total /\ used = r.total - r.avail
    BY DEF Disk
  <1>2. Int32(100 * used) \in Int
    BY DEF Int32
  <1>3. PICK u \in Int : u = Int32(100 * used)
    BY <1>2
  <1>4. PercentFull(r) = IF u >= 0 THEN u \div total ELSE -((-u) \div total)
    BY <1>1, <1>3 DEF PercentFull
  <1> QED
    BY <1>4

LEMMA CheckDiskInv == ASSUME IInv, CheckDisk PROVE IInv'
  <1> USE DEF disks, counts, view
  <1>1. PICK s \in Server, d \in Slot : s = Here /\ d = at.disk
    BY DEF IInv, TypeOK, Here
  <1>2. PICK f \in Field : f = DiskLabel(d)
    BY LabelFields
  <1>3. PICK r \in Disk : r = results[s].disk[d]
    <2>1. results[s] \in Answer
      BY SentinelAssumption DEF IInv, TypeOK
    <2>2. results[s].disk[d] \in Disk \cup {NoDisk}
      BY <2>1 DEF Answer
    <2> QED
      BY <1>1, <2>2 DEF CheckDisk, Untouched
  <1>4. PICK full \in Int, avail \in Int : full = PercentFull(r) /\ avail = r.avail
    BY PercentFullType DEF Disk
  <1>5. PICK full_bad, low_bad : /\ full_bad = (full >= limit[s][d].percent)
                                 /\ low_bad = (avail < limit[s][d].blocks)
    OBVIOUS
  <1>6. PICK now : now = [percent |-> <<"percent", full>>, blocks |-> <<"blocks", avail>>]
    OBVIOUS
  <1>7. PICK j0 : j0 = [warning |-> warning[s][d], entry |-> entry[s][f], count |-> warn_count, fresh |-> new_trouble]
    OBVIOUS
  <1>8. PICK j1 : j1 = Judge(j0, f, "percent", full_bad)
    OBVIOUS
  <1>9. PICK j2 : j2 = Judge(j1, f, "blocks", low_bad)
    OBVIOUS
  <1>10. PICK e : e = Refreshed(j2.entry, f, last[s][d], now.percent, now.blocks)
    OBVIOUS
  <1>11. /\ warning' = [warning EXCEPT ![s][d] = j2.warning]
         /\ entry' = [entry EXCEPT ![s][f] = e]
         /\ last' = [last EXCEPT ![s][d] = now]
         /\ warn_count' = j2.count /\ new_trouble' = j2.fresh
         /\ NextDisk
         /\ UNCHANGED <<setup, results, down, limit, pending, times, view>>
    BY <1>1, <1>2, <1>3, <1>4, <1>5, <1>6, <1>7, <1>8, <1>9, <1>10 DEF CheckDisk
  <1>12. Formatted /\ s \notin down \cup pending
    BY <1>1 DEF IInv, TypeOK, Settled, CheckDisk, Formatted
  <1>13. j0 \in Verdict /\ Marked(j0) /\ Faithful(j0.entry, f)
    <2>1. j0 \in Verdict
      BY <1>7 DEF IInv, TypeOK, Verdict
    <2>2. Marked(j0)
      BY <1>2, <1>7, <1>12 DEF IInv, HighlightExact, Marked
    <2>3. Faithful(j0.entry, f)
      BY <1>7 DEF IInv, DisplayFaithful, Faithful
    <2> QED
      BY <2>1, <2>2, <2>3
  <1>14. "percent" \in Format /\ "blocks" \in Format
    BY DEF Format
  <1>15. /\ j1 \in Verdict /\ Marked(j1) /\ Faithful(j1.entry, f)
         /\ j1.entry.msg = j0.entry.msg /\ Stepped(j0, j1, "percent")
    BY <1>8, <1>12, <1>13, <1>14, JudgeFacts
  <1>16. /\ j2 \in Verdict /\ Marked(j2) /\ Faithful(j2.entry, f)
         /\ j2.entry.msg = j1.entry.msg /\ Stepped(j1, j2, "blocks")
    BY <1>9, <1>12, <1>14, <1>15, JudgeFacts
  <1>17. now \in Reading /\ now.percent # Unread /\ now.blocks # Unread
    BY <1>6, TextFacts DEF Reading
  <1>18. last[s][d] \in Reading
    BY DEF IInv, TypeOK, Reading
  <1>19. e \in Entry /\ e.mode = j2.entry.mode /\ Faithful(e, f) /\ Tells(e, now)
    <2>1. Tells(j2.entry, last[s][d])
      BY <1>2, <1>7, <1>15, <1>16 DEF IInv, LabelsCurrent, Tells
    <2>2. j2.entry \in Entry
      BY <1>16 DEF Verdict
    <2> QED
      BY <1>10, <1>12, <1>16, <1>17, <1>18, <2>1, <2>2, RefreshedFacts
  <1>20. /\ entry'[s][f] = e /\ warning'[s][d] = j2.warning /\ last'[s][d] = now
         /\ \A p \in Server, c \in Field : p # s \/ c # f => entry'[p][c] = entry[p][c]
         /\ \A p \in Server, c \in Slot : p # s \/ c # d => warning'[p][c] = warning[p][c] /\ last'[p][c] = last[p][c]
    BY <1>11 DEF IInv, TypeOK
  <1>21. TypeOK'
    <2>1. entry' \in [Server -> [Field -> Entry]]
      BY <1>11, <1>19 DEF IInv, TypeOK
    <2>2. warning' \in [Server -> [Slot -> SUBSET Format]] /\ warn_count' \in Int /\ new_trouble' \in Nat
      BY <1>11, <1>16 DEF IInv, TypeOK, Verdict
    <2>3. last' \in [Server -> [Slot -> [percent : Text, blocks : Text]]]
      BY <1>11, <1>17 DEF IInv, TypeOK, Reading
    <2>4. pc' \in {"server", "disk", "super"} /\ at' \in [server : Server, disk : Slot]
      BY <1>11, NextDiskFacts DEF IInv
    <2> QED
      BY <1>11, <2>1, <2>2, <2>3, <2>4 DEF IInv, TypeOK
  <1>22. WarnCountExact'
    <2>1. PICK w \in Warned : w = warning
      BY DEF IInv, TypeOK, Warned
    <2>2. PICK w1 : w1 = [w EXCEPT ![s][d] = j1.warning]
      OBVIOUS
    <2>3. /\ w1[s][d] = j1.warning /\ Elsewhere(w, w1, s, d)
          /\ warning'[s][d] = j2.warning
      BY <1>20, <2>2 DEF Warned, Elsewhere
    <2>4. Elsewhere(w1, warning', s, d)
      BY <1>20, <2>1, <2>3 DEF Elsewhere
    <2>5. w[s][d] = j0.warning
      BY <1>7, <2>1
    <2>6. /\ Cardinality(FlagSet(w)) \in Nat /\ Cardinality(FlagSet(w1)) \in Nat
          /\ Cardinality(FlagSet(warning')) \in Nat /\ Cardinality(down) \in Nat
      BY FlagSetFinite, SizesFinite DEF IInv, TypeOK
    <2>7. j0.count \in Int /\ j1.count \in Int /\ j2.count \in Int
      BY <1>13, <1>15, <1>16 DEF Verdict
    <2>8. Cardinality(FlagSet(w1)) - j1.count = Cardinality(FlagSet(w)) - j0.count
      BY <1>14, <1>15, <2>3, <2>5, <2>7, SteppedCounts
    <2>9. Cardinality(FlagSet(warning')) - j2.count = Cardinality(FlagSet(w1)) - j1.count
      BY <1>14, <1>16, <2>3, <2>4, <2>7, SteppedCounts
    <2>10. DiskFlags = FlagSet(w) /\ DiskFlags' = FlagSet(warning')
      BY <2>1 DEF DiskFlags, FlagSet, Triples
    <2>11. j0.count = Cardinality(down) + Cardinality(FlagSet(w))
      BY <1>7, <2>10 DEF IInv, WarnCountExact
    <2>12. warn_count' = Cardinality(down) + Cardinality(FlagSet(warning'))
      <3>1. PICK c0 \in Int, c1 \in Int, c2 \in Int : c0 = j0.count /\ c1 = j1.count /\ c2 = j2.count
        BY <2>7
      <3>2. PICK n0 \in Nat, n1 \in Nat, n2 \in Nat, m \in Nat :
                /\ n0 = Cardinality(FlagSet(w)) /\ n1 = Cardinality(FlagSet(w1))
                /\ n2 = Cardinality(FlagSet(warning')) /\ m = Cardinality(down)
        BY <2>6
      <3>3. n1 - c1 = n0 - c0 /\ n2 - c2 = n1 - c1 /\ c0 = m + n0
        BY <2>8, <2>9, <2>11, <3>1, <3>2
      <3>4. c2 = m + n2
        BY <3>3
      <3> QED
        BY <1>11, <3>1, <3>2, <3>4
    <2> QED
      BY <1>11, <2>10, <2>12 DEF WarnCountExact
  <1>23. DisplayFaithful'
    <2>1. ASSUME NEW p \in Server, NEW c \in Field
          PROVE  Faithful(entry'[p][c], c)
      <3>1. CASE p = s /\ c = f
        BY <1>19, <1>20, <3>1
      <3>2. CASE p # s \/ c # f
        BY <1>20, <3>2 DEF IInv, DisplayFaithful, Faithful
      <3> QED
        BY <3>1, <3>2
    <2> QED
      BY <1>11, <2>1 DEF DisplayFaithful, Faithful, Shown
  <1>24. HighlightExact'
    <2>1. \A p \in Server, c \in {SERVER_NAME, BOOT_TIME, START_TIME} : entry'[p][c].mode = "warn" <=> p \in down
      BY <1>2, <1>20, LabelFields DEF IInv, HighlightExact
    <2>2. entry'[s][f].mode = "warn" <=> s \in down \/ warning'[s][d] # {}
      BY <1>12, <1>16, <1>19, <1>20 DEF Marked
    <2>3. ASSUME NEW p \in Server, NEW c \in Slot
          PROVE  entry'[p][DiskLabel(c)].mode = "warn" <=> p \in down \/ warning'[p][c] # {}
      <3>1. CASE p = s /\ c = d
        BY <1>2, <2>2, <3>1
      <3>2. CASE p # s \/ c # d
        <4>1. p # s \/ DiskLabel(c) # f
          BY <1>2, <3>2, LabelFields
        <4> QED
          BY <1>20, <3>2, <4>1, LabelFields DEF IInv, HighlightExact
      <3> QED
        BY <3>1, <3>2
    <2> QED
      BY <1>11, <2>1, <2>3 DEF HighlightExact
  <1>25. LabelsCurrent'
    <2>1. ASSUME NEW p \in Server, NEW c \in Slot
          PROVE  /\ p \in down => last'[p][c] = [percent |-> Unread, blocks |-> Unread]
                 /\ Tells(entry'[p][DiskLabel(c)], last'[p][c])
      <3>1. CASE p = s /\ c = d
        BY <1>2, <1>12, <1>19, <1>20, <3>1
      <3>2. CASE p # s \/ c # d
        <4>1. p # s \/ DiskLabel(c) # f
          BY <1>2, <3>2, LabelFields
        <4>2. entry'[p][DiskLabel(c)] = entry[p][DiskLabel(c)] /\ last'[p][c] = last[p][c]
          BY <1>20, <3>2, <4>1, LabelFields
        <4> QED
          BY <4>2 DEF IInv, LabelsCurrent, Tells
      <3> QED
        BY <3>1, <3>2
    <2> QED
      BY <1>11, <2>1 DEF LabelsCurrent, Tells
  <1>26. Settled'
    <2>1. pc' = "disk" => Here' = Here
      BY <1>11, NextDiskFacts DEF IInv, Here
    <2>2. \A p \in Server, c \in Slot : p \in down \cup pending => warning'[p][c] = {}
      BY <1>12, <1>20 DEF IInv, Settled
    <2> QED
      BY <1>1, <1>11, <1>12, <2>1, <2>2 DEF Settled
  <1>27. Told'
    BY <1>11, NextDiskFacts DEF IInv, Told
  <1>28. Plain'
    <2>1. \A p \in Server, c \in {SERVER_NAME, BOOT_TIME, START_TIME} : entry'[p][c] = entry[p][c]
      BY <1>2, <1>20, LabelFields
    <2> QED
      BY <2>1 DEF IInv, Plain, OneText
  <1> QED
    BY <1>21, <1>22, <1>23, <1>24, <1>25, <1>26, <1>27, <1>28 DEF IInv

-----------------------------------------------------------------------------
(* The format buttons.                                                     *)

LEMMA OtherFacts == /\ \A fmt \in Format : Other(fmt) \in Format
                    /\ \A e \in Entry, x, y \in Format : OneText(e) => e.msg[x] = e.msg[y]
  BY DEF Other, Format, OneText

(* A button changes what a label shows, not its texts or its highlight.    *)
Relabelled == \A s \in Server, f \in Field :
                  /\ entry'[s][f] \in Entry
                  /\ entry'[s][f].mode = entry[s][f].mode /\ entry'[s][f].msg = entry[s][f].msg

LEMMA RelabelledKeeps ==
    ASSUME IInv, Relabelled, UNCHANGED <<down, warning, last, warn_count>>
    PROVE  WarnCountExact' /\ HighlightExact' /\ LabelsCurrent' /\ Plain'
  <1>1. WarnCountExact'
    BY DEF IInv, WarnCountExact, DiskFlags
  <1>2. HighlightExact'
    BY LabelFields DEF IInv, HighlightExact, Relabelled
  <1>3. LabelsCurrent'
    BY LabelFields DEF IInv, LabelsCurrent, Relabelled
  <1>4. Plain'
    BY LabelFields DEF IInv, Plain, OneText, Relabelled
  <1> QED
    BY <1>1, <1>2, <1>3, <1>4

LEMMA SwitchNitpickInv == ASSUME IInv, SwitchNitpick PROVE IInv'
  <1> USE DEF disks, counts
  <1>1. PICK fmt \in Format, tr \in Format : format' = [trouble |-> tr, nitpick |-> fmt] /\ format.trouble = tr
    BY OtherFacts DEF IInv, TypeOK, SwitchNitpick
  <1>2. ASSUME NEW s \in Server, NEW f \in Field
        PROVE  /\ entry'[s][f] \in Entry
               /\ entry'[s][f].mode = entry[s][f].mode /\ entry'[s][f].msg = entry[s][f].msg
               /\ entry'[s][f].t = entry[s][f].t /\ entry'[s][f].n = entry[s][f].msg[fmt]
    <2>1. PICK e \in Entry : e = entry[s][f] /\ e.n = e.msg[format.nitpick]
      BY DEF IInv, TypeOK, DisplayFaithful
    <2>2. format.nitpick \in Format
      BY DEF IInv, TypeOK
    <2>3. CASE f \in {DiskLabel(d) : d \in Slot}
      <3>1. entry'[s][f] = [e EXCEPT !.n = e.msg[fmt]]
        BY <1>1, <2>1, <2>3 DEF SwitchNitpick
      <3> QED
        BY <2>1, <3>1 DEF Entry
    <2>4. CASE f \notin {DiskLabel(d) : d \in Slot}
      <3>1. entry'[s][f] = e
        BY <2>1, <2>4 DEF SwitchNitpick
      <3>2. f \in {SERVER_NAME, BOOT_TIME, START_TIME}
        BY <2>4, OtherFields
      <3>3. OneText(e)
        BY <2>1, <3>2 DEF IInv, Plain
      <3> QED
        BY <2>1, <2>2, <3>1, <3>3, OtherFacts
    <2> QED
      BY <2>3, <2>4
  <1>3. Relabelled
    BY <1>2 DEF Relabelled
  <1>4. WarnCountExact' /\ HighlightExact' /\ LabelsCurrent' /\ Plain'
    BY <1>3, RelabelledKeeps DEF SwitchNitpick
  <1>5. TypeOK'
    <2>1. entry' \in [Server -> [Field -> Entry]]
      BY <1>2 DEF SwitchNitpick
    <2>2. format' \in [trouble : Format, nitpick : Format]
      BY <1>1
    <2>3. UNCHANGED <<setup, results, pc, at, down, warning, limit, last, pending, times,
                      warn_count, new_trouble, old_count, window, super>>
      BY DEF SwitchNitpick
    <2> QED
      BY <2>1, <2>2, <2>3 DEF IInv, TypeOK
  <1>6. DisplayFaithful'
    BY <1>1, <1>2 DEF IInv, DisplayFaithful, Shown
  <1>7. Settled' /\ Told'
    BY DEF SwitchNitpick, IInv, Settled, Told
  <1> QED
    BY <1>4, <1>5, <1>6, <1>7 DEF IInv

LEMMA SwitchTroubleInv == ASSUME IInv, SwitchTrouble PROVE IInv'
  <1> USE DEF disks, counts
  <1>1. PICK fmt \in Format, ni \in Format : format' = [trouble |-> fmt, nitpick |-> ni] /\ format.nitpick = ni
    BY OtherFacts DEF IInv, TypeOK, SwitchTrouble
  <1>2. ASSUME NEW s \in Server, NEW f \in Field
        PROVE  /\ entry'[s][f] \in Entry
               /\ entry'[s][f].mode = entry[s][f].mode /\ entry'[s][f].msg = entry[s][f].msg
               /\ entry'[s][f].n = entry[s][f].n
               /\ entry'[s][f].t = Shown(f, entry[s][f].mode, entry[s][f].msg[fmt])
    <2>1. PICK e \in Entry : e = entry[s][f] /\ e.t = Shown(f, e.mode, e.msg[format.trouble])
      BY DEF IInv, TypeOK, DisplayFaithful
    <2>2. format.trouble \in Format
      BY DEF IInv, TypeOK
    <2>3. CASE f \in {DiskLabel(d) : d \in Slot} /\ e.mode = "warn"
      <3>1. entry'[s][f] = [e EXCEPT !.t = e.msg[fmt]]
        BY <1>1, <2>1, <2>3 DEF SwitchTrouble
      <3> QED
        BY <2>1, <2>3, <3>1 DEF Entry, Shown
    <2>4. CASE f \in {DiskLabel(d) : d \in Slot} /\ e.mode # "warn"
      <3>1. entry'[s][f] = e
        BY <2>1, <2>4 DEF SwitchTrouble
      <3>2. f # SERVER_NAME /\ e.mode = "clear"
        BY <2>4, LabelFields DEF Entry
      <3> QED
        BY <2>1, <3>1, <3>2 DEF Shown
    <2>5. CASE f \notin {DiskLabel(d) : d \in Slot}
      <3>1. entry'[s][f] = e
        BY <2>1, <2>5 DEF SwitchTrouble
      <3>2. f \in {SERVER_NAME, BOOT_TIME, START_TIME}
        BY <2>5, OtherFields
      <3>3. OneText(e)
        BY <2>1, <3>2 DEF IInv, Plain
      <3>4. e.msg[fmt] = e.msg[format.trouble]
        BY <2>2, <3>3, OtherFacts
      <3> QED
        BY <2>1, <3>1, <3>4
    <2> QED
      BY <2>3, <2>4, <2>5
  <1>3. Relabelled
    BY <1>2 DEF Relabelled
  <1>4. WarnCountExact' /\ HighlightExact' /\ LabelsCurrent' /\ Plain'
    BY <1>3, RelabelledKeeps DEF SwitchTrouble
  <1>5. TypeOK'
    <2>1. entry' \in [Server -> [Field -> Entry]]
      BY <1>2 DEF SwitchTrouble
    <2>2. format' \in [trouble : Format, nitpick : Format]
      BY <1>1
    <2>3. UNCHANGED <<setup, results, pc, at, down, warning, limit, last, pending, times,
                      warn_count, new_trouble, old_count, window, super>>
      BY DEF SwitchTrouble
    <2> QED
      BY <2>1, <2>2, <2>3 DEF IInv, TypeOK
  <1>6. DisplayFaithful'
    BY <1>1, <1>2 DEF IInv, DisplayFaithful, Shown
  <1>7. Settled' /\ Told'
    BY DEF SwitchTrouble, IInv, Settled, Told
  <1> QED
    BY <1>4, <1>5, <1>6, <1>7 DEF IInv

-----------------------------------------------------------------------------
(* The theorems.                                                           *)

LEMMA Inductive == IInv /\ [Next]_vars => IInv'
  <1> SUFFICES ASSUME IInv, [Next]_vars PROVE IInv'
    OBVIOUS
  <1>1. CASE ServerGoesDown
    BY <1>1, GoesDownInv
  <1>2. CASE ServerResponds
    BY <1>2, RespondsInv
  <1>3. CASE CheckDisk
    BY <1>3, CheckDiskInv
  <1>4. CASE SwitchNitpick
    BY <1>4, SwitchNitpickInv
  <1>5. CASE SwitchTrouble
    BY <1>5, SwitchTroubleInv
  <1>6. CASE ReadPipe \/ ProberDies \/ ServerStillDown \/ BadPartition \/ SkipDisk
                 \/ UpdateSupervisor \/ SwitchWindow \/ Quit
    BY <1>6, QuietInv
  <1>7. CASE UNCHANGED vars
    <2>1. Quiet
      BY <1>7 DEF vars, disks, counts, view, Quiet
    <2>2. WarnCountExact' /\ HighlightExact' /\ DisplayFaithful' /\ LabelsCurrent' /\ Plain'
      BY <2>1, QuietKeeps DEF IInv
    <2>3. TypeOK'
      BY <1>7 DEF IInv, TypeOK, vars, disks, counts, view
    <2>4. Settled' /\ Told'
      BY <1>7 DEF IInv, Settled, Told, Here, vars, disks, counts, view
    <2> QED
      BY <2>2, <2>3, <2>4 DEF IInv
  <1> QED
    BY <1>1, <1>2, <1>3, <1>4, <1>5, <1>6, <1>7 DEF Next, Round

LEMMA Invariance == Spec => []IInv
  BY InitInv, Inductive, PTL DEF Spec

(* The loops of process_data stay within the configured servers and their  *)
(* disks, and no counter or label leaves its type.                         *)
THEOREM TypeCorrect == Spec => []TypeOK
  <1>1. IInv => TypeOK
    BY DEF IInv
  <1> QED
    BY <1>1, Invariance, PTL

(* warn_count, kept by eight additions and subtractions, is the number of  *)
(* warnings that are on, in every state.                                   *)
THEOREM WarningsCounted == Spec => []WarnCountExact
  <1>1. IInv => WarnCountExact
    BY DEF IInv
  <1> QED
    BY <1>1, Invariance, PTL

(* Every label is highlighted exactly when there is something wrong that   *)
(* it tells of, in every state.                                            *)
THEOREM HighlightsRight == Spec => []HighlightExact
  <1>1. IInv => HighlightExact
    BY DEF IInv
  <1> QED
    BY <1>1, Invariance, PTL

(* Both windows show the text of their format, in every state, whatever    *)
(* the buttons and the probes have done.                                   *)
THEOREM WindowsFaithful == Spec => []DisplayFaithful
  <1>1. IInv => DisplayFaithful
    BY DEF IInv
  <1> QED
    BY <1>1, Invariance, PTL

(* The disk labels tell the last reading, although check_disk rewrites     *)
(* them only when the reading has changed.                                 *)
THEOREM ReadingsShown == Spec => []LabelsCurrent
  <1>1. IInv => LabelsCurrent
    BY DEF IInv
  <1> QED
    BY <1>1, Invariance, PTL

(* Between two rounds the supervisor says that something is wrong exactly  *)
(* when a warning is on: its label follows the count, and the count is     *)
(* zero exactly when no warning is on.                                     *)
THEOREM SupervisorRight == Spec => []SupervisorTells
  <1>1. IInv => SupervisorTells
    <2> SUFFICES ASSUME IInv, pc = "idle" PROVE super = "warn" <=> down # {} \/ DiskFlags # {}
      BY DEF SupervisorTells
    <2>1. super = "warn" <=> warn_count # 0
      BY DEF IInv, Told
    <2>2. PICK D : D = DiskFlags
      OBVIOUS
    <2>3. IsFiniteSet(down) /\ IsFiniteSet(D)
      <3>1. DiskFlags = FlagSet(warning)
        BY DEF DiskFlags, FlagSet, Triples
      <3> QED
        BY <2>2, <3>1, FlagSetFinite, SizesFinite DEF IInv, TypeOK
    <2>4. /\ Cardinality(down) \in Nat /\ Cardinality(D) \in Nat
          /\ Cardinality(down) = 0 <=> down = {}
          /\ Cardinality(D) = 0 <=> D = {}
      BY <2>3, FS_CardinalityType, FS_EmptySet
    <2>5. warn_count = Cardinality(down) + Cardinality(D)
      BY <2>2 DEF IInv, WarnCountExact
    <2>6. warn_count = 0 <=> down = {} /\ D = {}
      BY <2>4, <2>5
    <2> QED
      BY <2>1, <2>2, <2>6
  <1> QED
    BY <1>1, Invariance, PTL

(* Text, highlight and reading of every label, together.                   *)
THEOREM DisplayRight == Spec => []DisplayExact
  <1>1. DisplayFaithful /\ HighlightExact /\ LabelsCurrent /\ SupervisorTells => DisplayExact
    BY DEF DisplayExact
  <1> QED
    BY <1>1, WindowsFaithful, HighlightsRight, ReadingsShown, SupervisorRight, PTL

-----------------------------------------------------------------------------
(* The flags at the end of a round.                                        *)

LEMMA ProductsOrdered ==
    ASSUME NEW a \in Int, NEW b \in Int, NEW t \in Nat, a <= b
    PROVE  a * t <= b * t
  <1>1. PICK k \in Nat : b = a + k
    <2>1. b - a \in Nat /\ b = a + (b - a)
      OBVIOUS
    <2> QED
      BY <2>1
  <1>2. b * t = a * t + k * t
    BY <1>1
  <1>3. k * t >= 0 /\ k * t \in Int /\ a * t \in Int
    OBVIOUS
  <1> QED
    BY <1>2, <1>3

LEMMA QuotientReaches ==
    ASSUME NEW u \in Nat, NEW t \in Nat \ {0}, NEW l \in Nat
    PROVE  u \div t >= l <=> u >= l * t
  <1>1. PICK q \in Int, m \in 0..(t - 1) : q = u \div t /\ u = q * t + m
    <2>1. u \div t \in Int /\ u % t \in 0..(t - 1)
      OBVIOUS
    <2>2. u = (u \div t) * t + (u % t)
      OBVIOUS
    <2> QED
      BY <2>1, <2>2
  <1>2. l * t \in Int /\ q * t \in Int /\ (q + 1) * t = q * t + t
    OBVIOUS
  <1>3. CASE q >= l
    <2>1. l * t <= q * t
      BY <1>3, ProductsOrdered
    <2> QED
      BY <1>1, <1>2, <1>3, <2>1
  <1>4. CASE q < l
    <2>1. (q + 1) * t <= l * t
      <3>1. q + 1 \in Int /\ q + 1 <= l
        BY <1>4
      <3> QED
        BY <3>1, ProductsOrdered
    <2> QED
      BY <1>1, <1>2, <1>4, <2>1
  <1> QED
    BY <1>3, <1>4

(* The percentage of a disk 100 times whose size fits an int.              *)
LEMMA PercentReaches ==
    ASSUME NEW r \in Disk, r.avail \in 0..r.total, 100 * r.total < 2048, NEW l \in Nat
    PROVE  PercentFull(r) >= l <=> 100 * (r.total - r.avail) >= l * r.total
  <1>1. PICK t \in Nat \ {0}, a \in Nat : t = r.total /\ a = r.avail /\ a <= t /\ 100 * t < 2048
    BY DEF Disk
  <1>2. PICK u \in Nat : u = 100 * (t - a) /\ u < 2048
    <2>1. 100 * (t - a) \in Nat /\ 100 * (t - a) < 2048
      BY <1>1
    <2> QED
      BY <2>1
  <1>3. Int32(u) = u
    BY <1>2 DEF Int32
  <1>4. PercentFull(r) = u \div t
    BY <1>1, <1>2, <1>3 DEF PercentFull
  <1> QED
    BY <1>1, <1>2, <1>4, QuotientReaches

DiskTold(s, d) ==
    LET r == results[s].disk[d]
    IN  r # NoDisk /\ r.avail \in 0..r.total /\ 100 * r.total < 2048 =>
            \A flag \in Format : flag \in warning[s][d] <=> Passes(r, limit[s][d], flag)
ServerTold(s) == /\ s \in down <=> results[s].down
                 /\ ~results[s].down => \A d \in Slot : DiskTold(s, d)

(* The servers and the disks the round has passed have their flags right.  *)
Progress ==
    /\ pc \in {"server", "disk"} => \A s \in Server : s < at.server => ServerTold(s)
    /\ pc = "disk" => /\ ~results[Here].down /\ Here \notin down
                      /\ \A d \in Slot : d < at.disk => DiskTold(Here, d)
    /\ pc = "super" => \A s \in Server : ServerTold(s)

LEMMA NextServerProgress ==
    ASSUME TypeOK, NextServer, NEW n \in Server, n = Here,
           \A s \in Server : s <= n => ServerTold(s)'
    PROVE  Progress'
  <1>1. n = at.server /\ n \in Int /\ NumServers \in Int /\ \A s \in Server : s \in Int /\ s <= NumServers
    BY SizesAssumption DEF Here, Server
  <1>2. CASE n < NumServers
    <2>1. pc' = "server" /\ at'.server = n + 1
      BY <1>1, <1>2 DEF NextServer
    <2>2. \A s \in Server : s < n + 1 => s <= n
      BY <1>1
    <2> QED
      BY <2>1, <2>2 DEF Progress
  <1>3. CASE ~(n < NumServers)
    <2>1. pc' = "super"
      BY <1>1, <1>3 DEF NextServer
    <2>2. \A s \in Server : s <= n
      BY <1>1, <1>3
    <2> QED
      BY <2>1, <2>2 DEF Progress
  <1> QED
    BY <1>2, <1>3

LEMMA NextDiskProgress ==
    ASSUME TypeOK, NextDisk, NEW n \in Server, n = Here, NEW d \in Slot, d = at.disk,
           ~results'[n].down, n \notin down',
           \A s \in Server : s < n => ServerTold(s)',
           \A c \in Slot : c <= d => DiskTold(n, c)'
    PROVE  Progress'
  <1>1. n = at.server /\ d \in Int /\ NumDisks \in Int /\ \A c \in Slot : c \in Int /\ c <= NumDisks
    BY SizesAssumption DEF Here, Slot
  <1>2. CASE d < NumDisks
    <2>1. pc' = "disk" /\ at'.disk = d + 1 /\ at'.server = n
      BY <1>1, <1>2 DEF NextDisk, TypeOK
    <2>2. \A c \in Slot : c < d + 1 => c <= d
      BY <1>1
    <2> QED
      BY <2>1, <2>2 DEF Progress, Here
  <1>3. CASE ~(d < NumDisks)
    <2>1. NextServer
      BY <1>1, <1>3 DEF NextDisk
    <2>2. \A c \in Slot : c <= d
      BY <1>1, <1>3
    <2>3. ServerTold(n)'
      BY <2>2 DEF ServerTold
    <2>4. \A s \in Server : s <= n => s < n \/ s = n
      BY SizesAssumption DEF Server
    <2>5. \A s \in Server : s <= n => ServerTold(s)'
      BY <2>3, <2>4
    <2> QED
      BY <2>1, <2>5, NextServerProgress
  <1> QED
    BY <1>2, <1>3

(* A step at one disk of one server leaves the others as they were told.   *)
SameAt(s) == /\ results'[s] = results[s] /\ limit'[s] = limit[s]
             /\ warning'[s] = warning[s] /\ (s \in down' <=> s \in down)

LEMMA SameTold ==
    ASSUME NEW s \in Server, SameAt(s)
    PROVE  /\ ServerTold(s) => ServerTold(s)'
           /\ \A d \in Slot : DiskTold(s, d) => DiskTold(s, d)'
  BY DEF SameAt, ServerTold, DiskTold

LEMMA InitProgress == Init => Progress
  BY DEF Init, Progress

LEMMA CheckDiskProgress == ASSUME IInv, Progress, CheckDisk PROVE Progress'
  <1> USE DEF disks, counts, view
  <1>1. PICK s \in Server, d \in Slot : s = Here /\ d = at.disk
    BY DEF IInv, TypeOK, Here
  <1>2. PICK r \in Disk : r = results[s].disk[d]
    <2>1. results[s] \in Answer
      BY SentinelAssumption DEF IInv, TypeOK
    <2>2. results[s].disk[d] \in Disk \cup {NoDisk}
      BY <2>1 DEF Answer
    <2> QED
      BY <1>1, <2>2 DEF CheckDisk, Untouched
  <1>3. PICK lim \in Limit : lim = limit[s][d]
    BY DEF IInv, TypeOK
  <1>4. PICK full \in Int, avail \in Nat : full = PercentFull(r) /\ avail = r.avail
    BY PercentFullType DEF Disk
  <1>5. PICK j0, j1, j2 : /\ j1 = Judge(j0, DiskLabel(d), "percent", full >= lim.percent)
                          /\ j2 = Judge(j1, DiskLabel(d), "blocks", avail < lim.blocks)
                          /\ warning' = [warning EXCEPT ![s][d] = j2.warning]
    BY <1>1, <1>2, <1>3, <1>4 DEF CheckDisk
  <1>6. NextDisk /\ UNCHANGED <<results, down, limit>>
    BY DEF CheckDisk
  <1>7. "percent" \in j2.warning <=> full >= lim.percent
    <2>1. "percent" \in j1.warning <=> full >= lim.percent
      BY <1>5 DEF Judge
    <2>2. "percent" \in j2.warning <=> "percent" \in j1.warning
      BY <1>5 DEF Judge
    <2> QED
      BY <2>1, <2>2
  <1>8. "blocks" \in j2.warning <=> avail < lim.blocks
    BY <1>5 DEF Judge
  <1>9. /\ warning'[s][d] = j2.warning
        /\ \A c \in Slot : c # d => warning'[s][c] = warning[s][c]
        /\ \A p \in Server : p # s => warning'[p] = warning[p]
    BY <1>5 DEF IInv, TypeOK
  <1>10. DiskTold(s, d)'
    <2> SUFFICES ASSUME r.avail \in 0..r.total, 100 * r.total < 2048
                 PROVE  \A flag \in Format : flag \in j2.warning <=> Passes(r, lim, flag)
      BY <1>2, <1>3, <1>6, <1>9 DEF DiskTold
    <2>1. full >= lim.percent <=> Passes(r, lim, "percent")
      <3>1. lim.percent \in Nat
        BY DEF Limit
      <3> QED
        BY <1>4, <3>1, PercentReaches DEF Passes
    <2>2. avail < lim.blocks <=> Passes(r, lim, "blocks")
      BY <1>4 DEF Passes
    <2> QED
      BY <1>7, <1>8, <2>1, <2>2 DEF Format
  <1>11. \A p \in Server : p < s => ServerTold(p)'
    <2> TAKE p \in Server
    <2> HAVE p < s
    <2>1. p # s
      BY SizesAssumption DEF Server
    <2>2. SameAt(p)
      BY <1>6, <1>9, <2>1 DEF SameAt
    <2>3. ServerTold(p)
      BY <1>1 DEF Progress, CheckDisk, Here
    <2> QED
      BY <2>2, <2>3, SameTold
  <1>12. \A c \in Slot : c < d => DiskTold(s, c)'
    <2> TAKE c \in Slot
    <2> HAVE c < d
    <2>1. c # d
      BY SizesAssumption DEF Slot
    <2>2. DiskTold(s, c)
      BY <1>1 DEF Progress, CheckDisk
    <2> QED
      BY <1>6, <1>9, <2>1, <2>2 DEF DiskTold
  <1>13. \A c \in Slot : c <= d => DiskTold(s, c)'
    <2>1. \A c \in Slot : c <= d => c < d \/ c = d
      BY SizesAssumption DEF Slot
    <2> QED
      BY <1>10, <1>12, <2>1
  <1>14. ~results'[s].down /\ s \notin down'
    BY <1>1, <1>6 DEF Progress, CheckDisk
  <1> QED
    BY <1>1, <1>6, <1>11, <1>13, <1>14, NextDiskProgress DEF IInv

LEMMA SkipDiskProgress == ASSUME IInv, Progress, SkipDisk PROVE Progress'
  <1> USE DEF disks, counts, view
  <1>1. PICK s \in Server, d \in Slot : s = Here /\ d = at.disk
    BY DEF IInv, TypeOK, Here
  <1>2. NextDisk /\ UNCHANGED <<results, down, warning, limit>>
    BY DEF SkipDisk
  <1>3. \A p \in Server : SameAt(p)
    BY <1>2 DEF SameAt
  <1>4. \A p \in Server : p < s => ServerTold(p)'
    BY <1>1, <1>3, SameTold DEF Progress, SkipDisk, Here
  <1>5. DiskTold(s, d)'
    BY <1>1, <1>2 DEF SkipDisk, Untouched, DiskTold
  <1>6. \A c \in Slot : c <= d => DiskTold(s, c)'
    <2>1. \A c \in Slot : c <= d => c < d \/ c = d
      BY SizesAssumption DEF Slot
    <2>2. \A c \in Slot : c < d => DiskTold(s, c)
      BY <1>1 DEF Progress, SkipDisk
    <2> QED
      BY <1>3, <1>5, <2>1, <2>2, SameTold
  <1>7. ~results'[s].down /\ s \notin down'
    BY <1>1, <1>2 DEF Progress, SkipDisk
  <1> QED
    BY <1>1, <1>2, <1>4, <1>6, <1>7, NextDiskProgress DEF IInv

LEMMA DownProgress == ASSUME IInv, Progress, ServerStillDown \/ ServerGoesDown PROVE Progress'
  <1> USE DEF disks, counts, view
  <1>1. PICK s \in Server : s = Here
    BY DEF IInv, TypeOK, Here
  <1>2. /\ NextServer /\ UNCHANGED <<results, limit>> /\ results[s].down
        /\ down' = down \cup {s}
        /\ \A p \in Server : p # s => warning'[p] = warning[p]
    BY <1>1 DEF ServerStillDown, ServerGoesDown, IInv, TypeOK
  <1>3. ServerTold(s)'
    BY <1>2 DEF ServerTold
  <1>4. \A p \in Server : p < s => ServerTold(p)'
    <2> TAKE p \in Server
    <2> HAVE p < s
    <2>1. p # s
      BY SizesAssumption DEF Server
    <2>2. SameAt(p)
      BY <1>2, <2>1 DEF SameAt
    <2>3. ServerTold(p)
      BY <1>1 DEF Progress, ServerStillDown, ServerGoesDown, Here
    <2> QED
      BY <2>2, <2>3, SameTold
  <1>5. \A p \in Server : p <= s => p < s \/ p = s
    BY SizesAssumption DEF Server
  <1>6. \A p \in Server : p <= s => ServerTold(p)'
    BY <1>3, <1>4, <1>5
  <1> QED
    BY <1>1, <1>2, <1>6, NextServerProgress DEF IInv

LEMMA RespondsProgress == ASSUME IInv, Progress, ServerResponds PROVE Progress'
  <1> USE DEF disks, counts, view
  <1>1. PICK s \in Server : s = Here
    BY DEF IInv, TypeOK, Here
  <1>2. /\ UNCHANGED <<results, limit>> /\ ~results[s].down /\ down' = down \ {s}
        /\ \A p \in Server : p # s => warning'[p] = warning[p]
        /\ pc' = "disk" /\ at'.server = s /\ at'.disk = 1
    BY <1>1 DEF ServerResponds, IInv, TypeOK, Here
  <1>3. \A p \in Server : p < s => ServerTold(p)'
    <2> TAKE p \in Server
    <2> HAVE p < s
    <2>1. p # s
      BY SizesAssumption DEF Server
    <2>2. SameAt(p)
      BY <1>2, <2>1 DEF SameAt
    <2>3. ServerTold(p)
      BY <1>1 DEF Progress, ServerResponds, Here
    <2> QED
      BY <2>2, <2>3, SameTold
  <1>4. \A c \in Slot : ~(c < 1)
    BY SizesAssumption DEF Slot
  <1> QED
    BY <1>2, <1>3, <1>4 DEF Progress, Here

LEMMA OtherProgress ==
    ASSUME Progress, \/ ReadPipe \/ ProberDies \/ BadPartition \/ UpdateSupervisor \/ Quit
                     \/ SwitchWindow \/ SwitchNitpick \/ SwitchTrouble \/ UNCHANGED vars
    PROVE  Progress'
  <1> USE DEF disks, counts, view
  <1>1. CASE ReadPipe
    <2>1. pc' = "server" /\ at'.server = 1 /\ \A s \in Server : ~(s < 1)
      BY <1>1, SizesAssumption DEF ReadPipe, Server
    <2> QED
      BY <2>1 DEF Progress
  <1>2. CASE ProberDies \/ BadPartition \/ UpdateSupervisor \/ Quit \/ SwitchWindow \/ SwitchNitpick \/ SwitchTrouble
    <2>1. pc' \in {"idle", "exit"}
      BY <1>2 DEF ProberDies, BadPartition, UpdateSupervisor, Quit, SwitchWindow, SwitchNitpick, SwitchTrouble
    <2> QED
      BY <2>1 DEF Progress
  <1>3. CASE UNCHANGED vars
    BY <1>3 DEF vars, Progress, ServerTold, DiskTold, Here
  <1> QED
    BY <1>1, <1>2, <1>3

LEMMA ProgressInv == IInv /\ Progress /\ [Next]_vars => Progress'
  BY CheckDiskProgress, SkipDiskProgress, DownProgress, RespondsProgress, OtherProgress DEF Next, Round

(* When a round ends, the flags of every server and of every disk it       *)
(* reported are those its answer calls for, whatever the servers, disks,   *)
(* limits and answers are.                                                 *)
THEOREM FlagsRight == Spec => []FlagsTell
  <1>1. Progress => FlagsTell
    BY DEF Progress, FlagsTell, ServerTold, DiskTold
  <1>2. Spec => []Progress
    <2>1. IInv /\ IInv' /\ Progress /\ [Next]_vars => Progress'
      BY ProgressInv
    <2> QED
      BY <2>1, InitProgress, Invariance, PTL DEF Spec
  <1> QED
    BY <1>1, <1>2, PTL

-----------------------------------------------------------------------------
(* New trouble.                                                            *)

Raised == down' \ down # {} \/ DiskFlags' \ DiskFlags # {}
Noticed == /\ Raised <=> new_trouble' > new_trouble
           /\ pc = "super" /\ new_trouble > 0 => window' # "supervisor"

(* A threshold counts as new trouble exactly when its flag comes on.       *)
LEMMA JudgeCounts ==
    ASSUME NEW f, NEW j \in Verdict, NEW flag \in Format, NEW bad, NEW r, r = Judge(j, f, flag, bad)
    PROVE  /\ r.fresh = j.fresh \/ r.fresh = j.fresh + 1
           /\ r.fresh = j.fresh + 1 <=> flag \in r.warning /\ flag \notin j.warning
           /\ \A g : g # flag => (g \in r.warning <=> g \in j.warning)
  <1>1. j.fresh \in Nat
    BY DEF Verdict
  <1>2. CASE bad /\ flag \notin j.warning
    <2>1. r.warning = j.warning \cup {flag} /\ r.fresh = j.fresh + 1
      BY <1>2 DEF Judge
    <2> QED
      BY <1>1, <1>2, <2>1
  <1>3. CASE ~bad /\ flag \in j.warning
    <2>1. r.warning = j.warning \ {flag} /\ r.fresh = j.fresh
      BY <1>3 DEF Judge
    <2> QED
      BY <1>1, <1>3, <2>1
  <1>4. CASE ~(bad /\ flag \notin j.warning) /\ ~(~bad /\ flag \in j.warning)
    <2>1. r = j
      BY <1>4 DEF Judge
    <2> QED
      BY <1>1, <2>1
  <1> QED
    BY <1>2, <1>3, <1>4

(* A step that adds no warning must not count any.                         *)
LEMMA NothingRaised ==
    ASSUME IInv, down' \subseteq down, DiskFlags' \subseteq DiskFlags, new_trouble' \in Nat,
           new_trouble' <= new_trouble
    PROVE  Raised <=> new_trouble' > new_trouble
  <1>1. new_trouble \in Nat
    BY DEF IInv, TypeOK
  <1>2. down' \ down = {} /\ DiskFlags' \ DiskFlags = {}
    OBVIOUS
  <1> QED
    BY <1>1, <1>2 DEF Raised

LEMMA CheckDiskReports == ASSUME IInv, CheckDisk PROVE Noticed
  <1> USE DEF disks, counts, view
  <1>1. PICK s \in Server, d \in Slot : s = Here /\ d = at.disk
    BY DEF IInv, TypeOK, Here
  <1>2. PICK f \in Field : f = DiskLabel(d)
    BY LabelFields
  <1>3. PICK full_bad, low_bad : /\ full_bad = (PercentFull(results[s].disk[d]) >= limit[s][d].percent)
                                 /\ low_bad = (results[s].disk[d].avail < limit[s][d].blocks)
    OBVIOUS
  <1>4. PICK j0 : j0 = [warning |-> warning[s][d], entry |-> entry[s][f], count |-> warn_count, fresh |-> new_trouble]
    OBVIOUS
  <1>5. PICK j1 : j1 = Judge(j0, f, "percent", full_bad)
    OBVIOUS
  <1>6. PICK j2 : j2 = Judge(j1, f, "blocks", low_bad)
    OBVIOUS
  <1>7. /\ warning' = [warning EXCEPT ![s][d] = j2.warning] /\ new_trouble' = j2.fresh
        /\ pc = "disk" /\ down' = down
    BY <1>1, <1>2, <1>3, <1>4, <1>5, <1>6 DEF CheckDisk
  <1>8. Formatted /\ s \notin down \cup pending
    BY <1>1 DEF IInv, TypeOK, Settled, CheckDisk, Formatted
  <1>9. j0 \in Verdict /\ Marked(j0) /\ Faithful(j0.entry, f)
    <2>1. j0 \in Verdict
      BY <1>4 DEF IInv, TypeOK, Verdict
    <2>2. Marked(j0)
      BY <1>2, <1>4, <1>8 DEF IInv, HighlightExact, Marked
    <2>3. Faithful(j0.entry, f)
      BY <1>4 DEF IInv, DisplayFaithful, Faithful
    <2> QED
      BY <2>1, <2>2, <2>3
  <1>10. "percent" \in Format /\ "blocks" \in Format
    BY DEF Format
  <1>11. j1 \in Verdict
    BY <1>5, <1>8, <1>9, <1>10, JudgeFacts
  <1>12. /\ j1.fresh = j0.fresh \/ j1.fresh = j0.fresh + 1
         /\ j1.fresh = j0.fresh + 1 <=> "percent" \in j1.warning /\ "percent" \notin j0.warning
         /\ \A g : g # "percent" => (g \in j1.warning <=> g \in j0.warning)
    BY <1>5, <1>9, <1>10, JudgeCounts
  <1>13. /\ j2.fresh = j1.fresh \/ j2.fresh = j1.fresh + 1
         /\ j2.fresh = j1.fresh + 1 <=> "blocks" \in j2.warning /\ "blocks" \notin j1.warning
         /\ \A g : g # "blocks" => (g \in j2.warning <=> g \in j1.warning)
    BY <1>6, <1>10, <1>11, JudgeCounts
  <1>14. j0.fresh = new_trouble /\ j0.warning = warning[s][d] /\ new_trouble \in Nat
    BY <1>4 DEF IInv, TypeOK
  <1>15. j2.fresh > new_trouble <=> \E g \in Format : g \in j2.warning /\ g \notin warning[s][d]
    <2>1. j2.fresh > new_trouble <=> j1.fresh = j0.fresh + 1 \/ j2.fresh = j1.fresh + 1
      BY <1>12, <1>13, <1>14
    <2>2. /\ "percent" \in j1.warning <=> "percent" \in j2.warning
          /\ "blocks" \in j1.warning <=> "blocks" \in j0.warning
      BY <1>12, <1>13
    <2>3. (\E g \in Format : g \in j2.warning /\ g \notin j0.warning)
            <=> \/ "percent" \in j2.warning /\ "percent" \notin j0.warning
                \/ "blocks" \in j2.warning /\ "blocks" \notin j0.warning
      BY DEF Format
    <2> QED
      BY <1>12, <1>13, <1>14, <2>1, <2>2, <2>3
  <1>16. /\ warning'[s][d] = j2.warning
         /\ \A p \in Server, c \in Slot : p # s \/ c # d => warning'[p][c] = warning[p][c]
    BY <1>7 DEF IInv, TypeOK
  <1>17. DiskFlags' \ DiskFlags # {} <=> \E g \in Format : g \in j2.warning /\ g \notin warning[s][d]
    <2>1. ASSUME NEW x \in DiskFlags' \ DiskFlags
          PROVE  \E g \in Format : g \in j2.warning /\ g \notin warning[s][d]
      <3>1. /\ x[1] \in Server /\ x[2] \in Slot /\ x[3] \in Format
            /\ x[3] \in warning'[x[1]][x[2]] /\ x[3] \notin warning[x[1]][x[2]]
        BY <2>1 DEF DiskFlags
      <3>2. x[1] = s /\ x[2] = d
        BY <1>16, <3>1
      <3> QED
        BY <1>16, <3>1, <3>2
    <2>2. ASSUME NEW g \in Format, g \in j2.warning, g \notin warning[s][d]
          PROVE  DiskFlags' \ DiskFlags # {}
      <3>1. PICK x : x = <<s, d, g>>
        OBVIOUS
      <3>2. x \in Server \X Slot \X Format /\ x[1] = s /\ x[2] = d /\ x[3] = g
        BY <3>1
      <3>3. x \in DiskFlags' /\ x \notin DiskFlags
        BY <1>16, <2>2, <3>2 DEF DiskFlags
      <3> QED
        BY <3>3
    <2> QED
      BY <2>1, <2>2
  <1>18. down' \ down = {}
    BY <1>7
  <1>19. Raised <=> new_trouble' > new_trouble
    BY <1>7, <1>15, <1>17, <1>18 DEF Raised
  <1> QED
    BY <1>7, <1>19 DEF Noticed

LEMMA StepReports == ASSUME IInv, Next PROVE Noticed
  <1> USE DEF disks, counts, view
  <1>1. new_trouble \in Nat
    BY DEF IInv, TypeOK
  <1>2. CASE CheckDisk
    BY <1>2, CheckDiskReports
  <1>3. CASE ServerGoesDown
    <2>1. down' = down \cup {Here} /\ Here \notin down /\ new_trouble' = new_trouble + 1 /\ pc = "server"
      BY <1>3 DEF ServerGoesDown
    <2>2. Here \in down' \ down
      BY <2>1
    <2>3. Raised /\ new_trouble' > new_trouble
      BY <1>1, <2>1, <2>2 DEF Raised
    <2> QED
      BY <2>1, <2>3 DEF Noticed
  <1>4. CASE ServerResponds
    <2>1. down' = down \ {Here} /\ new_trouble' = new_trouble /\ pc = "server"
      BY <1>4 DEF ServerResponds
    <2>2. \A s \in Server, d \in Slot : warning'[s][d] \subseteq warning[s][d]
      BY <1>4 DEF ServerResponds, IInv, TypeOK
    <2>3. DiskFlags' \subseteq DiskFlags
      BY <2>2 DEF DiskFlags
    <2> QED
      BY <1>1, <2>1, <2>3, NothingRaised DEF Noticed
  <1>5. CASE UpdateSupervisor
    <2>1. UNCHANGED <<down, warning>> /\ new_trouble' = 0
          /\ (new_trouble > 0 => window' # "supervisor")
      BY <1>5 DEF UpdateSupervisor
    <2>2. DiskFlags' = DiskFlags
      BY <2>1 DEF DiskFlags
    <2>3. Raised <=> new_trouble' > new_trouble
      BY <1>1, <2>1, <2>2, NothingRaised
    <2> QED
      BY <2>1, <2>3 DEF Noticed
  <1>6. CASE \/ ReadPipe \/ ProberDies \/ ServerStillDown \/ BadPartition \/ SkipDisk
             \/ SwitchWindow \/ SwitchNitpick \/ SwitchTrouble \/ Quit
    <2>1. UNCHANGED <<down, warning, new_trouble>> /\ pc # "super"
      BY <1>6 DEF ReadPipe, ProberDies, ServerStillDown, BadPartition, SkipDisk,
                  SwitchWindow, SwitchNitpick, SwitchTrouble, Quit
    <2>2. DiskFlags' = DiskFlags
      BY <2>1 DEF DiskFlags
    <2>3. Raised <=> new_trouble' > new_trouble
      BY <1>1, <2>1, <2>2, NothingRaised
    <2> QED
      BY <2>1, <2>3 DEF Noticed
  <1> QED
    BY <1>2, <1>3, <1>4, <1>5, <1>6 DEF Next, Round

(* In every step, new_trouble grows exactly when a server goes down or a   *)
(* threshold is newly passed, and no round with new trouble ends with the  *)
(* supervisor window, which would hide it.                                 *)
THEOREM TroubleShown == Spec => TroubleComesUp
  <1>1. IInv /\ [Next]_vars => [Noticed]_vars
    BY StepReports
  <1>2. [Noticed]_vars =>
          [/\ (down' \ down # {} \/ DiskFlags' \ DiskFlags # {}) <=> new_trouble' > new_trouble
           /\ pc = "super" /\ new_trouble > 0 => window' # "supervisor"]_vars
    BY DEF Noticed, Raised
  <1> QED
    BY <1>1, <1>2, Invariance, PTL DEF Spec, TroubleComesUp
=============================================================================
