--------------------------- MODULE CachesProofs ---------------------------
(***************************************************************************)
(* Proofs about Caches: the list of printers is the one of the file, and   *)
(* a login is accepted for what the passwd file says or said since the     *)
(* name last missed, for every file, every table and every size of cache.  *)
(***************************************************************************)
EXTENDS Caches, FiniteSetTheorems, WellFoundedInduction, TLAPS

U     == UNION {{p[n] : n \in DOMAIN p} : p \in Passwds}
Entry == [name : Name \cup {""}, pw : Password, uid : Int]

Typed ==
    /\ Len(alias) <= NPRINTERDEFS
    /\ clock \in Nat \ {0} /\ old_mtime \in 0..clock
    /\ printcap \in [names : Printcaps, mtime : 1..clock]
    /\ printers \subseteq Printer \cup Virtual
    /\ passwd \in Passwds
    /\ cache \in [1..CACHE_SIZE -> Entry]
    /\ usable \in [Sent -> SUBSET U]

NamesOf(s) == IF s.names = Missing THEN {} ELSE s.names

(* The list is the one of the file that was seen last, and a change of the *)
(* file has a later time stamp, unless hidden says why not.                *)
ListKnown ==
    /\ old_mtime = 0 <=> seen = {}
    /\ printers = {} /\ seen # {} => Virtual = {}
    /\ \A s \in seen : seen = {s} /\ s.mtime = old_mtime
    /\ printers # {} /\ hidden = {} =>
           \E s \in seen : /\ printers = NamesOf(s) \cup Virtual
                           /\ s = printcap \/ s.mtime < printcap.mtime

(* The cache holds no name twice, and what it holds may still be used.     *)
Distinct == \A i, j \in DOMAIN cache : cache[i].name = cache[j].name /\ cache[i].name # "" => i = j
Usable ==
    \A i \in DOMAIN cache :
        cache[i].name # "" => [pw |-> cache[i].pw, uid |-> cache[i].uid] \in usable[cache[i].name]
Current == \A n \in DOMAIN passwd : passwd[n] \in usable[n]

Inv == Typed /\ ListKnown /\ Distinct /\ Usable /\ Current
-----------------------------------------------------------------------------
(* The parts of a step.                                                    *)

LEMMA Steps ==
  ASSUME [Next]_vars
  PROVE  \/ UNCHANGED <<printing, clock>>
         \/ \E list \in Lists : Poll(list) /\ UNCHANGED <<alias, printcap, clock>>
         \/ EditPrintcap \/ Tick
  BY DEF Next, PrList, PrInit, Auth, ChangePasswd, printing, vars

LEMMA LoginSteps ==
  ASSUME [Next]_vars
  PROVE  \/ UNCHANGED logins
         \/ \E n \in Sent, pw \in Password : Auth(n, pw)
         \/ ChangePasswd
  BY DEF Next, PrList, PrInit, EditPrintcap, Tick, Poll, logins, vars

-----------------------------------------------------------------------------
(* The list of printers.                                                   *)

(* What is listed without anything hidden is what there is.                *)
LEMMA ListRight ==
  ASSUME Typed, ListKnown, NEW list, Poll(list), printcap.names # Missing, hidden' = {}
  PROVE  list = Real \cup Virtual
  <1>1. CASE Monitored = {}
    BY <1>1 DEF Poll, Built
  <1>2. CASE Monitored # {}
    <2>1. printers # {} /\ ~ListDropped /\ hidden = {} /\ list = printers
      BY <1>2 DEF Poll, Monitored, Lists
    <2>2. PICK s \in seen : printers = NamesOf(s) \cup Virtual /\ (s = printcap \/ s.mtime < printcap.mtime)
      BY <2>1 DEF ListKnown
    <2>3. s.mtime = old_mtime /\ old_mtime # 0 /\ old_mtime \in Int
      BY <2>2 DEF ListKnown, Typed
    <2>4. s = printcap
      BY <2>1, <2>2, <2>3 DEF ListDropped
    <2> QED
      BY <2>1, <2>2, <2>4 DEF NamesOf, Real
  <1> QED
    BY <1>1, <1>2

LEMMA PollListKnown ==
  ASSUME Typed, ListKnown, NEW list, Poll(list), UNCHANGED <<alias, printcap>>
  PROVE  ListKnown'
  <1>1. Virtual' = Virtual /\ (list = {} => Virtual = {})
    BY DEF Virtual, Poll, Lists
  <1>2. CASE printcap.names # Missing
    <2>1. seen' = {printcap} /\ old_mtime' = printcap.mtime /\ printcap.mtime \in Int /\ printcap.mtime # 0
      BY <1>2 DEF Poll, Stamp, Typed
    <2>2. printers' = list /\ (hidden' = {} => list = NamesOf(printcap) \cup Virtual)
      BY <1>2, ListRight DEF Poll, NamesOf, Real
    <2> QED
      BY <1>1, <2>1, <2>2 DEF ListKnown, NamesOf
  <1>3. CASE printcap.names = Missing
    <2>1. UNCHANGED <<seen, old_mtime>> /\ Monitored = printers /\ printers' = list
      BY <1>3 DEF Poll, Stamp, Monitored
    <2>2. CASE printers # {}
      <3>1. UNCHANGED <<printers, hidden>>
        BY <2>1, <2>2 DEF Poll, Lists
      <3> QED
        BY <1>1, <2>1, <3>1 DEF ListKnown, NamesOf
    <2>3. CASE printers = {}
      <3>1. ASSUME list # {}, hidden' = {} PROVE FALSE
        <4>1. seen # {} /\ list = Real \cup Virtual /\ Real = {}
          BY <1>3, <2>1, <2>3, <3>1 DEF Poll, Built, Real
        <4> QED
          BY <2>3, <3>1, <4>1 DEF ListKnown
      <3> QED
        BY <1>1, <2>1, <2>3, <3>1 DEF ListKnown
    <2> QED
      BY <2>2, <2>3
  <1> QED
    BY <1>2, <1>3

LEMMA ListStep ==
  ASSUME Typed, ListKnown, [Next]_vars
  PROVE  ListKnown'
  <1>1. CASE UNCHANGED <<alias, printcap, old_mtime, printers, seen, hidden>>
    BY <1>1 DEF ListKnown, Virtual, NamesOf
  <1>2. CASE EditPrintcap
    <2>1. UNCHANGED <<alias, old_mtime, printers, seen>> /\ Virtual' = Virtual /\ printcap'.mtime = clock
      BY <1>2 DEF EditPrintcap, Virtual
    <2>2. ASSUME printers # {}, hidden' = {}
          PROVE  \E s \in seen : printers = NamesOf(s) \cup Virtual /\ s.mtime < printcap'.mtime
      <3>1. hidden = {} /\ ~(printcap.mtime = clock /\ seen = {printcap})
        BY <1>2, <2>2 DEF EditPrintcap
      <3>2. PICK s \in seen : printers = NamesOf(s) \cup Virtual /\ (s = printcap \/ s.mtime < printcap.mtime)
        BY <2>2, <3>1 DEF ListKnown
      <3>3. seen = {s} /\ s.mtime = old_mtime /\ old_mtime \in Int /\ printcap.mtime \in Int /\ clock \in Int
            /\ printcap.mtime <= clock
        BY <3>2 DEF ListKnown, Typed
      <3>4. s.mtime < clock
        BY <3>1, <3>2, <3>3
      <3> QED
        BY <2>1, <3>2, <3>4
    <2> QED
      BY <2>1, <2>2 DEF ListKnown, NamesOf
  <1>3. CASE Tick
    BY <1>1, <1>3 DEF Tick, printing
  <1> QED
    BY <1>1, <1>2, <1>3, Steps, PollListKnown DEF printing

(* Whoever asks is told so.                                                *)
LEMMA PrintersStep ==
  ASSUME Typed, ListKnown, [Next]_vars,
         answer'.call \in {"list", "init"}, UNCHANGED printcap,
         printcap.names # Missing, hidden' = {}, <<answer, seen, printers>>' # <<answer, seen, printers>>
  PROVE  Right(answer')
  <1>1. CASE PrList
    <2>1. PICK list \in Lists : Poll(list) /\ answer' = [call |-> "list", printers |-> list]
      BY <1>1 DEF PrList
    <2>2. list = Real \cup Virtual
      BY <2>1, ListRight
    <2>3. answer'.call = "list" /\ answer'.printers = list
      BY <2>1
    <2> QED
      BY <2>2, <2>3 DEF Right
  <1>2. ASSUME NEW pr \in Printer \cup Virtual, PrInit(pr) PROVE Right(answer')
    <2>1. CASE answer' = [call |-> "init", printer |-> pr, res |-> "FAIL"]
      <3>1. answer'.call = "init" /\ answer'.res = "FAIL"
        BY <2>1
      <3> QED
        BY <3>1 DEF Right
    <2>2. CASE \E list \in Lists :
                  /\ Poll(list)
                  /\ answer' = [call |-> "init", printer |-> pr,
                                res |-> IF ValidPr(pr, list) THEN "OK" ELSE "NO_SUCH_PRINTER"]
      <3>1. PICK list \in Lists :
                  /\ Poll(list)
                  /\ answer' = [call |-> "init", printer |-> pr,
                                res |-> IF ValidPr(pr, list) THEN "OK" ELSE "NO_SUCH_PRINTER"]
        BY <2>2
      <3>2. list = Real \cup Virtual
        BY <3>1, ListRight
      <3>3. /\ answer'.call = "init" /\ answer'.printer = pr
            /\ answer'.res = IF ValidPr(pr, list) THEN "OK" ELSE "NO_SUCH_PRINTER"
        BY <3>1
      <3>4. MapPrinterName(pr) = Dash => list # {}
        <4>1. Dash \notin Printer
          BY CachesAssumption DEF Printer, Dash
        <4>2. pr \notin Virtual => MapPrinterName(pr) = pr
          BY DEF MapPrinterName, IsAlias
        <4> QED
          BY <3>2, <4>1, <4>2
      <3> QED
        BY <3>2, <3>3, <3>4 DEF Right, ValidPr
    <2> QED
      BY <1>2, <2>1, <2>2 DEF PrInit
  <1>3. ASSUME NEW n, NEW pw, Auth(n, pw) PROVE FALSE
    <2>1. answer'.call = "auth"
      BY <1>3 DEF Auth
    <2> QED
      BY <2>1
  <1>4. CASE EditPrintcap \/ ChangePasswd \/ Tick \/ UNCHANGED vars
    BY <1>4 DEF EditPrintcap, ChangePasswd, Tick, printing, vars
  <1> QED
    BY <1>1, <1>2, <1>3, <1>4 DEF Next

-----------------------------------------------------------------------------
(* Logins.                                                                 *)

LEMMA NamesNamed == "" \notin Name
  BY CachesAssumption DEF Name

LEMMA Users == \A p \in Passwds : DOMAIN p \subseteq Name /\ "" \notin DOMAIN p
  BY CachesAssumption DEF Name

LEMMA SlotFound ==
  ASSUME Typed, Distinct, NEW n \in Name, Slots(n) # {}
  PROVE  \E k \in DOMAIN cache : Slots(n) = {k} /\ First(Slots(n)) = k /\ cache[k].name = n
  <1>1. PICK k \in DOMAIN cache : cache[k].name = n
    BY DEF Slots
  <1>2. Slots(n) = {k}
    BY <1>1, NamesNamed DEF Slots, Distinct
  <1>3. k \in Int
    BY DEF Typed
  <1>4. First({k}) = k
    BY <1>3 DEF First
  <1> QED
    BY <1>1, <1>2, <1>4

(* A name that is forgotten is not found again.                            *)
LEMMA NukedRight ==
  ASSUME Typed, Distinct, NEW n \in Name
  PROVE  /\ Nuked(n) \in [1..CACHE_SIZE -> Entry]
         /\ \A i \in 1..CACHE_SIZE : \/ Nuked(n)[i] = cache[i] /\ cache[i].name # n
                                     \/ Nuked(n)[i].name = ""
  <1>1. cache \in [1..CACHE_SIZE -> Entry]
    BY DEF Typed
  <1>2. CASE Slots(n) = {}
    BY <1>1, <1>2 DEF Nuked, Slots
  <1>3. CASE Slots(n) # {}
    <2>1. PICK k \in DOMAIN cache : Slots(n) = {k} /\ First(Slots(n)) = k
      BY <1>3, SlotFound
    <2>2. Nuked(n) = [cache EXCEPT ![k].name = ""]
      BY <1>3, <2>1 DEF Nuked
    <2>3. \A i \in DOMAIN cache \ {k} : cache[i].name # n
      BY <2>1 DEF Slots
    <2>4. [cache[k] EXCEPT !.name = ""] \in Entry /\ [cache[k] EXCEPT !.name = ""].name = ""
      BY <1>1, <2>1 DEF Entry
    <2>5. Nuked(n)[k] = [cache[k] EXCEPT !.name = ""] /\ \A i \in DOMAIN cache \ {k} : Nuked(n)[i] = cache[i]
      BY <1>1, <2>1, <2>2
    <2>6. Nuked(n) \in [1..CACHE_SIZE -> Entry]
      BY <1>1, <2>1, <2>2, <2>4
    <2> QED
      BY <1>1, <2>3, <2>4, <2>5, <2>6
  <1> QED
    BY <1>2, <1>3

LEMMA UserOf ==
  ASSUME NEW p \in Passwds, NEW n \in DOMAIN p
  PROVE  /\ n \in Name /\ n # "" /\ p[n].pw \in Password /\ p[n].uid \in Int
         /\ p[n] = [pw |-> p[n].pw, uid |-> p[n].uid]
  <1>1. n \in Name /\ n # "" /\ p[n].pw \in Password
    <2>1. n \in Name
      BY DEF Name
    <2>2. n # ""
      BY CachesAssumption
    <2>3. p[n].pw \in {p[m].pw : m \in DOMAIN p}
      OBVIOUS
    <2>4. {p[m].pw : m \in DOMAIN p} \in {{q[m].pw : m \in DOMAIN q} : q \in Passwds}
      OBVIOUS
    <2> QED
      BY <2>1, <2>2, <2>3, <2>4 DEF Password
  <1>2. PICK w, r : w = p[n].pw /\ r = p[n] /\ r \in [pw : {w}, uid : Int]
    BY CachesAssumption
  <1>3. r = [pw |-> r.pw, uid |-> r.uid] /\ r.uid \in Int
    BY <1>2
  <1> QED
    BY <1>1, <1>2, <1>3

LEMMA PlacesCounted == \A i, j \in 1..CACHE_SIZE : i - 1 = j - 1 => i = j
  OBVIOUS

LEMMA InU == \A p \in Passwds : \A n \in DOMAIN p : p[n] \in U
  <1> SUFFICES ASSUME NEW p \in Passwds, NEW n \in DOMAIN p PROVE p[n] \in U
    OBVIOUS
  <1>1. p[n] \in {p[m] : m \in DOMAIN p} /\ {p[m] : m \in DOMAIN p} \in {{q[m] : m \in DOMAIN q} : q \in Passwds}
    OBVIOUS
  <1> QED
    BY <1>1 DEF U

LEMMA EnteredRight ==
  ASSUME NEW c \in [1..CACHE_SIZE -> Entry], NEW e \in Entry
  PROVE  /\ Entered(c, e) \in [1..CACHE_SIZE -> Entry] /\ Entered(c, e)[1] = e
         /\ \A i \in 1..CACHE_SIZE : i # 1 => i - 1 \in 1..CACHE_SIZE /\ Entered(c, e)[i] = c[i - 1]
  <1>1. CACHE_SIZE \in Nat \ {0} /\ DOMAIN c = 1..CACHE_SIZE
    BY CachesAssumption
  <1>2. Entered(c, e) = [i \in 1..CACHE_SIZE |-> IF i = 1 THEN e ELSE c[i - 1]]
    BY <1>1 DEF Entered
  <1>3. \A i \in 1..CACHE_SIZE : i # 1 => i - 1 \in 1..CACHE_SIZE
    BY <1>1
  <1> QED
    BY <1>1, <1>2, <1>3

LEMMA AuthStep ==
  ASSUME Typed, Distinct, Usable, Current, NEW n \in Name, NEW pw \in Password, Auth(n, pw)
  PROVE  /\ cache' \in [1..CACHE_SIZE -> Entry]
         /\ usable' \in [Sent -> SUBSET U]
         /\ Distinct' /\ Usable' /\ Current'
         /\ answer'.name = n /\ answer'.entry \subseteq usable[n]
  <1>1. /\ cache \in [1..CACHE_SIZE -> Entry] /\ usable \in [Sent -> SUBSET U] /\ passwd \in Passwds
        /\ n # "" /\ n \in Sent /\ CACHE_SIZE \in Nat \ {0}
    BY NamesNamed, CachesAssumption DEF Typed, Sent
  <1>2. CASE Hit(n, pw)
    <2>1. UNCHANGED <<cache, usable>>
          /\ answer' = [call |-> "auth", name |-> n, entry |-> {[pw |-> pw, uid |-> cache[First(Slots(n))].uid]}]
      BY <1>2 DEF Auth
    <2>2. PICK k \in DOMAIN cache : First(Slots(n)) = k /\ cache[k].name = n
      BY <1>2, SlotFound DEF Hit
    <2>3. cache[k].pw = pw
      BY <1>2, <2>2 DEF Hit
    <2>4. [pw |-> pw, uid |-> cache[k].uid] \in usable[n]
      BY <1>1, <2>2, <2>3 DEF Usable
    <2>5. answer'.name = n /\ answer'.entry = {[pw |-> pw, uid |-> cache[k].uid]}
      BY <2>1, <2>2
    <2> QED
      BY <1>1, <2>1, <2>4, <2>5 DEF Distinct, Usable, Current, Auth
  <1>3. PICK c : c = Nuked(n)
    OBVIOUS
  <1>4. c \in [1..CACHE_SIZE -> Entry]
        /\ \A i \in 1..CACHE_SIZE : (c[i] = cache[i] /\ cache[i].name # n) \/ c[i].name = ""
    BY <1>3, NukedRight
  <1>5. CASE ~Hit(n, pw) /\ n \in DOMAIN passwd /\ passwd[n].pw = pw
    <2>1. PICK e : e = [name |-> n, pw |-> pw, uid |-> passwd[n].uid]
      OBVIOUS
    <2>2. e \in Entry /\ e.name = n /\ e.pw = pw /\ e.uid = passwd[n].uid
      <3>1. pw = passwd[n].pw /\ passwd[n].uid \in Int
        BY <1>1, <1>5, UserOf
      <3> QED
        BY <2>1, <3>1 DEF Entry
    <2>3. /\ answer' = [call |-> "auth", name |-> n, entry |-> {passwd[n]}]
          /\ cache' = Entered(c, e) /\ usable' = [usable EXCEPT ![n] = {passwd[n]}]
      BY <1>3, <1>5, <2>1 DEF Auth
    <2>4. answer'.name = n /\ answer'.entry \subseteq usable[n] /\ Current'
      <3>1. answer'.name = n /\ answer'.entry = {passwd[n]}
        BY <2>3
      <3>2. passwd' = passwd /\ DOMAIN passwd \subseteq Name
        BY <1>1, Users DEF Auth
      <3> QED
        BY <1>1, <1>5, <2>3, <3>1, <3>2 DEF Current, Sent
    <2>5. passwd[n] = [pw |-> e.pw, uid |-> e.uid] /\ passwd[n] \in U
      <3>1. passwd[n] = [pw |-> passwd[n].pw, uid |-> passwd[n].uid]
        BY <1>1, <1>5, UserOf
      <3>2. [pw |-> passwd[n].pw, uid |-> passwd[n].uid] = [pw |-> e.pw, uid |-> e.uid]
        BY <1>5, <2>2, Zenon
      <3>3. passwd[n] = [pw |-> e.pw, uid |-> e.uid]
        BY <3>1, <3>2, Zenon
      <3> QED
        BY <1>1, <1>5, <3>3, InU
    <2>6. usable' \in [Sent -> SUBSET U] /\ usable'[n] = {passwd[n]} /\ \A m \in Sent \ {n} : usable'[m] = usable[m]
      BY <1>1, <2>3, <2>5
    <2>7. /\ cache' \in [1..CACHE_SIZE -> Entry] /\ cache'[1] = e
          /\ \A i \in 1..CACHE_SIZE : i # 1 => i - 1 \in 1..CACHE_SIZE /\ cache'[i] = c[i - 1]
      BY <1>4, <2>2, <2>3, EnteredRight
    <2>8. \A i \in 1..CACHE_SIZE : i # 1 => cache'[i].name # n
      BY <1>1, <1>4, <2>7
    <2>9. Distinct'
      <3> SUFFICES ASSUME NEW i \in 1..CACHE_SIZE, NEW j \in 1..CACHE_SIZE,
                          cache'[i].name = cache'[j].name, cache'[i].name # ""
                   PROVE  i = j
        BY <2>7 DEF Distinct
      <3>1. CASE i = 1 \/ j = 1
        BY <2>2, <2>7, <2>8, <3>1
      <3>2. CASE i # 1 /\ j # 1
        <4>1. i - 1 \in 1..CACHE_SIZE /\ j - 1 \in 1..CACHE_SIZE /\ cache'[i] = c[i - 1] /\ cache'[j] = c[j - 1]
          BY <2>7, <3>2
        <4>2. cache[i - 1].name = cache[j - 1].name /\ cache[i - 1].name # ""
          BY <1>4, <4>1
        <4>3. i - 1 = j - 1
          BY <1>1, <4>1, <4>2 DEF Distinct
        <4> QED
          BY <4>3, PlacesCounted
      <3> QED
        BY <3>1, <3>2
    <2>10. Usable'
      <3> SUFFICES ASSUME NEW i \in 1..CACHE_SIZE, cache'[i].name # ""
                   PROVE  [pw |-> cache'[i].pw, uid |-> cache'[i].uid] \in usable'[cache'[i].name]
        BY <2>7 DEF Usable
      <3>1. CASE i = 1
        BY <2>2, <2>5, <2>6, <2>7, <3>1
      <3>2. CASE i # 1
        <4>1. PICK k \in 1..CACHE_SIZE : cache'[i] = cache[k] /\ cache[k].name # n
          <5>1. i - 1 \in 1..CACHE_SIZE /\ cache'[i] = c[i - 1] /\ c[i - 1].name # ""
            BY <2>7, <3>2
          <5> QED
            BY <1>4, <5>1
        <4>2. [pw |-> cache[k].pw, uid |-> cache[k].uid] \in usable[cache[k].name] /\ cache[k].name \in Sent
          BY <1>1, <4>1 DEF Usable, Entry, Sent
        <4> QED
          BY <2>6, <4>1, <4>2
      <3> QED
        BY <3>1, <3>2
    <2> QED
      BY <2>4, <2>6, <2>7, <2>9, <2>10
  <1>6. CASE ~Hit(n, pw) /\ ~(n \in DOMAIN passwd /\ passwd[n].pw = pw)
    <2>1. /\ answer' = [call |-> "auth", name |-> n, entry |-> {}] /\ cache' = c
          /\ usable' = [usable EXCEPT ![n] = IF n \in DOMAIN passwd THEN {passwd[n]} ELSE {}]
      BY <1>3, <1>6 DEF Auth
    <2>2. answer'.name = n /\ answer'.entry = {} /\ Current'
      <3>1. passwd' = passwd /\ DOMAIN passwd \subseteq Name
        BY <1>1, Users DEF Auth
      <3> QED
        BY <1>1, <2>1, <3>1 DEF Current, Sent
    <2>3. usable' \in [Sent -> SUBSET U] /\ \A m \in Sent \ {n} : usable'[m] = usable[m]
      <3>1. (IF n \in DOMAIN passwd THEN {passwd[n]} ELSE {}) \in SUBSET U
        BY <1>1, InU
      <3> QED
        BY <1>1, <2>1, <3>1
    <2>4. \A i \in 1..CACHE_SIZE : c[i].name # "" => c[i] = cache[i] /\ cache[i].name \in Name \ {n}
      BY <1>1, <1>4 DEF Entry
    <2>5. Distinct'
      <3> SUFFICES ASSUME NEW i \in 1..CACHE_SIZE, NEW j \in 1..CACHE_SIZE,
                          c[i].name = c[j].name, c[i].name # ""
                   PROVE  i = j
        BY <1>4, <2>1 DEF Distinct
      <3>1. cache[i].name = cache[j].name /\ cache[i].name # ""
        BY <2>4
      <3>2. i \in DOMAIN cache /\ j \in DOMAIN cache
        BY <1>1
      <3> QED
        BY <1>1, <3>1, <3>2 DEF Distinct
    <2>6. Usable'
      <3> SUFFICES ASSUME NEW i \in 1..CACHE_SIZE, c[i].name # ""
                   PROVE  [pw |-> c[i].pw, uid |-> c[i].uid] \in usable'[c[i].name]
        BY <1>4, <2>1 DEF Usable
      <3>1. c[i] = cache[i] /\ cache[i].name \in Name \ {n} /\ i \in DOMAIN cache
        BY <1>1, <2>4
      <3>2. [pw |-> cache[i].pw, uid |-> cache[i].uid] \in usable[cache[i].name]
        BY <1>1, <3>1 DEF Usable
      <3>3. cache[i].name \in Sent \ {n}
        BY <3>1 DEF Sent
      <3> QED
        BY <2>3, <3>1, <3>2, <3>3
    <2> QED
      BY <1>4, <2>1, <2>2, <2>3, <2>5, <2>6
  <1> QED
    BY <1>2, <1>5, <1>6

LEMMA Compared == \A j, k \in Nat : ~(j < k) => k <= j
  OBVIOUS

LEMMA Places == 1..CACHE_SIZE \subseteq Nat
  <1>1. CACHE_SIZE \in Nat
    BY CachesAssumption
  <1>2. \A i \in 1..CACHE_SIZE : i \in Nat
    BY <1>1
  <1> QED
    BY <1>2, Zenon

(* A login without a name changes nothing in the cache.                    *)
LEMMA NamelessStep ==
  ASSUME Typed, Distinct, Usable, Current, NEW pw \in Password, Auth("", pw)
  PROVE  /\ cache' \in [1..CACHE_SIZE -> Entry]
         /\ usable' \in [Sent -> SUBSET U]
         /\ Distinct' /\ Usable' /\ Current'
         /\ answer'.name = ""
  <1>1. /\ cache \in [1..CACHE_SIZE -> Entry] /\ usable \in [Sent -> SUBSET U]
        /\ passwd \in Passwds /\ passwd' = passwd
    BY DEF Typed, Auth
  <1>2. "" \notin DOMAIN passwd /\ DOMAIN passwd \subseteq Name
    BY <1>1, Users
  <1>3. Nuked("") = cache
    <2>1. CASE Slots("") = {}
      BY <2>1 DEF Nuked
    <2>2. CASE Slots("") # {}
      <3>1. Slots("") \subseteq Nat
        <4>1. 1..CACHE_SIZE \subseteq Nat
          BY Places
        <4>2. DOMAIN cache = 1..CACHE_SIZE
          BY <1>1
        <4>3. Slots("") \subseteq DOMAIN cache
          BY Zenon DEF Slots
        <4> QED
          BY <4>1, <4>2, <4>3, Zenon
      <3>2. PICK k \in Slots("") : \A j \in Slots("") : ~(j < k)
        <4>1. PICK k \in Slots("") : \A j \in Slots("") : <<j, k>> \notin OpToRel(<, Nat)
          BY <2>2, <3>1, WFMin, NatLessThanWellFounded, Zenon
        <4>2. \A j \in Slots("") : j < k => <<j, k>> \in OpToRel(<, Nat)
          BY <3>1, <4>1, Zenon DEF OpToRel
        <4> QED
          BY <4>1, <4>2, Zenon
      <3>3. First(Slots("")) \in Slots("")
        <4>1. \A j \in Slots("") : k <= j
          BY <3>1, <3>2, Compared, Zenon
        <4> QED
          BY <4>1, Zenon DEF First
      <3>4. PICK m \in DOMAIN cache : First(Slots("")) = m /\ cache[m].name = ""
        BY <3>3 DEF Slots
      <3>5. cache[m] \in Entry
        BY <1>1
      <3>6. [cache[m] EXCEPT !.name = ""] = cache[m]
        BY <3>4, <3>5 DEF Entry
      <3>7. [cache EXCEPT ![m].name = ""] = cache
        BY <1>1, <3>4, <3>6
      <3> QED
        BY <2>2, <3>4, <3>7 DEF Nuked
    <2> QED
      BY <2>1, <2>2
  <1>4. /\ cache' = cache /\ (usable' = usable \/ usable' = [usable EXCEPT ![""] = {}])
        /\ \E e : answer' = [call |-> "auth", name |-> "", entry |-> e]
    BY <1>2, <1>3 DEF Auth
  <1>5. usable' \in [Sent -> SUBSET U] /\ \A n \in Name : usable'[n] = usable[n]
    BY <1>1, <1>4, NamesNamed DEF Sent
  <1>6. answer'.name = ""
    <2>1. PICK e : answer' = [call |-> "auth", name |-> "", entry |-> e]
      BY <1>4
    <2> QED
      BY <2>1
  <1>7. Distinct'
    BY <1>4 DEF Distinct
  <1>8. Usable'
    <2> SUFFICES ASSUME NEW i \in DOMAIN cache, cache[i].name # ""
                 PROVE  [pw |-> cache[i].pw, uid |-> cache[i].uid] \in usable'[cache[i].name]
      BY <1>4 DEF Usable
    <2>1. cache[i] \in Entry
      BY <1>1
    <2>2. cache[i].name \in Name
      BY <2>1 DEF Entry
    <2> QED
      BY <1>5, <2>2 DEF Usable
  <1>9. Current'
    BY <1>1, <1>2, <1>5 DEF Current
  <1> QED
    BY <1>1, <1>4, <1>5, <1>6, <1>7, <1>8, <1>9

LEMMA LoginsStep ==
  ASSUME Typed, Distinct, Usable, Current, [Next]_vars
  PROVE  /\ cache' \in [1..CACHE_SIZE -> Entry] /\ usable' \in [Sent -> SUBSET U] /\ passwd' \in Passwds
         /\ Distinct' /\ Usable' /\ Current'
  <1>1. /\ cache \in [1..CACHE_SIZE -> Entry] /\ usable \in [Sent -> SUBSET U] /\ passwd \in Passwds
    BY DEF Typed
  <1>2. CASE UNCHANGED logins
    BY <1>1, <1>2 DEF logins, Distinct, Usable, Current
  <1>3. ASSUME NEW n \in Sent, NEW pw \in Password, Auth(n, pw)
        PROVE  /\ cache' \in [1..CACHE_SIZE -> Entry] /\ usable' \in [Sent -> SUBSET U] /\ passwd' \in Passwds
               /\ Distinct' /\ Usable' /\ Current'
    <2>1. passwd' \in Passwds
      BY <1>1, <1>3 DEF Auth
    <2>2. CASE n = ""
      BY <1>3, <2>1, <2>2, NamelessStep
    <2>3. CASE n \in Name
      BY <1>3, <2>1, <2>3, AuthStep
    <2> QED
      BY <2>2, <2>3 DEF Sent
  <1>4. CASE ChangePasswd
    <2>1. UNCHANGED cache /\ passwd' \in Passwds
          /\ usable' = [n \in Sent |-> usable[n] \cup UsableIn(passwd')[n]]
      BY <1>4 DEF ChangePasswd
    <2>2. \A n \in Sent : UsableIn(passwd')[n] \subseteq U
      BY <2>1, InU DEF UsableIn
    <2>3. usable' \in [Sent -> SUBSET U] /\ \A n \in Sent : usable[n] \subseteq usable'[n]
      BY <1>1, <2>1, <2>2
    <2>4. \A i \in DOMAIN cache : cache[i].name \in Sent
      BY <1>1 DEF Entry, Sent
    <2>5. Current'
      <3>1. DOMAIN passwd' \subseteq Sent
        BY <2>1, Users DEF Sent
      <3>2. \A n \in DOMAIN passwd' : UsableIn(passwd')[n] = {passwd'[n]}
        BY <3>1 DEF UsableIn
      <3> QED
        BY <2>1, <3>1, <3>2 DEF Current
    <2> QED
      BY <1>1, <2>1, <2>3, <2>4, <2>5 DEF Distinct, Usable
  <1> QED
    BY <1>1, <1>2, <1>3, <1>4, LoginSteps

-----------------------------------------------------------------------------
(* The invariant and what follows from it.                                 *)

LEMMA InitInv == Init => Inv
  <1> SUFFICES ASSUME Init PROVE Inv
    OBVIOUS
  <1>1. PICK c \in Confs : alias = AliasesOf(c.lines) /\ passwd = c.passwd
    BY DEF Init
  <1>2. passwd \in Passwds /\ Len(c.lines) \in Nat /\ NPRINTERDEFS \in Nat /\ CACHE_SIZE \in Nat \ {0}
    BY <1>1, CachesAssumption
  <1>3. Len(alias) <= NPRINTERDEFS
    BY <1>1, <1>2 DEF AliasesOf
  <1>4. cache \in [1..CACHE_SIZE -> Entry] /\ \A i \in DOMAIN cache : cache[i].name = ""
    <2>1. Empty.name = "" /\ Empty \in Entry
      BY DEF Empty, Entry, Password
    <2> QED
      BY <2>1 DEF Init
  <1>5. usable \in [Sent -> SUBSET U]
    <2>1. \A n \in Sent : (IF n \in DOMAIN passwd THEN {passwd[n]} ELSE {}) \in SUBSET U
      BY <1>2, InU
    <2> QED
      BY <2>1 DEF Init, UsableIn
  <1>6. Typed
    <2>1. clock = 1 /\ old_mtime = 0 /\ printcap \in [names : Printcaps, mtime : {1}] /\ printers = {}
      BY DEF Init
    <2>2. printcap \in [names : Printcaps, mtime : 1..clock]
      BY <2>1
    <2>3. clock \in Nat \ {0} /\ old_mtime \in 0..clock /\ printers \subseteq Printer \cup Virtual
      BY <2>1
    <2> QED
      BY <1>2, <1>3, <1>4, <1>5, <2>2, <2>3 DEF Typed
  <1>7. Current
    <2>1. DOMAIN passwd \subseteq Sent
      BY <1>2, Users DEF Sent
    <2> QED
      BY <2>1 DEF Init, UsableIn, Current
  <1>8. ListKnown
    BY DEF Init, ListKnown
  <1> QED
    BY <1>4, <1>6, <1>7, <1>8 DEF Inv, Distinct, Usable

LEMMA NextInv == Inv /\ [Next]_vars => Inv'
  <1> SUFFICES ASSUME Inv, [Next]_vars PROVE Inv'
    OBVIOUS
  <1>1. Typed /\ ListKnown /\ Distinct /\ Usable /\ Current
    BY DEF Inv
  <1>2. cache' \in [1..CACHE_SIZE -> Entry] /\ usable' \in [Sent -> SUBSET U] /\ passwd' \in Passwds
        /\ Distinct' /\ Usable' /\ Current' /\ ListKnown'
    BY <1>1, LoginsStep, ListStep
  <1>3. Len(alias') <= NPRINTERDEFS /\ Virtual' = Virtual
    BY <1>1, Steps DEF Typed, EditPrintcap, Tick, printing, Virtual
  <1>4. /\ clock' \in Nat \ {0} /\ old_mtime' \in 0..clock' /\ printcap' \in [names : Printcaps, mtime : 1..clock']
        /\ printers' \subseteq Printer \cup Virtual
    <2>1. /\ clock \in Nat \ {0} /\ old_mtime \in 0..clock /\ printcap \in [names : Printcaps, mtime : 1..clock]
          /\ printers \subseteq Printer \cup Virtual
      BY <1>1 DEF Typed
    <2>2. CASE UNCHANGED <<printing, clock>>
      BY <2>1, <2>2 DEF printing
    <2>3. ASSUME NEW list, Poll(list), UNCHANGED <<alias, printcap, clock>> PROVE <1>4
      <3>1. old_mtime' = old_mtime \/ old_mtime' = printcap.mtime
        BY <2>3 DEF Poll, Stamp
      <3>2. Real \subseteq Printer
        BY <2>1 DEF Real, Printer
      <3>3. printers' \subseteq Printer \cup Virtual
        BY <2>1, <2>3, <3>2 DEF Poll, Lists, Monitored
      <3> QED
        BY <2>1, <2>3, <3>1, <3>3
    <2>4. CASE EditPrintcap
      <3>1. PICK names \in Printcaps : printcap' = [names |-> names, mtime |-> clock]
        BY <2>4 DEF EditPrintcap
      <3> QED
        BY <2>1, <2>4, <3>1 DEF EditPrintcap
    <2>5. CASE Tick
      BY <2>1, <2>5 DEF Tick, printing
    <2> QED
      BY <2>2, <2>3, <2>4, <2>5, Steps
  <1> QED
    BY <1>2, <1>3, <1>4 DEF Inv, Typed

(* The list, its time stamp, the cache and the passwords agree in every    *)
(* reachable state.                                                        *)
THEOREM Invariance == Spec => []Inv
  BY InitInv, NextInv, PTL DEF Spec

(* Every variable of the printing and login parts stays in its type, and   *)
(* the cache of pcnfsd_cache.c never holds a name twice.                   *)
THEOREM Types == Spec => []TypeOK
  <1>1. Inv => TypeOK
    <2> SUFFICES ASSUME Inv PROVE TypeOK
      OBVIOUS
    <2>1. ASSUME NEW n \in Name PROVE Cardinality(Slots(n)) <= 1
      <3>0. 0 <= 1 /\ 1 <= 1
        OBVIOUS
      <3>1. CASE Slots(n) = {}
        BY <3>1, FS_EmptySet
      <3>2. CASE Slots(n) # {}
        <4>1. Typed /\ Distinct
          BY DEF Inv
        <4>2. PICK k : Slots(n) = {k}
          BY <3>2, <4>1, SlotFound
        <4> QED
          BY <3>0, <4>2, FS_Singleton, Zenon
      <3> QED
        BY <3>1, <3>2
    <2> QED
      BY <2>1 DEF Inv, Typed, TypeOK
  <1> QED
    BY <1>1, Invariance, PTL

(* mon_printers and build_pr_list: the list that is told and the printers  *)
(* that are accepted are those of /etc/printcap and of the aliases, unless *)
(* lpc failed, the file was missing at the start or changed twice in one   *)
(* second.                                                                 *)
THEOREM PrintersAlwaysKnown == Spec => PrintersKnown
  <1>1. Inv /\ [Next]_vars =>
            [ answer'.call \in {"list", "init"} /\ UNCHANGED printcap /\ clock' = clock
                /\ printcap.names # Missing /\ hidden' = {} => Right(answer') ]_<<answer, seen, printers>>
    BY PrintersStep DEF Inv
  <1> QED
    BY <1>1, Invariance, PTL DEF Spec, PrintersKnown

(* check_cache and add_cache_entry: no login with a name is accepted for a *)
(* password or with a uid that the passwd file did not have since the last *)
(* login under that name that missed.                                      *)
THEOREM LoginsAlwaysRight == Spec => LoginsRight
  <1>1. Inv /\ [Next]_vars =>
            [ answer'.call = "auth" /\ answer'.name # "" => answer'.entry \subseteq usable[answer'.name] ]_<<answer, cache>>
    <2> SUFFICES ASSUME Inv, [Next]_vars, answer'.call = "auth", answer'.name # "", <<answer, cache>>' # <<answer, cache>>
                 PROVE  answer'.entry \subseteq usable[answer'.name]
      OBVIOUS
    <2>1. ASSUME NEW n \in Sent, NEW pw \in Password, Auth(n, pw)
          PROVE  answer'.entry \subseteq usable[answer'.name]
      <3>1. CASE n = ""
        <4>1. answer'.name = ""
          BY <2>1, <3>1, NamelessStep DEF Inv
        <4> QED
          BY <4>1
      <3>2. CASE n \in Name
        BY <2>1, <3>2, AuthStep DEF Inv
      <3> QED
        BY <3>1, <3>2 DEF Sent
    <2>2. ~PrList
      <3> SUFFICES ASSUME NEW list, answer' = [call |-> "list", printers |-> list] PROVE FALSE
        BY DEF PrList
      <3> QED
        OBVIOUS
    <2>3. ASSUME NEW pr, PrInit(pr) PROVE FALSE
      <3>1. PICK res : answer' = [call |-> "init", printer |-> pr, res |-> res]
        BY <2>3 DEF PrInit
      <3> QED
        BY <3>1
    <2>4. CASE EditPrintcap \/ ChangePasswd \/ Tick \/ UNCHANGED vars
      BY <2>4 DEF EditPrintcap, ChangePasswd, Tick, printing, logins, vars
    <2> QED
      BY <2>1, <2>2, <2>3, <2>4 DEF Next
  <1> QED
    BY <1>1, Invariance, PTL DEF Spec, LoginsRight

=============================================================================
