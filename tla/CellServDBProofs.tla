-------------------------- MODULE CellServDBProofs --------------------------
(***************************************************************************)
(* Theorems about CellServDB.tla: the file is what the inputs say after a  *)
(* run that ended in order, the cache manager knows what it says but for   *)
(* what a failed run left undone, and the local cell stays.                *)
(***************************************************************************)
EXTENDS CellServDB, ListingsProofs
LOCAL INSTANCE SequencesExt

-----------------------------------------------------------------------------
(* Lists as sets of entries.                                               *)

LEMMA EntriesFacts ==
    ASSUME NEW list \in Seq(Entry)
    PROVE  /\ Entries(list) \subseteq Entry
           /\ Names(list) \subseteq Cells
           /\ \A c \in Names(list) : \E e \in Entries(list) : e.name = c
           /\ \A e \in Entries(list) : e.name \in Names(list) /\ e.servers \in ServersOf(list, e.name)
  <1>1. Entries(list) \subseteq Entry
    BY LenProperties, ElementOfSeq DEF Entries
  <1> QED
    BY <1>1 DEF Names, ServersOf, Entry

(* A cell that is listed once has one set of servers.                      *)
LEMMA OneEntry ==
    ASSUME NEW list \in Seq(Entry), NoneTwice(list), NEW e \in Entries(list)
    PROVE  /\ \A f \in Entries(list) : f.name = e.name => f = e
           /\ ServersOf(list, e.name) = {e.servers}
  <1>1. \A f \in Entries(list) : f.name = e.name => f = e
    BY DEF Entries, NoneTwice
  <1> QED
    BY <1>1 DEF ServersOf

LEMMA ReadFacts ==
    ASSUME NEW E, NEW list \in Seq(E)
    PROVE  /\ Reverse(list) \in Seq(E)
           /\ Entries(Reverse(list)) = Entries(list)
           /\ Len(Reverse(list)) = Len(list)
           /\ \A i \in 1..Len(list) : Reverse(list)[i] = list[(Len(list) - i) + 1]
  <1> DEFINE n == Len(list)
  <1>1. n \in Nat /\ DOMAIN list = 1..n /\ list \in [1..n -> E]
    BY LenProperties
  <1>2. \A i \in 1..n : (n - i) + 1 \in 1..n /\ (n - ((n - i) + 1)) + 1 = i
    BY <1>1
  <1>3. Reverse(list) = [i \in 1..n |-> list[(n - i) + 1]]
    BY DEF Reverse
  <1>4. Reverse(list) \in [1..n -> E]
    BY <1>1, <1>2, <1>3
  <1>5. Reverse(list) \in Seq(E) /\ Len(Reverse(list)) = n /\ DOMAIN Reverse(list) = 1..n
    BY <1>1, <1>4, SeqDef, LenProperties
  <1>6. \A i \in 1..n : Reverse(list)[i] = list[(n - i) + 1]
    BY <1>3
  <1>7. \A i \in 1..n : list[i] = Reverse(list)[(n - i) + 1]
    BY <1>2, <1>6
  <1> QED
    BY <1>1, <1>2, <1>5, <1>6, <1>7 DEF Entries

LEMMA ReadTwice ==
    ASSUME NEW list \in Seq(Entry), NoneTwice(list)
    PROVE  /\ read_csdb(list) \in Seq(Entry) /\ NoneTwice(read_csdb(list))
           /\ Entries(read_csdb(list)) = Entries(list)
           /\ Names(read_csdb(list)) = Names(list)
           /\ \A c : ServersOf(read_csdb(list), c) = ServersOf(list, c)
  <1> DEFINE n == Len(list)
  <1>1. n \in Nat /\ DOMAIN list = 1..n
    BY LenProperties
  <1>2. /\ read_csdb(list) \in Seq(Entry) /\ Entries(read_csdb(list)) = Entries(list)
        /\ Len(read_csdb(list)) = n
        /\ \A i \in 1..n : read_csdb(list)[i] = list[(n - i) + 1]
    BY ReadFacts DEF read_csdb
  <1>3. DOMAIN read_csdb(list) = 1..n
    BY <1>2, LenProperties
  <1>4. NoneTwice(read_csdb(list))
    <2> SUFFICES ASSUME NEW i \in 1..n, NEW k \in 1..n,
                        read_csdb(list)[i].name = read_csdb(list)[k].name
                 PROVE  i = k
      BY <1>3 DEF NoneTwice
    <2>1. (n - i) + 1 \in 1..n /\ (n - k) + 1 \in 1..n
      BY <1>1
    <2>2. list[(n - i) + 1].name = list[(n - k) + 1].name
      BY <1>2
    <2>3. (n - i) + 1 = (n - k) + 1
      BY <1>1, <2>1, <2>2 DEF NoneTwice
    <2> QED
      BY <1>1, <2>3
  <1> QED
    BY <1>2, <1>4 DEF Names, ServersOf

LEMMA WithoutFacts ==
    ASSUME NEW list \in Seq(Entry), NoneTwice(list), NEW names
    PROVE  /\ Without(list, names) \in Seq(Entry) /\ NoneTwice(Without(list, names))
           /\ Entries(Without(list, names)) = {e \in Entries(list) : e.name \notin names}
  <1> DEFINE I == {i \in DOMAIN list : list[i].name \notin names}
             w == Picked(list, I)
  <1>1. I \in SUBSET DOMAIN list
    OBVIOUS
  <1>2. PICK at \in [1..Len(w) -> I] :
              /\ w \in Seq(Entry)
              /\ \A k \in 1..Len(w) : w[k] = list[at[k]]
              /\ \A i \in I : \E k \in 1..Len(w) : at[k] = i
              /\ \A k, l \in 1..Len(w) : k < l => at[k] < at[l]
    BY <1>1, PickedFacts
  <1>3. Len(w) \in Nat /\ DOMAIN w = 1..Len(w) /\ Len(list) \in Nat /\ DOMAIN list = 1..Len(list)
    BY <1>2, LenProperties
  <1>0. \A i \in DOMAIN list : i \in I <=> list[i].name \notin names
    OBVIOUS
  <1> HIDE DEF w, I
  <1>4. Entries(w) = {e \in Entries(list) : e.name \notin names}
    <2>1. \A k \in 1..Len(w) : w[k] \in Entries(list) /\ w[k].name \notin names
      BY <1>0, <1>1, <1>2 DEF Entries
    <2>2. \A i \in DOMAIN list : list[i].name \notin names => list[i] \in Entries(w)
      <3> SUFFICES ASSUME NEW i \in DOMAIN list, list[i].name \notin names
                   PROVE  list[i] \in Entries(w)
        OBVIOUS
      <3>1. PICK k \in 1..Len(w) : at[k] = i
        BY <1>0, <1>2
      <3>2. w[k] = list[i]
        BY <1>2, <3>1
      <3> QED
        BY <1>3, <3>2 DEF Entries
    <2>3. Entries(w) = {w[k] : k \in 1..Len(w)} /\ Entries(list) = {list[i] : i \in DOMAIN list}
      BY <1>3 DEF Entries
    <2> QED
      BY <2>1, <2>2, <2>3
  <1>5. NoneTwice(w)
    <2> SUFFICES ASSUME NEW k \in 1..Len(w), NEW l \in 1..Len(w), w[k].name = w[l].name
                 PROVE  k = l
      BY <1>3 DEF NoneTwice
    <2>1. at[k] = at[l]
      <3>1. list[at[k]].name = list[at[l]].name /\ at[k] \in DOMAIN list /\ at[l] \in DOMAIN list
        BY <1>1, <1>2
      <3> QED
        BY <3>1 DEF NoneTwice
    <2>2. at[k] \in Nat
      BY <1>1, <1>3
    <2>3. ~(k < l) /\ ~(l < k)
      BY <1>2, <2>1, <2>2
    <2> QED
      BY <1>3, <2>3
  <1> QED
    BY <1>2, <1>4, <1>5 DEF Without, w, I

LEMMA ConcatEntries ==
    ASSUME NEW E, NEW s \in Seq(E), NEW t \in Seq(E)
    PROVE  Entries(s \o t) = Entries(s) \cup Entries(t)
  <1> DEFINE m == Len(s)
             n == Len(t)
             u == s \o t
  <1>1. m \in Nat /\ n \in Nat /\ DOMAIN s = 1..m /\ DOMAIN t = 1..n
    BY LenProperties
  <1>2. /\ u \in Seq(E) /\ Len(u) = m + n
        /\ \A i \in 1..(m + n) : u[i] = IF i <= m THEN s[i] ELSE t[i - m]
    BY ConcatProperties
  <1>3. DOMAIN u = 1..(m + n)
    BY <1>2, LenProperties
  <1>4. ASSUME NEW i \in 1..m PROVE i \in 1..(m + n) /\ u[i] = s[i]
    BY <1>1, <1>2
  <1>5. ASSUME NEW i \in 1..n PROVE i + m \in 1..(m + n) /\ u[i + m] = t[i]
    BY <1>1, <1>2
  <1>6. ASSUME NEW i \in 1..(m + n)
        PROVE  (i \in 1..m /\ u[i] = s[i]) \/ (i - m \in 1..n /\ u[i] = t[i - m])
    BY <1>1, <1>2
  <1> HIDE DEF m, n, u
  <1>7. {u[i] : i \in 1..(m + n)} = {s[i] : i \in 1..m} \cup {t[i] : i \in 1..n}
    BY <1>4, <1>5, <1>6
  <1> QED
    BY <1>1, <1>3, <1>7 DEF u, Entries

LEMMA JoinFacts ==
    ASSUME NEW w \in Seq(Entry), NoneTwice(w), NEW b \in Seq(Entry), NoneTwice(b),
           \A e \in Entries(w) : \A f \in Entries(b) : e.name # f.name
    PROVE  /\ w \o b \in Seq(Entry) /\ NoneTwice(w \o b)
           /\ Entries(w \o b) = Entries(w) \cup Entries(b)
  <1> DEFINE u == w \o b
  <1>2. /\ u \in Seq(Entry) /\ Len(u) = Len(w) + Len(b)
        /\ \A i \in 1..(Len(w) + Len(b)) : u[i] = IF i <= Len(w) THEN w[i] ELSE b[i - Len(w)]
    BY ConcatProperties
  <1>3. Entries(u) = Entries(w) \cup Entries(b)
    BY ConcatEntries
  <1>4. /\ Len(w) \in Nat /\ Len(b) \in Nat /\ DOMAIN w = 1..Len(w) /\ DOMAIN b = 1..Len(b)
        /\ DOMAIN u = 1..(Len(w) + Len(b))
    BY <1>2, LenProperties
  <1> HIDE DEF u
  <1>6. NoneTwice(u)
    <2> SUFFICES ASSUME NEW i \in 1..(Len(w) + Len(b)), NEW k \in 1..(Len(w) + Len(b)),
                        u[i].name = u[k].name
                 PROVE  i = k
      BY <1>4 DEF NoneTwice
    <2>1. CASE i <= Len(w) /\ k <= Len(w)
      <3>1. i \in DOMAIN w /\ k \in DOMAIN w
        BY <1>4, <2>1
      <3>2. w[i].name = w[k].name
        BY <1>2, <2>1
      <3> QED
        BY <3>1, <3>2 DEF NoneTwice
    <2>2. CASE i > Len(w) /\ k > Len(w)
      <3>1. i - Len(w) \in 1..Len(b) /\ k - Len(w) \in 1..Len(b)
        BY <1>4, <2>2
      <3>2. b[i - Len(w)].name = b[k - Len(w)].name
        BY <1>2, <1>4, <2>2
      <3>3. i - Len(w) = k - Len(w)
        BY <1>4, <3>1, <3>2 DEF NoneTwice
      <3> QED
        BY <1>4, <3>3
    <2>3. ASSUME NEW x \in 1..(Len(w) + Len(b)), NEW y \in 1..(Len(w) + Len(b)),
                 x <= Len(w), y > Len(w)
          PROVE  u[x].name # u[y].name
      <3>1. x \in 1..Len(w) /\ y - Len(w) \in 1..Len(b)
        BY <1>4, <2>3
      <3>2. u[x] = w[x] /\ u[y] = b[y - Len(w)]
        BY <1>2, <1>4, <2>3
      <3>3. u[x] \in Entries(w) /\ u[y] \in Entries(b)
        BY <1>4, <3>1, <3>2 DEF Entries
      <3> QED
        BY <3>3
    <2> QED
      BY <1>4, <2>1, <2>2, <2>3
  <1> QED
    BY <1>2, <1>3, <1>6 DEF u

LEMMA MergeFacts ==
    ASSUME NEW a \in Seq(Entry), NoneTwice(a), NEW b \in Seq(Entry), NoneTwice(b)
    PROVE  /\ merge_csdb(a, b) \in Seq(Entry) /\ NoneTwice(merge_csdb(a, b))
           /\ Entries(merge_csdb(a, b)) = {e \in Entries(a) : e.name \notin Names(b)} \cup Entries(b)
  <1>1. /\ Without(a, Names(b)) \in Seq(Entry) /\ NoneTwice(Without(a, Names(b)))
        /\ Entries(Without(a, Names(b))) = {e \in Entries(a) : e.name \notin Names(b)}
    BY WithoutFacts
  <1>2. \A e \in Entries(Without(a, Names(b))) : \A f \in Entries(b) : e.name # f.name
    BY <1>1 DEF Names
  <1> QED
    BY <1>1, <1>2, JoinFacts DEF merge_csdb

LEMMA FirstOfFacts ==
    ASSUME NEW list \in Seq(Entry), NoneTwice(list), NEW e \in Entries(list)
    PROVE  FirstOf(list, e.name) = e
  <1> DEFINE I == {i \in DOMAIN list : list[i].name = e.name}
  <1>1. I \subseteq Nat /\ I # {}
    BY LenProperties DEF Entries
  <1>2. First(I) \in I
    BY <1>1, FirstFacts
  <1>3. list[First(I)] \in Entries(list) /\ list[First(I)].name = e.name
    BY <1>2 DEF Entries
  <1> QED
    BY <1>3, OneEntry DEF FirstOf

LEMMA ChangedFacts ==
    ASSUME NEW list \in Seq(Entry), NoneTwice(list), NEW e \in Entry
    PROVE  Changed(e, list) <=> e \notin Entries(list)
  <1>1. e.name \notin Names(list) => e \notin Entries(list)
    BY DEF Names
  <1>2. ASSUME NEW f \in Entries(list), f.name = e.name
        PROVE  Changed(e, list) <=> e # f
    <2>1. FirstOf(list, e.name) = f /\ e.name \in Names(list)
      BY <1>2, FirstOfFacts DEF Names
    <2>2. f \in Entry
      BY EntriesFacts
    <2>3. e.servers = f.servers <=> e = f
      BY <1>2, <2>2 DEF Entry
    <2> QED
      BY <2>1, <2>3 DEF Changed, New, same_servers
  <1>3. ASSUME NEW f \in Entries(list), f.name = e.name
        PROVE  e \in Entries(list) <=> e = f
    BY <1>3, OneEntry
  <1> QED
    BY <1>1, <1>2, <1>3 DEF Changed, New, Names

Action == [kind : {"NEW_CELL", "UPDATE_SERVERS", "INVALID_CELL"}, name : Cells, servers : SUBSET Hosts]

(* The plan holds an action for each entry that is not in the previous     *)
(* list as it is, one for each cell that has vanished, and no others.      *)
LEMMA PlanFacts ==
    ASSUME NEW new \in Seq(Entry), NoneTwice(new), NEW previous \in Seq(Entry), NoneTwice(previous)
    PROVE  LET todo == build_action_list(new, previous)
           IN  /\ todo \in Seq(Action)
               /\ Entries(todo) = {ActionFor(e, previous) : e \in Entries(new) \ Entries(previous)}
                    \cup {Step("INVALID_CELL", e) : e \in {e \in Entries(previous) : e.name \notin Names(new)}}
  <1> DEFINE I == {i \in DOMAIN new : Changed(new[i], previous)}
             differ == Picked(new, I)
             stale == Vanished(new, previous)
             s == [i \in DOMAIN differ |-> ActionFor(differ[i], previous)]
             t == [i \in DOMAIN stale |-> Step("INVALID_CELL", stale[i])]
  <1>1. I \in SUBSET DOMAIN new
    OBVIOUS
  <1>2. PICK at \in [1..Len(differ) -> I] :
              /\ differ \in Seq(Entry)
              /\ \A k \in 1..Len(differ) : differ[k] = new[at[k]]
              /\ \A i \in I : \E k \in 1..Len(differ) : at[k] = i
              /\ \A k, l \in 1..Len(differ) : k < l => at[k] < at[l]
    BY <1>1, PickedFacts
  <1>3. \A e \in Entries(new) : e \in Entry
    BY EntriesFacts
  <1>4. \A i \in DOMAIN new : i \in I <=> new[i] \notin Entries(previous)
    BY <1>3, ChangedFacts DEF Entries
  <1>5. /\ stale \in Seq(Entry)
        /\ Entries(stale) = {e \in Entries(previous) : e.name \notin Names(new)}
    BY WithoutFacts DEF Vanished
  <1> HIDE DEF I, differ, stale
  <1>6. /\ Len(differ) \in Nat /\ DOMAIN differ = 1..Len(differ)
        /\ Len(stale) \in Nat /\ DOMAIN stale = 1..Len(stale)
    BY <1>2, <1>5, LenProperties
  <1>7. Entries(differ) = Entries(new) \ Entries(previous)
    <2>1. \A k \in 1..Len(differ) : differ[k] \in Entries(new) \ Entries(previous)
      BY <1>1, <1>2, <1>4 DEF Entries
    <2>2. ASSUME NEW i \in DOMAIN new, new[i] \notin Entries(previous)
          PROVE  \E k \in 1..Len(differ) : differ[k] = new[i]
      <3>1. PICK k \in 1..Len(differ) : at[k] = i
        BY <1>2, <1>4, <2>2
      <3> QED
        BY <1>2, <3>1
    <2> QED
      BY <1>6, <2>1, <2>2 DEF Entries
  <1>8. \A k \in 1..Len(differ) : ActionFor(differ[k], previous) \in Action
    <2>1. \A k \in 1..Len(differ) : differ[k] \in Entry
      BY <1>2, ElementOfSeq
    <2> QED
      BY <2>1 DEF ActionFor, Step, Action, Entry
  <1>9. \A k \in 1..Len(stale) : Step("INVALID_CELL", stale[k]) \in Action
    <2>1. \A k \in 1..Len(stale) : stale[k] \in Entry
      BY <1>5, ElementOfSeq
    <2> QED
      BY <2>1 DEF Step, Action, Entry
  <1>10. s \in [1..Len(differ) -> Action] /\ t \in [1..Len(stale) -> Action]
    BY <1>6, <1>8, <1>9
  <1>11. s \in Seq(Action) /\ t \in Seq(Action)
    BY <1>6, <1>10, SeqDef
  <1>12. Entries(s) = {ActionFor(e, previous) : e \in Entries(differ)}
    BY <1>6 DEF Entries
  <1>13. Entries(t) = {Step("INVALID_CELL", e) : e \in Entries(stale)}
    BY <1>6 DEF Entries
  <1>14. build_action_list(new, previous) = Reverse(s \o t)
    BY DEF build_action_list, differ, stale, I
  <1> HIDE DEF s, t
  <1>15. s \o t \in Seq(Action) /\ Entries(s \o t) = Entries(s) \cup Entries(t)
    BY <1>11, ConcatProperties, ConcatEntries
  <1>16. /\ build_action_list(new, previous) \in Seq(Action)
         /\ Entries(build_action_list(new, previous)) = Entries(s) \cup Entries(t)
    BY <1>14, <1>15, ReadFacts
  <1> QED
    BY <1>5, <1>7, <1>12, <1>13, <1>16

-----------------------------------------------------------------------------
(* The run.                                                                *)

Wanted == merge_csdb(read_csdb(master), read_csdb(extension))

(* The list a run writes is what the inputs say.                           *)
LEMMA WantedFacts ==
    ASSUME master \in Masters, extension \in Extensions
    PROVE  /\ Wanted \in Seq(Entry) /\ NoneTwice(Wanted)
           /\ Names(Wanted) = Names(master) \cup Names(extension)
           /\ \A c \in Names(Wanted) :
                 ServersOf(Wanted, c) = ServersOf(IF c \in Names(extension) THEN extension ELSE master, c)
  <1> DEFINE a == read_csdb(master)
             b == read_csdb(extension)
  <1>1. /\ master \in Seq(Entry) /\ NoneTwice(master)
        /\ extension \in Seq(Entry) /\ NoneTwice(extension)
    BY FilesAssumption DEF Files
  <1>2. /\ a \in Seq(Entry) /\ NoneTwice(a) /\ Entries(a) = Entries(master)
        /\ b \in Seq(Entry) /\ NoneTwice(b) /\ Entries(b) = Entries(extension)
        /\ Names(b) = Names(extension)
    BY <1>1, ReadTwice
  <1> HIDE DEF a, b
  <1>3. /\ merge_csdb(a, b) \in Seq(Entry) /\ NoneTwice(merge_csdb(a, b))
        /\ Entries(merge_csdb(a, b)) =
              {e \in Entries(master) : e.name \notin Names(extension)} \cup Entries(extension)
    BY <1>2, MergeFacts
  <1>4. Wanted = merge_csdb(a, b)
    BY DEF Wanted, a, b
  <1> HIDE DEF Wanted
  <1>5. Names(Wanted) = Names(master) \cup Names(extension)
    BY <1>3, <1>4 DEF Names
  <1>6. ASSUME NEW c \in Names(extension) PROVE ServersOf(Wanted, c) = ServersOf(extension, c)
    BY <1>3, <1>4 DEF ServersOf
  <1>7. ASSUME NEW c, c \notin Names(extension) PROVE ServersOf(Wanted, c) = ServersOf(master, c)
    BY <1>3, <1>4, <1>7 DEF ServersOf, Names
  <1> QED
    BY <1>3, <1>4, <1>5, <1>6, <1>7

(* Nothing is to be done exactly when the file already says the same.      *)
LEMMA NothingToDo ==
    ASSUME NEW new \in Seq(Entry), NoneTwice(new), NEW previous \in Seq(Entry), NoneTwice(previous)
    PROVE  build_action_list(new, previous) = <<>> <=> Entries(new) = Entries(previous)
  <1> DEFINE todo == build_action_list(new, previous)
             gone == {e \in Entries(previous) : e.name \notin Names(new)}
  <1>1. /\ todo \in Seq(Action)
        /\ Entries(todo) = {ActionFor(e, previous) : e \in Entries(new) \ Entries(previous)}
                             \cup {Step("INVALID_CELL", e) : e \in gone}
    BY PlanFacts
  <1> HIDE DEF todo
  <1>2. todo = <<>> <=> Entries(todo) = {}
    <2>1. Len(todo) \in Nat /\ DOMAIN todo = 1..Len(todo)
      BY <1>1, LenProperties
    <2>2. todo # <<>> => 1 \in DOMAIN todo
      BY <1>1, <2>1, EmptySeq
    <2> QED
      BY <2>2, EmptySeq DEF Entries
  <1>3. Entries(todo) = {} <=> Entries(new) \subseteq Entries(previous) /\ gone = {}
    BY <1>1
  <1>4. ASSUME Entries(new) \subseteq Entries(previous), gone = {}, NEW e \in Entries(previous)
        PROVE  e \in Entries(new)
    <2>1. PICK f \in Entries(new) : f.name = e.name
      BY <1>4 DEF Names
    <2> QED
      BY <1>4, <2>1, OneEntry
  <1>5. Entries(new) = Entries(previous) => gone = {}
    BY DEF Names
  <1> QED
    BY <1>2, <1>3, <1>4, <1>5 DEF todo

-----------------------------------------------------------------------------
(* The invariant.  What is written is what is wanted; what has not been    *)
(* told to the cache manager yet is still among the actions or is lost.    *)

Knows(c) == c \in DOMAIN known /\ known[c] \in ServersOf(file, c)
Planned == pc # "idle" =>
    newlist = Wanted /\ outcome # "good"
Ready == pc = "write" =>
    /\ actions = build_action_list(newlist, read_csdb(file))
    /\ ~DeletesLocal(newlist, read_csdb(file))
Pending == pc \in {"mkdir", "process"} => \A a \in Entries(actions) :
    IF a.kind = "INVALID_CELL" THEN a.name \notin Names(file)
    ELSE a.name \in Names(file) /\ a.servers \in ServersOf(file, a.name)
Followed == \A c \in Names(file) \ lost :
    Knows(c) \/ (pc \in {"mkdir", "process"} /\ c \in Untold)

Inv == TypeOK /\ NoneTwice(file) /\ Planned /\ Ready /\ Pending /\ Followed /\ FileRight

LEMMA LoadedFacts ==
    ASSUME NEW list \in Seq(Entry), NoneTwice(list)
    PROVE  /\ DOMAIN Loaded(list) = Names(list)
           /\ Loaded(list) \in [Names(list) -> SUBSET Hosts]
           /\ \A c \in Names(list) : Loaded(list)[c] \in ServersOf(list, c)
  <1>1. ASSUME NEW c \in Names(list)
        PROVE  Loaded(list)[c] \in ServersOf(list, c) /\ Loaded(list)[c] \in SUBSET Hosts
    <2> DEFINE P(i) == list[i].name = c /\ \A k \in DOMAIN list : list[k].name = c => k <= i
    <2>1. \E i \in DOMAIN list : P(i)
      <3>1. PICK i \in DOMAIN list : list[i].name = c
        BY DEF Names, Entries
      <3>2. \A k \in DOMAIN list : list[k].name = c => k = i
        BY <3>1 DEF NoneTwice
      <3>3. i \in Nat
        BY LenProperties
      <3> QED
        BY <3>1, <3>2, <3>3
    <2> DEFINE i == CHOOSE i \in DOMAIN list : P(i)
    <2>2. i \in DOMAIN list /\ list[i].name = c
      BY <2>1
    <2>3. Loaded(list)[c] = list[i].servers
      BY DEF Loaded
    <2> HIDE DEF i
    <2>4. list[i] \in Entries(list) /\ list[i] \in Entry
      BY <2>2, EntriesFacts DEF Entries
    <2> QED
      BY <2>2, <2>3, <2>4 DEF ServersOf, Entry
  <1> QED
    BY <1>1 DEF Loaded

LEMMA HeadTailEntries ==
    ASSUME NEW E, NEW s \in Seq(E), s # <<>>
    PROVE  /\ Head(s) \in E /\ Tail(s) \in Seq(E)
           /\ Entries(s) = {Head(s)} \cup Entries(Tail(s))
  <1>1. /\ Head(s) \in E /\ Tail(s) \in Seq(E) /\ Len(Tail(s)) = Len(s) - 1
        /\ \A i \in 1..Len(Tail(s)) : Tail(s)[i] = s[i + 1]
    BY HeadTailProperties
  <1>2. /\ Len(s) \in Nat \ {0} /\ DOMAIN s = 1..Len(s) /\ DOMAIN Tail(s) = 1..(Len(s) - 1)
        /\ Head(s) = s[1]
    BY <1>1, EmptySeq, LenProperties
  <1>3. \A i \in 1..Len(s) : i = 1 \/ (i - 1 \in 1..(Len(s) - 1) /\ s[i] = Tail(s)[i - 1])
    BY <1>1, <1>2
  <1>4. \A i \in 1..(Len(s) - 1) : i + 1 \in 1..Len(s) /\ Tail(s)[i] = s[i + 1]
    BY <1>1, <1>2
  <1>5. 1 \in 1..Len(s)
    BY <1>2
  <1>6. Entries(s) = {s[i] : i \in 1..Len(s)}
        /\ Entries(Tail(s)) = {Tail(s)[i] : i \in 1..(Len(s) - 1)}
    BY <1>2 DEF Entries
  <1>7. \A e \in Entries(s) : e = Head(s) \/ e \in Entries(Tail(s))
    BY <1>2, <1>3, <1>6
  <1>8. Head(s) \in Entries(s) /\ \A e \in Entries(Tail(s)) : e \in Entries(s)
    BY <1>2, <1>4, <1>5, <1>6
  <1> QED
    BY <1>1, <1>7, <1>8

LEMMA EntryEqual ==
    ASSUME NEW e \in Entry, NEW f \in Entry, e.name = f.name, e.servers = f.servers
    PROVE  e = f
  BY DEF Entry

(* Two lists that name the same cells with the same servers hold the same  *)
(* entries.                                                                *)
LEMMA EntriesWithin ==
    ASSUME NEW s \in Seq(Entry), NoneTwice(s), NEW t \in Seq(Entry), NoneTwice(t),
           Names(s) \subseteq Names(t), \A c \in Names(s) : ServersOf(s, c) = ServersOf(t, c)
    PROVE  Entries(s) \subseteq Entries(t)
  <1> SUFFICES ASSUME NEW e \in Entries(s) PROVE e \in Entries(t)
    OBVIOUS
  <1>1. e.name \in Names(s) /\ e \in Entry
    BY EntriesFacts
  <1>2. PICK f \in Entries(t) : f.name = e.name
    BY <1>1, EntriesFacts
  <1>3. ServersOf(s, e.name) = {e.servers}
    BY OneEntry
  <1>4. ServersOf(t, f.name) = {f.servers} /\ f \in Entry
    BY OneEntry, EntriesFacts
  <1>5. {e.servers} = {f.servers}
    BY <1>1, <1>2, <1>3, <1>4
  <1>6. e.servers = f.servers
    BY <1>5
  <1> QED
    BY <1>1, <1>2, <1>4, <1>6, EntryEqual

LEMMA SameEntries ==
    ASSUME NEW s \in Seq(Entry), NoneTwice(s), NEW t \in Seq(Entry), NoneTwice(t),
           Names(s) = Names(t), \A c \in Names(s) : ServersOf(s, c) = ServersOf(t, c)
    PROVE  Entries(s) = Entries(t)
  <1>1. Entries(s) \subseteq Entries(t)
    BY EntriesWithin
  <1>2. Entries(t) \subseteq Entries(s)
    BY EntriesWithin
  <1> QED
    BY <1>1, <1>2

LEMMA UntoldFacts ==
    ASSUME actions \in Seq(Action)
    PROVE  /\ Untold = {a.name : a \in {a \in Entries(actions) : a.kind # "INVALID_CELL"}}
           /\ Untold \subseteq Cells
           /\ actions = <<>> => Untold = {}
  <1>1. \A a \in Entries(actions) : a \in Action
    BY ElementOfSeq, LenProperties DEF Entries
  <1>2. Untold = {a.name : a \in {a \in Entries(actions) : a.kind # "INVALID_CELL"}}
    BY DEF Untold, Entries
  <1>3. actions = <<>> => Entries(actions) = {}
    BY EmptySeq, LenProperties DEF Entries
  <1> QED
    BY <1>1, <1>2, <1>3 DEF Action

LEMMA ActionsType == TypeOK => actions \in Seq(Action)
  BY DEF TypeOK, Action

LEMMA InvInit == Init => Inv
  <1> SUFFICES ASSUME Init PROVE Inv
    OBVIOUS
  <1>1. file \in Seq(Entry) /\ NoneTwice(file) /\ Names(file) \subseteq Cells
    BY FilesAssumption, EntriesFacts DEF Init, Files
  <1>2. /\ DOMAIN known = Names(file) /\ known \in [Names(file) -> SUBSET Hosts]
        /\ \A c \in Names(file) : known[c] \in ServersOf(file, c)
    BY <1>1, LoadedFacts DEF Init
  <1>3. TypeOK
    <2>1. /\ newlist \in Seq(Entry)
          /\ actions \in Seq([kind : {"NEW_CELL", "UPDATE_SERVERS", "INVALID_CELL"},
                               name : Cells, servers : SUBSET Hosts])
      BY EmptySeq DEF Init
    <2>2. runs \in 0..Runs /\ mishaps \in 0..Mishaps
      BY BoundsAssumption DEF Init
    <2>3. mounts \subseteq Cells /\ released \subseteq Cells /\ lost \subseteq Cells
      BY <1>1 DEF Init
    <2>4. temp = FALSE /\ rootmounted = FALSE
      BY DEF Init
    <2> QED
      BY <1>1, <1>2, <2>1, <2>2, <2>3, <2>4 DEF Init, TypeOK
  <1> QED
    BY <1>1, <1>2, <1>3 DEF Init, Inv, Planned, Ready, Pending, Followed, Knows, FileRight

(* What a torn write leaves of a list.                                     *)
LEMMA TornFacts ==
    ASSUME NEW list \in Seq(Entry), NoneTwice(list), NEW torn \in Torn(list)
    PROVE  /\ torn \in Seq(Entry) /\ NoneTwice(torn)
           /\ torn # <<>> => Last(torn) \in Entry
           /\ \A e \in Entries(torn) : torn # <<>> /\ (e.name = Last(torn).name \/ e \in Entries(list))
  <1>1. ASSUME torn = <<>>
        PROVE  torn \in Seq(Entry) /\ NoneTwice(torn) /\ Entries(torn) = {}
    BY <1>1, EmptySeq, LenProperties DEF Entries, NoneTwice
  <1>2. ASSUME NEW k \in DOMAIN list, NEW s \in SUBSET list[k].servers,
               torn = [SubSeq(list, 1, k) EXCEPT ![k].servers = s]
        PROVE  /\ torn \in Seq(Entry) /\ NoneTwice(torn)
               /\ torn # <<>> => Last(torn) \in Entry
               /\ \A e \in Entries(torn) :
                     torn # <<>> /\ (e.name = Last(torn).name \/ e \in Entries(list))
    <2> DEFINE h == SubSeq(list, 1, k)
               c == [h[k] EXCEPT !.servers = s]
    <2>1. Len(list) \in Nat /\ DOMAIN list = 1..Len(list) /\ k \in 1..Len(list)
      BY LenProperties
    <2>2. \A i \in 1..k : i \in DOMAIN list /\ list[i] \in Entry
      BY <2>1, ElementOfSeq
    <2>3. h \in Seq(Entry) /\ Len(h) = k /\ \A i \in 1..k : h[i] = list[i]
      BY <2>1, <2>2, SubSeqProperties
    <2>4. k \in 1..k /\ h[k] \in Entry /\ h[k] = list[k]
      BY <2>1, <2>2, <2>3
    <2>5. c \in Entry /\ c.name = list[k].name
      BY <2>4 DEF Entry
    <2> HIDE DEF h, c
    <2>6. torn = [h EXCEPT ![k] = c]
      BY <1>2 DEF h, c
    <2>7. /\ torn \in Seq(Entry) /\ Len(torn) = k
          /\ \A i \in 1..k : torn[i] = IF i = k THEN c ELSE h[i]
      BY <2>3, <2>4, <2>5, <2>6, ExceptSeq
    <2>8. DOMAIN torn = 1..k /\ torn # <<>>
      BY <2>1, <2>7, LenProperties, EmptySeq
    <2>9. \A i \in 1..k : torn[i].name = list[i].name
      BY <2>3, <2>5, <2>7
    <2>10. NoneTwice(torn)
      BY <2>2, <2>8, <2>9 DEF NoneTwice
    <2>11. Last(torn) = c
      BY <2>4, <2>7 DEF Last
    <2>12. \A i \in 1..k : torn[i] = c \/ torn[i] \in Entries(list)
      BY <2>2, <2>3, <2>7 DEF Entries
    <2> QED
      BY <2>5, <2>7, <2>8, <2>10, <2>11, <2>12 DEF Entries
  <1>3. \/ torn = <<>>
        \/ \E k \in DOMAIN list : \E s \in SUBSET list[k].servers :
              torn = [SubSeq(list, 1, k) EXCEPT ![k].servers = s]
    BY DEF Torn
  <1>4. CASE torn = <<>>
    BY <1>1, <1>4
  <1> QED
    BY <1>2, <1>3, <1>4

(* Types, and that no cell is listed twice.                                *)
LEMMA TypeNext == Inv /\ [Next]_vars => TypeOK' /\ NoneTwice(file')
  <1> SUFFICES ASSUME Inv, [Next]_vars PROVE TypeOK' /\ NoneTwice(file')
    OBVIOUS
  <1>0. /\ TypeOK /\ NoneTwice(file) /\ actions \in Seq(Action)
        /\ Wanted \in Seq(Entry) /\ NoneTwice(Wanted) /\ Untold \subseteq Cells
    BY ActionsType, UntoldFacts, WantedFacts DEF Inv, TypeOK
  <1>1. CASE Start
    <2>1. /\ read_csdb(file) \in Seq(Entry) /\ NoneTwice(read_csdb(file))
      BY <1>0, ReadTwice DEF TypeOK
    <2>2. build_action_list(Wanted, read_csdb(file)) \in Seq(Action)
      BY <1>0, <2>1, PlanFacts
    <2>3. <<>> \in Seq(Action)
      BY EmptySeq
    <2>4. actions' \in Seq(Action) /\ newlist' \in Seq(Entry)
      BY <1>0, <1>1, <2>2, <2>3 DEF Start, Exits, run, Wanted, TypeOK
    <2>5. runs' \in 0..Runs
      BY BoundsAssumption, <1>0, <1>1 DEF Start, TypeOK
    <2>6. /\ pc' \in {"idle", "write"} /\ outcome' \in {"none", "good", "failed"}
          /\ options' \in OptionSets \cup {{}} /\ rootmounted' = FALSE
      BY <1>0, <1>1 DEF Start, Exits, run, TypeOK
    <2>7. UNCHANGED <<master, extension, file, known, mounts, released, temp, lost, mishaps>>
      BY <1>1 DEF Start, inputs, tree
    <2> QED
      BY <1>0, <2>4, <2>5, <2>6, <2>7 DEF TypeOK, Action
  <1>2. CASE Write
    <2>1. file' = newlist /\ newlist = Wanted
      BY <1>2 DEF Write, Inv, Planned
    <2>2. pc' \in {"mkdir", "process"}
      BY <1>2 DEF Write
    <2>3. UNCHANGED <<master, extension, known, mounts, released, temp, options, newlist, actions,
                      rootmounted, outcome, lost, runs, mishaps>>
      BY <1>2 DEF Write, inputs, tree, run
    <2>4. ~rootmounted
      BY <1>0, <1>2 DEF Write, TypeOK
    <2> QED
      BY <1>0, <2>1, <2>2, <2>3, <2>4 DEF TypeOK
  <1>3. CASE MakeTemp
    <2>1. mishaps' \in 0..Mishaps
      BY BoundsAssumption, <1>0, <1>3 DEF MakeTemp, Failures, TypeOK
    <2> QED
      BY <1>0, <1>3, <2>1 DEF MakeTemp, TypeOK, inputs, tree, run
  <1>4. CASE UpdateServers \/ NewCell \/ InvalidCell
    <2>1. /\ Todo \in Action /\ actions' \in Seq(Action)
      BY <1>0, <1>4, HeadTailProperties DEF UpdateServers, NewCell, InvalidCell, Todo
    <2>2. mishaps' \in 0..Mishaps
      BY BoundsAssumption, <1>0, <1>4 DEF UpdateServers, NewCell, InvalidCell, Failures, TypeOK
    <2>3. Todo.name \in Cells /\ Todo.servers \in SUBSET Hosts
      BY <2>1 DEF Action
    <2>4. DOMAIN known' \subseteq Cells /\ known' \in [DOMAIN known' -> SUBSET Hosts]
          /\ lost' \subseteq Cells
      BY <1>0, <1>4, <2>3 DEF UpdateServers, NewCell, InvalidCell, Newcell, TypeOK
    <2>5. mounts' \subseteq Cells
      BY <1>0, <1>4, <2>3 DEF UpdateServers, NewCell, InvalidCell, tree, TypeOK
    <2>6. UNCHANGED <<master, extension, file, released, temp, pc, options, newlist, rootmounted,
                      outcome, runs>>
      BY <1>4 DEF UpdateServers, NewCell, InvalidCell, inputs, tree, run
    <2> QED
      BY <1>0, <2>1, <2>2, <2>4, <2>5, <2>6 DEF TypeOK, Action
  <1>5. CASE Finish \/ RemoveTempFails \/ MakeTempFails
    <2>1. mishaps' \in 0..Mishaps
      BY BoundsAssumption, <1>0, <1>5 DEF Finish, RemoveTempFails, MakeTempFails, Failures, TypeOK
    <2>2. actions' \in Seq(Action)
      BY <1>5, EmptySeq DEF Finish, RemoveTempFails, MakeTempFails, Exits
    <2>3. released' \subseteq Cells /\ temp' \in BOOLEAN /\ lost' \subseteq Cells
      BY <1>0, <1>5 DEF Finish, RemoveTempFails, MakeTempFails, TypeOK, tree
    <2>4. /\ rootmounted' = FALSE /\ pc' = "idle" /\ outcome' \in {"good", "failed"}
          /\ UNCHANGED <<master, extension, file, known, mounts, options, newlist, runs>>
      BY <1>5 DEF Finish, RemoveTempFails, MakeTempFails, Exits, inputs, tree, run
    <2> QED
      BY <1>0, <2>1, <2>2, <2>3, <2>4 DEF TypeOK, Action
  <1>6. CASE Die
    <2>1. mishaps' \in 0..Mishaps
      BY BoundsAssumption, <1>0, <1>6 DEF Die, Failures, TypeOK
    <2>2. file' = file \/ file' \in Torn(Wanted)
      BY <1>6 DEF Die, Inv, Planned
    <2>3. /\ file' \in Seq(Entry) /\ NoneTwice(file')
          /\ file' # <<>> /\ pc = "write" /\ file' # file => Last(file') \in Entry
      BY <1>0, <2>2, TornFacts DEF TypeOK
    <2>4. lost' \subseteq Cells
      BY <1>0, <1>6, <2>3 DEF Die, TypeOK, Entry
    <2>5. actions' \in Seq(Action)
      BY <1>6, EmptySeq DEF Die, Exits
    <2>6. /\ rootmounted' = FALSE /\ pc' = "idle" /\ outcome' = "failed"
          /\ UNCHANGED <<master, extension, known, mounts, released, temp, options, newlist, runs>>
      BY <1>6 DEF Die, Exits, inputs, tree, run
    <2> QED
      BY <1>0, <2>1, <2>3, <2>4, <2>5, <2>6 DEF TypeOK, Action
  <1>7. CASE Reboot
    <2>1. mishaps' \in 0..Mishaps
      BY BoundsAssumption, <1>0, <1>7 DEF Reboot, Failures, TypeOK
    <2>2. file \in Seq(Entry) /\ Names(file) \subseteq Cells
      BY <1>0, EntriesFacts DEF TypeOK
    <2>3. DOMAIN known' \subseteq Cells /\ known' \in [DOMAIN known' -> SUBSET Hosts]
      BY <1>0, <1>7, <2>2, LoadedFacts DEF Reboot
    <2>4. /\ lost' = {}
          /\ UNCHANGED <<master, extension, file, mounts, released, temp, pc, options, newlist,
                          actions, rootmounted, outcome, runs>>
      BY <1>7 DEF Reboot, inputs, tree, run
    <2> QED
      BY <1>0, <2>1, <2>3, <2>4 DEF TypeOK
  <1>8. CASE CleanUp
    BY <1>0, <1>8 DEF CleanUp, TypeOK, inputs, tree, run
  <1>9. CASE NewInputs
    <2>1. runs' \in 0..Runs
      BY BoundsAssumption, <1>0, <1>9 DEF NewInputs, TypeOK
    <2>2. /\ master' \in Masters /\ extension' \in Extensions /\ outcome' = "none"
          /\ UNCHANGED <<file, known, mounts, released, temp, pc, options, newlist, actions,
                          rootmounted, lost, mishaps>>
      BY <1>0, <1>9 DEF NewInputs, TypeOK, tree, run
    <2> QED
      BY <1>0, <2>1, <2>2 DEF TypeOK
  <1>10. CASE UNCHANGED vars
    BY <1>0, <1>10 DEF TypeOK, vars
  <1> QED
    BY <1>1, <1>2, <1>3, <1>4, <1>5, <1>6, <1>7, <1>8, <1>9, <1>10 DEF Next, Run

(* What is planned and what is left to do.                                 *)
LEMMA PlanNext == Inv /\ [Next]_vars => Planned' /\ Ready' /\ Pending' /\ FileRight'
  <1> SUFFICES ASSUME Inv, [Next]_vars PROVE Planned' /\ Ready' /\ Pending' /\ FileRight'
    OBVIOUS
  <1>0. /\ TypeOK /\ NoneTwice(file) /\ file \in Seq(Entry) /\ actions \in Seq(Action)
        /\ Wanted \in Seq(Entry) /\ NoneTwice(Wanted)
        /\ Names(Wanted) = Names(master) \cup Names(extension)
        /\ \A c \in Names(Wanted) :
              ServersOf(Wanted, c) = ServersOf(IF c \in Names(extension) THEN extension ELSE master, c)
    BY ActionsType, WantedFacts DEF Inv, TypeOK
  <1>1. CASE Start
    <2> DEFINE previous == read_csdb(file)
               todo == build_action_list(Wanted, previous)
    <2>1. /\ previous \in Seq(Entry) /\ NoneTwice(previous) /\ Entries(previous) = Entries(file)
      BY <1>0, ReadTwice
    <2>2. todo = <<>> <=> Entries(Wanted) = Entries(file)
      BY <1>0, <2>1, NothingToDo
    <2>3. todo = <<>> => /\ Names(file) = Names(Wanted)
                         /\ \A c : ServersOf(file, c) = ServersOf(Wanted, c)
      BY <2>2 DEF Names, ServersOf
    <2>4. outcome = "good" => todo = <<>>
      <3> SUFFICES ASSUME outcome = "good" PROVE Entries(Wanted) = Entries(file)
        BY <2>2
      <3>1. Names(Wanted) = Names(file) /\ \A c \in Names(Wanted) : ServersOf(Wanted, c) = ServersOf(file, c)
        BY <1>0 DEF Inv, FileRight
      <3> QED
        BY <1>0, <3>1, SameEntries
    <2> HIDE DEF todo, previous
    <2>5. UNCHANGED <<master, extension, file>> /\ pc = "idle"
      BY <1>1 DEF Start, inputs
    <2>6. Wanted' = Wanted
      BY <2>5 DEF Wanted
    <2>7. \/ pc' = "idle" /\ (outcome' \in {"failed", outcome} \/ todo = <<>>)
          \/ /\ pc' = "write" /\ outcome' = outcome /\ todo # <<>> /\ ~DeletesLocal(Wanted, previous)
             /\ newlist' = Wanted /\ actions' = todo
      BY <1>1 DEF Start, Exits, Wanted, todo, previous
    <2>8. CASE pc' = "idle"
      <3>1. FileRight'
        BY <1>0, <2>3, <2>5, <2>7, <2>8 DEF Inv, FileRight
      <3> QED
        BY <2>8, <3>1 DEF Planned, Ready, Pending
    <2>9. CASE pc' = "write"
      <3>1. outcome' # "good"
        BY <2>4, <2>7, <2>9
      <3>2. Ready'
        BY <2>5, <2>7, <2>9 DEF Ready, todo, previous, DeletesLocal
      <3> QED
        BY <2>6, <2>7, <2>9, <3>1, <3>2 DEF Planned, Pending, FileRight
    <2> QED
      BY <2>7, <2>8, <2>9
  <1>2. CASE Write
    <2> DEFINE previous == read_csdb(file)
    <2>1. /\ previous \in Seq(Entry) /\ NoneTwice(previous)
      BY <1>0, ReadTwice
    <2>2. newlist = Wanted /\ actions = build_action_list(Wanted, previous) /\ outcome # "good"
      BY <1>2 DEF Write, Inv, Planned, Ready
    <2> HIDE DEF previous
    <2>3. Entries(actions) = {ActionFor(e, previous) : e \in Entries(Wanted) \ Entries(previous)}
            \cup {Step("INVALID_CELL", e) : e \in {e \in Entries(previous) : e.name \notin Names(Wanted)}}
      BY <1>0, <2>1, <2>2, PlanFacts
    <2>4. \A e \in Entries(Wanted) : e.name \in Names(Wanted) /\ e.servers \in ServersOf(Wanted, e.name)
      BY <1>0, EntriesFacts
    <2>5. \A a \in Entries(actions) :
             IF a.kind = "INVALID_CELL" THEN a.name \notin Names(Wanted)
             ELSE a.name \in Names(Wanted) /\ a.servers \in ServersOf(Wanted, a.name)
      BY <2>3, <2>4 DEF ActionFor, Step
    <2>6. /\ file' = Wanted /\ newlist' = newlist /\ actions' = actions /\ outcome' = outcome
          /\ pc' \in {"mkdir", "process"} /\ UNCHANGED <<master, extension>>
      BY <1>2, <2>2 DEF Write, inputs, run
    <2>7. Wanted' = Wanted
      BY <2>6 DEF Wanted
    <2> QED
      BY <2>2, <2>5, <2>6, <2>7 DEF Planned, Ready, Pending, FileRight
  <1>3. CASE MakeTemp
    <2>1. UNCHANGED <<master, extension, file, newlist, actions, outcome>> /\ pc = "mkdir" /\ pc' = "process"
      BY <1>3 DEF MakeTemp, inputs, run
    <2>2. Wanted' = Wanted
      BY <2>1 DEF Wanted
    <2> QED
      BY <2>1, <2>2 DEF Inv, Planned, Ready, Pending, FileRight
  <1>4. CASE UpdateServers \/ NewCell \/ InvalidCell
    <2>1. /\ pc = "process" /\ actions # <<>> /\ actions' = Tail(actions)
          /\ UNCHANGED <<master, extension, file, newlist, outcome, pc>>
      BY <1>4 DEF UpdateServers, NewCell, InvalidCell, inputs, run
    <2>2. Wanted' = Wanted
      BY <2>1 DEF Wanted
    <2>3. Entries(actions') \subseteq Entries(actions)
      BY <1>0, <2>1, HeadTailEntries
    <2> QED
      BY <2>1, <2>2, <2>3 DEF Inv, Planned, Ready, Pending, FileRight
  <1>5. CASE Finish
    <2>1. /\ pc = "process" /\ pc' = "idle" /\ UNCHANGED <<master, extension, file>>
      BY <1>5 DEF Finish, Exits, inputs
    <2>2. file = Wanted
      BY <1>0, <2>1 DEF Inv, Planned, TypeOK
    <2> QED
      BY <1>0, <2>1, <2>2 DEF Planned, Ready, Pending, FileRight
  <1>6. CASE RemoveTempFails \/ MakeTempFails \/ Die
    <2>1. pc' = "idle" /\ outcome' = "failed"
      BY <1>6 DEF RemoveTempFails, MakeTempFails, Die, Exits
    <2> QED
      BY <2>1 DEF Planned, Ready, Pending, FileRight
  <1>7. CASE Reboot \/ CleanUp
    <2>1. pc' = "idle" /\ UNCHANGED <<master, extension, file, outcome, pc>>
      BY <1>7 DEF Reboot, CleanUp, inputs
    <2> QED
      BY <2>1 DEF Inv, Planned, Ready, Pending, FileRight
  <1>8. CASE NewInputs
    <2>1. pc' = "idle" /\ outcome' = "none"
      BY <1>8 DEF NewInputs
    <2> QED
      BY <2>1 DEF Planned, Ready, Pending, FileRight
  <1>9. CASE UNCHANGED vars
    <2>1. UNCHANGED <<master, extension, file, pc, newlist, actions, outcome>>
      BY <1>9 DEF vars
    <2>2. Wanted' = Wanted
      BY <2>1 DEF Wanted
    <2> QED
      BY <2>1, <2>2 DEF Inv, Planned, Ready, Pending, FileRight, DeletesLocal
  <1> QED
    BY <1>1, <1>2, <1>3, <1>4, <1>5, <1>6, <1>7, <1>8, <1>9 DEF Next, Run

(* What the cache manager knows.                                           *)
LEMMA FollowedNext == Inv /\ [Next]_vars => Followed'
  <1> SUFFICES ASSUME Inv, [Next]_vars PROVE Followed'
    OBVIOUS
  <1>0. /\ TypeOK /\ NoneTwice(file) /\ file \in Seq(Entry) /\ actions \in Seq(Action)
        /\ Wanted \in Seq(Entry) /\ NoneTwice(Wanted) /\ Followed
        /\ Untold = {a.name : a \in {a \in Entries(actions) : a.kind # "INVALID_CELL"}}
        /\ actions = <<>> => Untold = {}
    BY ActionsType, UntoldFacts, WantedFacts DEF Inv, TypeOK
  <1>1. CASE Start \/ CleanUp \/ NewInputs
    <2>1. UNCHANGED <<file, known, lost>> /\ pc = "idle"
      BY <1>1 DEF Start, CleanUp, NewInputs
    <2> QED
      BY <1>0, <2>1 DEF Followed, Knows
  (* Before the file is written: an entry that is not among the actions is *)
  (* in the file already.                                                  *)
  <1>2. ASSUME pc = "write"
        PROVE  \A e \in Entries(Wanted) : e.name \notin Untold => e \in Entries(file)
    <2> DEFINE previous == read_csdb(file)
    <2>1. /\ previous \in Seq(Entry) /\ NoneTwice(previous) /\ Entries(previous) = Entries(file)
      BY <1>0, ReadTwice
    <2>2. actions = build_action_list(Wanted, previous)
      BY <1>2 DEF Inv, Planned, Ready
    <2> HIDE DEF previous
    <2>3. Entries(actions) = {ActionFor(e, previous) : e \in Entries(Wanted) \ Entries(previous)}
            \cup {Step("INVALID_CELL", e) : e \in {e \in Entries(previous) : e.name \notin Names(Wanted)}}
      BY <1>0, <2>1, <2>2, PlanFacts
    <2> SUFFICES ASSUME NEW e \in Entries(Wanted), e \notin Entries(file) PROVE e.name \in Untold
      OBVIOUS
    <2>4. ActionFor(e, previous) \in Entries(actions)
      BY <2>1, <2>3
    <2>5. ActionFor(e, previous).kind # "INVALID_CELL" /\ ActionFor(e, previous).name = e.name
      BY DEF ActionFor, Step
    <2> QED
      BY <1>0, <2>4, <2>5
  <1>3. ASSUME pc = "write", NEW e \in Entries(Wanted), e.name \notin Untold, e.name \notin lost
        PROVE  e.name \in DOMAIN known /\ known[e.name] = e.servers
    <2>1. e \in Entries(file)
      BY <1>2, <1>3
    <2>2. e.name \in Names(file) /\ ServersOf(file, e.name) = {e.servers}
      BY <1>0, <2>1, OneEntry, EntriesFacts
    <2> QED
      BY <1>0, <1>3, <2>2 DEF Followed, Knows
  <1>4. CASE Write
    <2>1. /\ file' = Wanted /\ pc = "write" /\ pc' \in {"mkdir", "process"}
          /\ UNCHANGED <<known, lost, actions>>
      BY <1>4 DEF Write, Inv, Planned
    <2>2. Untold' = Untold
      BY <2>1 DEF Untold
    <2> SUFFICES ASSUME NEW c \in Names(Wanted), c \notin lost, c \notin Untold PROVE Knows(c)'
      BY <2>1, <2>2 DEF Followed
    <2>3. PICK e \in Entries(Wanted) : e.name = c
      BY DEF Names
    <2>4. c \in DOMAIN known /\ known[c] = e.servers
      BY <1>3, <2>1, <2>3
    <2>5. e.servers \in ServersOf(Wanted, c)
      BY <2>3 DEF ServersOf
    <2> QED
      BY <2>1, <2>4, <2>5 DEF Knows
  <1>5. CASE MakeTemp
    <2>1. UNCHANGED <<file, known, lost, actions>> /\ pc = "mkdir" /\ pc' = "process"
      BY <1>5 DEF MakeTemp
    <2>2. Untold' = Untold
      BY <2>1 DEF Untold
    <2> QED
      BY <1>0, <2>1, <2>2 DEF Followed, Knows
  <1>6. CASE UpdateServers \/ NewCell \/ InvalidCell
    <2>1. /\ pc = "process" /\ actions # <<>> /\ actions' = Tail(actions)
          /\ UNCHANGED <<file, pc>>
      BY <1>6 DEF UpdateServers, NewCell, InvalidCell
    <2>2. /\ Todo \in Action /\ actions' \in Seq(Action)
          /\ Entries(actions) = {Todo} \cup Entries(actions')
      BY <1>0, <2>1, HeadTailEntries DEF Todo
    <2>3. Untold' = {a.name : a \in {a \in Entries(actions') : a.kind # "INVALID_CELL"}}
      BY DEF Untold, Entries
    <2>4. Untold \subseteq Untold' \cup (IF Todo.kind = "INVALID_CELL" THEN {} ELSE {Todo.name})
      BY <1>0, <2>2, <2>3
    <2>5. CASE InvalidCell
      <3>1. UNCHANGED <<known, lost>> /\ Todo.kind = "INVALID_CELL"
        BY <2>5 DEF InvalidCell
      <3>2. Untold \subseteq Untold'
        BY <2>4, <3>1
      <3> QED
        BY <1>0, <2>1, <3>1, <3>2 DEF Followed, Knows
    <2>6. CASE UpdateServers \/ NewCell
      <3>1. Todo.kind # "INVALID_CELL" /\ (Newcell(Todo) \/ (lost' = lost \cup {Todo.name} /\ UNCHANGED known))
        BY <2>6 DEF UpdateServers, NewCell
      <3>2. Todo.name \in Names(file) /\ Todo.servers \in ServersOf(file, Todo.name)
        BY <2>1, <2>2, <3>1 DEF Inv, Pending
      <3> SUFFICES ASSUME NEW c \in Names(file), c \notin lost', c \notin Untold' PROVE Knows(c)'
        BY <2>1 DEF Followed
      <3>3. CASE c = Todo.name
        BY <2>1, <3>1, <3>2, <3>3 DEF Newcell, Knows
      <3>4. CASE c # Todo.name
        <4>1. c \notin Untold /\ c \notin lost
          BY <2>4, <3>1, <3>4 DEF Newcell
        <4>2. Knows(c)
          BY <1>0, <4>1 DEF Followed
        <4>3. c \in DOMAIN known' /\ known'[c] = known[c]
          BY <3>1, <3>4, <4>2 DEF Newcell, Knows
        <4> QED
          BY <2>1, <4>2, <4>3 DEF Knows
      <3> QED
        BY <3>3, <3>4
    <2> QED
      BY <1>6, <2>5, <2>6
  <1>7. CASE Finish \/ RemoveTempFails
    <2>1. UNCHANGED <<file, known, lost>> /\ actions = <<>> /\ pc' = "idle"
      BY <1>7 DEF Finish, RemoveTempFails, Exits
    <2> QED
      BY <1>0, <2>1 DEF Followed, Knows
  <1>8. CASE MakeTempFails \/ (Die /\ pc # "write")
    <2>1. UNCHANGED <<file, known>> /\ lost' = lost \cup Untold /\ pc' = "idle"
      BY <1>8 DEF MakeTempFails, Die, Exits
    <2> QED
      BY <1>0, <2>1 DEF Followed, Knows
  <1>9. CASE Die /\ pc = "write"
    <2>1. /\ pc' = "idle" /\ known' = known
          /\ file' = file \/ file' \in Torn(Wanted)
      BY <1>9 DEF Die, Exits, Inv, Planned
    <2>2. CASE file' = file
      <3>1. lost' = lost
        BY <1>9, <2>2 DEF Die
      <3> QED
        BY <1>0, <1>9, <2>1, <2>2, <3>1 DEF Followed, Knows
    <2>3. CASE file' # file
      <3>1. lost' = lost \cup Untold \cup (IF file' # <<>> THEN {Last(file').name} ELSE {})
        BY <1>9, <2>3 DEF Die
      <3>2. \A e \in Entries(file') : file' # <<>> /\ (e.name = Last(file').name \/ e \in Entries(Wanted))
        BY <1>0, <2>1, <2>3, TornFacts
      <3> SUFFICES ASSUME NEW c \in Names(file'), c \notin lost' PROVE Knows(c)'
        BY DEF Followed
      <3>3. PICK e \in Entries(file') : e.name = c
        BY DEF Names
      <3>4. e \in Entries(Wanted) /\ c \notin Untold /\ c \notin lost
        BY <3>1, <3>2, <3>3
      <3>5. c \in DOMAIN known /\ known[c] = e.servers
        BY <1>3, <1>9, <3>3, <3>4
      <3>6. e.servers \in ServersOf(file', c)
        BY <3>3 DEF ServersOf
      <3> QED
        BY <2>1, <3>5, <3>6 DEF Knows
    <2> QED
      BY <2>2, <2>3
  <1>10. CASE Reboot
    <2>1. UNCHANGED file /\ known' = Loaded(file)
      BY <1>10 DEF Reboot
    <2> QED
      BY <1>0, <2>1, LoadedFacts DEF Followed, Knows
  <1>11. CASE UNCHANGED vars
    <2>1. UNCHANGED <<file, known, lost, actions, pc>>
      BY <1>11 DEF vars
    <2>2. Untold' = Untold
      BY <2>1 DEF Untold
    <2> QED
      BY <1>0, <2>1, <2>2 DEF Followed, Knows
  <1> QED
    BY <1>1, <1>4, <1>5, <1>6, <1>7, <1>8, <1>9, <1>10, <1>11 DEF Next, Run

LEMMA InvNext == Inv /\ [Next]_vars => Inv'
  BY TypeNext, PlanNext, FollowedNext DEF Inv

THEOREM Invariance == Spec => []Inv
  BY InvInit, InvNext, PTL DEF Spec

(* Every variable stays in its type, what is processed was written before, *)
(* and root.afs is mounted only in a temporary directory that is there.    *)
THEOREM TypeCorrect == Spec => []TypeOK
  <1>1. Inv => TypeOK
    BY DEF Inv
  <1> QED
    BY <1>1, Invariance, PTL

(* After a run that ended in order the file is what the inputs say.        *)
THEOREM FileCorrect == Spec => []FileRight
  <1>1. Inv => FileRight
    BY DEF Inv
  <1> QED
    BY <1>1, Invariance, PTL

(* Between runs the cache manager knows what the file says, but for what a *)
(* failed run left undone.                                                 *)
THEOREM KernelCorrect == Spec => []KernelFollows
  <1>1. Inv => KernelFollows
    BY DEF Inv, Followed, Knows, KernelFollows
  <1> QED
    BY <1>1, Invariance, PTL

(* Only a torn write takes the local cell out of the file; as long as it   *)
(* is there, it stays mounted and known.                                   *)
LocalStep ==
    /\ LocalCell \in Names(file) => LocalCell \in Names(file') \/ (pc = "write" /\ outcome' = "failed")
    /\ LocalCell \in mounts /\ LocalCell \in Names(file) => LocalCell \in mounts'
    /\ LocalCell \in DOMAIN known /\ LocalCell \in Names(file) => LocalCell \in DOMAIN known'

LEMMA LocalNext == Inv /\ [Next]_vars => [LocalStep]_vars
  <1> SUFFICES ASSUME Inv, Next, LocalCell \in Names(file)
               PROVE  /\ LocalCell \in Names(file') \/ (pc = "write" /\ outcome' = "failed")
                      /\ LocalCell \in mounts => LocalCell \in mounts'
                      /\ LocalCell \in DOMAIN known => LocalCell \in DOMAIN known'
    BY DEF LocalStep
  <1>1. CASE Write
    <2> DEFINE previous == read_csdb(file)
    <2>1. file' = newlist /\ ~DeletesLocal(newlist, previous) /\ mounts' = mounts /\ known' = known
      BY <1>1 DEF Write, Inv, Ready, tree
    <2>2. /\ previous \in Seq(Entry) /\ NoneTwice(previous) /\ Names(previous) = Names(file)
      BY ReadTwice DEF Inv, TypeOK
    <2> HIDE DEF previous
    <2>3. Entries(Without(previous, Names(newlist))) =
             {e \in Entries(previous) : e.name \notin Names(newlist)}
      BY <2>2, WithoutFacts
    <2>4. PICK e \in Entries(previous) : e.name = LocalCell
      BY <2>2 DEF Names
    <2>5. LocalCell \notin Names(Without(previous, Names(newlist)))
      BY <2>1 DEF DeletesLocal, Vanished
    <2>6. e.name \in Names(newlist)
      BY <2>3, <2>4, <2>5 DEF Names
    <2> QED
      BY <2>1, <2>4, <2>6
  <1>2. CASE Die
    BY <1>2 DEF Die, Exits, tree
  <1>3. CASE InvalidCell
    <2>1. pc = "process" /\ actions # <<>> /\ Todo.kind = "INVALID_CELL" /\ file' = file
      BY <1>3 DEF InvalidCell
    <2>2. Todo \in Entries(actions)
      BY <2>1, ActionsType, HeadTailEntries DEF Inv, Todo
    <2>3. Todo.name # LocalCell
      BY <2>1, <2>2 DEF Inv, Pending
    <2> QED
      BY <1>3, <2>1, <2>3 DEF InvalidCell
  <1>4. ASSUME Newcell(Todo) \/ UNCHANGED known, LocalCell \in DOMAIN known
        PROVE  LocalCell \in DOMAIN known'
    BY <1>4 DEF Newcell
  <1>5. CASE NewCell
    <2>1. file' = file /\ mounts \subseteq mounts' /\ (Newcell(Todo) \/ UNCHANGED known)
      BY <1>5 DEF NewCell
    <2> QED
      BY <1>4, <2>1
  <1>6. CASE UpdateServers
    <2>1. file' = file /\ mounts' = mounts /\ (Newcell(Todo) \/ UNCHANGED known)
      BY <1>6 DEF UpdateServers, tree
    <2> QED
      BY <1>4, <2>1
  <1>7. CASE Reboot
    <2>1. /\ file' = file /\ mounts' = mounts /\ known' = Loaded(file)
          /\ file \in Seq(Entry) /\ NoneTwice(file)
      BY <1>7 DEF Reboot, tree, Inv, TypeOK
    <2> QED
      BY <2>1, LoadedFacts
  <1>8. CASE \/ Start \/ MakeTemp \/ MakeTempFails \/ Finish \/ RemoveTempFails \/ CleanUp \/ NewInputs
    BY <1>8 DEF Start, MakeTemp, MakeTempFails, Finish, RemoveTempFails, CleanUp, NewInputs, tree
  <1> QED
    BY <1>1, <1>2, <1>3, <1>5, <1>6, <1>7, <1>8 DEF Next, Run

THEOREM LocalCorrect == Spec => LocalKept
  <1>1. Inv /\ [Next]_vars => [LocalStep]_vars
    BY LocalNext
  <1>2. LocalStep => /\ LocalCell \in Names(file) => LocalCell \in Names(file') \/ (pc = "write" /\ outcome' = "failed")
                     /\ LocalCell \in mounts /\ LocalCell \in Names(file) => LocalCell \in mounts'
                     /\ LocalCell \in DOMAIN known /\ LocalCell \in Names(file) => LocalCell \in DOMAIN known'
    BY DEF LocalStep
  <1> QED
    BY <1>1, <1>2, Invariance, PTL DEF Spec, LocalKept
=============================================================================
