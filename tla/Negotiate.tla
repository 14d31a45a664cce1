----------------------------- MODULE Negotiate -----------------------------
(***************************************************************************)
(* How the volume balancer decides what to move: the loop balance() of     *)
(* balance/balance.c with domove, and the agents it asks in turn.          *)
(*                                                                         *)
(* An agent watches one measure of the partitions (space, number of        *)
(* volumes, use per week, space promised) and keeps books of its own: the  *)
(* partitions sorted by their load, the volumes of each partition and a    *)
(* pointer to the next volume to consider.  It proposes moves off an       *)
(* overloaded partition; the other agents may veto them; a move that is    *)
(* made is announced to all.  agent_bysize.c, agent_bynumber.c and         *)
(* agent_byoverdraft.c are one program with different measures, so they    *)
(* are one agent here with a measure as parameter.  agent_byweekuse.c      *)
(* differs in that it sorts the servers and the partitions of each, and    *)
(* byoverdraft in that it adjusts the counter it watches a second time     *)
(* when domove has done so already.  The loads are compared as exact       *)
(* fractions, the code compares doubles.                                   *)
(***************************************************************************)
EXTENDS Integers, Sequences, FiniteSets, SequencesExt, Listings

CONSTANTS
    Server,         \* fileservers of the cell
    Partition,      \* partitions of the cell
    Volume,         \* volumes that may be moved
    Cells,          \* the cells and command lines of interest
    Word,           \* 2^w for the unsigned long of partition.maxquota
    NULL            \* the null pointer

Agent == {"bysize", "bynumber", "byweekuse", "byoverdraft"}

(* agents: the active ones in the order of all_agents.  fixed: what the    *)
(* volumes that are never moved add to a measure.  servers, order, on:     *)
(* the servers and partitions as they are threaded, and the server of each *)
(* partition.  threaded, place: the same of the volumes.  admits: the      *)
(* inbound globs.  busy: volumes that may be found locked in the VLDB.     *)
Cell == [agents : Seq(Agent), precision : [Agent -> Nat],
         cap : [Partition -> Nat \ {0}], fixed : [Agent -> [Partition -> Nat]],
         servers : Seq(Server), order : Seq(Partition), on : [Partition -> Server],
         threaded : Seq(Volume), place : [Volume -> Partition],
         size : [Volume -> Nat], quota : [Volume -> Nat], weekuse : [Volume -> Nat], byquota : SUBSET Volume,
         admits : [Partition -> SUBSET Volume], busy : SUBSET Volume,
         ntransactions : Nat, nvoltrans : Nat]

(* struct move_request                                                     *)
Request == [vol : Volume, from : Partition, to : Partition]

ASSUME NegotiateAssumption ==
    /\ Cells \subseteq Cell
    /\ Word \in Nat \ {0}
    /\ NULL \notin Volume \cup Partition \cup Request
    /\ \A c \in Cells : /\ c.agents # <<>> /\ IsInjective(c.agents)
                        /\ ToSet(c.servers) = Server /\ IsInjective(c.servers)
                        /\ Server = {c.on[p] : p \in Partition}
                        /\ ToSet(c.order) = Partition /\ IsInjective(c.order)
                        /\ ToSet(c.threaded) = Volume /\ IsInjective(c.threaded)

VARIABLES
    conf,           \* the cell and the command line
    pc,             \* ask, judge; done, panic (null transaction), crash
    turn,           \* iget: the position of the agent whose turn it is
    activity,       \* some move was made in this round
    mover,          \* the open move request of that agent, or NULL
    home,           \* vol->phome
    avg,            \* avg_occ and its like, as total over space
    load,           \* the measures of the partitions: used space, nvols, maxquota
    ntimes,         \* vol->ntimes
    moves,          \* the transactions from move_head on
    budget,         \* ntransactions
    book            \* the private lists of each agent

vars == <<conf, pc, turn, activity, mover, home, avg, load, ntimes, moves, budget, book>>

-----------------------------------------------------------------------------
(* Measures.                                                               *)

Active == ToSet(conf.agents)
Me     == conf.agents[turn]

(* What domove adds to the measure of a partition that gets a volume, and  *)
(* what the agent reckons it adds.                                         *)
Gain(a, v) == CASE a = "bysize" -> conf.size[v]
                [] a = "bynumber" -> 1
                [] a = "byweekuse" -> conf.weekuse[v]
                [] a = "byoverdraft" -> IF v \in conf.byquota THEN conf.quota[v] ELSE conf.size[v]
Weight(a, v) == CASE a = "bysize" -> conf.size[v]
                  [] a = "bynumber" -> 1
                  [] a = "byweekuse" -> conf.weekuse[v]
                  [] a = "byoverdraft" -> conf.quota[v]

(* What the counter of a partition changes by.  byoverdraft_setrequest     *)
(* takes the quota off one partition and adds it to the other although     *)
(* domove has moved the volume in the same counters.                       *)
Change(a, v) == Gain(a, v) + IF a = "byoverdraft" THEN conf.quota[v] ELSE 0

(* maxquota is unsigned, and the second change may take it below zero.     *)
Counter(a, x) == IF a = "byoverdraft" THEN x % Word ELSE x

(* What a load is measured against: byweekuse takes it as it is.           *)
Cap(a) == IF a = "byweekuse" THEN [p \in Partition |-> 1] ELSE conf.cap

(* A sum of natural numbers, counted out.                                  *)
Sum(f, S) == Cardinality(UNION {{x} \X (1..f[x]) : x \in S})
LoadOf(a, p, where) ==
    conf.fixed[a][p] + Sum([v \in Volume |-> Gain(a, v)], {v \in Volume : where[v] = p})

(* The average load is total / space, and the window around it Margin /    *)
(* (100 * space^2): avg * (1 - avg) * precision, or avg * precision for    *)
(* bynumber and byweekuse.  k = 1 is UPPER_BOUND, k = 2 is MOVE_BOUND.     *)
Average(a) ==
    [total |-> Sum(conf.fixed[a], Partition) + Sum([v \in Volume |-> Gain(a, v)], Volume),
     space |-> Sum(Cap(a), Partition)]
Margin(a) == LET t == avg[a].total
                 s == avg[a].space
             IN  t * conf.precision[a] * IF a \in {"bynumber", "byweekuse"} THEN s ELSE s - t

Scaled(a, x, k) == 100 * k * avg[a].space * avg[a].space * x
Window(a, k) == 100 * k * avg[a].space * avg[a].total + Margin(a)
Bound(a, p, k) == Cap(a)[p] * Window(a, k)

Overloaded(a, p) == Scaled(a, load[a][p], 2) > Bound(a, p, 2)

(* Room for the volume below the upper (k = 1) or the move (k = 2) bound.  *)
Fits(a, p, v, k) == Scaled(a, load[a][p] + Weight(a, v), k) < Bound(a, p, k)

(* Without the volume the partition is still above LOWER_BOUND; bynumber   *)
(* does not look.                                                          *)
NoLowerBound(a, p, v) == TRUE
StaysAboveLower(a, p, v) ==
    a # "bynumber" =>
        Scaled(a, load[a][p] - Weight(a, v), 1) > Cap(a)[p] * (100 * avg[a].space * avg[a].total - Margin(a))

-----------------------------------------------------------------------------
(* The lists of an agent.                                                  *)

InsertBefore(s, e, Test(_)) ==
    LET k == SelectInSeq(s, Test) IN IF k = 0 THEN Append(s, e) ELSE InsertAt(s, k, e)

(* insertp: the chain of partitions runs from the fullest to the emptiest. *)
InsertP(a, ld, chain, p) ==
    InsertBefore(chain, p, LAMBDA q : LET x == ld[q] * conf.cap[p]
                                          y == ld[p] * conf.cap[q]
                                      IN  IF a = "bynumber" THEN x < y ELSE x <= y)

(* The same for byweekuse.  Its partitions are sorted within each server   *)
(* from the least used to the most used, its servers from the most used to *)
(* the least used; its chain is the one of the servers after another.      *)
On(chain, s) == Picked(chain, {i \in DOMAIN chain : conf.on[chain[i]] = s})
InsertOn(ld, chain, p) == InsertBefore(chain, p, LAMBDA q : ld[q] > ld[p])
Use(ld, s) == Sum(ld, {p \in Partition : conf.on[p] = s})
InsertS(ld, servers, s) == InsertBefore(servers, s, LAMBDA t : Use(ld, t) <= Use(ld, s))
Joined(parts, servers) ==
    Listing(Partition, {e \in Partition \X Partition :
        LET s == conf.on[e[1]]
            t == conf.on[e[2]]
        IN  IF s = t THEN At(parts[s], e[1]) <= At(parts[s], e[2])
            ELSE At(servers, s) < At(servers, t)})

(* The use of a server for each of its partitions is below a bound.        *)
ServerBelow(ld, s, k) ==
    Scaled("byweekuse", Use(ld, s), k)
        < Cardinality({p \in Partition : conf.on[p] = s}) * Window("byweekuse", k)

(* insertv: the largest volume first, the smallest first for bynumber.     *)
Key(a, v) == CASE a = "bysize" -> conf.size[v]
               [] a = "bynumber" -> -conf.size[v]
               [] a = "byweekuse" -> conf.weekuse[v]
               [] a = "byoverdraft" -> conf.quota[v]
InsertV(a, s, v) == InsertBefore(s, v, LAMBDA w : Key(a, w) <= Key(a, v))

FirstOf(s) == IF s = <<>> THEN NULL ELSE Head(s)

(* What comes of inserting all of S: by key per unit, and among equals by  *)
(* rank, which is where they come in the list that is inserted: the last   *)
(* one comes first, or the first one, if they go behind their equals.      *)
Inserted(S, key, unit, rank) ==
    Listing(S, {e \in S \X S :
        LET x == key[e[1]] * unit[e[2]]
            y == key[e[2]] * unit[e[1]]
        IN  x > y \/ (x = y /\ rank[e[1]] >= rank[e[2]])})
LastFirst(S, list) == [x \in S |-> At(list, x)]
FirstFirst(S, list) == [x \in S |-> -At(list, x)]
Whole(S) == [x \in S |-> 1]

(* servconf *)
Opening(a, ld) ==
    LET its(s) == {p \in Partition : conf.on[p] = s}
        vols == [p \in Partition |->
                    LET here == {v \in Volume : conf.place[v] = p}
                    IN  Inserted(here, [v \in here |-> Key(a, v)], Whole(here),
                                 LastFirst(here, conf.threaded))]
        servers == IF a = "byweekuse"
                   THEN Inserted(Server, [s \in Server |-> Use(ld, s)], Whole(Server),
                                 LastFirst(Server, conf.servers))
                   ELSE <<>>
        parts == [s \in Server |-> Inserted(its(s), [p \in its(s) |-> -ld[p]], Whole(its(s)),
                                            FirstFirst(its(s), conf.order))]
        rank == IF a = "bynumber" THEN FirstFirst(Partition, conf.order)
                ELSE LastFirst(Partition, conf.order)
        chain == IF a = "byweekuse" THEN Joined(parts, servers)
                 ELSE Inserted(Partition, ld, conf.cap, rank)
    IN  [chain |-> chain, servers |-> servers, vols |-> vols,
         nextvol |-> [p \in Partition |-> FirstOf(vols[p])]]

(* The volumes from v on: the next pointers lead through the list that v   *)
(* is in, whichever that is, and end at v if it is in none.                *)
From(b, v) ==
    IF \E p \in Partition : Contains(b.vols[p], v)
    THEN LET s == b.vols[CHOOSE p \in Partition : Contains(b.vols[p], v)]
         IN  SubSeq(s, At(s, v), Len(s))
    ELSE <<v>>
Following(b, v) == FirstOf(Tail(From(b, v)))
Remaining(b, p) == IF b.nextvol[p] = NULL THEN <<>> ELSE From(b, b.nextvol[p])

(* setrequest: both partitions, and for byweekuse both servers, are sorted *)
(* in again, the volume changes its list, and when the source is now in    *)
(* the pool of destinations every partition is considered afresh.          *)
ResortedSourceOnly(a, b, ld, m) ==
    [chain |-> InsertP(a, ld, RemoveFirst(b.chain, m.from), m.from), servers |-> b.servers]
Resorted(a, b, ld, m) ==
    LET cut == RemoveFirst(RemoveFirst(b.chain, m.from), m.to)
        sf == conf.on[m.from]
        st == conf.on[m.to]
        left == [s \in Server |-> On(cut, s)]
        one == [left EXCEPT ![sf] = InsertOn(ld, @, m.from)]
        both == [one EXCEPT ![st] = InsertOn(ld, @, m.to)]
        others == InsertS(ld, RemoveFirst(RemoveFirst(b.servers, sf), st), sf)
        servers == IF sf = st THEN others ELSE InsertS(ld, others, st)
    IN  IF a = "byweekuse" THEN [chain |-> Joined(both, servers), servers |-> servers]
        ELSE [chain |-> InsertP(a, ld, InsertP(a, ld, cut, m.from), m.to), servers |-> <<>>]

Reopens(a, ld, p) == /\ Scaled(a, ld[p], 2) < Bound(a, p, 2)
                     /\ a = "byweekuse" => ServerBelow(ld, conf.on[p], 2)

SetRequest(a, b, ld, m) ==
    LET new  == Resorted(a, b, ld, m)
        vols == [b.vols EXCEPT ![m.from] = RemoveFirst(@, m.vol), ![m.to] = InsertV(a, @, m.vol)]
    IN  [chain |-> new.chain, servers |-> new.servers, vols |-> vols,
         nextvol |-> IF Reopens(a, ld, m.from)
                     THEN [p \in Partition |-> FirstOf(vols[p])] ELSE b.nextvol]

(* discardv: the volume is at p by now.                                    *)
Discardv(b, v, p) ==
    [b EXCEPT !.nextvol[p] = IF @ = v THEN Following(b, v) ELSE @,
              !.vols[p] = RemoveFirst(@, v)]

Init ==
    /\ conf \in Cells
    /\ pc = "ask" /\ turn = 1 /\ activity = FALSE
    /\ mover = NULL
    /\ home = conf.place
    /\ avg = [a \in Active |-> Average(a)]
    /\ load = [a \in Active |-> [p \in Partition |-> Counter(a, LoadOf(a, p, conf.place))]]
    /\ ntimes = [v \in Volume |-> 0]
    /\ moves = <<>>
    /\ budget = conf.ntransactions
    /\ book = [a \in Active |-> Opening(a, load[a])]

-----------------------------------------------------------------------------
(* getrequest: the agent tries the next destination for its open request,  *)
(* or searches its partitions for another volume, or gives up.             *)

Chain == book[Me].chain
Position(p) == At(Chain, p)

(* findest: the emptiest partition, at or before position k of the chain,  *)
(* that can take the volume.                                               *)
Dest(v, k) == SelectLastInSubSeq(Chain, 1, k, LAMBDA p : Fits(Me, p, v, 2))

(* findest of byweekuse: the partitions of server s, from position k on.   *)
(* They are looked at when s or a server that is used more is below the    *)
(* upper bound; its pointer is then at the end of the list of s, so the    *)
(* partitions of the other servers never are.                              *)
PolledDest(v, s, k) ==
    IF \E i \in 1..At(book[Me].servers, s) : ServerBelow(load[Me], book[Me].servers[i], 1)
    THEN SelectInSubSeq(Chain, k, Len(Chain), LAMBDA p : conf.on[p] = s /\ Fits(Me, p, v, 2))
    ELSE 0

FirstDest(v) == IF Me = "byweekuse" THEN PolledDest(v, Last(book[Me].servers), 1) ELSE Dest(v, Len(Chain))
SameDest == Dest(mover.vol, Position(mover.to))
NextDest == IF Me = "byweekuse" THEN PolledDest(mover.vol, conf.on[mover.to], Position(mover.to) + 1)
            ELSE Dest(mover.vol, Position(mover.to) - 1)
Redirectable == mover # NULL /\ NextDest # 0

(* byweekuse leaves volumes alone that nobody uses.                        *)
Wanted(p, v) == /\ Me = "byweekuse" => conf.weekuse[v] # 0
                /\ StaysAboveLower(Me, p, v)
                /\ FirstDest(v) # 0
Choice(p) == IF Overloaded(Me, p)
             THEN SelectInSeq(Remaining(book[Me], p), LAMBDA v : Wanted(p, v)) ELSE 0

(* byweekuse begins again with the server of the volume it gives up.       *)
Start == CASE mover = NULL -> 1
           [] mover # NULL /\ Me = "byweekuse" -> Position(On(Chain, conf.on[mover.from])[1])
           [] OTHER -> Position(mover.from)
Found == SelectInSubSeq(Chain, Start, Len(Chain), LAMBDA p : Choice(p) # 0)

(* The partitions searched in vain have no volume left to consider; only   *)
(* bynumber looks for a destination first and leaves its pointer alone.    *)
Exhausted(last) == IF Me = "bynumber" THEN {}
                   ELSE {Chain[i] : i \in {j \in Start..last : Overloaded(Me, Chain[j])}}
Pointers(last) ==
    [p \in Partition |-> IF p \in Exhausted(last) THEN NULL ELSE book[Me].nextvol[p]]

(* The turn passes; a round without activity is the last.                  *)
NextTurnPastEnd(active) ==
    IF turn <= Len(conf.agents)
    THEN turn' = turn + 1 /\ activity' = active /\ pc' = "ask"
    ELSE turn' = 1 /\ activity' = FALSE /\ pc' = IF active THEN "ask" ELSE "done"
NextTurnOneRound(active) ==
    IF turn < Len(conf.agents)
    THEN turn' = turn + 1 /\ activity' = active /\ pc' = "ask"
    ELSE turn' = 1 /\ activity' = FALSE /\ pc' = "done"
NextTurn(active) ==
    IF turn < Len(conf.agents)
    THEN turn' = turn + 1 /\ activity' = active /\ pc' = "ask"
    ELSE turn' = 1 /\ activity' = FALSE /\ pc' = IF active THEN "ask" ELSE "done"

Redirect ==
    /\ pc = "ask" /\ Redirectable
    /\ mover' = [mover EXCEPT !.to = Chain[NextDest]]
    /\ pc' = "judge"
    /\ UNCHANGED <<conf, avg, turn, activity, home, load, ntimes, moves, budget, book>>

SourceSearched(p, v) == p
Source(p, v) == home[v]

Propose ==
    /\ pc = "ask" /\ ~Redirectable
    /\ Found # 0
    /\ LET p == Chain[Found]
           r == Remaining(book[Me], p)
           v == r[Choice(p)]
       IN  /\ mover' = [vol |-> v, from |-> Source(p, v), to |-> Chain[FirstDest(v)]]
           /\ book' = [book EXCEPT ![Me].nextvol =
                          [Pointers(Found - 1) EXCEPT ![p] = FirstOf(SubSeq(r, Choice(p) + 1, Len(r)))]]
    /\ pc' = "judge"
    /\ UNCHANGED <<conf, avg, turn, activity, home, load, ntimes, moves, budget>>

GiveUp ==
    /\ pc = "ask" /\ ~Redirectable
    /\ Found = 0
    /\ mover' = NULL
    /\ book' = [book EXCEPT ![Me].nextvol = Pointers(Len(Chain))]
    /\ NextTurn(activity)
    /\ UNCHANGED <<conf, avg, home, load, ntimes, moves, budget>>

-----------------------------------------------------------------------------
(* The judgement of a request: the inbound globs, then the other agents.   *)

Admitted == mover.vol \in conf.admits[mover.to]
ConsentOfNone == TRUE
Consent  == \A a \in Active \ {Me} : Fits(a, mover.to, mover.vol, 1)

Refuse ==
    /\ pc = "judge"
    /\ ~(Admitted /\ Consent)
    /\ pc' = "ask"
    /\ UNCHANGED <<conf, avg, turn, activity, mover, home, load, ntimes, moves, budget, book>>

BeyondLimit(v) == ntimes[v] = conf.nvoltrans + 1
AtLimit(v) == ntimes[v] = conf.nvoltrans

(* All have agreed, but the volume may not be moved: each agent discards   *)
(* it.  The proposer frees the request on the way, so the agents after it  *)
(* are handed what then is in the freed memory.                            *)
Reject ==
    /\ pc = "judge" /\ Admitted /\ Consent
    /\ AtLimit(mover.vol) \/ mover.vol \in conf.busy
    /\ \/ /\ book' = [a \in Active |-> Discardv(book[a], mover.vol, home[mover.vol])]
          /\ mover' = NULL
          /\ pc' = "ask"
       \/ /\ turn < Len(conf.agents)
          /\ pc' = "crash"
          /\ UNCHANGED <<book, mover>>
    /\ UNCHANGED <<conf, avg, turn, activity, home, load, ntimes, moves, budget>>

(* domove and the announcements.                                           *)
Shift(a, m) == [load[a] EXCEPT ![m.from] = Counter(a, @ - Change(a, m.vol)),
                               ![m.to] = Counter(a, @ + Change(a, m.vol))]

Announced(a, m) ==
    LET b == SetRequest(a, book[a], Shift(a, m), m)
    IN  IF ntimes[m.vol] + 1 = conf.nvoltrans THEN Discardv(b, m.vol, m.to) ELSE b

Accept ==
    /\ pc = "judge" /\ Admitted /\ Consent
    /\ ~AtLimit(mover.vol)
    /\ mover.from # mover.to
    /\ load' = [a \in Active |-> Shift(a, mover)]
    /\ home' = [home EXCEPT ![mover.vol] = mover.to]
    /\ ntimes' = [ntimes EXCEPT ![mover.vol] = @ + 1]
    /\ moves' = Append(moves, mover)
    /\ book' = [a \in Active |-> Announced(a, mover)]
    /\ mover' = NULL
    /\ budget' = budget - 1
    /\ IF budget' = 0
       THEN pc' = "done" /\ activity' = TRUE /\ UNCHANGED turn
       ELSE NextTurn(TRUE)
    /\ UNCHANGED <<conf, avg>>

(* "panic: %s returned a null transaction" *)
Panic ==
    /\ pc = "judge" /\ Admitted /\ Consent
    /\ ~AtLimit(mover.vol)
    /\ mover.from = mover.to
    /\ pc' = "panic"
    /\ UNCHANGED <<conf, avg, turn, activity, mover, home, load, ntimes, moves, budget, book>>

Next == Redirect \/ Propose \/ GiveUp \/ Refuse \/ Reject \/ Accept \/ Panic

Spec == Init /\ [][Next]_vars

(* balance() runs on by itself: weak fairness of Next, with its ENABLED    *)
(* spelled out (a step is possible until the end), which TLC evaluates     *)
(* faster than ENABLED Next.                                               *)
RunsOn == []<>(pc \notin {"ask", "judge"}) \/ []<><<Next>>_vars
FairSpec == Spec /\ RunsOn

-----------------------------------------------------------------------------
(* Properties                                                              *)

(* All variables stay in their types; a request is judged only while it is *)
(* open.                                                                   *)
TypeOK ==
    /\ avg = [a \in Active |-> Average(a)]
    /\ pc \in {"ask", "judge", "done", "panic", "crash"}
    /\ turn \in 1..Len(conf.agents)
    /\ activity \in BOOLEAN
    /\ mover \in {NULL} \cup Request
    /\ pc = "judge" => mover # NULL
    /\ home \in [Volume -> Partition]
    /\ load \in [Active -> [Partition -> Nat]]
    /\ ntimes \in [Volume -> Nat]
    /\ moves \in Seq(Request)
    /\ budget \in Int
    /\ book \in [Active -> [chain : Seq(Partition), servers : Seq(Server),
                            vols : [Partition -> Seq(Volume)],
                            nextvol : [Partition -> Volume \cup {NULL}]]]

(* The counters that are adjusted move by move (free space, number of      *)
(* volumes, use) equal a recount from where the volumes are.  The promised *)
(* space does not: it is off by the quotas of the volumes that came and    *)
(* went, no more and no less, whichever agent moved them.                  *)
Promised(p, where) == Sum(conf.quota, {v \in Volume : where[v] = p})
Drift(p) == Promised(p, home) - Promised(p, conf.place)
LoadsConserved ==
    load = [a \in Active |-> [p \in Partition |->
                IF a = "byoverdraft" THEN Counter(a, LoadOf(a, p, home) + Drift(p))
                ELSE LoadOf(a, p, home)]]

(* The agents keep copies of one truth: all list the same volumes for a    *)
(* partition, each once, and only volumes that are there by now, although  *)
(* moves and discards reach each agent by calls of its own.                *)
BooksAgree ==
    \A a, b \in Active, p \in Partition :
        LET s == book[a].vols[p]
        IN  /\ IsInjective(s)
            /\ ToSet(s) = ToSet(book[b].vols[p])
            /\ \A v \in ToSet(s) : home[v] = p

(* After every move the chain of each agent is again a permutation of the  *)
(* partitions from the fullest to the emptiest: findest and the search for *)
(* overloaded partitions rely on that order.  For byweekuse the servers    *)
(* run from the most used to the least used, the partitions of each the    *)
(* other way.                                                              *)
ChainSorted ==
    \A a \in Active :
        LET c == book[a].chain
            t == book[a].servers
        IN  /\ IsInjective(c) /\ ToSet(c) = Partition
            /\ a = "byweekuse" => IsInjective(t) /\ ToSet(t) = Server
            /\ \A i, j \in 1..Len(c) : i < j =>
                   IF a # "byweekuse"
                   THEN load[a][c[i]] * conf.cap[c[j]] >= load[a][c[j]] * conf.cap[c[i]]
                   ELSE IF conf.on[c[i]] = conf.on[c[j]] THEN load[a][c[i]] <= load[a][c[j]]
                   ELSE Use(load[a], conf.on[c[i]]) >= Use(load[a], conf.on[c[j]])

(* Counters, lists and chains of every agent are those of the cell, but    *)
(* for the promised space, which drifts by each quota that came or went.   *)
BooksRight == LoadsConserved /\ BooksAgree /\ ChainSorted

(* "Precision is also a guarantee that no entity will ever go farther      *)
(* above the upper precision boundary" (balance.doc): a partition whose    *)
(* load grows stays below the upper bound of every active agent, whichever *)
(* agent proposed the move.  (More can be in use than there is, as uquota  *)
(* lets quotas stand for sizes; the window is then inside out.)            *)
KeepsBelowUpper(A) ==
    \A a \in A, p \in Partition :
        Margin(a) >= 0 /\ load'[a][p] > load[a][p] => Scaled(a, load'[a][p], 1) < Bound(a, p, 1)

(* An agent alone never overshoots: it moves volumes only off partitions   *)
(* above its move bound, never pushes one below its lower bound, and never *)
(* lifts one to the move bound, so nothing it did needs to be undone.      *)
NeverOvershoots(A) ==
    \A a \in A, p \in Partition : Len(conf.agents) = 1 =>
        /\ load'[a][p] > load[a][p] => Scaled(a, load'[a][p], 2) < Bound(a, p, 2)
        /\ load'[a][p] < load[a][p] =>
              Overloaded(a, p) /\ StaysAboveLower(a, p, moves'[Len(moves')].vol)

(* Every move keeps to the precision of the agents but byoverdraft,        *)
(* whichever proposed it.                                                  *)
WithinPrecision ==
    [][LET A == Active \ {"byoverdraft"} IN KeepsBelowUpper(A) /\ NeverOvershoots(A)]_vars

(* The same for byoverdraft, which the code does not keep: the size stands *)
(* for the quota of most volumes, and the change is made twice.            *)
OverdraftWithinPrecision ==
    [][LET A == Active \cap {"byoverdraft"} IN KeepsBelowUpper(A) /\ NeverOvershoots(A)]_vars

(* "by the time we are called, the master structure is updated IN          *)
(* PARTICULAR the partition info is correct" (agent_byoverdraft.c:435):    *)
(* correct until the agent updates it again.                               *)
PartitionInfoCorrect == load = [a \in Active |-> [p \in Partition |-> LoadOf(a, p, home)]]

(* Carried out in order from the original placement, each transaction      *)
(* finds its volume on the partition it names as source, goes to another   *)
(* partition that admits the volume, and all of them lead to the placement *)
(* the agents ended with: what the dispatcher needs of its list.           *)
Where(v, n) ==
    LET k == SelectLastInSubSeq(moves, 1, n, LAMBDA m : m.vol = v)
    IN  IF k = 0 THEN conf.place[v] ELSE moves[k].to
MovesReplay ==
    /\ \A n \in 1..Len(moves) :
           LET m == moves[n]
           IN  Where(m.vol, n - 1) = m.from /\ m.from # m.to /\ m.vol \in conf.admits[m.to]
    /\ home = [v \in Volume |-> Where(v, Len(moves))]

(* -v and -t: no volume is moved more often than nvoltrans, and no more    *)
(* than ntransactions moves are made, unless that is 0: no limit.  With    *)
(* -v 1, the default, no agent returns a null transaction.                 *)
LimitsKept ==
    /\ \A v \in Volume : ntimes[v] <= conf.nvoltrans
    /\ Len(moves) + budget = conf.ntransactions
    /\ conf.ntransactions > 0 => budget >= 0
    /\ conf.nvoltrans = 1 => pc # "panic"

(* When an agent alone comes to its end within -t, nothing is left that it *)
(* would move: no volume still in its lists, on any partition above the    *)
(* move bound, has a partition that fits and admits it.  Skipping the      *)
(* volumes before nextvol loses no move.                                   *)
CompleteFor(A) ==
    (pc = "done" /\ budget # 0 /\ Len(conf.agents) = 1 /\ Active \subseteq A) =>
        \A a \in Active, p \in Partition : Overloaded(a, p) =>
            \A v \in ToSet(book[a].vols[p]), q \in Partition :
                ~ /\ StaysAboveLower(a, p, v) /\ Fits(a, q, v, 2) /\ v \in conf.admits[q]
                  /\ a = "byweekuse" =>
                        conf.weekuse[v] # 0 /\ ServerBelow(load[a], conf.on[q], 1)
SearchComplete == CompleteFor({"bysize", "bynumber"})

(* "start at "start", so we can keep polling for servers in our searcher"  *)
(* (agent_byweekuse.c): no server with room is left out.                   *)
ServersPolled == CompleteFor({"byweekuse"})

(* balance() comes to an end, whatever the agents propose and veto.        *)
Terminates == <>(pc \in {"done", "panic", "crash"})

(* "panic out if an agent tells us to do nothing to a volume".             *)
NeverPanics == pc # "panic"
=============================================================================
