-------------------------- MODULE DispatcherProofs --------------------------
(***************************************************************************)
(* Proofs about the Dispatcher, for every cell, transaction list, number   *)
(* of slots and set of faults that DispatcherAssumption admits.            *)
(***************************************************************************)
EXTENDS Dispatcher, FiniteSetTheorems, SequenceTheorems, TLAPS

USE DEF Exited

-----------------------------------------------------------------------------
(* Facts about the constants and the list operators.                       *)

LEMMA MoveFacts ==
    ASSUME conf \in Invocations, NEW i \in Trans
    PROVE  /\ Moves \in Seq(Move)
           /\ Moves[i] \in Move
           /\ Moves[i].from \in Partition /\ Moves[i].to \in Partition
           /\ SFrom(i) \in Server /\ STo(i) \in Server
           /\ Needs(i) \subseteq Server /\ Needs(i) # {}
  <1>1. Moves \in Seq(Move)
    BY DispatcherAssumption DEF Invocation, Moves
  <1>2. Moves[i] \in Move
    BY <1>1 DEF Trans
  <1>3. Moves[i].from \in Partition /\ Moves[i].to \in Partition
    BY <1>2 DEF Move
  <1>4. SFrom(i) \in Server /\ STo(i) \in Server
    BY <1>3, DispatcherAssumption DEF SFrom, STo
  <1> QED
    BY <1>1, <1>2, <1>3, <1>4 DEF Needs

LEMMA CutFacts ==
    ASSUME NEW S, NEW s \in Seq(S), NEW k \in 1..Len(s)
    PROVE  /\ RemoveAt(s, k) \in Seq(S)
           /\ Len(RemoveAt(s, k)) = Len(s) - 1
           /\ \A m \in 1..(Len(s) - 1) :
                 RemoveAt(s, k)[m] = IF m <= k - 1 THEN s[m] ELSE s[m + 1]
  <1>1. PICK a : a = SubSeq(s, 1, k - 1)
    OBVIOUS
  <1>2. PICK b : b = SubSeq(s, k + 1, Len(s))
    OBVIOUS
  <1>3. PICK r : r = a \o b
    OBVIOUS
  <1>4. /\ a \in Seq(S) /\ Len(a) = k - 1
        /\ \A m \in 1..(k - 1) : a[m] = s[m]
    BY <1>1
  <1>5. /\ b \in Seq(S) /\ Len(b) = Len(s) - k
        /\ \A m \in 1..(Len(s) - k) : b[m] = s[k + m]
    BY <1>2
  <1>6. /\ r \in Seq(S) /\ Len(r) = Len(a) + Len(b)
        /\ \A m \in 1..(Len(a) + Len(b)) :
              r[m] = IF m <= Len(a) THEN a[m] ELSE b[m - Len(a)]
    BY <1>3, <1>4, <1>5, ConcatProperties
  <1>7. ASSUME NEW m \in 1..(Len(s) - 1)
        PROVE  r[m] = IF m <= k - 1 THEN s[m] ELSE s[m + 1]
    <2>1. m \in 1..(Len(a) + Len(b))
      BY <1>4, <1>5
    <2>2. CASE m <= k - 1
      BY <2>1, <2>2, <1>6, <1>4
    <2>3. CASE m > k - 1
      <3>1. m - (k - 1) \in 1..(Len(s) - k) /\ k + (m - (k - 1)) = m + 1
        BY <2>3
      <3> QED
        BY <3>1, <2>1, <2>3, <1>6, <1>4, <1>5
    <2> QED
      BY <2>2, <2>3
  <1>8. Len(r) = Len(s) - 1
    BY <1>4, <1>5, <1>6
  <1>9. RemoveAt(s, k) = r
    BY <1>1, <1>2, <1>3 DEF RemoveAt
  <1>10. r \in Seq(S)
    BY <1>6
  <1> QED
    BY <1>7, <1>8, <1>9, <1>10, Zenon

(* Unlinking a transaction keeps the others on the list.                   *)
LEMMA UnlinkFacts ==
    ASSUME NEW S, NEW s \in Seq(S), NEW k \in 1..Len(s)
    PROVE  /\ RemoveAt(s, k) \in Seq(S)
           /\ Len(RemoveAt(s, k)) = Len(s) - 1
           /\ \A x \in ToSet(s) : x # s[k] => x \in ToSet(RemoveAt(s, k))
  <1>1. Len(s) \in Nat /\ DOMAIN s = 1..Len(s)
    BY LenProperties
  <1>3. PICK r : r = RemoveAt(s, k)
    OBVIOUS
  <1>4. /\ r \in Seq(S) /\ Len(r) = Len(s) - 1
        /\ \A m \in 1..(Len(s) - 1) : r[m] = IF m <= k - 1 THEN s[m] ELSE s[m + 1]
    BY CutFacts, <1>3
  <1>5. ASSUME NEW x \in ToSet(s), x # s[k]
        PROVE  x \in ToSet(r)
    <2>1. PICK m \in 1..Len(s) : s[m] = x
      BY <1>1 DEF ToSet
    <2>2. DOMAIN r = 1..(Len(s) - 1)
      BY <1>4, LenProperties
    <2>3. CASE m < k
      <3>1. m \in 1..(Len(s) - 1) /\ r[m] = x
        BY <1>1, <1>4, <2>1, <2>3
      <3> QED
        BY <3>1, <2>2 DEF ToSet
    <2>4. CASE m > k
      <3>1. m - 1 \in 1..(Len(s) - 1) /\ r[m - 1] = x
        BY <1>1, <1>4, <2>1, <2>4
      <3> QED
        BY <3>1, <2>2 DEF ToSet
    <2> QED
      BY <1>1, <2>1, <2>3, <2>4, <1>5
  <1> QED
    BY <1>3, <1>4, <1>5

-----------------------------------------------------------------------------
(* The inductive invariant.  The locks describe the watched children, so a *)
(* transaction whose fileservers are available has no watched child and    *)
(* collides with none; an unwatched child, left by a failed fcntl, means   *)
(* that the run shuts down and starts nothing more.                        *)

Watched         == trans_fd \subseteq Live
Orphans         == Live \ trans_fd # {} => "fcntl" \in conf.faults /\ shutdown > 0
ForkedUnfinished == \A i \in Live : state[i] # 2
EchoForksNothing == conf.echo => Live = {}
ReturnsAlone    == pc \in {"exit0", "exit1"} => Live = {}

Inv == /\ TypeOK
       /\ LocksMatchChildren
       /\ ServersExclusive
       /\ Watched
       /\ Orphans
       /\ ForkedUnfinished
       /\ EchoForksNothing
       /\ LocksHeldWhenFreed
       /\ ReturnsAlone

(* The parts of Inv that only speak of conf, state, the locks and the      *)
(* children.                                                               *)
Core == /\ LocksMatchChildren
        /\ ServersExclusive
        /\ Watched
        /\ ForkedUnfinished
        /\ EchoForksNothing

LEMMA InvInit == Init => Inv
  <1> SUFFICES ASSUME Init PROVE Inv
    OBVIOUS
  <1>1. conf \in Invocations /\ Moves \in Seq(Move) /\ conf.nprocs \in Nat
    BY DispatcherAssumption DEF Init, Invocation, Moves
  <1>2. Len(Moves) \in Nat /\ Trans = 1..Len(Moves)
    BY <1>1, LenProperties DEF Trans
  <1>3. Live = {} /\ trans_fd = {}
    BY <1>2 DEF Init, Live
  <1>4. list \in Seq(Trans)
    BY <1>2 DEF Init
  <1>5. tpp \in 1..(Len(list) + 1)
    BY <1>4, LenProperties DEF Init
  <1>6. TypeOK
    <2>1. state \in [Trans -> 0..2] /\ proc \in [Trans -> {"none", "run", "ok", "bad"}]
      BY <1>2 DEF Init
    <2>2. srvLocked \in [Server -> BOOLEAN] /\ partLocked \in [Partition -> Nat]
      BY DEF Init
    <2>3. home \in [Moved -> Partition]
      BY DEF Init
    <2>4. lockid \in Nat /\ nprocs \in Nat /\ trans_fd \subseteq Trans
          /\ shutdown \in Nat /\ abend \in BOOLEAN /\ aborted \in Nat /\ late \in BOOLEAN
          /\ pc \in {"top", "scan", "wait"} \cup Exited
          /\ carried \subseteq (Trans \X {0, 1}) /\ reported \subseteq Trans
      BY <1>1 DEF Init
    <2> QED
      BY <1>1, <1>4, <1>5, <2>1, <2>2, <2>3, <2>4 DEF TypeOK
  <1>7. LocksMatchChildren /\ LocksHeldWhenFreed /\ ReturnsAlone
    BY <1>3 DEF Init, LocksMatchChildren, LocksHeldWhenFreed, ReturnsAlone
  <1> QED
    BY <1>3, <1>6, <1>7
    DEF Inv, ServersExclusive, Watched, Orphans, ForkedUnfinished, EchoForksNothing

(* What a ready transaction can rely on: it has no child yet, no child     *)
(* uses its fileservers, and no child is unwatched.                        *)
LEMMA ReadyFacts ==
    ASSUME Inv, Ready
    PROVE  /\ list[tpp] \in Trans
           /\ list[tpp] \in ToSet(list)
           /\ list[tpp] \notin Live
           /\ state[list[tpp]] # 2
           /\ \A j \in Live : Needs(j) \cap Needs(list[tpp]) = {}
           /\ nprocs - 1 \in Nat
           /\ pc = "scan"
  <1>1. PICK i : i = list[tpp]
    OBVIOUS
  <1>2. tpp \in 1..Len(list) /\ list \in Seq(Trans)
    BY DEF Inv, TypeOK, Ready, Scanning
  <1>3. i \in Trans /\ i \in ToSet(list)
    BY <1>1, <1>2 DEF ToSet
  <1>4. Live \subseteq trans_fd
    BY DEF Inv, Orphans, TypeOK, Ready, Scanning
  <1>5. \A s \in Needs(i) : ~srvLocked[s]
    BY <1>1 DEF Ready, Avail
  <1>6. Needs(i) \subseteq Server /\ Needs(i) # {}
    BY <1>3, MoveFacts DEF Inv, TypeOK
  <1>7. \A j \in Live : Needs(j) \cap Needs(i) = {}
    BY <1>4, <1>5, <1>6 DEF Inv, LocksMatchChildren
  <1>8. i \notin Live
    BY <1>6, <1>7
  <1>9. state[i] # 2 /\ nprocs - 1 \in Nat /\ pc = "scan"
    BY <1>1 DEF Ready, Scanning, Terminal, Inv, TypeOK
  <1> QED
    BY <1>1, <1>3, <1>7, <1>8, <1>9

(* Steps that touch neither the children nor the locks nor the states.     *)
LEMMA CoreStable ==
    ASSUME Core, UNCHANGED <<conf, state, srvLocked, proc, trans_fd>>
    PROVE  Core' /\ Live' = Live /\ Trans' = Trans
  <1>1. Live' = Live /\ Trans' = Trans
    BY DEF Live, Trans, Moves
  <1>2. \A i : Needs(i)' = Needs(i)
    BY DEF Needs, SFrom, STo, Moves
  <1>3. LocksMatchChildren'
    BY <1>2 DEF Core, LocksMatchChildren
  <1>4. ServersExclusive'
    BY <1>1, <1>2 DEF Core, ServersExclusive
  <1>5. Watched' /\ ForkedUnfinished' /\ EchoForksNothing'
    BY <1>1 DEF Core, Watched, ForkedUnfinished, EchoForksNothing
  <1> QED
    BY <1>1, <1>3, <1>4, <1>5 DEF Core

(* A child is started for a ready transaction, watched with its locks set  *)
(* or, when fcntl fails, unwatched and without them.                       *)
LEMMA ForkFacts ==
    ASSUME Inv, Ready, ~conf.echo, Fork(list[tpp]), UNCHANGED <<conf, list, state>>
    PROVE  /\ Live' = Live \cup {list[tpp]}
           /\ nprocs' \in Nat
           /\ proc' \in [Trans -> {"none", "run", "ok", "bad"}]
           /\ Trans' = Trans
           /\ ServersExclusive' /\ ForkedUnfinished' /\ EchoForksNothing'
  <1>1. PICK i : i = list[tpp]
    OBVIOUS
  <1>2. /\ i \in Trans /\ i \notin Live /\ state[i] # 2
        /\ \A j \in Live : Needs(j) \cap Needs(i) = {}
        /\ nprocs - 1 \in Nat
    BY <1>1, ReadyFacts
  <1>3. Trans' = Trans
    BY DEF Trans, Moves
  <1>4. \A j : Needs(j)' = Needs(j)
    BY DEF Needs, SFrom, STo, Moves
  <1>5. /\ proc \in [Trans -> {"none", "run", "ok", "bad"}]
        /\ proc' = [proc EXCEPT ![i] = "run"] /\ nprocs' = nprocs - 1
    BY <1>1 DEF Inv, TypeOK, Fork
  <1>6. Live' = Live \cup {i}
    BY <1>2, <1>3, <1>5 DEF Live
  <1>7. ServersExclusive'
    BY <1>2, <1>4, <1>6 DEF Inv, ServersExclusive
  <1>8. ForkedUnfinished'
    BY <1>2, <1>6 DEF Inv, ForkedUnfinished
  <1>9. EchoForksNothing'
    BY DEF EchoForksNothing
  <1>10. nprocs' \in Nat /\ proc' \in [Trans -> {"none", "run", "ok", "bad"}]
    BY <1>2, <1>5
  <1> QED
    BY <1>1, <1>3, <1>6, <1>7, <1>8, <1>9, <1>10

(* state_lock writes flags and numbers.                                    *)
LEMMA SetLocksFacts ==
    ASSUME TypeOK, NEW i \in Trans, NEW locked \in BOOLEAN, SetLocks(i, locked)
    PROVE  /\ srvLocked' = [s \in Server |-> IF s \in Needs(i) THEN locked ELSE srvLocked[s]]
           /\ srvLocked' \in [Server -> BOOLEAN]
           /\ lockid' \in Nat
           /\ partLocked' \in [Partition -> Nat]
  <1>1. srvLocked' = [s \in Server |-> IF s \in Needs(i) THEN locked ELSE srvLocked[s]]
    BY DEF SetLocks
  <1>2. srvLocked' \in [Server -> BOOLEAN]
    <2>1. \A s \in Server : srvLocked[s] \in BOOLEAN
      BY DEF TypeOK
    <2> QED
      BY <1>1, <2>1, Zenon
  <1>3. lockid' \in Nat /\ partLocked' \in [Partition -> Nat]
    BY DEF SetLocks, TypeOK
  <1> QED
    BY <1>1, <1>2, <1>3

LEMMA InvDispatch == Inv /\ Dispatch => Inv'
  <1> SUFFICES ASSUME Inv, Dispatch PROVE Inv'
    OBVIOUS
  <1>1. PICK i : i = list[tpp]
    OBVIOUS
  <1>2. /\ Ready /\ ~conf.echo /\ Fork(i) /\ trans_fd' = trans_fd \cup {i} /\ SetLocks(i, TRUE)
        /\ UNCHANGED <<conf, aborted, late, list, tpp, state, shutdown, abend, pc, home, carried, reported>>
    BY <1>1 DEF Dispatch, ambient, schedule, flags, record
  <1>3. /\ Live' = Live \cup {i} /\ nprocs' \in Nat
        /\ proc' \in [Trans -> {"none", "run", "ok", "bad"}] /\ Trans' = Trans
        /\ ServersExclusive' /\ ForkedUnfinished' /\ EchoForksNothing'
    BY <1>1, <1>2, ForkFacts
  <1>4. i \in Trans /\ pc = "scan"
    BY <1>1, <1>2, ReadyFacts
  <1>5. \A j : Needs(j)' = Needs(j)
    BY <1>2 DEF Needs, SFrom, STo, Moves
  <1>6. /\ srvLocked' = [s \in Server |-> IF s \in Needs(i) THEN TRUE ELSE srvLocked[s]]
        /\ srvLocked' \in [Server -> BOOLEAN] /\ lockid' \in Nat /\ partLocked' \in [Partition -> Nat]
    BY <1>2, <1>4, SetLocksFacts DEF Inv
  <1>7. Moved' = Moved
    BY <1>2 DEF Moved, Trans, Moves
  <1>8. TypeOK'
    <2>1. TypeOK
      BY DEF Inv
    <2>2. trans_fd' \subseteq Trans
      BY <1>2, <1>4, <2>1 DEF TypeOK
    <2> QED
      BY <1>2, <1>3, <1>6, <1>7, <2>1, <2>2 DEF TypeOK
  <1>9. LocksMatchChildren'
    BY <1>2, <1>5, <1>6 DEF Inv, LocksMatchChildren
  <1>10. Watched' /\ Orphans'
    BY <1>2, <1>3 DEF Inv, Watched, Orphans
  <1>11. LocksHeldWhenFreed' /\ ReturnsAlone'
    BY <1>2, <1>4 DEF LocksHeldWhenFreed, ReturnsAlone
  <1> QED
    BY <1>3, <1>8, <1>9, <1>10, <1>11 DEF Inv

LEMMA InvFcntlFails == Inv /\ FcntlFails => Inv'
  <1> SUFFICES ASSUME Inv, FcntlFails PROVE Inv'
    OBVIOUS
  <1>1. PICK i : i = list[tpp]
    OBVIOUS
  <1>2. /\ Ready /\ ~conf.echo /\ Fork(i) /\ "fcntl" \in conf.faults
        /\ shutdown' = 1 /\ abend' = TRUE /\ pc' = "wait"
        /\ UNCHANGED <<conf, aborted, late, list, tpp, state, srvLocked, partLocked, lockid,
                       trans_fd, home, carried, reported>>
    BY <1>1 DEF FcntlFails, ambient, schedule, locks, record
  <1>3. /\ Live' = Live \cup {i} /\ nprocs' \in Nat
        /\ proc' \in [Trans -> {"none", "run", "ok", "bad"}] /\ Trans' = Trans
        /\ ServersExclusive' /\ ForkedUnfinished' /\ EchoForksNothing'
    BY <1>1, <1>2, ForkFacts
  <1>4. \A j : Needs(j)' = Needs(j)
    BY <1>2 DEF Needs, SFrom, STo, Moves
  <1>5. Moved' = Moved
    BY <1>2 DEF Moved, Trans, Moves
  <1>6. TypeOK'
    BY <1>2, <1>3, <1>5 DEF Inv, TypeOK
  <1>7. LocksMatchChildren'
    BY <1>2, <1>4 DEF Inv, LocksMatchChildren
  <1>8. Watched' /\ Orphans'
    BY <1>2, <1>3 DEF Inv, Watched, Orphans
  <1>9. LocksHeldWhenFreed' /\ ReturnsAlone'
    BY <1>2 DEF LocksHeldWhenFreed, ReturnsAlone
  <1> QED
    BY <1>3, <1>6, <1>7, <1>8, <1>9 DEF Inv

LEMMA InvReap == ASSUME NEW i \in Trans PROVE Inv /\ Reap(i) => Inv'
  <1> SUFFICES ASSUME Inv, Reap(i) PROVE Inv'
    OBVIOUS
  <1>1. /\ pc = "wait" /\ proc[i] \in {"ok", "bad"} /\ i \in Live
        /\ shutdown' \in {1, shutdown} /\ abend' \in BOOLEAN
        /\ reported' \subseteq reported \cup {i}
        /\ UNCHANGED <<conf, aborted, late, list, tpp, home, carried>>
    BY DEF Reap, ambient, Live, Inv, TypeOK
  <1>2. TypeOK /\ Trans' = Trans /\ Moved' = Moved
    BY <1>1 DEF Inv, Moved, Trans, Moves
  <1>3. Needs(i) \subseteq Server /\ Needs(i) # {}
    BY <1>2, MoveFacts DEF TypeOK
  <1>4. CASE /\ Held(i) /\ SetLocks(i, FALSE)
             /\ state' = [state EXCEPT ![i] = NextState(i)]
             /\ nprocs' = nprocs + 1
             /\ proc' = [proc EXCEPT ![i] = "none"]
             /\ trans_fd' = trans_fd \ {i}
             /\ pc' = "top"
    <2>1. i \in trans_fd
      BY <1>1, <1>3, <1>4 DEF Held, Inv, LocksMatchChildren, ServersExclusive, Watched
    <2>2. srvLocked' = [s \in Server |-> IF s \in Needs(i) THEN FALSE ELSE srvLocked[s]]
      BY <1>2, <1>4, SetLocksFacts
    <2>3. srvLocked' \in [Server -> BOOLEAN] /\ lockid' \in Nat /\ partLocked' \in [Partition -> Nat]
      BY <1>2, <1>4, SetLocksFacts
    <2>4. state' \in [Trans -> 0..2]
      BY <1>2, <1>4 DEF TypeOK, NextState
    <2>5. proc' \in [Trans -> {"none", "run", "ok", "bad"}] /\ nprocs' \in Nat
      BY <1>2, <1>4 DEF TypeOK
    <2>6. TypeOK'
      BY <1>1, <1>2, <1>4, <2>3, <2>4, <2>5 DEF TypeOK
    <2>7. Live' = Live \ {i}
      BY <1>2, <1>4 DEF Live, TypeOK
    <2>8. \A j \in Trans : j # i => Needs(j)' = Needs(j) /\ state'[j] = state[j]
      BY <1>1, <1>2, <1>4 DEF Needs, SFrom, STo, Moves, TypeOK
    <2>9. Live \subseteq Trans /\ trans_fd \subseteq Live
      BY DEF Live, Inv, Watched
    <2>10. LocksMatchChildren'
      BY <1>1, <1>4, <2>1, <2>2, <2>8, <2>9 DEF Inv, LocksMatchChildren, ServersExclusive
    <2>11. ServersExclusive'
      BY <2>7, <2>8, <2>9 DEF Inv, ServersExclusive
    <2>12. Watched' /\ ForkedUnfinished' /\ EchoForksNothing'
      BY <1>1, <1>4, <2>7, <2>8, <2>9 DEF Inv, Watched, ForkedUnfinished, EchoForksNothing
    <2>13. Orphans'
      BY <1>1, <1>2, <1>4, <2>1, <2>7 DEF Inv, Orphans, TypeOK
    <2>14. LocksHeldWhenFreed' /\ ReturnsAlone'
      BY <1>4 DEF LocksHeldWhenFreed, ReturnsAlone
    <2> QED
      BY <2>6, <2>10, <2>11, <2>12, <2>13, <2>14 DEF Inv
  <1>5. CASE ~Held(i) /\ pc' = "panic" /\ UNCHANGED <<locks, state, children>>
    <2>1. UNCHANGED <<state, srvLocked, partLocked, lockid, nprocs, proc, trans_fd>>
      BY <1>5 DEF locks, children
    <2>2. Core' /\ Live' = Live
      BY <1>1, <2>1, CoreStable DEF Core, Inv
    <2>3. TypeOK'
      BY <1>1, <1>2, <1>5, <2>1 DEF TypeOK
    <2>4. i \notin trans_fd
      BY <1>3, <1>5 DEF Held, Inv, LocksMatchChildren
    <2>5. LocksHeldWhenFreed' /\ ReturnsAlone'
      BY <1>1, <1>5, <2>1, <2>2, <2>4 DEF LocksHeldWhenFreed, ReturnsAlone
    <2>6. Orphans'
      BY <1>1, <1>2, <2>1, <2>2 DEF Inv, Orphans, TypeOK
    <2> QED
      BY <2>2, <2>3, <2>5, <2>6 DEF Inv, Core
  <1> QED
    BY <1>4, <1>5 DEF Reap

LEMMA InvEchoStep == Inv /\ EchoStep => Inv'
  <1> SUFFICES ASSUME Inv, EchoStep PROVE Inv'
    OBVIOUS
  <1>1. PICK i : i = list[tpp]
    OBVIOUS
  <1>2. /\ conf.echo /\ Ready /\ state' = [state EXCEPT ![i] = NextState(i)]
        /\ UNCHANGED <<conf, aborted, late, list, tpp, srvLocked, partLocked, lockid, nprocs, proc,
                       trans_fd, shutdown, abend, pc, home, carried, reported>>
    BY <1>1 DEF EchoStep, ambient, locks, children, flags, record
  <1>3. Live = {} /\ trans_fd = {} /\ Live' = {} /\ Trans' = Trans /\ Moved' = Moved
    <2>1. Live = {} /\ trans_fd = {}
      BY <1>2 DEF Inv, EchoForksNothing, Watched
    <2>2. Trans' = Trans /\ Moved' = Moved
      BY <1>2 DEF Trans, Moves, Moved
    <2>3. Live' = Live
      BY <1>2, <2>2 DEF Live
    <2> QED
      BY <2>1, <2>2, <2>3
  <1>4. state' \in [Trans -> 0..2]
    <2>1. NextState(i) \in 0..2
      BY DEF NextState
    <2> QED
      BY <1>2, <2>1 DEF Inv, TypeOK
  <1>5. TypeOK'
    BY <1>2, <1>3, <1>4 DEF Inv, TypeOK
  <1>6. LocksMatchChildren'
    BY <1>2, <1>3 DEF Inv, LocksMatchChildren
  <1>7. ServersExclusive' /\ Watched' /\ Orphans' /\ ForkedUnfinished' /\ EchoForksNothing'
    BY <1>2, <1>3 DEF ServersExclusive, Watched, Orphans, ForkedUnfinished, EchoForksNothing
  <1>8. LocksHeldWhenFreed' /\ ReturnsAlone'
    BY <1>2, <1>3 DEF Inv, LocksHeldWhenFreed, ReturnsAlone
  <1> QED
    BY <1>5, <1>6, <1>7, <1>8 DEF Inv

LEMMA InvQuit == Inv /\ Quit => Inv'
  <1> SUFFICES ASSUME Inv, Quit PROVE Inv'
    OBVIOUS
  <1>1. /\ Live = {} /\ pc' \in {"exit0", "exit1"}
        /\ UNCHANGED <<conf, aborted, late, list, tpp, srvLocked, partLocked, lockid, nprocs, proc,
                       trans_fd, shutdown, abend, home, carried>>
    BY DEF Quit, NoChild, ambient, locks, children, flags
  <1>2. trans_fd = {} /\ Live' = {} /\ Trans' = Trans /\ Moved' = Moved
    BY <1>1 DEF Inv, Watched, Live, Trans, Moves, Moved
  <1>3. TypeOK'
    <2>1. state' \in [Trans -> 0..2]
      BY DEF Inv, TypeOK, Quit
    <2>2. Undone \subseteq Trans
      BY DEF Inv, TypeOK, Undone, ToSet
    <2>3. reported' \subseteq Trans
      BY <2>2 DEF Inv, TypeOK, Quit
    <2> QED
      BY <1>1, <1>2, <2>1, <2>3 DEF Inv, TypeOK
  <1>4. LocksMatchChildren'
    BY <1>1, <1>2 DEF Inv, LocksMatchChildren
  <1>5. ServersExclusive' /\ Watched' /\ Orphans' /\ ForkedUnfinished' /\ EchoForksNothing'
    BY <1>1, <1>2 DEF ServersExclusive, Watched, Orphans, ForkedUnfinished, EchoForksNothing
  <1>6. LocksHeldWhenFreed' /\ ReturnsAlone'
    BY <1>1, <1>2 DEF LocksHeldWhenFreed, ReturnsAlone
  <1> QED
    BY <1>3, <1>4, <1>5, <1>6 DEF Inv

LEMMA InvChildEnds == ASSUME NEW i \in Trans PROVE Inv /\ ChildEnds(i) => Inv'
  <1> SUFFICES ASSUME Inv, ChildEnds(i) PROVE Inv'
    OBVIOUS
  <1>1. /\ proc[i] = "run"
        /\ \E end \in {"ok", "bad"} : proc' = [proc EXCEPT ![i] = end]
        /\ UNCHANGED <<conf, aborted, late, list, tpp, state, srvLocked, partLocked, lockid, nprocs,
                       trans_fd, shutdown, abend, pc, reported>>
    BY DEF ChildEnds, ChildSucceeds, ChildFails, ambient, schedule, locks, flags, record
  <1>2. TypeOK /\ Trans' = Trans /\ Moved' = Moved
    BY <1>1 DEF Inv, Trans, Moves, Moved
  <1>3. proc' \in [Trans -> {"none", "run", "ok", "bad"}] /\ Live' = Live /\ i \in Live
    BY <1>1, <1>2 DEF TypeOK, Live
  <1>4. \A j : Needs(j)' = Needs(j)
    BY <1>1 DEF Needs, SFrom, STo, Moves
  <1>5. state[i] \in {0, 1}
    BY <1>2, <1>3 DEF Inv, ForkedUnfinished, TypeOK
  <1>6. home' \in [Moved -> Partition]
    <2>1. Moves[i].to \in Partition
      BY <1>2, MoveFacts DEF TypeOK
    <2> QED
      BY <1>2, <2>1 DEF ChildEnds, ChildSucceeds, ChildFails, record, TypeOK
  <1>7. carried' \subseteq Trans \X {0, 1}
    BY <1>2, <1>5 DEF ChildEnds, ChildSucceeds, ChildFails, record, TypeOK
  <1>8. TypeOK'
    BY <1>1, <1>2, <1>3, <1>6, <1>7 DEF TypeOK
  <1>9. LocksMatchChildren'
    BY <1>1, <1>4 DEF Inv, LocksMatchChildren
  <1>10. ServersExclusive'
    BY <1>3, <1>4 DEF Inv, ServersExclusive
  <1>11. Watched' /\ Orphans' /\ ForkedUnfinished' /\ EchoForksNothing'
    BY <1>1, <1>3 DEF Inv, Watched, Orphans, ForkedUnfinished, EchoForksNothing
  <1>12. LocksHeldWhenFreed' /\ ReturnsAlone'
    BY <1>1, <1>3 DEF Inv, LocksHeldWhenFreed, ReturnsAlone
  <1> QED
    BY <1>8, <1>9, <1>10, <1>11, <1>12 DEF Inv

(* The steps that start, reap and finish nothing change the flags, the     *)
(* scan and the reservations only.                                         *)
Quiet == StartPass \/ EndPass \/ Snip \/ Skip \/ PipeFails \/ ForkFails \/ SelectBombs
            \/ Sigint \/ TimeIsUp

LEMMA InvQuiet == Inv /\ Quiet => Inv'
  <1> SUFFICES ASSUME Inv, Quiet PROVE Inv'
    OBVIOUS
  <1> USE DEF ambient, schedule, locks, children, flags, record
  <1>1. /\ UNCHANGED <<conf, state, srvLocked, lockid, nprocs, proc, trans_fd, home, carried, reported>>
        /\ pc \notin Exited /\ pc' \in {"scan", "wait"} \cup {pc}
    BY DEF Quiet, StartPass, EndPass, Snip, Skip, PipeFails, ForkFails, SelectBombs, Sigint,
           TimeIsUp, Scanning, Ready
  <1>2. TypeOK /\ Core
    BY DEF Inv, Core
  <1>3. Core' /\ Live' = Live /\ Trans' = Trans
    BY <1>1, <1>2, CoreStable
  <1>4. Moved' = Moved
    BY <1>1 DEF Moved, Trans, Moves
  <1>5. list' \in Seq(Trans) /\ tpp' \in 1..(Len(list') + 1)
    <2>1. CASE Snip
      <3>1. tpp \in 1..Len(list) /\ list \in Seq(Trans) /\ list' = RemoveAt(list, tpp) /\ tpp' = tpp
        BY <1>2, <2>1 DEF Snip, Scanning, TypeOK
      <3>2. list' \in Seq(Trans) /\ Len(list') = Len(list) - 1
        BY <3>1, UnlinkFacts, Zenon
      <3> QED
        BY <3>1, <3>2, LenProperties
    <2>2. CASE Skip
      BY <1>2, <2>2, LenProperties DEF Skip, Scanning, TypeOK
    <2>3. CASE StartPass
      BY <1>2, <2>3, LenProperties DEF StartPass, Rewound, TypeOK
    <2>4. CASE UNCHANGED <<list, tpp>>
      BY <1>2, <2>4 DEF TypeOK
    <2> QED
      BY <2>1, <2>2, <2>3, <2>4
      DEF Quiet, EndPass, PipeFails, ForkFails, SelectBombs, Sigint, TimeIsUp
  <1>6. partLocked' \in [Partition -> Nat]
    <2>1. CASE Skip
      BY <1>2, <2>1 DEF Skip, TypeOK
    <2>2. CASE UNCHANGED partLocked
      BY <1>2, <2>2 DEF TypeOK
    <2> QED
      BY <2>1, <2>2
      DEF Quiet, StartPass, EndPass, Snip, PipeFails, ForkFails, SelectBombs, Sigint, TimeIsUp
  <1>7. /\ aborted' \in Nat /\ abend' \in BOOLEAN /\ late' \in BOOLEAN
        /\ \/ shutdown' = shutdown
           \/ shutdown' \in Nat /\ shutdown' > 0
           \/ shutdown' \in Nat /\ "select" \in conf.faults
    <2>1. CASE SelectBombs \/ Sigint
      <3>1. abend' \in BOOLEAN
        BY <1>2, <2>1, Zenon DEF SelectBombs, Sigint, SelectFailed, TypeOK
      <3> QED
        BY <1>2, <2>1, <3>1 DEF SelectBombs, Sigint, SelectFailed, TypeOK
    <2>2. CASE StartPass \/ PipeFails
      <3>1. shutdown' = 1 \/ shutdown' = shutdown
        BY <2>2 DEF StartPass, PipeFails
      <3>2. aborted' = aborted /\ late' = late
        BY <2>2 DEF StartPass, PipeFails
      <3>3. abend' \in BOOLEAN
        BY <1>2, <2>2 DEF StartPass, PipeFails, TypeOK
      <3> QED
        BY <1>2, <3>1, <3>2, <3>3 DEF TypeOK
    <2>3. CASE EndPass \/ Snip \/ Skip \/ ForkFails
      BY <1>2, <2>3 DEF EndPass, Snip, Skip, ForkFails, TypeOK
    <2>4. CASE TimeIsUp
      BY <1>2, <2>4 DEF TimeIsUp, TypeOK
    <2> QED
      BY <2>1, <2>2, <2>3, <2>4 DEF Quiet
  <1>8. conf' = conf
    BY <1>1
  <1>9. TypeOK'
    <2>1. shutdown' \in Nat
      BY <1>2, <1>7 DEF TypeOK
    <2> QED
      BY <1>1, <1>2, <1>3, <1>4, <1>5, <1>6, <1>7, <2>1 DEF TypeOK
  <1>10. Orphans'
    <2>1. conf \in Invocations /\ ("fcntl" \notin conf.faults \/ "select" \notin conf.faults)
      BY <1>2, DispatcherAssumption DEF TypeOK
    <2> QED
      BY <1>1, <1>3, <1>7, <2>1 DEF Inv, Orphans
  <1>11. LocksHeldWhenFreed' /\ ReturnsAlone'
    BY <1>1 DEF LocksHeldWhenFreed, ReturnsAlone
  <1> QED
    BY <1>3, <1>9, <1>10, <1>11 DEF Inv, Core

LEMMA InvStutter == Inv /\ UNCHANGED vars => Inv'
  <1> SUFFICES ASSUME Inv, UNCHANGED vars PROVE Inv'
    OBVIOUS
  <1> USE DEF vars, ambient, schedule, locks, children, flags, record
  <1>1. Core' /\ Live' = Live /\ Trans' = Trans
    BY CoreStable DEF Core, Inv
  <1>2. TypeOK'
    BY <1>1 DEF Inv, TypeOK, Moved, Moves
  <1>3. Orphans' /\ LocksHeldWhenFreed' /\ ReturnsAlone'
    BY <1>1 DEF Inv, Orphans, LocksHeldWhenFreed, ReturnsAlone
  <1> QED
    BY <1>1, <1>2, <1>3 DEF Inv, Core

LEMMA InvNext == Inv /\ [Next]_vars => Inv'
  <1>1. Next => \/ Quiet \/ EchoStep \/ Dispatch \/ FcntlFails \/ Quit
                \/ \E i \in Trans : Reap(i) \/ ChildEnds(i)
    BY DEF Next, Walk, Mishap, Quiet
  <1> QED
    BY <1>1, InvQuiet, InvEchoStep, InvDispatch, InvFcntlFails, InvQuit, InvReap, InvChildEnds,
       InvStutter

(* The balancer keeps the invariant, whatever it is asked to do.           *)
THEOREM Invariance == Spec => []Inv
  BY InvInit, InvNext, PTL DEF Spec

(* Every variable keeps its type over all behaviours.                      *)
THEOREM TypeCorrect == Spec => []TypeOK
  <1>1. Inv => TypeOK
    BY DEF Inv
  <1> QED
    BY Invariance, <1>1, PTL

(* One vos command per fileserver, however children end and whatever fails *)
(* (balance.doc:409).                                                      *)
THEOREM Exclusion == Spec => []ServersExclusive
  <1>1. Inv => ServersExclusive
    BY DEF Inv
  <1> QED
    BY Invariance, <1>1, PTL

(* The lock flags of state.c are exactly the needs of the watched children.*)
THEOREM LocksExact == Spec => []LocksMatchChildren
  <1>1. Inv => LocksMatchChildren
    BY DEF Inv
  <1> QED
    BY Invariance, <1>1, PTL

(* "free lock failed" is reached only by a child a failed fcntl left       *)
(* without locks.                                                          *)
THEOREM FreeSucceeds == Spec => []LocksHeldWhenFreed
  <1>1. Inv => LocksHeldWhenFreed
    BY DEF Inv
  <1> QED
    BY Invariance, <1>1, PTL

(* do_transactions never returns over a running vos command, and the only  *)
(* other way out, the panic of state_lock, takes a failed fcntl: the child *)
(* whose lock is missing was started without one.                          *)
THEOREM NoAbandonedChild == Spec => []ChildrenReaped
  <1>1. Inv => ChildrenReaped
    BY DEF Inv, ReturnsAlone, LocksHeldWhenFreed, Orphans, ChildrenReaped
  <1> QED
    BY Invariance, <1>1, PTL

-----------------------------------------------------------------------------
(* The allowance of children, and the transactions trans_ht points to.     *)

LEMMA LiveFinite ==
    ASSUME Inv PROVE IsFiniteSet(Live) /\ Live \subseteq Trans /\ Cardinality(Live) \in Nat
  <1>1. Len(Moves) \in Nat
    BY DispatcherAssumption, LenProperties DEF Inv, TypeOK, Invocation, Moves
  <1>2. IsFiniteSet(Trans)
    BY <1>1, FS_Interval DEF Trans
  <1>3. Live \subseteq Trans
    BY DEF Live
  <1> QED
    BY <1>2, <1>3, FS_Subset, FS_CardinalityType

Tenure == SlotsConserved /\ NoDanglingTransaction

LEMMA TenureInit == Init => Tenure
  <1> SUFFICES ASSUME Init PROVE Tenure
    OBVIOUS
  <1>1. conf.nprocs \in Nat /\ nprocs = conf.nprocs
    BY DispatcherAssumption DEF Init, Invocation
  <1>2. Live = {}
    BY DEF Init, Live, Trans
  <1> QED
    BY <1>1, <1>2, FS_EmptySet DEF Tenure, SlotsConserved, NoDanglingTransaction

(* Fork takes a slot and reaping gives it back; only a terminal            *)
(* transaction leaves the list.                                            *)
LEMMA TenureNext == Inv /\ Tenure /\ [Next]_vars => Tenure'
  <1> SUFFICES ASSUME Inv, Tenure, [Next]_vars PROVE Tenure'
    OBVIOUS
  <1> USE DEF ambient, schedule, locks, children, flags, record
  <1>1. conf' = conf /\ Trans' = Trans /\ TypeOK
    BY DEF Next, Walk, Mishap, StartPass, EndPass, Snip, Skip, EchoStep, Dispatch, Quit, Reap,
           PipeFails, ForkFails, FcntlFails, SelectBombs, Sigint, TimeIsUp, ChildEnds,
           ChildSucceeds, ChildFails, vars, Trans, Moves, Inv
  <1>2. ASSUME Ready, ~conf.echo, Fork(list[tpp]), list' = list
        PROVE  Tenure'
    <2>1. PICK i : i = list[tpp]
      OBVIOUS
    <2>2. i \in Trans /\ i \in ToSet(list) /\ i \notin Live /\ nprocs - 1 \in Nat
      BY <1>2, <2>1, ReadyFacts
    <2>3. proc' = [proc EXCEPT ![i] = "run"] /\ nprocs' = nprocs - 1
      BY <1>2, <2>1 DEF Fork
    <2>4. Live' = Live \cup {i}
      BY <1>1, <2>2, <2>3 DEF Live, TypeOK
    <2>5. Cardinality(Live \cup {i}) = Cardinality(Live) + 1
      BY <2>2, LiveFinite, FS_AddElement
    <2>6. nprocs \in Nat /\ Cardinality(Live) \in Nat
      BY <1>1, LiveFinite DEF TypeOK
    <2>7. SlotsConserved'
      BY <1>1, <2>3, <2>4, <2>5, <2>6 DEF Tenure, SlotsConserved
    <2>8. NoDanglingTransaction'
      BY <1>2, <2>2, <2>4 DEF Tenure, NoDanglingTransaction
    <2> QED
      BY <2>7, <2>8 DEF Tenure
  <1>3. ASSUME Live' = Live, nprocs' = nprocs, list' = list
        PROVE  Tenure'
    BY <1>1, <1>3 DEF Tenure, SlotsConserved, NoDanglingTransaction
  <1>4. ASSUME NEW i \in Trans, Reap(i)
        PROVE  Tenure'
    <2>1. i \in Live /\ list' = list
      BY <1>4 DEF Reap, Live
    <2>2. CASE nprocs' = nprocs + 1 /\ proc' = [proc EXCEPT ![i] = "none"]
      <3>1. Live' = Live \ {i}
        BY <1>1, <2>2 DEF Live, TypeOK
      <3>2. Cardinality(Live \ {i}) = Cardinality(Live) - 1
        BY <2>1, LiveFinite, FS_RemoveElement
      <3>3. nprocs \in Nat /\ Cardinality(Live) \in Nat
        BY <1>1, LiveFinite DEF TypeOK
      <3>4. SlotsConserved'
        BY <1>1, <2>2, <3>1, <3>2, <3>3 DEF Tenure, SlotsConserved
      <3>5. NoDanglingTransaction'
        BY <2>1, <3>1 DEF Tenure, NoDanglingTransaction
      <3> QED
        BY <3>4, <3>5 DEF Tenure
    <2>3. CASE UNCHANGED <<nprocs, proc>>
      BY <1>1, <1>3, <2>1, <2>3 DEF Live
    <2> QED
      BY <1>4, <2>2, <2>3 DEF Reap
  <1>5. ASSUME NEW i \in Trans, ChildEnds(i)
        PROVE  Tenure'
    <2>1. Live' = Live /\ nprocs' = nprocs /\ list' = list
      BY <1>1, <1>5 DEF ChildEnds, ChildSucceeds, ChildFails, Live, TypeOK
    <2> QED
      BY <1>3, <2>1
  <1>6. CASE Snip
    <2>1. /\ tpp \in 1..Len(list) /\ list \in Seq(Trans) /\ list' = RemoveAt(list, tpp)
          /\ UNCHANGED <<proc, nprocs>>
      BY <1>1, <1>6 DEF Snip, Scanning, TypeOK
    <2>2. list[tpp] \notin Live
      BY <1>6 DEF Snip, Terminal, Inv, ForkedUnfinished
    <2>3. \A x \in ToSet(list) : x # list[tpp] => x \in ToSet(list')
      BY <2>1, UnlinkFacts, Zenon
    <2>4. Live' = Live
      BY <1>1, <2>1 DEF Live
    <2> QED
      BY <1>1, <2>1, <2>2, <2>3, <2>4 DEF Tenure, SlotsConserved, NoDanglingTransaction
  <1>7. CASE UNCHANGED <<proc, nprocs, list>>
    BY <1>1, <1>3, <1>7 DEF Live
  <1>8. Dispatch \/ FcntlFails => Tenure'
    BY <1>2 DEF Dispatch, FcntlFails
  <1>9. StartPass \/ EndPass \/ Skip \/ EchoStep \/ Quit \/ PipeFails \/ ForkFails \/ SelectBombs
           \/ Sigint \/ TimeIsUp \/ UNCHANGED vars => UNCHANGED <<proc, nprocs, list>>
    BY DEF StartPass, EndPass, Skip, EchoStep, Quit, PipeFails, ForkFails, SelectBombs, Sigint,
           TimeIsUp, vars
  <1> QED
    BY <1>4, <1>5, <1>6, <1>7, <1>8, <1>9 DEF Next, Walk, Mishap

(* The allowance of children neither leaks nor grows on any path.          *)
THEOREM SlotsKept == Spec => []SlotsConserved
  <1>1. Tenure => SlotsConserved
    BY DEF Tenure
  <1> QED
    BY TenureInit, TenureNext, Invariance, <1>1, PTL DEF Spec

(* A child's transaction is never freed before the child is reaped.        *)
THEOREM NoDangling == Spec => []NoDanglingTransaction
  <1>1. Tenure => NoDanglingTransaction
    BY DEF Tenure
  <1> QED
    BY TenureInit, TenureNext, Invariance, <1>1, PTL DEF Spec

(* The locks of the fileservers, in one statement: they are those of the   *)
(* running children, and none is freed that is not held.                   *)
THEOREM LocksCorrect == Spec => []LocksRight
  <1>1. LocksMatchChildren /\ LocksHeldWhenFreed => LocksRight
    BY DEF LocksRight
  <1> QED
    BY <1>1, LocksExact, FreeSucceeds, PTL

(* Slots, list and exits agree with the children there are.                *)
THEOREM ChildrenCorrect == Spec => []ChildrenAccounted
  <1>1. SlotsConserved /\ NoDanglingTransaction /\ ChildrenReaped => ChildrenAccounted
    BY DEF ChildrenAccounted
  <1> QED
    BY <1>1, SlotsKept, NoDangling, NoAbandonedChild, PTL

-----------------------------------------------------------------------------
(* The refinement.  A transaction that left the list is terminal, so the   *)
(* final message, which ends the transactions on the list, ends them all.  *)

Listed == \A i \in Trans : i \notin ToSet(list) => state[i] = 2

LEMMA ListedInit == Init => Listed
  <1> SUFFICES ASSUME Init, NEW i \in Trans PROVE i \in ToSet(list)
    BY DEF Listed
  <1>1. Len(Moves) \in Nat
    BY DispatcherAssumption, LenProperties DEF Init, Invocation, Moves
  <1> QED
    BY <1>1 DEF Init, ToSet, Trans

LEMMA ListedNext == Inv /\ Tenure /\ Listed /\ [Next]_vars => Listed'
  <1> SUFFICES ASSUME Inv, Tenure, Listed, [Next]_vars PROVE Listed'
    OBVIOUS
  <1> USE DEF ambient, schedule, locks, children, flags, record
  <1>1. conf' = conf /\ Trans' = Trans /\ TypeOK
    BY DEF Next, Walk, Mishap, StartPass, EndPass, Snip, Skip, EchoStep, Dispatch, Quit, Reap,
           PipeFails, ForkFails, FcntlFails, SelectBombs, Sigint, TimeIsUp, ChildEnds,
           ChildSucceeds, ChildFails, vars, Trans, Moves, Inv
  <1>2. CASE UNCHANGED <<list, state>>
    BY <1>1, <1>2 DEF Listed
  <1>3. CASE Snip
    <2>1. /\ tpp \in 1..Len(list) /\ list \in Seq(Trans) /\ list' = RemoveAt(list, tpp)
          /\ state' = state /\ state[list[tpp]] = 2
      BY <1>1, <1>3 DEF Snip, Scanning, TypeOK, Terminal
    <2>2. \A x \in ToSet(list) : x # list[tpp] => x \in ToSet(list')
      BY <2>1, UnlinkFacts, Zenon
    <2> QED
      BY <1>1, <2>1, <2>2 DEF Listed
  <1>4. CASE EchoStep
    <2>1. list[tpp] \in ToSet(list)
      BY <1>4, ReadyFacts DEF EchoStep
    <2> QED
      BY <1>1, <1>4, <2>1 DEF EchoStep, Listed, TypeOK
  <1>5. ASSUME NEW i \in Trans, Reap(i)
        PROVE  Listed'
    <2>1. i \in ToSet(list) /\ list' = list
      BY <1>5 DEF Reap, Tenure, NoDanglingTransaction, Live
    <2>2. state' = state \/ state' = [state EXCEPT ![i] = NextState(i)]
      BY <1>5 DEF Reap
    <2> QED
      BY <1>1, <2>1, <2>2 DEF Listed, TypeOK
  <1>6. CASE Quit
    BY <1>1, <1>6 DEF Quit, Listed
  <1>7. ASSUME NEW i \in Trans, ChildEnds(i)
        PROVE  UNCHANGED <<list, state>>
    BY <1>7 DEF ChildEnds, ChildSucceeds, ChildFails
  <1>8. StartPass \/ EndPass \/ Skip \/ Dispatch \/ PipeFails \/ ForkFails \/ FcntlFails
           \/ SelectBombs \/ Sigint \/ TimeIsUp \/ UNCHANGED vars => UNCHANGED <<list, state>>
    BY DEF StartPass, EndPass, Skip, Dispatch, PipeFails, ForkFails, FcntlFails, SelectBombs,
           Sigint, TimeIsUp, vars
  <1> QED
    BY <1>2, <1>3, <1>4, <1>5, <1>6, <1>7, <1>8 DEF Next, Walk, Mishap

(* The abstract view of a state.                                           *)
LEMMA MoverView ==
    ASSUME Inv
    PROVE  /\ Mover!Job = Trans
           /\ Mover!Active = Live
           /\ ~conf.echo => \A i \in Trans : state[i] # 2 => Mover!Uses(i) = Needs(i)
           /\ \A i \in Trans : Phase[i] =
                 IF state[i] = 0 \/ conf.echo
                 THEN IF proc[i] = "none" THEN "waiting" ELSE "moving"
                 ELSE IF state[i] = 1
                      THEN IF proc[i] = "none" THEN "moved" ELSE "refreshing"
                      ELSE "ended"
  <1>1. Mover!Job = Trans
    BY DEF Mover!Job, Ends
  <1>2. \A i \in Trans : Phase[i] =
                 IF state[i] = 0 \/ conf.echo
                 THEN IF proc[i] = "none" THEN "waiting" ELSE "moving"
                 ELSE IF state[i] = 1
                      THEN IF proc[i] = "none" THEN "moved" ELSE "refreshing"
                      ELSE "ended"
    BY DEF Phase
  <1>3. \A i \in Trans : state[i] \in 0..2
    BY DEF Inv, TypeOK
  <1>4. Mover!Active = Live
    BY <1>1, <1>2, <1>3 DEF Mover!Active, Live, Inv, ForkedUnfinished
  <1>5. ASSUME ~conf.echo, NEW i \in Trans, state[i] # 2
        PROVE  Mover!Uses(i) = Needs(i)
    <2>1. Ends[i].src = SFrom(i) /\ Ends[i].dst = STo(i)
      BY DEF Ends
    <2> QED
      BY <1>2, <1>3, <1>5, <2>1 DEF Mover!Uses, Needs
  <1> QED
    BY <1>1, <1>2, <1>4, <1>5

LEMMA MoverInit == Init => Mover!Init
  <1> SUFFICES ASSUME Init PROVE Mover!Init
    OBVIOUS
  <1>1. Mover!Job = Trans
    BY DEF Mover!Job, Ends
  <1>2. \A i \in Trans : state[i] = 0 /\ proc[i] = "none"
    BY DEF Init, Trans
  <1>3. Phase = [i \in Trans |-> "waiting"]
    BY <1>2 DEF Phase
  <1> QED
    BY <1>1, <1>3 DEF Mover!Init

(* A forked child starts its transaction in the abstract mover.            *)
LEMMA MoverStart ==
    ASSUME Inv, Tenure, Ready, ~conf.echo, Fork(list[tpp]), UNCHANGED <<conf, list, state>>
    PROVE  Mover!Next
  <1>1. PICK i : i = list[tpp]
    OBVIOUS
  <1>2. /\ i \in Trans /\ i \notin Live /\ state[i] # 2
        /\ \A j \in Live : Needs(j) \cap Needs(i) = {}
        /\ nprocs - 1 \in Nat
    BY <1>1, ReadyFacts
  <1>3. /\ TypeOK /\ Trans' = Trans /\ conf' = conf /\ proc[i] = "none"
        /\ proc' = [proc EXCEPT ![i] = "run"]
    BY <1>1, <1>2 DEF Inv, Trans, Moves, Fork, Live
  <1>4. Ends' = Ends
    BY <1>3 DEF Ends, SFrom, STo, Moves, Trans
  <1>5. state[i] \in {0, 1}
    BY <1>2, <1>3 DEF TypeOK
  <1>6. /\ Mover!Job = Trans /\ Mover!Active = Live
        /\ \A j \in Trans : state[j] # 2 => Mover!Uses(j) = Needs(j)
        /\ Phase[i] = IF state[i] = 0 THEN "waiting" ELSE "moved"
    BY <1>2, <1>3, <1>5, MoverView
  <1>7. Cardinality(Live) < conf.nprocs
    <2>1. nprocs + Cardinality(Live) = conf.nprocs /\ nprocs \in Nat /\ Cardinality(Live) \in Nat
      BY <1>3, LiveFinite DEF Tenure, SlotsConserved, TypeOK
    <2> QED
      BY <2>1, <1>2
  <1>8. \A j \in Live : Mover!Uses(i) \cap Mover!Uses(j) = {}
    BY <1>2, <1>6 DEF Inv, ForkedUnfinished, Live
  <1>9. Phase' = [Phase EXCEPT ![i] = IF @ = "waiting" THEN "moving" ELSE "refreshing"]
    <2>1. PICK q : q = IF Phase[i] = "waiting" THEN "moving" ELSE "refreshing"
      OBVIOUS
    <2>2. q = IF state[i] = 0 THEN "moving" ELSE "refreshing"
      BY <1>5, <1>6, <2>1
    <2>3. \A j \in Trans : j # i => proc'[j] = proc[j]
      BY <1>3 DEF TypeOK
    <2>4. proc'[i] = "run"
      BY <1>2, <1>3 DEF TypeOK
    <2>5. Phase' = [Phase EXCEPT ![i] = q]
      BY <1>2, <1>3, <1>5, <2>2, <2>3, <2>4 DEF Phase
    <2> QED
      BY <2>1, <2>5
  <1>10. Mover!Start(i)
    <2>1. Phase[i] \in {"waiting", "moved"}
      BY <1>6
    <2>2. Mover!Cardinality(Mover!Active) < conf.nprocs
      BY <1>6, <1>7 DEF Cardinality, Mover!Cardinality
    <2>3. \A j \in Mover!Active : Mover!Uses(i) \cap Mover!Uses(j) = {}
      BY <1>6, <1>8
    <2> QED
      BY <1>9, <2>1, <2>2, <2>3 DEF Mover!Start
  <1> QED
    BY <1>2, <1>3, <1>4, <1>6, <1>10 DEF Mover!Next

(* A reaped child finishes it.                                             *)
LEMMA MoverFinish ==
    ASSUME Inv, NEW i \in Trans, Reap(i)
    PROVE  Mover!Next \/ UNCHANGED <<conf.nprocs, Ends, Phase>>
  <1>1. /\ i \in Live /\ conf' = conf /\ TypeOK /\ ~conf.echo /\ Trans' = Trans
    BY DEF Reap, Live, ambient, Inv, EchoForksNothing, Trans, Moves
  <1>2. Ends' = Ends
    BY <1>1 DEF Ends, SFrom, STo, Moves, Trans
  <1>3. CASE UNCHANGED <<state, proc>>
    BY <1>1, <1>2, <1>3 DEF Phase
  <1>4. CASE state' = [state EXCEPT ![i] = NextState(i)] /\ proc' = [proc EXCEPT ![i] = "none"]
    <2>1. state[i] \in {0, 1} /\ proc[i] # "none"
      BY <1>1 DEF Inv, ForkedUnfinished, TypeOK, Live
    <2>2. /\ Mover!Job = Trans /\ Mover!Active = Live
          /\ Phase[i] = IF state[i] = 0 THEN "moving" ELSE "refreshing"
          /\ Ends[i].bk = Moves[i].bkexist
      BY <1>1, <2>1, MoverView DEF Ends
    <2>3. PICK q : q = IF Phase[i] = "moving" /\ Ends[i].bk THEN "moved" ELSE "ended"
      OBVIOUS
    <2>4. q = IF NextState(i) = 1 THEN "moved" ELSE "ended"
      BY <2>1, <2>2, <2>3 DEF NextState
    <2>5. /\ \A j \in Trans : j # i => proc'[j] = proc[j] /\ state'[j] = state[j]
          /\ proc'[i] = "none" /\ state'[i] = NextState(i) /\ NextState(i) \in {1, 2}
      BY <1>1, <1>4 DEF TypeOK, NextState
    <2>6. Phase' = [Phase EXCEPT ![i] = q]
      <3>1. Phase' = [j \in Trans |-> IF j = i THEN q ELSE Phase[j]]
        BY <1>1, <2>4, <2>5 DEF Phase
      <3> QED
        BY <3>1 DEF Phase
    <2>7. Mover!Finish(i)
      BY <1>1, <2>2, <2>3, <2>6 DEF Mover!Finish
    <2> QED
      BY <1>1, <1>2, <2>2, <2>7 DEF Mover!Next
  <1> QED
    BY <1>3, <1>4 DEF Reap, children

LEMMA MoverGiveUp ==
    ASSUME Inv, Listed, Quit
    PROVE  Mover!Next \/ UNCHANGED <<conf.nprocs, Ends, Phase>>
  <1>1. Live = {} /\ conf' = conf /\ proc' = proc /\ list' = list /\ Trans' = Trans
    BY DEF Quit, NoChild, ambient, children, Trans, Moves
  <1>2. Ends' = Ends
    BY <1>1 DEF Ends, SFrom, STo, Moves, Trans
  <1>3. CASE conf.echo
    BY <1>1, <1>2, <1>3 DEF Quit, Phase
  <1>4. CASE ~conf.echo
    <2>1. \A i \in Trans : state'[i] = 2
      BY <1>4 DEF Quit, Listed
    <2>2. Phase' = [i \in Trans |-> "ended"]
      BY <1>1, <1>4, <2>1 DEF Phase
    <2>3. Mover!GiveUp
      BY <1>1, <2>2, MoverView DEF Mover!GiveUp
    <2> QED
      BY <1>1, <1>2, <2>3 DEF Mover!Next
  <1> QED
    BY <1>3, <1>4

LEMMA MoverStep ==
    Inv /\ Tenure /\ Listed /\ [Next]_vars => [Mover!Next]_<<conf.nprocs, Ends, Phase>>
  <1> SUFFICES ASSUME Inv, Tenure, Listed, [Next]_vars
               PROVE  Mover!Next \/ UNCHANGED <<conf.nprocs, Ends, Phase>>
    OBVIOUS
  <1> USE DEF ambient, schedule, locks, children, flags, record
  <1>1. CASE UNCHANGED <<conf, state, proc>>
    BY <1>1 DEF Ends, Phase, SFrom, STo, Moves, Trans
  <1>2. CASE Dispatch \/ FcntlFails
    BY <1>2, MoverStart DEF Dispatch, FcntlFails
  <1>3. ASSUME NEW i \in Trans, Reap(i)
        PROVE  Mover!Next \/ UNCHANGED <<conf.nprocs, Ends, Phase>>
    BY <1>3, MoverFinish
  <1>4. CASE Quit
    BY <1>4, MoverGiveUp
  <1>5. CASE EchoStep
    <2>1. conf' = conf /\ conf.echo /\ proc' = proc /\ Trans' = Trans
      BY <1>5 DEF EchoStep, Trans, Moves
    <2>2. Ends' = Ends
      BY <2>1 DEF Ends, SFrom, STo, Moves, Trans
    <2> QED
      BY <2>1, <2>2 DEF Phase
  <1>6. ASSUME NEW i \in Trans, ChildEnds(i)
        PROVE  Mover!Next \/ UNCHANGED <<conf.nprocs, Ends, Phase>>
    <2>1. /\ conf' = conf /\ state' = state /\ Trans' = Trans
          /\ \A j \in Trans : proc'[j] = "none" <=> proc[j] = "none"
      BY <1>6 DEF ChildEnds, ChildSucceeds, ChildFails, Inv, TypeOK, Trans, Moves
    <2>2. Ends' = Ends
      BY <2>1 DEF Ends, SFrom, STo, Moves, Trans
    <2>3. Phase' = Phase
      BY <2>1 DEF Phase
    <2> QED
      BY <2>1, <2>2, <2>3
  <1>7. StartPass \/ EndPass \/ Skip \/ Snip \/ PipeFails \/ ForkFails \/ SelectBombs \/ Sigint
           \/ TimeIsUp \/ UNCHANGED vars => UNCHANGED <<conf, state, proc>>
    BY DEF StartPass, EndPass, Skip, Snip, PipeFails, ForkFails, SelectBombs, Sigint, TimeIsUp, vars
  <1> QED
    BY <1>1, <1>2, <1>3, <1>4, <1>5, <1>6, <1>7 DEF Next, Walk, Mishap

(* The dispatcher implements the abstract mover: every step of the scan,   *)
(* the polls and the children is a start, a finish, a giving up or nothing.*)
THEOREM Refinement == Spec => ImplementsVolumeMover
  <1>1. Tenure /\ Listed /\ Inv /\ Inv' /\ [Next]_vars => Tenure' /\ Listed'
    BY TenureNext, ListedNext
  <1> QED
    BY TenureInit, ListedInit, MoverInit, <1>1, MoverStep, Invariance, PTL
    DEF Spec, ImplementsVolumeMover, Mover!Spec

-----------------------------------------------------------------------------
(* What the run says at its end.                                           *)

(* What the parts above say together.                                      *)
Base == Inv /\ Tenure /\ Listed

THEOREM BaseInvariance == Spec => []Base
  <1>1. Inv /\ Inv' /\ Tenure /\ Listed /\ [Next]_vars => Tenure' /\ Listed'
    BY TenureNext, ListedNext
  <1>2. Inv /\ Tenure /\ Listed => Base
    BY DEF Base
  <1> QED
    BY TenureInit, ListedInit, <1>1, <1>2, Invariance, PTL DEF Spec

(* The steps by what they do to children, transactions and messages.       *)
Still == UNCHANGED <<conf, list, state, proc, home, carried, reported, partLocked, lockid>>

LEMMA Steps ==
    ASSUME Base, [Next]_vars
    PROVE  /\ conf' = conf /\ Trans' = Trans /\ Moves' = Moves
           /\ \/ (StartPass \/ EndPass \/ PipeFails \/ ForkFails \/ SelectBombs \/ Sigint \/ TimeIsUp
                    \/ UNCHANGED vars) /\ Still
              \/ Snip /\ UNCHANGED <<state, proc, home, carried, reported, partLocked, lockid>>
              \/ Skip /\ UNCHANGED <<list, state, proc, home, carried, reported, lockid>>
              \/ (Dispatch \/ FcntlFails) /\ ~conf.echo /\ Ready
                    /\ list[tpp] \in Trans /\ proc[list[tpp]] = "none"
                    /\ proc' = [proc EXCEPT ![list[tpp]] = "run"]
                    /\ UNCHANGED <<list, state, home, carried, reported>>
              \/ EchoStep /\ conf.echo /\ UNCHANGED <<list, proc, home, carried, reported, partLocked, lockid>>
              \/ Quit /\ Live = {} /\ UNCHANGED <<list, proc, home, carried, partLocked, lockid>>
              \/ \E i \in Trans : Reap(i) /\ ~conf.echo /\ UNCHANGED <<list, home, carried>>
              \/ \E i \in Trans : ChildEnds(i) /\ ~conf.echo
                    /\ UNCHANGED <<list, state, reported, partLocked, lockid>>
  <1> USE DEF ambient, schedule, locks, children, flags, record
  <1>1. conf' = conf
    BY DEF Next, Walk, Mishap, StartPass, EndPass, Snip, Skip, EchoStep, Dispatch, Quit, Reap,
           PipeFails, ForkFails, FcntlFails, SelectBombs, Sigint, TimeIsUp, ChildEnds,
           ChildSucceeds, ChildFails, vars
  <1>2. Trans' = Trans /\ Moves' = Moves
    BY <1>1 DEF Trans, Moves
  <1>3. (StartPass \/ EndPass \/ PipeFails \/ ForkFails \/ SelectBombs \/ Sigint \/ TimeIsUp
            \/ UNCHANGED vars) => Still
    BY DEF StartPass, EndPass, PipeFails, ForkFails, SelectBombs, Sigint, TimeIsUp, vars, Still
  <1>4. Snip => UNCHANGED <<state, proc, home, carried, reported, partLocked, lockid>>
    BY DEF Snip
  <1>5. Skip => UNCHANGED <<list, state, proc, home, carried, reported, lockid>>
    BY DEF Skip
  <1>6. ASSUME Dispatch \/ FcntlFails
        PROVE  /\ ~conf.echo /\ Ready
               /\ list[tpp] \in Trans /\ proc[list[tpp]] = "none"
               /\ proc' = [proc EXCEPT ![list[tpp]] = "run"]
               /\ UNCHANGED <<list, state, home, carried, reported>>
    <2>1. ~conf.echo /\ Ready /\ Fork(list[tpp])
      BY <1>6 DEF Dispatch, FcntlFails
    <2>2. list[tpp] \in Trans /\ proc[list[tpp]] = "none"
      BY <2>1, ReadyFacts DEF Base, Live
    <2>3. UNCHANGED <<list, state, home, carried, reported>>
      BY <1>6 DEF Dispatch, FcntlFails
    <2> QED
      BY <2>1, <2>2, <2>3 DEF Fork
  <1>7. EchoStep => conf.echo /\ UNCHANGED <<list, proc, home, carried, reported, partLocked, lockid>>
    BY DEF EchoStep
  <1>8. Quit => Live = {} /\ UNCHANGED <<list, proc, home, carried, partLocked, lockid>>
    BY DEF Quit, NoChild
  <1>9. ASSUME NEW i \in Trans, Reap(i)
        PROVE  ~conf.echo /\ UNCHANGED <<list, home, carried>>
    BY <1>9 DEF Reap, Base, Inv, EchoForksNothing, Live
  <1>10. ASSUME NEW i \in Trans, ChildEnds(i)
         PROVE  ~conf.echo /\ UNCHANGED <<list, state, reported, partLocked, lockid>>
    BY <1>10 DEF ChildEnds, ChildSucceeds, ChildFails, Base, Inv, EchoForksNothing, Live
  <1> QED
    BY <1>1, <1>2, <1>3, <1>4, <1>5, <1>6, <1>7, <1>8, <1>9, <1>10 DEF Next, Walk, Mishap

(* What was carried out stands behind the state of a transaction: it       *)
(* advances with its command or with the message that names it.            *)
Told ==
    ~conf.echo => \A i \in Trans :
        /\ proc[i] = "ok" => <<i, state[i]>> \in carried
        /\ state[i] # 0 => <<i, 0>> \in carried \/ i \in reported
        /\ state[i] = 2 /\ Moves[i].bkexist => <<i, 1>> \in carried \/ i \in reported

LEMMA ToldInit == Init => Told
  BY DEF Init, Told, Trans, Moves

LEMMA ToldNext == Base /\ Told /\ [Next]_vars => Told'
  <1> SUFFICES ASSUME Base, Told, [Next]_vars PROVE Told'
    OBVIOUS
  <1>0. TypeOK
    BY DEF Base, Inv
  <1>1. conf' = conf /\ Trans' = Trans /\ Moves' = Moves
    BY Steps
  <1>2. CASE UNCHANGED <<state, proc, carried, reported>>
    BY <1>1, <1>2 DEF Told
  <1>3. CASE conf.echo
    BY <1>1, <1>3 DEF Told
  <1>4. ASSUME NEW j \in Trans, proc' = [proc EXCEPT ![j] = "run"], UNCHANGED <<state, carried, reported>>
        PROVE  Told'
    BY <1>0, <1>1, <1>4 DEF Told, TypeOK
  <1>5. ASSUME Quit, UNCHANGED <<proc, carried>>
        PROVE  Told'
    <2>1. ASSUME NEW i \in Trans, ~conf.echo
          PROVE  /\ state'[i] = state[i] \/ i \in reported'
                 /\ i \in reported => i \in reported'
                 /\ proc[i] = "none"
      <3>1. proc[i] = "none" /\ (i \in reported => i \in reported')
        BY <1>5, <2>1 DEF Quit, NoChild, Live
      <3>2. CASE i \in ToSet(list)
        <4>1. state'[i] = 2
          BY <1>5, <2>1, <3>2 DEF Quit
        <4>2. state[i] # 2 => i \in Undone
          BY <3>2 DEF Undone, Terminal
        <4>3. Undone \subseteq reported'
          BY <1>5, <2>1 DEF Quit
        <4> QED
          BY <3>1, <4>1, <4>2, <4>3
      <3>3. CASE i \notin ToSet(list)
        BY <1>5, <2>1, <3>1, <3>3 DEF Quit
      <3> QED
        BY <3>2, <3>3
    <2> QED
      BY <1>1, <1>5, <2>1 DEF Told
  <1>6. ASSUME NEW i \in Trans, Reap(i), ~conf.echo, UNCHANGED <<list, carried>>
        PROVE  Told'
    <2>1. /\ proc[i] \in {"ok", "bad"} /\ state[i] # 2
          /\ reported' = IF proc[i] = "bad" THEN reported \cup {i} ELSE reported
      BY <1>6 DEF Reap, Base, Inv, ForkedUnfinished, Live
    <2>2. CASE UNCHANGED <<state, proc>>
      BY <1>1, <1>6, <2>1, <2>2 DEF Told
    <2>3. CASE state' = [state EXCEPT ![i] = NextState(i)] /\ proc' = [proc EXCEPT ![i] = "none"]
      <3>1. state'[i] = NextState(i) /\ proc'[i] = "none" /\ state[i] \in {0, 1}
        BY <1>0, <2>1, <2>3 DEF TypeOK
      <3>2. \A j \in Trans : j # i => state'[j] = state[j] /\ proc'[j] = proc[j]
        BY <1>0, <2>3 DEF TypeOK
      <3>3. <<i, state[i]>> \in carried \/ i \in reported'
        BY <1>6, <2>1 DEF Told
      <3>4. reported \subseteq reported'
        BY <2>1
      <3>5. state[i] = 1 => <<i, 0>> \in carried \/ i \in reported
        <4>1. state[i] = 1 => state[i] # 0
          OBVIOUS
        <4> QED
          BY <1>6, <4>1 DEF Told
      <3>6. /\ <<i, 0>> \in carried \/ i \in reported'
            /\ NextState(i) = 2 /\ Moves[i].bkexist => <<i, 1>> \in carried \/ i \in reported'
        BY <3>1, <3>3, <3>4, <3>5 DEF NextState
      <3> QED
        BY <1>1, <1>6, <3>1, <3>2, <3>4, <3>6 DEF Told
    <2> QED
      BY <1>6, <2>2, <2>3 DEF Reap, children
  <1>7. ASSUME NEW i \in Trans, ChildEnds(i), UNCHANGED <<state, reported>>
        PROVE  Told'
    <2>1. carried \subseteq carried'
      BY <1>7 DEF ChildEnds, ChildSucceeds, ChildFails, record
    <2>2. \A j \in Trans : proc'[j] = "ok" => proc[j] = "ok" \/ <<j, state[j]>> \in carried'
      BY <1>0, <1>7 DEF ChildEnds, ChildSucceeds, ChildFails, TypeOK
    <2> QED
      BY <1>1, <1>7, <2>1, <2>2 DEF Told
  <1> QED
    BY <1>2, <1>3, <1>4, <1>5, <1>6, <1>7, Steps DEF Still

(* A run with a failure behind it does not exit with status 0, nor does    *)
(* one that leaves something on its list.                                  *)
FailuresKept == /\ reported # {} => abend \/ pc = "exit1"
                /\ pc = "exit0" /\ ~conf.echo => list = <<>> /\ ~abend
Finished == pc \in {"exit0", "exit1"} /\ ~conf.echo => \A i \in Trans : state[i] = 2

(* Shutdown is final but for a select that fails on its own.               *)
Stopped == "select" \notin conf.faults /\ reported # {} /\ pc \notin Exited => shutdown > 0

Ended == FailuresKept /\ Finished /\ Stopped

LEMMA EndedInit == Init => Ended
  BY DEF Init, Ended, FailuresKept, Finished, Stopped

LEMMA EndedNext == Base /\ Ended /\ [Next]_vars => Ended'
  <1> SUFFICES ASSUME Base, Ended, [Next]_vars PROVE Ended'
    OBVIOUS
  <1>0. TypeOK
    BY DEF Base, Inv
  <1>1. conf' = conf /\ Trans' = Trans /\ Moves' = Moves
    BY Steps
  <1>2. ASSUME UNCHANGED <<reported>>, pc \notin Exited, pc' \notin {"exit0", "exit1"},
               abend => abend',
               shutdown' = shutdown \/ shutdown' > 0 \/ "select" \in conf.faults
        PROVE  Ended'
    BY <1>1, <1>2 DEF Ended, FailuresKept, Finished, Stopped
  <1>3. CASE StartPass \/ EndPass \/ Snip \/ Skip \/ EchoStep
    BY <1>2, <1>3
    DEF StartPass, EndPass, Snip, Skip, EchoStep, Ready, Scanning, record, flags
  <1>4. CASE PipeFails \/ ForkFails \/ FcntlFails \/ Dispatch
    <2>1. reported' = reported /\ pc = "scan" /\ pc' \in {"scan", "wait"}
      BY <1>4 DEF PipeFails, ForkFails, FcntlFails, Dispatch, Ready, Scanning, record
    <2>2. abend => abend'
      BY <1>4, Zenon DEF PipeFails, ForkFails, FcntlFails, Dispatch, flags
    <2>3. shutdown' = shutdown \/ shutdown' = 1
      BY <1>4 DEF PipeFails, ForkFails, FcntlFails, Dispatch, flags
    <2> QED
      BY <1>2, <2>1, <2>2, <2>3
  <1>5. CASE SelectBombs
    BY <1>2, <1>5 DEF SelectBombs, SelectFailed, record
  <1>6. CASE Sigint \/ TimeIsUp
    <2>1. pc' = pc /\ pc \notin Exited /\ reported' = reported
      BY <1>6 DEF Sigint, TimeIsUp, record
    <2>2. abend => abend'
      BY <1>6 DEF Sigint, TimeIsUp, SelectFailed, flags
    <2>3. shutdown' = shutdown \/ shutdown' = aborted + 1
      BY <1>6 DEF Sigint, TimeIsUp, SelectFailed, flags
    <2>4. aborted + 1 > 0
      BY <1>0 DEF TypeOK
    <2> QED
      BY <1>2, <2>1, <2>2, <2>3, <2>4
  <1>7. CASE UNCHANGED vars
    BY <1>1, <1>7
    DEF vars, ambient, schedule, children, flags, record, Ended, FailuresKept, Finished, Stopped
  <1>8. ASSUME NEW i \in Trans, ChildEnds(i)
        PROVE  Ended'
    <2>1. UNCHANGED <<list, state, abend, shutdown, pc, reported>>
      BY <1>8 DEF ChildEnds, ChildSucceeds, ChildFails, schedule, flags, record
    <2> QED
      BY <1>1, <2>1 DEF Ended, FailuresKept, Finished, Stopped
  <1>9. ASSUME NEW i \in Trans, Reap(i)
        PROVE  Ended'
    <2>1. /\ pc = "wait" /\ pc' \in {"top", "panic"}
          /\ reported' # {} => abend'
          /\ reported' # {} => \/ (reported # {} /\ shutdown' = shutdown)
                              \/ shutdown' = 1
      <3>1. reported # {} => abend
        BY <1>9 DEF Reap, Ended, FailuresKept
      <3> QED
        BY <1>9, <3>1 DEF Reap
    <2> QED
      BY <1>1, <2>1 DEF Ended, FailuresKept, Finished, Stopped
  <1>10. CASE Quit
    <2>1. pc = "wait" /\ pc' \in {"exit0", "exit1"} /\ list' = list /\ abend' = abend
      BY <1>10 DEF Quit, flags
    <2>2. CASE conf.echo
      BY <1>1, <1>10, <2>1, <2>2 DEF Quit, Ended, FailuresKept, Finished, Stopped
    <2>3. CASE ~conf.echo
      <3>1. \A i \in Trans : state'[i] = 2
        BY <1>10, <2>3 DEF Quit, Base, Listed
      <3>2. pc' = "exit0" => list = <<>> /\ ~abend
        BY <1>10, <2>3 DEF Quit
      <3>3. list = <<>> => Undone = {}
        BY DEF Undone, ToSet
      <3>4. reported' = reported \cup Undone
        BY <1>10, <2>3 DEF Quit
      <3>5. reported # {} => abend
        BY <2>1 DEF Ended, FailuresKept
      <3>6. FailuresKept'
        BY <2>1, <3>2, <3>3, <3>4, <3>5 DEF FailuresKept
      <3> QED
        BY <1>1, <2>1, <3>1, <3>6 DEF Ended, Finished, Stopped
    <2> QED
      BY <2>2, <2>3
  <1> QED
    BY <1>3, <1>4, <1>5, <1>6, <1>7, <1>8, <1>9, <1>10 DEF Next, Walk, Mishap

(* An exit status of 0 means that everything was carried out, and whatever *)
(* was not is named by a message.                                          *)
LEMMA ExitsTell == Base /\ Told /\ Ended => ExitZeroComplete /\ EveryMoveAccountedFor
  <1> SUFFICES ASSUME Base, Told, Ended PROVE ExitZeroComplete /\ EveryMoveAccountedFor
    OBVIOUS
  <1>1. ASSUME NEW i \in Trans, ~conf.echo, pc \in {"exit0", "exit1"}
        PROVE  Complete(i) \/ i \in reported
    <2>1. state[i] = 2 /\ state[i] # 0
      BY <1>1 DEF Ended, Finished
    <2> QED
      BY <1>1, <2>1 DEF Told, Complete
  <1>2. pc = "exit0" /\ ~conf.echo => reported = {}
    BY DEF Ended, FailuresKept
  <1> QED
    BY <1>1, <1>2 DEF ExitZeroComplete, EveryMoveAccountedFor

(* Echo mode locks nothing, so nothing is ever skipped and the head of the *)
(* list is served until the list is empty.                                 *)
EchoRun ==
    conf.echo =>
        /\ pc \notin {"panic", "exit1"}
        /\ tpp = 1
        /\ \A p \in Partition : partLocked[p] < lockid
        /\ aborted = 0 /\ nprocs > 0 =>
               /\ pc \in {"top", "scan"} => shutdown = 0
               /\ pc \in {"wait", "exit0"} => list = <<>>

LEMMA EchoInit == Init => EchoRun
  <1> SUFFICES ASSUME Init PROVE EchoRun
    OBVIOUS
  <1>1. \A p \in Partition : partLocked[p] = 0
    BY DEF Init
  <1> QED
    BY <1>1 DEF Init, EchoRun

LEMMA EchoNext == Base /\ EchoRun /\ [Next]_vars => EchoRun'
  <1> SUFFICES ASSUME Base, EchoRun, [Next]_vars, conf.echo PROVE EchoRun'
    BY Steps DEF EchoRun
  <1> USE DEF ambient, schedule, locks, children, flags, record
  <1>0. TypeOK
    BY DEF Base, Inv
  <1>1. conf' = conf
    BY Steps
  <1>2. ASSUME UNCHANGED <<tpp, partLocked, lockid, aborted, nprocs, shutdown, list>>,
               pc' = pc \/ (pc = "scan" /\ pc' = "scan")
        PROVE  EchoRun'
    BY <1>1, <1>2 DEF EchoRun
  <1>3. CASE StartPass
    BY <1>1, <1>3 DEF StartPass, Rewound, OverTime, EchoRun
  <1>4. CASE EndPass
    <2>1. /\ pc = "scan" /\ pc' = "wait" /\ ~Scanning
          /\ UNCHANGED <<tpp, partLocked, lockid, aborted, nprocs, list>>
      BY <1>4 DEF EndPass
    <2>2. ASSUME aborted = 0, nprocs > 0
          PROVE  list = <<>>
      <3>1. tpp = 1 /\ shutdown = 0
        BY <2>1, <2>2 DEF EchoRun
      <3>2. list \in Seq(Trans) /\ ~(1 <= Len(list))
        BY <1>0, <2>1, <2>2, <3>1 DEF Scanning, TypeOK
      <3>3. Len(list) = 0
        BY <3>2, LenProperties
      <3> QED
        BY <3>2, <3>3, EmptySeq
    <2> QED
      BY <1>1, <2>1, <2>2 DEF EchoRun
  <1>5. CASE Snip
    <2>1. /\ pc = "scan" /\ pc' = "scan"
          /\ UNCHANGED <<tpp, partLocked, lockid, aborted, nprocs, shutdown>>
      BY <1>5 DEF Snip, Scanning
    <2> QED
      BY <1>1, <2>1 DEF EchoRun
  <1>6. ~Skip
    <2> SUFFICES ASSUME Skip PROVE FALSE
      OBVIOUS
    <2>1. PICK i : i = list[tpp]
      OBVIOUS
    <2>2. ~Avail(i) /\ tpp \in 1..Len(list) /\ list \in Seq(Trans)
      BY <1>0, <2>1 DEF Skip, Scanning, TypeOK
    <2>3. i \in Trans
      BY <2>1, <2>2
    <2>4. Needs(i) \subseteq Server /\ Moves[i].to \in Partition
      BY <1>0, <2>3, MoveFacts DEF TypeOK
    <2>5. \A s \in Server : ~srvLocked[s]
      BY DEF Base, Inv, LocksMatchChildren, EchoForksNothing, Watched
    <2> QED
      BY <2>2, <2>4, <2>5 DEF Avail, EchoRun
  <1>7. CASE EchoStep
    BY <1>2, <1>7 DEF EchoStep, Ready, Scanning
  <1>8. ~(Dispatch \/ FcntlFails \/ PipeFails \/ ForkFails)
    BY DEF Dispatch, FcntlFails, PipeFails, ForkFails
  <1>9. \A i \in Trans : ~Reap(i) /\ ~ChildEnds(i)
    BY DEF Base, Inv, EchoForksNothing, Live, Reap, ChildEnds, ChildSucceeds, ChildFails
  <1>10. CASE SelectBombs
    BY <1>1, <1>10 DEF SelectBombs, EchoRun
  <1>11. CASE Sigint
    <2>1. aborted' # 0 /\ pc' = pc /\ UNCHANGED <<tpp, partLocked, lockid>>
      BY <1>0, <1>11 DEF Sigint, TypeOK
    <2> QED
      BY <1>1, <2>1 DEF EchoRun
  <1>12. CASE TimeIsUp
    BY <1>2, <1>12 DEF TimeIsUp
  <1>13. CASE Quit
    <2>1. /\ pc = "wait" /\ pc' = "exit0"
          /\ UNCHANGED <<tpp, partLocked, lockid, aborted, nprocs, list>>
      BY <1>13 DEF Quit
    <2> QED
      BY <1>1, <2>1 DEF EchoRun
  <1>14. CASE UNCHANGED vars
    BY <1>2, <1>14 DEF vars
  <1> QED
    BY <1>3, <1>4, <1>5, <1>6, <1>7, <1>8, <1>9, <1>10, <1>11, <1>12, <1>13, <1>14
    DEF Next, Walk, Mishap

LEMMA EchoTells == Base /\ EchoRun => EchoPrintsAll
  <1> SUFFICES ASSUME Base, EchoRun, conf.echo, pc \in Exited
               PROVE  pc = "exit0" /\ (aborted = 0 /\ conf.nprocs > 0 => list = <<>>)
    BY DEF EchoPrintsAll
  <1>1. Live = {} /\ nprocs \in Nat /\ conf.nprocs = nprocs + Cardinality(Live)
    BY DEF Base, Inv, TypeOK, EchoForksNothing, Tenure, SlotsConserved
  <1>2. conf.nprocs = nprocs
    BY <1>1, FS_EmptySet
  <1> QED
    BY <1>2 DEF EchoRun

(* An undisturbed run of plain moves.  A reservation lasts only as long as *)
(* the child that caused it runs, so a pass that finds no child running    *)
(* serves the whole list; and since no other transaction moves the volume, *)
(* no command fails.                                                       *)
Smooth == Undisturbed /\ PlainMoves

SmoothFlags == shutdown = 0 /\ ~abend /\ reported = {}
SmoothMoves == \A i \in Trans :
    /\ state[i] # 1 /\ proc[i] # "bad"
    /\ state[i] = 0 /\ <<i, 0>> \in carried => proc[i] = "ok"
    /\ state[i] = 0 /\ <<i, 0>> \notin carried => home[Moves[i].vol] = Moves[i].from
Reservations == \A p \in Partition : /\ partLocked[p] <= lockid
                                     /\ partLocked[p] = lockid => Live # {}
SmoothScan == /\ pc = "scan" /\ tpp > 1 => Live # {}
              /\ pc \in {"wait", "exit0", "exit1"} /\ Live = {} => list = <<>>

SmoothRun == Smooth => SmoothFlags /\ SmoothMoves /\ Reservations /\ SmoothScan

LEMMA SmoothInit == Init => SmoothRun
  <1> SUFFICES ASSUME Init, Smooth
               PROVE  SmoothFlags /\ SmoothMoves /\ Reservations /\ SmoothScan
    BY DEF SmoothRun
  <1>1. SmoothMoves
    <2>1. ASSUME NEW i \in Trans
          PROVE  state[i] = 0 /\ proc[i] = "none" /\ home[Moves[i].vol] = Moves[i].from
      <3>1. \A j \in 1..(i - 1) : Moves[j].vol # Moves[i].vol
        <4>1. \A j \in 1..(i - 1) : j \in Trans /\ j # i
          BY DispatcherAssumption, LenProperties DEF Trans, Init, Invocation, Moves
        <4> QED
          BY <4>1 DEF Smooth, PlainMoves
      <3> QED
        BY <3>1 DEF Init, Trans
    <2> QED
      <3>1. carried = {}
        BY DEF Init
      <3>2. \A i \in Trans : state[i] # 1
        BY <2>1
      <3> QED
        BY <2>1, <3>1, <3>2 DEF SmoothMoves
  <1>2. \A p \in Partition : partLocked[p] = 0
    BY DEF Init
  <1> QED
    BY <1>1, <1>2 DEF Init, SmoothFlags, Reservations, SmoothScan

(* No child, no lock.                                                      *)
LEMMA LockedByChild ==
    ASSUME Base, NEW s \in Server, srvLocked[s]
    PROVE  Live # {}
  BY DEF Base, Inv, LocksMatchChildren, Watched

LEMMA SmoothNext == Base /\ SmoothRun /\ [Next]_vars => SmoothRun'
  <1> SUFFICES ASSUME Base, SmoothRun, [Next]_vars, Smooth'
               PROVE  SmoothFlags' /\ SmoothMoves' /\ Reservations' /\ SmoothScan'
    BY DEF SmoothRun
  <1> USE DEF ambient, schedule, locks, children, flags, record
  <1>0. TypeOK
    BY DEF Base, Inv
  <1>1. conf' = conf /\ Trans' = Trans /\ Moves' = Moves
    BY Steps
  <1>2. ~Sigint /\ ~TimeIsUp
    BY <1>0 DEF Sigint, TimeIsUp, Smooth, Undisturbed, TypeOK
  <1>3. late' = late /\ aborted' = aborted
    BY <1>2
    DEF Next, Walk, Mishap, StartPass, EndPass, Snip, Skip, EchoStep, Dispatch, Quit, Reap,
        PipeFails, ForkFails, FcntlFails, SelectBombs, ChildEnds, ChildSucceeds, ChildFails, vars
  <1>4. /\ Smooth /\ conf.faults = {} /\ conf.nprocs > 0 /\ ~conf.echo /\ ~late /\ aborted = 0
        /\ \A i \in Trans : ~Moves[i].bkexist
        /\ \A i, j \in Trans : Moves[i].vol = Moves[j].vol => i = j
    BY <1>1, <1>3 DEF Smooth, Undisturbed, PlainMoves
  <1>5. SmoothFlags /\ SmoothMoves /\ Reservations /\ SmoothScan
    BY <1>4 DEF SmoothRun
  <1>6. ~(PipeFails \/ ForkFails \/ FcntlFails \/ SelectBombs \/ EchoStep)
    BY <1>4 DEF PipeFails, ForkFails, FcntlFails, SelectBombs, EchoStep
  <1>7. ASSUME UNCHANGED proc
        PROVE  Live' = Live
    BY <1>1, <1>7 DEF Live
  <1>8. ASSUME UNCHANGED <<state, proc, home, carried>>
        PROVE  SmoothMoves'
    BY <1>1, <1>5, <1>8 DEF SmoothMoves
  <1>9. CASE StartPass
    <2>1. /\ UNCHANGED <<list, state, partLocked, lockid, proc, abend, home, carried, reported>>
          /\ shutdown' = shutdown /\ tpp' = 1 /\ pc' = "scan"
      BY <1>4, <1>9 DEF StartPass, OverTime, Rewound
    <2> QED
      BY <1>5, <1>7, <1>8, <2>1 DEF SmoothFlags, Reservations, SmoothScan
  <1>10. CASE EndPass
    <2>1. /\ UNCHANGED <<list, state, partLocked, lockid, proc, abend, shutdown, home, carried, reported>>
          /\ pc = "scan" /\ pc' = "wait" /\ ~Scanning
      BY <1>10 DEF EndPass
    <2>2. ASSUME Live = {}
          PROVE  list = <<>>
      <3>1. nprocs \in Nat /\ conf.nprocs = nprocs + Cardinality(Live)
        BY <1>0 DEF Base, Tenure, SlotsConserved, TypeOK
      <3>2. nprocs > 0
        BY <1>4, <2>2, <3>1, FS_EmptySet
      <3>3. tpp = 1
        BY <1>0, <1>5, <2>1, <2>2, LenProperties DEF SmoothScan, TypeOK
      <3>4. list \in Seq(Trans) /\ ~(1 <= Len(list))
        BY <1>0, <1>4, <1>5, <2>1, <3>2, <3>3 DEF Scanning, TypeOK, SmoothFlags
      <3>5. Len(list) = 0
        BY <3>4, LenProperties
      <3> QED
        BY <3>4, <3>5, EmptySeq
    <2> QED
      BY <1>5, <1>7, <1>8, <2>1, <2>2 DEF SmoothFlags, Reservations, SmoothScan
  <1>11. CASE Snip
    <2>1. /\ UNCHANGED <<tpp, state, partLocked, lockid, proc, abend, shutdown, home, carried, reported>>
          /\ pc = "scan" /\ pc' = "scan"
      BY <1>11 DEF Snip, Scanning
    <2> QED
      BY <1>5, <1>7, <1>8, <2>1 DEF SmoothFlags, Reservations, SmoothScan
  <1>12. CASE Skip
    <2>1. PICK i : i = list[tpp]
      OBVIOUS
    <2>2. /\ UNCHANGED <<list, state, lockid, proc, abend, shutdown, home, carried, reported>>
          /\ pc = "scan" /\ pc' = "scan" /\ ~Avail(i) /\ i \in Trans
          /\ partLocked' = IF Reserves(i) THEN [partLocked EXCEPT ![Moves[i].from] = lockid]
                           ELSE partLocked
      BY <1>0, <1>12, <2>1 DEF Skip, Scanning, TypeOK
    <2>3. Needs(i) \subseteq Server /\ Moves[i].to \in Partition /\ STo(i) \in Server
      BY <1>0, <2>2, MoveFacts DEF TypeOK
    <2>4. Live # {}
      <3>1. CASE \E s \in Needs(i) : srvLocked[s]
        BY <2>3, <3>1, LockedByChild
      <3>2. CASE ~(partLocked[Moves[i].to] < lockid)
        <4>1. partLocked[Moves[i].to] = lockid
          BY <1>0, <1>5, <2>3, <3>2 DEF Reservations, TypeOK
        <4> QED
          BY <1>5, <2>3, <4>1 DEF Reservations
      <3> QED
        BY <2>2, <3>1, <3>2 DEF Avail
    <2>5. \A p \in Partition : partLocked'[p] <= lockid
      BY <1>0, <1>5, <2>2 DEF Reservations, TypeOK
    <2> QED
      BY <1>5, <1>7, <1>8, <2>2, <2>4, <2>5 DEF SmoothFlags, Reservations, SmoothScan
  <1>13. CASE Dispatch
    <2>1. PICK i : i = list[tpp]
      OBVIOUS
    <2>2. /\ UNCHANGED <<list, tpp, state, partLocked, abend, shutdown, home, carried, reported>>
          /\ Ready /\ pc' = pc /\ SetLocks(i, TRUE) /\ proc' = [proc EXCEPT ![i] = "run"]
      BY <1>13, <2>1 DEF Dispatch, Fork, SetLocks
    <2>3. i \in Trans /\ i \notin Live /\ state[i] # 2 /\ pc = "scan"
      BY <2>1, <2>2, ReadyFacts DEF Base
    <2>4. proc'[i] = "run" /\ \A j \in Trans : j # i => proc'[j] = proc[j]
      BY <1>0, <2>2, <2>3 DEF TypeOK
    <2>5. Live' # {}
      BY <1>1, <2>3, <2>4 DEF Live
    <2>6. state[i] = 0 /\ proc[i] = "none"
      <3>1. state[i] \in 0..2 /\ state[i] # 1 /\ proc[i] = "none"
        BY <1>0, <1>5, <2>3 DEF SmoothMoves, TypeOK, Live
      <3> QED
        BY <2>3, <3>1
    <2>7. SmoothMoves'
      BY <1>1, <1>5, <2>2, <2>4, <2>6 DEF SmoothMoves
    <2>8. lockid' = lockid + 1
      BY <2>2, <2>6 DEF SetLocks
    <2>9. Reservations'
      BY <1>0, <1>5, <2>2, <2>5, <2>8 DEF Reservations, TypeOK
    <2> QED
      BY <1>5, <2>2, <2>3, <2>5, <2>7, <2>9 DEF SmoothFlags, SmoothScan
  <1>14. ASSUME NEW i \in Trans, Reap(i)
         PROVE  SmoothFlags' /\ SmoothMoves' /\ Reservations' /\ SmoothScan'
    <2>1. /\ proc[i] = "ok" /\ i \in Live
          /\ UNCHANGED <<list, shutdown, reported, home, carried>> /\ abend' = abend
      BY <1>0, <1>5, <1>14 DEF Reap, SmoothMoves, Live, TypeOK
    <2>2. state[i] = 0
      <3>1. state[i] \in 0..2 /\ state[i] # 1
        BY <1>0, <1>5 DEF SmoothMoves, TypeOK
      <3>2. state[i] # 2
        BY <2>1 DEF Base, Inv, ForkedUnfinished
      <3> QED
        BY <3>1, <3>2
    <2>3. CASE UNCHANGED <<locks, state, children>> /\ pc' = "panic"
      BY <1>5, <1>7, <1>8, <2>1, <2>3 DEF SmoothFlags, Reservations, SmoothScan
    <2>4. CASE /\ SetLocks(i, FALSE) /\ state' = [state EXCEPT ![i] = NextState(i)]
               /\ proc' = [proc EXCEPT ![i] = "none"] /\ pc' = "top"
      <3>1. state'[i] = 2 /\ \A j \in Trans : j # i => proc'[j] = proc[j] /\ state'[j] = state[j]
        BY <1>0, <1>4, <2>2, <2>4 DEF NextState, TypeOK
      <3>2. proc'[i] = "none"
        BY <1>0, <2>4 DEF TypeOK
      <3>3. SmoothMoves'
        <4>1. state'[i] # 0 /\ state'[i] # 1
          BY <3>1
        <4> QED
          BY <1>1, <1>5, <2>1, <3>1, <3>2, <4>1 DEF SmoothMoves
      <3>4. lockid' = lockid + 1 /\ partLocked' = partLocked
        BY <2>2, <2>4 DEF SetLocks
      <3>5. Reservations'
        BY <1>0, <1>5, <3>4 DEF Reservations, TypeOK
      <3> QED
        BY <1>5, <2>1, <2>4, <3>3, <3>5 DEF SmoothFlags, SmoothScan
    <2> QED
      BY <1>14, <2>3, <2>4 DEF Reap
  <1>15. ASSUME NEW i \in Trans, ChildEnds(i)
         PROVE  SmoothFlags' /\ SmoothMoves' /\ Reservations' /\ SmoothScan'
    <2>1. /\ proc[i] = "run" /\ i \in Live
          /\ UNCHANGED <<list, tpp, state, partLocked, lockid, abend, shutdown, pc, reported>>
      BY <1>15 DEF ChildEnds, ChildSucceeds, ChildFails, Live
    <2>2. state[i] = 0
      <3>1. state[i] \in 0..2 /\ state[i] # 1
        BY <1>0, <1>5 DEF SmoothMoves, TypeOK
      <3>2. state[i] # 2
        BY <2>1 DEF Base, Inv, ForkedUnfinished
      <3> QED
        BY <3>1, <3>2
    <2>3. home[Moves[i].vol] = Moves[i].from
      BY <1>5, <2>1, <2>2 DEF SmoothMoves
    <2>4. /\ proc' = [proc EXCEPT ![i] = "ok"]
          /\ home' = [home EXCEPT ![Moves[i].vol] = Moves[i].to]
          /\ carried' = carried \cup {<<i, 0>>}
      BY <1>4, <1>15, <2>2, <2>3 DEF ChildEnds, ChildSucceeds, ChildFails
    <2>5. proc'[i] = "ok" /\ \A j \in Trans : j # i => proc'[j] = proc[j]
      BY <1>0, <2>4 DEF TypeOK
    <2>6. Live' = Live
      BY <1>1, <2>1, <2>5 DEF Live
    <2>7. \A j \in Trans : j # i => home'[Moves[j].vol] = home[Moves[j].vol]
      <3>1. \A j \in Trans : j # i => Moves[j].vol # Moves[i].vol /\ Moves[j].vol \in Moved
        BY <1>4 DEF Moved
      <3> QED
        BY <1>0, <2>4, <3>1 DEF TypeOK
    <2>8. SmoothMoves'
      BY <1>1, <1>5, <2>1, <2>4, <2>5, <2>7 DEF SmoothMoves
    <2> QED
      BY <1>5, <2>1, <2>6, <2>8 DEF SmoothFlags, Reservations, SmoothScan
  <1>16. CASE Quit
    <2>1. /\ UNCHANGED <<list, partLocked, lockid, proc, abend, shutdown, home, carried>>
          /\ pc = "wait" /\ pc' \in {"exit0", "exit1"} /\ Live = {}
          /\ reported' = reported \cup Undone
          /\ state' = [i \in Trans |-> IF i \in ToSet(list) THEN 2 ELSE state[i]]
      BY <1>4, <1>16 DEF Quit, NoChild
    <2>2. list = <<>>
      BY <1>5, <2>1 DEF SmoothScan
    <2>3. ToSet(list) = {}
      BY <2>2 DEF ToSet
    <2>4. reported' = {} /\ \A i \in Trans : state'[i] = state[i]
      BY <1>5, <2>1, <2>3 DEF Undone, SmoothFlags
    <2>5. SmoothMoves'
      BY <1>1, <1>5, <2>1, <2>4 DEF SmoothMoves
    <2> QED
      BY <1>5, <1>7, <2>1, <2>2, <2>4, <2>5 DEF SmoothFlags, Reservations, SmoothScan
  <1>17. CASE UNCHANGED vars
    BY <1>5, <1>7, <1>8, <1>17 DEF vars, SmoothFlags, Reservations, SmoothScan
  <1> QED
    BY <1>2, <1>6, <1>9, <1>10, <1>11, <1>12, <1>13, <1>14, <1>15, <1>16, <1>17
    DEF Next, Walk, Mishap

LEMMA SmoothTells == Base /\ SmoothRun /\ Told /\ Ended => PlainMovesExhaustivelyTried
  <1> SUFFICES ASSUME Base, SmoothRun, Told, Ended, Smooth, pc \in Exited, NEW i \in Trans
               PROVE  Complete(i)
    BY DEF PlainMovesExhaustivelyTried, Smooth
  <1>1. pc # "panic"
    BY DEF Base, Inv, LocksHeldWhenFreed, Orphans, Smooth, Undisturbed
  <1>2. EveryMoveAccountedFor
    BY ExitsTell
  <1> QED
    BY <1>1, <1>2 DEF EveryMoveAccountedFor, SmoothRun, SmoothFlags, Smooth, Undisturbed

(* What a run says at its end is true, and with nothing in its way it did  *)
(* everything.                                                             *)
THEOREM OutcomeCorrect == Spec => []OutcomeTold
  <1>1. Base /\ Told /\ Ended /\ EchoRun /\ SmoothRun => OutcomeTold
    BY ExitsTell, EchoTells, SmoothTells DEF OutcomeTold
  <1> QED
    BY BaseInvariance, ToldInit, ToldNext, EndedInit, EndedNext, EchoInit, EchoNext, SmoothInit,
       SmoothNext, <1>1, PTL DEF Spec

-----------------------------------------------------------------------------
(* What may start when.  The list keeps its order; what a pass has gone by *)
(* and waits for its backup waits for a fileserver that is still locked;   *)
(* and with one slot nothing is ever gone by.                              *)
Ordered == \A m, n \in 1..Len(list) : m < n => list[m] < list[n]
Passed == pc = "scan" => \A m \in 1..(tpp - 1) :
              state[list[m]] = 1 /\ proc[list[m]] = "none" => srvLocked[STo(list[m])]
OneByOne == conf.nprocs = 1 => tpp = 1 /\ \A p \in Partition : partLocked[p] < lockid

OrderInv == Ordered /\ Passed /\ OneByOne

LEMMA OrderInit == Init => OrderInv
  <1> SUFFICES ASSUME Init PROVE OrderInv
    OBVIOUS
  <1>1. Len(Moves) \in Nat
    BY DispatcherAssumption, LenProperties DEF Init, Invocation, Moves
  <1>2. list = [i \in 1..Len(Moves) |-> i] /\ list \in Seq(Nat) /\ Len(list) = Len(Moves)
    BY <1>1 DEF Init
  <1>3. Ordered
    BY <1>1, <1>2 DEF Ordered
  <1>4. \A p \in Partition : partLocked[p] = 0
    BY DEF Init
  <1> QED
    BY <1>3, <1>4 DEF Init, OrderInv, Passed, OneByOne

LEMMA OrderNext == Base /\ OrderInv /\ [Next]_vars => OrderInv'
  <1> SUFFICES ASSUME Base, OrderInv, [Next]_vars PROVE OrderInv'
    OBVIOUS
  <1> USE DEF ambient, schedule, locks, children, flags, record
  <1>0. TypeOK /\ Ordered /\ Passed /\ OneByOne
    BY DEF Base, Inv, OrderInv
  <1>1. conf' = conf /\ Trans' = Trans /\ Moves' = Moves
    BY Steps
  <1>2. list \in Seq(Trans) /\ Len(list) \in Nat /\ \A m \in 1..Len(list) : list[m] \in Trans
    BY <1>0, LenProperties DEF TypeOK
  <1>3. \A i : STo(i)' = STo(i)
    BY <1>1 DEF STo, Moves
  <1>4. ASSUME UNCHANGED list
        PROVE  Ordered'
    BY <1>0, <1>4 DEF Ordered
  <1>5. ASSUME UNCHANGED <<tpp, partLocked>>, lockid' \in {lockid, lockid + 1}
        PROVE  OneByOne'
    BY <1>0, <1>1, <1>5 DEF OneByOne, TypeOK
  <1>6. ASSUME UNCHANGED <<list, tpp, state, srvLocked>>, pc' = "scan" => pc = "scan",
               \A i \in Trans : proc'[i] = "none" => proc[i] = "none"
        PROVE  Passed'
    BY <1>0, <1>1, <1>2, <1>3, <1>6 DEF Passed, TypeOK
  <1>7. ASSUME pc' # "scan"
        PROVE  Passed'
    BY <1>7 DEF Passed
  <1>8. CASE StartPass
    <2>1. tpp' = 1 /\ UNCHANGED <<list, partLocked, lockid>>
      BY <1>8 DEF StartPass, Rewound
    <2>2. Passed' /\ OneByOne'
      BY <1>0, <1>1, <2>1 DEF Passed, OneByOne
    <2> QED
      BY <1>4, <2>1, <2>2 DEF OrderInv
  <1>9. CASE EndPass \/ PipeFails \/ ForkFails \/ FcntlFails
    <2>1. pc' # "scan" /\ UNCHANGED <<list, tpp, partLocked, lockid>>
      BY <1>9 DEF EndPass, PipeFails, ForkFails, FcntlFails
    <2> QED
      BY <1>4, <1>5, <1>7, <2>1 DEF OrderInv
  <1>10. CASE SelectBombs \/ Sigint \/ TimeIsUp \/ UNCHANGED vars
    <2>1. UNCHANGED <<list, tpp, state, srvLocked, partLocked, lockid, proc, pc>>
      BY <1>10 DEF SelectBombs, Sigint, TimeIsUp, vars
    <2> QED
      BY <1>4, <1>5, <1>6, <2>1 DEF OrderInv
  <1>11. CASE Snip
    <2>1. /\ tpp \in 1..Len(list) /\ list' = RemoveAt(list, tpp)
          /\ UNCHANGED <<tpp, state, srvLocked, partLocked, lockid, proc, pc>>
      BY <1>0, <1>11 DEF Snip, Scanning, TypeOK
    <2>2. PICK s : s = list'
      OBVIOUS
    <2>3. /\ Len(s) = Len(list) - 1
          /\ \A m \in 1..(Len(list) - 1) : s[m] = IF m <= tpp - 1 THEN list[m] ELSE list[m + 1]
      BY <1>2, <2>1, <2>2, CutFacts
    <2>4. \A m, n \in 1..Len(s) : m < n => s[m] < s[n]
      <3> SUFFICES ASSUME NEW m \in 1..Len(s), NEW n \in 1..Len(s), m < n
                   PROVE  s[m] < s[n]
        OBVIOUS
      <3>1. PICK k : k = IF m <= tpp - 1 THEN m ELSE m + 1
        OBVIOUS
      <3>2. PICK l : l = IF n <= tpp - 1 THEN n ELSE n + 1
        OBVIOUS
      <3>3. k \in 1..Len(list) /\ l \in 1..Len(list) /\ k < l
        BY <1>2, <2>1, <2>3, <3>1, <3>2
      <3>4. m \in 1..(Len(list) - 1) /\ n \in 1..(Len(list) - 1)
        BY <2>3
      <3>5. s[m] = list[k]
        BY <2>3, <3>1, <3>4
      <3>6. s[n] = list[l]
        BY <2>3, <3>2, <3>4
      <3> QED
        BY <1>0, <3>3, <3>5, <3>6 DEF Ordered
    <2>5. Ordered'
      BY <2>2, <2>4 DEF Ordered
    <2>6. \A m \in 1..(tpp - 1) : s[m] = list[m]
      BY <1>2, <2>1, <2>3
    <2>7. Passed'
      BY <1>0, <1>3, <2>1, <2>2, <2>6 DEF Passed
    <2> QED
      BY <1>5, <2>1, <2>5, <2>7 DEF OrderInv
  <1>12. CASE Skip
    <2>1. PICK i : i = list[tpp]
      OBVIOUS
    <2>2. /\ UNCHANGED <<list, state, srvLocked, lockid, proc>> /\ tpp' = tpp + 1
          /\ Scanning /\ ~Avail(i) /\ i \in Trans /\ tpp \in 1..Len(list)
      BY <1>0, <1>2, <1>12, <2>1 DEF Skip, Scanning, TypeOK
    <2>3. Needs(i) \subseteq Server /\ Moves[i].to \in Partition
      BY <1>0, <2>2, MoveFacts DEF TypeOK
    <2>4. state[i] = 1 => srvLocked[STo(i)]
      <3>1. state[i] = 1 => state[i] # 0
        OBVIOUS
      <3> QED
        BY <2>2, <3>1 DEF Avail, Needs
    <2>5. Passed'
      <3> SUFFICES ASSUME pc' = "scan", NEW m \in 1..tpp,
                          state[list[m]] = 1, proc[list[m]] = "none"
                   PROVE  srvLocked[STo(list[m])]
        BY <1>0, <1>3, <2>2 DEF Passed, TypeOK
      <3>1. CASE m = tpp
        BY <2>1, <2>4, <3>1
      <3>2. CASE m # tpp
        <4>1. m \in 1..(tpp - 1) /\ pc = "scan"
          BY <2>2, <3>2 DEF Scanning
        <4> QED
          BY <1>0, <4>1 DEF Passed
      <3> QED
        BY <3>1, <3>2
    <2>6. conf.nprocs # 1
      <3> SUFFICES ASSUME conf.nprocs = 1 PROVE FALSE
        OBVIOUS
      <3>1. nprocs \in Nat /\ nprocs > 0 /\ 1 = nprocs + Cardinality(Live)
        BY <1>0, <2>2 DEF Base, Tenure, SlotsConserved, TypeOK, Scanning
      <3>2. IsFiniteSet(Live) /\ Cardinality(Live) \in Nat
        BY LiveFinite DEF Base
      <3>3. Live = {}
        BY <3>1, <3>2, FS_EmptySet
      <3>4. \A s \in Needs(i) : ~srvLocked[s]
        BY <2>3, <3>3, LockedByChild
      <3> QED
        BY <1>0, <2>2, <2>3, <3>4 DEF Avail, OneByOne
    <2>7. OneByOne'
      BY <1>1, <2>6 DEF OneByOne
    <2> QED
      BY <1>4, <2>2, <2>5, <2>7 DEF OrderInv
  <1>13. CASE Dispatch
    <2>1. PICK i : i = list[tpp]
      OBVIOUS
    <2>2. /\ UNCHANGED <<list, tpp, state, partLocked, pc>> /\ Ready
          /\ SetLocks(i, TRUE) /\ proc' = [proc EXCEPT ![i] = "run"]
      BY <1>13, <2>1 DEF Dispatch, Fork, SetLocks
    <2>3. i \in Trans
      BY <2>1, <2>2, ReadyFacts DEF Base
    <2>4. srvLocked' = [s \in Server |-> IF s \in Needs(i) THEN TRUE ELSE srvLocked[s]]
      BY <1>0, <2>2, <2>3, SetLocksFacts
    <2>5. \A s \in Server : srvLocked[s] => srvLocked'[s]
      BY <2>4
    <2>6. \A j \in Trans : proc'[j] = "none" => proc[j] = "none"
      BY <1>0, <2>2 DEF TypeOK
    <2>7. \A j \in Trans : STo(j) \in Server
      BY <1>0, MoveFacts DEF TypeOK
    <2>8. \A m \in 1..(tpp - 1) : list[m] \in Trans
      BY <1>0, <1>2 DEF TypeOK
    <2>9. Passed'
      BY <1>0, <1>3, <2>2, <2>5, <2>6, <2>7, <2>8 DEF Passed
    <2>10. lockid' \in {lockid, lockid + 1}
      BY <2>2 DEF SetLocks
    <2> QED
      BY <1>4, <1>5, <2>2, <2>9, <2>10 DEF OrderInv
  <1>14. CASE EchoStep
    <2>1. PICK i : i = list[tpp]
      OBVIOUS
    <2>2. /\ UNCHANGED <<list, tpp, srvLocked, partLocked, lockid, proc, pc>> /\ tpp \in 1..Len(list)
          /\ state' = [state EXCEPT ![i] = NextState(i)]
      BY <1>0, <1>14, <2>1 DEF EchoStep, Ready, Scanning, TypeOK
    <2>3. \A m \in 1..(tpp - 1) : list[m] \in Trans /\ list[m] # i
      <3> SUFFICES ASSUME NEW m \in 1..(tpp - 1)
                   PROVE  list[m] \in Trans /\ list[m] # i
        OBVIOUS
      <3>1. m \in 1..Len(list) /\ m < tpp
        BY <1>2, <2>2
      <3>2. list[m] < list[tpp] /\ list[m] \in Trans /\ list[tpp] \in Trans
        BY <1>0, <1>2, <2>2, <3>1 DEF Ordered
      <3> QED
        BY <2>1, <3>2 DEF Trans
    <2>4. \A m \in 1..(tpp - 1) : state'[list[m]] = state[list[m]]
      BY <1>0, <2>2, <2>3 DEF TypeOK
    <2>5. Passed'
      BY <1>0, <1>3, <2>2, <2>4 DEF Passed
    <2> QED
      BY <1>4, <1>5, <2>2, <2>5 DEF OrderInv
  <1>15. ASSUME NEW i \in Trans, Reap(i)
         PROVE  OrderInv'
    <2>1. pc' # "scan" /\ UNCHANGED <<list, tpp, partLocked>> /\ lockid' \in {lockid, lockid + 1}
      BY <1>15 DEF Reap, SetLocks
    <2> QED
      BY <1>4, <1>5, <1>7, <2>1 DEF OrderInv
  <1>16. ASSUME NEW i \in Trans, ChildEnds(i)
         PROVE  OrderInv'
    <2>1. /\ UNCHANGED <<list, tpp, state, srvLocked, partLocked, lockid, pc>>
          /\ \A j \in Trans : proc'[j] = "none" => proc[j] = "none"
      BY <1>0, <1>16 DEF ChildEnds, ChildSucceeds, ChildFails, TypeOK
    <2> QED
      BY <1>4, <1>5, <1>6, <2>1 DEF OrderInv
  <1>17. CASE Quit
    <2>1. pc' # "scan" /\ UNCHANGED <<list, tpp, partLocked, lockid>>
      BY <1>17 DEF Quit
    <2> QED
      BY <1>4, <1>5, <1>7, <2>1 DEF OrderInv
  <1> QED
    BY <1>8, <1>9, <1>10, <1>11, <1>12, <1>13, <1>14, <1>15, <1>16, <1>17 DEF Next, Walk, Mishap

(* A transaction starts at the position of the scan.                       *)
LEMMA StartStep ==
    ASSUME Base, OrderInv, Told, Ended, [Next]_vars, NEW j \in Trans, Starts(j)
    PROVE  /\ NotBeforeBackup(j)
           /\ "select" \notin conf.faults => NotAfterFailure /\ InOrder(j)
  <1>0. TypeOK /\ Ordered /\ Passed /\ OneByOne
    BY DEF Base, Inv, OrderInv
  <1>1. Ready /\ ~conf.echo /\ j = list[tpp]
    <2>1. proc[j] = "none" /\ proc'[j] = "run"
      BY DEF Starts
    <2>2. proc' # proc /\ \A i \in Trans : ~Reap(i) /\ ~ChildEnds(i)
      BY <1>0, <2>1 DEF Reap, children, ChildEnds, ChildSucceeds, ChildFails, TypeOK
    <2>3. Ready /\ ~conf.echo /\ proc' = [proc EXCEPT ![list[tpp]] = "run"]
      BY <2>2, Steps DEF Still
    <2> QED
      BY <1>0, <2>1, <2>3 DEF TypeOK
  <1>2. /\ tpp \in 1..Len(list) /\ Len(list) \in Nat /\ pc = "scan" /\ shutdown = 0
        /\ \A m \in 1..Len(list) : list[m] \in Nat
    BY <1>0, <1>1, LenProperties DEF Ready, Scanning, TypeOK, Trans
  <1>3. ASSUME NEW i \in Trans, i < j
        PROVE  i \notin ToSet(list) \/ \E m \in 1..(tpp - 1) : list[m] = i
    <2> SUFFICES ASSUME i \in ToSet(list) PROVE \E m \in 1..(tpp - 1) : list[m] = i
      OBVIOUS
    <2>1. DOMAIN list = 1..Len(list)
      BY <1>0, LenProperties DEF TypeOK
    <2>2. PICK m \in 1..Len(list) : list[m] = i
      BY <2>1 DEF ToSet
    <2>3. ~(m > tpp) /\ m # tpp
      BY <1>0, <1>1, <1>2, <1>3, <2>2 DEF Ordered
    <2>4. m \in 1..(tpp - 1)
      BY <1>2, <2>3
    <2> QED
      BY <2>2, <2>4
  <1>4. NotBeforeBackup(j)
    <2> SUFFICES ASSUME NEW i \in Trans, i < j, state[i] = 1, proc[i] = "none"
                 PROVE  STo(i) \notin Needs(j)
      BY DEF NotBeforeBackup
    <2>1. state[i] # 2
      OBVIOUS
    <2>2. i \in ToSet(list)
      BY <2>1 DEF Base, Listed
    <2>3. srvLocked[STo(i)]
      BY <1>0, <1>2, <1>3, <2>2 DEF Passed
    <2> QED
      BY <1>1, <2>3 DEF Ready, Avail
  <1>5. ASSUME "select" \notin conf.faults
        PROVE  NotAfterFailure /\ InOrder(j)
    <2>1. reported = {}
      BY <1>0, <1>2, <1>5 DEF Ended, Stopped, TypeOK
    <2>2. ASSUME conf.nprocs = 1, NEW i \in Trans, i < j
          PROVE  Complete(i)
      <3>1. tpp = 1
        BY <1>0, <2>2 DEF OneByOne
      <3>2. i \notin ToSet(list)
        BY <1>3, <2>2, <3>1
      <3>3. state[i] = 2 /\ state[i] # 0
        BY <3>2 DEF Base, Listed
      <3> QED
        BY <1>1, <2>1, <3>3 DEF Told, Complete
    <2> QED
      BY <2>1, <2>2 DEF NotAfterFailure, InOrder
  <1> QED
    BY <1>4, <1>5

(* Backups before later moves, nothing after a failure, and with one slot  *)
(* the order of the list.                                                  *)
THEOREM OrderCorrect == Spec => StartOrder
  <1>1. Base /\ OrderInv /\ Told /\ Ended /\ [Next]_vars
            => [\A j \in Trans : Starts(j) =>
                   /\ NotBeforeBackup(j)
                   /\ "select" \notin conf.faults => NotAfterFailure /\ InOrder(j)]_vars
    BY StartStep
  <1> QED
    BY BaseInvariance, ToldInit, ToldNext, EndedInit, EndedNext, OrderInit, OrderNext, <1>1, PTL
    DEF Spec, StartOrder
=============================================================================
