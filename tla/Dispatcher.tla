----------------------------- MODULE Dispatcher -----------------------------
(***************************************************************************)
(* The transaction dispatcher of the AFS volume balancer: do_transactions  *)
(* of balance/balance.c with the volume state machine and the server and   *)
(* partition locks of balance/state.c.                                     *)
(*                                                                         *)
(* One process walks the list of transactions balance() produced, forks a  *)
(* vos command for every transaction whose servers are free, and polls for *)
(* the end of its children.  Children, the clock and SIGINT are the        *)
(* environment; the vos command itself is external and is modelled by what *)
(* the dispatcher relies on: it moves a volume from the named partition or *)
(* fails.                                                                  *)
(***************************************************************************)
EXTENDS Naturals, Sequences, FiniteSets, SequencesExt

CONSTANTS
    Partition,      \* partitions of the cell
    Server,         \* fileservers of the cell
    ServerOf,       \* the fileserver of a partition
    Volume,         \* volumes the transactions are about
    Invocations,    \* the command lines and transaction lists of interest
    MaxSigint       \* bound: how many times the user types ^C

Move == [vol : Volume, from : Partition, to : Partition, bkexist : BOOLEAN]

(* What a run of the dispatcher depends on: the list balance() made, -p,   *)
(* -e, whether -l set a time limit, and what may go wrong around it.       *)
Invocation == [moves : Seq(Move), nprocs : Nat, echo : BOOLEAN, timed : BOOLEAN,
               faults : SUBSET {"pipe", "fork", "fcntl", "select", "vos"}]

ASSUME DispatcherAssumption ==
    /\ ServerOf \in [Partition -> Server]
    /\ Invocations \subseteq Invocation
    \* not both: each alone is contained, see FcntlFails and SelectFailed
    /\ \A c \in Invocations : "fcntl" \notin c.faults \/ "select" \notin c.faults
    /\ MaxSigint \in Nat

VARIABLES
    conf,       \* how the balancer was invoked, and move_head at the start
    list,       \* the transactions still threaded on the list, by number
    tpp,        \* the position of the scan in the list
    state,      \* mrp->state: 0 vos move, 1 vos backup, 2 terminal
    srvLocked,  \* server->locked
    partLocked, \* partition->locked: the lockid at which it was reserved
    lockid,     \* increasing lock number
    nprocs,     \* the remaining allowance of children
    proc,       \* the child of a transaction in trans_ht
    trans_fd,   \* transactions whose child's output is being read
    shutdown, abend, aborted,
    late,       \* the clock is past startime + nsecs
    pc,         \* where do_transactions is
    home,       \* external: where each volume is
    carried,    \* external: the commands that succeeded, <<transaction, state>>
    reported    \* transactions named in a FAIL or UNDONE message

schedule == <<list, tpp, state>>
locks    == <<srvLocked, partLocked, lockid>>
children == <<nprocs, proc, trans_fd>>
flags    == <<shutdown, abend>>
ambient  == <<conf, aborted, late>>
record   == <<home, carried, reported>>
vars     == <<ambient, schedule, locks, children, flags, pc, record>>

-----------------------------------------------------------------------------
Moves      == conf.moves
Trans      == 1..Len(Moves)
Moved      == {Moves[i].vol : i \in Trans}
SFrom(i)   == ServerOf[Moves[i].from]
STo(i)     == ServerOf[Moves[i].to]
Exited     == {"exit0", "exit1", "panic"}
Live       == {i \in Trans : proc[i] # "none"}

(* state_transition: a backup follows the move of a volume that had one.   *)
NextStateWithoutBackup(i) == 2
NextState(i) == IF state[i] = 0 /\ Moves[i].bkexist THEN 1 ELSE 2

(* state_terminal *)
TerminalOnceStarted(i) == state[i] = 2 \/ proc[i] # "none"
Terminal(i) == state[i] = 2

(* The servers a transaction locks: both ends of a move, then the          *)
(* destination alone for the backup.                                       *)
Needs(i) == IF state[i] = 0 THEN {SFrom(i), STo(i)} ELSE {STo(i)}

(* SLOCK_HELD and SLOCK_AVAIL of state_lock.  Only a move looks at the     *)
(* reservation of the partition it fills.                                  *)
Held(i)  == \A s \in Needs(i) : srvLocked[s]
AvailAtSource(i) == /\ ~srvLocked[SFrom(i)]
                    /\ state[i] = 0 => partLocked[Moves[i].to] < lockid
Avail(i) == /\ \A s \in Needs(i) : ~srvLocked[s]
            /\ state[i] = 0 => partLocked[Moves[i].to] < lockid

(* The side effect of a refused SLOCK_AVAIL: the partition the volume is   *)
(* to leave is reserved while its destination server is busy.              *)
Reserves(i) == /\ state[i] = 0
               /\ ~srvLocked[SFrom(i)]
               /\ srvLocked[STo(i)]
               /\ partLocked[Moves[i].from] < lockid

(* SLOCK_LOCK and SLOCK_FREE: a move renews the lock number both times.    *)
SetLocksAtSource(i, locked) ==
    /\ srvLocked' = [srvLocked EXCEPT ![SFrom(i)] = locked]
    /\ lockid' = IF state[i] = 0 THEN lockid + 1 ELSE lockid
    /\ UNCHANGED partLocked
SetLocks(i, locked) ==
    /\ srvLocked' = [s \in Server |-> IF s \in Needs(i) THEN locked ELSE srvLocked[s]]
    /\ lockid' = IF state[i] = 0 THEN lockid + 1 ELSE lockid
    /\ UNCHANGED partLocked

Init ==
    /\ conf \in Invocations
    /\ list = [i \in 1..Len(Moves) |-> i]
    /\ tpp = 1
    /\ state = [i \in 1..Len(Moves) |-> 0]
    /\ srvLocked = [s \in Server |-> FALSE]
    /\ partLocked = [p \in Partition |-> 0]
    /\ lockid = 1
    /\ nprocs = conf.nprocs
    /\ proc = [i \in 1..Len(Moves) |-> "none"]
    /\ trans_fd = {}
    /\ shutdown = 0 /\ abend = FALSE /\ aborted = 0
    /\ late = FALSE
    /\ pc = "top"
    /\ home \in {h \in [Moved -> Partition] :
                    \A i \in Trans :
                        (\A j \in 1..(i - 1) : Moves[j].vol # Moves[i].vol)
                            => h[Moves[i].vol] = Moves[i].from}
    /\ carried = {}
    /\ reported = {}

-----------------------------------------------------------------------------
(* The top of the outer loop: a run over its time limit shuts down.        *)
OverTime == late /\ ~conf.echo

NotRewound == UNCHANGED tpp
Rewound == tpp' = 1

StartPass ==
    /\ pc = "top"
    /\ shutdown' = IF OverTime THEN 1 ELSE shutdown
    /\ Rewound
    /\ pc' = "scan"
    /\ UNCHANGED <<ambient, list, state, locks, children, abend, record>>

(* The condition of the dispatch loop.                                     *)
ScanningPastAllowance ==
    /\ pc = "scan"
    /\ tpp <= Len(list)
    /\ shutdown = 0
    /\ aborted = 0
Scanning ==
    /\ pc = "scan"
    /\ tpp <= Len(list)
    /\ nprocs > 0
    /\ shutdown = 0
    /\ aborted = 0

EndPass ==
    /\ pc = "scan" /\ ~Scanning
    /\ pc' = "wait"
    /\ UNCHANGED <<ambient, schedule, locks, children, flags, record>>

(* A terminal transaction is unlinked from the list and freed.             *)
Snip ==
    /\ Scanning
    /\ Terminal(list[tpp])
    /\ list' = RemoveAt(list, tpp)
    /\ UNCHANGED <<ambient, tpp, state, locks, children, flags, pc, record>>

(* Servers busy: reserve the source if need be and go to the next one.     *)
Skip ==
    /\ Scanning
    /\ LET i == list[tpp] IN
        /\ ~Terminal(i)
        /\ ~Avail(i)
        /\ partLocked' = IF Reserves(i)
                         THEN [partLocked EXCEPT ![Moves[i].from] = lockid]
                         ELSE partLocked
    /\ tpp' = tpp + 1
    /\ UNCHANGED <<ambient, list, state, srvLocked, lockid, children, flags, pc, record>>

Ready == Scanning /\ ~Terminal(list[tpp]) /\ Avail(list[tpp])

EchoStep ==
    /\ conf.echo /\ Ready
    /\ state' = [state EXCEPT ![list[tpp]] = NextState(list[tpp])]
    /\ UNCHANGED <<ambient, list, tpp, locks, children, flags, pc, record>>

PipeFails ==
    /\ ~conf.echo /\ Ready /\ "pipe" \in conf.faults
    /\ abend' = TRUE /\ shutdown' = 1
    /\ pc' = "wait"
    /\ UNCHANGED <<ambient, schedule, locks, children, record>>

(* A failed fork ends the pass; the next one tries again.                  *)
ForkFails ==
    /\ ~conf.echo /\ Ready /\ "fork" \in conf.faults
    /\ pc' = "wait"
    /\ UNCHANGED <<ambient, schedule, locks, children, flags, record>>

(* fork, then hashtable_add.                                               *)
Fork(i) ==
    /\ nprocs' = nprocs - 1
    /\ proc' = [proc EXCEPT ![i] = "run"]

Dispatch ==
    /\ ~conf.echo /\ Ready
    /\ LET i == list[tpp] IN
        /\ Fork(i)
        /\ trans_fd' = trans_fd \cup {i}
        /\ SetLocks(i, TRUE)
    /\ UNCHANGED <<ambient, schedule, flags, pc, record>>

(* fcntl fails after the fork: the child runs, but the pass ends before    *)
(* its output is watched and before its servers are locked.                *)
FcntlFails ==
    /\ ~conf.echo /\ Ready /\ "fcntl" \in conf.faults
    /\ Fork(list[tpp])
    /\ abend' = TRUE /\ shutdown' = 1
    /\ pc' = "wait"
    /\ UNCHANGED <<ambient, schedule, locks, trans_fd, record>>

-----------------------------------------------------------------------------
(* The polling loop.  A select that fails sets the flags from the count    *)
(* of interrupts.                                                          *)
SelectFailed(interrupts) ==
    /\ abend' = (abend \/ interrupts = shutdown)
    /\ shutdown' = interrupts

SelectBombs ==
    /\ pc = "wait" /\ "select" \in conf.faults
    /\ SelectFailed(aborted)
    /\ UNCHANGED <<ambient, schedule, locks, children, pc, record>>

(* waitpid returns a child: free its servers, then move its transaction    *)
(* on, whatever became of the command.                                     *)
Reap(i) ==
    /\ pc = "wait"
    /\ proc[i] \in {"ok", "bad"}
    /\ shutdown' = IF proc[i] = "bad" THEN 1 ELSE shutdown
    /\ abend' = (abend \/ proc[i] = "bad")
    /\ reported' = IF proc[i] = "bad" THEN reported \cup {i} ELSE reported
    /\ \/ /\ Held(i)
          /\ SetLocks(i, FALSE)
          /\ state' = [state EXCEPT ![i] = NextState(i)]
          /\ nprocs' = nprocs + 1
          /\ proc' = [proc EXCEPT ![i] = "none"]
          /\ trans_fd' = trans_fd \ {i}
          /\ pc' = "top"
       \/ /\ ~Held(i)              \* "free lock failed"
          /\ pc' = "panic"
          /\ UNCHANGED <<locks, state, children>>
    /\ UNCHANGED <<ambient, list, tpp, home, carried>>

(* waitpid fails: there is no child.                                       *)
NoChildAndNoWork == Live = {} /\ list = <<>>
NoChild == Live = {}

(* The transactions the last message names.                                *)
Undone == {i \in ToSet(list) : ~Terminal(i)}

(* No child is left: print what was not done and return.                   *)
Quit ==
    /\ pc = "wait"
    /\ NoChild
    /\ IF conf.echo
       THEN /\ pc' = "exit0"
            /\ UNCHANGED <<state, reported>>
       ELSE /\ pc' = IF abend \/ late \/ list # <<>> THEN "exit1" ELSE "exit0"
            /\ reported' = reported \cup Undone
            /\ state' = [i \in Trans |-> IF i \in ToSet(list) THEN 2 ELSE state[i]]
    /\ UNCHANGED <<ambient, list, tpp, locks, children, flags, home, carried>>

-----------------------------------------------------------------------------
(* A vos command ends.  A move succeeds only if the volume is where the    *)
(* command says; any command may also fail for reasons of its own.         *)
ChildSucceeds(i) ==
    /\ proc[i] = "run"
    /\ state[i] = 0 => home[Moves[i].vol] = Moves[i].from
    /\ proc' = [proc EXCEPT ![i] = "ok"]
    /\ home' = IF state[i] = 0 THEN [home EXCEPT ![Moves[i].vol] = Moves[i].to] ELSE home
    /\ carried' = carried \cup {<<i, state[i]>>}
    /\ UNCHANGED <<ambient, schedule, locks, nprocs, trans_fd, flags, pc, reported>>

ChildFails(i) ==
    /\ proc[i] = "run"
    /\ \/ "vos" \in conf.faults
       \/ state[i] = 0 /\ home[Moves[i].vol] # Moves[i].from
    /\ proc' = [proc EXCEPT ![i] = "bad"]
    /\ UNCHANGED <<ambient, schedule, locks, nprocs, trans_fd, flags, pc, record>>

(* bal_sigint between two system calls, and inside select.                 *)
Sigint ==
    /\ pc \notin Exited
    /\ aborted < MaxSigint
    /\ aborted' = aborted + 1
    /\ \/ UNCHANGED flags
       \/ pc = "wait" /\ SelectFailed(aborted + 1)
    /\ UNCHANGED <<conf, schedule, locks, children, late, pc, record>>

TimeIsUp ==
    /\ conf.timed /\ ~late
    /\ pc \notin Exited
    /\ late' = TRUE
    /\ UNCHANGED <<conf, schedule, locks, children, flags, aborted, pc, record>>

-----------------------------------------------------------------------------
ChildEnds(i) == ChildSucceeds(i) \/ ChildFails(i)

Walk == StartPass \/ EndPass \/ Snip \/ Skip \/ EchoStep \/ Dispatch
            \/ Quit \/ \E i \in Trans : Reap(i)

Mishap == PipeFails \/ ForkFails \/ FcntlFails \/ SelectBombs

Next == Walk \/ Mishap \/ Sigint \/ TimeIsUp \/ \E i \in Trans : ChildEnds(i)

Spec == Init /\ [][Next]_vars

(* The balancer runs until it exits, and every vos command ends.           *)
FairSpec == /\ Spec
            /\ WF_vars(Walk)
            /\ WF_vars(\E i \in Trans : ChildEnds(i))

-----------------------------------------------------------------------------
(* Types of the state.                                                     *)
TypeOK ==
    /\ conf \in Invocations
    /\ list \in Seq(Trans)
    /\ tpp \in 1..(Len(list) + 1)
    /\ state \in [Trans -> 0..2]
    /\ srvLocked \in [Server -> BOOLEAN]
    /\ partLocked \in [Partition -> Nat]
    /\ lockid \in Nat
    /\ nprocs \in Nat
    /\ proc \in [Trans -> {"none", "run", "ok", "bad"}]
    /\ trans_fd \subseteq Trans
    /\ shutdown \in Nat /\ abend \in BOOLEAN /\ aborted \in Nat
    /\ late \in BOOLEAN
    /\ pc \in {"top", "scan", "wait"} \cup Exited
    /\ home \in [Moved -> Partition]
    /\ carried \subseteq (Trans \X {0, 1})
    /\ reported \subseteq Trans

(* balance.doc:409: "Only one transaction per fileserver will ever be      *)
(* running at any given time."  No two children, watched or not, work on   *)
(* one fileserver, also when a child was started without its locks.        *)
ServersExclusive ==
    \A i, j \in Live : i # j => Needs(i) \cap Needs(j) = {}

(* A fileserver is locked exactly while a watched child needs it: no lock  *)
(* is lost, leaked past its transaction, or freed by another one.          *)
LocksMatchChildren ==
    \A s \in Server : srvLocked[s] <=> \E i \in trans_fd : s \in Needs(i)

(* Every slot given out by nprocs-- is a child not yet reaped, on every    *)
(* error path: the allowance neither shrinks nor grows over the run.       *)
SlotsConserved == nprocs + Cardinality(Live) = conf.nprocs

(* The transaction trans_ht holds for a child is still on the list, so it  *)
(* has not been freed when the child is reaped.                            *)
NoDanglingTransaction == Live \subseteq ToSet(list)

(* "free lock failed" is out of reach but for a child that was started     *)
(* after its servers' locks could not be taken (a failed fcntl).           *)
LocksHeldWhenFreed == pc = "panic" => Live \ trans_fd # {}

(* The locks of state_lock are right: exact, and freed only when held.     *)
LocksRight == LocksMatchChildren /\ LocksHeldWhenFreed

(* A run that ends leaves no vos command running: an interrupt, an error or *)
(* the time limit only stops new ones.  The exception is the panic of a    *)
(* lock that is freed and not held, which exits without waiting for        *)
(* anybody, and takes a failed fcntl before it.                            *)
ChildrenReaped ==
    pc \in Exited /\ Live # {} => pc = "panic" /\ "fcntl" \in conf.faults

(* Slots, list and wait loop all agree with the children there are, over   *)
(* every failure of pipe, fork, fcntl and select.                          *)
ChildrenAccounted == SlotsConserved /\ NoDanglingTransaction /\ ChildrenReaped

Complete(i) == /\ <<i, 0>> \in carried
               /\ Moves[i].bkexist => <<i, 1>> \in carried

(* An exit status of 0 means that every move, and the backup of every      *)
(* volume that had one, was carried out (balance.doc:401, :410).           *)
ExitZeroComplete == pc = "exit0" /\ ~conf.echo => \A i \in Trans : Complete(i)

(* At the end of the run each transaction was carried out or is named in a *)
(* FAIL or an UNDONE message: none is silently lost (balance.doc:402-405). *)
EveryMoveAccountedFor ==
    pc \in {"exit0", "exit1"} /\ ~conf.echo
        => \A i \in Trans : Complete(i) \/ i \in reported

(* In echo mode (-e, which "implies no time restriction", balance.doc:389) *)
(* a run that may start anything (not -p 0) and is not interrupted prints  *)
(* every transaction to its end and exits with status 0.                   *)
EchoPrintsAll ==
    conf.echo /\ pc \in Exited
        => pc = "exit0" /\ (aborted = 0 /\ conf.nprocs > 0 => list = <<>>)

(* Nothing kept the run from doing its work.                               *)
Undisturbed == conf.faults = {} /\ conf.nprocs > 0 /\ ~conf.echo /\ ~late /\ aborted = 0

(* When no volume has a backup, every release of a fileserver voids all    *)
(* reservations, so an undisturbed run carries out every transaction.      *)
(* With -v 2 a volume may be moved twice, and then not: the second move is *)
(* started before the first if only the first has to wait, and fails.      *)
PlainMoves == /\ \A i \in Trans : ~Moves[i].bkexist
              /\ \A i, j \in Trans : Moves[i].vol = Moves[j].vol => i = j
PlainMovesExhaustivelyTried ==
    Undisturbed /\ PlainMoves /\ pc \in Exited => \A i \in Trans : Complete(i)

(* What the run says at its end is true: by its exit status, by the        *)
(* transactions its messages name, and by what echo mode prints; and with  *)
(* nothing in its way, and plain moves to make, it did everything.         *)
OutcomeTold == /\ ExitZeroComplete /\ EveryMoveAccountedFor /\ EchoPrintsAll
               /\ PlainMovesExhaustivelyTried

Starts(i) == proc[i] = "none" /\ proc'[i] = "run"

(* Once a vos command failed the run only waits for what is running: no    *)
(* transaction is started any more (balance.doc:402-404).                  *)
NotAfterFailure == reported = {}

(* A volume that waits for its backup is served before any later           *)
(* transaction that wants its fileserver: the gap between the move and the *)
(* backup, in which the volume has no fresh backup, is not widened by the  *)
(* transactions behind it.                                                 *)
NotBeforeBackup(j) ==
    \A i \in Trans : i < j /\ state[i] = 1 /\ proc[i] = "none" => STo(i) \notin Needs(j)

(* With one slot the transactions are carried out one by one in the order  *)
(* balance() generated them, backups included.                             *)
InOrder(j) == conf.nprocs = 1 => \A i \in Trans : i < j => Complete(i)

(* What may start when: the backups before later moves in every run, and   *)
(* the rest of the order as long as select does not fail on its own, which *)
(* takes a shutdown back (see ShutdownIsFinal).                            *)
StartOrder ==
    [][\A j \in Trans : Starts(j) =>
          /\ NotBeforeBackup(j)
          /\ "select" \notin conf.faults => NotAfterFailure /\ InOrder(j)]_vars

(* The run ends, whatever fails and whoever interrupts it.                 *)
Terminates == <>(pc \in Exited)

(* The refinement mapping: a transaction is under way from the fork of its *)
(* child until the child is reaped.                                        *)
Ends == [i \in Trans |-> [src |-> SFrom(i), dst |-> STo(i), bk |-> Moves[i].bkexist]]
Phase == [i \in Trans |->
             IF state[i] = 0 \/ conf.echo THEN IF proc[i] = "none" THEN "waiting" ELSE "moving"
             ELSE IF state[i] = 1 THEN IF proc[i] = "none" THEN "moved" ELSE "refreshing"
             ELSE "ended"]

Mover == INSTANCE VolumeMover WITH slots <- conf.nprocs, ends <- Ends, phase <- Phase

(* The dispatcher carries the list out as VolumeMover promises: its locks, *)
(* reservations, flags and polling are an implementation of "start when    *)
(* the fileservers are free".                                              *)
ImplementsVolumeMover == Mover!Spec

-----------------------------------------------------------------------------
(* Claims of the comments and of balance.doc that the code does not keep.  *)

(* balance.doc:552-566, state.c:228-232: a transaction that fills a        *)
(* partition is not dispatched before an earlier one that empties it.      *)
SourceEmptiedFirst ==
    [][\A i, j \in Trans :
          (Starts(j) /\ i < j /\ Moves[j].to = Moves[i].from /\ state[j] = 0)
              => state[i] # 0 \/ proc[i] # "none"]_vars

(* balance.doc:407-408: the balancer exhaustively tries to dispatch        *)
(* transactions: a run that nothing went wrong with leaves none undone.    *)
(* The code keeps this only when no volume has a backup: see               *)
(* PlainMovesExhaustivelyTried.                                            *)
ExhaustivelyTried ==
    Undisturbed /\ pc \in Exited => \A i \in Trans : Complete(i)

(* balance.c:741, :762: a select that fails, or a vos command that fails,  *)
(* "initiates shutdown": once begun, a shutdown is never taken back.       *)
ShutdownIsFinal == [][shutdown > 0 => shutdown' > 0]_vars
=============================================================================
