# A TLA+ verification of afstools

afstools is a collection of programs for the administration of AFS cells. Most
of them are short scripts or wrappers around the AFS libraries. This project
models the programs that have an algorithm or a protocol of their own, checks
them with TLC and proves what matters most with TLAPS. Paths below are relative
to the repository's root, `src/` in `PROJECT.json`.

## 1. The system

### 1.1 The volume balancer (`balance/`)

`balance` levels a cell: it reads which volumes are on which partition, lets
*agents* propose moves until none has a proposal left, and then carries the
list of moves out with `vos move` and `vos backup` commands.

| Part | State | Operations | Interacts with |
|---|---|---|---|
| cell discovery: `initialize_cell`, `afscall.c`, `hash.c` | lists of servers, partitions and volumes | list partitions and volumes of each server, with retries | AFS RPCs; fills what the agents read |
| negotiation: `balance`, `domove`, `agent*.c` | free space, counts and quotas of partitions; the agents' sorted lists and `nextvol` pointers; the move list | `servconf`, `getrequest`, `queryrequest`, `setrequest`, `discardv` of each agent | agents never call each other: `balance()` calls them in turn and shows each move to all |
| dispatcher: `do_transactions`, `state.c` | the transaction list, `state` of each transaction, `locked` of servers and partitions, `lockid`, `nprocs`, `trans_ht`, `trans_fd`, `shutdown`, `abend`, `aborted` | scan, lock, fork, poll, reap, quit; `bal_sigint`, `overtime` | child processes, signals, the clock |
| configuration: `config-yacc.y`, `match.c` | options and globs | parse, match | parameters of the others |

Hard here: children end in any order while the scan goes on; `pipe`, `fork`,
`fcntl`, `select` and the commands themselves fail; `^C` arrives anywhere; a
transaction is freed while a hash table still points at it; locks are renamed
by a counter (`lockid`); the agents' private lists must follow a truth that
other agents change. Correct means: one command per fileserver, no lost slot,
lock, child or transaction, the list carried out in an order that never makes
the cell worse; books that agree, limits and precision kept, and an end.

`balance2.c` is a variant of `balance.c` that logs its transactions;
it is not modelled.

### 1.2 Sentinel (`sentinel/`)

An X program shows which fileservers are in trouble. Its child process,
`sentinel-prober`, probes all servers every few seconds and writes the results
to a pipe. `process_data` reads one set of results at a time and updates per
server and disk *warnings*, the counters `warn_count` and `new_trouble`, a
table of labels with two texts each, and three windows. Buttons change the
window and the format of the labels. Hard here: `warn_count` is adjusted at
eight places and must never drift; labels are rewritten only on a change;
two flags share one highlight; two windows show one table in formats of their
own. Correct means that flags, count, highlights, texts and the supervisor's
label always tell the same story.

### 1.3 Package (`package/`)

`package` runs at the boot of a workstation and makes its local disk match a
configuration file whose masters lie in AFS. It loads the file into a tree of
nodes (`loadentry.c`, `node.c`), compares the tree with the masters and expands
directories that have one (`check.c`), then walks the tree and changes the disk
(`update.c` with `cp.c`, `rm.c`, `ln.c`, `mv.c`). Its state are the tree with the
flags of each node, the disk, and the exit status that asks for a reboot. Hard
here: the machine may stop between any two system calls, calls fail, a text in
use cannot be replaced, a new master is released between two runs, and lines
clash. Correct means that no file is ever found torn, that one run in which
nothing failed leaves the disk as the configuration has it whatever was there
before, that nothing else is touched, and that it comes to rest.

### 1.4 PC-NFS server (`pcnfsd/`)

One process answers RPCs of PCs over UDP. `pr_start2` prints a file that the PC
wrote over NFS: it renames the file, forks a command, reads its output under a
watchdog and removes the file. It also logs users in and knows the printers.
State: the spool directory, the cached uid of `su_popen`, the list of printers,
the alias table and the cache of logins. Hard here: calls are lost, late and
repeated and nothing remembers those answered; the PC changes the directory
between two calls of the server; the command hangs, or outlives the shell or
the server that started it; the server dies; printcap and the passwd file change
behind its back.

### 1.5 ucsdb (`ucsdb/`)

`ucsdb` merges the central CellServDB with a private extension, compares the
result with the file of the client, writes it over that file and runs `fs` and
`vos` commands for the differences. Hard here: the file that was just
overwritten is the only record of what is still to be done.

### 1.6 Other parts

| Part | What it does | What makes it hard |
|---|---|---|
| `afs-krb5/src/ka-forwarder.c` | relays kaserver packets over UDP to a list of servers | lost, late and duplicated packets; short replies |
| `afs-krb5/src/fakeka.c` | answers kaserver requests from a Kerberos 5 data base | retransmissions |
| `afs-krb5/src/aklog*.c`, `linked_list.c` | tokens for all cells along a path | list walks |
| `reauth/` | keeps a token alive around a command | sleep, `SIGCHLD`, retry |
| `backup_afs/`, `backup-automate*`, `auto-backup*` | scripts that drive the backup coordinator | order of steps, restarts |
| `venusmon/`, `crosslog/`, `cklog/`, `volid/`, `dump_afscache/`, `CacheDebugging/` and scripts | sequences of library calls, printing | nothing stateful |
| `afs-krb5/xdm`, `afs-krb5/xlockmore`, `xdm/`, `xlock/` | third-party sources and patches, more than half of the repository's lines | not this repository's code |

## 2. Plan

Done, in this order, each with its instance and its run:

1. **`Dispatcher`, `VolumeMover`, `DispatcherProofs`**: the part that moves
   users' data, with real concurrency.
2. **`Negotiate`**, **`NegotiateProofs`**: produces the list the dispatcher carries
   out. `MovesReplay` is what `Dispatcher` assumes of its input in return.
3. **`Sentinel`, `SentinelProofs`**.
4. **`Package`**, **`PackageProofs`**: all three passes, every system call of the
   update a step.
5. **`Spool`**, **`SpoolProofs`**, **`Caches`**, **`CachesProofs`**: pcnfsd, its
   concurrency and what it remembers; they share no state but the passwd file.
6. **`CellServDB`**, **`CellServDBProofs`**: the merge, the plan and the commands;
   **`Listings`**, **`ListingsProofs`**: lemmas about sequences.

Left: `KaForwarder` and `Reauth`, small reactive programs; `initialize_cell` and
its retries.

Runs keep to instances TLC finishes in about two minutes. No module declares a
RECURSIVE operator.

## 3. The dispatcher

### 3.1 `Dispatcher.tla`

Each action is one turn of a loop of `do_transactions` (`balance/balance.c`).
`Init` is the state in which it is called; the command line, the transaction
list and the faults that may happen are the record `conf`.

| Action | Code |
|---|---|
| `StartPass` | top of the outer loop: the time limit, `tpp = &move_head` |
| `Snip` | `state_terminal`: unlink and free |
| `Skip` | `SLOCK_AVAIL` refused; the source partition may be reserved (`state.c`) |
| `EchoStep` | `-e`: print and go on to the next state |
| `Dispatch`, `PipeFails`, `ForkFails`, `FcntlFails` | `pipe`, `fork`, `hashtable_add`, `nprocs--`, `fcntl`, `FD_SET`, `SLOCK_LOCK`, in that order, cut short at each failure |
| `SelectBombs` | `select` fails: `shutdown = aborted` |
| `Reap` | `waitpid` returned a child: `nprocs++`, `SLOCK_FREE`, `state_transition` |
| `Quit` | no child is left: the UNDONE report, the exit status |
| `Sigint`, `TimeIsUp` | `bal_sigint`, `overtime` |
| `ChildSucceeds`, `ChildFails` | external: the `vos` command |

`home`, `carried` and `reported` are history: where each volume is, which
commands succeeded, and which transactions a message named.

`VolumeMover.tla` is what the dispatcher promises: at most `slots` transactions
are under way, no two on one fileserver, a move is followed by the backup of a
volume that had one, and the run is given up only with nothing under way.
`ImplementsVolumeMover` maps a transaction's `state` and its child to a phase.

### 3.2 Runs

* `dispatcher` — lists of three moves among four partitions on three servers, and
  lists with a move apart on servers of its own; with and without backups; one to
  three slots; every system call and command may fail; one `^C`, one time limit;
  echo mode. Three transactions are what it takes to overtake, to reserve, and to
  hold a server others wait for; one `^C` is the difference between `shutdown` and
  `aborted`, a second one changes nothing a first did not. All invariants and
  properties hold. `Terminates` assumes that the balancer runs until it exits (it is
  a process that never blocks but in `select` with a timeout) and that each `vos`
  command ends.
* `dispatcherBystander` — the note on version 1.1a in `balance.doc` says that
  with `a -> z, b -> z, c -> b` the move into `b` must wait for the move out of
  it. It does for that list; with an unrelated move before the last one it
  overtakes, since dispatching any move renews `lockid` and voids reservations.
* `dispatcherExchange` — freeing the lock of a *backup* does not renew
  `lockid`; two moves that reserved each other's destinations stay blocked with
  no child running and the run exits 1 with both UNDONE. Without backups this
  cannot happen (`PlainMovesExhaustivelyTried`, a part of `OutcomeTold`), as
  long as no volume is moved twice: with `-v 2` the second move of a volume can
  be the one that does not have to wait, and fails.

`LocksRight` and `ChildrenAccounted` combine what the code keeps in step: lock flags
with watched children, held locks with freed ones; slots, list and exit with running
children. One way out leaves commands running, and `ChildrenReaped` names it: after a
failed `fcntl` the child's servers were never locked, the reap panics over the lock
that is not held, and `fail(FAIL_EXIT)` exits without waiting for the other children.
`OutcomeTold` is what the end of a run says: exit status, messages, the output of echo
mode (with `-p 0` nothing, not even that, is printed). `StartOrder` is what may start
when.

The polling loop's test for `waitpid` is modelled as: a child that ended is
reaped at some time; the output lines of the commands are left out.

### 3.3 Proofs

`DispatcherProofs.tla` proves, for all cells, transaction lists, numbers of
slots, faults and interrupts: `TypeOK`, `ServersExclusive`,
`LocksMatchChildren`, `LocksHeldWhenFreed`, `ChildrenReaped`, `SlotsConserved`,
`NoDanglingTransaction`, and that `Spec` implements `VolumeMover`.

`ServersExclusive` is not inductive: a dispatch tests lock flags, not children,
so `LocksMatchChildren` must hold as well; this speaks of *watched* children
only, and a child left unwatched by a failed `fcntl` is harmless because nothing
is dispatched after it (`Orphans`: there is an orphan only after `shutdown` was
set for good). The inductive invariant `Inv` is the conjunction of `TypeOK`,
`LocksMatchChildren`, `ServersExclusive`, `Watched` (who is watched runs),
`Orphans`, `ForkedUnfinished` (a child's transaction is not terminal),
`EchoForksNothing`, `LocksHeldWhenFreed` and `ReturnsAlone` (a return of
`do_transactions` leaves no child). `ChildrenReaped` follows: the panic takes an
unwatched child, and that a failed `fcntl`. On top of it,
`Tenure` relates children to slots and to the list, and `Listed` says that every
transaction that is not terminal is on the list; both are needed for the
refinement, the latter because giving up must end every transaction.

The two properties about the whole history of a run rest on these (together
`Base`) and on an invariant for each thing they say:

* `OutcomeTold`. `Told`: behind the state of a transaction stands a command that
  was carried out or a message that named it. `Ended`: a named transaction leaves
  its trace in `abend` until the exit status is chosen, and `Finished`, after the
  exit every transaction is terminal. `EchoRun`: echo mode locks nothing, so the
  scan never leaves the head of the list. `SmoothRun`, for a run nothing disturbs:
  a reservation is as old as `lockid` only while a child runs, so a pass that
  finds no child skips nothing, and what is not carried out is still at home.
* `StartOrder`. `OrderInv`: the list keeps its order; a transaction that a pass
  went by with its backup still to make (`Passed`) waits for a locked fileserver,
  and nothing between two turns of the scan unlocks one; with one slot
  (`OneByOne`) no reservation is ever in force and the scan never gets past the
  head.

The only assumption on the environment is in `DispatcherAssumption`: a run does
not meet both a failing `fcntl` and a failing `select`. With both, `select` may
take back the shutdown that keeps an orphan harmless (the finding of
section 10 on `select`), and the exclusion is lost.

## 4. The negotiation

### 4.1 `Negotiate.tla`

One action is one call of an agent by `balance()` with what follows from it.
The agents `bysize`, `bynumber` and `byoverdraft` are one program with different
measures, so they are one agent with the measure as parameter (`Gain`, what
`domove` adds to the true load; `Weight`, what the agent reckons; `Margin`,
`InsertP`, `InsertV`). Where they differ, the definition says so:
`StaysAboveLower` and `Exhausted` exempt `bynumber`, and `Change` adds what
`byoverdraft_setrequest` does: it adjusts `partition.maxquota`, the counter it
watches, although `domove` did so just before. Every accepted move, its own or
another agent's, so changes that counter twice, and since it is an `unsigned long`
(`Word`) it may be taken below zero and become huge (`Counter`).

`byweekuse`, which the makefile builds in, is the same loop over two levels: the
servers from the most used to the least used, and the partitions of each the other
way. Its chain is the one of the servers after another (`Joined`), its servers are
kept beside it, and `setrequest` sorts both in again (`Resorted`). A destination
is looked for from the least used server on (`PolledDest`), which is also where a
redirected request goes on; a request that is given up begins the search again
with the server of its volume (`Start`). That `findest` does not set its partition
pointer back for the next server is modelled as it is (section 10).

| Action | Code |
|---|---|
| `Init` | `servconf`: averages, sorted chains, volume lists |
| `Redirect` | `getrequest` with a request open: the next destination |
| `Propose` | `getrequest`: search of partitions and volumes from `nextvol` on |
| `GiveUp` | `getrequest` returns NULL: next agent, next round, or the end |
| `Refuse` | inbound globs, or the veto of another agent's `queryrequest` |
| `Reject` | the volume is locked or was moved often enough: `discardv` of all |
| `Accept` | `domove`, `setrequest` of all, limits |
| `Panic` | a request whose source is its destination |

`crash` in `Reject` is the outcome of a use after free: the proposing agent's
`discardv` frees the request the agents after it are handed. Loads are compared
as exact fractions, where the code compares doubles: a difference in the last
bit of a double is not modelled. The average and the bounds are integers scaled
by `100 * space^2`. `maxquota` is the only integer that wraps; its width is a
parameter.

### 4.2 Runs

* `negotiate` — five volumes of four sizes on three partitions of two capacities,
  two of them on one server, placed in every way with the largest one fixed; each
  agent alone and each pair; three precisions; one or two moves per volume; and the
  same with a volume that may be locked and a partition that refuses volumes. Two
  agents suffice for a veto, for a stale book and for a move another agent did not
  want; three partitions for a redirected request; five volumes exercise the skip
  over volumes, the reset of `nextvol` and six moves, the bound of `-t`. Some cells
  have nothing on their partitions but the five volumes, so that the second change of
  `maxquota` takes it below zero. `Word` is 1024: far above any load of these cells,
  and small enough for the products TLC computes.
  `Terminates` assumes that `balance()`, a loop without input, runs on. Its fairness
  is weak fairness of `Next` with `ENABLED` spelled out, since each step is possible
  until the end.
* `negotiatePanic` — with `-v 2` an agent's `nextvol` still points at a volume
  that another agent moved. The pointer leads into the list of the destination,
  and the agent proposes a move of the volume to where it is, which ends the run
  (balance.c: "panic out if an agent tells us to do nothing to a volume"). With
  `-v 1`, the default, this cannot happen (`LimitsKept`).

`BooksRight` says of `byoverdraft`'s counter what it is: the recount, off by the
quotas of the volumes that came and went (`Drift`), modulo the word. That it is
the recount, as the comment in `agent_byoverdraft.c:435` has it, is
`PartitionInfoCorrect`, and refuted (section 10). For the same reason, and because it
reckons with a volume's quota where `domove` adds its size, `WithinPrecision` leaves
out `byoverdraft`. For the other three agents the guarantee
of `balance.doc` holds, whichever agent proposed the move. The property asks for
`Margin(a) >= 0`: `-uquota` lets quotas stand for sizes, more can then be in use
than there is, and the window `avg * (1 - avg) * precision` is inside out; the
cells with partitions of seven units are there for that.

### 4.3 Proofs

`NegotiateProofs` proves all six safety properties of the run for every cell: any
servers, partitions and volumes, any choice and order of agents, any precision, `-v`
and `-t`. The only assumptions are those on the constants (`NegotiateAssumption`):
the lists of agents, servers, partitions and volumes name each of theirs once, every
server has a partition, and NULL is nothing else. So that it can be reasoned about,
the module sorts without recursion: `Opening` states what inserting the partitions
and volumes one by one comes to (`Inserted`), and what goes by the rest of a list is
a subsequence.

The argument has four layers, each an inductive invariant on top of the one before:

* `Books /\ Asking` — types, counters as reckoned from where the volumes are
  (`Reckoned`; for `byoverdraft` with arithmetic modulo `Word`), all agents' lists of
  volumes alike and injective, all chains sorted permutations, and an open request
  names the present home of its volume and a destination that fits for the agent
  whose turn it is. `BooksRight` alone is not inductive: without
  `Asking` a move could be announced with a source the volume is not on, and
  `SetRequest` would take it out of the wrong list. The lemmas below it are about lists
  (an element less, an element more, what stays in order), sums over volumes when one
  moves, fractions compared by cross products, and the two-level chain of
  `byweekuse`. `TypeCorrect`, `BooksCorrect` and, with the history of moves
  added, `ReplayCorrect` follow.
* `Counted`, `MovedOnce` (`LimitsCorrect`) — the pointers of the agents. `nextvol`
  may be astray, that is, lead into the list of another partition (4.2). With
  `-v 1` it can only lead to a volume that was moved, and those are in no list any
  more, so what follows it is nothing; hence no null transaction.
* `Solo` (`PrecisionKept`) — an agent alone has no pointer astray, and its request
  comes off an overloaded partition and leaves it above the lower bound, since no load
  changes between its proposal and the move. For several agents
  `Asking` and `Consent` give the bound: the move bound of the proposer lies below
  its upper bound.
* `Searching` (`SearchCorrect`) — three claims about an agent's way through its
  lists: the volumes before `nextvol` have no place to go, or are on request
  (`Tried`); the partitions in front of the source have none that has (`Before`);
  the destinations passed are denied (`Denied`). The step that needs thought is the
  move: it makes the source emptier and so might give room to volumes passed before.
  It does so only if the source falls below the move bound, which is when the code
  sets the pointers back (`Reopens`); otherwise every load is at least what it was
  where a volume could go, and at most what it was where one could come from
  (`HopelessLess`).

Each of these invariants was checked by TLC on the run's instance before it was proved.
`Terminates` stays with TLC, being liveness. `ServersPolled` and
`OverdraftWithinPrecision` and `PartitionInfoCorrect` are refuted (section 10).

## 5. Sentinel

### 5.1 `Sentinel.tla`

A callback of the X toolkit runs to its end before the next event, so buttons
are pressed only between rounds (`pc = "idle"`). A round is modelled one call at
a time: `ReadPipe`, then per server `ServerStillDown`, `ServerGoesDown`,
`ServerResponds` or `BadPartition` (`process_server` with `initialize_disks`),
per disk `SkipDisk` or `CheckDisk` (`check_disk`), and `UpdateSupervisor`.
`ChangeLabel` and `FlipLabel` are the functions of `window.c`; a label is a
record of its mode, its text in each format and what each window shows of it.
`SwitchWindow`, `SwitchNitpick`, `SwitchTrouble` and `Quit` are the buttons, and
`ProberDies` is the end of the pipe.

A `read` of the pipe that fails is not modelled: sentinel installs no signal
handler, so no blocking `read` is interrupted. `HighlightExact`, a part of
`DisplayExact`, says of each label what the code highlights it for; that a
server's name should also tell of its disks is `NamesTell` (section 10).

Sizes are in units of 2^20 blocks, and the percentage is computed with the
32-bit wrap of the code (`Int32`).

### 5.2 Runs

* `sentinel` — two servers of two disks, one with a disk section, and any
  sequence of five answers: down; fine; both disks full and low; one low and the
  other gone; one whose percentage wraps and one only full. Two servers are
  needed for the count to mix servers and disks and for the supervisor to stay
  alarmed when one recovers; two disks for a disk that disappears. State is
  finite without a bound: time stamps are taken from the answers.
  `AllClearAtLast` assumes that an entered callback runs to its end and that a
  living prober answers after each delay; a prober that dies ends the program,
  and the property says so.
* `sentinelLimits` — `initialize_disks` copies the first bytes of a disk
  section, its `warning`, where its thresholds should go: the thresholds of a
  `disk` section never apply.

`FlagsTell` is stated for disks whose size times 100 fits an int (about 20 GB);
above, the percentage is wrong, as the hazards say. That the skip of a disk that
is no longer reported keeps its warning is modelled and not judged.

### 5.3 Proofs

`SentinelProofs.tla` proves, for every number of servers and disks, every
configuration and every sequence of answers and buttons, all of the module's
safety properties: `TypeOK`, `WarnCountExact`, `DisplayExact` with its parts
`HighlightExact`, `DisplayFaithful`, `LabelsCurrent` and `SupervisorTells`,
`FlagsTell` and `TroubleComesUp`. It assumes that there is a server and a disk
slot, and that setups and answers have their types.

The inductive invariant `IInv` adds three facts that the code relies on
silently. `Settled`: no flag is on of a server that is down or that has not been
heard of; so the highlights may be cleared when it returns, and the bytes that
`initialize_disks` copies over `warning` overwrite a zero. `Told`: the
supervisor's label is what `old_count` says, and between rounds that is the
count. `Plain`: the labels that are not a disk's have the same text in both
formats, so the format buttons may leave them alone. The count is handled by
lemmas about the set of flags that are on: one more, one less (`FlagOn`,
`FlagOff`), or all of a server (`ServerFlagsOff`).

`FlagsTell` needs an invariant of its own, `Progress`: the servers before the one
the round is at, and the disks before the one it is at, have their flags right.
That the rounded percentage reaches a limit exactly when the product does is
`QuotientReaches`; without the bound on the size it is false, since `Int32` wraps.
`TroubleComesUp` is a fact about single steps: `JudgeCounts` says that a threshold
adds to `new_trouble` exactly when its flag comes on.

## 6. Package

### 6.1 `Package.tla`

`pc` is the place in the program, `cur` the node whose update is under way; one
action is one system call with the code up to the next one, so that `Crash` can
come between any two.

| Action | Code |
|---|---|
| `LoadEntry`, `Loaded` | `loadentry` with `lookuppath`: one line, its clashes; the end of the file |
| `CheckNode`, `AllChecked` | `check` of one node: `checkdir` with the expansion of a master directory, `checkfile`, `checklink`, and the conflicts of the letter W |
| `VisitNode`, `RemoveNext` | `traverse2`, `update2`, `dochtyp`; `rm`, one name after the other |
| `CheckDevice`, `MakeDevice`, `CheckLink`, `MakeLink` | `updatespec`, `updatelink` |
| `MakeDirectory`, `CleanDirectory` | `updatedir`, `fixdir` |
| `CheckFile` | `updatereg`: the comparison by size and time, or by hash |
| `OpenNew`, `CopyData`, `CopyFails` | `cp` to `.new` |
| `RemoveOld`, `LinkOld` | the letter O: `rm` of `.old`, `ln` |
| `ReplaceFile`, `MoveBusyAway`, `CannotReplace` | `mv` with its way around a text in use |
| `SetTime`, `SetMode`, `SetOwner`, `Finish` | `dochtim`, `dochmod`, `dochown`; the exit status |
| `Crash`, `Rerun`, `Release` | external: package is killed, or the power fails; the next boot; a new version of a master |

A type is the set of its bits in `S_IFMT`, because the code ORs types together:
`lookuppath` makes a file that has an entry below it a socket, below which the
update never walks; `NeverTorn`, `Converged` and `Settles` speak of the nodes it
walks to (`Walked`), and the files below such a socket are removed with it. The
conditions
`np->flag & flag_update == 0` are modelled as C groups them. The data of a file
is a version number, 0 for a file half written; `Size` lets two versions have
one size. A master that is a link to a directory is not followed when its
entries are listed (`Entries`); no master of the instance is one.

`cp` never calls `fsync`; the only flush is the `sync` of `main.c:120`, which
`Finish` stands for. `Crash` therefore takes the data of any of the files copied
in the run (`Unflushed`), or of none when package is only killed; names, modes and
time stamps stay as the last call left them, and the size shows a loss. A file
system that keeps the size and loses the data would leave a file with the size and
the time stamp of its master, which `updatereg` takes for current and no later run
repairs: that is not modelled. A file with the letter I that lost its data stays
so as well, and is exempt in `FileMatches` as any such file is that was there.

Two more simplifications. A program whose text was moved to `.busy` is taken to
have ended before `.busy` is touched again; `mv.c:27` and `rm.c` would otherwise
move it on, to `.busy.busy`. And a master is released between two runs: one that
is released between the `stat` of `check` and the `open` of `cp` is copied under
the time stamp of the version before, by which the next run sees that it is out of
date; that run itself is then neither `Converged` nor counted as failed.

### 6.2 Runs

* `package` — twenty configuration files (wildcards with each letter, single
  entries, files that clash in every pair of types and order the code distinguishes,
  a file with W above a line that came first, a directory that wipes a winning line
  below it) on four disks (bare; a file where
  a directory should be; a directory with a newer file, the `.new` an earlier run
  left, a stranger and a link; a directory where a file should be, another such
  `.new` and a wrong device), three command lines. One release and one mishap, a
  crash or a failed copy, at any call of any run: a second mishap would meet what
  the first left, which `Converged` already says does not matter, and one release
  makes a file out of date. `Settles` assumes that a run that is not stopped goes on
  and that package is run at each boot, as `package.8` has it.
* `packageInhibit` — `np->flag & flag_update == 0` is always 0: files without
  write bits are updated without the option y.

`NeverTorn` is about the calls of a run: wherever package is killed, a file that
was being replaced is whole. After a power failure it need not be: `AllWhole` is
refuted in the state after `Crash` (renamed, and its data lost). What is promised
then is `Converged`: the next run in which no call fails finds and replaces it.

`NeverTorn` lets a text in use be found under `.busy` for a moment: `mv` renames
it away before it moves the new file in, and a kill in between leaves no file
under its name until the next run. `RebootTold` is also an assumption of the boot
script, which reboots on exit status 4.

### 6.3 Proofs

`PackageProofs.tla` proves the five invariants and `OnlyItsOwn` for all
configuration files, masters, disks and texts in use and any number of releases and
mishaps. `PackageAssumption` asks that lines are what `loadentry` can have read,
that the root is only ever a directory or left alone, that the names ending in
`.new`, `.old` and `.busy` are not those of a line or a master and belong to files
on the disk, and that what an entry of a disk is in is a directory.

A run is a long way between two states of the disk, and none of the six is
inductive. `Inv` says what holds on the way: which pass keeps which variable
(`Phases`), which types come to which call (`Stages`), and

* `Present` — between the removal of what is in the way and the call that makes
  the node, its path holds nothing, or a directory that `rm` could not empty;
* `NewWhole` — from the end of `cp` to the rename the data under `.new` is the
  master's, so that `mv` may put it in the place of a whole file;
* `Victims` — what `rm` has still to remove is in the way of a node whose type
  was another when the run began, or unnamed in a directory to be cleaned; the
  list is made once and used through many calls;
* `Origin` — what is under a plain name was there before with its type, or has
  the type the tree wants: it carries `InTheWay`, which speaks of the disk as it
  was, to what `lstat` sees now;
* `FilesWhole` — `NeverTorn` with what it needs: a text in use has not changed,
  and it is aside only between two calls of `mv`.

Each action has a lemma (`VisitGood`, `RemoveGood`, ...) that it keeps `Inv`,
changes nothing under the option n and nothing that is not `Owned`; the last
gives `OnlyItsOwn`. The paths rest on lemmas about prefixes (`AboveIff`,
`AboveOrder`, `ExtFacts`), the tree on what `lookuppath`, a line and the
expansion of a directory do to it (`LookedUpTree`, `EntryTree`, `ScannedTree`,
`CheckedTree`).

`WinnerDecides` has an invariant of its own, `Winners`: before the line with
the letter W is read its node is untyped or has a loser's type, afterwards it has
its own and the letter, which no later line takes away. It is about lines that are
alone with the letter for their path and are not wiped by a later winning line for
a directory above (`WinsAlone`). A line for something below the path that came
first has made the path an untyped directory, with which there is no conflict to
win: the bits of `S_IFDIR` stay (`OnTheWay`), and nothing else is added.

`RebootTold` and `Converged` speak of the end of a run and need to know which
nodes the walks have come to. `Walk` says it: no two nodes on `work` are on one
path (`Apart`), the list and what is under it is what is left (`InWork`), and
what `check` has left behind is completed from its master (`Complete`). Then

* `Told` carries the exit status: between the comparison and the rename there is
  a reason to replace the file (`Cause`), after it what is in its place
  (`Placed`), and no step takes the 4 back (`ToldAt`, `Telling`);
* `Pending`, `Visits` and `Current` split the tree of a run in which no call
  failed: a node on the list is as the run found it, with its `.old` (`Fresh`,
  `OldFresh`); one that was visited is as it should be (`Finished`); the node
  under way is as far as its function is (`Midway`, a line for each call). That a
  step touches nothing but the node under way and the names beside it is
  `Footprint`; each function has a lemma `OnRemove`, `OnDevice`, `OnLink`,
  `OnDirectory`, `OnAttribute`, `OnFile`, `OnCopy`, `OnReplace` that it takes the
  node from one place to the next.

Two theorems say what a second run does. `LeftAlone`: if every node the walk
comes to is `InLine` with the disk the run found, the run changes nothing, at any
call and wherever it stops, and exits with 0; `Looking` says which calls are left
on its way. `LeftInLine`: a run in which no call failed leaves each node in line,
but for the three that `Restless` names (a directory to be cleaned in which all
that is not listed is copies under `.old`, a hash the master does not have, a device
that nobody may write). They
are defined beside their proofs and have no run of their own; `Settles` is what a
run checks of the same matter, over several runs and releases. The two do not
make one theorem: that the second run builds the same tree from the same files is
not proved, since `traverse1` may visit the children of a node in another order.

Several properties said too much and the proofs, or the search for an inductive
invariant, showed it; TLC found nothing because the instance lacked the case, which it
now has. `WinnerDecides` left out that a later line with W for a directory wipes all
that was said below it (`loadentry.c:161`), and said nothing when a line below the
path came first. `Owned` did not grant a text in use the name `.busy` when it is in
the way of a node of another type. `Converged` forbade a `.new` beside a file that
needs no update: what an earlier run left is never looked at (`update.c:269`); nor
does it matter beside a path that holds no file at all, because the line names no
master. `NeverTorn` took the master of a node for granted that a line gave none.

## 7. Spool

### 7.1 `Spool.tla`

The PC (`Create`, `Write`, `Ask`, `Hear`, `GiveUp`) is modelled from what the
protocol asks of it. The network keeps sent calls until they are received, in
any order; a call that is never received is lost, a reply may be heard at any
time. The server does one call at a time, a system call a step: `Receive`,
`StatFile`, `KillNull`, `Rename`, `RenameFails`, `Filter` (`run_ps630`), `Popen`,
`PopenFails` (`su_popen`), `EndOfOutput`, `Close` (`su_pclose`, `unlink`, the
answer), with `Timeout` for the watchdog, `Die` and `Restart`.

`myhandler` kills `child_pid`, which is `/bin/sh` (`misc.c:542, 653`): the command
it forked may be gone with it or live on. Nothing kills the command of a server
that died. Such a command is in `orphans` and may open its path at any later time,
or never (`OrphanActs`): it then takes what lies there, which is its own job or a
later one that was renamed to the same name, under the uid it was started with.

A name in the directory leads to a job, so that data written by the PC stays with
the file when the server renames it. `handed` is what a command was given and
`fate` how a job left the directory unprinted.

`Timeout` may end the server: `myhandler` closes the stream that `fgets` is
reading and `su_pclose` closes it again. `rand` is never seeded, so the digits
that make a name unique are the same after each restart; the run has one value
for them, and an earlier leftover under them is overwritten. Left out is a clash of
two different names by these digits: the second `f.spl` and the first of a file
`f146` are both `f146.spl`.

`run_ps630` calls `system` before the watchdog is set (`misc.c:423`), so `Filter`
has no fairness: it may never return. It runs with the server's own uid and prints
nothing, so `handed` does not count it. The empty user name is what `su_popen`
remembers of nobody (`misc.c:526, 609`): before any other user it matches with uid 0
(`NotYet`), which `val_uid` refuses unless the configuration allows it.

### 7.2 Run

`spool` has four cases: two jobs of two users under names of their own, one
filtered, with two calls each and one mishap (a death of the server or a change of
the passwd file); two jobs under one name with a job written in two steps, so that
a late call finds it half written; an empty job of an unknown user; three jobs
under one name of users who may not print and one who may, for names that are taken. The
second has a mishap too, so that commands that outlive their shell or server find
the next job under their path. Two calls
per job are a retransmission; a third adds nothing that a second does not do.
`ServesOn` assumes that the server goes on, that `alarm` goes off, that someone
restarts the server, and that a command which closed its output comes to an end:
`su_pclose` waits for it after the watchdog was stopped. The filter may hang, and
`ServesOn` names that as the one thing that can hold the server for ever.

`EachOnce` says that the server starts one command for a job at most, and that a job
whose name was not used before is taken once at most, and complete. A job whose
name was used before may be begun half written, by a late call for the earlier job,
and may be taken a second time, by a command of the earlier job that outlived its
shell or server; the runs reach both. `RunsAsUser` allows for it: such a command
runs with the uid of the user who asked for the earlier job.

### 7.3 Proofs

`SpoolProofs` proves `TypeOK`, `EachOnce`, `AnswersTrue` and `RunsAsUser` for any
number of jobs, names, users, repeated calls, deaths and changes of the passwd
file. `SpoolAssumption` is what they rest on: a call is sent at least once, sizes
are natural numbers, uids are integers, and the digits of `rand` are neither empty
nor `.spl`.

None of the properties is inductive alone. A job is printed once because a handed
job is nowhere under its plain name again; that needs to know what a name can lead
to, and when. `Inv` says so in parts, one lemma of preservation for each:

- `Orderly`: the PC begins a job when all before it were answered or given up, and
  a job that was asked for is complete.
- `Serving`: the server works for a job that was asked for.
- `Placed`: an entry leads to a job of its name, no two lead to the same; under a
  plain name lies a job that is open, the latest that was begun under it; under
  any other lies a job the server renamed, complete or of a name used before; under
  digits only a job that shares its name with another.
- `Fated`: a job that is neither in the directory nor handed left for its reason.
- `HandedOnce`: a handed job was renamed before.
- `Commanded`: from the rename to the `unlink` the file of the call is in the
  directory under a suffix, out of the PC's reach; until its command acts it is
  `Fresh` (no command was started for it, and only a reused name lets another take
  it), and it was handed when the server reads the end of its output.
- `Outlived`: a command left behind finds its own job under its path or a later one,
  there is one for a job at most, and its job was not taken by others unless the
  name was reused.
- `NullKnown`: a file found empty is empty still, if its name is its own: `stat`
  and `unlink` are two steps.
- `Privileged`: the cached uid is the one the cached user has or had, and so is that
  of every command, those left behind included.

`FateSteps` is the lemma they share: a job goes from new to open in its turn, from
open to one of four fates, and from renamed to overwritten only by another of its
name. `AtPlain` is why the server never takes a half written file of a name that
is not reused: the plain name of a job that was asked for leads to it or to a later
one.

## 8. Caches

`Caches.tla` has one action per RPC: `PrList`, `PrInit` (with `mon_printers`,
`build_pr_list`, `valid_pr`, `map_printer_name`) and `Auth` (`check_cache`,
`add_cache_entry`), and what happens around it: `EditPrintcap`, `ChangePasswd`,
`Tick`. Time stamps are in seconds, as the code compares them.

`caches` has two printers, aliases that shadow a printer, map to none or do not
fit in the table of two, three passwd files and two users in a cache of two, so
that entries move up and fall out. `hidden` names the three cases in which the
list of printers is not what printcap says: a second change within a second, a
list built before the file was there, and a list built while `lpc` failed. In all
others `PrintersKnown` holds. `LoginsRight` bounds what the cache may accept after
a change of password: the old one, until a login with another one was tried.

A PC may send any name and any password. One without a name is compared with the
first place that has none (`check_cache`): an unused place has an empty password
and uid 0, and a place whose user was forgotten keeps his password and uid. Such a
login is a step of the model, and it changes no entry (`NamelessStep`), but no
document says what its answer should be: `LoginsRight` speaks of logins with a
name.

`CachesProofs` proves all three properties for every file, table and size of cache,
from `CachesAssumption`: the users of a passwd file have names, the cache has a place,
and no printer is called `-`, the name that means any. The inductive invariant has the
reason why a time stamp is enough: the list is that of the file seen last
(`ListKnown`), and a file that is another has a later stamp, unless `hidden` says
`second`. That a failed login forgets a name for good (`LoginsRight`) rests on
`Distinct`: `check_cache` looks at the first entry of a name, and there is no other.

## 9. CellServDB

`CellServDB.tla` has the lists (`read_csdb`, which reverses a file, `merge_csdb`,
`same_servers`, `build_action_list`) as functions and the run of `ucsdb` as actions:
`Start` (options, files, plan; the exit for the local cell), `Write`, `MakeTemp` or
its failure, `UpdateServers`, `NewCell`, `InvalidCell`, `Finish` or `RemoveTempFails`.
`Die` cuts a run off anywhere, in `Write` with a part of the file written (cut between
two lines: a line that is itself cut may be read as anything, since `read_csdb` looks
for its `#` beyond the end); `Reboot` lets the cache manager read the file; `CleanUp`
and `NewInputs` are the administrators. `lost` is history: the cells the cache manager
was to be told of by a run that failed.

`cellServDB` has four central files and three extensions in which servers are
added, removed and exchanged, cells come and go, move to the extension or are in
both, and the local cell is missing; four runs or changes of the inputs, two
failures, and all kinds of options. A run, a change and two more runs are what it
takes to fail, to repair and to find nothing to do.

A file that lists one cell twice is excluded (`FilesAssumption`). Then the run
after a good one finds differences again, since the list is in the other order
and an entry is compared with the first of its name.

`CellServDBProofs.tla` proves all four properties for all files, options and
numbers of runs and failures. Its first part says of the lists what entries they
hold: `read_csdb` keeps them (`ReadTwice`), `merge_csdb` gives those of the
extension and the others of the central file (`MergeFacts`), the plan has an
action for each entry that is not in the previous list as it is and for each
cell that has vanished (`PlanFacts`), so it is empty exactly when both lists hold
the same entries (`NothingToDo`). The invariant `Inv` then has one part for each
phase: what is written is what is wanted and no run is under way after a good one
on the same inputs (`Planned`); until the file is written the actions are those of
the plan (`Ready`), afterwards each agrees with the file (`Pending`); and each
cell of the file is known as it is there, or lost, or still to be told
(`Followed`). That is why `KernelFollows` is not inductive: it speaks of the time
between runs only. The proof found that `Die` had two alternatives that both
applied to a run that died after the file was written; it is now one condition.

`Listings.tla` has what `SetToSortSeq` and `SelectSeq` do without recursion, and
`ListingsProofs.tla` what they return, on the way of counting: the ranks of the
elements of a finite ordered set are its first numbers (`RankFacts`). It also has
the least number of a set and induction for a *set* of numbers (`SetInduction`),
which need no operator as a parameter.

## 10. What the documentation says and the code does not do

Five disagreements have a run that exhibits them and an entry in
`PROJECT.json`: `dispatcherBystander`, `dispatcherExchange`, `negotiatePanic`,
`sentinelLimits`, `packageInhibit`. Others are stated as definitions beside the
modules' properties; each is refuted when it is added to the run of its
component.

| Definition | What the code does |
|---|---|
| `Dispatcher!ShutdownIsFinal` | a failing `select` sets `shutdown` to the number of interrupts and takes back the shutdown that a failed command began (`balance.c:747`) |
| `Negotiate!OverdraftWithinPrecision` | `byoverdraft` accepts a volume by its quota, `domove` charges its size, and `setrequest` charges the quota again: a partition goes above the upper bound `balance.doc` guarantees |
| `Negotiate!PartitionInfoCorrect` | "by the time we are called, the master structure is updated IN PARTICULAR the partition info is correct" (`agent_byoverdraft.c:435`): so it is, and `byoverdraft_setrequest` then updates it a second time (`:454-456`). The promised space of a partition drifts by the quota of every volume that comes or goes, and can wrap below zero |
| `Negotiate!ServersPolled` | `findest` of `byweekuse`, which is to "keep polling for servers", goes to the next server with the partition pointer at the end of the first one's list (`agent_byweekuse.c:358`): only the least used server is offered, and if that one's single partition is the overloaded one, nothing moves |
| `Sentinel!NamesTell` | "If a server is having any sort of problems, its name would be highlighted" (`sentinel/proposal:30-33`): a full disk highlights the disk's label only, and in the trouble window the server's name stays plain |
| `Package!WinnerAlwaysWins` | "If the letter W is appended to file or directory specifications then the update will win a conflict if one exists" (`package.8:45-46`): a file with W after a line for something below it becomes a socket (`node.c:100`) |
| `Package!OldCopyAlwaysKept` | a `.old` without write bits is not removed, the link to it fails unheard, and the replaced version is kept nowhere (`update.c:416`) |
| `Spool!AlreadyOnTheWay` | a job renamed to `.spl` whose command could not be started, or whose server died, stays; every later call is told that it is on its way |
| `Caches!ChangesSeen` | when printcap is not there at the first call, the list built then is kept until the file's second change (`pcnfsd_print.c:432`) |
| `CellServDB!KernelTold` | `ucsdb.man` says that changes are communicated to the cache manager; a run that dies, or exits because it cannot make its temporary directory, has written the file already, and no later run makes up for it |

Modelled and met by the runs, but nowhere stated otherwise: a file with an entry
below it becomes a socket (`node.c:100`); a `.old` in a directory with the
letter R is removed as a stranger by the next run; a command that fails in words
`pr_start2` does not know is answered with OK; a partition a server no longer
reports keeps its warnings; `discardv` of the proposing agent frees the request
the agents after it are handed (the `crash` of `Reject`); a login without a name
is answered from a place of the cache that is not in use.

## 11. What is only checked, and what is not modelled

Proved: sections 3.3, 4.3, 5.3, 6.3, 7.3, 8 and 9. Only checked: the liveness properties
(`Terminates`, `AllClearAtLast`, `Settles`, `ServesOn`), which are out of the
prover's reach.

Not modelled: the components of sections 1.1 to 1.6 that `PROJECT.json` lists
as such, with the reason for each. More than half of the repository's lines are
third-party programs of X (`xlockmore`, `xdm`) with small changes for Kerberos;
they are not the project's subject. Of the modelled components: reports, logging
and the text of messages; the configuration parsers, whose results are
parameters; the X widgets beyond their label and colours; in the child of
sentinel, `close` of an uninitialized descriptor before `execv`, whose worst
outcome, a prober that cannot write, is `ProberDies`; groups and `lost+found` in
`package`; in `pcnfsd` the calls that print what `lpq`, `lpc` and `lprm` say,
version 1 of the protocol and the AFS variant of the login; lines of a
CellServDB that `ucsdb` cannot read.

## 12. Files

| Module | Role |
|---|---|
| `Dispatcher`, `Negotiate`, `Sentinel`, `Package`, `Spool`, `Caches`, `CellServDB` | the components |
| `VolumeMover` | abstract specification of the dispatcher |
| `MCDispatcher`, `MCNegotiate`, `MCSentinel`, `MCPackage`, `MCSpool`, `MCCaches`, `MCCellServDB` | instances for TLC |
| `Listings`, `ListingsProofs` | sequences made from sets and from other sequences, and lemmas about them |
| `DispatcherProofs`, `NegotiateProofs`, `SentinelProofs`, `PackageProofs`, `SpoolProofs`, `CachesProofs`, `CellServDBProofs` | theorems about the components |

Each run's `.cfg` is named after it. Operators named after a definition with a
suffix (`SetLocksAtSource`, `NewIsPath`) are plausible mistakes: with one of
them in place of the definition, TLC finds the property violated that
`PROJECT.json` names under `mutants`.
