------------------------------- MODULE Spool -------------------------------
(***************************************************************************)
(* pcnfsd: the printing of jobs that a PC writes into a spool directory    *)
(* over NFS (pr_start2 in pcnfsd_print.c; su_popen, su_pclose and the      *)
(* watchdog in pcnfsd_misc.c).                                             *)
(*                                                                         *)
(* The PC writes a file, asks the server to print it and repeats the       *)
(* question until it is answered or gives up; the calls travel over UDP    *)
(* and the server keeps no record of those it has answered.  The server    *)
(* does one call at a time, but the PC goes on writing while it does.  It  *)
(* may die at any point and is started again.  The watchdog kills a shell, *)
(* which may or may not take its command with it, and nobody kills the     *)
(* command of a server that died: such a command may open its file at any  *)
(* later time, or never.                                                   *)
(*                                                                         *)
(* A directory entry is a name of the PC and what the server has put       *)
(* behind it; it leads to the job whose data the file holds, so that what  *)
(* the PC writes stays with the file when it is renamed.  Not modelled:    *)
(* names with shell metacharacters, which are refused at the start, and a  *)
(* name that ends like another one with its three digits: "f146" and the   *)
(* second "f.spl" would share f146.spl.                                    *)
(***************************************************************************)
EXTENDS Integers, Sequences, FiniteSets

CONSTANTS
    Cases,          \* [jobs, passwd, sends, mishaps]: a sequence of [file, user, size, diablo],
                    \* the passwd file, and bounds of how often the PC asks for a job and of
                    \* deaths of the server and changes of the passwd file together
    Passwds,        \* what the passwd file may say: a partial function to uids
    Allowed,        \* val_uid: the uids that may print
    Digits          \* the first digits of rand()

NoUid == -2         \* NOBODY

(* Every call is sent at least once, and the digits are no other suffix.   *)
ASSUME SpoolAssumption ==
    /\ \A c \in Cases :
          /\ Len(c.jobs) \in Nat
          /\ \A j \in 1..Len(c.jobs) : c.jobs[j].size \in Nat
          /\ c.passwd \in Passwds /\ c.sends \in Nat \ {0} /\ c.mishaps \in Nat
    /\ \A p \in Passwds : \A u \in DOMAIN p : p[u] \in Int
    /\ Allowed \subseteq Int
    /\ {"", ".spl"} \cap Digits = {}

VARIABLES
    jobs,           \* what the PC will print, in this order
    written,        \* how much of each job is in its file
    asked,          \* how often each was asked for
    told,           \* the answer the PC took: a set of at most one
    dir,            \* the spool directory
    calls, replies, \* on the network
    pc, arg,        \* where the server is, and in which call
    path,           \* new_pathname
    child,          \* the command: who runs it and how far it is
    orphans,        \* commands that outlived their shell or server and may yet open the file
    said,           \* the command told that the printer is disabled
    interrupted,
    cached,         \* cached_user and cached_uid
    passwd,
    handed,         \* history: what was given to a command
    fate,           \* history: how jobs left the directory unprinted
    sends, mishaps  \* bounds

vars == <<jobs, written, asked, told, dir, calls, replies, pc, arg, path, child, said,
          interrupted, cached, orphans, passwd, handed, fate, sends, mishaps>>
pcside == <<jobs, written, asked, told>>
server == <<pc, arg, path, child, said, interrupted, cached>>
past   == <<orphans, handed, fate>>
bounds == <<sends, mishaps>>

Job == 1..Len(jobs)
Plain(j) == <<jobs[j].file, "">>
Spl(j) == <<jobs[j].file, ".spl">>
RandomSpl(j) == {<<jobs[j].file, d>> : d \in Digits}
Without(n) == [m \in DOMAIN dir \ {n} |-> dir[m]]
With(d, n, j) == [m \in DOMAIN d \cup {n} |-> IF m = n THEN j ELSE d[m]]

NoChild == [state |-> "none", uid |-> NoUid]
NoUser == [user |-> "", uid |-> NoUid]
NotYet == [user |-> "", uid |-> 0]  \* a static variable that no call has set

Init ==
    /\ \E c \in Cases : jobs = c.jobs /\ passwd = c.passwd
                        /\ sends = c.sends /\ mishaps = c.mishaps
    /\ written = [j \in Job |-> 0] /\ asked = [j \in Job |-> 0] /\ told = [j \in Job |-> {}]
    /\ dir = [n \in {} |-> 0]
    /\ calls = [j \in Job |-> 0] /\ replies = {}
    /\ pc = "idle" /\ arg = 0 /\ path = <<>> /\ child = NoChild
    /\ said = FALSE /\ interrupted = FALSE /\ cached = NotYet /\ orphans = {}
    /\ handed = <<>> /\ fate = [j \in Job |-> "new"]

-----------------------------------------------------------------------------
(* The PC, one job after the other.                                        *)

Turn(j) == \A i \in Job : i < j => told[i] # {}

Create(j) ==
    /\ Turn(j) /\ fate[j] = "new"
    /\ dir' = With(dir, Plain(j), j)
    /\ fate' = [i \in Job |-> IF i = j THEN "open"
                              ELSE IF Plain(j) \in DOMAIN dir /\ dir[Plain(j)] = i THEN "replaced" ELSE fate[i]]
    /\ UNCHANGED <<pcside, calls, replies, server, passwd, orphans, handed, bounds>>

Write(j) ==
    /\ fate[j] # "new" /\ asked[j] = 0 /\ written[j] < jobs[j].size
    /\ written' = [written EXCEPT ![j] = @ + 1]
    /\ UNCHANGED <<jobs, asked, told, dir, calls, replies, server, passwd, past, bounds>>

Ask(j) ==
    /\ fate[j] # "new" /\ written[j] = jobs[j].size
    /\ told[j] = {} /\ asked[j] < sends
    /\ asked' = [asked EXCEPT ![j] = @ + 1]
    /\ calls' = [calls EXCEPT ![j] = @ + 1]
    /\ UNCHANGED <<jobs, written, told, dir, replies, server, passwd, past, bounds>>

Hear(j) ==
    /\ asked[j] > 0 /\ told[j] = {}
    /\ \E code \in {r[2] : r \in {r \in replies : r[1] = j}} : told' = [told EXCEPT ![j] = {code}]
    /\ UNCHANGED <<jobs, written, asked, dir, calls, replies, server, passwd, past, bounds>>

(* The PC removes the file when it can.                                    *)
GiveUp(j) ==
    /\ asked[j] = sends /\ told[j] = {}
    /\ told' = [told EXCEPT ![j] = {"none"}]
    /\ IF Plain(j) \in DOMAIN dir
       THEN /\ dir' = Without(Plain(j))
            /\ fate' = [fate EXCEPT ![dir[Plain(j)]] = "withdrawn"]
       ELSE UNCHANGED <<dir, fate>>
    /\ UNCHANGED <<jobs, written, asked, calls, replies, server, passwd, orphans, handed, bounds>>

PC == \E j \in Job : Create(j) \/ Write(j) \/ Ask(j) \/ Hear(j) \/ GiveUp(j)

-----------------------------------------------------------------------------
(* pr_start2.                                                              *)

Reply(code) ==
    /\ replies' = replies \cup {<<arg, code>>}
    /\ pc' = "idle"
    /\ UNCHANGED <<arg, path, child, said, interrupted>>

Receive(j) ==
    /\ pc = "idle" /\ calls[j] > 0
    /\ calls' = [calls EXCEPT ![j] = @ - 1]
    /\ pc' = "stat" /\ arg' = j
    /\ UNCHANGED <<pcside, dir, replies, path, child, said, interrupted, cached, passwd, past, bounds>>

StatFile ==
    /\ pc = "stat"
    /\ \/ /\ Plain(arg) \in DOMAIN dir
          /\ pc' = IF written[dir[Plain(arg)]] = 0 THEN "null" ELSE "rename"
          /\ UNCHANGED <<replies, arg, path, child, said, interrupted>>
       \/ /\ Plain(arg) \notin DOMAIN dir
          /\ Reply(IF Spl(arg) \in DOMAIN dir THEN "ALREADY" ELSE "NO_FILE")
    /\ UNCHANGED <<pcside, dir, calls, cached, passwd, past, bounds>>

(* A file without data is removed.                                         *)
KillNull ==
    /\ pc = "null"
    /\ Reply("NULL")
    /\ IF Plain(arg) \in DOMAIN dir
       THEN /\ dir' = Without(Plain(arg))
            /\ fate' = [fate EXCEPT ![dir[Plain(arg)]] = "null"]
       ELSE UNCHANGED <<dir, fate>>
    /\ UNCHANGED <<pcside, calls, cached, passwd, orphans, handed, bounds>>

(* A new name that is taken gets three digits, and is not looked at again. *)
FreeNames == IF Spl(arg) \in DOMAIN dir THEN RandomSpl(arg) ELSE {Spl(arg)}
MovedToSpl(n) == With(Without(Plain(arg)), Spl(arg), dir[Plain(arg)])
MovedCopying(n) == With(dir, n, dir[Plain(arg)])
Moved(n) == With(Without(Plain(arg)), n, dir[Plain(arg)])

Rename ==
    /\ pc = "rename" /\ Plain(arg) \in DOMAIN dir
    /\ \E n \in FreeNames :
          /\ path' = n
          /\ dir' = Moved(n)
          /\ fate' = [i \in Job |-> IF i = dir[Plain(arg)] THEN "taken"
                                    ELSE IF n \in RandomSpl(arg) \cap DOMAIN dir /\ i = dir[n] THEN "overwritten"
                                    ELSE fate[i]]
    /\ pc' = IF jobs[arg].diablo THEN "filter" ELSE "popen"
    /\ UNCHANGED <<pcside, calls, replies, arg, child, said, interrupted, cached, passwd, orphans, handed, bounds>>

RenameFails ==
    /\ pc = "rename" /\ Plain(arg) \notin DOMAIN dir
    /\ Reply("FAIL")
    /\ UNCHANGED <<pcside, dir, calls, cached, passwd, past, bounds>>

(* run_ps630 leaves its output under the name it was given, or exits.  It  *)
(* runs with the server's uid and under no watchdog: it may never return.  *)
Filter ==
    /\ pc = "filter"
    /\ pc' \in {"popen", "dead"}
    /\ UNCHANGED <<pcside, dir, calls, replies, arg, path, child, said, interrupted, cached, passwd, past, bounds>>

-----------------------------------------------------------------------------
(* su_popen: the user of the last call is remembered with the uid he had,  *)
(* a user the passwd file does not know with that of nobody; an empty name *)
(* is what is remembered of none.                                          *)

LookupOnce(user) == IF cached.user # "" THEN cached
                    ELSE IF user \in DOMAIN passwd THEN [user |-> user, uid |-> passwd[user]] ELSE NoUser
Lookup(user) ==
    IF user = cached.user THEN cached
    ELSE IF user \in DOMAIN passwd THEN [user |-> user, uid |-> passwd[user]]
    ELSE IF "nobody" \in DOMAIN passwd THEN [user |-> user, uid |-> passwd["nobody"]]
    ELSE NoUser

MayRun(uid) == uid = NoUid \/ uid \in Allowed

Popen ==
    /\ pc = "popen"
    /\ cached' = Lookup(jobs[arg].user)
    /\ MayRun(cached'.uid)
    /\ child' = [state |-> "start", uid |-> cached'.uid]
    /\ pc' = "read" /\ said' = FALSE /\ interrupted' = FALSE
    /\ UNCHANGED <<pcside, dir, calls, replies, arg, path, passwd, past, bounds>>

(* The uid may not print, or there is no pipe or process to be had.        *)
PopenFails ==
    /\ pc = "popen"
    /\ cached' = Lookup(jobs[arg].user)
    /\ Reply("FAIL")
    /\ UNCHANGED <<pcside, dir, calls, passwd, past, bounds>>

(* The command takes the file, or fails in a way the server does or does   *)
(* not understand; it may close its output some time before it ends.       *)
Handing(result) == Append(handed, [job |-> dir[path], size |-> written[dir[path]],
                                   user |-> jobs[arg].user, uid |-> child.uid, result |-> result])

CommandActs(result) ==
    /\ child.state = "start"
    /\ child' = [child EXCEPT !.state = "acted"]
    /\ said' = (result = "disabled")
    /\ handed' = Handing(result)
    /\ UNCHANGED <<pcside, dir, calls, replies, pc, arg, path, interrupted, cached, orphans, passwd, fate, bounds>>

CommandEnds ==
    /\ \/ child.state = "acted" /\ child' \in {[child EXCEPT !.state = s] : s \in {"silent", "ended"}}
       \/ child.state = "silent" /\ child' = [child EXCEPT !.state = "ended"]
    /\ UNCHANGED <<pcside, dir, calls, replies, pc, arg, path, said, interrupted, cached, passwd, past, bounds>>

(* myhandler kills the shell and closes the stream that fgets is reading   *)
(* and su_pclose closes again; the server may not survive that.            *)
Outliving == [job |-> dir[path], path |-> path, user |-> jobs[arg].user, uid |-> child.uid]

ArmedByOutput == pc = "read" /\ child.state = "acted"
Armed == pc = "read"

Timeout ==
    /\ Armed
    /\ interrupted' = TRUE
    /\ IF child.state = "start"
       THEN handed' = Handing("killed") /\ orphans' \in {orphans, orphans \cup {Outliving}}
       ELSE UNCHANGED <<handed, orphans>>
    /\ child' = [child EXCEPT !.state = "ended"]
    /\ pc' \in {"close", "dead"}
    /\ UNCHANGED <<pcside, dir, calls, replies, arg, path, said, cached, passwd, fate, bounds>>

EndOfOutput ==
    /\ pc = "read" /\ child.state \in {"silent", "ended"}
    /\ pc' = "close"
    /\ UNCHANGED <<pcside, dir, calls, replies, arg, path, child, said, interrupted, cached, passwd, past, bounds>>

AnswerUninterrupted == IF said THEN "FAIL" ELSE "OK"
Answer == IF said \/ interrupted THEN "FAIL" ELSE "OK"

(* su_pclose without the watchdog, unlink and the answer.                  *)
Close ==
    /\ pc = "close" /\ child.state = "ended"
    /\ dir' = Without(path)
    /\ Reply(Answer)
    /\ UNCHANGED <<pcside, calls, cached, passwd, past, bounds>>

Serve == \/ \E j \in Job : Receive(j)
         \/ StatFile \/ KillNull \/ Rename \/ RenameFails \/ Popen \/ PopenFails
         \/ EndOfOutput \/ Close

-----------------------------------------------------------------------------
Die ==
    /\ pc # "dead" /\ mishaps > 0
    /\ mishaps' = mishaps - 1
    /\ pc' = "dead"
    /\ UNCHANGED <<pcside, dir, calls, replies, arg, path, child, said, interrupted, cached, passwd, past, sends>>

(* A command that outlives its server is nobody's child any more.          *)
Restart ==
    /\ pc = "dead"
    /\ pc' = "idle" /\ cached' = NotYet /\ child' = NoChild
    /\ arg' = 0 /\ path' = <<>> /\ said' = FALSE /\ interrupted' = FALSE
    /\ orphans' = IF child.state = "start" THEN orphans \cup {Outliving} ELSE orphans
    /\ UNCHANGED <<pcside, dir, calls, replies, passwd, handed, fate, bounds>>

PasswdChanges ==
    /\ mishaps > 0
    /\ passwd' \in Passwds \ {passwd}
    /\ mishaps' = mishaps - 1
    /\ UNCHANGED <<pcside, dir, calls, replies, server, past, sends>>

(* It opens whatever file has its name by then.                            *)
HandingLate(o) == Append(handed, [job |-> dir[o.path], size |-> written[dir[o.path]],
                                  user |-> o.user, uid |-> o.uid, result |-> "late"])
OrphanActs ==
    \E o \in orphans :
        /\ orphans' = orphans \ {o}
        /\ handed' = IF o.path \in DOMAIN dir THEN HandingLate(o) ELSE handed
        /\ UNCHANGED <<pcside, dir, calls, replies, server, passwd, fate, bounds>>

Command == CommandEnds \/ \E result \in {"queued", "disabled", "failed"} : CommandActs(result)

Next == PC \/ Serve \/ Filter \/ Command \/ OrphanActs \/ Timeout \/ Die \/ Restart \/ PasswdChanges

(* The server goes on, the watchdog goes off, whoever started the server   *)
(* starts it again, and a command that closed its output comes to an end.  *)
(* A command that keeps it open may hang, and so may the filter.           *)
Fairness == /\ WF_vars(Serve) /\ WF_vars(Timeout) /\ WF_vars(Restart)
            /\ WF_vars(CommandEnds /\ child.state = "silent")
Spec == Init /\ [][Next]_vars /\ Fairness

-----------------------------------------------------------------------------
(* Properties.                                                             *)

(* Types, and the server has a file to print when a command runs.          *)
TypeOK ==
    /\ passwd \in Passwds
    /\ \A j \in Job : written[j] \in 0..jobs[j].size /\ asked[j] \in 0..sends /\ calls[j] \in 0..sends
    /\ told \in [Job -> {{}} \cup {{c} : c \in {"OK", "FAIL", "NULL", "NO_FILE", "ALREADY", "none"}}]
    /\ replies \subseteq Job \X {"OK", "FAIL", "NULL", "NO_FILE", "ALREADY"}
    /\ \A n \in DOMAIN dir : dir[n] \in Job
    /\ \A o \in orphans : o.job \in Job
    /\ pc \in {"idle", "stat", "null", "rename", "filter", "popen", "read", "close", "dead"}
    /\ child.state \in {"none", "start", "acted", "silent", "ended"}
    /\ pc \in {"filter", "popen", "read", "close"} => path \in DOMAIN dir

(* The name was in use before: a late call for the earlier job may start   *)
(* the job while it is being written.                                      *)
Reused(j) == \E i \in Job : i < j /\ jobs[i].file = jobs[j].file
InDir(j) == \E n \in DOMAIN dir : dir[n] = j
Handed(j) == \E i \in DOMAIN handed : handed[i].job = j

(* However often the PC repeats its call, and wherever the server dies, it *)
(* starts one command for a job at most.  A job is taken a second time     *)
(* only if its name was used before, by a command of that time that        *)
(* outlived its shell or server ("late"); one that was killed takes none.  *)
(* And none is taken before it was written to its end, unless its name was *)
(* used before.                                                            *)
PrintedOnce ==
    \A i \in DOMAIN handed :
        /\ \A k \in DOMAIN handed \ {i} : handed[k].job = handed[i].job =>
              /\ "late" \in {handed[i].result, handed[k].result}
              /\ Reused(handed[i].job) \/ "killed" \in {handed[i].result, handed[k].result}
        /\ handed[i].size = jobs[handed[i].job].size \/ Reused(handed[i].job)

(* A job that the PC wrote and did not take back is in the directory or    *)
(* was given to a command; only an earlier leftover under three digits may *)
(* be overwritten, and only an empty file be removed.                      *)
NothingVanishes ==
    \A j \in Job :
        /\ fate[j] \in {"open", "taken"} => InDir(j) \/ Handed(j)
        /\ fate[j] = "null" => jobs[j].size = 0 \/ Reused(j)

(* A job whose name is its own is printed at most once, any other once by  *)
(* the command started for it, and none is lost on its way.                *)
EachOnce == PrintedOnce /\ NothingVanishes

(* What the server says of a job whose name is its own is true: OK, that a *)
(* command took it in time; NULL, that it is empty; NO_FILE, that it is    *)
(* done with or was taken back; ALREADY, that it lies renamed.             *)
AnswersTrue ==
    \A r \in replies : (\A i \in Job \ {r[1]} : jobs[i].file # jobs[r[1]].file) =>
        LET j == r[1]
        IN  CASE r[2] = "OK" -> \E i \in DOMAIN handed : handed[i].job = j /\ handed[i].result \in {"queued", "failed"}
              [] r[2] = "NULL" -> jobs[j].size = 0
              [] r[2] = "NO_FILE" -> Handed(j) \/ fate[j] \in {"null", "withdrawn"}
              [] r[2] = "ALREADY" -> fate[j] = "taken"
              [] OTHER -> TRUE

(* A command takes a job with a uid that may print, the one the passwd     *)
(* file has or had for the user who asked for it or for another job of its *)
(* name, or that of nobody.  The empty name has no uid of its own.         *)
UidOf(p, user) == IF user \in DOMAIN p THEN p[user] ELSE IF "nobody" \in DOMAIN p THEN p["nobody"] ELSE NoUid
RunsAsUser ==
    \A i \in DOMAIN handed :
        /\ MayRun(handed[i].uid)
        /\ handed[i].user # "" => \E p \in Passwds : handed[i].uid = UidOf(p, handed[i].user)
        /\ \E j \in Job : jobs[j].file = jobs[handed[i].job].file /\ jobs[j].user = handed[i].user

(* The server gets back to the next call, also when a command hangs; only  *)
(* the ps630 filter, which no watchdog guards, can hold it for ever.       *)
ServesOn == []<>(pc = "idle") \/ <>[](pc = "filter")

(* pcnfsd_print.c: "It is already on the way."                             *)
AlreadyOnTheWay == \A r \in replies : r[2] = "ALREADY" => Handed(r[1])
=============================================================================
