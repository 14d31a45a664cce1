---------------------------- MODULE SpoolProofs ----------------------------
(***************************************************************************)
(* Proofs about Spool: a job is given to one command and never lost, the   *)
(* answers are true, the right user prints, for every sequence of jobs,    *)
(* every passwd file and any number of calls, mishaps and commands that    *)
(* outlive their shell or server.                                          *)
(***************************************************************************)
EXTENDS Spool, TLAPS

Codes   == {"OK", "FAIL", "NULL", "NO_FILE", "ALREADY"}
Fates   == {"new", "open", "replaced", "withdrawn", "null", "taken", "overwritten"}
Owns    == {"queued", "disabled", "failed", "killed"}
Results == Owns \cup {"late"}
PCs     == {"idle", "stat", "null", "rename", "filter", "popen", "read", "close", "dead"}
States  == {"none", "start", "acted", "silent", "ended"}
User    == {jobs[j].user : j \in Job} \cup {""}

Entry   == [job : Job, size : Nat, user : User, uid : Int, result : Results]
Told    == {{}} \cup {{c} : c \in Codes \cup {"none"}}
Child   == [state : States, uid : Int]
Cached  == [user : User, uid : Int]

JobsTyped ==
    /\ Len(jobs) \in Nat /\ sends \in Nat \ {0}
    /\ \A j \in Job : jobs[j].size \in Nat
ClientTyped ==
    /\ written \in [Job -> Nat] /\ asked \in [Job -> Nat] /\ calls \in [Job -> Nat]
    /\ told \in [Job -> Told] /\ fate \in [Job -> Fates]
RepliesTyped == replies \subseteq Job \X Codes
ServerTyped ==
    /\ pc \in PCs /\ child \in Child /\ said \in BOOLEAN /\ interrupted \in BOOLEAN
    /\ passwd \in Passwds /\ cached \in Cached
HandedTyped == handed \in Seq(Entry)
OrphansTyped == \A o \in orphans : o.job \in Job /\ o.user \in User /\ o.uid \in Int
Typed == /\ JobsTyped /\ ClientTyped /\ RepliesTyped /\ ServerTyped /\ HandedTyped
         /\ OrphansTyped

(* The PC: a job that was asked for is complete, and a job is begun when   *)
(* those before it were answered or given up.                              *)
Orderly ==
    \A j \in Job :
        /\ fate[j] # "new" => \A i \in Job : i < j => told[i] # {}
        /\ told[j] # {} => asked[j] > 0
        /\ asked[j] > 0 => fate[j] # "new" /\ written[j] = jobs[j].size
        /\ calls[j] <= asked[j] /\ asked[j] <= sends /\ written[j] <= jobs[j].size

(* The server works for a job that was asked for.                          *)
Serving == /\ pc \notin {"idle", "dead"} => arg \in Job /\ asked[arg] > 0
           /\ \A r \in replies : asked[r[1]] > 0

Complete(j) == written[j] = jobs[j].size \/ Reused(j)
Unique(j) == \A i \in Job \ {j} : jobs[i].file # jobs[j].file

(* An entry leads to a job of its name, no two lead to one job, and only   *)
(* what the server renamed has a suffix; no earlier job comes back under   *)
(* the plain name of one that was begun.                                   *)
Leads(n) ==
    /\ dir[n] \in Job
    /\ \E s \in {"", ".spl"} \cup Digits : n = <<jobs[dir[n]].file, s>>
    /\ n[2] = "" => /\ fate[dir[n]] = "open"
                    /\ \A a \in Job : jobs[a].file = n[1] /\ fate[a] # "new" => a <= dir[n]
    /\ n[2] # "" => fate[dir[n]] = "taken" /\ Complete(dir[n])
    /\ n[2] \in Digits => ~Unique(dir[n])
Placed ==
    /\ \A n \in DOMAIN dir : Leads(n)
    /\ \A m, n \in DOMAIN dir : dir[m] = dir[n] => m = n

(* A job that left the directory unprinted left it for its reason.         *)
Fated ==
    \A j \in Job :
        /\ fate[j] \in {"open", "taken"} => InDir(j) \/ Handed(j)
        /\ fate[j] = "null" => jobs[j].size = 0 \/ Reused(j)
        /\ fate[j] \in {"replaced", "overwritten"} => ~Unique(j)

(* A job that was handed is no longer under its plain name.                *)
HandedOnce ==
    /\ PrintedOnce
    /\ \A i \in DOMAIN handed : fate[handed[i].job] \in {"taken", "overwritten"}

Renamed == path \in DOMAIN dir /\ path[2] # "" /\ path[1] = jobs[arg].file /\ arg \in Job
Taken(j) == \E i \in DOMAIN handed : handed[i].job = j /\ handed[i].result \in {"queued", "failed"}

(* A job that is still to be given to the command of the server's own: no  *)
(* command was started for it, and only a reused name lets another take it.*)
Own(j)   == \E i \in DOMAIN handed : handed[i].job = j /\ handed[i].result # "late"
Took(j)  == \E i \in DOMAIN handed : handed[i].job = j /\ handed[i].result # "killed"
Fresh(j) == ~Own(j) /\ (Handed(j) => Reused(j)) /\ \A o \in orphans : o.job # j

(* What the server is about to print is in the directory and is to be      *)
(* given to its command; what a command acted on was.                      *)
Commanded ==
    /\ pc \in {"filter", "popen"} => Renamed /\ Fresh(dir[path])
    /\ child.state = "start" => pc \in {"read", "dead"} /\ Renamed /\ Fresh(dir[path])
    /\ pc \in {"read", "close"} =>
          /\ Renamed /\ child.state # "none"
          /\ child.state # "start" => /\ Handed(dir[path])
                                      /\ ~said /\ ~interrupted => Taken(dir[path])
    /\ pc = "close" => child.state # "start"

(* A command that outlived its shell or its server finds its own job under *)
(* its path, or a later one; there is one such command for a job at most,  *)
(* and its own job was not taken by others unless the name was reused.     *)
Outlives(o) ==
    /\ o.path[1] = jobs[o.job].file /\ o.path[2] # ""
    /\ fate[o.job] \in {"taken", "overwritten"}
    /\ o.path \in DOMAIN dir => o.job <= dir[o.path]
    /\ Took(o.job) => Reused(o.job)
Outlived ==
    /\ \A o \in orphans : Outlives(o)
    /\ \A o, p \in orphans : o.job = p.job => o = p

(* A file taken for a null file is one, if it is still the same.           *)
NullKnown ==
    pc = "null" =>
        /\ jobs[arg].size = 0 \/ ~Unique(arg)
        /\ Plain(arg) \in DOMAIN dir /\ dir[Plain(arg)] = arg => jobs[arg].size = 0

UidRight(uid, user) ==
    /\ MayRun(uid)
    /\ user # "" => \E p \in Passwds : uid = UidOf(p, user)
UserRight(j, user) == \E a \in Job : jobs[a].file = jobs[j].file /\ jobs[a].user = user
Right(e) == UidRight(e.uid, e.user) /\ UserRight(e.job, e.user)

Privileged ==
    /\ cached.user # "" => \E p \in Passwds : cached.uid = UidOf(p, cached.user)
    /\ child.state = "start" => UidRight(child.uid, jobs[arg].user)
    /\ \A i \in DOMAIN handed : Right(handed[i])
    /\ \A o \in orphans : Right(o)

Inv == /\ Typed /\ Orderly /\ Serving /\ Placed /\ Fated /\ HandedOnce
       /\ Commanded /\ Outlived /\ NullKnown /\ Privileged /\ AnswersTrue

-----------------------------------------------------------------------------
(* What a step leaves alone.                                               *)

LEMMA JobsFixed == [Next]_vars => jobs' = jobs /\ sends' = sends
  BY DEF Next, vars, PC, Serve, Command, Create, Write, Ask, Hear, GiveUp, Receive, StatFile,
         KillNull, Rename, RenameFails, Filter, Popen, PopenFails, CommandActs, CommandEnds, Timeout,
         EndOfOutput, Close, Die, OrphanActs, Restart, PasswdChanges, pcside, server, past, bounds

LEMMA JobsCounted == \A j \in Job : j \in Int
  BY DEF Job

LEMMA Frame ==
  ASSUME [Next]_vars
  PROVE  \/ \E j \in Job : Create(j) \/ Write(j) \/ GiveUp(j)
         \/ KillNull \/ Rename \/ Close
         \/ UNCHANGED <<dir, fate, written>>
  BY DEF Next, vars, PC, Serve, Command, Ask, Hear, Receive, StatFile,
         RenameFails, Filter, Popen, PopenFails, CommandActs, CommandEnds, Timeout,
         EndOfOutput, Die, OrphanActs, Restart, PasswdChanges, pcside, server, past, bounds

-----------------------------------------------------------------------------
(* Types.                                                                  *)

LEMMA NoUserTyped == NoUser \in Cached
  <1>1. NoUid \in Int /\ "" \in User
    BY DEF NoUid, User
  <1> QED
    BY <1>1 DEF NoUser, Cached

LEMMA LookupTyped ==
  ASSUME NEW user \in User, passwd \in Passwds, cached \in Cached
  PROVE  Lookup(user) \in Cached
  <1>2. \A u \in DOMAIN passwd : passwd[u] \in Int
    BY SpoolAssumption
  <1> QED
    BY NoUserTyped, <1>2 DEF Lookup, Cached

LEMMA NotYetTyped == NotYet \in Cached
  BY DEF NotYet, Cached, User

LEMMA InitTyped == Init => Typed
  <1> SUFFICES ASSUME Init PROVE Typed
    OBVIOUS
  <1>1. JobsTyped /\ passwd \in Passwds
    BY SpoolAssumption DEF Init, Job, JobsTyped
  <1>2. ClientTyped
    BY DEF Init, ClientTyped, Told, Fates
  <1>3. child \in Child
    BY DEF Init, Child, NoChild, NoUid, States
  <1>4. cached \in Cached
    BY NotYetTyped DEF Init
  <1>5. ServerTyped
    BY <1>1, <1>3, <1>4 DEF Init, ServerTyped, PCs
  <1>6. RepliesTyped /\ HandedTyped /\ OrphansTyped
    BY DEF Init, RepliesTyped, HandedTyped, OrphansTyped
  <1> QED
    BY <1>1, <1>2, <1>5, <1>6 DEF Typed

LEMMA ReplyTyped ==
  ASSUME RepliesTyped, arg \in Job, jobs' = jobs, NEW code \in Codes, Reply(code)
  PROVE  RepliesTyped'
  <1>1. Job' = Job
    BY DEF Job
  <1> QED
    BY <1>1 DEF RepliesTyped, Reply

LEMMA HandingTyped ==
  ASSUME ClientTyped, HandedTyped, child \in Child, NEW result \in Results, dir[path] \in Job, arg \in Job
  PROVE  Handing(result) \in Seq(Entry)
  <1>1. jobs[arg].user \in User
    BY DEF User
  <1>2. written[dir[path]] \in Nat /\ child.uid \in Int
    BY DEF ClientTyped, Child
  <1>3. [job |-> dir[path], size |-> written[dir[path]], user |-> jobs[arg].user,
         uid |-> child.uid, result |-> result] \in Entry
    BY <1>1, <1>2 DEF Entry
  <1> QED
    BY <1>3 DEF HandedTyped, Handing

LEMMA ClientStep ==
  ASSUME Typed, [Next]_vars
  PROVE  ClientTyped'
  <1>1. Job' = Job
    BY JobsFixed DEF Job
  <1>2. ASSUME NEW j \in Job, Create(j) PROVE ClientTyped'
    BY <1>1, <1>2 DEF Typed, ClientTyped, Create, pcside, Fates
  <1>3. ASSUME NEW j \in Job, Write(j) PROVE ClientTyped'
    BY <1>1, <1>3 DEF Typed, ClientTyped, Write, past
  <1>4. ASSUME NEW j \in Job, Ask(j) PROVE ClientTyped'
    BY <1>1, <1>4 DEF Typed, ClientTyped, Ask, past
  <1>5. ASSUME NEW j \in Job, Hear(j) PROVE ClientTyped'
    <2>1. PICK r \in replies : told' = [told EXCEPT ![j] = {r[2]}]
      BY <1>5 DEF Hear
    <2>2. {r[2]} \in Told
      BY DEF Typed, RepliesTyped, Told
    <2> QED
      BY <1>1, <1>5, <2>1, <2>2 DEF Typed, ClientTyped, Hear, past
  <1>6. ASSUME NEW j \in Job, GiveUp(j) PROVE ClientTyped'
    <2>1. {"none"} \in Told
      BY DEF Told
    <2> QED
      BY <1>1, <1>6, <2>1 DEF Typed, ClientTyped, GiveUp, Fates
  <1>7. ASSUME NEW j \in Job, Receive(j) PROVE ClientTyped'
    <2>1. calls \in [Job -> Nat] /\ calls[j] \in Nat /\ calls[j] > 0
      BY <1>7 DEF Typed, ClientTyped, Receive
    <2>2. calls[j] - 1 \in Nat
      BY <2>1
    <2>3. calls' \in [Job -> Nat]
      BY <1>7, <2>1, <2>2 DEF Receive
    <2> QED
      BY <1>1, <1>7, <2>3 DEF Typed, ClientTyped, Receive, pcside, past
  <1>8. CASE KillNull
    BY <1>1, <1>8 DEF Typed, ClientTyped, KillNull, pcside, Fates
  <1>9. CASE Rename
    BY <1>1, <1>9 DEF Typed, ClientTyped, Rename, pcside, Fates
  <1>10. CASE UNCHANGED <<pcside, calls, fate>>
    BY <1>1, <1>10 DEF Typed, ClientTyped, pcside
  <1>11. CASE StatFile \/ RenameFails \/ Filter \/ Popen \/ PopenFails \/ EndOfOutput \/ Close
    BY <1>10, <1>11 DEF StatFile, RenameFails, Filter, Popen, PopenFails, EndOfOutput, Close, past
  <1>12. CASE Command \/ OrphanActs \/ Timeout \/ Die \/ Restart \/ PasswdChanges \/ UNCHANGED vars
    BY <1>10, <1>12 DEF Command, CommandActs, CommandEnds, Timeout, Die, OrphanActs, Restart, PasswdChanges,
           past, pcside, server, vars
  <1>13. CASE PC
    BY <1>2, <1>3, <1>4, <1>5, <1>6, <1>13 DEF PC
  <1>14. CASE Serve
    BY <1>7, <1>8, <1>9, <1>11, <1>14 DEF Serve
  <1> QED
    BY <1>11, <1>12, <1>13, <1>14 DEF Next

LEMMA RepliesStep ==
  ASSUME Typed, Serving, [Next]_vars
  PROVE  RepliesTyped'
  <1>1. jobs' = jobs /\ Job' = Job
    BY JobsFixed DEF Job
  <1>2. ASSUME arg \in Job, NEW code \in Codes, Reply(code) PROVE RepliesTyped'
    BY <1>1, <1>2, ReplyTyped DEF Typed
  <1>3. CASE UNCHANGED replies
    BY <1>1, <1>3 DEF Typed, RepliesTyped
  <1>4. CASE StatFile
    BY <1>2, <1>3, <1>4 DEF StatFile, Serving, Codes
  <1>5. CASE KillNull
    BY <1>2, <1>5 DEF KillNull, Serving, Codes
  <1>6. CASE RenameFails
    BY <1>2, <1>6 DEF RenameFails, Serving, Codes
  <1>7. CASE PopenFails
    BY <1>2, <1>7 DEF PopenFails, Serving, Codes
  <1>8. CASE Close
    <2>1. Answer \in Codes
      BY DEF Answer, Codes
    <2> QED
      BY <1>2, <1>8, <2>1 DEF Close, Serving
  <1> QED
    BY <1>3, <1>4, <1>5, <1>6, <1>7, <1>8
       DEF Next, vars, PC, Serve, Command, Create, Write, Ask, Hear, GiveUp, Receive, Rename, Filter, Popen,
           CommandActs, CommandEnds, Timeout, EndOfOutput, Die, OrphanActs, Restart, PasswdChanges, server, past

LEMMA LateTyped ==
  ASSUME Typed, NEW o \in orphans, dir[o.path] \in Job
  PROVE  HandingLate(o) \in Seq(Entry)
  <1>1. written[dir[o.path]] \in Nat /\ o.user \in User /\ o.uid \in Int
    BY DEF Typed, ClientTyped, OrphansTyped
  <1>2. [job |-> dir[o.path], size |-> written[dir[o.path]], user |-> o.user,
         uid |-> o.uid, result |-> "late"] \in Entry
    BY <1>1 DEF Entry, Results
  <1> QED
    BY <1>2 DEF Typed, HandedTyped, HandingLate

LEMMA HandedStep ==
  ASSUME Typed, Placed, Commanded, [Next]_vars
  PROVE  HandedTyped'
  <1>1. Entry' = Entry
    BY JobsFixed DEF Entry, Job, User
  <1>2. ASSUME NEW result \in Results, child.state = "start", handed' = Handing(result)
        PROVE  HandedTyped'
    <2>1. dir[path] \in Job /\ arg \in Job
      BY <1>2 DEF Commanded, Renamed, Placed, Leads
    <2> QED
      BY <1>1, <1>2, <2>1, HandingTyped DEF Typed, ServerTyped, HandedTyped
  <1>3. CASE UNCHANGED handed
    BY <1>1, <1>3 DEF Typed, HandedTyped
  <1>4. ASSUME NEW result \in {"queued", "disabled", "failed"}, CommandActs(result) PROVE HandedTyped'
    BY <1>2, <1>4 DEF CommandActs, Owns, Results
  <1>5. CASE Timeout
    BY <1>2, <1>3, <1>5 DEF Timeout, Owns, Results
  <1>6. CASE OrphanActs
    <2>1. PICK o \in orphans : handed' = IF o.path \in DOMAIN dir THEN HandingLate(o) ELSE handed
      BY <1>6 DEF OrphanActs
    <2>2. o.path \in DOMAIN dir => dir[o.path] \in Job
      BY DEF Placed, Leads
    <2> QED
      BY <1>1, <1>3, <2>1, <2>2, LateTyped DEF HandedTyped
  <1> QED
    BY <1>3, <1>4, <1>5, <1>6
       DEF Next, vars, PC, Serve, Command, Create, Write, Ask, Hear, GiveUp, Receive, StatFile, KillNull,
           Rename, RenameFails, Filter, Popen, PopenFails, CommandEnds, EndOfOutput, Close, Die, Restart,
           PasswdChanges, past

(* Commands are left behind by a timeout or a death, and act once.         *)
LEMMA OrphanSteps ==
  ASSUME [Next]_vars
  PROVE  \/ orphans' \subseteq orphans
         \/ /\ child.state = "start" /\ orphans' = orphans \cup {Outliving}
            /\ UNCHANGED <<dir, fate, written, jobs>>
            /\ handed' \in {handed, Handing("killed")}
  BY DEF Next, vars, PC, Serve, Command, Create, Write, Ask, Hear, GiveUp, Receive, StatFile, KillNull,
         Rename, RenameFails, Filter, Popen, PopenFails, CommandActs, CommandEnds, OrphanActs, Timeout,
         EndOfOutput, Close, Die, Restart, PasswdChanges, past, pcside

LEMMA OrphansStep ==
  ASSUME Typed, Placed, Commanded, [Next]_vars
  PROVE  OrphansTyped'
  <1>1. jobs' = jobs /\ Job' = Job /\ User' = User
    BY JobsFixed DEF Job, User
  <1>2. ASSUME child.state = "start"
        PROVE  Outliving.job \in Job /\ Outliving.user \in User /\ Outliving.uid \in Int
    <2>1. dir[path] \in Job /\ arg \in Job
      BY <1>2 DEF Commanded, Renamed, Placed, Leads
    <2> QED
      BY <2>1 DEF Outliving, User, Typed, ServerTyped, Child
  <1> QED
    BY <1>1, <1>2, OrphanSteps DEF Typed, OrphansTyped

LEMMA ServerStep ==
  ASSUME Typed, Serving, [Next]_vars
  PROVE  ServerTyped'
  <1>1. jobs' = jobs /\ Cached' = Cached
    BY JobsFixed DEF Cached, User, Job
  <1>2. Reply("ALREADY") \/ Reply("NO_FILE") \/ Reply("NULL") \/ Reply("FAIL") \/ Reply("OK") =>
            pc' = "idle" /\ UNCHANGED <<child, said, interrupted>>
    BY DEF Reply
  <1>3. CASE UNCHANGED <<server, passwd>>
    BY <1>1, <1>3 DEF Typed, ServerTyped, server
  <1>4. ASSUME NEW j \in Job, Receive(j) PROVE ServerTyped'
    BY <1>1, <1>4 DEF Typed, ServerTyped, Receive, PCs
  <1>5. CASE StatFile
    BY <1>1, <1>2, <1>5 DEF Typed, ServerTyped, StatFile, PCs
  <1>6. CASE KillNull \/ RenameFails
    BY <1>1, <1>2, <1>6 DEF Typed, ServerTyped, KillNull, RenameFails, PCs
  <1>7. CASE Rename
    BY <1>1, <1>7 DEF Typed, ServerTyped, Rename, PCs
  <1>8. CASE Filter \/ EndOfOutput \/ Die
    BY <1>1, <1>8 DEF Typed, ServerTyped, Filter, EndOfOutput, Die, past, PCs
  <1>9. CASE Popen \/ PopenFails
    <2>1. arg \in Job /\ jobs[arg].user \in User
      BY <1>9 DEF Popen, PopenFails, Serving, User
    <2>2. cached' \in Cached /\ passwd' \in Passwds /\ cached'.uid \in Int
      BY <1>9, <2>1, LookupTyped DEF Popen, PopenFails, Typed, ServerTyped, Cached
    <2>3. CASE Popen
      BY <1>1, <2>2, <2>3 DEF Popen, Typed, ServerTyped, Child, States, PCs
    <2>4. CASE PopenFails
      BY <1>1, <1>2, <2>2, <2>4 DEF PopenFails, Typed, ServerTyped, PCs
    <2> QED
      BY <1>9, <2>3, <2>4
  <1>10. ASSUME NEW result \in {"queued", "disabled", "failed"}, CommandActs(result) PROVE ServerTyped'
    BY <1>1, <1>10 DEF Typed, ServerTyped, CommandActs, Child, States
  <1>11. CASE CommandEnds
    BY <1>1, <1>11 DEF Typed, ServerTyped, CommandEnds, past, Child, States
  <1>12. CASE Timeout
    BY <1>1, <1>12 DEF Typed, ServerTyped, Timeout, PCs, Child, States
  <1>13. CASE Close
    <2>1. Reply(Answer) => pc' = "idle" /\ UNCHANGED <<child, said, interrupted>>
      BY DEF Reply
    <2> QED
      BY <1>1, <1>13, <2>1 DEF Typed, ServerTyped, Close, PCs
  <1>14. CASE Restart
    <2>1. NoChild \in Child
      BY DEF NoChild, Child, States, NoUid
    <2> QED
      BY <1>1, <1>14, <2>1, NotYetTyped DEF Typed, ServerTyped, Restart, PCs
  <1>15. CASE PasswdChanges \/ OrphanActs
    BY <1>1, <1>15 DEF Typed, ServerTyped, PasswdChanges, OrphanActs, server
  <1> QED
    BY <1>3, <1>4, <1>5, <1>6, <1>7, <1>8, <1>9, <1>10, <1>11, <1>12, <1>13, <1>14, <1>15
       DEF Next, vars, PC, Serve, Command, Create, Write, Ask, Hear, GiveUp, server

LEMMA TypedStep ==
  ASSUME Typed, Serving, Placed, Commanded, [Next]_vars
  PROVE  Typed'
  <1>1. JobsTyped'
    BY JobsFixed DEF Typed, JobsTyped, Job
  <1> QED
    BY <1>1, ClientStep, RepliesStep, HandedStep, ServerStep, OrphansStep DEF Typed

-----------------------------------------------------------------------------
(* How a job fares: it is begun in its turn, leaves the plain name for a   *)
(* reason, and once renamed is only lost to another job of its name.       *)

LEMMA Names ==
  ASSUME Placed, NEW n \in DOMAIN dir
  PROVE  /\ dir[n] \in Job /\ n[1] = jobs[dir[n]].file
         /\ n = <<n[1], n[2]>> /\ n[2] \in {"", ".spl"} \cup Digits
         /\ n[2] = "" => fate[dir[n]] = "open"
         /\ n[2] # "" => fate[dir[n]] = "taken"
         /\ n[2] \in Digits => ~Unique(dir[n])
         /\ \A m \in DOMAIN dir : dir[m] = dir[n] => m = n
  <1>1. Leads(n) /\ \A m \in DOMAIN dir : dir[m] = dir[n] => m = n
    BY DEF Placed
  <1>2. PICK f, s : f = jobs[dir[n]].file /\ s \in {"", ".spl"} \cup Digits /\ n = <<f, s>>
    BY <1>1 DEF Leads
  <1>3. n = <<f, s>>
    BY <1>2
  <1>4. n[1] = f /\ n[2] = s
    BY <1>3
  <1>5. n = <<n[1], n[2]>>
    BY <1>3, <1>4, Zenon
  <1> QED
    BY <1>1, <1>2, <1>4, <1>5 DEF Leads

LEMMA Injective == Placed => \A m, n \in DOMAIN dir : dir[m] = dir[n] => m = n
  BY DEF Placed

LEMMA FateSteps ==
  ASSUME Typed, Placed, [Next]_vars, NEW i \in Job
  PROVE  \/ fate'[i] = fate[i]
         \/ fate[i] = "new" /\ fate'[i] = "open" /\ Turn(i) /\ told' = told
         \/ fate[i] = "open" /\ fate'[i] \in {"replaced", "withdrawn", "null", "taken"}
         \/ fate[i] = "taken" /\ fate'[i] = "overwritten" /\ ~Unique(i)
  <1>1. fate \in [Job -> Fates] /\ ("" \notin Digits)
    BY SpoolAssumption DEF Typed, ClientTyped
  <1>2. \A j \in Job : Plain(j) \in DOMAIN dir => fate[dir[Plain(j)]] = "open" /\ dir[Plain(j)] \in Job
    BY Names DEF Plain
  <1>3. ASSUME NEW j \in Job, Create(j)
        PROVE  \/ fate'[i] = fate[i]
               \/ fate[i] = "new" /\ fate'[i] = "open" /\ Turn(i) /\ told' = told
               \/ fate[i] = "open" /\ fate'[i] = "replaced"
    BY <1>1, <1>2, <1>3 DEF Create, pcside
  <1>4. ASSUME NEW j \in Job, GiveUp(j)
        PROVE  fate'[i] = fate[i] \/ (fate[i] = "open" /\ fate'[i] = "withdrawn")
    BY <1>1, <1>2, <1>4 DEF GiveUp
  <1>5. ASSUME KillNull
        PROVE  fate'[i] = fate[i] \/ (fate[i] = "open" /\ fate'[i] = "null")
    <2>1. CASE Plain(arg) \in DOMAIN dir
      <3>1. fate[dir[Plain(arg)]] = "open"
        BY <2>1, Names DEF Plain
      <3> QED
        BY <1>1, <1>5, <2>1, <3>1 DEF KillNull
    <2> QED
      BY <1>5, <2>1 DEF KillNull
  <1>6. ASSUME Rename
        PROVE  \/ fate'[i] = fate[i]
               \/ fate[i] = "open" /\ fate'[i] = "taken"
               \/ fate[i] = "taken" /\ fate'[i] = "overwritten" /\ ~Unique(i)
    <2>1. PICK n : fate' = [k \in Job |-> IF k = dir[Plain(arg)] THEN "taken"
                              ELSE IF n \in RandomSpl(arg) \cap DOMAIN dir /\ k = dir[n] THEN "overwritten"
                              ELSE fate[k]]
      BY <1>6 DEF Rename
    <2>2. fate[dir[Plain(arg)]] = "open"
      BY <1>6, Names DEF Rename, Plain
    <2>3. n \in RandomSpl(arg) \cap DOMAIN dir => fate[dir[n]] = "taken" /\ ~Unique(dir[n])
      <3>1. ASSUME n \in RandomSpl(arg) \cap DOMAIN dir PROVE n[2] \in Digits /\ n[2] # ""
        <4>1. PICK d \in Digits : n = <<jobs[arg].file, d>>
          BY <3>1 DEF RandomSpl
        <4> QED
          BY <1>1, <4>1
      <3> QED
        BY <3>1, Names
    <2> QED
      BY <1>1, <2>1, <2>2, <2>3
  <1> QED
    BY <1>3, <1>4, <1>5, <1>6, Frame DEF Write, Close, past

LEMMA OrderlyStep ==
  ASSUME Typed, Placed, Orderly, [Next]_vars
  PROVE  Orderly'
  <1>1. Job' = Job /\ jobs' = jobs /\ sends' = sends /\ sends \in Nat \ {0}
    BY JobsFixed DEF Job, Typed, JobsTyped
  <1>2. \A j \in Job : fate'[j] # "new" => fate[j] # "new" \/ Turn(j)
    BY FateSteps
  <1>3. \A j \in Job : fate[j] # "new" => fate'[j] # "new"
    BY FateSteps
  <1> DEFINE Same == UNCHANGED <<told, asked, calls, written>>
  <1>4. ASSUME Same PROVE Orderly'
    BY <1>1, <1>2, <1>3, <1>4 DEF Orderly, Turn
  <1>5. ASSUME NEW j \in Job, Write(j) PROVE Orderly'
    <2>1. \A k \in Job : written[k] \in Nat /\ jobs[k].size \in Nat /\ asked[k] \in Nat
      BY DEF Typed, ClientTyped, JobsTyped
    <2>2. /\ written' = [written EXCEPT ![j] = @ + 1] /\ asked[j] = 0
          /\ UNCHANGED <<asked, told, calls, fate>>
          /\ written[j] < jobs[j].size /\ written \in [Job -> Nat]
      BY <1>5 DEF Write, past, Typed, ClientTyped
    <2>3. written'[j] <= jobs[j].size /\ \A k \in Job \ {j} : written'[k] = written[k]
      BY <2>1, <2>2
    <2> QED
      BY <1>1, <2>2, <2>3 DEF Orderly
  <1>6. ASSUME NEW j \in Job, Ask(j) PROVE Orderly'
    BY <1>1, <1>6 DEF Orderly, Turn, Ask, past, Typed, ClientTyped
  <1>7. ASSUME NEW j \in Job, Hear(j) PROVE Orderly'
    <2>1. PICK c : told' = [told EXCEPT ![j] = {c}]
      BY <1>7 DEF Hear
    <2> QED
      BY <1>1, <1>7, <2>1 DEF Orderly, Turn, Hear, past, Typed, ClientTyped
  <1>8. ASSUME NEW j \in Job, GiveUp(j) PROVE Orderly'
    <2>1. \A k \in Job : fate'[k] # "new" => fate[k] # "new"
      <3>1. told' # told
        BY <1>8 DEF GiveUp, Typed, ClientTyped
      <3> QED
        BY <3>1, FateSteps
    <2> QED
      BY <1>1, <1>3, <1>8, <2>1 DEF Orderly, Turn, GiveUp, Typed, ClientTyped
  <1>9. ASSUME NEW j \in Job, Receive(j) PROVE Orderly'
    BY <1>1, <1>9 DEF Orderly, Turn, Receive, pcside, past, Typed, ClientTyped
  <1> QED
    BY <1>4, <1>5, <1>6, <1>7, <1>8, <1>9
       DEF Next, vars, PC, Serve, Command, Create, StatFile, KillNull, Rename, RenameFails, Filter, Popen,
           PopenFails, CommandActs, CommandEnds, Timeout, EndOfOutput, Close, Die, OrphanActs, Restart, PasswdChanges,
           pcside

LEMMA ServingStep ==
  ASSUME Typed, Orderly, Serving, [Next]_vars
  PROVE  Serving'
  <1>1. Job' = Job /\ \A j \in Job : asked[j] > 0 => asked'[j] > 0
    <2>1. asked' = asked \/ \E j \in Job : asked' = [asked EXCEPT ![j] = @ + 1]
      BY DEF Next, vars, PC, Serve, Command, Create, Write, Ask, Hear, GiveUp, Receive, StatFile, KillNull,
             Rename, RenameFails, Filter, Popen, PopenFails, CommandActs, CommandEnds, Timeout, EndOfOutput,
             Close, Die, OrphanActs, Restart, PasswdChanges, pcside
    <2>2. asked \in [Job -> Nat]
      BY DEF Typed, ClientTyped
    <2> QED
      BY <2>1, <2>2, JobsFixed DEF Job
  <1>2. \A r \in replies : r[1] \in Job
    BY DEF Typed, RepliesTyped
  <1>3. ASSUME UNCHANGED <<arg, replies>>, pc \notin {"idle", "dead"} \/ pc' \in {"idle", "dead"}
        PROVE  Serving'
    BY <1>1, <1>2, <1>3 DEF Serving
  <1>4. ASSUME NEW code, Reply(code), pc \notin {"idle", "dead"} PROVE Serving'
    BY <1>1, <1>2, <1>4 DEF Serving, Reply
  <1>5. ASSUME NEW j \in Job, Receive(j) PROVE Serving'
    <2>1. asked[j] > 0 /\ UNCHANGED <<asked, replies>> /\ arg' = j
      BY <1>5 DEF Receive, pcside, Orderly, Typed, ClientTyped
    <2> QED
      BY <1>1, <1>2, <2>1 DEF Serving
  <1>6. CASE StatFile \/ KillNull \/ RenameFails \/ PopenFails \/ Close
    BY <1>3, <1>4, <1>6 DEF StatFile, KillNull, RenameFails, PopenFails, Close
  <1>7. CASE Rename \/ Filter \/ Popen \/ Timeout \/ EndOfOutput \/ Die
    BY <1>3, <1>7 DEF Rename, Filter, Popen, Timeout, EndOfOutput, Die, Armed
  <1>8. CASE Restart
    BY <1>1, <1>2, <1>8 DEF Serving, Restart
  <1>9. CASE UNCHANGED <<arg, replies, pc>>
    BY <1>3, <1>9
  <1> QED
    BY <1>5, <1>6, <1>7, <1>8, <1>9
       DEF Next, vars, PC, Serve, Command, Create, Write, Ask, Hear, GiveUp, CommandActs, CommandEnds,
           OrphanActs, PasswdChanges, server

-----------------------------------------------------------------------------
(* The directory.                                                          *)

LEMMA Begun ==
  ASSUME Orderly, Typed, NEW a \in Job, asked[a] > 0
  PROVE  fate[a] # "new" /\ written[a] = jobs[a].size
  BY DEF Orderly

(* A plain name of a job that was asked for leads to that job, complete,   *)
(* or to a later one.                                                      *)
LEMMA AtPlain ==
  ASSUME Typed, Orderly, Placed, NEW a \in Job, asked[a] > 0, Plain(a) \in DOMAIN dir
  PROVE  /\ fate[dir[Plain(a)]] = "open" /\ dir[Plain(a)] \in Job
         /\ jobs[dir[Plain(a)]].file = jobs[a].file
         /\ Complete(dir[Plain(a)])
         /\ dir[Plain(a)] # a => Reused(dir[Plain(a)]) /\ ~Unique(dir[Plain(a)]) /\ ~Unique(a)
  <1> DEFINE k == dir[Plain(a)]
  <1>1. fate[k] = "open" /\ k \in Job
    BY Names DEF Plain
  <1>2. jobs[k].file = jobs[a].file
    BY Names DEF Plain
  <1>3. a <= k
    <2>1. fate[a] # "new"
      BY Begun
    <2> QED
      BY <2>1 DEF Placed, Leads, Plain
  <1>4. CASE k = a
    BY <1>1, <1>2, <1>4, Begun DEF Complete
  <1>5. CASE k # a
    <2>1. a \in Int /\ k \in Int
      BY <1>1, JobsCounted
    <2>2. a < k
      BY <1>3, <1>5, <2>1
    <2>3. Reused(k) /\ ~Unique(k) /\ ~Unique(a)
      BY <1>1, <1>2, <1>5, <2>2 DEF Reused, Unique
    <2> QED
      BY <1>1, <1>2, <2>3 DEF Complete
  <1> QED
    BY <1>4, <1>5

LEMMA StillLeads ==
  ASSUME Placed, jobs' = jobs, NEW n \in DOMAIN dir,
         dir'[n] = dir[n], fate'[dir[n]] = fate[dir[n]],
         n[2] # "" => written'[dir[n]] = written[dir[n]],
         n[2] = "" => \A a \in Job : jobs[a].file = n[1] /\ fate'[a] # "new" => fate[a] # "new"
  PROVE  Leads(n)'
  <1>1. Job' = Job
    BY DEF Job
  <1>2. Leads(n)
    BY DEF Placed
  <1>3. n[2] # "" => Complete(dir[n])'
    <2>1. n[2] # "" => Complete(dir[n])
      BY <1>2 DEF Leads
    <2> QED
      BY <1>1, <2>1 DEF Complete, Reused
  <1>4. n[2] \in Digits => ~Unique(dir[n])'
    BY <1>1, <1>2 DEF Leads, Unique
  <1> QED
    BY <1>1, <1>2, <1>3, <1>4 DEF Leads

LEMMA PlacedCreate ==
  ASSUME Typed, Orderly, Placed, NEW j \in Job, Create(j)
  PROVE  Placed'
  <1> DEFINE p == Plain(j)
  <1>1. UNCHANGED <<jobs, written>> /\ Job' = Job
    BY DEF Create, pcside, Job
  <1>2. DOMAIN dir' = DOMAIN dir \cup {p} /\ dir'[p] = j /\ \A n \in DOMAIN dir \ {p} : dir'[n] = dir[n]
    BY DEF Create, With
  <1>3. fate[j] = "new" /\ fate'[j] = "open"
    BY DEF Create
  <1>4. \A n \in DOMAIN dir : dir[n] # j
    BY <1>3, Names
  <1>5. ASSUME NEW n \in DOMAIN dir \ {p} PROVE fate'[dir[n]] = fate[dir[n]]
    <2>1. dir[n] \in Job /\ (p \in DOMAIN dir => dir[p] # dir[n])
      BY Names
    <2> QED
      BY <1>4, <2>1 DEF Create
  <1>6. ASSUME NEW n \in DOMAIN dir \ {p} PROVE Leads(n)'
    <2>1. ASSUME n[2] = "", NEW a \in Job, jobs[a].file = n[1], fate'[a] # "new" PROVE fate[a] # "new"
      <3>1. n = <<n[1], "">>
        BY <2>1, Names
      <3>2. a # j
        BY <2>1, <3>1 DEF Plain
      <3> QED
        BY <2>1, <3>2, Names DEF Create, Plain
    <2> QED
      BY <1>1, <1>2, <1>5, <2>1, StillLeads
  <1>7. ASSUME NEW n \in {p} PROVE Leads(n)'
    <2>1. p = <<jobs[j].file, "">> /\ p[2] = "" /\ p[1] = jobs[j].file /\ p[2] \notin Digits
      BY SpoolAssumption DEF Plain
    <2>2. ASSUME NEW a \in Job, fate'[a] # "new" PROVE a <= j
      <3>1. CASE fate[a] = "new"
        <4>1. a = j
          BY <2>2, <3>1, Names DEF Create, Plain
        <4> QED
          BY <4>1, JobsCounted
      <3>2. CASE fate[a] # "new" /\ j < a
        <4>1. told[j] # {}
          BY <3>2 DEF Orderly
        <4> QED
          BY <1>3, <4>1 DEF Orderly
      <3> QED
        BY <3>1, <3>2, JobsCounted
    <2> QED
      BY <1>1, <1>2, <1>3, <2>1, <2>2 DEF Leads
  <1>8. \A m, n \in DOMAIN dir' : dir'[m] = dir'[n] => m = n
    BY <1>2, <1>4, Injective
  <1> QED
    BY <1>2, <1>6, <1>7, <1>8 DEF Placed

(* A file that is removed takes no other with it.                          *)
LEMMA PlacedRemoved ==
  ASSUME Typed, Placed, jobs' = jobs, written' = written,
         NEW p \in DOMAIN dir, dir' = Without(p),
         NEW f, f # "new", fate' = [fate EXCEPT ![dir[p]] = f] \/ fate' = fate,
         fate[dir[p]] # "new"
  PROVE  Placed'
  <1>1. \A n \in DOMAIN dir' : n \in DOMAIN dir /\ n # p /\ dir'[n] = dir[n]
    BY DEF Without
  <1>2. \A a \in Job : fate'[a] # "new" => fate[a] # "new"
    BY DEF Typed, ClientTyped
  <1>3. ASSUME NEW n \in DOMAIN dir' PROVE Leads(n)'
    <2>1. dir[n] # dir[p] /\ dir[n] \in Job
      BY <1>1, Names
    <2>2. fate'[dir[n]] = fate[dir[n]]
      BY <2>1 DEF Typed, ClientTyped
    <2> QED
      BY <1>1, <1>2, <2>2, StillLeads
  <1>4. \A m, n \in DOMAIN dir' : dir'[m] = dir'[n] => m = n
    BY <1>1, Injective
  <1> QED
    BY <1>3, <1>4 DEF Placed

LEMMA PlacedRename ==
  ASSUME Typed, Orderly, Serving, Placed, Rename
  PROVE  Placed'
  <1>1. arg \in Job /\ asked[arg] > 0 /\ Plain(arg) \in DOMAIN dir
    BY DEF Rename, Serving
  <1>2. UNCHANGED <<jobs, written>> /\ Job' = Job
    BY DEF Rename, pcside, Job
  <1>3. PICK p, k : p = Plain(arg) /\ k = dir[p]
    OBVIOUS
  <1>4. /\ fate[k] = "open" /\ k \in Job /\ jobs[k].file = jobs[arg].file
        /\ Complete(k)
    BY <1>1, <1>3, AtPlain
  <1>5. PICK n \in FreeNames :
            /\ dir' = With(Without(p), n, k)
            /\ fate' = [i \in Job |-> IF i = k THEN "taken"
                            ELSE IF n \in RandomSpl(arg) \cap DOMAIN dir /\ i = dir[n] THEN "overwritten"
                            ELSE fate[i]]
    BY <1>3 DEF Rename, Moved
  <1>6. PICK s : /\ n = <<jobs[arg].file, s>> /\ s # "" /\ s \in {".spl"} \cup Digits
                 /\ s \in Digits => Spl(arg) \in DOMAIN dir
    <2>1. CASE Spl(arg) \in DOMAIN dir
      BY <1>5, <2>1, SpoolAssumption DEF FreeNames, RandomSpl
    <2>2. CASE Spl(arg) \notin DOMAIN dir
      <3>1. ".spl" \notin Digits
        BY SpoolAssumption
      <3> QED
        BY <1>5, <2>2, <3>1 DEF FreeNames, Spl
    <2> QED
      BY <2>1, <2>2
  <1>7. n # p /\ n[1] = jobs[arg].file /\ n[2] = s
    BY <1>3, <1>6 DEF Plain
  <1>8. /\ DOMAIN dir' = (DOMAIN dir \ {p}) \cup {n} /\ dir'[n] = k
        /\ \A m \in DOMAIN dir \ {p, n} : dir'[m] = dir[m]
    BY <1>5, <1>7 DEF With, Without
  <1>9. \A a \in Job : fate'[a] # "new" => fate[a] # "new"
    <2>1. n \in DOMAIN dir => fate[dir[n]] # "new"
      BY Names
    <2> QED
      BY <1>4, <1>5, <2>1
  <1>10. ASSUME NEW m \in DOMAIN dir \ {p, n} PROVE Leads(m)'
    <2>1. dir[m] \in Job /\ dir[m] # k /\ (n \in DOMAIN dir => dir[m] # dir[n])
      BY <1>1, <1>3, Names, Injective
    <2>2. fate'[dir[m]] = fate[dir[m]]
      BY <1>5, <2>1
    <2> QED
      BY <1>2, <1>8, <1>9, <2>2, StillLeads
  <1>11. Leads(n)'
    <2>1. fate'[k] = "taken" /\ Complete(k)'
      BY <1>2, <1>4, <1>5 DEF Complete, Reused
    <2>2. ASSUME s \in Digits PROVE ~Unique(k)'
      <3>1. PICK q : q = Spl(arg) /\ q \in DOMAIN dir
        BY <1>6, <2>2
      <3>2. q[2] # "" /\ q[1] = jobs[arg].file /\ q[1] = jobs[dir[q]].file
        BY <3>1, Names DEF Spl
      <3>3. fate[dir[q]] = "taken" /\ dir[q] \in Job
        BY <3>1, <3>2, Names
      <3>4. jobs[dir[q]].file = jobs[arg].file
        BY <3>2
      <3> QED
        BY <1>2, <1>4, <3>3, <3>4 DEF Unique
    <2>3. n = <<jobs'[k].file, s>>
      BY <1>2, <1>4, <1>6, <1>7
    <2> QED
      BY <1>2, <1>4, <1>6, <1>7, <1>8, <2>1, <2>2, <2>3 DEF Leads
  <1>12. \A l, m \in DOMAIN dir' : dir'[l] = dir'[m] => l = m
    <2>1. \A m \in DOMAIN dir \ {p, n} : dir[m] # k
      BY <1>1, <1>3, Injective
    <2> QED
      BY <1>8, <2>1, Injective
  <1> QED
    BY <1>8, <1>10, <1>11, <1>12 DEF Placed

LEMMA PlacedStep ==
  ASSUME Typed, Orderly, Serving, Placed, Commanded, [Next]_vars
  PROVE  Placed'
  <1>1. jobs' = jobs /\ Job' = Job
    BY JobsFixed DEF Job
  <1>2. ASSUME NEW j \in Job, Create(j) PROVE Placed'
    BY <1>2, PlacedCreate
  <1>3. ASSUME NEW j \in Job, Write(j) PROVE Placed'
    <2>1. UNCHANGED <<dir, fate>>
      BY <1>3 DEF Write, past
    <2>2. ASSUME NEW n \in DOMAIN dir PROVE Leads(n)'
      <3>1. Leads(n)
        BY DEF Placed
      <3>2. n[2] # "" => Complete(dir[n])'
        <4>1. CASE n[2] # "" /\ written[dir[n]] = jobs[dir[n]].size
          <5>1. dir[n] \in Job /\ written \in [Job -> Nat]
            BY <3>1 DEF Leads, Typed, ClientTyped
          <5>2. dir[n] # j
            <6>1. written[j] < jobs[j].size /\ written[j] \in Nat /\ jobs[j].size \in Nat
              BY <1>3 DEF Write, Typed, ClientTyped, JobsTyped
            <6>2. written[j] # jobs[j].size
              BY <6>1
            <6> QED
              BY <4>1, <6>2
          <5>3. written'[dir[n]] = written[dir[n]]
            BY <1>3, <5>1, <5>2 DEF Write
          <5> QED
            BY <1>1, <2>1, <4>1, <5>3 DEF Complete
        <4>2. CASE n[2] # "" /\ Reused(dir[n])
          BY <1>1, <2>1, <4>2 DEF Complete, Reused
        <4> QED
          BY <3>1, <4>1, <4>2 DEF Leads, Complete
      <3>3. n[2] \in Digits => ~Unique(dir[n])'
        BY <1>1, <2>1, <3>1 DEF Leads, Unique
      <3> QED
        BY <1>1, <2>1, <3>1, <3>2, <3>3 DEF Leads
    <2> QED
      BY <2>1, <2>2 DEF Placed
  <1>4. ASSUME NEW p \in DOMAIN dir, dir' = Without(p), written' = written, NEW f, f # "new",
               fate' = [fate EXCEPT ![dir[p]] = f] \/ fate' = fate
        PROVE  Placed'
    <2>1. fate[dir[p]] # "new"
      BY Names
    <2> QED
      BY <1>1, <1>4, <2>1, PlacedRemoved
  <1>5. CASE UNCHANGED <<dir, fate, written>>
    <2>1. ASSUME NEW n \in DOMAIN dir PROVE Leads(n)'
      BY <1>1, <1>5, StillLeads
    <2> QED
      BY <1>5, <2>1 DEF Placed
  <1>6. ASSUME NEW j \in Job, GiveUp(j) PROVE Placed'
    BY <1>4, <1>5, <1>6 DEF GiveUp
  <1>7. CASE KillNull
    BY <1>4, <1>5, <1>7 DEF KillNull, pcside
  <1>8. CASE Close
    BY <1>4, <1>8 DEF Close, pcside, past, Commanded, Renamed
  <1> QED
    BY <1>2, <1>3, <1>5, <1>6, <1>7, <1>8, PlacedRename, Frame

-----------------------------------------------------------------------------
(* What was given to a command.                                            *)

Given(result) == [job |-> dir[path], size |-> written[dir[path]], user |-> jobs[arg].user,
                  uid |-> child.uid, result |-> result]

LEMMA HandedEntries == Typed => \A i \in DOMAIN handed : handed[i] \in Entry
  <1> SUFFICES ASSUME Typed, NEW i \in DOMAIN handed PROVE handed[i] \in Entry
    OBVIOUS
  <1>1. handed \in Seq(Entry)
    BY DEF Typed, HandedTyped
  <1> QED
    BY <1>1

Late(o) == [job |-> dir[o.path], size |-> written[dir[o.path]], user |-> o.user,
            uid |-> o.uid, result |-> "late"]

LEMMA HandedSteps ==
  ASSUME [Next]_vars
  PROVE  \/ UNCHANGED handed
         \/ /\ child.state = "start" /\ UNCHANGED <<dir, fate, written, asked, jobs, path, arg, replies, cached>>
            /\ \E result \in Owns : handed' = Append(handed, Given(result))
         \/ /\ UNCHANGED <<dir, fate, written, asked, jobs, server, replies>>
            /\ \E o \in orphans : /\ o.path \in DOMAIN dir /\ orphans' = orphans \ {o}
                                  /\ handed' = Append(handed, Late(o))
  <1>1. \A result \in {"queued", "disabled", "failed"} :
            CommandActs(result) => /\ child.state = "start" /\ handed' = Append(handed, Given(result))
                                   /\ UNCHANGED <<dir, fate, written, asked, jobs, path, arg, replies, cached>>
    BY DEF CommandActs, pcside, Handing, Given
  <1>2. Timeout => \/ UNCHANGED handed
                   \/ /\ child.state = "start" /\ handed' = Append(handed, Given("killed"))
                      /\ UNCHANGED <<dir, fate, written, asked, jobs, path, arg, replies, cached>>
    BY DEF Timeout, pcside, Handing, Given
  <1>3. OrphanActs => \/ UNCHANGED handed
                      \/ /\ UNCHANGED <<dir, fate, written, asked, jobs, server, replies>>
                         /\ \E o \in orphans : /\ o.path \in DOMAIN dir /\ orphans' = orphans \ {o}
                                               /\ handed' = Append(handed, Late(o))
    BY DEF OrphanActs, pcside, HandingLate, Late
  <1> QED
    BY <1>1, <1>2, <1>3
       DEF Owns, Next, vars, PC, Serve, Command, Create, Write, Ask, Hear, GiveUp, Receive, StatFile, KillNull,
           Rename, RenameFails, Filter, Popen, PopenFails, CommandEnds, EndOfOutput, Close, Die, Restart,
           PasswdChanges, past

LEMMA Appended ==
  ASSUME HandedTyped, NEW e
  PROVE  LET h == Append(handed, e) IN
         /\ DOMAIN h = DOMAIN handed \cup {Len(handed) + 1} /\ Len(handed) + 1 \notin DOMAIN handed
         /\ \A i \in DOMAIN handed : h[i] = handed[i]
         /\ h[Len(handed) + 1] = e
  BY DEF HandedTyped

(* The job that a command left behind would take.                          *)
LEMMA OrphanAt ==
  ASSUME Typed, Placed, Outlived, NEW o \in orphans, o.path \in DOMAIN dir
  PROVE  /\ o.job \in Job /\ dir[o.path] \in Job /\ jobs[dir[o.path]].file = jobs[o.job].file
         /\ fate[dir[o.path]] = "taken" /\ Complete(dir[o.path])
         /\ o.job # dir[o.path] => Reused(dir[o.path])
  <1>1. o.job \in Job /\ Outlives(o)
    BY DEF Typed, OrphansTyped, Outlived
  <1>2. PICK n, k : n = o.path /\ k = dir[n]
    OBVIOUS
  <1>3. n \in DOMAIN dir /\ n[1] = jobs[o.job].file /\ n[2] # "" /\ o.job <= k
    BY <1>1, <1>2 DEF Outlives
  <1>4. k \in Job /\ n[1] = jobs[k].file /\ fate[k] = "taken"
    BY <1>2, <1>3, Names
  <1>5. Complete(k)
    <2>1. Leads(n)
      BY <1>3 DEF Placed
    <2>2. Complete(dir[n])
      BY <1>3, <2>1 DEF Leads
    <2> QED
      BY <1>2, <2>2
  <1>6. o.job # k => Reused(k)
    <2>1. PICK a \in Job : a = o.job
      BY <1>1
    <2>2. a <= k /\ jobs[a].file = jobs[k].file
      BY <1>3, <1>4, <2>1
    <2>3. a \in Int /\ k \in Int
      BY <1>4, JobsCounted
    <2>4. a # k => a < k
      BY <2>2, <2>3
    <2>5. a < k => Reused(k)
      BY <2>2 DEF Reused
    <2> QED
      BY <2>1, <2>4, <2>5
  <1> QED
    BY <1>1, <1>2, <1>3, <1>4, <1>5, <1>6

(* Nothing that was handed is forgotten.                                   *)
LEMMA HandedGrows ==
  ASSUME Typed, [Next]_vars
  PROVE  /\ \A i \in DOMAIN handed : i \in DOMAIN handed' /\ handed'[i] = handed[i]
         /\ \A j \in Job : Handed(j) => Handed(j)'
         /\ \A j \in Job : Taken(j) => Taken(j)'
  <1>1. \A i \in DOMAIN handed : i \in DOMAIN handed' /\ handed'[i] = handed[i]
    BY HandedSteps, Appended DEF Typed
  <1> QED
    BY <1>1 DEF Handed, Taken

LEMMA FatedStep ==
  ASSUME Typed, Orderly, Serving, Placed, Fated, Commanded, NullKnown, [Next]_vars
  PROVE  Fated'
  <1>1. jobs' = jobs /\ Job' = Job /\ fate \in [Job -> Fates]
    BY JobsFixed DEF Job, Typed, ClientTyped
  <1>2. \A j \in Job : Unique(j)' = Unique(j) /\ Reused(j)' = Reused(j)
    BY <1>1 DEF Unique, Reused
  <1>3. \A j \in Job : Handed(j) => Handed(j)'
    BY HandedGrows
  <1>4. ASSUME NEW i \in Job,
               fate'[i] \in {"open", "taken"} => InDir(i)' \/ Handed(i),
               fate'[i] = "null" => fate[i] = "null" \/ jobs[i].size = 0 \/ Reused(i),
               fate'[i] \in {"replaced", "overwritten"} => fate'[i] = fate[i] \/ ~Unique(i)
        PROVE  /\ fate'[i] \in {"open", "taken"} => InDir(i)' \/ Handed(i)'
               /\ fate'[i] = "null" => jobs'[i].size = 0 \/ Reused(i)'
               /\ fate'[i] \in {"replaced", "overwritten"} => ~Unique(i)'
    BY <1>1, <1>2, <1>3, <1>4 DEF Fated
  <1>5. CASE UNCHANGED <<dir, fate>>
    <2>1. \A i \in Job : InDir(i) => InDir(i)'
      BY <1>5 DEF InDir
    <2> QED
      BY <1>1, <1>4, <1>5, <2>1 DEF Fated
  <1>6. ASSUME NEW j \in Job, Create(j) PROVE Fated'
    <2>1. ASSUME NEW i \in Job, fate'[i] \in {"open", "taken"} PROVE InDir(i)' \/ Handed(i)
      <3>1. CASE i = j
        BY <1>6, <3>1 DEF Create, With, InDir
      <3>2. CASE i # j
        <4>1. fate'[i] = fate[i] /\ ~(Plain(j) \in DOMAIN dir /\ dir[Plain(j)] = i)
          BY <1>1, <1>6, <2>1, <3>2 DEF Create
        <4>2. InDir(i) => InDir(i)'
          BY <1>6, <4>1 DEF Create, With, InDir
        <4> QED
          BY <2>1, <4>1, <4>2 DEF Fated
      <3> QED
        BY <3>1, <3>2
    <2>2. ASSUME NEW i \in Job, fate'[i] # fate[i], fate'[i] # "open" PROVE fate'[i] = "replaced" /\ ~Unique(i)
      <3>1. i # j /\ Plain(j) \in DOMAIN dir /\ dir[Plain(j)] = i /\ fate'[i] = "replaced"
        BY <1>1, <1>6, <2>2 DEF Create
      <3>2. jobs[i].file = jobs[j].file
        BY <3>1, Names DEF Plain
      <3> QED
        BY <3>1, <3>2 DEF Unique
    <2> QED
      BY <1>1, <1>4, <2>1, <2>2 DEF Fated
  <1>7. ASSUME NEW p \in DOMAIN dir, dir' = Without(p), NEW f, f \notin {"open", "taken"},
               fate' = [fate EXCEPT ![dir[p]] = f]
        PROVE  \A i \in Job : /\ fate'[i] \in {"open", "taken"} => InDir(i)' \/ Handed(i)
                              /\ fate'[i] # fate[i] => fate'[i] = f /\ i = dir[p]
    <2> SUFFICES ASSUME NEW i \in Job, i # dir[p] PROVE InDir(i) => InDir(i)'
      BY <1>1, <1>7 DEF Fated
    <2> QED
      BY <1>7 DEF Without, InDir
  <1>8. ASSUME NEW j \in Job, GiveUp(j) PROVE Fated'
    BY <1>1, <1>4, <1>5, <1>7, <1>8 DEF GiveUp, Fated
  <1>9. CASE KillNull
    <2>1. CASE Plain(arg) \notin DOMAIN dir
      BY <1>5, <1>9, <2>1 DEF KillNull
    <2>2. CASE Plain(arg) \in DOMAIN dir
      <3>1. arg \in Job /\ asked[arg] > 0
        BY <1>9 DEF KillNull, Serving
      <3>2. jobs[dir[Plain(arg)]].size = 0 \/ Reused(dir[Plain(arg)])
        BY <1>9, <2>2, <3>1, AtPlain DEF KillNull, NullKnown
      <3> QED
        BY <1>1, <1>4, <1>7, <1>9, <2>2, <3>2 DEF KillNull, Fated
    <2> QED
      BY <2>1, <2>2
  <1>10. CASE Rename
    <2>1. arg \in Job /\ Plain(arg) \in DOMAIN dir
      BY <1>10 DEF Rename, Serving
    <2>2. PICK p, k : p = Plain(arg) /\ k = dir[p]
      OBVIOUS
    <2>3. PICK n \in FreeNames :
              /\ dir' = With(Without(p), n, k)
              /\ fate' = [i \in Job |-> IF i = k THEN "taken"
                              ELSE IF n \in RandomSpl(arg) \cap DOMAIN dir /\ i = dir[n] THEN "overwritten"
                              ELSE fate[i]]
      BY <1>10, <2>2 DEF Rename, Moved
    <2>4. n \in DOMAIN dir => n \in RandomSpl(arg)
      BY <2>3 DEF FreeNames
    <2>5. n \in DOMAIN dir => ~Unique(dir[n])
      <3>1. n \in RandomSpl(arg) => n[2] \in Digits
        BY DEF RandomSpl
      <3> QED
        BY <2>4, <3>1, Names
    <2>6. ASSUME NEW i \in Job, fate'[i] \in {"open", "taken"} PROVE InDir(i)' \/ Handed(i)
      <3>1. CASE i = k
        BY <2>3, <3>1 DEF With, InDir
      <3>2. CASE i # k
        <4>1. fate'[i] = fate[i] /\ (n \in DOMAIN dir => dir[n] # i)
          BY <2>3, <2>4, <2>6, <3>2
        <4>2. ASSUME NEW m \in DOMAIN dir, dir[m] = i PROVE InDir(i)'
          <5>1. m # n /\ m # p
            BY <2>2, <3>2, <4>1, <4>2
          <5>2. m \in DOMAIN dir' /\ dir'[m] = i
            BY <2>3, <4>2, <5>1 DEF With, Without
          <5> QED
            BY <5>2 DEF InDir
        <4> QED
          BY <2>6, <4>1, <4>2 DEF Fated, InDir
      <3> QED
        BY <3>1, <3>2
    <2> QED
      BY <1>1, <1>4, <2>3, <2>5, <2>6 DEF Fated
  <1>11. CASE Close
    <2>1. Handed(dir[path]) /\ UNCHANGED fate /\ dir' = Without(path)
      BY <1>11 DEF Close, Commanded, past
    <2>2. ASSUME NEW i \in Job, InDir(i) PROVE InDir(i)' \/ Handed(i)
      BY <2>1, <2>2 DEF InDir, Without
    <2> QED
      BY <1>1, <1>4, <2>1, <2>2 DEF Fated
  <1> QED
    BY <1>5, <1>6, <1>8, <1>9, <1>10, <1>11, Frame DEF Write, past

(* A complete job is taken once more, with a reason if it is not the first *)
(* time.                                                                   *)
LEMMA TakenOnce ==
  ASSUME Typed, HandedOnce, UNCHANGED <<jobs, fate>>, NEW j \in Job, fate[j] = "taken", Complete(j),
         NEW e, e.job = j, e.size = written[j], handed' = Append(handed, e),
         \A k \in DOMAIN handed : handed[k].job = j =>
             /\ "late" \in {handed[k].result, e.result}
             /\ Reused(j) \/ "killed" \in {handed[k].result, e.result}
  PROVE  HandedOnce'
  <1>1. Job' = Job /\ \A k \in Job : Reused(k)' = Reused(k)
    BY DEF Job, Reused
  <1>2. \A i \in DOMAIN handed : handed[i].job \in Job
    BY HandedEntries DEF Entry
  <1>3. PICK l : /\ DOMAIN handed' = DOMAIN handed \cup {l} /\ l \notin DOMAIN handed /\ handed'[l] = e
                 /\ \A i \in DOMAIN handed : handed'[i] = handed[i]
    BY Appended DEF Typed
  <1>4. \A i \in DOMAIN handed' : fate'[handed'[i].job] \in {"taken", "overwritten"}
    BY <1>3 DEF HandedOnce
  <1>5. ASSUME NEW i \in DOMAIN handed', NEW k \in DOMAIN handed' \ {i}, handed'[k].job = handed'[i].job
        PROVE  /\ "late" \in {handed'[i].result, handed'[k].result}
               /\ Reused(handed[i].job)' \/ "killed" \in {handed'[i].result, handed'[k].result}
    <2>1. handed'[i].job \in Job
      BY <1>2, <1>3
    <2>2. CASE i \in DOMAIN handed /\ k \in DOMAIN handed
      BY <1>1, <1>3, <1>5, <2>1, <2>2 DEF HandedOnce, PrintedOnce
    <2>3. CASE i = l /\ k \in DOMAIN handed
      BY <1>1, <1>3, <1>5, <2>3
    <2>4. CASE k = l /\ i \in DOMAIN handed
      BY <1>1, <1>3, <1>5, <2>4
    <2> QED
      BY <1>3, <2>2, <2>3, <2>4
  <1>6. ASSUME NEW i \in DOMAIN handed'
        PROVE  handed'[i].size = jobs'[handed'[i].job].size \/ Reused(handed[i].job)'
    <2>1. handed'[i].job \in Job /\ (handed'[i].size = jobs[handed'[i].job].size \/ Reused(handed'[i].job))
      <3>1. CASE i = l
        BY <1>3, <3>1 DEF Complete
      <3>2. CASE i \in DOMAIN handed
        BY <1>2, <1>3, <3>2 DEF HandedOnce, PrintedOnce
      <3> QED
        BY <1>3, <3>1, <3>2
    <2> QED
      BY <1>1, <2>1
  <1> QED
    BY <1>4, <1>5, <1>6 DEF HandedOnce, PrintedOnce

LEMMA HandedOnceStep ==
  ASSUME Typed, Placed, HandedOnce, Commanded, Outlived, [Next]_vars
  PROVE  HandedOnce'
  <1>1. jobs' = jobs /\ Job' = Job
    BY JobsFixed DEF Job
  <1>3. \A i \in DOMAIN handed : handed[i].job \in Job
    BY HandedEntries DEF Entry
  <1>4. CASE UNCHANGED handed
    <2>1. \A j \in Job : fate[j] \in {"taken", "overwritten"} => fate'[j] \in {"taken", "overwritten"}
      BY FateSteps
    <2> QED
      BY <1>1, <1>3, <1>4, <2>1 DEF HandedOnce, PrintedOnce, Reused
  <1>5. ASSUME child.state = "start", UNCHANGED <<dir, fate>>, NEW result \in Owns,
               handed' = Append(handed, Given(result))
        PROVE  HandedOnce'
    <2>1. PICK j \in Job : j = dir[path] /\ fate[j] = "taken" /\ Complete(j) /\ Fresh(j)
      <3>1. path \in DOMAIN dir /\ path[2] # ""
        BY <1>5 DEF Commanded, Renamed
      <3>2. Leads(path)
        BY <3>1 DEF Placed
      <3> QED
        BY <1>5, <3>1, <3>2 DEF Leads, Commanded
    <2>2. PICK e : e = Given(result) /\ e.job = j /\ e.size = written[j]
      <3>1. Given(result).job = j /\ Given(result).size = written[j]
        BY <2>1 DEF Given
      <3> QED
        BY <3>1
    <2>3. \A k \in DOMAIN handed : handed[k].job = j => Reused(j) /\ handed[k].result = "late"
      BY <2>1 DEF Fresh, Own, Handed
    <2> QED
      BY <1>1, <1>5, <2>1, <2>2, <2>3, TakenOnce
  <1>6. ASSUME UNCHANGED fate, NEW o \in orphans, o.path \in DOMAIN dir,
               handed' = Append(handed, Late(o))
        PROVE  HandedOnce'
    <2>1. PICK j \in Job : /\ j = dir[o.path] /\ fate[j] = "taken" /\ Complete(j)
                           /\ o.job # j => Reused(j)
      BY <1>6, OrphanAt
    <2>2. PICK e : e = Late(o) /\ e.job = j /\ e.size = written[j] /\ e.result = "late"
      <3>1. Late(o).job = j /\ Late(o).size = written[j] /\ Late(o).result = "late"
        BY <2>1 DEF Late
      <3> QED
        BY <3>1
    <2>3. \A k \in DOMAIN handed : handed[k].job = j => Reused(j) \/ handed[k].result = "killed"
      BY <2>1 DEF Outlived, Outlives, Took
    <2> QED
      BY <1>1, <1>6, <2>1, <2>2, <2>3, TakenOnce
  <1> QED
    BY <1>4, <1>5, <1>6, HandedSteps

-----------------------------------------------------------------------------
(* The server and its command.                                             *)

LEMMA CommandedStep ==
  ASSUME Typed, Serving, Placed, HandedOnce, Commanded, Outlived, [Next]_vars
  PROVE  Commanded'
  <1>1. jobs' = jobs /\ Job' = Job
    BY JobsFixed DEF Job
  <1>2. DOMAIN child = {"state", "uid"} /\ child \in Child
    BY DEF Typed, ServerTyped, Child
  (* The PC leaves renamed files alone. *)
  <1>3. ASSUME PC, Renamed PROVE Renamed' /\ dir'[path] = dir[path]
    <2>1. \A j \in Job : Plain(j) # path
      <3>1. \A j \in Job : Plain(j)[2] = ""
        BY DEF Plain
      <3> QED
        BY <1>3, <3>1 DEF Renamed
    <2>2. PICK j \in Job : Create(j) \/ Write(j) \/ Ask(j) \/ Hear(j) \/ GiveUp(j)
      BY <1>3 DEF PC
    <2>3. UNCHANGED <<path, arg>> /\ (dir' = dir \/ dir' = With(dir, Plain(j), j) \/ dir' = Without(Plain(j)))
      BY <2>2 DEF Create, Write, Ask, Hear, GiveUp, server, past
    <2> QED
      BY <1>1, <1>3, <2>1, <2>3 DEF Renamed, With, Without
  <1>4. CASE PC
    <2>1. UNCHANGED <<pc, child, handed, orphans, said, interrupted, path>>
      BY <1>4 DEF PC, Create, Write, Ask, Hear, GiveUp, server, past
    <2>2. Renamed => /\ Handed(dir[path])' = Handed(dir[path])
                     /\ Taken(dir[path])' = Taken(dir[path])
                     /\ Fresh(dir[path])' = Fresh(dir[path])
      BY <1>1, <1>3, <1>4, <2>1 DEF Handed, Taken, Fresh, Own, Reused
    <2> QED
      BY <1>3, <1>4, <2>1, <2>2 DEF Commanded
  <1>5. CASE UNCHANGED <<dir, path, arg, child, handed, orphans, said, interrupted, pc>>
    <2>1. /\ Renamed' = Renamed /\ Handed(dir[path])' = Handed(dir[path])
          /\ Taken(dir[path])' = Taken(dir[path]) /\ Fresh(dir[path])' = Fresh(dir[path])
      BY <1>1, <1>5 DEF Renamed, Handed, Taken, Fresh, Own, Reused
    <2> QED
      BY <1>5, <2>1 DEF Commanded
  <1>6. ASSUME pc \notin {"read", "dead"}, UNCHANGED child, pc' \notin {"filter", "popen", "read", "close"}
        PROVE  Commanded'
    BY <1>6 DEF Commanded
  <1>7. ASSUME NEW code, Reply(code) PROVE pc' = "idle" /\ UNCHANGED <<child, path, arg, said, interrupted>>
    BY <1>7 DEF Reply
  <1>8. CASE (\E j \in Job : Receive(j)) \/ StatFile \/ KillNull \/ RenameFails \/ PopenFails \/ Close
    BY <1>6, <1>7, <1>8 DEF Receive, StatFile, KillNull, RenameFails, PopenFails, Close
  <1>9. CASE Rename
    <2>1. PICK k : k = dir[Plain(arg)]
      OBVIOUS
    <2>2. fate[k] = "open" /\ arg \in Job
      BY <1>9, <2>1, Names DEF Rename, Serving, Plain
    <2>3. ~Handed(k) /\ \A o \in orphans : o.job # k
      BY <2>2 DEF HandedOnce, Handed, Outlived, Outlives
    <2>4. PICK n \in FreeNames : path' = n /\ dir' = Moved(n)
      BY <1>9 DEF Rename
    <2>5. n[1] = jobs[arg].file /\ n[2] # ""
      <3>1. CASE n = Spl(arg)
        BY <3>1 DEF Spl
      <3>2. CASE n \in RandomSpl(arg)
        <4>1. PICK d \in Digits : n = <<jobs[arg].file, d>>
          BY <3>2 DEF RandomSpl
        <4>2. n[1] = jobs[arg].file /\ n[2] = d
          BY <4>1
        <4> QED
          BY <4>2, SpoolAssumption
      <3> QED
        BY <2>4, <3>1, <3>2 DEF FreeNames
    <2>6. path' \in DOMAIN dir' /\ dir'[path'] = k
      BY <2>1, <2>4 DEF Moved, With
    <2>7. Renamed' /\ Fresh(dir[path])'
      BY <1>1, <1>9, <2>2, <2>3, <2>4, <2>5, <2>6 DEF Renamed, Handed, Own, Fresh, Rename
    <2> QED
      BY <1>9, <2>7 DEF Commanded, Rename
  <1>10. CASE Filter \/ Popen
    <2>1. UNCHANGED <<dir, path, arg, handed, orphans>> /\ (Renamed /\ Fresh(dir[path]))
      BY <1>10 DEF Filter, Popen, Commanded, past
    <2>2. Renamed' /\ Fresh(dir[path])'
      BY <1>1, <2>1 DEF Renamed, Handed, Own, Fresh, Reused
    <2> QED
      BY <1>10, <2>2 DEF Filter, Popen, Commanded
  <1>11. ASSUME NEW result \in Owns, child.state = "start", handed' = Append(handed, Given(result)),
                UNCHANGED <<dir, path>>
         PROVE  /\ Handed(dir[path])'
                /\ result \in {"queued", "failed"} => Taken(dir[path])'
    <2>1. PICK l : l \in DOMAIN handed' /\ handed'[l] = Given(result)
      BY <1>11, Appended DEF Typed
    <2>2. handed'[l].job = dir'[path'] /\ handed'[l].result = result
      BY <1>11, <2>1 DEF Given
    <2> QED
      BY <2>1, <2>2 DEF Handed, Taken
  <1>12. ASSUME NEW result \in {"queued", "disabled", "failed"}, CommandActs(result) PROVE Commanded'
    <2>1. /\ UNCHANGED <<dir, path, arg, pc, interrupted>> /\ child.state = "start" /\ child'.state = "acted"
          /\ handed' = Append(handed, Given(result)) /\ said' = (result = "disabled")
      BY <1>2, <1>12 DEF CommandActs, Handing, Given
    <2>2. Renamed' /\ pc' \in {"read", "dead"}
      BY <1>1, <2>1 DEF Commanded, Renamed
    <2>3. Handed(dir[path])' /\ (~said' => Taken(dir[path])')
      BY <1>11, <2>1 DEF Owns
    <2> QED
      BY <2>1, <2>2, <2>3 DEF Commanded
  <1>13. CASE Timeout
    <2>1. UNCHANGED <<dir, path, arg>> /\ pc = "read" /\ pc' \in {"close", "dead"} /\ interrupted' = TRUE
          /\ child'.state = "ended"
      BY <1>2, <1>13 DEF Timeout, Armed
    <2>2. Renamed' /\ (child.state = "start" \/ Handed(dir[path]))
      BY <1>1, <2>1 DEF Commanded, Renamed
    <2>3. Handed(dir[path])'
      <3>1. CASE child.state = "start"
        BY <1>11, <1>13, <2>1, <3>1 DEF Timeout, Handing, Given, Owns
      <3>2. CASE child.state # "start"
        BY <1>13, <2>1, <2>2, <3>2 DEF Timeout, Handed
      <3> QED
        BY <3>1, <3>2
    <2> QED
      BY <2>1, <2>2, <2>3 DEF Commanded
  <1>14. CASE CommandEnds
    <2>1. UNCHANGED <<dir, path, arg, pc, said, interrupted, handed, orphans>> /\ child.state # "start"
          /\ child'.state \notin {"start", "none"}
      BY <1>2, <1>14 DEF CommandEnds, past
    <2>2. /\ Renamed' = Renamed /\ Handed(dir[path])' = Handed(dir[path])
          /\ Taken(dir[path])' = Taken(dir[path]) /\ Fresh(dir[path])' = Fresh(dir[path])
      BY <1>1, <2>1 DEF Renamed, Handed, Taken, Fresh, Own, Reused
    <2> QED
      BY <2>1, <2>2 DEF Commanded
  <1>15. CASE EndOfOutput
    <2>1. UNCHANGED <<dir, path, arg, child, said, interrupted, handed>> /\ child.state \notin {"start", "none"}
          /\ pc = "read" /\ pc' = "close"
      BY <1>15 DEF EndOfOutput, past
    <2> QED
      BY <1>1, <2>1 DEF Commanded, Renamed, Handed, Taken
  <1>16. CASE Die
    <2>1. UNCHANGED <<dir, path, arg, child, handed, orphans>> /\ pc' = "dead"
      BY <1>16 DEF Die, past
    <2>2. Renamed' = Renamed /\ Fresh(dir[path])' = Fresh(dir[path])
      BY <1>1, <2>1 DEF Renamed, Handed, Fresh, Own, Reused
    <2> QED
      BY <2>1, <2>2 DEF Commanded
  <1>17. CASE Restart
    BY <1>17 DEF Restart, NoChild, Commanded
  <1>18. CASE PasswdChanges \/ UNCHANGED vars
    BY <1>5, <1>18 DEF PasswdChanges, server, past, vars
  (* A command left behind takes no job that is Fresh but one whose name is reused. *)
  <1>19. ASSUME UNCHANGED <<dir, server>>, NEW o \in orphans, o.path \in DOMAIN dir, orphans' = orphans \ {o},
                handed' = Append(handed, Late(o))
         PROVE  Commanded'
    <2>1. UNCHANGED <<pc, arg, path, child, said, interrupted>> /\ (Renamed => Renamed')
      BY <1>1, <1>19 DEF server, Renamed
    <2>2. PICK l : /\ DOMAIN handed' = DOMAIN handed \cup {l} /\ handed'[l] = Late(o)
                   /\ \A i \in DOMAIN handed : handed'[i] = handed[i]
      BY <1>19, Appended DEF Typed
    <2>3. (Handed(dir[path]) => Handed(dir[path])') /\ (Taken(dir[path]) => Taken(dir[path])')
      BY <1>19, <2>1, <2>2 DEF Handed, Taken
    <2>4. ASSUME Fresh(dir[path]) PROVE Fresh(dir[path])'
      <3>1. PICK j : j = dir[path] /\ j = dir'[path']
        BY <1>19, <2>1
      <3>2. handed'[l].result = "late" /\ handed'[l].job = dir[o.path]
        BY <2>2 DEF Late
      <3>3. ~Own(j)'
        BY <2>2, <2>4, <3>1, <3>2 DEF Fresh, Own
      <3>4. dir[o.path] = j => Reused(j)
        BY <1>19, <2>4, <3>1, OrphanAt DEF Fresh
      <3>5. Handed(j)' => Reused(j)'
        BY <1>1, <2>2, <2>4, <3>1, <3>2, <3>4 DEF Fresh, Handed, Reused
      <3> QED
        BY <1>19, <2>4, <3>1, <3>3, <3>5 DEF Fresh
    <2> QED
      BY <2>1, <2>3, <2>4 DEF Commanded
  <1>20. CASE OrphanActs
    <2>1. PICK o \in orphans : /\ orphans' = orphans \ {o} /\ UNCHANGED <<dir, server>>
                               /\ handed' = IF o.path \in DOMAIN dir THEN HandingLate(o) ELSE handed
      BY <1>20 DEF OrphanActs
    <2>2. CASE o.path \in DOMAIN dir
      BY <1>19, <2>1, <2>2 DEF HandingLate, Late
    <2>3. CASE o.path \notin DOMAIN dir
      <3>1. UNCHANGED <<pc, arg, path, child, said, interrupted, handed>>
        BY <2>1, <2>3 DEF server
      <3>2. /\ Renamed' = Renamed /\ Handed(dir[path])' = Handed(dir[path])
            /\ Taken(dir[path])' = Taken(dir[path]) /\ (Fresh(dir[path]) => Fresh(dir[path])')
        BY <1>1, <2>1, <3>1 DEF Renamed, Handed, Taken, Fresh, Own, Reused
      <3> QED
        BY <3>1, <3>2 DEF Commanded
    <2> QED
      BY <2>2, <2>3
  <1> QED
    BY <1>4, <1>8, <1>9, <1>10, <1>12, <1>13, <1>14, <1>15, <1>16, <1>17, <1>18, <1>20
       DEF Next, Serve, Command

(* What a command left behind can still find under its path.               *)
LEMMA PathLater ==
  ASSUME Typed, Serving, Placed, Outlived, [Next]_vars, NEW o \in orphans, o.path \in DOMAIN dir'
  PROVE  o.job <= dir'[o.path]
  <1>1. /\ o.job \in Job /\ o.path[1] = jobs[o.job].file /\ o.path[2] # "" /\ fate[o.job] # "new"
        /\ o.path \in DOMAIN dir => o.job <= dir[o.path]
    BY DEF Typed, OrphansTyped, Outlived, Outlives
  <1>2. \A j \in Job : Plain(j) # o.path
    <2>1. \A j \in Job : Plain(j)[2] = ""
      BY DEF Plain
    <2> QED
      BY <1>1, <2>1
  <1>3. ASSUME o.path \in DOMAIN dir, dir'[o.path] = dir[o.path] PROVE o.job <= dir'[o.path]
    BY <1>1, <1>3
  <1>4. ASSUME NEW j \in Job, Create(j) \/ Write(j) \/ GiveUp(j)
        PROVE  o.path \in DOMAIN dir /\ dir'[o.path] = dir[o.path]
    BY <1>2, <1>4 DEF Create, Write, GiveUp, With, Without, past
  <1>5. CASE KillNull \/ Close \/ UNCHANGED dir
    BY <1>3, <1>5 DEF KillNull, Close, Without
  <1>6. CASE Rename
    <2>1. PICK p, k : p = Plain(arg) /\ k = dir[p]
      OBVIOUS
    <2>2. arg \in Job /\ p \in DOMAIN dir /\ p[1] = jobs[arg].file /\ p[2] = ""
      BY <1>6, <2>1 DEF Rename, Serving, Plain
    <2>3. PICK n \in FreeNames : dir' = With(Without(p), n, k)
      BY <1>6, <2>1 DEF Rename, Moved
    <2>4. n[1] = jobs[arg].file
      BY <2>3 DEF FreeNames, RandomSpl, Spl
    <2>5. CASE o.path = n
      <3>1. Leads(p)
        BY <2>2 DEF Placed
      <3>2. o.job <= k
        BY <1>1, <2>1, <2>2, <2>4, <2>5, <3>1 DEF Leads
      <3> QED
        BY <2>3, <2>5, <3>2 DEF With
    <2>6. CASE o.path # n
      BY <1>3, <2>3, <2>6 DEF With, Without
    <2> QED
      BY <2>5, <2>6
  <1> QED
    BY <1>3, <1>4, <1>5, <1>6, Frame

LEMMA OutlivedStep ==
  ASSUME Typed, Serving, Placed, Commanded, Outlived, [Next]_vars
  PROVE  Outlived'
  <1>1. jobs' = jobs /\ Job' = Job /\ \A j \in Job : Reused(j)' = Reused(j)
    BY JobsFixed DEF Job, Reused
  <1>2. \A o \in orphans : o.job \in Job /\ Outlives(o)
    BY DEF Typed, OrphansTyped, Outlived
  (* Nobody but the command itself takes its job, or the name is reused. *)
  <1>3. ASSUME NEW o \in orphans, o \in orphans', Took(o.job)' PROVE Reused(o.job)
    <2>1. CASE UNCHANGED handed
      BY <1>2, <1>3, <2>1 DEF Took, Outlives
    <2>2. ASSUME child.state = "start", NEW result \in Owns, handed' = Append(handed, Given(result))
          PROVE  Reused(o.job)
      <3>1. o.job # dir[path]
        BY <2>2 DEF Commanded, Fresh
      <3>2. Given(result).job = dir[path]
        BY DEF Given
      <3>3. Took(o.job)
        BY <1>3, <2>2, <3>1, <3>2, Appended DEF Took, Typed
      <3> QED
        BY <1>2, <3>3 DEF Outlives
    <2>3. ASSUME NEW p \in orphans, p.path \in DOMAIN dir, orphans' = orphans \ {p},
                 handed' = Append(handed, Late(p))
          PROVE  Reused(o.job)
      <3>1. p.job # o.job
        BY <1>3, <2>3 DEF Outlived
      <3>2. Late(p).job = dir[p.path]
        BY DEF Late
      <3>3. CASE o.job = dir[p.path]
        BY <2>3, <3>1, <3>3, OrphanAt
      <3>4. CASE o.job # dir[p.path]
        <4>1. Took(o.job)
          BY <1>3, <2>3, <3>2, <3>4, Appended DEF Took, Typed
        <4> QED
          BY <1>2, <4>1 DEF Outlives
      <3> QED
        BY <3>3, <3>4
    <2> QED
      BY <2>1, <2>2, <2>3, HandedSteps
  <1>4. ASSUME NEW o \in orphans, o \in orphans' PROVE Outlives(o)'
    <2>1. o.job \in Job /\ o.path[1] = jobs[o.job].file /\ o.path[2] # ""
          /\ fate[o.job] \in {"taken", "overwritten"}
      BY <1>2 DEF Outlives
    <2>2. fate'[o.job] \in {"taken", "overwritten"}
      BY <2>1, FateSteps
    <2>3. o.path \in DOMAIN dir' => o.job <= dir'[o.path]
      BY PathLater
    <2>4. Took(o.job)' => Reused(o.job)'
      BY <1>1, <1>3, <1>4, <2>1
    <2> QED
      BY <1>1, <2>1, <2>2, <2>3, <2>4 DEF Outlives
  <1>5. CASE orphans' \subseteq orphans
    BY <1>4, <1>5 DEF Outlived
  <1>6. CASE /\ child.state = "start" /\ orphans' = orphans \cup {Outliving}
             /\ UNCHANGED <<dir, fate, written, jobs>>
             /\ handed' \in {handed, Handing("killed")}
    <2>1. PICK j : j = dir[path] /\ Fresh(j)
      BY <1>6 DEF Commanded
    <2>2. Outliving.job = j /\ Outliving.path = path
      BY <2>1 DEF Outliving
    <2>3. path \in DOMAIN dir /\ path[2] # "" /\ path[1] = jobs[arg].file
      BY <1>6 DEF Commanded, Renamed
    <2>4. j \in Job /\ path[1] = jobs[j].file /\ fate[j] = "taken" /\ j <= dir[path]
      <3>1. j \in Job /\ path[1] = jobs[j].file /\ fate[j] = "taken"
        BY <2>1, <2>3, Names
      <3> QED
        BY <2>1, <3>1, JobsCounted
    <2>5. Took(j)' => Took(j)
      <3>1. Given("killed").result = "killed" /\ Handing("killed") = Append(handed, Given("killed"))
        BY DEF Given, Handing
      <3> QED
        BY <1>6, <3>1, Appended DEF Took, Typed
    <2>6. Took(j)' => Reused(j)'
      BY <1>1, <2>1, <2>4, <2>5 DEF Fresh, Took, Handed
    <2>7. PICK q : q = Outliving /\ q.job = j /\ q.path = path
      BY <2>2
    <2>8. Outlives(q)'
      BY <1>1, <1>6, <2>1, <2>3, <2>4, <2>6, <2>7 DEF Outlives
    <2>9. \A o \in orphans : o.job # q.job
      BY <2>1, <2>7 DEF Fresh
    <2>10. \A o \in orphans' : Outlives(o)'
      BY <1>4, <1>6, <2>7, <2>8
    <2>11. \A o, p \in orphans' : o.job = p.job => o = p
      BY <1>6, <2>7, <2>9 DEF Outlived
    <2> QED
      BY <2>10, <2>11 DEF Outlived
  <1> QED
    BY <1>5, <1>6, OrphanSteps


LEMMA NullKnownStep ==
  ASSUME Typed, Orderly, Serving, Placed, NullKnown, [Next]_vars
  PROVE  NullKnown'
  <1>1. jobs' = jobs /\ Job' = Job
    BY JobsFixed DEF Job
  <1>2. pc = "null" => arg \in Job /\ fate[arg] # "new"
    BY Begun DEF Serving
  <1>3. ASSUME pc = "null", UNCHANGED arg,
               Plain(arg) \in DOMAIN dir' /\ dir'[Plain(arg)] = arg =>
                   Plain(arg) \in DOMAIN dir /\ dir[Plain(arg)] = arg
        PROVE  NullKnown'
    BY <1>1, <1>3 DEF NullKnown, Unique, Plain
  <1>4. CASE PC /\ pc = "null"
    <2>1. PICK j \in Job : Create(j) \/ Write(j) \/ Ask(j) \/ Hear(j) \/ GiveUp(j)
      BY <1>4 DEF PC
    <2>2. UNCHANGED arg
      BY <2>1 DEF Create, Write, Ask, Hear, GiveUp, server
    <2>3. dir' = dir \/ (dir' = With(dir, Plain(j), j) /\ fate[j] = "new") \/ dir' = Without(Plain(j))
      BY <2>1 DEF Create, Write, Ask, Hear, GiveUp, past
    <2>4. Plain(arg) \in DOMAIN dir' /\ dir'[Plain(arg)] = arg =>
              Plain(arg) \in DOMAIN dir /\ dir[Plain(arg)] = arg
      BY <1>2, <1>4, <2>3 DEF With, Without
    <2> QED
      BY <1>3, <1>4, <2>2, <2>4
  <1>5. CASE StatFile
    <2>1. CASE pc' = "null"
      <3>1. /\ UNCHANGED <<arg, dir>> /\ Plain(arg) \in DOMAIN dir /\ written[dir[Plain(arg)]] = 0
            /\ arg \in Job /\ asked[arg] > 0
        BY <1>5, <2>1 DEF StatFile, Serving, Reply
      <3>2. dir[Plain(arg)] = arg => jobs[arg].size = 0
        BY <3>1, Begun
      <3>3. dir[Plain(arg)] # arg => ~Unique(arg)
        BY <3>1, AtPlain
      <3> QED
        BY <1>1, <3>1, <3>2, <3>3 DEF NullKnown, Unique, Plain
    <2> QED
      BY <2>1 DEF NullKnown
  <1>6. CASE (Command \/ OrphanActs \/ PasswdChanges \/ UNCHANGED vars) /\ pc = "null"
    BY <1>3, <1>6 DEF Command, CommandActs, CommandEnds, OrphanActs, PasswdChanges, server, vars
  <1>7. CASE pc' # "null"
    BY <1>7 DEF NullKnown
  <1>8. ASSUME NEW code, Reply(code) PROVE pc' # "null"
    BY <1>8 DEF Reply
  <1> QED
    BY <1>4, <1>5, <1>6, <1>7, <1>8
       DEF Next, PC, Serve, Create, Write, Ask, Hear, GiveUp, Receive, KillNull, Rename, RenameFails, Filter, Popen,
           PopenFails, EndOfOutput, Close, Timeout, Die, Restart, Command, CommandActs, CommandEnds, OrphanActs,
           PasswdChanges, server, vars

LEMMA LookupRight ==
  ASSUME Typed, Privileged, NEW user, NEW c, c = Lookup(user)
  PROVE  /\ c.user # "" => \E p \in Passwds : c.uid = UidOf(p, c.user)
         /\ user # "" => \E p \in Passwds : c.uid = UidOf(p, user)
  <1>1. passwd \in Passwds
    BY DEF Typed, ServerTyped
  <1>2. CASE user = cached.user
    BY <1>2 DEF Lookup, Privileged
  <1>3. CASE user # cached.user
    <2>1. c = [user |-> user, uid |-> UidOf(passwd, user)] \/ (c = NoUser /\ UidOf(passwd, user) = NoUid)
      BY <1>3 DEF Lookup, UidOf
    <2>2. c.uid = UidOf(passwd, user) /\ ((c.user = user) \/ (c.user = "" /\ c.uid = NoUid))
      <3>1. CASE c = [user |-> user, uid |-> UidOf(passwd, user)]
        <4>1. /\ [user |-> user, uid |-> UidOf(passwd, user)].user = user
              /\ [user |-> user, uid |-> UidOf(passwd, user)].uid = UidOf(passwd, user)
          OBVIOUS
        <4> QED
          BY <3>1, <4>1
      <3>2. CASE c = NoUser /\ UidOf(passwd, user) = NoUid
        <4>1. NoUser.user = "" /\ NoUser.uid = NoUid
          BY DEF NoUser
        <4> QED
          BY <3>2, <4>1
      <3> QED
        BY <2>1, <3>1, <3>2
    <2> QED
      BY <1>1, <2>2
  <1> QED
    BY <1>2, <1>3

(* The command that is about to act has the right of the user who asked.   *)
LEMMA ChildIsRight ==
  ASSUME Typed, Placed, Commanded, Privileged, child.state = "start"
  PROVE  UidRight(child.uid, jobs[arg].user) /\ UserRight(dir[path], jobs[arg].user)
  <1>1. path \in DOMAIN dir /\ path[1] = jobs[arg].file /\ arg \in Job
    BY DEF Commanded, Renamed
  <1>2. jobs[arg].file = jobs[dir[path]].file
    <2>1. PICK n, k : n = path /\ k = dir[n]
      OBVIOUS
    <2>2. n \in DOMAIN dir /\ n[1] = jobs[k].file
      BY <1>1, <2>1, Names
    <2> QED
      BY <1>1, <2>1, <2>2
  <1> QED
    BY <1>1, <1>2 DEF Privileged, UserRight

LEMMA PrivilegedStep ==
  ASSUME Typed, Serving, Placed, Commanded, Outlived, Privileged, [Next]_vars
  PROVE  Privileged'
  <1>1. jobs' = jobs /\ Job' = Job
    BY JobsFixed DEF Job
  <1> DEFINE CachedRight == cached.user # "" => \E p \in Passwds : cached.uid = UidOf(p, cached.user)
             ChildRight == child.state = "start" => UidRight(child.uid, jobs[arg].user)
             AllRight == \A i \in DOMAIN handed : Right(handed[i])
             OrphansRight == \A o \in orphans : Right(o)
  <1>2. ASSUME Popen \/ PopenFails
        PROVE  CachedRight' /\ (jobs[arg].user # "" => \E p \in Passwds : cached'.uid = UidOf(p, jobs[arg].user))
    <2>1. cached' = Lookup(jobs[arg].user)
      BY <1>2 DEF Popen, PopenFails
    <2> QED
      BY <2>1, LookupRight
  <1>3. CachedRight'
    <2>1. CASE UNCHANGED cached
      BY <2>1 DEF Privileged
    <2>2. CASE Restart
      <3>1. NotYet.user = ""
        BY DEF NotYet
      <3> QED
        BY <2>2, <3>1 DEF Restart
    <2> QED
      BY <1>2, <2>1, <2>2
         DEF Next, vars, PC, Serve, Command, Create, Write, Ask, Hear, GiveUp, Receive, StatFile, KillNull,
             Rename, RenameFails, Filter, CommandActs, CommandEnds, OrphanActs, Timeout, EndOfOutput, Close, Die,
             PasswdChanges, server
  <1>4. ChildRight'
    <2>1. CASE child'.state # "start"
      BY <2>1
    <2>2. CASE UNCHANGED <<child, arg>>
      BY <1>1, <2>2 DEF Privileged
    <2>3. CASE Popen
      <3>1. child'.uid = cached'.uid /\ MayRun(cached'.uid) /\ arg' = arg
        BY <2>3 DEF Popen
      <3> QED
        BY <1>1, <1>2, <2>3, <3>1 DEF UidRight
    <2>4. CASE \E j \in Job : Receive(j)
      BY <2>1, <2>4 DEF Receive, Commanded
    <2>5. CASE Restart
      BY <2>1, <2>5 DEF Restart, NoChild
    <2>6. DOMAIN child = {"state", "uid"}
      BY DEF Typed, ServerTyped, Child
    <2>7. CASE Command
      BY <2>1, <2>6, <2>7 DEF Command, CommandActs, CommandEnds
    <2>8. CASE Timeout
      BY <2>1, <2>6, <2>8 DEF Timeout
    <2>9. \A code : Reply(code) => UNCHANGED <<child, arg>>
      BY DEF Reply
    <2> QED
      BY <2>2, <2>3, <2>4, <2>5, <2>7, <2>8, <2>9
         DEF Next, vars, PC, Serve, Create, Write, Ask, Hear, GiveUp, StatFile, KillNull, Rename, RenameFails,
             Filter, PopenFails, OrphanActs, EndOfOutput, Close, Die, PasswdChanges, server
  <1>5. ASSUME NEW e, Right(e) PROVE Right(e)'
    BY <1>1, <1>5 DEF Right, UidRight, UserRight
  <1>6. ASSUME NEW e, Right(e), handed' = Append(handed, e) PROVE AllRight'
    <2>1. PICK l : /\ DOMAIN handed' = DOMAIN handed \cup {l} /\ handed'[l] = e
                   /\ \A i \in DOMAIN handed : handed'[i] = handed[i]
      BY <1>6, Appended DEF Typed
    <2>2. \A i \in DOMAIN handed' : Right(handed'[i])
      BY <1>6, <2>1 DEF Privileged
    <2> QED
      BY <1>5, <2>2
  <1>7. AllRight'
    <2>1. CASE UNCHANGED handed
      BY <1>5, <2>1 DEF Privileged
    <2>2. ASSUME child.state = "start", NEW result \in Owns, handed' = Append(handed, Given(result))
          PROVE  AllRight'
      <3>1. /\ Given(result).uid = child.uid /\ Given(result).user = jobs[arg].user
            /\ Given(result).job = dir[path]
        BY DEF Given
      <3>2. Right(Given(result))
        BY <2>2, <3>1, ChildIsRight DEF Right
      <3> QED
        BY <1>6, <2>2, <3>2
    <2>3. ASSUME NEW o \in orphans, o.path \in DOMAIN dir, handed' = Append(handed, Late(o))
          PROVE  AllRight'
      <3>1. Late(o).uid = o.uid /\ Late(o).user = o.user /\ Late(o).job = dir[o.path]
        BY DEF Late
      <3>2. jobs[dir[o.path]].file = jobs[o.job].file
        BY <2>3, OrphanAt
      <3>3. Right(Late(o))
        BY <3>1, <3>2 DEF Privileged, Right, UserRight
      <3> QED
        BY <1>6, <2>3, <3>3
    <2> QED
      BY <2>1, <2>2, <2>3, HandedSteps
  <1>8. OrphansRight'
    <2>1. ASSUME child.state = "start" PROVE Right(Outliving)
      <3>1. Outliving.uid = child.uid /\ Outliving.user = jobs[arg].user /\ Outliving.job = dir[path]
        BY DEF Outliving
      <3> QED
        BY <2>1, <3>1, ChildIsRight DEF Right
    <2>2. \A o \in orphans' : Right(o)
      BY <2>1, OrphanSteps DEF Privileged
    <2> QED
      BY <1>5, <2>2
  <1> QED
    BY <1>3, <1>4, <1>7, <1>8 DEF Privileged

-----------------------------------------------------------------------------
(* The answers.                                                            *)

TrueOf(j, code) ==
    /\ code = "OK" => Taken(j)
    /\ code = "NULL" => jobs[j].size = 0
    /\ code = "NO_FILE" => Handed(j) \/ fate[j] \in {"null", "withdrawn"}
    /\ code = "ALREADY" => fate[j] = "taken"

LEMMA AnswersByCode == AnswersTrue <=> \A r \in replies : Unique(r[1]) => TrueOf(r[1], r[2])
  BY DEF AnswersTrue, TrueOf, Taken, Unique

LEMMA AnswersByCodeNext == AnswersTrue' <=> \A r \in replies' : Unique(r[1])' => TrueOf(r[1], r[2])'
  BY DEF AnswersTrue, TrueOf, Taken, Unique

LEMMA StaysTrue ==
  ASSUME Typed, Placed, [Next]_vars, NEW j \in Job, Unique(j), NEW code, TrueOf(j, code)
  PROVE  TrueOf(j, code)'
  <1>1. jobs' = jobs
    BY JobsFixed
  <1>2. (Taken(j) => Taken(j)') /\ (Handed(j) => Handed(j)')
    BY HandedGrows
  <1>3. /\ fate[j] = "taken" => fate'[j] = "taken"
        /\ fate[j] \in {"null", "withdrawn"} => fate'[j] = fate[j]
    BY FateSteps
  <1> QED
    BY <1>1, <1>2, <1>3 DEF TrueOf

LEMMA AnswersStep ==
  ASSUME Typed, Orderly, Serving, Placed, Fated, Commanded, NullKnown, AnswersTrue, [Next]_vars
  PROVE  AnswersTrue'
  <1>1. jobs' = jobs /\ Job' = Job
    BY JobsFixed DEF Job
  <1>2. ASSUME NEW r \in replies, Unique(r[1])' PROVE TrueOf(r[1], r[2])'
    <2>1. r[1] \in Job
      BY DEF Typed, RepliesTyped
    <2>2. Unique(r[1])
      BY <1>1, <1>2 DEF Unique
    <2> QED
      BY <2>1, <2>2, StaysTrue, AnswersByCode
  <1>3. CASE UNCHANGED replies
    BY <1>2, <1>3, AnswersByCodeNext
  <1>4. ASSUME NEW code, Reply(code), arg \in Job, Unique(arg) => TrueOf(arg, code)
        PROVE  AnswersTrue'
    <2>2. ASSUME NEW r \in replies', Unique(r[1])' PROVE TrueOf(r[1], r[2])'
      <3>1. CASE r \in replies
        BY <1>2, <2>2, <3>1
      <3>2. CASE r = <<arg, code>>
        <4>1. r[1] = arg /\ r[2] = code
          BY <3>2
        <4>2. Unique(arg)
          BY <1>1, <2>2, <4>1 DEF Unique
        <4>3. TrueOf(r[1], r[2])
          BY <1>4, <4>1, <4>2
        <4> QED
          BY <1>4, <4>1, <4>2, <4>3, StaysTrue
      <3> QED
        BY <1>4, <3>1, <3>2 DEF Reply
    <2> QED
      BY <2>2, AnswersByCodeNext
  <1>5. CASE StatFile
    <2>1. CASE UNCHANGED replies
      BY <1>3, <2>1
    <2>2. CASE Plain(arg) \notin DOMAIN dir /\ Spl(arg) \in DOMAIN dir /\ Reply("ALREADY")
      <3>1. PICK q : q = Spl(arg) /\ q \in DOMAIN dir
        BY <2>2
      <3>2. q[2] # "" /\ q[1] = jobs[arg].file
        BY <3>1 DEF Spl
      <3>3. dir[q] \in Job /\ fate[dir[q]] = "taken" /\ jobs[dir[q]].file = jobs[arg].file
        BY <3>1, <3>2, Names
      <3>4. Unique(arg) => fate[arg] = "taken"
        BY <3>3 DEF Unique
      <3> QED
        BY <1>4, <1>5, <2>2, <3>4 DEF StatFile, Serving, TrueOf
    <2>3. CASE Plain(arg) \notin DOMAIN dir /\ Spl(arg) \notin DOMAIN dir /\ Reply("NO_FILE")
      <3>1. arg \in Job /\ fate[arg] # "new" /\ fate[arg] \in Fates
        BY <1>5, Begun DEF StatFile, Serving, Typed, ClientTyped
      <3>2. ASSUME Unique(arg) PROVE ~InDir(arg)
        <4> SUFFICES ASSUME NEW n \in DOMAIN dir, dir[n] = arg PROVE FALSE
          BY DEF InDir
        <4>1. n[2] \notin Digits /\ n = <<jobs[arg].file, n[2]>> /\ n[2] \in {"", ".spl"} \cup Digits
          BY <3>2, Names
        <4> QED
          BY <2>3, <4>1 DEF Plain, Spl
      <3>3. Unique(arg) => Handed(arg) \/ fate[arg] \in {"null", "withdrawn"}
        BY <3>1, <3>2 DEF Fated, Fates
      <3> QED
        BY <1>4, <2>3, <3>1, <3>3 DEF TrueOf
    <2> QED
      BY <1>5, <2>1, <2>2, <2>3 DEF StatFile
  <1>6. CASE KillNull
    BY <1>4, <1>6 DEF KillNull, Serving, NullKnown, TrueOf
  <1>7. CASE RenameFails \/ PopenFails
    BY <1>4, <1>7 DEF RenameFails, PopenFails, Serving, TrueOf
  <1>8. CASE Close
    <2>1. CASE Answer = "OK"
      <3>1. PICK j : j = dir[path] /\ Taken(j)
        BY <1>8, <2>1 DEF Close, Commanded, Answer
      <3>2. arg \in Job /\ path \in DOMAIN dir /\ path[1] = jobs[arg].file
        BY <1>8 DEF Close, Commanded, Renamed
      <3>3. j \in Job /\ jobs[j].file = jobs[arg].file
        BY <3>1, <3>2, Names
      <3>4. Unique(arg) => Taken(arg)
        BY <3>1, <3>2, <3>3 DEF Unique
      <3> QED
        BY <1>4, <1>8, <2>1, <3>2, <3>4 DEF Close, TrueOf
    <2>2. CASE Answer = "FAIL"
      BY <1>4, <1>8, <2>2 DEF Close, Serving, TrueOf
    <2> QED
      BY <2>1, <2>2 DEF Answer
  <1> QED
    BY <1>3, <1>5, <1>6, <1>7, <1>8
       DEF Next, vars, PC, Serve, Command, Create, Write, Ask, Hear, GiveUp, Receive, Rename, Filter, Popen,
           CommandActs, CommandEnds, Timeout, EndOfOutput, Die, OrphanActs, Restart, PasswdChanges, server

-----------------------------------------------------------------------------
(* The invariant and what follows from it.                                 *)

LEMMA InitInv == Init => Inv
  <1> SUFFICES ASSUME Init PROVE Inv
    OBVIOUS
  <1>1. Typed
    BY InitTyped
  <1>2. Orderly
    <2>1. ASSUME NEW j \in Job
          PROVE  /\ fate[j] = "new" /\ told[j] = {} /\ asked[j] = 0 /\ calls[j] = 0 /\ written[j] = 0
                 /\ sends \in Nat /\ jobs[j].size \in Nat
      BY <1>1 DEF Init, Typed, JobsTyped
    <2> QED
      BY <2>1 DEF Orderly
  <1>3. Serving /\ Placed /\ Commanded /\ Outlived /\ NullKnown
    BY DEF Init, Serving, Placed, Commanded, Outlived, NullKnown, NoChild
  <1>4. Fated
    BY DEF Init, Fated
  <1>5. HandedOnce /\ AnswersTrue
    <2>1. DOMAIN handed = {} /\ replies = {}
      BY DEF Init
    <2> QED
      BY <2>1 DEF HandedOnce, PrintedOnce, AnswersTrue
  <1>6. Privileged
    <2>1. NotYet.user = "" /\ NoChild.state = "none"
      BY DEF NotYet, NoChild
    <2>2. DOMAIN handed = {} /\ cached = NotYet /\ child = NoChild /\ orphans = {}
      BY DEF Init
    <2> QED
      BY <2>1, <2>2 DEF Privileged
  <1> QED
    BY <1>1, <1>2, <1>3, <1>4, <1>5, <1>6 DEF Inv

LEMMA NextInv == Inv /\ [Next]_vars => Inv'
  <1> SUFFICES ASSUME Inv, [Next]_vars PROVE Inv'
    OBVIOUS
  <1>1. /\ Typed /\ Orderly /\ Serving /\ Placed /\ Fated /\ HandedOnce
        /\ Commanded /\ Outlived /\ NullKnown /\ Privileged /\ AnswersTrue
    BY DEF Inv
  <1>2. Typed' /\ Orderly' /\ Serving' /\ Placed'
    BY <1>1, TypedStep, OrderlyStep, ServingStep, PlacedStep
  <1>3. Fated' /\ HandedOnce' /\ Commanded' /\ Outlived'
    BY <1>1, FatedStep, HandedOnceStep, CommandedStep, OutlivedStep
  <1>4. NullKnown' /\ Privileged' /\ AnswersTrue'
    BY <1>1, NullKnownStep, PrivilegedStep, AnswersStep
  <1> QED
    BY <1>2, <1>3, <1>4 DEF Inv

(* The inductive invariant holds in every reachable state, however many    *)
(* jobs, calls, timeouts, deaths of the server and changes of the passwd   *)
(* file, and whatever a command that outlived them finds under its path.   *)
THEOREM Invariance == Spec => []Inv
  BY InitInv, NextInv, PTL DEF Spec

LEMMA InvTypes == Inv => TypeOK
  <1> SUFFICES ASSUME Inv PROVE TypeOK
    OBVIOUS
  <1>1. Typed /\ Orderly /\ Placed /\ Commanded
    BY DEF Inv
  <1>2. /\ passwd \in Passwds /\ pc \in PCs /\ child.state \in States /\ told \in [Job -> Told]
        /\ replies \subseteq Job \X Codes
    BY <1>1 DEF Typed, ServerTyped, ClientTyped, RepliesTyped, Child
  <1>3. ASSUME NEW j \in Job
        PROVE  written[j] \in 0..jobs[j].size /\ asked[j] \in 0..sends /\ calls[j] \in 0..sends
    <2>1. /\ written[j] \in Nat /\ asked[j] \in Nat /\ calls[j] \in Nat
          /\ jobs[j].size \in Nat /\ sends \in Nat
      BY <1>1 DEF Typed, JobsTyped, ClientTyped
    <2>2. calls[j] <= asked[j] /\ asked[j] <= sends /\ written[j] <= jobs[j].size
      BY <1>1 DEF Orderly
    <2> QED
      BY <2>1, <2>2
  <1>4. \A n \in DOMAIN dir : dir[n] \in Job
    BY <1>1 DEF Placed, Leads
  <1>5. pc \in {"filter", "popen", "read", "close"} => path \in DOMAIN dir
    BY <1>1 DEF Commanded, Renamed
  <1>6. told \in [Job -> {{}} \cup {{c} : c \in {"OK", "FAIL", "NULL", "NO_FILE", "ALREADY", "none"}}]
    <2>1. Codes \cup {"none"} = {"OK", "FAIL", "NULL", "NO_FILE", "ALREADY", "none"}
      BY DEF Codes
    <2> QED
      BY <1>2, <2>1 DEF Told
  <1> QED
    BY <1>1, <1>2, <1>3, <1>4, <1>5, <1>6 DEF TypeOK, PCs, States, Codes, Typed, OrphansTyped

(* The state has its types, and the server never loses the file it is      *)
(* about to print, whatever the PC does to the directory.                  *)
THEOREM Types == Spec => []TypeOK
  BY Invariance, InvTypes, PTL

(* The server starts one command for a job at most.  A job whose name was  *)
(* not used before is taken once at most, and complete; one whose name was *)
(* may also be taken by a command of that time that outlived its shell or  *)
(* server.  None vanishes from the directory.                              *)
THEOREM EachJobOnce == Spec => []EachOnce
  <1>1. Inv => EachOnce
    BY DEF Inv, HandedOnce, Fated, EachOnce, NothingVanishes
  <1> QED
    BY <1>1, Invariance, PTL

(* Every answer about a job whose name is its own stays true, however late *)
(* it comes.                                                               *)
THEOREM AnswersAlwaysTrue == Spec => []AnswersTrue
  <1>1. Inv => AnswersTrue
    BY DEF Inv
  <1> QED
    BY <1>1, Invariance, PTL

(* A job is taken under a uid that may print and that the user had who     *)
(* asked for it or for another job of its name, across the cache of        *)
(* su_popen, restarts and changes of the passwd file; of the empty name    *)
(* only the first is said.                                                 *)
THEOREM RightUser == Spec => []RunsAsUser
  <1>1. Inv => RunsAsUser
    BY DEF Inv, Privileged, Right, UidRight, UserRight, RunsAsUser
  <1> QED
    BY <1>1, Invariance, PTL

=============================================================================
