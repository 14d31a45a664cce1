------------------------------- MODULE Caches -------------------------------
(***************************************************************************)
(* pcnfsd: what the server remembers between calls.  The list of valid     *)
(* printers is kept until the time stamp of /etc/printcap changes          *)
(* (pcnfsd_print.c, BSD style), and the users who logged in are kept with  *)
(* their passwords and uids in a small cache (pcnfsd_cache.c).  Printers   *)
(* and passwords change behind the server's back.                          *)
(*                                                                         *)
(* Time is counted in seconds, as st_mtime is; 0 stands for the old_mtime  *)
(* of a server that has not yet seen the file.  No user has an empty       *)
(* password; a PC may send any name and password, also empty ones.         *)
(***************************************************************************)
EXTENDS Integers, SequencesExt

CONSTANTS
    Confs,          \* [lines, passwd, edits, renewals]: the printer lines of pcnfsd.conf, a
                    \* sequence of [printer, for], the passwd file, and bounds of the changes
                    \* of printcap and of passwd
    Printcaps,      \* sets of printers, or Missing
    Passwds,        \* partial functions from names to [pw, uid]
    Missing,
    NPRINTERDEFS, CACHE_SIZE,
    LastSecond

(* Users of the passwd file have names, there is a user in the cache at    *)
(* least, and no printer has the name that means "any".                    *)
ASSUME CachesAssumption ==
    /\ NPRINTERDEFS \in Nat /\ CACHE_SIZE \in Nat \ {0}
    /\ \A c \in Confs : Len(c.lines) \in Nat /\ c.passwd \in Passwds
    /\ \A p \in Passwds : /\ "" \notin DOMAIN p
                          /\ \A n \in DOMAIN p : p[n] \in [pw : {p[n].pw}, uid : Int]
    /\ \A names \in Printcaps \ {Missing} : "-" \notin names

VARIABLES
    alias,          \* the alias table
    printcap,       \* the printers, and when that was written
    clock,
    old_mtime,      \* mon_printers
    printers,       \* the list: {} is NULL
    cache,          \* User_cache
    passwd,
    answer,         \* the answer to the last call
    seen,           \* history: printcap when it was last looked at: a set of at most one
    hidden,         \* history: what may keep a change of printcap from the list
    usable,         \* history: for each name, what a login may be accepted for
    edits, renewals \* changes still to come

vars == <<alias, printcap, clock, old_mtime, printers, cache, passwd, answer, seen, hidden, usable, edits, renewals>>
printing == <<alias, printcap, old_mtime, printers, seen, hidden>>
bounds   == <<edits, renewals>>
logins   == <<cache, passwd, usable>>

Name == UNION {DOMAIN p : p \in Passwds}
Sent == Name \cup {""}
Password == {""} \cup UNION {{p[n].pw : n \in DOMAIN p} : p \in Passwds}
Printer == UNION (Printcaps \ {Missing})
Empty == [name |-> "", pw |-> "", uid |-> 0]
NoAnswer == [call |-> "none"]
UsableIn(p) == [n \in Sent |-> IF n \in DOMAIN p THEN {p[n]} ELSE {}]

(* add_printer_alias drops what does not fit in the table.                 *)
AllAliases(c) == c
AliasesOf(c) == SubSeq(c, 1, IF Len(c) < NPRINTERDEFS THEN Len(c) ELSE NPRINTERDEFS)

Init ==
    /\ \E c \in Confs : alias = AliasesOf(c.lines) /\ passwd = c.passwd
                        /\ edits = c.edits /\ renewals = c.renewals
    /\ clock = 1 /\ printcap \in [names : Printcaps, mtime : {1}]
    /\ old_mtime = 0 /\ printers = {}
    /\ usable = UsableIn(passwd)
    /\ cache = [i \in 1..CACHE_SIZE |-> Empty]
    /\ answer = NoAnswer /\ seen = {} /\ hidden = {}

-----------------------------------------------------------------------------
(* The list of printers.                                                   *)

Virtual == {alias[i].printer : i \in DOMAIN alias}
Real == IF printcap.names = Missing THEN {} ELSE printcap.names
IsAlias(pr) == pr \in Virtual
MapPrinterName(pr) == IF IsAlias(pr) THEN SelectSeq(alias, LAMBDA a : a.printer = pr)[1].for ELSE pr
Dash == "-"

(* mon_printers: what is left of the list after a look at the file.        *)
ListDroppedAfterStamping == FALSE
ListDropped == old_mtime # 0 /\ old_mtime # printcap.mtime
Monitored == IF printcap.names # Missing /\ ListDropped THEN {} ELSE printers
Stamp == IF printcap.names = Missing THEN old_mtime ELSE printcap.mtime

(* build_pr_list asks lpc, and lists the aliases alone when that fails.    *)
Lists == IF Monitored = {} THEN {Real \cup Virtual, Virtual} ELSE {Monitored}

(* A list built before the file was ever there, or without lpc, stays.     *)
Built(list) ==
    (IF printcap.names = Missing /\ seen = {} THEN {"missing"} ELSE {})
        \cup (IF list # Real \cup Virtual THEN {"lpc"} ELSE {})

Poll(list) ==
    /\ list \in Lists
    /\ printers' = list
    /\ old_mtime' = Stamp
    /\ seen' = IF printcap.names = Missing THEN seen ELSE {printcap}
    /\ hidden' = IF Monitored = {} THEN Built(list) ELSE hidden

PrList ==
    \E list \in Lists :
        /\ Poll(list)
        /\ answer' = [call |-> "list", printers |-> list]
        /\ UNCHANGED <<alias, printcap, clock, logins, bounds>>

ValidPr(pr, list) ==
    /\ list # {}
    /\ MapPrinterName(pr) = Dash \/ MapPrinterName(pr) \in list

(* pr_init: the spool directory first, which may fail, then the printer.   *)
PrInit(pr) ==
    \/ /\ answer' = [call |-> "init", printer |-> pr, res |-> "FAIL"]
       /\ UNCHANGED <<printing, clock, logins, bounds>>
    \/ \E list \in Lists :
          /\ Poll(list)
          /\ answer' = [call |-> "init", printer |-> pr,
                        res |-> IF ValidPr(pr, list) THEN "OK" ELSE "NO_SUCH_PRINTER"]
          /\ UNCHANGED <<alias, printcap, clock, logins, bounds>>

-----------------------------------------------------------------------------
(* Logins.                                                                 *)

Slots(name) == {i \in DOMAIN cache : cache[i].name = name}
First(S) == CHOOSE i \in S : \A j \in S : i <= j
Hit(name, pw) == Slots(name) # {} /\ cache[First(Slots(name))].pw = pw

(* check_cache forgets a name whose password does not fit.  The place      *)
(* keeps its password and uid under the empty name; an unused one has an   *)
(* empty password and uid 0.  A login without a name is compared with it.  *)
NotNuked(name) == cache
Nuked(name) == IF Slots(name) = {} THEN cache ELSE [cache EXCEPT ![First(Slots(name))].name = ""]

(* add_cache_entry: the others move up, the last one falls out.            *)
Entered(c, entry) == [i \in DOMAIN c |-> IF i = 1 THEN entry ELSE c[i - 1]]

Auth(name, pw) ==
    /\ IF Hit(name, pw)
       THEN /\ answer' = [call |-> "auth", name |-> name, entry |-> {[pw |-> pw, uid |-> cache[First(Slots(name))].uid]}]
            /\ UNCHANGED <<cache, usable>>
       ELSE IF name \in DOMAIN passwd /\ passwd[name].pw = pw
       THEN /\ answer' = [call |-> "auth", name |-> name, entry |-> {passwd[name]}]
            /\ cache' = Entered(Nuked(name), [name |-> name, pw |-> pw, uid |-> passwd[name].uid])
            /\ usable' = [usable EXCEPT ![name] = {passwd[name]}]
       ELSE /\ answer' = [call |-> "auth", name |-> name, entry |-> {}]
            /\ cache' = Nuked(name)
            /\ usable' = [usable EXCEPT ![name] = IF name \in DOMAIN passwd THEN {passwd[name]} ELSE {}]
    /\ UNCHANGED <<printing, clock, passwd, bounds>>

-----------------------------------------------------------------------------
(* The administrator, and time.                                            *)

(* A second change in one second is hidden from whoever looked in between. *)
EditPrintcap ==
    /\ edits > 0 /\ edits' = edits - 1
    /\ \E names \in Printcaps \ {printcap.names} : printcap' = [names |-> names, mtime |-> clock]
    /\ hidden' = IF printcap.mtime = clock /\ seen = {printcap} THEN hidden \cup {"second"} ELSE hidden
    /\ UNCHANGED <<alias, clock, old_mtime, printers, seen, answer, logins, renewals>>

ChangePasswd ==
    /\ renewals > 0 /\ renewals' = renewals - 1
    /\ passwd' \in Passwds \ {passwd}
    /\ usable' = [n \in Sent |-> usable[n] \cup UsableIn(passwd')[n]]
    /\ UNCHANGED <<printing, clock, cache, answer, edits>>

Tick ==
    /\ clock < LastSecond
    /\ clock' = clock + 1
    /\ UNCHANGED <<printing, logins, answer, bounds>>

Next ==
    \/ PrList \/ \E pr \in Printer \cup Virtual : PrInit(pr)
    \/ \E n \in Sent, pw \in Password : Auth(n, pw)
    \/ EditPrintcap \/ ChangePasswd \/ Tick
Spec == Init /\ [][Next]_vars

-----------------------------------------------------------------------------
(* Properties.                                                             *)

(* The table holds what fits; the cache never holds a name twice, so that  *)
(* no old password hides behind a new one; the stamp is one that was.      *)
TypeOK ==
    /\ Len(alias) <= NPRINTERDEFS
    /\ old_mtime \in 0..clock /\ printcap.mtime \in 1..clock
    /\ printers \subseteq Printer \cup Virtual
    /\ \A n \in Name : Cardinality(Slots(n)) <= 1

(* The list and the printers accepted are those of the file and of the     *)
(* aliases at the time of the call, unless lpc failed, the file was not    *)
(* there at the start, or it was changed twice in a second.                *)
Right(a) ==
    IF a.call = "list" THEN a.printers = Real \cup Virtual
    ELSE a.res # "FAIL" =>
            (a.res = "OK" <=> \/ MapPrinterName(a.printer) \in Real \cup Virtual
                              \/ MapPrinterName(a.printer) = Dash)
PrintersKnown ==
    [][ answer'.call \in {"list", "init"} /\ UNCHANGED printcap /\ clock' = clock
            /\ printcap.names # Missing /\ hidden' = {} => Right(answer') ]_<<answer, seen, printers>>

(* A login with a name is accepted for the password and the uid of the     *)
(* passwd file, or for older ones that no login with another password has  *)
(* yet replaced.  Of a login with the empty name nothing is said.          *)
LoginsRight ==
    [][ answer'.call = "auth" /\ answer'.name # "" => answer'.entry \subseteq usable[answer'.name] ]_<<answer, cache>>

(* pcnfsd.8c: "pcnfsd will detect when printers are added or deleted and   *)
(* will rebuild its list of valid printers."                               *)
ChangesSeen ==
    [][ answer'.call = "list" /\ UNCHANGED printcap /\ printcap.names # Missing
            /\ hidden' \in {{}, {"missing"}} => Right(answer') ]_<<answer, seen, printers>>
=============================================================================
