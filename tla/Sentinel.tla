------------------------------ MODULE Sentinel ------------------------------
(***************************************************************************)
(* The fileserver monitor sentinel/: a child process, sentinel-prober,     *)
(* probes all fileservers every few seconds and writes the results to a    *)
(* pipe; the X program reads one set of results at a time and brings its   *)
(* warnings, counters and windows up to date (handler.c, window.c).        *)
(*                                                                         *)
(* process_data runs inside one callback of the X toolkit, so buttons are  *)
(* served only between two rounds.  A round is modelled one call of        *)
(* process_server, check_disk or update_supervisor at a time.              *)
(*                                                                         *)
(* Disk sizes are given in units of 2^20 blocks: an int of 32 bits, with   *)
(* which the percentage is computed, then wraps at 2^12 of them.           *)
(***************************************************************************)
EXTENDS Integers, Sequences, FiniteSets

CONSTANTS
    NumServers,     \* servers in the configuration file
    NumDisks,       \* disks in a ViceStatistics: 10
    Name,           \* partition names
    Setups,         \* the configuration files of interest
    Answers         \* the probe results of interest for one server

Server == 1..NumServers
Slot   == 1..NumDisks

(* Label indices and formats. *)
SERVER_NAME == 0
BOOT_TIME   == 1
START_TIME  == 2
DiskLabel(d) == d + 2
Field  == 0..(NumDisks + 2)
Format == {"percent", "blocks"}

Limit == [percent : Nat, blocks : Nat]
Disk  == [name : Name, total : Nat \ {0}, avail : Nat]
NoDisk == [name |-> "", total |-> 1, avail |-> 0]

(* An answer: probeOK is nonzero when the server did not respond.          *)
Answer == [down : BOOLEAN, boot : Nat \ {0}, start : Nat \ {0},
           disk : [Slot -> Disk \cup {NoDisk}]]

(* A setup: the thresholds of the servers, and of single disks.            *)
Setup == [limits : [Server -> Limit], own : [Server -> [Name -> SUBSET Limit]]]

ASSUME SizesAssumption == NumServers \in Nat \ {0} /\ NumDisks \in Nat \ {0}
ASSUME SentinelAssumption ==
    /\ Setups \subseteq Setup
    /\ Answers \subseteq Answer
    /\ "" \notin Name

VARIABLES
    setup,      \* the parsed configuration file
    results,    \* results of the last probe
    pc,         \* idle, server, disk, super: where process_data is; exit
    at,         \* the server and the disk it is at
    down,       \* servers with SW_DOWN
    warning,    \* DW_PERCENT_FULL and DW_BLOCKS_AVAIL of each disk
    limit,      \* thresholds of each disk
    last,       \* last_percent_full and last_blocks_avail of each disk
    pending,    \* servers whose disks list was not yet looked at
    times,      \* boot_time and start_time
    entry,      \* widget_table
    warn_count, new_trouble,
    old_count,  \* warn_count at the end of the last round
    window,     \* current_shell
    format,     \* trouble_format and nitpick_format
    super       \* what the supervisor label says

disks  == <<warning, limit, last>>
counts == <<warn_count, new_trouble>>
view   == <<window, format, super, old_count>>
vars   == <<setup, results, pc, at, down, disks, pending, times, entry, counts, view>>

-----------------------------------------------------------------------------
(* Labels.                                                                 *)

None == <<"none", 0>>           \* NULL_LABEL
Unread == <<"unread", 0>>       \* LONG_MAX
Text == ({"name", "time", "percent", "blocks", "none", "unread"} \X Int)

Entry == [mode : {"clear", "warn"}, msg : [Format -> Text], n : Text, t : Text]

(* What the trouble window shows: all server names, and what is wrong.     *)
Shown(f, mode, text) == IF mode = "clear" /\ f # SERVER_NAME THEN None ELSE text

ChangeLabelEverywhere(e, f, fmt, text) ==
    [e EXCEPT !.msg[fmt] = text,
              !.n = IF fmt = format.nitpick THEN text ELSE @,
              !.t = IF fmt = format.trouble THEN text ELSE @]
ChangeLabel(e, f, fmt, text) ==
    [e EXCEPT !.msg[fmt] = text,
              !.n = IF fmt = format.nitpick THEN text ELSE @,
              !.t = IF fmt = format.trouble THEN Shown(f, e.mode, text) ELSE @]

ChangeBoth(e, f, text) == ChangeLabel(ChangeLabel(e, f, "percent", text), f, "blocks", text)

FlipLabel(e, f, mode) ==
    IF e.mode = mode THEN e
    ELSE [e EXCEPT !.mode = mode, !.t = Shown(f, mode, e.msg[format.trouble])]

Init ==
    /\ setup \in Setups
    /\ results \in [Server -> Answers]
    /\ pc = "idle"
    /\ at = [server |-> 1, disk |-> 1]
    /\ down = {}
    /\ warning = [s \in Server |-> [d \in Slot |-> {}]]
    /\ limit = [s \in Server |-> [d \in Slot |-> setup.limits[s]]]
    /\ last = [s \in Server |-> [d \in Slot |-> [percent |-> Unread, blocks |-> Unread]]]
    /\ pending = {s \in Server : \E n \in Name : setup.own[s][n] # {}}
    /\ times = [s \in Server |-> [boot |-> 0, start |-> 0]]
    /\ entry = [s \in Server |-> [f \in Field |->
                   LET text == IF f = SERVER_NAME THEN <<"name", s>> ELSE None
                   IN  [mode |-> "clear", msg |-> [fmt \in Format |-> text], n |-> text, t |-> text]]]
    /\ warn_count = 0 /\ new_trouble = 0 /\ old_count = 0
    /\ window \in {"supervisor", "trouble", "nitpicker"}
    /\ format = [trouble |-> "percent", nitpick |-> "percent"]
    /\ super = "clear"

-----------------------------------------------------------------------------
(* The round.                                                              *)

NextServerWithoutLast ==
    IF at.server + 1 < NumServers
    THEN pc' = "server" /\ at' = [server |-> at.server + 1, disk |-> 1]
    ELSE pc' = "super" /\ at' = [server |-> 1, disk |-> 1]
NextServerPastEnd ==
    IF at.server <= NumServers
    THEN pc' = "server" /\ at' = [server |-> at.server + 1, disk |-> 1]
    ELSE pc' = "super" /\ at' = [server |-> 1, disk |-> 1]
NextServer == IF at.server < NumServers
              THEN pc' = "server" /\ at' = [server |-> at.server + 1, disk |-> 1]
              ELSE pc' = "super" /\ at' = [server |-> 1, disk |-> 1]

(* read_pipe: a whole set of results, or the end of the pipe.  A read that *)
(* fails is left out: the pipe is open and blocking, and with no signal    *)
(* handler installed no read is interrupted.                               *)
ReadPipe ==
    /\ pc = "idle"
    /\ results' \in [Server -> Answers]
    /\ pc' = "server" /\ at' = [server |-> 1, disk |-> 1]
    /\ UNCHANGED <<setup, down, disks, pending, times, entry, counts, view>>

ProberDies ==
    /\ pc = "idle"
    /\ pc' = "exit"
    /\ UNCHANGED <<setup, results, at, down, disks, pending, times, entry, counts, view>>

Here == at.server
Flags(s) == {d \in Slot : "percent" \in warning[s][d]}
BlockFlags(s) == {d \in Slot : "blocks" \in warning[s][d]}

(* process_server, the server is down.  The disk flags are forgotten with  *)
(* their part of the count.                                                *)
ServerStillDown ==
    /\ pc = "server" /\ results[Here].down /\ Here \in down
    /\ NextServer
    /\ UNCHANGED <<setup, results, down, disks, pending, times, entry, counts, view>>

ForgottenOnce(s) == Cardinality(Flags(s) \cup BlockFlags(s))
Forgotten(s) == Cardinality(Flags(s)) + Cardinality(BlockFlags(s))

ForgetReadings ==
    last' = [last EXCEPT ![Here] = [d \in Slot |-> [percent |-> Unread, blocks |-> Unread]]]

ServerGoesDown ==
    /\ pc = "server" /\ results[Here].down /\ Here \notin down
    /\ down' = down \cup {Here}
    /\ entry' = [entry EXCEPT ![Here] = [f \in Field |->
                    FlipLabel(IF f = SERVER_NAME THEN @[f] ELSE ChangeBoth(@[f], f, None), f, "warn")]]
    /\ warn_count' = warn_count + 1 - Forgotten(Here)
    /\ new_trouble' = new_trouble + 1
    /\ warning' = [warning EXCEPT ![Here] = [d \in Slot |-> {}]]
    /\ ForgetReadings
    /\ NextServer
    /\ UNCHANGED <<setup, results, limit, pending, times, view>>

(* initialize_disks: a disk section that names no disk of the server ends  *)
(* the program.  The bcopy copies the first bytes of the section's struct  *)
(* disk, its warning, over the warning of the disk, not the thresholds.    *)
Sections(s) == {n \in Name : setup.own[s][n] # {}}
Reported(s) == {results[s].disk[d].name : d \in Slot}
BadPartitionName(s) == s \in pending /\ ~(Sections(s) \subseteq Reported(s))

FirstSlot(s, n) == CHOOSE d \in Slot : /\ results[s].disk[d].name = n
                                       /\ \A c \in Slot : results[s].disk[c].name = n => d <= c
Initialized(s) == IF s \in pending THEN {FirstSlot(s, n) : n \in Sections(s)} ELSE {}

(* The labels of a server that responds: highlights are cleared if it was  *)
(* down, and the times are shown if it was down or they have changed.      *)
Updated(e, f, back, new) ==
    LET flipped == IF back THEN FlipLabel(e, f, "clear") ELSE e
        old == times[Here]
    IN  CASE f = BOOT_TIME /\ (back \/ new.boot # old.boot) -> ChangeBoth(flipped, f, <<"time", new.boot>>)
          [] f = START_TIME /\ (back \/ new.start # old.start) -> ChangeBoth(flipped, f, <<"time", new.start>>)
          [] OTHER -> flipped

ServerResponds ==
    /\ pc = "server" /\ ~results[Here].down
    /\ ~BadPartitionName(Here)
    /\ down' = down \ {Here}
    /\ warn_count' = IF Here \in down THEN warn_count - 1 ELSE warn_count
    /\ warning' = [warning EXCEPT ![Here] = [d \in Slot |-> IF d \in Initialized(Here) THEN {} ELSE @[d]]]
    /\ pending' = pending \ {Here}
    /\ entry' = [entry EXCEPT ![Here] =
                    [f \in Field |-> Updated(@[f], f, Here \in down, results[Here])]]
    /\ times' = [times EXCEPT ![Here] = [boot |-> results[Here].boot, start |-> results[Here].start]]
    /\ pc' = "disk" /\ at' = [at EXCEPT !.disk = 1]
    /\ UNCHANGED <<setup, results, limit, last, new_trouble, view>>

(* The program prints "Bad partition name" and exits.                      *)
BadPartition ==
    /\ pc = "server" /\ ~results[Here].down
    /\ BadPartitionName(Here)
    /\ pc' = "exit"
    /\ UNCHANGED <<setup, results, at, down, disks, pending, times, entry, counts, view>>

NextDisk == IF at.disk < NumDisks
            THEN pc' = "disk" /\ at' = [at EXCEPT !.disk = @ + 1]
            ELSE NextServer

(* 100 * used / total in 32 bits, rounded towards zero.                    *)
Int32(x) == ((x + 2048) % 4096) - 2048
PercentFull(r) ==
    LET used == Int32(100 * (r.total - r.avail))
    IN  IF used >= 0 THEN used \div r.total ELSE -((-used) \div r.total)

(* One threshold: j is what check_disk has made of the disk's flags, its   *)
(* label and the counters so far.                                          *)
JudgeRecounting(j, f, flag, bad) ==
    IF bad
    THEN [warning |-> j.warning \cup {flag}, entry |-> FlipLabel(j.entry, f, "warn"),
          count |-> j.count + 1, fresh |-> j.fresh + 1]
    ELSE IF flag \in j.warning
    THEN [warning |-> j.warning \ {flag},
          entry |-> IF j.warning = {flag} THEN FlipLabel(j.entry, f, "clear") ELSE j.entry,
          count |-> j.count - 1, fresh |-> j.fresh]
    ELSE j
Judge(j, f, flag, bad) ==
    IF bad /\ flag \notin j.warning
    THEN [warning |-> j.warning \cup {flag}, entry |-> FlipLabel(j.entry, f, "warn"),
          count |-> j.count + 1, fresh |-> j.fresh + 1]
    ELSE IF ~bad /\ flag \in j.warning
    THEN [warning |-> j.warning \ {flag},
          entry |-> IF j.warning = {flag} THEN FlipLabel(j.entry, f, "clear") ELSE j.entry,
          count |-> j.count - 1, fresh |-> j.fresh]
    ELSE j

Refreshed(e, f, old, percent, blocks) ==
    LET e1 == IF old.percent # percent THEN ChangeLabel(e, f, "percent", percent) ELSE e
    IN  IF old.blocks # blocks THEN ChangeLabel(e1, f, "blocks", blocks) ELSE e1

Untouched(s, d) == results[s].disk[d] = NoDisk

(* check_disk *)
SkipDisk ==
    /\ pc = "disk" /\ Untouched(Here, at.disk)
    /\ NextDisk
    /\ UNCHANGED <<setup, results, down, disks, pending, times, entry, counts, view>>

CheckDisk ==
    /\ pc = "disk" /\ ~Untouched(Here, at.disk)
    /\ LET d == at.disk
           r == results[Here].disk[d]
           f == DiskLabel(d)
           lim == limit[Here][d]
           j0 == [warning |-> warning[Here][d], entry |-> entry[Here][f],
                  count |-> warn_count, fresh |-> new_trouble]
           j1 == Judge(j0, f, "percent", PercentFull(r) >= lim.percent)
           j2 == Judge(j1, f, "blocks", r.avail < lim.blocks)
           now == [percent |-> <<"percent", PercentFull(r)>>, blocks |-> <<"blocks", r.avail>>]
       IN  /\ warning' = [warning EXCEPT ![Here][d] = j2.warning]
           /\ entry' = [entry EXCEPT ![Here][f] =
                           Refreshed(j2.entry, f, last[Here][d], now.percent, now.blocks)]
           /\ last' = [last EXCEPT ![Here][d] = now]
           /\ warn_count' = j2.count /\ new_trouble' = j2.fresh
    /\ NextDisk
    /\ UNCHANGED <<setup, results, down, limit, pending, times, view>>

(* update_supervisor: the label is changed when trouble begins or ends.    *)
LabelUnlessOld == IF warn_count # 0 /\ old_count = 0 THEN "warn" ELSE super
SupervisorLabel == CASE warn_count # 0 /\ old_count = 0 -> "warn"
                     [] warn_count = 0 /\ old_count # 0 -> "clear"
                     [] OTHER -> super

UpdateSupervisor ==
    /\ pc = "super"
    /\ super' = SupervisorLabel
    /\ window' = IF new_trouble > 0 /\ window = "supervisor" THEN "trouble" ELSE window
    /\ new_trouble' = 0
    /\ old_count' = warn_count
    /\ pc' = "idle"
    /\ UNCHANGED <<setup, results, at, down, disks, pending, times, entry, warn_count, format>>

-----------------------------------------------------------------------------
(* The buttons.                                                            *)

SwitchWindow ==
    /\ pc = "idle"
    /\ window' \in {"supervisor", "trouble", "nitpicker"} \ {window}
    /\ UNCHANGED <<setup, results, pc, at, down, disks, pending, times, entry, counts, format, super, old_count>>

Other(fmt) == IF fmt = "percent" THEN "blocks" ELSE "percent"

SwitchNitpick ==
    /\ pc = "idle" /\ window = "nitpicker"
    /\ format' = [format EXCEPT !.nitpick = Other(@)]
    /\ entry' = [s \in Server |-> [f \in Field |->
                    IF f \in {DiskLabel(d) : d \in Slot}
                    THEN [entry[s][f] EXCEPT !.n = entry[s][f].msg[format'.nitpick]] ELSE entry[s][f]]]
    /\ UNCHANGED <<setup, results, pc, at, down, disks, pending, times, counts, window, super, old_count>>

SwitchTrouble ==
    /\ pc = "idle" /\ window = "trouble"
    /\ format' = [format EXCEPT !.trouble = Other(@)]
    /\ entry' = [s \in Server |-> [f \in Field |->
                    IF f \in {DiskLabel(d) : d \in Slot} /\ entry[s][f].mode = "warn"
                    THEN [entry[s][f] EXCEPT !.t = entry[s][f].msg[format'.trouble]] ELSE entry[s][f]]]
    /\ UNCHANGED <<setup, results, pc, at, down, disks, pending, times, counts, window, super, old_count>>

Quit ==
    /\ pc = "idle"
    /\ pc' = "exit"
    /\ UNCHANGED <<setup, results, at, down, disks, pending, times, entry, counts, view>>

-----------------------------------------------------------------------------
Round == ServerStillDown \/ ServerGoesDown \/ ServerResponds \/ BadPartition
            \/ SkipDisk \/ CheckDisk \/ UpdateSupervisor

Next == ReadPipe \/ ProberDies \/ Round \/ SwitchWindow \/ SwitchNitpick \/ SwitchTrouble \/ Quit

Spec == Init /\ [][Next]_vars

(* A callback that was entered runs to its end, and while the prober lives *)
(* there is another set of results after every probe delay.                *)
FairSpec == Spec /\ WF_vars(Round) /\ WF_vars(ReadPipe)

-----------------------------------------------------------------------------
(* Properties                                                              *)

(* The variables stay in their types.                                      *)
TypeOK ==
    /\ setup \in Setups
    /\ results \in [Server -> Answers]
    /\ pc \in {"idle", "server", "disk", "super", "exit"}
    /\ at \in [server : Server, disk : Slot]
    /\ down \in SUBSET Server
    /\ warning \in [Server -> [Slot -> SUBSET Format]]
    /\ limit \in [Server -> [Slot -> Limit]]
    /\ last \in [Server -> [Slot -> [percent : Text, blocks : Text]]]
    /\ pending \in SUBSET Server
    /\ times \in [Server -> [boot : Nat, start : Nat]]
    /\ entry \in [Server -> [Field -> Entry]]
    /\ warn_count \in Int /\ new_trouble \in Nat /\ old_count \in Int
    /\ window \in {"supervisor", "trouble", "nitpicker"}
    /\ format \in [trouble : Format, nitpick : Format]
    /\ super \in {"clear", "warn"}

(* warn_count, adjusted by one at eight places of process_server and      *)
(* check_disk, is at any time the number of warnings that are on: servers  *)
(* that are down and thresholds of disks that are passed.                  *)
DiskFlags == {x \in Server \X Slot \X Format : x[3] \in warning[x[1]][x[2]]}
WarnCountExact == warn_count = Cardinality(down) + Cardinality(DiskFlags)

(* In every label of both windows the text is that of the window's format, *)
(* and the trouble window hides what is not highlighted, however probes,   *)
(* format buttons and crashes of servers follow each other.                *)
DisplayFaithful ==
    \A s \in Server, f \in Field :
        LET e == entry[s][f]
        IN  /\ e.n = e.msg[format.nitpick]
            /\ e.t = Shown(f, e.mode, e.msg[format.trouble])

(* A label is highlighted exactly when its server is down or, for a disk,  *)
(* when one of its thresholds is passed.  The label with the name is thus  *)
(* plain while the server is up with a full disk: flip_label is called for *)
(* the disk's label alone.  The proposal wants it otherwise: NamesTell.    *)
HighlightExact ==
    \A s \in Server :
        /\ \A f \in {SERVER_NAME, BOOT_TIME, START_TIME} : entry[s][f].mode = "warn" <=> s \in down
        /\ \A d \in Slot : entry[s][DiskLabel(d)].mode = "warn" <=> s \in down \/ warning[s][d] # {}

(* What sentinel/proposal:30-33 says of the trouble window: the name of a  *)
(* server with any sort of problems is highlighted.  The code does not do  *)
(* so for a full disk, and no run has this as a property.                  *)
NamesTell ==
    \A s \in Server : entry[s][SERVER_NAME].mode = "warn" <=>
                         s \in down \/ \E d \in Slot : warning[s][d] # {}

(* The disk labels tell the last reading, in both formats, and nothing     *)
(* while the server is down: check_disk rewrites them only on a change.    *)
LabelsCurrent ==
    \A s \in Server, d \in Slot :
        /\ s \in down => last[s][d] = [percent |-> Unread, blocks |-> Unread]
        /\ \A fmt \in Format : entry[s][DiskLabel(d)].msg[fmt] =
               IF last[s][d][fmt] = Unread THEN None ELSE last[s][d][fmt]

(* After every round the flags tell the results: a server is down or not,  *)
(* and a disk that is reported has its flags on exactly when it passes the *)
(* limits, as long as 100 times its size fits an int.                      *)
Passes(r, lim, flag) == IF flag = "percent" THEN 100 * (r.total - r.avail) >= lim.percent * r.total
                        ELSE r.avail < lim.blocks
FlagsTell ==
    pc = "super" => \A s \in Server :
        /\ s \in down <=> results[s].down
        /\ ~results[s].down => \A d \in Slot :
               LET r == results[s].disk[d]
               IN  r # NoDisk /\ r.avail \in 0..r.total /\ 100 * r.total < 2048 =>
                       \A flag \in Format : flag \in warning[s][d] <=> Passes(r, limit[s][d], flag)

(* Between two rounds the supervisor says "Something's wrong" exactly when *)
(* some warning is on.                                                     *)
SupervisorTells == pc = "idle" => (super = "warn" <=> down # {} \/ DiskFlags # {})

(* What the windows show is what was measured, label by label: each text,  *)
(* the highlight of each label for what that label is about, and the       *)
(* supervisor's verdict.                                                   *)
DisplayExact == DisplayFaithful /\ HighlightExact /\ LabelsCurrent /\ SupervisorTells

(* A warning that comes on counts as new trouble until the end of the      *)
(* round, and after a round with new trouble the supervisor window, which  *)
(* would hide it, is replaced by the trouble window.                       *)
TroubleComesUp ==
    [][/\ (down' \ down # {} \/ DiskFlags' \ DiskFlags # {}) <=> new_trouble' > new_trouble
       /\ pc = "super" /\ new_trouble > 0 => window' # "supervisor"]_vars

(* When every server responds with all its disks below the limits from     *)
(* some probe on, the supervisor says "All clear" from some time on.       *)
Healthy(s) == /\ ~results[s].down
              /\ \A d \in Slot : LET r == results[s].disk[d]
                                  IN  /\ r # NoDisk
                                      /\ PercentFull(r) < limit[s][d].percent
                                      /\ r.avail >= limit[s][d].blocks
AllClearAtLast ==
    <>[](\A s \in Server : Healthy(s)) => <>[](super = "clear") \/ <>(pc = "exit")

(* The thresholds of the disk sections of the configuration file are in    *)
(* force once the server has been heard of.                                *)
DiskLimitsApplied ==
    \A s \in Server, n \in Name :
        s \notin pending /\ n \in Sections(s) => \E d \in Slot : limit[s][d] \in setup.own[s][n]
=============================================================================
