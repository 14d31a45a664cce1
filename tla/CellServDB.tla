----------------------------- MODULE CellServDB -----------------------------
(***************************************************************************)
(* ucsdb: brings the CellServDB of a client, and with it the cache         *)
(* manager's list of cells and the mount points in root.afs, in line with  *)
(* a central file and a private extension of it (ucsdb.c and               *)
(* csdb_operations.c).                                                     *)
(*                                                                         *)
(* The new file is written over the old one before anything is done, and   *)
(* the next run knows what is to be done only from that file: what a run   *)
(* that failed or died had left to do is what this model is about.         *)
(*                                                                         *)
(* A file is a sequence of cells, a cell a name and its set of servers.    *)
(* Left out: descriptions, whether a server is passed on by its name or    *)
(* its address, lines that cannot be parsed, and -l.                       *)
(***************************************************************************)
EXTENDS Integers, Sequences, FiniteSets, Listings
LOCAL INSTANCE SequencesExt

CONSTANTS
    Masters,        \* what the central file may hold
    Extensions,     \* what the extension may hold; empty: none was named
    LocalCell,      \* what fs wscell says
    OptionSets,     \* -n, -m and -u as a run may be given them
    Runs, Mishaps   \* bounds: of runs and changes of the inputs together, and of failures

VARIABLES
    master, extension,
    file,           \* the client's CellServDB
    known,          \* the cells and servers the cache manager knows
    mounts,         \* cells mounted in root.afs
    released,       \* cells in its released copy
    temp,           \* the temporary directory exists
    pc, options,
    newlist,
    actions,        \* actions_to_process
    rootmounted,    \* root.afs is mounted there
    outcome,        \* history: how the last run on these inputs ended
    lost,           \* history: cells the cache manager was to be told of and was not
    runs, mishaps

vars == <<master, extension, file, known, mounts, released, temp, pc, options, newlist, actions,
          rootmounted, outcome, lost, runs, mishaps>>
inputs == <<master, extension>>
tree   == <<mounts, released>>
run    == <<options, newlist>>

Entries(list) == {list[i] : i \in DOMAIN list}
Names(list) == {e.name : e \in Entries(list)}
ServersOf(list, c) == {e.servers : e \in {e \in Entries(list) : e.name = c}}
NoneTwice(list) == \A i, k \in DOMAIN list : list[i].name = list[k].name => i = k

Files == Masters \cup Extensions
Cells == UNION {Names(list) : list \in Files}
Hosts == UNION {e.servers : e \in UNION {Entries(list) : list \in Files}}
Entry == [name : Cells, servers : SUBSET Hosts]

(* The files list no cell twice: a file that does is in the other order    *)
(* after the run, and the next run finds differences again.                *)
ASSUME FilesAssumption ==
    \A list \in Files : list \in Seq(Entry) /\ NoneTwice(list)
ASSUME BoundsAssumption == Runs \in Nat /\ Mishaps \in Nat

(* afsd gives the cache manager the file at boot, cell after cell.         *)
Loaded(list) == [c \in Names(list) |-> list[CHOOSE i \in DOMAIN list :
                    list[i].name = c /\ \A k \in DOMAIN list : list[k].name = c => k <= i].servers]

Init ==
    /\ master \in Masters /\ extension \in Extensions
    /\ file \in {m \in Masters : LocalCell \in Names(m)}
    /\ known = Loaded(file) /\ mounts = Names(file) /\ released = mounts
    /\ temp = FALSE /\ pc = "idle" /\ options = {} /\ newlist = <<>> /\ actions = <<>>
    /\ rootmounted = FALSE /\ outcome = "none" /\ lost = {}
    /\ runs = Runs /\ mishaps = Mishaps

-----------------------------------------------------------------------------
(* The lists.                                                              *)

read_csdb(f) == Reverse(f)

(* The entries of a list whose names another one has not.                  *)
Without(list, names) == Picked(list, {i \in DOMAIN list : list[i].name \notin names})

MergeMasterWins(first, second) == first \o Without(second, Names(first))
merge_csdb(first, second) == Without(first, Names(second)) \o second

SameByInclusion(s, t) == s \subseteq t
same_servers(s, t) == s = t

(* The entry of the previous list that an entry is compared with.          *)
FirstOf(list, c) == list[First({i \in DOMAIN list : list[i].name = c})]

Step(kind, cell) == [kind |-> kind, name |-> cell.name, servers |-> cell.servers]

New(cell, previous) == cell.name \notin Names(previous)
Changed(cell, previous) ==
    New(cell, previous) \/ ~same_servers(cell.servers, FirstOf(previous, cell.name).servers)
ActionFor(cell, previous) ==
    Step(IF New(cell, previous) THEN "NEW_CELL" ELSE "UPDATE_SERVERS", cell)

Vanished(new, previous) == Without(previous, Names(new))

(* Each action is put in front of those found before.                      *)
build_action_list(new, previous) ==
    LET differ == Picked(new, {i \in DOMAIN new : Changed(new[i], previous)})
        stale  == Vanished(new, previous)
    IN  Reverse([i \in DOMAIN differ |-> ActionFor(differ[i], previous)]
                \o [i \in DOMAIN stale |-> Step("INVALID_CELL", stale[i])])

DeletesNothing(new, previous) == FALSE
DeletesLocal(new, previous) == LocalCell \in Names(Vanished(new, previous))

-----------------------------------------------------------------------------
(* A run.                                                                  *)

Failures(n) == n <= mishaps /\ mishaps' = mishaps - n
Exits(o) == /\ pc' = "idle" /\ outcome' = o /\ actions' = <<>> /\ rootmounted' = FALSE
Untold == {actions[i].name : i \in {i \in DOMAIN actions : actions[i].kind # "INVALID_CELL"}}

(* Reads the files and plans; a local cell that has vanished ends the run. *)
Start ==
    /\ pc = "idle" /\ runs > 0 /\ runs' = runs - 1
    /\ \E o \in OptionSets :
        LET previous == read_csdb(file)
            new  == merge_csdb(read_csdb(master), read_csdb(extension))
            todo == build_action_list(new, previous)
        IN  IF DeletesLocal(new, previous)
            THEN Exits("failed") /\ UNCHANGED run
            ELSE IF todo = <<>>
            THEN Exits("good") /\ UNCHANGED run
            ELSE IF "n" \in o
            THEN Exits(outcome) /\ UNCHANGED run
            ELSE /\ pc' = "write" /\ options' = o /\ newlist' = new /\ actions' = todo
                 /\ UNCHANGED <<rootmounted, outcome>>
    /\ UNCHANGED <<inputs, file, known, tree, temp, lost, mishaps>>

WithTemp == options \cap {"m", "u"} # {}

WriteLater ==
    /\ pc = "write"
    /\ file' = IF WithTemp THEN file ELSE newlist
    /\ pc' = IF WithTemp THEN "mkdir" ELSE "process"
    /\ UNCHANGED <<inputs, known, tree, temp, run, actions, rootmounted, outcome, lost, runs, mishaps>>
Write ==
    /\ pc = "write"
    /\ file' = newlist
    /\ pc' = IF WithTemp THEN "mkdir" ELSE "process"
    /\ UNCHANGED <<inputs, known, tree, temp, run, actions, rootmounted, outcome, lost, runs, mishaps>>

MakeTemp ==
    /\ pc = "mkdir" /\ ~temp
    /\ temp' = TRUE /\ pc' = "process"
    /\ \/ rootmounted' = TRUE /\ UNCHANGED mishaps
       \/ rootmounted' = FALSE /\ Failures(1)
    /\ UNCHANGED <<inputs, file, known, tree, run, actions, outcome, lost, runs>>

MakeTempFails ==
    /\ pc = "mkdir"
    /\ \/ temp /\ UNCHANGED mishaps
       \/ Failures(1)
    /\ Exits("failed")
    /\ lost' = lost \cup Untold
    /\ UNCHANGED <<inputs, file, known, tree, temp, run, runs>>

(* The results of the commands are not looked at: each of them may fail.   *)
Todo == Head(actions)

Newcell(cell) == /\ known' = [c \in DOMAIN known \cup {cell.name} |->
                                 IF c = cell.name THEN cell.servers ELSE known[c]]
                 /\ lost' = lost \ {cell.name}

UpdateServers ==
    /\ pc = "process" /\ actions # <<>> /\ Todo.kind = "UPDATE_SERVERS"
    /\ \/ Newcell(Todo) /\ UNCHANGED mishaps
       \/ lost' = lost \cup {Todo.name} /\ Failures(1) /\ UNCHANGED known
    /\ actions' = Tail(actions)
    /\ UNCHANGED <<inputs, file, tree, temp, pc, run, rootmounted, outcome, runs>>

NewCell ==
    /\ pc = "process" /\ actions # <<>> /\ Todo.kind = "NEW_CELL"
    /\ \E told, mounted \in BOOLEAN :
        /\ IF told THEN Newcell(Todo) ELSE lost' = lost \cup {Todo.name} /\ UNCHANGED known
        /\ mounted => "m" \in options /\ rootmounted
        /\ mounts' = IF mounted THEN mounts \cup {Todo.name} ELSE mounts
        /\ Failures((IF told THEN 0 ELSE 1)
                    + (IF ~mounted /\ "m" \in options /\ rootmounted THEN 1 ELSE 0))
    /\ actions' = Tail(actions)
    /\ UNCHANGED <<inputs, file, released, temp, pc, run, rootmounted, outcome, runs>>

InvalidCell ==
    /\ pc = "process" /\ actions # <<>> /\ Todo.kind = "INVALID_CELL"
    /\ IF "u" \in options /\ rootmounted
       THEN \/ mounts' = mounts \ {Todo.name} /\ UNCHANGED mishaps
            \/ Failures(1) /\ UNCHANGED mounts
       ELSE UNCHANGED <<mounts, mishaps>>
    /\ actions' = Tail(actions)
    /\ UNCHANGED <<inputs, file, known, released, temp, pc, run, rootmounted, outcome, lost, runs>>

(* The directory can be removed when the mount point in it could be.       *)
Finish ==
    /\ pc = "process" /\ actions = <<>>
    /\ \/ /\ WithTemp => temp' = FALSE /\ released' = mounts
          /\ ~WithTemp => UNCHANGED <<temp, released>>
          /\ UNCHANGED mishaps
       \/ WithTemp /\ temp' = FALSE /\ Failures(1) /\ UNCHANGED released
    /\ Exits("good")
    /\ UNCHANGED <<inputs, file, known, mounts, run, lost, runs>>

RemoveTempFails ==
    /\ pc = "process" /\ actions = <<>> /\ WithTemp
    /\ Failures(1)
    /\ Exits("failed")
    /\ UNCHANGED <<inputs, file, known, tree, temp, run, lost, runs>>

Run == \/ Start \/ Write \/ MakeTemp \/ MakeTempFails
       \/ UpdateServers \/ NewCell \/ InvalidCell \/ Finish \/ RemoveTempFails

-----------------------------------------------------------------------------
(* Around it.                                                              *)

(* What a run that dies while it writes leaves of the file, when it is cut *)
(* between two lines.  Of a line that is cut itself read_csdb may make     *)
(* anything, as it may search past its end for the #: not modelled.        *)
Torn(list) == {<<>>} \cup UNION {{[SubSeq(list, 1, k) EXCEPT ![k].servers = s] :
                                     s \in SUBSET list[k].servers} : k \in DOMAIN list}

Die ==
    /\ pc # "idle" /\ Failures(1)
    /\ Exits("failed")
    /\ file' \in {file} \cup (IF pc = "write" THEN Torn(newlist) ELSE {})
    /\ lost' = IF pc = "write" /\ file' = file THEN lost
               ELSE lost \cup Untold
                    \cup (IF pc = "write" /\ file' # <<>> THEN {Last(file').name} ELSE {})
    /\ UNCHANGED <<inputs, known, tree, temp, run, runs>>

(* A crash of the machine between runs: the cache manager reads the file.  *)
Reboot ==
    /\ pc = "idle" /\ Failures(1)
    /\ known' = Loaded(file) /\ lost' = {}
    /\ UNCHANGED <<inputs, file, tree, temp, pc, run, actions, rootmounted, outcome, runs>>

(* The administrator removes what a run left behind.                       *)
CleanUp ==
    /\ pc = "idle" /\ temp
    /\ temp' = FALSE
    /\ UNCHANGED <<inputs, file, known, tree, pc, run, actions, rootmounted, outcome, lost, runs, mishaps>>

NewInputs ==
    /\ pc = "idle" /\ runs > 0 /\ runs' = runs - 1
    /\ \/ master' \in Masters \ {master} /\ UNCHANGED extension
       \/ extension' \in Extensions \ {extension} /\ UNCHANGED master
    /\ outcome' = "none"
    /\ UNCHANGED <<file, known, tree, temp, pc, run, actions, rootmounted, lost, mishaps>>

Next == Run \/ Die \/ Reboot \/ CleanUp \/ NewInputs
Spec == Init /\ [][Next]_vars

-----------------------------------------------------------------------------
(* Properties.                                                             *)

(* Types; what is processed was written before, and root.afs is mounted    *)
(* only in a temporary directory that is there.                            *)
TypeOK ==
    /\ master \in Masters /\ extension \in Extensions
    /\ file \in Seq(Entry) /\ newlist \in Seq(Entry)
    /\ DOMAIN known \subseteq Cells /\ known \in [DOMAIN known -> SUBSET Hosts]
    /\ mounts \subseteq Cells /\ released \subseteq Cells /\ lost \subseteq Cells
    /\ temp \in BOOLEAN /\ rootmounted \in BOOLEAN
    /\ actions \in Seq([kind : {"NEW_CELL", "UPDATE_SERVERS", "INVALID_CELL"},
                         name : Cells, servers : SUBSET Hosts])
    /\ pc \in {"idle", "write", "mkdir", "process"}
    /\ options \in OptionSets \cup {{}}
    /\ outcome \in {"none", "good", "failed"}
    /\ pc \in {"mkdir", "process"} => file = newlist
    /\ rootmounted => temp /\ pc = "process"
    /\ runs \in 0..Runs /\ mishaps \in 0..Mishaps

(* After a run that ended in order the file lists the cells of both inputs *)
(* and no others, with the servers of the extension where both have one;   *)
(* whatever failed before. And a further run finds nothing to do: the file *)
(* it reads backwards is the list it would write.                          *)
FileRight ==
    outcome = "good" =>
        /\ pc = "idle"
        /\ Names(file) = Names(master) \cup Names(extension)
        /\ \A c \in Names(file) :
              ServersOf(file, c) = ServersOf(IF c \in Names(extension) THEN extension ELSE master, c)

(* Between runs the cache manager knows the cells of the file and their    *)
(* servers, except for what it was not told because a run died or made no  *)
(* directory, or because an fs newcell failed, which a run does not notice *)
(* and may end in order after: no later run makes up for these, unless the *)
(* entry changes again.                                                    *)
KernelFollows ==
    pc = "idle" => \A c \in Names(file) \ lost :
        c \in DOMAIN known /\ known[c] \in ServersOf(file, c)

(* csdb_operations.c: "Local cell will not be removed." Only a run that    *)
(* dies while it writes takes the local cell out of the file; and as long  *)
(* as the file has it, it stays mounted and known to the cache manager.    *)
LocalKept ==
    [][/\ LocalCell \in Names(file) => LocalCell \in Names(file') \/ (pc = "write" /\ outcome' = "failed")
       /\ LocalCell \in mounts /\ LocalCell \in Names(file) => LocalCell \in mounts'
       /\ LocalCell \in DOMAIN known /\ LocalCell \in Names(file) => LocalCell \in DOMAIN known']_vars

(* ucsdb.man: "the changed information is communicated to the cache        *)
(* manager": after a run that ended in order it knows what the file says.  *)
KernelTold ==
    outcome = "good" => \A c \in Names(file) :
        c \in DOMAIN known /\ known[c] \in ServersOf(file, c)
=============================================================================
