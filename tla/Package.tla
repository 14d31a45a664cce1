------------------------------ MODULE Package ------------------------------
(***************************************************************************)
(* package: brings the local disk of a workstation in line with a          *)
(* configuration file whose masters are files of a distributed filesystem. *)
(*                                                                         *)
(* A run has three passes.  load enters each line of the file in a tree of *)
(* nodes (loadentry.c, node.c); check compares the tree with the masters,  *)
(* and expands the directories that have one (check.c); update walks the   *)
(* tree and changes the disk, one system call after the other (update.c,   *)
(* cp.c, rm.c, mv.c, ln.c).  It may be killed between any two calls, or the*)
(* power may fail, and package is run again at the next boot.              *)
(*                                                                         *)
(* A path is a sequence of names, a name a base and the suffix package     *)
(* gives it.  The file type in a mode is a set of bits, as the code ORs    *)
(* types together; permissions are a set too, "w" for any of the bits 0222.*)
(* An optional value is a set of at most one.  Not modelled: group and     *)
(* lost+found directories.  Siblings are visited in any order.             *)
(***************************************************************************)
EXTENDS Integers, SequencesExt

CONSTANTS
    Base,           \* the names of files and directories
    Confs,          \* the configuration files of interest
    Masters,        \* the masters at the start: trees of inodes
    Disks,          \* the disks at the start
    Options,        \* the command lines of interest
    Size,           \* the size of each version of the data
    BusyTexts,      \* files that are being executed at the start
    MaxReleases, MaxMishaps

(* The bits of S_IFMT.                                                     *)
FIFO == {1}
CHR == {2}
DIR == {4}
BLK == {2, 4}
REG == {8}
LNK == {2, 8}
SOCK == {4, 8}

Kind == [B |-> BLK, C |-> CHR, D |-> DIR, F |-> REG, L |-> LNK, N |-> {}, P |-> FIFO, S |-> SOCK]

(* The letters that may follow the type.                                   *)
Mask == [B |-> {}, C |-> {}, L |-> {"abs", "init"}, N |-> {}, P |-> {}, S |-> {},
         D |-> {"abs", "clean", "copy", "update", "copyattr"},
         F |-> {"abs", "init", "old", "stat", "update"}]

Uid  == {0, 1}
Perm == {"r", "w", "x"}
Suffix == {"", "new", "old", "busy"}
Plain == Seq(Base \X {""})
Path == Seq(Base \X Suffix)

(* An inode: the data is the version of a file, 0 for a file still being   *)
(* written, or the number of a device.  A local time counts as mtime 0.    *)
Inode(type, mode, uid, mtime, data) ==
    [type |-> type, mode |-> mode, uid |-> uid, mtime |-> mtime, data |-> data, link |-> <<>>]
Link(target) == [Inode(LNK, Perm, 0, 0, 0) EXCEPT !.link = target]

NewNode == [flag |-> {}, type |-> {}, mode |-> {}, mask |-> {}, uid |-> 0,
            mtime |-> 0, size |-> 0, proto |-> <<>>, rdev |-> 0, hash |-> 0]

(* Paths, and what is above and under one.                                 *)
Above(p) == {SubSeq(p, 1, k) : k \in 0..Len(p) - 1}
Under(q, p) == p \in Above(q)
Ext(p, s) == Append(Front(p), <<Last(p)[1], s>>)

(* What every entry of a disk is in is a directory; the names with one of  *)
(* the suffixes are left to package, which gives them to files.  A line    *)
(* makes nothing but a directory of the root.                              *)
ReadOnly(inode) == "w" \notin inode.mode
NoInode == Inode({}, {}, 0, 0, 0)
IsDisk(d) ==
    /\ DOMAIN d \subseteq Path /\ <<>> \in DOMAIN d /\ d[<<>>].type = DIR
    /\ \A p \in DOMAIN d :
          /\ DOMAIN d[p] = DOMAIN NoInode
          /\ \A q \in Above(p) : q \in DOMAIN d /\ d[q].type = DIR
          /\ p \notin Plain => d[p].type = REG
          /\ d[p].type = LNK => ~ReadOnly(d[p])
Letter == {"win"} \cup UNION {Mask[k] : k \in DOMAIN Mask}
Line == [kind : DOMAIN Kind, opts : SUBSET Letter, path : Plain, proto : SUBSET Plain,
         rdev : SUBSET Nat, uid : SUBSET Uid, mode : SUBSET SUBSET Perm, hash : SUBSET Nat]

ASSUME PackageAssumption ==
    /\ Confs \subseteq Seq(Line)
    /\ \A c \in Confs : \A i \in DOMAIN c : c[i].path = <<>> => c[i].kind \in {"D", "N"}
    /\ \A m \in Masters : DOMAIN m \subseteq Plain /\ IsFiniteSet(DOMAIN m)
    /\ \A d \in Disks : IsDisk(d)
    /\ BusyTexts \subseteq Plain

VARIABLES
    conf, opts,     \* the configuration file and the command line
    vice,           \* the masters
    disk,           \* the local disk
    busy,           \* files whose text is being executed
    pc,             \* where the program is
    line,           \* lines read
    tree,           \* root
    work,           \* nodes the traversal has still to visit
    cur,            \* path
    ret,            \* ret of the function updating cur
    victims, after, \* what rm has still to remove, and what comes then
    status,         \* exit status
    before,         \* the disk when the run began
    failed,         \* a call was refused, or the machine stopped, in this run
    budget          \* releases, and crashes or failed copies, still to come

vars == <<conf, opts, vice, disk, busy, pc, line, tree, work, cur, ret, victims, after,
          status, before, failed, budget>>
world   == <<conf, opts, vice, before, budget>>
walk    == <<work, cur>>
removal == <<victims, after>>

-----------------------------------------------------------------------------
(* Trees and inodes.                                                       *)

Children(t, p) == {q \in DOMAIN t : q # <<>> /\ Front(q) = p}
Below(t, p) == {q \in DOMAIN t : Under(q, p)}
Without(t, S) == [q \in DOMAIN t \ S |-> t[q]]
With(t, p, x) == [q \in DOMAIN t \cup {p} |-> IF q = p THEN x ELSE t[q]]
WipedNot(t, p) == t
Wiped(t, p) == With(Without(t, Below(t, p)), p, NewNode)

IsFile(t, p) == p \in DOMAIN t /\ t[p].type = REG

(* stat follows a link, lstat does not.                                    *)
Exists(m) == m \in DOMAIN vice /\ (vice[m].type = LNK => vice[m].link \in DOMAIN vice)
Stat(m) == IF vice[m].type = LNK THEN vice[vice[m].link] ELSE vice[m]
Lstat(p) == IF p \in DOMAIN disk THEN disk[p] ELSE NoInode

Master(np, p) == IF "abs" \in np.flag THEN np.proto ELSE np.proto \o p

Running == {"update", "rm", "spec", "mknod", "link", "symlink", "mkdir", "clean", "reg",
            "cp", "copying", "rmold", "ln", "mv", "mvbusy", "tim", "mod", "own"}

Begin(d) ==
    /\ pc' = "load" /\ line' = 0
    /\ tree' = [q \in {<<>>} |-> NewNode]
    /\ work' = <<>> /\ cur' = <<>> /\ ret' = 0
    /\ victims' = {} /\ after' = "update"
    /\ status' = 0 /\ before' = d /\ failed' = FALSE

Init ==
    /\ conf \in Confs /\ opts \in Options
    /\ vice \in Masters /\ disk \in Disks
    /\ busy \in SUBSET {p \in BusyTexts \cap DOMAIN disk : disk[p].type = REG}
    /\ pc = "load" /\ line = 0
    /\ tree = [q \in {<<>>} |-> NewNode]
    /\ work = <<>> /\ cur = <<>> /\ ret = 0
    /\ victims = {} /\ after = "update"
    /\ status = 0 /\ before = disk /\ failed = FALSE
    /\ budget = [release |-> MaxReleases, mishap |-> MaxMishaps]

Fatal == pc' = "fatal" /\ status' = 2

-----------------------------------------------------------------------------
(* load: one line.                                                         *)

Blocked(e) == \E q \in DOMAIN tree :
    Under(e.path, q) /\ "type" \in tree[q].flag /\ tree[q].type # DIR

(* Every node on the way is a directory, if nothing was said of it yet.    *)
LookupPathUntyped(e) ==
    LET way == Above(e.path) \cup {e.path}
    IN  [q \in DOMAIN tree \cup way |-> IF q \in DOMAIN tree THEN tree[q] ELSE NewNode]
LookupPath(e) ==
    LET way == Above(e.path) \cup {e.path}
    IN  [q \in DOMAIN tree \cup way |->
            LET n == IF q \in DOMAIN tree THEN tree[q] ELSE NewNode
            IN  IF q # e.path /\ q \in way /\ "type" \notin n.flag
                THEN [n EXCEPT !.type = @ \cup DIR] ELSE n]

Flags(e) == {"type"} \cup e.opts
OneWins(a, b) == ("win" \in a) # ("win" \in b)

TypeConflict(n, e) == "type" \in n.flag /\ n.type # Kind[e.kind]
AbsConflict(n, e) == "proto" \in n.flag /\ ("abs" \in n.flag) # ("abs" \in e.opts)
Contradicts(n, e) ==
    \/ "rdev" \in n.flag /\ e.rdev \notin {{}, {n.rdev}}
    \/ "proto" \in n.flag /\ e.proto \notin {{}, {n.proto}}
    \/ "uid" \in n.flag /\ e.uid \notin {{}, {n.uid}}
    \/ "mode" \in n.flag /\ e.mode \notin {{}, {n.mode}}

Given(opt, default) == IF opt = {} THEN default ELSE CHOOSE x \in opt : TRUE
Said(opt, f) == IF opt = {} THEN {} ELSE {f}
Merged(n, e) ==
    LET type == n.type \cup Kind[e.kind]
        hash == IF type = REG THEN e.hash ELSE {}
    IN  [n EXCEPT
            !.type = type, !.rdev = Given(e.rdev, @), !.proto = Given(e.proto, @),
            !.uid = Given(e.uid, @), !.mode = @ \cup Given(e.mode, {}), !.hash = Given(hash, @),
            !.flag = @ \cup Flags(e) \cup Said(e.rdev, "rdev") \cup Said(e.proto, "proto")
                       \cup Said(e.uid, "uid") \cup Said(e.mode, "mode") \cup Said(hash, "hash")]

LoadEntry ==
    LET e == conf[line + 1]
        t == LookupPath(e)
        n == t[e.path]
        conflict == TypeConflict(n, e) \/ AbsConflict(n, e)
        wins == OneWins(n.flag, e.opts)
        loses == conflict /\ wins /\ "win" \in n.flag
        t2 == IF conflict /\ wins THEN Wiped(t, e.path) ELSE t
    IN  /\ pc = "load" /\ line < Len(conf)
        /\ UNCHANGED <<disk, busy, walk, ret, removal, failed, world>>
        /\ \/ /\ \/ ~(e.opts \subseteq Mask[e.kind] \cup {"win"})
                 \/ Blocked(e)
                 \/ TypeConflict(n, e) /\ ~wins
                 \/ ~loses /\ Contradicts(t2[e.path], e)
              /\ Fatal /\ UNCHANGED <<line, tree>>
           \/ /\ e.opts \subseteq Mask[e.kind] \cup {"win"}
              /\ ~Blocked(e)
              /\ TypeConflict(n, e) => wins
              /\ loses \/ ~Contradicts(t2[e.path], e)
              /\ tree' = IF loses THEN t ELSE With(t2, e.path, Merged(t2[e.path], e))
              /\ line' = line + 1
              /\ UNCHANGED <<pc, status>>

Loaded ==
    /\ pc = "load" /\ line = Len(conf)
    /\ pc' = "check" /\ work' = <<<<>>>>
    /\ UNCHANGED <<disk, busy, line, tree, cur, ret, removal, status, failed, world>>

-----------------------------------------------------------------------------
(* check: one node.                                                        *)

(* What a directory with a master passes on to an entry of the master.     *)
Augmented(np, n) ==
    LET attr == "copyattr" \in np.flag
        bits == np.mode \ {"x"}
    IN  [n EXCEPT
            !.flag = @ \cup (np.flag \cap {"clean", "copy"})
                       \cup (IF "type" \in @ THEN np.flag \cap {"win"} ELSE {})
                       \cup (IF attr THEN {"copyattr", "uid"} ELSE {}),
            !.mode = IF attr /\ "mode" \in n.flag THEN bits \cup (@ \cap {"x"}) ELSE @,
            !.mask = IF attr /\ "mode" \notin n.flag THEN bits ELSE @,
            !.uid  = IF attr THEN np.uid ELSE @]

PassedOn(np, name) == IF "abs" \in np.flag THEN Append(np.proto, name) ELSE np.proto
WithProto(np, n, name) ==
    [n EXCEPT !.proto = PassedOn(np, name), !.flag = @ \cup {"proto"} \cup (np.flag \cap {"abs"})]

ProtoConflict(np, n, name) ==
    /\ "proto" \in n.flag
    /\ ("abs" \in n.flag) # ("abs" \in np.flag) \/ n.proto # PassedOn(np, name)

(* The entry after the scan of its directory, given what it was before.  A *)
(* conflict here is one the entry wins: Augmented lets a typed entry share *)
(* the flag of a winning directory, so the directory itself never wins.    *)
Inherited(np, old, name) ==
    LET n == Augmented(np, old)
    IN  IF "proto" \notin n.flag THEN WithProto(np, n, name)
        ELSE IF ProtoConflict(np, n, name) THEN old
        ELSE [n EXCEPT !.flag = @ \cup (np.flag \cap {"win"})]

Entries(m) == {Last(q) : q \in Children(vice, m)}
ChildNode(p, name) == IF Append(p, name) \in DOMAIN tree THEN tree[Append(p, name)] ELSE NewNode

Scan(np, p, m) ==
    [q \in DOMAIN tree \cup {Append(p, name) : name \in Entries(m)} |->
        IF q = p THEN np
        ELSE IF q # <<>> /\ Front(q) = p /\ Last(q) \in Entries(m)
             THEN Inherited(np, ChildNode(p, Last(q)), Last(q)) ELSE tree[q]]

(* An untyped node takes its type from its master; a link stays a link.    *)
Typed(np, m) ==
    LET asLink == "type" \notin np.flag /\ "copy" \notin np.flag
        link == asLink /\ vice[m].type = LNK
    IN  [np EXCEPT !.type = IF "type" \in np.flag THEN @
                            ELSE @ \cup (IF asLink THEN vice[m].type ELSE Stat(m).type),
                   !.flag = @ \cup {"type"} \cup (IF link THEN {"abs"} ELSE {}),
                   !.proto = IF link THEN vice[m].link ELSE @]

Completed(np, stb) ==
    [np EXCEPT
        !.rdev = IF np.type \in {CHR, BLK} /\ "rdev" \notin np.flag THEN stb.data ELSE @,
        !.size = IF np.type = REG THEN Size[stb.data] ELSE @,
        !.mode = IF "mode" \in np.flag THEN @
                 ELSE IF "copyattr" \in np.flag THEN @ \cup (stb.mode \cap (np.mask \cup {"x"}))
                 ELSE @ \cup stb.mode,
        !.uid = IF "uid" \in np.flag THEN @ ELSE stb.uid,
        !.mtime = IF "mtime" \in np.flag THEN @ ELSE stb.mtime,
        !.flag = @ \cup {"mode", "uid", "mtime"}
                   \cup (IF np.type \in {CHR, BLK} THEN {"rdev"} ELSE {})]

(* traverse1 goes on with the children of a directory.                     *)
Descend(t, p) ==
    LET kids == IF t[p].type = DIR THEN Children(t, p) ELSE {}
    IN  \E order \in SetToSeqs(kids) : work' = order \o Tail(work)

CheckFatal(np, p, m) ==
    IF "proto" \notin np.flag THEN "type" \notin np.flag
    ELSE LET typed == "type" \in np.flag \/ "copy" \in np.flag
         IN  \/ typed /\ np.type # LNK /\ ~Exists(m)
             \/ /\ "type" \in np.flag /\ np.type # LNK /\ Exists(m)
                /\ Stat(m).type # np.type
             \/ /\ Exists(m) /\ Typed(np, m).type = DIR /\ np.type # LNK
                /\ \E name \in Entries(m) :
                      LET n == Augmented(np, ChildNode(p, name))
                      IN  ProtoConflict(np, n, name) /\ ~OneWins(np.flag, n.flag)

Checked(np, p, m) ==
    IF "proto" \notin np.flag \/ ("type" \in np.flag /\ np.type = LNK) THEN tree
    ELSE LET ty == Typed(np, m)
             stb == IF "type" \notin np.flag /\ "copy" \notin np.flag THEN vice[m] ELSE Stat(m)
             n == Completed(ty, stb)
         IN  IF n.type = DIR THEN Scan(n, p, m) ELSE With(tree, p, n)

CheckNode ==
    LET p == Head(work)
        np == tree[p]
        m == Master(np, p)
    IN  /\ pc = "check" /\ work # <<>>
        /\ UNCHANGED <<disk, busy, line, ret, removal, cur, failed, world>>
        /\ \/ CheckFatal(np, p, m) /\ Fatal /\ UNCHANGED <<tree, work>>
           \/ /\ ~CheckFatal(np, p, m)
              /\ tree' = Checked(np, p, m)
              /\ Descend(tree', p)
              /\ UNCHANGED <<pc, status>>

AllChecked ==
    /\ pc = "check" /\ work = <<>>
    /\ pc' = "update" /\ work' = <<<<>>>>
    /\ UNCHANGED <<disk, busy, line, tree, cur, ret, removal, status, failed, world>>

-----------------------------------------------------------------------------
(* update: the system calls.  Under the option n none of them is made.     *)

SetDisk(d) == disk' = IF opts.lazy THEN disk ELSE d
HasRoom(p) == p \notin DOMAIN disk /\ Lstat(Front(p)).type = DIR
Report == failed' = TRUE

(* rm of one name: a text in use is moved away, a full directory stays.    *)
Removed(p) ==
    IF Below(disk, p) # {} THEN disk
    ELSE IF p \in busy THEN With(Without(disk, {p}), Ext(p, "busy"), disk[p])
    ELSE Without(disk, {p})

(* rm(path, 0) of something that is no directory.                          *)
RemoveUnlessReadOnly(p) ==
    /\ SetDisk(IF p \in DOMAIN disk /\ ~(opts.kflag /\ ReadOnly(disk[p]))
               THEN Removed(p) ELSE disk)
    /\ UNCHANGED busy

(* np->flag & flag_update == 0 is np->flag & 0, and np->flag &             *)
(* (flag_update != 0) is flag_type: nothing inhibits an update, nor the    *)
(* removals of dochtyp and fixdir.                                         *)
Inhibited(np, inode) == opts.kflag /\ ReadOnly(inode) /\ np.flag \cap {} # {}
NoInhibit(np) == "type" \in np.flag

Routine(type) ==
    CASE type \in {CHR, BLK} -> "spec" [] type = LNK -> "link" [] type = DIR -> "mkdir"
      [] type = REG -> "reg" [] OTHER -> "update"

Update == pc = "update" /\ work # <<>>

(* traverse2 and update2, with the dochtyp every update function begins    *)
(* with.                                                                   *)
VisitNode ==
    LET p == Head(work)
        np == tree[p]
        there == p \in DOMAIN disk
        other == there /\ disk[p].type # np.type
    IN  /\ Update /\ Descend(tree, p) /\ cur' = p
        /\ \/ /\ np.type \notin {CHR, BLK, LNK, DIR, REG, SOCK, FIFO}
                    \/ (there /\ Inhibited(np, disk[p]))
              /\ UNCHANGED <<pc, ret, removal>>
           \/ /\ np.type \in {CHR, BLK, LNK, DIR, REG, SOCK, FIFO}
              /\ ~(there /\ Inhibited(np, disk[p]))
              /\ ret' = IF there /\ ~other THEN 0 ELSE -1
              /\ IF other
                 THEN /\ pc' = "rm" /\ after' = Routine(np.type)
                      /\ victims' = {p} \cup Below(disk, p)
                 ELSE pc' = Routine(np.type) /\ UNCHANGED removal
        /\ UNCHANGED <<disk, busy, line, tree, status, failed, world>>

(* rm of a tree, one name after the other.                                 *)
RemoveNext ==
    /\ pc = "rm"
    /\ IF victims = {} THEN pc' = after /\ UNCHANGED <<disk, busy, victims, failed>>
       ELSE \E p \in victims :
            /\ \A q \in victims : ~Under(q, p)
            /\ SetDisk(Removed(p))
            /\ busy' = IF opts.lazy THEN busy ELSE busy \ {p}
            /\ failed' = (failed \/ (~opts.lazy /\ (p \in busy \/ p \in DOMAIN disk')))
            /\ victims' = victims \ {p} /\ UNCHANGED pc
    /\ UNCHANGED <<line, tree, walk, ret, after, status, world>>

(* updatespec.                                                             *)
CheckDevice ==
    /\ pc = "spec"
    /\ LET np == tree[cur]
           wrong == ret = 0 /\ np.rdev # disk[cur].data
       IN  IF "rdev" \in np.flag /\ (wrong \/ ret < 0)
           THEN /\ IF wrong THEN RemoveUnlessReadOnly(cur) ELSE UNCHANGED <<disk, busy>>
                /\ ret' = -1 /\ pc' = "mknod"
           ELSE /\ pc' = IF ret = 0 THEN "mod" ELSE "update"
                /\ UNCHANGED <<disk, busy, ret>>
    /\ UNCHANGED <<line, tree, walk, removal, status, failed, world>>

MakeDevice ==
    /\ pc = "mknod"
    /\ LET np == tree[cur]
       IN  SetDisk(IF HasRoom(cur) THEN With(disk, cur, Inode(np.type, np.mode, 0, 0, np.rdev)) ELSE disk)
    /\ ret' = IF ~opts.lazy /\ cur \in DOMAIN disk' THEN 0 ELSE -1
    /\ pc' = IF ret' = 0 THEN "mod" ELSE "update"
    /\ UNCHANGED <<busy, line, tree, walk, removal, status, failed, world>>

(* updatelink.                                                             *)
Target(np, p) == Master(np, p)

CheckLink ==
    /\ pc = "link"
    /\ LET np == tree[cur]
       IN  IF \/ "proto" \notin np.flag
              \/ ret = 0 /\ ("init" \in np.flag \/ disk[cur].link = Target(np, cur))
           THEN pc' = "update" /\ UNCHANGED <<disk, busy>>
           ELSE /\ pc' = "symlink"
                /\ IF ret = 0 THEN RemoveUnlessReadOnly(cur) ELSE UNCHANGED <<disk, busy>>
    /\ UNCHANGED <<line, tree, walk, ret, removal, status, failed, world>>

MakeLink ==
    /\ pc = "symlink" /\ pc' = "update"
    /\ SetDisk(IF HasRoom(cur) THEN With(disk, cur, Link(Target(tree[cur], cur))) ELSE disk)
    /\ UNCHANGED <<busy, line, tree, walk, ret, removal, status, failed, world>>

(* updatedir and fixdir.                                                   *)
MakeDirectory ==
    /\ pc = "mkdir" /\ pc' = "clean"
    /\ IF ret = 0 THEN UNCHANGED <<disk, ret>>
       ELSE /\ SetDisk(IF HasRoom(cur) THEN With(disk, cur, Inode(DIR, tree[cur].mode, 0, 0, 0)) ELSE disk)
            /\ ret' = IF ~opts.lazy /\ cur \in DOMAIN disk' THEN 0 ELSE -1
    /\ UNCHANGED <<busy, line, tree, walk, removal, status, failed, world>>

Unlisted(p) == {q \in Children(disk, p) : q \notin DOMAIN tree}
CleanDirectoryAlways ==
    /\ pc = "clean"
    /\ after' = IF ret = 0 THEN "mod" ELSE "update"
    /\ pc' = "rm" /\ victims' = UNION {{q} \cup Below(disk, q) : q \in Unlisted(cur)}
    /\ UNCHANGED <<disk, busy, line, tree, walk, ret, status, failed, world>>
CleanDirectory ==
    /\ pc = "clean"
    /\ after' = IF ret = 0 THEN "mod" ELSE "update"
    /\ IF "clean" \in tree[cur].flag /\ NoInhibit(tree[cur])
       THEN pc' = "rm" /\ victims' = UNION {{q} \cup Below(disk, q) : q \in Unlisted(cur)}
       ELSE pc' = after' /\ UNCHANGED victims
    /\ UNCHANGED <<disk, busy, line, tree, walk, ret, status, failed, world>>

(* updatereg: is the file what its master is?                              *)
OutdatedBySize(np, inode) == np.size # Size[inode.data]
Outdated(np, inode) ==
    \/ np.mtime # inode.mtime
    \/ np.size # Size[inode.data]
    \/ "hash" \in np.flag /\ np.hash # inode.data

CheckFile ==
    /\ pc = "reg"
    /\ LET np == tree[cur]
           copy == /\ "proto" \in np.flag
                   /\ ret < 0 \/ ("init" \notin np.flag /\ Outdated(np, disk[cur]))
       IN  /\ pc' = IF copy THEN "cp" ELSE IF ret = 0 THEN "mod" ELSE "update"
           /\ tree' = IF copy /\ ret < 0 THEN [tree EXCEPT ![cur].flag = @ \ {"old"}] ELSE tree
    /\ UNCHANGED <<disk, busy, line, walk, ret, removal, status, failed, world>>

(* fixreg and cp: a new file, then the data of the master.                 *)
NewIsPath == cur
New == Ext(cur, "new")
Old == Ext(cur, "old")

OpenNewExclusive ==
    /\ pc = "cp"
    /\ pc' = IF HasRoom(New) \/ opts.lazy THEN "copying" ELSE "update"
    /\ failed' = (failed \/ pc' = "update")
    /\ SetDisk(IF HasRoom(New) THEN With(disk, New, Inode(REG, {"r", "w"}, 0, 0, 0)) ELSE disk)
    /\ UNCHANGED <<busy, line, tree, walk, ret, removal, status, world>>
OpenNew ==
    /\ pc = "cp"
    /\ LET fits == New \in DOMAIN disk \/ HasRoom(New)
           mode == IF New \in DOMAIN disk THEN disk[New].mode ELSE {"r", "w"}
       IN  /\ pc' = IF fits \/ opts.lazy THEN "copying" ELSE "update"
           /\ failed' = (failed \/ pc' = "update")
           /\ SetDisk(IF fits THEN With(disk, New, Inode(REG, mode, 0, 0, 0)) ELSE disk)
    /\ UNCHANGED <<busy, line, tree, walk, ret, removal, status, world>>

CopyData ==
    /\ pc = "copying"
    /\ pc' = IF "old" \in tree[cur].flag THEN "rmold" ELSE "mv"
    /\ SetDisk([disk EXCEPT ![New].data = Stat(Master(tree[cur], cur)).data])
    /\ UNCHANGED <<busy, line, tree, walk, ret, removal, status, failed, world>>

CopyFails ==
    /\ pc = "copying" /\ budget.mishap > 0 /\ ~opts.lazy
    /\ budget' = [budget EXCEPT !.mishap = @ - 1]
    /\ pc' = "update" /\ Report
    /\ UNCHANGED <<conf, opts, vice, before, disk, busy, line, tree, walk, ret, removal, status>>

RemoveOld ==
    /\ pc = "rmold" /\ pc' = "ln"
    /\ RemoveUnlessReadOnly(Old)
    /\ UNCHANGED <<line, tree, walk, ret, removal, status, failed, world>>

LinkOld ==
    /\ pc = "ln" /\ pc' = "mv"
    /\ SetDisk(IF cur \in DOMAIN disk /\ HasRoom(Old) THEN With(disk, Old, disk[cur]) ELSE disk)
    /\ UNCHANGED <<busy, line, tree, walk, ret, removal, status, failed, world>>

(* mv: rename refuses to replace a directory or, on some systems, a text   *)
(* that is being executed; the latter is moved away first.                 *)
Renamed(from, to) == With(Without(disk, {from}), to, disk[from])
NewInPlace == IF opts.lazy THEN disk ELSE Renamed(New, cur)

ReplaceFileForgetting ==
    /\ pc \in {"mv", "mvbusy"}
    /\ opts.lazy \/ (cur \notin busy /\ Lstat(cur).type # DIR)
    /\ disk' = NewInPlace
    /\ status' = IF "stat" \in tree[cur].flag THEN 4 ELSE 0
    /\ ret' = IF cur \in DOMAIN disk' THEN 0 ELSE -1
    /\ pc' = IF ret' = 0 THEN "tim" ELSE "update"
    /\ UNCHANGED <<busy, line, tree, walk, removal, failed, world>>
ReplaceFile ==
    /\ pc \in {"mv", "mvbusy"}
    /\ opts.lazy \/ (cur \notin busy /\ Lstat(cur).type # DIR)
    /\ disk' = NewInPlace
    /\ status' = IF "stat" \in tree[cur].flag THEN 4 ELSE status
    /\ ret' = IF cur \in DOMAIN disk' THEN 0 ELSE -1
    /\ pc' = IF ret' = 0 THEN "tim" ELSE "update"
    /\ UNCHANGED <<busy, line, tree, walk, removal, failed, world>>

(* A program whose text was moved aside is taken to have ended before      *)
(* anything touches the name .busy again: mv.c:27 would otherwise move     *)
(* that one aside in turn, to .busy.busy.                                  *)
MoveBusyAway ==
    /\ pc = "mv" /\ cur \in busy /\ ~opts.lazy
    /\ pc' = "mvbusy" /\ Report
    /\ disk' = Renamed(cur, Ext(cur, "busy")) /\ busy' = busy \ {cur}
    /\ UNCHANGED <<line, tree, walk, ret, removal, status, world>>

CannotReplace ==
    /\ pc = "mv" /\ ~opts.lazy /\ Lstat(cur).type = DIR
    /\ pc' = "update" /\ Report
    /\ UNCHANGED <<disk, busy, line, tree, walk, ret, removal, status, world>>

(* dochtim, dochmod, dochown.                                              *)
SetTime ==
    /\ pc = "tim" /\ pc' = "mod"
    /\ SetDisk([disk EXCEPT ![cur].mtime = tree[cur].mtime])
    /\ UNCHANGED <<busy, line, tree, walk, ret, removal, status, failed, world>>

SetMode ==
    /\ pc = "mod" /\ pc' = "own"
    /\ SetDisk(IF "mode" \in tree[cur].flag THEN [disk EXCEPT ![cur].mode = tree[cur].mode] ELSE disk)
    /\ UNCHANGED <<busy, line, tree, walk, ret, removal, status, failed, world>>

SetOwner ==
    /\ pc = "own" /\ pc' = "update"
    /\ SetDisk(IF "uid" \in tree[cur].flag THEN [disk EXCEPT ![cur].uid = tree[cur].uid] ELSE disk)
    /\ UNCHANGED <<busy, line, tree, walk, ret, removal, status, failed, world>>

(* The whole disk is flushed by sync before the exit.                      *)
Finish ==
    /\ pc = "update" /\ work = <<>>
    /\ pc' = "done"
    /\ UNCHANGED <<disk, busy, line, tree, walk, ret, removal, status, failed, world>>

-----------------------------------------------------------------------------
(* The world around it.                                                    *)

(* package is killed, or the machine stops with it.  Names and inodes are  *)
(* as the last call left them, but cp does not flush what it writes: until *)
(* the sync at the end the data of any file copied in this run may be lost *)
(* when the power fails.  The size shows a loss (Size[0]); a file copied   *)
(* anew with the data and the time it had counts as flushed.               *)
Replaced(p) == ~(p \in DOMAIN before /\ p \in DOMAIN disk /\ before[p].type = disk[p].type
                 /\ before[p].data = disk[p].data /\ before[p].mtime = disk[p].mtime)
Unflushed == {p \in DOMAIN disk :
    /\ disk[p].type = REG
    /\ \/ IsFile(tree, p) /\ Replaced(p)
       \/ pc \in {"copying", "rmold", "ln", "mv", "mvbusy"} /\ p = New}
Lost(S) == [p \in DOMAIN disk |-> IF p \in S THEN [disk[p] EXCEPT !.data = 0] ELSE disk[p]]

Crash ==
    /\ pc \in Running /\ budget.mishap > 0
    /\ budget' = [budget EXCEPT !.mishap = @ - 1]
    /\ pc' = "crashed" /\ Report
    /\ \E S \in SUBSET Unflushed : SetDisk(Lost(S))
    /\ busy' \in {busy, {}}
    /\ UNCHANGED <<conf, opts, vice, line, tree, walk, ret, removal, status, before>>

Stopped == pc \in {"done", "fatal", "crashed", "idle"}

Rerun ==
    /\ Stopped /\ Begin(disk)
    /\ UNCHANGED <<conf, opts, vice, disk, busy, budget>>

(* A new version of a master is released between two runs.  One released   *)
(* between stat and cp of one run would be copied with the time stamp of   *)
(* the version before it, by which the next run sees that it is outdated.  *)
Release ==
    /\ Stopped /\ budget.release > 0 /\ pc' = "idle"
    /\ budget' = [budget EXCEPT !.release = @ - 1]
    /\ \E m \in DOMAIN vice :
          /\ vice[m].type = REG
          /\ LET v == vice[m].mtime + 1
             IN  v \in DOMAIN Size /\ vice' = [vice EXCEPT ![m].mtime = v, ![m].data = v]
    /\ UNCHANGED <<conf, opts, disk, busy, line, tree, walk, ret, removal, status, before, failed>>

Load == LoadEntry \/ Loaded
Check == CheckNode \/ AllChecked
UpdateFile ==
    \/ CheckFile \/ OpenNew \/ CopyData \/ RemoveOld \/ LinkOld
    \/ ReplaceFile \/ MoveBusyAway \/ CannotReplace \/ SetTime
UpdateOther ==
    \/ VisitNode \/ RemoveNext \/ CheckDevice \/ MakeDevice \/ CheckLink \/ MakeLink
    \/ MakeDirectory \/ CleanDirectory \/ SetMode \/ SetOwner \/ Finish

Package == Load \/ Check \/ UpdateFile \/ UpdateOther
Next == Package \/ CopyFails \/ Crash \/ Rerun \/ Release

(* A run that is not stopped goes on, and each boot runs package.          *)
Fairness == WF_vars(Package) /\ WF_vars(Rerun)
Spec == Init /\ [][Next]_vars /\ Fairness

-----------------------------------------------------------------------------
(* Properties.                                                             *)

(* Every variable stays in its type: what the disk and the tree name is in *)
(* directories, the walks stay within the tree, and texts in use are files *)
(* of the disk.                                                            *)
IsTree(t) ==
    /\ DOMAIN t \subseteq Plain /\ IsFiniteSet(DOMAIN t) /\ <<>> \in DOMAIN t
    /\ \A p \in DOMAIN t :
          /\ DOMAIN t[p] = DOMAIN NewNode
          /\ \A q \in Above(p) : q \in DOMAIN t /\ DIR \subseteq t[q].type
TypeOK ==
    /\ conf \in Confs /\ opts \in Options /\ \E m \in Masters : DOMAIN vice = DOMAIN m
    /\ pc \in Running \cup {"load", "check", "done", "fatal", "crashed", "idle"}
    /\ line \in 0..Len(conf) /\ ret \in {0, -1} /\ status \in {0, 2, 4} /\ failed \in BOOLEAN
    /\ after \in Running
    /\ IsTree(tree) /\ IsDisk(disk)
    /\ work \in Seq(DOMAIN tree) /\ cur \in DOMAIN tree
    /\ \A p \in busy : p \in BusyTexts \cap DOMAIN disk /\ disk[p].type = REG

Visited == pc \in Running \cup {"done", "crashed"}

(* The walk of update comes to a node when all above it are directories:   *)
(* not when a line made a file of one of them, which now is a socket.      *)
Walked(p) == \A q \in Above(p) : tree[q].type = DIR

(* The data of the master of a node, if it has one.                        *)
MasterData(np, p) == IF "proto" \in np.flag THEN {Stat(Master(np, p)).data} ELSE {}

AllWhole ==
    \A p \in DOMAIN before :
        IsFile(before, p) /\ IsFile(tree, p) /\ Walked(p) =>
            \/ IsFile(disk, p) /\ disk[p].data \in {before[p].data} \cup MasterData(tree[p], p)
            \/ p \in BusyTexts /\ Lstat(Ext(p, "busy")).data = before[p].data

(* A file that is replaced is at every call of a run there in full, as it  *)
(* was or as its master is: also for whoever looks after package has been  *)
(* killed.  A text in use may for a moment only be found under its name    *)
(* .busy.  Of a power failure this does not speak: what Crash may lose     *)
(* there is for the next run to find (Converged, Settles).                 *)
NeverTorn == pc \in Running => AllWhole

(* What a complete run leaves of a node.  Sockets and pipes are not made,  *)
(* and a device that nobody may write is left as it is.  A copy under the  *)
(* name .new that an earlier run left stays beside a file that needs none. *)
SameAttributes(np, inode) ==
    /\ "mode" \in np.flag => inode.mode = np.mode
    /\ "uid" \in np.flag => inode.uid = np.uid
Kept(p) == opts.kflag /\ p \in DOMAIN before /\ ReadOnly(before[p])

FileMatches(np, p) ==
    /\ "proto" \in np.flag => p \in DOMAIN disk
    /\ p \in DOMAIN disk => disk[p].type = REG /\ SameAttributes(np, disk[p])
    /\ "proto" \in np.flag /\ ~("init" \in np.flag /\ IsFile(before, p)) =>
          LET stb == Stat(Master(np, p))
          IN  /\ disk[p].mtime = stb.mtime
              /\ \/ disk[p].data = stb.data
                 \/ ~Replaced(p) /\ Size[disk[p].data] = Size[stb.data]
                    /\ ("hash" \in np.flag => disk[p].data = np.hash)
    /\ p \in DOMAIN disk /\ Ext(p, "new") \in DOMAIN disk => ~Replaced(p)

LinkMatches(np, p) ==
    /\ p \in DOMAIN disk => disk[p].type = LNK
    /\ "proto" \in np.flag => p \in DOMAIN disk /\ (disk[p].link = Target(np, p) \/ "init" \in np.flag)
DeviceMatches(np, p) ==
    /\ p \in DOMAIN disk => disk[p].type = np.type /\ SameAttributes(np, disk[p])
    /\ "rdev" \in np.flag /\ ~Kept(p) => p \in DOMAIN disk /\ disk[p].data = np.rdev
Matches(np, p) ==
    CASE np.type = DIR -> /\ Lstat(p).type = DIR /\ SameAttributes(np, disk[p])
                          /\ "clean" \in np.flag => Unlisted(p) \subseteq {Ext(q, "old") : q \in Children(tree, p)}
      [] np.type = LNK -> LinkMatches(np, p)
      [] np.type \in {CHR, BLK} -> DeviceMatches(np, p)
      [] np.type = REG -> FileMatches(np, p)
      [] np.type \in {SOCK, FIFO} -> p \in DOMAIN disk => disk[p].type = np.type
      [] OTHER -> TRUE
AllMatch == \A p \in DOMAIN tree : Walked(p) => Matches(tree[p], p)

(* A file with the letter O that was replaced can be found under its name  *)
(* with .old, unless an older copy is there that nobody may write.         *)
OldCopiesKept ==
    \A p \in DOMAIN tree :
        /\ IsFile(tree, p) /\ "old" \in tree[p].flag /\ IsFile(before, p) /\ Replaced(p)
        /\ Walked(p) /\ ~Kept(Ext(p, "old"))
        => Lstat(Ext(p, "old")).data = before[p].data

(* One run in which no call failed is enough: it leaves the disk as the    *)
(* configuration and the masters have it, with the copies the letter O     *)
(* asks for, whatever an earlier run that was stopped at any call left.    *)
Converged ==
    pc = "done" /\ ~failed /\ ~opts.lazy => AllMatch /\ OldCopiesKept

(* A step changes only what the configuration names, what package itself   *)
(* puts beside it, what is not named in a directory to be cleaned, and     *)
(* what is in the way of something else, a text in use moved aside; and    *)
(* nothing under the option n.                                             *)
InTheWay(p, q) == Under(p, q) /\ q \in DOMAIN before /\ tree[q].type # before[q].type
Unnamed(p, q) ==
    /\ Under(p, q) /\ "clean" \in tree[q].flag
    /\ SubSeq(p, 1, Len(q) + 1) \notin DOMAIN tree
Owned(p) ==
    \/ p \in DOMAIN tree /\ tree[p].type # {}
    \/ \E q \in DOMAIN tree :
          \/ InTheWay(p, q) \/ Unnamed(p, q)
          \/ tree[q].type = REG /\ p = Ext(q, "new")
          \/ tree[q].type # {} /\ q \in BusyTexts /\ p = Ext(q, "busy")
          \/ tree[q].type = REG /\ "old" \in tree[q].flag /\ p = Ext(q, "old")
Altered == {p \in DOMAIN disk \cup DOMAIN disk' :
               ~(p \in DOMAIN disk /\ p \in DOMAIN disk' /\ disk[p] = disk'[p])}
OnlyItsOwn == [][~opts.lazy /\ Altered \subseteq {p \in Altered : Owned(p)}]_disk

(* A complete run exits with 4 when it replaced a file with the letter Q,  *)
(* and only then, or for a hash that the master does not have.             *)
RebootTold ==
    pc = "done" /\ ~opts.lazy =>
        LET q == {p \in DOMAIN tree : tree[p].type = REG /\ "stat" \in tree[p].flag}
        IN  /\ (\E p \in q : p \in DOMAIN disk /\ Replaced(p)) => status = 4
            /\ status = 4 => \E p \in q : Replaced(p) \/ "hash" \in tree[p].flag

(* Of the lines for one path the one with the letter W decides its type,   *)
(* in whichever order they come, if it is the only one with that letter    *)
(* and no later line with it wipes a directory the path is in.  To a type  *)
(* of its own are added at most the bits of a directory, and those only    *)
(* when a line for something below the path came first: lookuppath has     *)
(* then made the path a directory, which is nobody's line to overrule.     *)
WinsAlone(i) ==
    /\ "win" \in conf[i].opts
    /\ \A j \in DOMAIN conf \ {i} :
          /\ conf[j].path = conf[i].path => "win" \notin conf[j].opts
          /\ Under(conf[i].path, conf[j].path) /\ j > i => "win" \notin conf[j].opts
OnTheWay(i) == \E j \in 1..i - 1 : Under(conf[j].path, conf[i].path)
WinnerDecides ==
    Visited \/ pc = "check" => \A i \in DOMAIN conf : WinsAlone(i) =>
        \/ tree[conf[i].path].type = Kind[conf[i].kind]
        \/ OnTheWay(i) /\ tree[conf[i].path].type = Kind[conf[i].kind] \cup DIR

(* package.8: "If the letter W is appended to file or directory            *)
(* specifications then the update will win a conflict if one exists."  A   *)
(* file with W after a line for something below it does not: it becomes a  *)
(* socket.  No run has this as a property.                                 *)
WinnerAlwaysWins ==
    Visited => \A i \in DOMAIN conf : WinsAlone(i) => tree[conf[i].path].type = Kind[conf[i].kind]

(* package.8: "when a file is updated the old copy should be renamed with  *)
(* a suffix of .old".                                                      *)
OldCopyAlwaysKept ==
    pc = "done" /\ ~failed /\ ~opts.lazy =>
        \A p \in DOMAIN tree :
            IsFile(tree, p) /\ "old" \in tree[p].flag /\ IsFile(before, p) /\ Replaced(p)
            => Lstat(Ext(p, "old")).data = before[p].data

(* package.8: "By default, package will not update a file if it exists and *)
(* none of the write bits are set."                                        *)
ReadOnlyKept ==
    Visited /\ opts.kflag =>
        \A p \in DOMAIN tree :
            IsFile(tree, p) /\ "update" \notin tree[p].flag /\ IsFile(before, p) /\ ReadOnly(before[p])
            => ~Replaced(p)

(* Crashes, failed copies and releases come to an end; from then on, in    *)
(* the end, every run leaves the disk as the configuration has it, and no  *)
(* run changes it any more, unless it looks for a hash the master has not. *)
HashStale == \E i \in DOMAIN conf : \E h \in conf[i].hash, proto \in conf[i].proto :
                 Stat(IF "abs" \in conf[i].opts THEN proto ELSE proto \o conf[i].path).data # h
Settles ==
    <>[]~HashStale => /\ <>[][FALSE]_disk
                      /\ <>[](pc = "done" /\ ~opts.lazy => AllMatch)

=============================================================================
