----------------------------- MODULE MCPackage -----------------------------
(***************************************************************************)
(* A disk with one directory of a file, a link and a device, a volume of   *)
(* masters for it, and configuration files that agree and that clash.      *)
(***************************************************************************)
EXTENDS Package

MCBase == {"a", "b", "c", "k", "x", "V", "W"}
Name(base) == <<base, "">>
a == Name("a")  b == Name("b")  c == Name("c")  k == Name("k")  x == Name("x")
V == <<Name("V")>>  W == <<Name("W")>>

Entry(kind, letters, path) ==
    [kind |-> kind, opts |-> letters, path |-> path,
     proto |-> {}, rdev |-> {}, uid |-> {}, mode |-> {}, hash |-> {}]
From(e, proto) == [e EXCEPT !.proto = {proto}]

Top  == Entry("D", {}, <<>>)
DirA == Entry("D", {}, <<a>>)
Wild(letters) == From(Entry("D", letters, <<a>>), V)
FileB(letters) == From(Entry("F", letters, <<a, b>>), V)
FileW(letters) == From(Entry("F", {"abs"} \cup letters, <<a, b>>), Append(W, b))
FileA(letters) == From(Entry("F", {"abs"} \cup letters, <<a>>), Append(W, b))
LinkC == From(Entry("L", {"abs"}, <<a, c>>), Append(W, b))
Device == [Entry("C", {}, <<a, k>>) EXCEPT !.rdev = {7}, !.mode = {{"r"}}, !.uid = {1}]

Wildcards ==
    { <<Top, Wild({"clean"}), FileB({"stat", "old"})>>,
      <<Top, [Wild({"copy", "copyattr"}) EXCEPT !.uid = {1}, !.mode = {{"r", "w"}}], FileB({"stat"})>>,
      <<Top, Wild({}), FileW({"win"}), Entry("N", {}, <<a, x>>)>>,
      <<Top, From(Entry("D", {"abs"}, <<a>>), Append(V, a))>> }
Singles ==
    { <<Top, DirA, FileW({"init"})>>, <<Top, DirA, LinkC, Device>>,
      <<Top, DirA, [FileW({"old"}) EXCEPT !.hash = {2}], Entry("S", {}, <<a, c>>), Entry("N", {}, <<a, k>>)>>,
      <<Top, FileA({"stat"})>> }
Clashes ==
    { <<Top, FileA({"win"}), DirA>>, <<Top, DirA, FileA({"win"})>>,
      <<Top, FileA({}), DirA>>, <<Top, FileA({}), FileB({})>>,
      <<Top, FileB({}), Entry("F", {"win"}, <<a>>)>>, <<Top, FileB({})>>,
      <<Top, Wild({"win"}), FileW({})>>, <<Top, Wild({}), [FileB({}) EXCEPT !.hash = {1}]>>,
      <<Top, [DirA EXCEPT !.uid = {1}], [DirA EXCEPT !.uid = {0}]>>,
      <<Top, Wild({}), FileW({"win"}), From(Entry("D", {"abs", "win"}, <<a>>), W)>>,
      <<Top, Entry("F", {"copy"}, <<a>>)>>, <<Top, DirA, Entry("F", {}, <<a, b>>)>> }
MCConfs == Wildcards \cup Singles \cup Clashes

File(mode, v) == Inode(REG, mode, 0, v, v)
Dir == Inode(DIR, Perm, 0, 0, 0)
MCMasters ==
    { V :> Dir @@ Append(V, a) :> [Dir EXCEPT !.uid = 1] @@ (V \o <<a, b>>) :> File({"r", "x"}, 1)
      @@ (V \o <<a, c>>) :> Link(V \o <<a, b>>) @@ W :> Dir @@ Append(W, b) :> File({"r"}, 1) }

Bare == <<>> :> Dir
DiskA == Bare @@ <<a>> :> Dir
MCDisks ==
    { Bare, Bare @@ <<a>> :> File({"r"}, 0),
      DiskA @@ <<a, b>> :> [File({"r", "w"}, 0) EXCEPT !.data = 2, !.mtime = 1]
            @@ <<a, <<"b", "new">>>> :> File({"r"}, 0) @@ <<a, x>> :> File({"r"}, 0) @@ <<a, c>> :> Link(V),
      DiskA @@ <<a, b>> :> Dir @@ <<a, b, x>> :> File({"r"}, 0)
            @@ <<a, <<"b", "new">>>> :> File({"r"}, 1) @@ <<a, k>> :> Inode(CHR, {"r"}, 0, 0, 6) }

MCOptions == {[lazy |-> FALSE, kflag |-> TRUE], [lazy |-> FALSE, kflag |-> FALSE], [lazy |-> TRUE, kflag |-> TRUE]}
MCSize == (0 :> 0) @@ (1 :> 5) @@ (2 :> 5) @@ (3 :> 6)
MCBusyTexts == {<<a>>, <<a, b>>, <<a, b, x>>}
=============================================================================
