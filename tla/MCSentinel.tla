----------------------------- MODULE MCSentinel -----------------------------
(***************************************************************************)
(* Two servers with two disks each.                                        *)
(***************************************************************************)
EXTENDS Sentinel

MCName == {"a", "b"}

DiskOf(n, t, a) == [name |-> n, total |-> t, avail |-> a]
Up(boot, da, db) == [down |-> FALSE, boot |-> boot, start |-> boot, disk |-> <<da, db>>]

(* With the limits 90 and 2: fine, full and low, low, full; and a disk     *)
(* whose percentage wraps.                                                 *)
Fine == DiskOf("a", 20, 8)
Both == DiskOf("a", 20, 1)
Low  == DiskOf("a", 8, 1)
Huge == DiskOf("a", 40, 1)
FineB == DiskOf("b", 10, 5)
BothB == DiskOf("b", 10, 0)
FullB == DiskOf("b", 20, 2)

MCAnswers == {[Up(1, Fine, FineB) EXCEPT !.down = TRUE],
              Up(1, Fine, FineB), Up(2, Both, BothB), Up(1, Low, NoDisk), Up(2, Huge, FullB)}

MCLimits == [percent |-> 90, blocks |-> 2]

(* The first server has a disk section, the second has none.               *)
NoOwn == [n \in MCName |-> {}]
MCSetups ==
    {[limits |-> [s \in Server |-> MCLimits],
      own |-> [s \in Server |-> IF s = 1 THEN [NoOwn EXCEPT !["b"] = {[percent |-> 50, blocks |-> 5]}]
                                ELSE NoOwn]]}
=============================================================================
