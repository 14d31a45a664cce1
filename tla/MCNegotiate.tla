---------------------------- MODULE MCNegotiate ----------------------------
(***************************************************************************)
(* Small cells for Negotiate: three partitions and five volumes, the       *)
(* volumes anywhere at first.                                              *)
(***************************************************************************)
EXTENDS Negotiate

MCServer == {"s", "t"}
MCPartition == {"p", "q", "r"}
MCVolume == {"v1", "v2", "v3", "v4", "v5"}

(* On partitions of 20 units that are half full the window of bysize is,   *)
(* at 20%, one unit to each side.                                          *)
Sizes == [v \in MCVolume |-> CASE v \in {"v1", "v2"} -> 1 [] v = "v3" -> 2 [] v = "v4" -> 3 [] v = "v5" -> 4]
Quotas == [v \in MCVolume |-> CASE v = "v1" -> 4 [] v = "v2" -> 0 [] v = "v3" -> 2 [] OTHER -> 3]
Uses == [v \in MCVolume |-> CASE v = "v1" -> 0 [] v \in {"v2", "v3"} -> 1 [] v = "v4" -> 2 [] v = "v5" -> 4]
Rest == [a \in Agent |-> [p \in MCPartition |-> IF a = "bynumber" THEN 2 ELSE 6]]
Anything == [p \in MCPartition |-> MCVolume]

CellOf(as, pl, prec, n) ==
    [agents |-> as, precision |-> [a \in Agent |-> prec[a]],
     cap |-> [p \in MCPartition |-> IF p = "r" THEN 24 ELSE 20], fixed |-> Rest,
     servers |-> <<"s", "t">>, order |-> <<"p", "q", "r">>,
     on |-> [p \in MCPartition |-> IF p = "r" THEN "t" ELSE "s"], threaded |-> <<"v1", "v2", "v3", "v4", "v5">>, place |-> pl,
     size |-> Sizes, quota |-> Quotas, weekuse |-> Uses, byquota |-> {"v1", "v4"}, admits |-> Anything, busy |-> {},
     ntransactions |-> 6, nvoltrans |-> n]

Placements == {f \in [MCVolume -> MCPartition] : f["v5"] = "p"}
Solo == {<<a>> : a \in Agent}
Pairs == {<<"bysize", "bynumber">>, <<"bysize", "byoverdraft">>, <<"bynumber", "byoverdraft">>,
          <<"bysize", "byweekuse">>, <<"bynumber", "byweekuse">>, <<"byweekuse", "byoverdraft">>}
Precisions == {[a \in Agent |-> 20], [a \in Agent |-> 60],
               [a \in Agent |-> IF a = "bynumber" THEN 10 ELSE 60]}

Choosy == [p \in MCPartition |-> IF p = "q" THEN {"v1", "v3", "v4"} ELSE MCVolume]
Apart == [p \in MCPartition |-> IF p = "p" THEN "s" ELSE "t"]
MCCells ==
    {CellOf(as, pl, pr, n) : as \in Solo \cup Pairs, pl \in Placements, pr \in Precisions, n \in {1, 2}}
        \cup {[CellOf(as, pl, pr, 2) EXCEPT !.busy = {"v3"}, !.admits = Choosy, !.on = Apart] :
                  as \in Solo \cup Pairs, pl \in Placements, pr \in Precisions}
        \cup {[CellOf(as, pl, pr, 2) EXCEPT !.fixed["byoverdraft"] = [p \in MCPartition |-> 0]] :
                  as \in {<<"byoverdraft">>, <<"bynumber", "byoverdraft">>}, pl \in Placements, pr \in Precisions}
        \cup {[CellOf(as, pl, pr, 2) EXCEPT !.cap = [p \in MCPartition |-> 7]] :
                  as \in {<<"bysize">>, <<"bysize", "bynumber">>}, pl \in Placements, pr \in Precisions}
=============================================================================
