------------------------------ MODULE MCCaches ------------------------------
(***************************************************************************)
(* Two printers, up to three aliases in a table for two, two users, one of *)
(* whom gets a new password.                                               *)
(***************************************************************************)
EXTENDS Caches

Alias(printer, target) == [printer |-> printer, for |-> target]
MCMissing == {"no such file"}
MCPrintcaps == {MCMissing, {"lp"}, {"lp", "ps"}}
Entry(pw, uid) == [pw |-> pw, uid |-> uid]
Start == [n \in {"ann", "bob"} |-> IF n = "ann" THEN Entry("x", 101) ELSE Entry("z", 102)]
Later == [n \in {"ann", "bob", "eve"} |->
             IF n = "ann" THEN Entry("y", 101) ELSE IF n = "bob" THEN Entry("z", 103) ELSE Entry("x", 104)]
Few == [n \in {"bob"} |-> Entry("y", 102)]
MCPasswds == {Start, Later, Few}

Conf(lines, pw, e, r) == [lines |-> lines, passwd |-> pw, edits |-> e, renewals |-> r]
MCConfs ==
    { Conf(<<>>, Few, 2, 0), Conf(<<Alias("raw", "-"), Alias("fan", "ps"), Alias("late", "lp")>>, Few, 2, 0),
      Conf(<<Alias("lp", "ps"), Alias("lp", "raw")>>, Few, 1, 0), Conf(<<>>, Start, 0, 2) }
=============================================================================
