---------------------------- MODULE MCCellServDB ----------------------------
(* Four central files and three extensions for CellServDB.tla: servers     *)
(* added, removed and exchanged, cells that come and go, one that both     *)
(* files have, and files in which the local cell is missing.               *)
EXTENDS CellServDB

cell(n, s) == [name |-> n, servers |-> s]

MasterCases == {<<cell("home", {1}), cell("a", {1})>>,
                <<cell("a", {1, 2}), cell("home", {1}), cell("b", {2})>>,
                <<cell("b", {1}), cell("a", {2}), cell("home", {1, 2})>>,
                <<cell("a", {1})>>}
ExtensionCases == {<<>>, <<cell("b", {3}), cell("a", {3})>>, <<cell("home", {2})>>}
OptionCases == {{}, {"n"}, {"m"}, {"m", "u"}}
=============================================================================
