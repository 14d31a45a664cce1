---------------------------- MODULE MCDispatcher ----------------------------
(***************************************************************************)
(* Small cells, transaction lists and invocations for the Dispatcher.      *)
(***************************************************************************)
EXTENDS Dispatcher

(* Partitions a and a2, b and b2, d and d2 share a fileserver.             *)
MCPartition == {"a", "a2", "b", "b2", "c", "d", "d2", "z"}
MCServer == {"a", "b", "c", "d", "z"}
MCServerOf == [p \in MCPartition |-> CASE p = "a2" -> "a" [] p = "b2" -> "b" [] p = "d2" -> "d" [] OTHER -> p]
MCVolume == {"v1", "v2", "v3", "v4"}

MoveOf(v, f, t, bk) == [vol |-> v, from |-> f, to |-> t, bkexist |-> bk]
Invoke(m, n, e, t, f) == [moves |-> m, nprocs |-> n, echo |-> e, timed |-> t, faults |-> f]
Routes(P) == {r \in P \X P : r[1] # r[2]}

(* Three moves of different volumes, the first of them a -> b.             *)
Three(R1, R2, B) ==
    {<<MoveOf("v1", "a", "b", k[1]), MoveOf("v2", r[1], r[2], k[2]),
       MoveOf("v3", q[1], q[2], k[3])>> : r \in R1, q \in R2, k \in B}

(* Three moves that compete for fileserver b, with every use of backups.   *)
BusyServer == Three({"b"} \X {"a2", "c"}, {"a", "a2", "c"} \X {"b"}, [1..3 -> BOOLEAN])

AllRoutes == Three(Routes({"a", "a2", "b", "c"}), {<<"a2", "b">>, <<"b", "c">>, <<"c", "a2">>},
                   {<<TRUE, FALSE, TRUE>>})
SomeRoutes == Three(Routes({"a2", "b", "c"}), {"a", "c"} \X {"b"}, {<<TRUE, FALSE, TRUE>>})
PlainRoutes == Three(Routes({"a2", "b", "c"}), Routes({"a", "b", "c"}), {<<FALSE, FALSE, FALSE>>})

(* The second move has nothing to do with the others.                      *)
Apart == Three({<<"c", "d">>}, {<<"z", "b">>, <<"b", "z">>}, {<<TRUE, FALSE, FALSE>>, <<TRUE, TRUE, TRUE>>})

SystemFaults == {"pipe", "fork", "fcntl", "vos"}

(* What the passing run covers: all routes with every fault but a failing  *)
(* select; fileserver b disputed with a failing select as well; a move      *)
(* apart from the two that dispute b, with two slots; one slot; echo mode; *)
(* and moves without backups that nothing disturbs.                        *)
MCInvocations ==
    {Invoke(m, 2, FALSE, TRUE, SystemFaults) : m \in AllRoutes}
        \cup {Invoke(m, 3, FALSE, TRUE, {"fork", "select", "vos"}) : m \in BusyServer}
        \cup {Invoke(m, 2, FALSE, FALSE, {"vos"}) : m \in Apart}
        \cup {Invoke(m, 1, FALSE, TRUE, {"fork", "vos"}) : m \in SomeRoutes}
        \cup {Invoke(m, 2, TRUE, TRUE, {}) : m \in SomeRoutes}
        \cup {Invoke(m, 2, FALSE, FALSE, {}) : m \in PlainRoutes}

(* The list of balance.doc:556-559 with an unrelated move before the last. *)
Bystander ==
    {Invoke(<<MoveOf("v1", "a", "z", FALSE), MoveOf("v2", "b", "z", FALSE),
              MoveOf("v3", "d", "d2", FALSE), MoveOf("v4", "c", "b", FALSE)>>,
            4, FALSE, FALSE, {})}

(* Volumes to exchange between fileservers that backups keep busy.         *)
Exchange ==
    {Invoke(<<MoveOf("v1", "a", "z", TRUE), MoveOf("v2", "b", "z", FALSE),
              MoveOf("v3", "c", "b2", TRUE), MoveOf("v4", "z", "b", FALSE)>>,
            3, FALSE, FALSE, {})}

(* Two moves, one of which may fail, and a select that may fail.           *)
SelectMayFail ==
    {Invoke(m, 2, FALSE, FALSE, {"select", "vos"}) : m \in BusyServer}
=============================================================================
