---------------------------- MODULE VolumeMover ----------------------------
(***************************************************************************)
(* What the dispatcher of the balancer promises (balance.doc, "Running the *)
(* Balancer"): up to slots transactions are under way, no two of them on  *)
(* one fileserver; a move is followed by the backup of a volume that had   *)
(* one; and the run is given up only when nothing is under way.            *)
(***************************************************************************)
EXTENDS Naturals, FiniteSets

CONSTANT Server

VARIABLES
    slots,      \* how many transactions may be under way
    ends,       \* the two fileservers and the backup flag of each transaction
    phase       \* how far each transaction is

Job     == DOMAIN ends
Active  == {i \in Job : phase[i] \in {"moving", "refreshing"}}
Uses(i) == IF phase[i] \in {"waiting", "moving"}
           THEN {ends[i].src, ends[i].dst}
           ELSE {ends[i].dst}

Init == phase = [i \in Job |-> "waiting"]

(* A transaction starts when no active one uses its fileservers.           *)
Start(i) ==
    /\ phase[i] \in {"waiting", "moved"}
    /\ Cardinality(Active) < slots
    /\ \A j \in Active : Uses(i) \cap Uses(j) = {}
    /\ phase' = [phase EXCEPT ![i] = IF @ = "waiting" THEN "moving" ELSE "refreshing"]

Finish(i) ==
    /\ i \in Active
    /\ phase' = [phase EXCEPT ![i] = IF @ = "moving" /\ ends[i].bk THEN "moved" ELSE "ended"]

GiveUp ==
    /\ Active = {}
    /\ phase' = [i \in Job |-> "ended"]

Next == /\ UNCHANGED <<slots, ends>>
        /\ \/ \E i \in Job : Start(i) \/ Finish(i)
           \/ GiveUp

Spec == Init /\ [][Next]_<<slots, ends, phase>>
=============================================================================
