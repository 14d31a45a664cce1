------------------------------ MODULE Listings ------------------------------
(***************************************************************************)
(* Sets written out in an order, and what is left of a sequence when       *)
(* some of its elements are dropped: SetToSortSeq and SelectSeq, without   *)
(* recursion and without operators as parameters.                          *)
(***************************************************************************)
EXTENDS Integers, Sequences, FiniteSets

(* The elements of S, each behind those that R puts before it.             *)
Listing(S, R) ==
    [k \in 1..Cardinality(S) |->
        CHOOSE x \in S : Cardinality({y \in S : <<y, x>> \in R}) = k]

UpTo(I) == {p \in I \X I : p[1] <= p[2]}

(* The elements of s at the indexes I, in their order.                     *)
Picked(s, I) == [k \in DOMAIN Listing(I, UpTo(I)) |-> s[Listing(I, UpTo(I))[k]]]

(* Where x is in the sequence s.                                           *)
At(s, x) == CHOOSE i \in DOMAIN s : s[i] = x

(* The first of the indexes I.                                             *)
First(I) == CHOOSE i \in I : \A k \in I : i <= k
=============================================================================
