------------------------------ MODULE MCSpool ------------------------------
(***************************************************************************)
(* Two or three jobs of a PC: under names of their own, under one name,    *)
(* empty, filtered; users known, unknown, refused and without a name.      *)
(***************************************************************************)
EXTENDS Spool, TLC

J(file, user, size, diablo) == [file |-> file, user |-> user, size |-> size, diablo |-> diablo]
Known == "ann" :> 101 @@ "bob" :> 102 @@ "root" :> 0 @@ "nobody" :> 60001
Fewer == "bob" :> 103 @@ "root" :> 0
MCPasswds == {Known, Fewer}

Case(jbs, pw, snds, mshps) == [jobs |-> jbs, passwd |-> pw, sends |-> snds, mishaps |-> mshps]
MCCases ==
    { Case(<<J("f", "ann", 1, TRUE), J("g", "bob", 1, FALSE)>>, Known, 2, 1),
      Case(<<J("f", "ann", 1, FALSE), J("f", "bob", 2, FALSE)>>, Known, 2, 1),
      Case(<<J("f", "eve", 0, FALSE), J("g", "ann", 1, FALSE)>>, Fewer, 2, 1),
      Case(<<J("f", "", 1, FALSE), J("f", "root", 1, FALSE), J("f", "ann", 1, FALSE)>>, Known, 1, 0) }
MCAllowed == 101..60002
MCDigits == {"146"}
=============================================================================
