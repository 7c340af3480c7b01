--------------------------- MODULE MCPepenetSync ---------------------------
(***************************************************************************)
(* Instances of PepenetSync for TLC: a chain a1, a2, a3 with a fork b2     *)
(* after a1, a header x2 without proof of work after a1, and a header z3   *)
(* of the wrong difficulty after a2.                                       *)
(***************************************************************************)
EXTENDS PepenetSync

CONSTANTS a1, a2, a3, b2, x2, z3

Tree == [b \in Blocks |-> IF b = a1 THEN Genesis ELSE IF b \in {a3, z3} THEN a2 ELSE a1]
Unlinked == {<<b>> : b \in Blocks} \cup {<<>>}
Answers == Unlinked \cup {<<a1, a2>>, <<a2, a3>>, <<a1, b2>>, <<a1, a2, a3>>, <<a1, x2>>}
BadAnswers == {<<>>, <<a1>>, <<a2>>, <<a2, z3>>}
=============================================================================
