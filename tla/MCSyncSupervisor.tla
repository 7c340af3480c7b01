-------------------------- MODULE MCSyncSupervisor --------------------------
(***************************************************************************)
(* Instances of SyncSupervisor for TLC: a chain a1, a2 with a fork b2      *)
(* after a1.                                                               *)
(***************************************************************************)
EXTENDS SyncSupervisor

CONSTANTS a1, a2, b2

Fork == [b \in Blocks |-> IF b = a1 THEN Genesis ELSE a1]
Forked == {<<>>, <<a1>>, <<a2>>, <<b2>>, <<a1, a2>>}
=============================================================================
