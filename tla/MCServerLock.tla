---------------------------- MODULE MCServerLock ----------------------------
(***************************************************************************)
(* Instances of ServerLock for TLC: two current openers and a legacy one.  *)
(***************************************************************************)
EXTENDS ServerLock

CONSTANTS o1, o2, old
=============================================================================
