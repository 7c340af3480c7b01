--------------------------- MODULE MCWalletRuntime ---------------------------
(***************************************************************************)
(* Instances of WalletRuntime for TLC: a fresh key f and an old key o,     *)
(* which was paid before the wallet existed, spends and pays f.            *)
(***************************************************************************)
EXTENDS WalletRuntime

CONSTANTS f, o, o1, f1

OwnerOf == [c \in Coins |-> IF c = f1 THEN f ELSE o]
Blocks ==
    << {[in |-> {}, out |-> {o1}]}, {[in |-> {o1}, out |-> {f1}]} >>
AllCallers == Calls \cup Attempts \cup {"open"}
=============================================================================
