--------------------------- MODULE MCWithdrawals ---------------------------
(***************************************************************************)
(* Instances of Withdrawals for TLC.                                       *)
(***************************************************************************)
EXTENDS Withdrawals, TLC

CONSTANTS w1, c1, c2, f1, f2

\* One wallet, two coins; f1 leaves the choice of inputs open, f2 names c1.
OneOwner == [c \in Coins |-> w1]
NamesC1 == [f \in Forms |-> IF f = f1 THEN {} ELSE {c1}]
OneConf == [f \in Forms |-> 1]
TwoConf == [f \in Forms |-> IF f = f1 THEN 1 ELSE 2]
UnreviewedOnly == {NoPayment}
ReviewsC1 == {NoPayment, [form |-> f1, coins |-> {c1}]}
\* Coins and requests are interchangeable when no form names a coin.
Symmetric == Permutations(Coins) \cup Permutations(Requests)
=============================================================================
