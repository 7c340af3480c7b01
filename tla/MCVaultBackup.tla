--------------------------- MODULE MCVaultBackup ---------------------------
(***************************************************************************)
(* Instances of VaultBackup for TLC: a vault and a copy.                   *)
(***************************************************************************)
EXTENDS VaultBackup, TLC

CONSTANTS k1, k2, c1

Locked == [c \in Coins |-> k1]

\* Nothing tells the vaults apart, nor the namespaces, the accounts and the payments.
Alike == Permutations(Vaults) \cup Permutations(Owners) \cup Permutations(Accounts)
    \cup Permutations(Ids)
=============================================================================
