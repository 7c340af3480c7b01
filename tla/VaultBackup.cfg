SPECIFICATION Spec
SYMMETRY Alike
CONSTANTS
    k1 = k1
    k2 = k2
    c1 = c1
    Vaults = {vault, copy}
    Owners = {n, m}
    Accounts = {a1, a2}
    Keys = {k1, k2}
    Coins = {c1}
    Ids = {p1, p2}
    KeyOf <- Locked
INVARIANTS ReservedOnce
PROPERTIES ImplementsVault
