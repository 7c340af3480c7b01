SPECIFICATION FairSpec
CONSTANTS
    f = f
    o = o
    o1 = o1
    f1 = f1
    Keys = {f, o}
    Fresh = {f}
    Coins = {o1, f1}
    Owner <- OwnerOf
    Chain <- Blocks
    Calls = {"c1", "c2"}
    Attempts = {"s1"}
    Callers <- AllCallers
    Past = 1
    MaxOpens = 2
    MaxBatch = 2
INVARIANTS IndexComplete OpenUnderLock CallsAreDrained
CHECK_DEADLOCK FALSE
PROPERTIES CallsSettle OpensAndCloses
