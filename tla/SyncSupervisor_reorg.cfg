SPECIFICATION SupervisorSpec
CONSTANTS
    a1 = a1  a2 = a2  b2 = b2
    Genesis = Genesis
    Blocks = {a1, a2, b2}
    Parent <- Fork
    Valid = {a1, a2, b2}
    Retargeted = {a1, a2, b2}
    Pages <- Forked
    Faults = {"ingest"}
    MaxPage = 2
    MaxBatch = 2
    MaxMailbox = 1
    Targets = {0, 2}
INVARIANT ReorgStopsIndexing
CHECK_DEADLOCK FALSE
