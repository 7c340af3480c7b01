SPECIFICATION FairSpec
CONSTANTS
    a1 = a1  a2 = a2  a3 = a3  b2 = b2  x2 = x2  z3 = z3
    Genesis = Genesis
    Blocks = {a1, a2, a3, b2, x2}
    Parent <- Tree
    Valid = {a1, a2, a3, b2}
    Retargeted = {a1, a2, a3, b2, x2}
    Pages <- Answers
    Faults = {"checkpoint", "context", "ingest"}
    MaxPage = 2
    MaxBatch = 2
    MaxMailbox = 1
INVARIANTS IndexIsAChain SyncedIsCommitted
PROPERTIES NeverRewrites AttemptsEnd
