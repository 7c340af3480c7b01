SPECIFICATION Spec
CONSTANTS
    a1 = a1  a2 = a2  a3 = a3  b2 = b2  x2 = x2  z3 = z3
    Genesis = Genesis
    Blocks = {a1, a2, z3}
    Parent <- Tree
    Valid = {a1, a2, z3}
    Retargeted = {a1, a2}
    Pages <- BadAnswers
    Faults = {}
    MaxPage = 2
    MaxBatch = 2
    MaxMailbox = 1
INVARIANT DifficultyChecked
