SPECIFICATION FairSpec
CONSTANTS
    MaxPeers = 3
    MaxCandidates = 4
    MinWitnesses = 2
INVARIANTS RelayedIsWitnessed GivesUpExhausted NeverTwiceTheSame
PROPERTY RelaySettles
CHECK_DEADLOCK FALSE
