SPECIFICATION FairSpec
CONSTANTS
    p1 = p1
    p2 = p2
    p3 = p3
    p4 = p4
    None = None
    Group <- Ranges
    Peers <- FourPeers
    ArchivePeers <- TwoArchive
    Versions <- AllVersions
    MaxPeers = 3
    MaxCandidates = 4
    MinPeers = 2
INVARIANTS TipIsVouchedFor PoolIsKeptFull
PROPERTIES SyncPeerIsSound ClaimsAreOutvoted ConfirmationEnds
