----------------------------- MODULE MCPeerPool -----------------------------
(***************************************************************************)
(* Instances of PeerPool for TLC.                                          *)
(***************************************************************************)
EXTENDS PeerPool, TLC

CONSTANTS p1, p2, p3, p4

FourPeers == {p1, p2, p3, p4}

\* p1 and p2 share a range.
Ranges == [p \in Peers |-> IF p = p2 THEN p1 ELSE p]
TwoArchive == <<p1, p2>>

\* An honest height, an exaggerated one, a pruned peer, and one that claims no height.
Full5 == [height |-> 5, full |-> TRUE]
Full9 == [height |-> 9, full |-> TRUE]
Pruned == [height |-> 5, full |-> FALSE]
Silent == [height |-> None, full |-> TRUE]
AllVersions == {Full5, Full9, Pruned, Silent}

\* Middle is the entry at length >> 1 of the sorted heights (medianHeight).
Sorted(heights) ==
    SetToSortSeq(DOMAIN heights,
        LAMBDA i, j : heights[i] < heights[j] \/ (heights[i] = heights[j] /\ i < j))
ASSUME MedianAssumption ==
    \A n \in 1 .. 5 : \A heights \in [1 .. n -> 0 .. 3] :
        Middle(heights) = heights[Sorted(heights)[n \div 2 + 1]]
=============================================================================
