------------------------------ MODULE PeerPool ------------------------------
(***************************************************************************)
(* The peer pool of a sync attempt (MultiPeerManager): it dials            *)
(* candidates, keeps a bounded number of connections, selects the peer     *)
(* the chain is downloaded from, and asks independent peers to confirm the *)
(* tip.  Every attempt of the supervisor has a pool of its own.            *)
(*                                                                         *)
(* A peer stands for a host and port.  What it says in its version message *)
(* is its own claim, and it may send another one later.  The download      *)
(* itself is PepenetSync; here the sync peer may serve any page.           *)
(***************************************************************************)
EXTENDS Integers, SequencesExt

CONSTANTS
    Peers, None,
    Group,            \* the /16 range of a peer
    ArchivePeers,     \* the configured fallbacks, in order
    Versions,         \* what a version message may claim
    MaxPeers, MaxCandidates,
    MinPeers          \* the agreements that confirmTip() requires

ASSUME PeersAssumption == IsFiniteSet(Peers) /\ None \notin Peers \cup Int
ASSUME ClaimsAssumption == Versions \subseteq [height : Int \cup {None}, full : BOOLEAN]
ASSUME SizeAssumption == {MaxPeers, MaxCandidates, MinPeers} \subseteq Nat \ {0}
ASSUME ArchiveAssumption ==
    /\ ArchivePeers \in Seq(Peers) /\ Len(ArchivePeers) <= MaxCandidates
    /\ IsInjective(ArchivePeers)

VARIABLES
    phase,        \* closed, resolving DNS seeds, dialing, syncing, confirming, confirmed
    candidates,   \* the queue of peers to dial
    keys,         \* candidateKeys: the peers ever queued
    conn,         \* peers and readyPeers
    says,         \* the version message of each peer
    syncPeer,
    target,       \* syncStatus.targetHeight
    waiting,      \* the witnesses whose answer is awaited
    agreed,       \* those that agreed
    server        \* history: the sync peer whose tip is confirmed

confirmation == <<waiting, agreed, server>>
vars == <<phase, candidates, keys, conn, says, syncPeer, target, confirmation>>

Unknown == [height |-> None, full |-> FALSE]
Among(status) == {p \in Peers : conn[p] \in status}
Connected == Among({"dialing", "ready"})
Ready == Among({"ready"})
IsOpen == phase \in {"dialing", "syncing", "confirming"}

TypeOK ==
    /\ phase \in {"closed", "resolving", "dialing", "syncing", "confirming", "confirmed"}
    /\ candidates \in Seq(Peers) /\ keys \subseteq Peers
    /\ conn \in [Peers -> {"none", "dialing", "ready", "dropped"}]
    /\ says \in [Peers -> Versions \cup {Unknown}]
    /\ {syncPeer, server} \subseteq Peers \cup {None} /\ target \in Int \cup {None}
    /\ waiting \subseteq Peers /\ agreed \subseteq Peers
    /\ waiting # {} => phase = "confirming"

Init ==
    /\ phase = "closed"
    /\ candidates = <<>> /\ keys = {}
    /\ conn = [p \in Peers |-> "none"] /\ says = [p \in Peers |-> Unknown]
    /\ syncPeer = None /\ target = None
    /\ waiting = {} /\ agreed = {} /\ server = None

-----------------------------------------------------------------------------
\* Heights and the choice of the sync peer.

Claimed(S) == {p \in S : says[p].height # None}

HighestClaim(S) ==    \* mutant: the highest claim instead of the median
    IF Claimed(S) = {} THEN None
    ELSE LET best == CHOOSE p \in Claimed(S) :
                        \A q \in Claimed(S) : says[q].height <= says[p].height
         IN  says[best].height

\* The upper median of a function from peers: at most half of the values are below it,
\* more than half are not above it.
Middle(heights) ==
    LET half == Cardinality(DOMAIN heights) \div 2
    IN  CHOOSE h \in {heights[p] : p \in DOMAIN heights} :
            /\ Cardinality({p \in DOMAIN heights : heights[p] < h}) <= half
            /\ half < Cardinality({p \in DOMAIN heights : heights[p] <= h})

\* The median of the heights that the peers of S claim.
Median(S) ==
    IF Claimed(S) = {} THEN None ELSE Middle([p \in Claimed(S) |-> says[p].height])

Height(h) == IF h = None THEN 0 ELSE h

Full == {p \in Ready : says[p].full}
Eligible == {p \in Full : Height(says[p].height) >= Height(Median(Full))}

SelectableAnew ==    \* mutant: every request chooses again
    IF Full = {} THEN {syncPeer} ELSE Eligible

\* A sync peer that is still connected and full is kept.
Selectable == IF syncPeer \in Full \/ Full = {} THEN {syncPeer} ELSE Eligible

-----------------------------------------------------------------------------
\* The queue and the connections.

\* Any order in which a DNS answer or an addr message may list hosts.
Orders(S) == {s \in [1 .. Cardinality(S) -> S] : IsInjective(s)}

\* Those that join the queue before too many hosts are known.
Admitted(order) == SubSeq(order, 1, Min({Len(order), MaxCandidates - Cardinality(keys)}))

\* Hosts that were never queued, at the end of the queue.
Queues(hosts) == {candidates \o Admitted(order) : order \in Orders(hosts \ keys)}

\* Dial the front of the queue while there is room for a connection.
Fill(queue, held) ==
    LET busy == {p \in Peers : held[p] \in {"dialing", "ready"}}
        n == Min({Len(queue), MaxPeers - Cardinality(busy)})
        dialed == ToSet(SubSeq(queue, 1, n))
    IN  /\ candidates' = SubSeq(queue, n + 1, Len(queue))
        /\ conn' = [p \in Peers |-> IF p \in dialed THEN "dialing" ELSE held[p]]

\* A new attempt has a new pool, which remembers nothing; the configured peers wait for
\* the DNS seeds.
Open ==
    /\ phase \in {"closed", "confirmed"} /\ phase' = "resolving"
    /\ candidates' = ArchivePeers /\ keys' = ToSet(ArchivePeers)
    /\ agreed' = {} /\ server' = None
    /\ UNCHANGED <<conn, says, syncPeer, target, waiting>>

Discovered(hosts) ==
    /\ phase = "resolving" /\ phase' = "dialing"
    /\ \E queue \in Queues(hosts) :
        /\ keys' = keys \cup ToSet(queue)
        /\ Fill(queue, conn)
    /\ UNCHANGED <<says, syncPeer, target, confirmation>>

\* The handshake completes.  The first full peer starts the sync, which asks for headers.
Handshake(p, version) ==
    /\ IsOpen /\ conn[p] = "dialing"
    /\ conn' = [conn EXCEPT ![p] = "ready"]
    /\ says' = [says EXCEPT ![p] = version]
    /\ target' = Median(Ready)'
    /\ IF phase = "dialing" /\ version.full
         THEN phase' = "syncing" /\ syncPeer' \in Eligible'
         ELSE UNCHANGED <<phase, syncPeer>>
    /\ UNCHANGED <<candidates, keys, confirmation>>

\* A connected peer sends another version message.
Version(p, version) ==
    /\ IsOpen /\ conn[p] = "ready"
    /\ says' = [says EXCEPT ![p] = version]
    /\ UNCHANGED <<phase, candidates, keys, conn, syncPeer, target, confirmation>>

\* addr, before or after the handshake.
Gossip(p, hosts) ==
    /\ IsOpen /\ p \in Connected
    /\ \E queue \in Queues(hosts) :
        /\ keys' = keys \cup ToSet(queue)
        /\ Fill(queue, conn)
    /\ UNCHANGED <<phase, says, syncPeer, target, confirmation>>

DropUnfilled(p) ==    \* mutant: the slot is not filled
    /\ IsOpen /\ p \in Connected
    /\ conn' = [conn EXCEPT ![p] = "dropped"]
    /\ waiting' = waiting \ {p}
    /\ syncPeer' = IF syncPeer = p THEN None ELSE syncPeer
    /\ UNCHANGED <<phase, candidates, keys, says, target, agreed, server>>

\* A dial fails or a connection ends; a witness that leaves does not agree.
Drop(p) ==
    /\ IsOpen /\ p \in Connected
    /\ Fill(candidates, [conn EXCEPT ![p] = "dropped"])
    /\ waiting' = waiting \ {p}
    /\ syncPeer' = IF syncPeer = p THEN None ELSE syncPeer
    /\ UNCHANGED <<phase, keys, says, target, agreed, server>>

\* requestHeaders() for another page, which goes nowhere when no full peer is ready.
Request ==
    /\ phase = "syncing"
    /\ syncPeer' \in Selectable
    /\ UNCHANGED <<phase, candidates, keys, conn, says, target, confirmation>>

-----------------------------------------------------------------------------
\* The end of an attempt.

Closed ==
    /\ candidates' = <<>> /\ keys' = {}
    /\ conn' = [p \in Peers |-> "none"] /\ says' = [p \in Peers |-> Unknown]
    /\ syncPeer' = None
    /\ UNCHANGED target

\* A time limit, an invalid page, a failed attempt, or the runtime closes.
Close ==
    /\ phase \notin {"closed", "confirmed"} /\ phase' = "closed"
    /\ Closed
    /\ waiting' = {} /\ agreed' = {} /\ server' = None

WitnessesAnywhere ==    \* mutant: the sync peer's own range is not excluded
    {W \in SUBSET (Ready \ {syncPeer}) :
        /\ \A v, w \in W : Group[v] = Group[w] => v = w
        /\ \A p \in Ready \ {syncPeer} : \E w \in W : Group[w] = Group[p]}

\* One ready peer of every range but the sync peer's; which one depends on the order in
\* which they got ready.
Witnesses ==
    LET others == {p \in Ready : Group[p] # Group[syncPeer]}
    IN  {W \in SUBSET others :
            /\ \A v, w \in W : Group[v] = Group[w] => v = w
            /\ \A p \in others : \E w \in W : Group[w] = Group[p]}

\* The sync peer has no more headers, and they reach the target: confirmTip().
LastPage ==
    /\ phase = "syncing" /\ syncPeer # None
    /\ phase' = "confirming" /\ server' = syncPeer
    /\ waiting' \in Witnesses /\ agreed' = {}
    /\ UNCHANGED <<candidates, keys, conn, says, syncPeer, target>>

Agrees(w) ==
    /\ w \in waiting
    /\ waiting' = waiting \ {w} /\ agreed' = agreed \cup {w}
    /\ UNCHANGED <<phase, candidates, keys, conn, says, syncPeer, target, server>>

\* The witness knows another chain, its answer is malformed, or it does not answer in time.
Disagrees(w) ==
    /\ w \in waiting
    /\ waiting' = waiting \ {w}
    /\ UNCHANGED <<phase, candidates, keys, conn, says, syncPeer, target, agreed, server>>

SettleUnanimous ==    \* mutant: too few agreements are not reported
    /\ phase = "confirming" /\ waiting = {} /\ Cardinality(agreed) >= MinPeers
    /\ phase' = "confirmed"
    /\ Closed /\ UNCHANGED confirmation

\* All witnesses are heard; either way the attempt is over.
Settle ==
    /\ phase = "confirming" /\ waiting = {}
    /\ phase' = IF Cardinality(agreed) >= MinPeers THEN "confirmed" ELSE "closed"
    /\ Closed /\ UNCHANGED confirmation

Life(p) ==
    \/ \E version \in Versions : Handshake(p, version) \/ Version(p, version)
    \/ \E hosts \in SUBSET Peers : Gossip(p, hosts)
    \/ Drop(p) \/ Agrees(p) \/ Disagrees(p)

Next ==
    \/ Open \/ (\E hosts \in (SUBSET Peers) \ {{}} : Discovered(hosts))
    \/ (\E p \in Peers : Life(p))
    \/ Request \/ LastPage \/ Settle \/ Close

Spec == Init /\ [][Next]_vars
-----------------------------------------------------------------------------
\* The wallet reads "synced" only when enough peers of different ranges, none of them
\* the range of the peer that served the chain, said the tip is on their best chain,
\* whoever connects, leaves and answers while they are asked.
TipIsVouchedFor ==
    phase = "confirmed" =>
        Cardinality({Group[w] : w \in agreed} \ {Group[server]}) >= MinPeers

\* No peer is dialed twice in an attempt, no limit is exceeded, and no slot stays
\* empty while a candidate waits, after any sequence of drops and gossip.
PoolIsKeptFull ==
    LET waitingToDial == ToSet(candidates)
    IN  /\ IsInjective(candidates)
        /\ \A p \in waitingToDial : conn[p] = "none"
        /\ Cardinality(Connected) <= MaxPeers
        /\ Cardinality({p \in Peers : conn[p] # "none"} \cup waitingToDial) <= MaxCandidates
        /\ IsOpen => Cardinality(Connected) = MaxPeers \/ candidates = <<>>

\* The download is never taken from a peer that is connected and full, and it is given
\* to a full peer whose height is not below that of most full peers.
SyncPeerIsSound ==
    [][syncPeer' # syncPeer =>
        /\ syncPeer \in Full /\ IsOpen' => conn'[syncPeer] # "ready"
        /\ syncPeer' # None =>
             LET claimed == Claimed(Full)'
                 above == {p \in claimed : says'[p].height > Height(says'[syncPeer'].height)}
             IN  /\ syncPeer' \in Full'
                 /\ claimed = {} \/ 2 * Cardinality(above) < Cardinality(claimed)]_vars

\* Peers that exaggerate or understate cannot move the network height while they are
\* less than half of those that claim one.
ClaimsAreOutvoted ==
    [][\A p \in Peers : conn[p] = "dialing" /\ conn'[p] = "ready" =>
        LET claimed == Claimed(Ready)'
            half(S) == 2 * Cardinality(S) > Cardinality(claimed)
        IN  \A q \in claimed :
                LET h == says'[q].height
                IN  /\ half({r \in claimed : says'[r].height <= h}) => target' <= h
                    /\ half({r \in claimed : says'[r].height >= h}) => target' >= h]_vars

\* Fairness: the time limit of a question passes, the event loop runs what is ready.
FairSpec == Spec /\ WF_vars(Settle) /\ \A p \in Peers : WF_vars(Disagrees(p))

\* The confirmation of a tip always ends, whatever the witnesses do.
ConfirmationEnds == phase = "confirming" ~> phase # "confirming"
=============================================================================
