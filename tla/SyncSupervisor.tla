--------------------------- MODULE SyncSupervisor ---------------------------
(***************************************************************************)
(* The sync supervisor of openWalletRuntime(): it runs one attempt at a    *)
(* time (PepenetSync), retries or polls on a timer, and publishes the      *)
(* status that decides which deposits are eligible and whether the wallet  *)
(* may spend.                                                              *)
(*                                                                         *)
(* Each action is one callback.  finish() stops the attempt before the     *)
(* callback returns, so an event of the attempt and what the supervisor    *)
(* makes of it are one step: the attempt is PepenetSync, which this module *)
(* extends.  The peer pool is left open: peers come ready at any time,     *)
(* claim any height or none, repeat their version message, leave, and      *)
(* agree or not to confirm the tip.                                        *)
(***************************************************************************)
EXTENDS PepenetSync

CONSTANT Targets    \* the heights the peers may claim

ASSUME TargetAssumption == Targets \subseteq Nat

Unknown == -1    \* no ready peer has claimed a height

VARIABLES
    \* the pool of the attempt: a ready peer claims to have the full chain
    archive,
    \* the supervisor: an attempt is under way, its 60 s deadline has not passed, its
    \* tip is being confirmed, the retry timer is set, close() was called
    running, deadline, confirming, retry, closing,
    \* the published status
    state, statusHeight, targetHeight, verifiedHeight,
    \* history: the tips that independent peers confirmed; what happened to the attempt
    \* that the supervisor does not answer
    witnessed, mishaps

supervisor == <<archive, running, deadline, confirming, retry, closing, mishaps>>
status == <<state, statusHeight, targetHeight, verifiedHeight, witnessed>>
supervisorVars == <<vars, supervisor, status>>

States == {"stopped", "connecting", "discovering", "syncing", "waiting", "error", "synced",
           "rescan_required"}

StatusOK ==
    /\ {archive, running, deadline, confirming, retry, closing} \subseteq BOOLEAN
    /\ state \in States
    /\ {statusHeight, verifiedHeight} \subseteq Nat /\ targetHeight \in Nat \cup {Unknown}
    /\ mishaps \subseteq {"upgraded", "thrown"}
    /\ witnessed \subseteq Nat \X (Blocks \cup {Genesis})
    /\ confirming => running

SupervisorInit ==
    /\ Init
    /\ running = FALSE /\ deadline = FALSE /\ confirming = FALSE
    /\ retry = FALSE /\ closing = FALSE /\ archive = FALSE
    /\ state = "stopped" /\ statusHeight = 0 /\ targetHeight = Unknown /\ verifiedHeight = 0
    /\ witnessed = {} /\ mishaps = {}

-----------------------------------------------------------------------------
\* beginSync() and finish().

Idle == phase # "reading"    \* the main thread is free

Begin ==
    /\ ~running /\ ~closing
    /\ Stop
    /\ running' = TRUE /\ deadline' = TRUE /\ archive' = FALSE /\ mishaps' = {}
    /\ state' = "connecting" /\ statusHeight' \in Checkpoints
    /\ UNCHANGED <<confirming, closing, targetHeight, verifiedHeight, witnessed>>

\* The application calls startSync(), which changes nothing during an attempt.
StartSync == Begin /\ UNCHANGED retry

RetryFires ==
    /\ Idle /\ retry /\ retry' = FALSE
    /\ \/ Begin
       \/ running /\ UNCHANGED <<vars, archive, running, deadline, confirming, closing, mishaps, status>>

\* The attempt is over: publish its outcome and perhaps schedule another.  Its deadline
\* and a confirmation still awaited do nothing any more.
Finish(outcome, again) ==
    /\ running' = FALSE /\ confirming' = FALSE /\ deadline' = FALSE /\ archive' = FALSE
    /\ state' = outcome
    /\ retry' = (retry \/ (again /\ ~closing))
    /\ UNCHANGED <<closing, targetHeight, mishaps>>

Unverified == UNCHANGED <<statusHeight, verifiedHeight, witnessed>>

-----------------------------------------------------------------------------
\* The peer pool.

\* A peer completes its handshake; the first one that claims the full chain by then
\* (archiveReady) starts the sync.
PeerReady(full, claim) ==
    /\ Idle /\ running /\ ~closing
    /\ targetHeight' = claim /\ archive' = (archive \/ full)
    /\ \/ phase # "off" /\ UNCHANGED <<vars, state>>
       \/ phase = "off" /\ ~full /\ state' = "discovering" /\ UNCHANGED vars
       \/ phase = "off" /\ full /\ state' = "syncing" /\ ReadCheckpoint
    /\ UNCHANGED <<running, deadline, confirming, retry, closing, mishaps,
                   statusHeight, verifiedHeight, witnessed>>

\* Peers leave, or one that is ready sends another version message: what it claims now
\* counts for hasArchivePeers(), but archiveReady is not emitted again.
PeersChange(full) ==
    /\ Idle /\ running /\ ~closing /\ state \in {"discovering", "syncing"}
    /\ archive # full /\ archive' = full
    /\ mishaps' = IF full /\ phase = "off" THEN mishaps \cup {"upgraded"} ELSE mishaps
    /\ UNCHANGED <<vars, running, deadline, confirming, retry, closing, status>>

\* DNS discovery yields nothing, before any peer is dialed.
ConnectFails ==
    /\ running /\ state = "connecting"
    /\ Stop
    /\ Finish("error", TRUE) /\ Unverified

DeadlineIgnored ==    \* mutant: the deadline only concerns an attempt that has a sync
    /\ Idle /\ running /\ deadline /\ deadline' = FALSE
    /\ UNCHANGED <<vars, archive, running, confirming, retry, closing, mishaps, status>>

\* After 60 s some ready peer must claim the full chain, whether or not a sync began.
DeadlinePasses ==
    /\ Idle /\ running /\ deadline
    /\ \/ ~archive /\ Stop /\ Finish("waiting", TRUE) /\ Unverified
       \/ /\ archive /\ deadline' = FALSE
          /\ UNCHANGED <<vars, archive, running, confirming, retry, closing, mishaps, status>>

-----------------------------------------------------------------------------
\* The attempt and its events.

Callback == Peer \/ Reply \/ Watchdog

\* A 'block' event per committed block, those of a stopped attempt included.
BlockEvents ==
    LET top == Highest(Head(mailbox).batch)
    IN  statusHeight' = IF Head(mailbox).result = "committed" /\ top > statusHeight
                          THEN top ELSE statusHeight

Advances ==
    /\ \/ Peer /\ UNCHANGED statusHeight
       \/ Reply /\ BlockEvents
    /\ phase' = phase
    /\ UNCHANGED <<supervisor, state, targetHeight, verifiedHeight, witnessed>>

Fails ==
    /\ Callback /\ phase # phase' /\ phase' = "failed"
    /\ Finish("error", TRUE) /\ Unverified

Reorganised ==
    /\ Callback /\ phase # phase' /\ phase' = "reorg"
    /\ Finish("rescan_required", FALSE) /\ Unverified

\* The peer has no more headers: fewer than the network claims to have (or nobody made
\* a claim),
EndsBehind ==
    /\ Callback /\ phase # phase' /\ phase' = "synced"
    /\ targetHeight = Unknown \/ height < targetHeight
    /\ Finish("waiting", TRUE) /\ Unverified

\* or enough to ask independent peers about the tip.
Synced ==
    /\ Callback /\ phase # phase' /\ phase' = "synced"
    /\ targetHeight # Unknown /\ height >= targetHeight
    /\ confirming' = TRUE
    /\ UNCHANGED <<archive, running, deadline, retry, closing, mishaps, status>>

ConfirmedAtCheckpoint ==    \* mutant: the verified height is read from the index
    /\ Idle /\ confirming /\ ~closing
    /\ statusHeight' = height /\ verifiedHeight' = Highest(blocks)
    /\ witnessed' = witnessed \cup {<<height, tip>>}
    /\ Finish("synced", TRUE)
    /\ UNCHANGED vars

Confirmed ==
    /\ Idle /\ confirming /\ ~closing
    /\ statusHeight' = height /\ verifiedHeight' = height
    /\ witnessed' = witnessed \cup {<<height, tip>>}
    /\ Finish("synced", TRUE)
    /\ UNCHANGED vars

\* The transaction that ends a rescan throws inside the callback of confirmTip(): the
\* heights are published, finish() is never reached.  (Unless the application handles the
\* rejection, Node ends the process here.)
ConfirmationThrows ==
    /\ Idle /\ confirming /\ ~closing
    /\ statusHeight' = height /\ verifiedHeight' = height
    /\ witnessed' = witnessed \cup {<<height, tip>>}
    /\ confirming' = FALSE /\ mishaps' = mishaps \cup {"thrown"}
    /\ UNCHANGED <<vars, archive, running, deadline, retry, closing, state, targetHeight>>

Unconfirmed ==
    /\ Idle /\ confirming
    /\ Finish("waiting", TRUE) /\ Unverified
    /\ UNCHANGED vars

\* close() of the runtime stops the attempt but does not finish it,
Close ==
    /\ ~closing /\ closing' = TRUE
    /\ retry' = FALSE
    /\ Stop
    /\ UNCHANGED <<archive, running, deadline, confirming, mishaps, status>>

\* so that a batch it had posted may still fail it.
FailsLate ==
    /\ closing /\ running
    /\ Stale /\ Head(mailbox).result # "committed"
    /\ Finish(IF Head(mailbox).result = "conflict" THEN "rescan_required" ELSE "error", FALSE)
    /\ Unverified

Timers == RetryFires \/ DeadlinePasses
Events == Advances \/ Fails \/ Reorganised \/ EndsBehind \/ Synced \/ FailsLate
Attempt == Start /\ UNCHANGED <<supervisor, status>>
Index == Commit /\ UNCHANGED <<supervisor, status>>
Network ==
    \/ \E full \in BOOLEAN, claim \in Targets \cup {Unknown} : PeerReady(full, claim)
    \/ \E full \in BOOLEAN : PeersChange(full)
    \/ ConnectFails
Witnesses == Confirmed \/ ConfirmationThrows \/ Unconfirmed

SupervisorNext == Timers \/ Events \/ Attempt \/ Index \/ Network \/ Witnesses \/ StartSync \/ Close

SupervisorSpec == SupervisorInit /\ [][SupervisorNext]_supervisorVars
-----------------------------------------------------------------------------
\* The heights the wallet relies on are backed by the index: the published height is
\* committed, and the block at the verified height, below which deposits become
\* eligible, is one that independent peers confirmed, although batches of stopped
\* attempts are committed meanwhile and peers follow different forks.
HeightsAreBacked ==
    /\ statusHeight \in DOMAIN blocks \cup {0}
    /\ verifiedHeight > 0 =>
         /\ verifiedHeight \in DOMAIN blocks
         /\ <<verifiedHeight, blocks[verifiedHeight]>> \in witnessed

\* What README.md says: a detected reorganisation stops indexing; no timer resumes it.
ReorgStopsIndexing == state = "rescan_required" => ~retry

\* Fairness: timers fire, the worker answers, confirmTip() settles within its own time
\* limit and the event loop runs what is ready.  Peers may stay silent.
FairSupervisor ==
    /\ SupervisorSpec
    /\ WF_supervisorVars(RetryFires) /\ WF_supervisorVars(DeadlinePasses) /\ WF_supervisorVars(Witnesses)
    /\ WF_supervisorVars(Attempt) /\ WF_supervisorVars(Index)
    /\ WF_supervisorVars(Reply /\ Events) /\ WF_supervisorVars(Watchdog /\ Events)

\* Two attempts that may stay for good with no timer set.  One has no sync, and its deadline
\* passed while a ready peer claimed the full chain by a second version message: only another
\* full peer that comes ready can save it.  The other's confirmation threw.
Stuck ==
    /\ running /\ ~confirming
    /\ \/ "upgraded" \in mishaps /\ phase = "off" /\ ~deadline
       \/ "thrown" \in mishaps /\ phase = "synced"

\* The wallet never stops looking for new blocks until it is closed or finds a
\* reorganisation, those two attempts apart: whatever peers, the worker and timers do
\* otherwise, an attempt ends and the next one is scheduled.
KeepsPolling ==
    \/ []<>(state = "connecting")
    \/ <>[](closing \/ state \in {"stopped", "rescan_required"} \/ Stuck)

\* What that rests on, in any state: a retry is scheduled, or the attempt under way has a
\* deadline before it, a confirmation to wait for, or a sync that is watched, or is one of
\* the two that are stuck.
NeverIdle ==
    ~closing /\ state \notin {"stopped", "rescan_required"} =>
        \/ retry
        \/ running /\ (deadline \/ confirming \/ phase = "reading" \/ (Running /\ AlwaysWatched))
        \/ Stuck
=============================================================================
