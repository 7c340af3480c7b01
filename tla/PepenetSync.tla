---------------------------- MODULE PepenetSync ----------------------------
(***************************************************************************)
(* A headers-first catch-up (PepecoinSync) and the index it fills through  *)
(* the chain-index worker.                                                 *)
(*                                                                         *)
(* The main thread runs one message, timer or reply at a time; the worker  *)
(* runs beside it and commits one batch at a time, in the order the        *)
(* batches were posted.  An attempt that its owner stops leaves the batch  *)
(* it posted in the worker's mailbox, and the next attempt may start       *)
(* before that batch is committed: the mailbox outlives the attempts.      *)
(*                                                                         *)
(* Abstractions.  A block is an element of a tree (Parent); Valid holds    *)
(* the blocks whose header passes every check that needs no other header,  *)
(* Retargeted those with the difficulty their ancestors require.  A body   *)
(* that does not match its header is ignored, so only matching bodies are  *)
(* delivered.  Genesis is never indexed; its height is 0.                  *)
(***************************************************************************)
EXTENDS Integers, Sequences, FiniteSets

CONSTANTS
    Blocks, Genesis, Parent,
    Valid,
    Retargeted,
    Pages,        \* what a headers message may hold
    Faults,       \* the storage failures a run allows
    MaxPage,      \* MAX_BLOCKS_PER_REQUEST
    MaxBatch,     \* INGEST_BATCH_SIZE
    MaxMailbox    \* bound: batches the worker still holds when an attempt starts

ASSUME TreeAssumption ==
    /\ Genesis \notin Blocks
    /\ Parent \in [Blocks -> Blocks \cup {Genesis}]
ASSUME ConsensusAssumption == Valid \subseteq Blocks /\ Retargeted \subseteq Blocks
ASSUME PageAssumption == Pages \subseteq Seq(Blocks)
ASSUME SizeAssumption ==
    {MaxPage, MaxBatch} \subseteq Nat \ {0} /\ MaxMailbox \in Nat
ASSUME FaultAssumption == Faults \subseteq {"checkpoint", "context", "ingest"}

\* Blocks by height: the index, the staged page, a batch.
IsChain(f) == \A h \in DOMAIN f : h \in Nat /\ f[h] \in Blocks
Empty == [h \in {} |-> Genesis]

VARIABLES
    blocks,      \* the blocks table
    mailbox,     \* ingestBatch calls: posted, answered and not yet seen by the main thread
    phase,       \* what became of the latest attempt
    height,      \* the last height it saw committed
    announced,   \* the last height it staged
    tip,         \* its locator
    recent,      \* how many timestamps and targets its validation context holds, up to 2
    pending,     \* its staged page
    bodies,      \* the staged heights whose body has arrived
    inFlight,    \* whether a getheaders is unanswered
    timers       \* the watchdogs that are armed

attempt == <<height, announced, tip, recent, pending, bodies, inFlight, timers>>
vars == <<blocks, mailbox, phase, attempt>>

\* An attempt that its owner stopped, one being constructed, one that runs, and the
\* three events that end one.
Phases == {"off", "reading", "running", "synced", "failed", "reorg"}
Results == {"posted", "committed", "conflict", "failed"}

\* live: the batch belongs to an attempt that has not been stopped.
IsPost(post) ==
    IsChain(post.batch) /\ post.result \in Results /\ post.live \in BOOLEAN

TypeOK ==
    /\ IsChain(blocks)
    /\ \A i \in 1 .. Len(mailbox) : IsPost(mailbox[i])
    /\ phase \in Phases
    /\ height \in Nat /\ announced \in Nat
    /\ tip \in Blocks \cup {Genesis}
    /\ recent \in 0 .. 2
    /\ IsChain(pending)
    /\ bodies \subseteq DOMAIN pending
    /\ inFlight \in BOOLEAN
    /\ timers \subseteq {"headers", "block"}

Init ==
    /\ blocks = Empty /\ mailbox = <<>> /\ phase = "off"
    /\ height = 0 /\ announced = 0 /\ tip = Genesis /\ recent = 1
    /\ pending = Empty /\ bodies = {} /\ inFlight = FALSE /\ timers = {}

At(chain, h) == IF h = 0 THEN Genesis ELSE chain[h]
Highest(chain) ==
    IF chain = Empty THEN 0 ELSE CHOOSE h \in DOMAIN chain : \A k \in DOMAIN chain : k <= h
Smaller(i, j) == IF i < j THEN i ELSE j

-----------------------------------------------------------------------------
\* The worker.

NeverConflicts(batch) == FALSE    \* mutant: the saved hash is not compared, only overwritten

Conflicts(batch) ==
    \E h \in DOMAIN batch \cap DOMAIN blocks : blocks[h] # batch[h]

\* Re-ingesting a block that is already there changes nothing.
Merged(batch) ==
    [h \in DOMAIN blocks \cup DOMAIN batch |->
        IF h \in DOMAIN batch THEN batch[h] ELSE blocks[h]]

\* One transaction per batch: all of it or nothing.
Commit ==
    \E i \in 1 .. Len(mailbox), result \in Results \ {"posted"} :
        /\ mailbox[i].result = "posted"
        /\ \A j \in 1 .. i - 1 : mailbox[j].result # "posted"
        /\ result = "failed" => "ingest" \in Faults
        /\ result = "conflict" => Conflicts(mailbox[i].batch)
        /\ result = "committed" => ~Conflicts(mailbox[i].batch)
        /\ blocks' = IF result = "committed" THEN Merged(mailbox[i].batch) ELSE blocks
        /\ mailbox' = [mailbox EXCEPT ![i].result = result]
        /\ UNCHANGED <<phase, attempt>>

-----------------------------------------------------------------------------
\* The attempt.

\* stop(), with what made the owner call it.  A posted batch is not recalled.
End(reason, posts) ==
    /\ phase' = reason
    /\ mailbox' = [i \in 1 .. Len(posts) |-> [posts[i] EXCEPT !.live = FALSE]]
    /\ pending' = Empty /\ bodies' = {} /\ inFlight' = FALSE /\ timers' = {}
    /\ UNCHANGED <<blocks, height, announced, tip, recent>>

\* The constructor runs to its end before anything else on the main thread.
Stop == phase # "reading" /\ End("off", mailbox)

Running == phase = "running"
Ingesting == \E i \in 1 .. Len(mailbox) : mailbox[i].live

Checkpoints == {Highest(blocks)} \cup (IF "checkpoint" \in Faults THEN {0} ELSE {})

\* The constructor reads the index through connections of its own while the worker
\* may commit: the checkpoint first,
ReadCheckpoint ==
    /\ phase \notin {"reading", "running"}
    /\ Len(mailbox) <= MaxMailbox
    /\ height' \in Checkpoints /\ announced' = height'
    /\ tip' = At(blocks, height')
    /\ phase' = "reading"
    /\ UNCHANGED <<blocks, mailbox, recent, pending, bodies, inFlight, timers>>

\* then the validation context, which is empty unless it ends at the checkpoint (exact);
Contexts == {Highest(blocks) = height} \cup (IF "context" \in Faults THEN {FALSE} ELSE {})

\* start() goes on with the first request (the peers are ready by then).
Start ==
    /\ phase = "reading"
    /\ \E exact \in Contexts : recent' = IF height = 0 THEN 1 ELSE IF exact THEN 2 ELSE 0
    /\ phase' = "running"
    /\ inFlight' = TRUE /\ timers' = {"headers"}
    /\ UNCHANGED <<blocks, mailbox, height, announced, tip, pending, bodies>>

Links(page) ==
    \A i \in 1 .. Len(page) : Parent[page[i]] = IF i = 1 THEN tip ELSE page[i - 1]

\* Difficulty is checked against the two headers before, or genesis alone.
Checked(i) == recent + i - 1 >= 2 \/ announced + i = 1

Consensus(page) ==
    \A i \in 1 .. Len(page) :
        /\ page[i] \in Valid
        /\ Checked(i) => page[i] \in Retargeted

UnsolicitedToo == TRUE    \* mutant: any headers message counts as the awaited one
Expecting == inFlight /\ pending = Empty /\ ~Ingesting

\* A page that was asked for, cut to the size of a block request.
Headers(message) ==
    LET page == SubSeq(message, 1, Smaller(Len(message), MaxPage))
        heights == announced + 1 .. announced + Len(page)
    IN  /\ Running /\ Expecting
        /\ \/ page = <<>> /\ End("synced", mailbox)
           \/ /\ page # <<>> /\ ~(Links(page) /\ Consensus(page))
              /\ End("failed", mailbox)
           \/ /\ page # <<>> /\ Links(page) /\ Consensus(page)
              /\ pending' = [h \in heights |-> page[h - announced]]
              /\ announced' = announced + Len(page)
              /\ tip' = page[Len(page)]
              /\ recent' = Smaller(2, recent + Len(page))
              /\ inFlight' = FALSE /\ timers' = {"block"}
              /\ UNCHANGED <<blocks, mailbox, phase, height, bodies>>

\* drainPending(): post the bodies that continue the index, or ask for another page
\* once none is staged.
Continuing == {h \in height' + 1 .. height' + MaxBatch : height' + 1 .. h \subseteq bodies'}

Drain(posts, armed) ==
    \/ /\ Continuing # {}
       /\ mailbox' = Append(posts, [batch |-> [h \in Continuing |-> pending'[h]],
                                    result |-> "posted", live |-> TRUE])
       /\ timers' = armed
       /\ UNCHANGED inFlight
    \/ /\ Continuing = {} /\ pending' # Empty
       /\ mailbox' = posts /\ timers' = armed
       /\ UNCHANGED inFlight
    \/ /\ Continuing = {} /\ pending' = Empty
       /\ mailbox' = posts
       /\ inFlight' = TRUE /\ timers' = armed \cup {"headers"}

\* A requested body arrives, in any order; the watchdog stays until the last one.
BodyDisarming(h) ==    \* mutant: any body disarms the watchdog
    /\ Running /\ h \in DOMAIN pending \ bodies
    /\ bodies' = bodies \cup {h}
    /\ UNCHANGED <<blocks, phase, height, announced, tip, recent, pending>>
    /\ \/ Ingesting /\ timers' = timers \ {"block"} /\ UNCHANGED <<mailbox, inFlight>>
       \/ ~Ingesting /\ Drain(mailbox, timers \ {"block"})

Body(h) ==
    LET armed == IF bodies' = DOMAIN pending THEN timers \ {"block"} ELSE timers \cup {"block"}
    IN  /\ Running /\ h \in DOMAIN pending \ bodies
        /\ bodies' = bodies \cup {h}
        /\ UNCHANGED <<blocks, phase, height, announced, tip, recent, pending>>
        /\ \/ Ingesting /\ timers' = armed /\ UNCHANGED <<mailbox, inFlight>>
           \/ ~Ingesting /\ Drain(mailbox, armed)

\* The bodies held would exceed MAX_PENDING_BLOCK_BYTES.
Overflow(h) ==
    /\ Running /\ h \in DOMAIN pending \ bodies /\ bodies # {}
    /\ End("failed", mailbox)

Timeout(kind) ==
    /\ Running /\ kind \in timers
    /\ End("failed", mailbox)

\* The worker's answer to the oldest batch reaches the continuation that awaits it.
Answered(results) ==
    /\ phase # "reading"
    /\ mailbox # <<>> /\ Head(mailbox).result \in results

\* That of a stopped attempt changes nothing.
Stale ==
    /\ Answered(Results \ {"posted"}) /\ ~Head(mailbox).live
    /\ mailbox' = Tail(mailbox)
    /\ UNCHANGED <<blocks, phase, attempt>>

Ingested ==
    LET batch == Head(mailbox).batch
    IN  /\ Answered({"committed"}) /\ Head(mailbox).live
        /\ height' = Highest(batch)
        /\ tip' = batch[Highest(batch)]
        /\ pending' = [h \in DOMAIN pending \ DOMAIN batch |-> pending[h]]
        /\ bodies' = bodies \ DOMAIN batch
        /\ Drain(Tail(mailbox), timers)
        /\ UNCHANGED <<blocks, phase, announced, recent>>

Refused ==
    /\ Answered({"conflict", "failed"}) /\ Head(mailbox).live
    /\ End(IF Head(mailbox).result = "conflict" THEN "reorg" ELSE "failed", Tail(mailbox))

Peer == (\E page \in Pages : Headers(page)) \/ (\E h \in DOMAIN pending : Body(h) \/ Overflow(h))
Reply == Stale \/ Ingested \/ Refused
Watchdog == \E kind \in {"headers", "block"} : Timeout(kind)
Owner == ReadCheckpoint \/ (phase # "off" /\ Stop)

Next == Commit \/ Owner \/ Start \/ Peer \/ Reply \/ Watchdog

Spec == Init /\ [][Next]_vars
-----------------------------------------------------------------------------
\* The index is one chain from genesis without a gap, of headers that were validated,
\* whatever batches of stopped attempts are committed between those of the current
\* one and whatever forks the peers of the attempts follow.
IndexIsAChain ==
    \A h \in DOMAIN blocks :
        /\ h > 0 /\ 1 .. h \subseteq DOMAIN blocks
        /\ Parent[blocks[h]] = At(blocks, h - 1)
        /\ blocks[h] \in Valid

\* What is committed is never replaced: a fork is refused, not adopted.
NeverRewrites ==
    [][\A h \in DOMAIN blocks : h \in DOMAIN blocks' /\ blocks'[h] = blocks[h]]_vars

\* An attempt that reports completion has committed all it staged, and the locator it
\* hands to the independent peers is the block the index holds at its height.
SyncedIsCommitted ==
    phase = "synced" =>
        height = announced /\ height \in DOMAIN blocks \cup {0} /\ tip = At(blocks, height)

\* What README.md says: the difficulty of every block is checked.
DifficultyChecked == \A h \in DOMAIN blocks : blocks[h] \in Retargeted

\* Fairness: the worker answers, timers fire and the event loop runs what is ready.
\* Nothing is assumed of the peers.
FairSpec == Spec /\ WF_vars(Commit) /\ WF_vars(Reply) /\ WF_vars(Watchdog) /\ WF_vars(Start)

\* What that rests on, in any state: an attempt waits for a peer under a watchdog that is
\* armed, or for a batch that is with the worker, and for nothing else.
AlwaysWatched == Running => timers # {} \/ Ingesting

\* Every attempt ends, silent peers and a failing index included.
AttemptsEnd == Running ~> ~Running
=============================================================================
