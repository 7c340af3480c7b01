--------------------------- MODULE WalletRuntime ---------------------------
(***************************************************************************)
(* The life of the wallet in its process: opening the vault and the index, *)
(* with a rescan or the repair of a damaged index, the calls of the public *)
(* API that add keys, the sync that feeds the index, and close(), which    *)
(* drains the calls before it gives the databases and the lock back.  The  *)
(* process may crash at any time.                                          *)
(***************************************************************************)
EXTENDS ChainIndex, FiniteSets

CONSTANTS
    Fresh,      \* the keys the wallet generates; the others exist before it
    Calls,      \* calls of the API that may be under way at a time
    Attempts,   \* sync attempts with a batch in the worker at a time
    Past,       \* blocks mined before the wallet exists
    MaxOpens,   \* bound: how often the wallet is opened
    MaxBatch    \* bound: blocks of a batch

ASSUME FreshAssumption == Fresh \subseteq Keys
ASSUME CallersAssumption ==
    /\ Callers = Calls \cup Attempts \cup {"open"}
    /\ Calls \cap Attempts = {} /\ "open" \notin Calls \cup Attempts
ASSUME PastAssumption ==
    /\ Past \in 0 .. Len(Chain)
    /\ \A c \in PaidBy(Upto(Past)) : Owner[c] \notin Fresh
ASSUME BoundsAssumption == MaxOpens \in Nat /\ MaxBatch \in Nat \ {0}

VARIABLES
    flag,       \* vault: needsRescan of each key, or that it is absent
    rescan,     \* vault: whether a rescan is active and the keys it was started for
    life,       \* of the process and its runtime
    lock,       \* whether the data directory is locked
    vault,      \* the connection to the vault: closed, connected (its constructor is at
                \* work), open, or leaked (the constructor threw and left it open)
    todo,       \* what each caller has still to watch
    call,       \* the call each name stands for
    drain,      \* the calls close() waits for
    sync,       \* the sync attempt under way
    tip,        \* blocks mined
    shown,      \* fresh keys whose address a caller has
    opens

durable == <<index, flag, rescan>>
process == <<life, lock, vault, todo, call, drain, sync>>
world == <<tip, shown, opens>>
vars == <<durable, client, process, world>>

InVault == {k \in Keys : flag[k] # "absent"}
NoCall == [phase |-> "idle", op |-> "none", keys |-> {}]
Call(phase, op, keys) == [phase |-> phase, op |-> op, keys |-> keys]
NoSync == [by |-> "none", height |-> 0, to |-> 0]

Init ==
    /\ index = Empty({}) /\ worker = "none" /\ mailbox = <<>> /\ replies = <<>> /\ pending = {}
    /\ flag = [k \in Keys |-> "absent"] /\ rescan = [active |-> FALSE, keys |-> {}]
    /\ life = "closed" /\ lock = FALSE /\ vault = "closed"
    /\ todo = [c \in Callers |-> {}] /\ call = [c \in Calls |-> NoCall] /\ drain = {}
    /\ sync = NoSync /\ tip = Past /\ shown = {} /\ opens = 0

-----------------------------------------------------------------------------
\* openWalletRuntime().

Open ==
    /\ life = "closed" /\ opens < MaxOpens
    /\ life' = "locked" /\ lock' = TRUE /\ opens' = opens + 1
    /\ UNCHANGED <<durable, client, vault, todo, call, drain, sync, tip, shown>>

\* new WalletVault() reads the key, connects to the database and prepares it.
Connect ==
    /\ life = "locked" /\ life' = "connecting" /\ vault' = "connected"
    /\ UNCHANGED <<durable, client, lock, todo, call, drain, sync, world>>

VaultOpens ==
    /\ life = "connecting" /\ life' = "opening" /\ vault' = "open"
    /\ UNCHANGED <<durable, client, lock, todo, call, drain, sync, world>>

\* It throws before it connects or after: a wrong key and a failed upgrade close the
\* connection, any other error leaves it open, and the caller has no vault to close.
VaultFails ==
    /\ \/ life = "locked" /\ UNCHANGED vault
       \/ life = "connecting" /\ vault' \in {"closed", "leaked"}
    /\ life' = "stopping"
    /\ UNCHANGED <<durable, client, lock, todo, call, drain, sync, world>>

\* A rescan begins with a new directory, the keys it is for and all flags in one transaction.
BeginRescan ==
    /\ life = "opening" /\ life' = "chosen"
    /\ index' = Empty({})
    /\ rescan' = [active |-> TRUE, keys |-> InVault]
    /\ flag' = [k \in Keys |-> IF k \in InVault THEN "rescan" ELSE "absent"]
    /\ UNCHANGED <<client, lock, vault, todo, call, drain, sync, world>>

\* new ChainIndex(): a damaged database is renamed; the keys it watched are read before
\* that, and reach the new one when the worker starts.  An error on the way leaves the
\* database where it is, or, once that is renamed, forgets the keys.
Quarantine ==
    /\ life \in {"opening", "chosen"} /\ ~index.sound
    /\ life' = "repairing"
    /\ \/ index' = Empty({}) /\ \E ks \in {index.watched, {}} : todo' = [todo EXCEPT !["open"] = ks]
       \/ UNCHANGED <<index, todo>>
    /\ UNCHANGED <<flag, rescan, client, lock, vault, call, drain, sync, world>>

\* The worker inserts the recovered keys one by one; an error ends it.
StartWorker ==
    /\ \/ life \in {"opening", "chosen"} /\ index.sound
       \/ life = "repairing"
    /\ \E ks \in SUBSET todo["open"] :
        /\ index' = [index EXCEPT !.watched = @ \cup ks]
        /\ IF ks = todo["open"] THEN Start("open")
           ELSE worker' = "failed" /\ UNCHANGED <<mailbox, replies, pending>>
    /\ todo' = [todo EXCEPT !["open"] = InVault] /\ life' = "starting"
    /\ UNCHANGED <<flag, rescan, lock, vault, call, drain, sync, world>>

\* Anything between the vault and the worker throws.
IndexFails ==
    /\ life \in {"opening", "chosen", "repairing"} /\ life' = "stopping"
    /\ todo' = [todo EXCEPT !["open"] = {}]
    /\ UNCHANGED <<durable, client, lock, vault, call, drain, sync, world>>

\* The next key of a loop that awaits watchIdentity() for each.
WatchNext(c) ==
    IF todo[c] = {} THEN pending' = pending \ {c} /\ UNCHANGED <<mailbox, todo>>
    ELSE \E k \in todo[c] : Post(Watch(c, k)) /\ todo' = [todo EXCEPT ![c] = @ \ {k}]

\* A wallet that is open lists all its addresses.
OpenProceeds ==
    /\ life = "starting" /\ Receive("open", TRUE)
    /\ WatchNext("open")
    /\ IF todo["open"] # {} THEN UNCHANGED <<life, shown>>
       ELSE life' = "ready" /\ shown' = shown \cup (InVault \cap Fresh)
    /\ UNCHANGED <<worker, durable, lock, vault, call, drain, sync, tip, opens>>

RejectedByReply(c) == Receive(c, FALSE) /\ pending' = pending \ {c} /\ UNCHANGED mailbox    \* mutant

\* An error reply, or a promise that was rejected because the worker is gone.
Rejected(c) ==
    \/ Receive(c, FALSE) /\ pending' = pending \ {c} /\ UNCHANGED mailbox
    \/ c \notin pending /\ UNCHANGED <<mailbox, replies, pending>>

\* Any failure closes what was opened, the index first.
OpenFails ==
    /\ life = "starting" /\ Rejected("open")
    /\ worker' = IF worker = "exited" THEN worker ELSE "terminating"
    /\ todo' = [todo EXCEPT !["open"] = {}] /\ life' = "stopping"
    /\ UNCHANGED <<durable, lock, vault, call, drain, sync, world>>

-----------------------------------------------------------------------------
\* The public API.  A call is registered at once and runs in a later microtask.

\* Mutant: close() refuses nothing.
AcceptAlways(c, op, keys) ==
    /\ life \in {"ready", "draining", "stopping"} /\ call[c] = NoCall
    /\ call' = [call EXCEPT ![c] = Call("accepted", op, keys)]
    /\ UNCHANGED <<durable, client, life, lock, vault, todo, drain, sync, world>>

Accept(c, op, keys) ==
    /\ life = "ready" /\ call[c] = NoCall
    /\ call' = [call EXCEPT ![c] = Call("accepted", op, keys)]
    /\ UNCHANGED <<durable, client, life, lock, vault, todo, drain, sync, world>>

NewAddress(c) == \E k \in Fresh : Accept(c, "create", {k})
ImportKey(c) == \E k \in Keys \ Fresh : Accept(c, "import", {k})
Restore(c) == \E ks \in (SUBSET (Keys \ Fresh)) \ {{}} : Accept(c, "restore", ks)

\* The rows a call adds; keys that exist already keep their flag.
AddsUnflagged(op, keys) ==    \* mutant: an imported key counts as fresh
    [k \in Keys |-> IF k \in keys /\ flag[k] = "absent"
                    THEN IF op = "restore" THEN "rescan" ELSE "ok"
                    ELSE flag[k]]

Adds(op, keys) ==
    [k \in Keys |-> IF k \in keys /\ flag[k] = "absent"
                    THEN IF op = "create" THEN "ok" ELSE "rescan"
                    ELSE flag[k]]

\* A backup one of whose keys is in the vault already is refused as a whole.
Clashes(c) == call[c].op = "restore" /\ call[c].keys \cap InVault # {}

\* Of a call that waits only the fresh address it will return matters.
Runs(c) ==
    /\ call[c].phase = "accepted" /\ ~Clashes(c)
    /\ flag' = Adds(call[c].op, call[c].keys)
    /\ LET ks == IF call[c].op = "restore" THEN InVault' ELSE call[c].keys
       IN  \E k \in ks : Post(Watch(c, k)) /\ todo' = [todo EXCEPT ![c] = ks \ {k}]
    /\ call' = [call EXCEPT ![c] = Call("awaiting", "none", @.keys \cap Fresh)]
    /\ UNCHANGED <<worker, replies, index, rescan, life, lock, vault, drain, sync, world>>

Throws(c) ==
    /\ call[c].phase = "accepted" /\ Clashes(c)
    /\ call' = [call EXCEPT ![c] = NoCall] /\ drain' = drain \ {c}
    /\ UNCHANGED <<durable, client, life, lock, vault, todo, sync, world>>

\* A call that resolves hands the fresh address it made to its caller.
Proceeds(c) ==
    /\ call[c].phase = "awaiting" /\ Receive(c, TRUE)
    /\ WatchNext(c)
    /\ IF todo[c] # {} THEN UNCHANGED <<call, drain, shown>>
       ELSE /\ call' = [call EXCEPT ![c] = NoCall] /\ drain' = drain \ {c}
            /\ shown' = shown \cup call[c].keys
    /\ UNCHANGED <<worker, durable, life, lock, vault, sync, tip, opens>>

Rejects(c) ==
    /\ call[c].phase = "awaiting" /\ Rejected(c)
    /\ call' = [call EXCEPT ![c] = NoCall] /\ drain' = drain \ {c}
    /\ todo' = [todo EXCEPT ![c] = {}]
    /\ UNCHANGED <<worker, durable, life, lock, vault, sync, world>>

-----------------------------------------------------------------------------
\* The sync: attempts that post the blocks after the checkpoint in batches.

SyncStarts ==
    /\ life \in {"ready", "draining"} /\ sync = NoSync
    /\ \E a \in Attempts \ pending :
        sync' = [by |-> a, height |-> index.height, to |-> index.height]
    /\ UNCHANGED <<durable, client, life, lock, vault, todo, call, drain, world>>

SyncPosts ==
    /\ sync # NoSync /\ sync.to = sync.height
    /\ \E n \in 1 .. MaxBatch :
        /\ sync.height + n <= tip
        /\ Post(Ingest(sync.by, sync.height + n))
        /\ sync' = [sync EXCEPT !.to = sync.height + n]
    /\ UNCHANGED <<worker, replies, durable, life, lock, vault, todo, call, drain, world>>

\* A committed batch moves the attempt on; a batch of an attempt that ended is forgotten.
SyncReceives(a) ==
    /\ a \in pending /\ Receive(a, TRUE) /\ pending' = pending \ {a}
    /\ sync' = IF sync.by = a THEN [sync EXCEPT !.height = sync.to] ELSE sync
    /\ UNCHANGED <<worker, mailbox, durable, life, lock, vault, todo, call, drain, world>>

SyncFails(a) ==
    /\ \/ a \in pending /\ Receive(a, FALSE) /\ pending' = pending \ {a} /\ UNCHANGED mailbox
       \/ a \notin pending /\ sync.by = a /\ sync.to # sync.height
          /\ UNCHANGED <<mailbox, replies, pending>>
    /\ sync' = IF sync.by = a THEN NoSync ELSE sync
    /\ UNCHANGED <<worker, durable, life, lock, vault, todo, call, drain, world>>

\* Peers, timers and errors end an attempt at any time.
SyncStops ==
    /\ sync # NoSync /\ sync' = NoSync
    /\ UNCHANGED <<durable, client, life, lock, vault, todo, call, drain, world>>

RescanCompletesForAll ==    \* mutant: every flag is lifted
    [k \in Keys |-> IF rescan.active /\ flag[k] = "rescan" THEN "ok" ELSE flag[k]]

\* A rescan that is complete lifts the flags of the keys it was started for.
RescanCompletes ==
    [k \in Keys |-> IF rescan.active /\ k \in rescan.keys \cap InVault THEN "ok" ELSE flag[k]]

\* The attempt reached the height its peers advertised, and they confirmed its tip.
SyncEnds ==
    /\ sync # NoSync /\ sync.to = sync.height /\ life \in {"ready", "draining"}
    /\ flag' = RescanCompletes /\ rescan' = [rescan EXCEPT !.active = FALSE]
    /\ sync' = NoSync
    /\ UNCHANGED <<index, client, life, lock, vault, todo, call, drain, world>>

-----------------------------------------------------------------------------
\* close(), of the wallet and then of the runtime.

Close ==
    /\ life = "ready" /\ life' = "draining"
    /\ drain' = {c \in Calls : call[c] # NoCall}
    /\ UNCHANGED <<durable, client, lock, vault, todo, call, sync, world>>

\* Once the calls have settled the runtime closes: the sync stops,
Drained ==
    /\ life = "draining" /\ drain = {}
    /\ life' = "closing"
    /\ UNCHANGED <<durable, client, lock, vault, todo, call, drain, sync, world>>

\* its batch is awaited and the worker terminated (the code awaits the batch of the last
\* attempt also when that has ended; here it may be cut off),
Stop ==
    /\ life = "closing" /\ sync.by \notin pending
    /\ Terminate
    /\ sync' = NoSync /\ life' = "stopping"
    /\ UNCHANGED <<durable, lock, vault, todo, call, drain, world>>

CloseVaultAtOnce ==    \* mutant: the end of the worker is not awaited
    /\ life = "stopping" /\ life' = "releasing"
    /\ vault' = IF vault = "open" THEN "closed" ELSE vault
    /\ UNCHANGED <<durable, client, lock, todo, call, drain, sync, world>>

\* and, when the worker is gone, the vault is closed, if there is one,
CloseVault ==
    /\ life = "stopping" /\ worker \in {"none", "exited"}
    /\ Gone
    /\ life' = "releasing" /\ vault' = IF vault = "open" THEN "closed" ELSE vault
    /\ UNCHANGED <<durable, lock, todo, call, drain, sync, world>>

\* and the lock given back.
Release ==
    /\ life = "releasing" /\ life' = "closed" /\ lock' = FALSE
    /\ UNCHANGED <<durable, client, vault, todo, call, drain, sync, world>>

-----------------------------------------------------------------------------
\* The world around the wallet.

\* A process ends; the operating system frees its lock.
Crash ==
    /\ life # "closed" /\ life' = "closed"
    /\ Gone /\ lock' = FALSE /\ vault' = "closed"
    /\ todo' = [c \in Callers |-> {}] /\ call' = [c \in Calls |-> NoCall] /\ drain' = {}
    /\ sync' = NoSync
    /\ UNCHANGED <<durable, world>>

\* An earlier version left the same block at two heights.
Damage ==
    /\ life = "closed" /\ index.height > 0 /\ index' = [index EXCEPT !.sound = FALSE]
    /\ UNCHANGED <<flag, rescan, client, process, world>>

\* Nobody pays a fresh key before its address was given out by a call that resolved or by
\* a wallet that was opened since; a call that failed after saving the key gives out nothing.
Mine ==
    /\ tip < Len(Chain) /\ tip' = tip + 1
    /\ \A c \in PaidBy(Chain[tip + 1]) : Owner[c] \in Fresh => Owner[c] \in shown
    /\ UNCHANGED <<durable, client, process, shown, opens>>

WorkerServes == Serve /\ UNCHANGED <<flag, rescan, process, world>>
WorkerErrs == ServeFails /\ UNCHANGED <<flag, rescan, process, world>>
WorkerFails == Fail /\ UNCHANGED <<durable, process, world>>
WorkerExits == Exit /\ UNCHANGED <<durable, process, world>>

Opening ==
    \/ Connect \/ VaultOpens \/ VaultFails
    \/ BeginRescan \/ Quarantine \/ IndexFails
    \/ StartWorker \/ OpenProceeds \/ OpenFails
Calling(c) == Runs(c) \/ Throws(c) \/ Proceeds(c) \/ Rejects(c)
Syncing(a) == SyncReceives(a) \/ SyncFails(a)
Closing == Drained \/ Stop \/ CloseVault \/ Release

Next ==
    \/ Open \/ Opening
    \/ \E c \in Calls : NewAddress(c) \/ ImportKey(c) \/ Restore(c) \/ Calling(c)
    \/ SyncStarts \/ SyncPosts \/ SyncStops \/ SyncEnds
    \/ \E a \in Attempts : Syncing(a)
    \/ Close \/ Closing
    \/ Crash \/ Damage \/ Mine
    \/ WorkerServes \/ WorkerErrs \/ WorkerFails \/ WorkerExits

Spec == Init /\ [][Next]_vars

\* Node runs every callback that is due, the worker takes its messages, and a worker that
\* failed or is being terminated exits.
Fairness ==
    /\ WF_vars(Opening \/ Closing)
    /\ \A c \in Calls : WF_vars(Calling(c))
    /\ \A a \in Attempts : WF_vars(Syncing(a))
    /\ WF_vars(WorkerServes \/ WorkerErrs)
    /\ WF_vars(WorkerExits /\ worker # "running")

FairSpec == Spec /\ Fairness

-----------------------------------------------------------------------------
\* A key whose needsRescan flag is not set misses no coin and no transaction of the blocks
\* in the index: however opening, repair, rescan, imports, failed calls and crashes are
\* interleaved, a balance that is not marked as incomplete is complete.
IndexComplete == index.sound => \A k \in InVault : flag[k] = "ok" => Complete(k)

\* The lock is held as long as the vault is open or the worker may still write, on every
\* path by which opening fails, closing ends or the worker dies.  It is not held as long as
\* a connection that the vault's constructor left open when it threw.
OpenUnderLock ==
    vault \in {"connected", "open"} \/ worker \in {"running", "failed", "terminating"} => lock

\* No call is under way once its databases are being closed.
CallsAreDrained ==
    \A c \in Calls : call[c] # NoCall => vault = "open" /\ worker # "terminating"

\* What the two properties below rest on, in any state: the request of an open promise is
\* with the worker or answered, unless the worker is about to end and to reject it, and
\* close() waits for no call that has settled.
Holds(messages, c) == \E i \in 1 .. Len(messages) : messages[i].from = c
NothingForgotten ==
    /\ \A c \in pending :
        Holds(mailbox, c) \/ Holds(replies, c) \/ worker \in {"failed", "terminating"}
    /\ worker = "exited" => pending = {}
    /\ \A c \in drain : call[c] # NoCall

\* Every call of the API settles, also when the worker dies under it.
CallsSettle == \A c \in Calls : call[c] # NoCall ~> call[c] = NoCall

\* Opening ends with a wallet that is ready or with everything given back, and closing with
\* the latter, whatever the worker does meanwhile.
OpensAndCloses == life \notin {"closed", "ready"} ~> life \in {"closed", "ready"}
=============================================================================
