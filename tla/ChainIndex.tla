----------------------------- MODULE ChainIndex -----------------------------
(***************************************************************************)
(* The chain index: a worker thread that owns the database of the coins    *)
(* and the history of the watched keys, and the client in the main thread  *)
(* that correlates its requests with the worker's replies.                 *)
(*                                                                         *)
(* The worker takes one message at a time and its transactions are atomic. *)
(* Which blocks it is given is PepenetSync; here they are those of Chain,  *)
(* in order.  A caller has at most one request under way, so its name      *)
(* stands for the identifier of the request.                               *)
(***************************************************************************)
EXTENDS Integers, Sequences

CONSTANTS
    Keys, Coins,
    Owner,      \* the key a coin is locked to
    Chain,      \* the blocks, each the set of its transactions that concern Keys
    Callers     \* whoever may have a request under way

Transaction == [in : SUBSET Coins, out : SUBSET Coins]

PaidBy(txs) == UNION {tx.out : tx \in txs}
SpentBy(txs) == UNION {tx.in : tx \in txs}
Within(from, to) == UNION {Chain[i] : i \in from .. to}
Upto(h) == Within(1, h)
Own(k) == {c \in Coins : Owner[c] = k}

\* A coin is created before it is spent, and once.
ASSUME OwnerAssumption == Owner \in [Coins -> Keys]
ASSUME ChainAssumption ==
    /\ Chain \in Seq(SUBSET Transaction)
    /\ \A h \in 1 .. Len(Chain) :
        /\ SpentBy(Chain[h]) \subseteq PaidBy(Upto(h))
        /\ PaidBy(Chain[h]) \cap PaidBy(Upto(h - 1)) = {}
        /\ SpentBy(Chain[h]) \cap SpentBy(Upto(h - 1)) = {}

VARIABLES
    index,      \* the database
    worker,     \* none, running, failed ("error" was emitted), terminating, exited
    mailbox,    \* requests the worker has not taken
    replies,    \* replies the client has not taken
    pending     \* the callers whose promise is open

client == <<worker, mailbox, replies, pending>>

\* A database is sound unless the same block is recorded at two heights in a row.
Empty(watched) ==
    [height |-> 0, coins |-> {}, rows |-> {}, watched |-> watched, sound |-> TRUE]

-----------------------------------------------------------------------------
\* The worker.

\* The history row of key k for a transaction, when the database holds the coins held.
Row(k, tx, held) ==
    [key |-> k, tx |-> tx, received |-> tx.out \cap Own(k), spent |-> tx.in \cap held \cap Own(k)]

Relevant(row) == row.received # {} \/ row.spent # {}

IngestedUnspending(to) ==    \* mutant: the inputs are looked up among the new coins only
    LET txs == Within(index.height + 1, to)
        held == {c \in PaidBy(txs) : Owner[c] \in index.watched}
        rows == {Row(k, tx, held) : k \in Keys, tx \in txs}
    IN  IF to <= index.height THEN index
        ELSE [index EXCEPT !.height = to, !.coins = (@ \cup held) \ SpentBy(txs),
                           !.rows = @ \cup {r \in rows : Relevant(r) /\ r.key \in index.watched}]

\* The blocks up to height to; those that are known already change nothing.  Outputs
\* count for watched keys, inputs when the coin is known.
Ingested(to) ==
    LET txs == Within(index.height + 1, to)
        held == index.coins \cup {c \in PaidBy(txs) : Owner[c] \in index.watched}
        rows == {[Row(k, tx, held) EXCEPT !.received = @ \cap held] : k \in Keys, tx \in txs}
    IN  IF to <= index.height THEN index
        ELSE [index EXCEPT !.height = to, !.coins = held \ SpentBy(txs),
                           !.rows = @ \cup {r \in rows : Relevant(r)}]

Handled(m) ==
    CASE m.method = "ingestBatch" -> Ingested(m.to)
      [] m.method = "watchIdentity" -> [index EXCEPT !.watched = @ \cup {m.key}]
      [] OTHER -> index

\* A worker that is being terminated may still finish what it has begun.
Take(ok) ==
    /\ worker \in {"running", "terminating"} /\ mailbox # <<>>
    /\ mailbox' = Tail(mailbox)
    /\ replies' = Append(replies, [from |-> Head(mailbox).from, ok |-> ok])
    /\ UNCHANGED <<worker, pending>>

Serve == Take(TRUE) /\ index' = Handled(Head(mailbox))

\* An error in the database; a transaction leaves nothing behind.
ServeFails == Take(FALSE) /\ UNCHANGED index

-----------------------------------------------------------------------------
\* The client.

Start(c) ==
    /\ worker' = "running" /\ replies' = <<>>
    /\ mailbox' = <<[from |-> c, method |-> "init"]>> /\ pending' = {c}

Watch(c, k) == [from |-> c, method |-> "watchIdentity", key |-> k]
Ingest(c, to) == [from |-> c, method |-> "ingestBatch", to |-> to]

\* _call() rejects once the worker exited or is being terminated; what is posted to a
\* worker that failed is lost.  A caller that waits and is not pending was rejected.
Post(m) ==
    /\ pending' = IF worker \in {"running", "failed"} THEN pending \cup {m.from}
                  ELSE pending \ {m.from}
    /\ mailbox' = IF worker = "running" THEN Append(mailbox, m) ELSE mailbox

\* The reply of a request that is open.
Receive(c, ok) ==
    /\ replies # <<>> /\ Head(replies) = [from |-> c, ok |-> ok]
    /\ replies' = Tail(replies)

\* The worker ends with an exception: "error" rejects what is open,
Fail ==
    /\ worker = "running" /\ worker' = "failed"
    /\ mailbox' = <<>> /\ replies' = <<>> /\ pending' = {}

Exits ==
    /\ worker \in {"running", "failed", "terminating"} /\ worker' = "exited"
    /\ mailbox' = <<>> /\ replies' = <<>>

ExitUnnoticed == Exits /\ UNCHANGED pending    \* mutant: only "error" rejects what is open

\* and "exit" what was posted since, or is open when the worker is terminated.
Exit == Exits /\ pending' = {}

Terminate ==
    /\ worker' = IF worker = "exited" THEN worker ELSE "terminating"
    /\ UNCHANGED <<mailbox, replies, pending>>

Gone == worker' = "none" /\ mailbox' = <<>> /\ replies' = <<>> /\ pending' = {}

-----------------------------------------------------------------------------
\* What a reader of key k finds when the index misses nothing up to its height.
History(k) ==
    {r \in {Row(k, tx, Coins) : tx \in Upto(index.height)} : Relevant(r)}
Complete(k) ==
    /\ index.coins \cap Own(k) = (PaidBy(Upto(index.height)) \ SpentBy(Upto(index.height))) \cap Own(k)
    /\ {r \in index.rows : r.key = k} = History(k)
=============================================================================
