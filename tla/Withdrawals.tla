---------------------------- MODULE Withdrawals ----------------------------
(***************************************************************************)
(* The spending side of the wallet: WalletService (send, snapshot, relay,  *)
(* rebroadcast), the outgoing / reservations / coin_locks / settings       *)
(* tables of WalletVault that it writes, and the callers of index.js that  *)
(* change those tables while a send is suspended.                          *)
(*                                                                         *)
(* One JavaScript thread runs every action but Answer and Ingest, which    *)
(* belong to the chain-index worker.  An action ends where the code awaits *)
(* something, so an interleaving of actions is an interleaving of          *)
(* continuations.  SQLite transactions are atomic and durable; everything  *)
(* below "volatile" is lost by Reopen.                                     *)
(*                                                                         *)
(* Abstractions.  A payment is its normalized fields (a form, which the    *)
(* fingerprint hashes) and the coins it spends; signing is deterministic,  *)
(* so form and coins stand for the transaction and its txid.  Which coins  *)
(* buildPayment picks is left open (any set that it may legally pick).     *)
(* Change comes back as an ordinary arriving coin.  The wallet's keys sign *)
(* nowhere else, and the best chain is never reorganised (the indexer      *)
(* stops at a reorganisation).                                             *)
(***************************************************************************)
EXTENDS Integers, Sequences, FiniteSets

CONSTANTS
    Wallets, Requests, Forms, Coins,
    Owner,        \* the wallet whose key controls a coin
    Selected,     \* the outpoints a form names; {} leaves the choice to the wallet
    MinConf,      \* the confirmations a form asks of its inputs
    Coinbase,     \* the coins that are mining rewards
    EarlyMaturity, LaterMaturity,   \* the confirmations a mining reward needs
    LaterFrom,    \* the height from which the later maturity applies
    NoPayment,
    Reviewed,     \* what callers pass as expectedTxid: quoted transactions or NoPayment
    Operations,   \* bound: the interfering operations a run enables
    Lockable,     \* bound: the coins whose owner may lock them
    MaxBlocks,    \* bound: blocks of the modelled chain
    MaxQueue,     \* bound: sends queued at a time
    MaxReads,     \* bound: snapshot requests outstanding at a time
    MaxRelays     \* bound: simultaneous rebroadcasts of a payment

Tx == [form : Forms, coins : SUBSET Coins]

ASSUME OwnerAssumption == Owner \in [Coins -> Wallets]
ASSUME FormAssumption ==
    /\ Selected \in [Forms -> SUBSET Coins]
    /\ MinConf \in [Forms -> Nat \ {0}]
    /\ Coinbase \subseteq Coins
ASSUME MaturityAssumption ==
    /\ {EarlyMaturity, LaterMaturity, LaterFrom} \subseteq Nat
    /\ EarlyMaturity <= LaterMaturity
ASSUME HoldAssumption == {"paused", "rescan"} \cap Coins = {}
ASSUME NoPaymentAssumption ==
    NoPayment \notin Tx /\ Reviewed \subseteq Tx \cup {NoPayment}
ASSUME BoundsAssumption ==
    /\ Operations \subseteq {"pause", "import", "reopen", "rescan"}
    /\ Lockable \subseteq Coins
    /\ {MaxBlocks, MaxQueue, MaxReads, MaxRelays} \subseteq Nat

States == {"queued", "relayed", "unverified", "confirmed"}
Row == [wallet : Wallets, request : Requests, tx : Tx, state : States]
Block == [coins : SUBSET Coins, txs : SUBSET Tx]

\* What can forbid a payment: the operator's pause, a wallet flagged for rescan,
\* a manually locked coin.
Holds == {"paused", "rescan"} \cup Coins

\* A call of send().  hold is a history field: the holds that were in force when
\* the call was made and have not been lifted since.
Job == [wallet : Wallets, request : Requests, form : Forms,
        expected : Reviewed, hold : SUBSET Holds]

\* A walletSnapshot message to the worker: whether the addresses read before the
\* message was posted included one that needs a rescan and, once answered, the
\* number of blocks that were indexed when the worker read its tables.
Unanswered == -1
Failed == -2
Call == [wallet : Wallets, for : {"send", "read"}, rescan : BOOLEAN,
         reply : Nat \cup {Unanswered, Failed}]

VARIABLES
    \* the vault database
    outgoing, reservations, coinLocks, paused, needsRescan,
    \* the public network and the index the worker keeps of its chain
    network, chain, indexed,
    \* volatile: the send queue, what its head is doing, the worker's mailbox,
    \* broadcasts in flight, and whether the sync status counts as fresh
    queue, stage, payment, calls, relays, fresh

vault == <<outgoing, reservations, coinLocks, paused, needsRescan>>
world == <<network, chain, indexed>>
service == <<queue, stage, payment, calls, relays, fresh>>
vars == <<vault, world, service>>

TypeOK ==
    /\ outgoing \in Seq(Row)
    /\ reservations \in SUBSET (Coins \X Nat)
    /\ coinLocks \in SUBSET (Wallets \X Coins)
    /\ paused \in BOOLEAN
    /\ needsRescan \in SUBSET Wallets
    /\ network \in SUBSET Tx
    /\ chain \in Seq(Block)
    /\ indexed \in 0 .. Len(chain)
    /\ queue \in Seq(Job)
    /\ stage \in {"waiting", "snapshot", "built"}
    /\ stage # "waiting" => queue # <<>>
    /\ payment \in Tx \cup {NoPayment}
    /\ stage = "built" <=> payment # NoPayment
    /\ calls \in Seq(Call)
    /\ relays \in Seq(Nat)
    /\ Len(relays) = Len(outgoing)
    /\ fresh \in BOOLEAN

Init ==
    /\ outgoing = <<>> /\ reservations = {} /\ coinLocks = {}
    /\ paused = FALSE /\ needsRescan = {}
    /\ network = {} /\ chain = <<>> /\ indexed = 0
    /\ queue = <<>> /\ stage = "waiting" /\ payment = NoPayment
    /\ calls = <<>> /\ relays = <<>> /\ fresh = FALSE

-----------------------------------------------------------------------------
\* The chain and the index of its first n blocks.

Mined(n) == UNION {chain[k].txs : k \in 1 .. n}
SpentBy(txs) == UNION {t.coins : t \in txs}
Arrived(n) == UNION {chain[k].coins : k \in 1 .. n}
Unspent(n) == Arrived(n) \ SpentBy(Mined(n))
Confirmations(c, n) == n + 1 - (CHOOSE k \in 1 .. n : c \in chain[k].coins)

\* A block pays the wallets and confirms transactions the network has seen.
Mine(coins, txs) ==
    /\ Len(chain) < MaxBlocks
    /\ coins \cap Arrived(Len(chain)) = {}
    /\ txs \subseteq network
    /\ \A t \in txs : t.coins # {} /\ t.coins \subseteq Unspent(Len(chain))
    /\ \A t, u \in txs : t = u \/ t.coins \cap u.coins = {}
    /\ chain' = Append(chain, [coins |-> coins, txs |-> txs])
    /\ UNCHANGED <<vault, network, indexed, service>>

Ingest ==
    /\ indexed < Len(chain)
    /\ indexed' = indexed + 1
    /\ UNCHANGED <<vault, network, chain, service>>

\* indexFresh() turns true after a confirmed sync and false two minutes later,
\* or when the peers announce more blocks than the index holds.
SetFresh(b) ==
    /\ fresh # b
    /\ fresh' = b
    /\ UNCHANGED <<vault, world, queue, stage, payment, calls, relays>>

-----------------------------------------------------------------------------
\* Direct writes to the vault.

\* A job forgets a hold once it is lifted.
Lift(h, ws) ==
    queue' = [i \in 1 .. Len(queue) |->
                IF queue[i].wallet \in ws
                  THEN [queue[i] EXCEPT !.hold = @ \ {h}] ELSE queue[i]]

LockCoin(w, c) ==
    /\ c \in Lockable
    /\ <<w, c>> \notin coinLocks
    /\ coinLocks' = coinLocks \cup {<<w, c>>}
    /\ UNCHANGED <<outgoing, reservations, paused, needsRescan, world, service>>

UnlockCoin(w, c) ==
    /\ <<w, c>> \in coinLocks
    /\ coinLocks' = coinLocks \ {<<w, c>>}
    /\ Lift(c, {w})
    /\ UNCHANGED <<outgoing, reservations, paused, needsRescan, world,
                   stage, payment, calls, relays, fresh>>

PauseSpending ==
    /\ "pause" \in Operations
    /\ ~paused
    /\ paused' = TRUE
    /\ UNCHANGED <<outgoing, reservations, coinLocks, needsRescan, world, service>>

ResumeSpending ==
    /\ paused
    /\ paused' = FALSE
    /\ Lift("paused", Wallets)
    /\ UNCHANGED <<outgoing, reservations, coinLocks, needsRescan, world,
                   stage, payment, calls, relays, fresh>>

\* importKey() adds an address whose history the index does not know.
ImportKey(w) ==
    /\ "import" \in Operations
    /\ w \notin needsRescan
    /\ needsRescan' = needsRescan \cup {w}
    /\ UNCHANGED <<outgoing, reservations, coinLocks, paused, world, service>>

\* A confirmed sync of a rescanned index clears the flags.
RescanDone(ws) ==
    /\ ws # {} /\ ws \subseteq needsRescan
    /\ needsRescan' = needsRescan \ ws
    /\ Lift("rescan", ws)
    /\ UNCHANGED <<outgoing, reservations, coinLocks, paused, world,
                   stage, payment, calls, relays, fresh>>

-----------------------------------------------------------------------------
\* snapshot(): ask the worker, then reconcile and project in one continuation.

Ask(w, for) ==
    calls' = Append(calls, [wallet |-> w, for |-> for, rescan |-> w \in needsRescan,
                            reply |-> Unanswered])

\* A wallet read, or the snapshot under a quote, which keeps nothing.
Read(w) ==
    /\ Len(calls) < MaxReads
    /\ Ask(w, "read")
    /\ UNCHANGED <<vault, world, queue, stage, payment, relays, fresh>>

\* The worker answers its messages in order, from the tables as they are now, or
\* with the error its query raised.
Answer ==
    \E i \in 1 .. Len(calls), reply \in {indexed, Failed} :
        /\ calls[i].reply = Unanswered
        /\ \A j \in 1 .. i - 1 : calls[j].reply # Unanswered
        /\ calls' = [calls EXCEPT ![i].reply = reply]
        /\ UNCHANGED <<vault, world, queue, stage, payment, relays, fresh>>

Reconciled(row, n) ==
    IF row.tx \in Mined(n) THEN "confirmed"
    ELSE IF row.state = "confirmed" THEN "unverified" ELSE row.state

Reconcile(w, n) ==
    outgoing' = [i \in 1 .. Len(outgoing) |->
                   IF outgoing[i].wallet = w
                     THEN [outgoing[i] EXCEPT !.state = Reconciled(outgoing[i], n)]
                     ELSE outgoing[i]]

\* The reply at the head of the mailbox reaches the continuation that awaits it.
Replied(for) ==
    /\ calls # <<>>
    /\ Head(calls).for = for
    /\ Head(calls).reply # Unanswered
    /\ calls' = Tail(calls)

Delivered(for) ==
    /\ Replied(for)
    /\ Head(calls).reply # Failed
    /\ Reconcile(Head(calls).wallet, Head(calls).reply)

CallFailed(for) ==
    /\ Replied(for)
    /\ Head(calls).reply = Failed
    /\ UNCHANGED outgoing

ReadDoneReleasing ==    \* mutant: a confirmed payment gives its reservations back
    /\ Delivered("read")
    /\ reservations' = {r \in reservations : outgoing'[r[2]].state # "confirmed"}
    /\ UNCHANGED <<coinLocks, paused, needsRescan, world,
                   queue, stage, payment, relays, fresh>>

ReadDone ==
    /\ Delivered("read") \/ CallFailed("read")
    /\ UNCHANGED <<reservations, coinLocks, paused, needsRescan, world,
                   queue, stage, payment, relays, fresh>>

BlockedByPayments(w) == {r[1] : r \in reservations}    \* mutant: manual locks forgotten

Blocked(w) == {r[1] : r \in reservations} \cup {c \in Coins : <<w, c>> \in coinLocks}

MaturityLate(n) == IF n > LaterFrom THEN LaterMaturity ELSE EarlyMaturity    \* mutant

\* What an index of n blocks asks of a mining reward.  It rises at LaterFrom, so a
\* reward that could be spent may have to wait again.
Maturity(n) == IF n >= LaterFrom THEN LaterMaturity ELSE EarlyMaturity

Spendable(w, form, n) ==
    {c \in Unspent(n) \ Blocked(w) :
        /\ Owner[c] = w
        /\ Confirmations(c, n) >= MinConf[form]
        /\ c \in Coinbase => Confirmations(c, n) >= Maturity(n)}

\* The input sets buildPayment may return; it may also find the funds too small.
Choices(w, form, n) ==
    LET available == Spendable(w, form, n)
    IN  IF Selected[form] = {} THEN (SUBSET available) \ {{}}
        ELSE {Selected[form]} \cap SUBSET available

-----------------------------------------------------------------------------
\* send(): jobs run one at a time, in call order.

HoldsOn(w) ==
    {c \in Coins : <<w, c>> \in coinLocks}
        \cup (IF paused THEN {"paused"} ELSE {})
        \cup (IF w \in needsRescan THEN {"rescan"} ELSE {})

Send(w, r, f, e) ==
    /\ Len(queue) < MaxQueue
    /\ queue' = Append(queue, [wallet |-> w, request |-> r, form |-> f,
                               expected |-> e, hold |-> HoldsOn(w)])
    /\ UNCHANGED <<vault, world, stage, payment, calls, relays, fresh>>

Job1 == Head(queue)
SavedAs(w, r) ==
    {i \in 1 .. Len(outgoing) : outgoing[i].wallet = w /\ outgoing[i].request = r}
Finish == queue' = Tail(queue) /\ stage' = "waiting" /\ payment' = NoPayment

Starting == stage = "waiting" /\ queue # <<>>

\* existing(): the saved row is returned as it is (and not relayed again), or
\* the request was used for other fields and the call fails.
SendAgain ==
    /\ Starting
    /\ SavedAs(Job1.wallet, Job1.request) # {}
    /\ Finish
    /\ UNCHANGED <<vault, world, calls, relays, fresh>>

\* requireSynced() throws.
SendRefused ==
    /\ Starting
    /\ SavedAs(Job1.wallet, Job1.request) = {}
    /\ paused \/ ~fresh
    /\ Finish
    /\ UNCHANGED <<vault, world, calls, relays, fresh>>

SendStarts ==
    /\ Starting
    /\ SavedAs(Job1.wallet, Job1.request) = {}
    /\ ~paused /\ fresh
    /\ Ask(Job1.wallet, "send")
    /\ stage' = "snapshot"
    /\ UNCHANGED <<vault, world, queue, payment, relays, fresh>>

\* Any of build()'s failures: a pending rescan, a selected coin that is not
\* spendable, too little money, or a payment other than the reviewed one.
BuildFailsPoisoning ==    \* mutant: the queue is chained to the rejected promise, so
    /\ Delivered("send") \/ CallFailed("send")    \* every call behind it rejects as well
    /\ queue' = <<>> /\ stage' = "waiting" /\ payment' = NoPayment
    /\ UNCHANGED <<reservations, coinLocks, paused, needsRescan, world, relays, fresh>>

BuildFails ==
    /\ Delivered("send") \/ CallFailed("send")
    /\ Finish
    /\ UNCHANGED <<reservations, coinLocks, paused, needsRescan, world, relays, fresh>>

AsReviewedNot(tx) == TRUE    \* mutant: expectedTxid is not compared
AsReviewed(tx) == Job1.expected \in {NoPayment, tx}

Build ==
    /\ Delivered("send")
    /\ ~Head(calls).rescan
    /\ \E coins \in Choices(Job1.wallet, Job1.form, Head(calls).reply) :
        payment' = [form |-> Job1.form, coins |-> coins]
    /\ AsReviewed(payment')
    /\ stage' = "built"
    /\ UNCHANGED <<reservations, coinLocks, paused, needsRescan, world, queue, relays, fresh>>

ReservedForNothing(id) == {}    \* mutant: the row is inserted without reservations
ReservedFor(id) == payment.coins \X {id}

\* reserve(): one transaction inserts the row and one reservation per input, or
\* nothing when a UNIQUE constraint rejects an input; the caller goes on to relay the
\* row, which is the saved one if the request has one by now.  The queue keeps send()
\* from ever meeting the two exceptions.
Reserve ==
    /\ stage = "built"
    /\ LET old == SavedAs(Job1.wallet, Job1.request)
           row == [wallet |-> Job1.wallet, request |-> Job1.request,
                   tx |-> payment, state |-> "queued"]
           id == Len(outgoing) + 1
       IN  IF old # {} THEN
             /\ relays' = [i \in 1 .. Len(outgoing) |->
                             IF i \in old /\ outgoing[i].tx.form = Job1.form
                               THEN relays[i] + 1 ELSE relays[i]]
             /\ UNCHANGED <<outgoing, reservations>>
           ELSE IF \E r \in reservations : r[1] \in payment.coins THEN
             UNCHANGED <<outgoing, reservations, relays>>
           ELSE
             /\ outgoing' = Append(outgoing, row)
             /\ reservations' = reservations \cup ReservedFor(id)
             /\ relays' = Append(relays, 1)
    /\ Finish
    /\ UNCHANGED <<coinLocks, paused, needsRescan, world, calls, fresh>>

-----------------------------------------------------------------------------
\* relay() and rebroadcast().

\* The public relay hands the bytes to some peer, whatever the caller learns of it.
Publish(i) ==
    /\ relays[i] > 0
    /\ network' = network \cup {outgoing[i].tx}
    /\ UNCHANGED <<vault, chain, indexed, service>>

\* A broadcast that ended sets the state, whatever it has become meanwhile.
RelayEnds(i, state) ==
    /\ relays[i] > 0
    /\ relays' = [relays EXCEPT ![i] = @ - 1]
    /\ outgoing' = [outgoing EXCEPT ![i].state = state]
    /\ UNCHANGED <<reservations, coinLocks, paused, needsRescan, world,
                   queue, stage, payment, calls, fresh>>

Relayed(i) == outgoing[i].tx \in network /\ RelayEnds(i, "relayed")
RelayUncertain(i) == RelayEnds(i, "unverified")

RebroadcastAnew(i) ==    \* mutant: a replacement payment is saved under the same request
    /\ relays[i] < MaxRelays
    /\ \E coins \in SUBSET (Unspent(indexed) \ Blocked(outgoing[i].wallet)) :
        outgoing' = [outgoing EXCEPT ![i].tx.coins = coins]
    /\ relays' = [relays EXCEPT ![i] = @ + 1]
    /\ UNCHANGED <<reservations, coinLocks, paused, needsRescan, world,
                   queue, stage, payment, calls, fresh>>

Rebroadcast(i) ==
    /\ outgoing[i].state # "confirmed"
    /\ relays[i] < MaxRelays
    /\ relays' = [relays EXCEPT ![i] = @ + 1]
    /\ UNCHANGED <<vault, world, queue, stage, payment, calls, fresh>>

-----------------------------------------------------------------------------
\* The process ends (a crash, or close()) and the vault is opened again, if
\* asked with an empty index and every address flagged for rescan.
Reopen(rescan) ==
    /\ (IF rescan THEN "rescan" ELSE "reopen") \in Operations
    /\ indexed' = IF rescan THEN 0 ELSE indexed
    /\ needsRescan' = IF rescan THEN Wallets ELSE needsRescan
    /\ queue' = <<>> /\ stage' = "waiting" /\ payment' = NoPayment
    /\ calls' = <<>> /\ relays' = [i \in 1 .. Len(outgoing) |-> 0] /\ fresh' = FALSE
    /\ UNCHANGED <<outgoing, reservations, coinLocks, paused, network, chain>>

Environment ==
    \/ \E coins \in SUBSET Coins, txs \in SUBSET network : Mine(coins, txs)
    \/ \E b \in BOOLEAN : SetFresh(b)
    \/ \E w \in Wallets, c \in Coins : LockCoin(w, c) \/ UnlockCoin(w, c)
    \/ PauseSpending \/ ResumeSpending
    \/ \E w \in Wallets : ImportKey(w) \/ Read(w)
    \/ \E ws \in SUBSET Wallets : RescanDone(ws)
    \/ \E w \in Wallets, r \in Requests, f \in Forms, e \in Reviewed :
          Send(w, r, f, e)
    \/ \E i \in 1 .. Len(outgoing) : Rebroadcast(i)
    \/ \E rescan \in BOOLEAN : Reopen(rescan)

Worker == Answer \/ Ingest
Queue == SendAgain \/ SendRefused \/ SendStarts \/ BuildFails \/ Build \/ Reserve
Relay == \E i \in 1 .. Len(outgoing) : Publish(i) \/ Relayed(i) \/ RelayUncertain(i)

Next == Environment \/ Worker \/ Queue \/ ReadDone \/ Relay

Spec == Init /\ [][Next]_vars
-----------------------------------------------------------------------------
\* What must hold of the spending side.

\* No two saved payments spend the same coin, whichever wallets and requests they
\* belong to and whatever was suspended, retried or restarted in between: the
\* PRIMARY KEY of reservations, which send() relies on, is never cleared too soon.
NoDoubleSpend ==
    \A i, j \in 1 .. Len(outgoing) :
        i # j => outgoing[i].tx.coins \cap outgoing[j].tx.coins = {}

\* A request identifier names at most one payment of a wallet.
OnePaymentPerRequest ==
    \A i, j \in 1 .. Len(outgoing) :
        /\ outgoing[i].wallet = outgoing[j].wallet
        /\ outgoing[i].request = outgoing[j].request
        => i = j

\* The reservations table holds exactly the inputs of the saved payments: the
\* row and its reservations are one transaction and nothing releases them.
ReservationsExact ==
    reservations = UNION {outgoing[i].tx.coins \X {i} : i \in 1 .. Len(outgoing)}

\* A transaction that ever left the process is a saved payment, also after a
\* crash: send() persists before it relays.
PublishedIsSaved ==
    \A t \in network : \E i \in 1 .. Len(outgoing) : outgoing[i].tx = t

\* An uncertain payment can still confirm: as long as it is not in the chain, all
\* of its inputs are unspent there, those of an index that lags included.
SavedPaymentsStayValid ==
    \A i \in 1 .. Len(outgoing) :
        outgoing[i].tx \in Mined(Len(chain)) \/ outgoing[i].tx.coins \subseteq Unspent(Len(chain))

\* A payment about to be saved violates no hold that was in force when the call
\* was made and stayed in force: no coin its caller had locked, no wallet flagged
\* for rescan, no operator's pause.
HoldsRespected ==
    stage = "built" =>
        Job1.hold \cap (payment.coins \cup {"paused", "rescan"}) = {}

\* Every input of a saved payment belonged to the paying wallet and was eligible at
\* some height n the index had: there, unspent, with the confirmations the form asks for
\* and, if a mining reward, with the maturity that applied at n.  (Not at the height of
\* the save: the index moves on across the await, perhaps past LaterFrom.)
InputsWereEligible ==
    \A i \in 1 .. Len(outgoing) : \A c \in outgoing[i].tx.coins :
        /\ Owner[c] = outgoing[i].wallet
        /\ \E n \in 1 .. Len(chain) : \E k \in 1 .. n :
            /\ c \in chain[k].coins /\ c \notin SpentBy(Mined(n))
            /\ n + 1 - k >= MinConf[outgoing[i].tx.form]
            /\ c \in Coinbase =>
                /\ n + 1 - k >= EarlyMaturity
                /\ n >= LaterFrom => n + 1 - k >= LaterMaturity

\* A payment saved for a call that names a reviewed transaction is that transaction,
\* and always one with the call's own fields and at least one input, although the
\* index and the vault moved on while the call was suspended.
SavesWhatWasReviewed ==
    [][Len(outgoing') > Len(outgoing) =>
         /\ Job1.expected \in {NoPayment, outgoing'[Len(outgoing')].tx}
         /\ outgoing'[Len(outgoing')].tx.form = Job1.form
         /\ outgoing'[Len(outgoing')].tx.coins # {}]_vars

\* The spending side implements PaymentLedger: retries, concurrent reads, crashes,
\* rescans and repeated broadcasts are invisible to a reader of the saved payments.
SavedPayments ==
    {[wallet |-> outgoing[i].wallet, request |-> outgoing[i].request, tx |-> outgoing[i].tx] :
        i \in 1 .. Len(outgoing)}
Ledger == INSTANCE PaymentLedger WITH
    saved <- SavedPayments, published <- network, settled <- Mined(Len(chain))
ImplementsLedger == Ledger!Spec

\* Fairness: the event loop runs what is ready and the worker answers its mailbox.
FairSpec ==
    /\ Spec
    /\ WF_vars(Answer) /\ WF_vars(Queue) /\ WF_vars(ReadDone)

\* What progress rests on, in any state: a send that waits for its snapshot has one message
\* with the worker, about its own wallet, and messages are answered in their order.
NeverWaitsForNothing ==
    /\ stage = "snapshot" =>
        \E i \in 1 .. Len(calls) :
            /\ calls[i].for = "send" /\ calls[i].wallet = Job1.wallet
            /\ \A j \in 1 .. Len(calls) : calls[j].for = "send" => i = j
    /\ \A i, j \in 1 .. Len(calls) :
        i < j /\ calls[j].reply # Unanswered => calls[i].reply # Unanswered

\* Every call gets its turn: one queued behind another starts in its own right, with
\* the queue at its head, even when the call before it fails or its query to the worker
\* raises an error; it is neither left waiting nor rejected along with the other.
IsCall(job, w, r, f, e) ==
    job.wallet = w /\ job.request = r /\ job.form = f /\ job.expected = e
EveryCallGetsItsTurn ==
    \A w \in Wallets, r \in Requests, f \in Forms, e \in Reviewed :
        (\E i \in 2 .. Len(queue) : IsCall(queue[i], w, r, f, e))
            ~> (Starting /\ IsCall(Job1, w, r, f, e))
=============================================================================
