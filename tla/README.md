# Formal models of pepecoin-js-wallet

This directory holds TLA+ specifications of the wallet in `src/`, the TLC
configurations that check them on small instances, and TLAPS proofs of their main
theorems. Each definition is a translation of the JavaScript it names in
`PROJECT.json` (`map`): the code is the reference, and where a document says
something else the disagreement is recorded as a finding.

    tlc -workers 2 -config PeerPool.cfg MCPeerPool     # one run
    tlapm WithdrawalsProofs.tla                        # one proof module

## 1. The system

The wallet is one Node.js process per data directory. One JavaScript thread runs the
public API, the withdrawal queue, the sync supervisor and the sockets; a worker thread
owns the chain index. Two SQLite databases (vault and index) and a lock file are the
only durable state.

| Component (source) | State | Operations | Talks to |
|---|---|---|---|
| Public API (`index.js`) | pending calls, closing flag | every exported call, `close` | service, vault, runtime |
| Wallet service (`wallet-service.js`) | the promise chain that serialises sends | `send`, `snapshot`, `build`, `relay`, `rebroadcast`, `requireSynced` | vault, index client, relay |
| Vault (`wallet-vault.js`, `sqlite.js`) | tables of accounts, keys, `outgoing`, `reservations`, `coin_locks`, settings | `reserve`, `existing`, `setPayment`, `blocked`, imports, `backup`, `restore`, `transaction` | service, API |
| Payment construction (`wallet-signing.js`) | none | `buildPayment` | service |
| Chain index client (`chain-index.js`) | table of outstanding calls | `_call`, `syncCheckpoint`, `chainContext`, `close`, quarantine | worker |
| Chain index worker (`chain-index-worker.js`) | blocks, transactions, unspent outputs, watched scripts | `ingestBatch`, `walletSnapshot`, `watchIdentity` | index client, by messages |
| Runtime (`wallet-runtime.js`) | lock, databases, rescan record, status, retry timer, current attempt, verified height | `openWalletRuntime`, `startSync`, `beginSync`, `finish`, `close`, rescan | sync, pool, lock, index |
| Headers-first sync (`pepenet-sync.js`) | pending page, received bodies, timers, headers context | `start`, `stop`, message handlers, `#drainPending` | pool, index client |
| Header validation (`pepenet-pow.js`) | none | `validateHeaders` | sync |
| Peer pool (`pepenet-p2p.js`, `MultiPeerManager`) | candidates, connections, sync peer, claims | connect, drop, gossip, `confirmTip` | runtime, sync |
| Peer connection (`pepenet-p2p.js`, `MessageDecoder`, `PepecoinPeer`) | bytes held, handshake flags, deadline | `push`, `connect`, `#receive`, `connectDiscoveredPeer` | sockets, pool, relay |
| Relay (`pepenet-p2p.js`, `broadcastDiscoveredTransaction`) | cursor, receipts | dial, offer, read back | service |
| Process lock (`server-lock.js`) | marker file, guard database | acquire, release | runtime, other processes |
| Wire formats, keys, addresses, server adapter | none, or a thin wrapper | | |

How they interact. A *withdrawal* is a call of `send()`, which waits for its turn in the
service's queue, asks the worker for a snapshot of the wallet, subtracts what the vault
says is reserved or locked, builds and signs, inserts the payment with its reservations in
one transaction, and only then offers it to public peers. A *deposit* arrives
through the supervisor: it opens a pool, the pool selects a peer, a `PepecoinSync`
downloads headers and bodies from it and posts batches to the worker, and at the end other
peers are asked to confirm the tip; the height they confirm decides what is spendable.
A *new key* is saved in the vault first and watched by the worker after that, while batches
are being ingested; its `needsRescan` flag says whether its balance may be incomplete.

What is hard here, and what each component must get right:

- **Suspension.** Every `await` lets any other callback run. What was read before it (the
  spending lock, blocked coins, the checkpoint, which attempt is current) may be stale after
  it. *Withdrawals:* no coin is spent twice, a request is paid once, a saved payment stays
  valid. *Supervisor:* published heights are backed by the index.
- **Two threads.** A stopped sync cannot recall a batch from the worker's mailbox, and a worker
  dies with requests in it. *Index:* whatever attempts overlap, it stays one validated chain and
  is never rewritten; a balance that is not flagged is complete; every request is settled.
- **Crashes and failing statements.** The process can end between saving, publishing and
  recording an outcome, a file operation or a constructor can throw half-way, and a restore can
  clash at its last row. *Withdrawals:* what is on the network is saved, and a failed send takes no
  other with it. *Lock:* the guard comes back, nobody gets in twice. *Vault:* all or nothing.
- **Peers.** They stay silent, lie about heights, gossip, leave, answer late, follow
  forks, and split their frames at any byte. *Pool:* limits, selection, and a confirmed tip with
  independent witnesses. *Relay:* "relayed" means what it says. *Sync, connection:* every attempt ends.
- **Processes.** Openers race for the directory, process identifiers are reused and older
  versions honor only the marker. *Lock:* one owner. *Runtime:* it outlives what it protects.
- **Timers.** A retry timer outlives the attempt that set it. *Supervisor:* the wallet keeps
  polling, and no timer is left where indexing must stop.

The hazards, each at its line and with the properties that would catch it, are in
`PROJECT.json` (`hazards`). Some that no property covers are in section 6.

## 2. Modules

| Module | Role |
|---|---|
| `PaymentLedger` | abstract specification: what an application that withdraws may rely on |
| `Withdrawals` | service queue, payments, holds, index snapshots, relays; implements `PaymentLedger` |
| `ServerLock` | the lock, one step per system call, with crashing processes |
| `PepenetSync` | one sync attempt after another, and the index behind its mailbox |
| `SyncSupervisor` | retries, deadline, tip confirmation, status; extends `PepenetSync` |
| `ChainIndex` | ingestion, watched keys, and the request table between client and worker |
| `WalletRuntime` | opening, repair, rescan, API calls that add keys, sync, close and crashes; extends `ChainIndex` |
| `Vault` | abstract specification: atomic operations, and what a restored backup is |
| `VaultBackup` | the transactions statement by statement, with savepoints; implements `Vault` |
| `PeerPool` | candidates, connections, sync peer, network height, `confirmTip` |
| `PeerSession` | hosts dialed one by one, frame decoder, handshake, deadline |
| `Relay` | one relay with its concurrent workers |
| `MC...` | the instances TLC checks |
| `...Proofs` | theorems and their proofs: `WithdrawalsProofs`, `ServerLockProofs`, `SyncProofs`, `WalletRuntimeProofs`, `VaultBackupProofs`, `PeerPoolProofs`, `PeerSessionProofs`, `RelayProofs` |

Operators marked `mutant` are not part of a specification. Each is a plausible mistake in
the definition that follows it, kept to show that a property notices it.

### Withdrawals (`wallet-service.js`, `wallet-vault.js`, `index.js`)

`outgoing`, `reservations`, `coinLocks`, `paused` and `needsRescan` are the vault's tables.
`queue` holds the calls of `send()`, and `stage` says how far the first has come: *waiting*
for its turn, *snapshot* (the worker's answer is awaited), *built* (`payment` is signed and not
yet saved). `calls` are the `walletSnapshot` messages in the worker's mailbox and their
replies; `relays` counts the broadcasts in flight of each payment; `chain`, `indexed` and
`fresh` are the best chain, how much of it is indexed, and whether the sync status counts as
fresh. `network` is the set of transactions that ever left the process.

An action ends where the code awaits. `SendStarts` is `requireSynced()` and the reads of the
locks up to the posting of the message; `Build` is the rest of `snapshot()`, which
reconciles payment states and computes the spendable coins, and `buildPayment()`; `Reserve`
is the transaction of `reserve()`; `Publish` hands the bytes to the relay; `Relayed` and
`RelayUncertain` record how it ended. `Rebroadcast` is the re-relay of a saved payment, outside
the queue. `LockCoin`, `PauseSpending`, `ImportKey`, `RescanDone` are the API calls that can
run while a send is suspended. `Reopen` is a crash or a close at any point: it loses every
volatile variable and keeps the tables, with or without a rescan of the index from an earlier
height. `Answer` and `Ingest` run in the worker.

A payment is its form (the normalized fields that the fingerprint hashes) and its coins.
Which coins `buildPayment` picks is left open: any non-empty set of spendable coins, or the
ones the form names. `Spendable` asks for the confirmations of the form and, of a mining reward, for
the maturity at the height of the snapshot, which rises at a height (`Maturity`: 30 blocks below 1000 and
240 from there). Amounts and fees are abstracted.

### ServerLock (`server-lock.js`)

`marker` is the lock file's content, `guard` the holder of the exclusive SQLite transaction,
`pc` and `pid` the progress and process of each opener. Every file operation is a step: the
guard, the read, the liveness check of the recorded process, staging and renaming or
exclusive creation and writing, and in the release the look for the own marker, its reading and its
removal. Each may fail: `StorageFails` and `UnmarkFails` are the error paths. `Exit` ends a process between any two of them: the operating
system frees the guard and leaves the marker. `Bystander` gives a free process identifier
to an unrelated program. `Legacy` openers take the marker and no guard.

### PepenetSync (`pepenet-sync.js`, `pepenet-pow.js`, part of the worker)

`blocks` is the index (height to block), `mailbox` the batches posted to the worker, and the
latest attempt has its `phase`, the last `height` it saw committed and the last it `announced`,
its locator `tip`, how many headers of context it has (`recent`), the staged page (`pending`)
with the `bodies` that arrived, and its `timers`. `ReadCheckpoint` and `Start` are the two
reads a new attempt makes; `Commit` can fall between them. `Headers` is the header handler with
validation, `Body` and `Overflow` the block handler, each with `#drainPending()` (`Drain`) where
the code calls it; `Ingested`, `Refused` and `Stale` are the continuation of `ingestBatch()`,
`Timeout` the watchdogs, and `Stop` the call from outside, which leaves the mailbox alone. Blocks are
model values with a parent; `Valid` are those whose proof of work holds and `Retargeted`
those whose difficulty is right, which is checked only with enough context.

### SyncSupervisor (`wallet-runtime.js`)

Extends `PepenetSync` with the status, the retry timer, `closing`, the progress of `confirmTip`
and the set of witnessed blocks (`SupervisorSpec`, `FairSupervisor`). A callback of the attempt and
`finish()`, which stops it synchronously, are one step. The pool is open here: peers become
ready at any time with any claim or none (`PeerReady`), leave or claim something else in a second version
message (`PeersChange`), and confirm the tip or do not. `archive` is `hasArchivePeers()`, which the deadline
asks; only a peer that is full when it becomes ready starts the sync. `ConfirmationThrows` is the callback
of `confirmTip()` that throws before `finish()`. `mishaps` remembers these two events of an attempt, since
an attempt they hit may stay for good (`Stuck`).

### ChainIndex and WalletRuntime (`chain-index.js`, `chain-index-worker.js`, `wallet-runtime.js`, `index.js`)

`ChainIndex` is the worker's database (`index`: height, unspent `coins`, history `rows`, `watched`
keys, whether it is `sound`) and the path to it: `mailbox`, `replies`, and `pending`, the
client's table of open promises. `Serve` takes one message and commits what it asks, `ServeFails`
is an error whose transaction leaves nothing; `Fail` is the worker's "error" event, which rejects
what is open, and `Exit` rejects what was posted since. `Ingested` is `ingestBatch()`: outputs count for
watched keys, inputs only for coins that are known, so a key watched too late misses its past.

`WalletRuntime` is one process after another over that index and the vault's `flag` of each key
(absent, `rescan`, `ok`) and `rescan` record. `Open` takes the lock; `Connect`, `VaultOpens` and `VaultFails`
are the constructor of the vault, which may throw before it connects or after, and then closes the connection
or leaves it (`vault = "leaked"`); `BeginRescan`, `Quarantine` (a damaged index is renamed and its watch list
carried over, forgotten, or the file stays), `StartWorker`, which may fail among the recovered keys,
`OpenProceeds`, and the failures `IndexFails` and `OpenFails` are the rest of `openWalletRuntime()`; `todo` is what a loop over `watchIdentity()` has left. The calls
`NewAddress`, `ImportKey` and `Restore` are accepted, run in a later microtask (`Runs` saves the
keys and posts the first watch), and settle with `Proceeds`, `Rejects` or `Throws`. A sync posts one
batch at a time from the checkpoint it read; `SyncEnds` lifts the flags of the keys its rescan was
started for. `Close`, `Drained` and `Stop` are `close()` of the wallet and the runtime; `CloseVault`
and `Release`, two steps, end that and every opening that failed; `Crash` may come anywhere, and `Damage` is an index that an earlier version left inconsistent.

### Vault and VaultBackup (`wallet-vault.js`, `sqlite.js`)

`Vault` has every operation as one step; its `Restore` says what the result is (the payload of the
backup, added to the namespace; other namespaces untouched; new keys flagged) and not how.
`VaultBackup` runs the same operations as transactions of statements. `script` holds the statements
that come next and `todo` the rows that the loops of the operation have not come to; a round of a loop
(`WalletRound`, `AddressRound`, `PaymentRound`, `ReservationRound`, `LockRound`) takes one row from it and
puts the statements of its body in `script`. `Run` is `BEGIN`, `Enter` and `Leave` are `SAVEPOINT` and
`RELEASE` of a callee's transaction, `Statement` is one row, `Fail` a statement that throws, `Unwind`
the rollback of one level, which throws on, `Commit` is the outer `COMMIT`, and `Crash` the end of the
process. `Committed`, what is on disk, is the refinement mapping: the tables, or what they were at `BEGIN`
in the vault with the transaction. `reserve()` runs with inputs chosen earlier, which may clash.

### PeerPool (`pepenet-p2p.js`)

One pool: `candidates`, `conn` (none, dialing, ready, dropped), what each peer `says` in
its version message, which it may repeat with another claim, `syncPeer`, the
`target` height and the phase of `confirmTip`. Witnesses answer in any order, leave, or time
out; `Drop` refills the pool in the same step, as `_drop` does. The code sorts the claims and takes the
middle entry; `Middle` says which claim that is by counting, and TLC compares the two for all lists of up
to five claims (`MedianAssumption`).

### PeerSession (`pepenet-p2p.js`)

`connectDiscoveredPeer()`: `host` is the one being dialed, `socket`, `settled` and `timer` belong to
`connect()`, `peer` to the handshake. The remote peer writes whole frames to `stream` (a frame is its
command, its length and whether it is valid, corrupt, of another network or too large) with the byte
at which each ends, and `Chunk` hands any number of those bytes to the decoder, whose state is the frames
it cut off, the bytes it holds beyond them and how many it `needed`. Then the loops run, one round a step:
`Cut`, `Pause` and `Throws` are the ends of a round of `push()`, which collects `messages`, and `Receive`
is `#receive()` of one of them, with what it writes. `Throws` loses what the chunk completed before it. The
callbacks of timers and sockets wait for both loops (`Idle`), as they do in one turn of the event loop.

### Relay (`pepenet-p2p.js`)

One program counter per worker of `broadcastDiscoveredTransaction`, the shared
cursor `next` and the set `served` of peers that returned the bytes. The bytes can also reach
a candidate through gossip (`Arrives`), and a peer that already has them answers at once.

## 3. Runs

Distinct states are those of a complete exploration.

| Run | Configuration | Question | States |
|---|---|---|---|
| `payments` | `Withdrawals_payments` | Do payments ever conflict, repeat, or leave before they are saved? Does the pipeline implement the ledger? | 3 400 808 |
| `holds` | `Withdrawals_holds` | Are locks, the pause, rescan flags, confirmations, maturity and reviewed quotes respected across the awaits? Does a call queued behind another get its own turn? | 890 456 |
| `lock` | `ServerLock_openers` | One owner, no leaked guard whatever fails, no older version beside it? | 211 086 |
| `sync` | `PepenetSync_attempts` | Does the index stay one validated chain? Does every attempt end? | 6 375 |
| `supervisor` | `SyncSupervisor_retries` | Are published heights backed? Does the wallet ever stop polling, two named attempts apart? | 207 686 |
| `runtime` | `WalletRuntime` | Is what is not flagged complete? Is the lock held while vault or index are open, however opening fails? Does close() drain, and does everything settle? | 713 427 |
| `vault` | `VaultBackup` | Does any clash or crash leave half an operation? Does a restore bring back what was backed up, with its reservations? | 1 077 475 |
| `pool` | `PeerPool` | Limits and refilling, choice of the sync peer, median of the claims, witnesses of the tip | 596 905 |
| `session` | `PeerSession` | Does the split of the bytes matter? Is the handshake answered once, is a socket leaked, does the call end? | 226 811 |
| `relay` | `Relay_workers` | Does "relayed" have two witnesses? Is any candidate skipped or dialed twice? Does it settle? | 52 729 |
| `difficulty`, `reorg` | `PepenetSync_difficulty`, `SyncSupervisor_reorg` | the findings below, as counterexamples | |

### Bounds, and why they are enough

- `payments`: one wallet, two requests, one form, two coins, three blocks, two sends in the queue,
  one other read and one re-relay at a time, crashes and rescans at any point. Two requests
  over two coins is the least in which payments can compete; three blocks let a coin
  arrive, its payment be mined and the index lag behind. Coins and requests are symmetric.
- `holds`: one request, two forms (one names a coin and wants two confirmations), two coins,
  reviewed and unreviewed calls, two sends in the queue, two blocks, and the lock of one coin, the pause
  and an import at any point. The other coin is a mining reward that needs one confirmation below height 2 and
  two from there: a reward of the first block is mature at height 1, and one of the second is not
  at height 2. Crashes are left out: they empty the queue, so nothing is owed to what was in it.
  Several wallets at once are in neither run: the theorems
  hold for any number of them, and what is only model-checked is checked for one.
- `lock`: two current openers and an older one, three process identifiers, so that the
  identifier of a dead owner can be reused by an opener or a bystander.
- `sync`: a chain of three with a fork after its first block and an invalid block; pages of at
  most two, batches of two, a mailbox of one, and failures of each call. Pages that do
  not link, repeat, are empty or too long are among the answers. One batch left in the
  mailbox is what a stopped attempt can leave: it posts the next only after a reply.
- `supervisor`: a chain of two with a fork, claims of 0, 2 and none, a failing ingestion.
- `runtime`: a fresh key and an old one, and a chain of two blocks, the first of which (`Past`) pays
  the old key before the wallet exists; the second spends that coin and pays the fresh key. Two calls,
  one sync attempt with a batch in the worker at a time, two openings. This is the least in which a key
  is added during a rescan, an input meets a coin that was not known, and an index is reopened
  after a crash or repaired.
- `vault`: a vault and a copy, two namespaces, two accounts, two keys, one coin and two payments:
  a restore can clash with an account, a key, or not at all, and a restored coin can be wanted again.
- `pool`: four peers, two of one range and two of them configured; three connections, four
  candidates, two agreements, and four kinds of version message (an honest height, an exaggerated
  one, a pruned peer, none). A minority of one among three is what a median must outvote.
- `session`: two hosts, headers of two bytes and payloads of none or one, streams of at most four
  frames of six kinds, cut at every byte. The shortest header that can itself be cut is of two bytes;
  four frames hold a handshake in either order with something before, between or after it.
- `relay`: three workers, four candidates, two witnesses: enough for a late answer to cross
  another worker's, and for the list to run out.

### Fairness, and what justifies it

- `holds`: the worker answers its mailbox and the event loop runs what is ready. Nothing
  else is assumed: callers may stop calling, blocks may stop coming.
- `sync`: commits, replies and the start of an attempt, and the two watchdogs (`setTimeout`).
  Peers are not fair: they may never send anything.
- `supervisor`: the same, with the retry timer, the deadline and the end of `confirmTip()`,
  which has a time limit of its own. `startSync()` and peers are not fair.
- `runtime`: callbacks that are due run, the worker takes its messages, and a worker that
  failed or is being terminated exits. Nobody has to call, sync or close.
- `pool`: a question to a witness times out, and the callback runs. Peers never have to answer.
- `session`: loops end and the next host is dialed, and the deadline of `connect()` passes, however often
  bytes arrive before it: the timers phase comes in every turn of the event loop, so `Timeout` is strongly
  fair (each chunk disables it while it is decoded). Peers and sockets owe nothing.
- `relay`: each attempt of a worker ends by its own time limit (`pepenet-p2p.js:629`).

Deadlock is checked except for `SyncSupervisor` (it stops once closed), `WalletRuntime` (once closed
for the last time), `Relay` and `PeerSession` (once settled).

## 4. Proofs

The theorems hold for every value of the constants, under the named assumptions
of each module (`OwnerAssumption`, `ChainAssumption`, `SizeAssumption` and the like). Most only say of
what kind a constant is. Those with content: in `ChainIndex`, coins are created before they are
spent, once each, and spent once; in `WalletRuntime`, nobody paid a generated key before the wallet
existed, and names of callers are distinct.

- **`WithdrawalsProofs`**. The inductive invariant is
  `TypeOK /\ SendAwaits /\ RepliesExist /\ Tables`. The tables alone are not inductive:
  `ReadDone` may reconcile with a reply of the worker, so replies must be about blocks that
  exist (`RepliesExist`); and `Reserve` inserts what was chosen before an await, so the
  first job must be in the stage its calls say it is in (`SendAwaits`). `Tables` then relates
  `outgoing`, `reservations`, `network` and `chain`. From it follow `NeverDoubleSpends`,
  `RequestsAreIdempotent`, `ReservationsFollowRows`, `SavedBeforePublished`
  and `NothingInvalidatesAPayment`. `Implementation` proves the refinement of
  `PaymentLedger`: `Reserve` maps to `Save`, `Publish` and `Rebroadcast` to `Publish`,
  `Mine` to `Settle`, everything else to a stutter.
  The second half of the module adds `HoldsInForce /\ Admission /\ BuiltForJob /\ InputsWereEligible`
  to that invariant: the holds a job remembers are still on, the snapshot a send awaits was asked for
  with none of its job's pauses or rescans in the way, and what is built is for the
  first job, from coins that were eligible at some height the index had. That is what stays true while the index moves
  on during the await: eligibility itself is not, because maturity rises with the height. From it:
  `HoldsAreRespected`, `InputsAreEligible`, and `ReviewedIsSaved`, an action property. `AlwaysAwaitsAnAnswer`
  proves `NeverWaitsForNothing`, what `EveryCallGetsItsTurn` rests on: a suspended send has one question with the
  worker, and the mailbox is answered in order.
- **`ServerLockProofs`**. `TypeOK /\ GuardOwned /\ LegacyPhases /\ MarkedWhileHeld /\
  GuardNotLeaked`. Ownership of the guard in every phase after it was opened is what makes
  `MutualExclusion` inductive. From it: `OneOwner`, `GuardReturned`, `OwnerMarked`, `OlderExcluded`.
- **`SyncProofs`**, of the sync and of its supervisor. `IsIndex(blocks) /\ Mailbox /\ Live /\ Staged` with
  the types. A batch in the mailbox may be of an attempt that was stopped long ago; `Mailbox` says it continues
  some prefix of the index, so committing it either extends the index or is refused. `Live` says that the current
  attempt has at most one batch there, the first blocks of its page, and `Staged` that the page continues what
  the attempt saw committed. From it: `IndexStaysAChain`, `NothingRewritten`, `SyncedHasCommitted`. Every
  step of the supervisor is a step of `PepenetSync`, a `Stop`, or leaves its variables alone, so this
  invariant carries over (`SupervisedIndex`). With `Awaited` (while a tip is being confirmed the attempt stays
  synced) and `Attempting`, `Backed` is inductive: `PublishedHeightsAreBacked`.
  The safety half of two liveness properties is proved as well. `NeverWaitsUnwatched` (`AlwaysWatched`): an
  attempt that runs has a watchdog armed or a batch with the worker, because every handler that leaves it
  waiting arms the timer it needs (`Watched`). `NeverStopsLooking` (`NeverIdle`): a wallet that is neither
  closing nor stopped has a retry scheduled, a deadline, a confirmation or a watched attempt
  (`Looking`), or is in one of the two attempts `Stuck` names, whose state is spelled out there.
  What is left for `AttemptsEnd` and `KeepsPolling` is that what was scheduled comes.
- **`WalletRuntimeProofs`**. The chain of reasons behind `BalancesAreComplete` is long, and each link is
  a conjunct of the invariant: what exists in each part of a process's life (`Lifecycle`); one request per
  caller (`Requests`, `Pending`); a key that was promised to be watched is watched, in the
  mailbox, or still to do (`Promises`); a fresh key is paid only once it was shown (`World`); the index holds
  nothing that is not in its blocks (`Sound`); and a key that is complete, or will be when the rescan is, is
  watched whenever blocks may be ingested, unless nobody can pay it yet (`Coverage`). Ingestion itself is
  dealt with by lemmas about the coins created and spent up to a height. From the same invariant:
  `LockedWhileOpen`, `DrainedBeforeClosing`; for the first, `Lifecycle` says of each part of an
  opening or a closing what the lock, the vault and the worker are, and excepts the leaked connection. `NobodyIsForgotten` proves `NothingForgotten`, what
  `CallsSettle` and `OpensAndCloses` rest on: the request of an open promise is with the worker or answered, unless
  the worker is ending, and a worker that ended leaves none open (`InFlight`); `close()` waits for live calls only.
- **`VaultBackupProofs`**. Between transactions the tables of a vault are `Consistent` (keys and payments belong
  to wallets that exist, a payment's reservations are its inputs, no coin twice). Inside one they are not, and
  the invariant has to say how far it came: `Underway` and `Behind` relate what the tables hold beyond
  `saved[1]` to what the loops of the operation have left in `todo` and `script`, so that with both empty
  exactly the operation has happened (`Invariance`; TLC checked the same invariant first). However
  deep an exception is thrown, unwinding ends at `saved[1]`.
  From it `SafelyReserved`, and `Implementation`: `Commit` maps to the operation of `Vault` that was begun,
  every other step inside a transaction to a stutter. For `Restore` this needs that the rows restored are,
  read back as a payload, the payload of the backup.
- **`PeerPoolProofs`**. `Vouching` (those asked and those that agreed are of pairwise different ranges, none
  of the server's) gives `ConfirmedByRanges`; `Counted` and `Connections` give `KeptFull`. `Selected` says
  there is a sync peer only from the first full peer to the end of the attempt; with lemmas on the median (a least claim exists
  by the well-founded minimum on the naturals; more than half of the claims do not exceed it, and at most
  half lie below) it gives `SelectedForCause` and `HeightIsOutvoted`.
- **`PeerSessionProofs`**. `Layout` says where frames end in the stream; `Decoder` that the bytes cut off and
  the bytes held are the bytes arrived, that a decoder at rest holds less than it needs, that it never needs
  more than the frame in front of it, and that messages and emissions are exactly the valid frames among those
  cut, in order. `Lifecycle`, `Flags` and `Answered` relate sockets, deadline and handshake to what was emitted. TLC
  checked the conjunction first. From it: `SplitIndependent`, `AnsweredExactlyOnce`, `NoSocketLeaked`, for any
  lengths of headers and payloads, any frames and any number of hosts.
- **`RelayProofs`**. `TypeOK /\ Cursor /\ Witnesses /\ Phase`. Positions in use are below the
  cursor and distinct, so receipts come from distinct peers and the count of receipts is the size
  of `served`. From it: `RelayedNeedsWitnesses`, `NoCandidateSkipped`, `DialedOnce`.

Every invariant and action property that a passing run checks is a theorem. Checked by TLC only are the liveness
properties (`EveryCallGetsItsTurn`, `AttemptsEnd`, `KeepsPolling`, `RelaySettles`, `ConfirmationEnds`, `CallsSettle`,
`OpensAndCloses`, `CallEnds`): fairness and `ENABLED` are out of the prover's reach. So is induction over data
with the library's theorems that take an operator; the models need none of it, because the invariants speak
of positions and counts instead of folds and sorts.

## 5. Findings

1. **A retry timer resumes indexing after a reorganisation** (`reorg`, `wallet-runtime.js:217`).
   `startSync()` does not clear a pending retry timer. If the attempt it starts finds a
   reorganisation, `finish()` schedules nothing, but the old timer fires and replaces the
   `rescan_required` status. `README.md:186` says that a detected reorganisation stops indexing.
2. **Difficulty may go unchecked after a stopped attempt** (`difficulty`, `pepenet-sync.js:124`).
   The constructor of an attempt reads the checkpoint (line 81) and then the context (lines 98 and 123). A batch
   that a stopped attempt left with the worker, committed in between, leaves the new one with an empty context, and the first headers pass without a difficulty check.
   `README.md:170` says every block is checked.

Remarks met on the way, without a run:

- The pause is read before the snapshot is awaited (`wallet-service.js:106-107`) and not again before the
  payment is saved, so a send under way passes it; `README.md:114` says it pauses new spending
  and signing. `HoldsRespected` therefore speaks of holds that were in force when the send was made.
- `server-lock.js:60` replaces the marker some time after checking it, so the marker of an older
  version that starts in between is overwritten; line 10 says only stale markers are reclaimed.
- `MultiPeerManager` never emits `close`, so `wallet-runtime.js:224-227` is unreachable.
- `chooseSyncPeer` takes the median of the full peers only, and the first full peer to finish
  its handshake is always the first choice.
- `README.md:170` says that the sync retries with a different peer after an invalid page, but
  the pool of the next attempt remembers nothing and may select the same one.
- `README.md:131` speaks of a peer that served the bytes where line 174 promises two.
- An attempt may stay for good without a timer (`Stuck`). If the only full peer says so in a second version
  message, after its handshake (`pepenet-p2p.js:692-698`), `archiveReady` was not emitted and no sync exists,
  while the deadline asks `hasArchivePeers()` (`wallet-runtime.js:247`) and does nothing: `running` stays true
  until another full peer comes ready or the wallet is closed. And when the transaction that
  ends a rescan throws (`wallet-runtime.js:201-207`), `.then(ok, error)` does not catch it: `finish()` is
  not called, although the status already shows the verified height, and Node ends the process unless the
  application handles the rejection.
- When `WalletVault` throws after `new Database` (`wallet-vault.js:62-78`; the errors of
  lines 77 and 85 excepted), `vault` is still undefined at `wallet-runtime.js:53`: the lock is given back with the connection
  open. Line 21 says that startup failures close acquired resources.
- A mining reward that could be spent at height 999 reads immature again at 1000 (`wallet-service.js:54`). The
  rule is that of the snapshot's height, not of the height at which the payment will be mined.
- When the release cannot remove the marker (`server-lock.js:74`), it gives the guard back and throws; the
  marker then names a live process, which cannot open the directory again until it exits.
- When `watchIdentity()` fails after a new key was saved, the call rejects and `listWallets()` shows
  an address that nothing watches until the wallet is opened again (`index.js:210`).

## 6. What is not modelled

- Amounts, fees, dust and change (`wallet-signing.js:100`); scripts, signatures, key derivation and
  encryption. They are computations without interleaving, covered by unit tests with vectors, and mostly
  beyond enumeration.
- Wire encoding and parsing of payloads, checksums, scrypt and merged mining: `Valid`, `Retargeted` and the
  form of a frame stand for them. Keys and addresses, and the server adapter, which re-exports.
- Contacts, signed messages and read-only calls of the API: they keep no state a payment depends on.
- An empty marker left by a crash between its creation and its writing (`server-lock.js:62`) is a state of
  `ServerLock`, but the code refuses to start until it is removed by hand (`README.md:162`), so nothing is
  claimed about recovery.
- Requests for bodies through the pool (`requestData`, `pepenet-p2p.js:1067`) and their fallback after the
  sync peer left, whose answers the router (line 912) drops. `PepenetSync` leaves open who answers and shows
  that a page nobody answers ends the attempt; which peer is asked needs the pool and the sync in one model.
- The pool's own `broadcastTransaction`, which nothing calls.
- Reorganisations of the chain in `Withdrawals` and `WalletRuntime`: the indexer stops at one and the
  wallet has to be rescanned. `PepenetSync` and `SyncSupervisor` have the forks.
- In `WalletRuntime`: the import of a key that another wallet has, `extraIdentities`, and connections that
  fail to close. The files of a damaged index are renamed in one step, which may fail or forget the keys. A fresh address is paid only after its call resolved or the
  wallet was opened again. Once a call awaits the worker only its fresh address is kept, and `Stop` may cut
  off the batch of an attempt that ended earlier, which the code would await: a larger set of behaviours.
- In `VaultBackup`: wallet rows other than their namespace and account, states and metadata of payments,
  contacts and settings in a backup. Only payloads that `backup()` made are restored (`MakeBackup`): those of
  version 1, crafted ones and ones a caller supplies, and the checks they meet (`wallet-vault.js:283-302`), are
  not covered.

## 7. Plan

Done, most important first: withdrawals with their ledger and holds, the lock, the sync and its supervisor,
the index client with opening and closing, backup and restore, the relay, the pool, the connection; and the
proofs above. What would add most next:

1. The pool and the sync in one module, for body requests that go to another peer.
2. `Withdrawals` over `ChainIndex`: its view of unspent outputs (`Unspent`) as a refinement of the index.
3. The safety half of `RelaySettles`, `ConfirmationEnds` and `CallEnds`, as it is proved for the queue, the sync,
   its supervisor and the runtime: in any state, what is waited for is under way.
4. `BuildPayment` (selection, fee, dust, change) and `HeaderChain` (retargeting with a context) as pure
   algorithms against reference definitions over small amounts and short chains.
