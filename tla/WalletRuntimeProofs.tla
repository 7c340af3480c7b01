------------------------ MODULE WalletRuntimeProofs ------------------------
(***************************************************************************)
(* Proofs about WalletRuntime, for any keys, any chain, any number of      *)
(* calls under way and of openings.                                        *)
(***************************************************************************)
EXTENDS WalletRuntime, TLAPS

Heights == 0 .. Len(Chain)
Rows == [key : Keys, tx : Transaction, received : SUBSET Coins, spent : SUBSET Coins]
Indexes ==
    [height : Heights, coins : SUBSET Coins, rows : SUBSET Rows, watched : SUBSET Keys, sound : BOOLEAN]

InitMessages == {[from |-> "open", method |-> "init"]}
WatchMessages == {Watch(c, k) : c \in Calls \cup {"open"}, k \in Keys}
IngestMessages == {Ingest(a, h) : a \in Attempts, h \in Heights}
Messages == InitMessages \cup WatchMessages \cup IngestMessages

ClientType ==
    /\ worker \in {"none", "running", "failed", "terminating", "exited"}
    /\ mailbox \in Seq(Messages) /\ replies \in Seq([from : Callers, ok : BOOLEAN])
    /\ pending \subseteq Callers

VaultType ==
    /\ flag \in [Keys -> {"absent", "rescan", "ok"}]
    /\ rescan \in [active : BOOLEAN, keys : SUBSET Keys]

ProcessType ==
    /\ life \in {"closed", "locked", "connecting", "opening", "chosen", "repairing", "starting", "ready",
             "draining", "closing", "stopping", "releasing"}
    /\ lock \in BOOLEAN /\ vault \in {"closed", "connected", "open", "leaked"}
    /\ todo \in [Callers -> SUBSET Keys] /\ drain \subseteq Calls
    /\ call \in [Calls -> [phase : {"idle", "accepted", "awaiting"},
                           op : {"none", "create", "import", "restore"}, keys : SUBSET Keys]]
    /\ sync \in [by : Attempts \cup {"none"}, height : Nat, to : Nat]
    /\ sync # NoSync => sync.by \in Attempts

TypeOK ==
    /\ ClientType /\ VaultType /\ ProcessType
    /\ index \in Indexes /\ tip \in Heights /\ shown \subseteq Keys /\ opens \in Nat

\* What exists in each part of the life of a process.
Lifecycle ==
    /\ lock = (life # "closed")
    /\ vault = "connected" <=> life = "connecting"
    /\ vault = "open" => life \notin {"closed", "locked", "connecting", "releasing"}
    /\ life \in {"opening", "chosen", "repairing", "starting", "ready", "draining", "closing"} => vault = "open"
    /\ life \in {"closed", "locked", "connecting", "opening", "chosen", "repairing", "releasing"} =>
        worker = "none"
    /\ life \in {"starting", "ready", "draining", "closing"} => worker \in {"running", "failed", "exited"}
    /\ life = "stopping" => worker \in {"none", "terminating", "exited"}
    /\ worker \in {"none", "failed", "exited"} => mailbox = <<>> /\ replies = <<>>
    /\ sync # NoSync => life \in {"ready", "draining", "closing"}
    /\ \A c \in Calls : call[c] # NoCall =>
        \/ life = "ready"
        \/ life = "draining" /\ c \in drain

\* Keys a caller will have been promised to be watched when its last reply arrives.
Promised == [c \in Callers |->
    IF c = "open" THEN IF life = "starting" THEN InVault ELSE {}
    ELSE IF c \in Calls THEN IF call[c].phase = "awaiting" THEN call[c].keys ELSE {}
    ELSE {}]

Watches(m) == IF m \in WatchMessages THEN {m.key} ELSE {}

\* A caller has one request under way, in the mailbox or answered.
Distinct(q) == \A i, j \in 1 .. Len(q) : q[i].from = q[j].from => i = j
AllFrom(q, names) == \A i \in 1 .. Len(q) : q[i].from \in names
Free(c, q) == \A i \in 1 .. Len(q) : q[i].from # c

Queues(box, answers, names) ==
    /\ Distinct(box) /\ AllFrom(box, names)
    /\ Distinct(answers) /\ AllFrom(answers, names)
    /\ \A i \in 1 .. Len(box) : Free(box[i].from, answers)

Requests == Queues(mailbox, replies, pending)

Pending ==
    /\ \A c \in Calls \cap pending : call[c].phase = "awaiting"
    /\ "open" \in pending => life = "starting"
    /\ sync # NoSync /\ sync.to = sync.height => sync.by \notin pending

\* What is promised is watched, on its way, or to do.
Promises ==
    /\ \A i \in 1 .. Len(mailbox) :
        Promised[mailbox[i].from] \subseteq index.watched \cup todo[mailbox[i].from] \cup Watches(mailbox[i])
    /\ \A i \in 1 .. Len(replies) :
        replies[i].ok => Promised[replies[i].from] \subseteq index.watched \cup todo[replies[i].from]

CallKeys ==
    \A c \in Calls :
        /\ call[c].phase = "awaiting" => call[c].keys \subseteq Fresh \cap InVault
        /\ call[c].op = "create" => call[c].keys \subseteq Fresh
        /\ call[c].op = "restore" => call[c].keys \cap Fresh = {}

\* Blocks exist before they are ingested, and pay a fresh key only once it is shown.
World ==
    /\ index.height <= tip
    /\ \A i \in 1 .. Len(mailbox) : mailbox[i] \in IngestMessages => mailbox[i].to <= tip
    /\ shown \subseteq InVault
    /\ \A k \in Fresh \ shown : PaidBy(Upto(tip)) \cap Own(k) = {}

\* The index has nothing that is not in its blocks.
Sound ==
    /\ index.coins \subseteq PaidBy(Upto(index.height))
    /\ \A r \in index.rows :
        /\ Relevant(r)
        /\ r.received \cup r.spent \subseteq PaidBy(Upto(index.height)) \cap Own(r.key)

\* Keys that are complete, or will be when the rescan is.
Covered == {k \in Keys : flag[k] = "ok"} \cup (IF rescan.active THEN rescan.keys ELSE {})

Ingesting ==
    \/ life \in {"ready", "draining", "closing"}
    \/ \E i \in 1 .. Len(mailbox) : mailbox[i] \in IngestMessages

\* A key that is covered is watched while blocks are ingested, unless nobody can pay it.
Coverage ==
    /\ rescan.active => rescan.keys \subseteq InVault
    /\ index.sound => \A k \in Covered : Complete(k)
    /\ \A k \in Covered :
        k \in index.watched \cup (Fresh \ shown) \/ (index.height = 0 /\ ~Ingesting)

\* The steps that touch only the life, the lock and the vault of the process.
Preparing == Connect \/ VaultOpens \/ VaultFails \/ IndexFails \/ Release

IInv == TypeOK /\ Lifecycle /\ Requests /\ Pending /\ Promises /\ CallKeys /\ World /\ Sound /\ Coverage

-----------------------------------------------------------------------------
\* Types.

LEMMA CallerNames ==
  /\ Callers = Calls \cup Attempts \cup {"open"}
  /\ Calls \cap Attempts = {} /\ "open" \notin Calls \cup Attempts
BY CallersAssumption

LEMMA HeightsAreNat == Heights \subseteq Nat /\ 0 \in Heights /\ Len(Chain) \in Nat /\ Past \in Heights
<1>1. Len(Chain) \in Nat
  BY ChainAssumption
<1> QED BY <1>1, PastAssumption DEF Heights

LEMMA EmptyType == ASSUME NEW W \in SUBSET Keys PROVE Empty(W) \in Indexes /\ Empty(W).watched = W
BY HeightsAreNat DEF Empty, Indexes

LEMMA PostType ==
  ASSUME ClientType, NEW m \in Messages, m.from \in Callers, Post(m), worker' = worker, replies' = replies
  PROVE  ClientType'
<1>1. mailbox' \in Seq(Messages)
  BY DEF ClientType, Post
<1>2. pending' \subseteq Callers
  BY DEF ClientType, Post
<1> QED BY <1>1, <1>2 DEF ClientType

LEMMA WatchMessage ==
  ASSUME NEW c \in Calls \cup {"open"}, NEW k \in Keys
  PROVE  /\ Watch(c, k) \in Messages /\ Watch(c, k) \in WatchMessages /\ Watch(c, k) \notin IngestMessages
         /\ Watch(c, k).from = c /\ Watch(c, k).from \in Callers
         /\ Watch(c, k).method = "watchIdentity" /\ Watch(c, k).key = k
<1>1. Watch(c, k) \in WatchMessages
  BY DEF WatchMessages
<1>2. Watch(c, k).from = c /\ Watch(c, k).method = "watchIdentity" /\ Watch(c, k).key = k
  BY DEF Watch
<1>3. \A x \in IngestMessages : x.method = "ingestBatch"
  BY DEF IngestMessages, Ingest
<1> QED BY <1>1, <1>2, <1>3, CallerNames DEF Messages

LEMMA IngestMessage ==
  ASSUME NEW a \in Attempts, NEW h \in Heights
  PROVE  /\ Ingest(a, h) \in Messages /\ Ingest(a, h) \in IngestMessages /\ Ingest(a, h) \notin WatchMessages
         /\ Ingest(a, h).from = a /\ Ingest(a, h).from \in Callers
         /\ Ingest(a, h).method = "ingestBatch" /\ Ingest(a, h).to = h
<1>1. Ingest(a, h) \in IngestMessages
  BY DEF IngestMessages
<1>2. Ingest(a, h).from = a /\ Ingest(a, h).method = "ingestBatch" /\ Ingest(a, h).to = h
  BY DEF Ingest
<1>3. \A x \in WatchMessages : x.method = "watchIdentity"
  BY DEF WatchMessages, Watch
<1> QED BY <1>1, <1>2, <1>3, CallerNames DEF Messages

LEMMA MessageForms ==
  ASSUME NEW m \in Messages
  PROVE  \/ m.method = "init" /\ m.from = "open" /\ m \notin WatchMessages /\ m \notin IngestMessages
         \/ /\ m \in WatchMessages /\ m \notin IngestMessages
            /\ m.method = "watchIdentity" /\ m.key \in Keys /\ m.from \in Calls \cup {"open"}
         \/ /\ m \in IngestMessages /\ m \notin WatchMessages
            /\ m.method = "ingestBatch" /\ m.to \in Heights /\ m.from \in Attempts
BY DEF Watch, Ingest, Messages, InitMessages, WatchMessages, IngestMessages

LEMMA FromType == ASSUME NEW m \in Messages PROVE m.from \in Callers
BY MessageForms, CallerNames

\* Tails of the two queues.
LEMMA TailIs ==
  ASSUME NEW T, NEW s \in Seq(T), s # <<>>
  PROVE  /\ Tail(s) \in Seq(T) /\ 1 \in 1 .. Len(s) /\ Head(s) = s[1] /\ Head(s) \in T
         /\ Len(Tail(s)) \in Nat
         /\ \A i \in 1 .. Len(Tail(s)) : i + 1 \in 1 .. Len(s) /\ i + 1 # 1 /\ Tail(s)[i] = s[i + 1]
OBVIOUS

LEMMA SeqElement == ASSUME NEW T, NEW s \in Seq(T) PROVE \A i \in 1 .. Len(s) : s[i] \in T
OBVIOUS

LEMMA AppendIs ==
  ASSUME NEW T, NEW s \in Seq(T), NEW e \in T
  PROVE  /\ Append(s, e) \in Seq(T) /\ Len(Append(s, e)) = Len(s) + 1 /\ Len(s) \in Nat
         /\ Append(s, e)[Len(s) + 1] = e
         /\ \A i \in 1 .. Len(s) : Append(s, e)[i] = s[i]
         /\ \A i \in 1 .. Len(s) + 1 : i = Len(s) + 1 \/ i \in 1 .. Len(s)
OBVIOUS

LEMMA ReceiveType ==
  ASSUME ClientType, NEW c, NEW ok, Receive(c, ok)
  PROVE  replies' \in Seq([from : Callers, ok : BOOLEAN])
BY TailIs DEF ClientType, Receive

LEMMA WatchNextType ==
  ASSUME TypeOK, NEW c \in Calls \cup {"open"}, NEW ok, Receive(c, ok), WatchNext(c), worker' = worker
  PROVE  ClientType' /\ todo' \in [Callers -> SUBSET Keys]
<1>1. replies' \in Seq([from : Callers, ok : BOOLEAN]) /\ ClientType /\ todo \in [Callers -> SUBSET Keys]
  BY ReceiveType DEF TypeOK, ProcessType
<1>2. CASE pending' = pending \ {c} /\ UNCHANGED <<mailbox, todo>>
  BY <1>1, <1>2 DEF ClientType
<1>3. CASE \E k \in todo[c] : Post(Watch(c, k)) /\ todo' = [todo EXCEPT ![c] = @ \ {k}]
  <2>1. PICK k \in todo[c] : Post(Watch(c, k)) /\ todo' = [todo EXCEPT ![c] = @ \ {k}]
    BY <1>3
  <2>2. k \in Keys
    BY <1>1, <2>1, CallerNames
  <2>3. Watch(c, k) \in Messages /\ Watch(c, k).from \in Callers
    BY <2>2, WatchMessage
  <2>4. mailbox' \in Seq(Messages) /\ pending' \subseteq Callers
    BY <1>1, <2>1, <2>3 DEF ClientType, Post
  <2>5. todo' \in [Callers -> SUBSET Keys]
    BY <1>1, <2>1
  <2> QED BY <1>1, <2>4, <2>5 DEF ClientType
<1> QED BY <1>2, <1>3 DEF WatchNext

LEMMA WithinType ==
  ASSUME NEW a \in Nat \ {0}, NEW b \in Heights
  PROVE  Within(a, b) \subseteq Transaction /\ PaidBy(Within(a, b)) \subseteq Coins
<1>1. \A i \in a .. b : Chain[i] \in SUBSET Transaction
  BY ChainAssumption, HeightsAreNat DEF Heights
<1>2. Within(a, b) \subseteq Transaction
  BY <1>1 DEF Within
<1>3. \A tx \in Transaction : tx.out \subseteq Coins
  BY DEF Transaction
<1> QED BY <1>2, <1>3 DEF PaidBy

LEMMA IndexFields ==
  ASSUME NEW x \in Indexes
  PROVE  /\ x.height \in Heights /\ x.coins \subseteq Coins /\ x.rows \subseteq Rows
         /\ x.watched \subseteq Keys /\ x.sound \in BOOLEAN
BY DEF Indexes

LEMMA IngestedType ==
  ASSUME index \in Indexes, NEW to \in Heights
  PROVE  Ingested(to) \in Indexes
<1>1. CASE to <= index.height
  BY <1>1 DEF Ingested
<1>2. CASE ~(to <= index.height)
  <2> DEFINE txs == Within(index.height + 1, to)
             held == index.coins \cup {c \in PaidBy(txs) : Owner[c] \in index.watched}
             rows == {[Row(k, tx, held) EXCEPT !.received = @ \cap held] : k \in Keys, tx \in txs}
  <2>1. index.height + 1 \in Nat \ {0}
    <3>1. index.height \in Nat
      BY IndexFields, HeightsAreNat
    <3> QED BY <3>1
  <2>2. txs \subseteq Transaction /\ PaidBy(txs) \subseteq Coins
    BY <2>1, WithinType
  <2>3. held \subseteq Coins
    BY <2>2, IndexFields
  <2> HIDE DEF txs, held
  <2>4. \A k \in Keys, tx \in txs : [Row(k, tx, held) EXCEPT !.received = @ \cap held] \in Rows
    BY <2>2, <2>3 DEF Row, Rows, Own, Transaction
  <2>5. rows \subseteq Rows
    BY <2>4
  <2> HIDE DEF rows
  <2>6. [index EXCEPT !.height = to, !.coins = held \ SpentBy(txs),
                      !.rows = @ \cup {r \in rows : Relevant(r)}] \in Indexes
    BY <2>3, <2>5 DEF Indexes
  <2>7. Ingested(to) = [index EXCEPT !.height = to, !.coins = held \ SpentBy(txs),
                                     !.rows = @ \cup {r \in rows : Relevant(r)}]
    BY <1>2 DEF Ingested, txs, held, rows
  <2> QED BY <2>6, <2>7
<1> QED BY <1>1, <1>2

LEMMA WatchedType ==
  ASSUME index \in Indexes, NEW W \in SUBSET Keys
  PROVE  /\ [index EXCEPT !.watched = @ \cup W] \in Indexes
         /\ [index EXCEPT !.watched = @ \cup W].watched = index.watched \cup W
         /\ [index EXCEPT !.watched = @ \cup W].height = index.height
         /\ [index EXCEPT !.watched = @ \cup W].coins = index.coins
         /\ [index EXCEPT !.watched = @ \cup W].rows = index.rows
         /\ [index EXCEPT !.watched = @ \cup W].sound = index.sound
BY DEF Indexes

LEMMA HandledIs ==
  ASSUME NEW m \in Messages
  PROVE  /\ m.method = "init" => Handled(m) = index
         /\ m.method = "watchIdentity" => Handled(m) = [index EXCEPT !.watched = @ \cup {m.key}]
         /\ m.method = "ingestBatch" => Handled(m) = Ingested(m.to)
BY DEF Handled

LEMMA HandledType == ASSUME index \in Indexes, NEW m \in Messages PROVE Handled(m) \in Indexes
<1>1. CASE m.method = "init"
  BY <1>1, HandledIs
<1>2. CASE m.method = "watchIdentity" /\ m.key \in Keys
  <2>1. {m.key} \in SUBSET Keys
    BY <1>2
  <2> QED BY <1>2, <2>1, HandledIs, WatchedType
<1>3. CASE m.method = "ingestBatch" /\ m.to \in Heights
  BY <1>3, HandledIs, IngestedType
<1> QED BY <1>1, <1>2, <1>3, MessageForms

LEMMA TakeType ==
  ASSUME ClientType, NEW ok \in BOOLEAN, Take(ok)
  PROVE  ClientType' /\ mailbox # <<>> /\ Head(mailbox) \in Messages
<1>1. mailbox # <<>> /\ mailbox' = Tail(mailbox)
      /\ replies' = Append(replies, [from |-> Head(mailbox).from, ok |-> ok]) /\ UNCHANGED <<worker, pending>>
  BY DEF Take
<1>2. Tail(mailbox) \in Seq(Messages) /\ Head(mailbox) \in Messages
  BY <1>1, TailIs DEF ClientType
<1>3. Head(mailbox).from \in Callers
  BY <1>2, FromType
<1>4. replies' \in Seq([from : Callers, ok : BOOLEAN])
  BY <1>1, <1>3 DEF ClientType
<1> QED BY <1>1, <1>2, <1>4 DEF ClientType

LEMMA InitType == Init => TypeOK
<1> SUFFICES ASSUME Init PROVE TypeOK
  OBVIOUS
<1>1. ClientType
  BY DEF Init, ClientType
<1>2. VaultType
  BY DEF Init, VaultType
<1>3. ProcessType
  <2>1. sync \in [by : Attempts \cup {"none"}, height : Nat, to : Nat] /\ sync = NoSync
    BY DEF Init, NoSync
  <2>2. call \in [Calls -> [phase : {"idle", "accepted", "awaiting"},
                           op : {"none", "create", "import", "restore"}, keys : SUBSET Keys]]
    BY DEF Init, NoCall
  <2>3. todo \in [Callers -> SUBSET Keys]
    BY DEF Init
  <2>4. drain \subseteq Calls /\ lock \in BOOLEAN /\ vault = "closed"
    BY DEF Init
  <2>5. life = "closed"
    BY DEF Init
  <2> QED BY <2>1, <2>2, <2>3, <2>4, <2>5 DEF ProcessType
<1>4. index \in Indexes
  BY EmptyType DEF Init
<1>5. tip \in Heights /\ shown \subseteq Keys /\ opens \in Nat
  BY HeightsAreNat DEF Init
<1> QED BY <1>1, <1>2, <1>3, <1>4, <1>5 DEF TypeOK

\* The actions of the main thread.
LEMMA OpeningType ==
  ASSUME TypeOK, Open \/ Preparing \/ BeginRescan \/ Quarantine \/ StartWorker \/ OpenProceeds \/ OpenFails
  PROVE  TypeOK'
<1> USE DEF TypeOK
<1>0. InVault \in SUBSET Keys /\ InVault \cap Fresh \subseteq Keys
  BY DEF InVault
<1>1. CASE Open
  BY <1>1 DEF Open, durable, client, ClientType, VaultType, ProcessType
<1>2. CASE BeginRescan
  <2>1. index' \in Indexes
    BY <1>2, EmptyType DEF BeginRescan
  <2>2. VaultType'
    BY <1>0, <1>2 DEF BeginRescan, VaultType
  <2> QED BY <1>2, <2>1, <2>2 DEF BeginRescan, client, world, ClientType, ProcessType
<1>3. CASE Quarantine
  <2>1. index' \in Indexes /\ index.watched \in SUBSET Keys
    BY <1>3, EmptyType, IndexFields DEF Quarantine
  <2>2. todo' \in [Callers -> SUBSET Keys]
    BY <1>3, <2>1 DEF Quarantine, ProcessType
  <2> QED BY <1>3, <2>1, <2>2 DEF Quarantine, client, world, ClientType, VaultType, ProcessType
<1>4. CASE StartWorker
  <2>1. todo["open"] \in SUBSET Keys
    BY CallerNames DEF ProcessType
  <2>2. index' \in Indexes
    <3>1. PICK ks \in SUBSET todo["open"] : index' = [index EXCEPT !.watched = @ \cup ks]
      BY <1>4 DEF StartWorker
    <3> QED BY <2>1, <3>1, WatchedType
  <2>3. ClientType'
    <3>1. Start("open") \/ (worker' = "failed" /\ UNCHANGED <<mailbox, replies, pending>>)
      BY <1>4 DEF StartWorker
    <3>2. CASE Start("open")
      BY <3>2, CallerNames DEF Start, ClientType, Messages, InitMessages
    <3> QED BY <3>1, <3>2 DEF ClientType
  <2>4. ProcessType'
    BY <1>0, <1>4 DEF StartWorker, ProcessType
  <2> QED BY <1>4, <2>2, <2>3, <2>4 DEF StartWorker, world, VaultType
<1>5. CASE OpenProceeds
  <2>1. ClientType' /\ todo' \in [Callers -> SUBSET Keys]
    BY <1>5, WatchNextType DEF OpenProceeds
  <2>2. life' \in {life, "ready"} /\ shown' \subseteq Keys
    BY <1>5, <1>0 DEF OpenProceeds
  <2> QED BY <1>5, <2>1, <2>2 DEF OpenProceeds, durable, VaultType, ProcessType
<1>6. CASE OpenFails
  <2>1. replies' \in Seq([from : Callers, ok : BOOLEAN]) /\ pending' \subseteq Callers /\ mailbox' = mailbox
    BY <1>6, ReceiveType DEF OpenFails, Rejected, ClientType
  <2>2. ClientType'
    BY <1>6, <2>1 DEF OpenFails, ClientType
  <2>3. todo' \in [Callers -> SUBSET Keys]
    BY <1>6 DEF OpenFails, ProcessType
  <2> QED BY <1>6, <2>2, <2>3 DEF OpenFails, durable, world, VaultType, ProcessType
<1>7. CASE Preparing
  <2>1. todo' \in [Callers -> SUBSET Keys]
    BY <1>7 DEF Preparing, Connect, VaultOpens, VaultFails, IndexFails, Release, ProcessType
  <2>2. UNCHANGED <<durable, client, call, drain, sync, world>>
    BY <1>7 DEF Preparing, Connect, VaultOpens, VaultFails, IndexFails, Release
  <2>3. life' \in {"connecting", "opening", "stopping", "closed"} /\ lock' \in {lock, FALSE}
        /\ vault' \in {vault, "connected", "open", "closed", "leaked"}
    BY <1>7 DEF Preparing, Connect, VaultOpens, VaultFails, IndexFails, Release
  <2> QED BY <2>1, <2>2, <2>3 DEF durable, client, world, ClientType, VaultType, ProcessType
<1> QED BY <1>1, <1>2, <1>3, <1>4, <1>5, <1>6, <1>7

LEMMA CallingType ==
  ASSUME TypeOK, NEW c \in Calls,
         NewAddress(c) \/ ImportKey(c) \/ Restore(c) \/ Calling(c)
  PROVE  TypeOK'
<1> USE DEF TypeOK
<1>1. ASSUME NEW op \in {"create", "import", "restore"}, NEW keys \in SUBSET Keys, Accept(c, op, keys)
      PROVE  TypeOK'
  <2>1. Call("accepted", op, keys) \in [phase : {"idle", "accepted", "awaiting"},
                                        op : {"none", "create", "import", "restore"}, keys : SUBSET Keys]
    BY DEF Call
  <2>2. ProcessType'
    BY <1>1, <2>1 DEF Accept, ProcessType
  <2> QED BY <1>1, <2>2 DEF Accept, durable, client, world, ClientType, VaultType
<1>2. NewAddress(c) \/ ImportKey(c) \/ Restore(c) => TypeOK'
  BY <1>1, FreshAssumption DEF NewAddress, ImportKey, Restore
<1>3. NoCall \in [phase : {"idle", "accepted", "awaiting"},
                  op : {"none", "create", "import", "restore"}, keys : SUBSET Keys]
  BY DEF NoCall
<1>4. call[c].keys \in SUBSET Keys /\ InVault' \in SUBSET Keys
  BY DEF ProcessType, InVault
<1>5. CASE Runs(c)
  <2>1. PICK ks \in SUBSET Keys : \E k \in ks : Post(Watch(c, k)) /\ todo' = [todo EXCEPT ![c] = ks \ {k}]
    BY <1>4, <1>5 DEF Runs
  <2>0. PICK k \in ks : Post(Watch(c, k)) /\ todo' = [todo EXCEPT ![c] = ks \ {k}]
    BY <2>1
  <2>2. Watch(c, k) \in Messages /\ Watch(c, k).from \in Callers
    BY <2>0, <2>1, WatchMessage
  <2>3. ClientType'
    BY <1>5, <2>0, <2>2, PostType DEF Runs
  <2>4. flag' \in [Keys -> {"absent", "rescan", "ok"}]
    BY <1>5 DEF Runs, Adds, VaultType
  <2>5. call' \in [Calls -> [phase : {"idle", "accepted", "awaiting"},
                             op : {"none", "create", "import", "restore"}, keys : SUBSET Keys]]
    BY <1>4, <1>5 DEF Runs, Call, ProcessType
  <2>6. todo' \in [Callers -> SUBSET Keys]
    BY <2>0, <2>1, CallerNames DEF ProcessType
  <2> QED BY <1>5, <2>3, <2>4, <2>5, <2>6 DEF Runs, world, VaultType, ProcessType
<1>6. CASE Throws(c)
  BY <1>3, <1>6 DEF Throws, durable, client, world, ClientType, VaultType, ProcessType
<1>7. CASE Proceeds(c)
  <2>1. ClientType' /\ todo' \in [Callers -> SUBSET Keys]
    BY <1>7, WatchNextType DEF Proceeds
  <2>2. CASE todo[c] # {}
    BY <1>7, <2>1, <2>2 DEF Proceeds, durable, VaultType, ProcessType
  <2>3. CASE todo[c] = {}
    BY <1>3, <1>4, <1>7, <2>1, <2>3 DEF Proceeds, durable, VaultType, ProcessType
  <2> QED BY <1>7, <2>2, <2>3 DEF Proceeds
<1>8. CASE Rejects(c)
  <2>1. replies' \in Seq([from : Callers, ok : BOOLEAN]) /\ pending' \subseteq Callers /\ mailbox' = mailbox
    BY <1>8, ReceiveType DEF Rejects, Rejected, ClientType
  <2>2. ClientType'
    BY <1>8, <2>1 DEF Rejects, ClientType
  <2>3. todo' \in [Callers -> SUBSET Keys]
    BY <1>8 DEF Rejects, ProcessType
  <2>4. call' \in [Calls -> [phase : {"idle", "accepted", "awaiting"},
                             op : {"none", "create", "import", "restore"}, keys : SUBSET Keys]]
    BY <1>3, <1>8 DEF Rejects, ProcessType
  <2> QED BY <1>8, <2>2, <2>3, <2>4 DEF Rejects, durable, world, VaultType, ProcessType
<1> QED BY <1>2, <1>5, <1>6, <1>7, <1>8 DEF Calling

LEMMA SyncingType ==
  ASSUME TypeOK, SyncStarts \/ SyncPosts \/ SyncStops \/ SyncEnds \/ (\E a \in Attempts : Syncing(a))
  PROVE  TypeOK'
<1> USE DEF TypeOK
<1>0. NoSync \in [by : Attempts \cup {"none"}, height : Nat, to : Nat]
  BY DEF NoSync
<1>1. CASE SyncStarts
  <2>1. index.height \in Nat
    BY IndexFields, HeightsAreNat
  <2> QED BY <1>1, <2>1 DEF SyncStarts, durable, client, world, ClientType, VaultType, ProcessType
<1>2. CASE SyncPosts
  <2>1. PICK n \in 1 .. MaxBatch : /\ sync.height + n <= tip
                                   /\ Post(Ingest(sync.by, sync.height + n))
                                   /\ sync' = [sync EXCEPT !.to = sync.height + n]
    BY <1>2 DEF SyncPosts
  <2>2. sync.height + n \in Heights
    BY <2>1, BoundsAssumption, HeightsAreNat DEF ProcessType, Heights
  <2>3. mailbox' \in Seq(Messages) /\ pending' \subseteq Callers
    <3>1. sync.by \in Attempts
      BY <1>2 DEF SyncPosts, ProcessType
    <3>2. Ingest(sync.by, sync.height + n) \in Messages /\ Ingest(sync.by, sync.height + n).from \in Callers
      BY <2>2, <3>1, IngestMessage
    <3> QED BY <2>1, <3>2 DEF Post, ClientType
  <2>4. sync' \in [by : Attempts \cup {"none"}, height : Nat, to : Nat]
    BY <2>1, <2>2, HeightsAreNat DEF ProcessType
  <2> QED BY <1>2, <2>3, <2>4 DEF SyncPosts, durable, world, ClientType, VaultType, ProcessType
<1>3. CASE SyncStops
  BY <1>0, <1>3 DEF SyncStops, durable, client, world, ClientType, VaultType, ProcessType
<1>4. CASE SyncEnds
  <2>1. flag' \in [Keys -> {"absent", "rescan", "ok"}] /\ rescan' \in [active : BOOLEAN, keys : SUBSET Keys]
    BY <1>4 DEF SyncEnds, RescanCompletes, VaultType
  <2> QED BY <1>0, <1>4, <2>1 DEF SyncEnds, client, world, ClientType, VaultType, ProcessType
<1>5. ASSUME NEW a \in Attempts, SyncReceives(a) PROVE TypeOK'
  <2>1. replies' \in Seq([from : Callers, ok : BOOLEAN]) /\ pending' \subseteq Callers
    BY <1>5, ReceiveType DEF SyncReceives, ClientType
  <2>2. sync' \in [by : Attempts \cup {"none"}, height : Nat, to : Nat]
    BY <1>5 DEF SyncReceives, ProcessType
  <2> QED BY <1>5, <2>1, <2>2 DEF SyncReceives, durable, world, ClientType, VaultType, ProcessType
<1>6. ASSUME NEW a \in Attempts, SyncFails(a) PROVE TypeOK'
  <2>1. replies' \in Seq([from : Callers, ok : BOOLEAN]) /\ pending' \subseteq Callers /\ mailbox' = mailbox
    BY <1>6, ReceiveType DEF SyncFails, ClientType
  <2>2. sync' \in [by : Attempts \cup {"none"}, height : Nat, to : Nat]
    BY <1>0, <1>6 DEF SyncFails, ProcessType
  <2> QED BY <1>6, <2>1, <2>2 DEF SyncFails, durable, world, ClientType, VaultType, ProcessType
<1> QED BY <1>1, <1>2, <1>3, <1>4, <1>5, <1>6 DEF Syncing

LEMMA GoneType ==
  ASSUME Gone \/ (Terminate /\ ClientType) \/ (Fail /\ ClientType) \/ (Exit /\ ClientType)
  PROVE  ClientType'
<1>1. CASE Terminate /\ ClientType
  BY <1>1 DEF Terminate, ClientType
<1>2. CASE Gone \/ Fail \/ Exit
  <2>1. mailbox' = <<>> /\ replies' = <<>> /\ pending' = {} /\ worker' \in {"none", "failed", "exited"}
    BY <1>2 DEF Gone, Fail, Exit, Exits
  <2> QED BY <2>1 DEF ClientType
<1> QED BY <1>1, <1>2

LEMMA ClosingType ==
  ASSUME TypeOK, Close \/ Drained \/ Stop \/ CloseVault \/ Crash
  PROVE  TypeOK'
<1> USE DEF TypeOK
<1>0. NoSync \in [by : Attempts \cup {"none"}, height : Nat, to : Nat]
  BY DEF NoSync
<1>1. CASE Close
  BY <1>1 DEF Close, durable, client, world, ClientType, VaultType, ProcessType
<1>2. CASE Drained
  BY <1>2 DEF Drained, durable, client, world, ClientType, VaultType, ProcessType
<1>3. CASE Stop
  <2>1. ClientType'
    BY <1>3, GoneType DEF Stop
  <2> QED BY <1>0, <1>3, <2>1 DEF Stop, durable, world, VaultType, ProcessType
<1>4. CASE CloseVault
  <2>1. ClientType'
    BY <1>4, GoneType DEF CloseVault
  <2> QED BY <1>4, <2>1 DEF CloseVault, durable, world, VaultType, ProcessType
<1>5. CASE Crash
  <2>1. ClientType'
    BY <1>5, GoneType DEF Crash
  <2>2. call' \in [Calls -> [phase : {"idle", "accepted", "awaiting"},
                             op : {"none", "create", "import", "restore"}, keys : SUBSET Keys]]
    BY <1>5 DEF Crash, NoCall
  <2>3. todo' \in [Callers -> SUBSET Keys]
    BY <1>5 DEF Crash
  <2> QED BY <1>0, <1>5, <2>1, <2>2, <2>3 DEF Crash, durable, world, VaultType, ProcessType
<1> QED BY <1>1, <1>2, <1>3, <1>4, <1>5

LEMMA WorldType ==
  ASSUME TypeOK, Damage \/ Mine \/ WorkerServes \/ WorkerErrs \/ WorkerFails \/ WorkerExits
  PROVE  TypeOK'
<1> USE DEF TypeOK
<1>1. CASE Damage
  <2>1. index' \in Indexes
    BY <1>1 DEF Damage, Indexes
  <2> QED BY <1>1, <2>1 DEF Damage, client, process, world, ClientType, VaultType, ProcessType
<1>2. CASE Mine
  <2>1. tip' \in Heights
    BY <1>2, HeightsAreNat DEF Mine, Heights
  <2> QED BY <1>2, <2>1 DEF Mine, durable, client, process, ClientType, VaultType, ProcessType
<1>3. CASE WorkerServes
  <2>1. ClientType' /\ Head(mailbox) \in Messages
    BY <1>3, TakeType DEF WorkerServes, Serve
  <2>2. index' \in Indexes
    BY <1>3, <2>1, HandledType DEF WorkerServes, Serve
  <2> QED BY <1>3, <2>1, <2>2 DEF WorkerServes, process, world, VaultType, ProcessType
<1>4. CASE WorkerErrs
  <2>1. ClientType'
    BY <1>4, TakeType DEF WorkerErrs, ServeFails
  <2> QED BY <1>4, <2>1 DEF WorkerErrs, ServeFails, process, world, VaultType, ProcessType
<1>5. CASE WorkerFails
  <2>1. ClientType'
    BY <1>5, GoneType DEF WorkerFails
  <2> QED BY <1>5, <2>1 DEF WorkerFails, durable, process, world, VaultType, ProcessType
<1>6. CASE WorkerExits
  <2>1. ClientType'
    BY <1>6, GoneType DEF WorkerExits
  <2> QED BY <1>6, <2>1 DEF WorkerExits, durable, process, world, VaultType, ProcessType
<1> QED BY <1>1, <1>2, <1>3, <1>4, <1>5, <1>6

LEMMA TypeInv == ASSUME TypeOK, [Next]_vars PROVE TypeOK'
<1>1. CASE UNCHANGED vars
  BY <1>1 DEF vars, durable, client, process, world, TypeOK, ClientType, VaultType, ProcessType
<1>2. CASE Next
  BY <1>2, OpeningType, CallingType, SyncingType, ClosingType, WorldType DEF Next, Opening, Closing, Preparing
<1> QED BY <1>1, <1>2
-----------------------------------------------------------------------------
\* The life of a process.

LEMMA InitLifecycle == Init => Lifecycle
BY DEF Init, Lifecycle, NoCall

\* Only a worker that runs takes a request.
LEMMA PostLife ==
  ASSUME NEW m, Post(m), worker # "running"
  PROVE  mailbox' = mailbox
BY DEF Post

LEMMA NextLife ==
  ASSUME NEW c, WatchNext(c), worker # "running"
  PROVE  mailbox' = mailbox
BY DEF WatchNext, Post

LEMMA ReceiveLife ==
  ASSUME TypeOK, Lifecycle, NEW c, NEW ok, Receive(c, ok)
  PROVE  worker \in {"running", "terminating"}
BY DEF Receive, Lifecycle, TypeOK, ClientType

\* A call that has begun exists.
LEMMA CallExists ==
  ASSUME NEW c \in Calls, call[c].phase \in {"accepted", "awaiting"}
  PROVE  call[c] # NoCall
BY DEF NoCall

\* A worker that starts has been asked for init, or failed over the recovered keys.
LEMMA StartWorkerIs ==
  ASSUME TypeOK, Lifecycle, StartWorker
  PROVE  /\ \E W \in SUBSET Keys : index' = [index EXCEPT !.watched = @ \cup W]
         /\ \/ Start("open")
            \/ worker' = "failed" /\ mailbox' = <<>> /\ replies' = <<>> /\ pending' = pending
         /\ worker = "none" /\ sync = NoSync /\ mailbox = <<>> /\ replies = <<>>
<1>1. todo["open"] \in SUBSET Keys
  BY CallerNames DEF TypeOK, ProcessType
<1>2. PICK ks \in SUBSET todo["open"] :
        /\ index' = [index EXCEPT !.watched = @ \cup ks]
        /\ Start("open") \/ (worker' = "failed" /\ UNCHANGED <<mailbox, replies, pending>>)
  BY DEF StartWorker
<1>3. ks \in SUBSET Keys
  BY <1>1
<1>4. worker = "none" /\ sync = NoSync /\ mailbox = <<>> /\ replies = <<>>
  BY DEF StartWorker, Lifecycle
<1> QED BY <1>2, <1>3, <1>4

LEMMA OpeningLife ==
  ASSUME TypeOK, Lifecycle,
         Open \/ Preparing \/ BeginRescan \/ Quarantine \/ StartWorker \/ OpenProceeds \/ OpenFails
  PROVE  Lifecycle'
<1>1. CASE Open
  BY <1>1 DEF Open, client, Lifecycle
<1>2. CASE BeginRescan
  BY <1>2 DEF BeginRescan, client, Lifecycle
<1>3. CASE Quarantine
  BY <1>3 DEF Quarantine, client, Lifecycle
<1>4. CASE StartWorker
  BY <1>4 DEF StartWorker, Start, Lifecycle
<1>5. CASE OpenProceeds
  <2>1. worker = "running"
    BY <1>5, ReceiveLife DEF OpenProceeds, Lifecycle
  <2> QED BY <1>5, <2>1 DEF OpenProceeds, Lifecycle
<1>6. CASE OpenFails
  <2>1. worker' \in {"terminating", "exited"} /\ life' = "stopping"
    BY <1>6 DEF OpenFails
  <2>2. worker' = "exited" => mailbox' = <<>> /\ replies' = <<>>
    BY <1>6 DEF OpenFails, Rejected, Receive, Lifecycle
  <2>3. call' = call /\ sync' = sync /\ lock' = lock /\ vault' = vault /\ life = "starting"
    BY <1>6 DEF OpenFails
  <2> QED BY <2>1, <2>2, <2>3 DEF Lifecycle
<1>7. CASE Preparing
  <2>1. UNCHANGED <<client, call, drain, sync>>
    BY <1>7 DEF Preparing, Connect, VaultOpens, VaultFails, IndexFails, Release
  <2>2. vault \in {"closed", "connected", "open", "leaked"}
    BY DEF TypeOK, ProcessType
  <2> QED BY <1>7, <2>1, <2>2 DEF Preparing, Connect, VaultOpens, VaultFails, IndexFails, Release, client, Lifecycle
<1> QED BY <1>1, <1>2, <1>3, <1>4, <1>5, <1>6, <1>7

LEMMA CallingLife ==
  ASSUME TypeOK, Lifecycle, NEW c \in Calls,
         NewAddress(c) \/ ImportKey(c) \/ Restore(c) \/ Calling(c)
  PROVE  Lifecycle'
<1>1. ASSUME NEW op, NEW keys, Accept(c, op, keys) PROVE Lifecycle'
  BY <1>1 DEF Accept, client, Lifecycle
<1>2. NewAddress(c) \/ ImportKey(c) \/ Restore(c) => Lifecycle'
  BY <1>1 DEF NewAddress, ImportKey, Restore
<1>3. call \in [Calls -> [phase : {"idle", "accepted", "awaiting"},
                          op : {"none", "create", "import", "restore"}, keys : SUBSET Keys]]
  BY DEF TypeOK, ProcessType
<1>4. CASE Runs(c)
  <2>1. PICK m : Post(m)
    BY <1>4 DEF Runs
  <2>2. UNCHANGED <<worker, replies, life, lock, vault, drain, sync>>
    BY <1>4 DEF Runs
  <2>3. worker # "running" => mailbox' = mailbox
    BY <2>1, PostLife
  <2>4. \A d \in Calls : call'[d] # NoCall => call[d] # NoCall
    <3>1. call[c] # NoCall
      BY <1>4, CallExists DEF Runs
    <3> QED BY <1>3, <1>4, <3>1 DEF Runs
  <2> QED BY <2>2, <2>3, <2>4 DEF Lifecycle
<1>5. CASE Throws(c)
  BY <1>3, <1>5 DEF Throws, client, Lifecycle
<1>6. CASE Proceeds(c)
  <2>1. worker = "running" /\ worker' = worker
    BY <1>6, ReceiveLife, CallExists DEF Proceeds, Lifecycle
  <2>2. UNCHANGED <<life, lock, vault, sync>>
    BY <1>6 DEF Proceeds
  <2>3. CASE todo[c] # {}
    BY <1>6, <2>1, <2>2, <2>3 DEF Proceeds, Lifecycle
  <2>4. CASE todo[c] = {}
    BY <1>3, <1>6, <2>1, <2>2, <2>4 DEF Proceeds, Lifecycle
  <2> QED BY <2>3, <2>4
<1>7. CASE Rejects(c)
  <2>1. UNCHANGED <<worker, life, lock, vault, sync>> /\ mailbox' = mailbox
    BY <1>7 DEF Rejects, Rejected
  <2>2. replies = <<>> => replies' = <<>>
    BY <1>7 DEF Rejects, Rejected, Receive
  <2>3. \A d \in Calls : call'[d] # NoCall => call[d] # NoCall /\ (d \in drain => d \in drain')
    BY <1>3, <1>7 DEF Rejects
  <2> QED BY <2>1, <2>2, <2>3 DEF Lifecycle
<1> QED BY <1>2, <1>4, <1>5, <1>6, <1>7 DEF Calling

LEMMA SyncingLife ==
  ASSUME TypeOK, Lifecycle,
         SyncStarts \/ SyncPosts \/ SyncStops \/ SyncEnds \/ (\E a \in Attempts : Syncing(a))
  PROVE  Lifecycle'
<1>1. CASE SyncStarts
  BY <1>1 DEF SyncStarts, client, Lifecycle
<1>2. CASE SyncPosts
  <2>1. worker # "running" => mailbox' = mailbox
    BY <1>2, PostLife DEF SyncPosts
  <2> QED BY <1>2, <2>1 DEF SyncPosts, Lifecycle
<1>3. CASE SyncStops
  BY <1>3 DEF SyncStops, client, Lifecycle
<1>4. CASE SyncEnds
  BY <1>4 DEF SyncEnds, client, Lifecycle
<1>5. ASSUME NEW a \in Attempts, SyncReceives(a) PROVE Lifecycle'
  <2>1. worker \in {"running", "terminating"}
    BY <1>5, ReceiveLife DEF SyncReceives
  <2>2. sync' # NoSync => sync # NoSync
    BY <1>5 DEF SyncReceives, NoSync
  <2> QED BY <1>5, <2>1, <2>2 DEF SyncReceives, Lifecycle
<1>6. ASSUME NEW a \in Attempts, SyncFails(a) PROVE Lifecycle'
  <2>1. replies = <<>> => replies' = <<>>
    BY <1>6 DEF SyncFails, Receive
  <2>2. mailbox' = mailbox
    BY <1>6 DEF SyncFails
  <2> QED BY <1>6, <2>1, <2>2 DEF SyncFails, Lifecycle
<1> QED BY <1>1, <1>2, <1>3, <1>4, <1>5, <1>6 DEF Syncing

LEMMA ClosingLife ==
  ASSUME TypeOK, Lifecycle, Close \/ Drained \/ Stop \/ CloseVault \/ Crash
  PROVE  Lifecycle'
<1>1. CASE Close
  BY <1>1 DEF Close, client, Lifecycle
<1>2. CASE Drained
  BY <1>2 DEF Drained, client, Lifecycle
<1>3. CASE Stop
  <2>1. worker' \in {"terminating", "exited"} /\ life' = "stopping" /\ life = "closing"
    BY <1>3 DEF Stop, Terminate
  <2>2. worker' = "exited" => worker = "exited"
    BY <1>3 DEF Stop, Terminate
  <2> QED BY <1>3, <2>1, <2>2 DEF Stop, Terminate, Lifecycle
<1>4. CASE CloseVault
  BY <1>4 DEF CloseVault, Gone, Lifecycle
<1>5. CASE Crash
  <2>1. \A c \in Calls : call'[c] = NoCall
    BY <1>5 DEF Crash
  <2> QED BY <1>5, <2>1 DEF Crash, Gone, Lifecycle
<1> QED BY <1>1, <1>2, <1>3, <1>4, <1>5

LEMMA WorldLife ==
  ASSUME TypeOK, Lifecycle, Damage \/ Mine \/ WorkerServes \/ WorkerErrs \/ WorkerFails \/ WorkerExits
  PROVE  Lifecycle'
<1>1. CASE Damage
  BY <1>1 DEF Damage, client, process, Lifecycle
<1>2. CASE Mine
  BY <1>2 DEF Mine, client, process, Lifecycle
<1>3. CASE WorkerServes \/ WorkerErrs
  <2>1. UNCHANGED process /\ worker' = worker /\ worker \in {"running", "terminating"}
    BY <1>3 DEF WorkerServes, WorkerErrs, Serve, ServeFails, Take
  <2> QED BY <2>1 DEF process, Lifecycle
<1>4. CASE WorkerFails
  BY <1>4 DEF WorkerFails, Fail, process, Lifecycle
<1>5. CASE WorkerExits
  <2>1. worker \in {"running", "failed", "terminating"} /\ worker' = "exited"
        /\ mailbox' = <<>> /\ replies' = <<>> /\ UNCHANGED process
    BY <1>5 DEF WorkerExits, Exit, Exits
  <2> QED BY <2>1 DEF process, Lifecycle
<1> QED BY <1>1, <1>2, <1>3, <1>4, <1>5

LEMMA LifeInv == ASSUME TypeOK, Lifecycle, [Next]_vars PROVE Lifecycle'
<1>1. CASE UNCHANGED vars
  BY <1>1 DEF vars, client, process, Lifecycle
<1>2. CASE Next
  BY <1>2, OpeningLife, CallingLife, SyncingLife, ClosingLife, WorldLife DEF Next, Opening, Closing, Preparing
<1> QED BY <1>1, <1>2

\* Type correctness: whatever the calls, the sync, the worker and crashes do, the state
\* keeps its shape; in particular nothing is posted that the worker does not know.
THEOREM TypeCorrect == Spec => []TypeOK
<1>1. Init => TypeOK
  BY InitType
<1>2. TypeOK /\ [Next]_vars => TypeOK'
  BY TypeInv
<1> QED BY <1>1, <1>2, PTL DEF Spec

LEMMA LifeCorrect == Spec => [](TypeOK /\ Lifecycle)
<1>1. Init => TypeOK /\ Lifecycle
  BY InitType, InitLifecycle
<1>2. TypeOK /\ Lifecycle /\ [Next]_vars => (TypeOK /\ Lifecycle)'
  BY TypeInv, LifeInv
<1> QED BY <1>1, <1>2, PTL DEF Spec

\* The lock of the data directory is held as long as the vault is open or a worker may
\* still write: close() and every failed opening give it back after the worker has exited
\* and the vault was closed, but for a connection that the vault's constructor abandons.
THEOREM LockedWhileOpen == Spec => []OpenUnderLock
<1>1. TypeOK /\ Lifecycle => OpenUnderLock
  BY DEF TypeOK, ProcessType, Lifecycle, OpenUnderLock
<1> QED BY <1>1, LifeCorrect, PTL

\* close() waits for the calls under way: none of them meets a closed vault or a worker
\* that is being terminated.
THEOREM DrainedBeforeClosing == Spec => []CallsAreDrained
<1>1. TypeOK /\ Lifecycle => CallsAreDrained
  BY DEF Lifecycle, CallsAreDrained
<1> QED BY <1>1, LifeCorrect, PTL
-----------------------------------------------------------------------------
\* The chain.

LEMMA PaidMono ==
  ASSUME NEW S, NEW T, S \subseteq T
  PROVE  PaidBy(S) \subseteq PaidBy(T) /\ SpentBy(S) \subseteq SpentBy(T)
BY DEF PaidBy, SpentBy

LEMMA PaidUnion ==
  ASSUME NEW S, NEW T
  PROVE  /\ PaidBy(S \cup T) = PaidBy(S) \cup PaidBy(T)
         /\ SpentBy(S \cup T) = SpentBy(S) \cup SpentBy(T)
BY DEF PaidBy, SpentBy

LEMMA WithinIs ==
  ASSUME NEW a \in Int, NEW b \in Int, NEW tx
  PROVE  tx \in Within(a, b) <=> \E j \in a .. b : tx \in Chain[j]
BY DEF Within

LEMMA UptoMono ==
  ASSUME NEW a \in Nat, NEW b \in Nat, a <= b
  PROVE  /\ Upto(a) \subseteq Upto(b)
         /\ PaidBy(Upto(a)) \subseteq PaidBy(Upto(b)) /\ SpentBy(Upto(a)) \subseteq SpentBy(Upto(b))
<1>1. 1 .. a \subseteq 1 .. b
  OBVIOUS
<1>2. Upto(a) \subseteq Upto(b)
  BY <1>1, WithinIs DEF Upto
<1> QED BY <1>2, PaidMono

LEMMA UptoSplit ==
  ASSUME NEW a \in Nat, NEW b \in Nat, a <= b
  PROVE  /\ Upto(b) = Upto(a) \cup Within(a + 1, b)
         /\ PaidBy(Upto(b)) = PaidBy(Upto(a)) \cup PaidBy(Within(a + 1, b))
         /\ SpentBy(Upto(b)) = SpentBy(Upto(a)) \cup SpentBy(Within(a + 1, b))
<1>1. \A j : j \in 1 .. b <=> j \in 1 .. a \/ j \in a + 1 .. b
  OBVIOUS
<1>2. Upto(b) = Upto(a) \cup Within(a + 1, b)
  BY <1>1, WithinIs DEF Upto
<1> QED BY <1>2, PaidUnion

LEMMA UptoNone == Upto(0) = {} /\ PaidBy({}) = {} /\ SpentBy({}) = {}
<1>1. 1 .. 0 = {}
  OBVIOUS
<1> QED BY <1>1 DEF Upto, Within, PaidBy, SpentBy

LEMMA UptoNext ==
  ASSUME NEW h \in Nat
  PROVE  PaidBy(Upto(h + 1)) = PaidBy(Upto(h)) \cup PaidBy(Chain[h + 1])
<1>1. h + 1 \in Nat /\ h <= h + 1 /\ h + 1 .. h + 1 = {h + 1}
  OBVIOUS
<1>2. Within(h + 1, h + 1) = Chain[h + 1]
  BY <1>1 DEF Within
<1> QED BY <1>1, <1>2, UptoSplit

\* A transaction spends what is paid up to its block and not spent before it.
LEMMA Spends ==
  ASSUME NEW j \in 1 .. Len(Chain), NEW tx \in Chain[j]
  PROVE  /\ tx \in Transaction
         /\ tx.in \subseteq PaidBy(Upto(j)) /\ tx.in \cap SpentBy(Upto(j - 1)) = {}
         /\ tx.out \cap PaidBy(Upto(j - 1)) = {}
<1>1. tx.in \subseteq SpentBy(Chain[j]) /\ tx.out \subseteq PaidBy(Chain[j])
  BY DEF SpentBy, PaidBy
<1>2. Chain[j] \in SUBSET Transaction
  BY ChainAssumption
<1> QED BY <1>1, <1>2, ChainAssumption

LEMMA SpentIsPaid ==
  ASSUME NEW h \in Heights
  PROVE  SpentBy(Upto(h)) \subseteq PaidBy(Upto(h))
<1> SUFFICES ASSUME NEW c \in SpentBy(Upto(h)) PROVE c \in PaidBy(Upto(h))
  OBVIOUS
<1>1. PICK tx \in Upto(h) : c \in tx.in
  BY DEF SpentBy
<1>2. PICK j \in 1 .. h : tx \in Chain[j]
  BY HeightsAreNat DEF Upto, Within
<1>3. j \in 1 .. Len(Chain) /\ j \in Nat /\ j <= h /\ h \in Nat
  BY HeightsAreNat DEF Heights
<1>4. c \in PaidBy(Upto(j))
  BY <1>1, <1>2, <1>3, Spends
<1> QED BY <1>3, <1>4, UptoMono

\* What later blocks pay was not spent before, and what they spend is new or still unspent.
LEMMA LaterBlocks ==
  ASSUME NEW a \in Heights, NEW b \in Heights, a <= b, NEW tx \in Within(a + 1, b)
  PROVE  /\ tx \in Transaction
         /\ tx.out \cap SpentBy(Upto(a)) = {}
         /\ tx.out \subseteq PaidBy(Within(a + 1, b))
         /\ tx.in \subseteq (PaidBy(Upto(a)) \ SpentBy(Upto(a))) \cup PaidBy(Within(a + 1, b))
<1>1. a \in Nat /\ b \in Nat
  BY HeightsAreNat
<1>2. PICK j \in a + 1 .. b : tx \in Chain[j]
  BY DEF Within
<1>3. j \in 1 .. Len(Chain) /\ j \in Nat /\ j - 1 \in Nat /\ a <= j - 1 /\ j <= b
  BY <1>1, <1>2, HeightsAreNat DEF Heights
<1>4. PaidBy(Upto(a)) \subseteq PaidBy(Upto(j - 1)) /\ SpentBy(Upto(a)) \subseteq SpentBy(Upto(j - 1))
  BY <1>1, <1>3, UptoMono
<1>5. PaidBy(Upto(j)) \subseteq PaidBy(Upto(a)) \cup PaidBy(Within(a + 1, b))
  BY <1>1, <1>3, UptoMono, UptoSplit
<1>6. tx.out \subseteq PaidBy(Within(a + 1, b))
  BY DEF PaidBy
<1> QED BY <1>2, <1>3, <1>4, <1>5, <1>6, Spends, SpentIsPaid
-----------------------------------------------------------------------------
\* The index, when the worker ingests.

\* The coins the transaction looks its inputs up in, and the rows it adds.
Held(to) == index.coins \cup {c \in PaidBy(Within(index.height + 1, to)) : Owner[c] \in index.watched}
Added(k, tx, held) == [Row(k, tx, held) EXCEPT !.received = @ \cap held]

LEMMA HeightOrder ==
  ASSUME index \in Indexes, NEW to \in Heights, to > index.height
  PROVE  index.height \in Heights /\ index.height \in Nat /\ to \in Nat /\ index.height <= to
<1>1. index.height \in Heights
  BY IndexFields
<1>2. index.height \in Nat /\ to \in Nat
  BY <1>1, HeightsAreNat
<1> QED BY <1>1, <1>2

LEMMA IngestedIs ==
  ASSUME index \in Indexes, NEW to \in Heights, to > index.height
  PROVE  /\ Ingested(to).height = to
         /\ Ingested(to).coins = Held(to) \ SpentBy(Within(index.height + 1, to))
         /\ Ingested(to).watched = index.watched /\ Ingested(to).sound = index.sound
         /\ \A r : r \in Ingested(to).rows <=>
               \/ r \in index.rows
               \/ /\ \E k \in Keys, tx \in Within(index.height + 1, to) : r = Added(k, tx, Held(to))
                  /\ Relevant(r)
<1>1. ~(to <= index.height)
  BY HeightOrder
<1> DEFINE rows == {Added(k, tx, Held(to)) : k \in Keys, tx \in Within(index.height + 1, to)}
<1>2. Ingested(to) = [index EXCEPT !.height = to,
                        !.coins = Held(to) \ SpentBy(Within(index.height + 1, to)),
                        !.rows = @ \cup {r \in rows : Relevant(r)}]
  BY <1>1 DEF Ingested, Held, Added
<1>3. \A r : r \in rows <=> \E k \in Keys, tx \in Within(index.height + 1, to) : r = Added(k, tx, Held(to))
  OBVIOUS
<1> HIDE DEF rows
<1>4. /\ Ingested(to).height = to
      /\ Ingested(to).coins = Held(to) \ SpentBy(Within(index.height + 1, to))
      /\ Ingested(to).watched = index.watched /\ Ingested(to).sound = index.sound
      /\ Ingested(to).rows = index.rows \cup {r \in rows : Relevant(r)}
  BY <1>2 DEF Indexes
<1> QED BY <1>3, <1>4

LEMMA IngestedKnown ==
  ASSUME index \in Indexes, NEW to \in Heights, ~(to > index.height)
  PROVE  Ingested(to) = index
<1>1. to <= index.height
  BY IndexFields, HeightsAreNat
<1> QED BY <1>1 DEF Ingested

LEMMA AddedIs ==
  ASSUME NEW k, NEW tx, NEW held
  PROVE  /\ Added(k, tx, held).key = k /\ Added(k, tx, held).tx = tx
         /\ Added(k, tx, held).received = tx.out \cap Own(k) \cap held
         /\ Added(k, tx, held).spent = tx.in \cap held \cap Own(k)
BY DEF Added, Row

LEMMA HeldIs ==
  ASSUME index \in Indexes, NEW to \in Heights, to > index.height
  PROVE  /\ \A c : c \in Held(to) <=>
               c \in index.coins \/ (c \in PaidBy(Within(index.height + 1, to)) /\ Owner[c] \in index.watched)
BY DEF Held

\* Nothing gets into the index that its blocks do not pay.
LEMMA IngestSound ==
  ASSUME index \in Indexes, NEW to \in Heights, Sound, index' = Ingested(to)
  PROVE  Sound'
<1> USE DEF Sound
<1>1. CASE ~(to > index.height)
  BY <1>1, IngestedKnown DEF Relevant
<1>2. CASE to > index.height
  <2>0. index.height \in Heights /\ index.height \in Nat /\ to \in Nat /\ index.height <= to
    BY <1>2, HeightOrder
  <2>1. PaidBy(Upto(to)) = PaidBy(Upto(index.height)) \cup PaidBy(Within(index.height + 1, to))
    BY <2>0, UptoSplit
  <2>2. Held(to) \subseteq PaidBy(Upto(to))
    BY <1>2, <2>1, HeldIs
  <2>3. index'.coins \subseteq PaidBy(Upto(index'.height)) /\ index'.height = to
    BY <1>2, <2>2, IngestedIs
  <2>4. ASSUME NEW r \in index'.rows
        PROVE  Relevant(r) /\ r.received \cup r.spent \subseteq PaidBy(Upto(to)) \cap Own(r.key)
    <3>1. CASE r \in index.rows
      BY <2>1, <3>1
    <3>2. CASE r \notin index.rows
      <4>1. PICK k \in Keys, tx \in Within(index.height + 1, to) : r = Added(k, tx, Held(to))
        BY <1>2, <2>4, <3>2, IngestedIs
      <4>2. Relevant(r)
        BY <1>2, <2>4, <3>2, IngestedIs
      <4> QED BY <2>2, <4>1, <4>2, AddedIs
    <3> QED BY <3>1, <3>2
  <2> QED BY <2>3, <2>4 DEF Relevant
<1> QED BY <1>1, <1>2

\* What a key that is watched, or that the blocks do not pay, needs of them is held.
LEMMA HeldSuffices ==
  ASSUME index \in Indexes, NEW to \in Heights, to > index.height, NEW k \in Keys, Complete(k),
         k \in index.watched \/ PaidBy(Upto(to)) \cap Own(k) = {}
  PROVE  /\ \A tx \in Within(index.height + 1, to) :
              tx.out \cap Own(k) \subseteq Held(to) /\ tx.in \cap Own(k) \subseteq Held(to)
         /\ PaidBy(Within(index.height + 1, to)) \cap Own(k) \subseteq Held(to)
<1>0. index.height \in Heights /\ index.height \in Nat /\ to \in Nat /\ index.height <= to
  BY HeightOrder
<1>1. PaidBy(Upto(to)) = PaidBy(Upto(index.height)) \cup PaidBy(Within(index.height + 1, to))
  BY <1>0, UptoSplit
<1>2. \A c \in Own(k) : Owner[c] = k
  BY DEF Own
<1>3. PaidBy(Within(index.height + 1, to)) \cap Own(k) \subseteq Held(to)
  BY <1>1, <1>2, HeldIs
<1>4. (PaidBy(Upto(index.height)) \ SpentBy(Upto(index.height))) \cap Own(k) \subseteq Held(to)
  BY HeldIs DEF Complete
<1>5. ASSUME NEW tx \in Within(index.height + 1, to)
      PROVE  tx.out \cap Own(k) \subseteq Held(to) /\ tx.in \cap Own(k) \subseteq Held(to)
  BY <1>0, <1>3, <1>4, LaterBlocks
<1> QED BY <1>3, <1>5

LEMMA HistoryIs ==
  ASSUME NEW k
  PROVE  \A r : r \in History(k) <=> Relevant(r) /\ \E tx \in Upto(index.height) : r = Row(k, tx, Coins)
BY DEF History

\* Such a key stays complete.
LEMMA IngestComplete ==
  ASSUME index \in Indexes, NEW to \in Heights, index' = Ingested(to), NEW k \in Keys, Complete(k),
         k \in index.watched \/ PaidBy(Upto(to)) \cap Own(k) = {}
  PROVE  Complete(k)'
<1>1. CASE ~(to > index.height)
  BY <1>1, IngestedKnown DEF Complete, History, Relevant
<1>2. CASE to > index.height
  <2> DEFINE txs == Within(index.height + 1, to)
  <2>0. index.height \in Heights /\ index.height \in Nat /\ to \in Nat /\ index.height <= to
    BY <1>2, HeightOrder
  <2>1. /\ Upto(to) = Upto(index.height) \cup txs
        /\ PaidBy(Upto(to)) = PaidBy(Upto(index.height)) \cup PaidBy(txs)
        /\ SpentBy(Upto(to)) = SpentBy(Upto(index.height)) \cup SpentBy(txs)
    BY <2>0, UptoSplit
  <2>2. PaidBy(txs) \cap SpentBy(Upto(index.height)) = {}
    BY <2>0, LaterBlocks DEF PaidBy
  <2>3. index'.height = to /\ index'.coins = Held(to) \ SpentBy(txs)
    BY <1>2, IngestedIs
  <2>4. PaidBy(txs) \cap Own(k) \subseteq Held(to)
    BY <1>2, HeldSuffices
  <2>5. index.coins \cap Own(k) = (PaidBy(Upto(index.height)) \ SpentBy(Upto(index.height))) \cap Own(k)
    BY DEF Complete
  <2>6. index'.coins \cap Own(k) = (PaidBy(Upto(to)) \ SpentBy(Upto(to))) \cap Own(k)
    <3>1. \A c : c \in Held(to) <=> c \in index.coins \/ (c \in PaidBy(txs) /\ Owner[c] \in index.watched)
      BY <1>2, HeldIs
    <3> HIDE DEF txs
    <3> QED BY <2>1, <2>2, <2>3, <2>4, <2>5, <3>1
  <2>7. ASSUME NEW tx \in txs PROVE Added(k, tx, Held(to)) = Row(k, tx, Coins)
    <3>1. tx.out \cap Own(k) \subseteq Held(to) /\ tx.in \cap Own(k) \subseteq Held(to)
      BY <1>2, HeldSuffices
    <3>2. tx.in \subseteq Coins
      BY <2>0, LaterBlocks DEF Transaction
    <3>3. tx.out \cap Own(k) \cap Held(to) = tx.out \cap Own(k)
          /\ tx.in \cap Held(to) \cap Own(k) = tx.in \cap Coins \cap Own(k)
      BY <3>1, <3>2
    <3> QED BY <3>3 DEF Added, Row
  <2>8. ASSUME NEW r PROVE r \in {x \in index'.rows : x.key = k} <=> r \in History(k)'
    <3>1. r \in index'.rows <=>
            \/ r \in index.rows
            \/ (\E l \in Keys, tx \in txs : r = Added(l, tx, Held(to))) /\ Relevant(r)
      BY <1>2, IngestedIs
    <3>2. (\E l \in Keys, tx \in txs : r = Added(l, tx, Held(to))) /\ r.key = k
            <=> \E tx \in txs : r = Row(k, tx, Coins)
      <4>1. ASSUME NEW l \in Keys, NEW tx \in txs, r = Added(l, tx, Held(to)), r.key = k
            PROVE  r = Row(k, tx, Coins)
        BY <2>7, <4>1, AddedIs
      <4>2. ASSUME NEW tx \in txs, r = Row(k, tx, Coins)
            PROVE  r = Added(k, tx, Held(to)) /\ r.key = k
        BY <2>7, <4>2, AddedIs
      <4> QED BY <4>1, <4>2
    <3>3. r \in index.rows /\ r.key = k <=> r \in History(k)
      BY DEF Complete
    <3>4. r \in History(k) <=> Relevant(r) /\ \E tx \in Upto(index.height) : r = Row(k, tx, Coins)
      BY HistoryIs
    <3>5. r \in History(k)' <=> Relevant(r) /\ \E tx \in Upto(to) : r = Row(k, tx, Coins)
      BY <2>3 DEF History, Relevant, Row, Own
    <3>6. (\E tx \in Upto(to) : r = Row(k, tx, Coins)) <=>
            (\E tx \in Upto(index.height) : r = Row(k, tx, Coins)) \/ (\E tx \in txs : r = Row(k, tx, Coins))
      BY <2>1
    <3> HIDE DEF txs
    <3> QED BY <3>1, <3>2, <3>3, <3>4, <3>5, <3>6
  <2>9. {x \in index'.rows : x.key = k} = History(k)'
    BY <2>8
  <2> QED BY <2>3, <2>6, <2>9 DEF Complete
<1> QED BY <1>1, <1>2

\* A key the blocks do not pay is complete in a sound index, and every key in an empty one.
LEMMA UnpaidComplete ==
  ASSUME TypeOK, Sound, NEW k \in Keys, PaidBy(Upto(index.height)) \cap Own(k) = {}
  PROVE  Complete(k)
<1>0. index.height \in Heights
  BY IndexFields DEF TypeOK
<1>1. index.coins \cap Own(k) = {}
  BY DEF Sound
<1>2. \A r \in index.rows : r.key # k
  BY DEF Sound, Relevant
<1>3. ASSUME NEW tx \in Upto(index.height) PROVE ~Relevant(Row(k, tx, Coins))
  <2>1. tx.out \subseteq PaidBy(Upto(index.height)) /\ tx.in \subseteq SpentBy(Upto(index.height))
    BY DEF PaidBy, SpentBy
  <2>2. tx.out \cap Own(k) = {} /\ tx.in \cap Coins \cap Own(k) = {}
    BY <1>0, <2>1, SpentIsPaid
  <2> QED BY <2>2 DEF Relevant, Row
<1>4. History(k) = {}
  BY <1>3, HistoryIs
<1> QED BY <1>1, <1>2, <1>4 DEF Complete

LEMMA EmptyComplete ==
  ASSUME NEW W \in SUBSET Keys, index' = Empty(W)
  PROVE  Sound' /\ \A k \in Keys : Complete(k)'
<1>1. index'.height = 0 /\ index'.coins = {} /\ index'.rows = {}
  BY DEF Empty
<1>2. Sound'
  BY <1>1 DEF Sound
<1>3. ASSUME NEW k \in Keys PROVE Complete(k)'
  BY <1>1, UptoNone DEF Complete, History
<1> QED BY <1>2, <1>3

\* Nothing but the blocks, the coins and the rows matters to both.
LEMMA SameContents ==
  ASSUME index'.height = index.height, index'.coins = index.coins, index'.rows = index.rows
  PROVE  Sound' = Sound /\ \A k : Complete(k)' = Complete(k)
BY DEF Sound, Complete, History, Relevant
-----------------------------------------------------------------------------
\* The queues between the main thread and the worker.

LEMMA QueueReceive ==
  ASSUME NEW T, NEW U, NEW box \in Seq(T), NEW answers \in Seq(U), NEW names,
         answers # <<>>, Queues(box, answers, names)
  PROVE  /\ Free(Head(answers).from, box) /\ Free(Head(answers).from, Tail(answers))
         /\ Head(answers).from \in names /\ Queues(box, Tail(answers), names)
<1>1. /\ 1 \in 1 .. Len(answers) /\ Head(answers) = answers[1] /\ Len(Tail(answers)) \in Nat
      /\ \A i \in 1 .. Len(Tail(answers)) :
            i + 1 \in 1 .. Len(answers) /\ i + 1 # 1 /\ Tail(answers)[i] = answers[i + 1]
  BY TailIs
<1>2. Distinct(Tail(answers))
  <2> SUFFICES ASSUME NEW i \in 1 .. Len(Tail(answers)), NEW j \in 1 .. Len(Tail(answers)),
                      Tail(answers)[i].from = Tail(answers)[j].from
               PROVE  i = j
    BY DEF Distinct
  <2>1. i + 1 = j + 1
    BY <1>1 DEF Queues, Distinct
  <2> QED BY <2>1
<1>3. AllFrom(Tail(answers), names) /\ Head(answers).from \in names
  BY <1>1 DEF Queues, AllFrom
<1>4. Free(Head(answers).from, box)
  BY <1>1 DEF Queues, Free
<1>5. Free(Head(answers).from, Tail(answers))
  BY <1>1 DEF Queues, Free, Distinct
<1>6. \A i \in 1 .. Len(box) : Free(box[i].from, Tail(answers))
  BY <1>1 DEF Queues, Free
<1> QED BY <1>2, <1>3, <1>4, <1>5, <1>6 DEF Queues

LEMMA QueueTake ==
  ASSUME NEW T, NEW U, NEW box \in Seq(T), NEW answers \in Seq(U), NEW names,
         box # <<>>, Queues(box, answers, names), NEW e \in U, e.from = Head(box).from
  PROVE  Queues(Tail(box), Append(answers, e), names)
<1>1. /\ 1 \in 1 .. Len(box) /\ Head(box) = box[1] /\ Len(Tail(box)) \in Nat
      /\ \A i \in 1 .. Len(Tail(box)) : i + 1 \in 1 .. Len(box) /\ i + 1 # 1 /\ Tail(box)[i] = box[i + 1]
  BY TailIs
<1>2. /\ Len(Append(answers, e)) = Len(answers) + 1 /\ Len(answers) \in Nat
      /\ Append(answers, e)[Len(answers) + 1] = e
      /\ \A i \in 1 .. Len(answers) : Append(answers, e)[i] = answers[i]
      /\ \A i \in 1 .. Len(answers) + 1 : i = Len(answers) + 1 \/ i \in 1 .. Len(answers)
  BY AppendIs
<1>3. Distinct(Tail(box))
  <2> SUFFICES ASSUME NEW i \in 1 .. Len(Tail(box)), NEW j \in 1 .. Len(Tail(box)),
                      Tail(box)[i].from = Tail(box)[j].from
               PROVE  i = j
    BY DEF Distinct
  <2>1. i + 1 = j + 1
    BY <1>1 DEF Queues, Distinct
  <2> QED BY <2>1
<1>4. AllFrom(Tail(box), names) /\ e.from \in names
  BY <1>1 DEF Queues, AllFrom
<1>5. AllFrom(Append(answers, e), names)
  BY <1>2, <1>4 DEF Queues, AllFrom
<1>6. Free(e.from, answers) /\ Free(e.from, Tail(box))
  BY <1>1 DEF Queues, Free, Distinct
<1>7. Distinct(Append(answers, e))
  BY <1>2, <1>6 DEF Queues, Free, Distinct
<1>8. \A i \in 1 .. Len(Tail(box)) : Free(Tail(box)[i].from, Append(answers, e))
  <2> SUFFICES ASSUME NEW i \in 1 .. Len(Tail(box)), NEW j \in 1 .. Len(Append(answers, e))
               PROVE  Append(answers, e)[j].from # Tail(box)[i].from
    BY DEF Free
  <2>1. CASE j = Len(answers) + 1
    BY <1>2, <1>6, <2>1 DEF Free
  <2>2. CASE j \in 1 .. Len(answers)
    BY <1>1, <1>2, <2>2 DEF Queues, Free
  <2> QED BY <1>2, <2>1, <2>2
<1> QED BY <1>3, <1>4, <1>5, <1>7, <1>8 DEF Queues

LEMMA QueuePost ==
  ASSUME NEW T, NEW U, NEW box \in Seq(T), NEW answers \in Seq(U), NEW names,
         Queues(box, answers, names), NEW m \in T, Free(m.from, box), Free(m.from, answers)
  PROVE  /\ Queues(Append(box, m), answers, names \cup {m.from})
         /\ Queues(box, answers, names \cup {m.from}) /\ Queues(box, answers, names \ {m.from})
<1>1. /\ Len(Append(box, m)) = Len(box) + 1 /\ Len(box) \in Nat
      /\ Append(box, m)[Len(box) + 1] = m
      /\ \A i \in 1 .. Len(box) : Append(box, m)[i] = box[i]
      /\ \A i \in 1 .. Len(box) + 1 : i = Len(box) + 1 \/ i \in 1 .. Len(box)
  BY AppendIs
<1>2. Distinct(Append(box, m)) /\ AllFrom(Append(box, m), names \cup {m.from})
  BY <1>1 DEF Queues, Distinct, Free, AllFrom
<1>3. \A i \in 1 .. Len(Append(box, m)) : Free(Append(box, m)[i].from, answers)
  BY <1>1 DEF Queues
<1>4. AllFrom(box, names \cup {m.from}) /\ AllFrom(answers, names \cup {m.from})
  BY DEF Queues, AllFrom
<1>5. AllFrom(box, names \ {m.from}) /\ AllFrom(answers, names \ {m.from})
  BY DEF Queues, AllFrom, Free
<1> QED BY <1>2, <1>3, <1>4, <1>5 DEF Queues

LEMMA QueueSettle ==
  ASSUME NEW box, NEW answers, NEW names, Queues(box, answers, names),
         NEW c, Free(c, box), Free(c, answers)
  PROVE  Queues(box, answers, names \ {c})
BY DEF Queues, AllFrom, Free

LEMMA QueueEmpty == ASSUME NEW names PROVE Queues(<<>>, <<>>, names)
BY DEF Queues, Distinct, AllFrom, Free

LEMMA QueueFree ==
  ASSUME NEW box, NEW answers, NEW names, Queues(box, answers, names), NEW c, c \notin names
  PROVE  Free(c, box) /\ Free(c, answers)
BY DEF Queues, AllFrom, Free

\* What follows for a step: a reply that is taken, a request that is posted.
LEMMA ReceiveStep ==
  ASSUME TypeOK, Requests, NEW c, NEW ok, Receive(c, ok)
  PROVE  /\ Free(c, mailbox) /\ Free(c, replies') /\ c \in pending
         /\ Queues(mailbox, replies', pending)
         /\ replies' \in Seq([from : Callers, ok : BOOLEAN])
         /\ \A i \in 1 .. Len(replies') : i + 1 \in 1 .. Len(replies) /\ replies'[i] = replies[i + 1]
         /\ 1 \in 1 .. Len(replies) /\ replies[1] = [from |-> c, ok |-> ok]
<1>1. /\ replies # <<>> /\ Head(replies) = [from |-> c, ok |-> ok] /\ replies' = Tail(replies)
      /\ mailbox \in Seq(Messages) /\ replies \in Seq([from : Callers, ok : BOOLEAN])
  BY DEF Receive, TypeOK, ClientType
<1>2. Head(replies).from = c
  BY <1>1
<1>3. Free(c, mailbox) /\ Free(c, Tail(replies)) /\ c \in pending /\ Queues(mailbox, Tail(replies), pending)
  BY <1>1, <1>2, QueueReceive DEF Requests
<1> QED BY <1>1, <1>3, TailIs

LEMMA PostStep ==
  ASSUME TypeOK, NEW m \in Messages, Post(m), Queues(mailbox, replies', pending),
         replies' \in Seq([from : Callers, ok : BOOLEAN]),
         Free(m.from, mailbox), Free(m.from, replies')
  PROVE  /\ Requests'
         /\ \A i \in 1 .. Len(mailbox') : \/ i \in 1 .. Len(mailbox) /\ mailbox'[i] = mailbox[i]
                                          \/ mailbox'[i] = m
<1>1. mailbox \in Seq(Messages)
  BY DEF TypeOK, ClientType
<1>2. /\ Queues(Append(mailbox, m), replies', pending \cup {m.from})
      /\ Queues(mailbox, replies', pending \cup {m.from}) /\ Queues(mailbox, replies', pending \ {m.from})
  BY <1>1, QueuePost
<1>3. Queues(mailbox', replies', pending')
  BY <1>2 DEF Post
<1>4. Requests'
  BY <1>3 DEF Requests, Queues, Distinct, AllFrom, Free
<1>5. \A i \in 1 .. Len(Append(mailbox, m)) :
        \/ i \in 1 .. Len(mailbox) /\ Append(mailbox, m)[i] = mailbox[i]
        \/ Append(mailbox, m)[i] = m
  BY <1>1, AppendIs
<1> QED BY <1>4, <1>5 DEF Post

\* Promises that were kept stay kept when no more is promised.
StillPromised(D) ==
    \A d \in Callers \ D : Promised'[d] \subseteq Promised[d] /\ todo[d] \subseteq todo'[d]
MailKept(D) ==
    \A i \in 1 .. Len(mailbox') :
        \/ \E j \in 1 .. Len(mailbox) : mailbox'[i] = mailbox[j] /\ mailbox[j].from \notin D
        \/ Promised'[mailbox'[i].from] \subseteq
              index'.watched \cup todo'[mailbox'[i].from] \cup Watches(mailbox'[i])
RepliesKept(D) ==
    \A i \in 1 .. Len(replies') :
        \/ \E j \in 1 .. Len(replies) : replies'[i] = replies[j] /\ replies[j].from \notin D
        \/ replies'[i].ok => Promised'[replies'[i].from] \subseteq
              index'.watched \cup todo'[replies'[i].from]

LEMMA PromisesStep ==
  ASSUME TypeOK, Promises, index.watched \subseteq index'.watched,
         NEW D, StillPromised(D), MailKept(D), RepliesKept(D)
  PROVE  Promises'
<1>1. \A j \in 1 .. Len(mailbox) : mailbox[j].from \in Callers
  BY FromType DEF TypeOK, ClientType
<1>2. \A j \in 1 .. Len(replies) : replies[j].from \in Callers
  <2>1. \A j \in 1 .. Len(replies) : replies[j] \in [from : Callers, ok : BOOLEAN]
    BY SeqElement DEF TypeOK, ClientType
  <2> QED BY <2>1
<1>3. ASSUME NEW i \in 1 .. Len(mailbox')
      PROVE  Promised'[mailbox'[i].from] \subseteq
                index'.watched \cup todo'[mailbox'[i].from] \cup Watches(mailbox'[i])
  BY <1>1 DEF Promises, StillPromised, MailKept
<1>4. ASSUME NEW i \in 1 .. Len(replies'), replies'[i].ok
      PROVE  Promised'[replies'[i].from] \subseteq index'.watched \cup todo'[replies'[i].from]
  BY <1>2, <1>4 DEF Promises, StillPromised, RepliesKept
<1> QED BY <1>3, <1>4 DEF Promises
LEMMA WatchNextStep ==
  ASSUME TypeOK, Requests, NEW c \in Calls \cup {"open"}, NEW ok, Receive(c, ok), WatchNext(c)
  PROVE  /\ Requests' /\ pending' \subseteq pending
         /\ todo[c] = {} => mailbox' = mailbox /\ c \notin pending'
         /\ \A d \in Callers \ {c} : todo'[d] = todo[d]
         /\ \A i \in 1 .. Len(mailbox') :
              \/ i \in 1 .. Len(mailbox) /\ mailbox'[i] = mailbox[i] /\ mailbox[i].from # c
              \/ \E k \in todo[c] : mailbox'[i] = Watch(c, k) /\ todo' = [todo EXCEPT ![c] = @ \ {k}]
<1>1. /\ Free(c, mailbox) /\ Free(c, replies') /\ c \in pending
      /\ Queues(mailbox, replies', pending)
      /\ replies' \in Seq([from : Callers, ok : BOOLEAN])
  BY ReceiveStep
<1>2. todo \in [Callers -> SUBSET Keys] /\ c \in Callers
  BY CallerNames DEF TypeOK, ProcessType
<1>3. CASE todo[c] = {}
  <2>1. pending' = pending \ {c} /\ UNCHANGED <<mailbox, todo>>
    BY <1>3 DEF WatchNext
  <2>2. Queues(mailbox', replies', pending')
    BY <1>1, <2>1, QueueSettle
  <2>3. Requests'
    BY <2>2 DEF Requests, Queues, Distinct, AllFrom, Free
  <2> QED BY <1>1, <1>3, <2>1, <2>3 DEF Free
<1>4. CASE todo[c] # {}
  <2>1. PICK k \in todo[c] : Post(Watch(c, k)) /\ todo' = [todo EXCEPT ![c] = @ \ {k}]
    BY <1>4 DEF WatchNext
  <2>2. Watch(c, k) \in Messages /\ Watch(c, k).from = c
    BY <1>2, <2>1, WatchMessage
  <2>3. Requests' /\ \A i \in 1 .. Len(mailbox') :
           \/ i \in 1 .. Len(mailbox) /\ mailbox'[i] = mailbox[i]
           \/ mailbox'[i] = Watch(c, k)
    BY <1>1, <2>1, <2>2, PostStep
  <2>4. pending' \subseteq pending
    BY <1>1, <2>1, <2>2 DEF Post
  <2>5. \A d \in Callers \ {c} : todo'[d] = todo[d]
    BY <1>2, <2>1
  <2> QED BY <1>1, <1>4, <2>1, <2>3, <2>4, <2>5 DEF Free
<1> QED BY <1>3, <1>4

\* A request that is settled without another one.
LEMMA SettleStep ==
  ASSUME TypeOK, Requests, NEW c, mailbox' = mailbox,
         \/ (\E ok \in BOOLEAN : Receive(c, ok)) /\ pending' = pending \ {c}
         \/ c \notin pending /\ replies' = replies /\ pending' = pending
  PROVE  /\ Requests' /\ pending' = pending \ {c} /\ Free(c, mailbox) /\ Free(c, replies')
         /\ \A i \in 1 .. Len(replies') : \E j \in 1 .. Len(replies) : replies'[i] = replies[j]
<1>1. CASE (\E ok \in BOOLEAN : Receive(c, ok)) /\ pending' = pending \ {c}
  <2>1. PICK ok \in BOOLEAN : Receive(c, ok)
    BY <1>1
  <2>2. /\ Free(c, mailbox) /\ Free(c, replies') /\ Queues(mailbox, replies', pending)
        /\ \A i \in 1 .. Len(replies') : i + 1 \in 1 .. Len(replies) /\ replies'[i] = replies[i + 1]
    BY <2>1, ReceiveStep
  <2>3. Queues(mailbox', replies', pending')
    BY <1>1, <2>2, QueueSettle
  <2> QED BY <1>1, <2>2, <2>3 DEF Requests, Queues, Distinct, AllFrom, Free
<1>2. CASE c \notin pending /\ replies' = replies /\ pending' = pending
  <2>1. Free(c, mailbox) /\ Free(c, replies)
    BY <1>2, QueueFree DEF Requests
  <2> QED BY <1>2, <2>1 DEF Requests, Queues, Distinct, AllFrom, Free
<1> QED BY <1>1, <1>2

LEMMA TakeStep ==
  ASSUME TypeOK, Requests, NEW ok \in BOOLEAN, Take(ok)
  PROVE  /\ Requests' /\ pending' = pending /\ 1 \in 1 .. Len(mailbox)
         /\ mailbox[1] = Head(mailbox) /\ mailbox[1] \in Messages
         /\ \A i \in 1 .. Len(mailbox') : i + 1 \in 1 .. Len(mailbox) /\ mailbox'[i] = mailbox[i + 1]
         /\ \A i \in 1 .. Len(replies') :
              \/ i \in 1 .. Len(replies) /\ replies'[i] = replies[i]
              \/ replies'[i] = [from |-> mailbox[1].from, ok |-> ok]
<1> DEFINE e == [from |-> Head(mailbox).from, ok |-> ok]
<1>1. /\ mailbox # <<>> /\ mailbox' = Tail(mailbox) /\ replies' = Append(replies, e) /\ pending' = pending
      /\ mailbox \in Seq(Messages) /\ replies \in Seq([from : Callers, ok : BOOLEAN])
  BY DEF Take, TypeOK, ClientType
<1>2. /\ 1 \in 1 .. Len(mailbox) /\ mailbox[1] = Head(mailbox) /\ mailbox[1] \in Messages
      /\ \A i \in 1 .. Len(mailbox') : i + 1 \in 1 .. Len(mailbox) /\ mailbox'[i] = mailbox[i + 1]
  BY <1>1, TailIs
<1>3. e \in [from : Callers, ok : BOOLEAN] /\ e.from = Head(mailbox).from
  BY <1>2, FromType
<1> HIDE DEF e
<1>4. Queues(mailbox', replies', pending')
  BY <1>1, <1>3, QueueTake DEF Requests
<1>5. \A i \in 1 .. Len(replies') : \/ i \in 1 .. Len(replies) /\ replies'[i] = replies[i]
                                    \/ replies'[i] = e
  BY <1>1, <1>3, AppendIs
<1> QED BY <1>1, <1>2, <1>4, <1>5 DEF e, Requests, Queues, Distinct, AllFrom, Free

LEMMA RequestsSame ==
  ASSUME Requests, mailbox' = mailbox, replies' = replies, pending' = pending
  PROVE  Requests'
BY DEF Requests, Queues, Distinct, AllFrom, Free

LEMMA RequestsGone ==
  ASSUME mailbox' = <<>>, replies' = <<>>
  PROVE  Requests'
<1>1. Queues(mailbox', replies', pending')
  BY QueueEmpty
<1> QED BY <1>1 DEF Requests, Queues, Distinct, AllFrom, Free

\* Every step keeps the requests apart.
LEMMA RequestsInv ==
  ASSUME TypeOK, Lifecycle, Requests, Pending, [Next]_vars
  PROVE  Requests'
<1>1. CASE UNCHANGED client
  BY <1>1, RequestsSame DEF client
<1>0. CASE StartWorker /\ ~Start("open")
  BY <1>0, StartWorkerIs, RequestsSame
<1>2. CASE StartWorker /\ Start("open")
  <2> DEFINE m == [from |-> "open", method |-> "init"]
  <2>1. mailbox' = <<m>> /\ replies' = <<>> /\ pending' = {"open"} /\ m.from = "open"
    BY <1>2 DEF Start
  <2> HIDE DEF m
  <2>2. Queues(<<m>>, <<>>, {"open"})
    BY <2>1 DEF Queues, Distinct, AllFrom, Free
  <2>3. Queues(mailbox', replies', pending')
    BY <2>1, <2>2
  <2> QED BY <2>3 DEF Requests, Queues, Distinct, AllFrom, Free
<1>3. CASE OpenProceeds
  BY <1>3, WatchNextStep DEF OpenProceeds
<1>4. CASE OpenFails
  BY <1>4, SettleStep DEF OpenFails, Rejected
<1>5. ASSUME NEW c \in Calls, Runs(c) PROVE Requests'
  <2>1. PICK k \in Keys : Post(Watch(c, k))
    <3>1. InVault' \subseteq Keys /\ call[c].keys \subseteq Keys
      BY DEF InVault, TypeOK, ProcessType
    <3> QED BY <1>5, <3>1 DEF Runs
  <2>2. c \notin pending
    BY <1>5 DEF Runs, Pending
  <2>3. Free(c, mailbox) /\ Free(c, replies) /\ replies' = replies
    BY <1>5, <2>2, QueueFree DEF Runs, Requests
  <2>4. Watch(c, k) \in Messages /\ Watch(c, k).from = c
    BY WatchMessage
  <2>5. replies \in Seq([from : Callers, ok : BOOLEAN])
    BY DEF TypeOK, ClientType
  <2> QED BY <2>1, <2>3, <2>4, <2>5, PostStep DEF Requests
<1>6. ASSUME NEW c \in Calls, Proceeds(c) PROVE Requests'
  BY <1>6, WatchNextStep DEF Proceeds
<1>7. ASSUME NEW c \in Calls, Rejects(c) PROVE Requests'
  BY <1>7, SettleStep DEF Rejects, Rejected
<1>8. CASE SyncPosts
  <2>1. PICK n \in 1 .. MaxBatch : sync.height + n <= tip /\ Post(Ingest(sync.by, sync.height + n))
    BY <1>8 DEF SyncPosts
  <2>2. sync.height + n \in Heights /\ sync.by \in Attempts /\ sync.by \notin pending
    BY <1>8, <2>1, BoundsAssumption, HeightsAreNat DEF SyncPosts, TypeOK, ProcessType, Heights, Pending
  <2>3. Ingest(sync.by, sync.height + n) \in Messages /\ Ingest(sync.by, sync.height + n).from = sync.by
    BY <2>2, IngestMessage
  <2>4. Free(sync.by, mailbox) /\ Free(sync.by, replies) /\ replies' = replies
    BY <1>8, <2>2, QueueFree DEF SyncPosts, Requests
  <2>5. replies \in Seq([from : Callers, ok : BOOLEAN])
    BY DEF TypeOK, ClientType
  <2> QED BY <2>1, <2>3, <2>4, <2>5, PostStep DEF Requests
<1>9. ASSUME NEW a \in Attempts, Syncing(a) PROVE Requests'
  <2>1. CASE SyncReceives(a)
    BY <2>1, SettleStep DEF SyncReceives
  <2>2. CASE SyncFails(a)
    BY <2>2, SettleStep DEF SyncFails
  <2> QED BY <1>9, <2>1, <2>2 DEF Syncing
<1>10. CASE Stop
  BY <1>10, RequestsSame DEF Stop, Terminate
<1>11. CASE CloseVault \/ Crash \/ WorkerFails \/ WorkerExits
  BY <1>11, RequestsGone DEF CloseVault, Crash, Gone, WorkerFails, Fail, WorkerExits, Exit, Exits
<1>12. CASE WorkerServes \/ WorkerErrs
  BY <1>12, TakeStep DEF WorkerServes, Serve, WorkerErrs, ServeFails
<1>13. ASSUME NEW c \in Calls, NewAddress(c) \/ ImportKey(c) \/ Restore(c) \/ Throws(c)
       PROVE  UNCHANGED client
  BY <1>13 DEF NewAddress, ImportKey, Restore, Accept, Throws
<1>14. CASE Open \/ Preparing \/ BeginRescan \/ Quarantine \/ Close \/ Drained \/ Damage \/ Mine
            \/ SyncStarts \/ SyncStops \/ SyncEnds \/ UNCHANGED vars
  BY <1>1, <1>14 DEF Open, Preparing, Connect, VaultOpens, VaultFails, IndexFails, Release,
                     BeginRescan, Quarantine, Close, Drained, Damage, Mine,
                     SyncStarts, SyncStops, SyncEnds, vars
<1> QED BY <1>0, <1>1, <1>2, <1>3, <1>4, <1>5, <1>6, <1>7, <1>8, <1>9, <1>10, <1>11, <1>12, <1>13, <1>14
        DEF Next, Opening, Calling, Closing, Preparing
\* Whoever has a request under way waits for it.
LEMMA PendingInv ==
  ASSUME TypeOK, Lifecycle, Requests, Pending, [Next]_vars
  PROVE  Pending'
<1>0. call \in [Calls -> [phase : {"idle", "accepted", "awaiting"},
                          op : {"none", "create", "import", "restore"}, keys : SUBSET Keys]]
      /\ (sync # NoSync => sync.by \in Attempts)
      /\ \A c \in Calls : c # "open" /\ c \notin Attempts
  BY CallerNames DEF TypeOK, ProcessType
<1>1. CASE pending' = pending /\ call' = call /\ (life' = life \/ life # "starting") /\ sync' \in {sync, NoSync}
  BY <1>1 DEF Pending
<1>2. CASE StartWorker
  <2>1. pending' \in {{"open"}, pending} /\ life' = "starting" /\ call' = call /\ sync' = NoSync
    BY <1>2, StartWorkerIs DEF StartWorker, Start
  <2> QED BY <1>0, <2>1 DEF Pending
<1>3. CASE OpenProceeds
  <2>1. pending' \subseteq pending /\ (todo["open"] = {} => "open" \notin pending')
    BY <1>3, WatchNextStep DEF OpenProceeds
  <2>2. call' = call /\ sync' = sync /\ (todo["open"] # {} => life' = life)
    BY <1>3 DEF OpenProceeds
  <2> QED BY <2>1, <2>2 DEF Pending
<1>4. CASE OpenFails
  <2>1. pending' = pending \ {"open"}
    BY <1>4, SettleStep DEF OpenFails, Rejected
  <2> QED BY <1>4, <2>1 DEF OpenFails, Pending
<1>5. ASSUME NEW c \in Calls, NewAddress(c) \/ ImportKey(c) \/ Restore(c) \/ Throws(c) PROVE Pending'
  <2>1. c \notin pending
    <3>1. call[c] = NoCall \/ call[c].phase = "accepted"
      BY <1>5 DEF NewAddress, ImportKey, Restore, Accept, Throws
    <3>2. call[c].phase # "awaiting"
      BY <3>1 DEF NoCall
    <3> QED BY <3>2 DEF Pending
  <2>2. pending' = pending /\ life' = life /\ sync' = sync
    BY <1>5 DEF NewAddress, ImportKey, Restore, Accept, Throws, client
  <2>3. \A d \in Calls : d # c => call'[d] = call[d]
    BY <1>0, <1>5 DEF NewAddress, ImportKey, Restore, Accept, Throws
  <2> QED BY <2>1, <2>2, <2>3 DEF Pending
<1>6. ASSUME NEW c \in Calls, Runs(c) PROVE Pending'
  <2>1. PICK k : Post(Watch(c, k))
    BY <1>6 DEF Runs
  <2>2. pending' \subseteq pending \cup {c}
    BY <2>1 DEF Post, Watch
  <2>3. call'[c].phase = "awaiting" /\ (\A d \in Calls : d # c => call'[d] = call[d])
    BY <1>0, <1>6 DEF Runs, Call
  <2>4. life' = life /\ sync' = sync
    BY <1>6 DEF Runs
  <2> QED BY <1>0, <2>2, <2>3, <2>4 DEF Pending
<1>7. ASSUME NEW c \in Calls, Proceeds(c) PROVE Pending'
  <2>1. pending' \subseteq pending /\ (todo[c] = {} => c \notin pending')
    BY <1>7, WatchNextStep DEF Proceeds
  <2>2. \A d \in Calls : (d # c \/ todo[c] # {}) => call'[d] = call[d]
    BY <1>0, <1>7 DEF Proceeds
  <2> QED BY <1>7, <2>1, <2>2 DEF Proceeds, Pending
<1>8. ASSUME NEW c \in Calls, Rejects(c) PROVE Pending'
  <2>1. pending' = pending \ {c}
    BY <1>8, SettleStep DEF Rejects, Rejected
  <2>2. \A d \in Calls : d # c => call'[d] = call[d]
    BY <1>0, <1>8 DEF Rejects
  <2> QED BY <1>8, <2>1, <2>2 DEF Rejects, Pending
<1>9. CASE SyncStarts
  <2>1. pending' = pending /\ call' = call /\ life' = life /\ sync'.by \notin pending
    BY <1>9 DEF SyncStarts, client
  <2> QED BY <2>1 DEF Pending
<1>10. CASE SyncPosts
  <2>1. PICK n \in 1 .. MaxBatch : /\ Post(Ingest(sync.by, sync.height + n))
                                   /\ sync' = [sync EXCEPT !.to = sync.height + n]
    BY <1>10 DEF SyncPosts
  <2>2. sync'.to # sync'.height
    BY <2>1, BoundsAssumption DEF TypeOK, ProcessType
  <2>3. pending' \subseteq pending \cup {sync.by} /\ sync.by \in Attempts
    BY <1>0, <1>10, <2>1 DEF SyncPosts, Post, Ingest
  <2> QED BY <1>0, <1>10, <2>2, <2>3, CallerNames DEF SyncPosts, Pending
<1>11. ASSUME NEW a \in Attempts, SyncReceives(a) PROVE Pending'
  <2>1. pending' = pending \ {a} /\ call' = call /\ life' = life
    BY <1>11 DEF SyncReceives
  <2>2. CASE sync.by = a
    <3>1. sync'.by = a
      BY <1>11, <2>2 DEF SyncReceives, TypeOK, ProcessType
    <3> QED BY <2>1, <3>1 DEF Pending
  <2>3. CASE sync.by # a
    BY <1>11, <2>1, <2>3 DEF SyncReceives, Pending
  <2> QED BY <2>2, <2>3
<1>12. ASSUME NEW a \in Attempts, SyncFails(a) PROVE Pending'
  BY <1>12 DEF SyncFails, Pending
<1>13. CASE Stop \/ SyncStops \/ SyncEnds
  BY <1>1, <1>13 DEF Stop, Terminate, SyncStops, SyncEnds, client
<1>14. CASE CloseVault \/ Crash \/ WorkerFails \/ WorkerExits
  <2>1. pending' = {}
    BY <1>14 DEF CloseVault, Crash, Gone, WorkerFails, Fail, WorkerExits, Exit
  <2> QED BY <2>1 DEF Pending
<1>15. CASE WorkerServes \/ WorkerErrs
  BY <1>1, <1>15 DEF WorkerServes, Serve, WorkerErrs, ServeFails, Take, process
<1>16. CASE Open \/ Preparing \/ BeginRescan \/ Quarantine \/ Close \/ Drained \/ Damage \/ Mine \/ UNCHANGED vars
  BY <1>1, <1>16 DEF Open, Preparing, Connect, VaultOpens, VaultFails, IndexFails, Release,
                     BeginRescan, Quarantine, Close, Drained, Damage, Mine, vars, client, process
<1> QED BY <1>2, <1>3, <1>4, <1>5, <1>6, <1>7, <1>8, <1>9, <1>10, <1>11, <1>12, <1>13, <1>14, <1>15, <1>16
        DEF Next, Opening, Calling, Closing, Preparing, Syncing

\* The vault only grows.
LEMMA VaultGrows ==
  ASSUME TypeOK, [Next]_vars
  PROVE  InVault \subseteq InVault'
<1>0. flag \in [Keys -> {"absent", "rescan", "ok"}]
  BY DEF TypeOK, VaultType
<1>1. CASE flag' = flag
  BY <1>1 DEF InVault
<1>2. CASE BeginRescan
  BY <1>0, <1>2 DEF BeginRescan, InVault
<1>3. ASSUME NEW c \in Calls, Runs(c) PROVE InVault \subseteq InVault'
  BY <1>0, <1>3 DEF Runs, Adds, InVault
<1>4. CASE SyncEnds
  BY <1>0, <1>4 DEF SyncEnds, RescanCompletes, InVault
<1>5. ASSUME NEW c \in Calls,
             NewAddress(c) \/ ImportKey(c) \/ Restore(c) \/ Throws(c) \/ Proceeds(c) \/ Rejects(c)
      PROVE  flag' = flag
  BY <1>5 DEF NewAddress, ImportKey, Restore, Accept, Throws, Proceeds, Rejects, durable
<1>6. CASE Open \/ (Opening /\ ~BeginRescan) \/ SyncStarts \/ SyncPosts \/ SyncStops \/ Close \/ Closing
  BY <1>1, <1>6 DEF Open, Opening, Connect, VaultOpens, VaultFails, BeginRescan, IndexFails,
              Quarantine, StartWorker, OpenProceeds, OpenFails, SyncStarts, SyncPosts,
                    SyncStops, Close, Closing, Drained, Stop, CloseVault, Release, durable
<1>7. CASE Crash \/ Damage \/ Mine \/ WorkerServes \/ WorkerErrs \/ WorkerFails \/ WorkerExits \/ UNCHANGED vars
  BY <1>1, <1>7 DEF Crash, Damage, Mine, WorkerServes, WorkerErrs, WorkerFails, WorkerExits, durable, vars
<1>8. ASSUME NEW a \in Attempts, Syncing(a) PROVE flag' = flag
  BY <1>8 DEF Syncing, SyncReceives, SyncFails, durable
<1> QED BY <1>1, <1>2, <1>3, <1>4, <1>5, <1>6, <1>7, <1>8 DEF Next, Calling

\* Only fresh keys are shown, and a call that waits has put its key into the vault.
LEMMA CallKeysInv ==
  ASSUME TypeOK, CallKeys, [Next]_vars
  PROVE  CallKeys'
<1>0. call \in [Calls -> [phase : {"idle", "accepted", "awaiting"},
                          op : {"none", "create", "import", "restore"}, keys : SUBSET Keys]]
      /\ InVault \subseteq InVault'
  BY VaultGrows DEF TypeOK, ProcessType
<1> DEFINE Good(r) ==
        /\ r.phase = "awaiting" => r.keys \subseteq Fresh \cap InVault'
        /\ r.op = "create" => r.keys \subseteq Fresh
        /\ r.op = "restore" => r.keys \cap Fresh = {}
<1>1. \A c \in Calls : Good(call[c])
  BY <1>0 DEF CallKeys
<1>2. Good(NoCall)
  BY DEF NoCall
<1>3. ASSUME \A c \in Calls : call'[c] = call[c] \/ Good(call'[c]) PROVE CallKeys'
  BY <1>1, <1>3 DEF CallKeys
<1>4. ASSUME NEW c \in Calls, NewAddress(c) \/ ImportKey(c) \/ Restore(c) PROVE CallKeys'
  <2>1. ASSUME NEW op \in {"create", "import", "restore"}, NEW keys, Accept(c, op, keys),
               op = "create" => keys \subseteq Fresh, op = "restore" => keys \cap Fresh = {}
        PROVE  \A d \in Calls : call'[d] = call[d] \/ Good(call'[d])
    BY <1>0, <2>1 DEF Accept, Call
  <2>2. \A d \in Calls : call'[d] = call[d] \/ Good(call'[d])
    BY <1>4, <2>1 DEF NewAddress, ImportKey, Restore
  <2> QED BY <1>3, <2>2
<1>5. ASSUME NEW c \in Calls, Throws(c) \/ Proceeds(c) \/ Rejects(c) PROVE CallKeys'
  <2>1. \A d \in Calls : call'[d] = call[d] \/ call'[d] = NoCall
    BY <1>0, <1>5 DEF Throws, Proceeds, Rejects
  <2> QED BY <1>2, <1>3, <2>1
<1>6. ASSUME NEW c \in Calls, Runs(c) PROVE CallKeys'
  <2>1. call[c].keys \subseteq InVault'
    <3>1. call[c].keys \subseteq Keys /\ flag' = Adds(call[c].op, call[c].keys)
      BY <1>0, <1>6 DEF Runs
    <3> QED BY <3>1 DEF Adds, InVault
  <2>2. \A d \in Calls : call'[d] = call[d] \/ call'[d] = Call("awaiting", "none", call[c].keys \cap Fresh)
    BY <1>0, <1>6 DEF Runs
  <2>3. Good(Call("awaiting", "none", call[c].keys \cap Fresh))
    BY <2>1 DEF Call
  <2> QED BY <1>3, <2>2, <2>3
<1>7. CASE Crash
  <2>1. \A d \in Calls : call'[d] = NoCall
    BY <1>7 DEF Crash
  <2> QED BY <1>2, <1>3, <2>1
<1>8. ASSUME ~\E c \in Calls : NewAddress(c) \/ ImportKey(c) \/ Restore(c) \/ Calling(c), ~Crash
      PROVE  call' = call
  <2>1. CASE Open \/ BeginRescan \/ Opening
    BY <2>1 DEF Open, BeginRescan, Opening, Connect, VaultOpens, VaultFails, BeginRescan, IndexFails,
              Quarantine, StartWorker, OpenProceeds, OpenFails
  <2>2. CASE SyncStarts \/ SyncPosts \/ SyncStops \/ SyncEnds \/ (\E a \in Attempts : Syncing(a))
    BY <2>2 DEF SyncStarts, SyncPosts, SyncStops, SyncEnds, Syncing, SyncReceives, SyncFails
  <2>3. CASE Close \/ Closing
    BY <2>3 DEF Close, Closing, Drained, Stop, CloseVault, Release
  <2>4. CASE Damage \/ Mine \/ WorkerServes \/ WorkerErrs \/ WorkerFails \/ WorkerExits \/ UNCHANGED vars
    BY <2>4 DEF Damage, Mine, WorkerServes, WorkerErrs, WorkerFails, WorkerExits, process, vars
  <2> QED BY <1>8, <2>1, <2>2, <2>3, <2>4 DEF Next
<1> QED BY <1>3, <1>4, <1>5, <1>6, <1>7, <1>8 DEF Calling
\* Batches are posted by the sync only.
LEMMA IngestsPosted ==
  ASSUME TypeOK, Lifecycle, Requests, [Next]_vars,
         NEW i \in 1 .. Len(mailbox'), mailbox'[i] \in IngestMessages
  PROVE  \/ \E j \in 1 .. Len(mailbox) : mailbox'[i] = mailbox[j]
         \/ SyncPosts /\ mailbox'[i].to <= tip
<1> DEFINE Old == \E j \in 1 .. Len(mailbox) : mailbox'[i] = mailbox[j]
<1>1. CASE mailbox' = mailbox
  BY <1>1
<1>2. CASE mailbox' = <<>>
  <2>1. Len(mailbox') = 0
    BY <1>2
  <2>2. FALSE
    BY <2>1
  <2> QED BY <2>2
<1>3. \A m \in IngestMessages : m.method = "ingestBatch"
  BY DEF IngestMessages, Ingest
<1>4. CASE StartWorker
  <2>1. mailbox' = <<[from |-> "open", method |-> "init"]>>
    BY <1>2, <1>4, StartWorkerIs DEF Start
  <2>2. mailbox'[i].method = "init"
    BY <2>1
  <2> QED BY <1>3, <2>2
<1>5. ASSUME NEW c \in Calls \cup {"open"}, NEW ok, Receive(c, ok), WatchNext(c) PROVE Old
  <2>1. \A k : Watch(c, k) \notin IngestMessages
    BY <1>3 DEF Watch
  <2> QED BY <1>5, <2>1, WatchNextStep
<1>6. ASSUME NEW c \in Calls, Runs(c) PROVE Old
  <2>1. PICK k : Post(Watch(c, k))
    BY <1>6 DEF Runs
  <2>2. Watch(c, k) \notin IngestMessages
    BY <1>3 DEF Watch
  <2>3. mailbox \in Seq(Messages)
    BY DEF TypeOK, ClientType
  <2> HIDE DEF Old
  <2>4. CASE mailbox' = Append(mailbox, Watch(c, k))
    <3>1. i \in 1 .. Len(mailbox)
      BY <2>2, <2>3, <2>4
    <3> QED BY <2>3, <2>4, <3>1 DEF Old
  <2>5. CASE mailbox' = mailbox
    BY <2>5 DEF Old
  <2> QED BY <2>1, <2>4, <2>5 DEF Post
<1>7. CASE SyncPosts
  <2>1. PICK n \in 1 .. MaxBatch : sync.height + n <= tip /\ Post(Ingest(sync.by, sync.height + n))
    BY <1>7 DEF SyncPosts
  <2>2. mailbox \in Seq(Messages) /\ Ingest(sync.by, sync.height + n).to = sync.height + n
    BY DEF TypeOK, ClientType, Ingest
  <2>3. CASE mailbox' = Append(mailbox, Ingest(sync.by, sync.height + n))
    <3>1. \/ i \in 1 .. Len(mailbox) /\ mailbox'[i] = mailbox[i]
          \/ mailbox'[i] = Ingest(sync.by, sync.height + n)
      BY <2>2, <2>3
    <3> QED BY <1>7, <2>1, <2>2, <3>1
  <2> QED BY <1>1, <2>1, <2>3 DEF Post
<1>8. CASE WorkerServes \/ WorkerErrs
  BY <1>8, TakeStep DEF WorkerServes, Serve, WorkerErrs, ServeFails
<1>9. CASE CloseVault \/ Crash \/ WorkerFails \/ WorkerExits
  BY <1>2, <1>9 DEF CloseVault, Crash, Gone, WorkerFails, Fail, WorkerExits, Exit, Exits
<1>10. ASSUME NEW c \in Calls, Calling(c) PROVE Old
  <2>1. CASE Throws(c) \/ Rejects(c)
    BY <1>1, <2>1 DEF Throws, Rejects, Rejected, client
  <2>2. CASE Proceeds(c)
    BY <1>5, <2>2 DEF Proceeds
  <2> QED BY <1>6, <1>10, <2>1, <2>2 DEF Calling
<1>11. CASE Opening
  <2>1. CASE Preparing \/ BeginRescan \/ Quarantine \/ OpenFails
    BY <1>1, <2>1 DEF Preparing, Connect, VaultOpens, VaultFails, IndexFails, Release, BeginRescan, Quarantine,
                      OpenFails, Rejected, client
  <2>2. CASE OpenProceeds
    BY <1>5, <2>2 DEF OpenProceeds
  <2> QED BY <1>4, <1>11, <2>1, <2>2 DEF Opening, Preparing
<1>12. ASSUME NEW c \in Calls, NewAddress(c) \/ ImportKey(c) \/ Restore(c) PROVE mailbox' = mailbox
  BY <1>12 DEF NewAddress, ImportKey, Restore, Accept, client
<1>13. CASE Open \/ Preparing \/ Close \/ Drained \/ Stop \/ Damage \/ Mine
            \/ SyncStarts \/ SyncStops \/ SyncEnds \/ UNCHANGED vars
  BY <1>1, <1>13 DEF Open, Preparing, Connect, VaultOpens, VaultFails, IndexFails, Release,
                     Close, Drained, Stop, Terminate, Damage, Mine,
                     SyncStarts, SyncStops, SyncEnds, vars, client
<1>14. ASSUME NEW a \in Attempts, Syncing(a) PROVE mailbox' = mailbox
  BY <1>14 DEF Syncing, SyncReceives, SyncFails
<1> QED BY <1>1, <1>7, <1>8, <1>9, <1>10, <1>11, <1>12, <1>13, <1>14 DEF Next, Closing, Preparing

\* What becomes of the index in a step.
Watching == \E W \in SUBSET Keys : index' = [index EXCEPT !.watched = @ \cup W]
Ingesting1 ==
    /\ 1 \in 1 .. Len(mailbox) /\ mailbox[1] \in IngestMessages /\ mailbox[1].to \in Heights
    /\ index' = Ingested(mailbox[1].to)

LEMMA IndexSteps ==
  ASSUME TypeOK, Requests, [Next]_vars
  PROVE  index' = index \/ BeginRescan \/ Quarantine \/ Damage \/ Watching \/ (WorkerServes /\ Ingesting1)
<1>1. CASE StartWorker
  <2>1. todo["open"] \in SUBSET Keys
    BY CallerNames DEF TypeOK, ProcessType
  <2> QED BY <1>1, <2>1 DEF StartWorker, Watching
<1>2. CASE WorkerServes
  <2>1. /\ 1 \in 1 .. Len(mailbox) /\ mailbox[1] = Head(mailbox) /\ mailbox[1] \in Messages
        /\ index' = Handled(mailbox[1])
    BY <1>2, TakeStep DEF WorkerServes, Serve
  <2>2. CASE mailbox[1].method = "watchIdentity" /\ mailbox[1].key \in Keys
    <3>1. {mailbox[1].key} \in SUBSET Keys /\ index' = [index EXCEPT !.watched = @ \cup {mailbox[1].key}]
      BY <2>1, <2>2, HandledIs
    <3> QED BY <3>1 DEF Watching
  <2>3. CASE mailbox[1].method = "init"
    BY <2>1, <2>3, HandledIs
  <2>4. CASE mailbox[1].method = "ingestBatch" /\ mailbox[1].to \in Heights /\ mailbox[1] \in IngestMessages
    BY <1>2, <2>1, <2>4, HandledIs DEF Ingesting1
  <2> QED BY <2>1, <2>2, <2>3, <2>4, MessageForms
<1>3. CASE Open \/ Preparing \/ OpenProceeds \/ OpenFails \/ Close \/ Closing
  BY <1>3 DEF Open, Preparing, Connect, VaultOpens, VaultFails, IndexFails, Release,
              OpenProceeds, OpenFails, Close, Closing, Drained, Stop, CloseVault, Release, durable
<1>4. CASE SyncStarts \/ SyncPosts \/ SyncStops \/ SyncEnds \/ (\E a \in Attempts : Syncing(a))
  BY <1>4 DEF SyncStarts, SyncPosts, SyncStops, SyncEnds, Syncing, SyncReceives, SyncFails, durable
<1>5. ASSUME NEW c \in Calls, NewAddress(c) \/ ImportKey(c) \/ Restore(c) \/ Calling(c) PROVE index' = index
  BY <1>5 DEF NewAddress, ImportKey, Restore, Accept, Calling, Runs, Throws, Proceeds, Rejects, durable
<1>6. CASE Crash \/ Mine \/ WorkerErrs \/ WorkerFails \/ WorkerExits \/ UNCHANGED vars
  BY <1>6 DEF Crash, Mine, WorkerErrs, ServeFails, WorkerFails, WorkerExits, durable, vars
<1> QED BY <1>1, <1>2, <1>3, <1>4, <1>5, <1>6 DEF Next, Opening, Preparing

LEMMA WatchingSame ==
  ASSUME TypeOK, Watching
  PROVE  /\ index'.height = index.height /\ index'.coins = index.coins /\ index'.rows = index.rows
         /\ index'.sound = index.sound /\ index.watched \subseteq index'.watched
BY WatchedType DEF Watching, TypeOK

LEMMA DamageSame ==
  ASSUME TypeOK, Damage
  PROVE  /\ index'.height = index.height /\ index'.coins = index.coins /\ index'.rows = index.rows
         /\ index'.sound = FALSE /\ index'.watched = index.watched
BY DEF Damage, TypeOK, Indexes

\* The index holds nothing its blocks do not pay.
LEMMA SoundInv ==
  ASSUME TypeOK, Requests, Sound, [Next]_vars
  PROVE  Sound'
<1>1. CASE index' = index
  BY <1>1, SameContents
<1>2. CASE BeginRescan
  BY <1>2, EmptyComplete DEF BeginRescan
<1>3. CASE Quarantine /\ index' = Empty({})
  BY <1>3, EmptyComplete
<1>4. CASE Damage
  BY <1>4, DamageSame, SameContents
<1>5. CASE Watching
  BY <1>5, WatchingSame, SameContents
<1>6. CASE Ingesting1
  BY <1>6, IngestSound DEF Ingesting1, TypeOK
<1> QED BY <1>1, <1>2, <1>3, <1>4, <1>5, <1>6, IndexSteps DEF Quarantine

LEMMA ShownSteps ==
  ASSUME [Next]_vars, ~OpenProceeds, ~\E c \in Calls : Proceeds(c)
  PROVE  shown' = shown
<1>1. CASE Open \/ BeginRescan \/ Opening \/ Close \/ Closing
  BY <1>1 DEF Open, BeginRescan, Opening, Connect, VaultOpens, VaultFails, BeginRescan, IndexFails,
              Quarantine, StartWorker, OpenFails,
              Close, Closing, Drained, Stop, CloseVault, Release, world
<1>2. CASE SyncStarts \/ SyncPosts \/ SyncStops \/ SyncEnds \/ (\E a \in Attempts : Syncing(a))
  BY <1>2 DEF SyncStarts, SyncPosts, SyncStops, SyncEnds, Syncing, SyncReceives, SyncFails, world
<1>3. ASSUME NEW c \in Calls, NewAddress(c) \/ ImportKey(c) \/ Restore(c) \/ Calling(c) PROVE shown' = shown
  BY <1>3 DEF NewAddress, ImportKey, Restore, Accept, Calling, Runs, Throws, Rejects, world
<1>4. CASE Crash \/ Damage \/ Mine \/ WorkerServes \/ WorkerErrs \/ WorkerFails \/ WorkerExits
           \/ UNCHANGED vars
  BY <1>4 DEF Crash, Damage, Mine, WorkerServes, WorkerErrs, WorkerFails, WorkerExits, world, vars
<1> QED BY <1>1, <1>2, <1>3, <1>4 DEF Next

\* Blocks are ingested after they were mined, and mined after the addresses they pay were shown.
LEMMA WorldInv ==
  ASSUME TypeOK, Lifecycle, Requests, CallKeys, World, [Next]_vars
  PROVE  World'
<1>0. index.height \in Nat /\ tip \in Nat /\ tip' \in Nat
  <2>1. index.height \in Heights /\ tip \in Heights /\ tip' \in Heights
    BY TypeInv, IndexFields DEF TypeOK
  <2> QED BY <2>1, HeightsAreNat
<1>1. tip <= tip' /\ (tip' = tip \/ Mine)
  <2>1. CASE Mine
    BY <1>0, <2>1 DEF Mine
  <2>2. CASE ~Mine
    <3>1. ASSUME Open \/ BeginRescan \/ Opening \/ Close \/ Closing PROVE tip' = tip
      BY <3>1 DEF Open, BeginRescan, Opening, Connect, VaultOpens, VaultFails, BeginRescan, IndexFails,
              Quarantine, StartWorker, OpenProceeds, OpenFails,
                  Close, Closing, Drained, Stop, CloseVault, Release, world
    <3>2. ASSUME SyncStarts \/ SyncPosts \/ SyncStops \/ SyncEnds \/ (\E a \in Attempts : Syncing(a))
          PROVE  tip' = tip
      BY <3>2 DEF SyncStarts, SyncPosts, SyncStops, SyncEnds, Syncing, SyncReceives, SyncFails, world
    <3>3. ASSUME NEW c \in Calls, NewAddress(c) \/ ImportKey(c) \/ Restore(c) \/ Calling(c) PROVE tip' = tip
      BY <3>3 DEF NewAddress, ImportKey, Restore, Accept, Calling, Runs, Throws, Proceeds, Rejects, world
    <3>4. ASSUME Crash \/ Damage \/ WorkerServes \/ WorkerErrs \/ WorkerFails \/ WorkerExits \/ UNCHANGED vars
          PROVE  tip' = tip
      BY <3>4 DEF Crash, Damage, WorkerServes, WorkerErrs, WorkerFails, WorkerExits, world, vars
    <3> QED BY <1>0, <2>2, <3>1, <3>2, <3>3, <3>4 DEF Next
  <2> QED BY <2>1, <2>2
<1>2. index'.height <= tip'
  <2>1. CASE Ingesting1
    <3>1. mailbox[1].to <= tip /\ mailbox[1].to \in Nat
      BY <2>1, HeightsAreNat DEF Ingesting1, World
    <3>2. index'.height \in {index.height, mailbox[1].to}
      BY <2>1, IngestedIs, IngestedKnown DEF Ingesting1, TypeOK
    <3> QED BY <1>0, <1>1, <3>1, <3>2 DEF World
  <2>2. CASE index'.height = index.height
    BY <1>0, <1>1, <2>2 DEF World
  <2>3. CASE (BeginRescan \/ Quarantine) /\ index' # index
    <3>1. index'.height = 0
      BY <2>3 DEF BeginRescan, Quarantine, Empty
    <3> QED BY <1>0, <3>1
  <2> QED BY <2>1, <2>2, <2>3, IndexSteps, WatchingSame, DamageSame
<1>3. \A i \in 1 .. Len(mailbox') : mailbox'[i] \in IngestMessages => mailbox'[i].to <= tip'
  <2> SUFFICES ASSUME NEW i \in 1 .. Len(mailbox'), mailbox'[i] \in IngestMessages
               PROVE  mailbox'[i].to <= tip'
    OBVIOUS
  <2>1. mailbox'[i].to <= tip
    BY IngestsPosted DEF World
  <2>2. mailbox'[i].to \in Nat
    <3>1. mailbox'[i].to \in Heights
      BY DEF IngestMessages, Ingest
    <3> QED BY <3>1, HeightsAreNat
  <2> QED BY <1>0, <1>1, <2>1, <2>2
<1>4. shown \subseteq shown' /\ shown' \subseteq InVault'
  <2>1. CASE OpenProceeds
    BY <2>1, VaultGrows DEF OpenProceeds, World
  <2>2. ASSUME NEW c \in Calls, Proceeds(c) PROVE shown \subseteq shown' /\ shown' \subseteq InVault'
    <3>1. call[c].keys \subseteq InVault
      BY <2>2 DEF Proceeds, CallKeys
    <3> QED BY <2>2, <3>1, VaultGrows DEF Proceeds, World
  <2> QED BY <2>1, <2>2, ShownSteps, VaultGrows DEF World
<1>5. \A k \in Fresh \ shown' : PaidBy(Upto(tip')) \cap Own(k) = {}
  <2> SUFFICES ASSUME NEW k \in Fresh \ shown' PROVE PaidBy(Upto(tip')) \cap Own(k) = {}
    OBVIOUS
  <2>1. PaidBy(Upto(tip)) \cap Own(k) = {}
    BY <1>4 DEF World
  <2>2. CASE Mine
    <3>1. tip' = tip + 1 /\ PaidBy(Chain[tip + 1]) \cap Own(k) = {}
      BY <1>4, <2>2 DEF Mine, Own
    <3> QED BY <1>0, <2>1, <3>1, UptoNext
  <2> QED BY <1>1, <2>1, <2>2
<1> QED BY <1>2, <1>3, <1>4, <1>5 DEF World, Upto, PaidBy, Own
LEMMA PromisedStep ==
  ASSUME TypeOK, NEW d \in Callers,
         d = "open" => life' # "starting" \/ (life = "starting" /\ flag' = flag),
         d \in Calls => call'[d] = call[d] \/ call'[d].phase # "awaiting"
  PROVE  Promised'[d] \subseteq Promised[d]
<1>1. CASE d = "open"
  BY <1>1 DEF Promised, InVault
<1>2. CASE d # "open"
  BY <1>2 DEF Promised
<1> QED BY <1>1, <1>2

LEMMA PromisedIs ==
  ASSUME TypeOK
  PROVE  /\ Promised["open"] = IF life = "starting" THEN InVault ELSE {}
         /\ \A c \in Calls : Promised[c] = IF call[c].phase = "awaiting" THEN call[c].keys ELSE {}
         /\ \A a \in Attempts : Promised[a] = {}
BY CallerNames DEF Promised

LEMMA PromisesGone ==
  ASSUME mailbox' = <<>>, replies' = <<>>
  PROVE  Promises'
<1>1. Len(mailbox') = 0 /\ Len(replies') = 0
  OBVIOUS
<1> QED BY <1>1 DEF Promises

LEMMA PromisesFrame ==
  ASSUME TypeOK, Promises, mailbox' = mailbox, replies' = replies, todo' = todo,
         index.watched \subseteq index'.watched, call' = call,
         life' # "starting" \/ (life = "starting" /\ flag' = flag)
  PROVE  Promises'
<1>1. StillPromised({})
  BY PromisedStep DEF StillPromised
<1>2. MailKept({}) /\ RepliesKept({})
  BY DEF MailKept, RepliesKept
<1> QED BY <1>1, <1>2, PromisesStep

\* What a loop over keys has promised is kept while it goes on.
LEMMA PromisesWatchNext ==
  ASSUME TypeOK, TypeOK', Requests, Promises, NEW c \in Calls \cup {"open"}, Receive(c, TRUE), WatchNext(c),
         index' = index, flag' = flag,
         todo[c] # {} => call' = call /\ life' = life,
         c # "open" => life' = life,
         \A d \in Calls \ {c} : call'[d] = call[d]
  PROVE  Promises'
<1>0. c \in Callers
  BY CallerNames
<1>1. Promised[c] \subseteq index.watched \cup todo[c]
  <2>1. 1 \in 1 .. Len(replies) /\ replies[1] = [from |-> c, ok |-> TRUE]
    BY ReceiveStep
  <2>2. replies[1].ok /\ replies[1].from = c
    BY <2>1
  <2> QED BY <2>1, <2>2 DEF Promises
<1>2. StillPromised({c})
  <2>1. \A d \in Callers \ {c} : todo'[d] = todo[d]
    BY WatchNextStep
  <2> QED BY <2>1, PromisedStep DEF StillPromised
<1>3. RepliesKept({c})
  <2>1. /\ Free(c, replies')
        /\ \A i \in 1 .. Len(replies') : i + 1 \in 1 .. Len(replies) /\ replies'[i] = replies[i + 1]
    BY ReceiveStep
  <2> QED BY <2>1 DEF Free, RepliesKept
<1>4. ASSUME NEW i \in 1 .. Len(mailbox'), NEW k \in todo[c], mailbox'[i] = Watch(c, k),
             todo' = [todo EXCEPT ![c] = @ \ {k}]
      PROVE  Promised'[mailbox'[i].from] \subseteq
                index'.watched \cup todo'[mailbox'[i].from] \cup Watches(mailbox'[i])
  <2>1. k \in Keys /\ todo'[c] = todo[c] \ {k}
    BY <1>0, <1>4 DEF TypeOK, ProcessType
  <2>2. mailbox'[i].from = c /\ Watches(mailbox'[i]) = {k}
    BY <1>4, <2>1, WatchMessage DEF Watches
  <2>3. Promised'[c] = Promised[c]
    BY <1>0, <1>4 DEF Promised, InVault
  <2> QED BY <1>1, <2>1, <2>2, <2>3
<1>5. MailKept({c})
  <2>1. \A i \in 1 .. Len(mailbox') :
          \/ i \in 1 .. Len(mailbox) /\ mailbox'[i] = mailbox[i] /\ mailbox[i].from # c
          \/ \E k \in todo[c] : mailbox'[i] = Watch(c, k) /\ todo' = [todo EXCEPT ![c] = @ \ {k}]
    BY WatchNextStep
  <2> QED BY <1>4, <2>1 DEF MailKept
<1> QED BY <1>2, <1>3, <1>5, PromisesStep

\* A caller whose request is settled, and who asks for nothing more, is promised nothing.
LEMMA PromisesSettle ==
  ASSUME TypeOK, Requests, Promises, NEW c \in Callers, mailbox' = mailbox, index' = index, flag' = flag,
         \/ (\E ok \in BOOLEAN : Receive(c, ok)) /\ pending' = pending \ {c}
         \/ c \notin pending /\ replies' = replies /\ pending' = pending,
         \A d \in Callers \ {c} : todo'[d] = todo[d],
         \A d \in Calls \ {c} : call'[d] = call[d],
         c = "open" \/ life' = life
  PROVE  Promises'
<1>1. /\ Free(c, mailbox) /\ Free(c, replies')
      /\ \A i \in 1 .. Len(replies') : \E j \in 1 .. Len(replies) : replies'[i] = replies[j]
  BY SettleStep
<1>2. StillPromised({c})
  BY PromisedStep DEF StillPromised
<1>3. MailKept({c}) /\ RepliesKept({c})
  BY <1>1 DEF Free, MailKept, RepliesKept
<1> QED BY <1>2, <1>3, PromisesStep

\* A new request of somebody who has none.
LEMMA PromisesPost ==
  ASSUME TypeOK, Requests, Promises, NEW m \in Messages, Post(m), m.from \notin pending,
         replies' = replies, index' = index,
         Promised'[m.from] \subseteq index'.watched \cup todo'[m.from] \cup Watches(m),
         \A d \in Callers \ {m.from} : Promised'[d] \subseteq Promised[d] /\ todo'[d] = todo[d]
  PROVE  Promises'
<1>1. Free(m.from, mailbox) /\ Free(m.from, replies)
  BY QueueFree DEF Requests
<1>2. \A i \in 1 .. Len(mailbox') : \/ i \in 1 .. Len(mailbox) /\ mailbox'[i] = mailbox[i]
                                    \/ mailbox'[i] = m
  <2>1. Queues(mailbox, replies', pending) /\ Free(m.from, replies')
    BY <1>1 DEF Requests
  <2>2. replies' \in Seq([from : Callers, ok : BOOLEAN])
    BY DEF TypeOK, ClientType
  <2> QED BY <1>1, <2>1, <2>2, PostStep
<1>3. MailKept({m.from}) /\ RepliesKept({m.from})
  BY <1>1, <1>2 DEF Free, MailKept, RepliesKept
<1>4. StillPromised({m.from})
  BY DEF StillPromised
<1> QED BY <1>3, <1>4, PromisesStep

LEMMA PromisesTake ==
  ASSUME TypeOK, Requests, Promises, NEW ok \in BOOLEAN, Take(ok), UNCHANGED <<flag, life, call, todo>>,
         index' = IF ok THEN Handled(Head(mailbox)) ELSE index
  PROVE  Promises'
<1>1. /\ 1 \in 1 .. Len(mailbox) /\ mailbox[1] = Head(mailbox) /\ mailbox[1] \in Messages
      /\ \A i \in 1 .. Len(mailbox') : i + 1 \in 1 .. Len(mailbox) /\ mailbox'[i] = mailbox[i + 1]
      /\ \A i \in 1 .. Len(replies') :
              \/ i \in 1 .. Len(replies) /\ replies'[i] = replies[i]
              \/ replies'[i] = [from |-> mailbox[1].from, ok |-> ok]
  BY TakeStep
<1>2. index.watched \subseteq index'.watched /\ (ok => Watches(mailbox[1]) \subseteq index'.watched)
  <2>1. CASE ~ok
    BY <2>1
  <2>2. CASE ok /\ mailbox[1] \in WatchMessages /\ mailbox[1].method = "watchIdentity" /\ mailbox[1].key \in Keys
    <3>1. {mailbox[1].key} \in SUBSET Keys /\ index' = [index EXCEPT !.watched = @ \cup {mailbox[1].key}]
      BY <1>1, <2>2, HandledIs
    <3>2. index'.watched = index.watched \cup {mailbox[1].key}
      BY <3>1, WatchedType DEF TypeOK
    <3> QED BY <2>2, <3>2 DEF Watches
  <2>3. CASE ok /\ mailbox[1] \notin WatchMessages /\ mailbox[1].method = "init"
    BY <1>1, <2>3, HandledIs DEF Watches
  <2>4. CASE ok /\ mailbox[1] \notin WatchMessages /\ mailbox[1].method = "ingestBatch" /\ mailbox[1].to \in Heights
    <3>1. index' = Ingested(mailbox[1].to)
      BY <1>1, <2>4, HandledIs
    <3>2. index'.watched = index.watched
      BY <2>4, <3>1, IngestedIs, IngestedKnown DEF TypeOK
    <3> QED BY <2>4, <3>2 DEF Watches
  <2> QED BY <1>1, <2>1, <2>2, <2>3, <2>4, MessageForms
<1>3. \A d \in Callers : Promised'[d] \subseteq Promised[d] /\ todo'[d] = todo[d]
  BY PromisedStep
<1>4. \A i \in 1 .. Len(mailbox') : \E j \in 1 .. Len(mailbox) : mailbox'[i] = mailbox[j]
  BY <1>1
<1>5. mailbox[1].from \in Callers
  BY <1>1, FromType
<1>6. ASSUME NEW i \in 1 .. Len(replies')
      PROVE  \/ \E j \in 1 .. Len(replies) : replies'[i] = replies[j]
             \/ replies'[i].ok => Promised'[replies'[i].from] \subseteq
                  index'.watched \cup todo'[replies'[i].from]
  <2>1. CASE replies'[i] = [from |-> mailbox[1].from, ok |-> ok]
    <3>1. replies'[i].from = mailbox[1].from /\ replies'[i].ok = ok
      BY <2>1
    <3>2. Promised[mailbox[1].from] \subseteq index.watched \cup todo[mailbox[1].from] \cup Watches(mailbox[1])
      BY <1>1 DEF Promises
    <3> QED BY <1>2, <1>3, <1>5, <3>1, <3>2
  <2> QED BY <1>1, <2>1
<1>7. StillPromised({}) /\ MailKept({}) /\ RepliesKept({})
  BY <1>3, <1>4, <1>6 DEF StillPromised, MailKept, RepliesKept
<1> QED BY <1>2, <1>7, PromisesStep

LEMMA PromisesInv ==
  ASSUME TypeOK, Lifecycle, Requests, Pending, Promises, CallKeys, [Next]_vars
  PROVE  Promises'
<1>0. call \in [Calls -> [phase : {"idle", "accepted", "awaiting"},
                          op : {"none", "create", "import", "restore"}, keys : SUBSET Keys]]
      /\ todo \in [Callers -> SUBSET Keys] /\ TypeOK'
  BY TypeInv DEF TypeOK, ProcessType
<1>1. CASE Open \/ Preparing \/ BeginRescan \/ Quarantine
  <2>1. mailbox' = <<>> /\ replies' = <<>>
    BY <1>1 DEF Open, Preparing, Connect, VaultOpens, VaultFails, IndexFails, Release,
                  BeginRescan, Quarantine, client, Lifecycle
  <2> QED BY <2>1, PromisesGone
<1>2. CASE CloseVault \/ Crash \/ WorkerFails \/ WorkerExits
  BY <1>2, PromisesGone DEF CloseVault, Crash, Gone, WorkerFails, Fail, WorkerExits, Exit, Exits
<1>3. CASE StartWorker
  <2>4. CASE mailbox' = <<>> /\ replies' = <<>>
    BY <2>4, PromisesGone
  <2>5. CASE Start("open")
    <3>1. mailbox' = <<[from |-> "open", method |-> "init"]>> /\ replies' = <<>> /\ todo'["open"] = InVault
      BY <1>0, <1>3, <2>5, CallerNames DEF StartWorker, Start
    <3>2. Promised'["open"] = InVault
      BY <1>3, CallerNames DEF StartWorker, Promised, InVault
    <3>3. Len(replies') = 0 /\ \A i \in 1 .. Len(mailbox') : mailbox'[i].from = "open"
      BY <3>1
    <3> QED BY <3>1, <3>2, <3>3 DEF Promises
  <2> QED BY <1>3, <2>4, <2>5, StartWorkerIs
<1>4. CASE OpenProceeds
  BY <1>0, <1>4, PromisesWatchNext DEF OpenProceeds, durable
<1>5. CASE OpenFails
  <2>1. \/ (\E ok \in BOOLEAN : Receive("open", ok)) /\ pending' = pending \ {"open"}
        \/ "open" \notin pending /\ replies' = replies /\ pending' = pending
    BY <1>5 DEF OpenFails, Rejected
  <2>2. mailbox' = mailbox /\ index' = index /\ flag' = flag /\ call' = call
        /\ \A d \in Callers \ {"open"} : todo'[d] = todo[d]
    BY <1>0, <1>5 DEF OpenFails, Rejected, durable
  <2> QED BY <2>1, <2>2, CallerNames, PromisesSettle
<1>6. ASSUME NEW c \in Calls, NewAddress(c) \/ ImportKey(c) \/ Restore(c) \/ Throws(c) PROVE Promises'
  <2>1. UNCHANGED <<mailbox, replies, todo, index, life, flag>>
    BY <1>6 DEF NewAddress, ImportKey, Restore, Accept, Throws, client, durable
  <2>2. \A d \in Calls : call'[d] = call[d] \/ call'[d].phase # "awaiting"
    BY <1>0, <1>6 DEF NewAddress, ImportKey, Restore, Accept, Throws, Call, NoCall
  <2>3. StillPromised({})
    BY <2>1, <2>2, PromisedStep DEF StillPromised
  <2>4. MailKept({}) /\ RepliesKept({})
    BY <2>1 DEF MailKept, RepliesKept
  <2> QED BY <2>1, <2>3, <2>4, PromisesStep
<1>7. ASSUME NEW c \in Calls, Runs(c) PROVE Promises'
  <2> DEFINE ks == IF call[c].op = "restore" THEN InVault' ELSE call[c].keys
  <2>1. PICK k \in ks : Post(Watch(c, k)) /\ todo' = [todo EXCEPT ![c] = ks \ {k}]
    BY <1>7 DEF Runs
  <2>2. ks \subseteq Keys
    BY <1>0 DEF InVault
  <2>3. call[c].keys \cap Fresh \subseteq ks
    BY DEF CallKeys
  <2> HIDE DEF ks
  <2>4. Watch(c, k) \in Messages /\ Watch(c, k).from = c /\ Watches(Watch(c, k)) = {k} /\ c \in Callers
    BY <2>1, <2>2, WatchMessage, CallerNames DEF Watches
  <2>5. todo'[c] = ks \ {k} /\ \A d \in Callers \ {c} : todo'[d] = todo[d]
    BY <1>0, <2>1, <2>4
  <2>6. call'[c] = Call("awaiting", "none", call[c].keys \cap Fresh) /\ \A d \in Calls \ {c} : call'[d] = call[d]
    BY <1>0, <1>7 DEF Runs
  <2>7. Promised'[c] = call[c].keys \cap Fresh
    BY <1>0, <2>6, CallerNames DEF Promised, Call
  <2>8. life' # "starting"
    <3>1. call[c] # NoCall
      BY <1>7, CallExists DEF Runs
    <3> QED BY <1>7, <3>1 DEF Runs, Lifecycle
  <2>9. \A d \in Callers \ {c} : Promised'[d] \subseteq Promised[d]
    BY <2>6, <2>8, PromisedStep
  <2>10. c \notin pending /\ replies' = replies /\ index' = index
    BY <1>7 DEF Runs, Pending
  <2>11. Promised'[c] \subseteq index'.watched \cup todo'[c] \cup {k}
    BY <2>3, <2>5, <2>7
  <2> QED BY <2>1, <2>4, <2>5, <2>9, <2>10, <2>11, PromisesPost
<1>8. ASSUME NEW c \in Calls, Proceeds(c) PROVE Promises'
  <2>1. \A d \in Calls \ {c} : call'[d] = call[d]
    BY <1>0, <1>8 DEF Proceeds
  <2> QED BY <1>0, <1>8, <2>1, PromisesWatchNext DEF Proceeds, durable
<1>9. ASSUME NEW c \in Calls, Rejects(c) PROVE Promises'
  <2>1. \/ (\E ok \in BOOLEAN : Receive(c, ok)) /\ pending' = pending \ {c}
        \/ c \notin pending /\ replies' = replies /\ pending' = pending
    BY <1>9 DEF Rejects, Rejected
  <2>2. /\ mailbox' = mailbox /\ index' = index /\ flag' = flag /\ life' = life
        /\ \A d \in Callers \ {c} : todo'[d] = todo[d]
        /\ \A d \in Calls \ {c} : call'[d] = call[d]
    BY <1>0, <1>9 DEF Rejects, Rejected, durable
  <2> QED BY <2>1, <2>2, CallerNames, PromisesSettle
<1>10. CASE SyncPosts
  <2>1. PICK n \in 1 .. MaxBatch : sync.height + n <= tip /\ Post(Ingest(sync.by, sync.height + n))
    BY <1>10 DEF SyncPosts
  <2>2. sync.height + n \in Heights /\ sync.by \in Attempts /\ sync.by \notin pending
    BY <1>10, <2>1, BoundsAssumption, HeightsAreNat DEF SyncPosts, TypeOK, ProcessType, Heights, Pending
  <2>3. Ingest(sync.by, sync.height + n) \in Messages /\ Ingest(sync.by, sync.height + n).from = sync.by
    BY <2>2, IngestMessage
  <2>4. replies' = replies /\ index' = index /\ todo' = todo /\ life' = life /\ call' = call /\ flag' = flag
    BY <1>10 DEF SyncPosts, durable
  <2>5. \A d \in Callers : Promised'[d] \subseteq Promised[d] /\ todo'[d] = todo[d]
    BY <2>4, PromisedStep
  <2>6. Promised'[sync.by] = {}
    BY <1>0, <2>2, CallerNames DEF Promised
  <2> QED BY <2>1, <2>2, <2>3, <2>4, <2>5, <2>6, PromisesPost
<1>11. ASSUME NEW a \in Attempts, Syncing(a) PROVE Promises'
  <2>1. \/ (\E ok \in BOOLEAN : Receive(a, ok)) /\ pending' = pending \ {a}
        \/ a \notin pending /\ replies' = replies /\ pending' = pending
    BY <1>11 DEF Syncing, SyncReceives, SyncFails
  <2>2. UNCHANGED <<mailbox, index, flag, life, todo, call>>
    BY <1>11 DEF Syncing, SyncReceives, SyncFails, durable
  <2> QED BY <2>1, <2>2, CallerNames, PromisesSettle
<1>12. CASE WorkerServes
  BY <1>12, PromisesTake DEF WorkerServes, Serve, process
<1>13. CASE WorkerErrs
  BY <1>13, PromisesTake DEF WorkerErrs, ServeFails, process
<1>14. CASE Close \/ Drained \/ Stop \/ Damage \/ Mine \/ SyncStarts \/ SyncStops \/ SyncEnds \/ UNCHANGED vars
  <2>1. UNCHANGED <<mailbox, replies, todo, call>>
    BY <1>14 DEF Close, Drained, Stop, Terminate, Damage, Mine, SyncStarts, SyncStops, SyncEnds,
                 client, process, vars
  <2>2. index.watched \subseteq index'.watched
    BY <1>14, DamageSame DEF Close, Drained, Stop, Mine, SyncStarts, SyncStops, SyncEnds, durable, vars
  <2>3. life' # "starting" \/ (life = "starting" /\ flag' = flag)
    BY <1>14 DEF Close, Drained, Stop, Damage, Mine, SyncStarts, SyncStops, SyncEnds,
                 durable, process, vars
  <2> QED BY <2>1, <2>2, <2>3, PromisesFrame
<1> QED BY <1>1, <1>2, <1>3, <1>4, <1>5, <1>6, <1>7, <1>8, <1>9, <1>10, <1>11, <1>12, <1>13, <1>14
        DEF Next, Opening, Calling, Closing, Preparing
-----------------------------------------------------------------------------
\* Coverage.

LEMMA InVaultIs ==
  ASSUME TypeOK, Coverage
  PROVE  Covered \subseteq InVault /\ Covered \subseteq Keys /\ InVault \subseteq Keys
BY DEF Coverage, Covered, InVault

LEMMA IngestingStep ==
  ASSUME TypeOK, Lifecycle, Requests, [Next]_vars, Ingesting'
  PROVE  Ingesting \/ (OpenProceeds /\ life' = "ready")
<1>1. CASE \E i \in 1 .. Len(mailbox') : mailbox'[i] \in IngestMessages
  <2>1. PICK i \in 1 .. Len(mailbox') : mailbox'[i] \in IngestMessages
    BY <1>1
  <2>2. CASE \E j \in 1 .. Len(mailbox) : mailbox'[i] = mailbox[j]
    BY <2>1, <2>2 DEF Ingesting
  <2>3. CASE SyncPosts
    BY <2>3 DEF SyncPosts, Lifecycle, Ingesting
  <2> QED BY <2>1, <2>2, <2>3, IngestsPosted
<1>2. CASE life' \in {"ready", "draining", "closing"} /\ ~OpenProceeds
  <2>1. CASE life' = life
    BY <1>2, <2>1 DEF Ingesting
  <2>2. CASE Close \/ Drained
    BY <2>2 DEF Close, Drained, Ingesting
  <2>3. ASSUME Open \/ Opening \/ Stop \/ CloseVault \/ Release \/ Crash PROVE FALSE
    BY <1>2, <2>3 DEF Open, BeginRescan, Opening, Connect, VaultOpens, VaultFails, BeginRescan, IndexFails,
              Quarantine, StartWorker, OpenFails, Stop, CloseVault, Release, Crash
  <2>4. ASSUME SyncStarts \/ SyncPosts \/ SyncStops \/ SyncEnds \/ (\E a \in Attempts : Syncing(a))
        PROVE  life' = life
    BY <2>4 DEF SyncStarts, SyncPosts, SyncStops, SyncEnds, Syncing, SyncReceives, SyncFails
  <2>5. ASSUME NEW c \in Calls, NewAddress(c) \/ ImportKey(c) \/ Restore(c) \/ Calling(c) PROVE life' = life
    BY <2>5 DEF NewAddress, ImportKey, Restore, Accept, Calling, Runs, Throws, Proceeds, Rejects
  <2>6. ASSUME Damage \/ Mine \/ WorkerServes \/ WorkerErrs \/ WorkerFails \/ WorkerExits \/ UNCHANGED vars
        PROVE  life' = life
    BY <2>6 DEF Damage, Mine, WorkerServes, WorkerErrs, WorkerFails, WorkerExits, process, vars
  <2> QED BY <2>1, <2>2, <2>3, <2>4, <2>5, <2>6 DEF Next, Closing
<1>3. CASE OpenProceeds
  <2>1. life' \in {life, "ready"}
    BY <1>3 DEF OpenProceeds
  <2>2. CASE life' = life /\ life' \in {"ready", "draining", "closing"}
    BY <2>2 DEF Ingesting
  <2> QED BY <1>1, <1>3, <2>1, <2>2 DEF Ingesting
<1> QED BY <1>1, <1>2, <1>3 DEF Ingesting

\* A rescan promises its keys what it gives them at its end.
LEMMA CoveredStep ==
  ASSUME TypeOK, [Next]_vars, ~BeginRescan, ~\E c \in Calls : Runs(c)
  PROVE  Covered' \subseteq Covered /\ (rescan'.active => rescan.active /\ rescan'.keys = rescan.keys)
<1>0. flag \in [Keys -> {"absent", "rescan", "ok"}] /\ rescan \in [active : BOOLEAN, keys : SUBSET Keys]
  BY DEF TypeOK, VaultType
<1>1. CASE flag' = flag /\ rescan' = rescan
  BY <1>1 DEF Covered
<1>2. CASE SyncEnds
  <2>1. flag' = RescanCompletes /\ rescan' = [rescan EXCEPT !.active = FALSE]
    BY <1>2 DEF SyncEnds
  <2>2. rescan'.active = FALSE
    BY <1>0, <2>1
  <2>3. \A k \in Keys : flag'[k] = "ok" => flag[k] = "ok" \/ (rescan.active /\ k \in rescan.keys)
    BY <1>0, <2>1 DEF RescanCompletes
  <2> QED BY <1>0, <2>2, <2>3 DEF Covered
<1>3. ASSUME Open \/ Opening \/ Close \/ Closing PROVE flag' = flag /\ rescan' = rescan
  BY <1>3 DEF Open, Opening, Connect, VaultOpens, VaultFails, BeginRescan, IndexFails,
              Quarantine, StartWorker, OpenProceeds, OpenFails, Close, Closing, Drained,
              Stop, CloseVault, Release, durable
<1>4. ASSUME SyncStarts \/ SyncPosts \/ SyncStops \/ (\E a \in Attempts : Syncing(a))
      PROVE  flag' = flag /\ rescan' = rescan
  BY <1>4 DEF SyncStarts, SyncPosts, SyncStops, Syncing, SyncReceives, SyncFails, durable
<1>5. ASSUME NEW c \in Calls, NewAddress(c) \/ ImportKey(c) \/ Restore(c) \/ Calling(c)
      PROVE  flag' = flag /\ rescan' = rescan
  BY <1>5 DEF NewAddress, ImportKey, Restore, Accept, Calling, Throws, Proceeds, Rejects, durable
<1>6. ASSUME Crash \/ Damage \/ Mine \/ WorkerServes \/ WorkerErrs \/ WorkerFails \/ WorkerExits \/ UNCHANGED vars
      PROVE  flag' = flag /\ rescan' = rescan
  BY <1>6 DEF Crash, Damage, Mine, WorkerServes, WorkerErrs, WorkerFails, WorkerExits, durable, vars
<1> QED BY <1>1, <1>2, <1>3, <1>4, <1>5, <1>6 DEF Next

\* A step that promises no more, takes nothing from the index and shows no key.
LEMMA CoverageFrame ==
  ASSUME Coverage, Covered' \subseteq Covered, InVault \subseteq InVault',
         rescan'.active => rescan.active /\ rescan'.keys = rescan.keys,
         index'.height = index.height, index'.coins = index.coins, index'.rows = index.rows,
         index'.sound => index.sound, index.watched \subseteq index'.watched,
         shown' = shown, Ingesting' => Ingesting
  PROVE  Coverage'
<1>1. \A k \in Covered : k \in index.watched \cup (Fresh \ shown) \/ (index.height = 0 /\ ~Ingesting)
  BY DEF Coverage
<1>2. \A k \in Covered' : k \in index'.watched \cup (Fresh \ shown') \/ (index'.height = 0 /\ ~Ingesting')
  BY <1>1
<1>3. ASSUME index'.sound, NEW k \in Covered' PROVE Complete(k)'
  BY <1>3, SameContents DEF Coverage
<1>4. rescan'.active => rescan'.keys \subseteq InVault'
  BY DEF Coverage
<1> QED BY <1>2, <1>3, <1>4 DEF Coverage

\* A database that is new.
LEMMA CoverageEmpty ==
  ASSUME NEW W \in SUBSET Keys, index' = Empty(W), ~Ingesting',
         rescan'.active => rescan'.keys \subseteq InVault', Covered' \subseteq Keys
  PROVE  Coverage'
<1>1. \A k \in Covered' : Complete(k)'
  BY EmptyComplete
<1>2. index'.height = 0
  BY DEF Empty
<1> QED BY <1>1, <1>2 DEF Coverage

LEMMA CoverageIngest ==
  ASSUME TypeOK, World, Coverage, Ingesting1, Covered' \subseteq Covered, InVault \subseteq InVault',
         rescan'.active => rescan.active /\ rescan'.keys = rescan.keys, shown' = shown
  PROVE  Coverage'
<1> DEFINE to == mailbox[1].to
<1>1. /\ 1 \in 1 .. Len(mailbox) /\ mailbox[1] \in IngestMessages /\ to \in Heights
      /\ index' = Ingested(to) /\ index \in Indexes
  BY DEF Ingesting1, TypeOK
<1>2. to <= tip /\ to \in Nat /\ tip \in Nat
  <2>1. to \in Nat /\ tip \in Nat
    BY <1>1, HeightsAreNat DEF TypeOK
  <2> QED BY <1>1, <2>1 DEF World
<1>3. Ingesting
  BY <1>1 DEF Ingesting
<1>4. \A k \in Covered : k \in index.watched \cup (Fresh \ shown) /\ k \in Keys
  BY <1>3 DEF Coverage, Covered, TypeOK, VaultType
<1>5. index'.watched = index.watched /\ index'.sound = index.sound
  BY <1>1, IngestedIs, IngestedKnown
<1>6. ASSUME index'.sound, NEW k \in Covered' PROVE Complete(k)'
  <2>1. k \in Covered /\ k \in Keys /\ Complete(k)
    BY <1>4, <1>5, <1>6 DEF Coverage
  <2>2. k \in index.watched \/ PaidBy(Upto(to)) \cap Own(k) = {}
    <3>1. PaidBy(Upto(to)) \subseteq PaidBy(Upto(tip))
      BY <1>2, UptoMono
    <3> QED BY <1>4, <2>1, <3>1 DEF World
  <2> HIDE DEF to
  <2> QED BY <1>1, <2>1, <2>2, IngestComplete
<1>7. \A k \in Covered' : k \in index'.watched \cup (Fresh \ shown')
  BY <1>4, <1>5
<1>8. rescan'.active => rescan'.keys \subseteq InVault'
  BY DEF Coverage
<1> QED BY <1>6, <1>7, <1>8 DEF Coverage

\* A fresh key is complete from the start: nobody can have paid it.
LEMMA CoverageRuns ==
  ASSUME TypeOK, CallKeys, World, Sound, Coverage, [Next]_vars, Ingesting' => Ingesting,
         NEW c \in Calls, Runs(c)
  PROVE  Coverage'
<1>0. /\ flag \in [Keys -> {"absent", "rescan", "ok"}] /\ rescan' = rescan /\ index' = index /\ shown' = shown
      /\ InVault \subseteq InVault'
  BY VaultGrows DEF Runs, TypeOK, VaultType, world
<1>1. \A k \in Covered' : k \in Covered \/ (k \in Fresh \ shown /\ k \in Keys)
  <2> SUFFICES ASSUME NEW k \in Covered', k \notin Covered PROVE k \in Fresh \ shown /\ k \in Keys
    OBVIOUS
  <2>1. k \in Keys /\ flag'[k] = "ok" /\ flag[k] # "ok"
    BY <1>0 DEF Covered
  <2>2. flag[k] = "absent" /\ call[c].op = "create" /\ k \in call[c].keys
    BY <1>0, <2>1 DEF Runs, Adds
  <2>3. k \in Fresh
    BY <2>2 DEF CallKeys
  <2>4. k \notin shown
    BY <2>1, <2>2 DEF World, InVault
  <2> QED BY <2>1, <2>3, <2>4
<1>2. ASSUME NEW k \in Fresh \ shown, k \in Keys PROVE Complete(k)
  <2>1. index.height \in Nat /\ tip \in Nat /\ index.height <= tip
    <3>1. index.height \in Heights /\ tip \in Heights
      BY IndexFields DEF TypeOK
    <3> QED BY <3>1, HeightsAreNat DEF World
  <2>2. PaidBy(Upto(index.height)) \cap Own(k) = {}
    BY <2>1, UptoMono DEF World
  <2> QED BY <1>2, <2>2, UnpaidComplete
<1>3. ASSUME index'.sound, NEW k \in Covered' PROVE Complete(k)'
  <2>1. Complete(k)
    BY <1>0, <1>1, <1>2, <1>3 DEF Coverage
  <2> QED BY <1>0, <2>1, SameContents
<1>4. \A k \in Covered : k \in index.watched \cup (Fresh \ shown) \/ (index.height = 0 /\ ~Ingesting)
  BY DEF Coverage
<1>5. \A k \in Covered' : k \in index'.watched \cup (Fresh \ shown') \/ (index'.height = 0 /\ ~Ingesting')
  BY <1>0, <1>1, <1>4
<1>6. rescan'.active => rescan'.keys \subseteq InVault'
  BY <1>0 DEF Coverage
<1> QED BY <1>3, <1>5, <1>6 DEF Coverage

\* A loop that is through has watched all it was to watch.
LEMMA CoverageShows ==
  ASSUME TypeOK, Coverage, NEW S, S \subseteq index.watched, shown' = shown \cup S,
         index' = index, flag' = flag, rescan' = rescan,
         (Ingesting' => Ingesting) \/ Covered \subseteq index.watched
  PROVE  Coverage'
<1>1. Covered' = Covered /\ InVault' = InVault
  BY DEF Covered, InVault
<1>2. \A k \in Covered : k \in index.watched \cup (Fresh \ shown) \/ (index.height = 0 /\ ~Ingesting)
  BY DEF Coverage
<1>3. \A k \in Covered' : k \in index'.watched \cup (Fresh \ shown') \/ (index'.height = 0 /\ ~Ingesting')
  BY <1>1, <1>2
<1>4. ASSUME index'.sound, NEW k \in Covered' PROVE Complete(k)'
  BY <1>1, <1>4, SameContents DEF Coverage
<1>5. rescan'.active => rescan'.keys \subseteq InVault'
  BY <1>1 DEF Coverage
<1> QED BY <1>3, <1>4, <1>5 DEF Coverage

\* The last reply of a loop finds all that was promised watched.
LEMMA LastReply ==
  ASSUME TypeOK, Requests, Promises, NEW c \in Callers, Receive(c, TRUE), todo[c] = {}
  PROVE  Promised[c] \subseteq index.watched
<1>1. 1 \in 1 .. Len(replies) /\ replies[1] = [from |-> c, ok |-> TRUE]
  BY ReceiveStep
<1>2. replies[1].ok /\ replies[1].from = c
  BY <1>1
<1> QED BY <1>1, <1>2 DEF Promises

LEMMA CoverageInv ==
  ASSUME IInv, [Next]_vars
  PROVE  Coverage'
<1> USE DEF IInv
<1>0. InVault \subseteq InVault' /\ TypeOK'
  BY VaultGrows, TypeInv
<1>1. CASE BeginRescan
  <2>1. index' = Empty({}) /\ rescan' = [active |-> TRUE, keys |-> InVault] /\ life' = "chosen" /\ mailbox' = <<>>
    BY <1>1 DEF BeginRescan, client, Lifecycle
  <2>2. ~Ingesting'
    BY <2>1 DEF Ingesting
  <2>3. Covered' \subseteq Keys
    BY <2>1 DEF Covered, InVault
  <2> QED BY <1>0, <2>1, <2>2, <2>3, CoverageEmpty
<1>2. CASE Quarantine /\ index' # index
  <2>1. index' = Empty({}) /\ rescan' = rescan /\ flag' = flag /\ life' = "repairing" /\ mailbox' = <<>>
    BY <1>2 DEF Quarantine, client, Lifecycle
  <2>2. ~Ingesting'
    BY <2>1 DEF Ingesting
  <2>3. Covered' \subseteq Keys /\ (rescan'.active => rescan'.keys \subseteq InVault')
    BY <1>0, <2>1, InVaultIs DEF Covered, Coverage
  <2> QED BY <2>1, <2>2, <2>3, CoverageEmpty
<1>3. ASSUME NEW c \in Calls, Runs(c) PROVE Coverage'
  <2>1. Ingesting' => Ingesting
    <3>1. ~(OpenProceeds /\ life' = "ready") \/ Ingesting
      BY <1>3 DEF Runs, OpenProceeds, Ingesting
    <3> QED BY <3>1, IngestingStep
  <2> QED BY <1>3, <2>1, CoverageRuns
<1>4. CASE OpenProceeds
  <2>1. index' = index /\ flag' = flag /\ rescan' = rescan /\ life = "starting"
    BY <1>4 DEF OpenProceeds, durable
  <2>2. CASE todo["open"] # {}
    <3>1. shown' = shown \cup {} /\ life' = life
      BY <1>4, <2>2 DEF OpenProceeds
    <3>2. Ingesting' => Ingesting
      BY <2>1, <3>1, IngestingStep
    <3> QED BY <2>1, <3>1, <3>2, CoverageShows
  <2>3. CASE todo["open"] = {}
    <3>1. InVault \subseteq index.watched
      <4>1. Promised["open"] \subseteq index.watched
        BY <1>4, <2>3, LastReply, CallerNames DEF OpenProceeds
      <4> QED BY <2>1, <4>1, PromisedIs
    <3>2. shown' = shown \cup (InVault \cap Fresh)
      BY <1>4, <2>3 DEF OpenProceeds
    <3>3. Covered \subseteq index.watched /\ InVault \cap Fresh \subseteq index.watched
      BY <3>1, InVaultIs
    <3> QED BY <2>1, <3>2, <3>3, CoverageShows
  <2> QED BY <2>2, <2>3
<1>5. ASSUME NEW c \in Calls, Proceeds(c) PROVE Coverage'
  <2>1. index' = index /\ flag' = flag /\ rescan' = rescan /\ life' = life
    BY <1>5 DEF Proceeds, durable
  <2>2. Ingesting' => Ingesting
    <3>1. call[c] # NoCall
      BY <1>5, CallExists DEF Proceeds
    <3> QED BY <3>1 DEF Lifecycle, Ingesting
  <2>3. CASE todo[c] # {}
    <3>1. shown' = shown \cup {}
      BY <1>5, <2>3 DEF Proceeds
    <3> QED BY <2>1, <2>2, <3>1, CoverageShows
  <2>4. CASE todo[c] = {}
    <3>1. call[c].keys \subseteq index.watched
      <4>1. Promised[c] \subseteq index.watched
        BY <1>5, <2>4, LastReply, CallerNames DEF Proceeds
      <4> QED BY <1>5, <4>1, PromisedIs DEF Proceeds
    <3>2. shown' = shown \cup call[c].keys
      BY <1>5, <2>4 DEF Proceeds
    <3> QED BY <2>1, <2>2, <3>1, <3>2, CoverageShows
  <2> QED BY <2>3, <2>4
<1>6. ASSUME ~BeginRescan, ~Quarantine \/ index' = index, ~OpenProceeds, ~\E c \in Calls : Runs(c) \/ Proceeds(c)
      PROVE  Coverage'
  <2>1. /\ Covered' \subseteq Covered /\ (rescan'.active => rescan.active /\ rescan'.keys = rescan.keys)
        /\ shown' = shown /\ (Ingesting' => Ingesting)
    BY <1>6, CoveredStep, ShownSteps, IngestingStep
  <2>2. CASE index' = index
    BY <1>0, <2>1, <2>2, CoverageFrame
  <2>3. CASE Watching
    BY <1>0, <2>1, <2>3, WatchingSame, CoverageFrame
  <2>4. CASE Damage
    BY <1>0, <2>1, <2>4, DamageSame, CoverageFrame
  <2>5. CASE Ingesting1
    BY <1>0, <2>1, <2>5, CoverageIngest
  <2> QED BY <1>6, <2>2, <2>3, <2>4, <2>5, IndexSteps
<1> QED BY <1>1, <1>2, <1>3, <1>4, <1>5, <1>6

LEMMA InitIInv == Init => IInv
<1> SUFFICES ASSUME Init PROVE IInv
  OBVIOUS
<1>1. TypeOK /\ Lifecycle
  BY InitType, InitLifecycle
<1>2. Requests
  BY QueueEmpty DEF Init, Requests
<1>3. Pending
  BY DEF Init, Pending
<1>4. Promises
  BY DEF Init, Promises
<1>5. CallKeys
  BY DEF Init, CallKeys, NoCall
<1>6. World
  <2>1. index.height = 0 /\ tip = Past /\ shown = {} /\ mailbox = <<>>
    BY DEF Init, Empty
  <2>2. 0 <= Past
    BY HeightsAreNat
  <2>3. ASSUME NEW k \in Fresh PROVE PaidBy(Upto(Past)) \cap Own(k) = {}
    BY PastAssumption DEF Own
  <2> QED BY <2>1, <2>2, <2>3 DEF World
<1>7. Sound
  BY DEF Init, Empty, Sound
<1>8. Coverage
  BY DEF Init, Coverage, Covered
<1> QED BY <1>1, <1>2, <1>3, <1>4, <1>5, <1>6, <1>7, <1>8 DEF IInv

LEMMA StepIInv == IInv /\ [Next]_vars => IInv'
<1> SUFFICES ASSUME IInv, [Next]_vars PROVE IInv'
  OBVIOUS
<1>1. TypeOK' /\ Lifecycle' /\ Requests' /\ Pending'
  BY TypeInv, LifeInv, RequestsInv, PendingInv DEF IInv
<1>2. Promises' /\ CallKeys' /\ World' /\ Sound' /\ Coverage'
  BY PromisesInv, CallKeysInv, WorldInv, SoundInv, CoverageInv DEF IInv
<1> QED BY <1>1, <1>2 DEF IInv

\* A key whose needsRescan flag is not set misses no coin and no transaction of the blocks
\* in the index, however opening, repair, rescan, imports, failed calls, the worker's
\* failures and crashes are interleaved.
THEOREM BalancesAreComplete == Spec => []IndexComplete
<1>1. IInv => IndexComplete
  BY DEF IInv, Coverage, Covered, IndexComplete, InVault
<1> QED BY <1>1, InitIInv, StepIInv, PTL DEF Spec

-----------------------------------------------------------------------------
\* What an open promise waits for.

LEMMA HoldsAppend ==
  ASSUME NEW T, NEW s \in Seq(T), NEW e \in T, NEW d
  PROVE  /\ Holds(s, d) => Holds(Append(s, e), d)
         /\ Holds(Append(s, e), e.from)
<1>1. /\ Len(Append(s, e)) = Len(s) + 1 /\ Len(s) \in Nat
      /\ Append(s, e)[Len(s) + 1] = e
      /\ \A i \in 1 .. Len(s) : Append(s, e)[i] = s[i]
  BY AppendIs
<1>2. Len(s) + 1 \in 1 .. Len(Append(s, e)) /\ \A i \in 1 .. Len(s) : i \in 1 .. Len(Append(s, e))
  BY <1>1
<1> QED BY <1>1, <1>2 DEF Holds

LEMMA HoldsTail ==
  ASSUME NEW T, NEW s \in Seq(T), s # <<>>, NEW d, d # Head(s).from, Holds(s, d)
  PROVE  Holds(Tail(s), d)
<1>1. PICK i \in 1 .. Len(s) : s[i].from = d
  BY DEF Holds
<1>2. Head(s) = s[1] /\ Len(Tail(s)) = Len(s) - 1 /\ Len(s) \in Nat
      /\ \A j \in 1 .. Len(Tail(s)) : Tail(s)[j] = s[j + 1]
  OBVIOUS
<1>3. i - 1 \in 1 .. Len(Tail(s)) /\ Tail(s)[i - 1] = s[i]
  BY <1>1, <1>2
<1> QED BY <1>1, <1>3 DEF Holds

Ending == worker \in {"failed", "terminating"}
InFlight == \A c \in pending : Holds(mailbox, c) \/ Holds(replies, c) \/ Ending

\* Taking a reply leaves those of the others.
LEMMA ReceiveHolds ==
  ASSUME TypeOK, NEW c, NEW ok, Receive(c, ok), NEW d, d # c, Holds(replies, d)
  PROVE  Holds(replies', d)
<1>1. replies # <<>> /\ Head(replies).from = c /\ replies' = Tail(replies)
  BY DEF Receive
<1>2. replies \in Seq([from : Callers, ok : BOOLEAN])
  BY DEF TypeOK, ClientType
<1> QED BY <1>1, <1>2, HoldsTail

LEMMA PostInFlight ==
  ASSUME TypeOK, InFlight, NEW m \in Messages, Post(m), worker' = worker,
         \A d : d # m.from /\ Holds(replies, d) => Holds(replies', d)
  PROVE  InFlight'
<1> SUFFICES ASSUME NEW d \in pending', ~Ending' PROVE Holds(mailbox', d) \/ Holds(replies', d)
  BY DEF InFlight
<1>1. mailbox \in Seq(Messages)
  BY DEF TypeOK, ClientType
<1>2. d = m.from \/ d \in pending
  BY DEF Post
<1>3. CASE d = m.from
  <2>1. worker = "running"
    BY <1>3 DEF Post, Ending
  <2> QED BY <1>1, <1>3, <2>1, HoldsAppend DEF Post
<1>4. CASE d # m.from
  <2>1. Holds(mailbox, d) \/ Holds(replies, d)
    BY <1>2, <1>4 DEF InFlight, Ending
  <2>2. Holds(mailbox, d) => Holds(mailbox', d)
    BY <1>1, HoldsAppend DEF Post
  <2> QED BY <1>4, <2>1, <2>2
<1> QED BY <1>3, <1>4

LEMMA SettleInFlight ==
  ASSUME TypeOK, InFlight, NEW c, mailbox' = mailbox, Ending => Ending',
         \/ (\E ok \in BOOLEAN : Receive(c, ok)) /\ pending' = pending \ {c}
         \/ replies' = replies /\ pending' = pending
  PROVE  InFlight'
<1>1. ASSUME NEW d \in pending', Holds(replies, d) PROVE Holds(replies', d)
  BY <1>1, ReceiveHolds
<1> QED BY <1>1 DEF InFlight, Holds

LEMMA WatchNextInFlight ==
  ASSUME TypeOK, InFlight, NEW c \in Calls \cup {"open"}, Receive(c, TRUE), WatchNext(c), worker' = worker
  PROVE  InFlight'
<1>1. CASE todo[c] = {}
  <2>1. pending' = pending \ {c} /\ mailbox' = mailbox
    BY <1>1 DEF WatchNext
  <2> QED BY <2>1, SettleInFlight DEF Ending
<1>2. CASE todo[c] # {}
  <2>1. PICK k \in todo[c] : Post(Watch(c, k))
    BY <1>2 DEF WatchNext
  <2>2. k \in Keys
    BY <2>1, CallerNames DEF TypeOK, ProcessType
  <2>3. Watch(c, k) \in Messages /\ Watch(c, k).from = c
    BY <2>2, WatchMessage
  <2> QED BY <2>1, <2>3, ReceiveHolds, PostInFlight
<1> QED BY <1>1, <1>2

LEMMA TakeInFlight ==
  ASSUME TypeOK, InFlight, NEW ok \in BOOLEAN, Take(ok)
  PROVE  InFlight'
<1> DEFINE e == [from |-> Head(mailbox).from, ok |-> ok]
<1>1. /\ mailbox # <<>> /\ mailbox' = Tail(mailbox) /\ replies' = Append(replies, e)
      /\ pending' = pending /\ worker' = worker
      /\ mailbox \in Seq(Messages) /\ replies \in Seq([from : Callers, ok : BOOLEAN])
  BY DEF Take, TypeOK, ClientType
<1>2. Head(mailbox) \in Messages
  BY <1>1, TailIs
<1>3. e \in [from : Callers, ok : BOOLEAN] /\ e.from = Head(mailbox).from
  BY <1>2, FromType
<1> HIDE DEF e
<1>4. ASSUME NEW d PROVE /\ Holds(mailbox, d) => Holds(mailbox', d) \/ Holds(replies', d)
                         /\ Holds(replies, d) => Holds(replies', d)
  <2>1. /\ Holds(replies, d) => Holds(Append(replies, e), d)
        /\ Holds(Append(replies, e), e.from)
    BY <1>1, <1>3, HoldsAppend
  <2>2. d # Head(mailbox).from /\ Holds(mailbox, d) => Holds(Tail(mailbox), d)
    BY <1>1, HoldsTail
  <2> QED BY <1>1, <1>3, <2>1, <2>2
<1> QED BY <1>1, <1>4 DEF InFlight, Ending, Holds

LEMMA InFlightInv ==
  ASSUME TypeOK, Lifecycle, InFlight, [Next]_vars
  PROVE  InFlight'
<1>1. CASE UNCHANGED client
  BY <1>1 DEF client, InFlight, Holds, Ending
<1>2. ASSUME pending' = {} PROVE InFlight'
  BY <1>2 DEF InFlight
<1>0. CASE worker' = "failed"
  BY <1>0 DEF InFlight, Ending
<1>3. CASE StartWorker /\ Start("open")
  <2> DEFINE m == [from |-> "open", method |-> "init"]
  <2>1. mailbox' = <<m>> /\ pending' = {"open"} /\ m.from = "open"
    BY <1>3 DEF Start
  <2> HIDE DEF m
  <2>2. Holds(mailbox', "open")
    BY <2>1 DEF Holds
  <2> QED BY <2>1, <2>2 DEF InFlight, Holds
<1>4. CASE OpenProceeds
  BY <1>4, WatchNextInFlight DEF OpenProceeds
<1>5. worker = "exited" => pending = {}
  BY DEF InFlight, Ending, Lifecycle, Holds
<1>6. CASE OpenFails
  BY <1>2, <1>5, <1>6, SettleInFlight DEF OpenFails, Rejected, Ending
<1>7. ASSUME NEW c \in Calls, Runs(c) PROVE InFlight'
  <2>1. PICK k \in Keys : Post(Watch(c, k))
    <3>1. InVault' \subseteq Keys /\ call[c].keys \subseteq Keys
      BY DEF InVault, TypeOK, ProcessType
    <3> QED BY <1>7, <3>1 DEF Runs
  <2>2. Watch(c, k) \in Messages
    BY WatchMessage
  <2> QED BY <1>7, <2>1, <2>2, PostInFlight DEF Runs
<1>8. ASSUME NEW c \in Calls, Proceeds(c) PROVE InFlight'
  BY <1>8, WatchNextInFlight DEF Proceeds
<1>9. ASSUME NEW c \in Calls, Rejects(c) PROVE InFlight'
  BY <1>9, SettleInFlight DEF Rejects, Rejected, Ending
<1>10. CASE SyncPosts
  <2>1. PICK n \in 1 .. MaxBatch : sync.height + n <= tip /\ Post(Ingest(sync.by, sync.height + n))
    BY <1>10 DEF SyncPosts
  <2>2. sync.height + n \in Heights /\ sync.by \in Attempts
    BY <1>10, <2>1, BoundsAssumption, HeightsAreNat DEF SyncPosts, TypeOK, ProcessType, Heights
  <2>3. Ingest(sync.by, sync.height + n) \in Messages
    BY <2>2, IngestMessage
  <2> QED BY <1>10, <2>1, <2>3, PostInFlight DEF SyncPosts
<1>11. ASSUME NEW a \in Attempts, Syncing(a) PROVE InFlight'
  BY <1>11, SettleInFlight DEF Syncing, SyncReceives, SyncFails, Ending
<1>12. CASE Stop
  <2>1. mailbox' = mailbox /\ replies' = replies /\ pending' = pending
    BY <1>12 DEF Stop, Terminate
  <2> QED BY <1>2, <1>5, <1>12, <2>1 DEF Stop, Terminate, InFlight, Ending
<1>13. CASE CloseVault \/ Crash \/ WorkerFails \/ WorkerExits
  BY <1>2, <1>13 DEF CloseVault, Crash, Gone, WorkerFails, Fail, WorkerExits, Exit
<1>14. CASE WorkerServes \/ WorkerErrs
  BY <1>14, TakeInFlight DEF WorkerServes, Serve, WorkerErrs, ServeFails
<1>15. ASSUME NEW c \in Calls, NewAddress(c) \/ ImportKey(c) \/ Restore(c) \/ Throws(c)
       PROVE  UNCHANGED client
  BY <1>15 DEF NewAddress, ImportKey, Restore, Accept, Throws
<1>16. CASE Open \/ Preparing \/ BeginRescan \/ Quarantine \/ Close \/ Drained \/ Damage \/ Mine
            \/ SyncStarts \/ SyncStops \/ SyncEnds \/ UNCHANGED vars
  BY <1>1, <1>16 DEF Open, Preparing, Connect, VaultOpens, VaultFails, IndexFails, Release,
                     BeginRescan, Quarantine, Close, Drained, Damage, Mine,
                     SyncStarts, SyncStops, SyncEnds, vars
<1> QED BY <1>0, <1>1, <1>3, <1>4, <1>6, <1>7, <1>8, <1>9, <1>10, <1>11, <1>12, <1>13, <1>14, <1>15, <1>16,
           StartWorkerIs
        DEF Next, Opening, Calling, Closing, Preparing

Draining == \A c \in drain : call[c] # NoCall

LEMMA DrainingInv == ASSUME TypeOK, Draining, [Next]_vars PROVE Draining'
<1>1. call \in [Calls -> [phase : {"idle", "accepted", "awaiting"},
                          op : {"none", "create", "import", "restore"}, keys : SUBSET Keys]]
      /\ drain \subseteq Calls
  BY DEF TypeOK, ProcessType
<1>2. ASSUME UNCHANGED <<call, drain>> PROVE Draining'
  BY <1>2 DEF Draining
<1>3. ASSUME NEW c \in Calls, NewAddress(c) \/ ImportKey(c) \/ Restore(c) PROVE Draining'
  <2>1. drain' = drain /\ call[c] = NoCall /\ \A d \in Calls : d # c => call'[d] = call[d]
    BY <1>1, <1>3 DEF NewAddress, ImportKey, Restore, Accept
  <2> QED BY <1>1, <2>1 DEF Draining
<1>4. ASSUME NEW c \in Calls, Runs(c) PROVE Draining'
  <2>1. drain' = drain /\ call' = [call EXCEPT ![c] = Call("awaiting", "none", @.keys \cap Fresh)]
    BY <1>4 DEF Runs
  <2>2. call'[c] # NoCall /\ \A d \in Calls : d # c => call'[d] = call[d]
    BY <1>1, <2>1 DEF Call, NoCall
  <2> QED BY <1>1, <2>1, <2>2 DEF Draining
<1>5. ASSUME NEW c \in Calls, Throws(c) \/ Proceeds(c) \/ Rejects(c) PROVE Draining'
  <2>1. CASE UNCHANGED <<call, drain>>
    BY <1>2, <2>1
  <2>2. CASE call' = [call EXCEPT ![c] = NoCall] /\ drain' = drain \ {c}
    BY <1>1, <2>2 DEF Draining
  <2> QED BY <1>5, <2>1, <2>2 DEF Throws, Proceeds, Rejects
<1>6. CASE Close
  BY <1>6 DEF Close, Draining
<1>7. CASE Crash
  BY <1>7 DEF Crash, Draining
<1>8. CASE Opening \/ (\E a \in Attempts : Syncing(a)) \/ Closing
  BY <1>2, <1>8 DEF Opening, Connect, VaultOpens, VaultFails, BeginRescan, IndexFails,
              Quarantine, StartWorker, OpenProceeds, OpenFails, Syncing, SyncReceives,
                    SyncFails, Closing, Drained, Stop, CloseVault, Release
<1>9. CASE Open \/ BeginRescan \/ SyncStarts \/ SyncPosts \/ SyncStops \/ SyncEnds \/ Damage \/ Mine
  BY <1>2, <1>9 DEF Open, BeginRescan, SyncStarts, SyncPosts, SyncStops, SyncEnds, Damage, Mine, process
<1>10. CASE WorkerServes \/ WorkerErrs \/ WorkerFails \/ WorkerExits \/ UNCHANGED vars
  BY <1>2, <1>10 DEF WorkerServes, WorkerErrs, WorkerFails, WorkerExits, process, vars
<1> QED BY <1>3, <1>4, <1>5, <1>6, <1>7, <1>8, <1>9, <1>10 DEF Next, Calling

\* The request of an open promise is with the worker or answered, unless the worker is about
\* to end and to reject it; a worker that ended has left none open; and close() waits for no
\* call that has settled.
THEOREM NobodyIsForgotten == Spec => []NothingForgotten
<1>1. Init => InFlight /\ Draining
  BY DEF Init, InFlight, Draining
<1>2. TypeOK /\ Lifecycle /\ InFlight /\ Draining /\ [Next]_vars => InFlight' /\ Draining'
  BY InFlightInv, DrainingInv
<1>3. TypeOK /\ Lifecycle /\ InFlight /\ Draining => NothingForgotten
  <2> SUFFICES ASSUME Lifecycle, InFlight, Draining PROVE NothingForgotten
    OBVIOUS
  <2>1. worker = "exited" => pending = {}
    BY DEF InFlight, Ending, Lifecycle, Holds
  <2> QED BY <2>1 DEF InFlight, Draining, Ending, NothingForgotten
<1> QED BY <1>1, <1>2, <1>3, LifeCorrect, PTL DEF Spec
=============================================================================
