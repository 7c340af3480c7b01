------------------------- MODULE WithdrawalsProofs -------------------------
(***************************************************************************)
(* The safety of the spending side, for any wallets, requests, coins,      *)
(* forms and bounds.                                                       *)
(***************************************************************************)
EXTENDS Withdrawals, SequenceTheorems, TLAPS

-----------------------------------------------------------------------------
\* Sequences: what the updates of the tables preserve.

LEMMA FunctionIsSeq ==
  ASSUME NEW S, NEW n \in Nat, NEW f \in [1 .. n -> S]
  PROVE  f \in Seq(S) /\ Len(f) = n
BY SeqDef

LEMMA AppendSeq ==
  ASSUME NEW S, NEW s \in Seq(S), NEW e \in S
  PROVE  /\ Append(s, e) \in Seq(S)
         /\ Len(Append(s, e)) = Len(s) + 1
         /\ Append(s, e)[Len(s) + 1] = e
         /\ \A i \in 1 .. Len(s) : Append(s, e)[i] = s[i]
OBVIOUS

\* A finished job leaves nothing behind.
LEMMA FinishType ==
  ASSUME TypeOK, queue # <<>>, Finish
  PROVE  /\ queue' \in Seq(Job) /\ Len(queue') = Len(queue) - 1
         /\ \A i \in 1 .. Len(queue') : queue'[i] = queue[i + 1]
         /\ stage' = "waiting" /\ payment' = NoPayment
BY HeadTailProperties DEF TypeOK, Finish

LEMMA LiftType ==
  ASSUME TypeOK, NEW h, NEW ws, Lift(h, ws)
  PROVE  /\ queue' \in Seq(Job) /\ Len(queue') = Len(queue)
         /\ \A i \in 1 .. Len(queue) :
              /\ queue'[i].wallet = queue[i].wallet
              /\ queue'[i].request = queue[i].request
              /\ queue'[i].form = queue[i].form
              /\ queue'[i].hold = IF queue[i].wallet \in ws THEN queue[i].hold \ {h}
                                  ELSE queue[i].hold
<1>1. queue \in Seq(Job) /\ Len(queue) \in Nat
  BY DEF TypeOK
<1>2. ASSUME NEW i \in 1 .. Len(queue)
      PROVE  (IF queue[i].wallet \in ws THEN [queue[i] EXCEPT !.hold = @ \ {h}] ELSE queue[i]) \in Job
  <2>1. queue[i] \in Job
    BY <1>1, ElementOfSeq
  <2> QED BY <2>1 DEF Job
<1>3. queue' \in [1 .. Len(queue) -> Job]
  BY <1>2 DEF Lift
<1>4. queue' \in Seq(Job) /\ Len(queue') = Len(queue)
  BY <1>1, <1>3, FunctionIsSeq
<1>5. ASSUME NEW i \in 1 .. Len(queue) PROVE queue[i] \in Job
  BY <1>1, ElementOfSeq
<1> QED BY <1>4, <1>5 DEF Lift, Job

\* A reconciled table has the same payments in other states.
LEMMA ReconcileType ==
  ASSUME TypeOK, NEW w, NEW n, Reconcile(w, n)
  PROVE  /\ outgoing' \in Seq(Row) /\ Len(outgoing') = Len(outgoing)
         /\ \A i \in 1 .. Len(outgoing) :
              /\ outgoing'[i].wallet = outgoing[i].wallet
              /\ outgoing'[i].request = outgoing[i].request
              /\ outgoing'[i].tx = outgoing[i].tx
              /\ outgoing'[i].state = "confirmed" =>
                    \/ outgoing[i].tx \in Mined(n)
                    \/ outgoing[i].state = "confirmed"
<1>1. outgoing \in Seq(Row) /\ Len(outgoing) \in Nat
  BY DEF TypeOK
<1>2. ASSUME NEW i \in 1 .. Len(outgoing) PROVE outgoing[i] \in Row
  BY <1>1, ElementOfSeq
<1>3. ASSUME NEW i \in 1 .. Len(outgoing)
      PROVE  (IF outgoing[i].wallet = w
                THEN [outgoing[i] EXCEPT !.state = Reconciled(outgoing[i], n)]
                ELSE outgoing[i]) \in Row
  BY <1>2 DEF Row, Reconciled, States
<1>4. outgoing' \in [1 .. Len(outgoing) -> Row]
  BY <1>3 DEF Reconcile
<1>5. outgoing' \in Seq(Row) /\ Len(outgoing') = Len(outgoing)
  BY <1>1, <1>4, FunctionIsSeq
<1> QED BY <1>2, <1>5 DEF Reconcile, Row, Reconciled

\* A reply taken from the mailbox.
LEMMA RepliedType ==
  ASSUME TypeOK, NEW for, Replied(for)
  PROVE  /\ Head(calls) \in Call /\ Head(calls) = calls[1]
         /\ calls' \in Seq(Call) /\ Len(calls') = Len(calls) - 1
         /\ \A i \in 1 .. Len(calls') : calls'[i] = calls[i + 1]
BY HeadTailProperties DEF TypeOK, Replied

LEMMA AskType ==
  ASSUME TypeOK, NEW w \in Wallets, NEW for \in {"send", "read"}, Ask(w, for)
  PROVE  /\ calls' \in Seq(Call) /\ Len(calls') = Len(calls) + 1
         /\ calls'[Len(calls) + 1].wallet = w /\ calls'[Len(calls) + 1].for = for
         /\ calls'[Len(calls) + 1].rescan = (w \in needsRescan)
         /\ calls'[Len(calls) + 1].reply = Unanswered
         /\ \A i \in 1 .. Len(calls) : calls'[i] = calls[i]
<1>1. [wallet |-> w, for |-> for, rescan |-> w \in needsRescan, reply |-> Unanswered] \in Call
  BY DEF Call
<1>2. calls \in Seq(Call)
  BY DEF TypeOK
<1> QED BY <1>1, <1>2, AppendSeq DEF Ask

-----------------------------------------------------------------------------
\* The types.

LEMMA EnvironmentType == ASSUME TypeOK, Environment PROVE TypeOK'
<1> USE DEF vault, world, service
<1>1. ASSUME NEW coins \in SUBSET Coins, NEW txs \in SUBSET network, Mine(coins, txs) PROVE TypeOK'
  <2>1. [coins |-> coins, txs |-> txs] \in Block
    BY DEF TypeOK, Block
  <2> QED BY <1>1, <2>1, AppendSeq DEF Mine, TypeOK
<1>2. ASSUME NEW b \in BOOLEAN, SetFresh(b) PROVE TypeOK'
  BY <1>2 DEF SetFresh, TypeOK
<1>3. ASSUME NEW w \in Wallets, NEW c \in Coins, LockCoin(w, c) \/ UnlockCoin(w, c) PROVE TypeOK'
  <2>1. CASE LockCoin(w, c)
    BY <2>1 DEF LockCoin, TypeOK
  <2>2. CASE UnlockCoin(w, c)
    BY <2>2, LiftType DEF UnlockCoin, TypeOK
  <2> QED BY <1>3, <2>1, <2>2
<1>4. CASE PauseSpending
  BY <1>4 DEF PauseSpending, TypeOK
<1>5. CASE ResumeSpending
  <2>1. /\ queue' \in Seq(Job) /\ Len(queue') = Len(queue)
        /\ UNCHANGED <<outgoing, reservations, coinLocks, needsRescan, world,
                       stage, payment, calls, relays, fresh>>
        /\ paused' = FALSE
    BY <1>5, LiftType DEF ResumeSpending
  <2> QED BY <2>1, EmptySeq DEF TypeOK
<1>6. ASSUME NEW w \in Wallets, ImportKey(w) \/ Read(w) PROVE TypeOK'
  <2>1. CASE ImportKey(w)
    BY <2>1 DEF ImportKey, TypeOK
  <2>2. CASE Read(w)
    BY <2>2, AskType DEF Read, TypeOK
  <2> QED BY <1>6, <2>1, <2>2
<1>7. ASSUME NEW ws \in SUBSET Wallets, RescanDone(ws) PROVE TypeOK'
  BY <1>7, LiftType DEF RescanDone, TypeOK
<1>8. ASSUME NEW w \in Wallets, NEW r \in Requests, NEW f \in Forms, NEW e \in Reviewed,
             Send(w, r, f, e)
      PROVE TypeOK'
  <2>1. [wallet |-> w, request |-> r, form |-> f, expected |-> e, hold |-> HoldsOn(w)] \in Job
    BY DEF Job, HoldsOn, Holds
  <2> QED BY <1>8, <2>1, AppendSeq DEF Send, TypeOK
<1>9. ASSUME NEW i \in 1 .. Len(outgoing), Rebroadcast(i) PROVE TypeOK'
  <2>1. relays[i] \in Nat
    BY ElementOfSeq DEF TypeOK
  <2> QED BY <1>9, <2>1, ExceptSeq DEF Rebroadcast, TypeOK
<1>10. ASSUME NEW rescan \in BOOLEAN, Reopen(rescan) PROVE TypeOK'
  <2>1. relays' \in [1 .. Len(outgoing) -> Nat] /\ Len(outgoing) \in Nat /\ Len(chain) \in Nat
    BY <1>10 DEF Reopen, TypeOK
  <2>2. relays' \in Seq(Nat) /\ Len(relays') = Len(outgoing)
    BY <2>1, FunctionIsSeq
  <2>3. indexed' \in 0 .. Len(chain) /\ needsRescan' \in SUBSET Wallets
    BY <1>10, <2>1 DEF Reopen, TypeOK
  <2>4. /\ queue' = <<>> /\ stage' = "waiting" /\ payment' = NoPayment /\ calls' = <<>>
        /\ fresh' = FALSE
        /\ UNCHANGED <<outgoing, reservations, coinLocks, paused, network, chain>>
    BY <1>10 DEF Reopen
  <2>5. <<>> \in Seq(Job) /\ <<>> \in Seq(Call)
    BY EmptySeq
  <2> QED BY <2>2, <2>3, <2>4, <2>5 DEF TypeOK
<1> QED BY <1>1, <1>2, <1>3, <1>4, <1>5, <1>6, <1>7, <1>8, <1>9, <1>10 DEF Environment

LEMMA WorkerType == ASSUME TypeOK, Worker PROVE TypeOK'
<1> USE DEF vault, world, service
<1>1. CASE Ingest
  BY <1>1 DEF Ingest, TypeOK
<1>2. CASE Answer
  <2> PICK i \in 1 .. Len(calls), reply \in {indexed, Failed} :
        /\ calls' = [calls EXCEPT ![i].reply = reply]
        /\ UNCHANGED <<vault, world, queue, stage, payment, relays, fresh>>
    BY <1>2 DEF Answer
  <2>1. calls[i] \in Call /\ reply \in Nat \cup {Failed}
    BY ElementOfSeq DEF TypeOK
  <2>2. [calls[i] EXCEPT !.reply = reply] \in Call
    BY <2>1 DEF Call
  <2>3. calls' \in Seq(Call)
    BY <2>2, ExceptSeq DEF TypeOK
  <2> QED BY <2>3 DEF TypeOK
<1> QED BY <1>1, <1>2 DEF Worker


\* The last step of every job, whatever became of it.
LEMMA FinishStep ==
  ASSUME TypeOK, queue # <<>>, Finish,
         calls' \in Seq(Call), outgoing' \in Seq(Row), relays' \in Seq(Nat),
         Len(relays') = Len(outgoing'), reservations' \in SUBSET (Coins \X Nat),
         UNCHANGED <<coinLocks, paused, needsRescan, world, fresh>>
  PROVE  TypeOK'
BY FinishType DEF TypeOK, world

LEMMA ReadDoneType == ASSUME TypeOK, ReadDone PROVE TypeOK'
<1>1. CASE Delivered("read")
  BY <1>1, RepliedType, ReconcileType DEF ReadDone, Delivered, TypeOK, world
<1>2. CASE CallFailed("read")
  BY <1>2, RepliedType DEF ReadDone, CallFailed, TypeOK, world
<1> QED BY <1>1, <1>2 DEF ReadDone

\* While a send awaits its snapshot or holds a payment, its job heads the queue.
LEMMA Job1Type == ASSUME TypeOK, queue # <<>> PROVE Job1 \in Job /\ Job1 = queue[1]
BY HeadTailProperties DEF TypeOK, Job1


\* At most one snapshot is under way for a send, and it is the head job's.
SendAwaits ==
    \A i \in 1 .. Len(calls) : calls[i].for = "send" =>
        /\ stage = "snapshot"
        /\ calls[i].wallet = Job1.wallet
        /\ \A j \in 1 .. Len(calls) : calls[j].for = "send" => i = j

\* No reply speaks of blocks that do not exist.
RepliesExist == \A i \in 1 .. Len(calls) : calls[i].reply <= Len(chain)

\* A prefix of the chain holds transactions and coins of the model, and no more of
\* them than the chain.
LEMMA PrefixType ==
  ASSUME TypeOK, NEW n \in Int, n <= Len(chain)
  PROVE  /\ Mined(n) \subseteq Tx /\ Mined(n) \subseteq Mined(Len(chain))
         /\ Arrived(n) \subseteq Coins /\ Arrived(n) \subseteq Arrived(Len(chain))
<1>1. Len(chain) \in Nat /\ \A k \in 1 .. Len(chain) : chain[k] \in Block
  BY ElementOfSeq DEF TypeOK
<1>2. \A k \in 1 .. n : k \in 1 .. Len(chain)
  BY <1>1
<1> QED BY <1>1, <1>2 DEF Mined, Arrived, Block

LEMMA SendReply ==
  ASSUME TypeOK, SendAwaits, Replied("send")
  PROVE  /\ stage = "snapshot" /\ queue # <<>> /\ Job1 \in Job /\ Job1 = queue[1]
         /\ Head(calls) \in Call /\ Head(calls) = calls[1] /\ Head(calls).wallet = Job1.wallet
         /\ calls' \in Seq(Call) /\ Len(calls') = Len(calls) - 1
         /\ \A i \in 1 .. Len(calls') : calls'[i] = calls[i + 1] /\ calls'[i].for # "send"
<1>1. Len(calls) \in Nat \ {0}
  BY EmptySeq DEF Replied, TypeOK
<1>2. /\ Head(calls) \in Call /\ Head(calls) = calls[1]
      /\ calls' \in Seq(Call) /\ Len(calls') = Len(calls) - 1
      /\ \A i \in 1 .. Len(calls') : calls'[i] = calls[i + 1]
  BY RepliedType
<1>3. calls[1].for = "send"
  BY <1>2 DEF Replied
<1>4. stage = "snapshot" /\ calls[1].wallet = Job1.wallet
  BY <1>1, <1>3 DEF SendAwaits
<1>5. \A i \in 1 .. Len(calls') : calls'[i].for # "send"
  BY <1>1, <1>2, <1>3 DEF SendAwaits
<1> QED BY <1>2, <1>4, <1>5, Job1Type DEF TypeOK

\* The height a reply speaks of is one the chain has.
LEMMA ReplyBounded ==
  ASSUME TypeOK, RepliesExist, NEW for, Replied(for)
  PROVE  Head(calls).reply \in Int /\ Head(calls).reply <= Len(chain)
<1>1. Head(calls) \in Call /\ Head(calls) = calls[1]
  BY RepliedType
<1>2. 1 \in 1 .. Len(calls)
  BY EmptySeq DEF Replied, TypeOK
<1>3. calls[1].reply <= Len(chain)
  BY <1>2 DEF RepliesExist
<1>4. Head(calls).reply \in Int
  BY <1>1 DEF Call, Unanswered, Failed
<1> QED BY <1>1, <1>3, <1>4

LEMMA BuildType ==
  ASSUME TypeOK, SendAwaits, RepliesExist, Build
  PROVE  /\ payment' \in Tx /\ payment'.form = Job1.form
         /\ payment'.coins \in Choices(Job1.wallet, Job1.form, Head(calls).reply)
         /\ TypeOK'
<1> USE FormAssumption DEF Build, Delivered
<1>1. /\ stage = "snapshot" /\ queue # <<>> /\ Job1 \in Job
      /\ calls' \in Seq(Call)
  BY SendReply
<1>2. PICK coins \in Choices(Job1.wallet, Job1.form, Head(calls).reply) :
        payment' = [form |-> Job1.form, coins |-> coins]
  OBVIOUS
<1>3. coins \subseteq Coins
  <2>1. Head(calls).reply \in Int /\ Head(calls).reply <= Len(chain)
    BY ReplyBounded
  <2>2. Arrived(Head(calls).reply) \subseteq Coins
    BY <2>1, PrefixType
  <2> QED BY <1>2, <2>2 DEF Choices, Spendable, Unspent
<1>4. payment' \in Tx
  BY <1>1, <1>2, <1>3 DEF Tx, Job
<1>5. outgoing' \in Seq(Row) /\ Len(outgoing') = Len(outgoing)
  BY ReconcileType
<1>6. payment' # NoPayment
  BY <1>4, NoPaymentAssumption
<1> QED BY <1>1, <1>2, <1>4, <1>5, <1>6 DEF TypeOK, world


\* What reserve() leaves in the tables: nothing new, or one row for an unused
\* request with the reservations of inputs that had none.
Rejected ==
    /\ UNCHANGED <<outgoing, reservations>>
    /\ relays' \in Seq(Nat) /\ Len(relays') = Len(outgoing)
Saved ==
    LET row == [wallet |-> Job1.wallet, request |-> Job1.request,
                tx |-> payment, state |-> "queued"]
    IN  /\ SavedAs(Job1.wallet, Job1.request) = {}
        /\ \A r \in reservations : r[1] \notin payment.coins
        /\ row \in Row
        /\ outgoing' = Append(outgoing, row)
        /\ reservations' = reservations \cup (payment.coins \X {Len(outgoing) + 1})
        /\ relays' = Append(relays, 1)

LEMMA ReserveEffect ==
  ASSUME TypeOK, Reserve
  PROVE  /\ stage = "built" /\ queue # <<>> /\ payment \in Tx /\ Job1 \in Job
         /\ Rejected \/ Saved
         /\ Finish /\ UNCHANGED <<coinLocks, paused, needsRescan, world, calls, fresh>>
<1>1. stage = "built" /\ queue # <<>> /\ payment \in Tx /\ Job1 \in Job
  BY Job1Type DEF Reserve, TypeOK
<1>2. [wallet |-> Job1.wallet, request |-> Job1.request,
       tx |-> payment, state |-> "queued"] \in Row
  BY <1>1 DEF Row, Job, States
<1>3. relays \in Seq(Nat) /\ Len(relays) = Len(outgoing) /\ Len(outgoing) \in Nat
  BY DEF TypeOK
<1>4. ASSUME SavedAs(Job1.wallet, Job1.request) # {} PROVE Rejected
  <2>1. UNCHANGED <<outgoing, reservations>>
    BY <1>4 DEF Reserve
  <2>2. \A i \in 1 .. Len(outgoing) : relays[i] \in Nat /\ relays[i] + 1 \in Nat
    BY <1>3
  <2>3. relays' \in [1 .. Len(outgoing) -> Nat]
    BY <1>4, <2>2 DEF Reserve
  <2>4. relays' \in Seq(Nat) /\ Len(relays') = Len(outgoing)
    BY <1>3, <2>3
  <2> QED BY <2>1, <2>4 DEF Rejected
<1>5. ASSUME SavedAs(Job1.wallet, Job1.request) = {} PROVE Rejected \/ Saved
  BY <1>2, <1>3, <1>5 DEF Reserve, Rejected, Saved, ReservedFor
<1> QED BY <1>1, <1>4, <1>5 DEF Reserve

LEMMA ReserveType == ASSUME TypeOK, Reserve PROVE TypeOK'
<1>1. /\ queue # <<>> /\ payment \in Tx /\ (Rejected \/ Saved)
      /\ Finish /\ UNCHANGED <<coinLocks, paused, needsRescan, world, calls, fresh>>
  BY ReserveEffect
<1>2. /\ calls \in Seq(Call) /\ outgoing \in Seq(Row) /\ relays \in Seq(Nat)
      /\ Len(relays) = Len(outgoing) /\ Len(outgoing) \in Nat
      /\ reservations \in SUBSET (Coins \X Nat)
  BY DEF TypeOK
<1>3. CASE Rejected
  BY <1>1, <1>2, <1>3, FinishStep DEF Rejected
<1>4. CASE Saved
  <2>1. PICK row \in Row : outgoing' = Append(outgoing, row)
    BY <1>4 DEF Saved
  <2>2. outgoing' \in Seq(Row) /\ Len(outgoing') = Len(outgoing) + 1
    BY <1>2, <2>1, AppendSeq
  <2>3. relays' \in Seq(Nat) /\ Len(relays') = Len(relays) + 1
    BY <1>2, <1>4, AppendSeq DEF Saved
  <2>4. reservations' \in SUBSET (Coins \X Nat)
    <3>1. payment.coins \subseteq Coins
      BY <1>1 DEF Tx
    <3> QED BY <1>2, <1>4, <3>1 DEF Saved
  <2> QED BY <1>1, <1>2, <2>2, <2>3, <2>4, FinishStep
<1> QED BY <1>1, <1>3, <1>4

LEMMA QueueType == ASSUME TypeOK, SendAwaits, RepliesExist, Queue PROVE TypeOK'
<1>1. CASE SendAgain
  BY <1>1, FinishStep DEF SendAgain, Starting, TypeOK, vault
<1>2. CASE SendRefused
  BY <1>2, FinishStep DEF SendRefused, Starting, TypeOK, vault
<1>3. CASE SendStarts
  <2>1. Job1.wallet \in Wallets
    BY <1>3, Job1Type DEF SendStarts, Starting, Job
  <2> QED BY <1>3, <2>1, AskType DEF SendStarts, Starting, TypeOK, vault, world
<1>4. CASE BuildFails
  <2>1. queue # <<>> /\ calls' \in Seq(Call)
    BY <1>4, SendReply DEF BuildFails, Delivered, CallFailed
  <2>2. outgoing' \in Seq(Row) /\ Len(outgoing') = Len(outgoing)
    BY <1>4, ReconcileType DEF BuildFails, Delivered, CallFailed, TypeOK
  <2> QED BY <1>4, <2>1, <2>2, FinishStep DEF BuildFails, TypeOK
<1>5. CASE Build
  BY <1>5, BuildType
<1>6. CASE Reserve
  BY <1>6, ReserveType
<1> QED BY <1>1, <1>2, <1>3, <1>4, <1>5, <1>6 DEF Queue

\* The end of a broadcast rewrites one state.
LEMMA RelayEndsEffect ==
  ASSUME TypeOK, NEW i \in 1 .. Len(outgoing), NEW state \in States, RelayEnds(i, state)
  PROVE  /\ outgoing' \in Seq(Row) /\ Len(outgoing') = Len(outgoing)
         /\ \A j \in 1 .. Len(outgoing) :
              /\ outgoing'[j].wallet = outgoing[j].wallet
              /\ outgoing'[j].request = outgoing[j].request
              /\ outgoing'[j].tx = outgoing[j].tx
              /\ outgoing'[j].state = IF j = i THEN state ELSE outgoing[j].state
         /\ relays' \in Seq(Nat) /\ Len(relays') = Len(relays)
<1>1. outgoing \in Seq(Row) /\ relays \in Seq(Nat) /\ i \in 1 .. Len(relays)
  BY DEF TypeOK
<1>2. \A j \in 1 .. Len(outgoing) : outgoing[j] \in Row
  BY <1>1, ElementOfSeq
<1>3. [outgoing[i] EXCEPT !.state = state] \in Row
  BY <1>2 DEF Row
<1>4. relays[i] \in Nat
  BY <1>1, ElementOfSeq
<1>5. relays[i] - 1 \in Nat
  BY <1>4 DEF RelayEnds
<1>6. outgoing' = [outgoing EXCEPT ![i] = [outgoing[i] EXCEPT !.state = state]]
  BY <1>1 DEF RelayEnds
<1>7. relays' = [relays EXCEPT ![i] = relays[i] - 1]
  BY DEF RelayEnds
<1>8. /\ outgoing' \in Seq(Row) /\ Len(outgoing') = Len(outgoing)
      /\ \A j \in 1 .. Len(outgoing) :
           outgoing'[j] = IF j = i THEN [outgoing[i] EXCEPT !.state = state] ELSE outgoing[j]
  BY <1>1, <1>3, <1>6, ExceptSeq
<1>9. relays' \in Seq(Nat) /\ Len(relays') = Len(relays)
  BY <1>1, <1>5, <1>7, ExceptSeq
<1> QED BY <1>2, <1>8, <1>9 DEF Row

LEMMA RelayType == ASSUME TypeOK, Relay PROVE TypeOK'
<1> PICK i \in 1 .. Len(outgoing) : Publish(i) \/ Relayed(i) \/ RelayUncertain(i)
  BY DEF Relay
<1>1. CASE Publish(i)
  <2>1. outgoing[i] \in Row
    BY ElementOfSeq DEF TypeOK
  <2>2. outgoing[i].tx \in Tx
    BY <2>1 DEF Row
  <2> QED BY <1>1, <2>2 DEF Publish, TypeOK, vault, service
<1>2. ASSUME NEW state \in States, RelayEnds(i, state) PROVE TypeOK'
  BY <1>2, RelayEndsEffect DEF RelayEnds, TypeOK, world
<1> QED BY <1>1, <1>2 DEF Relayed, RelayUncertain, States

LEMMA TypeStep == ASSUME TypeOK, SendAwaits, RepliesExist, [Next]_vars PROVE TypeOK'
<1>1. CASE UNCHANGED vars
  BY <1>1 DEF vars, vault, world, service, TypeOK
<1> QED BY <1>1, EnvironmentType, WorkerType, QueueType, ReadDoneType, RelayType DEF Next


-----------------------------------------------------------------------------
\* The mailbox.

LEMMA AwaitsKept ==
  ASSUME TypeOK, TypeOK', SendAwaits, UNCHANGED stage,
         \A i \in 1 .. Len(calls') : calls'[i].for = "send" =>
             i \in 1 .. Len(calls) /\ calls[i].for = "send" /\ calls'[i].wallet = calls[i].wallet,
         queue # <<>> => queue' # <<>> /\ queue'[1].wallet = queue[1].wallet
  PROVE  SendAwaits'
<1> SUFFICES ASSUME NEW i \in 1 .. Len(calls'), calls'[i].for = "send"
             PROVE  /\ stage' = "snapshot" /\ calls'[i].wallet = Job1'.wallet
                    /\ \A j \in 1 .. Len(calls') : calls'[j].for = "send" => i = j
  BY DEF SendAwaits
<1>1. /\ i \in 1 .. Len(calls) /\ calls[i].for = "send" /\ stage = "snapshot"
      /\ calls'[i].wallet = Job1.wallet
  BY DEF SendAwaits
<1>2. queue # <<>> /\ queue' # <<>>
  BY <1>1 DEF TypeOK
<1>3. Job1 = queue[1]
  BY <1>2, Job1Type
<1>4. Job1' = queue'[1]
  BY <1>2, HeadTailProperties DEF TypeOK, Job1
<1> QED BY <1>1, <1>2, <1>3, <1>4 DEF SendAwaits

LEMMA AwaitsStep == ASSUME TypeOK, TypeOK', SendAwaits, [Next]_vars PROVE SendAwaits'
<1> USE DEF vault, world, service
<1>1. ASSUME UNCHANGED <<queue, stage, calls>> PROVE SendAwaits'
  BY <1>1, AwaitsKept
<1>2. ASSUME NEW h, NEW ws, Lift(h, ws), UNCHANGED <<stage, calls>> PROVE SendAwaits'
  <2>1. queue # <<>> => Len(queue) \in Nat \ {0}
    BY EmptySeq DEF TypeOK
  <2>2. /\ Len(queue') = Len(queue)
        /\ \A i \in 1 .. Len(queue) : queue'[i].wallet = queue[i].wallet
    BY <1>2, LiftType
  <2>3. queue # <<>> => queue' # <<>> /\ queue'[1].wallet = queue[1].wallet
    BY <2>1, <2>2, EmptySeq
  <2> QED BY <1>2, <2>3, AwaitsKept
<1>3. CASE Environment
  <2>1. ASSUME NEW w \in Wallets, NEW r \in Requests, NEW f \in Forms, NEW e \in Reviewed,
               Send(w, r, f, e)
        PROVE  SendAwaits'
    <3>1. queue \in Seq(Job) /\ queue' # <<>> /\ (queue # <<>> => queue'[1] = queue[1])
      BY <2>1, EmptySeq DEF Send, TypeOK
    <3> QED BY <2>1, <3>1, AwaitsKept DEF Send
  <2>2. ASSUME NEW w \in Wallets, Read(w) PROVE SendAwaits'
    <3>1. \A i \in 1 .. Len(calls') : calls'[i].for = "send" =>
             i \in 1 .. Len(calls) /\ calls'[i] = calls[i]
      <4>1. /\ Len(calls) \in Nat /\ Len(calls') = Len(calls) + 1
            /\ calls'[Len(calls) + 1].for = "read"
            /\ \A i \in 1 .. Len(calls) : calls'[i] = calls[i]
        <5>1. Ask(w, "read") /\ Len(calls) \in Nat
          BY <2>2 DEF Read, TypeOK
        <5> QED BY <5>1, AskType
      <4> QED BY <4>1
    <3> QED BY <2>2, <3>1, AwaitsKept DEF Read
  <2>3. ASSUME NEW rescan \in BOOLEAN, Reopen(rescan) PROVE SendAwaits'
    BY <2>3 DEF Reopen, SendAwaits
  <2>4. ASSUME NEW w \in Wallets, NEW c \in Coins, LockCoin(w, c) \/ UnlockCoin(w, c)
        PROVE  SendAwaits'
    BY <2>4, <1>1, <1>2 DEF LockCoin, UnlockCoin
  <2>5. CASE PauseSpending \/ ResumeSpending
    BY <2>5, <1>1, <1>2 DEF PauseSpending, ResumeSpending
  <2>6. ASSUME NEW ws \in SUBSET Wallets, RescanDone(ws) PROVE SendAwaits'
    BY <2>6, <1>2 DEF RescanDone
  <2> QED BY <1>3, <1>1, <2>1, <2>2, <2>3, <2>4, <2>5, <2>6
          DEF Environment, Mine, SetFresh, ImportKey, Rebroadcast
<1>4. CASE Worker
  <2>1. CASE Answer
    <3> PICK i \in 1 .. Len(calls), reply \in {indexed, Failed} :
          /\ calls' = [calls EXCEPT ![i].reply = reply]
          /\ UNCHANGED <<vault, world, queue, stage, payment, relays, fresh>>
      BY <2>1 DEF Answer
    <3>1. /\ Len(calls') = Len(calls)
          /\ \A j \in 1 .. Len(calls) : calls'[j].for = calls[j].for /\ calls'[j].wallet = calls[j].wallet
      <4>1. \A j \in 1 .. Len(calls) : calls[j] \in Call
        BY ElementOfSeq DEF TypeOK
      <4>2. [calls[i] EXCEPT !.reply = reply] \in Call
        BY ElementOfSeq DEF TypeOK
      <4> QED BY <4>1, <4>2 DEF TypeOK, Call
    <3> QED BY <3>1, AwaitsKept
  <2> QED BY <1>4, <2>1, <1>1 DEF Worker, Ingest
<1>5. CASE Queue
  <2>1. CASE SendStarts
    <3>1. Job1.wallet \in Wallets
      BY <2>1, Job1Type DEF SendStarts, Starting, Job
    <3>2. /\ Len(calls') = Len(calls) + 1 /\ Len(calls) \in Nat
          /\ calls'[Len(calls) + 1].wallet = Job1.wallet
          /\ \A i \in 1 .. Len(calls) : calls'[i].for # "send"
      <4>1. Len(calls) \in Nat
        BY DEF TypeOK
      <4>2. \A i \in 1 .. Len(calls) : calls[i].for # "send"
        BY <2>1 DEF SendStarts, Starting, SendAwaits
      <4>3. /\ Len(calls') = Len(calls) + 1
            /\ calls'[Len(calls) + 1].wallet = Job1.wallet
            /\ \A i \in 1 .. Len(calls) : calls'[i] = calls[i]
        <5>1. Ask(Job1.wallet, "send")
          BY <2>1 DEF SendStarts
        <5> QED BY <3>1, <5>1, AskType
      <4> QED BY <4>1, <4>2, <4>3
    <3>3. Job1' = Job1 /\ stage' = "snapshot"
      BY <2>1 DEF SendStarts, Job1
    <3> QED BY <3>2, <3>3 DEF SendAwaits
  <2>2. CASE SendAgain \/ SendRefused
    <3>1. stage = "waiting" /\ stage' = "waiting" /\ calls' = calls
      BY <2>2 DEF SendAgain, SendRefused, Starting, Finish
    <3> QED BY <3>1 DEF SendAwaits
  <2>3. CASE BuildFails \/ Build
    <3>1. \A i \in 1 .. Len(calls') : calls'[i].for # "send"
      BY <2>3, SendReply DEF BuildFails, Build, Delivered, CallFailed
    <3> QED BY <3>1 DEF SendAwaits
  <2>4. CASE Reserve
    <3>1. stage = "built" /\ calls' = calls
      BY <2>4 DEF Reserve
    <3> QED BY <3>1 DEF SendAwaits
  <2> QED BY <1>5, <2>1, <2>2, <2>3, <2>4 DEF Queue
<1>6. CASE ReadDone
  <2>1. Replied("read") /\ UNCHANGED <<queue, stage>>
    BY <1>6 DEF ReadDone, Delivered, CallFailed
  <2>2. /\ Len(calls') = Len(calls) - 1 /\ Len(calls) \in Nat
        /\ \A i \in 1 .. Len(calls') : calls'[i] = calls[i + 1]
    BY <2>1, RepliedType DEF TypeOK
  <2>3. Job1' = Job1 /\ stage' = stage
    BY <2>1 DEF Job1
  <2>4. \A i \in 1 .. Len(calls') : i + 1 \in 1 .. Len(calls)
    BY <2>2
  <2>5. SUFFICES ASSUME NEW i \in 1 .. Len(calls'), calls'[i].for = "send"
                 PROVE  /\ stage' = "snapshot" /\ calls'[i].wallet = Job1'.wallet
                        /\ \A j \in 1 .. Len(calls') : calls'[j].for = "send" => i = j
    BY DEF SendAwaits
  <2>6. calls'[i] = calls[i + 1] /\ i + 1 \in 1 .. Len(calls)
    BY <2>2, <2>4
  <2>7. ASSUME NEW j \in 1 .. Len(calls'), calls'[j].for = "send" PROVE i = j
    <3>1. calls'[j] = calls[j + 1] /\ j + 1 \in 1 .. Len(calls)
      BY <2>2, <2>4
    <3>2. i + 1 = j + 1
      BY <2>5, <2>6, <2>7, <3>1 DEF SendAwaits
    <3> QED BY <3>2
  <2> QED BY <2>3, <2>5, <2>6, <2>7 DEF SendAwaits
<1>7. CASE Relay
  BY <1>7, <1>1 DEF Relay, Publish, Relayed, RelayUncertain, RelayEnds
<1>8. CASE UNCHANGED vars
  BY <1>8, <1>1 DEF vars
<1> QED BY <1>3, <1>4, <1>5, <1>6, <1>7, <1>8 DEF Next


LEMMA RepliesStep ==
  ASSUME TypeOK, TypeOK', RepliesExist, SendAwaits, [Next]_vars
  PROVE  RepliesExist'
<1> USE DEF vault, world, service
<1> DEFINE Kept == \A i \in 1 .. Len(calls') : calls'[i].reply <= Len(chain)
<1>1. Len(chain) \in Nat /\ Len(chain') \in Nat /\ calls \in Seq(Call) /\ calls' \in Seq(Call)
  BY DEF TypeOK
<1>2. ASSUME UNCHANGED calls PROVE Kept
  BY <1>2 DEF RepliesExist
<1>3. ASSUME NEW w \in Wallets, NEW for \in {"send", "read"}, Ask(w, for) PROVE Kept
  <2>1. /\ Len(calls') = Len(calls) + 1 /\ calls'[Len(calls) + 1].reply = -1
        /\ \A i \in 1 .. Len(calls) : calls'[i] = calls[i]
    BY <1>3, AskType DEF Unanswered
  <2> QED BY <1>1, <2>1 DEF RepliesExist
<1>4. ASSUME NEW for, Replied(for) PROVE Kept
  <2>1. /\ Len(calls') = Len(calls) - 1 /\ \A i \in 1 .. Len(calls') : calls'[i] = calls[i + 1]
    BY <1>4, RepliedType
  <2> QED BY <1>1, <2>1 DEF RepliesExist
<1>5. ASSUME Kept, UNCHANGED chain PROVE RepliesExist'
  BY <1>5 DEF RepliesExist
<1>6. CASE Environment
  <2>1. ASSUME NEW coins \in SUBSET Coins, NEW txs \in SUBSET network, Mine(coins, txs)
        PROVE  RepliesExist'
    <3>1. Len(chain') = Len(chain) + 1 /\ calls' = calls
      BY <2>1 DEF Mine, TypeOK
    <3>2. \A i \in 1 .. Len(calls) : calls[i].reply \in Int
      <4>1. \A i \in 1 .. Len(calls) : calls[i] \in Call
        BY <1>1, ElementOfSeq
      <4> QED BY <4>1 DEF Call, Unanswered, Failed
    <3> QED BY <1>1, <3>1, <3>2 DEF RepliesExist
  <2>2. ASSUME NEW w \in Wallets, Read(w) PROVE RepliesExist'
    BY <2>2, <1>3, <1>5 DEF Read
  <2>3. ASSUME NEW rescan \in BOOLEAN, Reopen(rescan) PROVE RepliesExist'
    BY <2>3 DEF Reopen, RepliesExist
  <2>4. CASE UNCHANGED <<calls, chain>>
    BY <2>4, <1>2, <1>5
  <2> QED BY <1>6, <2>1, <2>2, <2>3, <2>4
          DEF Environment, SetFresh, LockCoin, UnlockCoin, PauseSpending, ResumeSpending,
              ImportKey, RescanDone, Send, Rebroadcast
<1>7. CASE Answer
  <2> PICK i \in 1 .. Len(calls), reply \in {indexed, Failed} :
        /\ calls' = [calls EXCEPT ![i].reply = reply]
        /\ UNCHANGED <<vault, world, queue, stage, payment, relays, fresh>>
    BY <1>7 DEF Answer
  <2>1. reply <= Len(chain)
    BY <1>1 DEF TypeOK, Failed
  <2>2. \A j \in 1 .. Len(calls) : calls[j] \in Call
    BY <1>1, ElementOfSeq
  <2>3. \A j \in 1 .. Len(calls) : calls'[j].reply <= Len(chain)
    BY <1>1, <2>1, <2>2 DEF RepliesExist, Call
  <2> QED BY <1>1, <2>3, <1>5
<1>8. CASE Queue
  <2>1. CASE SendStarts
    <3>1. Job1.wallet \in Wallets
      BY <2>1, Job1Type DEF SendStarts, Starting, Job
    <3> QED BY <2>1, <3>1, <1>3, <1>5 DEF SendStarts
  <2> QED BY <1>8, <2>1, <1>2, <1>4, <1>5
          DEF Queue, SendAgain, SendRefused, BuildFails, Build, Reserve, Delivered, CallFailed
<1> QED BY <1>2, <1>4, <1>5, <1>6, <1>7, <1>8
        DEF Next, Worker, Ingest, ReadDone, Delivered, CallFailed, Relay, Publish, Relayed,
            RelayUncertain, RelayEnds, vars

-----------------------------------------------------------------------------
\* The tables.  A step leaves the payments as they are, whatever it does to their
\* states, or it is a successful reserve().

SamePayments ==
    /\ Len(outgoing') = Len(outgoing)
    /\ \A i \in 1 .. Len(outgoing) :
        /\ outgoing'[i].wallet = outgoing[i].wallet
        /\ outgoing'[i].request = outgoing[i].request
        /\ outgoing'[i].tx = outgoing[i].tx
    /\ UNCHANGED reservations

LEMMA TableStep ==
  ASSUME TypeOK, [Next]_vars
  PROVE  SamePayments \/ (stage = "built" /\ Saved /\ UNCHANGED world)
<1> USE DEF vault, world, service
<1>1. ASSUME UNCHANGED <<outgoing, reservations>> PROVE SamePayments
  BY <1>1 DEF SamePayments
<1>2. ASSUME NEW for, Delivered(for), UNCHANGED reservations PROVE SamePayments
  BY <1>2, ReconcileType DEF Delivered, SamePayments
<1>3. CASE Environment
  BY <1>1, <1>3 DEF Environment, Mine, SetFresh, LockCoin, UnlockCoin, PauseSpending,
     ResumeSpending, ImportKey, Read, RescanDone, Send, Rebroadcast, Reopen
<1>4. CASE Worker
  BY <1>1, <1>4 DEF Worker, Answer, Ingest
<1>5. CASE Queue
  <2>1. CASE SendAgain \/ SendRefused \/ SendStarts
    BY <1>1, <2>1 DEF SendAgain, SendRefused, SendStarts
  <2>2. CASE BuildFails \/ Build
    BY <1>1, <1>2, <2>2 DEF BuildFails, Build, CallFailed
  <2>3. CASE Reserve
    BY <1>1, <2>3, ReserveEffect DEF Rejected
  <2> QED BY <1>5, <2>1, <2>2, <2>3 DEF Queue
<1>6. CASE ReadDone
  BY <1>1, <1>2, <1>6 DEF ReadDone, CallFailed
<1>7. CASE Relay
  <2> PICK i \in 1 .. Len(outgoing) : Publish(i) \/ Relayed(i) \/ RelayUncertain(i)
    BY <1>7 DEF Relay
  <2>1. CASE Publish(i)
    BY <1>1, <2>1 DEF Publish
  <2>2. ASSUME NEW state \in States, RelayEnds(i, state) PROVE SamePayments
    <3>1. UNCHANGED reservations
      BY <2>2 DEF RelayEnds
    <3> QED BY <2>2, <3>1, RelayEndsEffect DEF SamePayments
  <2> QED BY <2>1, <2>2 DEF Relayed, RelayUncertain, States
<1>8. CASE UNCHANGED vars
  BY <1>1, <1>8 DEF vars
<1> QED BY <1>3, <1>4, <1>5, <1>6, <1>7, <1>8 DEF Next

\* The network and the chain: a step publishes one saved payment, or mines
\* published ones whose inputs are unspent, or leaves both alone.
LEMMA WorldStep ==
  ASSUME TypeOK, [Next]_vars
  PROVE  \/ UNCHANGED <<network, chain>>
         \/ \E i \in 1 .. Len(outgoing) : network' = network \cup {outgoing[i].tx} /\ UNCHANGED chain
         \/ \E coins \in SUBSET Coins, txs \in SUBSET network : Mine(coins, txs)
BY DEF vault, world, service, vars, Next, Environment, SetFresh, LockCoin, UnlockCoin,
   PauseSpending, ResumeSpending, ImportKey, Read, RescanDone, Send, Rebroadcast, Reopen,
   Worker, Answer, Ingest, Queue, SendAgain, SendRefused, SendStarts, BuildFails, Build, Reserve,
   ReadDone, Relay, Publish, Relayed, RelayUncertain, RelayEnds


\* What makes the safety properties inductive: the coins of a payment that is built
\* or saved are in the chain, and only published payments are mined.
MinedIsPublished == Mined(Len(chain)) \subseteq network
InputsArrived ==
    /\ \A i \in 1 .. Len(outgoing) :
        outgoing[i].tx.coins # {} /\ outgoing[i].tx.coins \subseteq Arrived(Len(chain))
    /\ stage = "built" => payment.coins # {} /\ payment.coins \subseteq Arrived(Len(chain))

Tables ==
    /\ NoDoubleSpend /\ OnePaymentPerRequest /\ ReservationsExact
    /\ PublishedIsSaved /\ MinedIsPublished /\ InputsArrived /\ SavedPaymentsStayValid

IInv == TypeOK /\ SendAwaits /\ RepliesExist /\ Tables

LEMMA MineEffect ==
  ASSUME TypeOK, NEW coins \in SUBSET Coins, NEW txs \in SUBSET network, Mine(coins, txs)
  PROVE  /\ Mined(Len(chain))' = Mined(Len(chain)) \cup txs
         /\ Arrived(Len(chain))' = Arrived(Len(chain)) \cup coins
         /\ SpentBy(txs) \subseteq Unspent(Len(chain)) /\ UNCHANGED network
<1>1. /\ chain \in Seq(Block) /\ Len(chain) \in Nat /\ [coins |-> coins, txs |-> txs] \in Block
  BY DEF TypeOK, Block
<1>2. /\ Len(chain') = Len(chain) + 1 /\ chain'[Len(chain) + 1] = [coins |-> coins, txs |-> txs]
      /\ \A k \in 1 .. Len(chain) : chain'[k] = chain[k]
  BY <1>1, AppendSeq DEF Mine
<1>3. 1 .. Len(chain') = (1 .. Len(chain)) \cup {Len(chain) + 1}
  BY <1>1, <1>2
<1>4. Mined(Len(chain))' = Mined(Len(chain)) \cup txs
  BY <1>2, <1>3 DEF Mined
<1>5. Arrived(Len(chain))' = Arrived(Len(chain)) \cup coins
  BY <1>2, <1>3 DEF Arrived
<1>6. SpentBy(txs) \subseteq Unspent(Len(chain)) /\ UNCHANGED network
  BY DEF Mine, SpentBy
<1> QED BY <1>4, <1>5, <1>6

\* Coins picked from a snapshot are in the chain, however old the snapshot is.
LEMMA BuiltStep == ASSUME IInv, TypeOK', [Next]_vars PROVE stage' = "built" =>
    payment'.coins # {} /\ payment'.coins \subseteq Arrived(Len(chain))
<1> SUFFICES ASSUME stage' = "built"
             PROVE  payment'.coins # {} /\ payment'.coins \subseteq Arrived(Len(chain))
  OBVIOUS
<1> USE DEF vault, world, service
<1>1. CASE UNCHANGED <<stage, payment>>
  BY <1>1 DEF IInv, Tables, InputsArrived
<1>2. CASE Build
  <2>1. payment'.coins \in Choices(Job1.wallet, Job1.form, Head(calls).reply)
    BY <1>2, BuildType DEF IInv
  <2>2. Replied("send") /\ Head(calls).reply # Failed
    BY <1>2 DEF Build, Delivered
  <2>3. Head(calls).reply \in Int /\ Head(calls).reply <= Len(chain) /\ Job1 \in Job
    BY <2>2, SendReply, EmptySeq DEF IInv, RepliesExist, Call, Unanswered, Failed, Replied, TypeOK
  <2>4. Arrived(Head(calls).reply) \subseteq Arrived(Len(chain))
    BY <2>3, PrefixType DEF IInv
  <2>5. Spendable(Job1.wallet, Job1.form, Head(calls).reply) \subseteq Arrived(Len(chain))
    BY <2>4 DEF Spendable, Unspent
  <2>6. payment'.coins # {}
        /\ payment'.coins \subseteq Spendable(Job1.wallet, Job1.form, Head(calls).reply)
    <3>1. CASE Selected[Job1.form] = {}
      BY <2>1, <3>1 DEF Choices
    <3>2. CASE Selected[Job1.form] # {}
      BY <2>1, <3>2 DEF Choices
    <3> QED BY <3>1, <3>2
  <2> QED BY <2>5, <2>6
<1> QED BY <1>1, <1>2
        DEF Next, Environment, Mine, SetFresh, LockCoin, UnlockCoin, PauseSpending, ResumeSpending,
            ImportKey, Read, RescanDone, Send, Rebroadcast, Reopen, Worker, Answer, Ingest, Queue,
            SendAgain, SendRefused, SendStarts, BuildFails, Reserve, Finish, ReadDone, Relay,
            Publish, Relayed, RelayUncertain, RelayEnds, vars

\* A successful reserve() in terms of the rows.
LEMMA SavedEffect ==
  ASSUME TypeOK, Saved
  PROVE  /\ Len(outgoing) \in Nat /\ Len(outgoing') = Len(outgoing) + 1
         /\ \A i \in 1 .. Len(outgoing) : outgoing'[i] = outgoing[i]
         /\ outgoing'[Len(outgoing) + 1] =
              [wallet |-> Job1.wallet, request |-> Job1.request, tx |-> payment, state |-> "queued"]
<1>1. Len(outgoing) \in Nat /\ outgoing \in Seq(Row)
  BY DEF TypeOK
<1>2. PICK row \in Row : /\ outgoing' = Append(outgoing, row)
                         /\ row = [wallet |-> Job1.wallet, request |-> Job1.request,
                                   tx |-> payment, state |-> "queued"]
  BY DEF Saved
<1> QED BY <1>1, <1>2, AppendSeq

LEMMA SavingKeepsTables ==
  ASSUME IInv, stage = "built", Saved, UNCHANGED world, stage' # "built"
  PROVE  Tables'
<1> DEFINE new == Len(outgoing) + 1
<1>1. /\ TypeOK /\ Tables /\ UNCHANGED <<network, chain>>
  BY DEF IInv, world
<1>2. /\ Len(outgoing) \in Nat /\ Len(outgoing') = new
      /\ \A i \in 1 .. Len(outgoing) : outgoing'[i] = outgoing[i]
      /\ outgoing'[new].wallet = Job1.wallet /\ outgoing'[new].request = Job1.request
      /\ outgoing'[new].tx = payment
  BY <1>1, SavedEffect
<1>3. 1 .. Len(outgoing') = (1 .. Len(outgoing)) \cup {new}
  BY <1>2
<1>4. \A i \in 1 .. Len(outgoing) : outgoing[i].tx.coins \cap payment.coins = {}
  <2> SUFFICES ASSUME NEW i \in 1 .. Len(outgoing), NEW c \in outgoing[i].tx.coins
               PROVE  c \notin payment.coins
    OBVIOUS
  <2>1. <<c, i>> \in reservations
    BY <1>1 DEF Tables, ReservationsExact
  <2> QED BY <2>1 DEF Saved
<1>5. NoDoubleSpend'
  BY <1>1, <1>2, <1>3, <1>4 DEF Tables, NoDoubleSpend
<1>6. OnePaymentPerRequest'
  BY <1>1, <1>2, <1>3 DEF Tables, OnePaymentPerRequest, Saved, SavedAs
<1>7. ReservationsExact'
  <2>1. reservations' = reservations \cup (payment.coins \X {new})
    BY DEF Saved
  <2> QED BY <1>1, <1>2, <1>3, <2>1 DEF Tables, ReservationsExact
<1>8. PublishedIsSaved'
  BY <1>1, <1>2, <1>3 DEF Tables, PublishedIsSaved
<1>9. MinedIsPublished' /\ UNCHANGED <<Mined(Len(chain)), Arrived(Len(chain))>>
  BY <1>1 DEF Tables, MinedIsPublished, Mined, Arrived
<1>10. InputsArrived'
  BY <1>1, <1>2, <1>3, <1>9 DEF Tables, InputsArrived
<1>11. payment.coins \cap SpentBy(Mined(Len(chain))) = {}
  <2> SUFFICES ASSUME NEW t \in Mined(Len(chain)) PROVE t.coins \cap payment.coins = {}
    BY DEF SpentBy
  <2>1. PICK i \in 1 .. Len(outgoing) : outgoing[i].tx = t
    BY <1>1 DEF Tables, MinedIsPublished, PublishedIsSaved
  <2> QED BY <2>1, <1>4
<1>12. UNCHANGED Unspent(Len(chain))
  BY <1>9 DEF Unspent, SpentBy
<1>13. payment.coins \subseteq Unspent(Len(chain))
  BY <1>1, <1>11 DEF Tables, InputsArrived, Unspent
<1>14. SavedPaymentsStayValid'
  BY <1>1, <1>2, <1>3, <1>9, <1>12, <1>13 DEF Tables, SavedPaymentsStayValid
<1> QED BY <1>5, <1>6, <1>7, <1>8, <1>9, <1>10, <1>14 DEF Tables


LEMMA TablesStep == ASSUME IInv, TypeOK', [Next]_vars PROVE Tables'
<1>1. /\ TypeOK /\ NoDoubleSpend /\ OnePaymentPerRequest /\ ReservationsExact
      /\ PublishedIsSaved /\ MinedIsPublished /\ InputsArrived /\ SavedPaymentsStayValid
  BY DEF IInv, Tables
<1>2. CASE stage = "built" /\ Saved /\ UNCHANGED world
  <2>1. stage' # "built"
    <3>1. CASE Reserve
      BY <3>1, ReserveEffect, FinishType, <1>1
    <3>2. CASE ~Reserve
      <4>1. UNCHANGED outgoing \/ Len(outgoing') = Len(outgoing)
        BY <3>2, <1>1, ReconcileType, RelayEndsEffect
           DEF vault, world, service, vars, Next, Environment, Mine, SetFresh, LockCoin, UnlockCoin,
               PauseSpending, ResumeSpending, ImportKey, Read, RescanDone, Send, Rebroadcast, Reopen,
               Worker, Answer, Ingest, Queue, SendAgain, SendRefused, SendStarts, BuildFails, Build,
               ReadDone, Delivered, CallFailed, Relay, Publish, Relayed, RelayUncertain, States
      <4> QED BY <1>1, <1>2, <4>1, SavedEffect
    <3> QED BY <3>1, <3>2
  <2> QED BY <1>2, <2>1, SavingKeepsTables
<1>3. CASE SamePayments
  <2>1. /\ Len(outgoing') = Len(outgoing) /\ reservations' = reservations
        /\ \A i \in 1 .. Len(outgoing) :
             /\ outgoing'[i].wallet = outgoing[i].wallet
             /\ outgoing'[i].request = outgoing[i].request
             /\ outgoing'[i].tx = outgoing[i].tx
    BY <1>3 DEF SamePayments
  <2>2. NoDoubleSpend'
    BY <1>1, <2>1 DEF NoDoubleSpend
  <2>3. OnePaymentPerRequest'
    BY <1>1, <2>1 DEF OnePaymentPerRequest
  <2>4. ReservationsExact'
    BY <1>1, <2>1 DEF ReservationsExact
  <2>5. \/ UNCHANGED <<network, chain>>
        \/ \E i \in 1 .. Len(outgoing) :
             network' = network \cup {outgoing[i].tx} /\ UNCHANGED chain
        \/ \E coins \in SUBSET Coins, txs \in SUBSET network : Mine(coins, txs)
    BY <1>1, WorldStep
  <2>6. stage' = "built" =>
          payment'.coins # {} /\ payment'.coins \subseteq Arrived(Len(chain))
    BY BuiltStep
  <2>7. PublishedIsSaved'
    <3>1. \A t \in network' : t \in network \/ \E i \in 1 .. Len(outgoing) : outgoing[i].tx = t
      BY <2>5 DEF Mine
    <3> QED BY <1>1, <2>1, <3>1 DEF PublishedIsSaved
  <2>8. CASE UNCHANGED chain
    <3>1. UNCHANGED <<Mined(Len(chain)), Arrived(Len(chain)), Unspent(Len(chain))>>
      BY <2>8 DEF Mined, Arrived, Unspent, SpentBy
    <3>2. network \subseteq network'
      BY <2>5 DEF Mine
    <3>3. MinedIsPublished'
      BY <1>1, <3>1, <3>2 DEF MinedIsPublished
    <3>4. InputsArrived'
      BY <1>1, <2>1, <2>6, <3>1 DEF InputsArrived
    <3>5. SavedPaymentsStayValid'
      BY <1>1, <2>1, <3>1 DEF SavedPaymentsStayValid
    <3> QED BY <2>2, <2>3, <2>4, <2>7, <3>3, <3>4, <3>5 DEF Tables
  <2>9. ASSUME NEW coins \in SUBSET Coins, NEW txs \in SUBSET network, Mine(coins, txs)
        PROVE  Tables'
    <3>1. /\ Mined(Len(chain))' = Mined(Len(chain)) \cup txs
          /\ Arrived(Len(chain))' = Arrived(Len(chain)) \cup coins
          /\ UNCHANGED network
      BY <1>1, <2>9, MineEffect
    <3>2. MinedIsPublished'
      BY <1>1, <3>1 DEF MinedIsPublished
    <3>3. InputsArrived'
      BY <1>1, <2>1, <2>6, <3>1 DEF InputsArrived
    <3>4. SavedPaymentsStayValid'
      <4> SUFFICES ASSUME NEW i \in 1 .. Len(outgoing), outgoing[i].tx \notin Mined(Len(chain))'
                   PROVE  outgoing[i].tx.coins \subseteq Unspent(Len(chain))'
        BY <2>1 DEF SavedPaymentsStayValid
      <4>1. outgoing[i].tx \notin txs /\ outgoing[i].tx.coins \subseteq Unspent(Len(chain))
        BY <1>1, <3>1 DEF SavedPaymentsStayValid
      <4>2. ASSUME NEW t \in txs PROVE t.coins \cap outgoing[i].tx.coins = {}
        <5>1. PICK j \in 1 .. Len(outgoing) : outgoing[j].tx = t
          BY <1>1 DEF PublishedIsSaved
        <5> QED BY <1>1, <4>1, <5>1 DEF NoDoubleSpend
      <4> QED BY <3>1, <4>1, <4>2 DEF Unspent, SpentBy
    <3> QED BY <2>2, <2>3, <2>4, <2>7, <3>2, <3>3, <3>4 DEF Tables
  <2> QED BY <2>5, <2>8, <2>9
<1> QED BY <1>1, <1>2, <1>3, TableStep

LEMMA InitIInv == Init => IInv
<1> SUFFICES ASSUME Init PROVE IInv
  OBVIOUS
<1>1. TypeOK
  <2>1. /\ <<>> \in Seq(Row) /\ <<>> \in Seq(Block) /\ <<>> \in Seq(Job) /\ <<>> \in Seq(Call)
        /\ <<>> \in Seq(Nat)
    BY EmptySeq
  <2>2. Len(chain) = 0 /\ indexed \in 0 .. Len(chain)
    BY EmptySeq DEF Init
  <2> QED BY <2>1, <2>2 DEF Init, TypeOK
<1>2. SendAwaits /\ RepliesExist
  BY DEF Init, SendAwaits, RepliesExist
<1>3. Tables
  BY DEF Init, Tables, NoDoubleSpend, OnePaymentPerRequest, ReservationsExact, PublishedIsSaved,
     MinedIsPublished, Mined, InputsArrived, SavedPaymentsStayValid
<1> QED BY <1>1, <1>2, <1>3 DEF IInv

LEMMA IInvStep == IInv /\ [Next]_vars => IInv'
<1> SUFFICES ASSUME IInv, [Next]_vars PROVE IInv'
  OBVIOUS
<1>1. TypeOK'
  BY TypeStep DEF IInv
<1> QED BY <1>1, AwaitsStep, RepliesStep, TablesStep DEF IInv

LEMMA Invariance == Spec => []IInv
BY InitIInv, IInvStep, PTL DEF Spec

\* Every table, queue and mailbox entry is one the code can write, and a built
\* payment never outlives the job it was built for.
THEOREM TypeCorrect == Spec => []TypeOK
<1>1. IInv => TypeOK
  BY DEF IInv
<1> QED BY <1>1, Invariance, PTL

\* No two saved payments ever spend the same coin.
THEOREM NeverDoubleSpends == Spec => []NoDoubleSpend
<1>1. IInv => NoDoubleSpend
  BY DEF IInv, Tables
<1> QED BY <1>1, Invariance, PTL

\* A request identifier is at most one payment of its wallet, for ever.
THEOREM RequestsAreIdempotent == Spec => []OnePaymentPerRequest
<1>1. IInv => OnePaymentPerRequest
  BY DEF IInv, Tables
<1> QED BY <1>1, Invariance, PTL

\* The reservations are exactly the inputs of the saved payments.
THEOREM ReservationsFollowRows == Spec => []ReservationsExact
<1>1. IInv => ReservationsExact
  BY DEF IInv, Tables
<1> QED BY <1>1, Invariance, PTL

\* Nothing is published that was not saved before.
THEOREM SavedBeforePublished == Spec => []PublishedIsSaved
<1>1. IInv => PublishedIsSaved
  BY DEF IInv, Tables
<1> QED BY <1>1, Invariance, PTL

\* Whatever became of its relay, a saved payment is in the chain or can still be.
THEOREM NothingInvalidatesAPayment == Spec => []SavedPaymentsStayValid
<1>1. IInv => SavedPaymentsStayValid
  BY DEF IInv, Tables
<1> QED BY <1>1, Invariance, PTL


-----------------------------------------------------------------------------
\* Refinement.

LEMMA LedgerInit == Init => Ledger!Init
BY EmptySeq DEF Init, Ledger!Init, SavedPayments, Mined

LEMMA LedgerStep ==
  ASSUME IInv, [Next]_vars
  PROVE  [Ledger!Next]_<<SavedPayments, network, Mined(Len(chain))>>
<1>1. /\ TypeOK /\ NoDoubleSpend /\ OnePaymentPerRequest /\ ReservationsExact /\ InputsArrived
  BY DEF IInv, Tables
<1>2. CASE stage = "built" /\ Saved /\ UNCHANGED world
  <2> DEFINE new == Len(outgoing) + 1
             p == [wallet |-> Job1.wallet, request |-> Job1.request, tx |-> payment]
  <2>1. /\ Len(outgoing) \in Nat /\ Len(outgoing') = new
        /\ \A i \in 1 .. Len(outgoing) : outgoing'[i] = outgoing[i]
        /\ outgoing'[new].wallet = Job1.wallet /\ outgoing'[new].request = Job1.request
        /\ outgoing'[new].tx = payment
    BY <1>1, <1>2, SavedEffect
  <2>2. 1 .. Len(outgoing') = (1 .. Len(outgoing)) \cup {new}
    BY <2>1
  <2>3. SavedPayments' = SavedPayments \cup {p}
    BY <2>1, <2>2 DEF SavedPayments
  <2>4. p \in Ledger!Payment
    BY <1>1, <1>2, Job1Type DEF TypeOK, Ledger!Payment, Ledger!Transaction, Tx, Job
  <2>5. p.tx.coins # {}
    BY <1>1, <1>2 DEF InputsArrived
  <2>6. ASSUME NEW i \in 1 .. Len(outgoing)
        PROVE  /\ <<outgoing[i].wallet, outgoing[i].request>> # <<p.wallet, p.request>>
               /\ outgoing[i].tx.coins \cap p.tx.coins = {}
    <3>1. <<outgoing[i].wallet, outgoing[i].request>> # <<p.wallet, p.request>>
      BY <1>2 DEF Saved, SavedAs
    <3>2. ASSUME NEW c \in outgoing[i].tx.coins PROVE c \notin payment.coins
      <4>1. <<c, i>> \in reservations
        BY <1>1 DEF ReservationsExact
      <4> QED BY <4>1, <1>2 DEF Saved
    <3> QED BY <3>1, <3>2
  <2>7. UNCHANGED <<network, Mined(Len(chain))>>
    BY <1>2 DEF world, Mined
  <2>8. Ledger!Save(p)
    BY <2>3, <2>5, <2>6, <2>7 DEF Ledger!Save, SavedPayments
  <2> QED BY <2>4, <2>8 DEF Ledger!Next
<1>3. CASE SamePayments
  <2>1. UNCHANGED SavedPayments
    BY <1>3 DEF SamePayments, SavedPayments
  <2>2. CASE UNCHANGED <<network, chain>>
    BY <2>1, <2>2 DEF Mined
  <2>3. ASSUME NEW i \in 1 .. Len(outgoing), network' = network \cup {outgoing[i].tx},
               UNCHANGED chain
        PROVE  Ledger!Next
    <3> DEFINE p == [wallet |-> outgoing[i].wallet, request |-> outgoing[i].request,
                     tx |-> outgoing[i].tx]
    <3>1. p \in SavedPayments
      BY DEF SavedPayments
    <3>2. UNCHANGED Mined(Len(chain))
      BY <2>3 DEF Mined
    <3>3. Ledger!Publish(p)
      BY <2>1, <2>3, <3>2 DEF Ledger!Publish
    <3> QED BY <3>1, <3>3 DEF Ledger!Next
  <2>4. ASSUME NEW coins \in SUBSET Coins, NEW txs \in SUBSET network, Mine(coins, txs)
        PROVE  Ledger!Next
    <3>1. Ledger!Settle(txs)
      BY <1>1, <2>1, <2>4, MineEffect DEF Ledger!Settle
    <3> QED BY <3>1 DEF Ledger!Next
  <2> QED BY <1>1, <2>2, <2>3, <2>4, WorldStep
<1> QED BY <1>1, <1>2, <1>3, TableStep

\* Behind retries, concurrent reads, crashes and rescans, the wallet is a ledger that
\* only saves new disjoint payments, publishes saved ones and settles published ones.
THEOREM Implementation == Spec => ImplementsLedger
<1>1. IInv /\ [Next]_vars => [Ledger!Next]_<<SavedPayments, network, Mined(Len(chain))>>
  BY LedgerStep
<1> QED BY <1>1, LedgerInit, Invariance, PTL DEF Spec, ImplementsLedger, Ledger!Spec

-----------------------------------------------------------------------------
(***************************************************************************)
(* What a payment may be made of: the holds in force when the call was     *)
(* made, the confirmations of its inputs, and what the caller reviewed.    *)
(* All of it is read before an await and relied upon after it.             *)
(***************************************************************************)

\* A coin had what the form asks for when the index was at height n.
EligibleAt(c, f, n) ==
    \E k \in 1 .. n :
        /\ c \in chain[k].coins /\ c \notin SpentBy(Mined(n))
        /\ n + 1 - k >= MinConf[f]
        /\ c \in Coinbase =>
            /\ n + 1 - k >= EarlyMaturity
            /\ n >= LaterFrom => n + 1 - k >= LaterMaturity

Eligible(c, w, f) == Owner[c] = w /\ \E n \in 1 .. Len(chain) : EligibleAt(c, f, n)

\* The holds a job remembers are still in force.
HoldsInForce == \A i \in 1 .. Len(queue) : queue[i].hold \subseteq HoldsOn(queue[i].wallet)

\* What the check before the snapshot has established.
Admission == \A i \in 1 .. Len(calls) : calls[i].for = "send" =>
    /\ "paused" \notin Job1.hold
    /\ calls[i].rescan \/ "rescan" \notin Job1.hold

\* A built payment is for the job at the head of the queue.
BuiltForJob == stage = "built" =>
    /\ Job1.hold \cap (payment.coins \cup {"paused", "rescan"}) = {}
    /\ payment.form = Job1.form
    /\ Job1.expected \in {NoPayment, payment}
    /\ \A c \in payment.coins : Eligible(c, Job1.wallet, Job1.form)

AllEligible ==
    \A i \in 1 .. Len(outgoing) : \A c \in outgoing[i].tx.coins :
        Eligible(c, outgoing[i].wallet, outgoing[i].tx.form)

HInv == HoldsInForce /\ Admission /\ BuiltForJob /\ InputsWereEligible

-----------------------------------------------------------------------------
\* The chain only grows, so what was eligible stays so.

LEMMA EligibleSame ==
  ASSUME UNCHANGED chain, NEW c, NEW w, NEW f, Eligible(c, w, f)
  PROVE  Eligible(c, w, f)'
BY DEF Eligible, EligibleAt, SpentBy, Mined

LEMMA EligibleStays ==
  ASSUME TypeOK, [Next]_vars, NEW c, NEW w \in Wallets, NEW f \in Forms, Eligible(c, w, f)
  PROVE  Eligible(c, w, f)'
<1>1. CASE UNCHANGED chain
  BY <1>1, EligibleSame
<1>2. ASSUME NEW coins \in SUBSET Coins, NEW txs \in SUBSET network, Mine(coins, txs)
      PROVE  Eligible(c, w, f)'
  <2>1. chain \in Seq(Block) /\ Len(chain) \in Nat /\ [coins |-> coins, txs |-> txs] \in Block
    BY DEF TypeOK, Block
  <2>2. Len(chain') = Len(chain) + 1 /\ \A k \in 1 .. Len(chain) : chain'[k] = chain[k]
    BY <1>2, <2>1, AppendSeq DEF Mine
  <2>3. PICK n \in 1 .. Len(chain) : EligibleAt(c, f, n)
    BY DEF Eligible
  <2>4. \A k \in 1 .. n : chain'[k] = chain[k]
    BY <2>1, <2>2, <2>3
  <2>5. SpentBy(Mined(n))' = SpentBy(Mined(n))
    BY <2>4 DEF SpentBy, Mined
  <2>6. EligibleAt(c, f, n)'
    BY <2>3, <2>4, <2>5 DEF EligibleAt
  <2>7. n \in 1 .. Len(chain')
    BY <2>1, <2>2, <2>3
  <2> QED BY <2>3, <2>6, <2>7 DEF Eligible
<1> QED BY <1>1, <1>2, WorldStep

-----------------------------------------------------------------------------
\* The head of the queue.

HeadStays ==
    /\ queue # <<>> /\ queue' # <<>>
    /\ Job1'.wallet = Job1.wallet /\ Job1'.form = Job1.form /\ Job1'.expected = Job1.expected
    /\ Job1'.hold \subseteq Job1.hold

LEMMA LiftedHead ==
  ASSUME TypeOK, TypeOK', NEW h, NEW ws, Lift(h, ws), queue # <<>>
  PROVE  HeadStays
<1>1. Len(queue) \in Nat \ {0} /\ Len(queue') = Len(queue) /\ queue' # <<>>
  BY LiftType, EmptySeq DEF TypeOK
<1>2. Job1 = queue[1] /\ Job1 \in Job /\ Job1' = queue'[1]
  BY <1>1, HeadTailProperties DEF TypeOK, Job1
<1>3. queue'[1] = IF queue[1].wallet \in ws THEN [queue[1] EXCEPT !.hold = @ \ {h}] ELSE queue[1]
  <2>1. 1 \in 1 .. Len(queue)
    BY <1>1
  <2> QED BY <2>1 DEF Lift
<1> QED BY <1>1, <1>2, <1>3 DEF HeadStays, Job

LEMMA HeadStep ==
  ASSUME TypeOK, TypeOK', [Next]_vars, stage' # "waiting"
  PROVE  HeadStays
<1> USE DEF vault, world, service
<1>1. ASSUME UNCHANGED queue PROVE HeadStays
  BY <1>1 DEF HeadStays, TypeOK, Job1
<1>2. ASSUME NEW h, NEW ws, Lift(h, ws), UNCHANGED stage PROVE HeadStays
  <2>1. queue # <<>>
    BY <1>2 DEF TypeOK
  <2> QED BY <1>2, <2>1, LiftedHead
<1>3. ASSUME NEW w \in Wallets, NEW r \in Requests, NEW f \in Forms, NEW e \in Reviewed, Send(w, r, f, e)
      PROVE  HeadStays
  <2>1. queue # <<>> /\ queue \in Seq(Job)
    BY <1>3 DEF Send, TypeOK
  <2>2. queue' # <<>> /\ queue'[1] = queue[1]
    BY <1>3, <2>1, EmptySeq DEF Send
  <2>3. Job1 = queue[1] /\ Job1' = queue'[1]
    BY <2>1, <2>2, HeadTailProperties DEF TypeOK, Job1
  <2> QED BY <2>1, <2>2, <2>3 DEF HeadStays
<1>4. CASE Environment
  <2>1. CASE \E w \in Wallets, c \in Coins : UnlockCoin(w, c)
    BY <1>2, <2>1 DEF UnlockCoin
  <2>2. CASE ResumeSpending
    BY <1>2, <2>2 DEF ResumeSpending
  <2>3. CASE \E ws \in SUBSET Wallets : RescanDone(ws)
    BY <1>2, <2>3 DEF RescanDone
  <2> QED BY <1>1, <1>3, <1>4, <2>1, <2>2, <2>3
          DEF Environment, Mine, SetFresh, LockCoin, PauseSpending, ImportKey, Read, Rebroadcast, Reopen
<1>5. CASE ~Environment
  BY <1>1, <1>5 DEF Next, Worker, Answer, Ingest, Queue, SendAgain, SendRefused, SendStarts, BuildFails,
     Build, Reserve, Finish, ReadDone, Relay, Publish, Relayed, RelayUncertain, RelayEnds, vars
<1> QED BY <1>4, <1>5

-----------------------------------------------------------------------------
\* Holds in force.

\* A step lifts no hold, or at most the hold h of the wallets ws.
LiftsNone == \A w : HoldsOn(w) \subseteq HoldsOn(w)'
LiftsOnly(h, ws) == \A w : \A x \in HoldsOn(w) : x \in HoldsOn(w)' \/ (x = h /\ w \in ws)

\* Jobs come from jobs that remembered as much, and nothing they hold is lifted.
LEMMA HoldsKept ==
  ASSUME HoldsInForce,
         \A i \in 1 .. Len(queue') : \E j \in 1 .. Len(queue) :
            queue'[i].wallet = queue[j].wallet /\ queue'[i].hold \subseteq queue[j].hold,
         LiftsNone
  PROVE  HoldsInForce'
BY DEF HoldsInForce, LiftsNone

LEMMA LiftedHolds ==
  ASSUME TypeOK, HoldsInForce, NEW h, NEW ws, Lift(h, ws),
         LiftsOnly(h, ws)
  PROVE  HoldsInForce'
<1>1. Len(queue') = Len(queue) /\ \A i \in 1 .. Len(queue) : queue'[i].wallet = queue[i].wallet
  BY LiftType
<1>2. ASSUME NEW i \in 1 .. Len(queue), NEW x \in queue'[i].hold, NEW w, w = queue[i].wallet
      PROVE  x \in HoldsOn(w)'
  <2>1. queue[i] \in Job
    BY ElementOfSeq DEF TypeOK
  <2>2. x \in queue[i].hold /\ ~(x = h /\ w \in ws)
    <3>1. CASE w \in ws
      BY <1>2, <2>1, <3>1 DEF Lift, Job
    <3>2. CASE w \notin ws
      BY <1>2, <2>1, <3>2 DEF Lift, Job
    <3> QED BY <3>1, <3>2
  <2>3. x \in HoldsOn(w)
    BY <1>2, <2>2 DEF HoldsInForce
  <2> QED BY <2>2, <2>3, Zenon DEF LiftsOnly
<1> QED BY <1>1, <1>2 DEF HoldsInForce, HoldsOn

LEMMA HoldsStep == ASSUME TypeOK, TypeOK', SendAwaits, HoldsInForce, [Next]_vars PROVE HoldsInForce'
<1> USE DEF vault, world, service
<1>1. ASSUME UNCHANGED queue, LiftsNone PROVE HoldsInForce'
  BY <1>1, HoldsKept
<1>2. ASSUME UNCHANGED <<coinLocks, paused, needsRescan>> PROVE LiftsNone
  BY <1>2 DEF HoldsOn, LiftsNone
<1>3. ASSUME Finish, queue # <<>>, UNCHANGED <<coinLocks, paused, needsRescan>> PROVE HoldsInForce'
  <2>1. /\ Len(queue) \in Nat /\ Len(queue') = Len(queue) - 1
        /\ \A i \in 1 .. Len(queue') : queue'[i] = queue[i + 1]
    BY <1>3, FinishType DEF TypeOK
  <2>2. \A i \in 1 .. Len(queue') : i + 1 \in 1 .. Len(queue)
    BY <2>1
  <2>3. \A i \in 1 .. Len(queue') : \E j \in 1 .. Len(queue) : queue'[i] = queue[j]
    BY <2>1, <2>2
  <2> QED BY <1>2, <1>3, <2>3, HoldsKept
<1>4. CASE Environment
  <2>1. ASSUME NEW w \in Wallets, NEW c \in Coins, LockCoin(w, c) PROVE HoldsInForce'
    BY <1>1, <2>1 DEF LockCoin, HoldsOn, LiftsNone
  <2>2. ASSUME NEW w \in Wallets, NEW c \in Coins, UnlockCoin(w, c) PROVE HoldsInForce'
    <3>1. Lift(c, {w})
      BY <2>2 DEF UnlockCoin
    <3>2. LiftsOnly(c, {w})
      BY <2>2 DEF UnlockCoin, HoldsOn, LiftsOnly
    <3> QED BY <3>1, <3>2, LiftedHolds
  <2>3. CASE PauseSpending
    BY <1>1, <2>3 DEF PauseSpending, HoldsOn, LiftsNone
  <2>4. CASE ResumeSpending
    <3>1. Lift("paused", Wallets) /\ UNCHANGED <<coinLocks, needsRescan>>
      BY <2>4 DEF ResumeSpending
    <3>2. \A i \in 1 .. Len(queue) : queue[i].wallet \in Wallets
      <4>1. \A i \in 1 .. Len(queue) : queue[i] \in Job
        BY ElementOfSeq DEF TypeOK
      <4> QED BY <4>1 DEF Job
    <3>3. \A i \in 1 .. Len(queue') :
            /\ i \in 1 .. Len(queue)
            /\ queue'[i].wallet = queue[i].wallet
            /\ queue'[i].hold = queue[i].hold \ {"paused"}
      BY <3>1, <3>2, LiftType
    <3> QED BY <3>1, <3>3 DEF HoldsInForce, HoldsOn
  <2>5. ASSUME NEW w \in Wallets, ImportKey(w) PROVE HoldsInForce'
    BY <1>1, <2>5 DEF ImportKey, HoldsOn, LiftsNone
  <2>6. ASSUME NEW ws \in SUBSET Wallets, RescanDone(ws) PROVE HoldsInForce'
    <3>1. Lift("rescan", ws)
      BY <2>6 DEF RescanDone
    <3>2. LiftsOnly("rescan", ws)
      BY <2>6 DEF RescanDone, HoldsOn, LiftsOnly
    <3> QED BY <3>1, <3>2, LiftedHolds
  <2>7. ASSUME NEW w \in Wallets, NEW r \in Requests, NEW f \in Forms, NEW e \in Reviewed, Send(w, r, f, e)
        PROVE  HoldsInForce'
    <3> DEFINE job == [wallet |-> w, request |-> r, form |-> f, expected |-> e, hold |-> HoldsOn(w)]
    <3>1. job \in Job
      BY DEF Job, Holds, HoldsOn
    <3>2. /\ Len(queue) \in Nat /\ Len(queue') = Len(queue) + 1 /\ queue'[Len(queue) + 1] = job
          /\ \A i \in 1 .. Len(queue) : queue'[i] = queue[i]
      BY <2>7, <3>1, AppendSeq DEF Send, TypeOK
    <3>3. UNCHANGED <<coinLocks, paused, needsRescan>>
      BY <2>7 DEF Send
    <3>4. job.hold = HoldsOn(job.wallet)
      OBVIOUS
    <3> HIDE DEF job
    <3>5. ASSUME NEW i \in 1 .. Len(queue') PROVE queue'[i].hold \subseteq HoldsOn(queue'[i].wallet)
      <4>1. CASE i \in 1 .. Len(queue)
        BY <3>2, <4>1 DEF HoldsInForce
      <4>2. CASE i = Len(queue) + 1
        BY <3>2, <3>4, <4>2
      <4> QED BY <3>2, <4>1, <4>2
    <3> QED BY <3>3, <3>5 DEF HoldsInForce, HoldsOn
  <2>8. ASSUME NEW rescan \in BOOLEAN, Reopen(rescan) PROVE HoldsInForce'
    BY <2>8 DEF Reopen, HoldsInForce
  <2>9. CASE UNCHANGED <<queue, coinLocks, paused, needsRescan>>
    BY <1>1, <1>2, <2>9
  <2> QED BY <1>4, <2>1, <2>2, <2>3, <2>4, <2>5, <2>6, <2>7, <2>8, <2>9
          DEF Environment, Mine, SetFresh, Read, Rebroadcast
<1>5. CASE Queue
  <2>1. queue # <<>>
    <3>1. CASE BuildFails \/ Build
      BY <3>1, SendReply DEF BuildFails, Build, Delivered, CallFailed
    <3>2. CASE Reserve
      BY <3>2, ReserveEffect
    <3> QED BY <1>5, <3>1, <3>2 DEF Queue, SendAgain, SendRefused, SendStarts, Starting
  <2>2. CASE SendAgain \/ SendRefused \/ BuildFails \/ Reserve
    BY <1>3, <2>1, <2>2 DEF SendAgain, SendRefused, BuildFails, Reserve
  <2>3. CASE SendStarts \/ Build
    BY <1>1, <1>2, <2>3 DEF SendStarts, Build
  <2> QED BY <1>5, <2>2, <2>3 DEF Queue
<1>6. CASE Worker \/ ReadDone \/ Relay \/ UNCHANGED vars
  <2>1. UNCHANGED <<queue, coinLocks, paused, needsRescan>>
    BY <1>6 DEF Worker, Answer, Ingest, ReadDone, Relay, Publish, Relayed, RelayUncertain, RelayEnds, vars
  <2> QED BY <1>1, <1>2, <2>1
<1> QED BY <1>4, <1>5, <1>6 DEF Next

-----------------------------------------------------------------------------
\* What the job at the head has established.

LEMMA AdmissionStep ==
  ASSUME TypeOK, TypeOK', SendAwaits, SendAwaits', HoldsInForce, Admission, [Next]_vars
  PROVE  Admission'
<1> USE DEF vault, world, service
<1> SUFFICES ASSUME NEW i \in 1 .. Len(calls'), calls'[i].for = "send"
             PROVE  "paused" \notin Job1'.hold /\ (calls'[i].rescan \/ "rescan" \notin Job1'.hold)
  BY DEF Admission
<1>1. HeadStays
  BY HeadStep DEF SendAwaits
<1>2. ASSUME NEW j \in 1 .. Len(calls), calls[j].for = "send", calls'[i].rescan = calls[j].rescan
      PROVE  "paused" \notin Job1'.hold /\ (calls'[i].rescan \/ "rescan" \notin Job1'.hold)
  BY <1>1, <1>2 DEF HeadStays, Admission
<1>3. CASE UNCHANGED calls
  BY <1>2, <1>3
<1>4. ASSUME NEW w \in Wallets, Read(w) PROVE i \in 1 .. Len(calls) /\ calls'[i] = calls[i]
  <2>1. Ask(w, "read") /\ Len(calls) \in Nat
    BY <1>4 DEF Read, TypeOK
  <2>2. /\ Len(calls') = Len(calls) + 1 /\ calls'[Len(calls) + 1].for = "read"
        /\ \A j \in 1 .. Len(calls) : calls'[j] = calls[j]
    BY <2>1, AskType
  <2> QED BY <2>1, <2>2
<1>5. CASE Answer
  <2> PICK k \in 1 .. Len(calls), reply \in {indexed, Failed} :
        calls' = [calls EXCEPT ![k].reply = reply]
    BY <1>5 DEF Answer
  <2>1. \A j \in 1 .. Len(calls) : calls[j] \in Call
    BY ElementOfSeq DEF TypeOK
  <2>2. i \in 1 .. Len(calls) /\ calls'[i].for = calls[i].for /\ calls'[i].rescan = calls[i].rescan
    BY <2>1 DEF TypeOK, Call
  <2> QED BY <1>2, <2>2
<1>6. CASE SendStarts
  <2>1. Ask(Job1.wallet, "send") /\ Len(calls) \in Nat /\ Job1 \in Job /\ Job1 = queue[1] /\ Job1' = Job1
    BY <1>6, Job1Type DEF SendStarts, Starting, TypeOK, Job1
  <2>2. /\ Len(calls') = Len(calls) + 1 /\ calls'[Len(calls) + 1].rescan = (Job1.wallet \in needsRescan)
        /\ \A j \in 1 .. Len(calls) : calls'[j] = calls[j]
    BY <2>1, AskType DEF Job
  <2>3. \A j \in 1 .. Len(calls) : calls[j].for # "send"
    BY <1>6 DEF SendStarts, Starting, SendAwaits
  <2>4. calls'[i].rescan = (Job1.wallet \in needsRescan)
    BY <2>1, <2>2, <2>3
  <2>5. 1 \in 1 .. Len(queue)
    BY <1>6, EmptySeq DEF SendStarts, Starting, TypeOK
  <2>6. Job1.hold \subseteq HoldsOn(Job1.wallet)
    BY <2>1, <2>5 DEF HoldsInForce
  <2>7. "paused" \notin HoldsOn(Job1.wallet)
    BY <1>6, HoldAssumption DEF HoldsOn, SendStarts
  <2>8. Job1.wallet \notin needsRescan => "rescan" \notin HoldsOn(Job1.wallet)
    BY HoldAssumption DEF HoldsOn
  <2> QED BY <2>1, <2>4, <2>6, <2>7, <2>8
<1>7. CASE ReadDone
  <2>1. Replied("read")
    BY <1>7 DEF ReadDone, Delivered, CallFailed
  <2>2. /\ Len(calls') = Len(calls) - 1 /\ Len(calls) \in Nat
        /\ \A j \in 1 .. Len(calls') : calls'[j] = calls[j + 1]
    BY <2>1, RepliedType DEF TypeOK
  <2>3. i + 1 \in 1 .. Len(calls) /\ calls'[i] = calls[i + 1]
    BY <2>2
  <2> QED BY <1>2, <2>3
<1>8. CASE BuildFails \/ Build
  BY <1>8, SendReply DEF BuildFails, Build, Delivered, CallFailed
<1>9. ASSUME NEW rescan \in BOOLEAN, Reopen(rescan) PROVE FALSE
  BY <1>9 DEF Reopen
<1> QED BY <1>2, <1>3, <1>4, <1>5, <1>6, <1>7, <1>8, <1>9
        DEF Next, Environment, Mine, SetFresh, LockCoin, UnlockCoin, PauseSpending, ResumeSpending,
            ImportKey, RescanDone, Send, Rebroadcast, Worker, Ingest, Queue, SendAgain, SendRefused,
            Reserve, Relay, Publish, Relayed, RelayUncertain, RelayEnds, vars

\* The coins a snapshot offers have what the form asks for, and are locked by nobody.
LEMMA SpendableIsEligible ==
  ASSUME TypeOK, NEW n \in Int, n <= Len(chain), NEW w \in Wallets, NEW f \in Forms,
         NEW c \in Spendable(w, f, n)
  PROVE  Eligible(c, w, f) /\ <<w, c>> \notin coinLocks
<1> DEFINE k == CHOOSE k \in 1 .. n : c \in chain[k].coins
<1>1. /\ Len(chain) \in Nat /\ MinConf[f] \in Nat /\ EarlyMaturity <= LaterMaturity
      /\ EarlyMaturity \in Nat /\ LaterMaturity \in Nat /\ LaterFrom \in Nat
  BY FormAssumption, MaturityAssumption DEF TypeOK
<1>2. c \in Arrived(n) /\ c \notin SpentBy(Mined(n)) /\ c \notin Blocked(w)
  BY DEF Spendable, Unspent
<1>3. \E j \in 1 .. n : c \in chain[j].coins
  BY <1>2 DEF Arrived
<1>4. k \in 1 .. n /\ c \in chain[k].coins
  BY <1>3
<1>5. Owner[c] = w /\ n + 1 - k >= MinConf[f] /\ (c \in Coinbase => n + 1 - k >= Maturity(n))
  BY DEF Spendable, Confirmations
<1> HIDE DEF k
<1>6. EligibleAt(c, f, n)
  <2>1. c \in Coinbase => /\ n + 1 - k >= EarlyMaturity
                          /\ n >= LaterFrom => n + 1 - k >= LaterMaturity
    BY <1>1, <1>4, <1>5 DEF Maturity
  <2> QED BY <1>2, <1>4, <1>5, <2>1 DEF EligibleAt
<1>7. n \in 1 .. Len(chain)
  BY <1>1, <1>4
<1>8. <<w, c>> \notin coinLocks
  <2>1. c \in Coins
    BY <1>2, PrefixType
  <2> QED BY <1>2, <2>1 DEF Blocked
<1> QED BY <1>5, <1>6, <1>7, <1>8 DEF Eligible

LEMMA BuildForJob ==
  ASSUME IInv, HoldsInForce, Admission, Build
  PROVE  BuiltForJob'
<1> USE DEF IInv
<1>1. /\ Replied("send") /\ Head(calls).reply # Failed /\ Head(calls).reply # Unanswered
      /\ ~Head(calls).rescan /\ Head(calls).for = "send"
  BY DEF Build, Delivered, Replied
<1>2. /\ Job1 \in Job /\ Job1 = queue[1] /\ queue # <<>>
      /\ Head(calls) = calls[1] /\ Head(calls) \in Call /\ 1 \in 1 .. Len(calls)
  BY <1>1, SendReply, EmptySeq DEF Replied, TypeOK
<1>3. Head(calls).reply \in Int /\ Head(calls).reply <= Len(chain)
  BY <1>1, <1>2 DEF RepliesExist, Call, Unanswered, Failed
<1>4. /\ payment' \in Tx /\ payment'.form = Job1.form
      /\ payment'.coins \in Choices(Job1.wallet, Job1.form, Head(calls).reply)
  BY BuildType
<1>5. payment'.coins \subseteq Spendable(Job1.wallet, Job1.form, Head(calls).reply)
  <2>1. CASE Selected[Job1.form] = {}
    BY <1>4, <2>1 DEF Choices
  <2>2. CASE Selected[Job1.form] # {}
    BY <1>4, <2>2 DEF Choices
  <2> QED BY <2>1, <2>2
<1>6. ASSUME NEW c \in payment'.coins
      PROVE  Eligible(c, Job1.wallet, Job1.form) /\ <<Job1.wallet, c>> \notin coinLocks
  <2>1. Job1.wallet \in Wallets /\ Job1.form \in Forms
    BY <1>2 DEF Job
  <2> QED BY <1>3, <1>5, <2>1, SpendableIsEligible
<1>7. Job1.hold \cap (payment'.coins \cup {"paused", "rescan"}) = {}
  <2>1. 1 \in 1 .. Len(queue)
    BY <1>2, EmptySeq DEF TypeOK
  <2>2. Job1.hold \subseteq HoldsOn(Job1.wallet)
    BY <1>2, <2>1 DEF HoldsInForce
  <2>3. "paused" \notin Job1.hold /\ "rescan" \notin Job1.hold
    BY <1>1, <1>2 DEF Admission
  <2>4. payment'.coins \subseteq Coins
    BY <1>4 DEF Tx
  <2>5. ASSUME NEW c \in payment'.coins PROVE c \notin HoldsOn(Job1.wallet)
    BY <1>6, <2>4, HoldAssumption DEF HoldsOn
  <2> QED BY <2>2, <2>3, <2>5
<1>8. Job1.expected \in {NoPayment, payment'}
  BY DEF Build, AsReviewed
<1>9. Job1' = Job1 /\ UNCHANGED chain
  BY DEF Build, Job1, world
<1>10. ASSUME NEW c \in payment'.coins, NEW w, NEW f, w = Job1.wallet, f = Job1.form
       PROVE  Eligible(c, w, f)'
  BY <1>6, <1>9, <1>10, EligibleSame
<1>11. \A c \in payment'.coins : Eligible(c, Job1.wallet, Job1.form)'
  BY <1>9, <1>10 DEF Eligible
<1> QED BY <1>4, <1>7, <1>8, <1>9, <1>11 DEF BuiltForJob

LEMMA BuiltForJobStep ==
  ASSUME IInv, IInv', HoldsInForce, Admission, BuiltForJob, [Next]_vars
  PROVE  BuiltForJob'
<1> USE DEF vault, world, service
<1>1. CASE stage' # "built"
  BY <1>1 DEF BuiltForJob
<1>2. CASE Build
  BY <1>2, BuildForJob
<1>3. CASE stage' = "built" /\ UNCHANGED <<stage, payment>>
  <2>1. HeadStays
    BY <1>3, HeadStep DEF IInv
  <2>2. Job1 \in Job
    BY <2>1, Job1Type DEF IInv, HeadStays
  <2>3. ASSUME NEW c \in payment.coins, NEW w, NEW f, w = Job1.wallet, f = Job1.form
        PROVE  Eligible(c, w, f)'
    <3>1. w \in Wallets /\ f \in Forms /\ Eligible(c, w, f)
      BY <1>3, <2>2, <2>3 DEF BuiltForJob, Job
    <3> QED BY <3>1, EligibleStays DEF IInv
  <2>4. \A c \in payment'.coins : Eligible(c, Job1.wallet, Job1.form)'
    BY <1>3, <2>1, <2>3 DEF HeadStays, Eligible
  <2> QED BY <1>3, <2>1, <2>4 DEF BuiltForJob, HeadStays
<1> QED BY <1>1, <1>2, <1>3
        DEF Next, Environment, Mine, SetFresh, LockCoin, UnlockCoin, PauseSpending, ResumeSpending,
            ImportKey, Read, RescanDone, Send, Rebroadcast, Reopen, Worker, Answer, Ingest, Queue,
            SendAgain, SendRefused, SendStarts, BuildFails, Reserve, Finish, ReadDone, Relay,
            Publish, Relayed, RelayUncertain, RelayEnds, vars

LEMMA EligibleStep ==
  ASSUME IInv, BuiltForJob, InputsWereEligible, [Next]_vars
  PROVE  InputsWereEligible'
<1>1. TypeOK /\ \A i \in 1 .. Len(outgoing) : outgoing[i] \in Row
  BY ElementOfSeq DEF IInv, TypeOK
<1>2. ASSUME NEW i \in 1 .. Len(outgoing), NEW c \in outgoing[i].tx.coins, NEW w, NEW f,
             w = outgoing[i].wallet, f = outgoing[i].tx.form
      PROVE  Eligible(c, w, f)'
  <2>1. w \in Wallets /\ f \in Forms /\ Eligible(c, w, f)
    BY <1>1, <1>2 DEF InputsWereEligible, Eligible, EligibleAt, Row, Tx
  <2> QED BY <1>1, <2>1, EligibleStays
<1>3. CASE SamePayments
  <2>1. AllEligible'
    BY <1>2, <1>3 DEF SamePayments, AllEligible, Eligible
  <2> QED BY <2>1 DEF AllEligible, InputsWereEligible, Eligible, EligibleAt
<1>4. CASE stage = "built" /\ Saved /\ UNCHANGED world
  <2>1. /\ Len(outgoing) \in Nat /\ Len(outgoing') = Len(outgoing) + 1
        /\ \A i \in 1 .. Len(outgoing) : outgoing'[i] = outgoing[i]
        /\ outgoing'[Len(outgoing) + 1].wallet = Job1.wallet
        /\ outgoing'[Len(outgoing) + 1].tx = payment
    BY <1>1, <1>4, SavedEffect
  <2>2. \A c \in payment.coins : Eligible(c, Job1.wallet, payment.form)
    BY <1>4 DEF BuiltForJob
  <2>3. UNCHANGED chain
    BY <1>4 DEF world
  <2>4. \A i \in 1 .. Len(outgoing') : i \in 1 .. Len(outgoing) \/ i = Len(outgoing) + 1
    BY <2>1
  <2>5. ASSUME NEW c \in payment.coins, NEW w, NEW f, w = Job1.wallet, f = payment.form
        PROVE  Eligible(c, w, f)'
    BY <2>2, <2>3, <2>5, EligibleSame
  <2>6. ASSUME NEW i \in 1 .. Len(outgoing'), NEW c \in outgoing'[i].tx.coins
        PROVE  Eligible(c, outgoing[i].wallet, outgoing[i].tx.form)'
    <3>1. CASE i \in 1 .. Len(outgoing)
      BY <1>2, <2>1, <2>6, <3>1 DEF Eligible
    <3>2. CASE i = Len(outgoing) + 1
      BY <2>1, <2>5, <2>6, <3>2 DEF Eligible
    <3> QED BY <2>4, <3>1, <3>2
  <2> QED BY <2>6 DEF InputsWereEligible, Eligible, EligibleAt
<1> QED BY <1>1, <1>3, <1>4, TableStep

-----------------------------------------------------------------------------
LEMMA HoldsInvariance == Spec => [](IInv /\ HInv)
<1>1. Init => HInv
  BY DEF Init, HInv, HoldsInForce, Admission, BuiltForJob, InputsWereEligible
<1>2. IInv /\ IInv' /\ HInv /\ [Next]_vars => HInv'
  <2> SUFFICES ASSUME IInv, IInv', HInv, [Next]_vars PROVE HInv'
    OBVIOUS
  <2>1. TypeOK /\ TypeOK' /\ SendAwaits /\ SendAwaits'
    BY DEF IInv
  <2> QED BY <2>1, HoldsStep, AdmissionStep, BuiltForJobStep, EligibleStep DEF HInv
<1> QED BY <1>1, <1>2, Invariance, PTL DEF Spec

\* No hold that was in force when the call was made, and stayed so, is violated by the
\* payment about to be saved.
THEOREM HoldsAreRespected == Spec => []HoldsRespected
<1>1. HInv => HoldsRespected
  BY DEF HInv, BuiltForJob, HoldsRespected
<1> QED BY <1>1, HoldsInvariance, PTL

\* Every input of a saved payment was the wallet's own and, at some height the index had,
\* unspent, confirmed and mature by the rule of that height.
THEOREM InputsAreEligible == Spec => []InputsWereEligible
<1>1. HInv => InputsWereEligible
  BY DEF HInv
<1> QED BY <1>1, HoldsInvariance, PTL

\* What is saved for a call is what the call asked for and what its caller reviewed.
THEOREM ReviewedIsSaved == Spec => SavesWhatWasReviewed
<1>1. IInv /\ HInv /\ [Next]_vars =>
        [Len(outgoing') > Len(outgoing) =>
           /\ Job1.expected \in {NoPayment, outgoing'[Len(outgoing')].tx}
           /\ outgoing'[Len(outgoing')].tx.form = Job1.form
           /\ outgoing'[Len(outgoing')].tx.coins # {}]_vars
  <2> SUFFICES ASSUME IInv, HInv, [Next]_vars, Len(outgoing') > Len(outgoing)
               PROVE  /\ Job1.expected \in {NoPayment, outgoing'[Len(outgoing')].tx}
                      /\ outgoing'[Len(outgoing')].tx.form = Job1.form
                      /\ outgoing'[Len(outgoing')].tx.coins # {}
    OBVIOUS
  <2>1. TypeOK /\ Len(outgoing) \in Nat
    BY DEF IInv, TypeOK
  <2>2. stage = "built" /\ Saved
    BY <2>1, TableStep DEF SamePayments
  <2>3. outgoing'[Len(outgoing')].tx = payment
    BY <2>1, <2>2, SavedEffect
  <2> QED BY <2>2, <2>3 DEF HInv, BuiltForJob, IInv, Tables, InputsArrived
<1> QED BY <1>1, HoldsInvariance, PTL DEF Spec, SavesWhatWasReviewed

-----------------------------------------------------------------------------
\* What a suspended send waits for.

Awaited == stage = "snapshot" => \E i \in 1 .. Len(calls) : calls[i].for = "send"
InTurn == \A i, j \in 1 .. Len(calls) :
    i < j /\ calls[j].reply # Unanswered => calls[i].reply # Unanswered

LEMMA AwaitedStep ==
  ASSUME TypeOK, SendAwaits, Awaited, InTurn, [Next]_vars
  PROVE  Awaited' /\ InTurn'
<1> USE DEF vault, world, service
<1>0. calls \in Seq(Call) /\ Len(calls) \in Nat
  BY DEF TypeOK
<1>1. ASSUME UNCHANGED <<stage, calls>> PROVE Awaited' /\ InTurn'
  BY <1>1 DEF Awaited, InTurn
<1>2. ASSUME NEW w \in Wallets, NEW for \in {"send", "read"}, Ask(w, for),
             stage' = stage \/ (for = "send" /\ stage' = "snapshot")
      PROVE  Awaited' /\ InTurn'
  <2>1. /\ Len(calls') = Len(calls) + 1
        /\ calls'[Len(calls) + 1].for = for /\ calls'[Len(calls) + 1].reply = Unanswered
        /\ \A i \in 1 .. Len(calls) : calls'[i] = calls[i]
    BY <1>2, AskType
  <2>2. \A i \in 1 .. Len(calls) + 1 : i = Len(calls) + 1 \/ i \in 1 .. Len(calls)
    BY <1>0
  <2>3. Awaited'
    BY <1>0, <1>2, <2>1 DEF Awaited
  <2>4. InTurn'
    BY <1>0, <2>1, <2>2 DEF InTurn
  <2> QED BY <2>3, <2>4
<1>3. ASSUME calls # <<>>, calls' = Tail(calls),
             stage' # "snapshot" \/ (stage' = stage /\ Head(calls).for # "send")
      PROVE  Awaited' /\ InTurn'
  <2>1. /\ Len(calls') = Len(calls) - 1 /\ Len(calls) \in Nat \ {0} /\ Head(calls) = calls[1]
        /\ \A i \in 1 .. Len(calls') : i + 1 \in 1 .. Len(calls) /\ calls'[i] = calls[i + 1]
    BY <1>0, <1>3, HeadTailProperties, EmptySeq
  <2>2. \A i \in 1 .. Len(calls) : i # 1 => i - 1 \in 1 .. Len(calls') /\ calls'[i - 1] = calls[i]
    BY <2>1
  <2>3. Awaited'
    BY <1>3, <2>1, <2>2 DEF Awaited
  <2>4. InTurn'
    <3> SUFFICES ASSUME NEW i \in 1 .. Len(calls'), NEW j \in 1 .. Len(calls'),
                        i < j, calls'[j].reply # Unanswered
                 PROVE  calls'[i].reply # Unanswered
      BY DEF InTurn
    <3>1. i + 1 < j + 1
      BY <2>1
    <3> QED BY <2>1, <3>1 DEF InTurn
  <2> QED BY <2>3, <2>4
<1>4. CASE Environment
  <2>1. ASSUME NEW w \in Wallets, Read(w) PROVE Awaited' /\ InTurn'
    BY <1>2, <2>1 DEF Read
  <2>2. ASSUME NEW rescan \in BOOLEAN, Reopen(rescan) PROVE Awaited' /\ InTurn'
    BY <2>2 DEF Reopen, Awaited, InTurn
  <2>3. ASSUME NEW w \in Wallets, NEW c \in Coins, LockCoin(w, c) \/ UnlockCoin(w, c)
        PROVE  Awaited' /\ InTurn'
    BY <1>1, <2>3 DEF LockCoin, UnlockCoin
  <2> QED BY <1>1, <1>4, <2>1, <2>2, <2>3
          DEF Environment, Mine, SetFresh, PauseSpending, ResumeSpending, ImportKey, RescanDone,
              Send, Rebroadcast
<1>5. CASE Worker
  <2>1. CASE Answer
    <3> PICK i \in 1 .. Len(calls), reply \in {indexed, Failed} :
          /\ \A j \in 1 .. i - 1 : calls[j].reply # Unanswered
          /\ calls' = [calls EXCEPT ![i].reply = reply]
          /\ UNCHANGED <<vault, world, queue, stage, payment, relays, fresh>>
      BY <2>1 DEF Answer
    <3>1. indexed \in Nat
      BY DEF TypeOK
    <3>2. reply # Unanswered
      BY <3>1 DEF Unanswered, Failed
    <3>3. \A j \in 1 .. Len(calls) : calls[j] \in Call
      BY <1>0, ElementOfSeq
    <3>4. /\ Len(calls') = Len(calls) /\ calls'[i].reply = reply
          /\ \A j \in 1 .. Len(calls) : calls'[j].for = calls[j].for
          /\ \A j \in 1 .. Len(calls) : j # i => calls'[j].reply = calls[j].reply
      BY <1>0, <3>3 DEF Call
    <3>5. Awaited'
      BY <3>4 DEF Awaited
    <3>6. InTurn'
      BY <1>0, <3>2, <3>4 DEF InTurn
    <3> QED BY <3>5, <3>6
  <2> QED BY <1>1, <1>5, <2>1 DEF Worker, Ingest
<1>6. CASE Queue
  <2>1. CASE SendStarts
    <3>1. Job1.wallet \in Wallets
      BY <2>1, Job1Type DEF SendStarts, Starting, Job
    <3> QED BY <1>2, <2>1, <3>1 DEF SendStarts
  <2>2. CASE SendAgain \/ SendRefused \/ Reserve
    <3>1. stage' = "waiting" /\ calls' = calls
      BY <2>2 DEF SendAgain, SendRefused, Reserve, Finish
    <3> QED BY <3>1 DEF Awaited, InTurn
  <2>3. CASE BuildFails \/ Build
    <3>1. Replied("send") /\ stage' # "snapshot"
      BY <2>3 DEF BuildFails, Build, Delivered, CallFailed, Finish
    <3> QED BY <1>3, <3>1 DEF Replied
  <2> QED BY <1>6, <2>1, <2>2, <2>3 DEF Queue
<1>7. CASE ReadDone
  <2>1. Replied("read") /\ stage' = stage
    BY <1>7 DEF ReadDone, Delivered, CallFailed
  <2> QED BY <1>3, <2>1 DEF Replied
<1>8. CASE Relay
  BY <1>1, <1>8 DEF Relay, Publish, Relayed, RelayUncertain, RelayEnds
<1>9. CASE UNCHANGED vars
  BY <1>1, <1>9 DEF vars
<1> QED BY <1>4, <1>5, <1>6, <1>7, <1>8, <1>9 DEF Next

\* A send that is suspended always has one question with the worker, about its own wallet,
\* which no later answer overtakes: the queue never waits for a reply nobody will give.
THEOREM AlwaysAwaitsAnAnswer == Spec => []NeverWaitsForNothing
<1>1. Init => Awaited /\ InTurn
  BY DEF Init, Awaited, InTurn
<1>2. IInv /\ Awaited /\ InTurn /\ [Next]_vars => Awaited' /\ InTurn'
  BY AwaitedStep DEF IInv
<1>3. IInv /\ Awaited /\ InTurn => NeverWaitsForNothing
  BY DEF IInv, SendAwaits, Awaited, InTurn, NeverWaitsForNothing
<1> QED BY <1>1, <1>2, <1>3, Invariance, PTL DEF Spec
=============================================================================
