---------------------------- MODULE VaultBackup ----------------------------
(***************************************************************************)
(* Backups of a namespace, restored into the same or another vault, next   *)
(* to the operations that fill a vault.  A transaction runs one statement  *)
(* at a time; inside another one it is a savepoint.  Any statement may     *)
(* throw, and the process may end between two of them.                     *)
(***************************************************************************)
EXTENDS Integers, Sequences

CONSTANTS Vaults, Owners, Accounts, Keys, Coins, Ids,
    KeyOf       \* the key a coin is locked to

ASSUME KeyOfAssumption == KeyOf \in [Coins -> Keys]
ASSUME VaultsAssumption == "none" \notin Vaults

VARIABLES
    tables,     \* what the connection to each vault sees
    backup,     \* the last backup that was made
    at,         \* the vault in which a transaction runs, or none
    script,     \* the statements it has before it
    todo,       \* the rows its loops have still to come to
    saved,      \* the states its BEGIN and its savepoints go back to
    failed      \* whether an exception is on its way out

vars == <<tables, backup, at, script, todo, saved, failed>>

\* What is on disk: rows of an open transaction are not.
Committed == [v \in Vaults |-> IF v = at THEN saved[1] ELSE tables[v]]

V == INSTANCE Vault WITH db <- Committed

Init ==
    /\ tables = [v \in Vaults |-> V!Empty] /\ backup = V!NoBackup
    /\ at = "none" /\ script = <<>> /\ todo = V!Empty /\ saved = <<>> /\ failed = FALSE

-----------------------------------------------------------------------------
\* The statements.

Savepoint == [op |-> "savepoint"]
Release == [op |-> "release"]
NewWallet(w) == [op |-> "wallet", row |-> w]
AddAddress(k, w, rescan) == [op |-> "address", row |-> V!Address(k, w, rescan)]
FlagAddress(k) == [op |-> "flag", key |-> k]
AddPayment(p) == [op |-> "payment", row |-> p]
Reserving(r) == [op |-> "reserve", row |-> r]
LockCoin(l) == [op |-> "lock", row |-> l]

\* What clashes: an account that exists, an address of another wallet, a payment whose
\* inputs are not the wallet's, and every key that is there already.
Clashes(t, s) ==
    \/ s.op = "wallet" /\ s.row \in t.wallets
    \/ s.op = "address" /\ \E a \in t.addresses : a.key = s.row.key /\ a.wallet # s.row.wallet
    \/ s.op = "payment" /\ \/ \E p \in t.outgoing : p.id = s.row.id
                           \/ \E c \in s.row.inputs : KeyOf[c] \notin V!KeysOf(t, s.row.wallet)
    \/ s.op = "reserve" /\ \E r \in t.reservations : r.coin = s.row.coin

\* addAddress() keeps the row of an address that the wallet has.
Done(t, s) ==
    CASE s.op = "wallet" -> [t EXCEPT !.wallets = @ \cup {s.row}]
      [] s.op = "address" ->
            IF s.row.key \in V!AllKeys(t) THEN t ELSE [t EXCEPT !.addresses = @ \cup {s.row}]
      [] s.op = "flag" ->
            [t EXCEPT !.addresses = {IF a.key = s.key THEN V!Address(a.key, a.wallet, TRUE) ELSE a : a \in @}]
      [] s.op = "payment" -> [t EXCEPT !.outgoing = @ \cup {s.row}]
      [] s.op = "reserve" -> [t EXCEPT !.reservations = @ \cup {s.row}]
      [] s.op = "lock" -> [t EXCEPT !.locks = @ \cup {s.row}]

-----------------------------------------------------------------------------
\* transaction().

Idle == at = "none"
Running == ~Idle /\ ~failed
Ahead(s) == Running /\ script # <<>> /\ Head(script) = s

\* BEGIN; the work that follows is these statements, and then these loops.
Run(v, steps, loops) ==
    /\ Idle /\ at' = v /\ saved' = <<tables[v]>> /\ script' = steps /\ todo' = loops
    /\ UNCHANGED <<tables, backup, failed>>

Commit ==
    /\ Running /\ script = <<>> /\ todo = V!Empty
    /\ at' = "none" /\ saved' = <<>>
    /\ UNCHANGED <<tables, backup, script, todo, failed>>

\* The transaction of a callee: SAVEPOINT and RELEASE.
Enter ==
    /\ Ahead(Savepoint)
    /\ saved' = Append(saved, tables[at]) /\ script' = Tail(script)
    /\ UNCHANGED <<tables, backup, at, todo, failed>>

Leave ==
    /\ Ahead(Release)
    /\ saved' = SubSeq(saved, 1, Len(saved) - 1) /\ script' = Tail(script)
    /\ UNCHANGED <<tables, backup, at, todo, failed>>

Statement ==
    /\ Running /\ script # <<>> /\ Head(script) \notin {Savepoint, Release}
    /\ ~Clashes(tables[at], Head(script))
    /\ tables' = [tables EXCEPT ![at] = Done(@, Head(script))] /\ script' = Tail(script)
    /\ UNCHANGED <<backup, at, todo, saved, failed>>

\* A statement clashes, or fails for another reason; so may BEGIN, COMMIT and a savepoint.
Fail ==
    /\ Running
    /\ failed' = TRUE /\ script' = <<>> /\ todo' = V!Empty
    /\ UNCHANGED <<tables, backup, at, saved>>

\* Every level goes back to its own state and throws on.
UnwindReleasing ==    \* mutant: a savepoint is released, not rolled back, and the outer work commits
    /\ failed /\ failed' = FALSE
    /\ tables' = IF Len(saved) = 1 THEN [tables EXCEPT ![at] = saved[1]] ELSE tables
    /\ at' = IF Len(saved) = 1 THEN "none" ELSE at
    /\ saved' = SubSeq(saved, 1, Len(saved) - 1)
    /\ UNCHANGED <<backup, script, todo>>

Unwind ==
    /\ failed
    /\ tables' = [tables EXCEPT ![at] = saved[Len(saved)]]
    /\ saved' = SubSeq(saved, 1, Len(saved) - 1)
    /\ IF Len(saved) > 1 THEN UNCHANGED <<at, failed>> ELSE at' = "none" /\ failed' = FALSE
    /\ UNCHANGED <<backup, script, todo>>

\* The process ends; the database comes back as it was committed.
Crash ==
    /\ ~Idle
    /\ tables' = Committed /\ at' = "none" /\ saved' = <<>> /\ failed' = FALSE
    /\ script' = <<>> /\ todo' = V!Empty
    /\ UNCHANGED backup

-----------------------------------------------------------------------------
\* The operations of a vault, each a transaction or one statement.

\* A fresh key is in no vault and in no backup.
Used == UNION {V!AllKeys(tables[v]) : v \in Vaults} \cup {a[1] : a \in backup.addresses}

Create(v) == \E w \in V!Wallets \ tables[v].wallets, k \in Keys \ Used :
    Run(v, <<NewWallet(w), AddAddress(k, w, FALSE)>>, V!Empty)

\* A fresh key, or the import of any.
AddKey(v) == \E w \in tables[v].wallets, k \in Keys, rescan \in BOOLEAN :
    /\ rescan \/ k \notin Used
    /\ Run(v, <<AddAddress(k, w, rescan)>>, V!Empty)

CoinsOf(v, w) == {c \in Coins : KeyOf[c] \in V!KeysOf(tables[v], w)}

ReservationsOf(id, inputs) == {[coin |-> c, id |-> id] : c \in inputs}

\* The inputs were chosen from an older snapshot.
Reserve(v) == \E w \in tables[v].wallets, id \in Ids :
    /\ \A u \in Vaults : \A p \in tables[u].outgoing : p.id # id
    /\ \A p \in backup.outgoing : p.id # id
    /\ \E inputs \in (SUBSET CoinsOf(v, w)) \ {{}} :
        Run(v, <<AddPayment(V!Payment(id, w, inputs))>>,
            [V!Empty EXCEPT !.reservations = ReservationsOf(id, inputs)])

LockCoins(v) == \E w \in tables[v].wallets, coins \in (SUBSET Coins) \ {{}} :
    Run(v, <<>>, [V!Empty EXCEPT !.locks = {w} \X coins])

MakeBackup(v) == \E o \in Owners :
    /\ Idle /\ backup' = V!Payload(tables[v], o)
    /\ UNCHANGED <<tables, at, script, todo, saved, failed>>

\* The rows of a backup in the namespace it is restored to.
Restored(b, o) ==
    [wallets |-> {<<o, a>> : a \in b.accounts},
     addresses |-> {V!Address(a[1], <<o, a[2]>>, TRUE) : a \in b.addresses},
     outgoing |-> {V!Payment(p.id, <<o, p.account>>, p.inputs) : p \in b.outgoing},
     reservations |-> b.reservations,
     locks |-> {<<<<o, l[1]>>, l[2]>> : l \in b.locks}]

\* restore(): the loop over the wallets has an inner one over their keys.
RestoreUnreserving(v) == \E o \in Owners :    \* mutant: the reservations are left out
    Run(v, <<>>, [Restored(backup, o) EXCEPT !.addresses = {}, !.reservations = {}])

Restore(v) == \E o \in Owners :
    Run(v, <<>>, [Restored(backup, o) EXCEPT !.addresses = {}])

-----------------------------------------------------------------------------
\* The loops: one more round, with the statements of its body.

Round(steps, rest) ==
    /\ Running /\ script = <<>> /\ script' = steps /\ todo' = rest
    /\ UNCHANGED <<tables, backup, at, saved, failed>>

AddressesOf(w) == {a \in Restored(backup, w[1]).addresses : a.wallet = w}

\* create() with the first key of the wallet; then all of its keys.
WalletRound ==
    /\ todo.addresses = {}
    /\ \E w \in todo.wallets : \E first \in AddressesOf(w) :
        Round(<<Savepoint, NewWallet(w), AddAddress(first.key, w, FALSE), Release>>,
              [todo EXCEPT !.wallets = @ \ {w}, !.addresses = AddressesOf(w)])

AddressRound == \E a \in todo.addresses :
    Round(<<AddAddress(a.key, a.wallet, TRUE), FlagAddress(a.key)>>, [todo EXCEPT !.addresses = @ \ {a}])

PaymentRound ==
    /\ todo.wallets = {} /\ todo.addresses = {}
    /\ \E p \in todo.outgoing : Round(<<AddPayment(p)>>, [todo EXCEPT !.outgoing = @ \ {p}])

ReservationRound ==
    /\ todo.wallets = {} /\ todo.addresses = {} /\ todo.outgoing = {}
    /\ \E r \in todo.reservations :
        Round(<<Reserving(r)>>, [todo EXCEPT !.reservations = @ \ {r}])

LockRound ==
    /\ todo.wallets = {} /\ todo.addresses = {} /\ todo.outgoing = {} /\ todo.reservations = {}
    /\ \E l \in todo.locks : Round(<<LockCoin(l)>>, [todo EXCEPT !.locks = @ \ {l}])

Next ==
    \/ \E v \in Vaults : Create(v) \/ AddKey(v) \/ Reserve(v) \/ LockCoins(v)
                         \/ MakeBackup(v) \/ Restore(v)
    \/ WalletRound \/ AddressRound \/ PaymentRound \/ ReservationRound \/ LockRound
    \/ Enter \/ Leave \/ Statement \/ Commit \/ Fail \/ Unwind \/ Crash

Spec == Init /\ [][Next]_vars

-----------------------------------------------------------------------------
\* In every vault the reservations are the inputs of its payments, and a coin is the input
\* of one: pending inputs of a backup are never used again by the vault it was restored to.
ReservedOnce == \A v \in Vaults :
    /\ {<<r.coin, r.id>> : r \in Committed[v].reservations}
        = UNION {p.inputs \X {p.id} : p \in Committed[v].outgoing}
    /\ \A p, q \in Committed[v].outgoing : p # q => p.inputs \cap q.inputs = {}

\* Every transaction happens as a whole or not at all, wherever it clashes or the process
\* ends, and a restore brings back the payload of the backup, merges it with nothing, leaves
\* the other namespaces alone and marks every key for a rescan.
ImplementsVault == V!Spec
=============================================================================
