------------------------------- MODULE Vault -------------------------------
(***************************************************************************)
(* What the vaults of several data directories promise: every operation    *)
(* happens at once or not at all, a coin is reserved by one payment, and a *)
(* backup that is restored brings back the whole namespace it was made of, *)
(* touches no other namespace, and marks its keys for a rescan.            *)
(***************************************************************************)
CONSTANTS Vaults, Owners, Accounts, Keys, Coins, Ids,
    KeyOf       \* the key a coin is locked to

VARIABLES
    db,         \* the committed tables of each vault
    backup      \* the last backup that was made

\* A wallet is a namespace and an account; its row's identifier is as good as they are.
Wallets == Owners \X Accounts

Empty == [wallets |-> {}, addresses |-> {}, outgoing |-> {}, reservations |-> {}, locks |-> {}]
NoBackup == [accounts |-> {}, addresses |-> {}, outgoing |-> {}, reservations |-> {}, locks |-> {}]

Address(k, w, rescan) == [key |-> k, wallet |-> w, rescan |-> rescan]
Payment(id, w, inputs) == [id |-> id, wallet |-> w, inputs |-> inputs]

KeysOf(t, w) == {a.key : a \in {b \in t.addresses : b.wallet = w}}
AllKeys(t) == {a.key : a \in t.addresses}

\* backup(): the rows of one namespace, by account.
Payload(t, o) ==
    LET rows == {p \in t.outgoing : p.wallet[1] = o}
    IN  [accounts |-> {w[2] : w \in {x \in t.wallets : x[1] = o}},
         addresses |-> {<<a.key, a.wallet[2]>> : a \in {x \in t.addresses : x.wallet[1] = o}},
         outgoing |-> {[id |-> p.id, account |-> p.wallet[2], inputs |-> p.inputs] : p \in rows},
         reservations |-> {r \in t.reservations : r.id \in {p.id : p \in rows}},
         locks |-> {<<l[1][2], l[2]>> : l \in {x \in t.locks : x[1][1] = o}}]

Both(x, y) ==
    [accounts |-> x.accounts \cup y.accounts, addresses |-> x.addresses \cup y.addresses,
     outgoing |-> x.outgoing \cup y.outgoing, reservations |-> x.reservations \cup y.reservations,
     locks |-> x.locks \cup y.locks]

Init == db = [v \in Vaults |-> Empty] /\ backup = NoBackup

Become(v, t) == db' = [db EXCEPT ![v] = t] /\ UNCHANGED backup

Create(v) == \E w \in Wallets \ db[v].wallets, k \in Keys \ AllKeys(db[v]) :
    Become(v, [db[v] EXCEPT !.wallets = @ \cup {w}, !.addresses = @ \cup {Address(k, w, FALSE)}])

AddKey(v) == \E w \in db[v].wallets, k \in Keys \ AllKeys(db[v]), rescan \in BOOLEAN :
    Become(v, [db[v] EXCEPT !.addresses = @ \cup {Address(k, w, rescan)}])

Unreserved(t) == Coins \ {r.coin : r \in t.reservations}

Reserve(v) == \E w \in db[v].wallets, id \in Ids \ {p.id : p \in db[v].outgoing} :
    \E inputs \in SUBSET {c \in Unreserved(db[v]) : KeyOf[c] \in KeysOf(db[v], w)} :
        Become(v, [db[v] EXCEPT !.outgoing = @ \cup {Payment(id, w, inputs)},
                                !.reservations = @ \cup {[coin |-> c, id |-> id] : c \in inputs}])

Lock(v) == \E w \in db[v].wallets, coins \in SUBSET Coins :
    Become(v, [db[v] EXCEPT !.locks = @ \cup ({w} \X coins)])

Backup(v) == \E o \in Owners : backup' = Payload(db[v], o) /\ UNCHANGED db

Restore(v) == \E o \in Owners :
    /\ backup.accounts \cap Payload(db[v], o).accounts = {}
    /\ {a[1] : a \in backup.addresses} \cap AllKeys(db[v]) = {}
    /\ \A u \in Vaults \ {v} : db'[u] = db[u]
    /\ Payload(db'[v], o) = Both(Payload(db[v], o), backup)
    /\ \A other \in Owners \ {o} : Payload(db'[v], other) = Payload(db[v], other)
    /\ \A a \in db'[v].addresses : a \in db[v].addresses \/ a.rescan
    /\ db[v].addresses \subseteq db'[v].addresses
    /\ UNCHANGED backup

Next == \E v \in Vaults :
    Create(v) \/ AddKey(v) \/ Reserve(v) \/ Lock(v) \/ Backup(v) \/ Restore(v)

Spec == Init /\ [][Next]_<<db, backup>>
=============================================================================
