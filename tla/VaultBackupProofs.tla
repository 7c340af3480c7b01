------------------------- MODULE VaultBackupProofs -------------------------
(***************************************************************************)
(* Proofs about VaultBackup, for any vaults, namespaces, accounts, keys,   *)
(* coins and payments: what is committed is consistent, and the            *)
(* transactions do what Vault says and nothing else.                       *)
(***************************************************************************)
EXTENDS VaultBackup, SequenceTheorems, TLAPS

TableSet ==
    [wallets : SUBSET V!Wallets,
     addresses : SUBSET [key : Keys, wallet : V!Wallets, rescan : BOOLEAN],
     outgoing : SUBSET [id : Ids, wallet : V!Wallets, inputs : SUBSET Coins],
     reservations : SUBSET [coin : Coins, id : Ids],
     locks : SUBSET (V!Wallets \X Coins)]

BackupSet ==
    [accounts : SUBSET Accounts, addresses : SUBSET (Keys \X Accounts),
     outgoing : SUBSET [id : Ids, account : Accounts, inputs : SUBSET Coins],
     reservations : SUBSET [coin : Coins, id : Ids], locks : SUBSET (Accounts \X Coins)]

\* What the schema and the code keep of the tables between two transactions.
KeysOnce(t) == \A a, b \in t.addresses : a.key = b.key => a = b
WalletsKeyed(t) ==
    /\ \A a \in t.addresses : a.wallet \in t.wallets
    /\ \A w \in t.wallets : \E a \in t.addresses : a.wallet = w
InputsKeyed(t) == \A p \in t.outgoing :
    /\ p.wallet \in t.wallets
    /\ \A c \in p.inputs : \E a \in t.addresses : a.wallet = p.wallet /\ a.key = KeyOf[c]
IdsOnce(t) == \A p, q \in t.outgoing : p.id = q.id => p = q
ReservationsOfInputs(t) == \A c \in Coins, id \in Ids :
    [coin |-> c, id |-> id] \in t.reservations <=> \E p \in t.outgoing : p.id = id /\ c \in p.inputs
InputsOnce(t) == \A p, q \in t.outgoing : \A c \in p.inputs : c \in q.inputs => p = q
LocksOfWallets(t) == \A l \in t.locks : l[1] \in t.wallets

Consistent(t) ==
    /\ t \in TableSet
    /\ KeysOnce(t) /\ WalletsKeyed(t)
    /\ InputsKeyed(t) /\ IdsOnce(t) /\ ReservationsOfInputs(t) /\ InputsOnce(t)
    /\ LocksOfWallets(t)

-----------------------------------------------------------------------------
\* A transaction under way: its base, the rows it is to bring, and those left.

Flagged(a) == V!Address(a.key, a.wallet, TRUE)

\* The rows of a table that are not left are there, and were not before.
WalletsBehind(g, left, b, t) ==
    /\ t.wallets = b.wallets \cup (g.wallets \ left.wallets)
    /\ \A w \in g.wallets \ left.wallets : w \notin b.wallets
AddressesBehind(g, left, b, t) ==
    /\ KeysOnce(t)
    /\ b.addresses \subseteq t.addresses
    /\ g.addresses \ left.addresses \subseteq t.addresses
    /\ \A a \in t.addresses \ b.addresses :
        /\ \A c \in b.addresses : c.key # a.key
        /\ Flagged(a) \in g.addresses
        /\ a.rescan \/ Flagged(a) \in left.addresses
PaymentsBehind(g, left, b, t) ==
    /\ t.outgoing = b.outgoing \cup (g.outgoing \ left.outgoing)
    /\ \A p \in g.outgoing \ left.outgoing, q \in b.outgoing : p.id # q.id
ReservationsBehind(g, left, b, t) ==
    /\ t.reservations = b.reservations \cup (g.reservations \ left.reservations)
    /\ \A r \in g.reservations \ left.reservations, q \in b.reservations : r.coin # q.coin
LocksBehind(g, left, b, t) == t.locks = b.locks \cup (g.locks \ left.locks)

Behind(g, left, b, t) ==
    /\ t \in TableSet
    /\ WalletsBehind(g, left, b, t) /\ AddressesBehind(g, left, b, t)
    /\ PaymentsBehind(g, left, b, t) /\ ReservationsBehind(g, left, b, t)
    /\ LocksBehind(g, left, b, t)

Created(b, w, k) == [b EXCEPT !.wallets = @ \cup {w}, !.addresses = @ \cup {V!Address(k, w, FALSE)}]
Added(b, w, k, rescan) == [b EXCEPT !.addresses = @ \cup {V!Address(k, w, rescan)}]
Paid(b, p) == [b EXCEPT !.outgoing = @ \cup {p}]

Creating(b, t) == \E w \in V!Wallets \ b.wallets, k \in Keys :
    /\ \A a \in b.addresses : a.key # k
    /\ todo = V!Empty /\ Len(saved) = 1
    /\ \/ script = <<NewWallet(w), AddAddress(k, w, FALSE)>> /\ t = b
       \/ script = <<AddAddress(k, w, FALSE)>> /\ t = [b EXCEPT !.wallets = @ \cup {w}]
       \/ script = <<>> /\ t = Created(b, w, k)

Adding(b, t) == \E w \in b.wallets, k \in Keys, rescan \in BOOLEAN :
    /\ todo = V!Empty /\ Len(saved) = 1
    /\ \/ script = <<AddAddress(k, w, rescan)>> /\ t = b
       \/ script = <<>> /\ t = b
       \/ script = <<>> /\ t = Added(b, w, k, rescan) /\ \A a \in b.addresses : a.key # k

\* A payment with the reservations that are not left, and the locks of a wallet.
Taken(b, t, p, left) ==
    /\ t = [Paid(b, p) EXCEPT !.reservations = @ \cup (ReservationsOf(p.id, p.inputs) \ left)]
    /\ \A r \in ReservationsOf(p.id, p.inputs) \ left, q \in b.reservations : r.coin # q.coin

Reserves(b, t) == \E p \in [id : Ids, wallet : b.wallets, inputs : SUBSET Coins] :
    /\ Len(saved) = 1
    /\ \A q \in b.outgoing : q.id # p.id
    /\ \A c \in p.inputs : \E a \in b.addresses : a.wallet = p.wallet /\ a.key = KeyOf[c]
    /\ todo = [V!Empty EXCEPT !.reservations = todo.reservations]
    /\ todo.reservations \subseteq ReservationsOf(p.id, p.inputs)
    /\ \/ script = <<AddPayment(p)>> /\ todo.reservations = ReservationsOf(p.id, p.inputs) /\ t = b
       \/ script = <<>> /\ Taken(b, t, p, todo.reservations)
       \/ \E r \in ReservationsOf(p.id, p.inputs) \ todo.reservations :
            script = <<Reserving(r)>> /\ Taken(b, t, p, todo.reservations \cup {r})

LocksButFor(b, w, coins, left) == [b EXCEPT !.locks = @ \cup (({w} \X coins) \ left)]

Locking(b, t) == \E w \in b.wallets, coins \in SUBSET Coins :
    /\ Len(saved) = 1
    /\ todo = [V!Empty EXCEPT !.locks = todo.locks] /\ todo.locks \subseteq {w} \X coins
    /\ \/ script = <<>> /\ t = LocksButFor(b, w, coins, todo.locks)
       \/ \E l \in ({w} \X coins) \ todo.locks :
            script = <<LockCoin(l)>> /\ t = LocksButFor(b, w, coins, todo.locks \cup {l})

\* What the loops of a restore have left: the keys of a wallet wait with it.
Pending(g) == [todo EXCEPT !.addresses = @ \cup {a \in g.addresses : a.wallet \in todo.wallets}]

\* The first key of a wallet, in a transaction of its own.
CreatingFirst(g, b, t) == \E w \in g.wallets \ todo.wallets, k \in Keys :
    LET add == AddAddress(k, w, FALSE)
        before == [Pending(g) EXCEPT !.wallets = @ \cup {w}]
    IN  /\ b = saved[1] /\ V!Address(k, w, TRUE) \in todo.addresses
        /\ \/ script = <<Savepoint, NewWallet(w), add, Release>> /\ Len(saved) = 1 /\ Behind(g, before, b, t)
           \/ script = <<NewWallet(w), add, Release>> /\ Len(saved) = 2 /\ Behind(g, before, b, t)
           \/ script = <<add, Release>> /\ Len(saved) = 2 /\ Behind(g, Pending(g), b, t)
           \/ script = <<Release>> /\ Len(saved) = 2 /\ Behind(g, Pending(g), b, t)

Brought(k, b, t) == \E x \in t.addresses \ b.addresses : x.key = k

Flagging(g, b, t) == \E a \in g.addresses \ todo.addresses :
    /\ a.wallet \notin todo.wallets /\ Len(saved) = 1
    /\ Behind(g, [Pending(g) EXCEPT !.addresses = @ \cup {a}], b, t)
    /\ \/ script = <<AddAddress(a.key, a.wallet, TRUE), FlagAddress(a.key)>>
       \/ script = <<FlagAddress(a.key)>> /\ Brought(a.key, b, t)

RestoringRow(g, b, t) ==
    \/ script = <<>> /\ Behind(g, Pending(g), b, t)
    \/ \E p \in g.outgoing \ todo.outgoing :
        script = <<AddPayment(p)>> /\ Behind(g, [Pending(g) EXCEPT !.outgoing = @ \cup {p}], b, t)
    \/ \E r \in g.reservations \ todo.reservations :
        script = <<Reserving(r)>> /\ Behind(g, [Pending(g) EXCEPT !.reservations = @ \cup {r}], b, t)
    \/ \E l \in g.locks \ todo.locks :
        script = <<LockCoin(l)>> /\ Behind(g, [Pending(g) EXCEPT !.locks = @ \cup {l}], b, t)

Remaining(g) ==
    /\ todo \in TableSet
    /\ todo.wallets \subseteq g.wallets /\ todo.addresses \subseteq g.addresses
    /\ todo.outgoing \subseteq g.outgoing /\ todo.reservations \subseteq g.reservations
    /\ todo.locks \subseteq g.locks
    /\ \A a \in todo.addresses : a.wallet \notin todo.wallets

Restoring(b, t) == \E o \in Owners :
    LET g == Restored(backup, o)
    IN  /\ Remaining(g)
        /\ \/ CreatingFirst(g, b, t)
           \/ Flagging(g, b, t)
           \/ Len(saved) = 1 /\ RestoringRow(g, b, t)

Underway ==
    LET b == saved[1]
        t == tables[at]
    IN  Creating(b, t) \/ Adding(b, t) \/ Reserves(b, t) \/ Locking(b, t) \/ Restoring(b, t)

\* The transaction and the states it may go back to.
Scope ==
    /\ tables \in [Vaults -> TableSet]
    /\ at \in Vaults \cup {"none"} /\ failed \in BOOLEAN
    /\ at = "none" => saved = <<>> /\ script = <<>> /\ todo = V!Empty /\ ~failed
    /\ saved \in Seq(TableSet) /\ (at # "none" => Len(saved) \in 1 .. 2)
    /\ failed => script = <<>> /\ todo = V!Empty

BackupOK == backup \in BackupSet /\ \A o \in Owners : Consistent(Restored(backup, o))

IInv ==
    /\ Scope
    /\ \A v \in Vaults : Consistent(Committed[v])
    /\ BackupOK
    /\ Running => Underway

-----------------------------------------------------------------------------
\* The statements of a restore, one by one: what is left shrinks by the row.

LEMMA WalletComes ==
  ASSUME NEW g \in TableSet, NEW left \in TableSet, NEW b \in TableSet, NEW t,
         NEW w \in g.wallets, w \notin left.wallets,
         Behind(g, [left EXCEPT !.wallets = @ \cup {w}], b, t),
         ~Clashes(t, NewWallet(w))
  PROVE  Behind(g, left, b, Done(t, NewWallet(w)))
<1>1. /\ w \notin t.wallets
      /\ Done(t, NewWallet(w)) = [t EXCEPT !.wallets = @ \cup {w}]
  BY DEF Clashes, NewWallet, Done
<1> DEFINE before == [left EXCEPT !.wallets = @ \cup {w}]
           u == [t EXCEPT !.wallets = @ \cup {w}]
<1>2. /\ t \in TableSet /\ u \in TableSet
      /\ u.wallets = t.wallets \cup {w} /\ u.addresses = t.addresses /\ u.outgoing = t.outgoing
      /\ u.reservations = t.reservations /\ u.locks = t.locks
  BY DEF Behind, TableSet
<1>3. /\ before.wallets = left.wallets \cup {w} /\ before.addresses = left.addresses
      /\ before.outgoing = left.outgoing /\ before.reservations = left.reservations
      /\ before.locks = left.locks
  BY DEF TableSet
<1>4. WalletsBehind(g, left, b, u)
  BY <1>1, <1>2, <1>3 DEF Behind, WalletsBehind
<1>5. /\ AddressesBehind(g, left, b, u) /\ PaymentsBehind(g, left, b, u)
      /\ ReservationsBehind(g, left, b, u) /\ LocksBehind(g, left, b, u)
  BY <1>2, <1>3 DEF Behind, AddressesBehind, PaymentsBehind, ReservationsBehind, LocksBehind, KeysOnce
<1> QED  BY <1>1, <1>2, <1>4, <1>5 DEF Behind

LEMMA PaymentComes ==
  ASSUME NEW g \in TableSet, NEW left \in TableSet, NEW b \in TableSet, NEW t,
         NEW p \in g.outgoing, p \notin left.outgoing,
         Behind(g, [left EXCEPT !.outgoing = @ \cup {p}], b, t),
         ~Clashes(t, AddPayment(p))
  PROVE  Behind(g, left, b, Done(t, AddPayment(p)))
<1>1. /\ \A q \in t.outgoing : q.id # p.id
      /\ Done(t, AddPayment(p)) = [t EXCEPT !.outgoing = @ \cup {p}]
  BY DEF Clashes, AddPayment, Done
<1> DEFINE before == [left EXCEPT !.outgoing = @ \cup {p}]
           u == [t EXCEPT !.outgoing = @ \cup {p}]
<1>2. /\ t \in TableSet /\ u \in TableSet
      /\ u.outgoing = t.outgoing \cup {p} /\ u.addresses = t.addresses /\ u.wallets = t.wallets
      /\ u.reservations = t.reservations /\ u.locks = t.locks
  BY DEF Behind, TableSet
<1>3. /\ before.outgoing = left.outgoing \cup {p} /\ before.addresses = left.addresses
      /\ before.wallets = left.wallets /\ before.reservations = left.reservations
      /\ before.locks = left.locks
  BY DEF TableSet
<1>4. PaymentsBehind(g, left, b, u)
  BY <1>1, <1>2, <1>3 DEF Behind, PaymentsBehind
<1>5. /\ AddressesBehind(g, left, b, u) /\ WalletsBehind(g, left, b, u)
      /\ ReservationsBehind(g, left, b, u) /\ LocksBehind(g, left, b, u)
  BY <1>2, <1>3 DEF Behind, AddressesBehind, WalletsBehind, ReservationsBehind, LocksBehind, KeysOnce
<1> QED  BY <1>1, <1>2, <1>4, <1>5 DEF Behind

LEMMA ReservationComes ==
  ASSUME NEW g \in TableSet, NEW left \in TableSet, NEW b \in TableSet, NEW t,
         NEW r \in g.reservations, r \notin left.reservations,
         Behind(g, [left EXCEPT !.reservations = @ \cup {r}], b, t),
         ~Clashes(t, Reserving(r))
  PROVE  Behind(g, left, b, Done(t, Reserving(r)))
<1>1. /\ \A q \in t.reservations : q.coin # r.coin
      /\ Done(t, Reserving(r)) = [t EXCEPT !.reservations = @ \cup {r}]
  BY DEF Clashes, Reserving, Done
<1> DEFINE before == [left EXCEPT !.reservations = @ \cup {r}]
           u == [t EXCEPT !.reservations = @ \cup {r}]
<1>2. /\ t \in TableSet /\ u \in TableSet
      /\ u.reservations = t.reservations \cup {r} /\ u.addresses = t.addresses
      /\ u.wallets = t.wallets /\ u.outgoing = t.outgoing /\ u.locks = t.locks
  BY DEF Behind, TableSet
<1>3. /\ before.reservations = left.reservations \cup {r} /\ before.addresses = left.addresses
      /\ before.wallets = left.wallets /\ before.outgoing = left.outgoing
      /\ before.locks = left.locks
  BY DEF TableSet
<1>4. ReservationsBehind(g, left, b, u)
  BY <1>1, <1>2, <1>3 DEF Behind, ReservationsBehind
<1>5. /\ AddressesBehind(g, left, b, u) /\ WalletsBehind(g, left, b, u)
      /\ PaymentsBehind(g, left, b, u) /\ LocksBehind(g, left, b, u)
  BY <1>2, <1>3 DEF Behind, AddressesBehind, WalletsBehind, PaymentsBehind, LocksBehind, KeysOnce
<1> QED  BY <1>1, <1>2, <1>4, <1>5 DEF Behind

LEMMA LockComes ==
  ASSUME NEW g \in TableSet, NEW left \in TableSet, NEW b \in TableSet, NEW t,
         NEW l \in g.locks, l \notin left.locks,
         Behind(g, [left EXCEPT !.locks = @ \cup {l}], b, t)
  PROVE  Behind(g, left, b, Done(t, LockCoin(l)))
<1>1. Done(t, LockCoin(l)) = [t EXCEPT !.locks = @ \cup {l}]
  BY DEF LockCoin, Done
<1> DEFINE before == [left EXCEPT !.locks = @ \cup {l}]
           u == [t EXCEPT !.locks = @ \cup {l}]
<1>2. /\ t \in TableSet /\ u \in TableSet
      /\ u.locks = t.locks \cup {l} /\ u.addresses = t.addresses
      /\ u.wallets = t.wallets /\ u.outgoing = t.outgoing /\ u.reservations = t.reservations
  BY DEF Behind, TableSet
<1>3. /\ before.locks = left.locks \cup {l} /\ before.addresses = left.addresses
      /\ before.wallets = left.wallets /\ before.outgoing = left.outgoing
      /\ before.reservations = left.reservations
  BY DEF TableSet
<1>4. LocksBehind(g, left, b, u)
  BY <1>1, <1>2, <1>3 DEF Behind, LocksBehind
<1>5. /\ AddressesBehind(g, left, b, u) /\ WalletsBehind(g, left, b, u)
      /\ PaymentsBehind(g, left, b, u) /\ ReservationsBehind(g, left, b, u)
  BY <1>2, <1>3 DEF Behind, AddressesBehind, WalletsBehind, PaymentsBehind, ReservationsBehind, KeysOnce
<1> QED  BY <1>1, <1>2, <1>4, <1>5 DEF Behind

AddressSet == [key : Keys, wallet : V!Wallets, rescan : BOOLEAN]

LEMMA FlaggedRow ==
  ASSUME NEW a \in AddressSet
  PROVE  Flagged(a) = V!Address(a.key, a.wallet, TRUE) /\ Flagged(a) \in AddressSet
  BY DEF Flagged, V!Address, AddressSet

LEMMA AddressComes ==
  ASSUME NEW g \in TableSet, NEW left \in TableSet, NEW b \in TableSet, NEW t,
         NEW k \in Keys, NEW w \in g.wallets, NEW rescan \in BOOLEAN,
         Consistent(b), w \notin left.wallets,
         V!Address(k, w, TRUE) \in g.addresses, V!Address(k, w, TRUE) \in left.addresses,
         Behind(g, left, b, t), ~Clashes(t, AddAddress(k, w, rescan))
  PROVE  /\ Behind(g, left, b, Done(t, AddAddress(k, w, rescan)))
         /\ Brought(k, b, Done(t, AddAddress(k, w, rescan)))
<1> DEFINE row == V!Address(k, w, rescan)
           u == IF k \in V!AllKeys(t) THEN t ELSE [t EXCEPT !.addresses = @ \cup {row}]
<1>1. /\ t \in TableSet /\ w \in V!Wallets /\ w \notin b.wallets
      /\ b.addresses \subseteq t.addresses
  BY DEF Behind, WalletsBehind, AddressesBehind, TableSet
<1>2. /\ \A a \in t.addresses : a.key = k => a.wallet = w
      /\ Done(t, AddAddress(k, w, rescan)) = u
  BY DEF Clashes, AddAddress, Done, V!Address
<1>3. \A a \in b.addresses : a.key # k
  BY <1>1, <1>2 DEF Consistent, WalletsKeyed
<1>4. CASE k \in V!AllKeys(t)
  BY <1>2, <1>3, <1>4 DEF V!AllKeys, Brought
<1>5. CASE k \notin V!AllKeys(t)
  <2>1. /\ row.key = k /\ row.wallet = w /\ row.rescan = rescan
        /\ row \in [key : Keys, wallet : V!Wallets, rescan : BOOLEAN]
        /\ Flagged(row) = V!Address(k, w, TRUE)
    <3>1. /\ row.key = k /\ row.wallet = w /\ row.rescan = rescan
          /\ row \in [key : Keys, wallet : V!Wallets, rescan : BOOLEAN]
      BY <1>1 DEF V!Address
    <3> HIDE DEF row
    <3> QED  BY <3>1, FlaggedRow DEF AddressSet
  <2>2. /\ u \in TableSet /\ u.addresses = t.addresses \cup {row} /\ u.outgoing = t.outgoing
        /\ u.reservations = t.reservations /\ u.locks = t.locks /\ u.wallets = t.wallets
    BY <1>1, <1>5, <2>1 DEF TableSet
  <2>3. \A a \in t.addresses : a.key # k
    BY <1>5 DEF V!AllKeys
  <2>4. KeysOnce(u)
    BY <2>1, <2>2, <2>3 DEF Behind, AddressesBehind, KeysOnce
  <2>5. AddressesBehind(g, left, b, u)
    BY <1>3, <2>1, <2>2, <2>4 DEF Behind, AddressesBehind
  <2>6. /\ WalletsBehind(g, left, b, u) /\ PaymentsBehind(g, left, b, u)
        /\ ReservationsBehind(g, left, b, u) /\ LocksBehind(g, left, b, u)
    BY <2>2 DEF Behind, WalletsBehind, PaymentsBehind, ReservationsBehind, LocksBehind
  <2>7. row \in u.addresses \ b.addresses
    BY <1>3, <2>1, <2>2
  <2> QED  BY <1>2, <2>1, <2>2, <2>5, <2>6, <2>7 DEF Behind, Brought
<1> QED  BY <1>4, <1>5

LEMMA FlagComes ==
  ASSUME NEW g \in TableSet, NEW left \in TableSet, NEW b \in TableSet, NEW t,
         NEW a \in g.addresses, a \notin left.addresses, a.rescan = TRUE, KeysOnce(g),
         Behind(g, [left EXCEPT !.addresses = @ \cup {a}], b, t),
         Brought(a.key, b, t)
  PROVE  Behind(g, left, b, Done(t, FlagAddress(a.key)))
<1> PICK x \in t.addresses \ b.addresses : x.key = a.key
  BY DEF Brought
<1> DEFINE before == [left EXCEPT !.addresses = @ \cup {a}]
           Turned(y) == IF y.key = a.key THEN Flagged(y) ELSE y
           u == [t EXCEPT !.addresses = {Turned(y) : y \in @}]
<1>1. Done(t, FlagAddress(a.key)) = u
  BY DEF FlagAddress, Done, Flagged
<1>2. /\ before.wallets = left.wallets /\ before.addresses = left.addresses \cup {a}
      /\ before.outgoing = left.outgoing /\ before.reservations = left.reservations
      /\ before.locks = left.locks
  BY DEF TableSet
<1>3. t \in TableSet /\ AddressesBehind(g, before, b, t)
  BY DEF Behind
<1>4. \A y \in t.addresses : /\ y \in AddressSet /\ Turned(y) \in AddressSet
                            /\ Turned(y).key = y.key /\ Flagged(y).key = y.key
  <2>1. \A y \in t.addresses : y \in AddressSet
    BY <1>3 DEF TableSet, AddressSet
  <2> QED  BY <2>1, FlaggedRow DEF V!Address
<1>5. /\ u \in TableSet /\ u.addresses = {Turned(y) : y \in t.addresses} /\ u.outgoing = t.outgoing
      /\ u.reservations = t.reservations /\ u.locks = t.locks /\ u.wallets = t.wallets
  <2> HIDE DEF Turned
  <2> QED  BY <1>3, <1>4 DEF TableSet, AddressSet
<1>6. \A y \in t.addresses : y.key = a.key => y = x
  BY <1>3 DEF AddressesBehind, KeysOnce
<1>7. Flagged(x) = a /\ Turned(x) = a
  <2>1. Flagged(x) \in g.addresses /\ Flagged(x).key = a.key
    BY <1>3, <1>4 DEF AddressesBehind
  <2> QED  BY <2>1 DEF KeysOnce
<1>8. \A y \in t.addresses : y # x => Turned(y) = y
  BY <1>6
<1>9. u.addresses = (t.addresses \ {x}) \cup {a}
  <2> HIDE DEF Turned
  <2>1. u.addresses = {Turned(y) : y \in t.addresses}
    BY <1>5
  <2>2. \A z \in u.addresses : z \in (t.addresses \ {x}) \cup {a}
    BY <1>7, <1>8, <2>1
  <2>3. \A z \in (t.addresses \ {x}) \cup {a} : z \in u.addresses
    BY <1>7, <1>8, <2>1
  <2> HIDE DEF u
  <2> QED  BY <2>2, <2>3
<1>10. KeysOnce(u)
  BY <1>3, <1>6, <1>9 DEF AddressesBehind, KeysOnce
<1>11. b.addresses \subseteq u.addresses
  BY <1>3, <1>9 DEF AddressesBehind
<1>12. g.addresses \ left.addresses \subseteq u.addresses
  <2> SUFFICES ASSUME NEW y \in g.addresses \ left.addresses, y # a  PROVE y \in u.addresses
    BY <1>9
  <2>1. y \in t.addresses
    BY <1>2, <1>3 DEF AddressesBehind
  <2>2. y # x
    BY DEF KeysOnce
  <2> QED  BY <1>9, <2>1, <2>2
<1>13. ASSUME NEW y \in u.addresses \ b.addresses
       PROVE  /\ \A c \in b.addresses : c.key # y.key
              /\ Flagged(y) \in g.addresses
              /\ y.rescan \/ Flagged(y) \in left.addresses
  <2>1. CASE y = a
    <3>1. a \in [key : Keys, wallet : V!Wallets, rescan : BOOLEAN]
      BY DEF TableSet
    <3>2. Flagged(a) = a
      BY <1>7 DEF Flagged, V!Address
    <3> QED  BY <1>3, <2>1, <3>2 DEF AddressesBehind
  <2>2. CASE y # a
    <3>1. y \in t.addresses \ b.addresses /\ y # x
      BY <1>9, <2>2
    <3>2. y.key # a.key /\ Flagged(y).key = y.key
      BY <1>4, <1>6, <3>1
    <3> QED  BY <1>2, <1>3, <3>1, <3>2 DEF AddressesBehind
  <2> QED  BY <2>1, <2>2
<1>14. AddressesBehind(g, left, b, u)
  BY <1>10, <1>11, <1>12, <1>13 DEF AddressesBehind
<1>15. /\ WalletsBehind(g, left, b, u) /\ PaymentsBehind(g, left, b, u)
       /\ ReservationsBehind(g, left, b, u) /\ LocksBehind(g, left, b, u)
  BY <1>2, <1>5 DEF Behind, WalletsBehind, PaymentsBehind, ReservationsBehind, LocksBehind
<1> QED  BY <1>1, <1>5, <1>14, <1>15 DEF Behind

-----------------------------------------------------------------------------
\* When nothing is left the tables are the base and the restored rows.

LEMMA EmptyTables == V!Empty \in TableSet
BY DEF V!Empty, TableSet

LEMMA RowStays ==
  ASSUME NEW a \in AddressSet, a.rescan  PROVE Flagged(a) = a
BY DEF AddressSet, Flagged, V!Address

LEMMA NothingLeft ==
  ASSUME NEW g \in TableSet, NEW b \in TableSet, NEW t, Behind(g, V!Empty, b, t)
  PROVE  /\ t \in TableSet /\ KeysOnce(t)
         /\ t.wallets = b.wallets \cup g.wallets /\ t.addresses = b.addresses \cup g.addresses
         /\ t.outgoing = b.outgoing \cup g.outgoing /\ t.locks = b.locks \cup g.locks
         /\ t.reservations = b.reservations \cup g.reservations
         /\ \A w \in g.wallets : w \notin b.wallets
         /\ \A a \in g.addresses, c \in b.addresses : a.key # c.key \/ a \in b.addresses
         /\ \A p \in g.outgoing, q \in b.outgoing : p.id # q.id
         /\ \A r \in g.reservations, q \in b.reservations : r.coin # q.coin
<1>1. /\ V!Empty.wallets = {} /\ V!Empty.addresses = {} /\ V!Empty.outgoing = {}
      /\ V!Empty.reservations = {} /\ V!Empty.locks = {}
  BY DEF V!Empty
<1>2. /\ t.wallets = b.wallets \cup g.wallets /\ t.outgoing = b.outgoing \cup g.outgoing
      /\ t.locks = b.locks \cup g.locks /\ t.reservations = b.reservations \cup g.reservations
      /\ \A w \in g.wallets : w \notin b.wallets
      /\ \A p \in g.outgoing, q \in b.outgoing : p.id # q.id
      /\ \A r \in g.reservations, q \in b.reservations : r.coin # q.coin
  BY <1>1 DEF Behind, WalletsBehind, PaymentsBehind, ReservationsBehind, LocksBehind
<1>3. t \in TableSet /\ AddressesBehind(g, V!Empty, b, t)
  BY DEF Behind
<1>4. \A a \in t.addresses : a \in AddressSet
  BY <1>3 DEF TableSet, AddressSet
<1>5. \A a \in t.addresses : a \in b.addresses \/ a \in g.addresses
  <2> TAKE a \in t.addresses
  <2>1. CASE a \notin b.addresses
    <3>1. a.rescan /\ Flagged(a) \in g.addresses
      BY <1>1, <1>3, <2>1 DEF AddressesBehind
    <3> QED  BY <1>4, <3>1, RowStays
  <2> QED  BY <2>1
<1>6. t.addresses = b.addresses \cup g.addresses
  BY <1>1, <1>3, <1>5 DEF AddressesBehind
<1>7. \A a \in g.addresses, c \in b.addresses : a.key # c.key \/ a \in b.addresses
  BY <1>3, <1>6 DEF AddressesBehind
<1> QED  BY <1>2, <1>3, <1>6, <1>7 DEF AddressesBehind

LEMMA RestoreIsConsistent ==
  ASSUME NEW g, NEW b, NEW t, Consistent(g), Consistent(b), Behind(g, V!Empty, b, t)
  PROVE  Consistent(t)
<1>1. g \in TableSet /\ b \in TableSet
  BY DEF Consistent
<1>2. /\ t \in TableSet /\ KeysOnce(t)
      /\ t.wallets = b.wallets \cup g.wallets /\ t.addresses = b.addresses \cup g.addresses
      /\ t.outgoing = b.outgoing \cup g.outgoing /\ t.locks = b.locks \cup g.locks
      /\ t.reservations = b.reservations \cup g.reservations
      /\ \A p \in g.outgoing, q \in b.outgoing : p.id # q.id
      /\ \A r \in g.reservations, q \in b.reservations : r.coin # q.coin
  BY <1>1, NothingLeft
<1>3. WalletsKeyed(t)
  BY <1>2 DEF Consistent, WalletsKeyed
<1>4. InputsKeyed(t)
  BY <1>2 DEF Consistent, InputsKeyed
<1>5. IdsOnce(t)
  BY <1>2 DEF Consistent, IdsOnce
<1>6. ReservationsOfInputs(t)
  BY <1>2 DEF Consistent, ReservationsOfInputs
<1>7. ASSUME NEW p \in g.outgoing, NEW q \in b.outgoing, NEW c \in p.inputs  PROVE c \notin q.inputs
  <2>1. /\ p.id \in Ids /\ q.id \in Ids /\ c \in Coins
    BY <1>1 DEF TableSet
  <2> SUFFICES ASSUME c \in q.inputs  PROVE FALSE
    OBVIOUS
  <2>2. [coin |-> c, id |-> p.id] \in g.reservations /\ [coin |-> c, id |-> q.id] \in b.reservations
    BY <2>1 DEF Consistent, ReservationsOfInputs
  <2> QED  BY <1>2, <2>2
<1>8. InputsOnce(t)
  BY <1>2, <1>7 DEF Consistent, InputsOnce
<1>9. LocksOfWallets(t)
  BY <1>2 DEF Consistent, LocksOfWallets
<1> QED  BY <1>2, <1>3, <1>4, <1>5, <1>6, <1>8, <1>9 DEF Consistent

-----------------------------------------------------------------------------
\* A backup is a consistent part of the tables, whatever namespace it goes to.

LEMMA PayloadRows ==
  ASSUME NEW t \in TableSet, NEW o \in Owners
  PROVE  LET b == V!Payload(t, o)
         IN  /\ \A a : a \in b.accounts <=> a \in Accounts /\ <<o, a>> \in t.wallets
             /\ \A x \in b.addresses : \E y \in t.addresses, a \in Accounts :
                    y.wallet = <<o, a>> /\ x = <<y.key, a>>
             /\ \A y \in t.addresses, a \in Accounts : y.wallet = <<o, a>> => <<y.key, a>> \in b.addresses
             /\ \A p \in b.outgoing : \E q \in t.outgoing, a \in Accounts :
                    q.wallet = <<o, a>> /\ p = [id |-> q.id, account |-> a, inputs |-> q.inputs]
             /\ \A q \in t.outgoing, a \in Accounts : q.wallet = <<o, a>> =>
                    [id |-> q.id, account |-> a, inputs |-> q.inputs] \in b.outgoing
             /\ \A r : r \in b.reservations <=>
                    r \in t.reservations /\ \E q \in t.outgoing, a \in Accounts : q.wallet = <<o, a>> /\ q.id = r.id
             /\ \A l : l \in b.locks <=>
                    \E a \in Accounts, c \in Coins : l = <<a, c>> /\ <<<<o, a>>, c>> \in t.locks
<1> DEFINE b == V!Payload(t, o)
           rows == {p \in t.outgoing : p.wallet[1] = o}
<1>1. /\ b.accounts = {w[2] : w \in {x \in t.wallets : x[1] = o}}
      /\ b.addresses = {<<a.key, a.wallet[2]>> : a \in {x \in t.addresses : x.wallet[1] = o}}
      /\ b.outgoing = {[id |-> p.id, account |-> p.wallet[2], inputs |-> p.inputs] : p \in rows}
      /\ b.reservations = {r \in t.reservations : r.id \in {p.id : p \in rows}}
      /\ b.locks = {<<l[1][2], l[2]>> : l \in {x \in t.locks : x[1][1] = o}}
  BY DEF V!Payload
<1> HIDE DEF b
<1>2. \A w \in V!Wallets : /\ w[1] \in Owners /\ w[2] \in Accounts /\ w = <<w[1], w[2]>>
                           /\ w[1] = o <=> w = <<o, w[2]>>
  BY DEF V!Wallets
<1>3. /\ \A w \in t.wallets : w \in V!Wallets
      /\ \A a \in t.addresses : a.wallet \in V!Wallets
      /\ \A p \in t.outgoing : p.wallet \in V!Wallets
      /\ \A l \in t.locks : l[1] \in V!Wallets /\ l[2] \in Coins /\ l = <<l[1], l[2]>>
  BY DEF TableSet
<1>4. \A a : a \in b.accounts <=> a \in Accounts /\ <<o, a>> \in t.wallets
  BY <1>1, <1>2, <1>3
<1>5. ASSUME NEW x \in b.addresses
      PROVE  \E y \in t.addresses, a \in Accounts : y.wallet = <<o, a>> /\ x = <<y.key, a>>
  <2>1. PICK y \in t.addresses : y.wallet[1] = o /\ x = <<y.key, y.wallet[2]>>
    BY <1>1
  <2> QED  BY <1>2, <1>3, <2>1
<1>6. \A y \in t.addresses, a \in Accounts : y.wallet = <<o, a>> => <<y.key, a>> \in b.addresses
  BY <1>1, <1>2, <1>3
<1>7. ASSUME NEW p \in b.outgoing
      PROVE  \E q \in t.outgoing, a \in Accounts :
                 q.wallet = <<o, a>> /\ p = [id |-> q.id, account |-> a, inputs |-> q.inputs]
  <2>1. PICK q \in t.outgoing : q.wallet[1] = o /\ p = [id |-> q.id, account |-> q.wallet[2], inputs |-> q.inputs]
    BY <1>1
  <2> QED  BY <1>2, <1>3, <2>1
<1>8. \A q \in t.outgoing, a \in Accounts : q.wallet = <<o, a>> =>
          [id |-> q.id, account |-> a, inputs |-> q.inputs] \in b.outgoing
  BY <1>1, <1>2, <1>3
<1>9. \A r : r \in b.reservations <=>
          r \in t.reservations /\ \E q \in t.outgoing, a \in Accounts : q.wallet = <<o, a>> /\ q.id = r.id
  BY <1>1, <1>2, <1>3
<1>10. ASSUME NEW l \in b.locks
       PROVE  \E a \in Accounts, c \in Coins : l = <<a, c>> /\ <<<<o, a>>, c>> \in t.locks
  <2>1. PICK x \in t.locks : x[1][1] = o /\ l = <<x[1][2], x[2]>>
    BY <1>1
  <2>2. x[1] = <<o, x[1][2]>> /\ x[1][2] \in Accounts /\ x = <<x[1], x[2]>> /\ x[2] \in Coins
    BY <1>2, <1>3, <2>1
  <2> QED  BY <2>1, <2>2
<1>11. ASSUME NEW a \in Accounts, NEW c \in Coins, <<<<o, a>>, c>> \in t.locks
       PROVE  <<a, c>> \in b.locks
  <2> DEFINE x == <<<<o, a>>, c>>
  <2>1. x[1][1] = o /\ <<x[1][2], x[2]>> = <<a, c>>
    OBVIOUS
  <2> QED  BY <1>1, <1>11, <2>1
<1>12. \A l : l \in b.locks <=> \E a \in Accounts, c \in Coins : l = <<a, c>> /\ <<<<o, a>>, c>> \in t.locks
  BY <1>10, <1>11
<1>13. /\ \A x \in b.addresses : \E y \in t.addresses, a \in Accounts :
             y.wallet = <<o, a>> /\ x = <<y.key, a>>
       /\ \A p \in b.outgoing : \E q \in t.outgoing, a \in Accounts :
             q.wallet = <<o, a>> /\ p = [id |-> q.id, account |-> a, inputs |-> q.inputs]
  BY <1>5, <1>7
<1> QED  BY <1>4, <1>6, <1>8, <1>9, <1>12, <1>13, Zenon DEF b

\* The rows of a backup of t in the namespace n.
LEMMA BackupRows ==
  ASSUME NEW t \in TableSet, NEW o \in Owners, NEW n \in Owners
  PROVE  LET g == Restored(V!Payload(t, o), n)
         IN  /\ \A w : w \in g.wallets <=> \E a \in Accounts : w = <<n, a>> /\ <<o, a>> \in t.wallets
             /\ \A r : r \in g.addresses <=>
                    \E y \in t.addresses, a \in Accounts :
                        y.wallet = <<o, a>> /\ r = V!Address(y.key, <<n, a>>, TRUE)
             /\ \A p : p \in g.outgoing <=>
                    \E q \in t.outgoing, a \in Accounts :
                        q.wallet = <<o, a>> /\ p = V!Payment(q.id, <<n, a>>, q.inputs)
             /\ \A r : r \in g.reservations <=>
                    r \in t.reservations /\ \E q \in t.outgoing, a \in Accounts : q.wallet = <<o, a>> /\ q.id = r.id
             /\ \A l : l \in g.locks <=>
                    \E a \in Accounts, c \in Coins : l = <<<<n, a>>, c>> /\ <<<<o, a>>, c>> \in t.locks
<1> DEFINE b == V!Payload(t, o)
           g == Restored(b, n)
<1> HIDE DEF b
<1>1. /\ \A w : w \in g.wallets <=> \E a \in b.accounts : w = <<n, a>>
      /\ \A r : r \in g.addresses <=> \E x \in b.addresses : r = V!Address(x[1], <<n, x[2]>>, TRUE)
      /\ \A p : p \in g.outgoing <=> \E q \in b.outgoing : p = V!Payment(q.id, <<n, q.account>>, q.inputs)
      /\ g.reservations = b.reservations
      /\ \A l : l \in g.locks <=> \E x \in b.locks : l = <<<<n, x[1]>>, x[2]>>
  BY DEF Restored
<1>2. /\ \A a : a \in b.accounts <=> a \in Accounts /\ <<o, a>> \in t.wallets
      /\ \A x \in b.addresses : \E y \in t.addresses, a \in Accounts :
             y.wallet = <<o, a>> /\ x = <<y.key, a>>
      /\ \A y \in t.addresses, a \in Accounts : y.wallet = <<o, a>> => <<y.key, a>> \in b.addresses
      /\ \A p \in b.outgoing : \E q \in t.outgoing, a \in Accounts :
             q.wallet = <<o, a>> /\ p = [id |-> q.id, account |-> a, inputs |-> q.inputs]
      /\ \A q \in t.outgoing, a \in Accounts : q.wallet = <<o, a>> =>
             [id |-> q.id, account |-> a, inputs |-> q.inputs] \in b.outgoing
      /\ \A r : r \in b.reservations <=>
             r \in t.reservations /\ \E q \in t.outgoing, a \in Accounts : q.wallet = <<o, a>> /\ q.id = r.id
      /\ \A l : l \in b.locks <=>
             \E a \in Accounts, c \in Coins : l = <<a, c>> /\ <<<<o, a>>, c>> \in t.locks
  BY PayloadRows, Zenon DEF b
<1> HIDE DEF g
<1>3. \A w : w \in g.wallets <=> \E a \in Accounts : w = <<n, a>> /\ <<o, a>> \in t.wallets
  BY <1>1, <1>2
<1>4. ASSUME NEW r
      PROVE  r \in g.addresses <=> \E y \in t.addresses, a \in Accounts :
                 y.wallet = <<o, a>> /\ r = V!Address(y.key, <<n, a>>, TRUE)
  <2>1. ASSUME r \in g.addresses
        PROVE  \E y \in t.addresses, a \in Accounts : y.wallet = <<o, a>> /\ r = V!Address(y.key, <<n, a>>, TRUE)
    <3>1. PICK x \in b.addresses : r = V!Address(x[1], <<n, x[2]>>, TRUE)
      BY <1>1, <2>1
    <3>2. PICK y \in t.addresses, a \in Accounts : y.wallet = <<o, a>> /\ x = <<y.key, a>>
      BY <1>2
    <3>3. x[1] = y.key /\ x[2] = a
      BY <3>2
    <3> QED  BY <3>1, <3>2, <3>3
  <2>2. ASSUME NEW y \in t.addresses, NEW a \in Accounts, y.wallet = <<o, a>>,
               r = V!Address(y.key, <<n, a>>, TRUE)
        PROVE  r \in g.addresses
    <3> DEFINE x == <<y.key, a>>
    <3>1. x \in b.addresses /\ x[1] = y.key /\ x[2] = a
      BY <1>2, <2>2
    <3> QED  BY <1>1, <2>2, <3>1
  <2> QED  BY <2>1, <2>2
<1>5. ASSUME NEW p
      PROVE  p \in g.outgoing <=> \E q \in t.outgoing, a \in Accounts :
                 q.wallet = <<o, a>> /\ p = V!Payment(q.id, <<n, a>>, q.inputs)
  <2>1. ASSUME p \in g.outgoing
        PROVE  \E q \in t.outgoing, a \in Accounts : q.wallet = <<o, a>> /\ p = V!Payment(q.id, <<n, a>>, q.inputs)
    <3>1. PICK x \in b.outgoing : p = V!Payment(x.id, <<n, x.account>>, x.inputs)
      BY <1>1, <2>1
    <3>2. PICK q \in t.outgoing, a \in Accounts :
              q.wallet = <<o, a>> /\ x = [id |-> q.id, account |-> a, inputs |-> q.inputs]
      BY <1>2
    <3>3. x.id = q.id /\ x.account = a /\ x.inputs = q.inputs
      BY <3>2
    <3> QED  BY <3>1, <3>2, <3>3
  <2>2. ASSUME NEW q \in t.outgoing, NEW a \in Accounts, q.wallet = <<o, a>>,
               p = V!Payment(q.id, <<n, a>>, q.inputs)
        PROVE  p \in g.outgoing
    <3> DEFINE x == [id |-> q.id, account |-> a, inputs |-> q.inputs]
    <3>1. x \in b.outgoing /\ x.id = q.id /\ x.account = a /\ x.inputs = q.inputs
      BY <1>2, <2>2
    <3> QED  BY <1>1, <2>2, <3>1
  <2> QED  BY <2>1, <2>2
<1>6. \A r : r \in g.reservations <=>
          r \in t.reservations /\ \E q \in t.outgoing, a \in Accounts : q.wallet = <<o, a>> /\ q.id = r.id
  BY <1>1, <1>2
<1>7. ASSUME NEW l
      PROVE  l \in g.locks <=> \E a \in Accounts, c \in Coins : l = <<<<n, a>>, c>> /\ <<<<o, a>>, c>> \in t.locks
  <2>1. ASSUME l \in g.locks
        PROVE  \E a \in Accounts, c \in Coins : l = <<<<n, a>>, c>> /\ <<<<o, a>>, c>> \in t.locks
    <3>1. PICK x \in b.locks : l = <<<<n, x[1]>>, x[2]>>
      BY <1>1, <2>1
    <3>2. PICK a \in Accounts, c \in Coins : x = <<a, c>> /\ <<<<o, a>>, c>> \in t.locks
      BY <1>2
    <3>3. x[1] = a /\ x[2] = c
      BY <3>2
    <3> QED  BY <3>1, <3>2, <3>3
  <2>2. ASSUME NEW a \in Accounts, NEW c \in Coins, l = <<<<n, a>>, c>>, <<<<o, a>>, c>> \in t.locks
        PROVE  l \in g.locks
    <3> DEFINE x == <<a, c>>
    <3>1. x \in b.locks /\ x[1] = a /\ x[2] = c
      BY <1>2, <2>2
    <3> QED  BY <1>1, <2>2, <3>1
  <2> QED  BY <2>1, <2>2
<1>8. /\ \A r : r \in g.addresses <=> \E y \in t.addresses, a \in Accounts :
             y.wallet = <<o, a>> /\ r = V!Address(y.key, <<n, a>>, TRUE)
      /\ \A p : p \in g.outgoing <=> \E q \in t.outgoing, a \in Accounts :
             q.wallet = <<o, a>> /\ p = V!Payment(q.id, <<n, a>>, q.inputs)
      /\ \A l : l \in g.locks <=> \E a \in Accounts, c \in Coins :
             l = <<<<n, a>>, c>> /\ <<<<o, a>>, c>> \in t.locks
  BY <1>4, <1>5, <1>7
<1> QED  BY <1>3, <1>6, <1>8, Zenon DEF b, g

LEMMA BackupIsConsistent ==
  ASSUME NEW t, Consistent(t), NEW o \in Owners, NEW n \in Owners
  PROVE  Consistent(Restored(V!Payload(t, o), n))
<1> DEFINE g == Restored(V!Payload(t, o), n)
<1>1. t \in TableSet
  BY DEF Consistent
<1>2. /\ \A w : w \in g.wallets <=> \E a \in Accounts : w = <<n, a>> /\ <<o, a>> \in t.wallets
      /\ \A r : r \in g.addresses <=>
             \E y \in t.addresses, a \in Accounts :
                 y.wallet = <<o, a>> /\ r = V!Address(y.key, <<n, a>>, TRUE)
      /\ \A p : p \in g.outgoing <=>
             \E q \in t.outgoing, a \in Accounts :
                 q.wallet = <<o, a>> /\ p = V!Payment(q.id, <<n, a>>, q.inputs)
      /\ \A r : r \in g.reservations <=>
             r \in t.reservations /\ \E q \in t.outgoing, a \in Accounts : q.wallet = <<o, a>> /\ q.id = r.id
      /\ \A l : l \in g.locks <=>
             \E a \in Accounts, c \in Coins : l = <<<<n, a>>, c>> /\ <<<<o, a>>, c>> \in t.locks
  BY <1>1, BackupRows, Zenon
<1>W. \A w : w \in g.wallets <=> \E a \in Accounts : w = <<n, a>> /\ <<o, a>> \in t.wallets
  BY <1>2
<1>A. \A r : r \in g.addresses <=>
          \E y \in t.addresses, a \in Accounts : y.wallet = <<o, a>> /\ r = V!Address(y.key, <<n, a>>, TRUE)
  BY <1>2
<1>P. \A p : p \in g.outgoing <=>
          \E q \in t.outgoing, a \in Accounts :
              q.wallet = <<o, a>> /\ p = V!Payment(q.id, <<n, a>>, q.inputs)
  BY <1>2
<1>R. \A r : r \in g.reservations <=>
          r \in t.reservations /\ \E q \in t.outgoing, a \in Accounts : q.wallet = <<o, a>> /\ q.id = r.id
  BY <1>2
<1>L. \A l : l \in g.locks <=>
          \E a \in Accounts, c \in Coins : l = <<<<n, a>>, c>> /\ <<<<o, a>>, c>> \in t.locks
  BY <1>2
<1>3. g = [wallets |-> g.wallets, addresses |-> g.addresses, outgoing |-> g.outgoing,
           reservations |-> g.reservations, locks |-> g.locks]
  BY DEF Restored
<1>5. \A a \in Accounts : <<n, a>> \in V!Wallets
  BY DEF V!Wallets
<1> HIDE DEF g
<1>6. g.wallets \subseteq V!Wallets
  BY <1>W, <1>5
<1>7. ASSUME NEW r \in g.addresses
      PROVE  \E y \in t.addresses, a \in Accounts :
                 /\ y.wallet = <<o, a>> /\ y.key \in Keys /\ r.key = y.key /\ r.wallet = <<n, a>>
                 /\ r = [key |-> y.key, wallet |-> <<n, a>>, rescan |-> TRUE]
  <2>1. PICK y \in t.addresses, a \in Accounts : y.wallet = <<o, a>> /\ r = V!Address(y.key, <<n, a>>, TRUE)
    BY <1>A
  <2>2. y.key \in Keys
    BY <1>1 DEF TableSet
  <2>3. r = [key |-> y.key, wallet |-> <<n, a>>, rescan |-> TRUE]
    BY <2>1 DEF V!Address
  <2>4. r.key = y.key /\ r.wallet = <<n, a>>
    BY <2>3
  <2> QED  BY <2>1, <2>2, <2>3, <2>4
<1>8. ASSUME NEW p \in g.outgoing
      PROVE  \E q \in t.outgoing, a \in Accounts :
                 /\ q.wallet = <<o, a>> /\ p.id = q.id /\ p.wallet = <<n, a>> /\ p.inputs = q.inputs
                 /\ q.id \in Ids /\ q.inputs \in SUBSET Coins
                 /\ p = [id |-> q.id, wallet |-> <<n, a>>, inputs |-> q.inputs]
  <2>1. PICK q \in t.outgoing, a \in Accounts : q.wallet = <<o, a>> /\ p = V!Payment(q.id, <<n, a>>, q.inputs)
    BY <1>P
  <2>2. q.id \in Ids /\ q.inputs \in SUBSET Coins
    BY <1>1 DEF TableSet
  <2>3. p = [id |-> q.id, wallet |-> <<n, a>>, inputs |-> q.inputs]
    BY <2>1 DEF V!Payment
  <2>4. p.id = q.id /\ p.wallet = <<n, a>> /\ p.inputs = q.inputs
    BY <2>3
  <2> QED  BY <2>1, <2>2, <2>3, <2>4
<1>9. ASSUME NEW y \in t.addresses, NEW a \in Accounts, y.wallet = <<o, a>>
      PROVE  \E r \in g.addresses : r.key = y.key /\ r.wallet = <<n, a>>
  <2> DEFINE r == V!Address(y.key, <<n, a>>, TRUE)
  <2>1. r \in g.addresses
    BY <1>A, <1>9
  <2>2. r.key = y.key /\ r.wallet = <<n, a>>
    BY DEF V!Address
  <2> QED  BY <2>1, <2>2
<1>10. ASSUME NEW q \in t.outgoing, NEW a \in Accounts, q.wallet = <<o, a>>
       PROVE  \E p \in g.outgoing : p.id = q.id /\ p.inputs = q.inputs
  <2> DEFINE p == V!Payment(q.id, <<n, a>>, q.inputs)
  <2>1. p \in g.outgoing
    BY <1>P, <1>10
  <2>2. p.id = q.id /\ p.inputs = q.inputs
    BY DEF V!Payment
  <2> QED  BY <2>1, <2>2
<1>11. g.addresses \subseteq [key : Keys, wallet : V!Wallets, rescan : BOOLEAN]
  <2> SUFFICES ASSUME NEW r \in g.addresses  PROVE r \in [key : Keys, wallet : V!Wallets, rescan : BOOLEAN]
    OBVIOUS
  <2>1. PICK y \in t.addresses, a \in Accounts :
            y.key \in Keys /\ r = [key |-> y.key, wallet |-> <<n, a>>, rescan |-> TRUE]
    BY <1>7
  <2>2. <<n, a>> \in V!Wallets
    BY <1>5
  <2> QED  BY <2>1, <2>2
<1>12. g.outgoing \subseteq [id : Ids, wallet : V!Wallets, inputs : SUBSET Coins]
  BY <1>5, <1>8
<1>13. g.reservations \subseteq [coin : Coins, id : Ids] /\ g.locks \subseteq (V!Wallets \X Coins)
  <2>1. t.reservations \subseteq [coin : Coins, id : Ids]
    BY <1>1 DEF TableSet
  <2>2. g.reservations \subseteq [coin : Coins, id : Ids]
    BY <1>R, <2>1
  <2>3. g.locks \subseteq (V!Wallets \X Coins)
    <3> SUFFICES ASSUME NEW l \in g.locks  PROVE l \in V!Wallets \X Coins
      OBVIOUS
    <3>1. PICK a \in Accounts, c \in Coins : l = <<<<n, a>>, c>>
      BY <1>L
    <3>2. <<n, a>> \in V!Wallets
      BY <1>5
    <3> QED  BY <3>1, <3>2
  <2> QED  BY <2>2, <2>3
<1>14. g \in TableSet
  BY <1>3, <1>6, <1>11, <1>12, <1>13 DEF TableSet
<1>15. KeysOnce(g)
  <2> SUFFICES ASSUME NEW r \in g.addresses, NEW s \in g.addresses, r.key = s.key  PROVE r = s
    BY DEF KeysOnce
  <2>1. PICK y \in t.addresses, a \in Accounts :
            y.wallet = <<o, a>> /\ r.key = y.key /\ r = [key |-> y.key, wallet |-> <<n, a>>, rescan |-> TRUE]
    BY <1>7
  <2>2. PICK z \in t.addresses, c \in Accounts :
            z.wallet = <<o, c>> /\ s.key = z.key /\ s = [key |-> z.key, wallet |-> <<n, c>>, rescan |-> TRUE]
    BY <1>7
  <2>3. y = z
    BY <2>1, <2>2 DEF Consistent, KeysOnce
  <2>4. a = c
    BY <2>1, <2>2, <2>3
  <2> QED  BY <2>1, <2>2, <2>3, <2>4
<1>16. WalletsKeyed(g)
  <2>1. ASSUME NEW r \in g.addresses  PROVE r.wallet \in g.wallets
    <3>1. PICK y \in t.addresses, a \in Accounts : y.wallet = <<o, a>> /\ r.wallet = <<n, a>>
      BY <1>7
    <3>2. <<o, a>> \in t.wallets
      BY <3>1 DEF Consistent, WalletsKeyed
    <3> QED  BY <1>W, <3>1, <3>2
  <2>2. ASSUME NEW w \in g.wallets  PROVE \E r \in g.addresses : r.wallet = w
    <3>1. PICK a \in Accounts : w = <<n, a>> /\ <<o, a>> \in t.wallets
      BY <1>W
    <3>2. PICK y \in t.addresses : y.wallet = <<o, a>>
      BY <3>1 DEF Consistent, WalletsKeyed
    <3> QED  BY <1>9, <3>1, <3>2
  <2> QED  BY <2>1, <2>2 DEF WalletsKeyed
<1>17. InputsKeyed(g)
  <2> SUFFICES ASSUME NEW p \in g.outgoing
               PROVE  /\ p.wallet \in g.wallets
                      /\ \A c \in p.inputs : \E r \in g.addresses : r.wallet = p.wallet /\ r.key = KeyOf[c]
    BY DEF InputsKeyed
  <2>1. PICK q \in t.outgoing, a \in Accounts :
            q.wallet = <<o, a>> /\ p.wallet = <<n, a>> /\ p.inputs = q.inputs
    BY <1>8
  <2>2. /\ <<o, a>> \in t.wallets
        /\ \A c \in q.inputs : \E y \in t.addresses : y.wallet = <<o, a>> /\ y.key = KeyOf[c]
    BY <2>1 DEF Consistent, InputsKeyed
  <2>3. p.wallet \in g.wallets
      BY <1>W, <2>1, <2>2
  <2>4. ASSUME NEW c \in p.inputs  PROVE \E r \in g.addresses : r.wallet = p.wallet /\ r.key = KeyOf[c]
    <3>1. PICK y \in t.addresses : y.wallet = <<o, a>> /\ y.key = KeyOf[c]
      BY <2>1, <2>2
    <3>2. PICK r \in g.addresses : r.key = y.key /\ r.wallet = <<n, a>>
      BY <1>9, <3>1
    <3> QED  BY <2>1, <3>1, <3>2
  <2> QED  BY <2>3, <2>4
<1>18. IdsOnce(g)
  <2> SUFFICES ASSUME NEW r \in g.outgoing, NEW s \in g.outgoing, r.id = s.id  PROVE r = s
    BY DEF IdsOnce
  <2>1. PICK y \in t.outgoing, a \in Accounts :
            y.wallet = <<o, a>> /\ r.id = y.id /\ r = [id |-> y.id, wallet |-> <<n, a>>, inputs |-> y.inputs]
    BY <1>8
  <2>2. PICK z \in t.outgoing, c \in Accounts :
            z.wallet = <<o, c>> /\ s.id = z.id /\ s = [id |-> z.id, wallet |-> <<n, c>>, inputs |-> z.inputs]
    BY <1>8
  <2>3. y = z
    BY <2>1, <2>2 DEF Consistent, IdsOnce
  <2>4. a = c
    BY <2>1, <2>2, <2>3
  <2> QED  BY <2>1, <2>2, <2>3, <2>4
<1>19. ReservationsOfInputs(g)
  <2> SUFFICES ASSUME NEW c \in Coins, NEW id \in Ids
               PROVE  [coin |-> c, id |-> id] \in g.reservations <=> \E p \in g.outgoing : p.id = id /\ c \in p.inputs
    BY DEF ReservationsOfInputs
  <2>1. [coin |-> c, id |-> id] \in t.reservations <=> \E q \in t.outgoing : q.id = id /\ c \in q.inputs
    BY DEF Consistent, ReservationsOfInputs
  <2>2. \A q, p \in t.outgoing : q.id = p.id => q = p
    BY DEF Consistent, IdsOnce
  <2>3. [coin |-> c, id |-> id] \in g.reservations <=>
            \E q \in t.outgoing, a \in Accounts : q.wallet = <<o, a>> /\ q.id = id /\ c \in q.inputs
    BY <1>R, <2>1, <2>2
  <2> QED  BY <1>8, <1>10, <2>3
<1>20. InputsOnce(g)
  <2> SUFFICES ASSUME NEW r \in g.outgoing, NEW s \in g.outgoing, NEW x \in r.inputs, x \in s.inputs
               PROVE  r = s
    BY DEF InputsOnce
  <2>1. PICK y \in t.outgoing, a \in Accounts :
            y.wallet = <<o, a>> /\ r.inputs = y.inputs /\ r = [id |-> y.id, wallet |-> <<n, a>>, inputs |-> y.inputs]
    BY <1>8
  <2>2. PICK z \in t.outgoing, c \in Accounts :
            z.wallet = <<o, c>> /\ s.inputs = z.inputs /\ s = [id |-> z.id, wallet |-> <<n, c>>, inputs |-> z.inputs]
    BY <1>8
  <2>3. y = z
    BY <2>1, <2>2 DEF Consistent, InputsOnce
  <2>4. a = c
    BY <2>1, <2>2, <2>3
  <2> QED  BY <2>1, <2>2, <2>3, <2>4
<1>21. LocksOfWallets(g)
  <2> SUFFICES ASSUME NEW l \in g.locks  PROVE l[1] \in g.wallets
    BY DEF LocksOfWallets
  <2>1. PICK a \in Accounts, c \in Coins : l = <<<<n, a>>, c>> /\ <<<<o, a>>, c>> \in t.locks
    BY <1>L
  <2>2. <<<<o, a>>, c>>[1] = <<o, a>> /\ l[1] = <<n, a>>
    BY <2>1
  <2>3. <<o, a>> \in t.wallets
    BY <2>1, <2>2 DEF Consistent, LocksOfWallets
  <2> QED  BY <1>W, <2>2, <2>3
<1> QED
  BY <1>14, <1>15, <1>16, <1>17, <1>18, <1>19, <1>20, <1>21 DEF Consistent, g

-----------------------------------------------------------------------------
\* The round trip: what a restore has committed has the payload of the backup.

LEMMA PayloadType ==
  ASSUME NEW t \in TableSet, NEW o \in Owners  PROVE V!Payload(t, o) \in BackupSet
<1> DEFINE b == V!Payload(t, o)
<1>1. b = [accounts |-> b.accounts, addresses |-> b.addresses, outgoing |-> b.outgoing,
           reservations |-> b.reservations, locks |-> b.locks]
  BY DEF V!Payload
<1> HIDE DEF b
<1>2. b.accounts \subseteq Accounts
  BY PayloadRows DEF b
<1>3. b.addresses \subseteq Keys \X Accounts
  <2> SUFFICES ASSUME NEW x \in b.addresses  PROVE x \in Keys \X Accounts
    OBVIOUS
  <2>1. PICK y \in t.addresses, a \in Accounts : x = <<y.key, a>>
    BY PayloadRows DEF b
  <2>2. y.key \in Keys
    BY DEF TableSet
  <2> QED  BY <2>1, <2>2
<1>4. b.outgoing \subseteq [id : Ids, account : Accounts, inputs : SUBSET Coins]
  <2> SUFFICES ASSUME NEW x \in b.outgoing  PROVE x \in [id : Ids, account : Accounts, inputs : SUBSET Coins]
    OBVIOUS
  <2>1. PICK q \in t.outgoing, a \in Accounts : x = [id |-> q.id, account |-> a, inputs |-> q.inputs]
    BY PayloadRows DEF b
  <2>2. q.id \in Ids /\ q.inputs \in SUBSET Coins
    BY DEF TableSet
  <2> QED  BY <2>1, <2>2
<1>5. b.reservations \subseteq [coin : Coins, id : Ids]
  <2>1. b.reservations \subseteq t.reservations
    BY PayloadRows DEF b
  <2> QED  BY <2>1 DEF TableSet
<1>6. b.locks \subseteq Accounts \X Coins
  <2> SUFFICES ASSUME NEW x \in b.locks  PROVE x \in Accounts \X Coins
    OBVIOUS
  <2>1. \A l : l \in b.locks <=> \E a \in Accounts, c \in Coins : l = <<a, c>> /\ <<<<o, a>>, c>> \in t.locks
    BY PayloadRows DEF b
  <2>2. PICK a \in Accounts, c \in Coins : x = <<a, c>> /\ <<<<o, a>>, c>> \in t.locks
    BY <2>1
  <2> QED  BY <2>2
<1> QED  BY <1>1, <1>2, <1>3, <1>4, <1>5, <1>6 DEF BackupSet, b

LEMMA RoundTrip ==
  ASSUME NEW s \in BackupSet, NEW o \in Owners, NEW b, NEW t,
         Consistent(b), Consistent(Restored(s, o)), Behind(Restored(s, o), V!Empty, b, t)
  PROVE  V!Payload(t, o) = V!Both(V!Payload(b, o), s)
<1> DEFINE g == Restored(s, o)
           p == V!Payload(t, o)
           q == V!Payload(b, o)
<1>1. b \in TableSet /\ g \in TableSet /\ Consistent(t) /\ t \in TableSet
  BY RestoreIsConsistent DEF Consistent
<1>2. /\ t.wallets = b.wallets \cup g.wallets /\ t.addresses = b.addresses \cup g.addresses
      /\ t.outgoing = b.outgoing \cup g.outgoing /\ t.locks = b.locks \cup g.locks
      /\ t.reservations = b.reservations \cup g.reservations
      /\ \A x \in g.outgoing, y \in b.outgoing : x.id # y.id
  BY <1>1, NothingLeft
<1>3. /\ g.wallets = {<<o, a>> : a \in s.accounts}
      /\ g.addresses = {V!Address(x[1], <<o, x[2]>>, TRUE) : x \in s.addresses}
      /\ g.outgoing = {V!Payment(x.id, <<o, x.account>>, x.inputs) : x \in s.outgoing}
      /\ g.reservations = s.reservations
      /\ g.locks = {<<<<o, l[1]>>, l[2]>> : l \in s.locks}
  BY DEF Restored
<1>4. /\ s.accounts \subseteq Accounts
      /\ \A x \in s.addresses : x[1] \in Keys /\ x[2] \in Accounts /\ x = <<x[1], x[2]>>
      /\ \A x \in s.outgoing : x.account \in Accounts /\ x = [id |-> x.id, account |-> x.account, inputs |-> x.inputs]
      /\ \A l \in s.locks : l[1] \in Accounts /\ l[2] \in Coins /\ l = <<l[1], l[2]>>
  BY DEF BackupSet
<1> HIDE DEF g
<1>5. p.accounts = q.accounts \cup s.accounts
  <2>1. /\ \A a : a \in p.accounts <=> a \in Accounts /\ <<o, a>> \in t.wallets
        /\ \A a : a \in q.accounts <=> a \in Accounts /\ <<o, a>> \in b.wallets
    BY <1>1, PayloadRows
  <2>2. \A a : <<o, a>> \in g.wallets <=> a \in s.accounts
    BY <1>3
  <2> HIDE DEF p, q
  <2> QED  BY <1>2, <1>4, <2>1, <2>2
<1>6. p.addresses = q.addresses \cup s.addresses
  <2>1. /\ \A x \in p.addresses : \E y \in t.addresses, a \in Accounts : y.wallet = <<o, a>> /\ x = <<y.key, a>>
        /\ \A y \in t.addresses, a \in Accounts : y.wallet = <<o, a>> => <<y.key, a>> \in p.addresses
    BY <1>1, PayloadRows
  <2>2. /\ \A x \in q.addresses : \E y \in b.addresses, a \in Accounts : y.wallet = <<o, a>> /\ x = <<y.key, a>>
        /\ \A y \in b.addresses, a \in Accounts : y.wallet = <<o, a>> => <<y.key, a>> \in q.addresses
    BY <1>1, PayloadRows
  <2> HIDE DEF p, q
  <2>3. ASSUME NEW x \in p.addresses  PROVE x \in q.addresses \cup s.addresses
    <3>1. PICK y \in t.addresses, a \in Accounts : y.wallet = <<o, a>> /\ x = <<y.key, a>>
      BY <2>1
    <3>2. CASE y \in b.addresses
      BY <2>2, <3>1, <3>2
    <3>3. CASE y \in g.addresses
      <4>1. PICK z \in s.addresses : y = V!Address(z[1], <<o, z[2]>>, TRUE)
        BY <1>3, <3>3
      <4>2. y.key = z[1] /\ y.wallet = <<o, z[2]>>
        BY <4>1 DEF V!Address
      <4>3. a = z[2]
        BY <3>1, <4>2
      <4> QED  BY <1>4, <3>1, <4>2, <4>3
    <3> QED  BY <1>2, <3>2, <3>3
  <2>4. ASSUME NEW x \in q.addresses  PROVE x \in p.addresses
    BY <1>2, <2>1, <2>2
  <2>5. ASSUME NEW x \in s.addresses  PROVE x \in p.addresses
    <3> DEFINE y == V!Address(x[1], <<o, x[2]>>, TRUE)
    <3>1. y \in t.addresses
      BY <1>2, <1>3
    <3>2. y.key = x[1] /\ y.wallet = <<o, x[2]>>
      BY DEF V!Address
    <3> HIDE DEF y
    <3> QED  BY <1>4, <2>1, <3>1, <3>2
  <2> QED  BY <2>3, <2>4, <2>5
<1>7. p.outgoing = q.outgoing \cup s.outgoing
  <2>1. /\ \A x \in p.outgoing : \E y \in t.outgoing, a \in Accounts :
               y.wallet = <<o, a>> /\ x = [id |-> y.id, account |-> a, inputs |-> y.inputs]
        /\ \A y \in t.outgoing, a \in Accounts : y.wallet = <<o, a>> =>
               [id |-> y.id, account |-> a, inputs |-> y.inputs] \in p.outgoing
    BY <1>1, PayloadRows
  <2>2. /\ \A x \in q.outgoing : \E y \in b.outgoing, a \in Accounts :
               y.wallet = <<o, a>> /\ x = [id |-> y.id, account |-> a, inputs |-> y.inputs]
        /\ \A y \in b.outgoing, a \in Accounts : y.wallet = <<o, a>> =>
               [id |-> y.id, account |-> a, inputs |-> y.inputs] \in q.outgoing
    BY <1>1, PayloadRows
  <2> HIDE DEF p, q
  <2>3. ASSUME NEW x \in p.outgoing  PROVE x \in q.outgoing \cup s.outgoing
    <3>1. PICK y \in t.outgoing, a \in Accounts :
              y.wallet = <<o, a>> /\ x = [id |-> y.id, account |-> a, inputs |-> y.inputs]
      BY <2>1
    <3>2. CASE y \in b.outgoing
      BY <2>2, <3>1, <3>2
    <3>3. CASE y \in g.outgoing
      <4>1. PICK z \in s.outgoing : y = V!Payment(z.id, <<o, z.account>>, z.inputs)
        BY <1>3, <3>3
      <4>2. y.id = z.id /\ y.wallet = <<o, z.account>> /\ y.inputs = z.inputs
        BY <4>1 DEF V!Payment
      <4>3. a = z.account
        BY <3>1, <4>2
      <4> QED  BY <1>4, <3>1, <4>2, <4>3
    <3> QED  BY <1>2, <3>2, <3>3
  <2>4. ASSUME NEW x \in q.outgoing  PROVE x \in p.outgoing
    BY <1>2, <2>1, <2>2
  <2>5. ASSUME NEW x \in s.outgoing  PROVE x \in p.outgoing
    <3> DEFINE y == V!Payment(x.id, <<o, x.account>>, x.inputs)
    <3>1. y \in t.outgoing
      BY <1>2, <1>3
    <3>2. y.id = x.id /\ y.wallet = <<o, x.account>> /\ y.inputs = x.inputs
      BY DEF V!Payment
    <3> HIDE DEF y
    <3> QED  BY <1>4, <2>1, <3>1, <3>2
  <2> QED  BY <2>3, <2>4, <2>5
<1>8. p.reservations = q.reservations \cup s.reservations
  <2>1. \A r : r \in p.reservations <=>
            r \in t.reservations /\ \E y \in t.outgoing, a \in Accounts : y.wallet = <<o, a>> /\ y.id = r.id
    BY <1>1, PayloadRows
  <2>2. \A r : r \in q.reservations <=>
            r \in b.reservations /\ \E y \in b.outgoing, a \in Accounts : y.wallet = <<o, a>> /\ y.id = r.id
    BY <1>1, PayloadRows
  <2> HIDE DEF p, q
  <2>3. ASSUME NEW r \in b.reservations  PROVE \E y \in b.outgoing : y.id = r.id
    <3>1. r.coin \in Coins /\ r.id \in Ids /\ r = [coin |-> r.coin, id |-> r.id]
      BY <1>1 DEF TableSet
    <3> QED  BY <3>1 DEF Consistent, ReservationsOfInputs
  <2>4. ASSUME NEW r \in g.reservations  PROVE \E y \in g.outgoing : y.id = r.id
    <3>1. r.coin \in Coins /\ r.id \in Ids /\ r = [coin |-> r.coin, id |-> r.id]
      BY <1>1 DEF TableSet
    <3> QED  BY <3>1 DEF Consistent, ReservationsOfInputs, g
  <2>5. \A y \in g.outgoing : \E a \in Accounts : y.wallet = <<o, a>>
    BY <1>3, <1>4 DEF V!Payment
  <2>6. ASSUME NEW r \in p.reservations, r \in b.reservations  PROVE r \in q.reservations
    <3>1. PICK y \in t.outgoing, a \in Accounts : y.wallet = <<o, a>> /\ y.id = r.id
      BY <2>1
    <3>2. PICK z \in b.outgoing : z.id = r.id
      BY <2>3, <2>6
    <3>3. y \in b.outgoing
      BY <1>2, <3>1, <3>2
    <3> QED  BY <2>2, <2>6, <3>1, <3>3
  <2>7. ASSUME NEW r \in q.reservations  PROVE r \in p.reservations
    BY <1>2, <2>1, <2>2
  <2>8. ASSUME NEW r \in s.reservations  PROVE r \in p.reservations
    <3>1. r \in g.reservations /\ r \in t.reservations
      BY <1>2, <1>3
    <3>2. PICK y \in g.outgoing : y.id = r.id
      BY <2>4, <3>1
    <3>3. PICK a \in Accounts : y.wallet = <<o, a>>
      BY <2>5
    <3>4. y \in t.outgoing
      BY <1>2
    <3> QED  BY <2>1, <3>1, <3>2, <3>3, <3>4
  <2>9. \A r \in p.reservations : r \in b.reservations \/ r \in s.reservations
    BY <1>2, <1>3, <2>1
  <2> QED  BY <2>6, <2>7, <2>8, <2>9
<1>9. p.locks = q.locks \cup s.locks
  <2>1. \A l : l \in p.locks <=> \E a \in Accounts, c \in Coins : l = <<a, c>> /\ <<<<o, a>>, c>> \in t.locks
    BY <1>1, PayloadRows
  <2>2. \A l : l \in q.locks <=> \E a \in Accounts, c \in Coins : l = <<a, c>> /\ <<<<o, a>>, c>> \in b.locks
    BY <1>1, PayloadRows
  <2> HIDE DEF p, q
  <2>3. ASSUME NEW a \in Accounts, NEW c \in Coins
        PROVE  <<<<o, a>>, c>> \in g.locks <=> <<a, c>> \in s.locks
    <3>1. ASSUME <<<<o, a>>, c>> \in g.locks  PROVE <<a, c>> \in s.locks
      <4>1. PICK l \in s.locks : <<<<o, a>>, c>> = <<<<o, l[1]>>, l[2]>>
        BY <1>3, <3>1
      <4>2. a = l[1] /\ c = l[2]
        BY <4>1
      <4> QED  BY <1>4, <4>2
    <3>2. ASSUME <<a, c>> \in s.locks  PROVE <<<<o, a>>, c>> \in g.locks
      <4> DEFINE l == <<a, c>>
      <4>1. l \in s.locks /\ <<<<o, l[1]>>, l[2]>> = <<<<o, a>>, c>>
        BY <3>2
      <4> QED  BY <1>3, <4>1
    <3> QED  BY <3>1, <3>2
  <2>4. \A l \in s.locks : \E a \in Accounts, c \in Coins : l = <<a, c>>
    BY <1>4
  <2>5. ASSUME NEW l \in p.locks  PROVE l \in q.locks \cup s.locks
    <3>1. PICK a \in Accounts, c \in Coins : l = <<a, c>> /\ <<<<o, a>>, c>> \in t.locks
      BY <2>1
    <3> QED  BY <1>2, <2>2, <2>3, <3>1
  <2>6. ASSUME NEW l \in q.locks  PROVE l \in p.locks
    <3>1. PICK a \in Accounts, c \in Coins : l = <<a, c>> /\ <<<<o, a>>, c>> \in b.locks
      BY <2>2
    <3> QED  BY <1>2, <2>1, <3>1
  <2>7. ASSUME NEW l \in s.locks  PROVE l \in p.locks
    <3>1. PICK a \in Accounts, c \in Coins : l = <<a, c>>
      BY <2>4
    <3> QED  BY <1>2, <2>1, <2>3, <3>1
  <2> QED  BY <2>5, <2>6, <2>7
<1> QED  BY <1>5, <1>6, <1>7, <1>8, <1>9 DEF V!Both, V!Payload

LEMMA OthersUntouched ==
  ASSUME NEW s \in BackupSet, NEW o \in Owners, NEW n \in Owners \ {o}, NEW b, NEW t,
         Consistent(b), Consistent(Restored(s, o)), Behind(Restored(s, o), V!Empty, b, t)
  PROVE  V!Payload(t, n) = V!Payload(b, n)
<1> DEFINE g == Restored(s, o)
           p == V!Payload(t, n)
           q == V!Payload(b, n)
<1>1. b \in TableSet /\ g \in TableSet /\ Consistent(t) /\ t \in TableSet
  BY RestoreIsConsistent DEF Consistent
<1>2. /\ t.wallets = b.wallets \cup g.wallets /\ t.addresses = b.addresses \cup g.addresses
      /\ t.outgoing = b.outgoing \cup g.outgoing /\ t.locks = b.locks \cup g.locks
      /\ t.reservations = b.reservations \cup g.reservations
      /\ \A x \in g.outgoing, y \in b.outgoing : x.id # y.id
  BY <1>1, NothingLeft
<1>3. /\ \A w \in g.wallets : w[1] = o
      /\ \A x \in g.addresses : x.wallet[1] = o
      /\ \A x \in g.outgoing : x.wallet[1] = o
      /\ \A l \in g.locks : l[1][1] = o
  BY DEF Restored, V!Address, V!Payment
<1>4. ASSUME NEW r \in g.reservations  PROVE \E y \in g.outgoing : y.id = r.id
  <2>1. r.coin \in Coins /\ r.id \in Ids /\ r = [coin |-> r.coin, id |-> r.id]
    BY <1>1 DEF TableSet
  <2> HIDE DEF g
  <2> QED  BY <2>1 DEF Consistent, ReservationsOfInputs, g
<1> HIDE DEF g
<1> DEFINE Rows(z) == {x \in z.outgoing : x.wallet[1] = n}
<1>5. Rows(t) = Rows(b)
  BY <1>2, <1>3
<1>6. {w \in t.wallets : w[1] = n} = {w \in b.wallets : w[1] = n}
  BY <1>2, <1>3
<1>7. {x \in t.addresses : x.wallet[1] = n} = {x \in b.addresses : x.wallet[1] = n}
  BY <1>2, <1>3
<1>8. {l \in t.locks : l[1][1] = n} = {l \in b.locks : l[1][1] = n}
  BY <1>2, <1>3
<1>9. {r \in t.reservations : r.id \in {x.id : x \in Rows(b)}} = {r \in b.reservations : r.id \in {x.id : x \in Rows(b)}}
  <2> SUFFICES ASSUME NEW r \in g.reservations, NEW x \in b.outgoing, r.id = x.id  PROVE FALSE
    BY <1>2
  <2> QED  BY <1>2, <1>4
<1> QED  BY <1>5, <1>6, <1>7, <1>8, <1>9 DEF V!Payload

\* A restore that has come to its end is a step of the abstract one.
LEMMA RestoreImplements ==
  ASSUME NEW s \in BackupSet, NEW o \in Owners, NEW b, NEW t,
         Consistent(b), Consistent(Restored(s, o)), Behind(Restored(s, o), V!Empty, b, t)
  PROVE  /\ s.accounts \cap V!Payload(b, o).accounts = {}
         /\ {a[1] : a \in s.addresses} \cap V!AllKeys(b) = {}
         /\ V!Payload(t, o) = V!Both(V!Payload(b, o), s)
         /\ \A n \in Owners \ {o} : V!Payload(t, n) = V!Payload(b, n)
         /\ \A a \in t.addresses : a \in b.addresses \/ a.rescan
         /\ b.addresses \subseteq t.addresses
<1> DEFINE g == Restored(s, o)
<1>1. b \in TableSet /\ g \in TableSet
  BY DEF Consistent
<1>2. /\ t.addresses = b.addresses \cup g.addresses
      /\ \A w \in g.wallets : w \notin b.wallets
      /\ \A a \in g.addresses, c \in b.addresses : a.key # c.key \/ a \in b.addresses
  BY <1>1, NothingLeft
<1>3. s.accounts \cap V!Payload(b, o).accounts = {}
  <2>1. \A a : a \in V!Payload(b, o).accounts <=> a \in Accounts /\ <<o, a>> \in b.wallets
    BY <1>1, PayloadRows
  <2>2. \A a \in s.accounts : <<o, a>> \in g.wallets
    BY DEF Restored
  <2> HIDE DEF g
  <2> QED  BY <1>2, <2>1, <2>2
<1>4. \A a \in g.addresses : a.rescan
  BY DEF Restored, V!Address
<1>5. {a[1] : a \in s.addresses} \cap V!AllKeys(b) = {}
  <2> SUFFICES ASSUME NEW x \in s.addresses, NEW c \in b.addresses, c.key = x[1]  PROVE FALSE
    BY DEF V!AllKeys
  <2> DEFINE a == V!Address(x[1], <<o, x[2]>>, TRUE)
  <2>1. a \in g.addresses
    BY DEF Restored
  <2>2. a.key = x[1]
    BY DEF V!Address
  <2> HIDE DEF a, g
  <2>3. a.wallet \in g.wallets
    BY <2>1 DEF Consistent, WalletsKeyed, g
  <2>4. a \notin b.addresses
    BY <1>2, <2>3 DEF Consistent, WalletsKeyed
  <2> QED  BY <1>2, <2>1, <2>2, <2>4
<1> HIDE DEF g
<1>6. \A a \in t.addresses : a \in b.addresses \/ a.rescan
  BY <1>2, <1>4
<1>7. b.addresses \subseteq t.addresses
  BY <1>2
<1> QED  BY <1>3, <1>5, <1>6, <1>7, RoundTrip, OthersUntouched

-----------------------------------------------------------------------------
\* Scripts, and what kind each statement is of.

LEMMA Scripts ==
  /\ \A a : Head(<<a>>) = a /\ Tail(<<a>>) = <<>> /\ <<a>> # <<>>
  /\ \A a, b : Head(<<a, b>>) = a /\ Tail(<<a, b>>) = <<b>> /\ <<a, b>> # <<>>
  /\ \A a, b, c : Head(<<a, b, c>>) = a /\ Tail(<<a, b, c>>) = <<b, c>> /\ <<a, b, c>> # <<>>
  /\ \A a, b, c, d : Head(<<a, b, c, d>>) = a /\ Tail(<<a, b, c, d>>) = <<b, c, d>> /\ <<a, b, c, d>> # <<>>
<1>1. \A a : Head(<<a>>) = a /\ Tail(<<a>>) = <<>> /\ <<a>> # <<>>
  OBVIOUS
<1>2. \A a, b : Head(<<a, b>>) = a /\ Tail(<<a, b>>) = <<b>> /\ <<a, b>> # <<>>
  OBVIOUS
<1>3. \A a, b, c : Head(<<a, b, c>>) = a /\ Tail(<<a, b, c>>) = <<b, c>> /\ <<a, b, c>> # <<>>
  OBVIOUS
<1>4. \A a, b, c, d : Head(<<a, b, c, d>>) = a /\ Tail(<<a, b, c, d>>) = <<b, c, d>> /\ <<a, b, c, d>> # <<>>
  OBVIOUS
<1> QED  BY <1>1, <1>2, <1>3, <1>4

LEMMA ThreeSteps ==
  ASSUME NEW a, NEW b, NEW c, script = <<a, b, c>>
  PROVE  script # <<>> /\ Head(script) = a /\ Tail(script) = <<b, c>>
BY Scripts

LEMMA FourSteps ==
  ASSUME NEW a, NEW b, NEW c, NEW d, script = <<a, b, c, d>>
  PROVE  script # <<>> /\ Head(script) = a /\ Tail(script) = <<b, c, d>>
BY Scripts

LEMMA Kinds ==
  /\ Savepoint.op = "savepoint" /\ Release.op = "release"
  /\ \A w : NewWallet(w).op = "wallet"
  /\ \A k, w, x : AddAddress(k, w, x).op = "address"
  /\ \A k : FlagAddress(k).op = "flag"
  /\ \A p : AddPayment(p).op = "payment"
  /\ \A r : Reserving(r).op = "reserve"
  /\ \A l : LockCoin(l).op = "lock"
BY DEF Savepoint, Release, NewWallet, AddAddress, FlagAddress, AddPayment, Reserving, LockCoin

-----------------------------------------------------------------------------
\* A step inside a transaction leaves what is committed, and the base.

Rounds == WalletRound \/ AddressRound \/ PaymentRound \/ ReservationRound \/ LockRound
Inner == Enter \/ Leave \/ Statement \/ Rounds

LEMMA InnerMoves ==
  ASSUME Scope, Inner, Leave => Len(saved) = 2
  PROVE  /\ Running /\ at \in Vaults /\ at' = at /\ failed' = failed /\ backup' = backup
         /\ saved' \in Seq(TableSet) /\ saved'[1] = saved[1] /\ saved[1] \in TableSet
         /\ tables' = [tables EXCEPT ![at] = tables'[at]]
<1>1. Running
  BY DEF Inner, Enter, Leave, Statement, Ahead, Rounds, WalletRound, AddressRound, PaymentRound,
         ReservationRound, LockRound, Round
<1>2. /\ at \in Vaults /\ at # "none" /\ saved[1] \in TableSet
      /\ saved \in Seq(TableSet) /\ Len(saved) \in 1 .. 2 /\ tables[at] \in TableSet
  BY <1>1 DEF Scope, Running, Idle
<1>3. tables = [tables EXCEPT ![at] = tables[at]]
  BY DEF Scope
<1>4. CASE Enter
  <2>1. saved' \in Seq(TableSet) /\ saved'[1] = saved[1]
    BY <1>2, <1>4, AppendProperties DEF Enter
  <2> QED  BY <1>1, <1>2, <1>3, <1>4, <2>1 DEF Enter
<1>5. CASE Leave
  <2>0. Len(saved) = 2 /\ saved' = SubSeq(saved, 1, Len(saved) - 1)
    BY <1>5 DEF Leave
  <2>1. saved' = SubSeq(saved, 1, 1)
    BY <2>0
  <2>2. saved' \in Seq(TableSet) /\ saved'[1] = saved[1]
    BY <1>2, <2>1, SubSeqProperties
  <2> QED  BY <1>1, <1>2, <1>3, <1>5, <2>2 DEF Leave
<1>6. CASE Statement
  BY <1>1, <1>2, <1>6 DEF Statement, Scope
<1>7. CASE Rounds
  <2>1. UNCHANGED <<tables, backup, at, saved, failed>>
    BY <1>7 DEF Rounds, WalletRound, AddressRound, PaymentRound, ReservationRound, LockRound, Round
  <2> QED  BY <1>1, <1>2, <1>3, <2>1
<1> QED  BY <1>4, <1>5, <1>6, <1>7 DEF Inner

LEMMA InnerCommitted ==
  ASSUME Scope, Inner, Leave => Len(saved) = 2  PROVE Committed' = Committed
BY InnerMoves DEF Committed, Scope

\* What the rest of the step has to show.
LEMMA InnerScope ==
  ASSUME Scope, Inner, Leave => Len(saved) = 2, tables'[at] \in TableSet, Len(saved') \in 1 .. 2
  PROVE  Scope'
BY InnerMoves DEF Scope, Running, Idle

LEMMA NoRounds ==
  ASSUME todo = V!Empty  PROVE ~Rounds
BY DEF Rounds, WalletRound, AddressRound, PaymentRound, ReservationRound, LockRound, V!Empty

LEMMA Base ==
  ASSUME Scope, Inner
  PROVE  at \in Vaults /\ saved[1] \in TableSet /\ tables[at] \in TableSet
<1>1. Running
  BY DEF Inner, Enter, Leave, Statement, Ahead, Rounds, WalletRound, AddressRound, PaymentRound,
         ReservationRound, LockRound, Round
<1>2. at \in Vaults /\ saved \in Seq(TableSet) /\ Len(saved) \in 1 .. 2
  BY <1>1 DEF Scope, Running, Idle
<1>3. tables[at] \in TableSet
  BY <1>2 DEF Scope
<1> QED  BY <1>2, <1>3

\* A statement that does not open or close a savepoint.
LEMMA PlainStatement ==
  ASSUME Scope, Inner, NEW s, NEW rest, script # <<>>, Head(script) = s, Tail(script) = rest,
         s.op \notin {"savepoint", "release"}
  PROVE  /\ Statement /\ ~Leave /\ ~Clashes(tables[at], s)
         /\ tables'[at] = Done(tables[at], s) /\ script' = rest
         /\ UNCHANGED <<backup, at, todo, saved, failed>>
<1>1. Statement /\ ~Leave
  BY Kinds DEF Inner, Enter, Leave, Ahead, Rounds, WalletRound, AddressRound, PaymentRound,
               ReservationRound, LockRound, Round
<1>2. at \in Vaults
  BY <1>1 DEF Statement, Running, Idle, Scope
<1> QED  BY <1>1, <1>2 DEF Statement, Scope

LEMMA CreatingStep ==
  ASSUME Scope, Inner, Creating(saved[1], tables[at])
  PROVE  (Leave => Len(saved) = 2) /\ Scope' /\ Creating(saved[1], tables[at])'
<1> DEFINE b == saved[1]
           t == tables[at]
           w1(w) == [b EXCEPT !.wallets = @ \cup {w}]
<1>1. PICK w \in V!Wallets \ b.wallets, k \in Keys :
        /\ \A a \in b.addresses : a.key # k
        /\ todo = V!Empty /\ Len(saved) = 1
        /\ \/ script = <<NewWallet(w), AddAddress(k, w, FALSE)>> /\ t = b
           \/ script = <<AddAddress(k, w, FALSE)>> /\ t = w1(w)
           \/ script = <<>> /\ t = Created(b, w, k)
  BY DEF Creating
<1>2. script # <<>>
  BY <1>1, NoRounds DEF Inner, Enter, Leave, Statement, Ahead
<1>3. CASE script = <<NewWallet(w), AddAddress(k, w, FALSE)>> /\ t = b
  <2>0. /\ script # <<>> /\ Head(script) = NewWallet(w) /\ Tail(script) = <<AddAddress(k, w, FALSE)>>
        /\ NewWallet(w).op \notin {"savepoint", "release"}
    BY <1>3, Scripts, Kinds
  <2>1. /\ ~Leave /\ tables'[at] = Done(b, NewWallet(w)) /\ script' = <<AddAddress(k, w, FALSE)>>
        /\ todo' = todo /\ saved' = saved /\ at' = at
    BY <1>3, <2>0, PlainStatement
  <2>2. Done(b, NewWallet(w)) = w1(w)
    BY DEF Done, NewWallet
  <2>3. b \in TableSet /\ w1(w) \in TableSet
    BY <2>1, InnerMoves DEF TableSet
  <2>4. Scope'
    BY <1>1, <2>1, <2>2, <2>3, InnerScope
  <2> QED  BY <1>1, <2>1, <2>2, <2>4 DEF Creating
<1>4. CASE script = <<AddAddress(k, w, FALSE)>> /\ t = w1(w)
  <2>0. /\ script # <<>> /\ Head(script) = AddAddress(k, w, FALSE) /\ Tail(script) = <<>>
        /\ AddAddress(k, w, FALSE).op \notin {"savepoint", "release"}
    BY <1>4, Scripts, Kinds
  <2>1. /\ ~Leave /\ tables'[at] = Done(w1(w), AddAddress(k, w, FALSE)) /\ script' = <<>>
        /\ todo' = todo /\ saved' = saved /\ at' = at
    BY <1>4, <2>0, PlainStatement
  <2>2. b \in TableSet
    BY <2>1, InnerMoves
  <2>3. w1(w).addresses = b.addresses /\ k \notin V!AllKeys(w1(w))
    BY <1>1, <2>2 DEF V!AllKeys, TableSet
  <2>4. Done(w1(w), AddAddress(k, w, FALSE)) = [w1(w) EXCEPT !.addresses = @ \cup {V!Address(k, w, FALSE)}]
    BY <2>3 DEF Done, AddAddress, V!Address
  <2>5. [w1(w) EXCEPT !.addresses = @ \cup {V!Address(k, w, FALSE)}] = Created(b, w, k)
    BY <2>2 DEF Created, TableSet
  <2>6. V!Address(k, w, FALSE) \in [key : Keys, wallet : V!Wallets, rescan : BOOLEAN]
    BY DEF V!Address
  <2>7. Created(b, w, k) \in TableSet
    BY <2>2, <2>6 DEF Created, TableSet
  <2>8. tables'[at] = Created(b, w, k)
    BY <2>1, <2>4, <2>5
  <2>9. Scope'
    <3>1. tables'[at] \in TableSet
      BY <2>7, <2>8
    <3>2. ~Leave /\ Len(saved') \in 1 .. 2
      BY <1>1, <2>1
    <3> QED  BY <3>1, <3>2, InnerScope
  <2> QED  BY <1>1, <2>1, <2>8, <2>9 DEF Creating
<1> QED  BY <1>1, <1>2, <1>3, <1>4

LEMMA AddingStep ==
  ASSUME Scope, Inner, Adding(saved[1], tables[at])
  PROVE  (Leave => Len(saved) = 2) /\ Scope' /\ Adding(saved[1], tables[at])'
<1> DEFINE b == saved[1]
           t == tables[at]
<1>1. PICK w \in b.wallets, k \in Keys, rescan \in BOOLEAN :
        /\ todo = V!Empty /\ Len(saved) = 1
        /\ \/ script = <<AddAddress(k, w, rescan)>> /\ t = b
           \/ script = <<>>
  BY DEF Adding
<1>2. script # <<>>
  BY <1>1, NoRounds DEF Inner, Enter, Leave, Statement, Ahead
<1>3. /\ Head(script) = AddAddress(k, w, rescan) /\ Tail(script) = <<>>
      /\ AddAddress(k, w, rescan).op \notin {"savepoint", "release"}
  BY <1>1, <1>2, Scripts, Kinds
<1>4. /\ ~Leave /\ tables'[at] = Done(b, AddAddress(k, w, rescan)) /\ script' = <<>>
      /\ todo' = todo /\ saved' = saved /\ at' = at
  BY <1>1, <1>2, <1>3, PlainStatement
<1>5. b \in TableSet /\ w \in V!Wallets
  BY <1>4, InnerMoves DEF TableSet
<1>6. Done(b, AddAddress(k, w, rescan)) = IF k \in V!AllKeys(b) THEN b ELSE Added(b, w, k, rescan)
  BY DEF Done, AddAddress, V!Address, Added
<1>7. V!Address(k, w, rescan) \in [key : Keys, wallet : V!Wallets, rescan : BOOLEAN]
  BY <1>5 DEF V!Address
<1>8. Added(b, w, k, rescan) \in TableSet
  BY <1>5, <1>7 DEF Added, TableSet
<1>9. tables'[at] \in TableSet
  BY <1>4, <1>5, <1>6, <1>8
<1>10. Scope'
  <2>1. Len(saved') \in 1 .. 2
    BY <1>1, <1>4
  <2> QED  BY <1>4, <1>9, <2>1, InnerScope
<1>11. k \notin V!AllKeys(b) => \A a \in b.addresses : a.key # k
  BY DEF V!AllKeys
<1> QED  BY <1>1, <1>4, <1>6, <1>10, <1>11 DEF Adding

LEMMA ReservationRows ==
  ASSUME NEW p \in [id : Ids, wallet : V!Wallets, inputs : SUBSET Coins]
  PROVE  ReservationsOf(p.id, p.inputs) \subseteq [coin : Coins, id : Ids]
BY DEF ReservationsOf

LEMMA ReservesStep ==
  ASSUME Scope, Inner, Reserves(saved[1], tables[at])
  PROVE  (Leave => Len(saved) = 2) /\ Scope' /\ Reserves(saved[1], tables[at])'
<1> DEFINE b == saved[1]
           t == tables[at]
<1>1. PICK p \in [id : Ids, wallet : b.wallets, inputs : SUBSET Coins] :
        /\ Len(saved) = 1
        /\ \A q \in b.outgoing : q.id # p.id
        /\ \A c \in p.inputs : \E a \in b.addresses : a.wallet = p.wallet /\ a.key = KeyOf[c]
        /\ todo = [V!Empty EXCEPT !.reservations = todo.reservations]
        /\ todo.reservations \subseteq ReservationsOf(p.id, p.inputs)
        /\ \/ script = <<AddPayment(p)>> /\ todo.reservations = ReservationsOf(p.id, p.inputs) /\ t = b
           \/ script = <<>> /\ Taken(b, t, p, todo.reservations)
           \/ \E r \in ReservationsOf(p.id, p.inputs) \ todo.reservations :
                script = <<Reserving(r)>> /\ Taken(b, t, p, todo.reservations \cup {r})
  BY DEF Reserves
<1> DEFINE all == ReservationsOf(p.id, p.inputs)
<1>2. b \in TableSet /\ t \in TableSet
  BY Base
<1>3. /\ b.wallets \subseteq V!Wallets /\ p \in [id : Ids, wallet : V!Wallets, inputs : SUBSET Coins]
      /\ all \subseteq [coin : Coins, id : Ids]
  <2>1. b.wallets \subseteq V!Wallets
    BY <1>2 DEF TableSet
  <2>2. p \in [id : Ids, wallet : V!Wallets, inputs : SUBSET Coins]
    BY <2>1
  <2> QED  BY <2>1, <2>2, ReservationRows
<1>4. \A left : [Paid(b, p) EXCEPT !.reservations = @ \cup (all \ left)] \in TableSet
  BY <1>2, <1>3 DEF Paid, TableSet
<1>5. CASE script = <<AddPayment(p)>> /\ todo.reservations = all /\ t = b
  <2>1. /\ script # <<>> /\ Head(script) = AddPayment(p) /\ Tail(script) = <<>>
        /\ AddPayment(p).op \notin {"savepoint", "release"}
    BY <1>5, Scripts, Kinds
  <2>2. /\ ~Leave /\ tables'[at] = Done(b, AddPayment(p)) /\ script' = <<>>
        /\ todo' = todo /\ saved' = saved /\ at' = at
    BY <1>5, <2>1, PlainStatement
  <2>3. Done(b, AddPayment(p)) = Paid(b, p)
    BY DEF Done, AddPayment, Paid
  <2>4. Paid(b, p) = [Paid(b, p) EXCEPT !.reservations = @ \cup (all \ all)]
    BY <1>2 DEF Paid, TableSet
  <2>5. Taken(b, Paid(b, p), p, all)
    BY <2>4 DEF Taken
  <2>6. tables'[at] \in TableSet /\ Len(saved') \in 1 .. 2
    BY <1>1, <1>4, <2>2, <2>3, <2>4
  <2>7. Scope'
    BY <2>2, <2>6, InnerScope
  <2> QED  BY <1>1, <1>5, <2>2, <2>3, <2>5, <2>7 DEF Reserves
<1>6. CASE script = <<>> /\ Taken(b, t, p, todo.reservations)
  <2>1. Rounds
    BY <1>6 DEF Inner, Enter, Leave, Statement, Ahead
  <2>2. /\ todo.wallets = {} /\ todo.addresses = {} /\ todo.outgoing = {} /\ todo.locks = {}
    BY <1>1 DEF V!Empty
  <2>3. ReservationRound
    BY <2>1, <2>2 DEF Rounds, WalletRound, AddressRound, PaymentRound, LockRound
  <2>4. PICK r \in todo.reservations : Round(<<Reserving(r)>>, [todo EXCEPT !.reservations = @ \ {r}])
    BY <2>3 DEF ReservationRound
  <2>5. /\ script' = <<Reserving(r)>> /\ todo' = [todo EXCEPT !.reservations = @ \ {r}]
        /\ tables' = tables /\ saved' = saved /\ at' = at /\ ~Leave
    BY <1>6, <2>4 DEF Round, Leave, Ahead
  <2>6. /\ todo'.reservations = todo.reservations \ {r}
        /\ todo' = [V!Empty EXCEPT !.reservations = todo'.reservations]
    <3>1. todo = [wallets |-> {}, addresses |-> {}, outgoing |-> {},
                  reservations |-> todo.reservations, locks |-> {}]
      BY <1>1 DEF V!Empty
    <3> QED  BY <2>5, <3>1 DEF V!Empty
  <2>7. todo'.reservations \cup {r} = todo.reservations /\ r \in all \ todo'.reservations
    BY <1>1, <2>6
  <2>8. tables'[at] \in TableSet /\ Len(saved') \in 1 .. 2
    BY <1>1, <1>2, <2>5
  <2>9. Scope'
    BY <2>5, <2>8, InnerScope
  <2>10. Reserves(saved[1], tables[at])'
    <3>1. Taken(b, t, p, todo'.reservations \cup {r})
      BY <1>6, <2>7
    <3>2. todo'.reservations \subseteq all
      BY <1>1, <2>6
    <3> QED  BY <1>1, <2>5, <2>6, <2>7, <3>1, <3>2 DEF Reserves
  <2> QED  BY <2>5, <2>9, <2>10
<1>7. ASSUME NEW r \in all \ todo.reservations,
             script = <<Reserving(r)>>, Taken(b, t, p, todo.reservations \cup {r})
      PROVE  (Leave => Len(saved) = 2) /\ Scope' /\ Reserves(saved[1], tables[at])'
  <2>1. /\ script # <<>> /\ Head(script) = Reserving(r) /\ Tail(script) = <<>>
        /\ Reserving(r).op \notin {"savepoint", "release"}
    BY <1>7, Scripts, Kinds
  <2>2. /\ ~Leave /\ tables'[at] = Done(t, Reserving(r)) /\ script' = <<>>
        /\ todo' = todo /\ saved' = saved /\ at' = at /\ ~Clashes(t, Reserving(r))
    BY <2>1, PlainStatement
  <2>3. /\ Done(t, Reserving(r)) = [t EXCEPT !.reservations = @ \cup {r}]
        /\ \A q \in t.reservations : q.coin # r.coin
    BY <2>2 DEF Done, Reserving, Clashes
  <2>4. Paid(b, p) \in TableSet /\ Paid(b, p).reservations = b.reservations
    BY <1>2, <1>3 DEF Paid, TableSet
  <2>5. /\ t = [Paid(b, p) EXCEPT !.reservations = @ \cup (all \ (todo.reservations \cup {r}))]
        /\ \A x \in all \ (todo.reservations \cup {r}), q \in b.reservations : x.coin # q.coin
    BY <1>7 DEF Taken
  <2>6. t.reservations = b.reservations \cup (all \ (todo.reservations \cup {r}))
    BY <2>4, <2>5 DEF TableSet
  <2>7. Done(t, Reserving(r)) = [Paid(b, p) EXCEPT !.reservations = @ \cup (all \ todo.reservations)]
    <3>1. all \ todo.reservations = (all \ (todo.reservations \cup {r})) \cup {r}
      BY <1>7
    <3> HIDE DEF all
    <3> QED  BY <2>3, <2>4, <2>5, <2>6, <3>1 DEF TableSet
  <2>8. Taken(b, tables'[at], p, todo.reservations)
    BY <2>2, <2>3, <2>5, <2>6, <2>7 DEF Taken
  <2>9. tables'[at] \in TableSet /\ Len(saved') \in 1 .. 2
    <3>1. [Paid(b, p) EXCEPT !.reservations = @ \cup (all \ todo.reservations)] \in TableSet
      BY <1>4
    <3>2. Done(t, Reserving(r)) \in TableSet
      BY <2>7, <3>1
    <3> QED  BY <1>1, <2>2, <3>2
  <2>10. Scope'
    BY <2>2, <2>9, InnerScope
  <2> QED  BY <1>1, <2>2, <2>8, <2>10 DEF Reserves
<1> QED  BY <1>1, <1>5, <1>6, <1>7

LEMMA LockingStep ==
  ASSUME Scope, Inner, Locking(saved[1], tables[at])
  PROVE  (Leave => Len(saved) = 2) /\ Scope' /\ Locking(saved[1], tables[at])'
<1> DEFINE b == saved[1]
           t == tables[at]
<1>1. PICK w \in b.wallets, coins \in SUBSET Coins :
        /\ Len(saved) = 1
        /\ todo = [V!Empty EXCEPT !.locks = todo.locks] /\ todo.locks \subseteq {w} \X coins
        /\ \/ script = <<>> /\ t = LocksButFor(b, w, coins, todo.locks)
           \/ \E l \in ({w} \X coins) \ todo.locks :
                script = <<LockCoin(l)>> /\ t = LocksButFor(b, w, coins, todo.locks \cup {l})
  BY DEF Locking
<1> DEFINE all == {w} \X coins
<1>2. b \in TableSet /\ t \in TableSet
  BY Base
<1>3. all \subseteq V!Wallets \X Coins
  BY <1>2 DEF TableSet
<1>4. \A left : LocksButFor(b, w, coins, left) \in TableSet
  <2> HIDE DEF all
  <2>1. \A left : [b EXCEPT !.locks = @ \cup (all \ left)] \in TableSet
    BY <1>2, <1>3 DEF TableSet
  <2> QED  BY <2>1 DEF LocksButFor, all
<1>5. CASE script = <<>> /\ t = LocksButFor(b, w, coins, todo.locks)
  <2>1. Rounds
    BY <1>5 DEF Inner, Enter, Leave, Statement, Ahead
  <2>2. /\ todo.wallets = {} /\ todo.addresses = {} /\ todo.outgoing = {} /\ todo.reservations = {}
    BY <1>1 DEF V!Empty
  <2>3. LockRound
    BY <2>1, <2>2 DEF Rounds, WalletRound, AddressRound, PaymentRound, ReservationRound
  <2>4. PICK l \in todo.locks : Round(<<LockCoin(l)>>, [todo EXCEPT !.locks = @ \ {l}])
    BY <2>3 DEF LockRound
  <2>5. /\ script' = <<LockCoin(l)>> /\ todo' = [todo EXCEPT !.locks = @ \ {l}]
        /\ tables' = tables /\ saved' = saved /\ at' = at /\ ~Leave
    BY <1>5, <2>4 DEF Round, Leave, Ahead
  <2>6. /\ todo'.locks = todo.locks \ {l}
        /\ todo' = [V!Empty EXCEPT !.locks = todo'.locks]
    <3>1. todo = [wallets |-> {}, addresses |-> {}, outgoing |-> {},
                  reservations |-> {}, locks |-> todo.locks]
      BY <1>1 DEF V!Empty
    <3> QED  BY <2>5, <3>1 DEF V!Empty
  <2>7. todo'.locks \cup {l} = todo.locks /\ l \in all \ todo'.locks /\ todo'.locks \subseteq all
    <3> HIDE DEF all
    <3> QED  BY <1>1, <2>4, <2>6 DEF all
  <2>8. tables'[at] \in TableSet /\ Len(saved') \in 1 .. 2
    BY <1>1, <1>2, <2>5
  <2>9. Scope'
    BY <2>5, <2>8, InnerScope
  <2>10. t = LocksButFor(b, w, coins, todo'.locks \cup {l})
    BY <1>5, <2>7
  <2>11. /\ b' = b /\ t' = t /\ w \in b.wallets /\ Len(saved') = 1
         /\ todo' = [V!Empty EXCEPT !.locks = todo'.locks] /\ todo'.locks \subseteq all
         /\ \E x \in all \ todo'.locks :
              script' = <<LockCoin(x)>> /\ t = LocksButFor(b, w, coins, todo'.locks \cup {x})
    <3>1. b' = b /\ t' = t /\ w \in b.wallets /\ Len(saved') = 1
      BY <1>1, <2>5
    <3>2. \E x \in all \ todo'.locks :
            script' = <<LockCoin(x)>> /\ t = LocksButFor(b, w, coins, todo'.locks \cup {x})
      <4> HIDE DEF all
      <4> QED  BY <2>5, <2>7, <2>10
    <3> QED  BY <2>6, <2>7, <3>1, <3>2
  <2>12. Locking(saved[1], tables[at])'
    <3>1. \/ script' = <<>> /\ t' = LocksButFor(b, w, coins, todo.locks)'
          \/ \E x \in ({w} \X coins) \ todo'.locks :
                script' = <<LockCoin(x)>> /\ t' = LocksButFor(b, w, coins, todo.locks \cup {x})'
      BY <2>11 DEF LocksButFor, LockCoin
    <3>2. w \in b'.wallets /\ coins \in SUBSET Coins /\ Len(saved') = 1
      BY <2>11
    <3>3. todo' = [V!Empty EXCEPT !.locks = todo'.locks] /\ todo'.locks \subseteq {w} \X coins
      BY <2>11
    <3>4. SUFFICES \E u \in b'.wallets, cs \in SUBSET Coins :
        /\ Len(saved') = 1
        /\ todo' = [V!Empty EXCEPT !.locks = todo'.locks] /\ todo'.locks \subseteq {u} \X cs
        /\ \/ script' = <<>> /\ t' = LocksButFor(b, u, cs, todo.locks)'
           \/ \E x \in ({u} \X cs) \ todo'.locks :
                script' = <<LockCoin(x)>> /\ t' = LocksButFor(b, u, cs, todo.locks \cup {x})'
      <4> HIDE DEF LocksButFor, LockCoin
      <4> QED BY DEF Locking
    <3> HIDE DEF b, t, all
    <3> QED  BY <3>1, <3>2, <3>3
  <2> QED  BY <2>5, <2>9, <2>12
<1>6. ASSUME NEW l \in all \ todo.locks,
             script = <<LockCoin(l)>>, t = LocksButFor(b, w, coins, todo.locks \cup {l})
      PROVE  (Leave => Len(saved) = 2) /\ Scope' /\ Locking(saved[1], tables[at])'
  <2>1. /\ script # <<>> /\ Head(script) = LockCoin(l) /\ Tail(script) = <<>>
        /\ LockCoin(l).op \notin {"savepoint", "release"}
    BY <1>6, Scripts, Kinds
  <2>2. /\ ~Leave /\ tables'[at] = Done(t, LockCoin(l)) /\ script' = <<>>
        /\ todo' = todo /\ saved' = saved /\ at' = at
    BY <2>1, PlainStatement
  <2>3. Done(t, LockCoin(l)) = LocksButFor(b, w, coins, todo.locks)
    <3> HIDE DEF all
    <3>1. Done(t, LockCoin(l)) = [t EXCEPT !.locks = @ \cup {l}]
      BY DEF Done, LockCoin
    <3>2. t = [b EXCEPT !.locks = @ \cup (all \ (todo.locks \cup {l}))]
      BY <1>6 DEF LocksButFor, all
    <3>3. all \ todo.locks = (all \ (todo.locks \cup {l})) \cup {l}
      BY <1>6
    <3>4. [t EXCEPT !.locks = @ \cup {l}] = [b EXCEPT !.locks = @ \cup (all \ todo.locks)]
      BY <1>2, <3>2, <3>3 DEF TableSet
    <3> QED  BY <3>1, <3>4 DEF LocksButFor, all
  <2>4. tables'[at] \in TableSet /\ Len(saved') \in 1 .. 2
    BY <1>1, <1>4, <2>2, <2>3
  <2>5. Scope'
    BY <2>2, <2>4, InnerScope
  <2> QED  BY <1>1, <2>2, <2>3, <2>5 DEF Locking
<1> QED  BY <1>1, <1>5, <1>6

-----------------------------------------------------------------------------
\* The steps of a restore.

LEMMA Goal ==
  ASSUME NEW o \in Owners, NEW s \in BackupSet, Consistent(Restored(s, o))
  PROVE  /\ Restored(s, o) \in TableSet
         /\ \A a \in Restored(s, o).addresses : a.rescan = TRUE /\ a = V!Address(a.key, a.wallet, TRUE)
         /\ \A w \in Restored(s, o).wallets : w[1] = o
<1>1. Restored(s, o) \in TableSet
  BY DEF Consistent
<1>2. \A a \in Restored(s, o).addresses : a.rescan = TRUE /\ a = V!Address(a.key, a.wallet, TRUE)
  BY DEF Restored, V!Address
<1>3. \A w \in Restored(s, o).wallets : w[1] = o
  BY DEF Restored
<1> QED  BY <1>1, <1>2, <1>3

LEMMA PendingRows ==
  ASSUME NEW g \in TableSet, todo \in TableSet
  PROVE  /\ Pending(g) \in TableSet
         /\ Pending(g) = [wallets |-> todo.wallets,
                          addresses |-> todo.addresses \cup {a \in g.addresses : a.wallet \in todo.wallets},
                          outgoing |-> todo.outgoing, reservations |-> todo.reservations,
                          locks |-> todo.locks]
BY DEF Pending, TableSet

LEMMA CreatingFirstStep ==
  ASSUME Scope, Inner, backup \in BackupSet, NEW o \in Owners, Consistent(Restored(backup, o)),
         Consistent(saved[1]), Remaining(Restored(backup, o)),
         CreatingFirst(Restored(backup, o), saved[1], tables[at])
  PROVE  (Leave => Len(saved) = 2) /\ Scope' /\ Restoring(saved[1], tables[at])'
<1> DEFINE b == saved[1]
           t == tables[at]
           g == Restored(backup, o)
           before(w) == [Pending(g) EXCEPT !.wallets = @ \cup {w}]
<1>1. /\ g \in TableSet /\ b \in TableSet /\ t \in TableSet /\ todo \in TableSet
      /\ todo.addresses \subseteq g.addresses
  BY Base, Goal DEF Remaining
<1> HIDE DEF g
<1>2. PICK w \in g.wallets \ todo.wallets, k \in Keys :
        /\ V!Address(k, w, TRUE) \in todo.addresses
        /\ \/ /\ script = <<Savepoint, NewWallet(w), AddAddress(k, w, FALSE), Release>>
              /\ Len(saved) = 1 /\ Behind(g, before(w), b, t)
           \/ /\ script = <<NewWallet(w), AddAddress(k, w, FALSE), Release>>
              /\ Len(saved) = 2 /\ Behind(g, before(w), b, t)
           \/ script = <<AddAddress(k, w, FALSE), Release>> /\ Len(saved) = 2 /\ Behind(g, Pending(g), b, t)
           \/ script = <<Release>> /\ Len(saved) = 2 /\ Behind(g, Pending(g), b, t)
  BY DEF CreatingFirst, g
<1>3. /\ Pending(g) \in TableSet /\ w \notin Pending(g).wallets
      /\ V!Address(k, w, TRUE) \in Pending(g).addresses /\ V!Address(k, w, TRUE) \in g.addresses
  <2>1. V!Address(k, w, TRUE).wallet = w
    BY DEF V!Address
  <2>2. Pending(g) \in TableSet
    BY <1>1, PendingRows
  <2>3. Pending(g).wallets = todo.wallets /\ todo.addresses \subseteq Pending(g).addresses
    BY <1>1, PendingRows
  <2> QED  BY <1>1, <1>2, <2>2, <2>3
<1>4. CASE /\ script = <<Savepoint, NewWallet(w), AddAddress(k, w, FALSE), Release>>
           /\ Len(saved) = 1 /\ Behind(g, before(w), b, t)
  <2>1. /\ script # <<>> /\ Head(script) = Savepoint
        /\ Tail(script) = <<NewWallet(w), AddAddress(k, w, FALSE), Release>>
    <3>1. script = <<Savepoint, NewWallet(w), AddAddress(k, w, FALSE), Release>>
      BY <1>4
    <3> QED  BY <3>1, FourSteps
  <2>2. Head(script) # Release
    BY <2>1, Kinds
  <2>3. Enter /\ ~Leave
    BY <2>1, <2>2 DEF Inner, Leave, Statement, Ahead, Rounds, WalletRound, AddressRound, PaymentRound,
                      ReservationRound, LockRound, Round
  <2>4. /\ script' = <<NewWallet(w), AddAddress(k, w, FALSE), Release>>
        /\ UNCHANGED <<tables, backup, at, todo, failed>> /\ saved' = Append(saved, t)
    BY <2>1, <2>3 DEF Enter
  <2>5. Len(saved') = 2 /\ saved'[1] = saved[1]
    <3>1. saved \in Seq(TableSet) /\ Len(saved) = 1 /\ t \in TableSet
      BY <1>1, <1>4 DEF Scope
    <3>2. saved' = Append(saved, t)
      BY <2>4
    <3> HIDE DEF t, b
    <3>3. Len(Append(saved, t)) = 2 /\ Append(saved, t)[1] = saved[1]
      <4>1. \A i \in 1 .. Len(saved) : Append(saved, t)[i] = saved[i]
        BY <3>1, AppendProperties
      <4>2. Len(Append(saved, t)) = Len(saved) + 1
        BY <3>1, AppendProperties
      <4> QED BY <3>1, <4>1, <4>2
    <3> QED  BY <3>2, <3>3
  <2>6. tables'[at] \in TableSet /\ Len(saved') \in 1 .. 2
    BY <1>1, <2>4, <2>5
  <2>7. Scope'
    BY <2>3, <2>6, InnerScope
  <2>8. CreatingFirst(g, saved[1], tables[at])'
    BY <1>2, <1>4, <2>4, <2>5 DEF CreatingFirst, Pending, g
  <2>9. Remaining(g)'
    BY <2>4 DEF Remaining, g
  <2> QED  BY <2>3, <2>4, <2>7, <2>8, <2>9 DEF Restoring, g
<1>5. CASE /\ script = <<NewWallet(w), AddAddress(k, w, FALSE), Release>>
           /\ Len(saved) = 2 /\ Behind(g, before(w), b, t)
  <2>1. /\ script # <<>> /\ Head(script) = NewWallet(w)
        /\ Tail(script) = <<AddAddress(k, w, FALSE), Release>>
        /\ NewWallet(w).op \notin {"savepoint", "release"}
    <3>1. script = <<NewWallet(w), AddAddress(k, w, FALSE), Release>>
      BY <1>5
    <3>2. NewWallet(w).op = "wallet"
      BY Kinds
    <3>3. script # <<>> /\ Head(script) = NewWallet(w)
          /\ Tail(script) = <<AddAddress(k, w, FALSE), Release>>
      BY <3>1, ThreeSteps
    <3> QED  BY <3>2, <3>3
  <2>2. /\ ~Leave /\ ~Clashes(t, NewWallet(w)) /\ tables'[at] = Done(t, NewWallet(w))
        /\ script' = <<AddAddress(k, w, FALSE), Release>> /\ UNCHANGED <<backup, at, todo, saved, failed>>
    BY <2>1, PlainStatement
  <2>3. Behind(g, Pending(g), b, Done(t, NewWallet(w)))
    BY <1>1, <1>3, <1>5, <2>2, WalletComes
  <2>4. Behind(g, Pending(g), b, tables'[at])
    BY <2>2, <2>3
  <2>5. tables'[at] \in TableSet /\ Len(saved') \in 1 .. 2
    BY <1>5, <2>2, <2>4 DEF Behind
  <2>6. Scope'
    BY <2>2, <2>5, InnerScope
  <2>7. CreatingFirst(g, saved[1], tables[at])'
    BY <1>2, <1>5, <2>2, <2>4 DEF CreatingFirst, Pending, g
  <2>8. Remaining(g)'
    BY <2>2 DEF Remaining, g
  <2> QED  BY <2>2, <2>6, <2>7, <2>8 DEF Restoring, g
<1>6. CASE script = <<AddAddress(k, w, FALSE), Release>> /\ Len(saved) = 2 /\ Behind(g, Pending(g), b, t)
  <2>1. /\ script # <<>> /\ Head(script) = AddAddress(k, w, FALSE) /\ Tail(script) = <<Release>>
        /\ AddAddress(k, w, FALSE).op \notin {"savepoint", "release"}
    BY <1>6, Scripts, Kinds
  <2>2. /\ ~Leave /\ ~Clashes(t, AddAddress(k, w, FALSE))
        /\ tables'[at] = Done(t, AddAddress(k, w, FALSE))
        /\ script' = <<Release>> /\ UNCHANGED <<backup, at, todo, saved, failed>>
    BY <2>1, PlainStatement
  <2>3. Behind(g, Pending(g), b, Done(t, AddAddress(k, w, FALSE)))
    BY <1>1, <1>2, <1>3, <1>6, <2>2, AddressComes
  <2>4. Behind(g, Pending(g), b, tables'[at])
    BY <2>2, <2>3
  <2>5. tables'[at] \in TableSet /\ Len(saved') \in 1 .. 2
    <3>1. Len(saved) = 2 /\ saved' = saved
      BY <1>6, <2>2
    <3>2. tables'[at] \in TableSet
      BY <2>4 DEF Behind
    <3> QED  BY <3>1, <3>2
  <2>6. Scope'
    BY <2>2, <2>5, InnerScope
  <2>7. CreatingFirst(g, saved[1], tables[at])'
    BY <1>2, <1>6, <2>2, <2>4 DEF CreatingFirst, Pending, g
  <2>8. Remaining(g)'
    BY <2>2 DEF Remaining, g
  <2> QED  BY <2>2, <2>6, <2>7, <2>8 DEF Restoring, g
<1>7. CASE script = <<Release>> /\ Len(saved) = 2 /\ Behind(g, Pending(g), b, t)
  <2>1. /\ script # <<>> /\ Head(script) = Release /\ Tail(script) = <<>>
    BY <1>7, Scripts
  <2>2. Head(script) # Savepoint
    BY <2>1, Kinds
  <2>3. Leave
    BY <2>1, <2>2 DEF Inner, Enter, Statement, Ahead, Rounds, WalletRound, AddressRound, PaymentRound,
                      ReservationRound, LockRound, Round
  <2>4. /\ script' = <<>> /\ UNCHANGED <<tables, backup, at, todo, failed>>
        /\ saved' = SubSeq(saved, 1, Len(saved) - 1)
    BY <2>1, <2>3 DEF Leave
  <2>5. saved' = SubSeq(saved, 1, 1)
    BY <1>7, <2>4
  <2>6. Len(saved') = 1 /\ saved'[1] = saved[1]
    BY <1>1, <2>5, SubSeqProperties DEF Scope
  <2>7. tables'[at] \in TableSet /\ Len(saved') \in 1 .. 2
    BY <1>1, <2>4, <2>6
  <2>8. Scope'
    BY <1>7, <2>7, InnerScope
  <2>9. RestoringRow(g, saved[1], tables[at])'
    BY <1>7, <2>4, <2>6 DEF RestoringRow, Pending, g
  <2>10. Remaining(g)'
    BY <2>4 DEF Remaining, g
  <2> QED  BY <1>7, <2>4, <2>6, <2>8, <2>9, <2>10 DEF Restoring, g
<1> QED  BY <1>2, <1>4, <1>5, <1>6, <1>7

LEMMA FlaggingStep ==
  ASSUME Scope, Inner, backup \in BackupSet, NEW o \in Owners, Consistent(Restored(backup, o)),
         Consistent(saved[1]), Remaining(Restored(backup, o)),
         Flagging(Restored(backup, o), saved[1], tables[at])
  PROVE  (Leave => Len(saved) = 2) /\ Scope' /\ Restoring(saved[1], tables[at])'
<1> DEFINE b == saved[1]
           t == tables[at]
           g == Restored(backup, o)
           before(a) == [Pending(g) EXCEPT !.addresses = @ \cup {a}]
<1>1. /\ g \in TableSet /\ b \in TableSet /\ t \in TableSet /\ todo \in TableSet
      /\ \A a \in g.addresses : a.rescan = TRUE /\ a = V!Address(a.key, a.wallet, TRUE)
  BY Base, Goal DEF Remaining
<1>2. KeysOnce(g) /\ \A a \in g.addresses : a.wallet \in g.wallets
  BY DEF Consistent, WalletsKeyed
<1> HIDE DEF g
<1>3. PICK a \in g.addresses \ todo.addresses :
        /\ a.wallet \notin todo.wallets /\ Len(saved) = 1 /\ Behind(g, before(a), b, t)
        /\ \/ script = <<AddAddress(a.key, a.wallet, TRUE), FlagAddress(a.key)>>
           \/ script = <<FlagAddress(a.key)>> /\ Brought(a.key, b, t)
  BY DEF Flagging, g
<1>4. /\ Pending(g) \in TableSet /\ a \notin Pending(g).addresses
      /\ before(a) \in TableSet /\ a \in before(a).addresses /\ a.wallet \notin before(a).wallets
  <2>1. Pending(g) \in TableSet /\ Pending(g).wallets = todo.wallets
    BY <1>1, PendingRows
  <2>2. a \notin Pending(g).addresses
    BY <1>1, <1>3, PendingRows
  <2>3. a \in [key : Keys, wallet : V!Wallets, rescan : BOOLEAN]
    BY <1>1, <1>3 DEF TableSet
  <2>4. before(a) \in TableSet /\ a \in before(a).addresses /\ before(a).wallets = todo.wallets
    BY <2>1, <2>3 DEF TableSet
  <2> QED  BY <1>3, <2>1, <2>2, <2>4
<1>5. a.key \in Keys /\ a.rescan = TRUE /\ a = V!Address(a.key, a.wallet, TRUE) /\ a.wallet \in g.wallets
  BY <1>1, <1>2, <1>3 DEF TableSet
<1>6. CASE script = <<AddAddress(a.key, a.wallet, TRUE), FlagAddress(a.key)>>
  <2>1. /\ script # <<>> /\ Head(script) = AddAddress(a.key, a.wallet, TRUE)
        /\ Tail(script) = <<FlagAddress(a.key)>>
        /\ AddAddress(a.key, a.wallet, TRUE).op \notin {"savepoint", "release"}
    BY <1>6, Scripts, Kinds
  <2>2. /\ ~Leave /\ ~Clashes(t, AddAddress(a.key, a.wallet, TRUE))
        /\ tables'[at] = Done(t, AddAddress(a.key, a.wallet, TRUE))
        /\ script' = <<FlagAddress(a.key)>> /\ UNCHANGED <<backup, at, todo, saved, failed>>
    BY <2>1, PlainStatement
  <2>3. Behind(g, before(a), b, tables'[at]) /\ Brought(a.key, b, tables'[at])
    <3>1. Behind(g, before(a), b, t)
      BY <1>3
    <3>2. V!Address(a.key, a.wallet, TRUE) \in g.addresses /\ V!Address(a.key, a.wallet, TRUE) \in before(a).addresses
      BY <1>3, <1>4, <1>5
    <3>3. /\ Consistent(b) /\ g \in TableSet /\ b \in TableSet
          /\ before(a) \in TableSet /\ a.wallet \notin before(a).wallets
          /\ a.key \in Keys /\ a.wallet \in g.wallets
      BY <1>1, <1>4, <1>5
    <3>4. ~Clashes(t, AddAddress(a.key, a.wallet, TRUE))
      BY <2>2
    <3> HIDE DEF b, t, before
    <3>5. /\ Behind(g, before(a), b, Done(t, AddAddress(a.key, a.wallet, TRUE)))
          /\ Brought(a.key, b, Done(t, AddAddress(a.key, a.wallet, TRUE)))
      BY <3>1, <3>2, <3>3, <3>4, AddressComes
    <3> QED  BY <2>2, <3>5 DEF t
  <2>4. tables'[at] \in TableSet
    BY <2>3 DEF Behind
  <2>5. Scope'
    <3>1. Len(saved') \in 1 .. 2
      BY <1>3, <2>2
    <3> QED  BY <2>2, <2>4, <3>1, InnerScope
  <2>6. Flagging(g, saved[1], tables[at])'
    BY <1>3, <2>2, <2>3 DEF Flagging, Pending, g
  <2>7. Remaining(g)'
    BY <2>2 DEF Remaining, g
  <2> QED  BY <2>2, <2>5, <2>6, <2>7 DEF Restoring, g
<1>7. ASSUME script = <<FlagAddress(a.key)>>, Brought(a.key, b, t)
      PROVE  (Leave => Len(saved) = 2) /\ Scope' /\ Restoring(saved[1], tables[at])'
  <2>1. /\ script # <<>> /\ Head(script) = FlagAddress(a.key) /\ Tail(script) = <<>>
        /\ FlagAddress(a.key).op \notin {"savepoint", "release"}
    BY <1>7, Scripts, Kinds
  <2>2. /\ ~Leave /\ tables'[at] = Done(t, FlagAddress(a.key))
        /\ script' = <<>> /\ UNCHANGED <<backup, at, todo, saved, failed>>
    BY <2>1, PlainStatement
  <2>3. Behind(g, Pending(g), b, tables'[at])
    <3>1. Behind(g, [Pending(g) EXCEPT !.addresses = @ \cup {a}], b, t)
      BY <1>3
    <3>2. /\ g \in TableSet /\ b \in TableSet /\ Pending(g) \in TableSet /\ KeysOnce(g)
          /\ a \in g.addresses /\ a \notin Pending(g).addresses /\ a.rescan = TRUE
          /\ Brought(a.key, b, t)
      BY <1>1, <1>2, <1>3, <1>4, <1>5, <1>7
    <3> HIDE DEF b, t
    <3>3. Behind(g, Pending(g), b, Done(t, FlagAddress(a.key)))
      BY <3>1, <3>2, FlagComes
    <3> QED  BY <2>2, <3>3 DEF t
  <2>4. tables'[at] \in TableSet
    BY <2>3 DEF Behind
  <2>5. Scope'
    <3>1. Len(saved') \in 1 .. 2
      BY <1>3, <2>2
    <3> QED  BY <2>2, <2>4, <3>1, InnerScope
  <2>6. RestoringRow(g, saved[1], tables[at])' /\ Len(saved') = 1
    BY <1>3, <2>2, <2>3 DEF RestoringRow, Pending, g
  <2>7. Remaining(g)'
    BY <2>2 DEF Remaining, g
  <2> QED  BY <2>2, <2>5, <2>6, <2>7 DEF Restoring, g
<1> QED  BY <1>3, <1>6, <1>7

\* Of what is left only the rows matter.
LEMMA SameRows ==
  ASSUME NEW g, NEW b, NEW t, NEW x, NEW y, Behind(g, x, b, t),
         x.wallets = y.wallets, x.addresses = y.addresses, x.outgoing = y.outgoing,
         x.reservations = y.reservations, x.locks = y.locks
  PROVE  Behind(g, y, b, t)
BY DEF Behind, WalletsBehind, AddressesBehind, PaymentsBehind, ReservationsBehind, LocksBehind

\* The next round of a loop: its row is not left any more, and its statement is to come.
LEMMA RestoringRound ==
  ASSUME Scope, Inner, backup \in BackupSet, NEW o \in Owners, Consistent(Restored(backup, o)),
         Remaining(Restored(backup, o)), Len(saved) = 1, script = <<>>,
         Behind(Restored(backup, o), Pending(Restored(backup, o)), saved[1], tables[at])
  PROVE  ~Leave /\ Scope' /\ Restoring(saved[1], tables[at])'
<1> DEFINE b == saved[1]
           t == tables[at]
           g == Restored(backup, o)
<1>1. /\ g \in TableSet /\ todo \in TableSet /\ t \in TableSet
      /\ \A a \in g.addresses : a.rescan = TRUE /\ a = V!Address(a.key, a.wallet, TRUE)
      /\ \A w \in g.wallets : w[1] = o
  BY Base, Goal DEF Remaining
<1>2. /\ todo.wallets \subseteq g.wallets /\ todo.addresses \subseteq g.addresses
      /\ todo.outgoing \subseteq g.outgoing /\ todo.reservations \subseteq g.reservations
      /\ todo.locks \subseteq g.locks
      /\ \A a \in todo.addresses : a.wallet \notin todo.wallets
  BY DEF Remaining
<1>3. Rounds /\ ~Leave
  BY DEF Inner, Enter, Leave, Statement, Ahead
<1>4. UNCHANGED <<tables, backup, at, saved, failed>>
  BY <1>3 DEF Rounds, WalletRound, AddressRound, PaymentRound, ReservationRound, LockRound, Round
<1>5. Scope'
  BY <1>1, <1>3, <1>4, InnerScope
<1>6. /\ g' = g /\ b' = b /\ t' = t /\ Len(saved') = 1
  BY <1>4
<1> DEFINE old == Pending(g)
<1>7. old = [wallets |-> todo.wallets,
             addresses |-> todo.addresses \cup {a \in g.addresses : a.wallet \in todo.wallets},
             outgoing |-> todo.outgoing, reservations |-> todo.reservations, locks |-> todo.locks]
  BY <1>1, PendingRows
<1>8. Behind(g, old, b, t)
  OBVIOUS
<1> HIDE DEF g, b, t, old
<1> DEFINE waiting == {a \in g.addresses : a.wallet \in todo'.wallets}
           new == Pending(g)'
<1>9. ASSUME todo' \in TableSet
      PROVE  /\ new \in TableSet
             /\ new.wallets = todo'.wallets /\ new.addresses = todo'.addresses \cup waiting
             /\ new.outgoing = todo'.outgoing /\ new.reservations = todo'.reservations
             /\ new.locks = todo'.locks
  <2>1. new = [todo' EXCEPT !.addresses = @ \cup waiting] /\ waiting \in SUBSET g.addresses
    BY <1>6 DEF Pending
  <2> HIDE DEF waiting, new
  <2> QED  BY <1>1, <1>9, <2>1 DEF TableSet
<1> HIDE DEF new
<1>10. CASE WalletRound
  <2>0. PICK w \in todo.wallets : \E first \in AddressesOf(w) :
          Round(<<Savepoint, NewWallet(w), AddAddress(first.key, w, FALSE), Release>>,
                [todo EXCEPT !.wallets = @ \ {w}, !.addresses = AddressesOf(w)])
    BY <1>10 DEF WalletRound
  <2>1. PICK first \in AddressesOf(w) :
          Round(<<Savepoint, NewWallet(w), AddAddress(first.key, w, FALSE), Release>>,
                [todo EXCEPT !.wallets = @ \ {w}, !.addresses = AddressesOf(w)])
    BY <2>0
  <2>2. todo.addresses = {}
    BY <1>10 DEF WalletRound
  <2>3. w \in g.wallets /\ AddressesOf(w) = {a \in g.addresses : a.wallet = w}
    BY <1>1, <1>2 DEF AddressesOf, g
  <2>4. /\ script' = <<Savepoint, NewWallet(w), AddAddress(first.key, w, FALSE), Release>>
        /\ todo' = [todo EXCEPT !.wallets = @ \ {w}, !.addresses = AddressesOf(w)]
    BY <2>1 DEF Round
  <2>5. todo' = [wallets |-> todo.wallets \ {w}, addresses |-> {a \in g.addresses : a.wallet = w},
                 outgoing |-> todo.outgoing, reservations |-> todo.reservations, locks |-> todo.locks]
    BY <1>1, <2>3, <2>4 DEF TableSet
  <2>6. first \in g.addresses /\ first.key \in Keys /\ first = V!Address(first.key, w, TRUE)
    BY <1>1, <2>3 DEF TableSet
  <2>7. V!Address(first.key, w, TRUE) \in todo'.addresses
    BY <2>3, <2>5, <2>6
  <2>8. w \in g.wallets \ todo'.wallets
    BY <2>3, <2>5
  <2>9. /\ todo'.wallets \cup {w} = todo.wallets
        /\ todo'.addresses \cup waiting
              = todo.addresses \cup {a \in g.addresses : a.wallet \in todo.wallets}
    BY <2>2, <2>5
  <2>10. todo' \in TableSet
    BY <1>1, <1>2, <2>5 DEF TableSet
  <2>11. Remaining(g)'
    <3>1. \A a \in todo'.addresses : a.wallet \notin todo'.wallets
      BY <2>5
    <3> QED  BY <1>2, <1>6, <2>5, <2>10, <3>1 DEF Remaining
  <2>12. Behind(g, [new EXCEPT !.wallets = @ \cup {w}], b, t)
    <3> DEFINE x == [new EXCEPT !.wallets = @ \cup {w}]
    <3>1. new \in TableSet
      BY <1>9, <2>10
    <3>2. /\ x.wallets = new.wallets \cup {w} /\ x.addresses = new.addresses
          /\ x.outgoing = new.outgoing /\ x.reservations = new.reservations
          /\ x.locks = new.locks
      BY <3>1 DEF TableSet
    <3>3. /\ x.wallets = old.wallets /\ x.addresses = old.addresses /\ x.outgoing = old.outgoing
          /\ x.reservations = old.reservations /\ x.locks = old.locks
      BY <1>7, <1>9, <2>5, <2>9, <2>10, <3>2
    <3> QED  BY <1>8, <3>3, SameRows
  <2>13. CreatingFirst(g, b, t)'
    BY <1>4, <1>6, <1>8, <2>4, <2>6, <2>7, <2>8, <2>12 DEF CreatingFirst, b, new
  <2> QED  BY <1>3, <1>5, <2>11, <2>13 DEF Restoring, g, b, t
<1>11. CASE AddressRound
  <2>1. PICK a \in todo.addresses :
          Round(<<AddAddress(a.key, a.wallet, TRUE), FlagAddress(a.key)>>, [todo EXCEPT !.addresses = @ \ {a}])
    BY <1>11 DEF AddressRound
  <2>2. /\ script' = <<AddAddress(a.key, a.wallet, TRUE), FlagAddress(a.key)>>
        /\ todo' = [todo EXCEPT !.addresses = @ \ {a}]
    BY <2>1 DEF Round
  <2>3. todo' = [wallets |-> todo.wallets, addresses |-> todo.addresses \ {a},
                 outgoing |-> todo.outgoing, reservations |-> todo.reservations, locks |-> todo.locks]
    BY <1>1, <2>2 DEF TableSet
  <2>4. a \in g.addresses \ todo'.addresses /\ a.wallet \notin todo'.wallets
    BY <1>2, <2>1, <2>3
  <2>5. todo' \in TableSet
    BY <1>1, <2>3 DEF TableSet
  <2>6. Remaining(g)'
    BY <1>2, <1>6, <2>3, <2>5 DEF Remaining
  <2>7. Behind(g, [new EXCEPT !.addresses = @ \cup {a}], b, t)
    <3> DEFINE x == [new EXCEPT !.addresses = @ \cup {a}]
    <3>1. new \in TableSet
      BY <1>9, <2>5
    <3>2. /\ x.wallets = new.wallets /\ x.addresses = new.addresses \cup {a}
          /\ x.outgoing = new.outgoing /\ x.reservations = new.reservations
          /\ x.locks = new.locks
      BY <3>1 DEF TableSet
    <3>3. /\ x.wallets = old.wallets /\ x.addresses = old.addresses /\ x.outgoing = old.outgoing
          /\ x.reservations = old.reservations /\ x.locks = old.locks
      BY <1>7, <1>9, <2>1, <2>3, <2>5, <3>2
    <3> QED  BY <1>8, <3>3, SameRows
  <2>8. Flagging(g, b, t)'
    BY <1>6, <1>8, <2>2, <2>4, <2>7 DEF Flagging, new
  <2> QED  BY <1>3, <1>5, <2>6, <2>8 DEF Restoring, g, b, t
<1>12. CASE PaymentRound
  <2>1. PICK p \in todo.outgoing : Round(<<AddPayment(p)>>, [todo EXCEPT !.outgoing = @ \ {p}])
    BY <1>12 DEF PaymentRound
  <2>2. script' = <<AddPayment(p)>> /\ todo' = [todo EXCEPT !.outgoing = @ \ {p}]
    BY <2>1 DEF Round
  <2>3. todo' = [wallets |-> todo.wallets, addresses |-> todo.addresses,
                 outgoing |-> todo.outgoing \ {p}, reservations |-> todo.reservations, locks |-> todo.locks]
    BY <1>1, <2>2 DEF TableSet
  <2>4. p \in g.outgoing \ todo'.outgoing /\ todo'.outgoing \cup {p} = todo.outgoing
    BY <1>2, <2>1, <2>3
  <2>5. todo' \in TableSet
    BY <1>1, <2>3 DEF TableSet
  <2>6. Remaining(g)'
    BY <1>2, <1>6, <2>3, <2>5 DEF Remaining
  <2>7. Behind(g, [new EXCEPT !.outgoing = @ \cup {p}], b, t)
    <3> DEFINE x == [new EXCEPT !.outgoing = @ \cup {p}]
    <3>1. new \in TableSet
      BY <1>9, <2>5
    <3>2. /\ x.wallets = new.wallets /\ x.addresses = new.addresses
          /\ x.outgoing = new.outgoing \cup {p} /\ x.reservations = new.reservations
          /\ x.locks = new.locks
      BY <3>1 DEF TableSet
    <3>3. /\ x.wallets = old.wallets /\ x.addresses = old.addresses /\ x.outgoing = old.outgoing
          /\ x.reservations = old.reservations /\ x.locks = old.locks
      BY <1>7, <1>9, <2>3, <2>4, <2>5, <3>2
    <3> QED  BY <1>8, <3>3, SameRows
  <2>8. RestoringRow(g, b, t)'
    BY <1>6, <1>8, <2>2, <2>4, <2>7 DEF RestoringRow, new
  <2> QED  BY <1>3, <1>5, <1>6, <2>6, <2>8 DEF Restoring, g, b, t
<1>13. CASE ReservationRound
  <2>1. PICK r \in todo.reservations : Round(<<Reserving(r)>>, [todo EXCEPT !.reservations = @ \ {r}])
    BY <1>13 DEF ReservationRound
  <2>2. script' = <<Reserving(r)>> /\ todo' = [todo EXCEPT !.reservations = @ \ {r}]
    BY <2>1 DEF Round
  <2>3. todo' = [wallets |-> todo.wallets, addresses |-> todo.addresses,
                 outgoing |-> todo.outgoing, reservations |-> todo.reservations \ {r}, locks |-> todo.locks]
    BY <1>1, <2>2 DEF TableSet
  <2>4. r \in g.reservations \ todo'.reservations /\ todo'.reservations \cup {r} = todo.reservations
    BY <1>2, <2>1, <2>3
  <2>5. todo' \in TableSet
    BY <1>1, <2>3 DEF TableSet
  <2>6. Remaining(g)'
    BY <1>2, <1>6, <2>3, <2>5 DEF Remaining
  <2>7. Behind(g, [new EXCEPT !.reservations = @ \cup {r}], b, t)
    <3> DEFINE x == [new EXCEPT !.reservations = @ \cup {r}]
    <3>1. new \in TableSet
      BY <1>9, <2>5
    <3>2. /\ x.wallets = new.wallets /\ x.addresses = new.addresses
          /\ x.outgoing = new.outgoing /\ x.reservations = new.reservations \cup {r}
          /\ x.locks = new.locks
      BY <3>1 DEF TableSet
    <3>3. /\ x.wallets = old.wallets /\ x.addresses = old.addresses /\ x.outgoing = old.outgoing
          /\ x.reservations = old.reservations /\ x.locks = old.locks
      BY <1>7, <1>9, <2>3, <2>4, <2>5, <3>2
    <3> QED  BY <1>8, <3>3, SameRows
  <2>8. RestoringRow(g, b, t)'
    BY <1>6, <1>8, <2>2, <2>4, <2>7 DEF RestoringRow, new
  <2> QED  BY <1>3, <1>5, <1>6, <2>6, <2>8 DEF Restoring, g, b, t
<1>14. CASE LockRound
  <2>1. PICK l \in todo.locks : Round(<<LockCoin(l)>>, [todo EXCEPT !.locks = @ \ {l}])
    BY <1>14 DEF LockRound
  <2>2. script' = <<LockCoin(l)>> /\ todo' = [todo EXCEPT !.locks = @ \ {l}]
    BY <2>1 DEF Round
  <2>3. todo' = [wallets |-> todo.wallets, addresses |-> todo.addresses,
                 outgoing |-> todo.outgoing, reservations |-> todo.reservations, locks |-> todo.locks \ {l}]
    BY <1>1, <2>2 DEF TableSet
  <2>4. l \in g.locks \ todo'.locks /\ todo'.locks \cup {l} = todo.locks
    BY <1>2, <2>1, <2>3
  <2>5. todo' \in TableSet
    BY <1>1, <2>3 DEF TableSet
  <2>6. Remaining(g)'
    BY <1>2, <1>6, <2>3, <2>5 DEF Remaining
  <2>7. Behind(g, [new EXCEPT !.locks = @ \cup {l}], b, t)
    <3> DEFINE x == [new EXCEPT !.locks = @ \cup {l}]
    <3>1. new \in TableSet
      BY <1>9, <2>5
    <3>2. /\ x.wallets = new.wallets /\ x.addresses = new.addresses
          /\ x.outgoing = new.outgoing /\ x.reservations = new.reservations
          /\ x.locks = new.locks \cup {l}
      BY <3>1 DEF TableSet
    <3>3. /\ x.wallets = old.wallets /\ x.addresses = old.addresses /\ x.outgoing = old.outgoing
          /\ x.reservations = old.reservations /\ x.locks = old.locks
      BY <1>7, <1>9, <2>3, <2>4, <2>5, <3>2
    <3> QED  BY <1>8, <3>3, SameRows
  <2>8. RestoringRow(g, b, t)'
    BY <1>6, <1>8, <2>2, <2>4, <2>7 DEF RestoringRow, new
  <2> QED  BY <1>3, <1>5, <1>6, <2>6, <2>8 DEF Restoring, g, b, t
<1> QED  BY <1>3, <1>10, <1>11, <1>12, <1>13, <1>14 DEF Rounds


\* The statement of such a row.
LEMMA RestoringStatement ==
  ASSUME Scope, Inner, backup \in BackupSet, NEW o \in Owners, Consistent(Restored(backup, o)),
         Remaining(Restored(backup, o)), Len(saved) = 1, script # <<>>,
         RestoringRow(Restored(backup, o), saved[1], tables[at])
  PROVE  ~Leave /\ Scope' /\ Restoring(saved[1], tables[at])'
<1> DEFINE b == saved[1]
           t == tables[at]
           g == Restored(backup, o)
           old == Pending(g)
<1>1. g \in TableSet /\ b \in TableSet /\ todo \in TableSet
  BY Base, Goal DEF Remaining
<1>2. /\ old \in TableSet /\ old.outgoing = todo.outgoing /\ old.reservations = todo.reservations
      /\ old.locks = todo.locks
  <2> HIDE DEF g
  <2> QED  BY <1>1, PendingRows
<1>3. PICK s : /\ script = <<s>> /\ s.op \notin {"savepoint", "release"}
               /\ ~Clashes(t, s) => Behind(g, old, b, Done(t, s))
  <2>1. CASE \E p \in g.outgoing \ todo.outgoing :
          script = <<AddPayment(p)>> /\ Behind(g, [old EXCEPT !.outgoing = @ \cup {p}], b, t)
    <3>1. PICK p \in g.outgoing \ todo.outgoing :
            script = <<AddPayment(p)>> /\ Behind(g, [old EXCEPT !.outgoing = @ \cup {p}], b, t)
      BY <2>1
    <3>2. p \in g.outgoing /\ p \notin old.outgoing
      BY <1>2
    <3> HIDE DEF g, b, t, old
    <3>3. ~Clashes(t, AddPayment(p)) => Behind(g, old, b, Done(t, AddPayment(p)))
      BY <1>1, <1>2, <3>1, <3>2, PaymentComes
    <3> QED  BY <3>1, <3>3, Kinds
  <2>2. CASE \E r \in g.reservations \ todo.reservations :
          script = <<Reserving(r)>> /\ Behind(g, [old EXCEPT !.reservations = @ \cup {r}], b, t)
    <3>1. PICK r \in g.reservations \ todo.reservations :
            script = <<Reserving(r)>> /\ Behind(g, [old EXCEPT !.reservations = @ \cup {r}], b, t)
      BY <2>2
    <3>2. r \in g.reservations /\ r \notin old.reservations
      BY <1>2
    <3> HIDE DEF g, b, t, old
    <3>3. ~Clashes(t, Reserving(r)) => Behind(g, old, b, Done(t, Reserving(r)))
      BY <1>1, <1>2, <3>1, <3>2, ReservationComes
    <3> QED  BY <3>1, <3>3, Kinds
  <2>3. CASE \E l \in g.locks \ todo.locks :
          script = <<LockCoin(l)>> /\ Behind(g, [old EXCEPT !.locks = @ \cup {l}], b, t)
    <3>1. PICK l \in g.locks \ todo.locks :
            script = <<LockCoin(l)>> /\ Behind(g, [old EXCEPT !.locks = @ \cup {l}], b, t)
      BY <2>3
    <3>2. l \in g.locks /\ l \notin old.locks
      BY <1>2
    <3> HIDE DEF g, b, t, old
    <3>3. Behind(g, old, b, Done(t, LockCoin(l)))
      BY <1>1, <1>2, <3>1, <3>2, LockComes
    <3> QED  BY <3>1, <3>3, Kinds
  <2> QED  BY <2>1, <2>2, <2>3 DEF RestoringRow
<1>4. Head(script) = s /\ Tail(script) = <<>>
  BY <1>3, Scripts
<1>5. /\ ~Leave /\ ~Clashes(t, s) /\ tables'[at] = Done(t, s)
      /\ script' = <<>> /\ UNCHANGED <<backup, at, todo, saved, failed>>
  BY <1>3, <1>4, PlainStatement
<1>6. Behind(g, old, b, tables'[at])
  BY <1>3, <1>5
<1>7. tables'[at] \in TableSet
  BY <1>6 DEF Behind
<1>8. Scope'
  <2>1. Len(saved') \in 1 .. 2
    BY <1>5
  <2> QED  BY <1>5, <1>7, <2>1, InnerScope
<1>9. RestoringRow(g, b, t)' /\ Len(saved') = 1
  <2> HIDE DEF g
  <2>1. g' = g
    BY <1>5 DEF g
  <2> QED  BY <1>5, <1>6, <2>1 DEF RestoringRow, Pending
<1>10. Remaining(g)'
  BY <1>5 DEF Remaining
<1> QED  BY <1>5, <1>8, <1>9, <1>10 DEF Restoring

LEMMA RestoringStep ==
  ASSUME Scope, Inner, BackupOK, Consistent(saved[1]), Restoring(saved[1], tables[at])
  PROVE  (Leave => Len(saved) = 2) /\ Scope' /\ Restoring(saved[1], tables[at])'
<1>1. PICK o \in Owners :
        /\ Remaining(Restored(backup, o))
        /\ \/ CreatingFirst(Restored(backup, o), saved[1], tables[at])
           \/ Flagging(Restored(backup, o), saved[1], tables[at])
           \/ Len(saved) = 1 /\ RestoringRow(Restored(backup, o), saved[1], tables[at])
  BY DEF Restoring
<1>2. backup \in BackupSet /\ Consistent(Restored(backup, o))
  BY DEF BackupOK
<1>3. CASE CreatingFirst(Restored(backup, o), saved[1], tables[at])
  BY <1>1, <1>2, <1>3, CreatingFirstStep
<1>4. CASE Flagging(Restored(backup, o), saved[1], tables[at])
  BY <1>1, <1>2, <1>4, FlaggingStep
<1>5. CASE Len(saved) = 1 /\ RestoringRow(Restored(backup, o), saved[1], tables[at])
  <2>1. CASE script = <<>>
    <3>1. Behind(Restored(backup, o), Pending(Restored(backup, o)), saved[1], tables[at])
      BY <1>5, <2>1, Scripts DEF RestoringRow
    <3> QED  BY <1>1, <1>2, <1>5, <2>1, <3>1, RestoringRound
  <2>2. CASE script # <<>>
    BY <1>1, <1>2, <1>5, <2>2, RestoringStatement
  <2> QED  BY <2>1, <2>2
<1> QED  BY <1>1, <1>3, <1>4, <1>5

\* A step inside a transaction keeps the invariant and what is committed.
LEMMA InnerStep ==
  ASSUME IInv, Inner  PROVE IInv' /\ Committed' = Committed /\ backup' = backup
<1> DEFINE b == saved[1]
           t == tables[at]
<1>1. Scope /\ BackupOK /\ at \in Vaults /\ Consistent(Committed[at])
  BY Base DEF IInv
<1>2. Committed[at] = b
  BY <1>1 DEF Committed
<1>3. Running /\ Underway
  BY DEF IInv, Inner, Enter, Leave, Statement, Ahead, Rounds, WalletRound, AddressRound,
         PaymentRound, ReservationRound, LockRound, Round
<1>4. (Leave => Len(saved) = 2) /\ Scope' /\ Underway'
  <2>1. CASE Creating(b, t)
    BY <1>1, <2>1, CreatingStep DEF Underway
  <2>2. CASE Adding(b, t)
    BY <1>1, <2>2, AddingStep DEF Underway
  <2>3. CASE Reserves(b, t)
    BY <1>1, <2>3, ReservesStep DEF Underway
  <2>4. CASE Locking(b, t)
    BY <1>1, <2>4, LockingStep DEF Underway
  <2>5. CASE Restoring(b, t)
    BY <1>1, <1>2, <2>5, RestoringStep DEF Underway
  <2> QED  BY <1>3, <2>1, <2>2, <2>3, <2>4, <2>5 DEF Underway
<1>5. Committed' = Committed
  BY <1>1, <1>4, InnerCommitted
<1>6. backup' = backup
  BY <1>1, <1>4, InnerMoves
<1>7. BackupOK'
  BY <1>1, <1>6 DEF BackupOK
<1> QED  BY <1>4, <1>5, <1>6, <1>7 DEF IInv


-----------------------------------------------------------------------------
\* BEGIN, and the operations that open a transaction.

LEMMA RunStarts ==
  ASSUME IInv, NEW v \in Vaults, NEW steps, NEW loops, Run(v, steps, loops)
  PROVE  /\ Committed' = Committed /\ Scope' /\ BackupOK' /\ backup' = backup
         /\ tables'[at'] = tables[v] /\ saved'[1] = tables[v] /\ Len(saved') = 1
         /\ script' = steps /\ todo' = loops
         /\ tables[v] \in TableSet /\ Consistent(tables[v]) /\ Committed[v] = tables[v]
<1>1. /\ at = "none" /\ at' = v /\ saved' = <<tables[v]>> /\ script' = steps /\ todo' = loops
      /\ tables' = tables /\ backup' = backup /\ failed' = failed /\ ~failed
      /\ v # "none"
  BY VaultsAssumption DEF Run, Idle, IInv, Scope
<1>2. tables \in [Vaults -> TableSet] /\ tables[v] \in TableSet
  BY DEF IInv, Scope
<1>3. Committed = tables
  BY <1>1, <1>2, VaultsAssumption DEF Committed
<1>4. saved' \in Seq(TableSet) /\ saved'[1] = tables[v] /\ Len(saved') = 1
  BY <1>1, <1>2
<1>5. Committed' = tables
  BY <1>1, <1>2, <1>4 DEF Committed
<1>6. Scope'
  BY <1>1, <1>2, <1>4 DEF Scope, IInv
<1>7. BackupOK'
  BY <1>1 DEF IInv, BackupOK
<1> QED  BY <1>1, <1>2, <1>3, <1>4, <1>5, <1>6, <1>7 DEF IInv

LEMMA Opened ==
  ASSUME IInv, NEW v \in Vaults, NEW steps, NEW loops, Run(v, steps, loops), Underway'
  PROVE  IInv' /\ Committed' = Committed /\ backup' = backup
<1>1. /\ Committed' = Committed /\ Scope' /\ BackupOK' /\ backup' = backup
  BY RunStarts
<1> QED  BY <1>1 DEF IInv

LEMMA CreateStarts ==
  ASSUME IInv, NEW v \in Vaults, Create(v)
  PROVE  IInv' /\ Committed' = Committed /\ backup' = backup
<1>1. PICK w \in V!Wallets \ tables[v].wallets, k \in Keys \ Used :
        Run(v, <<NewWallet(w), AddAddress(k, w, FALSE)>>, V!Empty)
  BY DEF Create
<1>2. /\ tables'[at'] = tables[v] /\ saved'[1] = tables[v] /\ Len(saved') = 1
      /\ script' = <<NewWallet(w), AddAddress(k, w, FALSE)>> /\ todo' = V!Empty
  BY <1>1, RunStarts
<1>3. \A a \in tables[v].addresses : a.key # k
  <2>1. V!AllKeys(tables[v]) \in {V!AllKeys(tables[u]) : u \in Vaults}
    OBVIOUS
  <2>2. k \notin V!AllKeys(tables[v])
    BY <1>1, <2>1 DEF Used
  <2> QED  BY <2>2 DEF V!AllKeys
<1>4. Creating(saved[1], tables[at])'
  BY <1>1, <1>2, <1>3 DEF Creating, NewWallet, AddAddress
<1> QED  BY <1>1, <1>4, Opened DEF Underway

LEMMA AddKeyStarts ==
  ASSUME IInv, NEW v \in Vaults, AddKey(v)
  PROVE  IInv' /\ Committed' = Committed /\ backup' = backup
<1>1. PICK w \in tables[v].wallets, k \in Keys, rescan \in BOOLEAN :
        Run(v, <<AddAddress(k, w, rescan)>>, V!Empty)
  BY DEF AddKey
<1>2. /\ tables'[at'] = tables[v] /\ saved'[1] = tables[v] /\ Len(saved') = 1
      /\ script' = <<AddAddress(k, w, rescan)>> /\ todo' = V!Empty
  BY <1>1, RunStarts
<1>3. Adding(saved[1], tables[at])'
  BY <1>1, <1>2 DEF Adding, AddAddress
<1> QED  BY <1>1, <1>3, Opened DEF Underway

LEMMA ReserveStarts ==
  ASSUME IInv, NEW v \in Vaults, Reserve(v)
  PROVE  IInv' /\ Committed' = Committed /\ backup' = backup
<1>1. PICK w \in tables[v].wallets, id \in Ids :
        /\ \A u \in Vaults : \A p \in tables[u].outgoing : p.id # id
        /\ \E inputs \in (SUBSET CoinsOf(v, w)) \ {{}} :
             Run(v, <<AddPayment(V!Payment(id, w, inputs))>>,
                 [V!Empty EXCEPT !.reservations = ReservationsOf(id, inputs)])
  BY DEF Reserve
<1>2. PICK inputs \in SUBSET CoinsOf(v, w) :
        Run(v, <<AddPayment(V!Payment(id, w, inputs))>>,
            [V!Empty EXCEPT !.reservations = ReservationsOf(id, inputs)])
  BY <1>1
<1> DEFINE p == V!Payment(id, w, inputs)
           all == ReservationsOf(id, inputs)
<1>3. /\ tables'[at'] = tables[v] /\ saved'[1] = tables[v] /\ Len(saved') = 1
      /\ script' = <<AddPayment(p)>> /\ todo' = [V!Empty EXCEPT !.reservations = all]
  BY <1>2, RunStarts
<1>4. /\ p.id = id /\ p.wallet = w /\ p.inputs = inputs
      /\ p \in [id : Ids, wallet : tables[v].wallets, inputs : SUBSET Coins]
  BY <1>1, <1>2 DEF V!Payment, CoinsOf
<1>5. \A c \in inputs : \E a \in tables[v].addresses : a.wallet = w /\ a.key = KeyOf[c]
  BY <1>2 DEF CoinsOf, V!KeysOf
<1>6. /\ todo'.reservations = all
      /\ todo' = [V!Empty EXCEPT !.reservations = todo'.reservations]
  BY <1>3 DEF V!Empty
<1>7. \A q \in tables[v].outgoing : q.id # id
  BY <1>1
<1> HIDE DEF p, all
<1>8. all = ReservationsOf(p.id, p.inputs)
  BY <1>4 DEF all
<1>9. Reserves(saved[1], tables[at])'
  <2>1. p \in [id : Ids, wallet : saved'[1].wallets, inputs : SUBSET Coins]
    BY <1>3, <1>4
  <2>2. /\ Len(saved') = 1
        /\ \A q \in saved'[1].outgoing : q.id # p.id
        /\ \A c \in p.inputs : \E a \in saved'[1].addresses : a.wallet = p.wallet /\ a.key = KeyOf[c]
    BY <1>3, <1>4, <1>5, <1>7
  <2>3. todo'.reservations \subseteq ReservationsOf(p.id, p.inputs)
    BY <1>6, <1>8
  <2>4. script' = <<AddPayment(p)>> /\ todo'.reservations = ReservationsOf(p.id, p.inputs)
        /\ tables'[at'] = saved'[1]
    BY <1>3, <1>6, <1>8
  <2> QED  BY <1>6, <2>1, <2>2, <2>3, <2>4 DEF Reserves
<1> QED  BY <1>2, <1>9, Opened DEF Underway

LEMMA LockStarts ==
  ASSUME IInv, NEW v \in Vaults, LockCoins(v)
  PROVE  IInv' /\ Committed' = Committed /\ backup' = backup
<1>1. PICK w \in tables[v].wallets, coins \in SUBSET Coins :
        Run(v, <<>>, [V!Empty EXCEPT !.locks = {w} \X coins])
  BY DEF LockCoins
<1> DEFINE all == {w} \X coins
<1>2. /\ tables'[at'] = tables[v] /\ saved'[1] = tables[v] /\ Len(saved') = 1
      /\ script' = <<>> /\ todo' = [V!Empty EXCEPT !.locks = all] /\ tables[v] \in TableSet
  BY <1>1, RunStarts
<1>3. todo'.locks = all /\ todo' = [V!Empty EXCEPT !.locks = todo'.locks]
  <2> HIDE DEF all
  <2> QED  BY <1>2 DEF V!Empty
<1>4. LocksButFor(tables[v], w, coins, all) = tables[v]
  <2> HIDE DEF all
  <2>1. [tables[v] EXCEPT !.locks = @ \cup (all \ all)] = tables[v]
    BY <1>2 DEF TableSet
  <2> QED  BY <2>1 DEF LocksButFor, all
<1>5. tables'[at'] = LocksButFor(saved[1], w, coins, todo.locks)'
  BY <1>2, <1>3, <1>4
<1>6. Locking(saved[1], tables[at])'
  <2>1. w \in saved'[1].wallets /\ Len(saved') = 1 /\ script' = <<>> /\ todo'.locks \subseteq {w} \X coins
    BY <1>2, <1>3
  <2> QED  BY <1>3, <1>5, <2>1 DEF Locking
<1> QED  BY <1>1, <1>6, Opened DEF Underway

LEMMA AllLeft ==
  ASSUME NEW g \in TableSet, NEW b \in TableSet, KeysOnce(b)  PROVE Behind(g, g, b, b)
BY DEF Behind, WalletsBehind, AddressesBehind, PaymentsBehind, ReservationsBehind, LocksBehind

LEMMA RestoreStarts ==
  ASSUME IInv, NEW v \in Vaults, Restore(v)
  PROVE  IInv' /\ Committed' = Committed /\ backup' = backup
<1>1. PICK o \in Owners : Run(v, <<>>, [Restored(backup, o) EXCEPT !.addresses = {}])
  BY DEF Restore
<1> DEFINE g == Restored(backup, o)
           left == [g EXCEPT !.addresses = {}]
<1>2. /\ tables'[at'] = tables[v] /\ saved'[1] = tables[v] /\ Len(saved') = 1 /\ backup' = backup
      /\ script' = <<>> /\ todo' = left /\ tables[v] \in TableSet /\ Consistent(tables[v])
  BY <1>1, RunStarts
<1>3. Consistent(g) /\ g \in TableSet
  BY DEF IInv, BackupOK, Consistent
<1>4. g' = g
  BY <1>2
<1> HIDE DEF g
<1>5. /\ left \in TableSet /\ left.wallets = g.wallets /\ left.addresses = {}
      /\ left.outgoing = g.outgoing /\ left.reservations = g.reservations /\ left.locks = g.locks
  BY <1>3 DEF TableSet
<1>6. {a \in g.addresses : a.wallet \in g.wallets} = g.addresses
  BY <1>3 DEF Consistent, WalletsKeyed
<1>7. Remaining(g)'
  <2> HIDE DEF left
  <2> QED  BY <1>2, <1>4, <1>5 DEF Remaining
<1> DEFINE new == Pending(g)'
<1>8. /\ new.wallets = g.wallets /\ new.addresses = g.addresses /\ new.outgoing = g.outgoing
      /\ new.reservations = g.reservations /\ new.locks = g.locks
  <2>1. new = [todo' EXCEPT !.addresses = @ \cup {a \in g.addresses : a.wallet \in todo'.wallets}]
    BY <1>4 DEF Pending
  <2>2. {a \in g.addresses : a.wallet \in todo'.wallets} = g.addresses
    BY <1>2, <1>5, <1>6
  <2>3. new = [left EXCEPT !.addresses = @ \cup g.addresses]
    BY <1>2, <2>1, <2>2
  <2> HIDE DEF left, new
  <2> QED  BY <1>5, <2>3 DEF TableSet
<1>9. Behind(g, new, tables[v], tables[v])
  <2> HIDE DEF new
  <2>1. Behind(g, g, tables[v], tables[v])
    BY <1>2, <1>3, AllLeft DEF Consistent
  <2> QED  BY <1>8, <2>1, SameRows
<1>10. Restoring(saved[1], tables[at])'
  <2>1. RestoringRow(g, saved[1], tables[at])'
    BY <1>2, <1>4, <1>9 DEF RestoringRow
  <2> QED  BY <1>2, <1>7, <2>1 DEF Restoring, g
<1> QED  BY <1>1, <1>10, Opened DEF Underway


-----------------------------------------------------------------------------
\* A backup, and the ends of a transaction.

LEMMA BackupStep ==
  ASSUME IInv, NEW v \in Vaults, MakeBackup(v)
  PROVE  IInv' /\ V!Backup(v)
<1>1. PICK o \in Owners : backup' = V!Payload(tables[v], o)
  BY DEF MakeBackup
<1>2. /\ Idle /\ UNCHANGED <<tables, at, script, todo, saved, failed>>
  BY DEF MakeBackup
<1>3. tables[v] = Committed[v]
  BY <1>2, VaultsAssumption DEF Committed, Idle
<1>4. Consistent(tables[v]) /\ tables[v] \in TableSet
  BY <1>3 DEF IInv, Consistent
<1>5. BackupOK'
  <2>1. backup' \in BackupSet
    BY <1>1, <1>4, PayloadType
  <2>2. \A n \in Owners : Consistent(Restored(backup', n))
    BY <1>1, <1>4, BackupIsConsistent
  <2> QED  BY <2>1, <2>2 DEF BackupOK
<1>6. Committed' = Committed
  BY <1>2 DEF Committed
<1>7. Scope' /\ ~Running'
  BY <1>2 DEF Scope, IInv, Running, Idle
<1>8. V!Backup(v)
  BY <1>1, <1>3, <1>6 DEF V!Backup
<1> QED  BY <1>5, <1>6, <1>7, <1>8 DEF IInv

LEMMA FailStep ==
  ASSUME IInv, Fail  PROVE IInv' /\ Committed' = Committed /\ backup' = backup
<1>1. /\ failed' = TRUE /\ script' = <<>> /\ todo' = V!Empty /\ at # "none"
      /\ UNCHANGED <<tables, backup, at, saved>>
  BY DEF Fail, Running, Idle
<1>2. Committed' = Committed
  BY <1>1 DEF Committed
<1>3. Scope'
  BY <1>1 DEF Scope, IInv
<1>4. BackupOK' /\ ~Running'
  BY <1>1 DEF IInv, BackupOK, Running
<1> QED  BY <1>1, <1>2, <1>3, <1>4 DEF IInv

LEMMA UnwindStep ==
  ASSUME IInv, Unwind  PROVE IInv' /\ Committed' = Committed /\ backup' = backup
<1>1. /\ failed = TRUE /\ at \in Vaults /\ at # "none" /\ script = <<>> /\ todo = V!Empty
      /\ tables \in [Vaults -> TableSet] /\ saved \in Seq(TableSet) /\ Len(saved) \in 1 .. 2
  BY VaultsAssumption DEF IInv, Scope, Unwind
<1>2. /\ tables' = [tables EXCEPT ![at] = saved[Len(saved)]]
      /\ saved' = SubSeq(saved, 1, Len(saved) - 1)
      /\ backup' = backup /\ script' = script /\ todo' = todo
  BY DEF Unwind
<1>3. tables' \in [Vaults -> TableSet]
  <2>1. Len(saved) \in 1 .. Len(saved)
    BY <1>1
  <2>2. saved[Len(saved)] \in TableSet
    BY <1>1, <2>1, ElementOfSeq
  <2> QED  BY <1>1, <1>2, <2>2
<1>4. BackupOK'
  BY <1>2 DEF IInv, BackupOK
<1>5. CASE Len(saved) = 1
  <2>1. at' = "none" /\ failed' = FALSE
    BY <1>5 DEF Unwind
  <2>2. saved' = <<>>
    BY <1>1, <1>2, <1>5
  <2>3. Committed' = Committed
    BY <1>1, <1>2, <1>3, <1>5, <2>1, VaultsAssumption DEF Committed
  <2>4. Scope' /\ ~Running'
    <3>1. saved' \in Seq(TableSet)
      BY <2>2
    <3> QED  BY <1>1, <1>2, <1>3, <2>1, <2>2, <3>1 DEF Scope, Running, Idle
  <2> QED  BY <1>2, <1>4, <2>3, <2>4 DEF IInv
<1>6. CASE Len(saved) = 2
  <2>1. at' = at /\ failed' = failed
    BY <1>6 DEF Unwind
  <2>2. saved' = SubSeq(saved, 1, 1)
    BY <1>2, <1>6
  <2>3. saved' \in Seq(TableSet) /\ Len(saved') = 1 /\ saved'[1] = saved[1]
    BY <1>1, <2>2, SubSeqProperties
  <2>4. Committed' = Committed
    BY <1>1, <1>2, <2>1, <2>3 DEF Committed
  <2>5. Scope' /\ ~Running'
    BY <1>1, <1>2, <1>3, <2>1, <2>3 DEF Scope, Running, Idle
  <2> QED  BY <1>2, <1>4, <2>4, <2>5 DEF IInv
<1> QED  BY <1>1, <1>5, <1>6

LEMMA CrashStep ==
  ASSUME IInv, Crash  PROVE IInv' /\ Committed' = Committed /\ backup' = backup
<1>1. /\ tables' = Committed /\ at' = "none" /\ saved' = <<>> /\ failed' = FALSE
      /\ script' = <<>> /\ todo' = V!Empty /\ backup' = backup
  BY DEF Crash
<1>2. Committed \in [Vaults -> TableSet]
  <2>1. \A v \in Vaults : Committed[v] \in TableSet
    BY DEF IInv, Consistent
  <2> QED  BY <2>1 DEF Committed
<1>3. Committed' = Committed
  <2>1. Committed' = [v \in Vaults |-> Committed[v]]
    BY <1>1, VaultsAssumption DEF Committed
  <2> QED  BY <1>2, <2>1
<1>4. Scope' /\ ~Running'
  <2>1. saved' \in Seq(TableSet)
    BY <1>1
  <2> QED  BY <1>1, <1>2, <2>1 DEF Scope, Running, Idle
<1>5. BackupOK'
  BY <1>1 DEF IInv, BackupOK
<1> QED  BY <1>1, <1>3, <1>4, <1>5 DEF IInv


-----------------------------------------------------------------------------
\* COMMIT: what is committed then is consistent, and an operation of Vault.

\* A row of a wallet that nothing else has.
LEMMA RowIsConsistent ==
  ASSUME NEW b, Consistent(b), NEW t \in TableSet, NEW w, NEW row,
         row.wallet = w, \A a \in b.addresses : a.key # row.key,
         w \in t.wallets, b.wallets \subseteq t.wallets, t.wallets \subseteq b.wallets \cup {w},
         t.addresses = b.addresses \cup {row},
         t.outgoing = b.outgoing, t.reservations = b.reservations, t.locks = b.locks
  PROVE  Consistent(t)
<1>1. KeysOnce(t)
  BY DEF Consistent, KeysOnce
<1>2. WalletsKeyed(t)
  BY DEF Consistent, WalletsKeyed
<1>3. InputsKeyed(t)
  BY DEF Consistent, InputsKeyed
<1>4. IdsOnce(t) /\ ReservationsOfInputs(t) /\ InputsOnce(t)
  BY DEF Consistent, IdsOnce, ReservationsOfInputs, InputsOnce
<1>5. LocksOfWallets(t)
  BY DEF Consistent, LocksOfWallets
<1> QED  BY <1>1, <1>2, <1>3, <1>4, <1>5 DEF Consistent

\* What a commit does.
LEMMA Commits ==
  ASSUME IInv, Commit
  PROVE  /\ at \in Vaults /\ script = <<>> /\ todo = V!Empty /\ Underway /\ backup' = backup
         /\ saved[1] = Committed[at] /\ Consistent(Committed[at]) /\ tables[at] \in TableSet
         /\ Committed' = [Committed EXCEPT ![at] = tables[at]]
         /\ Scope' /\ BackupOK' /\ ~Running'
<1>1. Running /\ script = <<>> /\ todo = V!Empty /\ at # "none" /\ ~failed
  BY DEF Commit, Running, Idle
<1>2. at \in Vaults /\ tables \in [Vaults -> TableSet]
  BY <1>1 DEF IInv, Scope
<1>3. at' = "none" /\ saved' = <<>> /\ UNCHANGED <<tables, backup, script, todo, failed>>
  BY DEF Commit
<1>4. saved[1] = Committed[at]
  BY <1>2 DEF Committed
<1>5. Committed' = [Committed EXCEPT ![at] = tables[at]]
  BY <1>2, <1>3, VaultsAssumption DEF Committed
<1>6. Scope' /\ ~Running'
  <2>1. saved' \in Seq(TableSet)
    BY <1>3
  <2>2. failed' = FALSE /\ script' = <<>> /\ todo' = V!Empty /\ tables' \in [Vaults -> TableSet]
    BY <1>1, <1>2, <1>3 DEF IInv, Scope
  <2> QED  BY <1>3, <2>1, <2>2 DEF Scope, Running, Idle
<1>7. BackupOK'
  BY <1>3 DEF IInv, BackupOK
<1> QED  BY <1>1, <1>2, <1>3, <1>4, <1>5, <1>6, <1>7 DEF IInv

LEMMA CreatingCommits ==
  ASSUME IInv, Commit, Creating(saved[1], tables[at])
  PROVE  Consistent(tables[at]) /\ V!Create(at)
<1> DEFINE b == Committed[at]
           t == tables[at]
<1>1. /\ script = <<>> /\ b = saved[1] /\ Consistent(b) /\ at \in Vaults
      /\ Committed' = [Committed EXCEPT ![at] = t] /\ backup' = backup
  BY Commits
<1>2. PICK w \in V!Wallets \ b.wallets, k \in Keys :
        (\A a \in b.addresses : a.key # k) /\ t = Created(b, w, k)
  BY <1>1, Scripts DEF Creating
<1>3. t = [b EXCEPT !.wallets = @ \cup {w}, !.addresses = @ \cup {V!Address(k, w, FALSE)}]
  BY <1>2 DEF Created
<1> HIDE DEF b, t
<1>4. Consistent(t)
  <2> DEFINE row == V!Address(k, w, FALSE)
  <2>1. b \in TableSet
    BY <1>1 DEF Consistent
  <2>2. row \in [key : Keys, wallet : V!Wallets, rescan : BOOLEAN] /\ row.key = k /\ row.wallet = w
    BY DEF V!Address
  <2>3. t = [b EXCEPT !.wallets = @ \cup {w}, !.addresses = @ \cup {row}]
    BY <1>3
  <2> HIDE DEF row
  <2>4. t \in TableSet
    BY <2>1, <2>2, <2>3 DEF TableSet
  <2>5. t.wallets = b.wallets \cup {w} /\ t.addresses = b.addresses \cup {row}
    BY <2>1, <2>3 DEF TableSet
  <2>6. t.outgoing = b.outgoing /\ t.reservations = b.reservations /\ t.locks = b.locks
    BY <2>1, <2>3 DEF TableSet
  <2> QED  BY <1>1, <1>2, <2>2, <2>4, <2>5, <2>6, RowIsConsistent
<1>5. k \in Keys \ V!AllKeys(b)
  BY <1>2 DEF V!AllKeys
<1>6. V!Create(at)
  BY <1>1, <1>2, <1>3, <1>5 DEF V!Create, V!Become, b, t
<1> QED  BY <1>4, <1>6 DEF t

LEMMA AddingCommits ==
  ASSUME IInv, Commit, Adding(saved[1], tables[at])
  PROVE  Consistent(tables[at]) /\ (V!AddKey(at) \/ UNCHANGED <<Committed, backup>>)
<1> DEFINE b == Committed[at]
           t == tables[at]
<1>1. /\ script = <<>> /\ b = saved[1] /\ Consistent(b) /\ at \in Vaults
      /\ Committed' = [Committed EXCEPT ![at] = t] /\ backup' = backup
  BY Commits
<1>2. CASE t = b
  BY <1>1, <1>2 DEF Committed
<1>3. CASE t # b
  <2>1. PICK w \in b.wallets, k \in Keys, rescan \in BOOLEAN :
          (\A a \in b.addresses : a.key # k) /\ t = Added(b, w, k, rescan)
    BY <1>1, <1>3, Scripts DEF Adding
  <2>2. t = [b EXCEPT !.addresses = @ \cup {V!Address(k, w, rescan)}]
    BY <2>1 DEF Added
  <2> HIDE DEF b, t
  <2>3. Consistent(t)
    <3>1. b \in TableSet
      BY <1>1 DEF Consistent
    <3> DEFINE row == V!Address(k, w, rescan)
    <3>2. w \in V!Wallets
      BY <2>1, <3>1 DEF TableSet
    <3>3. row \in [key : Keys, wallet : V!Wallets, rescan : BOOLEAN] /\ row.key = k /\ row.wallet = w
      BY <3>2 DEF V!Address
    <3>4. t = [b EXCEPT !.addresses = @ \cup {row}]
      BY <2>2
    <3> HIDE DEF row
    <3>5. t \in TableSet /\ t.wallets = b.wallets /\ t.addresses = b.addresses \cup {row}
      BY <3>1, <3>3, <3>4 DEF TableSet
    <3>6. t.outgoing = b.outgoing /\ t.reservations = b.reservations /\ t.locks = b.locks
      BY <3>1, <3>4 DEF TableSet
    <3> QED  BY <1>1, <2>1, <3>3, <3>5, <3>6, RowIsConsistent
  <2>4. k \in Keys \ V!AllKeys(b)
    BY <2>1 DEF V!AllKeys
  <2>5. V!AddKey(at)
    BY <1>1, <2>1, <2>2, <2>4 DEF V!AddKey, V!Become, b, t
  <2> QED  BY <2>3, <2>5 DEF t
<1> QED  BY <1>2, <1>3


LEMMA PaymentIsConsistent ==
  ASSUME NEW b, Consistent(b), NEW p \in [id : Ids, wallet : b.wallets, inputs : SUBSET Coins],
         \A q \in b.outgoing : q.id # p.id,
         \A c \in p.inputs : \E a \in b.addresses : a.wallet = p.wallet /\ a.key = KeyOf[c],
         \A r \in ReservationsOf(p.id, p.inputs), q \in b.reservations : r.coin # q.coin,
         NEW t \in TableSet, t.wallets = b.wallets, t.addresses = b.addresses,
         t.outgoing = b.outgoing \cup {p},
         t.reservations = b.reservations \cup ReservationsOf(p.id, p.inputs), t.locks = b.locks
  PROVE  Consistent(t)
<1>1. b \in TableSet /\ \A q \in b.outgoing : q.id \in Ids /\ q.inputs \subseteq Coins
  BY DEF Consistent, TableSet
<1>2. KeysOnce(t) /\ WalletsKeyed(t) /\ LocksOfWallets(t)
  BY DEF Consistent, KeysOnce, WalletsKeyed, LocksOfWallets
<1>3. InputsKeyed(t)
  BY DEF Consistent, InputsKeyed
<1>4. IdsOnce(t)
  BY DEF Consistent, IdsOnce
<1>5. \A c \in Coins, id \in Ids :
        [coin |-> c, id |-> id] \in ReservationsOf(p.id, p.inputs) <=> p.id = id /\ c \in p.inputs
  BY DEF ReservationsOf
<1>6. ReservationsOfInputs(t)
  <2> SUFFICES ASSUME NEW c \in Coins, NEW id \in Ids
               PROVE  [coin |-> c, id |-> id] \in t.reservations
                        <=> \E q \in t.outgoing : q.id = id /\ c \in q.inputs
    BY DEF ReservationsOfInputs
  <2>1. [coin |-> c, id |-> id] \in b.reservations <=> \E q \in b.outgoing : q.id = id /\ c \in q.inputs
    BY DEF Consistent, ReservationsOfInputs
  <2> QED  BY <1>5, <2>1
<1>7. \A q \in b.outgoing : \A c \in p.inputs : c \notin q.inputs
  <2> SUFFICES ASSUME NEW q \in b.outgoing, NEW c \in p.inputs, c \in q.inputs  PROVE FALSE
    OBVIOUS
  <2>1. c \in Coins /\ q.id \in Ids
    BY <1>1
  <2>2. [coin |-> c, id |-> q.id] \in b.reservations
    BY <2>1 DEF Consistent, ReservationsOfInputs
  <2>3. [coin |-> c, id |-> p.id] \in ReservationsOf(p.id, p.inputs)
    BY DEF ReservationsOf
  <2>4. [coin |-> c, id |-> p.id].coin # [coin |-> c, id |-> q.id].coin
    BY <2>2, <2>3
  <2> QED  BY <2>4
<1>8. InputsOnce(t)
  <2> SUFFICES ASSUME NEW x \in t.outgoing, NEW y \in t.outgoing, NEW c \in x.inputs, c \in y.inputs
               PROVE  x = y
    BY DEF InputsOnce
  <2>1. CASE x \in b.outgoing /\ y \in b.outgoing
    BY <2>1 DEF Consistent, InputsOnce
  <2>2. CASE x = p \/ y = p
    BY <1>7, <2>2
  <2> QED  BY <2>1, <2>2
<1> QED  BY <1>2, <1>3, <1>4, <1>6, <1>8 DEF Consistent

LEMMA ReservesCommits ==
  ASSUME IInv, Commit, Reserves(saved[1], tables[at])
  PROVE  Consistent(tables[at]) /\ V!Reserve(at)
<1> DEFINE b == Committed[at]
           t == tables[at]
<1>1. /\ script = <<>> /\ b = saved[1] /\ Consistent(b) /\ at \in Vaults /\ todo.reservations = {}
      /\ Committed' = [Committed EXCEPT ![at] = t] /\ backup' = backup /\ t \in TableSet
  BY Commits DEF V!Empty
<1>2. PICK p \in [id : Ids, wallet : b.wallets, inputs : SUBSET Coins] :
        /\ \A q \in b.outgoing : q.id # p.id
        /\ \A c \in p.inputs : \E a \in b.addresses : a.wallet = p.wallet /\ a.key = KeyOf[c]
        /\ Taken(b, t, p, {})
  <2>1. \A x : script # <<x>>
    BY <1>1, Scripts
  <2> HIDE DEF b, t
  <2> QED  BY <1>1, <2>1 DEF Reserves, b, t
<1> HIDE DEF b, t
<1> DEFINE all == ReservationsOf(p.id, p.inputs)
<1>3. /\ t = [Paid(b, p) EXCEPT !.reservations = @ \cup (all \ {})]
      /\ \A r \in all, q \in b.reservations : r.coin # q.coin
  BY <1>2 DEF Taken
<1>4. b \in TableSet
  BY <1>1 DEF Consistent
<1> HIDE DEF all
<1>5. /\ t.wallets = b.wallets /\ t.addresses = b.addresses /\ t.outgoing = b.outgoing \cup {p}
      /\ t.reservations = b.reservations \cup all /\ t.locks = b.locks
  <2>1. Paid(b, p) = [b EXCEPT !.outgoing = @ \cup {p}]
    BY DEF Paid
  <2> DEFINE x == Paid(b, p)
  <2>2. /\ x.wallets = b.wallets /\ x.addresses = b.addresses /\ x.outgoing = b.outgoing \cup {p}
        /\ x.reservations = b.reservations /\ x.locks = b.locks
        /\ x = [wallets |-> x.wallets, addresses |-> x.addresses, outgoing |-> x.outgoing,
                reservations |-> x.reservations, locks |-> x.locks]
    BY <1>4, <2>1 DEF TableSet
  <2>3. t = [x EXCEPT !.reservations = @ \cup all]
    BY <1>3
  <2> HIDE DEF x
  <2> QED  BY <2>2, <2>3
<1>6. Consistent(t)
  <2>1. Consistent(b) /\ t \in TableSet
    BY <1>1
  <2>2. /\ p \in [id : Ids, wallet : b.wallets, inputs : SUBSET Coins]
        /\ \A q \in b.outgoing : q.id # p.id
        /\ \A c \in p.inputs : \E a \in b.addresses : a.wallet = p.wallet /\ a.key = KeyOf[c]
    BY <1>2
  <2>3. \A r \in ReservationsOf(p.id, p.inputs), q \in b.reservations : r.coin # q.coin
    BY <1>3 DEF all
  <2>4. /\ t.wallets = b.wallets /\ t.addresses = b.addresses /\ t.outgoing = b.outgoing \cup {p}
        /\ t.reservations = b.reservations \cup ReservationsOf(p.id, p.inputs) /\ t.locks = b.locks
    BY <1>5 DEF all
  <2> QED  BY <2>1, <2>2, <2>3, <2>4, PaymentIsConsistent
<1> DEFINE id == p.id
           w == p.wallet
           inputs == p.inputs
<1>7. p = V!Payment(id, w, inputs) /\ w \in b.wallets /\ id \in Ids \ {q.id : q \in b.outgoing}
  BY <1>2 DEF V!Payment
<1>8. inputs \in SUBSET {c \in V!Unreserved(b) : KeyOf[c] \in V!KeysOf(b, w)}
  <2> SUFFICES ASSUME NEW c \in inputs
               PROVE  c \in Coins /\ c \notin {r.coin : r \in b.reservations} /\ KeyOf[c] \in V!KeysOf(b, w)
    BY DEF V!Unreserved
  <2>1. c \in Coins
    BY <1>2
  <2>2. KeyOf[c] \in V!KeysOf(b, w)
    BY <1>2 DEF V!KeysOf
  <2>3. [coin |-> c, id |-> id] \in all
    BY DEF all, ReservationsOf
  <2>4. [coin |-> c, id |-> id].coin = c
    OBVIOUS
  <2>5. c \notin {r.coin : r \in b.reservations}
    BY <1>3, <2>3, <2>4
  <2> QED  BY <2>1, <2>2, <2>5
<1>9. t = [b EXCEPT !.outgoing = @ \cup {V!Payment(id, w, inputs)},
                    !.reservations = @ \cup {[coin |-> c, id |-> id] : c \in inputs}]
  <2>1. all = {[coin |-> c, id |-> id] : c \in inputs}
    BY DEF all, ReservationsOf
  <2>2. t = [b EXCEPT !.outgoing = @ \cup {p}, !.reservations = @ \cup all]
    BY <1>1, <1>4, <1>5 DEF TableSet
  <2> HIDE DEF id, w, inputs
  <2> QED  BY <1>7, <2>1, <2>2
<1>10. V!Reserve(at)
  <2> HIDE DEF id, w, inputs
  <2>1. V!Become(at, [b EXCEPT !.outgoing = @ \cup {V!Payment(id, w, inputs)},
                               !.reservations = @ \cup {[coin |-> c, id |-> id] : c \in inputs}])
    BY <1>1, <1>9 DEF V!Become
  <2> QED  BY <1>7, <1>8, <2>1 DEF V!Reserve, b
<1> QED  BY <1>6, <1>10 DEF t

LEMMA LockingCommits ==
  ASSUME IInv, Commit, Locking(saved[1], tables[at])
  PROVE  Consistent(tables[at]) /\ V!Lock(at)
<1> DEFINE b == Committed[at]
           t == tables[at]
<1>1. /\ script = <<>> /\ b = saved[1] /\ Consistent(b) /\ at \in Vaults /\ todo.locks = {}
      /\ Committed' = [Committed EXCEPT ![at] = t] /\ backup' = backup /\ t \in TableSet
  BY Commits DEF V!Empty
<1>2. PICK w \in b.wallets, coins \in SUBSET Coins : t = LocksButFor(b, w, coins, {})
  <2>1. \A x : script # <<x>>
    BY <1>1, Scripts
  <2> HIDE DEF b, t
  <2> QED  BY <1>1, <2>1 DEF Locking, b, t
<1> HIDE DEF b, t
<1> DEFINE all == {w} \X coins
<1>3. t = [b EXCEPT !.locks = @ \cup all]
  <2>1. t = [b EXCEPT !.locks = @ \cup (all \ {})]
    BY <1>2 DEF LocksButFor
  <2> HIDE DEF all
  <2>2. all \ {} = all
    OBVIOUS
  <2> QED  BY <2>1, <2>2
<1>4. b \in TableSet /\ \A l \in all : l[1] = w
  BY <1>1 DEF Consistent
<1>5. V!Lock(at)
  BY <1>1, <1>2, <1>3 DEF V!Lock, V!Become, b, t
<1> HIDE DEF all
<1>6. /\ t.wallets = b.wallets /\ t.addresses = b.addresses /\ t.outgoing = b.outgoing
      /\ t.reservations = b.reservations /\ t.locks = b.locks \cup all
  BY <1>3, <1>4 DEF TableSet
<1>7. KeysOnce(t) /\ WalletsKeyed(t) /\ InputsKeyed(t) /\ IdsOnce(t) /\ InputsOnce(t)
  BY <1>1, <1>6 DEF Consistent, KeysOnce, WalletsKeyed, InputsKeyed, IdsOnce, InputsOnce
<1>8. ReservationsOfInputs(t)
  BY <1>1, <1>6 DEF Consistent, ReservationsOfInputs
<1>9. LocksOfWallets(t)
  BY <1>1, <1>2, <1>4, <1>6 DEF Consistent, LocksOfWallets
<1> QED  BY <1>1, <1>5, <1>7, <1>8, <1>9 DEF Consistent, t

LEMMA RestoringCommits ==
  ASSUME IInv, Commit, Restoring(saved[1], tables[at])
  PROVE  Consistent(tables[at]) /\ V!Restore(at)
<1> DEFINE b == Committed[at]
           t == tables[at]
<1>1. /\ script = <<>> /\ b = saved[1] /\ Consistent(b) /\ at \in Vaults /\ todo = V!Empty
      /\ Committed' = [Committed EXCEPT ![at] = t] /\ backup' = backup /\ t \in TableSet
  BY Commits
<1>2. PICK o \in Owners : Behind(Restored(backup, o), Pending(Restored(backup, o)), b, t)
  <2>1. /\ \A x : script # <<x>>
        /\ \A x, y : script # <<x, y>>
        /\ \A x, y, z : script # <<x, y, z>>
        /\ \A x, y, z, u : script # <<x, y, z, u>>
    BY <1>1, Scripts
  <2>2. PICK o \in Owners :
          \/ CreatingFirst(Restored(backup, o), saved[1], t)
          \/ Flagging(Restored(backup, o), saved[1], t)
          \/ RestoringRow(Restored(backup, o), saved[1], t)
    BY DEF Restoring
  <2>3. ~CreatingFirst(Restored(backup, o), saved[1], t)
    BY <2>1 DEF CreatingFirst
  <2>4. ~Flagging(Restored(backup, o), saved[1], t)
    BY <2>1 DEF Flagging
  <2> QED  BY <1>1, <2>1, <2>2, <2>3, <2>4 DEF RestoringRow
<1> DEFINE g == Restored(backup, o)
           left == Pending(g)
<1>3. Consistent(g) /\ backup \in BackupSet
  BY DEF IInv, BackupOK
<1> HIDE DEF g
<1>4. /\ left.wallets = V!Empty.wallets /\ left.addresses = V!Empty.addresses
      /\ left.outgoing = V!Empty.outgoing /\ left.reservations = V!Empty.reservations
      /\ left.locks = V!Empty.locks
  <2>1. g \in TableSet /\ todo \in TableSet /\ todo.wallets = {} /\ todo.addresses = {}
    BY <1>1, <1>3, EmptyTables DEF Consistent, V!Empty
  <2> QED  BY <1>1, <2>1, PendingRows
<1>5. Behind(g, V!Empty, b, t)
  <2>1. Behind(g, left, b, t)
    BY <1>2 DEF g
  <2> HIDE DEF left, b, t
  <2> QED  BY <1>4, <2>1, SameRows
<1> HIDE DEF b, t
<1>6. Consistent(t)
  BY <1>1, <1>3, <1>5, RestoreIsConsistent
<1>7. /\ backup.accounts \cap V!Payload(b, o).accounts = {}
      /\ {a[1] : a \in backup.addresses} \cap V!AllKeys(b) = {}
      /\ V!Payload(t, o) = V!Both(V!Payload(b, o), backup)
      /\ \A n \in Owners \ {o} : V!Payload(t, n) = V!Payload(b, n)
      /\ \A a \in t.addresses : a \in b.addresses \/ a.rescan
      /\ b.addresses \subseteq t.addresses
  BY <1>1, <1>3, <1>5, RestoreImplements DEF g
<1>8. Committed'[at] = t /\ \A u \in Vaults \ {at} : Committed'[u] = Committed[u]
  BY <1>1 DEF Committed
<1>9. V!Restore(at)
  BY <1>1, <1>7, <1>8 DEF V!Restore, b
<1> QED  BY <1>6, <1>9 DEF t


-----------------------------------------------------------------------------
LEMMA CommitStep ==
  ASSUME IInv, Commit
  PROVE  IInv' /\ (V!Next \/ UNCHANGED <<Committed, backup>>)
<1>1. /\ at \in Vaults /\ Underway /\ Committed' = [Committed EXCEPT ![at] = tables[at]]
      /\ Scope' /\ BackupOK' /\ ~Running'
  BY Commits
<1>2. Consistent(tables[at]) /\ (V!Next \/ UNCHANGED <<Committed, backup>>)
  <2>1. CASE Creating(saved[1], tables[at])
    BY <1>1, <2>1, CreatingCommits DEF V!Next
  <2>2. CASE Adding(saved[1], tables[at])
    BY <1>1, <2>2, AddingCommits DEF V!Next
  <2>3. CASE Reserves(saved[1], tables[at])
    BY <1>1, <2>3, ReservesCommits DEF V!Next
  <2>4. CASE Locking(saved[1], tables[at])
    BY <1>1, <2>4, LockingCommits DEF V!Next
  <2>5. CASE Restoring(saved[1], tables[at])
    BY <1>1, <2>5, RestoringCommits DEF V!Next
  <2> QED  BY <1>1, <2>1, <2>2, <2>3, <2>4, <2>5 DEF Underway
<1>3. \A v \in Vaults : Consistent(Committed'[v])
  <2>1. Committed = [v \in Vaults |-> Committed[v]]
    BY DEF Committed
  <2>2. \A v \in Vaults : Committed'[v] = IF v = at THEN tables[at] ELSE Committed[v]
    BY <1>1, <2>1
  <2> QED  BY <1>2, <2>2 DEF IInv
<1> QED  BY <1>1, <1>2, <1>3 DEF IInv

LEMMA InitIInv ==
  ASSUME Init  PROVE IInv /\ V!Init
<1>1. /\ tables = [v \in Vaults |-> V!Empty] /\ backup = V!NoBackup /\ at = "none" /\ script = <<>>
      /\ todo = V!Empty /\ saved = <<>> /\ failed = FALSE
  BY DEF Init
<1>2. Committed = tables
  BY <1>1, VaultsAssumption DEF Committed
<1>3. Consistent(V!Empty)
  BY EmptyTables DEF Consistent, KeysOnce, WalletsKeyed, InputsKeyed, IdsOnce, ReservationsOfInputs,
                     InputsOnce, LocksOfWallets, V!Empty
<1>4. BackupOK
  <2>1. \A o : Restored(V!NoBackup, o) = V!Empty
    BY DEF Restored, V!NoBackup, V!Empty
  <2>2. V!NoBackup \in BackupSet
    BY DEF V!NoBackup, BackupSet
  <2> QED  BY <1>1, <1>3, <2>1, <2>2 DEF BackupOK
<1>5. Scope /\ ~Running
  <2>1. saved \in Seq(TableSet) /\ tables \in [Vaults -> TableSet]
    BY <1>1, EmptyTables
  <2> QED  BY <1>1, <2>1 DEF Scope, Running, Idle
<1>6. V!Init
  BY <1>1, <1>2 DEF V!Init
<1> QED  BY <1>1, <1>2, <1>3, <1>4, <1>5, <1>6 DEF IInv

LEMMA NextIInv ==
  ASSUME IInv, [Next]_vars
  PROVE  IInv' /\ (V!Next \/ UNCHANGED <<Committed, backup>>)
<1>1. CASE UNCHANGED vars
  <2>1. UNCHANGED <<tables, backup, at, script, todo, saved, failed>>
    BY <1>1 DEF vars
  <2>2. Committed' = Committed
    BY <2>1 DEF Committed
  <2>3. Scope' /\ BackupOK'
    BY <2>1 DEF IInv, Scope, BackupOK
  <2>4. Running' => Underway'
    <3>1. Creating(saved[1], tables[at]) => Creating(saved[1], tables[at])'
      BY <2>1 DEF Creating
    <3>2. Adding(saved[1], tables[at]) => Adding(saved[1], tables[at])'
      BY <2>1 DEF Adding
    <3>3. Reserves(saved[1], tables[at]) => Reserves(saved[1], tables[at])'
      BY <2>1 DEF Reserves
    <3>4. Locking(saved[1], tables[at]) => Locking(saved[1], tables[at])'
      BY <2>1 DEF Locking
    <3>5. Restoring(saved[1], tables[at]) => Restoring(saved[1], tables[at])'
      <4> DEFINE b == saved[1]
                 t == tables[at]
                 g(o) == Restored(backup, o)
      <4>1. b' = b /\ t' = t /\ \A o : g(o)' = g(o)
        BY <2>1
      <4> HIDE DEF b, t, g
      <4>2. \A o : Pending(g(o))' = Pending(g(o))
        BY <2>1, <4>1 DEF Pending
      <4>3. \A o : Remaining(g(o)) => Remaining(g(o))'
        BY <2>1, <4>1 DEF Remaining
      <4>4. \A o : CreatingFirst(g(o), b, t) => CreatingFirst(g(o), b, t)'
        BY <2>1, <4>1, <4>2 DEF CreatingFirst, b
      <4>5. \A o : Flagging(g(o), b, t) => Flagging(g(o), b, t)'
        BY <2>1, <4>1, <4>2 DEF Flagging
      <4>6. \A o : RestoringRow(g(o), b, t) => RestoringRow(g(o), b, t)'
        BY <2>1, <4>1, <4>2 DEF RestoringRow
      <4>7. Restoring(b, t) => Restoring(b, t)'
        BY <2>1, <4>3, <4>4, <4>5, <4>6 DEF Restoring, g
      <4> QED  BY <4>7 DEF b, t
    <3> QED  BY <2>1, <3>1, <3>2, <3>3, <3>4, <3>5 DEF IInv, Running, Idle, Underway
  <2> QED  BY <2>1, <2>2, <2>3, <2>4 DEF IInv
<1>2. ASSUME NEW v \in Vaults, Create(v)  PROVE IInv' /\ UNCHANGED <<Committed, backup>>
  BY <1>2, CreateStarts
<1>3. ASSUME NEW v \in Vaults, AddKey(v)  PROVE IInv' /\ UNCHANGED <<Committed, backup>>
  BY <1>3, AddKeyStarts
<1>4. ASSUME NEW v \in Vaults, Reserve(v)  PROVE IInv' /\ UNCHANGED <<Committed, backup>>
  BY <1>4, ReserveStarts
<1>5. ASSUME NEW v \in Vaults, LockCoins(v)  PROVE IInv' /\ UNCHANGED <<Committed, backup>>
  BY <1>5, LockStarts
<1>6. ASSUME NEW v \in Vaults, Restore(v)  PROVE IInv' /\ UNCHANGED <<Committed, backup>>
  BY <1>6, RestoreStarts
<1>7. ASSUME NEW v \in Vaults, MakeBackup(v)  PROVE IInv' /\ V!Next
  BY <1>7, BackupStep DEF V!Next
<1>8. CASE Inner
  BY <1>8, InnerStep
<1>9. CASE Commit
  BY <1>9, CommitStep
<1>10. CASE Fail
  BY <1>10, FailStep
<1>11. CASE Unwind
  BY <1>11, UnwindStep
<1>12. CASE Crash
  BY <1>12, CrashStep
<1> QED  BY <1>1, <1>2, <1>3, <1>4, <1>5, <1>6, <1>7, <1>8, <1>9, <1>10, <1>11, <1>12
         DEF Next, Inner, Rounds

\* What is committed is consistent in every vault, transactions are in a known place, and any
\* backup can be restored to any namespace.
THEOREM Invariance == Spec => []IInv
<1>1. Init => IInv
  BY InitIInv
<1>2. IInv /\ [Next]_vars => IInv'
  BY NextIInv
<1> QED  BY <1>1, <1>2, PTL DEF Spec

LEMMA ConsistentReservations ==
  ASSUME NEW t, Consistent(t)
  PROVE  /\ {<<r.coin, r.id>> : r \in t.reservations} = UNION {p.inputs \X {p.id} : p \in t.outgoing}
         /\ \A p, q \in t.outgoing : p # q => p.inputs \cap q.inputs = {}
<1>1. t \in TableSet
  BY DEF Consistent
<1>2. /\ \A r \in t.reservations : r.coin \in Coins /\ r.id \in Ids /\ r = [coin |-> r.coin, id |-> r.id]
      /\ \A p \in t.outgoing : p.id \in Ids /\ p.inputs \subseteq Coins
  BY <1>1 DEF TableSet
<1> DEFINE left == {<<r.coin, r.id>> : r \in t.reservations}
           right == UNION {p.inputs \X {p.id} : p \in t.outgoing}
<1>3. ASSUME NEW x \in left  PROVE x \in right
  <2>1. PICK r \in t.reservations : x = <<r.coin, r.id>>
    OBVIOUS
  <2>2. PICK p \in t.outgoing : p.id = r.id /\ r.coin \in p.inputs
    BY <1>2 DEF Consistent, ReservationsOfInputs
  <2>3. x \in p.inputs \X {p.id}
    BY <2>1, <2>2
  <2> QED  BY <2>3
<1>4. ASSUME NEW x \in right  PROVE x \in left
  <2>1. PICK p \in t.outgoing : x \in p.inputs \X {p.id}
    OBVIOUS
  <2>2. PICK c \in p.inputs : x = <<c, p.id>>
    BY <2>1
  <2>3. [coin |-> c, id |-> p.id] \in t.reservations
    BY <1>2 DEF Consistent, ReservationsOfInputs
  <2>4. x = <<[coin |-> c, id |-> p.id].coin, [coin |-> c, id |-> p.id].id>>
    BY <2>2
  <2> QED  BY <2>3, <2>4
<1>5. \A p, q \in t.outgoing : p # q => p.inputs \cap q.inputs = {}
  BY DEF Consistent, InputsOnce
<1> QED  BY <1>3, <1>4, <1>5

\* ReservedOnce: in every vault the reservations are exactly the inputs of its payments, and no
\* coin is the input of two, however operations, restores, failures and crashes follow.
THEOREM SafelyReserved == Spec => []ReservedOnce
<1>1. IInv => ReservedOnce
  BY ConsistentReservations DEF IInv, ReservedOnce
<1> QED  BY <1>1, Invariance, PTL

\* ImplementsVault: every transaction, with its savepoints, loops and rows, is one operation of
\* Vault at its COMMIT and nothing before it, or nothing at all.
THEOREM Implementation == Spec => ImplementsVault
<1>1. Init => V!Init
  BY InitIInv
<1>2. IInv /\ [Next]_vars => [V!Next]_<<Committed, backup>>
  BY NextIInv
<1> QED  BY <1>1, <1>2, Invariance, PTL DEF Spec, V!Spec, ImplementsVault
=============================================================================
