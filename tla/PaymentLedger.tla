--------------------------- MODULE PaymentLedger ---------------------------
(***************************************************************************)
(* What the wallet promises an application that withdraws through it: a    *)
(* request becomes at most one payment, payments never compete for a coin, *)
(* only a durably saved payment is ever published, and what is published   *)
(* and settled is that very payment.  Nothing here expires or is undone.   *)
(***************************************************************************)
EXTENDS FiniteSets

CONSTANTS Wallets, Requests, Forms, Coins

Transaction == [form : Forms, coins : SUBSET Coins]
Payment == [wallet : Wallets, request : Requests, tx : Transaction]

VARIABLES saved, published, settled

Init == saved = {} /\ published = {} /\ settled = {}

\* A new request, spending coins no other payment spends.
Save(p) ==
    /\ p.tx.coins # {}
    /\ \A q \in saved :
        /\ <<q.wallet, q.request>> # <<p.wallet, p.request>>
        /\ q.tx.coins \cap p.tx.coins = {}
    /\ saved' = saved \cup {p}
    /\ UNCHANGED <<published, settled>>

Publish(p) ==
    /\ published' = published \cup {p.tx}
    /\ UNCHANGED <<saved, settled>>

Settle(txs) ==
    /\ settled' = settled \cup txs
    /\ UNCHANGED <<saved, published>>

Next ==
    \/ \E p \in Payment : Save(p)
    \/ \E p \in saved : Publish(p)
    \/ \E txs \in SUBSET published : Settle(txs)

Spec == Init /\ [][Next]_<<saved, published, settled>>
=============================================================================
