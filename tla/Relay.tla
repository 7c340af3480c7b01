------------------------------- MODULE Relay -------------------------------
(***************************************************************************)
(* relay() of a saved payment: broadcastDiscoveredTransaction() offers the *)
(* bytes to a list of distinct public peers, a few at a time, until two of *)
(* them have served the bytes back, and the payment's row gets the state   *)
(* that the outcome stands for.                                            *)
(*                                                                         *)
(* The workers share the cursor into the list and the count of witnesses;  *)
(* each runs on its own between two awaits.  Peers take, lose, keep, gossip*)
(* and return the bytes as they like; a peer can only return bytes it has  *)
(* seen.  A candidate is its position in the list; the duplicates of the   *)
(* discovered addresses are already gone.                                  *)
(***************************************************************************)
EXTENDS Naturals, FiniteSets

CONSTANTS
    MaxPeers,         \* concurrent attempts
    MaxCandidates,    \* the length at which the list is cut
    MinWitnesses      \* MIN_RELAY_WITNESSES

ASSUME SizeAssumption == {MaxPeers, MaxCandidates, MinWitnesses} \subseteq Nat \ {0}

Workers == 1 .. MaxPeers
Candidates == 1 .. MaxCandidates

VARIABLES
    phase,      \* discovering the candidates, relaying, or settled
    count,      \* how many candidates there are
    next,       \* the first one not taken
    sent,       \* how many verified receipt
    pc,         \* what each worker awaits
    at,         \* the candidate it talks to
    row,        \* outgoing.state
    seen,       \* the peers that have received the bytes, from us or from each other
    written,    \* the peers whose socket was given the bytes
    served      \* history: the peers that returned the bytes to the worker they talk to

vars == <<phase, count, next, sent, pc, at, row, seen, written, served>>

Awaits == {"none", "dial", "receipt", "object"}

TypeOK ==
    /\ phase \in {"discovering", "relaying", "settled"}
    /\ count \in 0 .. MaxCandidates
    /\ next \in 1 .. MaxCandidates + 1
    /\ sent \in Nat
    /\ pc \in [Workers -> Awaits]
    /\ at \in [Workers -> Candidates \cup {0}]
    /\ row \in {"queued", "unverified", "relayed"}
    /\ seen \subseteq Candidates /\ written \subseteq Candidates /\ served \subseteq Candidates
    /\ \A w \in Workers : pc[w] = "none" <=> at[w] = 0

Init ==
    /\ phase = "discovering" /\ count = 0 /\ next = 1 /\ sent = 0
    /\ pc = [w \in Workers |-> "none"] /\ at = [w \in Workers |-> 0]
    /\ row \in {"queued", "unverified", "relayed"}
    /\ seen = {} /\ written = {} /\ served = {}

-----------------------------------------------------------------------------
\* The list is never empty: it starts with the preferred archive peers.  Every worker
\* takes its first candidate before any of them awaits.
Discovered ==
    /\ phase = "discovering" /\ phase' = "relaying"
    /\ count' \in Candidates
    /\ LET busy == IF MaxPeers < count' THEN MaxPeers ELSE count'
       IN  /\ pc' = [w \in Workers |-> IF w <= busy THEN "dial" ELSE "none"]
           /\ at' = [w \in Workers |-> IF w <= busy THEN w ELSE 0]
           /\ next' = busy + 1
    /\ UNCHANGED <<sent, row, seen, written, served>>

\* The handshake is complete: the bytes go to the socket, a ping after them.
Connected(w) ==
    /\ pc[w] = "dial"
    /\ pc' = [pc EXCEPT ![w] = "receipt"]
    /\ written' = written \cup {at[w]}
    /\ UNCHANGED <<phase, count, next, sent, at, row, seen, served>>

\* The pong: the peer has processed the bytes, ask for them.
Pong(w) ==
    /\ pc[w] = "receipt"
    /\ pc' = [pc EXCEPT ![w] = "object"]
    /\ UNCHANGED <<phase, count, next, sent, at, row, seen, written, served>>

\* The end of an attempt closes its socket; the worker takes another candidate or ends.
ProceedSticking(w, verified) ==    \* mutant: the cursor only moves on after a receipt
    /\ sent' = verified
    /\ IF next <= count /\ verified < MinWitnesses
         THEN /\ pc' = [pc EXCEPT ![w] = "dial"]
              /\ at' = [at EXCEPT ![w] = next]
              /\ next' = next + verified - sent
         ELSE /\ pc' = [pc EXCEPT ![w] = "none"]
              /\ at' = [at EXCEPT ![w] = 0]
              /\ UNCHANGED next

ProceedToTheEnd(w, verified) ==    \* mutant: the last candidate is never taken
    /\ sent' = verified
    /\ IF next < count /\ verified < MinWitnesses
         THEN /\ pc' = [pc EXCEPT ![w] = "dial"]
              /\ at' = [at EXCEPT ![w] = next]
              /\ next' = next + 1
         ELSE /\ pc' = [pc EXCEPT ![w] = "none"]
              /\ at' = [at EXCEPT ![w] = 0]
              /\ UNCHANGED next

Proceed(w, verified) ==
    /\ sent' = verified
    /\ IF next <= count /\ verified < MinWitnesses
         THEN /\ pc' = [pc EXCEPT ![w] = "dial"]
              /\ at' = [at EXCEPT ![w] = next]
              /\ next' = next + 1
         ELSE /\ pc' = [pc EXCEPT ![w] = "none"]
              /\ at' = [at EXCEPT ![w] = 0]
              /\ UNCHANGED next

\* The exact bytes come back, even before they were asked for.
Served(w) ==
    /\ pc[w] \in {"receipt", "object"}
    /\ at[w] \in seen
    /\ served' = served \cup {at[w]}
    /\ Proceed(w, sent + 1)
    /\ UNCHANGED <<phase, count, row, seen, written>>

FailsToDial(w) ==    \* mutant: no time limit once the handshake is complete
    /\ pc[w] = "dial"
    /\ Proceed(w, sent)
    /\ UNCHANGED <<phase, count, row, seen, written, served>>

\* The dial fails, the peer rejects the payment, has not kept it or disconnects, or one
\* of the time limits passes.
Fails(w) ==
    /\ pc[w] # "none"
    /\ Proceed(w, sent)
    /\ UNCHANGED <<phase, count, row, seen, written, served>>

\* Promise.all settles once every worker has ended, and with it the row.
Outcome == IF sent >= MinWitnesses THEN "relayed" ELSE "unverified"

Settle ==
    /\ phase = "relaying" /\ \A w \in Workers : pc[w] = "none"
    /\ phase' = "settled" /\ row' = Outcome
    /\ UNCHANGED <<count, next, sent, pc, at, seen, written, served>>

-----------------------------------------------------------------------------
\* The peers.  Bytes that were written may still arrive after the attempt has failed.
Arrives(p) ==
    /\ p \in written \cup seen
    /\ \E q \in Candidates : (q = p \/ p \in seen) /\ seen' = seen \cup {q}
    /\ UNCHANGED <<phase, count, next, sent, pc, at, row, written, served>>

Attempts(w) == Connected(w) \/ Pong(w) \/ Served(w) \/ Fails(w)

Next ==
    \/ Discovered \/ Settle
    \/ \E w \in Workers : Attempts(w)
    \/ \E p \in Candidates : Arrives(p)

Spec == Init /\ [][Next]_vars
-----------------------------------------------------------------------------
\* A payment reads "relayed" only after as many different peers as README.md promises
\* returned the exact bytes: attempts that run at the same time never count a peer twice.
RelayedIsWitnessed ==
    phase = "settled" /\ row = "relayed" => Cardinality(served) >= MinWitnesses

\* The relay is given up only after every candidate was tried and too few answered.
GivesUpExhausted ==
    phase = "settled" /\ row = "unverified" =>
        next = count + 1 /\ Cardinality(served) < MinWitnesses

\* Two workers never talk to the same peer, and no peer is tried again: the sockets of
\* a relay are as many as its candidates.
NeverTwiceTheSame ==
    /\ \A v, w \in Workers : at[v] = at[w] /\ at[v] # 0 => v = w
    /\ \A w \in Workers : pc[w] = "dial" => at[w] \notin written

\* Fairness: every attempt has a time limit, and the event loop runs what is ready.
FairSpec ==
    Spec /\ WF_vars(Discovered) /\ WF_vars(Settle) /\ \A w \in Workers : WF_vars(Attempts(w))

\* Every relay settles, whatever its peers do.
RelaySettles == <>(phase = "settled")
=============================================================================
