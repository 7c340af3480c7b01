---------------------------- MODULE RelayProofs ----------------------------
(***************************************************************************)
(* Proofs about Relay, for any number of workers and candidates and any    *)
(* number of witnesses.                                                    *)
(***************************************************************************)
EXTENDS Relay, FiniteSetTheorems, TLAPS

\* What is behind the properties: every candidate before the cursor was taken by exactly
\* one worker, and the peers that returned the bytes are among those taken and done with.
Taken == 1 .. next - 1

Cursor ==
    /\ next <= count + 1
    /\ \A w \in Workers : pc[w] # "none" => at[w] \in Taken
    /\ \A v, w \in Workers : at[v] = at[w] /\ at[v] # 0 => v = w
    /\ served \subseteq Taken /\ written \subseteq Taken

Witnesses ==
    /\ IsFiniteSet(served) /\ sent = Cardinality(served)
    /\ \A w \in Workers : pc[w] # "none" => at[w] \notin served
    /\ \A w \in Workers : pc[w] = "dial" => at[w] \notin written

Phase ==
    /\ phase # "relaying" => \A w \in Workers : pc[w] = "none"
    /\ phase = "discovering" => next = 1
    /\ phase # "discovering" /\ (\A w \in Workers : pc[w] = "none")
         => next = count + 1 \/ sent >= MinWitnesses
    /\ phase = "settled" => row = Outcome

IInv == TypeOK /\ Cursor /\ Witnesses /\ Phase

LEMMA ConstantsType == MaxPeers \in Nat \ {0} /\ MaxCandidates \in Nat \ {0} /\ MinWitnesses \in Nat \ {0}
BY SizeAssumption

LEMMA InitInv == Init => IInv
<1> SUFFICES ASSUME Init PROVE IInv
  OBVIOUS
<1>1. TypeOK
  BY ConstantsType DEF Init, TypeOK, Workers, Candidates, Awaits
<1>2. IsFiniteSet({}) /\ Cardinality({}) = 0
  BY FS_EmptySet
<1> QED BY <1>1, <1>2 DEF IInv, Init, Cursor, Witnesses, Phase, Taken

LEMMA SuccessorBound ==
  ASSUME NEW n, NEW c \in Nat, NEW b \in Nat, b <= c, n = b + 1
  PROVE  n <= c + 1
OBVIOUS

LEMMA DiscoveredInv == ASSUME IInv, Discovered PROVE IInv'
<1> USE ConstantsType DEF Workers, Candidates
<1>1. TypeOK /\ Cursor /\ Witnesses /\ Phase /\ count' \in 1 .. MaxCandidates
  BY DEF IInv, Discovered
<1>2. PICK busy \in Nat \ {0} :
        /\ busy <= MaxPeers /\ busy <= count'
        /\ pc' = [w \in Workers |-> IF w <= busy THEN "dial" ELSE "none"]
        /\ at' = [w \in Workers |-> IF w <= busy THEN w ELSE 0]
        /\ next' = busy + 1
  <2> DEFINE first == IF MaxPeers < count' THEN MaxPeers ELSE count'
  <2>1. first \in Nat \ {0} /\ first <= MaxPeers /\ first <= count'
    BY <1>1
  <2> QED BY <2>1 DEF Discovered
<1>3. UNCHANGED <<sent, row, seen, written, served>> /\ phase' = "relaying" /\ next = 1
  BY <1>1 DEF Discovered, Phase
<1>4. \A w \in Workers : /\ pc'[w] = "none" <=> at'[w] = 0
                         /\ pc'[w] # "none" => at'[w] = w /\ w <= busy
                         /\ pc'[w] = "none" => w > busy
  BY <1>2
<1>5. TypeOK'
  BY <1>1, <1>2, <1>3, <1>4 DEF TypeOK, Awaits
<1>6. served = {} /\ written = {}
  BY <1>1, <1>3 DEF Cursor, Taken
<1>7. Cursor'
  <2>1. next' <= count' + 1
    <3>1. count' \in Nat /\ busy \in Nat /\ busy <= count' /\ next' = busy + 1
      BY <1>1, <1>2
    <3> QED BY <3>1, SuccessorBound
  <2>2. \A w \in Workers : pc'[w] # "none" => at'[w] \in Taken'
    BY <1>2, <1>4 DEF Taken
  <2>3. \A v, w \in Workers : at'[v] = at'[w] /\ at'[v] # 0 => v = w
    BY <1>4
  <2>4. served' = {} /\ written' = {}
    BY <1>3, <1>6
  <2> QED BY <2>1, <2>2, <2>3, <2>4 DEF Cursor
<1>8. Witnesses'
  BY <1>1, <1>3, <1>6 DEF Witnesses
<1>9. Phase'
  <2>1. 1 \in Workers /\ pc'[1] # "none"
    BY <1>2, <1>4
  <2> QED BY <1>3, <2>1 DEF Phase
<1> QED BY <1>5, <1>7, <1>8, <1>9 DEF IInv

\* What taking another candidate or ending does, whatever else the attempt's end did.
LEMMA ProceedInv ==
  ASSUME IInv, NEW w \in Workers, pc[w] # "none", NEW verified \in Nat, Proceed(w, verified),
         UNCHANGED <<phase, count, row, seen, written>>,
         \/ verified = sent /\ UNCHANGED served
         \/ verified = sent + 1 /\ served' = served \cup {at[w]}
  PROVE  IInv'
<1> USE ConstantsType DEF Workers, Candidates
<1>1. /\ TypeOK /\ Cursor /\ Witnesses /\ Phase /\ sent' = verified
      /\ phase = "relaying" /\ at[w] \in Taken /\ at[w] \notin served
  BY DEF IInv, Proceed, Phase, Cursor, Witnesses
<1>2. /\ next \in 1 .. MaxCandidates + 1 /\ count \in 0 .. MaxCandidates /\ sent \in Nat
      /\ pc \in [Workers -> Awaits] /\ at \in [Workers -> Candidates \cup {0}]
  BY <1>1 DEF TypeOK
<1>3. /\ IsFiniteSet(served') /\ sent' = Cardinality(served')
      /\ served' \subseteq served \cup {at[w]}
  BY <1>1, <1>2, FS_AddElement, FS_CardinalityType DEF Witnesses
<1>4. CASE next <= count /\ verified < MinWitnesses
  <2>1. /\ pc' = [pc EXCEPT ![w] = "dial"] /\ at' = [at EXCEPT ![w] = next] /\ next' = next + 1
    BY <1>4 DEF Proceed
  <2>2. next \in Candidates /\ next \notin Taken /\ Taken' = Taken \cup {next}
    BY <1>2, <1>4, <2>1 DEF Taken
  <2>3. \A v \in Workers : IF v = w THEN pc'[v] = "dial" /\ at'[v] = next
                           ELSE pc'[v] = pc[v] /\ at'[v] = at[v]
    BY <1>2, <2>1
  <2>4. TypeOK'
    <3>1. next' \in 1 .. MaxCandidates + 1 /\ sent' \in Nat
      BY <1>1, <1>2, <1>4, <2>1
    <3>2. pc' \in [Workers -> Awaits] /\ at' \in [Workers -> Candidates \cup {0}]
      BY <1>2, <2>1, <2>2 DEF Awaits
    <3>3. served' \subseteq Candidates
      BY <1>1, <1>2, <1>3, <2>2 DEF TypeOK, Taken
    <3>4. \A v \in Workers : pc'[v] = "none" <=> at'[v] = 0
      BY <1>1, <2>2, <2>3 DEF TypeOK
    <3> QED BY <1>1, <3>1, <3>2, <3>3, <3>4 DEF TypeOK
  <2>5. Cursor'
    <3>1. \A v \in Workers : pc'[v] # "none" => at'[v] \in Taken'
      BY <1>1, <2>2, <2>3 DEF Cursor
    <3>2. \A v \in Workers : v # w => at[v] # next
      BY <1>1, <1>2, <2>2 DEF Cursor, Taken, TypeOK
    <3>3. \A u, v \in Workers : at'[u] = at'[v] /\ at'[u] # 0 => u = v
      BY <1>1, <2>3, <3>2 DEF Cursor
    <3> QED BY <1>1, <1>2, <1>3, <1>4, <2>1, <2>2, <3>1, <3>3 DEF Cursor
  <2>6. Witnesses'
    <3>1. \A v \in Workers : v # w /\ pc[v] # "none" => at[v] # at[w]
      BY <1>1, <1>2 DEF Cursor, Taken
    <3> QED BY <1>1, <1>3, <2>2, <2>3, <3>1 DEF Witnesses, Cursor
  <2>7. Phase'
    BY <1>1, <2>3 DEF Phase
  <2> QED BY <2>4, <2>5, <2>6, <2>7 DEF IInv
<1>5. CASE ~(next <= count /\ verified < MinWitnesses)
  <2>1. /\ pc' = [pc EXCEPT ![w] = "none"] /\ at' = [at EXCEPT ![w] = 0] /\ next' = next
    BY <1>5 DEF Proceed
  <2>2. \A v \in Workers : IF v = w THEN pc'[v] = "none" /\ at'[v] = 0
                           ELSE pc'[v] = pc[v] /\ at'[v] = at[v]
    BY <1>2, <2>1
  <2>3. TypeOK'
    BY <1>1, <1>2, <2>1, <2>2 DEF TypeOK, Awaits, Cursor, Taken
  <2>4. Cursor'
    <3>1. Taken' = Taken
      BY <2>1 DEF Taken
    <3>2. \A u, v \in Workers : at'[u] = at'[v] /\ at'[u] # 0 => u = v
      BY <1>1, <2>2 DEF Cursor
    <3> QED BY <1>1, <1>3, <2>1, <2>2, <3>1, <3>2 DEF Cursor
  <2>5. Witnesses'
    <3>1. \A v \in Workers : v # w /\ pc[v] # "none" => at[v] # at[w]
      BY <1>1, <1>2 DEF Cursor, Taken
    <3> QED BY <1>1, <1>3, <2>2, <3>1 DEF Witnesses
  <2>6. Phase'
    <3>1. next = count + 1 \/ verified >= MinWitnesses
      BY <1>1, <1>2, <1>5 DEF Cursor
    <3> QED BY <1>1, <2>1, <3>1 DEF Phase
  <2> QED BY <2>3, <2>4, <2>5, <2>6 DEF IInv
<1> QED BY <1>4, <1>5

\* A handshake hands the bytes over, a pong only moves the worker on.
LEMMA AttemptGoesOn ==
  ASSUME IInv, NEW w \in Workers, Connected(w) \/ Pong(w)
  PROVE  IInv'
<1> USE ConstantsType DEF Workers, Candidates
<1>1. TypeOK /\ Cursor /\ Witnesses /\ Phase
  BY DEF IInv
<1>2. UNCHANGED <<phase, count, next, sent, at, row, seen, served>>
  BY DEF Connected, Pong
<1>3. \A v \in Workers : pc'[v] = "none" <=> pc[v] = "none"
  BY <1>1 DEF Connected, Pong, TypeOK
<1>4. pc' \in [Workers -> Awaits]
  BY <1>1 DEF Connected, Pong, TypeOK, Awaits
<1>5. at[w] \in Candidates /\ at[w] \in Taken /\ at[w] # 0
  BY <1>1 DEF Connected, Pong, TypeOK, Cursor, Taken
<1>6. TypeOK'
  BY <1>1, <1>2, <1>3, <1>4, <1>5 DEF TypeOK, Connected, Pong
<1>7. Cursor'
  BY <1>1, <1>2, <1>3, <1>5 DEF Cursor, Taken, Connected, Pong
<1>8. Witnesses'
  <2>1. \A v \in Workers : pc'[v] = "dial" => pc[v] = "dial" /\ v # w
    BY <1>1 DEF Connected, Pong, TypeOK
  <2>2. \A v \in Workers : v # w => at[v] # at[w]
    BY <1>1, <1>5 DEF Cursor
  <2> QED BY <1>1, <1>2, <1>3, <2>1, <2>2 DEF Witnesses, Connected, Pong
<1>9. Phase'
  BY <1>1, <1>2, <1>3 DEF Phase, Outcome
<1> QED BY <1>6, <1>7, <1>8, <1>9 DEF IInv

LEMMA NextInv == ASSUME IInv, [Next]_vars PROVE IInv'
<1> USE ConstantsType
<1>1. CASE Discovered
  BY <1>1, DiscoveredInv
<1>2. CASE Settle
  <2>1. UNCHANGED <<count, next, sent, pc, at, seen, written, served>>
    BY <1>2 DEF Settle
  <2>2. TypeOK' /\ Cursor' /\ Witnesses'
    BY <1>2, <2>1 DEF Settle, Outcome, IInv, TypeOK, Cursor, Witnesses, Taken
  <2>3. Phase'
    BY <1>2, <2>1 DEF Settle, Outcome, IInv, Phase
  <2> QED BY <2>2, <2>3 DEF IInv
<1>3. ASSUME NEW w \in Workers, Attempts(w) PROVE IInv'
  <2>1. CASE Connected(w) \/ Pong(w)
    BY <2>1, AttemptGoesOn
  <2>2. sent \in Nat /\ sent + 1 \in Nat
    BY DEF IInv, TypeOK
  <2>3. CASE Served(w)
    BY <2>2, <2>3, ProceedInv DEF Served
  <2>4. CASE Fails(w)
    BY <2>2, <2>4, ProceedInv DEF Fails
  <2> QED BY <1>3, <2>1, <2>3, <2>4 DEF Attempts
<1>4. ASSUME NEW p \in Candidates, Arrives(p) PROVE IInv'
  <2>1. UNCHANGED <<phase, count, next, sent, pc, at, row, written, served>>
    BY <1>4 DEF Arrives
  <2>2. seen' \subseteq Candidates
    BY <1>4 DEF Arrives, IInv, TypeOK
  <2> QED BY <2>1, <2>2 DEF IInv, TypeOK, Cursor, Witnesses, Phase, Outcome, Taken
<1>5. CASE UNCHANGED vars
  BY <1>5 DEF vars, IInv, TypeOK, Cursor, Witnesses, Phase, Outcome, Taken
<1> QED BY <1>1, <1>2, <1>3, <1>4, <1>5 DEF Next

LEMMA Invariant == Spec => []IInv
<1>1. Init => IInv
  BY InitInv
<1>2. IInv /\ [Next]_vars => IInv'
  BY NextInv
<1> QED BY <1>1, <1>2, PTL DEF Spec

\* Every variable keeps its type.
THEOREM TypeCorrect == Spec => []TypeOK
<1>1. IInv => TypeOK
  BY DEF IInv
<1> QED BY <1>1, Invariant, PTL

\* A payment that relay() marks "relayed" was returned byte for byte by MinWitnesses
\* different peers.
THEOREM RelayedNeedsWitnesses == Spec => []RelayedIsWitnessed
<1>1. IInv => RelayedIsWitnessed
  BY ConstantsType DEF IInv, Witnesses, Phase, Outcome, RelayedIsWitnessed
<1> QED BY <1>1, Invariant, PTL

\* A relay that ends "unverified" has tried every candidate.
THEOREM NoCandidateSkipped == Spec => []GivesUpExhausted
<1>1. IInv => GivesUpExhausted
  BY ConstantsType DEF IInv, TypeOK, Witnesses, Phase, Outcome, GivesUpExhausted
<1> QED BY <1>1, Invariant, PTL

\* No peer is dialed twice by one relay, at the same time or one after the other.
THEOREM DialedOnce == Spec => []NeverTwiceTheSame
<1>1. IInv => NeverTwiceTheSame
  BY DEF IInv, Cursor, Witnesses, NeverTwiceTheSame
<1> QED BY <1>1, Invariant, PTL
=============================================================================
