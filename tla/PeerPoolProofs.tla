--------------------------- MODULE PeerPoolProofs ---------------------------
(***************************************************************************)
(* Proofs about PeerPool, for any number of peers, ranges, connections,    *)
(* candidates and required agreements.                                     *)
(***************************************************************************)
EXTENDS PeerPool, FiniteSetTheorems, SequenceTheorems, TLAPS

Statuses == {"none", "dialing", "ready", "dropped"}

\* What is behind TipIsVouchedFor: those who are asked, and those who agreed, are of
\* different ranges, none of them the range of the peer that served the chain.
Vouching ==
    /\ waiting # {} => phase = "confirming"
    /\ phase \in {"confirming", "confirmed"} =>
        /\ \A v, w \in waiting \cup agreed : Group[v] = Group[w] => v = w
        /\ \A w \in waiting \cup agreed : Group[w] # Group[server]
    /\ phase = "confirmed" => Cardinality(agreed) >= MinPeers

\* What is behind PoolIsKeptFull: whoever was dialed or waits to be was counted.
Counted ==
    /\ \A p \in ToSet(candidates) : p \in keys /\ conn[p] = "none"
    /\ \A p \in Peers : conn[p] # "none" => p \in keys
    /\ Cardinality(keys) <= MaxCandidates
    /\ IsInjective(candidates)

Connections ==
    /\ ~IsOpen => \A p \in Peers : conn[p] = "none"
    /\ Cardinality(Connected) <= MaxPeers
    /\ IsOpen => Cardinality(Connected) = MaxPeers \/ candidates = <<>>

\* There is a sync peer only between the first full peer and the end of the attempt.
Selected == phase \notin {"syncing", "confirming"} => syncPeer = None

IInv == TypeOK /\ Vouching /\ Counted /\ Connections /\ Selected

-----------------------------------------------------------------------------
\* Facts about sequences and sets.

LEMMA SizeType == MaxPeers \in Nat /\ MaxCandidates \in Nat /\ MinPeers \in Nat
BY SizeAssumption

LEMMA MinIs ==
  ASSUME NEW a \in Int, NEW b \in Int
  PROVE  Min({a, b}) \in Int /\ Min({a, b}) = IF a <= b THEN a ELSE b
<1>1. CASE a <= b
  <2>1. Min({a, b}) = CHOOSE x \in {a, b} : \A y \in {a, b} : x =< y
    BY DEF Min
  <2>2. \A x \in {a, b} : (\A y \in {a, b} : x =< y) => x = a
    BY <1>1
  <2> QED BY <1>1, <2>1, <2>2
<1>2. CASE b < a
  <2>1. Min({a, b}) = CHOOSE x \in {a, b} : \A y \in {a, b} : x =< y
    BY DEF Min
  <2>2. \A x \in {a, b} : (\A y \in {a, b} : x =< y) => x = b
    BY <1>2
  <2> QED BY <1>2, <2>1, <2>2
<1> QED BY <1>1, <1>2

LEMMA MembersAre ==
  ASSUME NEW S, NEW s \in Seq(S)
  PROVE  /\ ToSet(s) = {s[i] : i \in 1 .. Len(s)}
         /\ ToSet(s) \subseteq S
BY DEF ToSet

\* A sequence without repetition has as many members as it is long.
LEMMA MembersCounted ==
  ASSUME NEW S, NEW s \in Seq(S), IsInjective(s)
  PROVE  IsFiniteSet(ToSet(s)) /\ Cardinality(ToSet(s)) = Len(s)
<1>1. Len(s) \in Nat /\ DOMAIN s = 1 .. Len(s)
  OBVIOUS
<1>2. s \in [1 .. Len(s) -> ToSet(s)]
  BY <1>1 DEF ToSet
<1>3. \A x \in ToSet(s) : \E i \in 1 .. Len(s) : s[i] = x
  BY <1>1 DEF ToSet
<1>4. s \in Bijection(1 .. Len(s), ToSet(s))
  BY <1>2, <1>3 DEF Bijection, Injection, Surjection
<1>5. ExistsBijection(1 .. Len(s), ToSet(s))
  BY <1>4 DEF ExistsBijection
<1>6. IsFiniteSet(1 .. Len(s)) /\ Cardinality(1 .. Len(s)) = Len(s)
  BY <1>1, FS_Interval
<1> QED BY <1>5, <1>6, FS_Bijection

\* A prefix and what is left of a sequence.
LEMMA Cut ==
  ASSUME NEW S, NEW s \in Seq(S), NEW n \in 0 .. Len(s)
  PROVE  /\ SubSeq(s, 1, n) \in Seq(S) /\ Len(SubSeq(s, 1, n)) = n
         /\ \A i \in 1 .. n : SubSeq(s, 1, n)[i] = s[i]
         /\ SubSeq(s, n + 1, Len(s)) \in Seq(S) /\ Len(SubSeq(s, n + 1, Len(s))) = Len(s) - n
         /\ \A i \in 1 .. Len(s) - n : SubSeq(s, n + 1, Len(s))[i] = s[n + i]
<1>1. Len(s) \in Nat /\ \A i \in 1 .. Len(s) : s[i] \in S
  OBVIOUS
<1>2. \A i \in 1 .. n : s[i] \in S
  BY <1>1
<1>3. \A i \in n + 1 .. Len(s) : s[i] \in S
  BY <1>1
<1>4. n \in Int /\ n + 1 \in Int /\ Len(s) \in Int /\ 1 \in Int
  BY <1>1
<1>5. /\ SubSeq(s, 1, n) \in Seq(S)
      /\ Len(SubSeq(s, 1, n)) = IF 1 <= n THEN n - 1 + 1 ELSE 0
      /\ \A i \in 1 .. n - 1 + 1 : SubSeq(s, 1, n)[i] = s[1 + i - 1]
  BY <1>2, <1>4, SubSeqProperties
<1>6. /\ SubSeq(s, n + 1, Len(s)) \in Seq(S)
      /\ Len(SubSeq(s, n + 1, Len(s))) = IF n + 1 <= Len(s) THEN Len(s) - (n + 1) + 1 ELSE 0
      /\ \A i \in 1 .. Len(s) - (n + 1) + 1 : SubSeq(s, n + 1, Len(s))[i] = s[(n + 1) + i - 1]
  BY <1>3, <1>4, SubSeqProperties
<1>7. /\ Len(SubSeq(s, 1, n)) = n /\ Len(SubSeq(s, n + 1, Len(s))) = Len(s) - n
  BY <1>1, <1>5, <1>6
<1>8. \A i \in 1 .. n : SubSeq(s, 1, n)[i] = s[i]
  <2> TAKE i \in 1 .. n
  <2>1. i \in 1 .. n - 1 + 1 /\ 1 + i - 1 = i
    OBVIOUS
  <2> QED BY <1>5, <2>1
<1>9. \A i \in 1 .. Len(s) - n : SubSeq(s, n + 1, Len(s))[i] = s[n + i]
  <2> TAKE i \in 1 .. Len(s) - n
  <2>1. i \in 1 .. Len(s) - (n + 1) + 1 /\ (n + 1) + i - 1 = n + i
    BY <1>1
  <2> QED BY <1>6, <2>1
<1> QED BY <1>5, <1>6, <1>7, <1>8, <1>9

\* Filling the connections keeps the counts, and leaves no slot empty while one waits.
LEMMA FillKeeps ==
  ASSUME NEW queue \in Seq(Peers), NEW held \in [Peers -> Statuses], NEW known,
         known \subseteq Peers, IsInjective(queue),
         \A p \in ToSet(queue) : p \in known /\ held[p] = "none",
         \A p \in Peers : held[p] # "none" => p \in known,
         Cardinality({p \in Peers : held[p] \in {"dialing", "ready"}}) <= MaxPeers,
         Fill(queue, held)
  PROVE  /\ candidates' \in Seq(Peers) /\ conn' \in [Peers -> Statuses]
         /\ IsInjective(candidates')
         /\ \A p \in ToSet(candidates') : p \in known /\ conn'[p] = "none"
         /\ \A p \in Peers : conn'[p] # "none" => p \in known
         /\ Cardinality(Connected') <= MaxPeers
         /\ Cardinality(Connected') = MaxPeers \/ candidates' = <<>>
<1> DEFINE busy == {p \in Peers : held[p] \in {"dialing", "ready"}}
           n == Min({Len(queue), MaxPeers - Cardinality(busy)})
           front == SubSeq(queue, 1, n)
           dialed == ToSet(front)
<1>1. /\ candidates' = SubSeq(queue, n + 1, Len(queue))
      /\ conn' = [p \in Peers |-> IF p \in dialed THEN "dialing" ELSE held[p]]
  BY DEF Fill
<1>2. IsFiniteSet(busy) /\ Cardinality(busy) \in Nat
  BY PeersAssumption, FS_Subset, FS_CardinalityType
<1>3. n \in 0 .. Len(queue) /\ n <= MaxPeers - Cardinality(busy)
      /\ (n = Len(queue) \/ n = MaxPeers - Cardinality(busy))
  <2>1. Len(queue) \in Nat /\ MaxPeers - Cardinality(busy) \in Int /\ MaxPeers - Cardinality(busy) >= 0
    BY <1>2, SizeType
  <2> QED BY <2>1, MinIs
<1> HIDE DEF n
<1>0. n \in Nat /\ n <= Len(queue) /\ Len(queue) \in Nat
  BY <1>3
<1>4. /\ front \in Seq(Peers) /\ Len(front) = n /\ \A i \in 1 .. n : front[i] = queue[i]
      /\ candidates' \in Seq(Peers) /\ Len(candidates') = Len(queue) - n
      /\ \A i \in 1 .. Len(queue) - n : candidates'[i] = queue[n + i]
  BY <1>1, <1>3, Cut
<1>5. Len(queue) \in Nat /\ DOMAIN queue = 1 .. Len(queue) /\ DOMAIN front = 1 .. n
      /\ DOMAIN candidates' = 1 .. Len(queue) - n
  BY <1>3, <1>4
<1>6. IsInjective(front) /\ IsInjective(candidates')
  <2>1. \A i, j \in 1 .. Len(queue) : queue[i] = queue[j] => i = j
    BY <1>5 DEF IsInjective
  <2>2. \A i, j \in 1 .. n : front[i] = front[j] => i = j
    BY <1>3, <1>4, <1>5, <2>1
  <2>3. \A i, j \in 1 .. Len(queue) - n : candidates'[i] = candidates'[j] => i = j
    <3> TAKE i, j \in 1 .. Len(queue) - n
    <3>1. n + i \in 1 .. Len(queue) /\ n + j \in 1 .. Len(queue)
      BY <1>0
    <3> QED BY <1>3, <1>4, <2>1, <3>1
  <2> QED BY <1>5, <2>2, <2>3 DEF IsInjective
<1>7. dialed \subseteq ToSet(queue) /\ ToSet(candidates') \subseteq ToSet(queue) /\ dialed \subseteq Peers
  <2>1. \A i \in 1 .. Len(queue) : queue[i] \in ToSet(queue)
    BY <1>5 DEF ToSet
  <2>2. \A i \in 1 .. n : front[i] \in ToSet(queue)
    BY <1>3, <1>4, <1>5, <2>1
  <2>3. \A i \in 1 .. Len(queue) - n : candidates'[i] \in ToSet(queue)
    BY <1>3, <1>4, <1>5, <2>1
  <2>4. ToSet(queue) \subseteq Peers
    BY MembersAre
  <2> QED BY <1>5, <2>2, <2>3, <2>4 DEF ToSet
<1>8. dialed \cap ToSet(candidates') = {}
  <2>1. ASSUME NEW i \in 1 .. n, NEW j \in 1 .. Len(queue) - n, front[i] = candidates'[j]
        PROVE  FALSE
    <3>1. i \in 1 .. Len(queue) /\ n + j \in 1 .. Len(queue) /\ i # n + j
      BY <1>0
    <3>2. queue[i] = queue[n + j]
      BY <1>4, <2>1
    <3> QED BY <1>5, <3>1, <3>2 DEF IsInjective
  <2> QED BY <1>5, <2>1 DEF ToSet
<1>9. conn' \in [Peers -> Statuses]
  BY <1>1 DEF Statuses
<1>10. \A p \in ToSet(candidates') : p \in known /\ conn'[p] = "none"
  BY <1>1, <1>7, <1>8
<1>11. \A p \in Peers : conn'[p] # "none" => p \in known
  BY <1>1, <1>7
<1>12. Connected' = busy \cup dialed
  BY <1>1, <1>7 DEF Connected, Among
<1>13. busy \cap dialed = {}
  BY <1>7
<1>14. IsFiniteSet(dialed) /\ Cardinality(dialed) = n
  BY <1>4, <1>6, MembersCounted
<1>15. Cardinality(Connected') = Cardinality(busy) + n
  <2>1. Cardinality(busy \cup dialed) = Cardinality(busy) + Cardinality(dialed) - Cardinality(busy \cap dialed)
    BY <1>2, <1>14, FS_Union
  <2>2. Cardinality(busy \cap dialed) = 0
    BY <1>13, FS_EmptySet
  <2> QED BY <1>2, <1>3, <1>12, <1>14, <2>1, <2>2
<1>16. Cardinality(Connected') <= MaxPeers
  BY <1>2, <1>3, <1>15, SizeType
<1>17. Cardinality(Connected') = MaxPeers \/ candidates' = <<>>
  <2>1. CASE n = Len(queue)
    <3>1. Len(candidates') = 0
      BY <1>4, <1>5, <2>1
    <3> QED BY <1>4, <3>1
  <2>2. CASE n = MaxPeers - Cardinality(busy)
    BY <1>2, <1>15, <2>2, SizeType
  <2> QED BY <1>3, <2>1, <2>2
<1> QED BY <1>4, <1>6, <1>9, <1>10, <1>11, <1>16, <1>17

\* Hosts that join the queue are new and within the limit.
LEMMA QueuesKeep ==
  ASSUME TypeOK, Counted, NEW hosts \in SUBSET Peers, NEW queue \in Queues(hosts)
  PROVE  /\ queue \in Seq(Peers) /\ IsInjective(queue)
         /\ \A p \in ToSet(queue) : p \in keys \cup ToSet(queue) /\ conn[p] = "none"
         /\ Cardinality(keys \cup ToSet(queue)) <= MaxCandidates
<1> DEFINE fresh == hosts \ keys
<1>1. PICK order \in Orders(fresh) : queue = candidates \o Admitted(order)
  BY DEF Queues
<1>2. IsFiniteSet(fresh) /\ Cardinality(fresh) \in Nat /\ IsFiniteSet(keys) /\ Cardinality(keys) \in Nat
  BY PeersAssumption, FS_Subset, FS_CardinalityType DEF TypeOK
<1>3. order \in Seq(fresh) /\ IsInjective(order) /\ Len(order) = Cardinality(fresh)
  <2>1. order \in [1 .. Cardinality(fresh) -> fresh] /\ IsInjective(order)
    BY <1>1 DEF Orders
  <2> HIDE DEF fresh
  <2> QED BY <1>2, <2>1
<1> DEFINE n == Min({Len(order), MaxCandidates - Cardinality(keys)})
           joined == SubSeq(order, 1, n)
<1>4. n \in 0 .. Len(order) /\ n <= MaxCandidates - Cardinality(keys)
  <2>1. Len(order) \in Nat /\ MaxCandidates - Cardinality(keys) \in Int /\ MaxCandidates - Cardinality(keys) >= 0
    BY <1>2, <1>3, SizeType DEF Counted
  <2> QED BY <2>1, MinIs
<1>5. Admitted(order) = joined
  BY DEF Admitted
<1> HIDE DEF n
<1>6. joined \in Seq(fresh) /\ Len(joined) = n /\ \A i \in 1 .. n : joined[i] = order[i]
  BY <1>3, <1>4, Cut
<1>7. IsInjective(joined)
  <2>1. Len(order) \in Nat /\ DOMAIN order = 1 .. Len(order) /\ DOMAIN joined = 1 .. n
    BY <1>3, <1>4, <1>6
  <2>2. \A i, j \in 1 .. n : joined[i] = joined[j] => i = j
    <3>1. \A i, j \in 1 .. Len(order) : order[i] = order[j] => i = j
      BY <1>3, <2>1 DEF IsInjective
    <3>2. \A i \in 1 .. n : i \in 1 .. Len(order)
      BY <1>4
    <3> QED BY <1>6, <3>1, <3>2
  <2> QED BY <2>1, <2>2 DEF IsInjective
<1>8. candidates \in Seq(Peers) /\ joined \in Seq(Peers) /\ Len(candidates) \in Nat
  <2>1. fresh \subseteq Peers
    OBVIOUS
  <2> QED BY <1>6, <2>1, SeqMonotonic DEF TypeOK
<1>9. /\ queue \in Seq(Peers) /\ Len(queue) = Len(candidates) + n
      /\ \A i \in 1 .. Len(candidates) + n :
            queue[i] = IF i <= Len(candidates) THEN candidates[i] ELSE joined[i - Len(candidates)]
  <2>1. queue = candidates \o joined
    BY <1>1, <1>5
  <2> QED BY <1>6, <1>8, <2>1, ConcatProperties
<1>10. \A i \in 1 .. Len(candidates) : candidates[i] \in keys /\ conn[candidates[i]] = "none"
  BY <1>8 DEF Counted, ToSet
<1>11. \A i \in 1 .. n : joined[i] \in fresh
  BY <1>4, <1>6
<1>12. \A p \in fresh : p \notin keys /\ conn[p] = "none"
  BY DEF Counted
<1>13. \A i \in Len(candidates) + 1 .. Len(candidates) + n :
         i - Len(candidates) \in 1 .. n /\ queue[i] = joined[i - Len(candidates)]
  BY <1>4, <1>8, <1>9
<1>14. \A i \in 1 .. Len(candidates) : queue[i] = candidates[i]
  BY <1>4, <1>8, <1>9
<1>15. \A i \in 1 .. Len(queue) : i \in 1 .. Len(candidates) \/ i \in Len(candidates) + 1 .. Len(candidates) + n
  BY <1>4, <1>8, <1>9
<1>16. IsInjective(queue)
  <2>1. ASSUME NEW i \in 1 .. Len(queue), NEW j \in 1 .. Len(queue), queue[i] = queue[j] PROVE i = j
    <3>1. CASE i \in 1 .. Len(candidates) /\ j \in 1 .. Len(candidates)
      BY <1>8, <1>14, <2>1, <3>1 DEF Counted, IsInjective
    <3>2. CASE i \in 1 .. Len(candidates) /\ j \in Len(candidates) + 1 .. Len(candidates) + n
      <4>1. queue[i] \in keys /\ queue[j] \notin keys
        BY <1>10, <1>11, <1>12, <1>13, <1>14, <3>2
      <4> QED BY <2>1, <4>1
    <3>3. CASE j \in 1 .. Len(candidates) /\ i \in Len(candidates) + 1 .. Len(candidates) + n
      <4>1. queue[j] \in keys /\ queue[i] \notin keys
        BY <1>10, <1>11, <1>12, <1>13, <1>14, <3>3
      <4> QED BY <2>1, <4>1
    <3>4. CASE i \in Len(candidates) + 1 .. Len(candidates) + n /\ j \in Len(candidates) + 1 .. Len(candidates) + n
      <4>1. i - Len(candidates) \in 1 .. n /\ j - Len(candidates) \in 1 .. n
            /\ joined[i - Len(candidates)] = joined[j - Len(candidates)]
        BY <1>13, <2>1, <3>4
      <4>2. DOMAIN joined = 1 .. n
        BY <1>4, <1>6
      <4>3. i - Len(candidates) = j - Len(candidates)
        BY <1>7, <4>1, <4>2 DEF IsInjective
      <4> QED BY <1>8, <3>4, <4>3
    <3> QED BY <1>15, <3>1, <3>2, <3>3, <3>4
  <2>2. DOMAIN queue = 1 .. Len(queue)
    BY <1>9
  <2> QED BY <2>1, <2>2 DEF IsInjective
<1>17. \A i \in 1 .. Len(queue) : conn[queue[i]] = "none" /\ (queue[i] \in keys \/ queue[i] \in ToSet(joined))
  <2>1. \A i \in 1 .. n : joined[i] \in ToSet(joined)
    <3>1. DOMAIN joined = 1 .. n
      BY <1>4, <1>6
    <3> HIDE DEF joined
    <3> QED BY <3>1 DEF ToSet
  <2>2. \A i \in 1 .. Len(candidates) : conn[queue[i]] = "none" /\ queue[i] \in keys
    BY <1>10, <1>14
  <2>3. \A i \in Len(candidates) + 1 .. Len(candidates) + n :
          conn[queue[i]] = "none" /\ queue[i] \in ToSet(joined)
    <3> TAKE i \in Len(candidates) + 1 .. Len(candidates) + n
    <3> HIDE DEF joined, fresh
    <3> QED BY <1>11, <1>12, <1>13, <2>1
  <2> QED BY <1>15, <2>2, <2>3
<1>18. \A p \in ToSet(queue) : conn[p] = "none" /\ (p \in keys \/ p \in ToSet(joined))
  BY <1>9, <1>17, MembersAre
<1>19. Cardinality(keys \cup ToSet(queue)) <= MaxCandidates
  <2>1. IsFiniteSet(ToSet(joined)) /\ Cardinality(ToSet(joined)) = n
    BY <1>6, <1>7, MembersCounted
  <2>2. IsFiniteSet(keys \cup ToSet(joined))
        /\ Cardinality(keys \cup ToSet(joined)) = Cardinality(keys) + n - Cardinality(keys \cap ToSet(joined))
    BY <1>2, <2>1, FS_Union
  <2>3. Cardinality(keys \cap ToSet(joined)) \in Nat
    BY <1>2, FS_Intersection, FS_CardinalityType
  <2>4. keys \cup ToSet(queue) \subseteq keys \cup ToSet(joined)
    BY <1>18
  <2>5. Cardinality(keys \cup ToSet(queue)) <= Cardinality(keys \cup ToSet(joined))
        /\ Cardinality(keys \cup ToSet(queue)) \in Nat
    BY <2>2, <2>4, FS_Subset, FS_CardinalityType
  <2> QED BY <1>2, <1>4, <2>2, <2>3, <2>5, SizeType
<1> QED BY <1>9, <1>16, <1>18, <1>19

-----------------------------------------------------------------------------
\* The median.

\* A nonempty set of naturals has a least element (the one theorem on well-founded
\* relations that needs no operator as a parameter).
LEMMA LeastElement ==
  ASSUME NEW S \in SUBSET Nat, S # {}
  PROVE  \E m \in S : \A n \in S : m <= n
<1>1. PICK R : R = OpToRel(<, Nat)
  OBVIOUS
<1>2. IsWellFoundedOn(R, Nat)
  BY <1>1, NatLessThanWellFounded
<1>3. PICK m \in S : \A n \in S : ~ (<<n, m>> \in R)
  BY <1>2, WFMin
<1>4. \A n \in Nat, k \in Nat : n < k => <<n, k>> \in R
  BY <1>1 DEF OpToRel
<1>5. \A n \in S : m <= n
  <2> SUFFICES ASSUME NEW n \in S, ~(m <= n) PROVE FALSE
    OBVIOUS
  <2>1. n < m /\ n \in Nat /\ m \in Nat
    OBVIOUS
  <2> QED BY <2>1, <1>3, <1>4
<1> QED BY <1>5

\* How many values of heights are at most h, less than h, more than h.
UpTo(heights, h) == {p \in DOMAIN heights : heights[p] <= h}
Below(heights, h) == {p \in DOMAIN heights : heights[p] < h}
Above(heights, h) == {p \in DOMAIN heights : heights[p] > h}

LEMMA PartsCounted ==
  ASSUME NEW D, IsFiniteSet(D), NEW S \in SUBSET D
  PROVE  IsFiniteSet(S) /\ Cardinality(S) \in Nat /\ Cardinality(S) <= Cardinality(D)
         /\ Cardinality(D) \in Nat
BY FS_Subset, FS_CardinalityType

LEMMA RankGrows ==
  ASSUME NEW D, IsFiniteSet(D), NEW f \in [D -> Int], NEW a \in D, NEW b \in D, f[a] < f[b]
  PROVE  Cardinality(UpTo(f, f[a])) < Cardinality(UpTo(f, f[b]))
<1>1. UpTo(f, f[a]) \subseteq UpTo(f, f[b])
  <2> SUFFICES ASSUME NEW p \in D, f[p] <= f[a] PROVE f[p] <= f[b]
    BY DEF UpTo
  <2>1. f[p] \in Int /\ f[a] \in Int /\ f[b] \in Int
    OBVIOUS
  <2> QED BY <2>1
<1>2. b \in UpTo(f, f[b]) /\ b \notin UpTo(f, f[a])
  <2>1. f[a] \in Int /\ f[b] \in Int
    OBVIOUS
  <2> QED BY <2>1 DEF UpTo
<1>3. UpTo(f, f[a]) # UpTo(f, f[b])
  BY <1>2
<1>4. UpTo(f, f[b]) \in SUBSET D /\ UpTo(f, f[a]) \in SUBSET D
  BY DEF UpTo
<1>5. IsFiniteSet(UpTo(f, f[b])) /\ Cardinality(UpTo(f, f[b])) \in Nat
      /\ Cardinality(UpTo(f, f[a])) \in Nat
  BY <1>4, PartsCounted
<1>6. Cardinality(UpTo(f, f[a])) <= Cardinality(UpTo(f, f[b]))
      /\ (Cardinality(UpTo(f, f[a])) = Cardinality(UpTo(f, f[b])) => UpTo(f, f[a]) = UpTo(f, f[b]))
  BY <1>1, <1>5, FS_Subset
<1> QED BY <1>3, <1>5, <1>6

\* A peer with the most of a nonempty set.
LEMMA Highest ==
  ASSUME NEW D, IsFiniteSet(D), NEW f \in [D -> Int], NEW S \in SUBSET D, S # {}
  PROVE  \E p \in S : \A q \in S : f[q] <= f[p]
<1> DEFINE rank(p) == Cardinality(UpTo(f, f[p]))
           short == {Cardinality(D) - rank(p) : p \in S}
<1>1. \A p \in D : rank(p) \in Nat /\ Cardinality(D) - rank(p) \in Nat
  <2> TAKE p \in D
  <2>1. UpTo(f, f[p]) \in SUBSET D
    BY DEF UpTo
  <2>2. rank(p) \in Nat /\ rank(p) <= Cardinality(D) /\ Cardinality(D) \in Nat
    BY <2>1, PartsCounted
  <2> QED BY <2>2
<1>2. \A a, b \in D : f[a] < f[b] => rank(a) < rank(b)
  BY RankGrows
<1>0. Cardinality(D) \in Nat
  BY FS_CardinalityType
<1> HIDE DEF rank
<1>3. short \in SUBSET Nat /\ short # {}
  BY <1>1
<1>4. PICK m \in short : \A n \in short : m <= n
  BY <1>3, LeastElement
<1>5. PICK p \in S : m = Cardinality(D) - rank(p)
  BY <1>4
<1>6. \A q \in S : f[q] <= f[p]
  <2> SUFFICES ASSUME NEW q \in S, ~(f[q] <= f[p]) PROVE FALSE
    OBVIOUS
  <2>1. f[p] \in Int /\ f[q] \in Int
    OBVIOUS
  <2>2. f[p] < f[q]
    BY <2>1
  <2>3. rank(p) < rank(q)
    BY <1>2, <2>2
  <2>4. m <= Cardinality(D) - rank(q)
    BY <1>4
  <2>5. rank(p) \in Nat /\ rank(q) \in Nat
    BY <1>1
  <2> QED BY <1>0, <1>5, <2>3, <2>4, <2>5
<1> QED BY <1>6

\* A peer that claims a height claims an integer.
LEMMA ClaimedHeights ==
  ASSUME NEW claims \in [Peers -> Versions \cup {Unknown}], NEW D \in SUBSET Peers,
         \A p \in D : claims[p].height # None
  PROVE  /\ IsFiniteSet(D) /\ [p \in D |-> claims[p].height] \in [D -> Int]
         /\ \A p \in D : claims[p].height \in Int
<1>1. IsFiniteSet(D)
  BY PeersAssumption, PartsCounted
<1>2. \A p \in D : claims[p].height \in Int
  <2> TAKE p \in D
  <2>1. claims[p] \in Versions \cup {Unknown} /\ claims[p].height # None
    OBVIOUS
  <2> QED BY <2>1, ClaimsAssumption DEF Unknown
<1> QED BY <1>1, <1>2

\* There is a median: the least value that more than half do not exceed.
LEMMA MiddleIs ==
  ASSUME NEW D, IsFiniteSet(D), D # {}, NEW f \in [D -> Int]
  PROVE  /\ Middle(f) \in Int
         /\ Cardinality(Below(f, Middle(f))) <= Cardinality(D) \div 2
         /\ Cardinality(D) \div 2 < Cardinality(UpTo(f, Middle(f)))
<1> DEFINE half == Cardinality(D) \div 2
           rank(p) == Cardinality(UpTo(f, f[p]))
           many == {k \in Nat : \E p \in D : k = rank(p) /\ half < k}
<1>0. Cardinality(D) \in Nat /\ Cardinality(D) # 0
  BY FS_CardinalityType, FS_EmptySet
<1>1. half \in Nat /\ half < Cardinality(D)
  BY <1>0
<1>2. \A p \in D : rank(p) \in Nat
  <2> TAKE p \in D
  <2>1. UpTo(f, f[p]) \in SUBSET D
    BY DEF UpTo
  <2> QED BY <2>1, PartsCounted
<1>3. many # {}
  <2>1. PICK p \in D : \A q \in D : f[q] <= f[p]
    BY Highest
  <2>2. UpTo(f, f[p]) = D
    BY <2>1 DEF UpTo
  <2>3. rank(p) = Cardinality(D)
    BY <2>2
  <2> HIDE DEF rank
  <2> QED BY <1>0, <1>1, <2>3
<1>4. many \in SUBSET Nat
  OBVIOUS
<1>5. PICK m \in many : \A n \in many : m <= n
  BY <1>3, <1>4, LeastElement
<1>6. PICK p \in D : m = rank(p) /\ half < m
  BY <1>5
<1>7. Cardinality(Below(f, f[p])) <= half
  <2> SUFFICES ASSUME ~(Cardinality(Below(f, f[p])) <= half) PROVE FALSE
    OBVIOUS
  <2>1. Below(f, f[p]) \in SUBSET D
    BY DEF Below
  <2>2. Cardinality(Below(f, f[p])) \in Nat
    BY <2>1, PartsCounted
  <2>3. half < Cardinality(Below(f, f[p]))
    BY <1>1, <2>2
  <2>4. Below(f, f[p]) # {}
    BY <1>1, <2>3, FS_EmptySet
  <2>5. PICK r \in Below(f, f[p]) : \A q \in Below(f, f[p]) : f[q] <= f[r]
    BY <2>1, <2>4, Highest
  <2>6. r \in D /\ f[r] < f[p]
    BY <2>5 DEF Below
  <2>7. Below(f, f[p]) \subseteq UpTo(f, f[r])
    BY <2>5 DEF Below, UpTo
  <2>8. UpTo(f, f[r]) \in SUBSET D
    BY DEF UpTo
  <2>9. IsFiniteSet(UpTo(f, f[r]))
    BY <2>8, PartsCounted
  <2>10. Cardinality(Below(f, f[p])) <= rank(r)
    BY <2>7, <2>9, FS_Subset
  <2>11. rank(r) < rank(p)
    BY <2>6, RankGrows
  <2>12. rank(r) \in Nat /\ rank(p) \in Nat
    BY <1>2, <2>6
  <2> HIDE DEF rank, half
  <2>13. half < rank(r)
    BY <1>1, <2>2, <2>3, <2>10, <2>12
  <2>14. rank(r) \in many
    BY <2>6, <2>12, <2>13
  <2> HIDE DEF many
  <2>15. m <= rank(r)
    BY <1>5, <2>14
  <2> QED BY <1>6, <2>11, <2>12, <2>15
<1>8. half < Cardinality(UpTo(f, f[p]))
  BY <1>6
<1> DEFINE values == {f[q] : q \in D}
           good(h) == Cardinality(Below(f, h)) <= half /\ half < Cardinality(UpTo(f, h))
<1>9. f[p] \in values /\ good(f[p])
  BY <1>7, <1>8
<1>10. Middle(f) = CHOOSE h \in values : good(h)
  <2>1. DOMAIN f = D
    OBVIOUS
  <2> QED BY <2>1 DEF Middle, Below, UpTo
<1> HIDE DEF good
<1>11. Middle(f) \in values /\ good(Middle(f))
  BY <1>9, <1>10
<1>12. Middle(f) \in Int
  BY <1>11
<1> QED BY <1>11, <1>12 DEF good

\* The median is not moved by less than half: at least as many values are on the other
\* side of it.
LEMMA MiddleHolds ==
  ASSUME NEW D, IsFiniteSet(D), D # {}, NEW f \in [D -> Int], NEW h \in Int
  PROVE  /\ Middle(f) \in Int
         /\ 2 * Cardinality(Above(f, Middle(f))) < Cardinality(D)
         /\ 2 * Cardinality({p \in D : f[p] <= h}) > Cardinality(D) => Middle(f) <= h
         /\ 2 * Cardinality({p \in D : f[p] >= h}) > Cardinality(D) => Middle(f) >= h
<1> DEFINE M == Middle(f)
           half == Cardinality(D) \div 2
           above == Above(f, M)
           below == Below(f, M)
           upTo == UpTo(f, M)
<1>1. M \in Int /\ Cardinality(below) <= half /\ half < Cardinality(upTo)
  BY MiddleIs
<1> HIDE DEF M
<1>0. Cardinality(D) \in Nat /\ half \in Nat /\ 2 * half <= Cardinality(D) /\ Cardinality(D) < 2 * half + 2
  BY FS_CardinalityType
<1>2. above \in SUBSET D /\ below \in SUBSET D /\ upTo \in SUBSET D
  BY DEF Above, Below, UpTo
<1>3. /\ IsFiniteSet(above) /\ IsFiniteSet(upTo) /\ IsFiniteSet(below)
      /\ Cardinality(above) \in Nat /\ Cardinality(below) \in Nat /\ Cardinality(upTo) \in Nat
  BY <1>2, PartsCounted
<1>4. Cardinality(above) + Cardinality(upTo) <= Cardinality(D)
  <2>1. above \cap upTo = {}
    BY <1>1 DEF Above, UpTo
  <2>2. Cardinality(above \cup upTo) = Cardinality(above) + Cardinality(upTo) - Cardinality(above \cap upTo)
    BY <1>3, FS_Union
  <2>3. above \cup upTo \in SUBSET D
    BY <1>2
  <2>4. Cardinality(above \cup upTo) <= Cardinality(D)
    BY <2>3, PartsCounted
  <2>5. Cardinality(above \cap upTo) = 0
    BY <2>1, FS_EmptySet
  <2> HIDE DEF above, upTo
  <2> QED BY <1>3, <2>2, <2>4, <2>5
<1> HIDE DEF half
<1>5. 2 * Cardinality(above) < Cardinality(D)
  <2> HIDE DEF above, below, upTo
  <2> QED BY <1>0, <1>1, <1>3, <1>4
<1>6. ASSUME 2 * Cardinality({p \in D : f[p] <= h}) > Cardinality(D) PROVE M <= h
  <2> SUFFICES ASSUME ~(M <= h) PROVE FALSE
    OBVIOUS
  <2> DEFINE few == {p \in D : f[p] <= h}
  <2>1. few \subseteq below
    BY <1>1 DEF Below
  <2>2. Cardinality(few) <= Cardinality(below)
    BY <1>3, <2>1, FS_Subset
  <2>3. few \in SUBSET D
    OBVIOUS
  <2>4. Cardinality(few) \in Nat
    BY <2>3, PartsCounted
  <2>5. 2 * Cardinality(few) > Cardinality(D)
    BY <1>6
  <2> HIDE DEF few, below
  <2> QED BY <1>0, <1>1, <1>3, <2>2, <2>4, <2>5
<1>7. ASSUME 2 * Cardinality({p \in D : f[p] >= h}) > Cardinality(D) PROVE M >= h
  <2> SUFFICES ASSUME ~(M >= h) PROVE FALSE
    OBVIOUS
  <2> DEFINE few == {p \in D : f[p] >= h}
  <2>1. few \subseteq above
    BY <1>1 DEF Above
  <2>2. Cardinality(few) <= Cardinality(above)
    BY <1>3, <2>1, FS_Subset
  <2>3. few \in SUBSET D
    OBVIOUS
  <2>4. Cardinality(few) \in Nat
    BY <2>3, PartsCounted
  <2>5. 2 * Cardinality(few) > Cardinality(D)
    BY <1>7
  <2> HIDE DEF few, above
  <2> QED BY <1>0, <1>3, <1>5, <2>2, <2>4, <2>5
<1> QED BY <1>1, <1>5, <1>6, <1>7 DEF M

-----------------------------------------------------------------------------
\* The invariant holds initially, and every action preserves it.

LEMMA InitInv == Init => IInv
<1> SUFFICES ASSUME Init PROVE IInv
  OBVIOUS
<1>1. TypeOK
  BY DEF Init, TypeOK, Unknown
<1>2. Vouching
  BY DEF Init, Vouching
<1>3. Counted
  BY FS_EmptySet, SizeType DEF Init, Counted, ToSet, IsInjective
<1>4. Connections
  <2>1. Connected = {}
    BY DEF Init, Connected, Among
  <2> QED BY <2>1, FS_EmptySet, SizeType DEF Init, Connections, IsOpen
<1>5. Selected
  BY DEF Init, Selected
<1> QED BY <1>1, <1>2, <1>3, <1>4, <1>5 DEF IInv

\* What leaves the connections alone.
Untouched == UNCHANGED <<candidates, keys, conn>>

LEMMA UntouchedKeeps ==
  ASSUME IInv, Untouched, IsOpen' <=> IsOpen
  PROVE  Counted' /\ Connections'
<1>1. Connected' = Connected
  BY DEF Untouched, Connected, Among
<1>2. Counted'
  BY DEF Untouched, IInv, Counted
<1>3. Connections'
  BY <1>1 DEF Untouched, IInv, Connections
<1> QED BY <1>2, <1>3

\* What leaves the confirmation alone.
LEMMA ConfirmationKeeps ==
  ASSUME Vouching, UNCHANGED confirmation,
         phase' \in {"confirming", "confirmed"} => phase' = phase,
         phase = "confirming" => phase' = "confirming"
  PROVE  Vouching'
BY DEF Vouching, confirmation

\* The end of an attempt.
LEMMA ClosedKeeps ==
  ASSUME IInv, Closed, phase' \in {"closed", "confirmed"}
  PROVE  Counted' /\ Connections' /\ candidates' \in Seq(Peers) /\ keys' \subseteq Peers
         /\ conn' \in [Peers -> Statuses] /\ says' \in [Peers -> Versions \cup {Unknown}]
<1>1. candidates' = <<>> /\ keys' = {} /\ (\A p \in Peers : conn'[p] = "none")
      /\ conn' \in [Peers -> Statuses] /\ says' \in [Peers -> Versions \cup {Unknown}]
  BY DEF Closed, Statuses
<1>2. Connected' = {}
  BY <1>1 DEF Connected, Among
<1>3. Counted'
  BY <1>1, FS_EmptySet, SizeType DEF Counted, ToSet, IsInjective
<1>4. ~IsOpen'
  BY DEF IsOpen
<1>5. Connections'
  BY <1>1, <1>2, <1>4, FS_EmptySet, SizeType DEF Connections
<1> QED BY <1>1, <1>3, <1>5

LEMMA OpenInv == ASSUME IInv, Open PROVE IInv'
<1>1. ArchivePeers \in Seq(Peers) /\ IsInjective(ArchivePeers) /\ Len(ArchivePeers) <= MaxCandidates
  BY ArchiveAssumption
<1>2. ToSet(ArchivePeers) \subseteq Peers
      /\ Cardinality(ToSet(ArchivePeers)) <= MaxCandidates
  BY <1>1, MembersAre, MembersCounted
<1>3. TypeOK'
  BY <1>1, <1>2 DEF Open, IInv, TypeOK, Vouching
<1>4. ~IsOpen /\ ~IsOpen'
  BY DEF Open, IsOpen
<1>5. Counted'
  BY <1>1, <1>2, <1>4 DEF Open, IInv, Connections, Counted
<1>6. Connected' = Connected
  BY DEF Open, Connected, Among
<1>7. Connections'
  BY <1>4, <1>6 DEF Open, IInv, Connections
<1>8. Vouching'
  BY DEF Open, IInv, Vouching
<1>9. Selected'
  BY DEF Open, IInv, Selected
<1> QED BY <1>3, <1>5, <1>7, <1>8, <1>9 DEF IInv

\* A peer pool dials on after the DNS answer or gossip.
LEMMA BusyFew ==
  ASSUME IInv
  PROVE  Cardinality({p \in Peers : conn[p] \in {"dialing", "ready"}}) <= MaxPeers
BY DEF IInv, Connections, Connected, Among

LEMMA JoinInv ==
  ASSUME IInv, NEW hosts \in SUBSET Peers, NEW queue \in Queues(hosts),
         keys' = keys \cup ToSet(queue), Fill(queue, conn),
         UNCHANGED <<says, syncPeer, target, confirmation>>,
         phase' = phase \/ (phase = "resolving" /\ phase' = "dialing"), IsOpen'
  PROVE  IInv'
<1>1. /\ queue \in Seq(Peers) /\ IsInjective(queue)
      /\ \A p \in ToSet(queue) : p \in keys \cup ToSet(queue) /\ conn[p] = "none"
      /\ Cardinality(keys \cup ToSet(queue)) <= MaxCandidates
  BY QueuesKeep DEF IInv
<1>2. keys' \subseteq Peers /\ conn \in [Peers -> Statuses]
  BY <1>1, MembersAre DEF IInv, TypeOK, Statuses
<1>3. \A p \in Peers : conn[p] # "none" => p \in keys'
  BY DEF IInv, Counted
<1>4. /\ candidates' \in Seq(Peers) /\ conn' \in [Peers -> Statuses]
      /\ IsInjective(candidates')
      /\ \A p \in ToSet(candidates') : p \in keys' /\ conn'[p] = "none"
      /\ \A p \in Peers : conn'[p] # "none" => p \in keys'
      /\ Cardinality(Connected') <= MaxPeers
      /\ Cardinality(Connected') = MaxPeers \/ candidates' = <<>>
  BY <1>1, <1>2, <1>3, BusyFew, FillKeeps
<1>5. Counted'
  BY <1>1, <1>4 DEF Counted
<1>6. Vouching'
  BY ConfirmationKeeps DEF IInv
<1>7. TypeOK'
  BY <1>2, <1>4 DEF IInv, TypeOK, Statuses, confirmation, IsOpen
<1>8. Selected'
  BY DEF IInv, Selected
<1> QED BY <1>4, <1>5, <1>6, <1>7, <1>8 DEF IInv, Connections

\* The network height is a height.
LEMMA HandshakeTarget ==
  ASSUME IInv, NEW p \in Peers, NEW version \in Versions, Handshake(p, version)
  PROVE  target' \in Int \cup {None}
<1> DEFINE D == Claimed(Ready)'
           heights == [q \in D |-> says'[q].height]
<1>1. says' \in [Peers -> Versions \cup {Unknown}] /\ target' = Median(Ready)'
  BY DEF IInv, TypeOK, Handshake
<1>2. D \in SUBSET Peers /\ \A q \in D : says'[q].height # None
  BY DEF Claimed, Ready, Among
<1>3. Median(Ready)' = IF D = {} THEN None ELSE Middle(heights)
  BY DEF Median
<1> HIDE DEF D
<1>4. IsFiniteSet(D) /\ heights \in [D -> Int]
  BY <1>1, <1>2, ClaimedHeights
<1> HIDE DEF heights
<1>5. D # {} => Middle(heights) \in Int
  BY <1>4, MiddleIs
<1> QED BY <1>1, <1>3, <1>5

LEMMA HandshakeInv ==
  ASSUME IInv, NEW p \in Peers, NEW version \in Versions, Handshake(p, version)
  PROVE  IInv'
<1>1. /\ conn' = [conn EXCEPT ![p] = "ready"] /\ conn[p] = "dialing"
      /\ says' = [says EXCEPT ![p] = version]
      /\ phase' = phase \/ (phase = "dialing" /\ phase' = "syncing")
      /\ UNCHANGED <<candidates, keys, confirmation>>
      /\ IsOpen /\ IsOpen'
  BY DEF Handshake, IsOpen
<1>2. syncPeer' \in Peers \cup {None}
  <2>1. syncPeer' = syncPeer \/ syncPeer' \in Eligible'
    BY DEF Handshake
  <2>2. Eligible' \subseteq Peers
    BY DEF Eligible, Full, Ready, Among
  <2> QED BY <2>1, <2>2 DEF IInv, TypeOK
<1>8. Selected'
  BY DEF Handshake, IInv, Selected
<1>3. TypeOK'
  BY <1>1, <1>2, HandshakeTarget DEF IInv, TypeOK, confirmation
<1>4. Connected' = Connected
  BY <1>1 DEF IInv, TypeOK, Connected, Among
<1>5. Counted'
  BY <1>1 DEF IInv, TypeOK, Counted
<1>6. Connections'
  BY <1>1, <1>4 DEF IInv, Connections
<1>7. Vouching'
  BY <1>1, ConfirmationKeeps DEF IInv
<1> QED BY <1>3, <1>5, <1>6, <1>7, <1>8 DEF IInv

LEMMA DropInv == ASSUME IInv, NEW p \in Peers, Drop(p) PROVE IInv'
<1> DEFINE held == [conn EXCEPT ![p] = "dropped"]
<1>1. /\ IsOpen /\ p \in Connected /\ Fill(candidates, held)
      /\ waiting' = waiting \ {p} /\ syncPeer' = IF syncPeer = p THEN None ELSE syncPeer
      /\ UNCHANGED <<phase, keys, says, target, agreed, server>>
  BY DEF Drop
<1>2. held \in [Peers -> Statuses] /\ candidates \in Seq(Peers) /\ keys \subseteq Peers
  BY DEF IInv, TypeOK, Statuses
<1>3. /\ \A q \in ToSet(candidates) : q \in keys /\ held[q] = "none"
      /\ \A q \in Peers : held[q] # "none" => q \in keys
      /\ IsInjective(candidates)
  <2>1. conn[p] # "none" /\ conn \in [Peers -> Statuses]
    BY <1>1 DEF Connected, Among, IInv, TypeOK, Statuses
  <2>2. ToSet(candidates) \subseteq Peers
    BY <1>2, MembersAre
  <2> QED BY <2>1, <2>2 DEF IInv, Counted
<1>4. Cardinality({q \in Peers : held[q] \in {"dialing", "ready"}}) <= MaxPeers
  <2> DEFINE some == {q \in Peers : held[q] \in {"dialing", "ready"}}
  <2>1. some \subseteq Connected
    BY DEF IInv, TypeOK, Connected, Among
  <2>2. IsFiniteSet(Connected)
    BY PeersAssumption, FS_Subset DEF Connected, Among
  <2>3. Cardinality(some) <= Cardinality(Connected) /\ Cardinality(some) \in Nat /\ Cardinality(Connected) \in Nat
    BY <2>1, <2>2, FS_Subset, FS_CardinalityType
  <2>4. Cardinality(Connected) <= MaxPeers
    BY DEF IInv, Connections
  <2> QED BY <2>3, <2>4, SizeType
<1> HIDE DEF held
<1>5. /\ candidates' \in Seq(Peers) /\ conn' \in [Peers -> Statuses]
      /\ IsInjective(candidates')
      /\ \A q \in ToSet(candidates') : q \in keys /\ conn'[q] = "none"
      /\ \A q \in Peers : conn'[q] # "none" => q \in keys
      /\ Cardinality(Connected') <= MaxPeers
      /\ Cardinality(Connected') = MaxPeers \/ candidates' = <<>>
  BY <1>1, <1>2, <1>3, <1>4, FillKeeps
<1>6. Counted'
  BY <1>1, <1>5 DEF IInv, Counted
<1>7. IsOpen' <=> IsOpen
  BY <1>1 DEF IsOpen
<1>8. Vouching'
  BY <1>1 DEF IInv, Vouching
<1>9. TypeOK'
  BY <1>1, <1>5 DEF IInv, TypeOK, Statuses
<1>10. Selected'
  BY <1>1 DEF IInv, Selected
<1> QED BY <1>1, <1>5, <1>6, <1>7, <1>8, <1>9, <1>10 DEF IInv, Connections

\* The witnesses are of different ranges, none of them that of the sync peer.
LEMMA LastPageInv == ASSUME IInv, LastPage PROVE IInv'
<1>1. /\ phase' = "confirming" /\ server' = syncPeer /\ waiting' \in Witnesses /\ agreed' = {}
      /\ Untouched /\ UNCHANGED <<says, syncPeer, target>> /\ IsOpen /\ IsOpen'
  BY DEF LastPage, Untouched, IsOpen
<1>2. /\ waiting' \subseteq Peers
      /\ \A v, w \in waiting' : Group[v] = Group[w] => v = w
      /\ \A w \in waiting' : Group[w] # Group[syncPeer]
  BY <1>1 DEF Witnesses, Ready, Among
<1>3. Vouching'
  BY <1>1, <1>2 DEF Vouching
<1>4. TypeOK'
  BY <1>1, <1>2 DEF IInv, TypeOK, Untouched
<1>5. Counted' /\ Connections'
  BY <1>1, UntouchedKeeps
<1> QED BY <1>1, <1>3, <1>4, <1>5 DEF IInv, Selected

LEMMA AnswerInv ==
  ASSUME IInv, NEW w \in Peers, Agrees(w) \/ Disagrees(w)
  PROVE  IInv'
<1>1. /\ w \in waiting /\ waiting' = waiting \ {w}
      /\ agreed' = agreed \/ agreed' = agreed \cup {w}
      /\ Untouched /\ UNCHANGED <<phase, says, syncPeer, target, server>>
  BY DEF Agrees, Disagrees, Untouched
<1>2. phase = "confirming" /\ waiting' \cup agreed' \subseteq waiting \cup agreed
  BY <1>1 DEF IInv, Vouching
<1>3. Vouching'
  BY <1>1, <1>2 DEF IInv, Vouching
<1>4. TypeOK'
  BY <1>1 DEF IInv, TypeOK, Untouched
<1>5. Counted' /\ Connections'
  BY <1>1, UntouchedKeeps DEF IsOpen
<1>6. Selected'
  BY <1>1 DEF IInv, Selected
<1> QED BY <1>3, <1>4, <1>5, <1>6 DEF IInv

LEMMA SettleInv == ASSUME IInv, Settle PROVE IInv'
<1>1. /\ phase = "confirming" /\ waiting = {} /\ Closed /\ UNCHANGED confirmation
      /\ phase' \in {"closed", "confirmed"}
      /\ phase' = "confirmed" => Cardinality(agreed) >= MinPeers
  BY DEF Settle
<1>2. syncPeer' = None /\ target' = target
  BY <1>1 DEF Closed
<1>3. Vouching'
  BY <1>1 DEF IInv, Vouching, confirmation
<1>4. TypeOK'
  BY <1>1, <1>2, ClosedKeeps DEF IInv, TypeOK, Statuses, confirmation
<1> QED BY <1>1, <1>2, <1>3, <1>4, ClosedKeeps DEF IInv, Selected

LEMMA CloseInv == ASSUME IInv, Close PROVE IInv'
<1>1. phase' = "closed" /\ Closed /\ waiting' = {} /\ agreed' = {} /\ server' = None /\ syncPeer' = None
      /\ target' = target
  BY DEF Close, Closed
<1>2. Vouching'
  BY <1>1 DEF Vouching
<1>3. TypeOK'
  BY <1>1, ClosedKeeps DEF IInv, TypeOK, Statuses
<1> QED BY <1>1, <1>2, <1>3, ClosedKeeps DEF IInv, Selected

LEMMA VersionInv ==
  ASSUME IInv, NEW p \in Peers, NEW version \in Versions, Version(p, version)
  PROVE  IInv'
<1>1. Untouched /\ UNCHANGED <<phase, syncPeer, target, confirmation>> /\ says' = [says EXCEPT ![p] = version]
  BY DEF Version, Untouched
<1>2. TypeOK'
  BY <1>1 DEF IInv, TypeOK, Untouched, confirmation
<1>3. Vouching'
  BY <1>1, ConfirmationKeeps DEF IInv
<1>4. Selected'
  BY <1>1 DEF IInv, Selected
<1> QED BY <1>1, <1>2, <1>3, <1>4, UntouchedKeeps DEF IInv, IsOpen

LEMMA RequestInv == ASSUME IInv, Request PROVE IInv'
<1>1. Untouched /\ UNCHANGED <<phase, says, target, confirmation>> /\ syncPeer' \in Selectable
      /\ phase = "syncing"
  BY DEF Request, Untouched
<1>2. Selectable \subseteq Peers \cup {None}
  BY DEF IInv, TypeOK, Selectable, Eligible, Full, Ready, Among
<1>3. TypeOK'
  BY <1>1, <1>2 DEF IInv, TypeOK, Untouched, confirmation
<1>4. Vouching'
  BY <1>1, ConfirmationKeeps DEF IInv
<1>5. Selected'
  BY <1>1 DEF Selected
<1> QED BY <1>1, <1>3, <1>4, <1>5, UntouchedKeeps DEF IInv, IsOpen

LEMMA NextInv == ASSUME IInv, [Next]_vars PROVE IInv'
<1>1. CASE Open
  BY <1>1, OpenInv
<1>2. ASSUME NEW hosts \in SUBSET Peers, Discovered(hosts) PROVE IInv'
  <2>1. PICK queue \in Queues(hosts) : keys' = keys \cup ToSet(queue) /\ Fill(queue, conn)
    BY <1>2 DEF Discovered
  <2>2. UNCHANGED <<says, syncPeer, target, confirmation>> /\ phase = "resolving" /\ phase' = "dialing" /\ IsOpen'
    BY <1>2 DEF Discovered, IsOpen
  <2> QED BY <2>1, <2>2, JoinInv
<1>3. ASSUME NEW p \in Peers, NEW hosts \in SUBSET Peers, Gossip(p, hosts) PROVE IInv'
  <2>1. PICK queue \in Queues(hosts) : keys' = keys \cup ToSet(queue) /\ Fill(queue, conn)
    BY <1>3 DEF Gossip
  <2>2. UNCHANGED <<says, syncPeer, target, confirmation>> /\ phase' = phase /\ IsOpen'
    BY <1>3 DEF Gossip, IsOpen
  <2> QED BY <2>1, <2>2, JoinInv
<1>4. ASSUME NEW p \in Peers, NEW version \in Versions, Handshake(p, version) PROVE IInv'
  BY <1>4, HandshakeInv
<1>5. ASSUME NEW p \in Peers, NEW version \in Versions, Version(p, version) PROVE IInv'
  BY <1>5, VersionInv
<1>6. ASSUME NEW p \in Peers, Drop(p) PROVE IInv'
  BY <1>6, DropInv
<1>7. ASSUME NEW p \in Peers, Agrees(p) \/ Disagrees(p) PROVE IInv'
  BY <1>7, AnswerInv
<1>8. CASE Request
  BY <1>8, RequestInv
<1>9. CASE LastPage
  BY <1>9, LastPageInv
<1>10. CASE Settle
  BY <1>10, SettleInv
<1>11. CASE Close
  BY <1>11, CloseInv
<1>12. CASE UNCHANGED vars
  <2>1. Untouched /\ UNCHANGED <<phase, says, syncPeer, target, confirmation>>
    BY <1>12 DEF vars, Untouched
  <2>2. TypeOK' /\ Vouching' /\ Selected'
    BY <2>1 DEF IInv, TypeOK, Vouching, Selected, Untouched, confirmation
  <2> QED BY <2>1, <2>2, UntouchedKeeps DEF IInv, IsOpen
<1> QED BY <1>1, <1>2, <1>3, <1>4, <1>5, <1>6, <1>7, <1>8, <1>9, <1>10, <1>11, <1>12
        DEF Next, Life

LEMMA Invariant == Spec => []IInv
<1>1. Init => IInv
  BY InitInv
<1>2. IInv /\ [Next]_vars => IInv'
  BY NextInv
<1> QED BY <1>1, <1>2, PTL DEF Spec

-----------------------------------------------------------------------------
\* The theorems.

\* The variables of the pool keep their types.
THEOREM TypeCorrect == Spec => []TypeOK
<1>1. IInv => TypeOK
  BY DEF IInv
<1> QED BY <1>1, Invariant, PTL

\* A confirmed tip has the word of enough peers of different ranges, none of them the
\* range of the peer that served the chain: as many ranges agree as peers do.
THEOREM ConfirmedByRanges == Spec => []TipIsVouchedFor
<1>1. IInv => TipIsVouchedFor
  <2> SUFFICES ASSUME IInv, phase = "confirmed"
               PROVE  Cardinality({Group[w] : w \in agreed} \ {Group[server]}) >= MinPeers
    BY DEF TipIsVouchedFor
  <2> DEFINE ranges == {Group[w] : w \in agreed} \ {Group[server]}
             f == [w \in agreed |-> Group[w]]
  <2>1. /\ \A v, w \in agreed : Group[v] = Group[w] => v = w
        /\ \A w \in agreed : Group[w] # Group[server]
        /\ Cardinality(agreed) >= MinPeers
    BY DEF IInv, Vouching
  <2>2. IsFiniteSet(agreed)
    BY PeersAssumption, FS_Subset DEF IInv, TypeOK
  <2>3. f \in Bijection(agreed, ranges)
    BY <2>1 DEF Bijection, Injection, Surjection, IsInjective
  <2>4. Cardinality(ranges) = Cardinality(agreed)
    <3>1. ExistsBijection(agreed, ranges)
      BY <2>3 DEF ExistsBijection
    <3> QED BY <2>2, <3>1, FS_Bijection
  <2> QED BY <2>1, <2>4
<1> QED BY <1>1, Invariant, PTL

\* No host is dialed twice, no limit is exceeded and no slot stays empty, after any
\* sequence of gossip, handshakes and drops.
THEOREM KeptFull == Spec => []PoolIsKeptFull
<1>1. IInv => PoolIsKeptFull
  <2> SUFFICES ASSUME IInv PROVE PoolIsKeptFull
    OBVIOUS
  <2>1. {p \in Peers : conn[p] # "none"} \cup ToSet(candidates) \subseteq keys
    BY DEF IInv, Counted
  <2>2. IsFiniteSet(keys) /\ Cardinality(keys) <= MaxCandidates
    BY PeersAssumption, FS_Subset DEF IInv, TypeOK, Counted
  <2>3. Cardinality({p \in Peers : conn[p] # "none"} \cup ToSet(candidates)) <= MaxCandidates
    <3> DEFINE known == {p \in Peers : conn[p] # "none"} \cup ToSet(candidates)
    <3>1. Cardinality(known) <= Cardinality(keys) /\ Cardinality(known) \in Nat /\ Cardinality(keys) \in Nat
      BY <2>1, <2>2, FS_Subset, FS_CardinalityType
    <3> QED BY <2>2, <3>1, SizeType
  <2>4. IsInjective(candidates) /\ \A p \in ToSet(candidates) : conn[p] = "none"
    BY DEF IInv, Counted
  <2>5. Cardinality(Connected) <= MaxPeers
        /\ (IsOpen => Cardinality(Connected) = MaxPeers \/ candidates = <<>>)
    BY DEF IInv, Connections
  <2> QED BY <2>3, <2>4, <2>5 DEF PoolIsKeptFull
<1> QED BY <1>1, Invariant, PTL

\* The sync peer is replaced only when it is gone or not full, and then by a full peer
\* whose height is not below the median of the full ones: less than half claim more.
LEMMA NewlySelected ==
  ASSUME NEW claims \in [Peers -> Versions \cup {Unknown}], NEW S \in SUBSET Peers,
         NEW D, D = {p \in S : claims[p].height # None}, D # {},
         NEW h \in Int, h >= Height(Middle([p \in D |-> claims[p].height]))
  PROVE  2 * Cardinality({p \in D : claims[p].height > h}) < Cardinality(D)
<1> DEFINE heights == [p \in D |-> claims[p].height]
           above == {p \in D : claims[p].height > h}
<1>1. IsFiniteSet(D) /\ heights \in [D -> Int] /\ \A p \in D : claims[p].height \in Int
  BY ClaimedHeights
<1>2. \A p \in D : heights[p] = claims[p].height
  OBVIOUS
<1>3. h >= Height(Middle(heights))
  OBVIOUS
<1> HIDE DEF heights
<1>4. Middle(heights) \in Int /\ 2 * Cardinality(Above(heights, Middle(heights))) < Cardinality(D)
  BY <1>1, MiddleHolds
<1>5. h >= Middle(heights)
  BY <1>3, <1>4, PeersAssumption DEF Height
<1>6. Above(heights, Middle(heights)) \in SUBSET D
  BY <1>1 DEF Above
<1>7. above \subseteq Above(heights, Middle(heights))
  BY <1>1, <1>2, <1>4, <1>5 DEF Above
<1>8. IsFiniteSet(Above(heights, Middle(heights))) /\ Cardinality(Above(heights, Middle(heights))) \in Nat
      /\ Cardinality(D) \in Nat
  BY <1>1, <1>6, PartsCounted
<1>9. Cardinality(above) <= Cardinality(Above(heights, Middle(heights))) /\ Cardinality(above) \in Nat
  BY <1>7, <1>8, FS_Subset, FS_CardinalityType
<1> HIDE DEF above
<1>10. 2 * Cardinality(above) < Cardinality(D)
  BY <1>4, <1>8, <1>9
<1> QED BY <1>10 DEF above

\* The conclusion of SyncPeerIsSound about a step.
Sound ==
    syncPeer' # syncPeer =>
        /\ syncPeer \in Full /\ IsOpen' => conn'[syncPeer] # "ready"
        /\ syncPeer' # None =>
             LET claimed == Claimed(Full)'
                 above == {p \in claimed : says'[p].height > Height(says'[syncPeer'].height)}
             IN  /\ syncPeer' \in Full'
                 /\ claimed = {} \/ 2 * Cardinality(above) < Cardinality(claimed)

\* A peer that is eligible after the step.
LEMMA EligibleIsSound ==
  ASSUME IInv', syncPeer' \in Eligible'
  PROVE  LET claimed == Claimed(Full)'
             above == {p \in claimed : says'[p].height > Height(says'[syncPeer'].height)}
         IN  /\ syncPeer' \in Full'
             /\ claimed = {} \/ 2 * Cardinality(above) < Cardinality(claimed)
<1> DEFINE D == Claimed(Full)'
           h == Height(says'[syncPeer'].height)
           heights == [q \in D |-> says'[q].height]
<1>1. says' \in [Peers -> Versions \cup {Unknown}] /\ Full' \in SUBSET Peers
  BY DEF IInv, TypeOK, Full, Ready, Among
<1>2. syncPeer' \in Full' /\ h >= Height(Median(Full)')
  BY DEF Eligible
<1>3. D = {p \in Full' : says'[p].height # None}
  BY DEF Claimed
<1>4. h \in Int
  <2>1. says'[syncPeer'] \in Versions \cup {Unknown}
    BY <1>1, <1>2
  <2> QED BY <2>1, ClaimsAssumption DEF Unknown, Height
<1>5. ASSUME D # {}
      PROVE  2 * Cardinality({p \in D : says'[p].height > h}) < Cardinality(D)
  <2>1. Median(Full)' = Middle(heights)
    BY <1>5 DEF Median
  <2>2. h >= Height(Middle(heights))
    BY <1>2, <2>1
  <2> HIDE DEF D, h
  <2> QED BY <1>1, <1>3, <1>4, <1>5, <2>2, NewlySelected
<1> QED BY <1>2, <1>5

\* The download is given to, and taken from, a peer only for cause, and never to one that
\* claims less than most full peers.
THEOREM SelectedForCause == Spec => SyncPeerIsSound
<1>1. ASSUME IInv, IInv', [Next]_vars PROVE Sound
  <2> SUFFICES ASSUME syncPeer' # syncPeer PROVE Sound
    BY DEF Sound
  <2>1. ASSUME NEW p \in Peers, NEW version \in Versions, Handshake(p, version) PROVE Sound
    <3>1. syncPeer = None /\ syncPeer' \in Eligible'
      BY <1>1, <2>1 DEF Handshake, IInv, Selected
    <3>2. syncPeer \notin Full
      BY <3>1, PeersAssumption DEF Full, Ready, Among
    <3> QED BY <1>1, <3>1, <3>2, EligibleIsSound DEF Sound
  <2>2. CASE Request
    <3>1. syncPeer' \in Eligible /\ syncPeer \notin Full
      BY <2>2 DEF Request, Selectable
    <3>2. Eligible' = Eligible
      BY <2>2 DEF Request, Eligible, Median, Claimed, Full, Ready, Among
    <3> QED BY <1>1, <3>1, <3>2, EligibleIsSound DEF Sound
  <2>3. ASSUME NEW p \in Peers, Drop(p) PROVE Sound
    <3>1. syncPeer = p /\ syncPeer' = None
      BY <2>3 DEF Drop
    <3>2. conn'[p] # "ready"
      BY <1>1, <2>3 DEF Drop, Fill, IInv, TypeOK
    <3> QED BY <3>1, <3>2 DEF Sound
  <2>4. CASE Close \/ Settle
    <3>1. syncPeer' = None /\ ~IsOpen'
      BY <2>4 DEF Close, Settle, Closed, IsOpen
    <3> QED BY <3>1 DEF Sound
  <2>5. CASE Open \/ LastPage \/ UNCHANGED vars
    BY <2>5 DEF Open, LastPage, vars
  <2>6. ASSUME NEW hosts \in SUBSET Peers, Discovered(hosts) PROVE FALSE
    BY <2>6 DEF Discovered
  <2>7. ASSUME NEW p \in Peers, NEW hosts \in SUBSET Peers, Gossip(p, hosts) PROVE FALSE
    BY <2>7 DEF Gossip
  <2>8. ASSUME NEW p \in Peers, NEW version \in Versions, Version(p, version) PROVE FALSE
    BY <2>8 DEF Version
  <2>9. ASSUME NEW p \in Peers, Agrees(p) \/ Disagrees(p) PROVE FALSE
    BY <2>9 DEF Agrees, Disagrees
  <2> QED BY <1>1, <2>1, <2>2, <2>3, <2>4, <2>5, <2>6, <2>7, <2>8, <2>9 DEF Next, Life
<1>2. IInv /\ IInv' /\ [Next]_vars => [Sound]_vars
  BY <1>1
<1> QED BY <1>2, Invariant, PTL DEF Spec, SyncPeerIsSound, Sound

\* The conclusion of ClaimsAreOutvoted about a step.
Outvoted ==
    \A p \in Peers : conn[p] = "dialing" /\ conn'[p] = "ready" =>
        LET claimed == Claimed(Ready)'
            half(S) == 2 * Cardinality(S) > Cardinality(claimed)
        IN  \A q \in claimed :
                LET h == says'[q].height
                IN  /\ half({r \in claimed : says'[r].height <= h}) => target' <= h
                    /\ half({r \in claimed : says'[r].height >= h}) => target' >= h

\* The network height lies between what any more than half of the claims say.
LEMMA TargetIsHeld ==
  ASSUME NEW claims \in [Peers -> Versions \cup {Unknown}], NEW D \in SUBSET Peers,
         \A p \in D : claims[p].height # None,
         NEW q \in D
  PROVE  /\ 2 * Cardinality({r \in D : claims[r].height <= claims[q].height}) > Cardinality(D)
              => Middle([p \in D |-> claims[p].height]) <= claims[q].height
         /\ 2 * Cardinality({r \in D : claims[r].height >= claims[q].height}) > Cardinality(D)
              => Middle([p \in D |-> claims[p].height]) >= claims[q].height
<1> DEFINE heights == [p \in D |-> claims[p].height]
           h == claims[q].height
<1>1. IsFiniteSet(D) /\ heights \in [D -> Int] /\ h \in Int
  BY ClaimedHeights
<1>2. /\ {r \in D : claims[r].height <= h} = {r \in D : heights[r] <= h}
      /\ {r \in D : claims[r].height >= h} = {r \in D : heights[r] >= h}
  OBVIOUS
<1> HIDE DEF heights, h
<1>3. /\ 2 * Cardinality({r \in D : heights[r] <= h}) > Cardinality(D) => Middle(heights) <= h
      /\ 2 * Cardinality({r \in D : heights[r] >= h}) > Cardinality(D) => Middle(heights) >= h
  BY <1>1, MiddleHolds
<1>4. /\ 2 * Cardinality({r \in D : claims[r].height <= h}) > Cardinality(D) => Middle(heights) <= h
      /\ 2 * Cardinality({r \in D : claims[r].height >= h}) > Cardinality(D) => Middle(heights) >= h
  BY <1>2, <1>3
<1> QED BY <1>4 DEF heights, h

\* Fewer than half of those that claim a height do not move the network height, whatever
\* they claim and whoever else connects.
THEOREM HeightIsOutvoted == Spec => ClaimsAreOutvoted
<1>1. ASSUME IInv, IInv', NEW p \in Peers, NEW version \in Versions, Handshake(p, version)
      PROVE  Outvoted
  <2> DEFINE D == Claimed(Ready)'
             heights == [r \in D |-> says'[r].height]
  <2>1. says' \in [Peers -> Versions \cup {Unknown}] /\ target' = Median(Ready)'
    BY <1>1 DEF Handshake, IInv, TypeOK
  <2>2. D \in SUBSET Peers /\ \A r \in D : says'[r].height # None
    BY DEF Claimed, Ready, Among
  <2>3. D # {} => target' = Middle(heights)
    BY <2>1 DEF Median
  <2>4. ASSUME NEW q \in D
        PROVE  /\ 2 * Cardinality({r \in D : says'[r].height <= says'[q].height}) > Cardinality(D)
                    => target' <= says'[q].height
               /\ 2 * Cardinality({r \in D : says'[r].height >= says'[q].height}) > Cardinality(D)
                    => target' >= says'[q].height
    <3>1. target' = Middle(heights)
      BY <2>3, <2>4
    <3> HIDE DEF D
    <3> QED BY <2>1, <2>2, <3>1, TargetIsHeld
  <2> QED BY <2>4 DEF Outvoted
<1>2. ASSUME IInv, IInv', [Next]_vars PROVE Outvoted
  <2>1. ASSUME NEW p \in Peers, NEW version \in Versions, Handshake(p, version) PROVE Outvoted
    BY <1>1, <1>2, <2>1
  <2>2. CASE UNCHANGED conn
    BY <2>2 DEF Outvoted
  <2>3. ASSUME NEW queue, Fill(queue, conn) PROVE Outvoted
    BY <2>3 DEF Fill, Outvoted
  <2>4. ASSUME NEW p \in Peers, Drop(p) PROVE Outvoted
    <3>1. \A q \in Peers : conn'[q] = "ready" => conn[q] = "ready"
      BY <2>4 DEF Drop, Fill, IInv, TypeOK
    <3> QED BY <3>1 DEF Outvoted
  <2>5. CASE Close \/ Settle
    BY <2>5 DEF Close, Settle, Closed, Outvoted
  <2>6. ASSUME NEW hosts \in SUBSET Peers, Discovered(hosts) PROVE Outvoted
    BY <2>3, <2>6 DEF Discovered
  <2>7. ASSUME NEW p \in Peers, NEW hosts \in SUBSET Peers, Gossip(p, hosts) PROVE Outvoted
    BY <2>3, <2>7 DEF Gossip
  <2>8. ASSUME NEW p \in Peers, NEW version \in Versions, Version(p, version) PROVE Outvoted
    BY <2>2, <2>8 DEF Version
  <2>9. ASSUME NEW p \in Peers, Agrees(p) \/ Disagrees(p) PROVE Outvoted
    BY <2>2, <2>9 DEF Agrees, Disagrees
  <2>10. CASE Open \/ Request \/ LastPage \/ UNCHANGED vars
    BY <2>2, <2>10 DEF Open, Request, LastPage, vars
  <2> QED BY <1>2, <2>1, <2>4, <2>5, <2>6, <2>7, <2>8, <2>9, <2>10 DEF Next, Life
<1>3. IInv /\ IInv' /\ [Next]_vars => [Outvoted]_vars
  BY <1>2
<1> QED BY <1>3, Invariant, PTL DEF Spec, ClaimsAreOutvoted, Outvoted
=============================================================================
