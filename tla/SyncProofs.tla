----------------------------- MODULE SyncProofs -----------------------------
(***************************************************************************)
(* Proofs about PepenetSync, for every tree of blocks, every page and      *)
(* batch size, and any number of batches of stopped attempts; and about    *)
(* SyncSupervisor, which drives it.                                        *)
(***************************************************************************)
EXTENDS SyncSupervisor, FiniteSetTheorems, TLAPS

\* What is behind the properties, of chains of blocks by height.
IsIndex(chain) == \E n \in Nat :
    /\ DOMAIN chain = 1 .. n
    /\ \A h \in 1 .. n : chain[h] \in Valid /\ Parent[chain[h]] = At(chain, h - 1)

\* A linked run of validated blocks that continues a chain.
RunFrom(run, low, high, chain) ==
    /\ low \in Nat \ {0} /\ high \in Nat
    /\ low - 1 \in DOMAIN chain \cup {0}
    /\ DOMAIN run = low .. high
    /\ \A h \in low .. high :
        /\ run[h] \in Valid
        /\ Parent[run[h]] = IF h = low THEN At(chain, low - 1) ELSE run[h - 1]

Follows(run, chain) == \E low, high \in Nat : low <= high /\ RunFrom(run, low, high, chain)

Extends(chain, part) == \A h \in DOMAIN part : h \in DOMAIN chain /\ chain[h] = part[h]

Chains == UNION {[D -> Blocks] : D \in SUBSET Nat}
Posts == [batch : Chains, result : Results, live : BOOLEAN]

\* The batches continue the index, and what was answered is in it.
Mailbox == \A i \in 1 .. Len(mailbox) :
    /\ Follows(mailbox[i].batch, blocks)
    /\ mailbox[i].result = "committed" => Extends(blocks, mailbox[i].batch)

\* At most one batch is of the current attempt: the first blocks of its page.
Live == \A i \in 1 .. Len(mailbox) : mailbox[i].live =>
    /\ phase = "running"
    /\ \A j \in 1 .. Len(mailbox) : mailbox[j].live => j = i
    /\ \E high \in height + 1 .. announced :
        /\ DOMAIN mailbox[i].batch = height + 1 .. high
        /\ \A h \in height + 1 .. high : mailbox[i].batch[h] = pending[h]

\* The page of an attempt continues what it saw committed, and its locator is the end of both.
Staged ==
    /\ phase # "running" => pending = Empty
    /\ phase \in {"reading", "running", "synced"} =>
        /\ RunFrom(pending, height + 1, announced, blocks)
        /\ height <= announced
        /\ height = announced => tip = At(blocks, height)

IInv ==
    /\ TypeOK /\ blocks \in Chains /\ pending \in Chains /\ mailbox \in Seq(Posts)
    /\ IsIndex(blocks) /\ Mailbox /\ Live /\ Staged

-----------------------------------------------------------------------------
\* Facts about chains.

LEMMA ChainType == ASSUME NEW f \in Chains PROVE IsChain(f)
BY DEF Chains, IsChain

LEMMA ChainIntro ==
  ASSUME NEW D \in SUBSET Nat, NEW f \in [D -> Blocks]
  PROVE  f \in Chains /\ DOMAIN f = D
BY DEF Chains

LEMMA EmptyIs == DOMAIN Empty = {} /\ Empty \in Chains /\ IsChain(Empty) /\ Highest(Empty) = 0
BY DEF Empty, Chains, IsChain, Highest

LEMMA HighestIs ==
  ASSUME NEW f, NEW a \in Nat, NEW b \in Nat, DOMAIN f = a .. b, a <= b
  PROVE  Highest(f) = b
<1>1. f # Empty
  BY DEF Empty
<1>2. b \in DOMAIN f /\ \A k \in DOMAIN f : k <= b
  OBVIOUS
<1>3. \A h \in DOMAIN f : b <= h => h = b
  OBVIOUS
<1> QED BY <1>1, <1>2, <1>3 DEF Highest

\* The highest block of the index is its last, or there is none.
LEMMA HighestOfIndex ==
  ASSUME NEW f \in Chains, IsIndex(f)
  PROVE  Highest(f) \in Nat /\ Highest(f) \in DOMAIN f \cup {0}
<1>1. PICK n \in Nat : DOMAIN f = 1 .. n
  BY DEF IsIndex
<1>2. CASE n = 0
  <2>1. DOMAIN f = {}
    BY <1>1, <1>2
  <2>2. f = Empty
    BY <2>1 DEF Chains, Empty
  <2> QED BY <2>2, EmptyIs
<1>3. CASE n > 0
  <2>1. Highest(f) = n
    BY <1>1, <1>3, HighestIs
  <2> QED BY <1>1, <1>3, <2>1
<1> QED BY <1>2, <1>3

LEMMA AtExtends ==
  ASSUME NEW c, NEW d, Extends(d, c), NEW h \in DOMAIN c \cup {0}
  PROVE  At(d, h) = At(c, h) /\ h \in DOMAIN d \cup {0}
BY DEF At, Extends

LEMMA RunStable ==
  ASSUME NEW run, NEW low, NEW high, NEW c, NEW d, Extends(d, c), RunFrom(run, low, high, c)
  PROVE  RunFrom(run, low, high, d)
<1>1. At(d, low - 1) = At(c, low - 1) /\ low - 1 \in DOMAIN d \cup {0}
  BY AtExtends DEF RunFrom
<1> QED BY <1>1 DEF RunFrom

LEMMA FollowsStable ==
  ASSUME NEW run, NEW c, NEW d, Extends(d, c), Follows(run, c)
  PROVE  Follows(run, d)
BY RunStable DEF Follows

\* A batch that conflicts with nothing makes the index a longer one.
LEMMA MergedIsIndex ==
  ASSUME NEW c, NEW run, NEW d, IsIndex(c), Follows(run, c),
         \A h \in DOMAIN run \cap DOMAIN c : c[h] = run[h],
         d = [h \in DOMAIN c \cup DOMAIN run |-> IF h \in DOMAIN run THEN run[h] ELSE c[h]]
  PROVE  IsIndex(d) /\ Extends(d, c) /\ Extends(d, run)
<1>1. PICK n \in Nat : DOMAIN c = 1 .. n /\ \A h \in 1 .. n : c[h] \in Valid /\ Parent[c[h]] = At(c, h - 1)
  BY DEF IsIndex
<1>2. PICK low \in Nat, high \in Nat : low <= high /\ RunFrom(run, low, high, c)
  BY DEF Follows
<1>3. /\ low >= 1 /\ low - 1 <= n /\ DOMAIN run = low .. high
      /\ \A h \in low .. high : run[h] \in Valid
      /\ \A h \in low .. high : Parent[run[h]] = IF h = low THEN At(c, low - 1) ELSE run[h - 1]
  BY <1>1, <1>2 DEF RunFrom
<1>4. Extends(d, c) /\ Extends(d, run)
  BY DEF Extends
<1>5. PICK m \in Nat : m = IF n < high THEN high ELSE n
  BY <1>2
<1>6. DOMAIN d = 1 .. m
  BY <1>1, <1>3, <1>5
<1>7. ASSUME NEW h \in 1 .. m
      PROVE  d[h] \in Valid /\ Parent[d[h]] = At(d, h - 1)
  <2>1. CASE h \in DOMAIN run
    <3>1. d[h] = run[h] /\ run[h] \in Valid
      BY <1>3, <2>1
    <3>2. CASE h = low
      <4>1. low - 1 \in DOMAIN c \cup {0}
        BY <1>2 DEF RunFrom
      <4>2. At(d, low - 1) = At(c, low - 1)
        BY <1>4, <4>1, AtExtends
      <4> QED BY <1>3, <2>1, <3>1, <3>2, <4>2
    <3>3. CASE h # low
      <4>1. h - 1 \in DOMAIN run /\ h - 1 # 0
        BY <1>3, <2>1, <3>3
      <4> QED BY <1>3, <1>4, <2>1, <3>1, <3>3, <4>1 DEF At, Extends
    <3> QED BY <3>2, <3>3
  <2>2. CASE h \notin DOMAIN run
    <3>1. h \in DOMAIN c /\ d[h] = c[h]
      BY <1>6, <2>2
    <3>2. h - 1 \in DOMAIN c \cup {0}
      BY <1>1, <3>1
    <3> QED BY <1>1, <1>4, <3>1, <3>2, AtExtends
  <2> QED BY <2>1, <2>2
<1>8. IsIndex(d)
  BY <1>5, <1>6, <1>7 DEF IsIndex
<1> QED BY <1>4, <1>8

LEMMA IndexGivesChain == ASSUME NEW f, IsIndex(f), f = blocks PROVE IndexIsAChain
<1>1. PICK n \in Nat : DOMAIN f = 1 .. n /\ \A h \in 1 .. n : f[h] \in Valid /\ Parent[f[h]] = At(f, h - 1)
  BY DEF IsIndex
<1> QED BY <1>1 DEF IndexIsAChain

\* The bodies that continue the index are an interval, since they are downward closed.
LEMMA ContinuingIsInterval ==
  ASSUME NEW a \in Nat, NEW m \in Nat,
         NEW S \in SUBSET (a + 1 .. a + m), S # {}, \A h \in S : a + 1 .. h \subseteq S
  PROVE  \E high \in Nat : a + 1 <= high /\ S = a + 1 .. high
<1>1. IsFiniteSet(a + 1 .. a + m) /\ S \in SUBSET (a + 1 .. a + m)
  BY FS_Interval
<1>2. IsFiniteSet(S)
  BY <1>1, FS_Subset
<1>3. PICK k \in Nat : k = Cardinality(S)
  BY <1>2, FS_CardinalityType
<1>5. \A h \in S : h <= a + k
  <2> TAKE h \in S
  <2>1. h \in Nat /\ h >= a + 1
    OBVIOUS
  <2>2. Cardinality(a + 1 .. h) = h - a
    BY <2>1, FS_Interval
  <2>3. Cardinality(a + 1 .. h) <= k
    BY <1>2, <1>3, FS_Subset
  <2> QED BY <2>1, <2>2, <2>3
<1>6. S \in SUBSET (a + 1 .. a + k)
  BY <1>5
<1>7. IsFiniteSet(a + 1 .. a + k) /\ Cardinality(a + 1 .. a + k) = k
  <2>1. a + 1 \in Int /\ a + k \in Int
    OBVIOUS
  <2> QED BY <2>1, FS_Interval
<1>8. S = a + 1 .. a + k
  BY <1>3, <1>6, <1>7, FS_Subset
<1>9. k >= 1
  BY <1>8
<1> QED BY <1>8, <1>9

-----------------------------------------------------------------------------
\* The steps that several actions share.

LEMMA ConstantsType == MaxPage \in Nat \ {0} /\ MaxBatch \in Nat \ {0} /\ Pages \subseteq Seq(Blocks)
BY SizeAssumption, PageAssumption

LEMMA NothingStaged ==
  ASSUME TypeOK, Staged, pending = Empty, phase \in {"reading", "running", "synced"}
  PROVE  height = announced /\ tip = At(blocks, height) /\ height \in DOMAIN blocks \cup {0}
<1>1. DOMAIN pending = height + 1 .. announced /\ height <= announced
  BY DEF Staged, RunFrom
<1>2. height \in Nat /\ announced \in Nat
  BY DEF TypeOK
<1>3. height = announced
  BY <1>1, <1>2, EmptyIs
<1> QED BY <1>2, <1>3 DEF Staged, RunFrom

LEMMA NoRun ==
  ASSUME NEW chain, NEW h \in Nat, h \in DOMAIN chain \cup {0}
  PROVE  RunFrom(Empty, h + 1, h, chain)
<1>1. h + 1 .. h = {}
  OBVIOUS
<1> QED BY <1>1, EmptyIs DEF RunFrom

\* Entries that were taken over keep what is known of them while the index grows.
LEMMA EntriesKept ==
  ASSUME NEW posts, NEW old, NEW c, NEW d, Extends(d, c),
         \A i \in 1 .. Len(old) :
            /\ Follows(old[i].batch, c)
            /\ old[i].result = "committed" => Extends(c, old[i].batch),
         \A i \in 1 .. Len(posts) : \E j \in 1 .. Len(old) :
            posts[i].batch = old[j].batch /\ posts[i].result = old[j].result
  PROVE  \A i \in 1 .. Len(posts) :
            /\ Follows(posts[i].batch, d)
            /\ posts[i].result = "committed" => Extends(d, posts[i].batch)
<1>1. \A p : Extends(c, p) => Extends(d, p)
  BY DEF Extends
<1>2. \A p : Follows(p, c) => Follows(p, d)
  BY FollowsStable
<1>3. ASSUME NEW i \in 1 .. Len(posts)
      PROVE  Follows(posts[i].batch, d) /\ (posts[i].result = "committed" => Extends(d, posts[i].batch))
  <2>1. PICK j \in 1 .. Len(old) : posts[i].batch = old[j].batch /\ posts[i].result = old[j].result
    OBVIOUS
  <2>2. Follows(old[j].batch, d)
    BY <1>2, <2>1
  <2>3. old[j].result = "committed" => Extends(d, old[j].batch)
    BY <1>1, <2>1
  <2> QED BY <2>1, <2>2, <2>3
<1> QED BY <1>3

LEMMA ExtendsItself == \A c : Extends(c, c)
BY DEF Extends

LEMMA EndInv ==
  ASSUME IInv, NEW reason \in {"off", "synced", "failed", "reorg"}, NEW posts \in Seq(Posts), End(reason, posts),
         \A i \in 1 .. Len(posts) : \E j \in 1 .. Len(mailbox) : posts[i] = mailbox[j],
         reason = "synced" => phase = "running" /\ pending = Empty
  PROVE  IInv'
<1>1. mailbox' \in Seq(Posts) /\ Len(mailbox') = Len(posts)
      /\ \A i \in 1 .. Len(posts) :
          /\ mailbox'[i].batch = posts[i].batch
          /\ mailbox'[i].result = posts[i].result
          /\ mailbox'[i].live = FALSE
  <2>1. Len(posts) \in Nat /\ \A i \in 1 .. Len(posts) : posts[i] \in Posts
    OBVIOUS
  <2>2. mailbox' = [i \in 1 .. Len(posts) |-> [posts[i] EXCEPT !.live = FALSE]]
    BY DEF End
  <2>3. \A i \in 1 .. Len(posts) : [posts[i] EXCEPT !.live = FALSE] \in Posts
    BY <2>1 DEF Posts
  <2>4. mailbox' \in [1 .. Len(posts) -> Posts]
    BY <2>2, <2>3
  <2>5. mailbox' \in Seq(Posts) /\ Len(mailbox') = Len(posts)
    BY <2>1, <2>4
  <2> QED BY <2>1, <2>2, <2>5 DEF Posts
<1>2. /\ blocks' = blocks /\ height' = height /\ announced' = announced /\ tip' = tip /\ recent' = recent
      /\ phase' = reason /\ pending' = Empty /\ bodies' = {} /\ inFlight' = FALSE /\ timers' = {}
  BY DEF End
<1>3. TypeOK'
  <2>1. \A i \in 1 .. Len(mailbox') : IsPost(mailbox'[i])
    <3> TAKE i \in 1 .. Len(mailbox')
    <3>1. mailbox'[i] \in Posts
      BY <1>1
    <3> QED BY <3>1, ChainType DEF Posts, IsPost
  <2> QED BY <1>2, <2>1, EmptyIs DEF IInv, TypeOK, Phases
<1>4. Mailbox'
  <2>1. \A i \in 1 .. Len(mailbox') : \E j \in 1 .. Len(mailbox) :
          mailbox'[i].batch = mailbox[j].batch /\ mailbox'[i].result = mailbox[j].result
    BY <1>1
  <2>2. Extends(blocks', blocks)
    BY <1>2, ExtendsItself
  <2>3. \A i \in 1 .. Len(mailbox) :
          /\ Follows(mailbox[i].batch, blocks)
          /\ mailbox[i].result = "committed" => Extends(blocks, mailbox[i].batch)
    BY DEF IInv, Mailbox
  <2>4. \A i \in 1 .. Len(mailbox') :
          /\ Follows(mailbox'[i].batch, blocks')
          /\ mailbox'[i].result = "committed" => Extends(blocks', mailbox'[i].batch)
    BY <2>1, <2>2, <2>3, EntriesKept
  <2> QED BY <2>4 DEF Mailbox
<1>5. Live'
  BY <1>1 DEF Live
<1>6. Staged'
  <2>1. CASE reason = "synced"
    <3>1. height = announced /\ tip = At(blocks, height) /\ height \in DOMAIN blocks \cup {0} /\ height \in Nat
      BY <2>1, NothingStaged DEF IInv, TypeOK
    <3>2. RunFrom(Empty, height + 1, height, blocks)
      BY <3>1, NoRun
    <3>3. RunFrom(pending', height' + 1, announced', blocks')
      BY <1>2, <3>1, <3>2
    <3>4. height' = announced' /\ height' <= announced' /\ tip' = At(blocks', height')
      BY <1>2, <3>1
    <3> QED BY <1>2, <3>3, <3>4 DEF Staged
  <2>2. CASE reason # "synced"
    BY <1>2, <2>2 DEF Staged
  <2> QED BY <2>1, <2>2
<1>7. blocks' \in Chains /\ pending' \in Chains /\ IsIndex(blocks')
  BY <1>2, EmptyIs DEF IInv
<1> QED BY <1>1, <1>3, <1>4, <1>5, <1>6, <1>7 DEF IInv

\* The bodies at hand that continue a chain are the beginning of the page.
LEMMA DrainedRun ==
  ASSUME NEW a \in Nat, NEW n \in Nat, NEW page \in Chains, NEW chain, RunFrom(page, a + 1, n, chain),
         NEW S \in SUBSET (a + 1 .. a + MaxBatch), S # {}, S \subseteq DOMAIN page,
         \A h \in S : a + 1 .. h \subseteq S,
         NEW run, run = [h \in S |-> page[h]]
  PROVE  /\ run \in Chains /\ Follows(run, chain)
         /\ \E high \in a + 1 .. n :
             DOMAIN run = a + 1 .. high /\ \A h \in a + 1 .. high : run[h] = page[h]
<1>1. MaxBatch \in Nat
  BY ConstantsType
<1>2. PICK high \in Nat : a + 1 <= high /\ S = a + 1 .. high
  BY <1>1, ContinuingIsInterval
<1>4. DOMAIN page = a + 1 .. n
  BY DEF RunFrom
<1>5. high \in a + 1 .. n
  <2>1. high \in a + 1 .. high
    BY <1>2
  <2> QED BY <1>2, <1>4, <2>1
<1>6. DOMAIN run = a + 1 .. high /\ \A h \in a + 1 .. high : run[h] = page[h]
  BY <1>2
<1>7. run \in Chains
  <2>1. \A h \in S : run[h] \in Blocks
    BY ChainType DEF IsChain
  <2>2. S \in SUBSET Nat
    BY <1>2
  <2>3. run \in [S -> Blocks]
    BY <2>1
  <2> QED BY <2>2, <2>3, ChainIntro
<1>8. RunFrom(run, a + 1, high, chain)
  <2>1. \A h \in a + 1 .. high : h \in a + 1 .. n /\ (h # a + 1 => h - 1 \in a + 1 .. high)
    BY <1>5
  <2>2. a + 1 \in Nat \ {0} /\ high \in Nat
    BY <1>2
  <2>3. /\ a + 1 - 1 \in DOMAIN chain \cup {0}
        /\ \A h \in a + 1 .. n :
              /\ page[h] \in Valid
              /\ Parent[page[h]] = IF h = a + 1 THEN At(chain, a + 1 - 1) ELSE page[h - 1]
    BY DEF RunFrom
  <2>4. \A h \in a + 1 .. high :
              /\ run[h] \in Valid
              /\ Parent[run[h]] = IF h = a + 1 THEN At(chain, a + 1 - 1) ELSE run[h - 1]
    BY <1>6, <2>1, <2>3
  <2>5. PICK low \in Nat \ {0} : low = a + 1
    BY <2>2
  <2>6. RunFrom(run, low, high, chain)
    BY <1>6, <2>2, <2>3, <2>4, <2>5 DEF RunFrom
  <2> QED BY <2>5, <2>6
<1>9. Follows(run, chain)
  <2>1. a + 1 \in Nat
    OBVIOUS
  <2> QED BY <1>2, <1>8, <2>1 DEF Follows
<1> QED BY <1>5, <1>6, <1>7, <1>9

LEMMA AppendIs ==
  ASSUME NEW T, NEW s \in Seq(T), NEW e \in T, NEW r, r = Append(s, e)
  PROVE  /\ r \in Seq(T) /\ Len(r) = Len(s) + 1 /\ Len(s) \in Nat /\ r[Len(s) + 1] = e
         /\ \A i \in 1 .. Len(s) : r[i] = s[i]
         /\ \A i \in 1 .. Len(r) : i = Len(s) + 1 \/ i \in 1 .. Len(s)
OBVIOUS

\* Numbers that are reached from a without a gap within B form a gapless run of B.
LEMMA Gapless ==
  ASSUME NEW a \in Nat, NEW m \in Nat, NEW B, NEW C,
         \A h : h \in C <=> h \in a + 1 .. a + m /\ a + 1 .. h \subseteq B
  PROVE  C \in SUBSET (a + 1 .. a + m) /\ C \subseteq B /\ \A h \in C : a + 1 .. h \subseteq C
<1>1. C \in SUBSET (a + 1 .. a + m)
  OBVIOUS
<1>2. C \subseteq B
  <2> SUFFICES ASSUME NEW h \in C PROVE h \in B
    OBVIOUS
  <2>1. h \in a + 1 .. h
    BY <1>1
  <2> QED BY <2>1
<1>3. ASSUME NEW h \in C, NEW k \in a + 1 .. h PROVE k \in C
  <2>1. k \in a + 1 .. a + m
    BY <1>1
  <2>2. a + 1 .. k \subseteq a + 1 .. h
    BY <1>1
  <2> QED BY <2>1, <2>2
<1> QED BY <1>1, <1>2, <1>3

\* What drainPending() posts is the beginning of the page.
LEMMA DrainInv ==
  ASSUME NEW posts \in Seq(Posts), NEW armed, Drain(posts, armed),
         phase' = "running", Staged', height' \in Nat, announced' \in Nat,
         pending' \in Chains, bodies' \subseteq DOMAIN pending',
         \A i \in 1 .. Len(posts) :
            /\ ~posts[i].live /\ Follows(posts[i].batch, blocks')
            /\ posts[i].result = "committed" => Extends(blocks', posts[i].batch)
  PROVE  /\ mailbox' \in Seq(Posts) /\ Mailbox' /\ Live'
         /\ inFlight' \in {inFlight, TRUE} /\ timers' \subseteq armed \cup {"headers"}
<1>1. CASE mailbox' = posts /\ inFlight' \in {inFlight, TRUE} /\ timers' \subseteq armed \cup {"headers"}
  BY <1>1 DEF Mailbox, Live
<1>2. CASE Continuing # {} /\ timers' = armed /\ UNCHANGED inFlight
           /\ mailbox' = Append(posts, [batch |-> [h \in Continuing |-> pending'[h]],
                                        result |-> "posted", live |-> TRUE])
  <2>1. PICK run : run = [h \in Continuing |-> pending'[h]]
    OBVIOUS
  <2>2. RunFrom(pending', height' + 1, announced', blocks')
    BY DEF Staged
  <2>3. /\ Continuing \in SUBSET (height' + 1 .. height' + MaxBatch)
        /\ Continuing \subseteq DOMAIN pending' /\ \A h \in Continuing : height' + 1 .. h \subseteq Continuing
    <3>1. \A h : h \in Continuing <=> h \in height' + 1 .. height' + MaxBatch /\ height' + 1 .. h \subseteq bodies'
      BY DEF Continuing
    <3>2. MaxBatch \in Nat
      BY ConstantsType
    <3>3. Continuing \in SUBSET (height' + 1 .. height' + MaxBatch) /\ Continuing \subseteq bodies'
          /\ \A h \in Continuing : height' + 1 .. h \subseteq Continuing
      BY <3>1, <3>2, Gapless
    <3> QED BY <3>3
  <2>4. /\ run \in Chains /\ Follows(run, blocks')
        /\ \E high \in height' + 1 .. announced' :
            DOMAIN run = height' + 1 .. high /\ \A h \in height' + 1 .. high : run[h] = pending'[h]
    BY <1>2, <2>1, <2>2, <2>3, DrainedRun
  <2>5. PICK post : post = [batch |-> run, result |-> "posted", live |-> TRUE]
    OBVIOUS
  <2>6. post \in Posts /\ post.batch = run /\ post.result = "posted"
    BY <2>4, <2>5 DEF Posts, Results
  <2>7. /\ mailbox' \in Seq(Posts) /\ Len(mailbox') = Len(posts) + 1 /\ Len(posts) \in Nat
        /\ mailbox'[Len(posts) + 1] = post
        /\ \A i \in 1 .. Len(posts) : mailbox'[i] = posts[i]
        /\ \A i \in 1 .. Len(mailbox') : i = Len(posts) + 1 \/ i \in 1 .. Len(posts)
    <3>1. mailbox' = Append(posts, post)
      BY <1>2, <2>1, <2>5
    <3> QED BY <2>6, <3>1, AppendIs
  <2>8. Mailbox'
    BY <2>4, <2>6, <2>7 DEF Mailbox
  <2>9. Live'
    BY <2>4, <2>6, <2>7 DEF Live
  <2> QED BY <1>2, <2>7, <2>8, <2>9
<1> QED BY <1>1, <1>2 DEF Drain

-----------------------------------------------------------------------------
\* Every action keeps the invariant.

LEMMA InitInv == Init => IInv
<1> SUFFICES ASSUME Init PROVE IInv
  OBVIOUS
<1>1. TypeOK
  <2>1. \A i \in 1 .. Len(mailbox) : IsPost(mailbox[i])
    BY DEF Init
  <2>2. IsChain(blocks) /\ IsChain(pending) /\ bodies \subseteq DOMAIN pending
    BY EmptyIs DEF Init
  <2>3. /\ phase \in Phases /\ height \in Nat /\ announced \in Nat /\ tip \in Blocks \cup {Genesis}
        /\ recent \in 0 .. 2 /\ inFlight \in BOOLEAN /\ timers \subseteq {"headers", "block"}
    <3>1. phase \in Phases /\ timers \subseteq {"headers", "block"}
      BY DEF Init, Phases
    <3>2. height \in Nat /\ announced \in Nat /\ tip \in Blocks \cup {Genesis} /\ recent \in 0 .. 2
      BY DEF Init
    <3> QED BY <3>1, <3>2 DEF Init
  <2> QED BY <2>1, <2>2, <2>3 DEF TypeOK
<1>2. mailbox \in Seq(Posts) /\ Len(mailbox) = 0
  BY DEF Init
<1>3. IsIndex(blocks)
  <2>1. DOMAIN blocks = 1 .. 0
    BY EmptyIs DEF Init
  <2> QED BY <2>1 DEF IsIndex
<1>4. Staged
  BY DEF Init, Staged
<1> QED BY <1>1, <1>2, <1>3, <1>4, EmptyIs DEF IInv, Init, Mailbox, Live

LEMMA PostsTyped == ASSUME mailbox' \in Seq(Posts) PROVE \A i \in 1 .. Len(mailbox') : IsPost(mailbox'[i])
<1> TAKE i \in 1 .. Len(mailbox')
<1>1. mailbox'[i] \in Posts
  OBVIOUS
<1> QED BY <1>1, ChainType DEF Posts, IsPost

LEMMA CommitInv == ASSUME IInv, Commit PROVE IInv' /\ Extends(blocks', blocks)
<1>1. PICK i \in 1 .. Len(mailbox), result \in Results \ {"posted"} :
        /\ result = "conflict" => Conflicts(mailbox[i].batch)
        /\ result = "committed" => ~Conflicts(mailbox[i].batch)
        /\ blocks' = IF result = "committed" THEN Merged(mailbox[i].batch) ELSE blocks
        /\ mailbox' = [mailbox EXCEPT ![i].result = result]
        /\ UNCHANGED <<phase, attempt>>
  BY DEF Commit
<1>2. mailbox \in Seq(Posts) /\ mailbox[i] \in Posts /\ mailbox[i].batch \in Chains
  <2>1. mailbox \in Seq(Posts)
    BY DEF IInv
  <2>2. mailbox[i] \in Posts
    BY <1>1, <2>1
  <2> QED BY <2>1, <2>2 DEF Posts
<1>3. /\ mailbox' \in Seq(Posts) /\ Len(mailbox') = Len(mailbox)
      /\ mailbox'[i].result = result
      /\ \A j \in 1 .. Len(mailbox) :
          /\ mailbox'[j].batch = mailbox[j].batch /\ mailbox'[j].live = mailbox[j].live
          /\ j # i => mailbox'[j].result = mailbox[j].result
  BY <1>1, <1>2 DEF Posts
<1>4. Follows(mailbox[i].batch, blocks) /\ IsIndex(blocks)
  BY <1>1 DEF IInv, Mailbox
<1>5. /\ IsIndex(blocks') /\ Extends(blocks', blocks)
      /\ result = "committed" => Extends(blocks', mailbox[i].batch)
  <2>1. CASE result = "committed"
    <3>1. \A h \in DOMAIN mailbox[i].batch \cap DOMAIN blocks : blocks[h] = mailbox[i].batch[h]
      BY <1>1, <2>1 DEF Conflicts
    <3>2. blocks' = [h \in DOMAIN blocks \cup DOMAIN mailbox[i].batch |->
                        IF h \in DOMAIN mailbox[i].batch THEN mailbox[i].batch[h] ELSE blocks[h]]
      BY <1>1, <2>1 DEF Merged
    <3> QED BY <1>4, <3>1, <3>2, MergedIsIndex
  <2>2. CASE result # "committed"
    BY <1>1, <1>4, <2>2, ExtendsItself
  <2> QED BY <2>1, <2>2
<1>6. blocks' \in Chains
  <2>1. CASE result = "committed"
    <3>1. blocks \in Chains /\ IsChain(blocks) /\ IsChain(mailbox[i].batch)
      BY <1>2, ChainType DEF IInv
    <3>2. blocks' = [h \in DOMAIN blocks \cup DOMAIN mailbox[i].batch |->
                        IF h \in DOMAIN mailbox[i].batch THEN mailbox[i].batch[h] ELSE blocks[h]]
      BY <1>1, <2>1 DEF Merged
    <3>3. PICK D : D = DOMAIN blocks \cup DOMAIN mailbox[i].batch
      OBVIOUS
    <3>4. D \in SUBSET Nat /\ blocks' \in [D -> Blocks]
      BY <3>1, <3>2, <3>3 DEF IsChain
    <3> QED BY <3>4, ChainIntro
  <2>2. CASE result # "committed"
    BY <1>1, <2>2 DEF IInv
  <2> QED BY <2>1, <2>2
<1>7. TypeOK'
  BY <1>1, <1>3, <1>6, ChainType, PostsTyped DEF IInv, TypeOK, attempt
<1>8. Mailbox'
  <2> SUFFICES ASSUME NEW j \in 1 .. Len(mailbox)
               PROVE  /\ Follows(mailbox'[j].batch, blocks')
                      /\ mailbox'[j].result = "committed" => Extends(blocks', mailbox'[j].batch)
    BY <1>3 DEF Mailbox
  <2>1. Follows(mailbox[j].batch, blocks')
    BY <1>5, FollowsStable DEF IInv, Mailbox
  <2>2. CASE j = i
    BY <1>3, <1>5, <2>1, <2>2
  <2>3. CASE j # i
    <3>1. mailbox[j].result = "committed" => Extends(blocks, mailbox[j].batch)
      BY DEF IInv, Mailbox
    <3>2. Extends(blocks, mailbox[j].batch) => Extends(blocks', mailbox[j].batch)
      BY <1>5 DEF Extends
    <3> QED BY <1>3, <2>1, <2>3, <3>1, <3>2
  <2> QED BY <2>2, <2>3
<1>9. Live'
  BY <1>1, <1>3 DEF IInv, Live, attempt
<1>10. Staged'
  <2>1. phase' = phase /\ height' = height /\ announced' = announced /\ tip' = tip /\ pending' = pending
    BY <1>1 DEF attempt
  <2>2. ASSUME phase \in {"reading", "running", "synced"}
        PROVE  /\ RunFrom(pending, height + 1, announced, blocks')
               /\ At(blocks', height) = At(blocks, height)
    <3>1. RunFrom(pending, height + 1, announced, blocks) /\ height \in DOMAIN blocks \cup {0}
      BY <2>2 DEF IInv, TypeOK, Staged, RunFrom
    <3> QED BY <1>5, <3>1, RunStable, AtExtends
  <2> QED BY <2>1, <2>2 DEF IInv, Staged
<1> QED BY <1>1, <1>3, <1>5, <1>6, <1>7, <1>8, <1>9, <1>10 DEF IInv, attempt

LEMMA ReadCheckpointInv == ASSUME IInv, ReadCheckpoint PROVE IInv'
<1>1. /\ phase \notin {"reading", "running"} /\ phase' = "reading"
      /\ height' \in Checkpoints /\ announced' = height' /\ tip' = At(blocks, height')
      /\ UNCHANGED <<blocks, mailbox, recent, pending, bodies, inFlight, timers>>
  BY DEF ReadCheckpoint
<1>2. height' \in Nat /\ height' \in DOMAIN blocks \cup {0}
  BY <1>1, HighestOfIndex DEF IInv, Checkpoints
<1>3. TypeOK'
  <2>1. At(blocks, height') \in Blocks \cup {Genesis}
    BY <1>2 DEF IInv, TypeOK, IsChain, At
  <2> QED BY <1>1, <1>2, <2>1 DEF IInv, TypeOK, Phases
<1>4. Mailbox' /\ Live'
  BY <1>1 DEF IInv, Mailbox, Live
<1>5. Staged'
  <2>1. pending' = Empty
    BY <1>1 DEF IInv, Staged
  <2>2. RunFrom(Empty, height' + 1, height', blocks)
    BY <1>2, NoRun
  <2>3. RunFrom(pending', height' + 1, announced', blocks')
    BY <1>1, <2>1, <2>2
  <2> QED BY <1>1, <1>2, <2>1, <2>3 DEF Staged
<1> QED BY <1>1, <1>3, <1>4, <1>5 DEF IInv

LEMMA StartInv == ASSUME IInv, Start PROVE IInv'
<1>1. TypeOK'
  BY DEF IInv, TypeOK, Start, Phases
<1>2. Mailbox' /\ Live' /\ Staged'
  BY DEF IInv, Mailbox, Live, Staged, Start
<1> QED BY <1>1, <1>2 DEF IInv, Start

LEMMA EndsWithMailbox ==
  ASSUME IInv, NEW reason \in {"off", "synced", "failed", "reorg"}, End(reason, mailbox),
         reason = "synced" => phase = "running" /\ pending = Empty
  PROVE  IInv'
<1>1. mailbox \in Seq(Posts) /\ \A i \in 1 .. Len(mailbox) : \E j \in 1 .. Len(mailbox) : mailbox[i] = mailbox[j]
  BY DEF IInv
<1> QED BY <1>1, EndInv

\* A page that passes the checks continues the chain the attempt has seen.
LEMMA PageRun ==
  ASSUME TypeOK, NEW page \in Seq(Blocks), Links(page), Consensus(page),
         announced \in DOMAIN blocks \cup {0}, tip = At(blocks, announced), blocks \in Chains,
         NEW run, run = [h \in announced + 1 .. announced + Len(page) |-> page[h - announced]]
  PROVE  RunFrom(run, announced + 1, announced + Len(page), blocks) /\ run \in Chains
<1>1. announced \in Nat /\ Len(page) \in Nat
  BY DEF TypeOK
<1>2. PICK a \in Nat, n \in Nat : a = announced /\ n = Len(page)
  BY <1>1
<1>3. \A h \in a + 1 .. a + n : h - a \in 1 .. n /\ run[h] = page[h - a]
  BY <1>2
<1>4. \A h \in a + 1 .. a + n : run[h] \in Blocks /\ run[h] \in Valid
  BY <1>2, <1>3 DEF Consensus
<1>5. ASSUME NEW h \in a + 1 .. a + n
      PROVE  Parent[run[h]] = IF h = a + 1 THEN At(blocks, a) ELSE run[h - 1]
  <2>1. Parent[page[h - a]] = IF h - a = 1 THEN tip ELSE page[h - a - 1]
    BY <1>2, <1>3 DEF Links
  <2>2. CASE h = a + 1
    BY <1>2, <1>3, <2>1, <2>2
  <2>3. CASE h # a + 1
    <3>1. h - 1 \in a + 1 .. a + n /\ h - 1 - a = h - a - 1
      BY <1>2, <2>3
    <3>2. run[h - 1] = page[h - a - 1]
      BY <1>3, <3>1
    <3>3. h - a # 1
      BY <1>2, <2>3
    <3> QED BY <1>3, <2>1, <2>3, <3>2, <3>3
  <2> QED BY <2>2, <2>3
<1>6. RunFrom(run, a + 1, a + n, blocks)
  <2>1. PICK low \in Nat \ {0}, high \in Nat : low = a + 1 /\ high = a + n
    OBVIOUS
  <2>2. low - 1 = a /\ DOMAIN run = low .. high
    BY <1>2, <2>1
  <2>3. \A h \in low .. high :
          /\ run[h] \in Valid
          /\ Parent[run[h]] = IF h = low THEN At(blocks, low - 1) ELSE run[h - 1]
    BY <1>4, <1>5, <2>1, <2>2
  <2>4. low - 1 \in DOMAIN blocks \cup {0}
    BY <1>2, <2>2
  <2>5. RunFrom(run, low, high, blocks)
    BY <2>2, <2>3, <2>4 DEF RunFrom
  <2> QED BY <2>1, <2>5
<1>7. run \in Chains
  <2>1. PICK D : D = a + 1 .. a + n
    OBVIOUS
  <2>2. D \in SUBSET Nat
    BY <2>1
  <2>3. run \in [D -> Blocks]
    BY <1>2, <1>4, <2>1
  <2> QED BY <2>2, <2>3, ChainIntro
<1> QED BY <1>2, <1>6, <1>7

LEMMA HeadersInv == ASSUME IInv, NEW message \in Pages, Headers(message) PROVE IInv'
<1> DEFINE page == SubSeq(message, 1, Smaller(Len(message), MaxPage))
<1>1. phase = "running" /\ pending = Empty /\ \A i \in 1 .. Len(mailbox) : ~mailbox[i].live
  BY DEF Headers, Running, Expecting, Ingesting
<1>2. page \in Seq(Blocks)
  <2>1. message \in Seq(Blocks) /\ Len(message) \in Nat
    BY ConstantsType
  <2>2. Smaller(Len(message), MaxPage) \in Nat /\ Smaller(Len(message), MaxPage) <= Len(message)
    BY <2>1, ConstantsType DEF Smaller
  <2> QED BY <2>1, <2>2
<1> HIDE DEF page
<1>3. CASE page = <<>> /\ End("synced", mailbox)
  BY <1>1, <1>3, EndsWithMailbox
<1>4. CASE End("failed", mailbox)
  BY <1>4, EndsWithMailbox
<1>5. CASE /\ page # <<>> /\ Links(page) /\ Consensus(page)
           /\ pending' = [h \in announced + 1 .. announced + Len(page) |-> page[h - announced]]
           /\ announced' = announced + Len(page)
           /\ tip' = page[Len(page)]
           /\ recent' = Smaller(2, recent + Len(page))
           /\ inFlight' = FALSE /\ timers' = {"block"}
           /\ UNCHANGED <<blocks, mailbox, phase, height, bodies>>
  <2>1. height = announced /\ tip = At(blocks, announced) /\ announced \in DOMAIN blocks \cup {0}
    BY <1>1, NothingStaged DEF IInv
  <2>2. RunFrom(pending', announced + 1, announced + Len(page), blocks) /\ pending' \in Chains
    BY <1>2, <1>5, <2>1, PageRun DEF IInv
  <2>3. Len(page) \in Nat \ {0} /\ announced \in Nat /\ recent \in 0 .. 2 /\ page[Len(page)] \in Blocks
    BY <1>2, <1>5 DEF IInv, TypeOK
  <2>4. bodies = {}
    BY <1>1, EmptyIs DEF IInv, TypeOK
  <2>5. TypeOK'
    <3>1. recent' \in 0 .. 2
      BY <1>5, <2>3 DEF Smaller
    <3>2. IsChain(blocks') /\ IsChain(pending') /\ bodies' \subseteq DOMAIN pending'
      BY <1>5, <2>2, <2>4, ChainType DEF IInv, TypeOK
    <3>3. /\ phase' \in Phases /\ height' \in Nat /\ announced' \in Nat /\ tip' \in Blocks \cup {Genesis}
          /\ inFlight' \in BOOLEAN /\ timers' \subseteq {"headers", "block"}
      <4>1. announced' \in Nat /\ tip' \in Blocks \cup {Genesis} /\ inFlight' \in BOOLEAN
        <5>1. announced' \in Nat
          BY <1>5, <2>3
        <5>2. tip' \in Blocks
          BY <1>5, <2>3
        <5>3. inFlight' \in BOOLEAN
          BY <1>5
        <5> QED BY <5>1, <5>2, <5>3
      <4>2. phase' \in Phases /\ height' \in Nat
        BY <1>5 DEF IInv, TypeOK
      <4>3. timers' \subseteq {"headers", "block"}
        BY <1>5
      <4> QED BY <4>1, <4>2, <4>3
    <3>4. \A i \in 1 .. Len(mailbox') : IsPost(mailbox'[i])
      BY <1>5, PostsTyped DEF IInv
    <3> QED BY <3>1, <3>2, <3>3, <3>4 DEF TypeOK
  <2>6. Mailbox' /\ Live'
    BY <1>1, <1>5 DEF IInv, Mailbox, Live
  <2>7. Staged'
    <3>1. phase' = "running" /\ height' <= announced' /\ height' # announced'
      BY <1>1, <1>5, <2>1, <2>3
    <3>2. RunFrom(pending', height' + 1, announced', blocks')
      BY <1>5, <2>1, <2>2
    <3> QED BY <3>1, <3>2 DEF Staged
  <2> QED BY <1>5, <2>2, <2>5, <2>6, <2>7 DEF IInv
<1> QED BY <1>3, <1>4, <1>5 DEF Headers, page

LEMMA BodyInv == ASSUME IInv, NEW h \in DOMAIN pending, Body(h) PROVE IInv'
<1> DEFINE armed == IF bodies' = DOMAIN pending THEN timers \ {"block"} ELSE timers \cup {"block"}
<1>1. /\ phase = "running" /\ bodies' = bodies \cup {h}
      /\ UNCHANGED <<blocks, phase, height, announced, tip, recent, pending>>
  BY DEF Body, Running
<1>2. /\ \/ Ingesting /\ timers' = armed /\ UNCHANGED <<mailbox, inFlight>>
         \/ ~Ingesting /\ Drain(mailbox, armed)
      /\ armed \subseteq timers \cup {"block"}
  BY DEF Body
<1> HIDE DEF armed
<1>3. bodies' \subseteq DOMAIN pending' /\ Staged'
  BY <1>1 DEF IInv, TypeOK, Staged
<1>4. /\ mailbox' \in Seq(Posts) /\ Mailbox' /\ Live'
      /\ inFlight' \in {inFlight, TRUE} /\ timers' \subseteq armed \cup {"headers"}
  <2>1. CASE timers' = armed /\ UNCHANGED <<mailbox, inFlight>>
    BY <1>1, <2>1 DEF IInv, Mailbox, Live
  <2>2. CASE ~Ingesting /\ Drain(mailbox, armed)
    <3>1. \A i \in 1 .. Len(mailbox) :
            /\ ~mailbox[i].live /\ Follows(mailbox[i].batch, blocks')
            /\ mailbox[i].result = "committed" => Extends(blocks', mailbox[i].batch)
      BY <1>1, <2>2 DEF IInv, Mailbox, Ingesting
    <3>2. /\ mailbox \in Seq(Posts) /\ phase' = "running" /\ height' \in Nat /\ announced' \in Nat
          /\ pending' \in Chains
      BY <1>1 DEF IInv, TypeOK
    <3> QED BY <1>3, <2>2, <3>1, <3>2, DrainInv
  <2> QED BY <1>2, <2>1, <2>2
<1>5. TypeOK'
  BY <1>1, <1>2, <1>3, <1>4, PostsTyped DEF IInv, TypeOK
<1> QED BY <1>1, <1>3, <1>4, <1>5 DEF IInv

LEMMA TailIs ==
  ASSUME NEW T, NEW s \in Seq(T), s # <<>>
  PROVE  /\ Tail(s) \in Seq(T) /\ 1 \in 1 .. Len(s) /\ Head(s) = s[1] /\ Len(Tail(s)) \in Nat
         /\ \A i \in 1 .. Len(Tail(s)) : i + 1 \in 1 .. Len(s) /\ i + 1 # 1 /\ Tail(s)[i] = s[i + 1]
         /\ \A i \in 1 .. Len(Tail(s)) : \E j \in 1 .. Len(s) : Tail(s)[i] = s[j]
<1>1. \A i \in 1 .. Len(Tail(s)) : i + 1 \in 1 .. Len(s) /\ i + 1 # 1 /\ Tail(s)[i] = s[i + 1]
  OBVIOUS
<1> QED BY <1>1

LEMMA StaleInv == ASSUME IInv, Stale PROVE IInv'
<1>1. mailbox \in Seq(Posts) /\ mailbox # <<>> /\ ~Head(mailbox).live /\ mailbox' = Tail(mailbox)
      /\ UNCHANGED <<blocks, phase, attempt>>
  BY DEF IInv, Stale, Answered
<1>2. /\ mailbox' \in Seq(Posts) /\ Len(mailbox') \in Nat
      /\ \A i \in 1 .. Len(mailbox') : i + 1 \in 1 .. Len(mailbox) /\ mailbox'[i] = mailbox[i + 1]
  BY <1>1, TailIs
<1>3. TypeOK'
  BY <1>1, <1>2, PostsTyped DEF IInv, TypeOK, attempt
<1>4. Mailbox'
  BY <1>1, <1>2 DEF IInv, Mailbox
<1>5. Live'
  <2> SUFFICES ASSUME NEW i \in 1 .. Len(mailbox'), mailbox'[i].live
               PROVE  /\ phase' = "running"
                      /\ \A j \in 1 .. Len(mailbox') : mailbox'[j].live => j = i
                      /\ \E high \in height' + 1 .. announced' :
                          /\ DOMAIN mailbox'[i].batch = height' + 1 .. high
                          /\ \A h \in height' + 1 .. high : mailbox'[i].batch[h] = pending'[h]
    BY DEF Live
  <2>1. i + 1 \in 1 .. Len(mailbox) /\ mailbox'[i] = mailbox[i + 1] /\ mailbox[i + 1].live
    BY <1>2
  <2>2. /\ phase = "running"
        /\ \A j \in 1 .. Len(mailbox) : mailbox[j].live => j = i + 1
        /\ \E high \in height + 1 .. announced :
            /\ DOMAIN mailbox[i + 1].batch = height + 1 .. high
            /\ \A h \in height + 1 .. high : mailbox[i + 1].batch[h] = pending[h]
    BY <2>1 DEF IInv, Live
  <2>3. \A j \in 1 .. Len(mailbox') : mailbox'[j].live => j = i
    BY <1>2, <2>2
  <2> QED BY <1>1, <2>1, <2>2, <2>3 DEF attempt
<1>6. Staged'
  BY <1>1 DEF IInv, Staged, attempt
<1> QED BY <1>1, <1>2, <1>3, <1>4, <1>5, <1>6 DEF IInv, attempt

LEMMA RefusedInv == ASSUME IInv, Refused PROVE IInv'
<1>1. mailbox \in Seq(Posts) /\ mailbox # <<>>
  BY DEF IInv, Refused, Answered
<1>2. PICK reason \in {"reorg", "failed"} : End(reason, Tail(mailbox))
  BY DEF Refused
<1>3. Tail(mailbox) \in Seq(Posts) /\ \A i \in 1 .. Len(Tail(mailbox)) : \E j \in 1 .. Len(mailbox) : Tail(mailbox)[i] = mailbox[j]
  BY <1>1, TailIs
<1> QED BY <1>2, <1>3, EndInv

\* The rest of a page when its first blocks are committed.
LEMMA RunRest ==
  ASSUME NEW a \in Nat, NEW n \in Nat, NEW m \in a + 1 .. n, NEW page \in Chains, NEW chain,
         RunFrom(page, a + 1, n, chain), m \in DOMAIN chain, chain[m] = page[m],
         NEW rest, rest = [h \in DOMAIN page \ (a + 1 .. m) |-> page[h]]
  PROVE  RunFrom(rest, m + 1, n, chain) /\ rest \in Chains
<1>1. /\ DOMAIN page = a + 1 .. n
      /\ \A h \in a + 1 .. n :
          /\ page[h] \in Valid
          /\ Parent[page[h]] = IF h = a + 1 THEN At(chain, a + 1 - 1) ELSE page[h - 1]
  BY DEF RunFrom
<1>2. DOMAIN rest = m + 1 .. n
  BY <1>1
<1>3. PICK low \in Nat \ {0} : low = m + 1
  OBVIOUS
<1>4. low - 1 = m /\ m # 0 /\ At(chain, m) = page[m]
  BY <1>3 DEF At
<1>5. \A h \in low .. n :
        /\ h \in a + 1 .. n /\ h # a + 1 /\ rest[h] = page[h]
        /\ h # low => h - 1 \in low .. n
        /\ h = low => h - 1 = m
  <2>1. m \in Nat /\ a + 1 <= m
    OBVIOUS
  <2>2. \A h \in low .. n : h \in a + 1 .. n /\ h # a + 1 /\ (h # low => h - 1 \in low .. n) /\ (h = low => h - 1 = m)
    BY <1>3, <2>1
  <2>3. \A h \in low .. n : h \in DOMAIN rest
    BY <1>2, <1>3
  <2> QED BY <2>2, <2>3
<1>6. \A h \in low .. n : h # low => rest[h - 1] = page[h - 1]
  BY <1>5
<1>7. \A h \in low .. n :
        /\ rest[h] \in Valid
        /\ Parent[rest[h]] = IF h = low THEN At(chain, low - 1) ELSE rest[h - 1]
  BY <1>1, <1>4, <1>5, <1>6
<1>8. RunFrom(rest, low, n, chain)
  BY <1>2, <1>3, <1>4, <1>7 DEF RunFrom
<1>9. rest \in Chains
  <2>1. \A h \in DOMAIN page : page[h] \in Blocks /\ h \in Nat
    BY ChainType DEF IsChain
  <2>2. PICK D : D = DOMAIN page \ (a + 1 .. m)
    OBVIOUS
  <2>3. D \in SUBSET Nat /\ rest \in [D -> Blocks]
    BY <2>1, <2>2
  <2> QED BY <2>3, ChainIntro
<1> QED BY <1>3, <1>8, <1>9

LEMMA IngestedInv == ASSUME IInv, Ingested PROVE IInv'
<1>1. /\ mailbox \in Seq(Posts) /\ mailbox # <<>> /\ Head(mailbox).live
      /\ Head(mailbox).result = "committed"
      /\ height' = Highest(Head(mailbox).batch)
      /\ tip' = Head(mailbox).batch[Highest(Head(mailbox).batch)]
      /\ pending' = [h \in DOMAIN pending \ DOMAIN Head(mailbox).batch |-> pending[h]]
      /\ bodies' = bodies \ DOMAIN Head(mailbox).batch
      /\ Drain(Tail(mailbox), timers)
      /\ UNCHANGED <<blocks, phase, announced, recent>>
  BY DEF IInv, Ingested, Answered
<1>2. PICK batch : batch = mailbox[1].batch
  OBVIOUS
<1>3. 1 \in 1 .. Len(mailbox) /\ Head(mailbox) = mailbox[1]
  BY <1>1, TailIs
<1>4. PICK m \in height + 1 .. announced :
        DOMAIN batch = height + 1 .. m /\ \A h \in height + 1 .. m : batch[h] = pending[h]
  BY <1>1, <1>2, <1>3 DEF IInv, Live
<1>5. /\ phase = "running" /\ \A j \in 1 .. Len(mailbox) : mailbox[j].live => j = 1
      /\ Extends(blocks, batch)
  BY <1>1, <1>2, <1>3 DEF IInv, Live, Mailbox
<1>6. height \in Nat /\ announced \in Nat /\ m \in Nat /\ height + 1 <= m /\ m <= announced
  BY <1>4 DEF IInv, TypeOK
<1>7. m \in DOMAIN batch /\ m \in DOMAIN blocks /\ blocks[m] = batch[m] /\ batch[m] = pending[m]
  <2>1. m \in height + 1 .. m
    BY <1>6
  <2> QED BY <1>4, <1>5, <2>1 DEF Extends
<1>8. Highest(batch) = m
  <2>1. PICK low \in Nat : low = height + 1
    BY <1>6
  <2> QED BY <1>4, <1>6, <2>1, HighestIs
<1>9. height' = m /\ tip' = blocks[m]
  BY <1>1, <1>2, <1>3, <1>7, <1>8
<1>10. RunFrom(pending', m + 1, announced, blocks) /\ pending' \in Chains
  <2>1. RunFrom(pending, height + 1, announced, blocks) /\ pending \in Chains
    BY <1>5 DEF IInv, Staged
  <2>2. pending' = [h \in DOMAIN pending \ (height + 1 .. m) |-> pending[h]]
    BY <1>1, <1>2, <1>3, <1>4
  <2>3. blocks[m] = pending[m]
    BY <1>7
  <2> QED BY <1>4, <1>6, <1>7, <2>1, <2>2, <2>3, RunRest
<1>11. Staged'
  <2>1. RunFrom(pending', height' + 1, announced', blocks')
    BY <1>1, <1>9, <1>10
  <2>2. tip' = At(blocks', height') /\ height' <= announced' /\ phase' = "running"
    BY <1>1, <1>5, <1>6, <1>9 DEF At
  <2> QED BY <2>1, <2>2 DEF Staged
<1>12. bodies' \subseteq DOMAIN pending'
  BY <1>1 DEF IInv, TypeOK
<1>13. /\ Tail(mailbox) \in Seq(Posts)
       /\ \A i \in 1 .. Len(Tail(mailbox)) : i + 1 \in 1 .. Len(mailbox) /\ i + 1 # 1 /\ Tail(mailbox)[i] = mailbox[i + 1]
  BY <1>1, TailIs
<1>14. \A i \in 1 .. Len(Tail(mailbox)) :
         /\ ~Tail(mailbox)[i].live /\ Follows(Tail(mailbox)[i].batch, blocks')
         /\ Tail(mailbox)[i].result = "committed" => Extends(blocks', Tail(mailbox)[i].batch)
  BY <1>1, <1>5, <1>13 DEF IInv, Mailbox
<1>15. height' \in Nat /\ announced' \in Nat /\ phase' = "running"
  BY <1>1, <1>5, <1>6, <1>9
<1>16. /\ mailbox' \in Seq(Posts) /\ Mailbox' /\ Live'
       /\ inFlight' \in {inFlight, TRUE} /\ timers' \subseteq timers \cup {"headers"}
  BY <1>1, <1>10, <1>11, <1>12, <1>13, <1>14, <1>15, DrainInv
<1>17. TypeOK'
  <2>1. tip' \in Blocks \cup {Genesis} /\ IsChain(pending')
    BY <1>7, <1>9, <1>10, ChainType DEF IInv, IsChain
  <2>2. \A i \in 1 .. Len(mailbox') : IsPost(mailbox'[i])
    BY <1>16, PostsTyped
  <2> QED BY <1>1, <1>12, <1>15, <1>16, <2>1, <2>2 DEF IInv, TypeOK
<1> QED BY <1>1, <1>10, <1>11, <1>16, <1>17 DEF IInv

-----------------------------------------------------------------------------
\* The theorems.

LEMMA NextInv == ASSUME IInv, [Next]_vars PROVE IInv'
<1>1. CASE Commit
  BY <1>1, CommitInv
<1>2. CASE ReadCheckpoint
  BY <1>2, ReadCheckpointInv
<1>3. CASE Stop
  BY <1>3, EndsWithMailbox DEF Stop
<1>4. CASE Start
  BY <1>4, StartInv
<1>5. ASSUME NEW page \in Pages, Headers(page) PROVE IInv'
  BY <1>5, HeadersInv
<1>6. ASSUME NEW h \in DOMAIN pending, Body(h) PROVE IInv'
  BY <1>6, BodyInv
<1>7. ASSUME NEW h, Overflow(h) PROVE IInv'
  BY <1>7, EndsWithMailbox DEF Overflow
<1>8. CASE Stale
  BY <1>8, StaleInv
<1>9. CASE Ingested
  BY <1>9, IngestedInv
<1>10. CASE Refused
  BY <1>10, RefusedInv
<1>11. ASSUME NEW kind, Timeout(kind) PROVE IInv'
  BY <1>11, EndsWithMailbox DEF Timeout
<1>12. CASE UNCHANGED vars
  BY <1>12 DEF vars, attempt, IInv, TypeOK, Mailbox, Live, Staged
<1> QED BY <1>1, <1>2, <1>3, <1>4, <1>5, <1>6, <1>7, <1>8, <1>9, <1>10, <1>11, <1>12
        DEF Next, Owner, Peer, Reply, Watchdog

LEMMA NextExtends == ASSUME IInv, [Next]_vars PROVE Extends(blocks', blocks)
<1>1. CASE Commit
  BY <1>1, CommitInv
<1>2. CASE UNCHANGED blocks
  BY <1>2, ExtendsItself
<1>3. [Next]_vars => Commit \/ UNCHANGED blocks
  BY DEF Next, Owner, Peer, Reply, Watchdog, Stop, Start, ReadCheckpoint, Headers, Body, Overflow,
         Timeout, Stale, Ingested, Refused, End, vars
<1> QED BY <1>1, <1>2, <1>3

LEMMA Invariant == Spec => []IInv
<1>1. Init => IInv
  BY InitInv
<1>2. IInv /\ [Next]_vars => IInv'
  BY NextInv
<1> QED BY <1>1, <1>2, PTL DEF Spec

\* The variables of the sync keep their types.
THEOREM TypeCorrect == Spec => []TypeOK
<1>1. IInv => TypeOK
  BY DEF IInv
<1> QED BY <1>1, Invariant, PTL

\* The index is one chain of validated blocks from genesis, whatever batches of stopped
\* attempts are committed between those of the current one.
THEOREM IndexStaysAChain == Spec => []IndexIsAChain
<1>1. IInv => IndexIsAChain
  BY IndexGivesChain DEF IInv
<1> QED BY <1>1, Invariant, PTL

\* A synced attempt has committed all it staged, up to the block its locator names.
THEOREM SyncedHasCommitted == Spec => []SyncedIsCommitted
<1>1. IInv => SyncedIsCommitted
  BY NothingStaged DEF IInv, Staged, SyncedIsCommitted
<1> QED BY <1>1, Invariant, PTL

\* No block of the index is ever removed or replaced.
THEOREM NothingRewritten == Spec => NeverRewrites
<1>1. IInv /\ [Next]_vars => [\A h \in DOMAIN blocks : h \in DOMAIN blocks' /\ blocks'[h] = blocks[h]]_vars
  BY NextExtends DEF Extends
<1> QED BY <1>1, Invariant, PTL DEF Spec, NeverRewrites

-----------------------------------------------------------------------------
\* Nothing is awaited without a watchdog or a batch under way.

\* The watchdog of the headers is armed while they are awaited, that of the bodies while one
\* is missing, and the bodies of a batch are there.
Guarded ==
    /\ inFlight <=> "headers" \in timers
    /\ "block" \in timers <=> bodies # DOMAIN pending
    /\ Ingesting \/ inFlight \/ bodies # DOMAIN pending

BodiesHeld ==
    \A i \in 1 .. Len(mailbox) : mailbox[i].live => DOMAIN mailbox[i].batch \subseteq bodies

Watched == Running => Guarded /\ BodiesHeld

\* What drainPending() leaves: a batch, a page that is incomplete, or a request.
LEMMA DrainGuards ==
  ASSUME NEW posts \in Seq(Posts), NEW armed, Drain(posts, armed),
         IInv', phase' = "running", \A i \in 1 .. Len(posts) : ~posts[i].live,
         inFlight => "headers" \in armed,
         "headers" \in armed => inFlight,
         "block" \in armed <=> bodies' # DOMAIN pending'
  PROVE  Guarded' /\ BodiesHeld'
<1>1. RunFrom(pending', height' + 1, announced', blocks') /\ bodies' \subseteq DOMAIN pending'
      /\ height' \in Nat /\ announced' \in Nat
  BY DEF IInv, Staged, TypeOK
<1>2. \A h : h \in Continuing <=> h \in height' + 1 .. height' + MaxBatch /\ height' + 1 .. h \subseteq bodies'
  BY DEF Continuing
<1>3. CASE Continuing # {} /\ timers' = armed /\ UNCHANGED inFlight
           /\ mailbox' = Append(posts, [batch |-> [h \in Continuing |-> pending'[h]],
                                        result |-> "posted", live |-> TRUE])
  <2>1. PICK post : post = [batch |-> [h \in Continuing |-> pending'[h]],
                            result |-> "posted", live |-> TRUE]
    OBVIOUS
  <2>2. post.live /\ DOMAIN post.batch = Continuing
    BY <2>1
  <2>3. Continuing \subseteq bodies'
    <3>1. MaxBatch \in Nat
      BY ConstantsType
    <3> QED BY <1>1, <1>2, <3>1, Gapless
  <2>4. /\ Len(mailbox') = Len(posts) + 1 /\ Len(posts) \in Nat
        /\ mailbox'[Len(posts) + 1] = post
        /\ \A i \in 1 .. Len(posts) : mailbox'[i] = posts[i]
    BY <1>3, <2>1
  <2>5. BodiesHeld'
    <3> SUFFICES ASSUME NEW i \in 1 .. Len(mailbox'), mailbox'[i].live
                 PROVE  DOMAIN mailbox'[i].batch \subseteq bodies'
      BY DEF BodiesHeld
    <3>1. i = Len(posts) + 1
      BY <2>4
    <3> QED BY <2>2, <2>3, <2>4, <3>1
  <2>6. Ingesting'
    <3>1. Len(posts) + 1 \in 1 .. Len(mailbox')
      BY <2>4
    <3> QED BY <2>2, <2>4, <3>1 DEF Ingesting
  <2> QED BY <1>3, <2>5, <2>6 DEF Guarded
<1>4. CASE Continuing = {} /\ pending' # Empty /\ mailbox' = posts /\ timers' = armed /\ UNCHANGED inFlight
  <2>1. bodies' # DOMAIN pending'
    <3> SUFFICES ASSUME bodies' = DOMAIN pending' PROVE FALSE
      OBVIOUS
    <3>1. DOMAIN pending' = height' + 1 .. announced'
      BY <1>1 DEF RunFrom
    <3>2. DOMAIN pending' # {}
      <4>1. pending' \in Chains
        BY DEF IInv
      <4>2. DOMAIN pending' = {} => pending' = Empty
        BY <4>1 DEF Chains, Empty
      <4> QED BY <1>4, <4>2
    <3>3. PICK a \in Nat, b \in Nat : a = height' /\ b = announced'
      BY <1>1
    <3>4. a + 1 \in a + 1 .. b
      <4>1. a + 1 .. b # {}
        BY <3>1, <3>2, <3>3
      <4> QED BY <4>1
    <3>5. a + 1 .. a + 1 = {a + 1} /\ a + 1 \in a + 1 .. a + MaxBatch
      <4>1. MaxBatch \in Nat \ {0}
        BY ConstantsType
      <4> QED BY <4>1
    <3>6. height' + 1 .. height' + 1 \subseteq bodies'
      BY <3>1, <3>3, <3>4, <3>5
    <3> QED BY <1>2, <1>4, <3>3, <3>5, <3>6
  <2>2. BodiesHeld'
    BY <1>4 DEF BodiesHeld
  <2> QED BY <1>4, <2>1, <2>2 DEF Guarded
<1>5. CASE /\ Continuing = {} /\ pending' = Empty /\ mailbox' = posts
           /\ inFlight' = TRUE /\ timers' = armed \cup {"headers"}
  <2>1. bodies' = DOMAIN pending'
    BY <1>1, <1>5, EmptyIs
  <2>2. BodiesHeld'
    BY <1>5 DEF BodiesHeld
  <2>3. "block" \in timers' <=> bodies' # DOMAIN pending'
    BY <1>5
  <2> QED BY <1>5, <2>2, <2>3 DEF Guarded
<1> QED BY <1>3, <1>4, <1>5 DEF Drain

LEMMA HeadersGuards ==
  ASSUME IInv, NEW message \in Pages, Headers(message), phase' = "running"
  PROVE  Guarded' /\ BodiesHeld'
<1>1. /\ ~Ingesting /\ pending = Empty /\ bodies' = bodies /\ mailbox' = mailbox
      /\ inFlight' = FALSE /\ timers' = {"block"}
  BY DEF Headers, Expecting, End
<1>2. PICK page : /\ page = SubSeq(message, 1, Smaller(Len(message), MaxPage)) /\ page # <<>>
                  /\ pending' = [h \in announced + 1 .. announced + Len(page) |-> page[h - announced]]
  BY DEF Headers, End
<1>3. bodies = {}
  BY <1>1, EmptyIs DEF IInv, TypeOK
<1>4. page \in Seq(Blocks)
  <2>1. message \in Seq(Blocks) /\ MaxPage \in Nat
    BY ConstantsType
  <2>2. Smaller(Len(message), MaxPage) \in 0 .. Len(message)
    BY <2>1 DEF Smaller
  <2>3. \A k \in 0 .. Len(message) : SubSeq(message, 1, k) \in Seq(Blocks)
    BY <2>1
  <2> QED BY <1>2, <2>2, <2>3
<1>5. Len(page) \in Nat /\ Len(page) # 0
  BY <1>2, <1>4
<1>6. DOMAIN pending' # {}
  <2>1. announced \in Nat
    BY DEF IInv, TypeOK
  <2>2. announced + 1 \in announced + 1 .. announced + Len(page)
    BY <1>5, <2>1
  <2> QED BY <1>2, <2>2
<1>7. BodiesHeld'
  BY <1>1 DEF BodiesHeld, Ingesting
<1> QED BY <1>1, <1>3, <1>6, <1>7 DEF Guarded

LEMMA BodyGuards ==
  ASSUME IInv, IInv', Watched, NEW h \in DOMAIN pending, Body(h)
  PROVE  Guarded' /\ BodiesHeld'
<1> DEFINE armed == IF bodies' = DOMAIN pending THEN timers \ {"block"} ELSE timers \cup {"block"}
<1>1. /\ phase = "running" /\ phase' = "running" /\ pending' = pending /\ bodies' = bodies \cup {h}
      /\ \/ Ingesting /\ timers' = armed /\ UNCHANGED <<mailbox, inFlight>>
         \/ ~Ingesting /\ Drain(mailbox, armed)
  BY DEF Body, Running
<1>2. Guarded /\ BodiesHeld
  BY <1>1 DEF Watched, Running
<1>3. /\ "headers" \in armed <=> "headers" \in timers
      /\ "block" \in armed <=> bodies' # DOMAIN pending'
  BY <1>1
<1> HIDE DEF armed
<1>4. CASE Ingesting /\ timers' = armed /\ UNCHANGED <<mailbox, inFlight>>
  <2>1. Ingesting'
    BY <1>4 DEF Ingesting
  <2>2. BodiesHeld'
    BY <1>1, <1>2, <1>4 DEF BodiesHeld
  <2>3. inFlight' <=> "headers" \in timers'
    BY <1>2, <1>3, <1>4 DEF Guarded
  <2> QED BY <1>3, <1>4, <2>1, <2>2, <2>3 DEF Guarded
<1>5. CASE ~Ingesting /\ Drain(mailbox, armed)
  <2>1. mailbox \in Seq(Posts) /\ \A i \in 1 .. Len(mailbox) : ~mailbox[i].live
    BY <1>5 DEF IInv, Ingesting
  <2>2. (inFlight => "headers" \in armed) /\ ("headers" \in armed => inFlight)
    BY <1>2, <1>3 DEF Guarded
  <2> QED BY <1>1, <1>3, <1>5, <2>1, <2>2, DrainGuards
<1> QED BY <1>1, <1>4, <1>5

LEMMA IngestedGuards ==
  ASSUME IInv, IInv', Watched, Ingested
  PROVE  Guarded' /\ BodiesHeld'
<1>1. /\ mailbox \in Seq(Posts) /\ mailbox # <<>> /\ Head(mailbox).live
      /\ pending' = [h \in DOMAIN pending \ DOMAIN Head(mailbox).batch |-> pending[h]]
      /\ bodies' = bodies \ DOMAIN Head(mailbox).batch
      /\ Drain(Tail(mailbox), timers)
      /\ phase' = phase
  BY DEF IInv, Ingested, Answered
<1>2. 1 \in 1 .. Len(mailbox) /\ Head(mailbox) = mailbox[1] /\ Tail(mailbox) \in Seq(Posts)
      /\ \A i \in 1 .. Len(Tail(mailbox)) : i + 1 \in 1 .. Len(mailbox) /\ i + 1 # 1 /\ Tail(mailbox)[i] = mailbox[i + 1]
  BY <1>1, TailIs
<1>3. phase = "running" /\ \A j \in 1 .. Len(mailbox) : mailbox[j].live => j = 1
  BY <1>1, <1>2 DEF IInv, Live
<1>4. Guarded /\ BodiesHeld
  BY <1>3 DEF Watched, Running
<1>5. DOMAIN Head(mailbox).batch \subseteq bodies
  BY <1>1, <1>2, <1>4 DEF BodiesHeld
<1>6. "block" \in timers <=> bodies' # DOMAIN pending'
  <2>1. bodies \subseteq DOMAIN pending
    BY DEF IInv, TypeOK
  <2>2. DOMAIN pending' = DOMAIN pending \ DOMAIN Head(mailbox).batch
    BY <1>1
  <2>3. bodies' # DOMAIN pending' <=> bodies # DOMAIN pending
    BY <1>1, <1>5, <2>1, <2>2
  <2> QED BY <1>4, <2>3 DEF Guarded
<1>7. \A i \in 1 .. Len(Tail(mailbox)) : ~Tail(mailbox)[i].live
  BY <1>2, <1>3
<1>8. (inFlight => "headers" \in timers) /\ ("headers" \in timers => inFlight)
  BY <1>4 DEF Guarded
<1>9. phase' = "running"
  BY <1>1, <1>3
<1> QED BY <1>1, <1>2, <1>6, <1>7, <1>8, <1>9, DrainGuards

LEMMA StartGuards ==
  ASSUME IInv, Start
  PROVE  Guarded' /\ BodiesHeld'
<1>1. /\ phase = "reading" /\ inFlight' = TRUE /\ timers' = {"headers"}
      /\ UNCHANGED <<mailbox, pending, bodies>>
  BY DEF Start
<1>2. pending = Empty /\ bodies = DOMAIN pending
  BY <1>1, EmptyIs DEF IInv, Staged, TypeOK
<1>3. \A i \in 1 .. Len(mailbox) : ~mailbox[i].live
  BY <1>1 DEF IInv, Live
<1> QED BY <1>1, <1>2, <1>3 DEF Guarded, BodiesHeld

\* The worker's commits and the answers to stopped attempts leave the batch that is awaited.
LEMMA CommitGuards ==
  ASSUME IInv, Guarded, BodiesHeld, Commit
  PROVE  Guarded' /\ BodiesHeld'
<1>1. PICK i \in 1 .. Len(mailbox), result \in Results :
        mailbox' = [mailbox EXCEPT ![i].result = result]
  BY DEF Commit
<1>2. UNCHANGED <<pending, bodies, inFlight, timers>>
  BY DEF Commit, attempt
<1>3. mailbox \in Seq(Posts)
  BY DEF IInv
<1>4. /\ Len(mailbox') = Len(mailbox)
      /\ \A j \in 1 .. Len(mailbox) : mailbox'[j].live = mailbox[j].live /\ mailbox'[j].batch = mailbox[j].batch
  <2>1. Len(mailbox') = Len(mailbox)
    BY <1>1, <1>3
  <2>2. \A j \in 1 .. Len(mailbox) : mailbox[j] \in Posts
    BY <1>3
  <2>3. \A j \in 1 .. Len(mailbox) : mailbox'[j] = IF j = i THEN [mailbox[j] EXCEPT !.result = result] ELSE mailbox[j]
    BY <1>1, <1>3
  <2>4. \A j \in 1 .. Len(mailbox) : mailbox'[j].live = mailbox[j].live /\ mailbox'[j].batch = mailbox[j].batch
    BY <2>2, <2>3 DEF Posts
  <2> QED BY <2>1, <2>4
<1>5. Ingesting' <=> Ingesting
  BY <1>4 DEF Ingesting
<1>6. BodiesHeld'
  BY <1>2, <1>4 DEF BodiesHeld
<1> QED BY <1>2, <1>5, <1>6 DEF Guarded

LEMMA StaleGuards ==
  ASSUME IInv, Guarded, BodiesHeld, Stale
  PROVE  Guarded' /\ BodiesHeld'
<1>1. mailbox \in Seq(Posts) /\ mailbox # <<>> /\ ~Head(mailbox).live /\ mailbox' = Tail(mailbox)
      /\ UNCHANGED <<pending, bodies, inFlight, timers>>
  BY DEF IInv, Stale, Answered, attempt
<1>2. /\ Head(mailbox) = mailbox[1]
      /\ \A i \in 1 .. Len(mailbox') : i + 1 \in 1 .. Len(mailbox) /\ mailbox'[i] = mailbox[i + 1]
  BY <1>1, TailIs
<1>3. Ingesting => Ingesting'
  <2> SUFFICES ASSUME NEW i \in 1 .. Len(mailbox), mailbox[i].live PROVE Ingesting'
    BY DEF Ingesting
  <2>1. i # 1
    BY <1>1, <1>2
  <2>2. Len(mailbox') = Len(mailbox) - 1 /\ Len(mailbox) \in Nat
    BY <1>1
  <2>3. i - 1 \in 1 .. Len(mailbox') /\ i - 1 + 1 = i
    BY <2>1, <2>2
  <2>4. mailbox'[i - 1].live
    BY <1>2, <2>3
  <2> QED BY <2>3, <2>4 DEF Ingesting
<1>4. BodiesHeld'
  BY <1>1, <1>2 DEF BodiesHeld
<1> QED BY <1>1, <1>3, <1>4 DEF Guarded

LEMMA NextWatched == ASSUME IInv, IInv', Watched, [Next]_vars PROVE Watched'
<1> SUFFICES ASSUME phase' = "running" PROVE Guarded' /\ BodiesHeld'
  BY DEF Watched, Running
<1>1. ASSUME NEW page \in Pages, Headers(page) PROVE Guarded' /\ BodiesHeld'
  BY <1>1, HeadersGuards
<1>2. ASSUME NEW h \in DOMAIN pending, Body(h) PROVE Guarded' /\ BodiesHeld'
  BY <1>2, BodyGuards
<1>3. CASE Ingested
  BY <1>3, IngestedGuards
<1>4. CASE Start
  BY <1>4, StartGuards
<1>5. CASE Commit
  <2>1. phase = "running"
    BY <1>5 DEF Commit
  <2> QED BY <1>5, <2>1, CommitGuards DEF Watched, Running
<1>6. CASE Stale
  <2>1. phase = "running"
    BY <1>6 DEF Stale
  <2> QED BY <1>6, <2>1, StaleGuards DEF Watched, Running
<1>7. CASE UNCHANGED vars
  BY <1>7 DEF vars, attempt, Watched, Running, Guarded, BodiesHeld, Ingesting
<1>8. ~(ReadCheckpoint \/ Stop \/ Refused \/ Watchdog \/ \E h \in DOMAIN pending : Overflow(h))
  BY DEF ReadCheckpoint, Stop, Refused, Watchdog, Timeout, Overflow, End
<1> QED BY <1>1, <1>2, <1>3, <1>4, <1>5, <1>6, <1>7, <1>8 DEF Next, Owner, Peer, Reply

LEMMA WatchedGuards == ASSUME Watched PROVE AlwaysWatched
<1>1. CASE Running
  <2>1. timers # {} \/ Ingesting
    BY <1>1 DEF Watched, Guarded
  <2> QED BY <2>1 DEF AlwaysWatched
<1> QED BY <1>1 DEF AlwaysWatched

\* An attempt that runs has a watchdog armed or a batch with the worker, whatever bodies
\* arrive in whatever order and whatever is committed meanwhile.
THEOREM NeverWaitsUnwatched == Spec => []AlwaysWatched
<1>1. Init => Watched
  BY DEF Init, Watched, Running
<1>2. IInv /\ IInv' /\ Watched /\ [Next]_vars => Watched'
  BY NextWatched
<1>3. Watched => AlwaysWatched
  BY WatchedGuards
<1> QED BY <1>1, <1>2, <1>3, Invariant, PTL DEF Spec

-----------------------------------------------------------------------------
(***************************************************************************)
(* SyncSupervisor: whatever the supervisor does, the index is that of      *)
(* PepenetSync, so its invariant carries over, and the heights the         *)
(* supervisor publishes are backed by the index.                           *)
(***************************************************************************)

Backed ==
    /\ statusHeight \in DOMAIN blocks \cup {0}
    /\ verifiedHeight \in DOMAIN blocks \cup {0}
    /\ verifiedHeight > 0 => <<verifiedHeight, blocks[verifiedHeight]>> \in witnessed

\* A tip is being confirmed: the attempt has reported completion and none follows it.
Awaited == confirming /\ ~closing => phase = "synced"

\* A sync that runs belongs to an attempt under way.
Attempting == phase \in {"reading", "running"} => running /\ ~closing

SupervisorInv == IInv /\ StatusOK /\ Backed /\ Awaited /\ Attempting

-----------------------------------------------------------------------------
\* What the supervisor's steps do to the attempt and the index.

LEMMA StepsOfTheAttempt == SupervisorNext => Next \/ Stop \/ UNCHANGED vars
<1>1. Timers => Stop \/ UNCHANGED vars
  BY DEF Timers, RetryFires, DeadlinePasses, Begin
<1>2. Events => Next
  BY DEF Events, Advances, Fails, Reorganised, EndsBehind, Synced, FailsLate, Callback, Next, Reply
<1>3. Attempt \/ Index => Next
  BY DEF Attempt, Index, Next
<1>4. Network => Next \/ Stop \/ UNCHANGED vars
  BY DEF Network, PeerReady, PeersChange, ConnectFails, Next, Owner
<1>5. Witnesses \/ StartSync \/ Close => Stop \/ UNCHANGED vars
  BY DEF Witnesses, Confirmed, ConfirmationThrows, Unconfirmed, StartSync, Begin, Close
<1> QED BY <1>1, <1>2, <1>3, <1>4, <1>5 DEF SupervisorNext

LEMMA AttemptKeeps ==
  ASSUME IInv, Next \/ Stop \/ UNCHANGED vars
  PROVE  IInv' /\ Extends(blocks', blocks)
<1>1. CASE Stop
  <2>1. blocks' = blocks
    BY <1>1 DEF Stop, End
  <2> QED BY <1>1, <2>1, EndsWithMailbox, ExtendsItself DEF Stop
<1>2. CASE [Next]_vars
  BY <1>2, NextInv, NextExtends
<1> QED BY <1>1, <1>2

LEMMA IndexedHeights == ASSUME IInv PROVE DOMAIN blocks \subseteq Nat
BY DEF IInv, TypeOK, IsChain

\* Heights that were backed stay so while the index only grows.
LEMMA BackedStable ==
  ASSUME Backed, Extends(blocks', blocks), witnessed \subseteq witnessed',
         UNCHANGED verifiedHeight, statusHeight' \in DOMAIN blocks' \cup {0}
  PROVE  Backed'
BY DEF Backed, Extends

LEMMA Unpublished ==
  ASSUME Backed, Extends(blocks', blocks), UNCHANGED <<statusHeight, verifiedHeight, witnessed>>
  PROVE  Backed'
<1>1. statusHeight' \in DOMAIN blocks' \cup {0}
  BY DEF Backed, Extends
<1> QED BY <1>1, BackedStable

\* The end of an attempt confirms nothing.
LEMMA FinishKeeps ==
  ASSUME SupervisorInv, IInv', Extends(blocks', blocks), Unverified,
         NEW outcome \in States, NEW again \in BOOLEAN, Finish(outcome, again),
         phase' \notin {"reading", "running"}
  PROVE  SupervisorInv'
<1>1. Backed'
  BY Unpublished DEF SupervisorInv, Unverified
<1>2. StatusOK'
  BY DEF SupervisorInv, StatusOK, Unverified, Finish
<1>3. Awaited'
  BY DEF Finish, Awaited
<1> QED BY <1>1, <1>2, <1>3 DEF SupervisorInv, Attempting

LEMMA BeginKeeps ==
  ASSUME SupervisorInv, Begin, retry' \in BOOLEAN
  PROVE  SupervisorInv'
<1>1. IInv' /\ Extends(blocks', blocks) /\ blocks' = blocks
  BY AttemptKeeps DEF SupervisorInv, Begin, Stop, End
<1>2. Checkpoints \subseteq DOMAIN blocks \cup {0}
  BY HighestOfIndex DEF SupervisorInv, IInv, Checkpoints
<1>3. statusHeight' \in DOMAIN blocks' \cup {0} /\ statusHeight' \in Nat
  BY <1>1, <1>2, IndexedHeights DEF Begin, SupervisorInv
<1>4. Backed'
  BY <1>1, <1>3, BackedStable DEF Begin, SupervisorInv
<1>5. ~confirming
  BY DEF Begin, SupervisorInv, StatusOK
<1>6. StatusOK'
  BY <1>3, <1>5 DEF Begin, SupervisorInv, StatusOK, States
<1>7. Awaited'
  BY <1>5 DEF Begin, Awaited
<1>8. Attempting'
  BY DEF Begin, Stop, End, Attempting
<1> QED BY <1>1, <1>4, <1>6, <1>7, <1>8 DEF SupervisorInv

\* A committed batch ends at a height of the index.
LEMMA CommittedHeight ==
  ASSUME IInv, mailbox # <<>>, Head(mailbox).result = "committed"
  PROVE  Highest(Head(mailbox).batch) \in DOMAIN blocks
<1>1. Len(mailbox) \in Nat /\ Len(mailbox) >= 1 /\ Head(mailbox) = mailbox[1]
  BY DEF IInv
<1>2. Follows(mailbox[1].batch, blocks) /\ Extends(blocks, mailbox[1].batch)
  BY <1>1 DEF IInv, Mailbox
<1>3. PICK low, high \in Nat : low <= high /\ DOMAIN mailbox[1].batch = low .. high
  BY <1>2 DEF Follows, RunFrom
<1>4. Highest(mailbox[1].batch) = high
  BY <1>3, HighestIs
<1>5. high \in DOMAIN mailbox[1].batch
  BY <1>3
<1> QED BY <1>1, <1>2, <1>4, <1>5 DEF Extends

\* No step of the attempt itself ends its completion.
LEMMA CompletionStays ==
  ASSUME Attempt \/ Index \/ Advances, phase = "synced"
  PROVE  phase' = "synced"
BY DEF Attempt, Start, Index, Commit, Advances

LEMMA AdvancesKeeps == ASSUME SupervisorInv, Advances PROVE SupervisorInv'
<1>1. IInv' /\ Extends(blocks', blocks)
  <2>1. SupervisorNext
    BY DEF SupervisorNext, Events
  <2> QED BY <2>1, StepsOfTheAttempt, AttemptKeeps DEF SupervisorInv
<1>2. statusHeight' \in DOMAIN blocks' \cup {0}
  <2>1. CASE UNCHANGED statusHeight
    BY <1>1, <2>1 DEF SupervisorInv, Backed, Extends
  <2>2. CASE Reply /\ BlockEvents
    <3>1. mailbox # <<>>
      BY <2>2 DEF Reply, Stale, Ingested, Refused, Answered
    <3>2. statusHeight' = statusHeight
          \/ (Head(mailbox).result = "committed" /\ statusHeight' = Highest(Head(mailbox).batch))
      BY <2>2 DEF BlockEvents
    <3>3. statusHeight' \in DOMAIN blocks \cup {0}
      BY <3>1, <3>2, CommittedHeight DEF SupervisorInv, Backed
    <3> QED BY <1>1, <3>3 DEF Extends
  <2> QED BY <2>1, <2>2 DEF Advances
<1>3. Backed'
  BY <1>1, <1>2, BackedStable DEF SupervisorInv, Advances
<1>4. statusHeight' \in Nat
  <2>1. DOMAIN blocks' \subseteq Nat
    BY <1>1 DEF IInv, TypeOK, IsChain
  <2> QED BY <1>2, <2>1
<1>5. StatusOK'
  BY <1>4 DEF Advances, supervisor, SupervisorInv, StatusOK
<1>6. Awaited'
  BY CompletionStays DEF SupervisorInv, Awaited, Advances, supervisor
<1>7. Attempting'
  BY DEF SupervisorInv, Attempting, Advances, supervisor
<1> QED BY <1>1, <1>3, <1>5, <1>6, <1>7 DEF SupervisorInv

\* Independent peers confirm what the attempt committed, whether or not the callback that
\* publishes it gets to its end.
LEMMA ConfirmedKeeps == ASSUME SupervisorInv, Confirmed \/ ConfirmationThrows PROVE SupervisorInv'
<1>1. UNCHANGED vars /\ blocks' = blocks
  BY DEF Confirmed, ConfirmationThrows, vars
<1>2. IInv' /\ Extends(blocks', blocks)
  BY <1>1, AttemptKeeps DEF SupervisorInv
<1>3. phase = "synced"
  BY DEF SupervisorInv, Awaited, Confirmed, ConfirmationThrows
<1>4. height \in DOMAIN blocks \cup {0} /\ tip = At(blocks, height) /\ height \in Nat
      /\ tip \in Blocks \cup {Genesis}
  BY <1>3, NothingStaged DEF SupervisorInv, IInv, Staged, TypeOK
<1>5. /\ statusHeight' = height /\ verifiedHeight' = height
      /\ witnessed' = witnessed \cup {<<height, tip>>}
      /\ UNCHANGED <<targetHeight, closing>>
      /\ confirming' = FALSE
  BY DEF Confirmed, ConfirmationThrows, Finish
<1>6. height > 0 => tip = blocks[height]
  BY <1>4 DEF At
<1>7. Backed'
  BY <1>1, <1>4, <1>5, <1>6 DEF Backed
<1>8. StatusOK'
  <2>1. witnessed' \subseteq Nat \X (Blocks \cup {Genesis})
    BY <1>4, <1>5 DEF SupervisorInv, StatusOK
  <2>2. {statusHeight', verifiedHeight'} \subseteq Nat /\ targetHeight' \in Nat \cup {Unknown}
    BY <1>4, <1>5 DEF SupervisorInv, StatusOK
  <2>3. CASE Confirmed
    <3>1. Finish("synced", TRUE)
      BY <2>3 DEF Confirmed
    <3> QED BY <2>1, <2>2, <3>1 DEF SupervisorInv, StatusOK, Finish, States
  <2>4. CASE ConfirmationThrows
    <3>1. confirming' = FALSE /\ mishaps' = mishaps \cup {"thrown"}
          /\ UNCHANGED <<archive, running, deadline, retry, closing, state>>
      BY <2>4 DEF ConfirmationThrows
    <3> QED BY <2>1, <2>2, <3>1 DEF SupervisorInv, StatusOK
  <2> QED BY <2>3, <2>4
<1>9. Awaited'
  BY <1>5 DEF Awaited
<1>10. Attempting'
  BY <1>1, <1>3 DEF Attempting, vars
<1> QED BY <1>2, <1>7, <1>8, <1>9, <1>10 DEF SupervisorInv

\* What leaves the status alone keeps it backed.
LEMMA QuietKeeps ==
  ASSUME SupervisorInv, IInv', Extends(blocks', blocks), UNCHANGED <<statusHeight, verifiedHeight, witnessed>>,
         StatusOK', Awaited', Attempting'
  PROVE  SupervisorInv'
BY Unpublished DEF SupervisorInv

LEMMA SupervisorInitInv == SupervisorInit => SupervisorInv
<1> SUFFICES ASSUME SupervisorInit PROVE SupervisorInv
  OBVIOUS
<1>1. IInv
  BY InitInv DEF SupervisorInit
<1>2. StatusOK
  <2>1. statusHeight = 0 /\ targetHeight = Unknown /\ verifiedHeight = 0 /\ mishaps = {}
    BY DEF SupervisorInit
  <2>2. {archive, running, deadline, confirming, retry, closing} \subseteq BOOLEAN /\ state \in States
        /\ witnessed \subseteq Nat \X (Blocks \cup {Genesis}) /\ (confirming => running)
    BY DEF SupervisorInit, States
  <2> QED BY <2>1, <2>2 DEF StatusOK
<1>3. Backed
  BY DEF SupervisorInit, Backed
<1>4. Awaited /\ Attempting
  BY DEF SupervisorInit, Init, Awaited, Attempting
<1> QED BY <1>1, <1>2, <1>3, <1>4 DEF SupervisorInv

\* Only a running attempt reports completion.
LEMMA CompletesRunning == ASSUME Callback, phase' = "synced", phase # phase' PROVE Running
<1>1. Stale \/ Ingested => phase' = phase
  BY DEF Stale, Ingested
<1>2. Refused \/ Watchdog => phase' # "synced"
  BY DEF Refused, Watchdog, Timeout, End
<1>3. Peer => Running
  BY DEF Peer, Headers, Body, Overflow
<1> QED BY <1>1, <1>2, <1>3 DEF Callback, Reply

LEMMA SupervisorNextInv ==
  ASSUME SupervisorInv, [SupervisorNext]_supervisorVars
  PROVE  SupervisorInv'
<1>1. IInv' /\ Extends(blocks', blocks)
  <2>1. SupervisorNext \/ UNCHANGED vars
    BY DEF supervisorVars
  <2> QED BY <2>1, StepsOfTheAttempt, AttemptKeeps DEF SupervisorInv
<1>2. CASE StartSync
  BY <1>2, BeginKeeps DEF StartSync, SupervisorInv, StatusOK
<1>3. CASE RetryFires
  <2>1. CASE Begin
    BY <1>3, <2>1, BeginKeeps DEF RetryFires
  <2>2. CASE UNCHANGED <<vars, archive, running, deadline, confirming, closing, mishaps, status>>
    BY <1>1, <1>3, <2>2, QuietKeeps DEF RetryFires, SupervisorInv, StatusOK, Awaited, Attempting, status, vars
  <2> QED BY <1>3, <2>1, <2>2 DEF RetryFires
<1>4. CASE DeadlinePasses
  <2>1. CASE Stop /\ Finish("waiting", TRUE) /\ Unverified
    <3>1. phase' = "off"
      BY <2>1 DEF Stop, End
    <3> QED BY <1>1, <2>1, <3>1, FinishKeeps DEF States
  <2>2. CASE deadline' = FALSE /\ UNCHANGED <<vars, archive, running, confirming, retry, closing, mishaps, status>>
    BY <1>1, <2>2, QuietKeeps DEF SupervisorInv, StatusOK, Awaited, Attempting, status, vars
  <2> QED BY <1>4, <2>1, <2>2 DEF DeadlinePasses
<1>5. CASE Advances
  BY <1>5, AdvancesKeeps
<1>6. CASE Fails \/ EndsBehind \/ ConnectFails \/ Unconfirmed
  <2>1. Unverified /\ (Finish("error", TRUE) \/ Finish("waiting", TRUE))
    BY <1>6 DEF Fails, EndsBehind, ConnectFails, Unconfirmed
  <2>2. phase' \notin {"reading", "running"}
    <3>1. Fails \/ EndsBehind => phase' \in {"failed", "synced"}
      BY DEF Fails, EndsBehind
    <3>2. ConnectFails => phase' = "off"
      BY DEF ConnectFails, Stop, End
    <3>3. Unconfirmed => phase' = phase /\ (closing \/ phase = "synced")
      BY DEF Unconfirmed, SupervisorInv, Awaited, vars
    <3> QED BY <1>6, <3>1, <3>2, <3>3 DEF SupervisorInv, Attempting
  <2> QED BY <1>1, <2>1, <2>2, FinishKeeps DEF States
<1>7. CASE Reorganised \/ FailsLate
  <2>1. Unverified /\ (Finish("error", FALSE) \/ Finish("rescan_required", FALSE))
    BY <1>7 DEF Reorganised, FailsLate
  <2>2. phase' \notin {"reading", "running"}
    <3>1. Reorganised => phase' = "reorg"
      BY DEF Reorganised
    <3>2. FailsLate => closing /\ phase' = phase
      BY DEF FailsLate, Stale
    <3> QED BY <1>7, <3>1, <3>2 DEF SupervisorInv, Attempting
  <2> QED BY <1>1, <2>1, <2>2, FinishKeeps DEF States
<1>8. CASE Synced
  <2>1. phase' = "synced" /\ confirming' = TRUE
        /\ UNCHANGED <<archive, running, deadline, retry, closing, mishaps, status>>
    BY <1>8 DEF Synced
  <2>2. Awaited' /\ Attempting'
    BY <2>1 DEF Awaited, Attempting
  <2>3. running
    BY <1>8, CompletesRunning DEF Synced, Running, SupervisorInv, Attempting
  <2>4. StatusOK'
    BY <2>1, <2>3 DEF SupervisorInv, StatusOK, status
  <2> QED BY <1>1, <2>1, <2>2, <2>4, QuietKeeps DEF status
<1>9. CASE Attempt \/ Index
  <2>1. UNCHANGED <<supervisor, status>>
    BY <1>9 DEF Attempt, Index
  <2>2. StatusOK' /\ Awaited'
    BY <1>9, <2>1, CompletionStays DEF SupervisorInv, StatusOK, Awaited, supervisor, status
  <2>3. Attempting'
    BY <1>9, <2>1 DEF SupervisorInv, Attempting, Attempt, Start, Index, Commit, supervisor
  <2> QED BY <1>1, <2>1, <2>2, <2>3, QuietKeeps DEF status
<1>10. ASSUME NEW full \in BOOLEAN, NEW claim \in Targets \cup {Unknown}, PeerReady(full, claim)
       PROVE  SupervisorInv'
  <2>1. /\ UNCHANGED <<running, deadline, confirming, retry, closing, mishaps,
                       statusHeight, verifiedHeight, witnessed>>
        /\ targetHeight' = claim /\ claim \in Nat \cup {Unknown}
        /\ archive' = (archive \/ full)
        /\ state' = state \/ state' \in States
        /\ phase' = phase \/ phase = "off"
        /\ running /\ ~closing
    BY <1>10, TargetAssumption DEF PeerReady, States, vars
  <2>2. StatusOK' /\ Awaited' /\ Attempting'
    BY <1>10, <2>1 DEF SupervisorInv, StatusOK, Awaited, Attempting
  <2> QED BY <1>1, <2>1, <2>2, QuietKeeps
<1>11. CASE Confirmed \/ ConfirmationThrows
  BY <1>11, ConfirmedKeeps
<1>14. ASSUME NEW full \in BOOLEAN, PeersChange(full)
       PROVE  SupervisorInv'
  <2>1. /\ UNCHANGED <<vars, running, deadline, confirming, retry, closing, status>>
        /\ archive' = full
        /\ mishaps' = mishaps \/ mishaps' = mishaps \cup {"upgraded"}
    BY <1>14 DEF PeersChange
  <2>2. StatusOK' /\ Awaited' /\ Attempting'
    BY <1>14, <2>1 DEF SupervisorInv, StatusOK, Awaited, Attempting, status, vars
  <2> QED BY <1>1, <2>1, <2>2, QuietKeeps DEF status
<1>12. CASE Close
  <2>1. closing' = TRUE /\ retry' = FALSE
        /\ UNCHANGED <<archive, running, deadline, confirming, mishaps, status>>
    BY <1>12 DEF Close
  <2>2. StatusOK' /\ Awaited'
    BY <2>1 DEF SupervisorInv, StatusOK, Awaited, status
  <2>3. Attempting'
    BY <1>12 DEF Close, Stop, End, Attempting
  <2> QED BY <1>1, <2>1, <2>2, <2>3, QuietKeeps DEF status
<1>13. CASE UNCHANGED supervisorVars
  <2>1. UNCHANGED <<vars, supervisor, status>>
    BY <1>13 DEF supervisorVars
  <2>2. StatusOK' /\ Awaited' /\ Attempting'
    BY <2>1 DEF SupervisorInv, StatusOK, Awaited, Attempting, supervisor, status, vars
  <2> QED BY <1>1, <2>1, <2>2, QuietKeeps DEF status
<1> QED BY <1>2, <1>3, <1>4, <1>5, <1>6, <1>7, <1>8, <1>9, <1>10, <1>11, <1>12, <1>13, <1>14
        DEF SupervisorNext, Timers, Events, Network, Witnesses

LEMMA SupervisorInvariant == SupervisorSpec => []SupervisorInv
<1>1. SupervisorInit => SupervisorInv
  BY SupervisorInitInv
<1>2. SupervisorInv /\ [SupervisorNext]_supervisorVars => SupervisorInv'
  BY SupervisorNextInv
<1> QED BY <1>1, <1>2, PTL DEF SupervisorSpec

-----------------------------------------------------------------------------
\* The theorems.

\* The variables of the supervisor and of its attempt keep their types.
THEOREM SupervisorTypes == SupervisorSpec => [](TypeOK /\ StatusOK)
<1>1. SupervisorInv => TypeOK /\ StatusOK
  BY DEF SupervisorInv, IInv
<1> QED BY <1>1, SupervisorInvariant, PTL

\* The heights the wallet relies on are backed by the index, and the verified one by
\* independent peers.
THEOREM PublishedHeightsAreBacked == SupervisorSpec => []HeightsAreBacked
<1>1. SupervisorInv => HeightsAreBacked
  <2> SUFFICES ASSUME SupervisorInv PROVE HeightsAreBacked
    OBVIOUS
  <2>1. verifiedHeight > 0 => verifiedHeight # 0
    BY DEF SupervisorInv, StatusOK
  <2> QED BY <2>1 DEF SupervisorInv, Backed, HeightsAreBacked
<1> QED BY <1>1, SupervisorInvariant, PTL

\* The index stays one chain under a supervisor, too.
THEOREM SupervisedIndex == SupervisorSpec => []IndexIsAChain
<1>1. SupervisorInv => IndexIsAChain
  BY IndexGivesChain DEF SupervisorInv, IInv
<1> QED BY <1>1, SupervisorInvariant, PTL

\* The retry timer is set or an attempt is under way, and one that is under way has a
\* deadline before it, a sync, or a confirmation to wait for, unless one of the two mishaps
\* took that from it.
Looking ==
    /\ ~closing /\ state \notin {"stopped", "rescan_required"} => retry \/ running
    /\ running /\ ~closing =>
        \/ phase = "off" /\ (deadline \/ "upgraded" \in mishaps)
        \/ phase \in {"reading", "running"}
        \/ phase = "synced" /\ (confirming \/ "thrown" \in mishaps)
    /\ running /\ ~closing /\ archive /\ phase = "off" => "upgraded" \in mishaps

LEMMA FinishLooks ==
  ASSUME NEW outcome, NEW again \in BOOLEAN, Finish(outcome, again),
         again \/ closing \/ outcome = "rescan_required"
  PROVE  Looking'
BY DEF Finish, Looking

LEMMA BeginLooks == ASSUME Begin PROVE Looking'
BY DEF Begin, Stop, End, Looking

\* What leaves the supervisor, the state and the phase alone.
LEMMA LooksOn ==
  ASSUME Looking, UNCHANGED <<archive, running, deadline, confirming, retry, closing, mishaps, state, phase>>
  PROVE  Looking'
BY DEF Looking

LEMMA NextLooks ==
  ASSUME SupervisorInv, Looking, [SupervisorNext]_supervisorVars
  PROVE  Looking'
<1>1. CASE StartSync
  BY <1>1, BeginLooks DEF StartSync
<1>2. CASE RetryFires
  <2>1. CASE Begin
    BY <2>1, BeginLooks
  <2>2. CASE running /\ UNCHANGED <<vars, archive, running, deadline, confirming, closing, mishaps, status>>
    BY <2>2 DEF Looking, vars, status
  <2> QED BY <1>2, <2>1, <2>2 DEF RetryFires
<1>3. CASE DeadlinePasses
  <2>1. CASE Finish("waiting", TRUE)
    BY <2>1, FinishLooks
  <2>2. CASE archive /\ deadline' = FALSE
             /\ UNCHANGED <<vars, archive, running, confirming, retry, closing, mishaps, status>>
    BY <2>2 DEF Looking, vars, status
  <2> QED BY <1>3, <2>1, <2>2 DEF DeadlinePasses
<1>4. CASE Fails \/ EndsBehind \/ ConnectFails \/ Confirmed \/ Unconfirmed
  <2>1. \E outcome : Finish(outcome, TRUE)
    BY <1>4 DEF Fails, EndsBehind, ConnectFails, Confirmed, Unconfirmed
  <2> QED BY <2>1, FinishLooks
<1>5. CASE Reorganised
  BY <1>5, FinishLooks DEF Reorganised
<1>6. CASE FailsLate
  <2>1. closing /\ \E outcome : Finish(outcome, FALSE)
    BY <1>6 DEF FailsLate
  <2> QED BY <2>1, FinishLooks
<1>7. CASE Synced
  BY <1>7 DEF Synced, Looking, status
<1>8. CASE Advances
  BY <1>8, LooksOn DEF Advances, supervisor
<1>9. CASE Attempt
  BY <1>9 DEF Attempt, Start, Looking, supervisor, status
<1>10. CASE Index
  BY <1>10, LooksOn DEF Index, Commit, supervisor, status
<1>11. ASSUME NEW full \in BOOLEAN, NEW claim \in Targets \cup {Unknown}, PeerReady(full, claim)
       PROVE  Looking'
  <2>1. UNCHANGED <<running, deadline, confirming, retry, closing, mishaps>> /\ running
        /\ archive' = (archive \/ full)
    BY <1>11 DEF PeerReady
  <2>2. \/ phase # "off" /\ phase' = phase
        \/ phase = "off" /\ ~full /\ phase' = phase
        \/ phase = "off" /\ phase' = "reading"
    BY <1>11 DEF PeerReady, ReadCheckpoint, vars
  <2> QED BY <1>11, <2>1, <2>2 DEF Looking
<1>12. CASE Close
  BY <1>12 DEF Close, Looking
<1>13. CASE UNCHANGED supervisorVars
  BY <1>13, LooksOn DEF supervisorVars, supervisor, status, vars
<1>14. ASSUME NEW full \in BOOLEAN, PeersChange(full)
       PROVE  Looking'
  <2>1. /\ UNCHANGED <<running, deadline, confirming, retry, closing>> /\ state' = state /\ phase' = phase
        /\ archive' = full
        /\ mishaps' = IF full /\ phase = "off" THEN mishaps \cup {"upgraded"} ELSE mishaps
    BY <1>14 DEF PeersChange, status, vars
  <2> QED BY <1>14, <2>1 DEF Looking
<1>15. CASE ConfirmationThrows
  <2>1. phase = "synced"
    BY <1>15 DEF SupervisorInv, Awaited, ConfirmationThrows
  <2>2. phase' = phase /\ mishaps' = mishaps \cup {"thrown"} /\ UNCHANGED <<running, retry, closing, state>>
    BY <1>15 DEF ConfirmationThrows, vars
  <2> QED BY <2>1, <2>2 DEF Looking
<1> QED BY <1>1, <1>2, <1>3, <1>4, <1>5, <1>6, <1>7, <1>8, <1>9, <1>10, <1>11, <1>12, <1>13, <1>14, <1>15
        DEF SupervisorNext, Timers, Events, Network, Witnesses

LEMMA SupervisedWatched ==
  ASSUME SupervisorInv, SupervisorInv', Watched, [SupervisorNext]_supervisorVars
  PROVE  Watched'
<1>1. Next \/ Stop \/ UNCHANGED vars
  BY StepsOfTheAttempt DEF supervisorVars
<1>2. CASE Stop
  BY <1>2 DEF Stop, End, Watched, Running
<1>3. CASE [Next]_vars
  BY <1>3, NextWatched DEF SupervisorInv
<1> QED BY <1>1, <1>2, <1>3

\* The wallet never stops looking for blocks before it is closed or finds a reorganisation:
\* at any time a timer, an answer or a batch is due that moves it on, but for an attempt whose
\* confirmation threw and one whose peer was upgraded before its deadline.
THEOREM NeverStopsLooking == SupervisorSpec => []NeverIdle
<1>1. SupervisorInit => Watched /\ Looking
  BY DEF SupervisorInit, Init, Watched, Running, Looking
<1>2. SupervisorInv /\ SupervisorInv' /\ Watched /\ Looking /\ [SupervisorNext]_supervisorVars
        => Watched' /\ Looking'
  BY NextLooks, SupervisedWatched
<1>3. Watched /\ Looking => NeverIdle
  BY WatchedGuards DEF Looking, NeverIdle, Running, Stuck
<1> QED BY <1>1, <1>2, <1>3, SupervisorInvariant, PTL DEF SupervisorSpec
=============================================================================
