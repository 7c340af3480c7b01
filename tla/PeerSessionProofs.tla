------------------------- MODULE PeerSessionProofs -------------------------
(***************************************************************************)
(* Proofs about PeerSession: however its bytes are split, a stream is      *)
(* decoded into the same messages, each is answered once, and at most one  *)
(* connection is left open.                                                *)
(***************************************************************************)
EXTENDS PeerSession, FiniteSetTheorems, SequenceTheorems, TLAPS

Positions == 1 .. Len(stream)
Among(seq, k) == \E i \in 1 .. Len(seq) : seq[i] = k
Increasing(seq) == \A i, j \in 1 .. Len(seq) : i < j => seq[i] < seq[j]
Command(k) == stream[k].frame.command

\* Frames lie one behind the other.
Layout ==
    /\ \A k \in Positions : stream[k].end = Offset(k - 1) + Size(stream[k].frame)
    /\ \A j, k \in Positions : j < k => stream[j].end <= Offset(k - 1)

\* The decoder stands between two frames, and holds what arrived since.
Position == Offset(decoder.frames) + decoder.held = arrived

\* It waits for a header, or for the whole of a frame whose header it has accepted.
Waiting ==
    \/ decoder.needed = Header
    \/ /\ decoder.held >= Header /\ decoder.frames < Len(stream)
       /\ ~Fatal(Front) /\ decoder.needed = Size(Front)
Waits ==
    IF decoding THEN decoder.needed = Header ELSE decoder.held < decoder.needed /\ Waiting

\* What was emitted, followed by what is to be, are the well-formed frames it has passed.
InOrder ==
    /\ Increasing(emitted) /\ Increasing(messages)
    /\ \A i \in 1 .. Len(emitted), j \in 1 .. Len(messages) : emitted[i] < messages[j]
Exact == \A k \in Positions :
    Among(emitted, k) \/ Among(messages, k) <=> k <= decoder.frames /\ IsValid(stream[k].frame)
NoneFatal == \A k \in Positions : k <= decoder.frames => ~Fatal(stream[k].frame)

Decoder == Position /\ Waits /\ InOrder /\ Exact /\ NoneFatal

\* A connection is settled when it is ready or destroyed, and those before it are.
Untouched ==
    /\ peer = NewPeer /\ sent = <<>> /\ stream = <<>> /\ arrived = 0
    /\ decoder = NewDecoder /\ emitted = <<>>
Lifecycle ==
    /\ timer = ~settled
    /\ \A h \in 1 .. Hosts : h > host => socket[h] = "none"
    /\ \A h \in 1 .. Hosts : h < host => socket[h] = "destroyed"
    /\ socket[host] # "none"
    /\ socket[host] = "dialing" => Untouched /\ ~settled
    /\ peer.ready => settled
    /\ settled /\ ~peer.ready => socket[host] = "destroyed"
    /\ ~Idle => socket[host] = "open"
Outcome ==
    /\ result = "resolved" <=> peer.ready
    /\ result = "failed" => settled

\* The flags of the handshake and the answers follow what was emitted.
Flags ==
    /\ peer.version <=> \E i \in 1 .. Len(emitted) : Command(emitted[i]) = "version"
    /\ peer.verack <=> \E i \in 1 .. Len(emitted) : Command(emitted[i]) = "verack"
    /\ peer.ready <=> peer.version /\ peer.verack
Answered ==
    /\ Count("verack") = CountOf("version") /\ Count("pong") = CountOf("ping")
    /\ Count("getaddr") = IF peer.ready THEN 1 ELSE 0

IInv ==
    /\ TypeOK /\ Layout
    /\ socket[host] = "open" => Decoder
    /\ Lifecycle /\ Outcome /\ Flags /\ Answered

-----------------------------------------------------------------------------
\* Bytes and positions.

LEMMA Sizes == \A f \in Frames : Size(f) \in Nat /\ Size(f) >= Header /\ Header \in Nat /\ Header > 0
BY HeaderAssumption, FramesAssumption DEF Size

\* A frame ends a header or more behind every frame before it.
LEMMA Offsets ==
  ASSUME TypeOK, Layout
  PROVE  /\ Len(stream) \in Nat /\ Written \in Nat
         /\ \A n \in 0 .. Len(stream) : Offset(n) \in Nat
         /\ \A n \in 1 .. Len(stream) : /\ stream[n].frame \in Frames /\ stream[n].end = Offset(n)
                                        /\ Offset(n) = Offset(n - 1) + Size(stream[n].frame)
         /\ \A m, n \in 0 .. Len(stream) : m < n => Offset(m) <= Offset(n - 1)
<1> DEFINE Entry == [frame : Frames, end : Nat]
<1>0. stream \in Seq(Entry)
  BY DEF TypeOK
<1>1. Len(stream) \in Nat /\ \A k \in 1 .. Len(stream) : stream[k] \in Entry
  <2> HIDE DEF Entry
  <2> QED BY <1>0, ElementOfSeq, LenProperties
<1>2. \A k \in 1 .. Len(stream) : stream[k].frame \in Frames /\ stream[k].end \in Nat
  BY <1>1
<1>3. \A n \in 0 .. Len(stream) : Offset(n) \in Nat
  BY <1>1, <1>2 DEF Offset
<1>4. \A n \in 1 .. Len(stream) : stream[n].end = Offset(n)
  BY <1>1 DEF Offset
<1>5. ASSUME NEW m \in 0 .. Len(stream), NEW n \in 0 .. Len(stream), m < n
      PROVE  Offset(m) <= Offset(n - 1)
  <2>1. CASE m = 0
    <3>1. Offset(m) = 0 /\ Offset(n - 1) \in Nat
      BY <1>1, <1>3, <1>5, <2>1 DEF Offset
    <3> QED BY <3>1
  <2>2. CASE m # 0
    BY <1>1, <1>4, <1>5, <2>2 DEF Layout, Positions
  <2> QED BY <2>1, <2>2
<1>6. Written \in Nat
  BY <1>1, <1>3 DEF Written
<1>7. \A n \in 1 .. Len(stream) : Offset(n) = Offset(n - 1) + Size(stream[n].frame)
  BY <1>4 DEF Layout, Positions
<1> QED BY <1>1, <1>2, <1>3, <1>4, <1>5, <1>6, <1>7

\* The decoder that holds a byte has a frame in front of it.
LEMMA InFront ==
  ASSUME TypeOK, Layout, Position, decoder.held > 0
  PROVE  /\ decoder.frames < Len(stream) /\ Front \in Frames
         /\ Offset(decoder.frames + 1) = Offset(decoder.frames) + Size(Front)
         /\ Size(Front) \in Nat /\ Size(Front) >= Header
<1>1. /\ decoder.frames \in 0 .. Len(stream) /\ decoder.held \in Nat /\ arrived \in 0 .. Written
      /\ Len(stream) \in Nat /\ Written \in Nat /\ Offset(decoder.frames) \in Nat
  BY Offsets DEF TypeOK
<1>2. decoder.frames # Len(stream)
  <2> SUFFICES ASSUME decoder.frames = Len(stream) PROVE FALSE
    OBVIOUS
  <2>1. Offset(decoder.frames) = Written
    BY DEF Written
  <2> QED BY <1>1, <2>1 DEF Position
<1>3. decoder.frames + 1 \in 1 .. Len(stream) /\ (decoder.frames + 1) - 1 = decoder.frames
  BY <1>1, <1>2
<1>4. /\ Front \in Frames
      /\ Offset(decoder.frames + 1) = Offset(decoder.frames) + Size(Front)
  BY <1>3, Offsets DEF Front
<1> QED BY <1>1, <1>2, <1>4, Sizes

-----------------------------------------------------------------------------
\* Counting positions.

LEMMA Top ==
  ASSUME NEW n \in Nat, NEW A \in SUBSET (1 .. n)
  PROVE  /\ IsFiniteSet(A) /\ Cardinality(A) \in Nat
         /\ Cardinality(A \cup {n + 1}) = Cardinality(A) + 1
         /\ Cardinality(A) > 0 <=> A # {}
<1>1. IsFiniteSet(1 .. n)
  BY FS_Interval
<1>2. IsFiniteSet(A)
  BY <1>1, FS_Subset
<1>3. n + 1 \notin A
  OBVIOUS
<1>4. Cardinality(A) \in Nat /\ (Cardinality(A) = 0 <=> A = {})
  BY <1>2, FS_CardinalityType, FS_EmptySet
<1> QED BY <1>2, <1>3, <1>4, FS_AddElement

\* How many members of a sequence are in a set.
Counted(s, P) == Cardinality({i \in 1 .. Len(s) : s[i] \in P})

\* Appending to the sequence adds one to it if what is appended is.
LEMMA CountAppended ==
  ASSUME NEW S, NEW seq \in Seq(S), NEW e \in S, NEW P
  PROVE  /\ Counted(seq, P) \in Nat
         /\ Counted(Append(seq, e), P) = Counted(seq, P) + (IF e \in P THEN 1 ELSE 0)
<1> DEFINE old == {i \in 1 .. Len(seq) : seq[i] \in P}
           new == {i \in 1 .. Len(Append(seq, e)) : Append(seq, e)[i] \in P}
<1>1. /\ Len(seq) \in Nat /\ Len(Append(seq, e)) = Len(seq) + 1
      /\ \A i \in 1 .. Len(seq) : Append(seq, e)[i] = seq[i]
      /\ Append(seq, e)[Len(seq) + 1] = e
  BY AppendProperties
<1>2. old \in SUBSET (1 .. Len(seq))
  OBVIOUS
<1>3. /\ Cardinality(old) \in Nat
      /\ Cardinality(old \cup {Len(seq) + 1}) = Cardinality(old) + 1
  BY <1>1, <1>2, Top
<1>4. new = IF e \in P THEN old \cup {Len(seq) + 1} ELSE old
  <2>1. \A i : i \in 1 .. Len(seq) + 1 <=> i \in 1 .. Len(seq) \/ i = Len(seq) + 1
    BY <1>1
  <2> QED BY <1>1, <2>1
<1>5. Counted(seq, P) = Cardinality(old) /\ Counted(Append(seq, e), P) = Cardinality(new)
  BY DEF Counted
<1> HIDE DEF old, new
<1>6. Cardinality(new) = Cardinality(old) + (IF e \in P THEN 1 ELSE 0)
  BY <1>3, <1>4
<1> QED BY <1>3, <1>5, <1>6

-----------------------------------------------------------------------------
\* What a step that leaves the session alone, or only its handshake, keeps.

LEMMA LayoutKept ==
  ASSUME Layout, stream' = stream
  PROVE  Layout' /\ Written' = Written /\ \A n : Offset(n)' = Offset(n)
<1>1. \A n : Offset(n)' = Offset(n)
  BY DEF Offset
<1>2. Layout'
  BY <1>1 DEF Layout, Positions, Size
<1> QED BY <1>1, <1>2 DEF Written, Offset

LEMMA HandshakeKept ==
  ASSUME Flags, Answered, stream' = stream, UNCHANGED handshake
  PROVE  Flags' /\ Answered'
<1>1. Flags'
  BY DEF Flags, handshake, Command
<1>2. \A what : Count(what)' = Count(what)
  BY DEF Count, handshake
<1>3. \A c : CountOf(c)' = CountOf(c)
  BY DEF CountOf, handshake
<1> QED BY <1>1, <1>2, <1>3 DEF Answered, handshake

LEMMA DecoderKept ==
  ASSUME Layout, Decoder, UNCHANGED <<stream, incoming>>, emitted' = emitted
  PROVE  Decoder'
<1>1. /\ arrived' = arrived /\ decoder' = decoder /\ decoding' = decoding
      /\ messages' = messages /\ emitted' = emitted /\ stream' = stream
  BY DEF incoming
<1>2. Position'
  BY <1>1, LayoutKept DEF Decoder, Position
<1>3. Waits'
  BY <1>1 DEF Decoder, Waits, Waiting, Front, Size, Fatal
<1>4. InOrder'
  BY <1>1 DEF Decoder, InOrder, Increasing
<1>5. Exact'
  BY <1>1 DEF Decoder, Exact, Among, Positions, IsValid
<1>6. NoneFatal'
  BY <1>1 DEF Decoder, NoneFatal, Positions, Fatal
<1> QED BY <1>2, <1>3, <1>4, <1>5, <1>6 DEF Decoder

\* A step of the connection only.
LEMMA SessionKept ==
  ASSUME IInv, UNCHANGED <<host, session>>,
         result' \in {"dialing", "resolved", "failed"}, settled' \in BOOLEAN, timer' \in BOOLEAN,
         socket' \in [1 .. Hosts -> {"none", "dialing", "open", "destroyed"}],
         socket'[host] = "open" => socket[host] = "open"
  PROVE  TypeOK' /\ Layout' /\ Flags' /\ Answered' /\ (socket[host] = "open" => Decoder)'
<1>1. /\ host' = host /\ stream' = stream /\ UNCHANGED handshake /\ UNCHANGED incoming
      /\ peer' = peer /\ sent' = sent /\ emitted' = emitted /\ arrived' = arrived
      /\ decoder' = decoder /\ decoding' = decoding /\ messages' = messages
  BY DEF session, handshake, incoming
<1>2. Layout' /\ Written' = Written
  BY <1>1, LayoutKept DEF IInv
<1>3. TypeOK'
  BY <1>1, <1>2 DEF IInv, TypeOK
<1>4. Flags' /\ Answered'
  BY <1>1, HandshakeKept DEF IInv
<1>5. (socket[host] = "open" => Decoder)'
  BY <1>1, DecoderKept DEF IInv
<1> QED BY <1>2, <1>3, <1>4, <1>5

-----------------------------------------------------------------------------
\* The connection ends.

LEMMA FailStep ==
  ASSUME IInv, Fail, Idle, UNCHANGED <<host, session>>
  PROVE  IInv'
<1>1. /\ ~settled /\ settled' = TRUE /\ timer' = FALSE /\ result' = result
      /\ socket' = [socket EXCEPT ![host] = "destroyed"]
      /\ host' = host /\ peer' = peer /\ decoding' = decoding /\ messages' = messages
  BY DEF Fail, session, incoming, handshake
<1>2. /\ host \in 1 .. Hosts /\ result \in {"dialing", "resolved", "failed"}
      /\ socket \in [1 .. Hosts -> {"none", "dialing", "open", "destroyed"}]
  BY DEF IInv, TypeOK
<1>3. /\ socket' \in [1 .. Hosts -> {"none", "dialing", "open", "destroyed"}]
      /\ socket'[host] = "destroyed" /\ \A h \in 1 .. Hosts : h # host => socket'[h] = socket[h]
  BY <1>1, <1>2
<1>4. TypeOK' /\ Layout' /\ Flags' /\ Answered' /\ (socket[host] = "open" => Decoder)'
  BY <1>1, <1>2, <1>3, SessionKept
<1>5. Lifecycle'
  <2>1. /\ \A h \in 1 .. Hosts : h > host => socket[h] = "none"
        /\ \A h \in 1 .. Hosts : h < host => socket[h] = "destroyed"
    BY DEF IInv, Lifecycle
  <2>2. Idle'
    BY <1>1 DEF Idle
  <2>3. /\ \A h \in 1 .. Hosts : h > host' => socket'[h] = "none"
        /\ \A h \in 1 .. Hosts : h < host' => socket'[h] = "destroyed"
    BY <1>1, <1>2, <1>3, <2>1
  <2> QED BY <1>1, <1>3, <2>2, <2>3 DEF Lifecycle
<1>6. Outcome'
  BY <1>1 DEF IInv, Outcome
<1> QED BY <1>4, <1>5, <1>6 DEF IInv

LEMMA DestroyStep ==
  ASSUME IInv, peer.ready, Idle, socket' = [socket EXCEPT ![host] = "destroyed"],
         UNCHANGED <<host, result, settled, timer, session>>
  PROVE  IInv'
<1>1. /\ settled' = settled /\ timer' = timer /\ result' = result /\ host' = host
      /\ peer' = peer /\ decoding' = decoding /\ messages' = messages
      /\ UNCHANGED <<host, session>>
  BY DEF session, incoming, handshake
<1>2. /\ host \in 1 .. Hosts /\ result \in {"dialing", "resolved", "failed"}
      /\ settled \in BOOLEAN /\ timer \in BOOLEAN
      /\ socket \in [1 .. Hosts -> {"none", "dialing", "open", "destroyed"}]
  BY DEF IInv, TypeOK
<1>3. /\ socket' \in [1 .. Hosts -> {"none", "dialing", "open", "destroyed"}]
      /\ socket'[host] = "destroyed" /\ \A h \in 1 .. Hosts : h # host => socket'[h] = socket[h]
  BY <1>2
<1>4. TypeOK' /\ Layout' /\ Flags' /\ Answered' /\ (socket[host] = "open" => Decoder)'
  BY <1>1, <1>2, <1>3, SessionKept
<1>5. Lifecycle'
  <2>1. /\ \A h \in 1 .. Hosts : h > host => socket[h] = "none"
        /\ \A h \in 1 .. Hosts : h < host => socket[h] = "destroyed"
        /\ timer = ~settled /\ settled
    BY DEF IInv, Lifecycle
  <2>2. Idle'
    BY <1>1 DEF Idle
  <2>3. /\ \A h \in 1 .. Hosts : h > host' => socket'[h] = "none"
        /\ \A h \in 1 .. Hosts : h < host' => socket'[h] = "destroyed"
    BY <1>1, <1>2, <1>3, <2>1
  <2> QED BY <1>1, <1>3, <2>1, <2>2, <2>3 DEF Lifecycle
<1>6. Outcome'
  BY <1>1 DEF IInv, Outcome
<1> QED BY <1>4, <1>5, <1>6 DEF IInv

\* Outside the loops.
LEMMA ConnectionSteps ==
  ASSUME IInv, DialFails \/ Timeout \/ Disconnect \/ ClosedEarly \/ CallerCloses
  PROVE  IInv'
<1>1. socket[host] # "open" => Idle
  BY DEF IInv, Lifecycle
<1>2. CASE DialFails
  BY <1>1, <1>2, FailStep DEF DialFails
<1>3. CASE Timeout
  BY <1>3, FailStep DEF Timeout
<1>4. CASE Disconnect
  <2>1. CASE peer.ready
    BY <1>4, <2>1, DestroyStep DEF Disconnect
  <2>2. CASE ~peer.ready
    BY <1>4, <2>2, FailStep DEF Disconnect
  <2> QED BY <2>1, <2>2
<1>5. CASE ClosedEarly
  BY <1>1, <1>5, FailStep DEF ClosedEarly
<1>6. CASE CallerCloses
  <2>1. peer.ready
    BY <1>6 DEF CallerCloses, IInv, Outcome
  <2> QED BY <1>6, <2>1, DestroyStep DEF CallerCloses
<1> QED BY <1>2, <1>3, <1>4, <1>5, <1>6

LEMMA GiveUpStep ==
  ASSUME IInv, GiveUp
  PROVE  IInv'
<1>1. /\ result = "dialing" /\ result' = "failed" /\ settled
      /\ socket' = socket /\ settled' = settled /\ timer' = timer
      /\ host' = host /\ UNCHANGED session
  BY DEF GiveUp, connection
<1>2. /\ settled \in BOOLEAN /\ timer \in BOOLEAN
      /\ socket \in [1 .. Hosts -> {"none", "dialing", "open", "destroyed"}]
  BY DEF IInv, TypeOK
<1>3. TypeOK' /\ Layout' /\ Flags' /\ Answered' /\ (socket[host] = "open" => Decoder)'
  BY <1>1, <1>2, SessionKept
<1>4. Lifecycle'
  BY <1>1 DEF IInv, Lifecycle, Untouched, NewPeer, NewDecoder, Idle, session, incoming, handshake
<1>5. Outcome'
  BY <1>1 DEF IInv, Outcome, session, handshake
<1> QED BY <1>3, <1>4, <1>5 DEF IInv

-----------------------------------------------------------------------------
\* A connection begins.

\* Nothing was received from a host that was not connected to.
LEMMA NothingYet ==
  ASSUME Untouched, ~decoding, messages = <<>>
  PROVE  Layout /\ Decoder /\ Flags /\ Answered
<1>1. /\ peer = NewPeer /\ sent = <<>> /\ stream = <<>> /\ arrived = 0
      /\ decoder = NewDecoder /\ emitted = <<>> /\ Len(stream) = 0 /\ Len(emitted) = 0
      /\ Len(sent) = 0 /\ Len(messages) = 0
  BY DEF Untouched
<1>2. Layout
  BY <1>1 DEF Layout, Positions
<1>3. Decoder
  BY <1>1, HeaderAssumption
     DEF Decoder, Position, Waits, Waiting, InOrder, Increasing, Exact, NoneFatal, Positions,
         NewDecoder, Offset
<1>4. Flags
  BY <1>1 DEF Flags, NewPeer
<1>5. Answered
  <2>1. (\A what : Count(what) = 0) /\ \A c : CountOf(c) = 0
    <3>1. (\A what : {i \in 1 .. Len(sent) : sent[i] = what} = {})
          /\ \A c : {i \in 1 .. Len(emitted) : stream[emitted[i]].frame.command = c} = {}
      BY <1>1
    <3> QED BY <3>1, FS_EmptySet DEF Count, CountOf
  <2> QED BY <1>1, <2>1 DEF Answered, NewPeer
<1> QED BY <1>2, <1>3, <1>4, <1>5

LEMMA InitIInv ==
  ASSUME Init
  PROVE  IInv
<1>1. 1 \in 1 .. Hosts
  BY HostsAssumption
<1>2. /\ Untouched /\ ~decoding /\ messages = <<>> /\ Len(stream) = 0 /\ Written = 0 /\ Len(messages) = 0
  BY DEF Init, Untouched, Written, Offset
<1>3. Layout /\ Decoder /\ Flags /\ Answered
  BY <1>2, NothingYet
<1>4. /\ host \in 1 .. Hosts /\ host = 1 /\ result = "dialing" /\ settled = FALSE /\ timer = TRUE
      /\ socket \in [1 .. Hosts -> {"none", "dialing", "open", "destroyed"}]
      /\ socket[host] = "dialing" /\ \A h \in 1 .. Hosts : h > 1 => socket[h] = "none"
  BY <1>1 DEF Init
<1>5. TypeOK
  <2>1. peer \in [version : BOOLEAN, verack : BOOLEAN, ready : BOOLEAN]
    BY DEF Init, NewPeer
  <2>2. decoder \in [frames : 0 .. Len(stream), held : Nat, needed : Nat]
    BY <1>2, HeaderAssumption DEF Init, NewDecoder
  <2>3. /\ sent \in Seq({"version", "verack", "pong", "getaddr"})
        /\ stream \in Seq([frame : Frames, end : Nat]) /\ arrived \in 0 .. Written
        /\ messages \in Seq(1 .. Len(stream)) /\ emitted \in Seq(1 .. Len(stream))
    BY <1>2 DEF Init
  <2> QED BY <1>2, <1>4, <2>1, <2>2, <2>3 DEF TypeOK, Init
<1>6. Lifecycle /\ Outcome
  <2>1. \A h \in 1 .. Hosts : ~(h < host)
    BY <1>4
  <2>2. ~peer.ready
    BY DEF Init, NewPeer
  <2>3. Idle
    BY <1>2 DEF Idle
  <2> QED BY <1>2, <1>4, <2>1, <2>2, <2>3 DEF Lifecycle, Outcome
<1> QED BY <1>3, <1>5, <1>6 DEF IInv

LEMMA ConnectedStep ==
  ASSUME IInv, Connected
  PROVE  IInv'
<1>1. /\ socket[host] = "dialing" /\ socket' = [socket EXCEPT ![host] = "open"]
      /\ sent' = <<"version">> /\ UNCHANGED <<host, result, settled, timer, stream, incoming, peer, emitted>>
      /\ decoder' = decoder /\ decoding' = decoding /\ arrived' = arrived /\ messages' = messages
  BY DEF Connected, incoming
<1>2. /\ Untouched /\ ~settled /\ Idle /\ host \in 1 .. Hosts
  BY <1>1 DEF IInv, Lifecycle, TypeOK
<1>3. Layout /\ Decoder /\ Flags /\ Answered
  BY <1>2, NothingYet DEF Idle
<1>4. /\ socket' \in [1 .. Hosts -> {"none", "dialing", "open", "destroyed"}]
      /\ socket'[host] = "open" /\ \A h \in 1 .. Hosts : h # host => socket'[h] = socket[h]
  BY <1>1, <1>2 DEF IInv, TypeOK
<1>5. Layout' /\ Written' = Written /\ Decoder'
  BY <1>1, <1>3, LayoutKept, DecoderKept
<1>6. TypeOK'
  BY <1>1, <1>4, <1>5 DEF IInv, TypeOK
<1>7. Flags'
  BY <1>1, <1>3 DEF Flags, Command
<1>8. Answered'
  <2>1. sent = <<>> /\ \A what \in {"verack", "pong", "getaddr"} :
          {i \in 1 .. Len(sent') : sent'[i] = what} = {i \in 1 .. Len(sent) : sent[i] = what}
    BY <1>1, <1>2 DEF Untouched
  <2>2. \A what \in {"verack", "pong", "getaddr"} : Count(what)' = Count(what)
    BY <2>1 DEF Count
  <2>3. \A c : CountOf(c)' = CountOf(c)
    BY <1>1 DEF CountOf
  <2> QED BY <1>1, <1>3, <2>2, <2>3 DEF Answered
<1>9. Lifecycle'
  <2>1. /\ \A h \in 1 .. Hosts : h > host' => socket'[h] = "none"
        /\ \A h \in 1 .. Hosts : h < host' => socket'[h] = "destroyed"
        /\ ~peer.ready /\ timer = ~settled
    BY <1>1, <1>2, <1>4 DEF IInv, Lifecycle, Untouched, NewPeer
  <2> QED BY <1>1, <1>2, <1>4, <2>1 DEF Lifecycle
<1>10. Outcome'
  BY <1>1 DEF IInv, Outcome
<1> QED BY <1>1, <1>5, <1>6, <1>7, <1>8, <1>9, <1>10 DEF IInv

LEMMA NextHostStep ==
  ASSUME IInv, NextHost
  PROVE  IInv'
<1>1. /\ result = "dialing" /\ settled /\ host < Hosts
      /\ host' = host + 1 /\ settled' = FALSE /\ timer' = TRUE /\ result' = result
      /\ socket' = [socket EXCEPT ![host'] = "dialing"]
      /\ peer' = NewPeer /\ sent' = <<>> /\ stream' = <<>> /\ arrived' = 0
      /\ decoder' = NewDecoder /\ decoding' = FALSE /\ messages' = <<>> /\ emitted' = <<>>
      /\ Len(stream') = 0 /\ Len(emitted') = 0 /\ Len(sent') = 0 /\ Len(messages') = 0
  BY DEF NextHost
<1>2. /\ host \in 1 .. Hosts /\ Hosts \in Nat /\ host' \in 1 .. Hosts
      /\ socket \in [1 .. Hosts -> {"none", "dialing", "open", "destroyed"}]
      /\ socket' \in [1 .. Hosts -> {"none", "dialing", "open", "destroyed"}]
      /\ socket'[host'] = "dialing" /\ \A h \in 1 .. Hosts : h # host' => socket'[h] = socket[h]
  BY <1>1, HostsAssumption DEF IInv, TypeOK
<1>3. Layout' /\ Written' = 0
  BY <1>1 DEF Layout, Positions, Written, Offset
<1>4. TypeOK'
  <2>1. peer' \in [version : BOOLEAN, verack : BOOLEAN, ready : BOOLEAN]
    BY <1>1 DEF NewPeer
  <2>2. decoder' \in [frames : 0 .. Len(stream'), held : Nat, needed : Nat]
    BY <1>1, HeaderAssumption DEF NewDecoder
  <2>3. /\ sent' \in Seq({"version", "verack", "pong", "getaddr"})
        /\ stream' \in Seq([frame : Frames, end : Nat]) /\ arrived' \in 0 .. Written'
        /\ messages' \in Seq(1 .. Len(stream')) /\ emitted' \in Seq(1 .. Len(stream'))
    BY <1>1, <1>3
  <2> QED BY <1>1, <1>2, <2>1, <2>2, <2>3 DEF TypeOK
<1>5. Flags'
  BY <1>1 DEF Flags, NewPeer
<1>6. Answered'
  <2>1. (\A what : {i \in 1 .. Len(sent') : sent'[i] = what} = {})
        /\ \A c : {i \in 1 .. Len(emitted') : stream'[emitted'[i]].frame.command = c} = {}
    BY <1>1
  <2>2. (\A what : Count(what)' = 0) /\ \A c : CountOf(c)' = 0
    BY <2>1, FS_EmptySet DEF Count, CountOf
  <2> QED BY <1>1, <2>2 DEF Answered, NewPeer
<1>7. Lifecycle'
  <2>1. /\ \A h \in 1 .. Hosts : h > host => socket[h] = "none"
        /\ \A h \in 1 .. Hosts : h < host => socket[h] = "destroyed"
    BY DEF IInv, Lifecycle
  <2>2. socket[host] = "destroyed"
    BY <1>1 DEF IInv, Lifecycle, Outcome
  <2>3. /\ \A h \in 1 .. Hosts : h > host' => socket'[h] = "none"
        /\ \A h \in 1 .. Hosts : h < host' => socket'[h] = "destroyed"
    BY <1>1, <1>2, <2>1, <2>2
  <2> QED BY <1>1, <1>2, <2>3 DEF Lifecycle, Untouched, Idle, NewPeer
<1>8. Outcome'
  BY <1>1 DEF Outcome, NewPeer
<1> QED BY <1>1, <1>2, <1>3, <1>4, <1>5, <1>6, <1>7, <1>8 DEF IInv

-----------------------------------------------------------------------------
\* Bytes of an open connection.

LEMMA OpenKept ==
  ASSUME IInv, socket[host] = "open", UNCHANGED <<host, result, connection>>, peer'.ready = peer.ready
  PROVE  Lifecycle' /\ Outcome'
<1>1. /\ host' = host /\ result' = result /\ socket' = socket /\ settled' = settled /\ timer' = timer
  BY DEF connection
<1>2. Lifecycle'
  BY <1>1 DEF IInv, Lifecycle
<1> QED BY <1>1, <1>2 DEF IInv, Outcome

LEMMA WiderSeq ==
  ASSUME NEW S, NEW T, S \subseteq T, NEW s \in Seq(S)
  PROVE  s \in Seq(T)
<1>1. Len(s) \in Nat /\ s \in [1 .. Len(s) -> T]
  BY ElementOfSeq, LenProperties
<1> QED BY <1>1, SeqDef

LEMMA RemoteWritesStep ==
  ASSUME IInv, RemoteWrites
  PROVE  IInv'
<1>1. /\ socket[host] = "open" /\ UNCHANGED <<host, result, connection, incoming, handshake>>
      /\ peer' = peer /\ sent' = sent /\ emitted' = emitted
      /\ arrived' = arrived /\ decoder' = decoder /\ decoding' = decoding /\ messages' = messages
  BY DEF RemoteWrites, incoming, handshake
<1>2. PICK f \in Frames : stream' = Append(stream, [frame |-> f, end |-> Written + Size(f)])
  BY DEF RemoteWrites
<1>3. /\ TypeOK /\ Layout /\ Decoder /\ Written \in Nat /\ Len(stream) \in Nat
      /\ Size(f) \in Nat /\ Size(f) >= Header /\ Header \in Nat
  BY <1>1, Offsets, Sizes DEF IInv
<1> DEFINE Entry == [frame : Frames, end : Nat]
           e == [frame |-> f, end |-> Written + Size(f)]
<1>4. stream \in Seq(Entry) /\ e \in Entry /\ e.frame = f /\ e.end = Written + Size(f)
  BY <1>3 DEF TypeOK
<1>5. /\ stream' \in Seq(Entry) /\ Len(stream') = Len(stream) + 1
      /\ \A k \in 1 .. Len(stream) : stream'[k] = stream[k]
      /\ stream'[Len(stream) + 1] = e
  <2> HIDE DEF Entry, e
  <2> QED BY <1>2, <1>4, AppendProperties DEF e
<1>6. \A n \in 0 .. Len(stream) : Offset(n)' = Offset(n)
  <2>1. \A n \in 0 .. Len(stream) : n # 0 => n \in 1 .. Len(stream)
    BY <1>3
  <2> QED BY <1>5, <2>1 DEF Offset
<1>7. Written' = Written + Size(f)
  <2>1. Len(stream') # 0 /\ stream'[Len(stream')].end = Written + Size(f)
    BY <1>3, <1>4, <1>5
  <2> QED BY <2>1 DEF Written, Offset
<1>8. Layout'
  <2>1. ASSUME NEW k \in 1 .. Len(stream) + 1
        PROVE  stream'[k].end = Offset(k - 1)' + Size(stream'[k].frame)
    <3>1. CASE k \in 1 .. Len(stream)
      <4>1. Offset(k - 1)' = Offset(k - 1)
        BY <1>3, <1>6, <3>1
      <4> QED BY <1>3, <1>5, <3>1, <4>1 DEF Layout, Positions
    <3>2. CASE k = Len(stream) + 1
      <4>1. Offset(k - 1)' = Written
        BY <1>3, <1>6, <3>2 DEF Written
      <4> QED BY <1>4, <1>5, <3>2, <4>1
    <3> QED BY <1>3, <3>1, <3>2
  <2>2. ASSUME NEW j \in 1 .. Len(stream) + 1, NEW k \in 1 .. Len(stream) + 1, j < k
        PROVE  stream'[j].end <= Offset(k - 1)'
    <3>1. j \in 1 .. Len(stream) /\ k - 1 \in 0 .. Len(stream) /\ j <= k - 1
      BY <1>3, <2>2
    <3>2. stream'[j].end = Offset(j) /\ Offset(k - 1)' = Offset(k - 1)
      BY <1>3, <1>5, <1>6, <3>1, Offsets
    <3>3. CASE j = k - 1
      BY <1>3, <3>1, <3>2, <3>3, Offsets
    <3>4. CASE j < k - 1
      <4>1. /\ Offset(j) <= Offset((k - 1) - 1) /\ Offset(k - 1) = Offset((k - 1) - 1) + Size(stream[k - 1].frame)
            /\ stream[k - 1].frame \in Frames /\ k - 1 \in 1 .. Len(stream)
            /\ Offset(j) \in Nat /\ Offset((k - 1) - 1) \in Nat
        BY <1>3, <3>1, <3>4, Offsets
      <4> QED BY <3>2, <4>1, Sizes
    <3> QED BY <3>1, <3>3, <3>4
  <2>3. Positions' = 1 .. Len(stream) + 1
    BY <1>5 DEF Positions
  <2> QED BY <2>1, <2>2, <2>3 DEF Layout, Size
<1>9. TypeOK'
  <2>1. 1 .. Len(stream) \subseteq 1 .. Len(stream') /\ 0 .. Len(stream) \subseteq 0 .. Len(stream')
    BY <1>3, <1>5
  <2>2. messages \in Seq(1 .. Len(stream')) /\ emitted \in Seq(1 .. Len(stream'))
    BY <1>3, <2>1, WiderSeq DEF TypeOK
  <2>3. arrived \in 0 .. Written'
    BY <1>3, <1>7 DEF TypeOK
  <2>4. decoder \in [frames : 0 .. Len(stream'), held : Nat, needed : Nat]
    BY <1>3, <2>1 DEF TypeOK
  <2> QED BY <1>1, <1>3, <1>5, <2>2, <2>3, <2>4 DEF TypeOK, connection
<1>10. Decoder'
  <2>1. decoder.frames \in 0 .. Len(stream) /\ emitted \in Seq(1 .. Len(stream)) /\ messages \in Seq(1 .. Len(stream))
    BY <1>3 DEF TypeOK
  <2>2. Position'
    BY <1>1, <1>3, <1>6, <2>1 DEF Decoder, Position
  <2>3. Waits'
    <3>1. CASE decoder.frames = Len(stream)
      BY <1>1, <1>3, <3>1 DEF Decoder, Waits, Waiting
    <3>2. CASE decoder.frames < Len(stream)
      <4>1. Front' = Front
        <5>1. decoder.frames + 1 \in 1 .. Len(stream)
          BY <1>3, <2>1, <3>2
        <5> QED BY <1>1, <1>5, <5>1 DEF Front
      <4> QED BY <1>1, <1>3, <1>5, <2>1, <3>2, <4>1 DEF Decoder, Waits, Waiting, Fatal, Size
    <3> QED BY <1>3, <2>1, <3>1, <3>2
  <2>4. InOrder'
    BY <1>1, <1>3 DEF Decoder, InOrder, Increasing
  <2>5. \A k \in 1 .. Len(stream) + 1 : k \in 1 .. Len(stream) \/ (k = Len(stream) + 1 /\ ~(k <= decoder.frames))
    BY <1>3, <2>1
  <2>6. /\ \A i \in 1 .. Len(emitted) : emitted[i] \in 1 .. Len(stream)
        /\ \A i \in 1 .. Len(messages) : messages[i] \in 1 .. Len(stream)
    BY <2>1, ElementOfSeq
  <2>7. ~Among(emitted, Len(stream) + 1) /\ ~Among(messages, Len(stream) + 1)
    BY <1>3, <2>6 DEF Among
  <2>8. Exact'
    <3> SUFFICES ASSUME NEW k \in 1 .. Len(stream) + 1
                 PROVE  Among(emitted, k) \/ Among(messages, k)
                            <=> k <= decoder.frames /\ IsValid(stream'[k].frame)
      BY <1>1, <1>5 DEF Exact, Among, Positions, IsValid
    <3>1. CASE k \in 1 .. Len(stream)
      BY <1>3, <1>5, <3>1 DEF Decoder, Exact, Positions
    <3>2. CASE k = Len(stream) + 1
      BY <2>5, <2>7, <3>2, <1>3, <2>1
    <3> QED BY <2>5, <3>1, <3>2
  <2>9. NoneFatal'
    BY <1>1, <1>3, <1>5, <2>5 DEF Decoder, NoneFatal, Positions, Fatal
  <2> QED BY <2>2, <2>3, <2>4, <2>8, <2>9 DEF Decoder
<1>11. /\ Flags' /\ Answered'
  <2>1. \A i \in 1 .. Len(emitted) : emitted[i] \in 1 .. Len(stream)
    BY <1>3, ElementOfSeq DEF TypeOK
  <2>2. \A i \in 1 .. Len(emitted) : stream'[emitted[i]] = stream[emitted[i]]
    BY <1>5, <2>1
  <2>3. Flags'
    BY <1>1, <2>2 DEF IInv, Flags, Command
  <2>4. \A c : {i \in 1 .. Len(emitted) : stream'[emitted[i]].frame.command = c}
                = {i \in 1 .. Len(emitted) : stream[emitted[i]].frame.command = c}
    BY <2>2
  <2>5. \A c : CountOf(c)' = CountOf(c)
    BY <1>1, <2>4 DEF CountOf
  <2>6. \A what : Count(what)' = Count(what)
    BY <1>1 DEF Count
  <2> QED BY <1>1, <2>3, <2>5, <2>6 DEF IInv, Answered
<1> QED BY <1>1, <1>8, <1>9, <1>10, <1>11, OpenKept DEF IInv

LEMMA ChunkStep ==
  ASSUME IInv, Chunk
  PROVE  IInv'
<1>1. /\ socket[host] = "open" /\ Idle /\ UNCHANGED <<host, result, connection, handshake>>
      /\ stream' = stream /\ messages' = messages /\ emitted' = emitted /\ peer' = peer /\ sent' = sent
  BY DEF Chunk, handshake
<1>2. PICK n \in 1 .. Written - arrived :
        /\ arrived' = arrived + n
        /\ IF decoder.held + n < decoder.needed
           THEN decoder' = [decoder EXCEPT !.held = decoder.held + n] /\ decoding' = decoding
           ELSE /\ decoder' = [decoder EXCEPT !.held = decoder.held + n, !.needed = Header]
                /\ decoding' = TRUE
  BY DEF Chunk
<1>3. /\ TypeOK /\ Layout /\ Decoder /\ ~decoding /\ Written \in Nat /\ arrived \in 0 .. Written
      /\ decoder \in [frames : 0 .. Len(stream), held : Nat, needed : Nat]
      /\ Offset(decoder.frames) \in Nat /\ Header \in Nat
  BY <1>1, Offsets, HeaderAssumption DEF IInv, Idle, TypeOK
<1>4. /\ decoder' \in [frames : 0 .. Len(stream), held : Nat, needed : Nat]
      /\ decoder'.frames = decoder.frames /\ decoder'.held = decoder.held + n
      /\ arrived' \in 0 .. Written
  <2>1. decoder.held + n \in Nat /\ arrived' \in 0 .. Written
    BY <1>2, <1>3
  <2>2. CASE decoder.held + n < decoder.needed
    BY <1>2, <1>3, <2>1, <2>2
  <2>3. CASE ~(decoder.held + n < decoder.needed)
    BY <1>2, <1>3, <2>1, <2>3
  <2> QED BY <2>2, <2>3
<1>5. Layout' /\ Written' = Written /\ \A k : Offset(k)' = Offset(k)
  BY <1>1, <1>3, LayoutKept
<1>6. TypeOK'
  BY <1>1, <1>2, <1>3, <1>4, <1>5 DEF TypeOK, connection
<1>7. Position'
  BY <1>1, <1>2, <1>3, <1>4 DEF Decoder, Position, Offset
<1>8. Waits'
  <2>1. CASE decoder.held + n < decoder.needed
    <3>1. /\ decoder'.needed = decoder.needed /\ ~decoding' /\ Front' = Front
          /\ decoder'.held >= decoder.held
      BY <1>1, <1>2, <1>3, <1>4, <2>1 DEF Front
    <3>2. Waiting
      BY <1>3 DEF Decoder, Waits
    <3>3. Waiting'
      BY <1>1, <1>3, <1>4, <3>1, <3>2 DEF Waiting, Fatal, Size
    <3> QED BY <1>4, <2>1, <3>1, <3>3 DEF Waits
  <2>2. CASE ~(decoder.held + n < decoder.needed)
    BY <1>2, <1>3, <2>2 DEF Waits
  <2> QED BY <2>1, <2>2
<1>9. InOrder' /\ Exact' /\ NoneFatal'
  BY <1>1, <1>3, <1>4
     DEF Decoder, InOrder, Increasing, Exact, NoneFatal, Among, Positions, IsValid, Fatal
<1>10. Flags' /\ Answered'
  BY <1>1, HandshakeKept DEF IInv
<1> QED BY <1>1, <1>5, <1>6, <1>7, <1>8, <1>9, <1>10, OpenKept DEF IInv, Decoder

-----------------------------------------------------------------------------
\* push(), frame by frame.

\* The loop runs on an open connection.
LEMMA InLoop ==
  ASSUME IInv, decoding \/ messages # <<>>
  PROVE  /\ socket[host] = "open" /\ TypeOK /\ Layout /\ Decoder
         /\ decoder \in [frames : 0 .. Len(stream), held : Nat, needed : Nat]
         /\ Len(stream) \in Nat /\ Offset(decoder.frames) \in Nat /\ Header \in Nat /\ Header > 0
<1>1. socket[host] = "open"
  BY DEF IInv, Lifecycle, Idle
<1> QED BY <1>1, Offsets, HeaderAssumption DEF IInv, TypeOK

LEMMA CutStep ==
  ASSUME IInv, Cut
  PROVE  IInv'
<1>1. /\ decoding /\ decoder.held >= Header /\ ~Fatal(Front) /\ decoder.held >= Size(Front)
      /\ decoder' = [decoder EXCEPT !.frames = @ + 1, !.held = @ - Size(Front)]
      /\ messages' = IF IsValid(Front) THEN Append(messages, decoder.frames + 1) ELSE messages
      /\ stream' = stream /\ emitted' = emitted /\ peer' = peer /\ sent' = sent
      /\ arrived' = arrived /\ decoding' = decoding
      /\ UNCHANGED <<host, result, connection, handshake>>
  BY DEF Cut, AtHeader, handshake
<1>2. /\ socket[host] = "open" /\ TypeOK /\ Layout /\ Decoder
      /\ decoder \in [frames : 0 .. Len(stream), held : Nat, needed : Nat]
      /\ Len(stream) \in Nat /\ Offset(decoder.frames) \in Nat /\ Header \in Nat /\ Header > 0
  BY <1>1, InLoop
<1>3. /\ decoder.frames < Len(stream) /\ Front \in Frames
      /\ Offset(decoder.frames + 1) = Offset(decoder.frames) + Size(Front)
      /\ Size(Front) \in Nat /\ Size(Front) >= Header
  BY <1>1, <1>2, InFront DEF Decoder
<1>4. /\ decoder' \in [frames : 0 .. Len(stream), held : Nat, needed : Nat]
      /\ decoder'.frames = decoder.frames + 1 /\ decoder'.held = decoder.held - Size(Front)
      /\ decoder'.needed = decoder.needed
  <2>1. decoder.held - Size(Front) \in Nat /\ decoder.frames + 1 \in 0 .. Len(stream)
    BY <1>1, <1>2, <1>3
  <2> QED BY <1>1, <1>2, <2>1
<1>5. Layout' /\ Written' = Written /\ \A k : Offset(k)' = Offset(k)
  BY <1>1, <1>2, LayoutKept
<1> DEFINE new == decoder.frames + 1
<1>6. /\ messages \in Seq(1 .. Len(stream)) /\ emitted \in Seq(1 .. Len(stream)) /\ new \in 1 .. Len(stream)
  BY <1>2, <1>3 DEF TypeOK
<1>7. /\ \A i \in 1 .. Len(emitted) : emitted[i] \in 1 .. Len(stream) /\ emitted[i] < new
      /\ \A i \in 1 .. Len(messages) : messages[i] \in 1 .. Len(stream) /\ messages[i] < new
  <2>1. /\ \A i \in 1 .. Len(emitted) : emitted[i] \in 1 .. Len(stream) /\ Among(emitted, emitted[i])
        /\ \A i \in 1 .. Len(messages) : messages[i] \in 1 .. Len(stream) /\ Among(messages, messages[i])
    BY <1>6, ElementOfSeq DEF Among
  <2>2. /\ \A i \in 1 .. Len(emitted) : emitted[i] <= decoder.frames
        /\ \A i \in 1 .. Len(messages) : messages[i] <= decoder.frames
    BY <1>2, <2>1 DEF Decoder, Exact, Positions
  <2> QED BY <1>2, <2>1, <2>2
<1>8. /\ Len(messages) \in Nat
      /\ Append(messages, new) \in Seq(1 .. Len(stream)) /\ Len(Append(messages, new)) = Len(messages) + 1
      /\ \A i \in 1 .. Len(messages) : Append(messages, new)[i] = messages[i]
      /\ Append(messages, new)[Len(messages) + 1] = new
  BY <1>6, AppendProperties, LenProperties
<1>9. TypeOK'
  BY <1>1, <1>2, <1>4, <1>5, <1>6, <1>8 DEF TypeOK, connection
<1>10. Position'
  <2>1. Offset(new) + decoder'.held = arrived
    BY <1>2, <1>3, <1>4 DEF Decoder, Position
  <2> QED BY <1>1, <1>4, <2>1 DEF Position, Offset
<1>11. Waits'
  BY <1>1, <1>2, <1>4 DEF Decoder, Waits
<1>12. InOrder'
  <2>1. CASE IsValid(Front)
    <3>1. messages' = Append(messages, new)
      BY <1>1, <2>1
    <3>2. \A i \in 1 .. Len(messages) + 1 : i \in 1 .. Len(messages) \/ i = Len(messages) + 1
      BY <1>8
    <3>3. Increasing(messages')
      <4>1. Increasing(messages)
        BY <1>2 DEF Decoder, InOrder
      <4>2. ASSUME NEW i \in 1 .. Len(messages) + 1, NEW j \in 1 .. Len(messages) + 1, i < j
            PROVE  messages'[i] < messages'[j]
        <5>1. i \in 1 .. Len(messages)
          BY <1>8, <4>2
        <5>2. CASE j = Len(messages) + 1
          BY <1>7, <1>8, <3>1, <5>1, <5>2
        <5>3. CASE j \in 1 .. Len(messages)
          BY <1>8, <3>1, <4>1, <4>2, <5>1, <5>3 DEF Increasing
        <5> QED BY <3>2, <5>2, <5>3
      <4> QED BY <1>8, <3>1, <4>2 DEF Increasing
    <3>4. \A i \in 1 .. Len(emitted), j \in 1 .. Len(messages) + 1 : emitted[i] < messages'[j]
      BY <1>2, <1>7, <1>8, <3>1, <3>2 DEF Decoder, InOrder
    <3>5. Increasing(emitted)
      BY <1>2 DEF Decoder, InOrder
    <3> QED BY <1>1, <1>8, <3>1, <3>3, <3>4, <3>5 DEF InOrder, Increasing
  <2>2. CASE ~IsValid(Front)
    BY <1>1, <1>2, <2>2 DEF Decoder, InOrder, Increasing
  <2> QED BY <2>1, <2>2
<1>13. Exact'
  <2> SUFFICES ASSUME NEW k \in 1 .. Len(stream)
               PROVE  Among(emitted, k) \/ Among(messages', k) <=> k <= new /\ IsValid(stream[k].frame)
    BY <1>1, <1>4 DEF Exact, Among, Positions, IsValid
  <2>1. /\ Among(emitted, k) \/ Among(messages, k) <=> k <= decoder.frames /\ IsValid(stream[k].frame)
        /\ k <= new <=> k <= decoder.frames \/ k = new
    BY <1>2, <1>3 DEF Decoder, Exact, Positions
  <2>2. stream[new].frame = Front
    BY DEF Front
  <2>3. CASE IsValid(Front)
    <3>1. messages' = Append(messages, new)
      BY <1>1, <2>3
    <3>2. Among(messages', k) <=> Among(messages, k) \/ k = new
      BY <1>8, <3>1 DEF Among
    <3> QED BY <2>1, <2>2, <2>3, <3>2
  <2>4. CASE ~IsValid(Front)
    BY <1>1, <2>1, <2>2, <2>4
  <2> QED BY <2>3, <2>4
<1>14. NoneFatal'
  <2>1. \A k \in 1 .. Len(stream) : k <= new => ~Fatal(stream[k].frame)
    BY <1>1, <1>2, <1>3 DEF Decoder, NoneFatal, Positions, Front
  <2> QED BY <1>1, <1>4, <2>1 DEF NoneFatal, Positions, Fatal
<1>15. Flags' /\ Answered'
  BY <1>1, HandshakeKept DEF IInv
<1> QED BY <1>1, <1>2, <1>5, <1>9, <1>10, <1>11, <1>12, <1>13, <1>14, <1>15, OpenKept DEF IInv, Decoder

LEMMA PauseStep ==
  ASSUME IInv, Pause
  PROVE  IInv'
<1>1. /\ decoding /\ (AtHeader => ~Fatal(Front) /\ decoder.held < Size(Front))
      /\ decoding' = FALSE
      /\ decoder' = [decoder EXCEPT !.needed = IF decoder.held < Header THEN @ ELSE Size(Front)]
      /\ stream' = stream /\ messages' = messages /\ emitted' = emitted /\ peer' = peer /\ sent' = sent
      /\ arrived' = arrived /\ UNCHANGED <<host, result, connection, handshake>>
  BY DEF Pause, handshake
<1>2. /\ socket[host] = "open" /\ TypeOK /\ Layout /\ Decoder
      /\ decoder \in [frames : 0 .. Len(stream), held : Nat, needed : Nat]
      /\ Len(stream) \in Nat /\ Offset(decoder.frames) \in Nat /\ Header \in Nat /\ Header > 0
  BY <1>1, InLoop
<1>3. ~(decoder.held < Header) => /\ decoder.frames < Len(stream) /\ Size(Front) \in Nat
                                  /\ ~Fatal(Front) /\ decoder.held < Size(Front)
  BY <1>1, <1>2, InFront DEF Decoder, AtHeader
<1>4. /\ decoder' \in [frames : 0 .. Len(stream), held : Nat, needed : Nat]
      /\ decoder'.frames = decoder.frames /\ decoder'.held = decoder.held
      /\ decoder'.needed = IF decoder.held < Header THEN decoder.needed ELSE Size(Front)
  BY <1>1, <1>2, <1>3
<1>5. Layout' /\ Written' = Written /\ \A k : Offset(k)' = Offset(k)
  BY <1>1, <1>2, LayoutKept
<1>6. TypeOK'
  BY <1>1, <1>2, <1>4, <1>5 DEF TypeOK, connection
<1>7. Position'
  BY <1>1, <1>2, <1>4 DEF Decoder, Position, Offset
<1>8. Waits'
  <2>1. decoder.needed = Header
    BY <1>1, <1>2 DEF Decoder, Waits
  <2>2. Front' = Front
    BY <1>1, <1>4 DEF Front
  <2>3. CASE decoder.held < Header
    BY <1>1, <1>4, <2>1, <2>3 DEF Waits, Waiting
  <2>4. CASE ~(decoder.held < Header)
    <3>1. decoder'.needed = Size(Front) /\ decoder'.held < decoder'.needed /\ decoder'.held >= Header
      BY <1>2, <1>3, <1>4, <2>4
    <3>2. Waiting'
      BY <1>1, <1>3, <1>4, <2>2, <2>4, <3>1 DEF Waiting, Fatal, Size
    <3> QED BY <1>1, <3>1, <3>2 DEF Waits
  <2> QED BY <2>3, <2>4
<1>9. InOrder' /\ Exact' /\ NoneFatal'
  BY <1>1, <1>2, <1>4
     DEF Decoder, InOrder, Increasing, Exact, NoneFatal, Among, Positions, IsValid, Fatal
<1>10. Flags' /\ Answered'
  BY <1>1, HandshakeKept DEF IInv
<1> QED BY <1>1, <1>2, <1>5, <1>6, <1>7, <1>8, <1>9, <1>10, OpenKept DEF IInv, Decoder

LEMMA ThrowsStep ==
  ASSUME IInv, Throws
  PROVE  IInv'
<1>1. /\ decoding /\ decoding' = FALSE /\ messages' = <<>> /\ decoder' = [decoder EXCEPT !.held = 0]
      /\ socket' = [socket EXCEPT ![host] = "destroyed"]
      /\ stream' = stream /\ emitted' = emitted /\ peer' = peer /\ sent' = sent /\ arrived' = arrived
      /\ host' = host /\ result' = result /\ settled' = settled /\ timer' = timer
      /\ UNCHANGED handshake
  BY DEF Throws, AtHeader, handshake
<1>2. /\ TypeOK /\ Layout /\ decoder \in [frames : 0 .. Len(stream), held : Nat, needed : Nat]
      /\ host \in 1 .. Hosts
  BY <1>1, InLoop DEF TypeOK
<1>3. /\ socket' \in [1 .. Hosts -> {"none", "dialing", "open", "destroyed"}]
      /\ socket'[host] = "destroyed" /\ \A h \in 1 .. Hosts : h # host => socket'[h] = socket[h]
  BY <1>1, <1>2 DEF TypeOK
<1>4. Layout' /\ Written' = Written
  BY <1>1, <1>2, LayoutKept
<1>5. TypeOK'
  <2>1. decoder' \in [frames : 0 .. Len(stream), held : Nat, needed : Nat]
    BY <1>1, <1>2
  <2>2. messages' \in Seq(1 .. Len(stream))
    BY <1>1
  <2> QED BY <1>1, <1>2, <1>3, <1>4, <2>1, <2>2 DEF TypeOK
<1>6. Flags' /\ Answered'
  BY <1>1, HandshakeKept DEF IInv
<1>7. Lifecycle'
  <2>1. /\ \A h \in 1 .. Hosts : h > host' => socket'[h] = "none"
        /\ \A h \in 1 .. Hosts : h < host' => socket'[h] = "destroyed"
        /\ timer' = ~settled' /\ (peer'.ready => settled')
    BY <1>1, <1>2, <1>3 DEF IInv, Lifecycle
  <2>2. Idle'
    BY <1>1 DEF Idle
  <2> QED BY <1>1, <1>3, <2>1, <2>2 DEF Lifecycle
<1>8. Outcome'
  BY <1>1 DEF IInv, Outcome
<1> QED BY <1>1, <1>3, <1>4, <1>5, <1>6, <1>7, <1>8 DEF IInv

-----------------------------------------------------------------------------
\* #receive(), message by message.

\* A message that is emitted is counted.
LEMMA EmittedCount ==
  ASSUME TypeOK, NEW k \in 1 .. Len(stream), emitted' = Append(emitted, k), stream' = stream
  PROVE  \A c : CountOf(c) \in Nat /\ CountOf(c)' = CountOf(c) + (IF Command(k) = c THEN 1 ELSE 0)
<1> SUFFICES ASSUME NEW c
             PROVE  CountOf(c) \in Nat /\ CountOf(c)' = CountOf(c) + (IF Command(k) = c THEN 1 ELSE 0)
  OBVIOUS
<1> DEFINE Of == {p \in 1 .. Len(stream) : stream[p].frame.command = c}
<1>1. emitted \in Seq(1 .. Len(stream))
  BY DEF TypeOK
<1>2. /\ Counted(emitted, Of) \in Nat
      /\ Counted(Append(emitted, k), Of) = Counted(emitted, Of) + (IF k \in Of THEN 1 ELSE 0)
  <2> HIDE DEF Of
  <2> QED BY <1>1, CountAppended
<1>3. /\ \A i \in 1 .. Len(emitted) : emitted[i] \in 1 .. Len(stream)
      /\ \A i \in 1 .. Len(Append(emitted, k)) : Append(emitted, k)[i] \in 1 .. Len(stream)
  <2>1. Append(emitted, k) \in Seq(1 .. Len(stream))
    BY <1>1, AppendProperties
  <2> QED BY <1>1, <2>1, ElementOfSeq
<1>4. /\ {i \in 1 .. Len(emitted) : stream[emitted[i]].frame.command = c}
          = {i \in 1 .. Len(emitted) : emitted[i] \in Of}
      /\ {i \in 1 .. Len(Append(emitted, k)) : stream[Append(emitted, k)[i]].frame.command = c}
          = {i \in 1 .. Len(Append(emitted, k)) : Append(emitted, k)[i] \in Of}
  BY <1>3
<1>5. CountOf(c) = Counted(emitted, Of) /\ CountOf(c)' = Counted(Append(emitted, k), Of)
  BY <1>4 DEF CountOf, Counted
<1>6. k \in Of <=> Command(k) = c
  BY DEF Command
<1> HIDE DEF Of
<1> QED BY <1>2, <1>5, <1>6

Replies == {"version", "verack", "pong", "getaddr"}

\* What is written for a message, and whether addresses are asked for.
LEMMA Writes ==
  ASSUME TypeOK, NEW c, NEW greets \in BOOLEAN,
         sent' = IF greets THEN sent \o Direct(c) \o <<"getaddr">> ELSE sent \o Direct(c)
  PROVE  /\ sent' \in Seq(Replies)
         /\ Count("verack")' = Count("verack") + (IF c = "version" THEN 1 ELSE 0)
         /\ Count("pong")' = Count("pong") + (IF c = "ping" THEN 1 ELSE 0)
         /\ Count("getaddr")' = Count("getaddr") + (IF greets THEN 1 ELSE 0)
         /\ \A what : Count(what) \in Nat
<1> DEFINE count(t, what) == Counted(t, {what})
           direct == sent \o Direct(c)
<1>1. sent \in Seq(Replies)
  BY DEF TypeOK, Replies
<1>2. \A s \in Seq(Replies) : /\ s \o <<>> = s /\ s \o <<"verack">> = Append(s, "verack")
                              /\ s \o <<"pong">> = Append(s, "pong") /\ s \o <<"getaddr">> = Append(s, "getaddr")
  BY DEF Replies
<1>3. /\ direct = IF c = "version" THEN Append(sent, "verack")
                  ELSE IF c = "ping" THEN Append(sent, "pong") ELSE sent
      /\ direct \in Seq(Replies)
  BY <1>1, <1>2, AppendProperties DEF Direct, Replies
<1>4. \A s \in Seq(Replies), e \in Replies : \A what :
        /\ count(s, what) \in Nat
        /\ count(Append(s, e), what) = count(s, what) + (IF e = what THEN 1 ELSE 0)
  <2> TAKE s \in Seq(Replies), e \in Replies
  <2> TAKE what
  <2>1. /\ Counted(s, {what}) \in Nat
        /\ Counted(Append(s, e), {what}) = Counted(s, {what}) + (IF e \in {what} THEN 1 ELSE 0)
    BY CountAppended
  <2> QED BY <2>1
<1>5. "verack" \in Replies /\ "pong" \in Replies /\ "getaddr" \in Replies
  BY DEF Replies
<1>6. sent' = IF greets THEN Append(direct, "getaddr") ELSE direct
  BY <1>2, <1>3
<1>7. sent' \in Seq(Replies)
  BY <1>3, <1>5, <1>6, AppendProperties
<1>8. (\A what : Count(what) = count(sent, what)) /\ \A what : Count(what)' = count(sent', what)
  <2>1. \A t, what : {i \in 1 .. Len(t) : t[i] \in {what}} = {i \in 1 .. Len(t) : t[i] = what}
    OBVIOUS
  <2> QED BY <2>1 DEF Count, Counted
<1> HIDE DEF count
<1>9. \A what : count(sent, what) \in Nat /\ count(direct, what) \in Nat
  BY <1>1, <1>3, <1>4, <1>5
<1>10. /\ count(direct, "verack") = count(sent, "verack") + (IF c = "version" THEN 1 ELSE 0)
       /\ count(direct, "pong") = count(sent, "pong") + (IF c = "ping" THEN 1 ELSE 0)
       /\ count(direct, "getaddr") = count(sent, "getaddr")
  <2>1. CASE c = "version"
    BY <1>1, <1>3, <1>4, <1>5, <1>9, <2>1
  <2>2. CASE c = "ping"
    BY <1>1, <1>3, <1>4, <1>5, <1>9, <2>2
  <2>3. CASE c # "version" /\ c # "ping"
    BY <1>3, <1>9, <2>3
  <2> QED BY <2>1, <2>2, <2>3
<1>11. /\ count(sent', "verack") = count(direct, "verack") /\ count(sent', "pong") = count(direct, "pong")
       /\ count(sent', "getaddr") = count(direct, "getaddr") + (IF greets THEN 1 ELSE 0)
  <2> HIDE DEF direct
  <2>1. CASE greets
    <3>1. /\ count(Append(direct, "getaddr"), "verack") = count(direct, "verack") + 0
          /\ count(Append(direct, "getaddr"), "pong") = count(direct, "pong") + 0
          /\ count(Append(direct, "getaddr"), "getaddr") = count(direct, "getaddr") + 1
      BY <1>3, <1>4, <1>5
    <3>2. sent' = Append(direct, "getaddr")
      BY <1>6, <2>1
    <3>3. (IF greets THEN 1 ELSE 0) = 1
      BY <2>1
    <3>4. \A what : count(sent', what) = count(Append(direct, "getaddr"), what)
      BY <3>2
    <3> HIDE DEF count
    <3> QED BY <1>9, <3>1, <3>3, <3>4
  <2>2. CASE ~greets
    <3>1. sent' = direct
      BY <1>6, <2>2
    <3>2. (IF greets THEN 1 ELSE 0) = 0
      BY <2>2
    <3>3. \A what : count(sent', what) = count(direct, what)
      BY <3>1
    <3> HIDE DEF count
    <3> QED BY <1>9, <3>2, <3>3
  <2> QED BY <2>1, <2>2
<1> QED BY <1>7, <1>8, <1>9, <1>10, <1>11

LEMMA ReceiveStep ==
  ASSUME IInv, Receive
  PROVE  IInv'
<1> DEFINE k == Head(messages)
           c == Command(k)
           greets == (peer.version \/ c = "version") /\ (peer.verack \/ c = "verack") /\ ~peer.ready
<1>1. /\ ~decoding /\ messages # <<>> /\ messages' = Tail(messages) /\ emitted' = Append(emitted, k)
      /\ host' = host /\ stream' = stream /\ arrived' = arrived /\ decoder' = decoder /\ decoding' = decoding
  BY DEF Receive
<1>2. /\ socket[host] = "open" /\ TypeOK /\ Layout /\ Decoder
      /\ decoder \in [frames : 0 .. Len(stream), held : Nat, needed : Nat]
  BY <1>1, InLoop
<1>3. /\ sent' = IF greets THEN sent \o Direct(c) \o <<"getaddr">> ELSE sent \o Direct(c)
      /\ peer' = [version |-> peer.version \/ c = "version", verack |-> peer.verack \/ c = "verack",
                  ready |-> peer.ready \/ greets]
      /\ socket' = socket
      /\ IF greets THEN result' = "resolved" /\ settled' = TRUE /\ timer' = FALSE
         ELSE result' = result /\ settled' = settled /\ timer' = timer
  <2> DEFINE version == peer.version \/ c = "version"
             verack == peer.verack \/ c = "verack"
  <2>1. Greeted(c) = [version |-> version, verack |-> verack, ready |-> peer.ready]
    BY DEF Greeted
  <2>2. /\ Greeted(c).version = version /\ Greeted(c).verack = verack /\ Greeted(c).ready = peer.ready
        /\ version \in BOOLEAN /\ verack \in BOOLEAN /\ peer.ready \in BOOLEAN
    BY <1>2, <2>1 DEF TypeOK
  <2>3. IF greets
        THEN /\ peer' = [Greeted(c) EXCEPT !.ready = TRUE]
             /\ sent' = sent \o Direct(c) \o <<"getaddr">> /\ Complete
        ELSE peer' = Greeted(c) /\ sent' = sent \o Direct(c) /\ UNCHANGED <<result, connection>>
    BY <2>2 DEF Receive, Command
  <2> HIDE DEF k, c
  <2>4. CASE greets
    <3>1. peer' = [version |-> version, verack |-> verack, ready |-> TRUE]
      BY <2>1, <2>3, <2>4
    <3>2. (peer.ready \/ greets) = TRUE
      BY <2>4
    <3> QED BY <2>3, <2>4, <3>1, <3>2 DEF Complete
  <2>5. CASE ~greets
    <3>1. peer' = [version |-> version, verack |-> verack, ready |-> peer.ready]
      BY <2>1, <2>3, <2>5
    <3>2. (peer.ready \/ greets) = peer.ready
      BY <2>2, <2>5
    <3> QED BY <2>3, <2>5, <3>1, <3>2 DEF connection
  <2> QED BY <2>4, <2>5
<1>4. /\ messages \in Seq(1 .. Len(stream)) /\ emitted \in Seq(1 .. Len(stream))
      /\ peer \in [version : BOOLEAN, verack : BOOLEAN, ready : BOOLEAN] /\ greets \in BOOLEAN
  BY <1>2 DEF TypeOK
<1>5. /\ k = messages[1] /\ k \in 1 .. Len(stream) /\ Len(messages) \in Nat /\ Len(messages) >= 1
      /\ messages' \in Seq(1 .. Len(stream)) /\ Len(messages') = Len(messages) - 1
      /\ \A i \in 1 .. Len(messages) - 1 : messages'[i] = messages[i + 1]
  BY <1>1, <1>4
<1>6. /\ emitted' \in Seq(1 .. Len(stream)) /\ Len(emitted) \in Nat /\ Len(emitted') = Len(emitted) + 1
      /\ \A i \in 1 .. Len(emitted) : emitted'[i] = emitted[i]
      /\ emitted'[Len(emitted) + 1] = k
  <2> HIDE DEF k
  <2> QED BY <1>1, <1>4, <1>5, AppendProperties, LenProperties
<1>7. Layout' /\ Written' = Written
  BY <1>1, <1>2, LayoutKept
<1>8. sent' \in Seq(Replies)
  <2> HIDE DEF c, greets
  <2> QED BY <1>2, <1>3, <1>4, Writes
<1>9. TypeOK'
  <2>1. peer' \in [version : BOOLEAN, verack : BOOLEAN, ready : BOOLEAN]
    <3> HIDE DEF c
    <3> QED BY <1>3, <1>4
  <2>2. /\ result' \in {"dialing", "resolved", "failed"} /\ settled' \in BOOLEAN /\ timer' \in BOOLEAN
        /\ socket' \in [1 .. Hosts -> {"none", "dialing", "open", "destroyed"}] /\ host \in 1 .. Hosts
    BY <1>2, <1>3 DEF TypeOK
  <2>3. /\ stream \in Seq([frame : Frames, end : Nat]) /\ arrived \in 0 .. Written /\ decoding \in BOOLEAN
    BY <1>2 DEF TypeOK
  <2> QED BY <1>1, <1>2, <1>5, <1>6, <1>7, <1>8, <2>1, <2>2, <2>3 DEF TypeOK, Replies
<1>10. Position' /\ Waits' /\ NoneFatal'
  BY <1>1, <1>2 DEF Decoder, Position, Offset, Waits, Waiting, Front, Size, Fatal, NoneFatal, Positions
<1>11. InOrder'
  <2>1. \A i \in 1 .. Len(emitted) + 1 : i \in 1 .. Len(emitted) \/ i = Len(emitted) + 1
    BY <1>6
  <2>2. /\ Increasing(emitted) /\ Increasing(messages)
        /\ \A i \in 1 .. Len(emitted), j \in 1 .. Len(messages) : emitted[i] < messages[j]
    BY <1>2 DEF Decoder, InOrder
  <2>3. \A i \in 1 .. Len(emitted) : emitted[i] < k
    BY <1>5, <2>2
  <2>4. \A i, j \in 1 .. Len(emitted) + 1 : i < j => emitted'[i] < emitted'[j]
    <3> SUFFICES ASSUME NEW i \in 1 .. Len(emitted) + 1, NEW j \in 1 .. Len(emitted) + 1, i < j
                 PROVE  emitted'[i] < emitted'[j]
      OBVIOUS
    <3>1. i \in 1 .. Len(emitted)
      BY <1>6
    <3>2. CASE j = Len(emitted) + 1
      BY <1>6, <2>3, <3>1, <3>2
    <3>3. CASE j \in 1 .. Len(emitted)
      BY <1>6, <2>2, <3>1, <3>3 DEF Increasing
    <3> QED BY <2>1, <3>2, <3>3
  <2>5. \A j \in 1 .. Len(messages) - 1 : j + 1 \in 1 .. Len(messages) /\ 1 \in 1 .. Len(messages) /\ 1 < j + 1
    BY <1>5
  <2>6. \A j \in 1 .. Len(messages) - 1 : k < messages'[j]
    BY <1>5, <2>2, <2>5 DEF Increasing
  <2>7. \A i, j \in 1 .. Len(messages) - 1 : i < j => messages'[i] < messages'[j]
    <3> SUFFICES ASSUME NEW i \in 1 .. Len(messages) - 1, NEW j \in 1 .. Len(messages) - 1, i < j
                 PROVE  messages'[i] < messages'[j]
      OBVIOUS
    <3>1. i + 1 \in 1 .. Len(messages) /\ j + 1 \in 1 .. Len(messages) /\ i + 1 < j + 1
      BY <1>5
    <3>2. messages[i + 1] < messages[j + 1]
      BY <2>2, <3>1 DEF Increasing
    <3> QED BY <1>5, <3>2
  <2>8. \A i \in 1 .. Len(emitted) + 1, j \in 1 .. Len(messages) - 1 : emitted'[i] < messages'[j]
    BY <1>5, <1>6, <2>1, <2>2, <2>5, <2>6
  <2> HIDE DEF k
  <2> QED BY <1>5, <1>6, <2>4, <2>7, <2>8 DEF InOrder, Increasing
<1>12. Exact'
  <2> SUFFICES ASSUME NEW p \in 1 .. Len(stream)
               PROVE  Among(emitted', p) \/ Among(messages', p) <=> Among(emitted, p) \/ Among(messages, p)
    BY <1>1, <1>2 DEF Decoder, Exact, Positions, Among, IsValid
  <2>1. Among(emitted', p) <=> Among(emitted, p) \/ p = k
    <3>1. \A i : i \in 1 .. Len(emitted) + 1 <=> i \in 1 .. Len(emitted) \/ i = Len(emitted) + 1
      BY <1>6
    <3> HIDE DEF k
    <3> QED BY <1>6, <3>1 DEF Among
  <2>2. Among(messages, p) <=> Among(messages', p) \/ p = k
    <3>1. ASSUME NEW i \in 1 .. Len(messages), messages[i] = p, p # k
          PROVE  Among(messages', p)
      <4>1. i - 1 \in 1 .. Len(messages) - 1 /\ (i - 1) + 1 = i
        BY <1>5, <3>1
      <4>2. messages'[i - 1] = p
        BY <1>5, <3>1, <4>1
      <4> QED BY <1>5, <4>1, <4>2 DEF Among
    <3>2. ASSUME NEW i \in 1 .. Len(messages) - 1, messages'[i] = p
          PROVE  Among(messages, p)
      <4>1. i + 1 \in 1 .. Len(messages) /\ messages[i + 1] = p
        BY <1>5, <3>2
      <4> QED BY <4>1 DEF Among
    <3>3. 1 \in 1 .. Len(messages) /\ messages[1] = k
      BY <1>5
    <3> HIDE DEF k
    <3> QED BY <1>5, <3>1, <3>2, <3>3 DEF Among
  <2> QED BY <2>1, <2>2
<1>13. Flags'
  <2>1. \A i \in 1 .. Len(emitted) + 1 : i \in 1 .. Len(emitted) \/ i = Len(emitted) + 1
    BY <1>6
  <2>2. Len(emitted) + 1 \in 1 .. Len(emitted) + 1 /\ \A i \in 1 .. Len(emitted) : i \in 1 .. Len(emitted) + 1
    BY <1>6
  <2>3. \A what : (\E i \in 1 .. Len(emitted) + 1 : stream[emitted'[i]].frame.command = what)
                    <=> (\E i \in 1 .. Len(emitted) : stream[emitted[i]].frame.command = what) \/ c = what
    <3> HIDE DEF k
    <3> QED BY <1>6, <2>1, <2>2 DEF Command
  <2>4. Flags
    BY DEF IInv
  <2>5. /\ peer'.version <=> \E i \in 1 .. Len(emitted) + 1 : stream[emitted'[i]].frame.command = "version"
        /\ peer'.verack <=> \E i \in 1 .. Len(emitted) + 1 : stream[emitted'[i]].frame.command = "verack"
    <3> HIDE DEF c
    <3> QED BY <1>3, <1>4, <2>3, <2>4 DEF Flags, Command
  <2>6. peer'.ready <=> peer'.version /\ peer'.verack
    <3> HIDE DEF c
    <3> QED BY <1>3, <1>4, <2>4 DEF Flags
  <2> HIDE DEF k, c
  <2> QED BY <1>1, <1>6, <2>5, <2>6 DEF Flags, Command
<1>14. Answered'
  <2>1. \A what : CountOf(what) \in Nat /\ CountOf(what)' = CountOf(what) + (IF c = what THEN 1 ELSE 0)
    <3> HIDE DEF k
    <3> QED BY <1>1, <1>2, <1>5, EmittedCount
  <2>2. /\ Count("verack")' = Count("verack") + (IF c = "version" THEN 1 ELSE 0)
        /\ Count("pong")' = Count("pong") + (IF c = "ping" THEN 1 ELSE 0)
        /\ Count("getaddr")' = Count("getaddr") + (IF greets THEN 1 ELSE 0)
    <3> HIDE DEF c, greets
    <3> QED BY <1>2, <1>3, <1>4, Writes
  <2>3. greets => ~peer.ready
    OBVIOUS
  <2>4. peer'.ready <=> peer.ready \/ greets
    <3> HIDE DEF c
    <3> QED BY <1>3
  <2>5. Answered
    BY DEF IInv
  <2> HIDE DEF c, greets
  <2>6. Count("getaddr")' = IF peer'.ready THEN 1 ELSE 0
    BY <2>2, <2>3, <2>4, <2>5 DEF Answered
  <2> QED BY <2>1, <2>2, <2>5, <2>6 DEF Answered
<1>15. Lifecycle' /\ Outcome'
  <2>1. Lifecycle /\ Outcome
    BY DEF IInv
  <2>2. /\ peer'.ready <=> peer.ready \/ greets
        /\ settled' <=> settled \/ greets
        /\ timer' = ~settled'
        /\ result' = "resolved" <=> peer'.ready
        /\ result' = "failed" => settled'
    <3> HIDE DEF c, greets
    <3> QED BY <1>2, <1>3, <2>1 DEF Lifecycle, Outcome, TypeOK
  <2>3. peer.ready \/ greets \/ ~settled
    BY <1>2, <2>1 DEF Lifecycle
  <2> HIDE DEF greets, c, k
  <2> QED BY <1>1, <1>2, <1>3, <2>1, <2>2, <2>3 DEF Lifecycle, Outcome
<1> QED BY <1>7, <1>9, <1>10, <1>11, <1>12, <1>13, <1>14, <1>15 DEF IInv, Decoder

-----------------------------------------------------------------------------
\* The invariant, and what it says of the runs' properties.

LEMMA StutterIInv ==
  ASSUME IInv, UNCHANGED vars
  PROVE  IInv'
<1>1. /\ UNCHANGED <<host, session>> /\ socket' = socket /\ settled' = settled /\ timer' = timer
      /\ result' = result /\ UNCHANGED <<incoming, handshake>>
  BY DEF vars, connection, session
<1>2. TypeOK' /\ Layout' /\ Flags' /\ Answered' /\ (socket[host] = "open" => Decoder)'
  BY <1>1, SessionKept DEF IInv, TypeOK
<1>3. Lifecycle' /\ Outcome'
  BY <1>1 DEF IInv, Lifecycle, Outcome, Untouched, Idle, NewPeer, NewDecoder, session, incoming, handshake
<1> QED BY <1>2, <1>3 DEF IInv

LEMMA NextIInv ==
  ASSUME IInv, [Next]_vars
  PROVE  IInv'
<1>1. CASE Chunk
  BY <1>1, ChunkStep
<1>2. CASE Cut \/ Pause \/ Throws
  BY <1>2, CutStep, PauseStep, ThrowsStep
<1>3. CASE Receive
  BY <1>3, ReceiveStep
<1>4. CASE Connected
  BY <1>4, ConnectedStep
<1>5. CASE DialFails \/ Timeout \/ Disconnect \/ ClosedEarly \/ CallerCloses
  BY <1>5, ConnectionSteps
<1>6. CASE RemoteWrites
  BY <1>6, RemoteWritesStep
<1>7. CASE NextHost
  BY <1>7, NextHostStep
<1>8. CASE GiveUp
  BY <1>8, GiveUpStep
<1>9. CASE UNCHANGED vars
  BY <1>9, StutterIInv
<1> QED BY <1>1, <1>2, <1>3, <1>4, <1>5, <1>6, <1>7, <1>8, <1>9 DEF Next

\* Between two chunks the decoder waits inside the first frame that has not arrived whole.
LEMMA FrontIncomplete ==
  ASSUME IInv, socket[host] = "open", Idle
  PROVE  /\ \A k \in Positions : stream[k].end <= arrived <=> k <= decoder.frames
         /\ \A k \in Positions : Fatal(stream[k].frame) => arrived < Offset(k - 1) + Header
<1>1. /\ TypeOK /\ Layout /\ Decoder /\ ~decoding
      /\ decoder \in [frames : 0 .. Len(stream), held : Nat, needed : Nat]
      /\ Len(stream) \in Nat /\ Offset(decoder.frames) \in Nat /\ Header \in Nat /\ Header > 0
      /\ arrived \in Nat
  BY Offsets, HeaderAssumption DEF IInv, Idle, TypeOK
<1>2. /\ decoder.held < decoder.needed /\ Waiting /\ Offset(decoder.frames) + decoder.held = arrived
  BY <1>1 DEF Decoder, Waits, Position
<1> SUFFICES ASSUME NEW k \in 1 .. Len(stream)
             PROVE  /\ stream[k].end <= arrived <=> k <= decoder.frames
                    /\ Fatal(stream[k].frame) => arrived < Offset(k - 1) + Header
  BY DEF Positions
<1>3. /\ stream[k].end = Offset(k) /\ Offset(k) = Offset(k - 1) + Size(stream[k].frame)
      /\ Size(stream[k].frame) \in Nat /\ Size(stream[k].frame) >= Header
      /\ Offset(k) \in Nat /\ Offset(k - 1) \in Nat
  BY <1>1, Offsets, Sizes
<1>4. CASE k <= decoder.frames
  <2>1. Offset(k) <= Offset(decoder.frames)
    <3>1. CASE k = decoder.frames
      BY <1>1, <3>1
    <3>2. CASE k < decoder.frames
      <4>1. decoder.frames \in 1 .. Len(stream)
        BY <1>1, <3>2
      <4>2. /\ Offset(k) <= Offset(decoder.frames - 1) /\ Offset(decoder.frames - 1) \in Nat
            /\ Offset(decoder.frames) = Offset(decoder.frames - 1) + Size(stream[decoder.frames].frame)
            /\ Size(stream[decoder.frames].frame) \in Nat
        BY <1>1, <3>2, <4>1, Offsets, Sizes
      <4> QED BY <1>1, <1>3, <4>2
    <3> QED BY <1>1, <1>4, <3>1, <3>2
  <2>2. ~Fatal(stream[k].frame)
    BY <1>1, <1>4 DEF Decoder, NoneFatal, Positions
  <2> QED BY <1>1, <1>2, <1>3, <1>4, <2>1, <2>2
<1>5. CASE k = decoder.frames + 1
  <2>1. stream[k].frame = Front /\ Offset(k - 1) = Offset(decoder.frames)
    BY <1>1, <1>5 DEF Front
  <2>2. CASE decoder.needed = Header
    BY <1>1, <1>2, <1>3, <1>5, <2>1, <2>2
  <2>3. CASE ~Fatal(Front) /\ decoder.needed = Size(Front)
    BY <1>1, <1>2, <1>3, <1>5, <2>1, <2>3
  <2> QED BY <1>2, <2>2, <2>3 DEF Waiting
<1>6. CASE k > decoder.frames + 1
  <2>1. decoder.frames + 1 \in 1 .. Len(stream) /\ (decoder.frames + 1) - 1 = decoder.frames
    BY <1>1, <1>6
  <2>2. /\ Offset(decoder.frames + 1) = Offset(decoder.frames) + Size(Front)
        /\ Size(Front) \in Nat /\ Size(Front) >= Header
        /\ Offset(decoder.frames + 1) <= Offset(k - 1)
    BY <1>1, <1>6, <2>1, Offsets, Sizes DEF Front
  <2>3. arrived < Offset(k - 1)
    BY <1>1, <1>2, <1>3, <2>2 DEF Waiting
  <2> QED BY <1>1, <1>3, <1>6, <2>3
<1> QED BY <1>1, <1>4, <1>5, <1>6

\* Whether a command was emitted is what its count says.
LEMMA Emits ==
  ASSUME TypeOK, NEW c
  PROVE  /\ CountOf(c) \in Nat
         /\ CountOf(c) > 0 <=> \E i \in 1 .. Len(emitted) : Command(emitted[i]) = c
<1> DEFINE A == {i \in 1 .. Len(emitted) : stream[emitted[i]].frame.command = c}
<1>1. Len(emitted) \in Nat /\ A \in SUBSET (1 .. Len(emitted))
  BY DEF TypeOK
<1>2. Cardinality(A) \in Nat /\ (Cardinality(A) > 0 <=> A # {})
  <2> HIDE DEF A
  <2> QED BY <1>1, Top
<1>3. A # {} <=> \E i \in 1 .. Len(emitted) : Command(emitted[i]) = c
  BY DEF Command
<1> QED BY <1>2, <1>3 DEF CountOf

LEMMA InvariantIsEnough ==
  ASSUME IInv
  PROVE  SplitsDoNotMatter /\ AnsweredOnce /\ OneConnection
<1>1. SplitsDoNotMatter
  <2> SUFFICES ASSUME socket[host] = "open", Idle
      PROVE  /\ Increasing(emitted)
             /\ \A k \in Positions : Among(emitted, k) <=> IsValid(stream[k].frame) /\ stream[k].end <= arrived
             /\ \A k \in Positions : Fatal(stream[k].frame) => arrived < Offset(k - 1) + Header
    BY DEF SplitsDoNotMatter, Increasing, Among, Positions
  <2>1. \A k : ~Among(messages, k)
    BY DEF Idle, Among
  <2>2. InOrder /\ Exact
    BY DEF IInv, Decoder
  <2>3. \A k \in Positions : Among(emitted, k) <=> IsValid(stream[k].frame) /\ stream[k].end <= arrived
    BY <2>1, <2>2, FrontIncomplete DEF Exact
  <2> QED BY <2>2, <2>3, FrontIncomplete DEF InOrder
<1>2. peer.ready <=> CountOf("version") > 0 /\ CountOf("verack") > 0
  BY Emits DEF IInv, Flags
<1>3. AnsweredOnce
  BY <1>2 DEF IInv, Answered, AnsweredOnce
<1>4. OneConnection
  <2>1. result = "resolved" <=> CountOf("version") > 0 /\ CountOf("verack") > 0
    BY <1>2 DEF IInv, Outcome
  <2>2. ASSUME NEW h \in 1 .. Hosts, socket[h] \in {"dialing", "open"}
        PROVE  h = host /\ result # "failed"
    <3>1. h = host
      BY <2>2, HostsAssumption DEF IInv, Lifecycle, TypeOK
    <3>2. result # "failed"
      BY <2>2, <3>1 DEF IInv, Lifecycle, Outcome
    <3> QED BY <3>1, <3>2
  <2> QED BY <2>1, <2>2 DEF OneConnection
<1> QED BY <1>1, <1>3, <1>4

-----------------------------------------------------------------------------
\* Every variable keeps its type, and the decoder, the connection and the answers agree
\* with the bytes that have arrived.
THEOREM Invariance == Spec => []IInv
<1>1. Init => IInv
  BY InitIInv
<1>2. IInv /\ [Next]_vars => IInv'
  BY NextIInv
<1> QED BY <1>1, <1>2, PTL DEF Spec

\* The variables of the session keep their types.
THEOREM TypeCorrect == Spec => []TypeOK
<1>1. IInv => TypeOK
  BY DEF IInv
<1> QED BY <1>1, Invariance, PTL

\* Any split of the bytes into chunks emits the same messages: the well-formed frames that
\* have arrived whole, each once and in order (MessageDecoder).
THEOREM SplitIndependent == Spec => []SplitsDoNotMatter
<1>1. IInv => SplitsDoNotMatter
  BY InvariantIsEnough
<1> QED BY <1>1, Invariance, PTL

\* Every version and ping is answered once and addresses are asked for once (#receive()).
THEOREM AnsweredExactlyOnce == Spec => []AnsweredOnce
<1>1. IInv => AnsweredOnce
  BY InvariantIsEnough
<1> QED BY <1>1, Invariance, PTL

\* connectDiscoveredPeer() resolves with a complete handshake, and leaves no other socket open.
THEOREM NoSocketLeaked == Spec => []OneConnection
<1>1. IInv => OneConnection
  BY InvariantIsEnough
<1> QED BY <1>1, Invariance, PTL
=============================================================================
