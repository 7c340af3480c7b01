---------------------------- MODULE PeerSession ----------------------------
(***************************************************************************)
(* connectDiscoveredPeer(): hosts are dialed one after the other until one *)
(* completes the handshake.  Each connection has a decoder that cuts the   *)
(* bytes of the stream, which arrive in chunks of any size, into frames,   *)
(* and a handshake of version and verack with a deadline.                  *)
(*                                                                         *)
(* A frame is its command, the length of its payload and how it is formed; *)
(* the bytes of a stream are only counted.  What runs between two turns of *)
(* the event loop is one step per iteration, and nothing else runs then.   *)
(***************************************************************************)
EXTENDS Naturals, Sequences, FiniteSets

CONSTANTS
    Hosts,      \* how many were discovered
    Header,     \* the length of a header
    Frames,     \* what a peer may send
    MaxFrames   \* bound: frames of a stream

Forms == {"valid", "corrupt", "alien", "oversize"}
ASSUME HostsAssumption == Hosts \in Nat \ {0}
ASSUME HeaderAssumption == Header \in Nat \ {0}
ASSUME FramesAssumption ==
    \A f \in Frames : f.length \in Nat /\ f.command \in STRING /\ f.form \in Forms

VARIABLES
    host,       \* the host being dialed
    result,     \* of the whole call: dialing, resolved, failed
    socket,     \* of each host: none, dialing, open, destroyed
    settled,    \* whether the promise of connect() is
    timer,      \* whether the deadline of connect() is set
    peer,       \* the handshake: what was received, and ready
    sent,       \* what was written to the socket
    stream,     \* the frames the remote peer wrote, each with the byte at which it ends
    arrived,    \* history: the bytes that were handed to the decoder
    decoder,    \* frames decoded, bytes held beyond them, bytes needed
    decoding,   \* whether the loop of push() runs
    messages,   \* what push() found, by position in the stream, for #receive()
    emitted     \* the messages that were emitted, by position in the stream

connection == <<socket, settled, timer>>
incoming == <<arrived, decoder, decoding, messages>>
handshake == <<peer, sent, emitted>>
session == <<stream, incoming, handshake>>
vars == <<host, result, connection, session>>

Size(f) == Header + f.length
Fatal(f) == f.form \in {"alien", "oversize"}
IsValid(f) == f.form = "valid"

\* Where the first n frames of the stream end.
Offset(n) == IF n = 0 THEN 0 ELSE stream[n].end
Written == Offset(Len(stream))

NewPeer == [version |-> FALSE, verack |-> FALSE, ready |-> FALSE]
NewDecoder == [frames |-> 0, held |-> 0, needed |-> Header]

Init ==
    /\ host = 1 /\ result = "dialing"
    /\ socket = [h \in 1 .. Hosts |-> IF h = 1 THEN "dialing" ELSE "none"]
    /\ settled = FALSE /\ timer = TRUE
    /\ peer = NewPeer /\ sent = <<>> /\ stream = <<>> /\ arrived = 0
    /\ decoder = NewDecoder /\ decoding = FALSE /\ messages = <<>> /\ emitted = <<>>

\* Callbacks wait for the loops of push() and #receive().
Idle == ~decoding /\ messages = <<>>

-----------------------------------------------------------------------------
\* MessageDecoder.push().

ChunkStale ==    \* mutant: needed is not reset
    /\ socket[host] = "open" /\ Idle
    /\ \E n \in 1 .. Written - arrived :
        LET held == decoder.held + n
        IN  /\ arrived' = arrived + n
            /\ decoder' = [decoder EXCEPT !.held = held] /\ decoding' = (held >= decoder.needed)
    /\ UNCHANGED <<host, result, connection, stream, messages, handshake>>

\* A chunk arrives.  It is only kept while the frame before it is not complete.
Chunk ==
    /\ socket[host] = "open" /\ Idle
    /\ \E n \in 1 .. Written - arrived :
        LET held == decoder.held + n
        IN  /\ arrived' = arrived + n
            /\ IF held < decoder.needed
               THEN decoder' = [decoder EXCEPT !.held = held] /\ UNCHANGED decoding
               ELSE decoder' = [decoder EXCEPT !.held = held, !.needed = Header] /\ decoding' = TRUE
    /\ UNCHANGED <<host, result, connection, stream, messages, handshake>>

\* The frame at the front of the buffer, and whether its header is there.
Front == stream[decoder.frames + 1].frame
AtHeader == decoding /\ decoder.held >= Header

\* One frame is cut off; a corrupt one is skipped.
Cut ==
    /\ AtHeader /\ ~Fatal(Front) /\ decoder.held >= Size(Front)
    /\ decoder' = [decoder EXCEPT !.frames = @ + 1, !.held = @ - Size(Front)]
    /\ messages' = IF IsValid(Front) THEN Append(messages, decoder.frames + 1) ELSE messages
    /\ UNCHANGED <<host, result, connection, stream, arrived, decoding, handshake>>

\* What is left is no frame; push() returns.
Pause ==
    /\ decoding /\ (AtHeader => ~Fatal(Front) /\ decoder.held < Size(Front))
    /\ decoding' = FALSE
    /\ decoder' = [decoder EXCEPT !.needed = IF decoder.held < Header THEN @ ELSE Size(Front)]
    /\ UNCHANGED <<host, result, connection, stream, arrived, messages, handshake>>

\* A frame that cannot be: what the chunk completed before it is lost with the socket.
Throws ==
    /\ AtHeader /\ Fatal(Front)
    /\ decoding' = FALSE /\ messages' = <<>> /\ decoder' = [decoder EXCEPT !.held = 0]
    /\ socket' = [socket EXCEPT ![host] = "destroyed"]
    /\ UNCHANGED <<host, result, settled, timer, stream, arrived, handshake>>

-----------------------------------------------------------------------------
\* The handshake.

\* connect() settles once.
Complete == settled' = TRUE /\ timer' = FALSE /\ result' = "resolved" /\ UNCHANGED socket

FailLeaking ==    \* mutant: the socket is forgotten, not destroyed
    /\ ~settled /\ settled' = TRUE /\ timer' = FALSE
    /\ UNCHANGED <<socket, result>>

Fail ==
    /\ ~settled /\ settled' = TRUE /\ timer' = FALSE
    /\ socket' = [socket EXCEPT ![host] = "destroyed"]
    /\ UNCHANGED result

Direct(command) ==
    CASE command = "version" -> <<"verack">>
      [] command = "ping" -> <<"pong">>
      [] OTHER -> <<>>

Greeted(command) ==
    [version |-> peer.version \/ command = "version",
     verack |-> peer.verack \/ command = "verack",
     ready |-> peer.ready]

\* #receive() of one message: getaddr with the message that completes the handshake.
ReceiveRepeating ==    \* mutant: ready is emitted for every message after it
    /\ ~decoding /\ messages # <<>>
    /\ LET command == stream[Head(messages)].frame.command
           greeted == Greeted(command)
       IN  IF greeted.version /\ greeted.verack
           THEN /\ peer' = [greeted EXCEPT !.ready = TRUE]
                /\ sent' = sent \o Direct(command) \o <<"getaddr">> /\ Complete
           ELSE peer' = greeted /\ sent' = sent \o Direct(command) /\ UNCHANGED <<result, connection>>
    /\ messages' = Tail(messages) /\ emitted' = Append(emitted, Head(messages))
    /\ UNCHANGED <<host, stream, arrived, decoder, decoding>>

Receive ==
    /\ ~decoding /\ messages # <<>>
    /\ LET command == stream[Head(messages)].frame.command
           greeted == Greeted(command)
       IN  IF greeted.version /\ greeted.verack /\ ~greeted.ready
           THEN /\ peer' = [greeted EXCEPT !.ready = TRUE]
                /\ sent' = sent \o Direct(command) \o <<"getaddr">> /\ Complete
           ELSE peer' = greeted /\ sent' = sent \o Direct(command) /\ UNCHANGED <<result, connection>>
    /\ messages' = Tail(messages) /\ emitted' = Append(emitted, Head(messages))
    /\ UNCHANGED <<host, stream, arrived, decoder, decoding>>

-----------------------------------------------------------------------------
\* The socket and its deadline.

Connected ==
    /\ socket[host] = "dialing"
    /\ socket' = [socket EXCEPT ![host] = "open"] /\ sent' = <<"version">>
    /\ UNCHANGED <<host, result, settled, timer, stream, incoming, peer, emitted>>

DialFails == socket[host] = "dialing" /\ Fail /\ UNCHANGED <<host, session>>

TimeoutUnless ==    \* mutant: the deadline ends with the dial
    timer /\ socket[host] = "dialing" /\ Fail /\ UNCHANGED <<host, session>>

Timeout == timer /\ Idle /\ Fail /\ UNCHANGED <<host, session>>

\* An error or the end of the connection fails a handshake, and is only reported later.
Disconnect ==
    /\ socket[host] = "open" /\ Idle
    /\ IF ~peer.ready THEN Fail
       ELSE socket' = [socket EXCEPT ![host] = "destroyed"] /\ UNCHANGED <<result, settled, timer>>
    /\ UNCHANGED <<host, session>>

\* The "close" event of a socket that the decoder destroyed.
ClosedEarly == socket[host] = "destroyed" /\ Fail /\ UNCHANGED <<host, session>>

RemoteWrites ==
    /\ socket[host] = "open" /\ Len(stream) < MaxFrames
    /\ \E f \in Frames : stream' = Append(stream, [frame |-> f, end |-> Written + Size(f)])
    /\ UNCHANGED <<host, result, connection, incoming, handshake>>

-----------------------------------------------------------------------------
\* The loop over the hosts.

NextHostUnbounded ==    \* mutant: the loop runs past the last host
    /\ result = "dialing" /\ settled
    /\ host' = host + 1 /\ settled' = FALSE /\ timer' = TRUE
    /\ UNCHANGED <<result, socket, session>>

NextHost ==
    /\ result = "dialing" /\ settled /\ host < Hosts
    /\ host' = host + 1 /\ settled' = FALSE /\ timer' = TRUE
    /\ socket' = [socket EXCEPT ![host'] = "dialing"]
    /\ peer' = NewPeer /\ sent' = <<>> /\ stream' = <<>> /\ arrived' = 0
    /\ decoder' = NewDecoder /\ decoding' = FALSE /\ messages' = <<>> /\ emitted' = <<>>
    /\ UNCHANGED result

GiveUp ==
    /\ result = "dialing" /\ settled /\ host = Hosts
    /\ result' = "failed"
    /\ UNCHANGED <<host, connection, session>>

\* The caller owns the peer it gets.
CallerCloses ==
    /\ result = "resolved" /\ socket[host] = "open" /\ Idle
    /\ socket' = [socket EXCEPT ![host] = "destroyed"]
    /\ UNCHANGED <<host, result, settled, timer, session>>

Next ==
    \/ Chunk \/ Cut \/ Pause \/ Throws \/ Receive
    \/ Connected \/ DialFails \/ Timeout \/ Disconnect \/ ClosedEarly
    \/ RemoteWrites \/ NextHost \/ GiveUp \/ CallerCloses

Spec == Init /\ [][Next]_vars

\* Loops end, the deadline passes however often bytes arrive before it, and the next host
\* is dialed; the peers need not do anything.
Fairness ==
    /\ WF_vars(Cut \/ Pause \/ Throws \/ Receive)
    /\ SF_vars(Timeout) /\ WF_vars(NextHost \/ GiveUp)
FairSpec == Spec /\ Fairness

-----------------------------------------------------------------------------
TypeOK ==
    /\ host \in 1 .. Hosts /\ result \in {"dialing", "resolved", "failed"}
    /\ socket \in [1 .. Hosts -> {"none", "dialing", "open", "destroyed"}]
    /\ settled \in BOOLEAN /\ timer \in BOOLEAN
    /\ peer \in [version : BOOLEAN, verack : BOOLEAN, ready : BOOLEAN]
    /\ sent \in Seq({"version", "verack", "pong", "getaddr"})
    /\ stream \in Seq([frame : Frames, end : Nat]) /\ arrived \in 0 .. Written
    /\ decoder \in [frames : 0 .. Len(stream), held : Nat, needed : Nat] /\ decoding \in BOOLEAN
    /\ messages \in Seq(1 .. Len(stream)) /\ emitted \in Seq(1 .. Len(stream))

\* However the bytes of a stream are split into chunks, once a chunk is dealt with the
\* messages emitted are the well-formed frames that have arrived whole, in order: none is
\* lost, repeated or late.  A frame that cannot be ends the connection with its header.
SplitsDoNotMatter ==
    socket[host] = "open" /\ Idle =>
        /\ \A i, j \in 1 .. Len(emitted) : i < j => emitted[i] < emitted[j]
        /\ \A k \in 1 .. Len(stream) :
            (\E i \in 1 .. Len(emitted) : emitted[i] = k)
                <=> IsValid(stream[k].frame) /\ stream[k].end <= arrived
        /\ \A k \in 1 .. Len(stream) : Fatal(stream[k].frame) => arrived < Offset(k - 1) + Header

Count(what) == Cardinality({i \in 1 .. Len(sent) : sent[i] = what})
CountOf(command) == Cardinality({i \in 1 .. Len(emitted) : stream[emitted[i]].frame.command = command})

\* Each version and each ping is answered once, and addresses are asked for once, when
\* the handshake is complete, also when it arrives with other messages in one chunk.
AnsweredOnce ==
    /\ Count("verack") = CountOf("version") /\ Count("pong") = CountOf("ping")
    /\ Count("getaddr") = IF CountOf("version") > 0 /\ CountOf("verack") > 0 THEN 1 ELSE 0

\* The caller gets a connection whose handshake is complete, and no other socket is left open.
OneConnection ==
    /\ \A h \in 1 .. Hosts : socket[h] \in {"dialing", "open"} => h = host /\ result # "failed"
    /\ result = "resolved" <=> CountOf("version") > 0 /\ CountOf("verack") > 0

\* The call ends although every peer may stay silent.
CallEnds == result = "dialing" ~> result # "dialing"
=============================================================================
