----------------------------- MODULE NetChannel -----------------------------
(***************************************************************************)
(* Two CNetConnections that are ONLINE with each other, from the end of    *)
(* the handshake to the end of the connection: the vital (reliable) and    *)
(* the other chunks in both directions, over a network that loses,         *)
(* duplicates, delays and reorders packets.                                *)
(*                                                                         *)
(* Each peer is a process with the three entry points its program has:     *)
(* the application sends messages (QueueChunk, Flush), the receive loop    *)
(* feeds packets and unpacks their chunks one call at a time               *)
(* (CNetClient::Recv, CNetServer::Recv), and Update runs once per tick.    *)
(* The application may also drop the connection, in the middle of a packet *)
(* too.                                                                    *)
(*                                                                         *)
(* The i-th vital message of a peer carries the number i as its content,   *)
(* so what was delivered can be compared with what was sent.               *)
(***************************************************************************)
EXTENDS NetConnection

CONSTANTS
  Peer,           \* the two ends
  Token,          \* the security token the handshake agreed on
  Kinds,          \* subset of BOOLEAN: vital (TRUE) and other chunks are sent
  Quitters,       \* subset of Peer: applications that may drop the connection
  Protecting,     \* subset of Peer: servers that may keep a client that times out
  Expiring,       \* subset of Timers: the timers that may expire
  MaxSend,        \* [Peer -> Nat]: vital messages each application sends
  MaxInFlight,    \* packets the network holds at a time
  MaxAge          \* how many messages old a number in a received packet may be

ASSUME PeerAssumption == \E a, b \in Peer : a # b /\ Peer = {a, b}

ASSUME BoundAssumption ==
  /\ Kinds \subseteq BOOLEAN
  /\ Quitters \subseteq Peer
  /\ Protecting \subseteq Peer
  /\ Expiring \subseteq Timers
  /\ MaxSend \in [Peer -> Nat]
  /\ MaxInFlight \in Nat
  /\ MaxAge \in Nat
  /\ MaxAge < MaxSequence - 1

VARIABLES
  conn,      \* conn[p]: the CNetConnection of p
  unpack,    \* unpack[p]: chunks left in the unpacker of p
  net,       \* packets in flight
  sent,      \* sent[p]: number of vital messages p has queued on the connection
  recv,      \* recv[p]: the vital messages the application of p was given
  overrun    \* overrun[p]: a message of p found the resend buffer full

vars == <<conn, unpack, net, sent, recv, overrun>>

Other(p) == CHOOSE q \in Peer : q # p

Init ==
  /\ conn = [p \in Peer |-> DirectInit(ResetConn, Other(p), Token, Token, FALSE)]
  /\ unpack = [p \in Peer |-> << >>]
  /\ net = {}
  /\ sent = [p \in Peer |-> 0]
  /\ recv = [p \in Peer |-> << >>]
  /\ overrun = [p \in Peer |-> FALSE]

-----------------------------------------------------------------------------
(* The network.  A packet in flight records its sender and how many         *)
(* messages the sender had been given (what its ack counts).  Receiving     *)
(* leaves a packet where it is: it can arrive again, and one that never     *)
(* arrives is lost.                                                         *)

InFlight(p, pkts) == {[from |-> p, rcvd |-> Len(recv[p]), pkt |-> pkt] : pkt \in pkts}

\* No packet lives so long that a number in it comes round again: the vital
\* messages it carries and those it acknowledges are at most MaxAge older than
\* the newest ones (sentNow[p] is the newest message of p).
Fresh(m, sentNow) ==
  /\ \A i \in DOMAIN m.pkt.chunks :
       m.pkt.chunks[i].vital => sentNow[m.from] - m.pkt.chunks[i].msg <= MaxAge
  /\ sentNow[Other(m.from)] - m.rcvd <= MaxAge

\* The connection of p becomes c and what c sent is in flight, next to what is
\* still fresh; a network that is full loses what does not fit.
Transmit(p, c) ==
  LET all == {m \in net \cup InFlight(p, c.out) : Fresh(m, sent')}
  IN  /\ conn' = [conn EXCEPT ![p] = [c EXCEPT !.out = {}]]
      /\ \/ Cardinality(all) <= MaxInFlight /\ net' = all
         \/ /\ Cardinality(all) > MaxInFlight
            /\ net' \in {kept \in SUBSET all : Cardinality(kept) = MaxInFlight}

-----------------------------------------------------------------------------
(* The steps of peer p                                                      *)

\* CNetClient::Send and CNetServer::Send: with NETSENDFLAG_FLUSH the packet
\* under construction leaves at once, otherwise (or when CNetServer puts it off
\* to the end of its flush batch, or has no room to save the chunk) it stays.
Send(p, vital, flush) ==
  LET c == QueueChunk(conn[p], vital, IF vital THEN sent[p] + 1 ELSE 0)
  IN  /\ conn[p].state # "OFFLINE"
      /\ vital => sent[p] < MaxSend[p]
      /\ sent' = [sent EXCEPT ![p] = IF vital /\ CanQueue(conn[p]) THEN @ + 1 ELSE @]
      /\ Transmit(p, IF flush THEN Flush(c) ELSE c)
      /\ overrun' = [overrun EXCEPT ![p] = @ \/ Overruns(conn[p], vital)]
      /\ UNCHANGED <<unpack, recv>>

\* CNetServer::EndFlushBatch.
EndFlushBatch(p) ==
  /\ conn[p].state = "ONLINE"
  /\ conn[p].construct # EmptyConstruct
  /\ UNCHANGED <<unpack, sent, recv, overrun>>
  /\ Transmit(p, Flush(conn[p]))

\* The receive loop takes a packet from the socket when the unpacker is done.
Receive(p, m) ==
  /\ unpack[p] = << >>
  /\ conn[p].state \notin {"OFFLINE", "ERROR"}
  /\ m.from = Other(p)
  /\ UNCHANGED <<sent, recv, overrun>>
  /\ \E due \in SUBSET ({"answer"} \cap Expiring) :
       Transmit(p, Feed(conn[p], m.from, m.pkt, due))
  /\ unpack' = [unpack EXCEPT ![p] =
                  IF HasChunks(conn[p], m.from, m.pkt) THEN m.pkt.chunks ELSE << >>]

\* The receive loop asks for the next chunk; when the application has dropped
\* the connection meanwhile, the rest of the packet is discarded.
Unpack(p) ==
  LET c == conn[p]
      n == NextTaken(c, unpack[p])
      returned == n <= Len(unpack[p]) /\ c.state # "OFFLINE"
  IN  /\ unpack[p] # << >>
      /\ conn' = [conn EXCEPT ![p] = UnpackNextChunk(c, unpack[p])]
      /\ unpack' = [unpack EXCEPT ![p] =
                      IF returned THEN SubSeq(@, n + 1, Len(@)) ELSE << >>]
      /\ recv' = [recv EXCEPT ![p] =
                    IF returned /\ unpack[p][n].vital
                    THEN Append(@, unpack[p][n].msg) ELSE @]
      /\ UNCHANGED <<net, sent, overrun>>

\* CNetClient::Update, CNetServer::Update, with the timers in due expired.
Tick(p, due) ==
  /\ unpack[p] = << >>
  /\ UNCHANGED <<unpack, sent, recv, overrun>>
  /\ Transmit(p, UpdateOrClose(conn[p], due))

\* CNetServer::IgnoreTimeouts.
ProtectTimeouts(p) ==
  /\ p \in Protecting
  /\ conn[p].state # "OFFLINE"
  /\ UNCHANGED <<unpack, sent, recv, overrun>>
  /\ Transmit(p, IgnoreTimeouts(conn[p]))

\* CNetClient::Disconnect, CNetServer::Drop.
Drop(p) ==
  /\ p \in Quitters
  /\ conn[p].state # "OFFLINE"
  /\ UNCHANGED <<unpack, sent, recv, overrun>>
  /\ Transmit(p, Disconnect(conn[p]))

\* What a peer does with a connection that it does not mean to end.
Transfer(p) ==
  \/ \E vital \in Kinds, flush \in BOOLEAN : Send(p, vital, flush)
  \/ EndFlushBatch(p)
  \/ \E m \in net : Receive(p, m)
  \/ Unpack(p)
  \/ \E due \in SUBSET Expiring : Tick(p, due)

Next == \E p \in Peer : Transfer(p) \/ ProtectTimeouts(p) \/ Drop(p)

Spec == Init /\ [][Next]_vars

-----------------------------------------------------------------------------
(* Types                                                                    *)

ChunkType == [vital : BOOLEAN, seq : SeqNo, msg : Nat]

TokenType == {Unknown, Unsupported, Magic, Token}

PacketType ==
  [to : Peer \cup {NoAddr}, ctrl : {"none", "keepalive", "close"}, ack : SeqNo,
   resend : BOOLEAN, chunks : Seq(ChunkType), token : TokenType, info : TokenType,
   sixup : BOOLEAN]

\* A connection that is, or was, established.
ConnType ==
  [state : {"OFFLINE", "ONLINE", "ERROR"}, sequence : SeqNo, ack : SeqNo,
   peerAck : SeqNo, remoteClosed : BOOLEAN, timeoutProtected : BOOLEAN,
   timeoutSituation : BOOLEAN, token : TokenType, securityToken : TokenType,
   sixup : BOOLEAN, resendRequested : BOOLEAN, connectAddrs : SUBSET Peer,
   unknownSeq : BOOLEAN, buffer : Seq(ChunkType),
   construct : [resend : BOOLEAN, chunks : Seq(ChunkType)],
   peerAddr : Peer \cup {NoAddr}, out : SUBSET PacketType]

\* Buffers within their capacities.
WithinCapacity(c) ==
  /\ Len(c.buffer) <= BufferChunks
  /\ Len(c.construct.chunks) <= PacketChunks
  /\ \A pkt \in c.out : Len(pkt.chunks) <= PacketChunks

TypeOK ==
  /\ conn \in [Peer -> ConnType]
  /\ \A p \in Peer : conn[p].out = {} /\ WithinCapacity(conn[p])
  /\ net \subseteq [from : Peer, rcvd : Nat, pkt : PacketType]
  /\ \A m \in net : Len(m.pkt.chunks) <= PacketChunks
  /\ unpack \in [Peer -> Seq(ChunkType)]
  /\ sent \in [Peer -> Nat]
  /\ recv \in [Peer -> Seq(Nat)]
  /\ overrun \in [Peer -> BOOLEAN]

-----------------------------------------------------------------------------
(* Safety                                                                   *)

\* The vital messages a peer is given are the first ones the other peer sent,
\* each once and in order, whatever the network did (acknowledgement,
\* retransmission and the sequence check of UnpackNextChunk), unless the
\* sender has outrun its resend buffer.
DeliveredInOrder ==
  \A p \in Peer : ~ overrun[Other(p)] =>
    /\ Len(recv[p]) <= sent[Other(p)]
    /\ \A i \in 1 .. Len(recv[p]) : recv[p][i] = i

\* A vital message that was not delivered is still in the resend buffer of its
\* sender: AckChunks never frees a chunk because of an acknowledgement that
\* was meant for another one.
NothingForgotten ==
  \A p \in Peer : conn[p].state = "ONLINE" /\ ~ overrun[p] =>
    \A i \in Len(recv[Other(p)]) + 1 .. sent[p] :
      \E j \in DOMAIN conn[p].buffer : conn[p].buffer[j].msg = i

\* The resend buffer holds exactly the numbers after the peer's last
\* acknowledgement, up to the last one handed out: no chunk stays behind that
\* was acknowledged, none is freed early.
BufferIsWindow ==
  \A p \in Peer : LET c == conn[p] IN
    c.state = "ONLINE" /\ ~ overrun[p] =>
      /\ Len(c.buffer) = Forward(c.peerAck, c.sequence)
      /\ \A j \in DOMAIN c.buffer : Forward(c.peerAck, c.buffer[j].seq) = j

-----------------------------------------------------------------------------
(* The inductive invariant behind the safety properties.                    *)

\* Every vital chunk carries the number of its message, one that was sent.
AllNumbered(chunks, n) ==
  \A i \in DOMAIN chunks : chunks[i].vital =>
    chunks[i].msg \in 1 .. n /\ chunks[i].seq = Wire(chunks[i].msg)

\* What a connection holds and sends when its application has sent n messages
\* and was given d.
ConnNumbered(c, n, d) ==
  /\ c.state = "ONLINE" => c.sequence = Wire(n)
  /\ c.state # "OFFLINE" => c.ack = Wire(d) /\ ~ c.unknownSeq
  /\ AllNumbered(c.buffer, n)
  /\ AllNumbered(c.construct.chunks, n)
  /\ \A pkt \in c.out : pkt.ack = Wire(d) /\ AllNumbered(pkt.chunks, n)

Numbering ==
  /\ \A p \in Peer : ConnNumbered(conn[p], sent[p], Len(recv[p]))
  /\ \A p \in Peer : AllNumbered(unpack[p], sent[Other(p)])
  /\ \A m \in net : /\ AllNumbered(m.pkt.chunks, sent[m.from])
                    /\ m.pkt.ack = Wire(m.rcvd)
                    /\ m.rcvd <= Len(recv[m.from])
                    /\ Fresh(m, sent)

\* The resend buffer holds the n - a messages after message a, the last one
\* acknowledged.
IsWindow(c, n, a) ==
  /\ a \in Nat
  /\ c.peerAck = Wire(a)
  /\ Len(c.buffer) = n - a
  /\ \A j \in 1 .. n - a : c.buffer[j] = Chunk(TRUE, Wire(a + j), a + j)

\* A peer acknowledges what its application was given, and the buffer keeps the
\* rest, which therefore never exceeds its capacity.
Window ==
  \A p \in Peer : ~ overrun[p] =>
    /\ sent[p] - Len(recv[Other(p)]) <= BufferChunks
    /\ conn[p].state = "ONLINE" =>
         /\ IsWindow(conn[p], sent[p], sent[p] - Len(conn[p].buffer))
         /\ sent[p] - Len(conn[p].buffer) <= Len(recv[Other(p)])

\* No chunk waiting in an unpacker is a full turn behind.
UnpackFresh ==
  \A p \in Peer : ~ overrun[Other(p)] =>
    \A i \in DOMAIN unpack[p] : unpack[p][i].vital =>
      /\ Len(recv[p]) - unpack[p][i].msg < MaxSequence - 1
      /\ \A j \in DOMAIN unpack[p] : unpack[p][j].vital =>
           unpack[p][j].msg - unpack[p][i].msg < MaxSequence - 1

IInv == TypeOK /\ Numbering /\ Window /\ UnpackFresh /\ DeliveredInOrder

-----------------------------------------------------------------------------
(* The promise: each direction is the queue of ReliableLink.                *)

Undelivered(p) ==
  LET got == Len(recv[Other(p)])
  IN  IF overrun[p] THEN << >> ELSE [i \in 1 .. sent[p] - got |-> got + i]

Link == INSTANCE ReliableLink
          WITH Messages <- UNION {1 .. MaxSend[p] : p \in Peer},
               queue <- [p \in Peer |-> Undelivered(p)],
               got <- recv, broken <- overrun

\* No step delivers a message that is not the oldest undelivered one, and none
\* makes a message disappear, as long as the sender has not outrun its resend
\* buffer.
ImplementsLink == Link!Init /\ [][Link!Next]_(Link!vars)

-----------------------------------------------------------------------------
(* Liveness.  The network may lose any number of packets but not all: a     *)
(* packet with a given message, or with a given acknowledgement, that p     *)
(* could accept again and again is accepted at last, and what p's tick      *)
(* sends finds room in the network again and again, while the other peer is *)
(* idle.  The timers that do not end the connection keep expiring, and the  *)
(* receive loop runs.                                                       *)

Carries(m, i) == \E j \in DOMAIN m.pkt.chunks : m.pkt.chunks[j].vital /\ m.pkt.chunks[j].msg = i

ReceiveMessage(p, i) == \E m \in net : Carries(m, i) /\ Receive(p, m)

ReceiveAck(p, n) == \E m \in net : m.rcvd = n /\ Receive(p, m)

TickThrough(p) ==
  /\ unpack[Other(p)] = << >>
  /\ Tick(p, Expiring \ {"timeout", "weak"})
  /\ InFlight(p, UpdateOrClose(conn[p], Expiring \ {"timeout", "weak"}).out) \subseteq net'

Fairness ==
  \A p \in Peer :
    /\ WF_vars(Unpack(p))
    /\ SF_vars(TickThrough(p))
    /\ \A i \in 1 .. MaxSend[Other(p)] : SF_vars(ReceiveMessage(p, i))
    /\ \A n \in 0 .. MaxSend[p] : SF_vars(ReceiveAck(p, n))

IsOpen(p) == conn[p].state = "ONLINE" /\ conn[Other(p)].state = "ONLINE"

\* Every vital message is delivered in the end, however often its packets are
\* lost, unless the connection ends or the sender outruns its buffer: the
\* timers of Update and the resend requests leave no message behind.
EventuallyDelivered ==
  \A p \in Peer : \A i \in 1 .. MaxSend[p] :
    sent[p] >= i ~> \/ Len(recv[Other(p)]) >= i
                    \/ ~ IsOpen(p) \/ overrun[p]

\* The resend buffer drains: acknowledgements get through without any traffic
\* of the application in the other direction (the keep-alive of Update).
EventuallyAcknowledged ==
  \A p \in Peer : \A i \in 1 .. MaxSend[p] :
    sent[p] >= i ~> \/ sent[p] - Len(conn[p].buffer) >= i
                    \/ ~ IsOpen(p) \/ overrun[p]
=============================================================================
