--------------------------- MODULE NetConnection ---------------------------
(***************************************************************************)
(* CNetConnection and CPacketChunkUnpacker (engine/shared/network.h,       *)
(* network_conn.cpp, network.cpp) as operators on a connection record: one *)
(* operator per member function, taking the record before the call and     *)
(* returning the record after it.  The modules that EXTEND this one hold   *)
(* the connections in variables and decide who calls what.                 *)
(*                                                                         *)
(* `out' collects the packets the calls of one handler hand to the socket; *)
(* the composing module moves them to its network and empties it.          *)
(*                                                                         *)
(* Time is abstracted: a comparison of the clock with a stored time stamp  *)
(* is a member of the set `due' given to the operator, so every order of   *)
(* the timers is considered.  The bytes of the 32 KiB resend buffer are    *)
(* counted in chunks (BufferChunks), and so is the room of a packet        *)
(* (PacketChunks).                                                         *)
(***************************************************************************)
EXTENDS SeqArith, Sequences, FiniteSets

CONSTANTS
  BufferChunks,   \* vital chunks that fit NET_CONN_BUFFERSIZE
  PacketChunks,   \* chunks that fit a packet (bytes, or NET_MAX_PACKET_CHUNKS)
  NoAddr,         \* the zeroed NETADDR
  Unknown,        \* NET_SECURITY_TOKEN_UNKNOWN
  Unsupported,    \* NET_SECURITY_TOKEN_UNSUPPORTED
  Magic           \* SECURITY_TOKEN_MAGIC, read as a token

ASSUME CapacityAssumption ==
  /\ BufferChunks \in Nat \ {0}
  /\ BufferChunks <= Half
  /\ PacketChunks \in Nat \ {0}

States == {"OFFLINE", "WANT_TOKEN", "CONNECT", "PENDING", "ONLINE", "ERROR"}

EmptyConstruct == [resend |-> FALSE, chunks |-> << >>]

\* A chunk names the message it carries (data); a vital one also its number.
Chunk(vital, seq, msg) == [vital |-> vital, seq |-> seq, msg |-> msg]

ResetConn ==
  [state |-> "OFFLINE", sequence |-> 0, ack |-> 0, peerAck |-> 0,
   remoteClosed |-> FALSE, timeoutProtected |-> FALSE,
   timeoutSituation |-> FALSE, token |-> Unknown, securityToken |-> Unknown,
   sixup |-> FALSE, resendRequested |-> FALSE, connectAddrs |-> {},
   unknownSeq |-> FALSE, buffer |-> << >>, construct |-> EmptyConstruct,
   peerAddr |-> NoAddr, out |-> {}]

\* Reset() leaves m_PeerAddr alone, and what was sent is sent.
Reset(c) == [ResetConn EXCEPT !.peerAddr = c.peerAddr, !.out = c.out]

-----------------------------------------------------------------------------
(* Sending                                                                  *)

\* Mutant of Packet: acknowledges what the peer has acknowledged.
PacketPeerAck(c, to, ctrl, resend, chunks, info) ==
  [to |-> to, ctrl |-> ctrl, ack |-> c.peerAck, resend |-> resend,
   chunks |-> chunks, token |-> c.securityToken, info |-> info,
   sixup |-> c.sixup]

Packet(c, to, ctrl, resend, chunks, info) ==
  [to |-> to, ctrl |-> ctrl, ack |-> c.ack, resend |-> resend,
   chunks |-> chunks, token |-> c.securityToken, info |-> info,
   sixup |-> c.sixup]

SendControl(c, ctrl, info) ==
  [c EXCEPT !.out = @ \cup {Packet(c, c.peerAddr, ctrl, FALSE, << >>, info)}]

SendConnect(c) ==
  [c EXCEPT !.out = @ \cup
     {Packet(c, a, "connect", FALSE, << >>, Magic) : a \in c.connectAddrs}]

\* 0.7: the packet is sealed with the peer's token and announces the own one.
SendControlWithToken7(c, ctrl, responseToken) ==
  [c EXCEPT !.out = @ \cup
     {[Packet(c, c.peerAddr, ctrl, FALSE, << >>, c.token)
         EXCEPT !.token = responseToken, !.ack = 0, !.sixup = TRUE]}]

Flush(c) ==
  IF c.construct.chunks = << >> /\ ~ c.construct.resend
  THEN c
  ELSE [c EXCEPT !.out = @ \cup {Packet(c, c.peerAddr, "none",
                             c.construct.resend, c.construct.chunks, Unknown)},
                 !.construct = EmptyConstruct]

CanQueue(c) == c.state \notin {"OFFLINE", "ERROR"}

\* Mutant of Enqueue: does not look for room in the packet.
EnqueueUnchecked(c, chunk) == [c EXCEPT !.construct.chunks = Append(@, chunk)]

\* QueueChunkEx, up to the saving of the chunk.
Enqueue(c, chunk) ==
  LET d == IF Len(c.construct.chunks) = PacketChunks THEN Flush(c) ELSE c
  IN  [d EXCEPT !.construct.chunks = Append(@, chunk)]

\* QueueChunkEx for a new chunk: a vital one is kept for a resend while the
\* buffer has room; otherwise it is queued and forgotten (-1).
QueueChunkEx(c, chunk) ==
  IF ~ CanQueue(c)
  THEN c
  ELSE LET d == Enqueue(c, chunk)
       IN  IF chunk.vital /\ Len(c.buffer) < BufferChunks
           THEN [d EXCEPT !.buffer = Append(@, chunk)]
           ELSE d

\* Mutant of QueueChunk: numbers the chunk before it takes the next number.
QueueChunkLate(c, vital, msg) ==
  LET d == QueueChunkEx(c, Chunk(vital, c.sequence, msg))
  IN  IF vital THEN [d EXCEPT !.sequence = NextSeq(@)] ELSE d

\* The number is taken before QueueChunkEx looks at the state.
QueueChunk(c, vital, msg) ==
  LET d == IF vital THEN [c EXCEPT !.sequence = NextSeq(@)] ELSE c
  IN  QueueChunkEx(d, Chunk(vital, d.sequence, msg))

\* QueueChunk returned -1 on an open connection: the buffer had no room.
Overruns(c, vital) == CanQueue(c) /\ vital /\ Len(c.buffer) >= BufferChunks

\* ResendChunk of the oldest unacknowledged chunk; a resent chunk is not saved
\* a second time.
ResendFirst(c) ==
  IF CanQueue(c) /\ c.buffer # << >> THEN Enqueue(c, c.buffer[1]) ELSE c

\* Resend(): ResendChunk for the whole buffer.  The open packet is filled and
\* flushed as often as it is full, so what leaves are the full packets of the
\* concatenation; only the first carries the resend flag of the construct.
Resend(c) ==
  IF ~ CanQueue(c) \/ c.buffer = << >>
  THEN c
  ELSE LET all  == c.construct.chunks \o c.buffer
           full == (Len(all) - 1) \div PacketChunks
       IN  [c EXCEPT
              !.out = @ \cup
                {Packet(c, c.peerAddr, "none", i = 1 /\ c.construct.resend,
                        SubSeq(all, (i - 1) * PacketChunks + 1, i * PacketChunks),
                        Unknown) : i \in 1 .. full},
              !.construct =
                [resend |-> full = 0 /\ c.construct.resend,
                 chunks |-> SubSeq(all, full * PacketChunks + 1, Len(all))]]

\* conn_resend_requests_per_second: a request inside the interval waits.
AnswerResendRequest(c, due) ==
  IF c.resendRequested /\ "answer" \in due
  THEN Resend([c EXCEPT !.resendRequested = FALSE])
  ELSE c

SignalResend(c) == [c EXCEPT !.construct.resend = TRUE]

-----------------------------------------------------------------------------
(* Opening and closing                                                      *)

Connect(c, addrs) ==
  IF c.state # "OFFLINE"
  THEN c
  ELSE SendConnect([Reset(c) EXCEPT !.peerAddr = NoAddr, !.connectAddrs = addrs,
                                    !.state = "CONNECT"])

Connect7(c, addrs, first, token) ==
  IF c.state # "OFFLINE"
  THEN c
  ELSE [SendControlWithToken7(
          [Reset(c) EXCEPT !.connectAddrs = addrs, !.peerAddr = first,
                           !.token = token, !.state = "WANT_TOKEN"],
          "token", Unknown) EXCEPT !.sixup = TRUE]

Disconnect(c) ==
  IF c.state = "OFFLINE"
  THEN c
  ELSE Reset(IF c.remoteClosed \/ c.timeoutSituation
             THEN c ELSE SendControl(c, "close", Unknown))

\* Mutant of DirectInit: keeps the address of the slot's last client.
DirectInitSameAddr(c, addr, securityToken, token, sixup) ==
  [Reset(c) EXCEPT !.state = "ONLINE", !.securityToken = securityToken,
                   !.token = token, !.sixup = sixup]

DirectInit(c, addr, securityToken, token, sixup) ==
  [Reset(c) EXCEPT !.state = "ONLINE", !.peerAddr = addr,
                   !.securityToken = securityToken, !.token = token,
                   !.sixup = sixup]

\* Mutant of ResumeConnection: the acknowledgement is the old one.
ResumeConnectionOwnAck(c, d) ==
  [c EXCEPT !.sequence = d.sequence, !.remoteClosed = FALSE,
            !.state = "ONLINE", !.peerAddr = d.peerAddr,
            !.securityToken = d.securityToken, !.sixup = d.sixup,
            !.buffer = d.buffer]

\* Mutant of ResumeConnection: the security token is the old one.
ResumeConnectionOwnToken(c, d) ==
  [c EXCEPT !.sequence = d.sequence, !.ack = d.ack, !.remoteClosed = FALSE,
            !.state = "ONLINE", !.peerAddr = d.peerAddr,
            !.sixup = d.sixup, !.buffer = d.buffer]

\* Mutant of ResumeConnection: the resend buffer is not copied.
ResumeConnectionNoBuffer(c, d) ==
  [c EXCEPT !.sequence = d.sequence, !.ack = d.ack, !.remoteClosed = FALSE,
            !.state = "ONLINE", !.peerAddr = d.peerAddr,
            !.securityToken = d.securityToken, !.sixup = d.sixup]

\* Mutant of ResumeConnection: the address is the old one.
ResumeConnectionOldAddr(c, d) ==
  [c EXCEPT !.sequence = d.sequence, !.ack = d.ack, !.remoteClosed = FALSE,
            !.state = "ONLINE", !.securityToken = d.securityToken,
            !.sixup = d.sixup, !.buffer = d.buffer]

\* ResumeConnection: c takes over the connection d of a reconnected client.
\* m_PeerAck, m_Construct, m_ResendRequested, m_UnknownSeq and m_Token keep
\* the values they had in c.
ResumeConnection(c, d) ==
  [c EXCEPT !.sequence = d.sequence, !.ack = d.ack, !.remoteClosed = FALSE,
            !.state = "ONLINE", !.peerAddr = d.peerAddr,
            !.securityToken = d.securityToken, !.sixup = d.sixup,
            !.buffer = d.buffer]

-----------------------------------------------------------------------------
(* Receiving                                                                *)

IsPeerAddress(c, addr) ==
  IF c.state = "CONNECT" THEN addr \in c.connectAddrs ELSE addr = c.peerAddr

IsTokenValid(c, pkt) ==
  IF c.sixup
  THEN pkt.token = c.token
  ELSE c.securityToken \notin {Unknown, Unsupported} => pkt.token = c.securityToken

\* Mutant of Accepts: no window for acknowledgements.
AcceptsAnyAck(c, from, pkt) == IsPeerAddress(c, from) /\ IsTokenValid(c, pkt)

\* The early returns of Feed.
Accepts(c, from, pkt) ==
  /\ IsPeerAddress(c, from)
  /\ IsTokenValid(c, pkt)
  /\ IsAckValid(pkt.ack, c.peerAck, c.sequence)

\* Mutant of NumAcked: the arguments of IsSeqInBackroom are swapped.
NumAckedSwapped(buffer, ack) ==
  CHOOSE n \in 0 .. Len(buffer) :
    /\ \A i \in 1 .. n : IsSeqInBackroom(ack, buffer[i].seq)
    /\ n < Len(buffer) => ~ IsSeqInBackroom(ack, buffer[n + 1].seq)

\* The number of chunks at the head of the buffer that AckChunks pops: it
\* stops at the first one that is not in the backroom of ack.
NumAcked(buffer, ack) ==
  CHOOSE n \in 0 .. Len(buffer) :
    /\ \A i \in 1 .. n : IsSeqInBackroom(buffer[i].seq, ack)
    /\ n < Len(buffer) => ~ IsSeqInBackroom(buffer[n + 1].seq, ack)

\* Mutant of AckChunks: frees one chunk per acknowledgement.
AckChunksOnce(c, ack) ==
  [c EXCEPT !.buffer = IF NumAcked(@, ack) > 0 THEN Tail(@) ELSE @]

AckChunks(c, ack) ==
  [c EXCEPT !.buffer = SubSeq(@, NumAcked(@, ack) + 1, Len(@))]

\* CONNECTACCEPT while connecting: the token of the server is adopted and,
\* in 0.6, answered with ACCEPT.
FeedConnectAccept(c, from, pkt) ==
  LET hasToken == c.securityToken = Unknown /\ pkt.info = Magic /\ pkt.token # Unsupported
      tok == IF hasToken THEN pkt.token
             ELSE IF ~ c.sixup THEN Unsupported ELSE c.securityToken
      d   == [c EXCEPT !.peerAddr = from, !.securityToken = tok]
  IN  [(IF c.sixup THEN d ELSE SendControl(d, "accept", Unknown))
         EXCEPT !.state = "ONLINE"]

FeedToken7(c, pkt) ==
  SendControlWithToken7([c EXCEPT !.state = "CONNECT", !.securityToken = pkt.info],
                        "connect", pkt.info)

\* The dispatch on control messages and on the state.
FeedControl(c, from, pkt) ==
  CASE pkt.ctrl = "token" /\ c.sixup /\ c.state = "WANT_TOKEN" -> FeedToken7(c, pkt)
    [] pkt.ctrl = "connectaccept" /\ c.state = "CONNECT" -> FeedConnectAccept(c, from, pkt)
    [] pkt.ctrl = "none" /\ c.state = "PENDING" -> [c EXCEPT !.state = "ONLINE"]
    [] OTHER -> c

Feed(c, from, pkt, due) ==
  IF ~ Accepts(c, from, pkt)
  THEN c
  ELSE LET d == AnswerResendRequest(
                  [c EXCEPT !.peerAck = pkt.ack,
                            !.resendRequested = @ \/ pkt.resend], due)
           e == FeedControl(d, from, pkt)
       IN  IF pkt.ctrl = "close"
           THEN [d EXCEPT !.state = "ERROR", !.remoteClosed = TRUE]
           ELSE IF e.state = "ONLINE" THEN AckChunks(e, pkt.ack) ELSE e

\* Feed returned 1 and the caller feeds the chunk unpacker.
HasChunks(c, from, pkt) ==
  Accepts(c, from, pkt) /\ pkt.ctrl = "none" /\ pkt.chunks # << >>

-----------------------------------------------------------------------------
(* CPacketChunkUnpacker::UnpackNextChunk on the chunks left of the packet.  *)

\* Mutant of IsTaken: takes the chunk it has just taken once more.
IsTakenAgain(c, chunk) ==
  chunk.vital => chunk.seq \in {c.ack, NextSeq(c.ack)} \/ c.unknownSeq

IsTaken(c, chunk) ==
  chunk.vital => chunk.seq = NextSeq(c.ack) \/ c.unknownSeq

\* The first chunk that is returned; one past the end when there is none.
NextTaken(c, chunks) ==
  CHOOSE n \in 1 .. Len(chunks) + 1 :
    /\ \A i \in 1 .. n - 1 : ~ IsTaken(c, chunks[i])
    /\ n <= Len(chunks) => IsTaken(c, chunks[n])

\* One of the chunks passed over is neither in sequence nor an old one.
AsksForResend(c, chunks, n) ==
  \E i \in 1 .. n - 1 : ~ IsSeqInBackroom(chunks[i].seq, c.ack)

\* Mutant of UnpackNextChunk: the acknowledgement stays where it is.
UnpackNextChunkSilent(c, chunks) ==
  IF AsksForResend(c, chunks, NextTaken(c, chunks)) THEN SignalResend(c) ELSE c

\* Mutant of UnpackNextChunk: takes the number of any chunk, vital or not.
UnpackNextChunkAny(c, chunks) ==
  LET n == NextTaken(c, chunks)
  IN  IF n <= Len(chunks) THEN [c EXCEPT !.ack = chunks[n].seq] ELSE c

UnpackNextChunk(c, chunks) ==
  LET n == NextTaken(c, chunks)
      d == IF AsksForResend(c, chunks, n) THEN SignalResend(c) ELSE c
  IN  IF n <= Len(chunks) /\ chunks[n].vital
      THEN [d EXCEPT !.ack = chunks[n].seq, !.unknownSeq = FALSE]
      ELSE d

-----------------------------------------------------------------------------
(* Update, called once per tick.  `due' names the timers that have expired. *)

Timers == {"protection", "timeout", "answer", "weak", "resend", "flush", "keepalive"}

\* Mutant of UpdateResends: nothing is resent.
UpdateResendsNever(c, due) ==
  IF c.buffer # << >> /\ "weak" \in due
  THEN [c EXCEPT !.state = "ERROR", !.timeoutSituation = TRUE] ELSE c

\* "resend packet if we haven't got it acked", or give the connection up.
UpdateResends(c, due) ==
  IF c.buffer = << >> THEN c
  ELSE IF "weak" \in due
       THEN [c EXCEPT !.state = "ERROR", !.timeoutSituation = TRUE]
       ELSE IF "resend" \in due THEN ResendFirst(c) ELSE c

\* Mutant of UpdateSends: no keep-alive.
UpdateSendsMute(c, due) ==
  IF c.state = "ONLINE" /\ "flush" \in due THEN Flush(c) ELSE c

\* Nothing is due when a packet left earlier in the same Update.  The keep-alive
\* interval is the longer one, and starts again with a flush that sent something.
UpdateSends(c, due) ==
  CASE "flush" \notin due \/ c.out # {} -> c
    [] "flush" \in due /\ c.out = {} ->
         CASE c.state = "ONLINE" ->
                IF Flush(c) = c /\ "keepalive" \in due
                THEN SendControl(c, "keepalive", Unknown) ELSE Flush(c)
           [] c.state = "CONNECT" -> SendConnect(c)
           [] c.state = "PENDING" -> SendControl(c, "connectaccept", Magic)
           [] OTHER -> c

Update(c, due) ==
  IF c.state \in {"OFFLINE", "ERROR"}
  THEN IF c.state = "ERROR" /\ "protection" \in due
       THEN [c EXCEPT !.timeoutSituation = FALSE] ELSE c
  ELSE LET d == AnswerResendRequest([c EXCEPT !.timeoutSituation = FALSE], due)
           e == IF d.state # "CONNECT" /\ "timeout" \in due
                THEN [d EXCEPT !.state = "ERROR", !.timeoutSituation = TRUE]
                ELSE d
       IN  UpdateSends(UpdateResends(e, due), due)

\* Mutant of IsKept: keeps a protected connection that the client has closed.
IsKeptClosed(c) == c.state # "ERROR" \/ c.timeoutProtected

\* Mutant of IsKept: the protection against timeouts does nothing.
IsKeptNever(c) == c.state # "ERROR"

\* CNetClient::Update and CNetServer::Update: a connection in ERROR is closed,
\* unless it timed out and is kept for the client to come back.
IsKept(c) == c.state # "ERROR" \/ (c.timeoutProtected /\ c.timeoutSituation)

UpdateOrClose(c, due) ==
  LET d == Update(c, due) IN IF IsKept(d) THEN d ELSE Disconnect(d)

IgnoreTimeouts(c) == [c EXCEPT !.timeoutProtected = TRUE]
=============================================================================
