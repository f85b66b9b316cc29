------------------------- MODULE NetHandshakeProofs -------------------------
(***************************************************************************)
(* The slots of the server, for any number of slots and clients: types,    *)
(* one slot per address, the limit per IP, and no slot changes hands.      *)
(*                                                                         *)
(* Whatever happens to a slot is one of two things.  Either its connection *)
(* goes on or ends (Continues), or TryAcceptClient initialises it for the  *)
(* address a packet came from (Opens), which it does to the open slot of   *)
(* that address or, when there is none, to a free slot.  Both keep         *)
(* SlotsInv, which says of the slots all that is needed.                   *)
(***************************************************************************)
EXTENDS NetHandshake, NumberLemmas, FiniteSetTheorems

Ctrl == {"keepalive", "connect", "connectaccept", "accept", "close", "token"}

\* The packets to a set of addresses, and the connections to one.
Packets(To) ==
  [to : To, ack : {0}, resend : {FALSE}, chunks : {<< >>}, ctrl : Ctrl,
   token : TokenType, info : TokenType, sixup : BOOLEAN]

Conn(To) ==
  [state : States, sequence : {0}, ack : {0}, peerAck : {0},
   remoteClosed : BOOLEAN, timeoutProtected : BOOLEAN,
   timeoutSituation : BOOLEAN, token : TokenType, securityToken : TokenType,
   sixup : BOOLEAN, resendRequested : {FALSE}, connectAddrs : SUBSET {Server},
   unknownSeq : {FALSE}, buffer : {<< >>}, construct : {EmptyConstruct},
   peerAddr : To, out : SUBSET Packets(To)]

ToClient == Client \cup {NoAddr}
ToServer == {Server, NoAddr}

Open(c) == c.state \notin {"OFFLINE", "ERROR"}

\* The slots that count against the limit per IP.
Counted(c) == Open(c) \/ c.timeoutSituation

\* A connection in a slot: DirectInit makes it ONLINE, it is never CONNECT; and
\* one that timed out is there after Update only if it is kept.
SlotConn(c) ==
  /\ c \in Conn(ToClient)
  /\ c.state \in {"OFFLINE", "ONLINE", "ERROR"}
  /\ c.state # "OFFLINE" => c.peerAddr \in Client
  /\ c.timeoutSituation => c.state = "ERROR" /\ c.timeoutProtected

CountedAt(slots, a) ==
  {i \in Slot : Counted(slots[i]) /\ TokenOf[slots[i].peerAddr] = TokenOf[a]}

SlotsInv(slots) ==
  /\ \A i, j \in Slot : Open(slots[i]) /\ Open(slots[j]) /\ i # j =>
       slots[i].peerAddr # slots[j].peerAddr
  /\ \A a \in Client : Cardinality(CountedAt(slots, a)) <= MaxClientsPerIp

\* What packets are under way between whom.
NetInv ==
  /\ net \subseteq [from : Client, pkt : Packets({Server})]
                     \cup [from : {Server}, pkt : Packets(Client)]
  /\ Cardinality(net) <= MaxInFlight

SrvInv ==
  /\ srv = [slots |-> srv.slots, out |-> {}]
  /\ srv.slots = [i \in Slot |-> srv.slots[i]]
  /\ \A i \in Slot : SlotConn(srv.slots[i]) /\ srv.slots[i].out = {}
  /\ SlotsInv(srv.slots)

ClientInv ==
  /\ client = [a \in Client |-> client[a]]
  /\ \A a \in Client : client[a] \in Conn(ToServer) /\ client[a].out = {}

IInv == NetInv /\ SrvInv /\ ClientInv

-----------------------------------------------------------------------------
(* Connections: no chunks, so most of the machinery of a connection idles.  *)

LEMMA TokensOfClients ==
  ASSUME NEW a \in Client
  PROVE  TokenOf[a] \in TokenType
BY DEF TokenType

LEMMA CtrlPackets ==
  ASSUME NEW To, NEW c \in Conn(To), NEW to \in To, NEW ctrl \in Ctrl,
         NEW info \in TokenType
  PROVE  Packet(c, to, ctrl, FALSE, << >>, info) \in Packets(To)
BY DEF Packet, Packets, Conn

LEMMA SendControlConn ==
  ASSUME NEW To, NEW c \in Conn(To), NEW ctrl \in Ctrl, NEW info \in TokenType
  PROVE  \E o \in SUBSET Packets(To) : SendControl(c, ctrl, info) = [c EXCEPT !.out = o]
<1> DEFINE p == Packet(c, c.peerAddr, ctrl, FALSE, << >>, info)
<1>1. p \in Packets(To)
  <2>1. c.peerAddr \in To BY DEF Conn
  <2> QED BY <2>1, CtrlPackets
<1> HIDE DEF p
<1>2. c.out \cup {p} \in SUBSET Packets(To)
  BY <1>1 DEF Conn
<1>3. SendControl(c, ctrl, info) = [c EXCEPT !.out = c.out \cup {p}]
  BY DEF SendControl, p
<1> QED BY <1>2, <1>3

LEMMA OutConn ==
  ASSUME NEW To, NEW c \in Conn(To), NEW o \in SUBSET Packets(To)
  PROVE  /\ [c EXCEPT !.out = o] \in Conn(To)
         /\ [c EXCEPT !.out = o].state = c.state
         /\ [c EXCEPT !.out = o].peerAddr = c.peerAddr
         /\ [c EXCEPT !.out = o].timeoutSituation = c.timeoutSituation
         /\ [c EXCEPT !.out = o].timeoutProtected = c.timeoutProtected
         /\ [c EXCEPT !.out = o].remoteClosed = c.remoteClosed
         /\ [c EXCEPT !.out = o].connectAddrs = c.connectAddrs
         /\ [c EXCEPT !.out = o].out = o
BY DEF Conn

LEMMA AnswerIdle ==
  ASSUME NEW To, NEW c \in Conn(To), NEW due
  PROVE  AnswerResendRequest(c, due) = c
BY DEF AnswerResendRequest, Conn

LEMMA FlushIdle ==
  ASSUME NEW To, NEW c \in Conn(To)
  PROVE  Flush(c) = c
BY DEF Flush, Conn, EmptyConstruct

LEMMA ResendsIdle ==
  ASSUME NEW To, NEW c \in Conn(To), NEW due
  PROVE  UpdateResends(c, due) = c
BY DEF UpdateResends, Conn

LEMMA AcksIdle ==
  ASSUME NEW To, NEW c \in Conn(To), NEW ack
  PROVE  AckChunks(c, ack) = c
<1>1. c.buffer = << >> /\ Len(c.buffer) = 0
  BY DEF Conn
<1>2. NumAcked(c.buffer, ack) = 0
  <2> DEFINE P(n) == /\ \A i \in 1 .. n : IsSeqInBackroom(c.buffer[i].seq, ack)
                     /\ n < Len(c.buffer) => ~ IsSeqInBackroom(c.buffer[n + 1].seq, ack)
  <2>1. 0 .. Len(c.buffer) = {0} BY <1>1
  <2>2. P(0)
    <3>1. 1 .. 0 = {} OBVIOUS
    <3>2. ~ (0 < Len(c.buffer)) BY <1>1
    <3> QED BY <3>1, <3>2
  <2>3. NumAcked(c.buffer, ack) = CHOOSE n \in 0 .. Len(c.buffer) : P(n)
    BY DEF NumAcked
  <2> HIDE DEF P
  <2> QED BY <2>1, <2>2, <2>3
<1>3. SubSeq(c.buffer, 0 + 1, Len(c.buffer)) = << >>
  BY <1>1
<1>4. AckChunks(c, ack) = [c EXCEPT !.buffer = << >>]
  BY <1>2, <1>3 DEF AckChunks
<1>5. [c EXCEPT !.buffer = << >>] = c
  BY <1>1 DEF Conn
<1> QED BY <1>4, <1>5

LEMMA FeedAckIdle ==
  ASSUME NEW To, NEW c \in Conn(To), NEW From, NEW pkt \in Packets(From)
  PROVE  [c EXCEPT !.peerAck = pkt.ack, !.resendRequested = @ \/ pkt.resend] = c
BY DEF Conn, Packets

\* A packet that passes the checks of Feed acts through its control message.
LEMMA FeedDispatch ==
  ASSUME NEW To, NEW c \in Conn(To), NEW From, NEW pkt \in Packets(From), NEW from
  PROVE  \/ Feed(c, from, pkt, {}) = c
         \/ /\ Accepts(c, from, pkt)
            /\ \/ Feed(c, from, pkt, {}) = [c EXCEPT !.state = "ERROR", !.remoteClosed = TRUE]
               \/ Feed(c, from, pkt, {}) = FeedControl(c, from, pkt)
               \/ Feed(c, from, pkt, {}) = AckChunks(FeedControl(c, from, pkt), pkt.ack)
<1> DEFINE d == AnswerResendRequest(
                  [c EXCEPT !.peerAck = pkt.ack, !.resendRequested = @ \/ pkt.resend], {})
<1>1. d = c
  BY FeedAckIdle, AnswerIdle
<1>2. Feed(c, from, pkt, {}) =
        IF ~ Accepts(c, from, pkt) THEN c
        ELSE IF pkt.ctrl = "close"
             THEN [d EXCEPT !.state = "ERROR", !.remoteClosed = TRUE]
             ELSE IF FeedControl(d, from, pkt).state = "ONLINE"
                  THEN AckChunks(FeedControl(d, from, pkt), pkt.ack)
                  ELSE FeedControl(d, from, pkt)
  BY Zenon DEF Feed
<1> HIDE DEF d
<1> QED BY <1>1, <1>2

\* A server's connection takes a CLOSE and nothing else.
LEMMA FeedSlotConn ==
  ASSUME NEW To, NEW c \in Conn(To), c.state \in {"OFFLINE", "ONLINE", "ERROR"},
         NEW From, NEW pkt \in Packets(From), NEW from
  PROVE  \/ Feed(c, from, pkt, {}) = c
         \/ Feed(c, from, pkt, {}) = [c EXCEPT !.state = "ERROR", !.remoteClosed = TRUE]
<1>1. FeedControl(c, from, pkt) = c
  <2>1. pkt.ctrl # "none"
    BY DEF Packets, Ctrl
  <2> QED BY <2>1 DEF FeedControl
<1>2. AckChunks(c, pkt.ack) = c
  BY Zenon, AcksIdle
<1>3. \/ Feed(c, from, pkt, {}) = c
      \/ Feed(c, from, pkt, {}) = [c EXCEPT !.state = "ERROR", !.remoteClosed = TRUE]
      \/ Feed(c, from, pkt, {}) = FeedControl(c, from, pkt)
      \/ Feed(c, from, pkt, {}) = AckChunks(FeedControl(c, from, pkt), pkt.ack)
  BY Zenon, FeedDispatch
<1> QED BY Zenon, <1>1, <1>2, <1>3

LEMMA Token7Conn ==
  ASSUME NEW To, NEW c \in Conn(To), NEW ctrl \in Ctrl, NEW tok \in TokenType
  PROVE  SendControlWithToken7(c, ctrl, tok) \in Conn(To)
<1> DEFINE p == [Packet(c, c.peerAddr, ctrl, FALSE, << >>, c.token)
                   EXCEPT !.token = tok, !.ack = 0, !.sixup = TRUE]
<1>1. p \in Packets(To)
  <2>1. c.peerAddr \in To /\ c.token \in TokenType
    BY DEF Conn
  <2>2. Packet(c, c.peerAddr, ctrl, FALSE, << >>, c.token) \in Packets(To)
    BY <2>1, CtrlPackets
  <2> QED BY <2>2 DEF Packets
<1> HIDE DEF p
<1>2. SendControlWithToken7(c, ctrl, tok) = [c EXCEPT !.out = c.out \cup {p}]
  BY DEF SendControlWithToken7, p
<1>3. c.out \cup {p} \in SUBSET Packets(To)
  BY <1>1 DEF Conn
<1> QED BY <1>2, <1>3, OutConn

LEMMA FixedTokens ==
  /\ Unknown \in TokenType /\ Unsupported \in TokenType /\ Magic \in TokenType
BY DEF TokenType

\* Any connection keeps its type when it is fed.
LEMMA FeedConn ==
  ASSUME NEW To, NEW c \in Conn(To), NEW From, NEW pkt \in Packets(From), NEW from,
         c.state = "CONNECT" => c.connectAddrs \subseteq To
  PROVE  Feed(c, from, pkt, {}) \in Conn(To)
<1>1. [c EXCEPT !.state = "ERROR", !.remoteClosed = TRUE] \in Conn(To)
  BY DEF Conn, States
<1>2. ASSUME Accepts(c, from, pkt)
      PROVE  FeedControl(c, from, pkt) \in Conn(To)
  <2>1. CASE pkt.ctrl = "token" /\ c.sixup /\ c.state = "WANT_TOKEN"
    <3> DEFINE d == [c EXCEPT !.state = "CONNECT", !.securityToken = pkt.info]
    <3>1. d \in Conn(To) /\ pkt.info \in TokenType /\ "connect" \in Ctrl
      BY DEF Conn, Packets, States, Ctrl
    <3>2. FeedControl(c, from, pkt) = SendControlWithToken7(d, "connect", pkt.info)
      BY <2>1 DEF FeedControl, FeedToken7
    <3> HIDE DEF d
    <3> QED BY <3>1, <3>2, Token7Conn
  <2>2. CASE pkt.ctrl = "connectaccept" /\ c.state = "CONNECT"
    <3> DEFINE tok == IF c.securityToken = Unknown /\ pkt.info = Magic
                            /\ pkt.token # Unsupported
                      THEN pkt.token
                      ELSE IF ~ c.sixup THEN Unsupported ELSE c.securityToken
               d   == [c EXCEPT !.peerAddr = from, !.securityToken = tok]
               e   == IF c.sixup THEN d ELSE SendControl(d, "accept", Unknown)
    <3>1. from \in To
      BY <1>2, <2>2 DEF Accepts, IsPeerAddress
    <3>2. tok \in TokenType
      BY FixedTokens DEF Conn, Packets
    <3> HIDE DEF tok
    <3>3. d \in Conn(To)
      BY <3>1, <3>2 DEF Conn
    <3>4. e \in Conn(To)
      <4> HIDE DEF d
      <4>1. "accept" \in Ctrl
        BY DEF Ctrl
      <4>2. SendControl(d, "accept", Unknown) \in Conn(To)
        BY <3>3, <4>1, FixedTokens, SendControlConn, OutConn
      <4> QED BY <3>3, <4>2
    <3>5. FeedControl(c, from, pkt) = [e EXCEPT !.state = "ONLINE"]
      BY <2>2 DEF FeedControl, FeedConnectAccept, e, d, tok
    <3> HIDE DEF e
    <3> QED BY <3>4, <3>5 DEF Conn, States
  <2>3. CASE ~ (pkt.ctrl = "token" /\ c.sixup /\ c.state = "WANT_TOKEN")
             /\ ~ (pkt.ctrl = "connectaccept" /\ c.state = "CONNECT")
    <3>1. pkt.ctrl # "none"
      BY DEF Packets, Ctrl
    <3>2. FeedControl(c, from, pkt) = c
      BY <2>3, <3>1 DEF FeedControl
    <3> QED BY <3>2
  <2> QED BY <2>1, <2>2, <2>3
<1>3. ASSUME Accepts(c, from, pkt)
      PROVE  AckChunks(FeedControl(c, from, pkt), pkt.ack) \in Conn(To)
  <2>1. AckChunks(FeedControl(c, from, pkt), pkt.ack) = FeedControl(c, from, pkt)
    BY Zenon, <1>2, <1>3, AcksIdle
  <2> QED BY Zenon, <1>2, <1>3, <2>1
<1> DEFINE f == Feed(c, from, pkt, {})
<1>4. f = c \/ (Accepts(c, from, pkt) /\ f \in Conn(To))
  <2>1. \/ f = c
        \/ /\ Accepts(c, from, pkt)
           /\ \/ f = [c EXCEPT !.state = "ERROR", !.remoteClosed = TRUE]
              \/ f = FeedControl(c, from, pkt)
              \/ f = AckChunks(FeedControl(c, from, pkt), pkt.ack)
    BY Zenon, FeedDispatch
  <2> HIDE DEF f
  <2> QED BY Zenon, <1>1, <1>2, <1>3, <2>1
<1> QED BY Zenon, <1>4

LEMMA SendConnectConn ==
  ASSUME NEW To, NEW c \in Conn(To), c.connectAddrs \subseteq To
  PROVE  \E o \in SUBSET Packets(To) : SendConnect(c) = [c EXCEPT !.out = o]
<1> DEFINE ps == {Packet(c, a, "connect", FALSE, << >>, Magic) : a \in c.connectAddrs}
<1>1. ASSUME NEW a \in c.connectAddrs
      PROVE  Packet(c, a, "connect", FALSE, << >>, Magic) \in Packets(To)
  <2>1. a \in To /\ "connect" \in Ctrl
    BY DEF Ctrl
  <2> QED BY <2>1, CtrlPackets, FixedTokens
<1>2. ps \subseteq Packets(To)
  BY <1>1
<1> HIDE DEF ps
<1>3. c.out \cup ps \in SUBSET Packets(To)
  BY <1>2 DEF Conn
<1>4. SendConnect(c) = [c EXCEPT !.out = c.out \cup ps]
  BY DEF SendConnect, ps
<1> QED BY <1>3, <1>4

LEMMA UpdateSendsConn ==
  ASSUME NEW To, NEW c \in Conn(To), NEW due,
         c.state = "CONNECT" => c.connectAddrs \subseteq To
  PROVE  \E o \in SUBSET Packets(To) : UpdateSends(c, due) = [c EXCEPT !.out = o]
<1>1. \E o \in SUBSET Packets(To) : c = [c EXCEPT !.out = o]
  <2>1. c = [c EXCEPT !.out = c.out] /\ c.out \in SUBSET Packets(To)
    BY DEF Conn
  <2> QED BY <2>1
<1>2. \/ UpdateSends(c, due) = c
      \/ UpdateSends(c, due) = Flush(c)
      \/ UpdateSends(c, due) = SendControl(c, "keepalive", Unknown)
      \/ c.state = "CONNECT" /\ UpdateSends(c, due) = SendConnect(c)
      \/ UpdateSends(c, due) = SendControl(c, "connectaccept", Magic)
  <2> USE DEF UpdateSends
  <2>1. CASE "flush" \notin due \/ c.out # {}
    BY <2>1
  <2>2. CASE "flush" \in due /\ c.out = {}
    BY <2>2
  <2> QED BY <2>1, <2>2
<1>3. "keepalive" \in Ctrl /\ "connectaccept" \in Ctrl
  BY DEF Ctrl
<1>4. /\ \E o \in SUBSET Packets(To) :
           SendControl(c, "keepalive", Unknown) = [c EXCEPT !.out = o]
      /\ \E o \in SUBSET Packets(To) :
           SendControl(c, "connectaccept", Magic) = [c EXCEPT !.out = o]
  BY <1>3, FixedTokens, SendControlConn
<1>5. c.state = "CONNECT" =>
        \E o \in SUBSET Packets(To) : SendConnect(c) = [c EXCEPT !.out = o]
  BY SendConnectConn
<1>6. Flush(c) = c
  BY FlushIdle
<1> QED BY Zenon, <1>1, <1>2, <1>4, <1>5, <1>6

\* Update: nothing, the end of a wait in ERROR, a timeout, or at most a packet.
LEMMA UpdateConn ==
  ASSUME NEW To, NEW c \in Conn(To), NEW due,
         c.state = "CONNECT" => c.connectAddrs \subseteq To
  PROVE  /\ Update(c, due) \in Conn(To)
         /\ Update(c, due).peerAddr = c.peerAddr
         /\ Update(c, due).timeoutProtected = c.timeoutProtected
         /\ \/ c.state = "OFFLINE" /\ Update(c, due) = c
            \/ c.state = "ERROR" /\ Update(c, due) = c
            \/ /\ c.state = "ERROR" /\ Update(c, due).state = "ERROR"
               /\ ~ Update(c, due).timeoutSituation
            \/ /\ Open(c) /\ Update(c, due).state = c.state
               /\ ~ Update(c, due).timeoutSituation
            \/ /\ Open(c) /\ Update(c, due).state = "ERROR"
<1>1. CASE c.state \in {"OFFLINE", "ERROR"}
  <2>1. Update(c, due) = IF c.state = "ERROR" /\ "protection" \in due
                         THEN [c EXCEPT !.timeoutSituation = FALSE] ELSE c
    BY <1>1, Zenon DEF Update
  <2> DEFINE n == [c EXCEPT !.timeoutSituation = FALSE]
  <2>2. /\ n \in Conn(To) /\ n.state = c.state /\ ~ n.timeoutSituation
        /\ n.peerAddr = c.peerAddr /\ n.timeoutProtected = c.timeoutProtected
    BY DEF Conn
  <2> HIDE DEF n
  <2>3. CASE c.state = "ERROR" /\ "protection" \in due
    <3>1. Update(c, due) = n
      BY <2>1, <2>3 DEF n
    <3> QED BY <2>2, <2>3, <3>1
  <2>4. CASE ~ (c.state = "ERROR" /\ "protection" \in due)
    <3>1. Update(c, due) = c
      BY <2>1, <2>4
    <3> QED BY <1>1, <3>1
  <2> QED BY <2>3, <2>4
<1>2. CASE Open(c)
  <2> DEFINE b == [c EXCEPT !.timeoutSituation = FALSE]
             g == [b EXCEPT !.state = "ERROR", !.timeoutSituation = TRUE]
             e == IF b.state # "CONNECT" /\ "timeout" \in due THEN g ELSE b
  <2>1. /\ b \in Conn(To) /\ b.state = c.state /\ ~ b.timeoutSituation
        /\ b.peerAddr = c.peerAddr /\ b.timeoutProtected = c.timeoutProtected
        /\ b.connectAddrs = c.connectAddrs
    BY DEF Conn
  <2>2. /\ g \in Conn(To) /\ g.state = "ERROR"
        /\ g.peerAddr = c.peerAddr /\ g.timeoutProtected = c.timeoutProtected
    BY DEF Conn, States
  <2>3. AnswerResendRequest(b, due) = b
    BY <2>1, AnswerIdle
  <2>4. Update(c, due) = UpdateSends(UpdateResends(e, due), due)
    BY <1>2, <2>3, Zenon DEF Update, Open
  <2> HIDE DEF b, g
  <2>5. /\ e \in Conn(To) /\ e.peerAddr = c.peerAddr
        /\ e.timeoutProtected = c.timeoutProtected
        /\ e.state = "CONNECT" => e.connectAddrs \subseteq To
        /\ e.state = "ERROR" \/ (e.state = c.state /\ ~ e.timeoutSituation)
    BY <2>1, <2>2
  <2> HIDE DEF e
  <2>6. UpdateResends(e, due) = e
    BY <2>5, ResendsIdle
  <2>7. PICK o \in SUBSET Packets(To) : Update(c, due) = [e EXCEPT !.out = o]
    <3>1. \E o \in SUBSET Packets(To) : UpdateSends(e, due) = [e EXCEPT !.out = o]
      BY <2>5, UpdateSendsConn
    <3> QED BY Zenon, <3>1, <2>4, <2>6
  <2> QED BY <1>2, <2>5, <2>7, OutConn
<1> QED BY <1>1, <1>2 DEF Open

LEMMA ResetConnType ==
  ASSUME NEW To, NoAddr \in To
  PROVE  ResetConn \in Conn(To)
BY FixedTokens DEF ResetConn, Conn, States

LEMMA ResetKeeps ==
  ASSUME NEW To, NEW c, c.peerAddr \in To, c.out \in SUBSET Packets(To)
  PROVE  /\ Reset(c) \in Conn(To)
         /\ Reset(c).state = "OFFLINE" /\ Reset(c).peerAddr = c.peerAddr
         /\ Reset(c).out = c.out /\ ~ Reset(c).timeoutSituation
<1>1. ResetConn \in Conn({NoAddr})
  BY ResetConnType
<1>2. /\ Reset(c) = [ResetConn EXCEPT !.peerAddr = c.peerAddr, !.out = c.out]
      /\ ResetConn.state = "OFFLINE" /\ ~ ResetConn.timeoutSituation
  BY DEF Reset, ResetConn
<1> QED BY <1>1, <1>2 DEF Conn

LEMMA DisconnectConn ==
  ASSUME NEW To, NEW c \in Conn(To)
  PROVE  /\ Disconnect(c) \in Conn(To)
         /\ Disconnect(c).state = "OFFLINE"
         /\ Disconnect(c).peerAddr = c.peerAddr
         /\ c.state # "OFFLINE" => ~ Disconnect(c).timeoutSituation
<1>1. CASE c.state = "OFFLINE"
  BY <1>1 DEF Disconnect
<1>2. CASE c.state # "OFFLINE"
  <2> DEFINE d == IF c.remoteClosed \/ c.timeoutSituation
                  THEN c ELSE SendControl(c, "close", Unknown)
  <2>1. d.peerAddr = c.peerAddr /\ d.out \in SUBSET Packets(To)
    <3>1. "close" \in Ctrl
      BY DEF Ctrl
    <3>2. PICK o \in SUBSET Packets(To) :
            SendControl(c, "close", Unknown) = [c EXCEPT !.out = o]
      BY <3>1, FixedTokens, SendControlConn
    <3>3. c.out \in SUBSET Packets(To)
      BY DEF Conn
    <3>4. /\ SendControl(c, "close", Unknown).peerAddr = c.peerAddr
          /\ SendControl(c, "close", Unknown).out = o
      BY <3>2 DEF Conn
    <3>5. d = c \/ d = SendControl(c, "close", Unknown)
      BY Zenon
    <3> HIDE DEF d
    <3> QED BY <3>3, <3>4, <3>5
  <2>2. Disconnect(c) = Reset(d)
    BY <1>2 DEF Disconnect
  <2> HIDE DEF d
  <2>3. c.peerAddr \in To
    BY DEF Conn
  <2> QED BY <2>1, <2>2, <2>3, ResetKeeps
<1> QED BY <1>1, <1>2

-----------------------------------------------------------------------------
(* One slot: its connection goes on or ends.                                *)

Continues(c, d) ==
  /\ SlotConn(d)
  /\ d.peerAddr = c.peerAddr
  /\ Open(d) => Open(c)
  /\ Counted(d) => Counted(c)
  /\ d.state # "OFFLINE" => c.state # "OFFLINE"

LEMMA Stays ==
  ASSUME NEW c, SlotConn(c)
  PROVE  Continues(c, c)
BY DEF Continues

LEMMA DisconnectContinues ==
  ASSUME NEW c, SlotConn(c)
  PROVE  Continues(c, Disconnect(c))
<1>1. CASE c.state = "OFFLINE"
  BY <1>1, Stays DEF Disconnect
<1>2. CASE c.state # "OFFLINE"
  BY <1>2, DisconnectConn DEF SlotConn, Continues, Open, Counted
<1> QED BY <1>1, <1>2

LEMMA UpdateContinues ==
  ASSUME NEW c, SlotConn(c), NEW due
  PROVE  Continues(c, UpdateOrClose(c, due))
<1> DEFINE d == Update(c, due)
<1>1. c \in Conn(ToClient) /\ c.state # "CONNECT"
  BY DEF SlotConn
<1>2. /\ d \in Conn(ToClient)
      /\ d.peerAddr = c.peerAddr
      /\ d.timeoutProtected = c.timeoutProtected
      /\ \/ c.state = "OFFLINE" /\ d = c
         \/ c.state = "ERROR" /\ d = c
         \/ c.state = "ERROR" /\ d.state = "ERROR" /\ ~ d.timeoutSituation
         \/ Open(c) /\ d.state = c.state /\ ~ d.timeoutSituation
         \/ Open(c) /\ d.state = "ERROR"
  BY <1>1, Zenon, UpdateConn
<1>3. UpdateOrClose(c, due) = IF IsKept(d) THEN d ELSE Disconnect(d)
  BY DEF UpdateOrClose
<1> HIDE DEF d
<1>4. CASE IsKept(d)
  <2>1. Continues(c, d)
    BY <1>2, <1>4 DEF Continues, SlotConn, Open, Counted, IsKept
  <2> QED BY <1>3, <1>4, <2>1
<1>5. CASE ~ IsKept(d)
  <2>1. d.state = "ERROR"
    BY <1>5 DEF IsKept
  <2>2. Continues(c, Disconnect(d))
    BY <1>2, <2>1, DisconnectConn DEF Continues, SlotConn, Open, Counted
  <2> QED BY <1>3, <1>5, <2>2
<1> QED BY <1>4, <1>5

LEMMA FeedContinues ==
  ASSUME NEW c, SlotConn(c), NEW From, NEW pkt \in Packets(From), NEW from
  PROVE  Continues(c, Feed(c, from, pkt, {})) \/ c.state = "OFFLINE"
<1> DEFINE e == [c EXCEPT !.state = "ERROR", !.remoteClosed = TRUE]
<1>1. Feed(c, from, pkt, {}) = c \/ Feed(c, from, pkt, {}) = e
  <2>1. c \in Conn(ToClient) /\ c.state \in {"OFFLINE", "ONLINE", "ERROR"}
    BY DEF SlotConn
  <2> QED BY Zenon, <2>1, FeedSlotConn
<1>2. c.state # "OFFLINE" => Continues(c, e)
  BY DEF SlotConn, Conn, States, Continues, Open, Counted
<1> HIDE DEF e
<1> QED BY <1>1, <1>2, Stays

LEMMA ProtectContinues ==
  ASSUME NEW c, SlotConn(c)
  PROVE  Continues(c, IgnoreTimeouts(c))
BY DEF IgnoreTimeouts, SlotConn, Conn, Continues, Open, Counted

LEMMA EmptiedContinues ==
  ASSUME NEW c, SlotConn(c)
  PROVE  Continues(c, [c EXCEPT !.out = {}]) /\ [c EXCEPT !.out = {}].out = {}
BY DEF SlotConn, Conn, Continues, Open, Counted

LEMMA ContinuesTransitive ==
  ASSUME NEW c, NEW d, NEW e, Continues(c, d), Continues(d, e)
  PROVE  Continues(c, e)
BY DEF Continues

LEMMA DirectInitConn ==
  ASSUME NEW c, SlotConn(c), NEW a \in Client, NEW st \in TokenType,
         NEW t \in TokenType, NEW sixup \in BOOLEAN
  PROVE  LET d == DirectInit(c, a, st, t, sixup)
         IN  /\ SlotConn(d) /\ d.peerAddr = a /\ Open(d)
             /\ ~ d.timeoutSituation
<1>1. c.peerAddr \in ToClient /\ c.out \in SUBSET Packets(ToClient)
  BY DEF SlotConn, Conn
<1>2. /\ Reset(c) \in Conn(ToClient) /\ ~ Reset(c).timeoutSituation
  BY <1>1, ResetKeeps
<1>3. a \in ToClient
  BY DEF ToClient
<1> QED BY <1>2, <1>3 DEF DirectInit, SlotConn, Conn, States, Open

-----------------------------------------------------------------------------
(* All slots                                                                *)

SlotsType(slots) ==
  /\ slots = [i \in Slot |-> slots[i]]
  /\ \A i \in Slot : SlotConn(slots[i])

AllContinue(slots, new) == \A i \in Slot : Continues(slots[i], new[i])

\* What TryAcceptClient does to the slots for address a.
Opens(slots, new, a) ==
  \E i \in Slot, d \in Conn(ToClient) :
    /\ new = [slots EXCEPT ![i] = d]
    /\ SlotConn(d) /\ Open(d) /\ ~ d.timeoutSituation /\ d.peerAddr = a
    /\ \/ Open(slots[i]) /\ slots[i].peerAddr = a
       \/ /\ slots[i].state = "OFFLINE"
          /\ \A j \in Slot : Open(slots[j]) => slots[j].peerAddr # a
          /\ Cardinality(CountedAt(slots, a)) + 1 <= MaxClientsPerIp

\* No slot goes from one client to another without being free in between.
Keeps(slots, new) ==
  \A i \in Slot : slots[i].state # "OFFLINE" /\ new[i].state # "OFFLINE"
    => new[i].peerAddr = slots[i].peerAddr

LEMMA SlotsFinite ==
  ASSUME NEW T, T \subseteq Slot
  PROVE  IsFiniteSet(T) /\ Cardinality(T) \in Nat
<1>1. IsFiniteSet(Slot)
  BY ServerAssumption, FS_Interval DEF Slot
<1> QED BY <1>1, FS_Subset, FS_CardinalityType

LEMMA FewerSlots ==
  ASSUME NEW U, U \subseteq Slot, NEW T, T \subseteq U
  PROVE  Cardinality(T) <= Cardinality(U)
BY SlotsFinite, FS_Subset

LEMMA OneMoreSlot ==
  ASSUME NEW T, T \subseteq Slot, NEW i \in Slot
  PROVE  Cardinality(T \cup {i}) <= Cardinality(T) + 1
<1>1. IsFiniteSet(T) /\ Cardinality(T) \in Nat
  BY SlotsFinite
<1>2. Cardinality(T \cup {i}) = IF i \in T THEN Cardinality(T) ELSE Cardinality(T) + 1
  BY Zenon, <1>1, FS_AddElement
<1>3. Cardinality(T \cup {i}) = Cardinality(T) \/ Cardinality(T \cup {i}) = Cardinality(T) + 1
  BY Zenon, <1>2
<1> QED BY <1>1, <1>3

LEMMA ContinueKeepsInv ==
  ASSUME NEW slots, NEW new, AllContinue(slots, new), SlotsInv(slots)
  PROVE  SlotsInv(new)
<1>1. ASSUME NEW i \in Slot
      PROVE  /\ new[i].peerAddr = slots[i].peerAddr
             /\ Open(new[i]) => Open(slots[i])
             /\ Counted(new[i]) => Counted(slots[i])
  BY DEF AllContinue, Continues
<1>2. ASSUME NEW i \in Slot, NEW j \in Slot, Open(new[i]), Open(new[j]), i # j
      PROVE  new[i].peerAddr # new[j].peerAddr
  BY <1>1, <1>2 DEF SlotsInv
<1>3. ASSUME NEW a \in Client
      PROVE  Cardinality(CountedAt(new, a)) <= MaxClientsPerIp
  <2>1. CountedAt(new, a) \subseteq CountedAt(slots, a) /\ CountedAt(slots, a) \subseteq Slot
    BY <1>1 DEF CountedAt
  <2>2. Cardinality(CountedAt(new, a)) <= Cardinality(CountedAt(slots, a))
    BY <2>1, FewerSlots
  <2>3. CountedAt(new, a) \subseteq Slot
    BY <2>1
  <2>4. /\ Cardinality(CountedAt(new, a)) \in Nat
        /\ Cardinality(CountedAt(slots, a)) \in Nat
    BY <2>1, <2>3, SlotsFinite
  <2> QED BY <2>2, <2>4, ServerAssumption DEF SlotsInv
<1> QED BY <1>2, <1>3 DEF SlotsInv

LEMMA OpensKeepsInv ==
  ASSUME NEW slots, NEW new, NEW a \in Client, SlotsType(slots), SlotsInv(slots),
         Opens(slots, new, a)
  PROVE  SlotsType(new) /\ SlotsInv(new) /\ Keeps(slots, new)
<1>1. PICK i \in Slot, d \in Conn(ToClient) :
        /\ new = [slots EXCEPT ![i] = d]
        /\ SlotConn(d) /\ Open(d) /\ ~ d.timeoutSituation /\ d.peerAddr = a
        /\ \/ Open(slots[i]) /\ slots[i].peerAddr = a
           \/ /\ slots[i].state = "OFFLINE"
              /\ \A j \in Slot : Open(slots[j]) => slots[j].peerAddr # a
              /\ Cardinality(CountedAt(slots, a)) + 1 <= MaxClientsPerIp
  BY DEF Opens
<1>2. new[i] = d /\ \A j \in Slot : j # i => new[j] = slots[j]
  BY <1>1 DEF SlotsType
<1>3. SlotsType(new)
  BY <1>1, <1>2 DEF SlotsType
<1>4. Keeps(slots, new)
  BY <1>1, <1>2 DEF Keeps
<1>5. ASSUME NEW j \in Slot, j # i, Open(slots[j])
      PROVE  slots[j].peerAddr # a
  BY <1>1, <1>5 DEF SlotsInv
<1>6. ASSUME NEW j \in Slot, NEW k \in Slot, Open(new[j]), Open(new[k]), j # k
      PROVE  new[j].peerAddr # new[k].peerAddr
  <2>1. CASE j = i
    BY <1>1, <1>2, <1>5, <1>6, <2>1
  <2>2. CASE k = i
    BY <1>1, <1>2, <1>5, <1>6, <2>2
  <2>3. CASE j # i /\ k # i
    BY <1>2, <1>6, <2>3 DEF SlotsInv
  <2> QED BY <2>1, <2>2, <2>3
<1>7. ASSUME NEW b \in Client
      PROVE  Cardinality(CountedAt(new, b)) <= MaxClientsPerIp
  <2>1. CountedAt(slots, b) \subseteq Slot /\ CountedAt(new, b) \subseteq Slot
    BY DEF CountedAt
  <2>2. /\ Cardinality(CountedAt(slots, b)) \in Nat
        /\ Cardinality(CountedAt(slots, b)) <= MaxClientsPerIp
        /\ Cardinality(CountedAt(new, b)) \in Nat
    BY <2>1, SlotsFinite DEF SlotsInv
  <2>3. CountedAt(new, b) \subseteq CountedAt(slots, b) \cup {i}
    BY <1>2 DEF CountedAt
  <2>4. CASE TokenOf[a] # TokenOf[b] \/ (Open(slots[i]) /\ slots[i].peerAddr = a)
    <3>1. CountedAt(new, b) \subseteq CountedAt(slots, b)
      BY <1>1, <1>2, <2>4 DEF CountedAt, Counted
    <3> QED BY <2>1, <2>2, <3>1, FewerSlots, ServerAssumption
  <2>5. CASE TokenOf[a] = TokenOf[b] /\ ~ (Open(slots[i]) /\ slots[i].peerAddr = a)
    <3>1. CountedAt(slots, b) = CountedAt(slots, a)
      BY <2>5 DEF CountedAt
    <3>2. Cardinality(CountedAt(slots, b)) + 1 <= MaxClientsPerIp
      BY <1>1, <2>5, <3>1
    <3>4. Cardinality(CountedAt(slots, b) \cup {i}) <= Cardinality(CountedAt(slots, b)) + 1
      BY <2>1, OneMoreSlot
    <3>5. Cardinality(CountedAt(new, b)) <= Cardinality(CountedAt(slots, b) \cup {i})
      <4>1. CountedAt(slots, b) \cup {i} \subseteq Slot
        BY <2>1
      <4> QED BY <2>3, <4>1, FewerSlots
    <3>6. Cardinality(CountedAt(slots, b) \cup {i}) \in Nat
      <4>1. CountedAt(slots, b) \cup {i} \subseteq Slot
        BY <2>1
      <4> QED BY <4>1, SlotsFinite
    <3> QED BY <2>2, <3>2, <3>4, <3>5, <3>6, ServerAssumption
  <2> QED BY <2>4, <2>5
<1> QED BY <1>3, <1>4, <1>6, <1>7 DEF SlotsInv

-----------------------------------------------------------------------------
(* The handlers of the server                                               *)

SrvType(s) ==
  /\ s = [slots |-> s.slots, out |-> s.out]
  /\ SlotsType(s.slots)
  /\ s.out \subseteq Packets(Client)

LEMMA SendControlMsgSrv ==
  ASSUME NEW s, SrvType(s), NEW a \in Client, NEW ctrl \in Ctrl,
         NEW info \in TokenType, NEW token \in TokenType, NEW sixup \in BOOLEAN
  PROVE  /\ SrvType(SendControlMsg(s, a, ctrl, info, token, sixup))
         /\ SendControlMsg(s, a, ctrl, info, token, sixup).slots = s.slots
<1> DEFINE p == [to |-> a, ctrl |-> ctrl, ack |-> 0, resend |-> FALSE, chunks |-> << >>,
                 token |-> token, info |-> info, sixup |-> sixup]
<1>1. p \in Packets(Client)
  BY DEF Packets
<1>2. SendControlMsg(s, a, ctrl, info, token, sixup) = [s EXCEPT !.out = s.out \cup {p}]
  BY DEF SendControlMsg
<1> HIDE DEF p
<1>3. [s EXCEPT !.out = s.out \cup {p}] = [slots |-> s.slots, out |-> s.out \cup {p}]
  BY DEF SrvType
<1> QED BY <1>1, <1>2, <1>3 DEF SrvType

LEMMA SmallestSlot ==
  ASSUME NEW T, T \subseteq Slot, T # {}
  PROVE  Min(T) \in T
<1>1. T \in SUBSET Nat
  BY DEF Slot
<1>2. \E x \in T : \A y \in T : x <= y
  BY <1>1, SmallestNumber
<1> QED BY <1>2, Zenon DEF Min

LEMMA ClientSlot ==
  ASSUME NEW slots, NEW a
  PROVE  LET slot == GetClientSlot(slots, a)
         IN  IF slot = NoSlot
             THEN \A j \in Slot : Open(slots[j]) => slots[j].peerAddr # a
             ELSE slot \in Slot /\ Open(slots[slot]) /\ slots[slot].peerAddr = a
<1> DEFINE at == {i \in Slot : Open(slots[i]) /\ slots[i].peerAddr = a}
<1>1. GetClientSlot(slots, a) = IF at = {} THEN NoSlot ELSE Min(at)
  BY DEF GetClientSlot, Open
<1>2. at # {} => Min(at) \in at
  BY SmallestSlot
<1>3. NoSlot \notin Slot
  BY DEF NoSlot, Slot
<1> QED BY <1>1, <1>2, <1>3

\* The slots NumClientsWithAddr counts are those that count for the limit.
LEMMA CountsAll ==
  ASSUME NEW slots, SlotsType(slots), NEW a \in Client
  PROVE  NumClientsWithAddr(slots, a) = Cardinality(CountedAt(slots, a))
<1>1. ASSUME NEW i \in Slot
      PROVE  Counted(slots[i]) <=> slots[i].state # "OFFLINE" /\ IsKept(slots[i])
  BY DEF SlotsType, SlotConn, Conn, Counted, Open, IsKept
<1>2. ClientsWithAddr(slots, a) = CountedAt(slots, a)
  BY <1>1 DEF ClientsWithAddr, CountedAt
<1> QED BY <1>2 DEF NumClientsWithAddr

LEMMA TryAcceptClientSrv ==
  ASSUME NEW s, SrvType(s), NEW a \in Client, NEW st \in TokenType,
         NEW sixup \in BOOLEAN, NEW token \in TokenType, NEW limited \in BOOLEAN
  PROVE  LET slot == GetClientSlot(s.slots, a)
             r    == TryAcceptClient(s, a, st, slot, sixup, token, limited)
         IN  /\ SrvType(r)
             /\ r.slots = s.slots
                  \/ (SlotsType(r.slots) /\ Opens(s.slots, r.slots, a))
<1> DEFINE slot == GetClientSlot(s.slots, a)
           i    == IF slot # NoSlot THEN slot ELSE Min(FreeSlots(s.slots))
           refused == IsRefused(s, a, slot, sixup, limited)
           close == SendControlMsg(s, a, "close", Unknown, st, sixup)
           d    == DirectInit(s.slots[i], a, st, token, sixup)
           r    == TryAcceptClient(s, a, st, slot, sixup, token, limited)
<1>1. \/ refused /\ r = close
      \/ ~ refused /\ limited /\ r = s
      \/ ~ refused /\ ~ limited /\ r = [s EXCEPT !.slots[i] = d]
  BY Zenon DEF TryAcceptClient
<1>2. SrvType(close) /\ close.slots = s.slots
  BY FixedTokens, SendControlMsgSrv DEF Ctrl
<1>3. ASSUME ~ refused
      PROVE  /\ i \in Slot
             /\ \/ Open(s.slots[i]) /\ s.slots[i].peerAddr = a
                \/ /\ s.slots[i].state = "OFFLINE"
                   /\ \A j \in Slot : Open(s.slots[j]) => s.slots[j].peerAddr # a
                   /\ Cardinality(CountedAt(s.slots, a)) + 1 <= MaxClientsPerIp
  <2>1. CASE slot # NoSlot
    BY <2>1, ClientSlot
  <2>2. CASE slot = NoSlot
    <3>1. /\ FreeSlots(s.slots) # {}
          /\ ~ (NumClientsWithAddr(s.slots, a) + 1 > MaxClientsPerIp)
      BY <1>3, <2>2 DEF IsRefused
    <3>2. FreeSlots(s.slots) \subseteq Slot
      BY DEF FreeSlots
    <3>3. i \in FreeSlots(s.slots)
      BY <2>2, <3>1, <3>2, SmallestSlot
    <3>4. i \in Slot /\ s.slots[i].state = "OFFLINE"
      BY <3>3 DEF FreeSlots
    <3>5. \A j \in Slot : Open(s.slots[j]) => s.slots[j].peerAddr # a
      BY <2>2, ClientSlot
    <3>6. Cardinality(CountedAt(s.slots, a)) + 1 <= MaxClientsPerIp
      <4>1. CountedAt(s.slots, a) \subseteq Slot
        BY DEF CountedAt
      <4>2. Cardinality(CountedAt(s.slots, a)) \in Nat
        BY <4>1, SlotsFinite
      <4>3. NumClientsWithAddr(s.slots, a) = Cardinality(CountedAt(s.slots, a))
        BY CountsAll DEF SrvType
      <4> QED BY <3>1, <4>2, <4>3, ServerAssumption
    <3> QED BY <3>4, <3>5, <3>6
  <2> QED BY <2>1, <2>2
<1>4. ASSUME ~ refused, ~ limited
      PROVE  SrvType(r) /\ Opens(s.slots, r.slots, a)
  <2>1. i \in Slot /\ SlotConn(s.slots[i])
    BY <1>3, <1>4 DEF SrvType, SlotsType
  <2>2. SlotConn(d) /\ d.peerAddr = a /\ Open(d) /\ ~ d.timeoutSituation
    BY <2>1, DirectInitConn
  <2>3. r = [s EXCEPT !.slots[i] = d]
    BY <1>1, <1>4
  <2> HIDE DEF d, r, refused, i
  <2>4. r = [slots |-> [s.slots EXCEPT ![i] = d], out |-> s.out]
    BY <2>3 DEF SrvType
  <2>5. Opens(s.slots, r.slots, a)
    <3>1. d \in Conn(ToClient) /\ r.slots = [s.slots EXCEPT ![i] = d]
      BY <2>2, <2>4 DEF SlotConn
    <3> QED BY <1>3, <1>4, <2>1, <2>2, <3>1, Zenon DEF Opens
  <2>6. SlotsType(r.slots)
    BY <2>1, <2>2, <2>4 DEF SrvType, SlotsType
  <2> QED BY <2>4, <2>5, <2>6 DEF SrvType
<1>5. SlotsType(s.slots)
  BY DEF SrvType
<1> HIDE DEF refused, close, d, i
<1> QED BY <1>1, <1>2, <1>4 DEF SrvType

\* The handler of a control message opens at most the slot of its sender.
LEMMA HandlerSrv ==
  ASSUME NEW s, SrvType(s), NEW a \in Client, NEW pkt \in Packets({Server}),
         NEW limited \in BOOLEAN
  PROVE  LET slot == GetClientSlot(s.slots, a)
             d    == IF pkt.sixup THEN OnSixupCtrlMsg(s, a, pkt, slot, limited)
                     ELSE OnTokenCtrlMsg(s, a, pkt, slot, limited)
         IN  /\ SrvType(d)
             /\ d.slots = s.slots
                  \/ (SlotsType(d.slots) /\ Opens(s.slots, d.slots, a))
<1> DEFINE slot == GetClientSlot(s.slots, a)
           Fine(d) == /\ SrvType(d)
                      /\ d.slots = s.slots
                           \/ (SlotsType(d.slots) /\ Opens(s.slots, d.slots, a))
           accept == SendControlMsg(s, a, "connectaccept", TokenOf[a], pkt.info, TRUE)
           answer == SendControlMsg(s, a, "connectaccept", Magic, TokenOf[a], FALSE)
           token  == SendControlMsg(s, a, "token", TokenOf[a], pkt.info, TRUE)
           open7  == TryAcceptClient(accept, a, pkt.info, slot, TRUE, pkt.token, limited)
           open6  == TryAcceptClient(s, a, pkt.token, slot, FALSE, Unsupported, limited)
<1>1. /\ pkt.info \in TokenType /\ pkt.token \in TokenType /\ TokenOf[a] \in TokenType
      /\ "connectaccept" \in Ctrl /\ "token" \in Ctrl
  BY TokensOfClients DEF Packets, Ctrl
<1>2. /\ SrvType(accept) /\ accept.slots = s.slots
      /\ SrvType(answer) /\ answer.slots = s.slots
      /\ SrvType(token) /\ token.slots = s.slots
  <2>1. ASSUME NEW ctrl \in Ctrl, NEW info \in TokenType, NEW tok \in TokenType
        PROVE  \A sixup \in BOOLEAN :
                 /\ SrvType(SendControlMsg(s, a, ctrl, info, tok, sixup))
                 /\ SendControlMsg(s, a, ctrl, info, tok, sixup).slots = s.slots
    BY SendControlMsgSrv
  <2>2. SrvType(accept) /\ accept.slots = s.slots
    BY <1>1, <2>1
  <2>3. SrvType(answer) /\ answer.slots = s.slots
    BY <1>1, <2>1, FixedTokens
  <2>4. SrvType(token) /\ token.slots = s.slots
    BY <1>1, <2>1
  <2> QED BY Zenon, <2>2, <2>3, <2>4
<1>3. Fine(s) /\ Fine(accept) /\ Fine(answer) /\ Fine(token)
  BY Zenon, <1>2
<1>4. Fine(open7)
  <2>1. slot = GetClientSlot(accept.slots, a)
    BY <1>2
  <2> HIDE DEF slot, accept
  <2>2. /\ SrvType(open7)
        /\ open7.slots = accept.slots
             \/ (SlotsType(open7.slots) /\ Opens(accept.slots, open7.slots, a))
    BY <1>1, <1>2, <2>1, TryAcceptClientSrv
  <2> QED BY Zenon, <1>2, <2>2
<1>5. Fine(open6)
  BY <1>1, FixedTokens, TryAcceptClientSrv
<1>6. /\ OnSixupCtrlMsg(s, a, pkt, slot, limited) \in {token, open7, accept, s}
      /\ OnTokenCtrlMsg(s, a, pkt, slot, limited) \in {answer, open6, s}
  <2> HIDE DEF slot
  <2>1. OnSixupCtrlMsg(s, a, pkt, slot, limited) =
          CASE pkt.ctrl = "token" -> token
            [] pkt.ctrl = "connect" -> IF pkt.token = TokenOf[a] THEN open7 ELSE accept
            [] OTHER -> s
    BY Zenon DEF OnSixupCtrlMsg
  <2>2. OnTokenCtrlMsg(s, a, pkt, slot, limited) =
          CASE pkt.ctrl = "connect" -> answer
            [] pkt.ctrl = "accept" /\ pkt.token = TokenOf[a] -> open6
            [] OTHER -> s
    BY Zenon DEF OnTokenCtrlMsg
  <2> HIDE DEF token, open7, accept, answer, open6
  <2> QED BY <2>1, <2>2
<1> HIDE DEF Fine, slot, token, open7, accept, answer, open6
<1>7. Fine(IF pkt.sixup THEN OnSixupCtrlMsg(s, a, pkt, slot, limited)
           ELSE OnTokenCtrlMsg(s, a, pkt, slot, limited))
  BY <1>3, <1>4, <1>5, <1>6
<1> QED BY Zenon, <1>7 DEF Fine, slot

\* A step of the server that keeps what SlotsInv says, and every slot its client.
SafeStep(s, r) == SrvType(r) /\ SlotsInv(r.slots) /\ Keeps(s.slots, r.slots)

LEMMA ContinueStep ==
  ASSUME NEW s, NEW d, NEW r, SafeStep(s, d), SrvType(r), AllContinue(d.slots, r.slots)
  PROVE  SafeStep(s, r)
<1>1. SlotsInv(r.slots)
  BY ContinueKeepsInv DEF SafeStep
<1>2. Keeps(s.slots, r.slots)
  BY DEF SafeStep, Keeps, AllContinue, Continues
<1> QED BY <1>1, <1>2 DEF SafeStep

LEMMA NoStep ==
  ASSUME NEW s, SrvType(s), SlotsInv(s.slots)
  PROVE  SafeStep(s, s)
BY DEF SafeStep, Keeps

\* A change of one slot that continues its connection.
LEMMA OneContinues ==
  ASSUME NEW s, NEW d, SafeStep(s, d), NEW i \in Slot, NEW c, Continues(d.slots[i], c)
  PROVE  SafeStep(s, [d EXCEPT !.slots[i] = c])
<1> DEFINE r == [d EXCEPT !.slots[i] = c]
<1>1. SrvType(d) /\ SlotConn(c)
  BY DEF SafeStep, Continues
<1>2. r = [slots |-> [d.slots EXCEPT ![i] = c], out |-> d.out]
  BY <1>1 DEF SrvType
<1> HIDE DEF r
<1>3. SrvType(r)
  BY <1>1, <1>2 DEF SrvType, SlotsType
<1>4. AllContinue(d.slots, r.slots)
  BY <1>1, <1>2, Stays DEF SrvType, SlotsType, AllContinue
<1>5. SafeStep(s, r)
  BY <1>3, <1>4, ContinueStep
<1> QED BY Zenon, <1>5 DEF r

LEMMA RecvPacketStep ==
  ASSUME NEW s, SrvType(s), SlotsInv(s.slots), NEW a \in Client,
         NEW pkt \in Packets({Server}), NEW limited \in BOOLEAN
  PROVE  SafeStep(s, RecvPacket(s, a, pkt, limited, {}))
<1> DEFINE slot == GetClientSlot(s.slots, a)
           d    == IF pkt.sixup THEN OnSixupCtrlMsg(s, a, pkt, slot, limited)
                   ELSE OnTokenCtrlMsg(s, a, pkt, slot, limited)
           f    == Feed(d.slots[slot], a, pkt, {})
<1>1. /\ SrvType(d)
      /\ d.slots = s.slots \/ (SlotsType(d.slots) /\ Opens(s.slots, d.slots, a))
  BY Zenon, HandlerSrv
<1>2. \/ RecvPacket(s, a, pkt, limited, {}) \in {s, d}
      \/ slot # NoSlot /\ RecvPacket(s, a, pkt, limited, {}) = [d EXCEPT !.slots[slot] = f]
  <2>1. RecvPacket(s, a, pkt, limited, {}) =
          IF IsReadable(s.slots, slot, pkt)
          THEN IF slot = NoSlot \/ d.slots[slot].sixup # pkt.sixup
               THEN d ELSE [d EXCEPT !.slots[slot] = f]
          ELSE s
    BY Zenon DEF RecvPacket, FeedSlot
  <2> HIDE DEF slot, d, f
  <2> QED BY <2>1
<1>3. slot # NoSlot => slot \in Slot /\ Open(s.slots[slot])
  BY ClientSlot
<1> HIDE DEF slot, d
<1>4. SafeStep(s, d)
  <2>1. CASE d.slots = s.slots
    BY <1>1, <2>1 DEF SafeStep, Keeps
  <2>2. CASE Opens(s.slots, d.slots, a)
    <3>1. SlotsType(s.slots)
      BY DEF SrvType
    <3>2. SlotsInv(d.slots) /\ Keeps(s.slots, d.slots)
      BY <2>2, <3>1, OpensKeepsInv
    <3> QED BY <1>1, <3>2 DEF SafeStep
  <2> QED BY <1>1, <2>1, <2>2
<1>5. ASSUME slot # NoSlot
      PROVE  SafeStep(s, [d EXCEPT !.slots[slot] = f])
  <2>1. slot \in Slot
    BY <1>3, <1>5
  <2>2. d.slots[slot].state # "OFFLINE"
    <3>1. s.slots[slot].state # "OFFLINE"
      BY <1>3, <1>5 DEF Open
    <3>2. CASE d.slots = s.slots
      BY <3>1, <3>2
    <3>3. CASE Opens(s.slots, d.slots, a)
      BY <2>1, <3>1, <3>3 DEF Opens, Open, SrvType, SlotsType
    <3> QED BY <1>1, <3>2, <3>3
  <2>3. SlotConn(d.slots[slot])
    BY <1>1, <2>1 DEF SrvType, SlotsType
  <2>4. Continues(d.slots[slot], f)
    BY <2>2, <2>3, FeedContinues
  <2> HIDE DEF f
  <2> QED BY <1>4, <2>1, <2>4, OneContinues
<1> QED BY <1>2, <1>4, <1>5, NoStep

LEMMA UpdateSlotsStep ==
  ASSUME NEW s, SrvType(s), SlotsInv(s.slots), NEW due
  PROVE  SafeStep(s, UpdateSlots(s, due))
<1> DEFINE u(i) == UpdateOrClose(s.slots[i], due[i])
           r == UpdateSlots(s, due)
<1>1. \A i \in Slot : SlotConn(s.slots[i])
  BY DEF SrvType, SlotsType
<1>2. \A i \in Slot : Continues(s.slots[i], u(i))
  BY Zenon, <1>1, UpdateContinues
<1>3. r = [slots |-> [i \in Slot |-> u(i)], out |-> s.out]
  BY DEF UpdateSlots, SrvType
<1> HIDE DEF u, r
<1>4. SrvType(r)
  BY <1>2, <1>3 DEF SrvType, SlotsType, Continues
<1>5. AllContinue(s.slots, r.slots)
  BY <1>2, <1>3 DEF AllContinue
<1>6. SafeStep(s, r)
  BY <1>4, <1>5, NoStep, ContinueStep
<1> QED BY Zenon, <1>6 DEF r

\* The socket takes what is to be sent.
LEMMA EmptiedStep ==
  ASSUME NEW s, NEW r, SafeStep(s, r)
  PROVE  /\ SafeStep(s, Emptied(r))
         /\ Emptied(r).out = {} /\ \A i \in Slot : Emptied(r).slots[i].out = {}
<1> DEFINE e == Emptied(r)
<1>1. e = [slots |-> [i \in Slot |-> [r.slots[i] EXCEPT !.out = {}]], out |-> {}]
  BY DEF Emptied
<1>2. \A i \in Slot : SlotConn(r.slots[i])
  BY DEF SafeStep, SrvType, SlotsType
<1>3. \A i \in Slot : /\ Continues(r.slots[i], [r.slots[i] EXCEPT !.out = {}])
                      /\ [r.slots[i] EXCEPT !.out = {}].out = {}
  BY Zenon, <1>2, EmptiedContinues
<1> HIDE DEF e
<1>4. \A i \in Slot : Continues(r.slots[i], e.slots[i]) /\ e.slots[i].out = {}
  BY <1>1, <1>3
<1>5. SrvType(e)
  <2>1. \A i \in Slot : SlotConn(e.slots[i])
    BY <1>4 DEF Continues
  <2> QED BY <1>1, <2>1 DEF SrvType, SlotsType
<1>6. SafeStep(s, e)
  BY <1>4, <1>5, ContinueStep DEF AllContinue
<1> QED BY <1>1, <1>4, <1>6 DEF e

-----------------------------------------------------------------------------
(* The steps of the system                                                  *)

LEMMA TransmitNet ==
  ASSUME NetInv, NEW from, NEW pkts, Transmit(from, pkts),
         \A p \in pkts : p.to # NoAddr =>
           \/ from \in Client /\ p \in Packets({Server})
           \/ from = Server /\ p \in Packets(Client)
  PROVE  NetInv'
<1> DEFINE Msg == [from : Client, pkt : Packets({Server})]
                    \cup [from : {Server}, pkt : Packets(Client)]
           sent == {[from |-> from, pkt |-> pkt] : pkt \in {p \in pkts : p.to # NoAddr}}
           all  == net \cup sent
<1>1. sent \subseteq Msg
  OBVIOUS
<1>2. all \subseteq Msg
  BY <1>1 DEF NetInv
<1>3. \/ Cardinality(all) <= MaxInFlight /\ net' = all
      \/ net' \in kSubset(MaxInFlight, all)
  BY DEF Transmit
<1> HIDE DEF Msg, all
<1>4. net' \subseteq all /\ Cardinality(net') <= MaxInFlight
  <2>1. CASE net' = all /\ Cardinality(all) <= MaxInFlight
    BY <2>1
  <2>2. CASE net' \in kSubset(MaxInFlight, all)
    <3>1. net' \in SUBSET all /\ Cardinality(net') = MaxInFlight
      BY <2>2 DEF kSubset
    <3> QED BY <3>1, HandshakeAssumption
  <2> QED BY <1>3, <2>1, <2>2
<1>5. net' \subseteq Msg
  BY <1>2, <1>4
<1> QED BY <1>4, <1>5 DEF NetInv, Msg

\* A step of a client, of which its connection c comes out.
LEMMA ClientKeepsInv ==
  ASSUME IInv, NEW a \in Client, NEW c \in Conn(ToServer), ClientSteps(a, c)
  PROVE  IInv' /\ UNCHANGED srv
<1>1. NetInv'
  <2>1. \A p \in c.out : p.to # NoAddr => p \in Packets({Server})
    BY DEF Conn, Packets, ToServer
  <2>2. NetInv /\ Transmit(a, c.out)
    BY DEF ClientSteps, IInv
  <2>3. \A p \in c.out : p.to # NoAddr =>
          \/ a \in Client /\ p \in Packets({Server})
          \/ a = Server /\ p \in Packets(Client)
    BY <2>1
  <2> QED BY <2>2, <2>3, TransmitNet
<1>2. UNCHANGED srv
  BY DEF ClientSteps
<1>3. SrvInv'
  BY <1>2 DEF IInv, SrvInv
<1>4. ClientInv'
  <2> DEFINE e == [c EXCEPT !.out = {}]
  <2>1. e \in Conn(ToServer) /\ e.out = {}
    BY OutConn
  <2>2. client' = [client EXCEPT ![a] = e]
    BY DEF ClientSteps
  <2> HIDE DEF e
  <2> QED BY <2>1, <2>2 DEF IInv, ClientInv
<1> QED BY <1>1, <1>2, <1>3, <1>4 DEF IInv

\* A step of the server, of which the record r comes out.
LEMMA ServerKeepsInv ==
  ASSUME IInv, NEW r, SafeStep(srv, r), ServerSteps(r)
  PROVE  IInv' /\ Keeps(srv.slots, srv'.slots)
<1>1. NetInv'
  <2>1. SrvType(r)
    BY DEF SafeStep
  <2>2. ASSUME NEW p \in Outgoing(r), p.to # NoAddr
        PROVE  p \in Packets(Client)
    <3>1. CASE p \in r.out
      BY <2>1, <3>1 DEF SrvType
    <3>2. ASSUME NEW i \in Slot, p \in r.slots[i].out
          PROVE  p \in Packets(Client)
      <4>1. p \in Packets(ToClient)
        BY <2>1, <3>2 DEF SrvType, SlotsType, SlotConn, Conn
      <4> QED BY <2>2, <4>1 DEF Packets, ToClient
    <3> QED BY <3>1, <3>2 DEF Outgoing
  <2>3. Transmit(Server, Outgoing(r))
    BY DEF ServerSteps
  <2> QED BY <2>2, <2>3, TransmitNet DEF IInv
<1>2. srv' = Emptied(r) /\ UNCHANGED client
  BY DEF ServerSteps
<1>3. /\ SafeStep(srv, srv')
      /\ srv'.out = {} /\ \A i \in Slot : srv'.slots[i].out = {}
  BY <1>2, EmptiedStep
<1>4. SrvInv'
  BY <1>3 DEF SafeStep, SrvType, SlotsType, SrvInv
<1>5. ClientInv'
  BY <1>2 DEF IInv, ClientInv
<1> QED BY <1>1, <1>3, <1>4, <1>5 DEF IInv, SafeStep

LEMMA ServerRecord ==
  ASSUME IInv
  PROVE  SrvType(srv) /\ SlotsInv(srv.slots)
BY DEF IInv, SrvInv, SrvType, SlotsType

LEMMA ClientRecord ==
  ASSUME IInv, NEW a \in Client
  PROVE  /\ client[a] \in Conn(ToServer)
         /\ client[a].connectAddrs \subseteq ToServer
BY DEF IInv, ClientInv, Conn, ToServer

LEMMA MessageType ==
  ASSUME IInv, NEW m \in net
  PROVE  /\ m.pkt \in Packets(Client \cup {Server})
         /\ m.pkt.to = Server => m.from \in Client /\ m.pkt \in Packets({Server})
BY HandshakeAssumption DEF IInv, NetInv, Packets

LEMMA ConnectConn ==
  ASSUME IInv, NEW a \in Client, ConnectClient(a)
  PROVE  IInv' /\ UNCHANGED srv
<1> DEFINE c == client[a]
<1>1. c \in Conn(ToServer) /\ c.state = "OFFLINE"
  BY ClientRecord DEF ConnectClient
<1>2. c.peerAddr \in ToServer /\ c.out \in SUBSET Packets(ToServer)
  BY <1>1 DEF Conn
<1>3. Reset(c) \in Conn(ToServer)
  BY <1>2, ResetKeeps
<1>4. CASE ClientSteps(a, Connect(c, {Server}))
  <2> DEFINE d == [Reset(c) EXCEPT !.peerAddr = NoAddr, !.connectAddrs = {Server},
                                   !.state = "CONNECT"]
  <2>1. d \in Conn(ToServer) /\ d.connectAddrs \subseteq ToServer
    BY <1>3 DEF Conn, States, ToServer
  <2>2. Connect(c, {Server}) = SendConnect(d)
    BY <1>1 DEF Connect
  <2> HIDE DEF d, c
  <2>3. Connect(c, {Server}) \in Conn(ToServer)
    BY <2>1, <2>2, SendConnectConn, OutConn
  <2> QED BY <1>4, <2>3, ClientKeepsInv
<1>5. ASSUME NEW t \in ClientToken, ClientSteps(a, Connect7(c, {Server}, Server, t))
      PROVE  IInv' /\ UNCHANGED srv
  <2> DEFINE d == [Reset(c) EXCEPT !.connectAddrs = {Server}, !.peerAddr = Server,
                                   !.token = t, !.state = "WANT_TOKEN"]
             e == SendControlWithToken7(d, "token", Unknown)
  <2>1. d \in Conn(ToServer)
    BY <1>3 DEF Conn, States, ToServer, TokenType
  <2>2. Connect7(c, {Server}, Server, t) = [e EXCEPT !.sixup = TRUE]
    BY <1>1 DEF Connect7
  <2> HIDE DEF d, c
  <2>3. e \in Conn(ToServer)
    <3>1. "token" \in Ctrl
      BY DEF Ctrl
    <3> QED BY <2>1, <3>1, FixedTokens, Token7Conn
  <2> HIDE DEF e
  <2>4. Connect7(c, {Server}, Server, t) \in Conn(ToServer)
    BY <2>2, <2>3 DEF Conn
  <2> QED BY <1>5, <2>4, ClientKeepsInv
<1> QED BY <1>4, <1>5 DEF ConnectClient

LEMMA UpdateClientConn ==
  ASSUME IInv, NEW a \in Client, NEW due, UpdateClient(a, due)
  PROVE  IInv' /\ UNCHANGED srv
<1> DEFINE d == Update(client[a], due)
<1>1. client[a] \in Conn(ToServer) /\ client[a].connectAddrs \subseteq ToServer
  BY ClientRecord
<1>2. d \in Conn(ToServer)
  BY <1>1, UpdateConn
<1>3. UpdateOrClose(client[a], due) = d \/ UpdateOrClose(client[a], due) = Disconnect(d)
  BY DEF UpdateOrClose
<1> HIDE DEF d
<1>4. UpdateOrClose(client[a], due) \in Conn(ToServer)
  BY <1>2, <1>3, DisconnectConn
<1> QED BY <1>4, ClientKeepsInv DEF UpdateClient

\* Every step keeps IInv, and leaves every slot to its client.
LEMMA NextKeepsInv ==
  ASSUME IInv, [Next]_vars
  PROVE  IInv' /\ Keeps(srv.slots, srv'.slots)
<1>1. ASSUME UNCHANGED srv PROVE Keeps(srv.slots, srv'.slots)
  BY <1>1 DEF Keeps
<1>2. ASSUME NEW a \in Client, ConnectClient(a)
      PROVE  IInv' /\ Keeps(srv.slots, srv'.slots)
  BY <1>1, <1>2, ConnectConn
<1>3. ASSUME NEW a \in Client, DisconnectClient(a)
      PROVE  IInv' /\ Keeps(srv.slots, srv'.slots)
  <2>1. Disconnect(client[a]) \in Conn(ToServer)
    BY ClientRecord, DisconnectConn
  <2> QED BY <1>1, <1>3, <2>1, ClientKeepsInv DEF DisconnectClient
<1>4. ASSUME NEW a \in Client, NEW m \in net, RecvClient(a, m)
      PROVE  IInv' /\ Keeps(srv.slots, srv'.slots)
  <2>1. Feed(client[a], m.from, m.pkt, {}) \in Conn(ToServer)
    BY ClientRecord, MessageType, FeedConn
  <2> QED BY <1>1, <1>4, <2>1, ClientKeepsInv DEF RecvClient
<1>5. ASSUME NEW a \in Client, NEW due, UpdateClient(a, due)
      PROVE  IInv' /\ Keeps(srv.slots, srv'.slots)
  BY <1>1, <1>5, UpdateClientConn
<1>6. ASSUME NEW m \in net, NEW limited \in Limiting, RecvServer(m, limited)
      PROVE  IInv' /\ Keeps(srv.slots, srv'.slots)
  <2>1. m.from \in Client /\ m.pkt \in Packets({Server}) /\ limited \in BOOLEAN
    BY <1>6, MessageType, HandshakeAssumption DEF RecvServer
  <2>2. SafeStep(srv, RecvPacket(srv, m.from, m.pkt, limited, {}))
    BY <2>1, ServerRecord, RecvPacketStep
  <2> QED BY <1>6, <2>2, ServerKeepsInv DEF RecvServer
<1>7. ASSUME NEW due, UpdateServer(due)
      PROVE  IInv' /\ Keeps(srv.slots, srv'.slots)
  BY <1>7, ServerRecord, UpdateSlotsStep, ServerKeepsInv DEF UpdateServer
<1>8. ASSUME NEW i \in Slot
      PROVE  /\ SlotConn(srv.slots[i])
             /\ \A c : Continues(srv.slots[i], c) => SafeStep(srv, [srv EXCEPT !.slots[i] = c])
  <2>1. SafeStep(srv, srv)
    BY ServerRecord, NoStep
  <2>2. SlotConn(srv.slots[i])
    BY ServerRecord DEF SrvType, SlotsType
  <2>3. ASSUME NEW c, Continues(srv.slots[i], c)
        PROVE  SafeStep(srv, [srv EXCEPT !.slots[i] = c])
    BY <2>1, <2>3, OneContinues
  <2> QED BY <2>2, <2>3
<1>9. ASSUME NEW i \in Slot, DropClient(i)
      PROVE  IInv' /\ Keeps(srv.slots, srv'.slots)
  <2>1. SafeStep(srv, [srv EXCEPT !.slots[i] = Disconnect(srv.slots[i])])
    BY <1>8, DisconnectContinues
  <2>2. SafeStep(srv, DropSlot(srv, i))
    BY Zenon, <2>1 DEF DropSlot
  <2> QED BY <1>9, <2>2, ServerKeepsInv DEF DropClient
<1>10. ASSUME NEW i \in Slot, ProtectClient(i)
       PROVE  IInv' /\ Keeps(srv.slots, srv'.slots)
  <2>1. SafeStep(srv, [srv EXCEPT !.slots[i] = IgnoreTimeouts(srv.slots[i])])
    BY <1>8, ProtectContinues
  <2>2. SafeStep(srv, ProtectSlot(srv, i))
    BY Zenon, <2>1 DEF ProtectSlot
  <2> QED BY <1>10, <2>2, ServerKeepsInv DEF ProtectClient
<1>11. CASE UNCHANGED vars
  BY <1>1, <1>11 DEF vars, IInv, NetInv, SrvInv, ClientInv
<1> QED BY <1>2, <1>3, <1>4, <1>5, <1>6, <1>7, <1>9, <1>10, <1>11 DEF Next

LEMMA InitKeepsInv ==
  ASSUME Init
  PROVE  IInv
<1>1. ResetConn \in Conn({NoAddr}) /\ ResetConn.state = "OFFLINE"
      /\ ~ ResetConn.timeoutSituation /\ ResetConn.out = {}
  BY ResetConnType DEF ResetConn
<1>2. ResetConn \in Conn(ToServer) /\ ResetConn \in Conn(ToClient)
  BY ResetConnType DEF ToServer, ToClient
<1>3. SlotConn(ResetConn) /\ ~ Open(ResetConn) /\ ~ Counted(ResetConn)
  BY <1>1, <1>2 DEF SlotConn, Open, Counted
<1>4. NetInv
  <2>1. Cardinality({}) = 0
    BY FS_EmptySet
  <2> QED BY <2>1, HandshakeAssumption DEF Init, NetInv
<1>5. ClientInv
  BY <1>1, <1>2 DEF Init, ClientInv
<1>6. SrvInv
  <2>1. \A i \in Slot : srv.slots[i] = ResetConn
    BY DEF Init
  <2>2. ASSUME NEW a \in Client
        PROVE  Cardinality(CountedAt(srv.slots, a)) <= MaxClientsPerIp
    <3>1. CountedAt(srv.slots, a) = {}
      BY <1>3, <2>1 DEF CountedAt
    <3> QED BY <3>1, FS_EmptySet, ServerAssumption
  <2>3. SlotsInv(srv.slots)
    BY <1>3, <2>1, <2>2 DEF SlotsInv
  <2> QED BY <1>1, <1>3, <2>1, <2>3 DEF Init, SrvInv
<1> QED BY <1>4, <1>5, <1>6 DEF IInv

-----------------------------------------------------------------------------

\* The invariant of the server's slots, the clients and the packets holds in
\* every reachable state: for any number of slots, of clients and of addresses
\* behind one IP, and any number of packets in flight.
THEOREM Invariance == Spec => []IInv
<1>1. Init => IInv
  BY InitKeepsInv
<1>2. IInv /\ [Next]_vars => IInv'
  BY NextKeepsInv
<1> QED BY <1>1, <1>2, PTL DEF Spec

\* Connections, slots and packets have their types: no connection of the server
\* ever waits for a peer, no slot in use is without a client's address.
THEOREM TypeCorrect == Spec => []TypeOK
<1>1. IInv => TypeOK
  <2> SUFFICES ASSUME IInv PROVE TypeOK
    OBVIOUS
  <2>1. ASSUME NEW To, NEW c \in Conn(To), To \subseteq Client \cup {Server, NoAddr},
               c.out = {}
        PROVE  c \in ConnType
    BY <2>1 DEF Conn, ConnType
  <2>2. ToServer \subseteq Client \cup {Server, NoAddr}
        /\ ToClient \subseteq Client \cup {Server, NoAddr}
    BY DEF ToServer, ToClient
  <2>3. client \in [Client -> ConnType]
    <3>1. \A a \in Client : client[a] \in ConnType
      BY <2>1, <2>2 DEF IInv, ClientInv
    <3> QED BY <3>1 DEF IInv, ClientInv
  <2>4. srv \in [slots : [Slot -> ConnType], out : {{}}]
    <3>1. \A i \in Slot : srv.slots[i] \in ConnType
      BY <2>1, <2>2 DEF IInv, SrvInv, SlotConn
    <3>2. srv.slots \in [Slot -> ConnType]
      BY <3>1 DEF IInv, SrvInv
    <3> QED BY <3>2 DEF IInv, SrvInv
  <2>5. \A i \in Slot : srv.slots[i].state # "OFFLINE" => srv.slots[i].peerAddr \in Client
    BY DEF IInv, SrvInv, SlotConn
  <2>6. /\ Packets(Client) \subseteq PacketType
        /\ Packets({Server}) \subseteq PacketType
    BY DEF Packets, PacketType, Ctrl
  <2>7. net \subseteq [from : Client \cup {Server}, pkt : PacketType]
    BY <2>6 DEF IInv, NetInv
  <2> QED BY <2>3, <2>4, <2>5, <2>7 DEF TypeOK, IInv, NetInv
<1> QED BY <1>1, Invariance, PTL

\* However often its client connects, with either protocol, and whatever old
\* packets Recv reads: an address has one open slot at most.
THEOREM OneSlot == Spec => []OneSlotPerAddress
<1>1. IInv => OneSlotPerAddress
  BY DEF IInv, SrvInv, SlotsInv, OneSlotPerAddress, IsOpen, Open
<1> QED BY <1>1, Invariance, PTL

\* TryAcceptClient never lets an IP pass sv_max_clients_per_ip, slots kept after
\* a timeout included.
THEOREM Limited == Spec => []LimitPerIp
<1>1. IInv => LimitPerIp
  BY Zenon DEF IInv, SrvInv, SlotsInv, CountedAt, Counted, LimitPerIp, IsOpen, Open
<1> QED BY <1>1, Invariance, PTL

\* A slot in use keeps its client: Recv initialises the slot of the sender or
\* a free one, and everything else leaves m_PeerAddr alone.
THEOREM NoTakeover == Spec => SlotKeepsItsClient
<1>1. IInv /\ [Next]_vars =>
        [\A i \in Slot : /\ srv.slots[i].state # "OFFLINE"
                         /\ srv'.slots[i].state # "OFFLINE"
           => srv'.slots[i].peerAddr = srv.slots[i].peerAddr]_vars
  BY NextKeepsInv DEF Keeps
<1> QED BY <1>1, Invariance, PTL DEF Spec, SlotKeepsItsClient
=============================================================================
