-------------------------- MODULE NetChannelProofs --------------------------
(***************************************************************************)
(* Proofs about NetChannel: the inductive invariant IInv, and from it type *)
(* correctness, in-order exactly-once delivery and that no undelivered     *)
(* message leaves the resend buffer, for all values of the constants; and  *)
(* that the connection implements ReliableLink.                            *)
(*                                                                         *)
(* The arithmetic of the numbers on the wire comes first: the circular     *)
(* comparisons agree with their reference definitions, and what they say   *)
(* of numbers that are less than a full turn apart.                        *)
(*                                                                         *)
(* Then the connection: each member function of it keeps it Good, that is, *)
(* of the right shape and with the right numbers on its chunks and         *)
(* packets; and, unless it is the one that acknowledges or sends, it       *)
(* leaves alone the resend buffer, m_Sequence and m_PeerAck, of which      *)
(* Window speaks.                                                          *)
(***************************************************************************)
EXTENDS NetChannel, SeqTriples, NumberLemmas, SequenceTheorems

\* IsSeqInBackroom, with its two cases on the sign of the lower end, is the
\* comparison of a distance on the circle.
THEOREM BackroomIsDistance ==
  ASSUME NEW seq \in SeqNo, NEW ack \in SeqNo
  PROVE  IsSeqInBackroom(seq, ack) <=> RefBackroom(seq, ack)
BY MaxSequenceAssumption DEF IsSeqInBackroom, RefBackroom, Forward, SeqNo, Half

\* The two cases of the window check of Feed are one comparison: walking from
\* the last accepted acknowledgement, the new one comes before m_Sequence.
THEOREM AckValidIsWindow ==
  ASSUME NEW ack \in SeqNo, NEW peerAck \in SeqNo, NEW sequence \in SeqNo
  PROVE  IsAckValid(ack, peerAck, sequence) <=> RefAckValid(ack, peerAck, sequence)
BY MaxSequenceAssumption DEF IsAckValid, RefAckValid, Forward, SeqNo

\* Both comparisons of sequence numbers (IsSeqInBackroom, Feed) are about distances on the
\* circle, for every modulus and all numbers.
THEOREM NumbersOnCircle == TriplesSpec => []ComparesOnCircle
<1>1. TriplesInit => ComparesOnCircle
  BY BackroomIsDistance, AckValidIsWindow DEF TriplesInit, ComparesOnCircle
<1>2. ComparesOnCircle /\ [FALSE]_triple => ComparesOnCircle'
  BY DEF ComparesOnCircle
<1> QED BY <1>1, <1>2, PTL DEF TriplesSpec

\* Numbers on the wire are sequence numbers.
LEMMA WireType ==
  ASSUME NEW i \in Nat
  PROVE  Wire(i) \in SeqNo
BY MaxSequenceAssumption DEF Wire, SeqNo

-----------------------------------------------------------------------------
(* Wire numbers less than a full turn apart.                                *)

\* Advancing by less than a full turn wraps at most once.
LEMMA WireShift ==
  ASSUME NEW i \in Nat, NEW k \in 0 .. MaxSequence - 1
  PROVE  Wire(i + k) = IF Wire(i) + k < MaxSequence
                       THEN Wire(i) + k ELSE Wire(i) + k - MaxSequence
<1> DEFINE q == i \div MaxSequence
           r == Wire(i) + k
<1>0. MaxSequence \in Nat \ {0}
  BY MaxSequenceAssumption
<1>1. /\ MaxSequence \in Nat \ {0}
      /\ q \in Nat
      /\ Wire(i) \in 0 .. MaxSequence - 1
      /\ i = MaxSequence * q + Wire(i)
  BY <1>0, DivMod, Zenon DEF Wire
<1>2. CASE r < MaxSequence
  <2>0. r \in 0 .. MaxSequence - 1
    BY <1>1, <1>2
  <2>1. (MaxSequence * q + r) % MaxSequence = r
    BY <1>0, <1>1, <2>0, ModUnique, Zenon
  <2>2. i + k = MaxSequence * q + r
    BY <1>1
  <2> QED BY <1>2, <2>1, <2>2 DEF Wire
<1>3. CASE r >= MaxSequence
  <2>1. q + 1 \in Nat /\ r - MaxSequence \in 0 .. MaxSequence - 1
    BY <1>1, <1>3
  <2>2. (MaxSequence * (q + 1) + (r - MaxSequence)) % MaxSequence = r - MaxSequence
    BY <1>1, <2>1, ModUnique
  <2>3. i + k = MaxSequence * (q + 1) + (r - MaxSequence)
    BY <1>1, Z3
  <2> QED BY <1>1, <1>3, <2>2, <2>3 DEF Wire
<1> QED BY <1>1, <1>2, <1>3

\* QueueChunk and UnpackNextChunk step to the number of the next message.
LEMMA NextSeqWire ==
  ASSUME NEW i \in Nat
  PROVE  NextSeq(Wire(i)) = Wire(i + 1)
<1>1. Wire(i) \in 0 .. MaxSequence - 1 /\ MaxSequence \in Nat \ {0}
  BY WireType, MaxSequenceAssumption DEF SeqNo
<1>2. Wire(i + 1) = IF Wire(i) + 1 < MaxSequence
                    THEN Wire(i) + 1 ELSE Wire(i) + 1 - MaxSequence
  BY WireShift, MaxSequenceAssumption
<1>3. CASE Wire(i) + 1 < MaxSequence
  <2>1. (MaxSequence * 0 + (Wire(i) + 1)) % MaxSequence = Wire(i) + 1
    BY <1>1, <1>3, ModUnique
  <2> QED BY <1>1, <1>2, <1>3, <2>1 DEF NextSeq
<1>4. CASE Wire(i) + 1 = MaxSequence
  <2>1. (MaxSequence * 1 + 0) % MaxSequence = 0
    BY <1>1, ModUnique
  <2> QED BY <1>1, <1>2, <1>4, <2>1 DEF NextSeq
<1> QED BY <1>1, <1>3, <1>4

\* Less than a full turn forward, the distance on the circle is the true one.
LEMMA ForwardWire ==
  ASSUME NEW i \in Nat, NEW j \in Nat, i <= j, j < i + MaxSequence
  PROVE  Forward(Wire(i), Wire(j)) = j - i
<1>1. j - i \in 0 .. MaxSequence - 1 /\ j = i + (j - i)
  BY MaxSequenceAssumption
<1>2. Wire(j) = IF Wire(i) + (j - i) < MaxSequence
                THEN Wire(i) + (j - i) ELSE Wire(i) + (j - i) - MaxSequence
  BY <1>1, WireShift
<1> QED BY <1>1, <1>2, WireType, MaxSequenceAssumption DEF Forward, SeqNo

\* Less than a full turn backward, it is the complement.
LEMMA ForwardWireBack ==
  ASSUME NEW i \in Nat, NEW j \in Nat, j < i, i < j + MaxSequence
  PROVE  Forward(Wire(i), Wire(j)) = MaxSequence - (i - j)
<1>1. i - j \in 0 .. MaxSequence - 1 /\ i = j + (i - j)
  BY MaxSequenceAssumption
<1>2. Wire(i) = IF Wire(j) + (i - j) < MaxSequence
                THEN Wire(j) + (i - j) ELSE Wire(j) + (i - j) - MaxSequence
  BY <1>1, WireShift
<1> QED BY <1>1, <1>2, WireType, MaxSequenceAssumption DEF Forward, SeqNo

\* Equal numbers less than a full turn apart number the same message.
LEMMA WireInjective ==
  ASSUME NEW i \in Nat, NEW j \in Nat, Wire(i) = Wire(j),
         i < j + MaxSequence, j < i + MaxSequence
  PROVE  i = j
<1>1. Forward(Wire(i), Wire(j)) = 0
  BY WireType DEF Forward, SeqNo
<1>2. CASE i <= j
  BY <1>1, <1>2, ForwardWire
<1>3. CASE j < i
  BY <1>1, <1>3, ForwardWireBack, MaxSequenceAssumption
<1> QED BY <1>2, <1>3
\* The window check of Feed accepts an acknowledgement of message k, given that
\* message a was acknowledged and message n is the last one sent, exactly when
\* k does not go back before a.
LEMMA AckValidWire ==
  ASSUME NEW a \in Nat, NEW n \in Nat, NEW k \in Nat,
         a <= n, n < a + MaxSequence, k <= n, n < k + MaxSequence
  PROVE  IsAckValid(Wire(k), Wire(a), Wire(n)) <=> a <= k
<1>1. Forward(Wire(a), Wire(n)) = n - a
  BY ForwardWire
<1>2. IsAckValid(Wire(k), Wire(a), Wire(n))
        <=> Forward(Wire(a), Wire(k)) <= n - a
  BY <1>1, AckValidIsWindow, WireType DEF RefAckValid
<1>3. CASE a <= k
  <2>1. Forward(Wire(a), Wire(k)) = k - a
    BY <1>3, ForwardWire, MaxSequenceAssumption
  <2> QED BY <1>2, <1>3, <2>1
<1>4. CASE k < a
  <2>1. Forward(Wire(a), Wire(k)) = MaxSequence - (a - k)
    BY <1>4, ForwardWireBack, MaxSequenceAssumption
  <2> QED BY <1>2, <1>4, <2>1, MaxSequenceAssumption
<1> QED BY <1>3, <1>4

\* IsSeqInBackroom for a message at most Half before the acknowledged one, and
\* for the one just after it.
LEMMA BackroomWire ==
  ASSUME NEW i \in Nat, NEW k \in Nat
  PROVE  /\ i <= k /\ k - i <= Half => IsSeqInBackroom(Wire(i), Wire(k))
         /\ i = k + 1 => ~ IsSeqInBackroom(Wire(i), Wire(k))
<1>1. IsSeqInBackroom(Wire(i), Wire(k)) <=> Forward(Wire(i), Wire(k)) <= Half
  BY BackroomIsDistance, WireType DEF RefBackroom
<1>2. Half \in Nat /\ Half < MaxSequence - 1
  BY MaxSequenceAssumption DEF Half
<1>3. ASSUME i <= k, k - i <= Half
      PROVE  IsSeqInBackroom(Wire(i), Wire(k))
  BY <1>1, <1>2, <1>3, ForwardWire, MaxSequenceAssumption
<1>4. ASSUME i = k + 1
      PROVE  ~ IsSeqInBackroom(Wire(i), Wire(k))
  BY <1>1, <1>2, <1>4, ForwardWireBack, MaxSequenceAssumption
<1> QED BY <1>3, <1>4

-----------------------------------------------------------------------------
(* What the operators of the connection keep.                               *)

\* A connection of the right shape whose chunks and packets carry the numbers
\* of messages 1 .. n and acknowledge message d.
Good(c, n, d) == c \in ConnType /\ WithinCapacity(c) /\ ConnNumbered(c, n, d)

\* r has the window of c.
SameWindow(c, r) ==
  /\ r.buffer = c.buffer /\ r.sequence = c.sequence
  /\ r.peerAck = c.peerAck /\ r.state = c.state

\* Each of the two peers is the other one's other.
LEMMA OtherPeer ==
  ASSUME NEW p \in Peer
  PROVE  /\ Other(p) \in Peer /\ Other(p) # p /\ Other(Other(p)) = p
         /\ \A q \in Peer : q = p \/ q = Other(p)
<1>1. PICK a \in Peer, b \in Peer : a # b /\ Peer = {a, b}
  BY PeerAssumption
<1>2. ASSUME NEW r \in Peer
      PROVE  Other(r) \in Peer /\ Other(r) # r
  <2>1. \E q \in Peer : q # r
    BY <1>1
  <2> QED BY <2>1 DEF Other
<1>3. Other(p) \in Peer /\ Other(p) # p /\ Other(Other(p)) \in Peer /\ Other(Other(p)) # Other(p)
  BY <1>2
<1> QED BY <1>1, <1>3

-----------------------------------------------------------------------------
(* Handing packets to the socket                                            *)

\* A packet made of chunks of the connection is a packet of the protocol.
LEMMA PacketGood ==
  ASSUME NEW n \in Nat, NEW d \in Nat, NEW c, Good(c, n, d), c.state # "OFFLINE",
         NEW ctrl \in {"none", "keepalive", "close"}, NEW resend \in BOOLEAN,
         NEW chunks \in Seq(ChunkType), AllNumbered(chunks, n),
         NEW info \in TokenType
  PROVE  LET pkt == Packet(c, c.peerAddr, ctrl, resend, chunks, info)
         IN  /\ pkt \in PacketType
             /\ pkt.ack = Wire(d) /\ pkt.chunks = chunks
             /\ AllNumbered(pkt.chunks, n)
<1>1. /\ c.peerAddr \in Peer \cup {NoAddr} /\ c.ack \in SeqNo
      /\ c.securityToken \in TokenType /\ c.ack = Wire(d) /\ c.sixup \in BOOLEAN
  BY DEF Good, ConnType, ConnNumbered
<1> QED BY <1>1 DEF Packet, PacketType

\* Adding such packets to those already sent changes nothing else.
LEMMA SendGood ==
  ASSUME NEW n \in Nat, NEW d \in Nat, NEW c, Good(c, n, d),
         NEW pkts \in SUBSET PacketType,
         \A pkt \in pkts : /\ pkt.ack = Wire(d) /\ AllNumbered(pkt.chunks, n)
                           /\ Len(pkt.chunks) <= PacketChunks
  PROVE  LET r == [c EXCEPT !.out = @ \cup pkts]
         IN  Good(r, n, d) /\ SameWindow(c, r) /\ r.construct = c.construct
BY DEF Good, ConnType, WithinCapacity, ConnNumbered, SameWindow

\* Replacing the packet under construction.
LEMMA ConstructGood ==
  ASSUME NEW n \in Nat, NEW d \in Nat, NEW c, Good(c, n, d),
         NEW resend \in BOOLEAN, NEW chunks \in Seq(ChunkType),
         AllNumbered(chunks, n), Len(chunks) <= PacketChunks
  PROVE  LET r == [c EXCEPT !.construct = [resend |-> resend, chunks |-> chunks]]
         IN  Good(r, n, d) /\ SameWindow(c, r) /\ r.out = c.out
BY DEF Good, ConnType, WithinCapacity, ConnNumbered, SameWindow

\* The empty sequence of chunks, and the tokens.
LEMMA EmptyChunks ==
  ASSUME NEW n
  PROVE  /\ << >> \in Seq(ChunkType) /\ AllNumbered(<< >>, n)
         /\ Len(<< >>) <= PacketChunks /\ Len(<< >>) <= BufferChunks
         /\ Unknown \in TokenType /\ FALSE \in BOOLEAN
<1>1. << >> \in Seq(ChunkType) /\ Len(<< >>) = 0 /\ DOMAIN << >> = {}
  BY EmptySeq
<1>2. AllNumbered(<< >>, n)
  BY <1>1 DEF AllNumbered
<1>3. Unknown \in TokenType
  BY DEF TokenType
<1> QED BY <1>1, <1>2, <1>3, CapacityAssumption

\* A control message (keep-alive, close).
LEMMA SendControlGood ==
  ASSUME NEW n \in Nat, NEW d \in Nat, NEW c, Good(c, n, d), c.state # "OFFLINE",
         NEW ctrl \in {"none", "keepalive", "close"}
  PROVE  LET r == SendControl(c, ctrl, Unknown)
         IN  Good(r, n, d) /\ SameWindow(c, r)
<1> DEFINE pkt == Packet(c, c.peerAddr, ctrl, FALSE, << >>, Unknown)
           r == [c EXCEPT !.out = @ \cup {pkt}]
<1>1. /\ pkt \in PacketType /\ pkt.ack = Wire(d) /\ pkt.chunks = << >>
      /\ AllNumbered(pkt.chunks, n)
  <2>1. << >> \in Seq(ChunkType) /\ AllNumbered(<< >>, n)
    BY EmptyChunks
  <2>2. /\ c.peerAddr \in Peer \cup {NoAddr} /\ c.ack \in SeqNo
        /\ c.securityToken \in TokenType /\ c.ack = Wire(d) /\ c.sixup \in BOOLEAN
        /\ Unknown \in TokenType
    BY EmptyChunks DEF Good, ConnType, ConnNumbered
  <2> QED BY <2>1, <2>2 DEF Packet, PacketType
<1>2. Len(pkt.chunks) <= PacketChunks
  BY <1>1, EmptyChunks
<1>3. Good(r, n, d) /\ SameWindow(c, r)
  <2> HIDE DEF pkt
  <2>1. {pkt} \in SUBSET PacketType
    BY <1>1
  <2> QED BY <1>1, <1>2, <2>1, SendGood
<1>4. SendControl(c, ctrl, Unknown) = r
  BY Zenon DEF SendControl
<1> QED BY <1>3, <1>4

\* Flush.
LEMMA FlushGood ==
  ASSUME NEW n \in Nat, NEW d \in Nat, NEW c, Good(c, n, d), c.state # "OFFLINE"
  PROVE  LET r == Flush(c)
         IN  /\ Good(r, n, d) /\ SameWindow(c, r)
             /\ r.construct = c.construct \/ r.construct = EmptyConstruct
             /\ c.construct.chunks # << >> => r.construct = EmptyConstruct
<1> DEFINE pkt == Packet(c, c.peerAddr, "none", c.construct.resend, c.construct.chunks, Unknown)
           s == [c EXCEPT !.out = @ \cup {pkt}]
           r == [s EXCEPT !.construct = EmptyConstruct]
<1>1. /\ c.construct.resend \in BOOLEAN /\ c.construct.chunks \in Seq(ChunkType)
      /\ AllNumbered(c.construct.chunks, n) /\ Len(c.construct.chunks) <= PacketChunks
  BY DEF Good, ConnType, ConnNumbered, WithinCapacity
<1>2. /\ pkt \in PacketType /\ pkt.ack = Wire(d)
      /\ pkt.chunks = c.construct.chunks
  BY <1>1, PacketGood DEF TokenType
<1>3. Good(s, n, d) /\ SameWindow(c, s)
  <2> HIDE DEF pkt
  <2>1. /\ {pkt} \in SUBSET PacketType
        /\ \A q \in {pkt} : /\ q.ack = Wire(d) /\ AllNumbered(q.chunks, n)
                            /\ Len(q.chunks) <= PacketChunks
    BY <1>1, <1>2
  <2> QED BY <2>1, SendGood
<1>4. Good(r, n, d) /\ SameWindow(s, r) /\ r.construct = EmptyConstruct
  <2>1. << >> \in Seq(ChunkType) /\ AllNumbered(<< >>, n) /\ Len(<< >>) <= PacketChunks
    BY CapacityAssumption DEF AllNumbered
  <2>2. Good(r, n, d) /\ SameWindow(s, r)
    BY <1>3, <2>1, ConstructGood DEF EmptyConstruct
  <2>3. "construct" \in DOMAIN s
    BY <1>3 DEF Good, ConnType
  <2> QED BY <2>2, <2>3
<1>5. SameWindow(c, r)
  BY <1>3, <1>4 DEF SameWindow
<1>6. CASE c.construct.chunks = << >> /\ ~ c.construct.resend
  BY <1>6 DEF Flush, SameWindow
<1>7. CASE ~ (c.construct.chunks = << >> /\ ~ c.construct.resend)
  <2>1. Flush(c) = r
    BY <1>7, Zenon DEF Flush
  <2> QED BY <1>4, <1>5, <2>1
<1> QED BY <1>6, <1>7

-----------------------------------------------------------------------------
(* Sequences of numbered chunks                                             *)

LEMMA SubSeqNumbered ==
  ASSUME NEW n \in Nat, NEW s \in Seq(ChunkType), AllNumbered(s, n),
         NEW i \in Nat \ {0}, NEW j \in Nat, j <= Len(s)
  PROVE  /\ SubSeq(s, i, j) \in Seq(ChunkType)
         /\ Len(SubSeq(s, i, j)) = IF i <= j THEN j - i + 1 ELSE 0
         /\ \A k \in 1 .. j - i + 1 : SubSeq(s, i, j)[k] = s[i + k - 1]
         /\ AllNumbered(SubSeq(s, i, j), n)
<1>1. /\ Len(s) \in Nat /\ DOMAIN s = 1 .. Len(s)
      /\ \A k \in i .. j : s[k] \in ChunkType
  BY LenProperties, ElementOfSeq
<1>2. /\ SubSeq(s, i, j) \in Seq(ChunkType)
      /\ Len(SubSeq(s, i, j)) = IF i <= j THEN j - i + 1 ELSE 0
      /\ \A k \in 1 .. j - i + 1 : SubSeq(s, i, j)[k] = s[i + k - 1]
  BY <1>1, SubSeqProperties
<1>3. DOMAIN SubSeq(s, i, j) = 1 .. Len(SubSeq(s, i, j))
  BY <1>2, LenProperties
<1>4. ASSUME NEW k \in DOMAIN SubSeq(s, i, j), SubSeq(s, i, j)[k].vital
      PROVE  /\ SubSeq(s, i, j)[k].msg \in 1 .. n
             /\ SubSeq(s, i, j)[k].seq = Wire(SubSeq(s, i, j)[k].msg)
  <2>1. k \in 1 .. j - i + 1 /\ i + k - 1 \in 1 .. Len(s)
    BY <1>1, <1>2, <1>3
  <2>2. SubSeq(s, i, j)[k] = s[i + k - 1] /\ i + k - 1 \in DOMAIN s
    BY <1>1, <1>2, <2>1
  <2> QED BY <1>4, <2>2 DEF AllNumbered
<1> QED BY <1>2, <1>4 DEF AllNumbered

LEMMA ConcatNumbered ==
  ASSUME NEW n \in Nat, NEW s \in Seq(ChunkType), NEW t \in Seq(ChunkType),
         AllNumbered(s, n), AllNumbered(t, n)
  PROVE  /\ s \o t \in Seq(ChunkType) /\ Len(s \o t) = Len(s) + Len(t)
         /\ AllNumbered(s \o t, n)
<1>1. /\ Len(s) \in Nat /\ DOMAIN s = 1 .. Len(s)
      /\ Len(t) \in Nat /\ DOMAIN t = 1 .. Len(t)
  BY LenProperties
<1>2. /\ s \o t \in Seq(ChunkType) /\ Len(s \o t) = Len(s) + Len(t)
      /\ \A k \in 1 .. Len(s) + Len(t) :
           (s \o t)[k] = IF k <= Len(s) THEN s[k] ELSE t[k - Len(s)]
  BY ConcatProperties
<1>3. DOMAIN (s \o t) = 1 .. Len(s) + Len(t)
  BY <1>2, LenProperties
<1>4. ASSUME NEW k \in DOMAIN (s \o t), (s \o t)[k].vital
      PROVE  /\ (s \o t)[k].msg \in 1 .. n
             /\ (s \o t)[k].seq = Wire((s \o t)[k].msg)
  <2>1. CASE k <= Len(s)
    <3>1. (s \o t)[k] = s[k] /\ k \in DOMAIN s
      BY <1>1, <1>2, <1>3, <2>1
    <3> QED BY <1>4, <3>1 DEF AllNumbered
  <2>2. CASE k > Len(s)
    <3>1. (s \o t)[k] = t[k - Len(s)] /\ k - Len(s) \in DOMAIN t
      BY <1>1, <1>2, <1>3, <2>2
    <3> QED BY <1>4, <3>1 DEF AllNumbered
  <2> QED BY <1>1, <1>3, <2>1, <2>2
<1> QED BY <1>2, <1>4 DEF AllNumbered

\* A chunk that may be queued on a connection that has sent n messages.
IsNumbered(chunk, n) ==
  chunk.vital => chunk.msg \in 1 .. n /\ chunk.seq = Wire(chunk.msg)

LEMMA AppendNumbered ==
  ASSUME NEW n \in Nat, NEW s \in Seq(ChunkType), AllNumbered(s, n),
         NEW chunk \in ChunkType, IsNumbered(chunk, n)
  PROVE  /\ Append(s, chunk) \in Seq(ChunkType)
         /\ Len(Append(s, chunk)) = Len(s) + 1
         /\ \A k \in 1 .. Len(s) : Append(s, chunk)[k] = s[k]
         /\ Append(s, chunk)[Len(s) + 1] = chunk
         /\ AllNumbered(Append(s, chunk), n)
<1>1. /\ Len(s) \in Nat /\ DOMAIN s = 1 .. Len(s)
  BY LenProperties
<1>2. /\ Append(s, chunk) \in Seq(ChunkType) /\ Len(Append(s, chunk)) = Len(s) + 1
      /\ DOMAIN Append(s, chunk) = 1 .. Len(s) + 1
      /\ \A k \in 1 .. Len(s) : Append(s, chunk)[k] = s[k]
      /\ Append(s, chunk)[Len(s) + 1] = chunk
  BY <1>1, AppendProperties, LenProperties
<1>3. ASSUME NEW k \in DOMAIN Append(s, chunk), Append(s, chunk)[k].vital
      PROVE  /\ Append(s, chunk)[k].msg \in 1 .. n
             /\ Append(s, chunk)[k].seq = Wire(Append(s, chunk)[k].msg)
  <2>1. CASE k \in 1 .. Len(s)
    <3>1. Append(s, chunk)[k] = s[k] /\ k \in DOMAIN s
      BY <1>1, <1>2, <2>1
    <3> QED BY <1>3, <3>1 DEF AllNumbered
  <2>2. CASE k = Len(s) + 1
    BY <1>2, <1>3, <2>2 DEF IsNumbered
  <2> QED BY <1>1, <1>2, <2>1, <2>2
<1> QED BY <1>2, <1>3 DEF AllNumbered

\* Messages that were sent stay sent.
LEMMA StillNumbered ==
  ASSUME NEW n \in Nat, NEW m \in Nat, n <= m, NEW s, AllNumbered(s, n)
  PROVE  AllNumbered(s, m)
BY DEF AllNumbered

-----------------------------------------------------------------------------
(* Queueing and resending chunks                                            *)

LEMMA EnqueueGood ==
  ASSUME NEW n \in Nat, NEW d \in Nat, NEW c, Good(c, n, d), c.state # "OFFLINE",
         NEW chunk \in ChunkType, IsNumbered(chunk, n)
  PROVE  LET r == Enqueue(c, chunk) IN Good(r, n, d) /\ SameWindow(c, r)
<1> DEFINE e == IF Len(c.construct.chunks) = PacketChunks THEN Flush(c) ELSE c
           r == [e EXCEPT !.construct =
                   [resend |-> e.construct.resend,
                    chunks |-> Append(e.construct.chunks, chunk)]]
<1>1. /\ c.construct.chunks \in Seq(ChunkType) /\ Len(c.construct.chunks) \in Nat
      /\ Len(c.construct.chunks) <= PacketChunks
  BY LenProperties DEF Good, ConnType, WithinCapacity
<1>2. /\ Good(e, n, d) /\ SameWindow(c, e)
      /\ Len(e.construct.chunks) < PacketChunks
  <2>1. CASE Len(c.construct.chunks) = PacketChunks
    <3>1. c.construct.chunks # << >>
      BY <1>1, <2>1, EmptySeq, CapacityAssumption
    <3>2. /\ Good(Flush(c), n, d) /\ SameWindow(c, Flush(c))
          /\ Flush(c).construct = EmptyConstruct
      BY <3>1, FlushGood
    <3>3. Len(EmptyConstruct.chunks) < PacketChunks
      BY EmptySeq, CapacityAssumption DEF EmptyConstruct
    <3> QED BY <2>1, <3>2, <3>3
  <2>2. CASE Len(c.construct.chunks) # PacketChunks
    BY <1>1, <2>2, CapacityAssumption DEF SameWindow
  <2> QED BY <2>1, <2>2
<1> HIDE DEF e
<1>3. /\ e.construct.resend \in BOOLEAN /\ e.construct.chunks \in Seq(ChunkType)
      /\ AllNumbered(e.construct.chunks, n) /\ Len(e.construct.chunks) \in Nat
  BY <1>2, LenProperties DEF Good, ConnType, ConnNumbered
<1>4. /\ Append(e.construct.chunks, chunk) \in Seq(ChunkType)
      /\ AllNumbered(Append(e.construct.chunks, chunk), n)
      /\ Len(Append(e.construct.chunks, chunk)) <= PacketChunks
  BY <1>2, <1>3, AppendNumbered, CapacityAssumption
<1>5. Good(r, n, d) /\ SameWindow(e, r)
  BY <1>2, <1>3, <1>4, ConstructGood
<1>6. Enqueue(c, chunk) = r
  <2>1. e.construct \in [resend : BOOLEAN, chunks : Seq(ChunkType)]
    BY <1>2 DEF Good, ConnType
  <2>2. ASSUME NEW k \in [resend : BOOLEAN, chunks : Seq(ChunkType)], NEW x
        PROVE  [k EXCEPT !.chunks = x] = [resend |-> k.resend, chunks |-> x]
    OBVIOUS
  <2>3. [e.construct EXCEPT !.chunks = Append(@, chunk)]
           = [resend |-> e.construct.resend,
              chunks |-> Append(e.construct.chunks, chunk)]
    BY <2>1, <2>2, Zenon
  <2>4. Enqueue(c, chunk)
          = [e EXCEPT !.construct = [e.construct EXCEPT !.chunks = Append(@, chunk)]]
    BY Zenon DEF Enqueue, e
  <2> QED BY <2>3, <2>4
<1> QED BY <1>2, <1>5, <1>6 DEF SameWindow

\* The chunks in the resend buffer may be sent again.
LEMMA ResendFirstGood ==
  ASSUME NEW n \in Nat, NEW d \in Nat, NEW c, Good(c, n, d), c.state # "OFFLINE"
  PROVE  LET r == ResendFirst(c) IN Good(r, n, d) /\ SameWindow(c, r)
<1>1. CASE CanQueue(c) /\ c.buffer # << >>
  <2>1. /\ c.buffer \in Seq(ChunkType) /\ Len(c.buffer) \in Nat \ {0}
        /\ DOMAIN c.buffer = 1 .. Len(c.buffer)
    BY <1>1, EmptySeq, LenProperties DEF Good, ConnType
  <2>2. c.buffer[1] \in ChunkType /\ IsNumbered(c.buffer[1], n)
    BY <2>1, ElementOfSeq DEF Good, ConnNumbered, AllNumbered, IsNumbered
  <2>3. ResendFirst(c) = Enqueue(c, c.buffer[1])
    BY <1>1 DEF ResendFirst
  <2> QED BY <2>2, <2>3, EnqueueGood
<1>2. CASE ~ (CanQueue(c) /\ c.buffer # << >>)
  BY <1>2 DEF ResendFirst, SameWindow
<1> QED BY <1>1, <1>2

LEMMA SignalResendGood ==
  ASSUME NEW n \in Nat, NEW d \in Nat, NEW c, Good(c, n, d)
  PROVE  LET r == SignalResend(c)
         IN  Good(r, n, d) /\ SameWindow(c, r) /\ r.out = c.out
BY DEF SignalResend, Good, ConnType, WithinCapacity, ConnNumbered, SameWindow

\* L chunks cut into full packets and a remainder of 1 .. PacketChunks chunks.
LEMMA PacketSlices ==
  ASSUME NEW L \in Nat \ {0}
  PROVE  LET full == (L - 1) \div PacketChunks
         IN  /\ full \in Nat /\ full * PacketChunks \in Nat
             /\ full * PacketChunks <= L - 1 /\ L - full * PacketChunks <= PacketChunks
             /\ \A i \in 1 .. full :
                  /\ i * PacketChunks \in Nat /\ i * PacketChunks <= L
                  /\ (i - 1) * PacketChunks + 1 \in Nat \ {0}
                  /\ i * PacketChunks - ((i - 1) * PacketChunks + 1) + 1 = PacketChunks
<1> DEFINE full == (L - 1) \div PacketChunks
           rem == (L - 1) % PacketChunks
<1>1. /\ full \in Nat /\ rem \in 0 .. PacketChunks - 1
      /\ L - 1 = PacketChunks * full + rem
  <2>1. L - 1 \in Nat /\ PacketChunks \in Nat \ {0}
    BY CapacityAssumption
  <2> QED BY <2>1, DivMod, Zenon
<1> HIDE DEF full, rem
<1>2. PacketChunks \in Nat /\ PacketChunks >= 1
  BY CapacityAssumption
<1>3. PacketChunks * full = full * PacketChunks /\ full * PacketChunks \in Nat
  BY <1>1, <1>2
<1>4. full * PacketChunks <= L - 1 /\ L - full * PacketChunks <= PacketChunks
  BY <1>1, <1>2, <1>3
<1>5. ASSUME NEW i \in 1 .. full
      PROVE  /\ i * PacketChunks \in Nat /\ i * PacketChunks <= full * PacketChunks
             /\ (i - 1) * PacketChunks \in Nat
             /\ i * PacketChunks = (i - 1) * PacketChunks + PacketChunks
  <2>1. /\ i \in Nat /\ i - 1 \in Nat /\ full - i \in Nat
    BY <1>1
  <2>2. /\ i * PacketChunks \in Nat /\ (i - 1) * PacketChunks \in Nat
        /\ (full - i) * PacketChunks \in Nat
    BY <1>2, <2>1, Z3
  <2>3. /\ i * PacketChunks = (i - 1) * PacketChunks + PacketChunks
        /\ full * PacketChunks = i * PacketChunks + (full - i) * PacketChunks
    BY <1>1, <1>2, <2>1, Z3
  <2> QED BY <1>3, <2>2, <2>3
<1>6. ASSUME NEW i \in 1 .. full
      PROVE  /\ i * PacketChunks \in Nat /\ i * PacketChunks <= L
             /\ (i - 1) * PacketChunks + 1 \in Nat \ {0}
             /\ i * PacketChunks - ((i - 1) * PacketChunks + 1) + 1 = PacketChunks
  <2> DEFINE x == i * PacketChunks
             y == (i - 1) * PacketChunks
             z == full * PacketChunks
  <2>1. x \in Nat /\ x <= z /\ y \in Nat /\ x = y + PacketChunks
    BY <1>5
  <2>2. z \in Nat /\ z <= L - 1
    BY <1>3, <1>4
  <2> HIDE DEF x, y, z
  <2>3. x \in Nat /\ x <= L /\ y + 1 \in Nat \ {0} /\ x - (y + 1) + 1 = PacketChunks
    BY <1>2, <2>1, <2>2
  <2> QED BY <2>3 DEF x, y
<1> QED BY <1>1, <1>3, <1>4, <1>6 DEF full

\* The packets Resend fills, and the chunks it leaves in the last one.
LEMMA ResendGood ==
  ASSUME NEW n \in Nat, NEW d \in Nat, NEW c, Good(c, n, d), c.state # "OFFLINE"
  PROVE  LET r == Resend(c) IN Good(r, n, d) /\ SameWindow(c, r)
<1>1. CASE ~ CanQueue(c) \/ c.buffer = << >>
  BY <1>1 DEF Resend, SameWindow
<1>2. CASE ~ (~ CanQueue(c) \/ c.buffer = << >>)
  <2> DEFINE all  == c.construct.chunks \o c.buffer
             full == (Len(all) - 1) \div PacketChunks
             slice(i) == SubSeq(all, (i - 1) * PacketChunks + 1, i * PacketChunks)
             flag(i) == i = 1 /\ c.construct.resend
             pkts == {Packet(c, c.peerAddr, "none", flag(i), slice(i), Unknown) : i \in 1 .. full}
             rest == SubSeq(all, full * PacketChunks + 1, Len(all))
             last == full = 0 /\ c.construct.resend
             s == [c EXCEPT !.out = @ \cup pkts]
             r == [s EXCEPT !.construct = [resend |-> last, chunks |-> rest]]
  <2>1. Resend(c) = r
    BY <1>2, Zenon DEF Resend
  <2>2. /\ all \in Seq(ChunkType) /\ AllNumbered(all, n)
        /\ Len(all) \in Nat \ {0}
    <3>1. /\ c.construct.chunks \in Seq(ChunkType) /\ AllNumbered(c.construct.chunks, n)
          /\ c.buffer \in Seq(ChunkType) /\ AllNumbered(c.buffer, n)
      BY DEF Good, ConnType, ConnNumbered
    <3>2. Len(c.buffer) \in Nat \ {0} /\ Len(c.construct.chunks) \in Nat
      BY <1>2, <3>1, EmptySeq, LenProperties
    <3>3. /\ all \in Seq(ChunkType) /\ AllNumbered(all, n)
          /\ Len(all) = Len(c.construct.chunks) + Len(c.buffer)
      BY <3>1, ConcatNumbered, Zenon
    <3>4. ASSUME NEW x \in Nat, NEW y \in Nat \ {0}
          PROVE  x + y \in Nat \ {0}
      OBVIOUS
    <3>5. Len(all) \in Nat \ {0}
      BY <3>2, <3>3, <3>4, Zenon
    <3> QED BY <3>3, <3>5, Zenon
  <2> HIDE DEF all
  <2>3. /\ full \in Nat /\ full * PacketChunks \in Nat
        /\ full * PacketChunks <= Len(all) - 1 /\ Len(all) - full * PacketChunks <= PacketChunks
        /\ \A i \in 1 .. full :
             /\ i * PacketChunks \in Nat /\ i * PacketChunks <= Len(all)
             /\ (i - 1) * PacketChunks + 1 \in Nat \ {0}
             /\ i * PacketChunks - ((i - 1) * PacketChunks + 1) + 1 = PacketChunks
    BY <2>2, PacketSlices, Zenon
  <2> HIDE DEF full
  <2>4. ASSUME NEW i \in 1 .. full
        PROVE  /\ slice(i) \in Seq(ChunkType) /\ AllNumbered(slice(i), n)
               /\ Len(slice(i)) <= PacketChunks
    <3> DEFINE x == (i - 1) * PacketChunks + 1
               y == i * PacketChunks
    <3>1. y \in Nat /\ y <= Len(all) /\ x \in Nat \ {0} /\ y - x + 1 = PacketChunks
      BY <2>3
    <3>2. slice(i) = SubSeq(all, x, y)
      OBVIOUS
    <3> HIDE DEF x, y, slice
    <3>3. /\ SubSeq(all, x, y) \in Seq(ChunkType) /\ AllNumbered(SubSeq(all, x, y), n)
          /\ Len(SubSeq(all, x, y)) = IF x <= y THEN y - x + 1 ELSE 0
      BY <2>2, <3>1, SubSeqNumbered
    <3> QED BY <3>1, <3>2, <3>3, CapacityAssumption
  <2>5. ASSUME NEW i \in 1 .. full
        PROVE  LET pkt == Packet(c, c.peerAddr, "none", flag(i), slice(i), Unknown)
               IN  /\ pkt \in PacketType /\ pkt.ack = Wire(d)
                   /\ AllNumbered(pkt.chunks, n) /\ Len(pkt.chunks) <= PacketChunks
    <3>1. slice(i) \in Seq(ChunkType) /\ AllNumbered(slice(i), n) /\ Len(slice(i)) <= PacketChunks
      BY <2>4
    <3>2. /\ c.peerAddr \in Peer \cup {NoAddr} /\ c.ack \in SeqNo
          /\ c.securityToken \in TokenType /\ c.ack = Wire(d) /\ c.sixup \in BOOLEAN
          /\ Unknown \in TokenType /\ c.construct.resend \in BOOLEAN
      BY EmptyChunks DEF Good, ConnType, ConnNumbered
    <3> HIDE DEF slice
    <3>3. flag(i) \in BOOLEAN
      OBVIOUS
    <3> HIDE DEF flag
    <3> QED BY <3>1, <3>2, <3>3 DEF Packet, PacketType
  <2> HIDE DEF slice, flag
  <2>6. Good(s, n, d) /\ SameWindow(c, s)
    <3>1. /\ pkts \in SUBSET PacketType
          /\ \A pkt \in pkts : /\ pkt.ack = Wire(d) /\ AllNumbered(pkt.chunks, n)
                               /\ Len(pkt.chunks) <= PacketChunks
      BY <2>5
    <3> HIDE DEF pkts
    <3> QED BY <3>1, SendGood
  <2> HIDE DEF s
  <2>7. last \in BOOLEAN
    OBVIOUS
  <2>8. rest \in Seq(ChunkType) /\ AllNumbered(rest, n) /\ Len(rest) <= PacketChunks
    <3> DEFINE x == full * PacketChunks
    <3>1. x \in Nat /\ x <= Len(all) - 1 /\ Len(all) - x <= PacketChunks
      BY <2>3
    <3>2. rest = SubSeq(all, x + 1, Len(all))
      OBVIOUS
    <3> HIDE DEF x, rest
    <3>3. /\ SubSeq(all, x + 1, Len(all)) \in Seq(ChunkType)
          /\ AllNumbered(SubSeq(all, x + 1, Len(all)), n)
          /\ Len(SubSeq(all, x + 1, Len(all)))
               = IF x + 1 <= Len(all) THEN Len(all) - (x + 1) + 1 ELSE 0
      BY <2>2, <3>1, SubSeqNumbered
    <3> QED BY <2>2, <3>1, <3>2, <3>3, CapacityAssumption
  <2> HIDE DEF rest, last
  <2>9. Good(r, n, d) /\ SameWindow(s, r)
    BY <2>6, <2>7, <2>8, ConstructGood
  <2> QED BY <2>1, <2>6, <2>9 DEF SameWindow
<1> QED BY <1>1, <1>2

\* m_ResendRequested is none of Good's business.
LEMMA ResendRequestedGood ==
  ASSUME NEW n \in Nat, NEW d \in Nat, NEW c, Good(c, n, d), NEW requested \in BOOLEAN
  PROVE  LET r == [c EXCEPT !.resendRequested = requested]
         IN  Good(r, n, d) /\ SameWindow(c, r)
BY DEF Good, ConnType, WithinCapacity, ConnNumbered, SameWindow

LEMMA AnswerResendRequestGood ==
  ASSUME NEW n \in Nat, NEW d \in Nat, NEW c, Good(c, n, d), c.state # "OFFLINE", NEW due
  PROVE  LET r == AnswerResendRequest(c, due) IN Good(r, n, d) /\ SameWindow(c, r)
<1> DEFINE s == [c EXCEPT !.resendRequested = FALSE]
<1>1. Good(s, n, d) /\ SameWindow(c, s)
  BY ResendRequestedGood
<1>2. s.state # "OFFLINE"
  BY <1>1 DEF SameWindow
<1> HIDE DEF s
<1>3. Good(Resend(s), n, d) /\ SameWindow(s, Resend(s))
  BY <1>1, <1>2, ResendGood
<1>4. AnswerResendRequest(c, due) = IF c.resendRequested /\ "answer" \in due THEN Resend(s) ELSE c
  BY Zenon DEF AnswerResendRequest, s
<1> QED BY <1>1, <1>3, <1>4 DEF SameWindow

-----------------------------------------------------------------------------
(* The loops of AckChunks and UnpackNextChunk stop somewhere                *)

LEMMA NumAckedStops ==
  ASSUME NEW buffer \in Seq(ChunkType), NEW ack \in SeqNo
  PROVE  LET n == NumAcked(buffer, ack)
         IN  /\ n \in 0 .. Len(buffer)
             /\ \A i \in 1 .. n : IsSeqInBackroom(buffer[i].seq, ack)
             /\ n < Len(buffer) => ~ IsSeqInBackroom(buffer[n + 1].seq, ack)
<1> DEFINE old(i) == IsSeqInBackroom(buffer[i].seq, ack)
           stops == {k \in 0 .. Len(buffer) : k < Len(buffer) => ~ old(k + 1)}
<1>1. Len(buffer) \in Nat
  BY LenProperties
<1> HIDE DEF old
<1>2. PICK n \in stops : \A k \in stops : n <= k
  <2>1. Len(buffer) \in stops /\ stops \in SUBSET Nat
    BY <1>1
  <2> QED BY <2>1, SmallestNumber
<1>3. ASSUME NEW i \in 1 .. n PROVE old(i)
  <2>1. i - 1 \in 0 .. Len(buffer) /\ i - 1 < Len(buffer) /\ ~ (n <= i - 1)
    BY <1>1, <1>2
  <2>2. i - 1 \notin stops
    BY <1>2, <2>1
  <2>3. (i - 1) + 1 = i
    OBVIOUS
  <2> QED BY <2>1, <2>2, <2>3
<1>4. \E k \in 0 .. Len(buffer) :
        /\ \A i \in 1 .. k : old(i)
        /\ k < Len(buffer) => ~ old(k + 1)
  BY <1>2, <1>3
<1> QED BY <1>4, Zenon DEF NumAcked, old

LEMMA NextTakenStops ==
  ASSUME NEW c, NEW chunks \in Seq(ChunkType)
  PROVE  LET n == NextTaken(c, chunks)
         IN  /\ n \in 1 .. Len(chunks) + 1
             /\ n <= Len(chunks) => IsTaken(c, chunks[n])
<1> DEFINE taken(i) == IsTaken(c, chunks[i])
           stops == {k \in 1 .. Len(chunks) + 1 : k <= Len(chunks) => taken(k)}
<1>1. Len(chunks) \in Nat
  BY LenProperties
<1> HIDE DEF taken
<1>2. PICK n \in stops : \A k \in stops : n <= k
  <2>1. Len(chunks) + 1 \in stops /\ stops \in SUBSET Nat
    BY <1>1
  <2> QED BY <2>1, SmallestNumber
<1>3. ASSUME NEW i \in 1 .. n - 1 PROVE ~ taken(i)
  <2>1. i \in 1 .. Len(chunks) + 1 /\ ~ (n <= i)
    BY <1>1, <1>2
  <2> QED BY <1>2, <2>1
<1>4. \E k \in 1 .. Len(chunks) + 1 :
        /\ \A i \in 1 .. k - 1 : ~ taken(i)
        /\ k <= Len(chunks) => taken(k)
  BY <1>2, <1>3
<1> QED BY <1>4, Zenon DEF NextTaken, taken

-----------------------------------------------------------------------------
(* The entry points of a connection                                         *)

\* A chunk is kept for a resend.
LEMMA SaveGood ==
  ASSUME NEW n \in Nat, NEW d \in Nat, NEW c, Good(c, n, d),
         NEW chunk \in ChunkType, IsNumbered(chunk, n), Len(c.buffer) < BufferChunks
  PROVE  Good([c EXCEPT !.buffer = Append(@, chunk)], n, d)
<1>1. c.buffer \in Seq(ChunkType) /\ AllNumbered(c.buffer, n) /\ Len(c.buffer) \in Nat
  BY LenProperties DEF Good, ConnType, ConnNumbered
<1>2. /\ Append(c.buffer, chunk) \in Seq(ChunkType)
      /\ AllNumbered(Append(c.buffer, chunk), n)
      /\ Len(Append(c.buffer, chunk)) <= BufferChunks
  BY <1>1, AppendNumbered, CapacityAssumption
<1>3. ASSUME NEW b \in Seq(ChunkType), AllNumbered(b, n), Len(b) <= BufferChunks
      PROVE  Good([c EXCEPT !.buffer = b], n, d)
  BY <1>3 DEF Good, ConnType, WithinCapacity, ConnNumbered
<1> QED BY <1>2, <1>3

\* The next number for the next message.
LEMMA CountGood ==
  ASSUME NEW n \in Nat, NEW d \in Nat, NEW c, Good(c, n, d), c.state = "ONLINE"
  PROVE  LET r == [c EXCEPT !.sequence = NextSeq(@)]
         IN  Good(r, n + 1, d) /\ r.sequence = Wire(n + 1)
<1>1. c.sequence = Wire(n) /\ NextSeq(c.sequence) = Wire(n + 1) /\ Wire(n + 1) \in SeqNo
  BY NextSeqWire, WireType DEF Good, ConnNumbered
<1>2. \A s : AllNumbered(s, n) => AllNumbered(s, n + 1)
  BY StillNumbered
<1>3. n + 1 \in Nat
  OBVIOUS
<1>4. ASSUME NEW q \in SeqNo, NEW m \in Nat, q = Wire(m),
             \A s : AllNumbered(s, n) => AllNumbered(s, m)
      PROVE  Good([c EXCEPT !.sequence = q], m, d) /\ [c EXCEPT !.sequence = q].sequence = q
  BY <1>4 DEF Good, ConnType, WithinCapacity, ConnNumbered
<1> QED BY <1>1, <1>2, <1>3, <1>4

\* r is c with one more message, the (n + 1)-th if it is vital, which is saved
\* for a resend if there is room.
Queued(c, r, vital, n) ==
  /\ r.state = c.state /\ r.peerAck = c.peerAck
  /\ vital /\ Len(c.buffer) < BufferChunks =>
       r.buffer = Append(c.buffer, Chunk(TRUE, Wire(n + 1), n + 1))
  /\ ~ (vital /\ Len(c.buffer) < BufferChunks) => r.buffer = c.buffer

\* QueueChunk on an open connection.
LEMMA QueueChunkGood ==
  ASSUME NEW n \in Nat, NEW d \in Nat, NEW c, Good(c, n, d), c.state = "ONLINE",
         NEW vital \in BOOLEAN, NEW m, m = (IF vital THEN n + 1 ELSE n),
         NEW msg, msg = (IF vital THEN n + 1 ELSE 0),
         NEW r, r = QueueChunk(c, vital, msg)
  PROVE  Good(r, m, d) /\ Queued(c, r, vital, n)
<1> DEFINE s == IF vital THEN [c EXCEPT !.sequence = NextSeq(@)] ELSE c
           chunk == Chunk(vital, s.sequence, msg)
           e == Enqueue(s, chunk)
           saved == vital /\ Len(c.buffer) < BufferChunks
           f == [e EXCEPT !.buffer = Append(@, chunk)]
<1>1. m \in Nat /\ msg \in Nat /\ (vital => msg = n + 1 /\ m = n + 1 /\ msg \in 1 .. m)
  OBVIOUS
<1>2. /\ Good(s, m, d) /\ s.state = c.state /\ s.peerAck = c.peerAck
      /\ s.buffer = c.buffer /\ s.sequence \in SeqNo
      /\ vital => s.sequence = Wire(n + 1)
  <2>1. CASE vital
    <3>1. /\ [c EXCEPT !.sequence = NextSeq(@)].state = c.state
          /\ [c EXCEPT !.sequence = NextSeq(@)].peerAck = c.peerAck
          /\ [c EXCEPT !.sequence = NextSeq(@)].buffer = c.buffer
      BY DEF Good, ConnType
    <3>2. n + 1 \in Nat
      OBVIOUS
    <3> QED BY <2>1, <3>1, <3>2, CountGood, WireType
  <2>2. CASE ~ vital
    BY <2>2 DEF Good, ConnType
  <2> QED BY <2>1, <2>2
<1> HIDE DEF s
<1>3. /\ chunk \in ChunkType /\ IsNumbered(chunk, m)
      /\ vital => chunk = Chunk(TRUE, Wire(n + 1), n + 1)
  BY <1>1, <1>2 DEF Chunk, ChunkType, IsNumbered
<1> HIDE DEF chunk
<1>4. Good(e, m, d) /\ SameWindow(s, e)
  BY <1>1, <1>2, <1>3, EnqueueGood
<1> HIDE DEF e
<1>5. CanQueue(s)
  BY <1>2 DEF CanQueue
<1>6. r = QueueChunkEx(s, chunk)
  BY Zenon DEF QueueChunk, s, chunk
<1>7. chunk.vital = vital
  BY DEF chunk, Chunk
<1>8. QueueChunkEx(s, chunk) = IF saved THEN f ELSE e
  <2>1. QueueChunkEx(s, chunk)
          = IF chunk.vital /\ Len(s.buffer) < BufferChunks THEN f ELSE e
    <3>1. e.buffer = s.buffer
      BY <1>4 DEF SameWindow
    <3> QED BY <1>5, <1>4, <3>1 DEF QueueChunkEx, e, SameWindow
  <2> QED BY <1>2, <1>7, <2>1
<1>9. CASE saved
  <2>1. Len(e.buffer) < BufferChunks /\ e.buffer = c.buffer
    BY <1>2, <1>4, <1>9 DEF SameWindow
  <2>2. Good(f, m, d)
    BY <1>1, <1>3, <1>4, <2>1, SaveGood
  <2>3. f.buffer = Append(c.buffer, chunk) /\ f.state = e.state /\ f.peerAck = e.peerAck
    BY <1>4, <2>1 DEF Good, ConnType
  <2> QED BY <1>2, <1>3, <1>4, <1>6, <1>8, <1>9, <2>2, <2>3 DEF SameWindow, Queued
<1>10. CASE ~ saved
  BY <1>2, <1>4, <1>6, <1>8, <1>10 DEF SameWindow, Queued
<1> QED BY <1>9, <1>10

\* Update leaves the window of a connection that stays ONLINE alone.
LEMMA UpdateGood ==
  ASSUME NEW n \in Nat, NEW d \in Nat, NEW c, Good(c, n, d), NEW due
  PROVE  LET r == Update(c, due)
         IN  Good(r, n, d) /\ (r.state = "ONLINE" => SameWindow(c, r))
<1> DEFINE b == [c EXCEPT !.timeoutSituation = FALSE]
           a == AnswerResendRequest(b, due)
           e == IF a.state # "CONNECT" /\ "timeout" \in due
                THEN [a EXCEPT !.state = "ERROR", !.timeoutSituation = TRUE] ELSE a
           f == UpdateResends(e, due)
           g == UpdateSends(f, due)
<1>1. c.state \in {"OFFLINE", "ONLINE", "ERROR"}
  BY DEF Good, ConnType
<1>2. Good(b, n, d) /\ SameWindow(c, b)
  BY DEF Good, ConnType, WithinCapacity, ConnNumbered, SameWindow
<1>3. ASSUME NEW x, Good(x, n, d), x.state # "OFFLINE"
      PROVE  LET y == [x EXCEPT !.state = "ERROR", !.timeoutSituation = TRUE]
             IN  Good(y, n, d) /\ y.state = "ERROR"
  BY <1>3 DEF Good, ConnType, WithinCapacity, ConnNumbered
<1>4. CASE c.state \in {"OFFLINE", "ERROR"}
  <2>1. Update(c, due) = IF c.state = "ERROR" /\ "protection" \in due THEN b ELSE c
    BY <1>4, Zenon DEF Update
  <2> QED BY <1>2, <2>1 DEF SameWindow
<1>5. CASE c.state = "ONLINE"
  <2>1. Update(c, due) = g
    <3>1. c.state \notin {"OFFLINE", "ERROR"}
      BY <1>5
    <3> QED BY <3>1, Zenon DEF Update
  <2>2. b.state = "ONLINE"
    BY <1>2, <1>5 DEF SameWindow
  <2> HIDE DEF b
  <2>3. Good(a, n, d) /\ SameWindow(b, a)
    BY <1>2, <2>2, AnswerResendRequestGood
  <2> HIDE DEF a
  <2>4. /\ Good(e, n, d) /\ e.state # "OFFLINE"
        /\ e.state = "ONLINE" => SameWindow(c, e)
    <3>1. a.state = "ONLINE" /\ SameWindow(c, a)
      BY <1>2, <2>2, <2>3 DEF SameWindow
    <3> QED BY <1>3, <2>3, <3>1
  <2> HIDE DEF e
  <2>5. /\ Good(f, n, d) /\ f.state # "OFFLINE"
        /\ f.state = "ONLINE" => SameWindow(e, f) /\ e.state = "ONLINE"
    <3>1. /\ Good(ResendFirst(e), n, d) /\ SameWindow(e, ResendFirst(e))
      BY <2>4, ResendFirstGood
    <3>2. Good([e EXCEPT !.state = "ERROR", !.timeoutSituation = TRUE], n, d)
           /\ [e EXCEPT !.state = "ERROR", !.timeoutSituation = TRUE].state = "ERROR"
      BY <1>3, <2>4
    <3>3. \/ f = e
          \/ f = [e EXCEPT !.state = "ERROR", !.timeoutSituation = TRUE]
          \/ f = ResendFirst(e)
      BY Zenon DEF UpdateResends
    <3> HIDE DEF f
    <3> QED BY <2>4, <3>1, <3>2, <3>3 DEF SameWindow
  <2> HIDE DEF f
  <2>6. Good(g, n, d) /\ SameWindow(f, g)
    <3>1. CASE f.state = "ONLINE"
      <4> DEFINE h == Flush(f)
      <4>1. Good(h, n, d) /\ SameWindow(f, h) /\ h.state # "OFFLINE"
        BY <2>5, <3>1, FlushGood DEF SameWindow
      <4>2. Good(SendControl(f, "keepalive", Unknown), n, d)
             /\ SameWindow(f, SendControl(f, "keepalive", Unknown))
        BY <2>5, SendControlGood
      <4>3. g = f \/ g = h \/ g = SendControl(f, "keepalive", Unknown)
        BY <3>1 DEF UpdateSends
      <4> HIDE DEF h
      <4> QED BY <2>5, <4>1, <4>2, <4>3 DEF SameWindow
    <3>2. CASE f.state = "ERROR"
      <4>1. g = f
        BY <3>2 DEF UpdateSends
      <4> QED BY <2>5, <4>1 DEF SameWindow
    <3> QED BY <2>5, <3>1, <3>2 DEF Good, ConnType
  <2> QED BY <2>1, <2>4, <2>5, <2>6 DEF SameWindow
<1> QED BY <1>1, <1>4, <1>5

\* Disconnect closes the connection, whatever its state.
LEMMA DisconnectGood ==
  ASSUME NEW n \in Nat, NEW d \in Nat, NEW c, Good(c, n, d)
  PROVE  Good(Disconnect(c), n, d) /\ Disconnect(c).state = "OFFLINE"
<1>1. ASSUME NEW x, Good(x, n, d)
      PROVE  Good(Reset(x), n, d) /\ Reset(x).state = "OFFLINE"
  <2>1. /\ 0 \in SeqNo /\ FALSE \in BOOLEAN /\ {} \in SUBSET Peer
        /\ x.peerAddr \in Peer \cup {NoAddr} /\ x.out \in SUBSET PacketType
    BY <1>1, MaxSequenceAssumption DEF Good, ConnType, SeqNo
  <2>2. /\ Unknown \in TokenType
        /\ << >> \in Seq(ChunkType) /\ AllNumbered(<< >>, n)
        /\ Len(<< >>) <= PacketChunks /\ Len(<< >>) <= BufferChunks
    BY EmptyChunks
  <2>3. EmptyConstruct \in [resend : BOOLEAN, chunks : Seq(ChunkType)]
    BY <2>2 DEF EmptyConstruct
  <2>4. Reset(x) \in ConnType
    BY <2>1, <2>2, <2>3 DEF Reset, ResetConn, ConnType
  <2>5. /\ Reset(x).state = "OFFLINE" /\ Reset(x).buffer = << >>
        /\ Reset(x).construct.chunks = << >> /\ Reset(x).out = x.out
    BY DEF Reset, ResetConn, EmptyConstruct
  <2>6. \A pkt \in x.out : /\ Len(pkt.chunks) <= PacketChunks
                           /\ pkt.ack = Wire(d) /\ AllNumbered(pkt.chunks, n)
    BY <1>1 DEF Good, WithinCapacity, ConnNumbered
  <2> QED BY <2>2, <2>4, <2>5, <2>6 DEF Good, WithinCapacity, ConnNumbered
<1>2. CASE c.state = "OFFLINE"
  BY <1>2 DEF Disconnect
<1>3. CASE c.state # "OFFLINE"
  <2>1. Good(SendControl(c, "close", Unknown), n, d)
    BY <1>3, SendControlGood
  <2>2. \/ Disconnect(c) = Reset(c)
        \/ Disconnect(c) = Reset(SendControl(c, "close", Unknown))
    BY <1>3, Zenon DEF Disconnect
  <2> QED BY <1>1, <2>1, <2>2
<1> QED BY <1>2, <1>3

\* Popping acknowledged chunks.
LEMMA AckChunksGood ==
  ASSUME NEW n \in Nat, NEW d \in Nat, NEW c, Good(c, n, d), NEW ack \in SeqNo
  PROVE  LET r == AckChunks(c, ack)
         IN  /\ Good(r, n, d) /\ r.state = c.state /\ r.peerAck = c.peerAck
             /\ r.buffer = SubSeq(c.buffer, NumAcked(c.buffer, ack) + 1, Len(c.buffer))
<1> DEFINE k == NumAcked(c.buffer, ack)
           b == SubSeq(c.buffer, k + 1, Len(c.buffer))
<1>1. /\ c.buffer \in Seq(ChunkType) /\ AllNumbered(c.buffer, n)
      /\ Len(c.buffer) \in Nat /\ Len(c.buffer) <= BufferChunks
  BY LenProperties DEF Good, ConnType, ConnNumbered, WithinCapacity
<1>2. k \in 0 .. Len(c.buffer)
  BY <1>1, NumAckedStops, Zenon
<1> HIDE DEF k
<1>3. b \in Seq(ChunkType) /\ AllNumbered(b, n) /\ Len(b) <= BufferChunks
  <2>1. k + 1 \in Nat \ {0} /\ Len(c.buffer) <= Len(c.buffer)
    BY <1>1, <1>2
  <2>2. /\ b \in Seq(ChunkType) /\ AllNumbered(b, n)
        /\ Len(b) = IF k + 1 <= Len(c.buffer) THEN Len(c.buffer) - (k + 1) + 1 ELSE 0
    BY <1>1, <2>1, SubSeqNumbered
  <2> HIDE DEF b
  <2> QED BY <1>1, <1>2, <2>2, CapacityAssumption
<1>4. AckChunks(c, ack) = [c EXCEPT !.buffer = b]
  BY Zenon DEF AckChunks, k
<1> HIDE DEF b
<1>5. LET r == [c EXCEPT !.buffer = b]
      IN  /\ Good(r, n, d) /\ r.state = c.state /\ r.peerAck = c.peerAck /\ r.buffer = b
  BY <1>3 DEF Good, ConnType, WithinCapacity, ConnNumbered
<1> QED BY <1>4, <1>5 DEF b, k

\* Feed: a packet that is not accepted changes nothing; an accepted one moves
\* m_PeerAck and pops what it acknowledges, or ends the connection.
LEMMA FeedGood ==
  ASSUME NEW n \in Nat, NEW d \in Nat, NEW c, Good(c, n, d), c.state = "ONLINE",
         NEW from, NEW pkt \in PacketType, NEW due
  PROVE  LET r == Feed(c, from, pkt, due)
         IN  /\ Good(r, n, d) /\ r.state \in {"ONLINE", "ERROR"}
             /\ ~ Accepts(c, from, pkt) => r = c
             /\ Accepts(c, from, pkt) /\ r.state = "ONLINE" =>
                  /\ r.peerAck = pkt.ack
                  /\ r.buffer = SubSeq(c.buffer, NumAcked(c.buffer, pkt.ack) + 1, Len(c.buffer))
<1> DEFINE b == [c EXCEPT !.peerAck = pkt.ack, !.resendRequested = @ \/ pkt.resend]
           a == AnswerResendRequest(b, due)
           r == AckChunks(a, pkt.ack)
           x == [a EXCEPT !.state = "ERROR", !.remoteClosed = TRUE]
<1>1. pkt.ack \in SeqNo /\ pkt.resend \in BOOLEAN /\ pkt.ctrl \in {"none", "keepalive", "close"}
  BY DEF PacketType
<1>2. Good(b, n, d) /\ b.state = "ONLINE" /\ b.peerAck = pkt.ack /\ b.buffer = c.buffer
  BY <1>1 DEF Good, ConnType, WithinCapacity, ConnNumbered
<1> HIDE DEF b
<1>3. Good(a, n, d) /\ SameWindow(b, a) /\ a.state = "ONLINE"
  BY <1>2, AnswerResendRequestGood DEF SameWindow
<1> HIDE DEF a
<1>4. FeedControl(a, from, pkt) = a
  <2>1. /\ ~ (pkt.ctrl = "token" /\ a.sixup /\ a.state = "WANT_TOKEN")
        /\ ~ (pkt.ctrl = "connectaccept" /\ a.state = "CONNECT")
        /\ ~ (pkt.ctrl = "none" /\ a.state = "PENDING")
    BY <1>3
  <2> QED BY <2>1, Zenon DEF FeedControl
<1>5. Good(x, n, d) /\ x.state = "ERROR"
  BY <1>3 DEF Good, ConnType, WithinCapacity, ConnNumbered
<1>6. /\ Good(r, n, d) /\ r.state = a.state /\ r.peerAck = a.peerAck
      /\ r.buffer = SubSeq(a.buffer, NumAcked(a.buffer, pkt.ack) + 1, Len(a.buffer))
  BY <1>1, <1>3, AckChunksGood
<1>7. CASE ~ Accepts(c, from, pkt)
  BY <1>7 DEF Feed
<1>8. CASE Accepts(c, from, pkt)
  <2>1. Feed(c, from, pkt, due) = IF pkt.ctrl = "close" THEN x ELSE r
    <3>1. Feed(c, from, pkt, due)
            = IF pkt.ctrl = "close" THEN x
              ELSE IF FeedControl(a, from, pkt).state = "ONLINE"
                   THEN AckChunks(FeedControl(a, from, pkt), pkt.ack)
                   ELSE FeedControl(a, from, pkt)
      BY <1>8, Zenon DEF Feed, a, b
    <3> QED BY <3>1, <1>3, <1>4
  <2> HIDE DEF r, x
  <2> QED BY <1>2, <1>3, <1>5, <1>6, <1>8, <2>1 DEF SameWindow
<1> QED BY <1>7, <1>8

\* r is c after the unpacker has stopped at chunk k: nothing of the window has
\* changed, and a vital chunk has the number after that of message d.
Unpacked(c, r, k, chunks, d) ==
  /\ SameWindow(c, r) /\ r.out = {}
  /\ c.state # "OFFLINE" /\ k <= Len(chunks) /\ chunks[k].vital =>
       chunks[k].seq = Wire(d + 1)

\* UnpackNextChunk: only the chunk with the next number, when it is vital, and
\* m_Ack moves on to it.
LEMMA UnpackNextChunkGood ==
  ASSUME NEW n \in Nat, NEW d \in Nat, NEW c, Good(c, n, d), c.out = {},
         NEW chunks \in Seq(ChunkType),
         NEW k, k = NextTaken(c, chunks), NEW r, r = UnpackNextChunk(c, chunks)
  PROVE  /\ Unpacked(c, r, k, chunks, d)
         /\ c.state = "OFFLINE" \/ ~ (k <= Len(chunks) /\ chunks[k].vital) => Good(r, n, d)
         /\ c.state # "OFFLINE" /\ k <= Len(chunks) /\ chunks[k].vital => Good(r, n, d + 1)
<1> DEFINE given == k <= Len(chunks) /\ chunks[k].vital
           s == IF AsksForResend(c, chunks, k) THEN SignalResend(c) ELSE c
           t == [s EXCEPT !.ack = chunks[k].seq, !.unknownSeq = FALSE]
<1>1. k \in 1 .. Len(chunks) + 1 /\ (k <= Len(chunks) => IsTaken(c, chunks[k]))
  BY NextTakenStops, Zenon
<1>2. /\ Good(s, n, d) /\ SameWindow(c, s) /\ s.out = {}
  BY SignalResendGood DEF SameWindow
<1> HIDE DEF s
<1>3. r = IF given THEN t ELSE s
  BY Zenon DEF UnpackNextChunk, s
<1>4. CASE ~ given
  BY <1>2, <1>3, <1>4 DEF Unpacked
<1>5. CASE given
  <2>1. k \in 1 .. Len(chunks) /\ chunks[k] \in ChunkType
    <3>1. Len(chunks) \in Nat
      BY LenProperties
    <3>2. k \in 1 .. Len(chunks)
      BY <1>1, <1>5, <3>1
    <3> QED BY <3>2, ElementOfSeq
  <2>2. chunks[k].seq \in SeqNo
    BY <2>1 DEF ChunkType
  <2>3. c.state # "OFFLINE" => chunks[k].seq = Wire(d + 1)
    BY <1>1, <1>5, NextSeqWire DEF IsTaken, Good, ConnNumbered
  <2>4. ASSUME NEW q \in SeqNo, NEW e \in Nat, s.state # "OFFLINE" => q = Wire(e)
        PROVE  LET y == [s EXCEPT !.ack = q, !.unknownSeq = FALSE]
               IN  Good(y, n, e) /\ SameWindow(s, y) /\ y.out = {}
    BY <1>2, <2>4 DEF Good, ConnType, WithinCapacity, ConnNumbered, SameWindow
  <2>5. SameWindow(s, t) /\ t.out = {} /\ (c.state # "OFFLINE" => Good(t, n, d + 1))
    <3>1. d + 1 \in Nat /\ s.state = c.state
      BY <1>2 DEF SameWindow
    <3>2. c.state # "OFFLINE" => Good(t, n, d + 1)
      BY <2>2, <2>3, <2>4, <3>1
    <3>3. SameWindow(s, t) /\ t.out = {}
      BY <1>2, <2>2 DEF Good, ConnType, SameWindow
    <3> QED BY <3>2, <3>3
  <2>6. c.state = "OFFLINE" => Good(t, n, d)
    <3>1. s.state = c.state
      BY <1>2 DEF SameWindow
    <3>2. ASSUME c.state = "OFFLINE" PROVE Good(t, n, d)
      BY <2>2, <2>4, <3>1, <3>2
    <3> QED BY <3>2
  <2>7. SameWindow(c, t)
    BY <1>2, <2>5 DEF SameWindow
  <2> HIDE DEF t
  <2> QED BY <1>3, <1>5, <2>3, <2>5, <2>6, <2>7 DEF Unpacked
<1> QED BY <1>4, <1>5
-----------------------------------------------------------------------------
(* The steps of the two connections and the network.                        *)

\* In a state of the invariant, the two connections are Good.
LEMMA GoodConn ==
  ASSUME TypeOK, Numbering, NEW p \in Peer
  PROVE  /\ Good(conn[p], sent[p], Len(recv[p])) /\ conn[p].out = {}
         /\ sent[p] \in Nat /\ Len(recv[p]) \in Nat
         /\ recv[p] \in Seq(Nat) /\ unpack[p] \in Seq(ChunkType)
         /\ Len(conn[p].buffer) \in Nat /\ Len(conn[p].buffer) <= BufferChunks
<1>1. recv[p] \in Seq(Nat) /\ conn[p] \in ConnType
  BY DEF TypeOK
<1>2. Len(recv[p]) \in Nat /\ Len(conn[p].buffer) \in Nat
  BY <1>1, LenProperties DEF ConnType
<1> QED BY <1>1, <1>2 DEF TypeOK, Numbering, Good, WithinCapacity

\* What Transmit does to the connections and to the network.
LEMMA TransmitStep ==
  ASSUME TypeOK, Numbering, NEW p \in Peer, NEW c,
         Transmit(p, c), Good(c, sent'[p], Len(recv[p])),
         sent' \in [Peer -> Nat], \A q \in Peer : sent[q] <= sent'[q],
         \A q \in Peer : q # p => sent'[q] = sent[q],
         recv' = recv, overrun' \in [Peer -> BOOLEAN],
         unpack' \in [Peer -> Seq(ChunkType)],
         \A q \in Peer : AllNumbered(unpack'[q], sent'[Other(q)])
  PROVE  /\ TypeOK' /\ Numbering'
         /\ SameWindow(c, conn'[p])
         /\ \A q \in Peer : q # p => conn'[q] = conn[q]
<1> DEFINE r == [c EXCEPT !.out = {}]
           all == {m \in net \cup InFlight(p, c.out) : Fresh(m, sent')}
<1>1. /\ conn' = [conn EXCEPT ![p] = r] /\ net' \subseteq all
  BY Zenon DEF Transmit
<1>2. /\ Good(r, sent'[p], Len(recv[p])) /\ r.out = {} /\ SameWindow(c, r)
  BY DEF Good, ConnType, WithinCapacity, ConnNumbered, SameWindow
<1> HIDE DEF r
<1>3. /\ conn' \in [Peer -> ConnType] /\ conn'[p] = r
      /\ \A q \in Peer : q # p => conn'[q] = conn[q]
  BY <1>1, <1>2 DEF TypeOK, Good
<1>4. \A q \in Peer : /\ Good(conn'[q], sent'[q], Len(recv'[q]))
                      /\ conn'[q].out = {}
  BY <1>2, <1>3, GoodConn
<1>5. ASSUME NEW m \in net'
      PROVE  /\ m \in [from : Peer, rcvd : Nat, pkt : PacketType]
             /\ Len(m.pkt.chunks) <= PacketChunks
             /\ AllNumbered(m.pkt.chunks, sent'[m.from])
             /\ m.pkt.ack = Wire(m.rcvd) /\ m.rcvd <= Len(recv'[m.from])
             /\ Fresh(m, sent')
  <2>1. Fresh(m, sent') /\ (m \in net \/ m \in InFlight(p, c.out))
    BY <1>1
  <2>2. CASE m \in net
    <3>1. /\ m \in [from : Peer, rcvd : Nat, pkt : PacketType]
          /\ Len(m.pkt.chunks) <= PacketChunks
          /\ AllNumbered(m.pkt.chunks, sent[m.from])
          /\ m.pkt.ack = Wire(m.rcvd) /\ m.rcvd <= Len(recv[m.from])
      BY <2>2 DEF TypeOK, Numbering
    <3>2. AllNumbered(m.pkt.chunks, sent'[m.from])
      BY <3>1, StillNumbered DEF TypeOK
    <3> QED BY <2>1, <3>1, <3>2
  <2>3. CASE m \in InFlight(p, c.out)
    <3>1. PICK pkt \in c.out : m = [from |-> p, rcvd |-> Len(recv[p]), pkt |-> pkt]
      BY <2>3 DEF InFlight
    <3>2. /\ pkt \in PacketType /\ Len(pkt.chunks) <= PacketChunks
          /\ AllNumbered(pkt.chunks, sent'[p]) /\ pkt.ack = Wire(Len(recv[p]))
      BY DEF Good, ConnType, WithinCapacity, ConnNumbered
    <3>3. m.from = p /\ m.rcvd = Len(recv[p]) /\ m.pkt = pkt /\ Len(recv[p]) \in Nat
      BY <3>1, GoodConn
    <3>4. m \in [from : Peer, rcvd : Nat, pkt : PacketType]
      BY <3>1, <3>2, <3>3
    <3> QED BY <2>1, <3>2, <3>3, <3>4
  <2> QED BY <2>1, <2>2, <2>3
<1>6. TypeOK'
  <2>1. recv' \in [Peer -> Seq(Nat)]
    BY DEF TypeOK
  <2>2. \A q \in Peer : conn'[q].out = {} /\ WithinCapacity(conn'[q])
    BY <1>4 DEF Good
  <2> QED BY <1>3, <1>5, <2>1, <2>2 DEF TypeOK
<1>7. Numbering'
  <2>1. \A q \in Peer : ConnNumbered(conn'[q], sent'[q], Len(recv'[q]))
    BY <1>4 DEF Good
  <2> QED BY <1>5, <2>1 DEF Numbering
<1> QED BY <1>2, <1>3, <1>6, <1>7

\* A step that leaves the window of every connection that stays ONLINE alone
\* keeps Window; delivering more does no harm.
LEMMA WindowKept ==
  ASSUME TypeOK, TypeOK', Window, sent' = sent, overrun' = overrun,
         \A q \in Peer : Len(recv[q]) <= Len(recv'[q]),
         \A q \in Peer : conn'[q].state = "ONLINE" => SameWindow(conn[q], conn'[q])
  PROVE  Window'
<1> SUFFICES ASSUME NEW q \in Peer, ~ overrun'[q]
             PROVE  /\ sent'[q] - Len(recv'[Other(q)]) <= BufferChunks
                    /\ conn'[q].state = "ONLINE" =>
                         /\ IsWindow(conn'[q], sent'[q], sent'[q] - Len(conn'[q].buffer))
                         /\ sent'[q] - Len(conn'[q].buffer) <= Len(recv'[Other(q)])
  BY DEF Window
<1>1. /\ Other(q) \in Peer /\ sent[q] \in Nat /\ Len(recv[Other(q)]) \in Nat
      /\ Len(recv'[Other(q)]) \in Nat /\ Len(recv[Other(q)]) <= Len(recv'[Other(q)])
  BY OtherPeer, LenProperties DEF TypeOK
<1>2. /\ sent[q] - Len(recv[Other(q)]) <= BufferChunks
      /\ conn[q].state = "ONLINE" =>
           /\ IsWindow(conn[q], sent[q], sent[q] - Len(conn[q].buffer))
           /\ sent[q] - Len(conn[q].buffer) <= Len(recv[Other(q)])
  BY DEF Window
<1>3. sent'[q] - Len(recv'[Other(q)]) <= BufferChunks
  BY <1>1, <1>2, CapacityAssumption
<1>4. ASSUME conn'[q].state = "ONLINE"
      PROVE  /\ IsWindow(conn'[q], sent'[q], sent'[q] - Len(conn'[q].buffer))
             /\ sent'[q] - Len(conn'[q].buffer) <= Len(recv'[Other(q)])
  <2>1. SameWindow(conn[q], conn'[q])
    BY <1>4
  <2>2. /\ conn[q].state = "ONLINE" /\ conn'[q].buffer = conn[q].buffer
        /\ conn'[q].peerAck = conn[q].peerAck
    BY <1>4, <2>1 DEF SameWindow
  <2>3. /\ IsWindow(conn[q], sent[q], sent[q] - Len(conn[q].buffer))
        /\ sent[q] - Len(conn[q].buffer) <= Len(recv[Other(q)])
    BY <1>2, <2>2
  <2>4. Len(conn[q].buffer) \in Nat
    BY LenProperties DEF TypeOK, ConnType
  <2>5. IsWindow(conn'[q], sent[q], sent[q] - Len(conn[q].buffer))
    BY <2>2, <2>3 DEF IsWindow
  <2> QED BY <1>1, <2>2, <2>3, <2>4, <2>5
<1> QED BY <1>3, <1>4

\* Steps that neither send, acknowledge nor deliver.
LEMMA QuietStep ==
  ASSUME IInv, NEW p \in Peer, NEW c, Transmit(p, c),
         Good(c, sent[p], Len(recv[p])),
         c.state = "ONLINE" => SameWindow(conn[p], c),
         UNCHANGED <<unpack, sent, recv, overrun>>
  PROVE  IInv'
<1>1. /\ TypeOK /\ Numbering /\ Window /\ UnpackFresh /\ DeliveredInOrder
      /\ \A q \in Peer : sent[q] \in Nat
      /\ \A q \in Peer : AllNumbered(unpack[q], sent[Other(q)])
  BY DEF IInv, Numbering, TypeOK
<1>2. /\ TypeOK' /\ Numbering' /\ SameWindow(c, conn'[p])
      /\ \A q \in Peer : q # p => conn'[q] = conn[q]
  <2>1. /\ sent' \in [Peer -> Nat] /\ overrun' \in [Peer -> BOOLEAN]
        /\ unpack' \in [Peer -> Seq(ChunkType)] /\ recv' = recv
        /\ \A q \in Peer : sent[q] <= sent'[q]
        /\ \A q \in Peer : q # p => sent'[q] = sent[q]
    BY <1>1 DEF TypeOK
  <2>2. \A q \in Peer : AllNumbered(unpack'[q], sent'[Other(q)])
    BY <1>1
  <2>3. Good(c, sent'[p], Len(recv[p]))
    OBVIOUS
  <2> QED BY <1>1, <2>1, <2>2, <2>3, TransmitStep
<1>3. \A q \in Peer : conn'[q].state = "ONLINE" => SameWindow(conn[q], conn'[q])
  BY <1>2 DEF SameWindow
<1>4. \A q \in Peer : Len(recv[q]) <= Len(recv'[q])
  BY <1>1, LenProperties DEF TypeOK
<1>5. Window'
  BY <1>1, <1>2, <1>3, <1>4, WindowKept
<1>6. UnpackFresh' /\ DeliveredInOrder'
  BY <1>1 DEF UnpackFresh, DeliveredInOrder
<1> QED BY <1>2, <1>5, <1>6 DEF IInv

LEMMA EndFlushBatchStep ==
  ASSUME IInv, NEW p \in Peer, EndFlushBatch(p)
  PROVE  IInv'
<1>1. Good(conn[p], sent[p], Len(recv[p])) /\ sent[p] \in Nat /\ Len(recv[p]) \in Nat
  BY GoodConn DEF IInv
<1>2. conn[p].state # "OFFLINE"
  BY DEF EndFlushBatch
<1>3. Good(Flush(conn[p]), sent[p], Len(recv[p])) /\ SameWindow(conn[p], Flush(conn[p]))
  BY <1>1, <1>2, FlushGood
<1> QED BY <1>3, QuietStep DEF EndFlushBatch

LEMMA TickStep ==
  ASSUME IInv, NEW p \in Peer, NEW due, Tick(p, due)
  PROVE  IInv'
<1>1. Good(conn[p], sent[p], Len(recv[p])) /\ sent[p] \in Nat /\ Len(recv[p]) \in Nat
  BY GoodConn DEF IInv
<1> DEFINE d == Update(conn[p], due)
<1>2. Good(d, sent[p], Len(recv[p])) /\ (d.state = "ONLINE" => SameWindow(conn[p], d))
  BY <1>1, UpdateGood
<1>3. UpdateOrClose(conn[p], due) = IF IsKept(d) THEN d ELSE Disconnect(d)
  BY DEF UpdateOrClose
<1> HIDE DEF d
<1>4. Good(Disconnect(d), sent[p], Len(recv[p])) /\ Disconnect(d).state # "ONLINE"
  BY <1>1, <1>2, DisconnectGood
<1> QED BY <1>2, <1>3, <1>4, QuietStep DEF Tick

LEMMA ProtectTimeoutsStep ==
  ASSUME IInv, NEW p \in Peer, ProtectTimeouts(p)
  PROVE  IInv'
<1> DEFINE c == IgnoreTimeouts(conn[p])
<1>1. Good(conn[p], sent[p], Len(recv[p]))
  BY GoodConn DEF IInv
<1>2. Good(c, sent[p], Len(recv[p])) /\ SameWindow(conn[p], c)
  BY <1>1 DEF IgnoreTimeouts, Good, ConnType, WithinCapacity, ConnNumbered, SameWindow
<1>3. Transmit(p, c) /\ UNCHANGED <<unpack, sent, recv, overrun>>
  BY DEF ProtectTimeouts
<1> HIDE DEF c
<1> QED BY <1>2, <1>3, QuietStep

LEMMA DropStep ==
  ASSUME IInv, NEW p \in Peer, Drop(p)
  PROVE  IInv'
<1>1. Good(conn[p], sent[p], Len(recv[p])) /\ sent[p] \in Nat /\ Len(recv[p]) \in Nat
  BY GoodConn DEF IInv
<1>2. /\ Good(Disconnect(conn[p]), sent[p], Len(recv[p]))
      /\ Disconnect(conn[p]).state # "ONLINE"
  BY <1>1, DisconnectGood
<1> QED BY <1>2, QuietStep DEF Drop

-----------------------------------------------------------------------------
(* Sending                                                                  *)

\* One more message at the end of the window.
LEMMA WindowGrows ==
  ASSUME NEW n \in Nat, NEW c, c.buffer \in Seq(ChunkType), NEW r,
         IsWindow(c, n, n - Len(c.buffer)), r.peerAck = c.peerAck,
         r.buffer = Append(c.buffer, Chunk(TRUE, Wire(n + 1), n + 1))
  PROVE  /\ IsWindow(r, n + 1, (n + 1) - Len(r.buffer))
         /\ (n + 1) - Len(r.buffer) = n - Len(c.buffer)
<1> DEFINE b == c.buffer
           L == Len(b)
           a == n - L
           chunk == Chunk(TRUE, Wire(n + 1), n + 1)
           new == Append(b, chunk)
<1>1. L \in Nat /\ a \in Nat /\ n = a + L
  BY LenProperties DEF IsWindow
<1>2. chunk \in ChunkType
  <2>1. n + 1 \in Nat /\ Wire(n + 1) \in SeqNo
    BY WireType
  <2> QED BY <2>1 DEF Chunk, ChunkType
<1> HIDE DEF chunk
<1>3. /\ Len(new) = L + 1 /\ \A j \in 1 .. L : new[j] = b[j]
      /\ new[L + 1] = chunk
  <2>1. b \in Seq(ChunkType)
    OBVIOUS
  <2> HIDE DEF b
  <2> QED BY <1>2, <2>1, AppendProperties
<1>4. \A j \in 1 .. n - a : b[j] = Chunk(TRUE, Wire(a + j), a + j)
  BY DEF IsWindow
<1>5. r.peerAck = Wire(a) /\ r.buffer = new
  BY DEF IsWindow, chunk
<1> HIDE DEF a, L, b, new
<1>6. (n + 1) - Len(new) = a /\ Len(new) = (n + 1) - a /\ n - a = L
  BY <1>1, <1>3
<1>7. ASSUME NEW j \in 1 .. (n + 1) - a
      PROVE  new[j] = Chunk(TRUE, Wire(a + j), a + j)
  <2>1. CASE j \in 1 .. L
    BY <1>3, <1>4, <1>6, <2>1
  <2>2. CASE j = L + 1
    <3>1. a + j = n + 1
      BY <1>1, <2>2
    <3> QED BY <1>3, <2>2, <3>1 DEF chunk
  <2>3. ASSUME NEW x \in Nat, NEW y \in Nat, n = x + y, NEW z \in 1 .. (n + 1) - x
        PROVE  z \in 1 .. y \/ z = y + 1
    BY <2>3
  <2> QED BY <1>1, <2>1, <2>2, <2>3, Zenon
<1>8. /\ a \in Nat /\ r.peerAck = Wire(a) /\ Len(r.buffer) = (n + 1) - a
      /\ \A j \in 1 .. (n + 1) - a : r.buffer[j] = Chunk(TRUE, Wire(a + j), a + j)
  BY <1>1, <1>5, <1>6, <1>7, Zenon
<1>9. IsWindow(r, n + 1, a)
  BY <1>8, Zenon DEF IsWindow
<1> QED BY <1>5, <1>6, <1>9 DEF a, L, b

\* Sending on a connection that is no longer open uses up a number.
LEMMA SendClosedStep ==
  ASSUME IInv, NEW p \in Peer, NEW vital \in BOOLEAN, NEW flush \in BOOLEAN,
         Send(p, vital, flush), conn[p].state = "ERROR"
  PROVE  IInv'
<1> DEFINE c == conn[p]
           r == QueueChunk(c, vital, IF vital THEN sent[p] + 1 ELSE 0)
           t == IF flush THEN Flush(r) ELSE r
           s == [c EXCEPT !.sequence = NextSeq(@)]
<1>1. Good(c, sent[p], Len(recv[p])) /\ sent[p] \in Nat /\ Len(recv[p]) \in Nat
  BY GoodConn DEF IInv
<1>2. Good(s, sent[p], Len(recv[p])) /\ s.state = "ERROR"
  <2>1. NextSeq(c.sequence) \in SeqNo
    <3>1. c.sequence + 1 \in Nat /\ MaxSequence \in Nat \ {0}
      BY <1>1, MaxSequenceAssumption DEF Good, ConnType, SeqNo
    <3> QED BY <3>1, DivMod DEF NextSeq, SeqNo
  <2>2. ASSUME NEW q \in SeqNo
        PROVE  /\ Good([c EXCEPT !.sequence = q], sent[p], Len(recv[p]))
               /\ [c EXCEPT !.sequence = q].state = "ERROR"
    BY <1>1 DEF Good, ConnType, WithinCapacity, ConnNumbered
  <2> QED BY <2>1, <2>2
<1>3. r = IF vital THEN s ELSE c
  BY <1>2 DEF QueueChunk, QueueChunkEx, CanQueue
<1> HIDE DEF s, r
<1>4. Good(r, sent[p], Len(recv[p])) /\ r.state = "ERROR"
  BY <1>1, <1>2, <1>3
<1>5. Good(t, sent[p], Len(recv[p])) /\ t.state = "ERROR"
  BY <1>1, <1>4, FlushGood DEF SameWindow
<1>6. Transmit(p, t) /\ UNCHANGED <<unpack, recv>>
  BY Zenon DEF Send, t, r
<1>7. sent' = sent /\ overrun' = overrun
  <2>1. ~ CanQueue(c) /\ ~ Overruns(c, vital)
    BY DEF CanQueue, Overruns
  <2>2. /\ sent' = [sent EXCEPT ![p] = IF vital /\ CanQueue(c) THEN @ + 1 ELSE @]
        /\ overrun' = [overrun EXCEPT ![p] = @ \/ Overruns(c, vital)]
    BY Zenon DEF Send
  <2>3. sent' = [sent EXCEPT ![p] = @]
    BY <2>1, <2>2
  <2>4. overrun[p] \in BOOLEAN
    BY DEF IInv, TypeOK
  <2>5. overrun' = [overrun EXCEPT ![p] = @]
    BY <2>1, <2>2, <2>4
  <2>6. sent \in [Peer -> Nat] /\ overrun \in [Peer -> BOOLEAN]
    BY DEF IInv, TypeOK
  <2> QED BY <2>3, <2>5, <2>6
<1> HIDE DEF t
<1> QED BY <1>5, <1>6, <1>7, QuietStep

\* Sending on an open connection: the window grows with the messages sent, or
\* the direction is overrun.
LEMMA SendOpenStep ==
  ASSUME IInv, NEW p \in Peer, NEW vital \in BOOLEAN, NEW flush \in BOOLEAN,
         Send(p, vital, flush), conn[p].state = "ONLINE"
  PROVE  IInv'
<1> DEFINE c == conn[p]
           n == sent[p]
           d == Len(recv[p])
           m == IF vital THEN n + 1 ELSE n
           r == QueueChunk(c, vital, IF vital THEN n + 1 ELSE 0)
           t == IF flush THEN Flush(r) ELSE r
           saved == vital /\ Len(c.buffer) < BufferChunks
<1>1. /\ TypeOK /\ Numbering /\ Window /\ UnpackFresh /\ DeliveredInOrder
  BY DEF IInv
<1>2. /\ Good(c, n, d) /\ n \in Nat /\ d \in Nat /\ c.buffer \in Seq(ChunkType)
      /\ Len(c.buffer) \in Nat /\ Len(c.buffer) <= BufferChunks
  BY <1>1, GoodConn DEF Good, ConnType
<1>3. /\ Good(r, m, d) /\ r.state = "ONLINE" /\ r.peerAck = c.peerAck
      /\ r.buffer = IF saved THEN Append(c.buffer, Chunk(TRUE, Wire(n + 1), n + 1)) ELSE c.buffer
  <2>1. c.state = "ONLINE"
    OBVIOUS
  <2> HIDE DEF c, n, d
  <2>2. /\ Good(r, m, d) /\ r.state = c.state /\ r.peerAck = c.peerAck
        /\ saved => r.buffer = Append(c.buffer, Chunk(TRUE, Wire(n + 1), n + 1))
        /\ ~ saved => r.buffer = c.buffer
    <3> DEFINE msg == IF vital THEN n + 1 ELSE 0
    <3>1. m = (IF vital THEN n + 1 ELSE n) /\ r = QueueChunk(c, vital, msg)
      OBVIOUS
    <3>2. msg = (IF vital THEN n + 1 ELSE 0)
      OBVIOUS
    <3> HIDE DEF r, m, msg
    <3>3. Good(c, n, d) /\ n \in Nat /\ d \in Nat
      BY <1>2
    <3>4. Good(r, m, d) /\ Queued(c, r, vital, n)
      BY <2>1, <3>1, <3>2, <3>3, QueueChunkGood
    <3> QED BY <3>4 DEF Queued
  <2> HIDE DEF r, m, saved
  <2> QED BY <2>1, <2>2
<1>4. /\ Transmit(p, t) /\ UNCHANGED <<unpack, recv>>
      /\ sent' = [sent EXCEPT ![p] = IF vital /\ CanQueue(c) THEN @ + 1 ELSE @]
      /\ overrun' = [overrun EXCEPT ![p] = @ \/ Overruns(c, vital)]
  BY Zenon DEF Send
<1> HIDE DEF r
<1>5. m \in Nat /\ n <= m
  BY <1>2
<1>6. Good(t, m, d) /\ SameWindow(r, t)
  <2>1. /\ Good(Flush(r), m, d) /\ SameWindow(r, Flush(r))
    <3>1. r.state # "OFFLINE"
      BY <1>3
    <3> HIDE DEF m, d
    <3> QED BY <1>2, <1>3, <1>5, <3>1, FlushGood
  <2> QED BY <1>3, <2>1 DEF SameWindow
<1> HIDE DEF t
<1>7. CanQueue(c)
  BY DEF CanQueue
<1>8. /\ sent' \in [Peer -> Nat] /\ sent'[p] = m
      /\ \A q \in Peer : sent[q] <= sent'[q]
      /\ \A q \in Peer : q # p => sent'[q] = sent[q]
  <2>1. sent \in [Peer -> Nat]
    BY <1>1 DEF TypeOK
  <2>2. sent' = [sent EXCEPT ![p] = m]
    BY <1>4, <1>7
  <2> HIDE DEF m
  <2> QED BY <1>5, <2>1, <2>2
<1>9. /\ overrun' \in [Peer -> BOOLEAN]
      /\ \A q \in Peer : ~ overrun'[q] => ~ overrun[q]
      /\ ~ overrun'[p] => vital = saved
  <2>1. overrun \in [Peer -> BOOLEAN] /\ Overruns(c, vital) \in BOOLEAN
    BY <1>1 DEF TypeOK, Overruns
  <2>2. overrun' \in [Peer -> BOOLEAN] /\ overrun'[p] = (overrun[p] \/ Overruns(c, vital))
    BY <1>4, <2>1
  <2>3. \A q \in Peer : q # p => overrun'[q] = overrun[q]
    BY <1>4, <2>1
  <2>4. ~ Overruns(c, vital) => vital = saved
    BY <1>2, <1>7, CapacityAssumption DEF Overruns
  <2> QED BY <2>1, <2>2, <2>3, <2>4
<1>10. /\ TypeOK' /\ Numbering' /\ SameWindow(t, conn'[p])
       /\ \A q \in Peer : q # p => conn'[q] = conn[q]
  <2>1. unpack' \in [Peer -> Seq(ChunkType)] /\ recv' = recv
    BY <1>1, <1>4 DEF TypeOK
  <2>2. \A q \in Peer : AllNumbered(unpack'[q], sent'[Other(q)])
    <3>1. \A q \in Peer : /\ AllNumbered(unpack[q], sent[Other(q)])
                          /\ Other(q) \in Peer /\ sent[Other(q)] \in Nat
                          /\ sent'[Other(q)] \in Nat /\ sent[Other(q)] <= sent'[Other(q)]
      BY <1>1, <1>8, OtherPeer DEF Numbering, TypeOK
    <3> QED BY <1>4, <3>1, StillNumbered
  <2>3. Good(t, sent'[p], Len(recv[p]))
    BY <1>6, <1>8
  <2> QED BY <1>1, <1>4, <1>8, <1>9, <2>1, <2>2, <2>3, TransmitStep
<1>11. Window'
  <2> SUFFICES ASSUME NEW q \in Peer, ~ overrun'[q]
               PROVE  /\ sent'[q] - Len(recv'[Other(q)]) <= BufferChunks
                      /\ conn'[q].state = "ONLINE" =>
                           /\ IsWindow(conn'[q], sent'[q], sent'[q] - Len(conn'[q].buffer))
                           /\ sent'[q] - Len(conn'[q].buffer) <= Len(recv'[Other(q)])
    BY DEF Window
  <2>1. /\ sent[q] - Len(recv[Other(q)]) <= BufferChunks
        /\ conn[q].state = "ONLINE" =>
             /\ IsWindow(conn[q], sent[q], sent[q] - Len(conn[q].buffer))
             /\ sent[q] - Len(conn[q].buffer) <= Len(recv[Other(q)])
    BY <1>1, <1>9 DEF Window
  <2>2. CASE q # p
    BY <1>4, <1>8, <1>10, <2>1, <2>2
  <2>3. CASE q = p
    <3> DEFINE a == n - Len(c.buffer)
               g == Len(recv[Other(p)])
               w == conn'[p]
    <3>1. /\ IsWindow(c, n, a) /\ a <= g /\ n - g <= BufferChunks /\ g \in Nat
          /\ recv' = recv
      BY <1>4, <2>1, <2>3, <1>1, OtherPeer, LenProperties DEF TypeOK
    <3>2. w.buffer = r.buffer /\ w.peerAck = r.peerAck
      BY <1>6, <1>10 DEF SameWindow
    <3>3. Len(w.buffer) \in Nat /\ Len(w.buffer) <= BufferChunks
      BY <1>10, LenProperties DEF TypeOK, ConnType, WithinCapacity
    <3> HIDE DEF w, g, c, n
    <3>4. IsWindow(w, m, m - Len(w.buffer)) /\ m - Len(w.buffer) = a
      <4>1. CASE vital
        <5>1. saved
          BY <1>9, <2>3, <4>1
        <5>2. w.buffer = Append(c.buffer, Chunk(TRUE, Wire(n + 1), n + 1)) /\ m = n + 1
          BY <1>3, <3>2, <4>1, <5>1
        <5>3. w.peerAck = c.peerAck
          BY <1>3, <3>2
        <5> HIDE DEF m
        <5>4. IsWindow(w, n + 1, (n + 1) - Len(w.buffer))
               /\ (n + 1) - Len(w.buffer) = n - Len(c.buffer)
          BY <1>2, <3>1, <5>2, <5>3, WindowGrows
        <5> QED BY <5>2, <5>4
      <4>2. CASE ~ vital
        <5>1. w.buffer = c.buffer /\ w.peerAck = c.peerAck /\ m = n
          BY <1>3, <3>2, <4>2
        <5> QED BY <3>1, <5>1 DEF IsWindow
      <4> QED BY <4>1, <4>2
    <3>5. m - g <= BufferChunks /\ m - Len(w.buffer) <= g
      <4> HIDE DEF m
      <4>1. a \in Nat
        BY <3>1 DEF IsWindow
      <4> HIDE DEF a
      <4> QED BY <1>5, <3>1, <3>3, <3>4, <4>1, CapacityAssumption
    <3> QED BY <1>8, <2>3, <3>1, <3>4, <3>5 DEF w, g
  <2> QED BY <2>2, <2>3
<1>12. UnpackFresh'
  BY <1>1, <1>4, <1>9, OtherPeer DEF UnpackFresh
<1>13. DeliveredInOrder'
  <2>1. ASSUME NEW q \in Peer, ~ overrun'[Other(q)]
        PROVE  /\ Len(recv'[q]) <= sent'[Other(q)]
               /\ \A i \in 1 .. Len(recv'[q]) : recv'[q][i] = i
    <3>1. Other(q) \in Peer /\ ~ overrun[Other(q)]
      BY <1>9, <2>1, OtherPeer
    <3>2. /\ Len(recv[q]) <= sent[Other(q)] /\ recv' = recv
          /\ \A i \in 1 .. Len(recv[q]) : recv[q][i] = i
          /\ Len(recv[q]) \in Nat
      BY <1>1, <1>4, <3>1, LenProperties DEF DeliveredInOrder, TypeOK
    <3>3. /\ sent[Other(q)] \in Nat /\ sent'[Other(q)] \in Nat
          /\ sent[Other(q)] <= sent'[Other(q)]
      BY <1>1, <1>8, <3>1 DEF TypeOK
    <3> QED BY <3>2, <3>3
  <2> QED BY <2>1 DEF DeliveredInOrder
<1> QED BY <1>10, <1>11, <1>12, <1>13 DEF IInv

-----------------------------------------------------------------------------
(* Receiving                                                                *)

\* r is c after it has accepted an acknowledgement of message k.
AckMoves(c, r, k) ==
  /\ IsAckValid(Wire(k), c.peerAck, c.sequence)
  /\ r.peerAck = Wire(k)
  /\ r.buffer = SubSeq(c.buffer, NumAcked(c.buffer, Wire(k)) + 1, Len(c.buffer))

\* An accepted acknowledgement of message k is not older than the last one and
\* moves the start of the window to k.
LEMMA WindowMoves ==
  ASSUME NEW n \in Nat, NEW c, c.buffer \in Seq(ChunkType),
         Len(c.buffer) <= BufferChunks,
         IsWindow(c, n, n - Len(c.buffer)), c.sequence = Wire(n),
         NEW k \in Nat, k <= n, n < k + MaxSequence,
         NEW r, AckMoves(c, r, k)
  PROVE  IsWindow(r, n, n - Len(r.buffer)) /\ n - Len(r.buffer) = k
<1> USE DEF AckMoves
<1> DEFINE b == c.buffer
           L == Len(b)
           a == n - L
           v == NumAcked(b, Wire(k))
           new == SubSeq(b, v + 1, L)
<1>1. /\ L \in Nat /\ a \in Nat /\ n = a + L /\ n - a = L /\ L <= Half /\ Half < MaxSequence
      /\ Half \in Nat /\ MaxSequence \in Nat
  <2>1. L \in Nat /\ a \in Nat /\ L <= BufferChunks
    BY LenProperties DEF IsWindow
  <2>2. Half \in Nat /\ MaxSequence \in Nat /\ Half < MaxSequence
    BY MaxSequenceAssumption DEF Half
  <2>3. BufferChunks \in Nat /\ BufferChunks <= Half
    BY CapacityAssumption
  <2> HIDE DEF L
  <2> QED BY <2>1, <2>2, <2>3
<1>2. b \in Seq(ChunkType) /\ \A j \in 1 .. n - a : b[j] = Chunk(TRUE, Wire(a + j), a + j)
  BY DEF IsWindow
<1>3. c.peerAck = Wire(a)
  BY DEF IsWindow
<1>4. /\ v \in 0 .. L
      /\ \A i \in 1 .. v : IsSeqInBackroom(b[i].seq, Wire(k))
      /\ v < L => ~ IsSeqInBackroom(b[v + 1].seq, Wire(k))
  <2>1. Wire(k) \in SeqNo
    BY WireType
  <2> QED BY <1>2, <2>1, NumAckedStops, Zenon
<1>5. v \in Nat /\ v <= L /\ a \in Nat /\ L \in Nat /\ n = a + L /\ k \in Nat /\ k <= n
  BY <1>1, <1>4
<1> HIDE DEF v
<1>6. r.buffer = new
  BY DEF v
<1> HIDE DEF a, L, b, new
<1>7. a <= k
  <2>1. n < a + MaxSequence
    BY <1>1
  <2>2. IsAckValid(Wire(k), Wire(a), Wire(n))
    BY <1>3
  <2> QED BY <1>1, <2>1, <2>2, AckValidWire
<1>8. \A j \in 1 .. L : b[j].seq = Wire(a + j)
  <2>1. \A j \in 1 .. L : b[j] = Chunk(TRUE, Wire(a + j), a + j)
    BY <1>1, <1>2, Zenon
  <2>2. ASSUME NEW x, NEW y PROVE Chunk(TRUE, x, y).seq = x
    BY DEF Chunk
  <2> QED BY <2>1, <2>2, Zenon
<1>9. v = k - a
  <2>1. ASSUME v > k - a PROVE FALSE
    <3>1. (k - a) + 1 \in 1 .. v /\ (k - a) + 1 \in 1 .. L /\ a + ((k - a) + 1) = k + 1
      BY <1>1, <1>4, <1>7, <2>1
    <3>2. IsSeqInBackroom(Wire(k + 1), Wire(k))
      BY <1>4, <1>8, <3>1
    <3> QED BY <3>2, BackroomWire
  <2>2. ASSUME v < k - a PROVE FALSE
    <3>1. v < L /\ v + 1 \in 1 .. L /\ a + (v + 1) \in Nat /\ a + (v + 1) <= k
          /\ k - (a + (v + 1)) <= Half
      BY <1>1, <1>4, <1>7, <2>2
    <3>2. ~ IsSeqInBackroom(Wire(a + (v + 1)), Wire(k))
      BY <1>4, <1>8, <3>1
    <3> QED BY <3>1, <3>2, BackroomWire
  <2> QED BY <1>5, <1>7, <2>1, <2>2
<1>10. /\ Len(new) = n - k
       /\ \A j \in 1 .. n - k : new[j] = b[v + j]
  <2>1. /\ v + 1 \in Nat \ {0} /\ v + 1 \in Int /\ L \in Int
        /\ \A i \in v + 1 .. L : b[i] \in ChunkType
    <3>1. \A i \in 1 .. Len(b) : b[i] \in ChunkType
      BY <1>2, ElementOfSeq
    <3> QED BY <1>1, <1>4, <3>1 DEF L
  <2>2. /\ Len(new) = (IF v + 1 <= L THEN L - (v + 1) + 1 ELSE 0)
        /\ \A i \in 1 .. L - (v + 1) + 1 : new[i] = b[(v + 1) + i - 1]
    BY <2>1, SubSeqProperties DEF new
  <2>3. n - k = L - (v + 1) + 1 /\ n - k \in Nat
    BY <1>5, <1>7, <1>9
  <2>4. \A i \in 1 .. n - k : (v + 1) + i - 1 = v + i
    BY <1>1, <1>4
  <2> QED BY <1>1, <1>4, <2>2, <2>3, <2>4
<1>11. ASSUME NEW j \in 1 .. n - k
       PROVE  new[j] = Chunk(TRUE, Wire(k + j), k + j)
  <2>1. v + j \in 1 .. n - a /\ a + (v + j) = k + j
    BY <1>1, <1>4, <1>7, <1>9
  <2> QED BY <1>2, <1>10, <2>1
<1>12. IsWindow(r, n, k)
  BY <1>6, <1>10, <1>11, Zenon DEF IsWindow
<1>13. n - Len(r.buffer) = k
  <2>1. Len(r.buffer) = n - k
    BY <1>6, <1>10, Zenon
  <2>2. n - (n - k) = k
    BY <1>5
  <2> QED BY <2>1, <2>2, Zenon
<1> QED BY <1>12, <1>13

LEMMA ReceiveStep ==
  ASSUME IInv, NEW p \in Peer, NEW m \in net, Receive(p, m)
  PROVE  IInv'
<1> DEFINE c == conn[p]
           q == Other(p)
           n == sent[p]
           d == Len(recv[p])
           k == m.rcvd
           accepted == Accepts(c, m.from, m.pkt)
           chunks == IF HasChunks(c, m.from, m.pkt) THEN m.pkt.chunks ELSE << >>
<1>1. /\ TypeOK /\ Numbering /\ Window /\ UnpackFresh /\ DeliveredInOrder
      /\ q \in Peer /\ q # p /\ Other(q) = p
  BY OtherPeer DEF IInv
<1>2. /\ Good(c, n, d) /\ n \in Nat /\ d \in Nat /\ c.buffer \in Seq(ChunkType)
      /\ Len(c.buffer) \in Nat /\ Len(c.buffer) <= BufferChunks /\ sent[q] \in Nat
  BY <1>1, GoodConn DEF Good, ConnType
<1>3. c.state = "ONLINE" /\ c.sequence = Wire(n)
  BY <1>2 DEF Receive, Good, ConnType, ConnNumbered
<1>4. /\ m.from = q /\ m.pkt \in PacketType /\ k \in Nat /\ k <= Len(recv[q])
      /\ m.pkt.ack = Wire(k) /\ AllNumbered(m.pkt.chunks, sent[q])
      /\ m.pkt.chunks \in Seq(ChunkType)
      /\ n - k <= MaxAge
      /\ \A i \in DOMAIN m.pkt.chunks :
           m.pkt.chunks[i].vital => sent[q] - m.pkt.chunks[i].msg <= MaxAge
  <2>1. m.from = q
    BY DEF Receive
  <2>2. /\ m \in [from : Peer, rcvd : Nat, pkt : PacketType]
        /\ AllNumbered(m.pkt.chunks, sent[m.from])
        /\ m.pkt.ack = Wire(m.rcvd) /\ m.rcvd <= Len(recv[m.from]) /\ Fresh(m, sent)
    BY <1>1 DEF TypeOK, Numbering
  <2> QED BY <1>1, <2>1, <2>2 DEF Fresh, PacketType
<1>5. PICK due : Transmit(p, Feed(c, m.from, m.pkt, due))
  BY DEF Receive
<1>6. UNCHANGED <<sent, recv, overrun>> /\ unpack' = [unpack EXCEPT ![p] = chunks]
  BY Zenon DEF Receive
<1> DEFINE r == Feed(c, m.from, m.pkt, due)
<1>7. /\ Good(r, n, d) /\ (~ accepted => r = c)
      /\ accepted /\ r.state = "ONLINE" =>
           /\ r.peerAck = Wire(k)
           /\ r.buffer = SubSeq(c.buffer, NumAcked(c.buffer, Wire(k)) + 1, Len(c.buffer))
  <2> HIDE DEF c, n, d, k, q
  <2> QED BY <1>2, <1>3, <1>4, FeedGood DEF k
<1> HIDE DEF r
<1>8. chunks \in Seq(ChunkType) /\ AllNumbered(chunks, sent[q])
  BY <1>2, <1>4, EmptyChunks
<1>9. /\ TypeOK' /\ Numbering' /\ SameWindow(r, conn'[p])
      /\ \A x \in Peer : x # p => conn'[x] = conn[x]
      /\ unpack'[p] = chunks /\ \A x \in Peer : x # p => unpack'[x] = unpack[x]
  <2> HIDE DEF chunks, c, n
  <2>1. unpack \in [Peer -> Seq(ChunkType)] /\ \A x \in Peer : AllNumbered(unpack[x], sent[Other(x)])
    BY <1>1 DEF TypeOK, Numbering
  <2>2. /\ unpack' \in [Peer -> Seq(ChunkType)] /\ unpack'[p] = chunks
        /\ \A x \in Peer : x # p => unpack'[x] = unpack[x]
    BY <1>6, <1>8, <2>1
  <2>3. \A x \in Peer : AllNumbered(unpack'[x], sent'[Other(x)])
    BY <1>6, <1>8, <2>1, <2>2
  <2>4. /\ sent' \in [Peer -> Nat] /\ overrun' \in [Peer -> BOOLEAN] /\ recv' = recv
        /\ \A x \in Peer : sent[x] <= sent'[x]
        /\ \A x \in Peer : x # p => sent'[x] = sent[x]
    BY <1>1, <1>6 DEF TypeOK
  <2>5. Good(r, sent'[p], Len(recv[p])) /\ Transmit(p, r)
    BY <1>5, <1>6, <1>7 DEF n, r, c
  <2> QED BY <1>1, <2>2, <2>3, <2>4, <2>5, TransmitStep
<1>10. Window'
  <2> SUFFICES ASSUME NEW x \in Peer, ~ overrun'[x]
               PROVE  /\ sent'[x] - Len(recv'[Other(x)]) <= BufferChunks
                      /\ conn'[x].state = "ONLINE" =>
                           /\ IsWindow(conn'[x], sent'[x], sent'[x] - Len(conn'[x].buffer))
                           /\ sent'[x] - Len(conn'[x].buffer) <= Len(recv'[Other(x)])
    BY DEF Window
  <2>1. /\ sent[x] - Len(recv[Other(x)]) <= BufferChunks
        /\ conn[x].state = "ONLINE" =>
             /\ IsWindow(conn[x], sent[x], sent[x] - Len(conn[x].buffer))
             /\ sent[x] - Len(conn[x].buffer) <= Len(recv[Other(x)])
    BY <1>1, <1>6 DEF Window
  <2>2. CASE x # p
    BY <1>6, <1>9, <2>1, <2>2
  <2>3. CASE x = p
    <3> DEFINE w == conn'[p]
    <3> SUFFICES ASSUME w.state = "ONLINE"
                 PROVE  IsWindow(w, n, n - Len(w.buffer)) /\ n - Len(w.buffer) <= Len(recv[q])
      BY <1>6, <2>1, <2>3
    <3>1. w.buffer = r.buffer /\ w.peerAck = r.peerAck /\ r.state = "ONLINE"
      BY <1>9 DEF SameWindow
    <3>2. IsWindow(c, n, n - Len(c.buffer)) /\ n - Len(c.buffer) <= Len(recv[q])
      BY <1>3, <2>1, <2>3
    <3>3. CASE ~ accepted
      <4>1. w.buffer = c.buffer /\ w.peerAck = c.peerAck
        BY <1>7, <3>1, <3>3
      <4> HIDE DEF w, c, n
      <4> QED BY <3>2, <4>1 DEF IsWindow
    <3>4. CASE accepted
      <4>1. IsAckValid(Wire(k), c.peerAck, c.sequence)
        BY <1>4, <3>4 DEF Accepts
      <4>2. k <= n /\ n < k + MaxSequence
        <5>1. Len(recv[q]) <= n /\ Len(recv[q]) \in Nat
          BY <1>1, <1>6, <2>3, LenProperties DEF DeliveredInOrder, TypeOK
        <5> HIDE DEF n, k, q
        <5> QED BY <1>2, <1>4, <5>1, BoundAssumption, MaxSequenceAssumption
      <4>3. /\ w.peerAck = Wire(k)
            /\ w.buffer = SubSeq(c.buffer, NumAcked(c.buffer, Wire(k)) + 1, Len(c.buffer))
        BY <1>7, <3>1, <3>4
      <4> HIDE DEF w, c, n, k, q
      <4>4. IsWindow(w, n, n - Len(w.buffer)) /\ n - Len(w.buffer) = k
        <5>1. /\ n \in Nat /\ c.buffer \in Seq(ChunkType) /\ Len(c.buffer) <= BufferChunks
              /\ c.sequence = Wire(n) /\ k \in Nat
          BY <1>2, <1>3, <1>4
        <5>2. AckMoves(c, w, k)
          BY <4>1, <4>3, Zenon DEF AckMoves
        <5> QED BY <3>2, <4>2, <5>1, <5>2, WindowMoves
      <4> QED BY <1>4, <4>4
    <3> QED BY <3>3, <3>4
  <2> QED BY <2>2, <2>3
<1>11. UnpackFresh'
  <2> SUFFICES ASSUME NEW x \in Peer, ~ overrun'[Other(x)],
                      NEW i \in DOMAIN unpack'[x], unpack'[x][i].vital
               PROVE  /\ Len(recv'[x]) - unpack'[x][i].msg < MaxSequence - 1
                      /\ \A j \in DOMAIN unpack'[x] : unpack'[x][j].vital =>
                           unpack'[x][j].msg - unpack'[x][i].msg < MaxSequence - 1
    BY DEF UnpackFresh
  <2>1. CASE x # p
    BY <1>1, <1>6, <1>9, <2>1 DEF UnpackFresh
  <2>2. CASE x = p
    <3>1. /\ unpack'[x] = m.pkt.chunks /\ Len(recv[p]) <= sent[q]
          /\ Len(recv'[x]) = Len(recv[p])
      <4>1. chunks # << >>
        BY <1>9, <2>2
      <4>2. chunks = m.pkt.chunks
        BY <4>1
      <4>3. Len(recv[p]) <= sent[q]
        BY <1>1, <1>6, <2>2 DEF DeliveredInOrder
      <4> HIDE DEF chunks
      <4> QED BY <1>6, <1>9, <2>2, <4>2, <4>3
    <3> DEFINE s == m.pkt.chunks
               top == sent[q]
    <3>2. /\ \A j \in DOMAIN s : s[j].vital => s[j].msg \in 1 .. top /\ top - s[j].msg <= MaxAge
          /\ top \in Nat /\ d \in Nat /\ d <= top /\ i \in DOMAIN s /\ s[i].vital
      BY <1>2, <1>4, <2>2, <3>1 DEF AllNumbered
    <3> HIDE DEF s, top, d
    <3>3. ASSUME NEW y \in Nat, y <= top
          PROVE  y - s[i].msg < MaxSequence - 1
      BY <3>2, <3>3, BoundAssumption, MaxSequenceAssumption
    <3>4. \A j \in DOMAIN s : s[j].vital => s[j].msg - s[i].msg < MaxSequence - 1
      BY <3>2, <3>3
    <3>5. d - s[i].msg < MaxSequence - 1
      BY <3>2, <3>3
    <3> QED BY <3>1, <3>4, <3>5 DEF s, d
  <2> QED BY <2>1, <2>2
<1>12. DeliveredInOrder'
  BY <1>1, <1>6 DEF DeliveredInOrder
<1> QED BY <1>9, <1>10, <1>11, <1>12 DEF IInv

\* The chunk returned by UnpackNextChunk is the next message, not one a full
\* turn older or newer with the same number.
LEMMA UnpackStep ==
  ASSUME IInv, NEW p \in Peer, Unpack(p)
  PROVE  IInv'
<1> DEFINE c == conn[p]
           q == Other(p)
           d == Len(recv[p])
           u == unpack[p]
           k == NextTaken(c, u)
           returned == k <= Len(u) /\ c.state # "OFFLINE"
           given == k <= Len(u) /\ u[k].vital
           rest == IF returned THEN SubSeq(u, k + 1, Len(u)) ELSE << >>
           more == IF returned /\ u[k].vital THEN Append(recv[p], u[k].msg) ELSE recv[p]
           r == UnpackNextChunk(c, u)
           e == IF returned /\ u[k].vital THEN d + 1 ELSE d
<1>1. /\ TypeOK /\ Numbering /\ Window /\ UnpackFresh /\ DeliveredInOrder
      /\ q \in Peer /\ q # p /\ Other(q) = p
  BY OtherPeer DEF IInv
<1>2. /\ Good(c, sent[p], d) /\ c.out = {} /\ sent[p] \in Nat /\ d \in Nat
      /\ u \in Seq(ChunkType) /\ AllNumbered(u, sent[q]) /\ sent[q] \in Nat
      /\ recv[p] \in Seq(Nat) /\ Len(u) \in Nat /\ DOMAIN u = 1 .. Len(u)
  BY <1>1, GoodConn, LenProperties DEF Numbering
<1>3. /\ conn' = [conn EXCEPT ![p] = r]
      /\ unpack' = [unpack EXCEPT ![p] = rest]
      /\ recv' = [recv EXCEPT ![p] = more]
      /\ UNCHANGED <<net, sent, overrun>>
  BY Zenon DEF Unpack
<1>4. k \in 1 .. Len(u) + 1
  BY <1>2, NextTakenStops, Zenon
<1>5. /\ Unpacked(c, r, k, u, d)
      /\ c.state = "OFFLINE" \/ ~ given => Good(r, sent[p], d)
      /\ c.state # "OFFLINE" /\ given => Good(r, sent[p], d + 1)
  <2>1. k = NextTaken(c, u) /\ r = UnpackNextChunk(c, u)
    OBVIOUS
  <2> HIDE DEF k, r, c, u, d
  <2> QED BY <1>2, <2>1, UnpackNextChunkGood
<1>5a. /\ SameWindow(c, r) /\ r.out = {}
       /\ c.state # "OFFLINE" /\ given => u[k].seq = Wire(d + 1)
  BY <1>5, Zenon DEF Unpacked
<1> HIDE DEF r
<1>6. e \in Nat /\ Good(r, sent[p], e)
  BY <1>2, <1>5
<1> HIDE DEF k
<1>7. /\ rest \in Seq(ChunkType) /\ AllNumbered(rest, sent[q])
      /\ DOMAIN rest = 1 .. Len(rest) /\ Len(rest) \in Nat
      /\ \A i \in DOMAIN rest : k + i \in DOMAIN u /\ rest[i] = u[k + i] /\ returned
  <2>1. CASE returned
    <3>1. k + 1 \in Nat \ {0} /\ Len(u) <= Len(u)
      BY <1>2, <1>4
    <3>2. /\ rest \in Seq(ChunkType) /\ AllNumbered(rest, sent[q])
          /\ Len(rest) = (IF k + 1 <= Len(u) THEN Len(u) - (k + 1) + 1 ELSE 0)
          /\ \A i \in 1 .. Len(u) - (k + 1) + 1 : rest[i] = u[(k + 1) + i - 1]
      BY <1>2, <2>1, <3>1, SubSeqNumbered
    <3>3. DOMAIN rest = 1 .. Len(rest) /\ Len(rest) \in Nat
      BY <3>2, LenProperties
    <3> HIDE DEF rest, u
    <3>4. ASSUME NEW i \in DOMAIN rest
          PROVE  k + i \in DOMAIN u /\ rest[i] = u[k + i]
      <4>1. i \in 1 .. Len(rest) /\ i \in Nat /\ k \in Nat /\ Len(u) \in Nat
        BY <1>2, <1>4, <3>3
      <4>2. ASSUME NEW x \in Nat, NEW l \in Nat, NEW y \in Nat \ {0},
                   y <= (IF x + 1 <= l THEN l - (x + 1) + 1 ELSE 0)
            PROVE  y \in 1 .. l - (x + 1) + 1 /\ (x + 1) + y - 1 = x + y /\ x + y <= l
        BY <4>2
      <4>3. i \in Nat \ {0} /\ i <= (IF k + 1 <= Len(u) THEN Len(u) - (k + 1) + 1 ELSE 0)
        BY <3>2, <4>1
      <4>4. i \in 1 .. Len(u) - (k + 1) + 1 /\ (k + 1) + i - 1 = k + i /\ k + i <= Len(u)
        BY <4>1, <4>2, <4>3, Zenon
      <4>5. k + i \in 1 .. Len(u)
        BY <4>1, <4>3, <4>4
      <4> QED BY <1>2, <3>2, <4>4, <4>5
    <3> QED BY <2>1, <3>2, <3>3, <3>4
  <2>2. CASE ~ returned
    <3>1. rest = << >> /\ DOMAIN << >> = {} /\ Len(<< >>) = 0 /\ 1 .. 0 = {}
      BY <2>2
    <3> HIDE DEF rest
    <3> QED BY <3>1, EmptyChunks
  <2> QED BY <2>1, <2>2
<1> HIDE DEF rest
<1>8. /\ more \in Seq(Nat) /\ Len(more) = e
      /\ \A i \in 1 .. d : more[i] = recv[p][i]
      /\ e = d + 1 => more[e] = u[k].msg /\ returned /\ u[k].vital
  <2>1. CASE returned /\ u[k].vital
    <3>1. u[k] \in ChunkType
      BY <1>2, <1>4, <2>1, ElementOfSeq
    <3>2. u[k].msg \in Nat
      BY <3>1 DEF ChunkType
    <3> QED BY <1>2, <2>1, <3>2, AppendProperties
  <2>2. CASE ~ (returned /\ u[k].vital)
    BY <1>2, <2>2
  <2> QED BY <2>1, <2>2
<1>9. d <= e /\ (e = d \/ e = d + 1)
  BY <1>2
<1> HIDE DEF more, e
<1>10. /\ conn'[p] = r /\ unpack'[p] = rest /\ recv'[p] = more
       /\ \A x \in Peer : x # p =>
            conn'[x] = conn[x] /\ unpack'[x] = unpack[x] /\ recv'[x] = recv[x]
       /\ conn' \in [Peer -> ConnType] /\ unpack' \in [Peer -> Seq(ChunkType)]
       /\ recv' \in [Peer -> Seq(Nat)]
       /\ sent' = sent /\ net' = net /\ overrun' = overrun
  <2>1. r \in ConnType
    BY <1>6 DEF Good
  <2> QED BY <1>1, <1>3, <1>7, <1>8, <2>1 DEF TypeOK
<1>11. TypeOK'
  <2>1. \A x \in Peer : conn'[x].out = {} /\ WithinCapacity(conn'[x])
    BY <1>1, <1>5a, <1>6, <1>10 DEF TypeOK, Good
  <2> QED BY <1>1, <1>10, <2>1 DEF TypeOK
<1>12. \A x \in Peer : Len(recv[x]) <= Len(recv'[x]) /\ Len(recv[x]) \in Nat /\ Len(recv'[x]) \in Nat
  <2>1. \A x \in Peer : Len(recv[x]) \in Nat
    BY <1>1, LenProperties DEF TypeOK
  <2>2. Len(recv'[p]) = e /\ Len(recv[p]) <= e /\ e \in Nat
    BY <1>6, <1>8, <1>9, <1>10
  <2>3. \A x \in Peer : x # p => recv'[x] = recv[x]
    BY <1>10
  <2>4. ASSUME NEW x \in Peer
        PROVE  Len(recv[x]) <= Len(recv'[x]) /\ Len(recv'[x]) \in Nat
    <3>1. CASE x = p
      BY <2>2, <3>1
    <3>2. CASE x # p
      <4>1. Len(recv'[x]) = Len(recv[x])
        BY <2>3, <3>2
      <4> QED BY <2>1, <4>1
    <3> QED BY <3>1, <3>2
  <2> QED BY <2>1, <2>4
<1>13. Numbering'
  <2>1. \A x \in Peer : ConnNumbered(conn'[x], sent'[x], Len(recv'[x]))
    BY <1>1, <1>6, <1>8, <1>10 DEF Numbering, Good
  <2>2. \A x \in Peer : AllNumbered(unpack'[x], sent'[Other(x)])
    BY <1>1, <1>7, <1>10 DEF Numbering
  <2>3. ASSUME NEW m \in net'
        PROVE  /\ AllNumbered(m.pkt.chunks, sent'[m.from])
               /\ m.pkt.ack = Wire(m.rcvd)
               /\ m.rcvd <= Len(recv'[m.from])
               /\ Fresh(m, sent')
    <3>1. /\ m \in net /\ m.from \in Peer /\ m.rcvd \in Nat
          /\ AllNumbered(m.pkt.chunks, sent[m.from])
          /\ m.pkt.ack = Wire(m.rcvd) /\ m.rcvd <= Len(recv[m.from]) /\ Fresh(m, sent)
      BY <1>1, <1>10 DEF Numbering, TypeOK
    <3>2. m.rcvd <= Len(recv'[m.from])
      BY <1>12, <3>1
    <3> QED BY <1>10, <3>1, <3>2
  <2> QED BY <2>1, <2>2, <2>3 DEF Numbering
<1>14. Window'
  <2>1. \A x \in Peer : conn'[x].state = "ONLINE" => SameWindow(conn[x], conn'[x])
    BY <1>5a, <1>10 DEF SameWindow
  <2> QED BY <1>1, <1>10, <1>11, <1>12, <2>1, WindowKept
<1>15. ASSUME ~ overrun[q], e = d + 1
       PROVE  u[k].msg = d + 1 /\ d + 1 <= sent[q]
  <2>1. k \in DOMAIN u /\ u[k].vital /\ u[k].seq = Wire(d + 1)
    BY <1>2, <1>4, <1>5a, <1>8, <1>15
  <2> DEFINE i == u[k].msg
             top == sent[q]
  <2>2. i \in 1 .. top /\ Wire(i) = Wire(d + 1)
    BY <1>2, <2>1 DEF AllNumbered
  <2>3. d - i < MaxSequence - 1
    BY <1>1, <1>15, <2>1 DEF UnpackFresh
  <2>4. top - d <= BufferChunks /\ d <= top /\ top \in Nat
    BY <1>1, <1>2, <1>15 DEF Window, DeliveredInOrder
  <2> HIDE DEF i, top, d
  <2>5. /\ i \in Nat /\ d + 1 \in Nat /\ d + 1 < i + MaxSequence /\ i < (d + 1) + MaxSequence
    BY <1>2, <2>2, <2>3, <2>4, CapacityAssumption, MaxSequenceAssumption DEF Half
  <2>6. i = d + 1
    BY <2>2, <2>5, WireInjective
  <2> QED BY <1>2, <2>2, <2>6 DEF i, top
<1>16. UnpackFresh'
  <2> SUFFICES ASSUME NEW x \in Peer, ~ overrun'[Other(x)],
                      NEW i \in DOMAIN unpack'[x], unpack'[x][i].vital
               PROVE  /\ Len(recv'[x]) - unpack'[x][i].msg < MaxSequence - 1
                      /\ \A j \in DOMAIN unpack'[x] : unpack'[x][j].vital =>
                           unpack'[x][j].msg - unpack'[x][i].msg < MaxSequence - 1
    BY DEF UnpackFresh
  <2>1. CASE x # p
    BY <1>1, <1>10, <2>1 DEF UnpackFresh
  <2>2. CASE x = p
    <3>1. /\ \A j \in DOMAIN u : u[j].vital =>
               /\ d - u[j].msg < MaxSequence - 1
               /\ \A l \in DOMAIN u : u[l].vital => u[l].msg - u[j].msg < MaxSequence - 1
      BY <1>1, <1>10, <2>2 DEF UnpackFresh
    <3>2. /\ \A j \in DOMAIN rest : k + j \in DOMAIN u /\ rest[j] = u[k + j]
          /\ i \in DOMAIN rest /\ rest[i].vital
      BY <1>7, <1>10, <2>2
    <3>3. \A j \in DOMAIN rest : rest[j].vital => rest[j].msg - rest[i].msg < MaxSequence - 1
      BY <3>1, <3>2
    <3>4. e - rest[i].msg < MaxSequence - 1
      <4>1. CASE e = d
        BY <3>1, <3>2, <4>1
      <4>2. CASE e = d + 1
        <5>1. u[k].msg = e /\ k \in DOMAIN u /\ u[k].vital
          BY <1>2, <1>4, <1>8, <1>10, <1>15, <2>2, <4>2
        <5> QED BY <3>1, <3>2, <5>1
      <4> QED BY <1>9, <4>1, <4>2
    <3> QED BY <1>8, <1>10, <2>2, <3>3, <3>4
  <2> QED BY <2>1, <2>2
<1>17. DeliveredInOrder'
  <2> SUFFICES ASSUME NEW x \in Peer, ~ overrun'[Other(x)]
               PROVE  /\ Len(recv'[x]) <= sent'[Other(x)]
                      /\ \A i \in 1 .. Len(recv'[x]) : recv'[x][i] = i
    BY DEF DeliveredInOrder
  <2>1. /\ Len(recv[x]) <= sent[Other(x)]
        /\ \A i \in 1 .. Len(recv[x]) : recv[x][i] = i
    BY <1>1, <1>10 DEF DeliveredInOrder
  <2>2. CASE x # p
    BY <1>10, <2>1, <2>2
  <2>3. CASE x = p
    <3>1. CASE e = d
      BY <1>8, <1>10, <2>1, <2>3, <3>1
    <3>2. CASE e = d + 1
      <4>1. more[e] = e /\ e <= sent[q]
        BY <1>8, <1>10, <1>15, <2>3, <3>2
      <4>2. \A i \in 1 .. e : more[i] = i
        <5>1. \A i \in 1 .. d : more[i] = i
          BY <1>8, <2>1, <2>3
        <5> HIDE DEF d
        <5>2. \A i \in 1 .. e : i \in 1 .. d \/ i = e
          BY <1>2, <3>2
        <5> QED BY <4>1, <5>1, <5>2
      <4> QED BY <1>8, <1>10, <2>3, <4>1, <4>2
    <3> QED BY <1>9, <3>1, <3>2
  <2> QED BY <2>2, <2>3
<1> QED BY <1>11, <1>13, <1>14, <1>16, <1>17 DEF IInv

-----------------------------------------------------------------------------
(* The invariant                                                            *)

LEMMA InitInv == Init => IInv
<1> SUFFICES ASSUME Init PROVE IInv
  OBVIOUS
<1>1. Wire(0) = 0 /\ 0 \in SeqNo
  BY WireType, MaxSequenceAssumption DEF Wire, SeqNo
<1>2. \A q \in Peer : Other(q) \in Peer
  BY OtherPeer
<1>3. /\ << >> \in Seq(ChunkType) /\ << >> \in Seq(Nat) /\ Len(<< >>) = 0 /\ DOMAIN << >> = {}
      /\ Unknown \in TokenType /\ Token \in TokenType
      /\ \A n : AllNumbered(<< >>, n)
  <2>1. << >> \in Seq(ChunkType) /\ << >> \in Seq(Nat) /\ Len(<< >>) = 0 /\ DOMAIN << >> = {}
    BY EmptySeq
  <2> QED BY <2>1, EmptyChunks DEF TokenType
<1>4. /\ unpack = [q \in Peer |-> << >>] /\ net = {} /\ sent = [q \in Peer |-> 0]
      /\ recv = [q \in Peer |-> << >>] /\ overrun = [q \in Peer |-> FALSE]
      /\ conn = [q \in Peer |-> DirectInit(ResetConn, Other(q), Token, Token, FALSE)]
  BY DEF Init
<1>5. ASSUME NEW q \in Peer
      PROVE  LET c == DirectInit(ResetConn, Other(q), Token, Token, FALSE)
             IN  /\ c \in ConnType /\ c.out = {} /\ c.buffer = << >>
                 /\ c.construct.chunks = << >> /\ c.sequence = 0 /\ c.ack = 0
                 /\ c.peerAck = 0 /\ ~ c.unknownSeq
  <2>1. ResetConn \in ConnType
    <3>1. EmptyConstruct \in [resend : BOOLEAN, chunks : Seq(ChunkType)]
      BY <1>3 DEF EmptyConstruct
    <3> QED BY <1>1, <1>3, <3>1 DEF ResetConn, ConnType
  <2>2. Reset(ResetConn) = ResetConn
    BY DEF Reset, ResetConn
  <2>3. DirectInit(ResetConn, Other(q), Token, Token, FALSE)
          = [ResetConn EXCEPT !.state = "ONLINE", !.peerAddr = Other(q),
               !.securityToken = Token, !.token = Token, !.sixup = FALSE]
    BY <2>2, Zenon DEF DirectInit
  <2>4. /\ ResetConn.out = {} /\ ResetConn.buffer = << >> /\ ResetConn.construct.chunks = << >>
        /\ ResetConn.sequence = 0 /\ ResetConn.ack = 0 /\ ResetConn.peerAck = 0
        /\ ~ ResetConn.unknownSeq
    BY DEF ResetConn, EmptyConstruct
  <2>5. Other(q) \in Peer /\ Token \in TokenType
    BY <1>2, <1>3
  <2> DEFINE c == DirectInit(ResetConn, Other(q), Token, Token, FALSE)
             base == ResetConn
  <2> HIDE DEF c
  <2>6. /\ c \in ConnType /\ c.out = base.out /\ c.buffer = base.buffer
        /\ c.construct = base.construct /\ c.sequence = base.sequence
        /\ c.ack = base.ack /\ c.peerAck = base.peerAck
        /\ c.unknownSeq = base.unknownSeq
    <3>1. /\ base \in ConnType
          /\ c = [base EXCEPT !.state = "ONLINE", !.peerAddr = Other(q),
                    !.securityToken = Token, !.token = Token, !.sixup = FALSE]
      BY <2>1, <2>3 DEF c
    <3> HIDE DEF base
    <3> QED BY <2>5, <3>1 DEF ConnType
  <2>7. /\ c.out = {} /\ c.buffer = << >> /\ c.construct.chunks = << >>
        /\ c.sequence = 0 /\ c.ack = 0 /\ c.peerAck = 0 /\ ~ c.unknownSeq
    BY <2>4, <2>6
  <2> QED BY <2>6, <2>7 DEF c
<1>6. TypeOK
  <2>1. \A q \in Peer : conn[q] \in ConnType /\ conn[q].out = {} /\ WithinCapacity(conn[q])
    <3> SUFFICES ASSUME NEW q \in Peer
                 PROVE  conn[q] \in ConnType /\ conn[q].out = {} /\ WithinCapacity(conn[q])
      OBVIOUS
    <3>1. /\ conn[q] \in ConnType /\ conn[q].out = {} /\ conn[q].buffer = << >>
          /\ conn[q].construct.chunks = << >>
      BY <1>4, <1>5
    <3> QED BY <1>3, <3>1, CapacityAssumption DEF WithinCapacity
  <2>2. conn \in [Peer -> ConnType]
    BY <1>4, <2>1
  <2> QED BY <1>3, <1>4, <2>1, <2>2 DEF TypeOK
<1>7. Numbering
  <2>1. ASSUME NEW q \in Peer
        PROVE  ConnNumbered(conn[q], sent[q], Len(recv[q])) /\ AllNumbered(unpack[q], sent[Other(q)])
    <3>1. /\ conn[q].out = {} /\ conn[q].buffer = << >> /\ conn[q].construct.chunks = << >>
          /\ conn[q].sequence = 0 /\ conn[q].ack = 0 /\ ~ conn[q].unknownSeq
      BY <1>4, <1>5
    <3>2. sent[q] = 0 /\ Len(recv[q]) = 0 /\ unpack[q] = << >>
      BY <1>3, <1>4
    <3> QED BY <1>1, <1>3, <3>1, <3>2 DEF ConnNumbered
  <2> QED BY <1>4, <2>1 DEF Numbering
<1>8. Window
  <2> SUFFICES ASSUME NEW q \in Peer
               PROVE  /\ sent[q] - Len(recv[Other(q)]) <= BufferChunks
                      /\ IsWindow(conn[q], sent[q], sent[q] - Len(conn[q].buffer))
                      /\ sent[q] - Len(conn[q].buffer) <= Len(recv[Other(q)])
    BY DEF Window
  <2>1. /\ sent[q] = 0 /\ Len(recv[Other(q)]) = 0 /\ conn[q].buffer = << >>
        /\ conn[q].peerAck = 0
    BY <1>2, <1>3, <1>4, <1>5
  <2>2. sent[q] - Len(conn[q].buffer) = 0
    <3>1. Len(conn[q].buffer) = 0
      BY <1>3, <2>1, Zenon
    <3>2. ASSUME NEW x, x = 0, NEW y, y = 0 PROVE x - y = 0
      BY <3>2
    <3> QED BY <2>1, <3>1, <3>2, Zenon
  <2>3. IsWindow(conn[q], 0, 0)
    BY <1>1, <1>3, <2>1 DEF IsWindow
  <2> QED BY <2>1, <2>2, <2>3, CapacityAssumption
<1>9. UnpackFresh
  BY <1>3, <1>4 DEF UnpackFresh
<1>10. DeliveredInOrder
  BY <1>2, <1>3, <1>4 DEF DeliveredInOrder
<1> QED BY <1>6, <1>7, <1>8, <1>9, <1>10 DEF IInv

LEMMA StepInv == IInv /\ [Next]_vars => IInv'
<1> SUFFICES ASSUME IInv, [Next]_vars PROVE IInv'
  OBVIOUS
<1>1. ASSUME NEW p \in Peer, NEW vital \in Kinds, NEW flush \in BOOLEAN, Send(p, vital, flush)
      PROVE  IInv'
  <2>1. vital \in BOOLEAN
    BY BoundAssumption
  <2>2. conn[p].state = "ONLINE" \/ conn[p].state = "ERROR"
    BY <1>1 DEF IInv, TypeOK, ConnType, Send
  <2> QED BY <1>1, <2>1, <2>2, SendOpenStep, SendClosedStep
<1>2. ASSUME NEW p \in Peer, EndFlushBatch(p) PROVE IInv'
  BY <1>2, EndFlushBatchStep
<1>3. ASSUME NEW p \in Peer, NEW m \in net, Receive(p, m) PROVE IInv'
  BY <1>3, ReceiveStep
<1>4. ASSUME NEW p \in Peer, Unpack(p) PROVE IInv'
  BY <1>4, UnpackStep
<1>5. ASSUME NEW p \in Peer, NEW due \in SUBSET Expiring, Tick(p, due) PROVE IInv'
  BY <1>5, TickStep
<1>6. ASSUME NEW p \in Peer, Drop(p) PROVE IInv'
  BY <1>6, DropStep
<1>7. ASSUME NEW p \in Peer, ProtectTimeouts(p) PROVE IInv'
  BY <1>7, ProtectTimeoutsStep
<1>8. CASE UNCHANGED vars
  BY <1>8 DEF vars, IInv, TypeOK, Numbering, Window, UnpackFresh, DeliveredInOrder, Fresh
<1> QED BY <1>1, <1>2, <1>3, <1>4, <1>5, <1>6, <1>7, <1>8 DEF Next, Transfer

\* Every reachable state satisfies the inductive invariant.
THEOREM Invariance == Spec => []IInv
BY InitInv, StepInv, PTL DEF Spec

\* Type correctness: connections, packets and chunks have their shapes, sequence
\* numbers their range, and buffers and packets stay within their capacities.
THEOREM TypeCorrect == Spec => []TypeOK
<1>1. IInv => TypeOK
  BY DEF IInv
<1> QED BY <1>1, Invariance, PTL

\* Vital messages are delivered in order and exactly once, for any buffer size
\* of at most half the sequence space and any number of packets in flight, as
\* long as no packet is older than a turn of the sequence numbers.
THEOREM Delivery == Spec => []DeliveredInOrder
<1>1. IInv => DeliveredInOrder
  BY DEF IInv
<1> QED BY <1>1, Invariance, PTL

\* A message that was not delivered is still in the resend buffer: no
\* acknowledgement frees a chunk it was not meant for.
THEOREM Retention == Spec => []NothingForgotten
<1>1. IInv => NothingForgotten
  <2> SUFFICES ASSUME IInv, NEW p \in Peer, conn[p].state = "ONLINE", ~ overrun[p],
                      NEW i \in Len(recv[Other(p)]) + 1 .. sent[p]
               PROVE  \E j \in DOMAIN conn[p].buffer : conn[p].buffer[j].msg = i
    BY DEF NothingForgotten
  <2> DEFINE b == conn[p].buffer
             n == sent[p]
             a == n - Len(b)
  <2>1. /\ b \in Seq(ChunkType) /\ Len(b) \in Nat /\ DOMAIN b = 1 .. Len(b) /\ n \in Nat
        /\ Len(recv[Other(p)]) \in Nat
    BY OtherPeer, LenProperties DEF IInv, TypeOK, ConnType
  <2>2. IsWindow(conn[p], n, a) /\ a <= Len(recv[Other(p)])
    BY DEF IInv, Window
  <2>3. /\ a \in Nat /\ Len(b) = n - a
        /\ \A j \in 1 .. n - a : b[j] = Chunk(TRUE, Wire(a + j), a + j)
    BY <2>2 DEF IsWindow
  <2> HIDE DEF a, b
  <2>4. i - a \in 1 .. n - a /\ a + (i - a) = i
    BY <2>1, <2>2, <2>3
  <2>5. ASSUME NEW x, NEW y PROVE Chunk(TRUE, x, y).msg = y
    BY DEF Chunk
  <2>6. b[i - a].msg = i
    BY <2>3, <2>4, <2>5, Zenon
  <2>7. i - a \in DOMAIN b
    BY <2>1, <2>3, <2>4
  <2> QED BY <2>6, <2>7 DEF b
<1> QED BY <1>1, Invariance, PTL

\* On the circle of numbers, the resend buffer is the arc from the last
\* acknowledgement to the last number handed out.
THEOREM BufferWindow == Spec => []BufferIsWindow
<1>1. IInv => BufferIsWindow
  <2> SUFFICES ASSUME IInv, NEW p \in Peer, conn[p].state = "ONLINE", ~ overrun[p]
               PROVE  /\ Len(conn[p].buffer) = Forward(conn[p].peerAck, conn[p].sequence)
                      /\ \A j \in DOMAIN conn[p].buffer :
                           Forward(conn[p].peerAck, conn[p].buffer[j].seq) = j
    BY DEF BufferIsWindow
  <2> DEFINE b == conn[p].buffer
             n == sent[p]
             a == n - Len(b)
  <2>1. /\ b \in Seq(ChunkType) /\ Len(b) \in Nat /\ DOMAIN b = 1 .. Len(b) /\ n \in Nat
        /\ Len(b) <= BufferChunks
    BY LenProperties DEF IInv, TypeOK, ConnType, WithinCapacity
  <2>2. IsWindow(conn[p], n, a) /\ conn[p].sequence = Wire(n)
    BY DEF IInv, Window, Numbering, ConnNumbered
  <2>3. /\ a \in Nat /\ Len(b) = n - a /\ conn[p].peerAck = Wire(a)
        /\ \A j \in 1 .. n - a : b[j] = Chunk(TRUE, Wire(a + j), a + j)
    BY <2>2 DEF IsWindow
  <2> HIDE DEF a, b, n
  <2>4. /\ BufferChunks < MaxSequence /\ BufferChunks \in Nat /\ MaxSequence \in Nat
    BY CapacityAssumption, MaxSequenceAssumption DEF Half
  <2>5. ASSUME NEW j \in Nat, j <= n - a
        PROVE  Forward(Wire(a), Wire(a + j)) = j
    <3>1. a + j \in Nat /\ a <= a + j /\ a + j < a + MaxSequence /\ (a + j) - a = j
      BY <2>1, <2>3, <2>4, <2>5
    <3> QED BY <2>3, <3>1, ForwardWire
  <2>6. Forward(Wire(a), Wire(n)) = Len(b)
    <3>1. n - a \in Nat /\ a + (n - a) = n
      BY <2>1, <2>3
    <3> QED BY <2>3, <2>5, <3>1
  <2>7. ASSUME NEW x, NEW y PROVE Chunk(TRUE, x, y).seq = x
    BY DEF Chunk
  <2>8. ASSUME NEW j \in DOMAIN b PROVE b[j].seq = Wire(a + j)
    <3>1. j \in 1 .. n - a
      BY <2>1, <2>3, <2>8
    <3>2. b[j] = Chunk(TRUE, Wire(a + j), a + j)
      BY <2>3, <3>1
    <3> QED BY <3>2, <2>7, Zenon
  <2>9. \A j \in DOMAIN b : Forward(Wire(a), b[j].seq) = j
    <3>1. \A j \in DOMAIN b : j \in Nat /\ j <= n - a
      BY <2>1, <2>3
    <3> QED BY <2>5, <2>8, <3>1
  <2> QED BY <2>2, <2>3, <2>6, <2>9 DEF b
<1> QED BY <1>1, Invariance, PTL
-----------------------------------------------------------------------------
\* No application sends more than MaxSend messages.
SentBound == \A p \in Peer : sent[p] <= MaxSend[p]

LEMMA SentBounded == Spec => []SentBound
<1>1. Init => SentBound
  BY BoundAssumption DEF Init, SentBound
<1>2. IInv /\ SentBound /\ [Next]_vars => SentBound'
  <2> SUFFICES ASSUME IInv, SentBound, [Next]_vars  PROVE SentBound'
    OBVIOUS
  <2>0. /\ sent \in [Peer -> Nat]
        /\ \A p \in Peer : sent[p] \in Nat /\ MaxSend[p] \in Nat
    BY BoundAssumption DEF IInv, TypeOK
  <2>1. ASSUME NEW p \in Peer, NEW vital \in Kinds, NEW flush \in BOOLEAN,
               Send(p, vital, flush)
        PROVE  SentBound'
    <3>1. /\ vital => sent[p] < MaxSend[p]
          /\ sent' = [sent EXCEPT ![p] = IF vital /\ CanQueue(conn[p]) THEN @ + 1 ELSE @]
      BY <2>1 DEF Send
    <3> QED BY <3>1, <2>0 DEF SentBound
  <2>2. ASSUME UNCHANGED sent
        PROVE  SentBound'
    BY <2>2 DEF SentBound
  <2>3. ASSUME NEW p \in Peer,
               \/ EndFlushBatch(p) \/ Unpack(p) \/ ProtectTimeouts(p) \/ Drop(p)
               \/ \E m \in net : Receive(p, m)
               \/ \E due \in SUBSET Expiring : Tick(p, due)
        PROVE  UNCHANGED sent
    BY <2>3 DEF EndFlushBatch, Unpack, ProtectTimeouts, Drop, Receive, Tick
  <2> QED BY <2>1, <2>2, <2>3 DEF Next, Transfer, vars
<1> QED BY <1>1, <1>2, Invariance, PTL DEF Spec

-----------------------------------------------------------------------------
(* The refinement: each direction is the queue of ReliableLink.             *)

\* Both modules mean the same peer.
LEMMA OtherOfLink == \A p : Link!Other(p) = Other(p)
BY DEF Link!Other, Other

\* The numbers from g + 1 to n, as a queue.
LEMMA NumbersQueue ==
  ASSUME NEW g \in Nat, NEW n \in Nat, g <= n
  PROVE  LET s == [i \in 1 .. n - g |-> g + i]
         IN  /\ s \in Seq(Nat) /\ Len(s) = n - g
             /\ Append(s, n + 1) = [i \in 1 .. (n + 1) - g |-> g + i]
             /\ g < n => /\ s # << >> /\ Head(s) = g + 1
                         /\ Tail(s) = [i \in 1 .. n - (g + 1) |-> (g + 1) + i]
<1> DEFINE m == n - g
           s == [i \in 1 .. m |-> g + i]
<1>1. m \in Nat /\ n = g + m
  OBVIOUS
<1> HIDE DEF m
<1>2. s \in Seq(Nat) /\ Len(s) = m
  BY <1>1
<1>3. Append(s, n + 1) = [i \in 1 .. m + 1 |-> IF i <= m THEN s[i] ELSE n + 1]
  BY <1>1, <1>2
<1>4. \A i \in 1 .. m + 1 : (IF i <= m THEN s[i] ELSE n + 1) = g + i
  BY <1>1
<1>5. Append(s, n + 1) = [i \in 1 .. m + 1 |-> g + i]
  BY <1>3, <1>4
<1>6. ASSUME g < n
      PROVE  /\ s # << >> /\ Head(s) = g + 1
             /\ Tail(s) = [i \in 1 .. m - 1 |-> (g + 1) + i]
  <2>1. m >= 1
    BY <1>1, <1>6
  <2>2. s # << >> /\ Head(s) = s[1] /\ s[1] = g + 1
    BY <2>1, <1>1, <1>2
  <2>3. Tail(s) = [i \in 1 .. m - 1 |-> s[i + 1]]
    BY <2>2, <1>1, <1>2
  <2>4. \A i \in 1 .. m - 1 : s[i + 1] = (g + 1) + i
    BY <1>1
  <2> QED BY <2>2, <2>3, <2>4
<1>7. (n + 1) - g = m + 1 /\ n - (g + 1) = m - 1 /\ n - g = m
  BY <1>1
<1> QED BY <1>2, <1>5, <1>6, <1>7

\* What is queued for the other application.
LEMMA UndeliveredSeq ==
  ASSUME IInv, NEW p \in Peer
  PROVE  /\ Len(recv[Other(p)]) \in Nat /\ sent[p] \in Nat
         /\ ~ overrun[p] => /\ Len(recv[Other(p)]) <= sent[p]
                            /\ Len(Undelivered(p)) = sent[p] - Len(recv[Other(p)])
                            /\ Undelivered(p) \in Seq(Nat)
<1>1. /\ Other(p) \in Peer /\ Other(Other(p)) = p
      /\ recv[Other(p)] \in Seq(Nat) /\ sent[p] \in Nat
  BY OtherPeer DEF IInv, TypeOK
<1>2. ~ overrun[p] => Len(recv[Other(p)]) <= sent[p]
  BY <1>1 DEF IInv, DeliveredInOrder
<1>3. Len(recv[Other(p)]) \in Nat
  BY <1>1
<1> QED BY <1>1, <1>2, <1>3, NumbersQueue DEF Undelivered

\* A step that neither queues nor delivers a message is none of the link.
LEMMA LinkStutters ==
  ASSUME UNCHANGED <<sent, recv, overrun>>
  PROVE  UNCHANGED Link!vars
BY DEF Link!vars, Undelivered

\* The application of p sends.
LEMMA SendLink ==
  ASSUME IInv, IInv', NEW p \in Peer, NEW vital \in Kinds, NEW flush \in BOOLEAN,
         Send(p, vital, flush)
  PROVE  [Link!Next]_(Link!vars)
<1> DEFINE Q == [q \in Peer |-> Undelivered(q)]
<1>0. /\ sent' = [sent EXCEPT ![p] = IF vital /\ CanQueue(conn[p]) THEN @ + 1 ELSE @]
      /\ overrun' = [overrun EXCEPT ![p] = @ \/ Overruns(conn[p], vital)]
      /\ recv' = recv
  BY DEF Send
<1>1. /\ sent \in [Peer -> Nat] /\ overrun \in [Peer -> BOOLEAN]
      /\ Overruns(conn[p], vital) \in BOOLEAN /\ vital \in BOOLEAN
  BY BoundAssumption DEF IInv, TypeOK, Overruns
<1>2. \A q \in Peer \ {p} : Undelivered(q)' = Undelivered(q)
  BY <1>0, <1>1 DEF Undelivered
<1>3. CASE Overruns(conn[p], vital)
  <2>1. overrun' = [overrun EXCEPT ![p] = TRUE] /\ overrun'[p]
    BY <1>0, <1>1, <1>3
  <2>2. Undelivered(p)' = << >>
    BY <2>1 DEF Undelivered
  <2>3. Q' = [Q EXCEPT ![p] = << >>]
    BY <1>2, <2>2
  <2>4. Link!Break(p)
    BY <1>0, <2>1, <2>3 DEF Link!Break
  <2> QED BY <2>4 DEF Link!Next
<1>4. CASE ~ Overruns(conn[p], vital)
  <2>1. overrun' = overrun
    BY <1>0, <1>1, <1>4
  <2>2. CASE overrun[p] \/ ~ (vital /\ CanQueue(conn[p]))
    <3>1. Undelivered(p)' = Undelivered(p)
      <4>1. CASE overrun[p]
        BY <4>1, <2>1 DEF Undelivered
      <4>2. CASE ~ (vital /\ CanQueue(conn[p]))
        BY <4>2, <1>0, <1>1, <2>1 DEF Undelivered
      <4> QED BY <4>1, <4>2, <2>2
    <3> QED BY <3>1, <1>0, <1>2, <2>1 DEF Link!vars
  <2>3. CASE ~ overrun[p] /\ vital /\ CanQueue(conn[p])
    <3> DEFINE g == Len(recv[Other(p)])
               n == sent[p]
    <3>1. sent'[p] = n + 1
      BY <1>0, <1>1, <2>3
    <3>2. /\ g \in Nat /\ n \in Nat /\ g <= n
          /\ Undelivered(p) = [i \in 1 .. n - g |-> g + i]
      BY <2>3, UndeliveredSeq DEF Undelivered
    <3>3. Undelivered(p)' = [i \in 1 .. (n + 1) - g |-> g + i]
      BY <1>0, <2>1, <2>3, <3>1 DEF Undelivered
    <3>4. g + Len(Undelivered(p)) + 1 = n + 1
      BY <3>2, <2>3, UndeliveredSeq
    <3>5. Undelivered(p)' = Append(Undelivered(p), n + 1)
      <4> HIDE DEF g, n
      <4> QED BY <3>2, <3>3, NumbersQueue
    <3>6. Link!NextMessage(p) = n + 1
      BY <3>4, OtherOfLink DEF Link!NextMessage
    <3>7. Q' = [Q EXCEPT ![p] = Append(@, n + 1)]
      BY <1>2, <3>5
    <3>8. Link!Send(p)
      BY <1>0, <2>1, <2>3, <3>6, <3>7 DEF Link!Send
    <3> QED BY <3>8 DEF Link!Next
  <2> QED BY <2>2, <2>3
<1> QED BY <1>3, <1>4

\* The application of p asks for the next chunk.
LEMMA UnpackLink ==
  ASSUME IInv, IInv', SentBound, NEW p \in Peer, Unpack(p)
  PROVE  [Link!Next]_(Link!vars)
<1> DEFINE o == Other(p)
           n == NextTaken(conn[p], unpack[p])
           returned == n <= Len(unpack[p]) /\ conn[p].state # "OFFLINE"
           Q == [q \in Peer |-> Undelivered(q)]
<1>0. /\ recv' = [recv EXCEPT ![p] = IF returned /\ unpack[p][n].vital
                                     THEN Append(@, unpack[p][n].msg) ELSE @]
      /\ UNCHANGED <<sent, overrun>>
  BY DEF Unpack
<1>1. /\ o \in Peer /\ o # p /\ Other(o) = p /\ recv[p] \in Seq(Nat)
      /\ \A q \in Peer : q = p \/ q = o
      /\ unpack[p] \in Seq(ChunkType) /\ recv \in [Peer -> Seq(Nat)]
  BY OtherPeer DEF IInv, TypeOK
<1>2. n \in 1 .. Len(unpack[p]) + 1
  BY <1>1, NextTakenStops
<1>2a. Len(unpack[p]) \in Nat /\ DOMAIN unpack[p] = 1 .. Len(unpack[p])
       /\ \A i \in 1 .. Len(unpack[p]) : unpack[p][i].msg \in Nat
  <2>1. /\ Len(unpack[p]) \in Nat /\ DOMAIN unpack[p] = 1 .. Len(unpack[p])
        /\ \A i \in 1 .. Len(unpack[p]) : unpack[p][i] \in ChunkType
    BY <1>1, LenProperties, ElementOfSeq
  <2> QED BY <2>1 DEF ChunkType
<1>2b. returned => n \in 1 .. Len(unpack[p])
  <2> HIDE DEF n
  <2> QED BY <1>2, <1>2a
<1> HIDE DEF n, returned
<1>3. CASE ~ (returned /\ unpack[p][n].vital)
  <2>1. recv' = recv
    BY <1>0, <1>1, <1>3
  <2> QED BY <1>0, <2>1, LinkStutters
<1>4. CASE returned /\ unpack[p][n].vital
  <2> DEFINE msg == unpack[p][n].msg
  <2>1. n \in DOMAIN unpack[p] /\ msg \in Nat
    BY <1>2a, <1>2b, <1>4
  <2>2. recv' = [recv EXCEPT ![p] = Append(recv[p], msg)]
    BY <1>0, <1>4
  <2>3. Undelivered(p)' = Undelivered(p)
    <3>1. recv'[o] = recv[o]
      BY <1>1, <2>2
    <3>2. sent' = sent /\ overrun' = overrun
      BY <1>0
    <3> QED BY <3>1, <3>2 DEF Undelivered
  <2>4. CASE overrun[o]
    <3>1. msg \in 1 .. sent[o]
      BY <1>4, <2>1 DEF IInv, Numbering, AllNumbered
    <3>2. msg \in 1 .. MaxSend[o]
      <4>1. sent[o] <= MaxSend[o] /\ sent[o] \in Nat /\ MaxSend[o] \in Nat
        BY <1>1, BoundAssumption DEF SentBound, IInv, TypeOK
      <4> QED BY <3>1, <4>1
    <3>3. msg \in UNION {1 .. MaxSend[q] : q \in Peer}
      BY <1>1, <3>2
    <3>4. Undelivered(o)' = Undelivered(o)
      BY <1>0, <2>4 DEF Undelivered
    <3>5. Q' = Q
      BY <1>1, <2>3, <3>4
    <3>6. Link!DeliverBroken(p)
      BY <1>0, <1>1, <2>2, <2>4, <3>3, <3>5, OtherOfLink DEF Link!DeliverBroken
    <3> QED BY <3>6 DEF Link!Next
  <2>5. CASE ~ overrun[o]
    <3> DEFINE g == Len(recv[p])
    <3>1. g \in Nat /\ recv'[p] = Append(recv[p], msg) /\ Len(recv'[p]) = g + 1
          /\ recv'[p][g + 1] = msg
      BY <1>1, <2>1, <2>2
    <3>2. g + 1 <= sent[o] /\ msg = g + 1
      <4>1. ~ overrun'[o]
        BY <1>0, <2>5
      <4>2. /\ Len(recv'[p]) <= sent'[o]
            /\ \A i \in 1 .. Len(recv'[p]) : recv'[p][i] = i
        BY <4>1 DEF IInv, DeliveredInOrder
      <4> QED BY <1>0, <3>1, <4>2
    <3>3. sent[o] \in Nat
      BY <1>1 DEF IInv, TypeOK
    <3> DEFINE N == sent[o]
               u == [i \in 1 .. N - g |-> g + i]
    <3>4. Undelivered(o) = u
      BY <1>1, <2>5 DEF Undelivered
    <3>5. Undelivered(o)' = [i \in 1 .. sent[o] - (g + 1) |-> (g + 1) + i]
      BY <1>0, <1>1, <2>5, <3>1 DEF Undelivered
    <3>6. /\ u \in Seq(Nat) /\ Len(u) = N - g /\ u # << >> /\ Head(u) = msg
          /\ Tail(u) = [i \in 1 .. N - (g + 1) |-> (g + 1) + i]
      <4>1. g \in Nat /\ N \in Nat /\ g < N /\ g <= N
        BY <3>1, <3>2, <3>3
      <4> HIDE DEF g, N
      <4> QED BY <4>1, <3>2, NumbersQueue
    <3>7. Undelivered(o)' = Tail(u)
      BY <3>5, <3>6
    <3> HIDE DEF u
    <3>8. Q' = [Q EXCEPT ![o] = Tail(@)]
      BY <1>1, <2>3, <3>4, <3>7
    <3>9. Link!Deliver(p)
      <4>1. Q[o] # << >> /\ Head(Q[o]) = msg
        BY <1>1, <3>4, <3>6
      <4> QED BY <1>0, <1>1, <2>2, <3>8, <4>1, OtherOfLink DEF Link!Deliver
    <3> QED BY <3>9 DEF Link!Next
  <2> QED BY <2>4, <2>5
<1> QED BY <1>3, <1>4

\* The connection implements ReliableLink: until a sender outruns its resend
\* buffer, the other application gets its messages one at a time, in order and
\* once, whatever the network does with the packets.
THEOREM LinkImplemented == Spec => ImplementsLink
<1>1. Init => Link!Init
  <2> SUFFICES ASSUME Init  PROVE Link!Init
    OBVIOUS
  <2>1. ASSUME NEW p \in Peer  PROVE Undelivered(p) = << >>
    <3>1. Other(p) \in Peer
      BY OtherPeer
    <3> QED BY <3>1 DEF Init, Undelivered
  <2> QED BY <2>1 DEF Init, Link!Init
<1>2. IInv /\ IInv' /\ SentBound /\ [Next]_vars => [Link!Next]_(Link!vars)
  <2> SUFFICES ASSUME IInv, IInv', SentBound, [Next]_vars
               PROVE  [Link!Next]_(Link!vars)
    OBVIOUS
  <2>1. ASSUME NEW p \in Peer, NEW vital \in Kinds, NEW flush \in BOOLEAN,
               Send(p, vital, flush)
        PROVE  [Link!Next]_(Link!vars)
    BY <2>1, SendLink
  <2>2. ASSUME NEW p \in Peer, Unpack(p)
        PROVE  [Link!Next]_(Link!vars)
    BY <2>2, UnpackLink
  <2>3. ASSUME NEW p \in Peer,
               \/ EndFlushBatch(p) \/ ProtectTimeouts(p) \/ Drop(p)
               \/ \E m \in net : Receive(p, m)
               \/ \E due \in SUBSET Expiring : Tick(p, due)
        PROVE  [Link!Next]_(Link!vars)
    <3>1. UNCHANGED <<sent, recv, overrun>>
      BY <2>3 DEF EndFlushBatch, ProtectTimeouts, Drop, Receive, Tick
    <3> QED BY <3>1, LinkStutters
  <2>4. CASE UNCHANGED vars
    BY <2>4, LinkStutters DEF vars
  <2> QED BY <2>1, <2>2, <2>3, <2>4 DEF Next, Transfer
<1> QED BY <1>1, <1>2, Invariance, SentBounded, PTL DEF Spec, ImplementsLink
=============================================================================
