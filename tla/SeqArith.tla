------------------------------ MODULE SeqArith ------------------------------
(***************************************************************************)
(* The arithmetic of sequence numbers of the connection-oriented protocol  *)
(* of engine/shared.  Vital chunks are numbered modulo NET_MAX_SEQUENCE    *)
(* (1024: ten bits in the chunk header), and acknowledgements are compared *)
(* on the circle in two ways: IsSeqInBackroom decides whether a chunk is   *)
(* "an old one", and the window check of CNetConnection::Feed decides      *)
(* whether an acknowledgement lies between the last one accepted and the   *)
(* last sequence number handed out.                                        *)
(***************************************************************************)
EXTENDS Integers

CONSTANT MaxSequence      \* NET_MAX_SEQUENCE

ASSUME MaxSequenceAssumption ==
  /\ MaxSequence \in Nat
  /\ MaxSequence > 2
  /\ MaxSequence % 2 = 0

Half == MaxSequence \div 2

\* The values of m_Sequence, m_Ack and m_PeerAck.
SeqNo == 0 .. MaxSequence - 1

NextSeq(seq) == (seq + 1) % MaxSequence

\* The number on the wire of the i-th vital chunk of a connection.
Wire(i) == i % MaxSequence

\* Mutant of IsSeqInBackroom: the lower end is excluded when it wraps.
IsSeqInBackroomShort(seq, ack) ==
  LET bottom == ack - Half
  IN  IF bottom < 0
      THEN seq <= ack \/ seq > bottom + MaxSequence
      ELSE seq <= ack /\ seq >= bottom

\* CNetBase::IsSeqInBackroom: seq is among the Half numbers before ack, or ack.
IsSeqInBackroom(seq, ack) ==
  LET bottom == ack - Half
  IN  IF bottom < 0
      THEN seq <= ack \/ seq >= bottom + MaxSequence
      ELSE seq <= ack /\ seq >= bottom

\* Mutant of IsAckValid: the window that wraps is forgotten.
IsAckValidNoWrap(ack, peerAck, sequence) == ack >= peerAck /\ ack <= sequence

\* The check at the head of CNetConnection::Feed ("own sequence..latest peer
\* ack"): not one of the two rejections applies.
IsAckValid(ack, peerAck, sequence) ==
  IF sequence >= peerAck
  THEN ~ (ack < peerAck \/ ack > sequence)
  ELSE ~ (ack < peerAck /\ ack > sequence)

-----------------------------------------------------------------------------
(* Reference definitions: the distance walked forward on the circle.        *)

Forward(from, to) == IF to >= from THEN to - from ELSE to - from + MaxSequence

\* The chunk sent at distance at most Half before ack.
RefBackroom(seq, ack) == Forward(seq, ack) <= Half

\* Walking from peerAck, one meets ack no later than sequence.
RefAckValid(ack, peerAck, sequence) ==
  Forward(peerAck, ack) <= Forward(peerAck, sequence)
=============================================================================
