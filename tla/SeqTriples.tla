----------------------------- MODULE SeqTriples -----------------------------
(***************************************************************************)
(* The comparisons of sequence numbers, for every triple of numbers: the   *)
(* triple is chosen in the initial state, and nothing happens to it.       *)
(***************************************************************************)
EXTENDS SeqArith

VARIABLE triple   \* three sequence numbers

TriplesInit == triple \in SeqNo \X SeqNo \X SeqNo

TriplesSpec == TriplesInit /\ [][FALSE]_triple

\* The case distinction of IsSeqInBackroom, with its detour below zero, is the
\* distance on the circle, and the two rejections at the head of Feed leave
\* exactly the numbers from the last acknowledgement to the last number handed
\* out.
ComparesOnCircle ==
  /\ IsSeqInBackroom(triple[1], triple[2]) <=> RefBackroom(triple[1], triple[2])
  /\ IsAckValid(triple[1], triple[2], triple[3])
       <=> RefAckValid(triple[1], triple[2], triple[3])
=============================================================================
