------------------------------- MODULE MCData -------------------------------
(***************************************************************************)
(* The data structures that count: AsyncIo and RingBuffer; and the         *)
(* arithmetic of the sequence numbers of a connection, SeqTriples, for     *)
(* every triple of numbers.  They share no state: a behaviour is one of    *)
(* one part, chosen in the initial state.                                  *)
(*                                                                         *)
(* The 190 bytes are seven headers: an item of 80 bytes takes five of      *)
(* them, 25 bytes three, 24 bytes two, none one, and 180 bytes do not fit. *)
(***************************************************************************)
EXTENDS AsyncIo, RingBuffer, SeqTriples

VARIABLE part  \* "numbers", "buffer" or "io"

all == <<part, triple, buf, vars>>

\* A line of one write and one of two.
TwoLines == {<<1>>, <<2, 1>>}

MCInit ==
  /\ part \in {"numbers", "buffer", "io"}
  /\ TriplesInit
  /\ part # "numbers" => triple = <<0, 0, 0>>
  /\ RingInit /\ Init
  /\ part # "buffer" => ~ buf.recycle

MCNext ==
  \/ part = "numbers" /\ UNCHANGED all
  \/ part = "buffer" /\ RingNext /\ UNCHANGED <<part, triple, vars>>
  \/ part = "io" /\ Next /\ UNCHANGED <<part, triple, buf>>

MCSpec == MCInit /\ [][MCNext]_all
=============================================================================
