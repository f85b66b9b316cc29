---------------------------- MODULE ReliableLink ----------------------------
(***************************************************************************)
(* What an established connection promises to the two applications: in     *)
(* each direction a queue from which the messages come out one at a time,  *)
(* in order and once.  A sender that queues faster than the other side     *)
(* acknowledges breaks its direction; nothing is promised for it any more. *)
(***************************************************************************)
EXTENDS Naturals, Sequences

CONSTANTS
  Peer,
  Messages   \* the numbers messages carry

VARIABLES
  queue,     \* queue[p]: messages of p that the other application has not got
  got,       \* got[p]: messages the application of p was given
  broken     \* broken[p]: the direction from p is broken

vars == <<queue, got, broken>>

Other(p) == CHOOSE q \in Peer : q # p

Init ==
  /\ queue = [p \in Peer |-> << >>]
  /\ got = [p \in Peer |-> << >>]
  /\ broken = [p \in Peer |-> FALSE]

\* The messages of p are numbered in the order they are sent.
NextMessage(p) == Len(got[Other(p)]) + Len(queue[p]) + 1

Send(p) ==
  /\ ~ broken[p]
  /\ queue' = [queue EXCEPT ![p] = Append(@, NextMessage(p))]
  /\ UNCHANGED <<got, broken>>

Deliver(p) ==
  /\ queue[Other(p)] # << >>
  /\ got' = [got EXCEPT ![p] = Append(@, Head(queue[Other(p)]))]
  /\ queue' = [queue EXCEPT ![Other(p)] = Tail(@)]
  /\ UNCHANGED broken

Break(p) ==
  /\ broken' = [broken EXCEPT ![p] = TRUE]
  /\ queue' = [queue EXCEPT ![p] = << >>]
  /\ UNCHANGED got

DeliverBroken(p) ==
  /\ broken[Other(p)]
  /\ \E i \in Messages : got' = [got EXCEPT ![p] = Append(@, i)]
  /\ UNCHANGED <<queue, broken>>

Next == \E p \in Peer : Send(p) \/ Deliver(p) \/ Break(p) \/ DeliverBroken(p)

Spec == Init /\ [][Next]_vars
=============================================================================
