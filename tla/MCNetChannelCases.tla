------------------------- MODULE MCNetChannelCases --------------------------
(***************************************************************************)
(* Four instances of NetChannel, of which a behaviour runs the one chosen  *)
(* in its initial state:                                                   *)
(*   "batch"   packets of two chunks, and more messages than the resend    *)
(*             buffer holds, over a network that reorders;                 *)
(*   "wrap"    a direction sends past a full turn of the numbers, over a   *)
(*             network that reorders;                                      *)
(*   "duplex"  both directions send, so that packets with chunks carry the *)
(*             acknowledgements;                                           *)
(*   "end"     the connection may end: dropped by the application, timed   *)
(*             out, protected against timeouts; chunks that are not vital. *)
(* The constants of this module are the largest that a case has, so that   *)
(* the properties of NetChannel speak of all of them.                      *)
(***************************************************************************)
EXTENDS MCNetChannel

VARIABLE case

Batch == INSTANCE NetChannel WITH MaxSend <- Three

Wrap == INSTANCE NetChannel WITH PacketChunks <- 1

Duplex == INSTANCE NetChannel WITH
  MaxSend <- Both, MaxInFlight <- 1,
  Expiring <- {"answer", "resend", "flush", "keepalive"}

End == INSTANCE NetChannel WITH
  Quitters <- {b}, Protecting <- {a}, Kinds <- BOOLEAN, MaxSend <- One,
  MaxInFlight <- 1,
  Expiring <- {"resend", "flush", "timeout", "weak", "protection"}

CasesInit == Init /\ case \in {"batch", "wrap", "duplex", "end"}

BatchNext  == case = "batch" /\ Batch!Next /\ UNCHANGED case
WrapNext   == case = "wrap" /\ Wrap!Next /\ UNCHANGED case
DuplexNext == case = "duplex" /\ Duplex!Next /\ UNCHANGED case
EndNext    == case = "end" /\ End!Next /\ UNCHANGED case

CasesNext == BatchNext \/ WrapNext \/ DuplexNext \/ EndNext

CasesSpec == CasesInit /\ [][CasesNext]_<<vars, case>>
=============================================================================
