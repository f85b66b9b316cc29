------------------------ MODULE MCNetHandshakeCases -------------------------
(***************************************************************************)
(* Two instances of NetHandshake, of which a behaviour runs the one chosen *)
(* in its initial state:                                                   *)
(*   "rejoin"  one client that comes and goes with both versions, with     *)
(*             three packets in flight and room for a second slot of its   *)
(*             address;                                                    *)
(*   "limit"   two clients behind one address translator of which the      *)
(*             server takes one, with timeouts and their protection.       *)
(* The constants of this module are those of "limit", and the larger ones  *)
(* of either where they only bound a type.                                 *)
(***************************************************************************)
EXTENDS MCNetHandshake

VARIABLE case

Rejoin == INSTANCE NetHandshake WITH
  Client <- {c1}, MaxClientsPerIp <- 2, Protecting <- {}, Dropping <- {0},
  Expiring <- {"timeout", "flush"}

Limit == INSTANCE NetHandshake WITH
  Protocols <- {FALSE}, Limiting <- BOOLEAN, MaxInFlight <- 2,
  Expiring <- {"timeout", "protection"}

CasesInit == Init /\ case \in {"rejoin", "limit"}

RejoinNext == case = "rejoin" /\ Rejoin!Next /\ UNCHANGED case
LimitNext  == case = "limit" /\ Limit!Next /\ UNCHANGED case

CasesSpec == CasesInit /\ [][RejoinNext \/ LimitNext]_<<vars, case>>
=============================================================================
