--------------------------- MODULE MCNetHandshake ---------------------------
(* Instances of NetHandshake for TLC.                                       *)
EXTENDS NetHandshake, TLC

CONSTANTS c1, c2, ip, otherIp

\* Two clients behind one address translator, or at two addresses.
SameIp  == (c1 :> ip) @@ (c2 :> ip)
OwnIps  == (c1 :> ip) @@ (c2 :> otherIp)
=============================================================================
