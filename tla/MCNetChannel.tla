---------------------------- MODULE MCNetChannel ----------------------------
(* Instances of NetChannel for TLC: how many messages each peer sends.       *)
EXTENDS NetChannel, TLC

CONSTANTS a, b

MCPeer == {a, b}

One    == (a :> 1) @@ (b :> 0)
Two    == (a :> 2) @@ (b :> 0)
Both   == (a :> 2) @@ (b :> 1)
Three  == (a :> 3) @@ (b :> 0)
OneWay == (a :> 5) @@ (b :> 0)   \* past a full turn of the four numbers

\* The peers of a connection that nobody ends.
LiveSpec == Init /\ [][\E p \in Peer : Transfer(p)]_vars /\ Fairness
=============================================================================
