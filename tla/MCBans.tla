------------------------------- MODULE MCBans -------------------------------
(* An instance of Bans: one address and one range of addresses of two bytes, *)
(* each 0 or 1, hashed to two values.                                        *)
EXTENDS Bans

V4(a, b) == [type |-> "v4", ip |-> <<a, b>>]
TwoAddrs == {V4(0, 1), V4(1, 0)}
OneWide == {[lb |-> V4(0, 1), ub |-> V4(1, 0)]}
Home == V4(0, 0)
=============================================================================
