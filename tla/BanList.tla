------------------------------ MODULE BanList ------------------------------
(* What a list of bans promises: the targets that are banned and until when, *)
(* changed by one ban at a time, except that the expired ones go together.   *)
EXTENDS Integers, FiniteSets

CONSTANTS Addrs, Ranges, MAX_BANS

VARIABLES
    banned,     \* the time each banned target is banned until, -1 for ever
    now

vars == <<banned, now>>

Never == -1

RoomFor(t) ==
    Cardinality(DOMAIN banned \cap (IF t \in Addrs THEN Addrs ELSE Ranges)) < MAX_BANS

Without(T) == [t \in DOMAIN banned \ T |-> banned[t]]

Init == banned = <<>> /\ now = 0

\* A target is banned, or the time of its ban is changed.
Ban(t) ==
    /\ t \in DOMAIN banned \/ RoomFor(t)
    /\ DOMAIN banned' = DOMAIN banned \cup {t}
    /\ \A s \in DOMAIN banned \ {t} : banned'[s] = banned[s]
    /\ banned'[t] = Never \/ banned'[t] > now
    /\ UNCHANGED now

Unban(t) == banned' = Without({t}) /\ UNCHANGED now

UnbanAll == banned' = <<>> /\ UNCHANGED now

\* Every ban whose time is over goes, and no other.
Expire ==
    /\ banned' = Without({t \in DOMAIN banned : banned[t] # Never /\ banned[t] < now})
    /\ UNCHANGED now

Tick == now' = now + 1 /\ UNCHANGED banned

Next ==
    \/ \E t \in Addrs \cup Ranges : Ban(t)
    \/ \E t \in DOMAIN banned : Unban(t)
    \/ UnbanAll
    \/ Expire
    \/ Tick

Spec == Init /\ [][Next]_vars
=============================================================================
