------------------------------- MODULE MCGame -------------------------------
(***************************************************************************)
(* What players share: the pool behind the ranks and the saves of the      *)
(* server, DbPool, its teams, Teams, and the chat of the client, Chat with *)
(* ChatHelper and ChatQueue.  They share no state, and a behaviour runs    *)
(* the case chosen in its initial state:                                   *)
(*   "db"        four queries in a ring of three slots, two pending, with  *)
(*               databases that are added, fail and come back;             *)
(*   "save"      two tees race, save, load and swap in a team, and a team  *)
(*               that is loaded may have an invalid tee;                   *)
(*   "helper"    three messages, any of them spam, to two buffers of two,  *)
(*               and a line the player types;                              *)
(*   "queue"     six lines that are typed, of which three can wait.        *)
(***************************************************************************)
EXTENDS DbPool, Chat, Teams

VARIABLE case

MCInit ==
  /\ Init /\ ChatInit /\ TeamsInit
  /\ case \in {"db", "save", "helper", "queue"}

\* A step A of case c, which leaves the others alone.
In(c, A) ==
  /\ case = c
  /\ A
  /\ UNCHANGED case
  /\ c # "db" => UNCHANGED vars
  /\ c # "save" => UNCHANGED teamsVars
  /\ c # "helper" => UNCHANGED helperVars
  /\ c # "queue" => UNCHANGED queueVars

MCNext ==
  \/ In("db", Next)
  \/ In("save", TeamsNext)
  \/ In("helper", Helper!Next)
  \/ In("queue", Queue!Next)

MCSpec ==
  MCInit /\ [][MCNext]_<<case, vars, teamsVars, helperVars, queueVars>>
=============================================================================
