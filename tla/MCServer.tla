------------------------------ MODULE MCServer ------------------------------
(***************************************************************************)
(* The parts of the game server that need no database: the registration    *)
(* with the master server, Register, the teams that are not saved, Teams,  *)
(* and the bans, Bans.  They share no state, and a behaviour runs the case *)
(* chosen in its initial state:                                            *)
(*   "pool"     a pool of three bans for four addresses of two hashes;     *)
(*   "alike"    a pool of two for three addresses hashed alike;            *)
(*   "clients"  bans of addresses and ranges with clients connected;       *)
(*   "file"     bans that are saved, and restored by the next start;       *)
(*   "one"      a protocol with two requests under way, and a fault;       *)
(*   "again"    a restart of the game server, and a fault;                 *)
(*   "two"      two protocols that share the entry of the master, and      *)
(*              changes of sv_register;                                    *)
(*   "practice" three tees, for two in a team, with practice mode, team 0  *)
(*              mode and swaps.                                            *)
(* Addresses have two bytes, each 0 or 1, and two hashes.                  *)
(***************************************************************************)
EXTENDS Register, Teams

CONSTANTS NoData, NoAddr, s1, s2

VARIABLES
  case,
  \* Bans:
  addrPool, rangePool, now, client, level, file, todo, promised, banSaves

banVars == <<addrPool, rangePool, now, client, level, file, todo, promised, banSaves>>

V4(a, b) == [type |-> "v4", ip |-> <<a, b>>]
R(l, u) == [lb |-> l, ub |-> u]
Two == {V4(0, 1), V4(1, 0)}
Wide == R(V4(0, 1), V4(1, 0))
Narrow == R(V4(1, 0), V4(1, 1))
Four == {V4(a, b) : a, b \in 0 .. 1}
Three == Two \cup {V4(1, 1)}
Home == V4(0, 0)
Far == V4(7, 7)
Ranges2 == {Wide, Narrow}
OneAddr == {V4(0, 1)}
WideOnly == {Wide}

Pool == INSTANCE Bans WITH
  MAX_BANS <- 3, HashSize <- 2, Length <- 2, ByteSize <- 2,
  Addrs <- Four, Ranges <- {}, PeerAddrs <- {}, Local <- Far, Slots <- {},
  Levels <- {}, Minutes <- {0, 1}, MinuteLength <- 1, MaxNow <- 2, MaxSaves <- 0,
  saves <- banSaves

Alike == INSTANCE Bans WITH
  MAX_BANS <- 2, HashSize <- 1, Length <- 2, ByteSize <- 2,
  Addrs <- Three, Ranges <- {}, PeerAddrs <- {}, Local <- Far, Slots <- {},
  Levels <- {}, Minutes <- {0, 1}, MinuteLength <- 1, MaxNow <- 2, MaxSaves <- 0,
  saves <- banSaves

Connected == INSTANCE Bans WITH
  MAX_BANS <- 2, HashSize <- 2, Length <- 2, ByteSize <- 2, Addrs <- Two,
  Ranges <- Ranges2, PeerAddrs <- Two,
  Local <- Home, Slots <- {s1, s2}, Levels <- {1, 2}, Minutes <- {0, 1},
  MinuteLength <- 1, MaxNow <- 2, MaxSaves <- 0,
  saves <- banSaves

File == INSTANCE Bans WITH
  MAX_BANS <- 2, HashSize <- 2, Length <- 2, ByteSize <- 2, Addrs <- OneAddr,
  Ranges <- WideOnly, PeerAddrs <- {}, Local <- Home, Slots <- {}, Levels <- {},
  Minutes <- {0, 2}, MinuteLength <- 2, MaxNow <- 3, MaxSaves <- 1,
  saves <- banSaves

\* The bounds of a case of Register.
Within ==
  /\ case \in {"one", "again"} => ~prot["v6"].on
  /\ case \in {"again", "two"} => \A p \in Protocols : Len(flight[p]) <= 1
  /\ case = "one" => changes = 0 /\ gen = 0
  /\ case = "again" => changes <= 1
  /\ case = "two" => serial = 0 /\ faults = 0 /\ gen = 0

MCInit ==
  /\ Init /\ TeamsInit
  /\ \/ case = "pool" /\ Pool!Init
     \/ case = "alike" /\ Alike!Init
     \/ case = "clients" /\ Connected!Init
     \/ case \in {"file", "one", "again", "two", "practice"} /\ File!Init
  /\ prot["v4"].on /\ (prot["v6"].on <=> case = "two")

BansNext ==
  /\ \/ case = "pool" /\ Pool!Next
     \/ case = "alike" /\ Alike!Next
     \/ case = "clients" /\ Connected!Next
     \/ case = "file" /\ File!Next
  /\ UNCHANGED <<case, vars, teamsVars>>

RegisterNext ==
  /\ case \in {"one", "again", "two"}
  /\ Next
  /\ UNCHANGED <<case, banVars, teamsVars>>
  /\ Within'

PracticeNext ==
  case = "practice" /\ TeamsNext /\ UNCHANGED <<case, banVars, vars>>

MCNext == BansNext \/ RegisterNext \/ PracticeNext

MCSpec == MCInit /\ [][MCNext]_<<case, banVars, vars, teamsVars>>

-----------------------------------------------------------------------------
\* Every element of a pool of bans is on the lists it belongs to and on no
\* other, however they were added, changed, removed and used again, and no ban
\* outlives an Update, which looks only at the head of the sorted list.
ListsTidy ==
  /\ case = "pool" => Pool!ListsTidy /\ Pool!NoneOverstays
  /\ case = "alike" => Alike!ListsTidy
  /\ case = "clients" => Connected!ListsTidy
  /\ case = "file" => File!TypeOK

\* The pools implement a list of bans: a step of a command bans or lifts the
\* target it names and no other one.
ImplementsList ==
  /\ case = "pool" => Pool!List!Init
  /\ [][case = "pool" =>
          Pool!List!Next \/ UNCHANGED Pool!List!vars]_banVars
  /\ [][case = "alike" => Alike!StepAsPromised]_banVars

\* Bans hold: an address is found to be banned exactly when a ban covers it, no
\* client that is banned is connected, and a ban that is saved is in force at
\* least as long after the file was run.
BansHold ==
  /\ case = "clients" => Connected!NoBannedClient /\ Connected!FoundIffBanned
  /\ case = "file" => File!RestoredForAsLong
=============================================================================
