----------------------------- MODULE MCSession ------------------------------
(***************************************************************************)
(* The session of a player across the loss of its connection and the       *)
(* change of the map: NetResume and Snapshots.  They share no state, and a *)
(* behaviour runs the case chosen in its initial state:                    *)
(*   "heard"  a 0.6 connection is moved to a slot that was 0.7; the client *)
(*            speaks behind its /timeout;                                  *)
(*   "told"   the game talks across the move; the old connection is quiet; *)
(*   "sync"   snapshots of two parts, and the move of the player to its    *)
(*            old slot;                                                    *)
(*   "map"    a change of the map with snapshots under way.                *)
(***************************************************************************)
EXTENDS Snapshots

VARIABLES
  case,
  cli, room, unpackC, unpackS, flight, stale, said, told, gotS, gotC    \* NetResume

resumeVars == <<cli, room, unpackC, unpackS, flight, stale, said, told, gotS, gotC>>

Heard == INSTANCE NetResume WITH
  MaxSequence <- 8, BufferChunks <- 4, PacketChunks <- 2, MaxInFlight <- 1,
  NoAddr <- "noaddr", Unknown <- "unknown", Unsupported <- "unsupported",
  Magic <- "magic", Zero <- "zero", NewSixup <- FALSE,
  OldSixup <- TRUE, OldAcked <- 0, MaxOld <- 1, MaxSaid <- 2, MaxTold <- 0,
  slot <- room, net <- flight

Told == INSTANCE NetResume WITH
  MaxSequence <- 8, BufferChunks <- 4, PacketChunks <- 2, MaxInFlight <- 1,
  NoAddr <- "noaddr", Unknown <- "unknown", Unsupported <- "unsupported",
  Magic <- "magic", Zero <- "zero", NewSixup <- FALSE,
  OldSixup <- FALSE, OldAcked <- 2, MaxOld <- 0, MaxSaid <- 1, MaxTold <- 2,
  slot <- room, net <- flight

Change == INSTANCE Snapshots WITH
  MaxTick <- 3, MaxMap <- 1, MaxParts <- 1

MCInit ==
  /\ Init
  /\ \/ case \in {"heard", "sync", "map"} /\ Heard!Init
     \/ case = "told" /\ Told!Init

HeardNext == case = "heard" /\ Heard!Next /\ UNCHANGED <<case, vars>>
ToldNext  == case = "told" /\ Told!Next /\ UNCHANGED <<case, vars>>
SyncNext  == case = "sync" /\ Next /\ UNCHANGED <<case, resumeVars>>
\* Bound: only the last tick of the new map can show something else.
MapNext ==
  /\ case = "map" /\ Change!Next /\ UNCHANGED <<case, resumeVars>>
  /\ \A t \in DOMAIN sent' :
       map' = 0 \/ t < 3 => sent'[t].world = CHOOSE w \in Worlds : TRUE

MCNext == HeardNext \/ ToldNext \/ SyncNext \/ MapNext

MCSpec == MCInit /\ [][MCNext]_<<case, resumeVars, vars>>

-----------------------------------------------------------------------------
\* The move of the connection to the old slot interrupts neither direction: the
\* game is given every chunk of the player once and in order, also those behind
\* the /timeout in its packet, the slot takes the packets of the client, and
\* what the game said and the client has not got is in the buffer of the slot.
StreamContinues ==
  /\ Heard!TypeOK /\ Heard!HeardInOrder /\ Heard!SlotHearsClient
  /\ case = "told" => Told!ToldInOrder /\ Told!NothingLostInChange
=============================================================================
