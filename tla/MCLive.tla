------------------------------- MODULE MCLive -------------------------------
(***************************************************************************)
(* What must happen in the end, in the components that are not the         *)
(* transport: each on an instance of its own, of which a behaviour runs    *)
(* the one chosen in its initial state while the others stay as they       *)
(* begin.  The fairness of each is that of its module.                     *)
(***************************************************************************)
EXTENDS Naturals

VARIABLES
  part,
  \* NetResume
  cli, slot, unpackC, unpackS, net, stale, said, told, gotS, gotC,
  \* Teams
  g, saves,
  \* Register
  gen, serial, known, prot, flight, stray, dels, chal, addr, servers, forgot,
  faults, changes,
  \* ChatHelper
  afk, activity, ignore, buf, ready, pings, arrived, ownTyped, saidLast,
  mistaken, lastStep,
  \* ChatQueue
  history, pending, recent, typed, sent, overtook

resumeVars == <<cli, slot, unpackC, unpackS, net, stale, said, told, gotS, gotC>>
teamVars == <<g, saves>>
registerVars ==
  <<gen, serial, known, prot, flight, stray, dels, chal, addr, servers, forgot,
    faults, changes>>
helperVars ==
  <<afk, activity, ignore, buf, ready, pings, arrived, ownTyped, saidLast,
    mistaken, lastStep>>
queueVars == <<history, pending, recent, typed, sent, overtook>>

Resume == INSTANCE NetResume WITH
  MaxSequence <- 8, BufferChunks <- 4, PacketChunks <- 2, MaxInFlight <- 1,
  NoAddr <- "noaddr", Unknown <- "unknown", Unsupported <- "unsupported",
  Magic <- "magic", Zero <- "zero", OldSixup <- FALSE, NewSixup <- FALSE,
  OldAcked <- 1, MaxOld <- 0, MaxSaid <- 2, MaxTold <- 0

Team == INSTANCE Teams WITH
  NumClients <- 2, NumTeams <- 1, MaxTeamSize <- 2, MaxRuns <- 1, Features <- {}

Reg == INSTANCE Register WITH
  Protocols <- {"v4"}, MaxSerial <- 1, MaxFlight <- 1, MaxFaults <- 1,
  MaxChanges <- 1, MaxGen <- 0

Again == INSTANCE Register WITH
  Protocols <- {"v4"}, MaxSerial <- 0, MaxFlight <- 1, MaxFaults <- 1,
  MaxChanges <- 1, MaxGen <- 1

Helper == INSTANCE ChatHelper WITH
  BufferLen <- 2, PingQueueSize <- 2, AwakeAt <- 1, ReturnAt <- 2, MaxMsgs <- 2,
  MaxOwn <- 0, AutoReply <- FALSE, SpamReply <- TRUE,
  typed <- ownTyped, said <- saidLast, last <- lastStep

Queue == INSTANCE ChatQueue WITH MaxPending <- 3, MaxLines <- 5

Init ==
  /\ part \in {"resume", "teams", "register", "again", "helper", "queue"}
  /\ Resume!Init /\ Team!TeamsInit /\ Reg!Init /\ Helper!Init /\ Queue!Init
  /\ prot["v4"].on

\* A step A of part p, which leaves the others alone.
In(p, A) ==
  /\ part = p
  /\ A
  /\ UNCHANGED part
  /\ p # "resume" => UNCHANGED resumeVars
  /\ p # "teams" => UNCHANGED teamVars
  /\ p \notin {"register", "again"} => UNCHANGED registerVars
  /\ p # "helper" => UNCHANGED helperVars
  /\ p # "queue" => UNCHANGED queueVars

\* The step of the game server that registers, in the instance that runs.
InReg(A, B) == In("register", A) \/ In("again", B)

Next ==
  \/ In("resume", Resume!Next)
  \/ In("teams", Team!TeamsNext)
  \/ In("register", Reg!Next)
  \/ In("again", Again!Next)
  \/ In("helper", Helper!Next)
  \/ In("queue", Queue!Next)

vars == <<part, resumeVars, teamVars, registerVars, helperVars, queueVars>>

-----------------------------------------------------------------------------
(* The fairness of the modules.  In a behaviour of one part the steps of    *)
(* the others are disabled, so that one condition for the steps of several  *)
(* parts is a condition for each of them.                                   *)

WeakFairness ==
  /\ WF_vars(\/ In("resume", Resume!ClientUnpack)
             \/ In("teams", Team!Tick(1))
             \/ InReg(Reg!Update("v4"), Again!Update("v4"))
             \/ In("helper", Helper!FlushBuffers)
             \/ In("queue", Queue!SecondPasses))
  /\ WF_vars(\/ In("resume", Resume!ServerUnpack)
             \/ In("teams", Team!Respawn(1))
             \/ InReg(Reg!Elapse("v4"), Again!Elapse("v4"))
             \/ In("helper", Helper!BufferReady))
  /\ WF_vars(\/ In("teams", Team!Respawn(2))
             \/ InReg(Reg!OnAnswer("v4"), Again!OnAnswer("v4")))
  /\ WF_vars(InReg(Reg!OnStrayRegister("v4"), Again!OnStrayRegister("v4")))
  /\ WF_vars(InReg(Reg!OnDelete("v4"), Again!OnDelete("v4")))
  /\ WF_vars(InReg(Reg!PruneLeft("v4"), Again!PruneLeft("v4")))

StrongFairness ==
  /\ SF_vars(\/ In("resume", Resume!ClientThrough)
             \/ InReg(Reg!OnToken("v4"), Again!OnToken("v4"))
             \/ In("queue", Queue!SendPending))
  /\ SF_vars(In("resume", Resume!ServerThrough))
  /\ SF_vars(In("resume", Resume!ServerReceiveChunk(1)))
  /\ SF_vars(In("resume", Resume!ServerReceiveChunk(2)))
  /\ SF_vars(In("resume", Resume!ServerReceiveAny))

Spec == Init /\ [][Next]_vars /\ WeakFairness /\ StrongFairness

-----------------------------------------------------------------------------
\* A player whose connection was moved to its old slot is heard by the game.
PlayerIsHeard == Resume!PlayerIsHeard

\* A team that cannot finish anymore does not play on, unless it practices.
UnfinishableEnds == Team!UnfinishableEnds

Registering == part \in {"register", "again"}

\* The master lists an enabled protocol, under the running server and with its
\* newest info, and drops a disabled one, in the end.
MasterFollows ==
  /\ (<>[](Registering /\ prot["v4"].on)) => <>[]Reg!Listed("v4")
  /\ (<>[](Registering /\ ~ prot["v4"].on)) => <>[](addr["v4"] = Reg!None)

\* The two buffers of the chat helper run empty and the counter of the lines that
\* were typed too fast runs to 0; unless one of them was overtaken, every line
\* that was accepted has been sent then.
ChatDrains == Helper!BufferDrains /\ Queue!PendingDrains
=============================================================================
