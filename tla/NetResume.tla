------------------------------ MODULE NetResume ------------------------------
(***************************************************************************)
(* Timeout protection: a player whose connection broke connects again and  *)
(* gets a second slot; the chat command /timeout, sent over the new        *)
(* connection, moves that connection into the player's old slot            *)
(* (CServer::SetTimedOut, CNetServer::ResumeOldConnection,                 *)
(* CNetConnection::ResumeConnection) and resets the slot it had.  This     *)
(* happens inside the receive loop, between two chunks of a packet, while  *)
(* packets of the new connection are under way in both directions.         *)
(*                                                                         *)
(* The new connection is established in the initial state; the old one has *)
(* not timed out yet, and the game may still talk to it.  All chunks are   *)
(* vital.  The bounds stay below a turn of the sequence numbers.           *)
(***************************************************************************)
EXTENDS NetConnection, SequencesExt

CONSTANTS
  Zero,         \* m_Token of a 0.6 connection
  OldSixup,     \* the old connection was 0.7
  NewSixup,     \* the new connection is 0.7
  OldAcked,     \* chunks of the old connection that its client acknowledged
  MaxOld,       \* bound: chunks the old connection is given after that
  MaxSaid,      \* bound: chunks of the player
  MaxTold,      \* bound: chunks the game sends over the new connection
  MaxInFlight   \* bound: packets in flight

VARIABLES
  cli,      \* the connection of the player's client
  slot,     \* the connections of the two slots
  unpackC,  \* chunks left in the unpacker of the client
  unpackS,  \* the unpacker of the server: m_ClientId and the chunks left
  net,      \* packets in flight between the client and the server
  stale,    \* chunks queued on the old connection since OldAcked
  said,     \* chunks the client has queued
  told,     \* chunks the game has queued for the player, over either slot
  gotS,     \* chunks of the player that the game was given
  gotC      \* chunks that the client was given

wire == <<cli, slot, net>>
vars == <<cli, slot, unpackC, unpackS, net, stale, said, told, gotS, gotC>>

ServerTok == "st"
ClientTok == "ct"
Token(sixup) == IF sixup THEN ServerTok ELSE Zero

\* A connection of the server, for a client at addr.
ServerConn(addr, sixup) ==
  DirectInit(ResetConn, addr, IF sixup THEN ClientTok ELSE ServerTok,
             Token(sixup), sixup)

Init ==
  /\ cli = DirectInit(ResetConn, "server", ServerTok,
                      IF NewSixup THEN ClientTok ELSE Zero, NewSixup)
  /\ slot = [old |-> [ServerConn("there", OldSixup) EXCEPT
                        !.sequence = OldAcked, !.peerAck = OldAcked,
                        !.timeoutProtected = TRUE],
             new |-> ServerConn("here", NewSixup)]
  /\ unpackC = <<>>
  /\ unpackS = [at |-> "new", chunks |-> <<>>]
  /\ net = {}
  /\ stale = 0 /\ said = 0 /\ told = 0
  /\ gotS = <<>> /\ gotC = <<>>

-----------------------------------------------------------------------------
\* What is sent is in flight, next to what was; a full network loses some,
\* and nobody answers at the address of the old connection.
Sent(from, pkts) ==
  {[from |-> from, pkt |-> p] : p \in {q \in pkts : q.to # "there"}}
InFlight(pkts) ==
  /\ net' \in SUBSET (net \cup pkts)
  /\ Cardinality(net') = IF Cardinality(net \cup pkts) > MaxInFlight
                           THEN MaxInFlight ELSE Cardinality(net \cup pkts)

FromClient(c) ==
  /\ cli' = [c EXCEPT !.out = {}]
  /\ InFlight(Sent("here", c.out))
  /\ UNCHANGED slot
FromSlot(s, c) ==
  /\ slot' = [slot EXCEPT ![s] = [c EXCEPT !.out = {}]]
  /\ InFlight(Sent("server", c.out))
  /\ UNCHANGED cli

MaybeFlush(c, flush) == IF flush THEN Flush(c) ELSE c

-----------------------------------------------------------------------------
(* The client. *)

ClientSend(flush) ==
  /\ said < MaxSaid
  /\ said' = said + 1
  /\ FromClient(MaybeFlush(QueueChunk(cli, TRUE, said'), flush))
  /\ UNCHANGED <<unpackC, unpackS, stale, told, gotS, gotC>>

ClientReceive(m) ==
  /\ unpackC = <<>>
  /\ m.from = "server"
  /\ FromClient(Feed(cli, m.from, m.pkt, {}))
  /\ unpackC' = IF HasChunks(cli, m.from, m.pkt) THEN m.pkt.chunks ELSE <<>>
  /\ UNCHANGED <<unpackS, stale, said, told, gotS, gotC>>

ClientUnpack ==
  LET n == NextTaken(cli, unpackC)
  IN /\ unpackC # <<>>
     /\ cli' = UnpackNextChunk(cli, unpackC)
     /\ unpackC' = SubSeq(unpackC, n + 1, Len(unpackC))
     /\ gotC' = IF n <= Len(unpackC) THEN Append(gotC, unpackC[n].msg) ELSE gotC
     /\ UNCHANGED <<slot, net, unpackS, stale, said, told, gotS>>

ClientUpdate(due) ==
  /\ unpackC = <<>>
  /\ FromClient(Update(cli, due))
  /\ UNCHANGED <<unpackC, unpackS, stale, said, told, gotS, gotC>>

-----------------------------------------------------------------------------
(* The server. *)

\* The slot the game sends to: the old one as soon as it was taken over.
Playing == IF slot["new"].state = "OFFLINE" THEN "old" ELSE "new"

Tell(flush) ==
  /\ told < MaxTold
  /\ told' = told + 1
  /\ FromSlot(Playing, MaybeFlush(QueueChunk(slot[Playing], TRUE, told'), flush))
  /\ UNCHANGED <<unpackC, unpackS, stale, said, gotS, gotC>>

\* The game does not know yet that the old connection is dead.
TellOld(flush) ==
  /\ stale < MaxOld
  /\ Playing = "new"
  /\ CanQueue(slot["old"])
  /\ stale' = stale + 1
  /\ FromSlot("old", MaybeFlush(QueueChunk(slot["old"], TRUE, 100 + stale'), flush))
  /\ UNCHANGED <<unpackC, unpackS, said, told, gotS, gotC>>

\* GetClientSlot.
SlotOf(addr) ==
  {s \in DOMAIN slot : /\ slot[s].state \notin {"OFFLINE", "ERROR"}
                       /\ slot[s].peerAddr = addr}

ServerReceive(m) ==
  /\ unpackS.chunks = <<>>
  /\ m.from = "here"
  /\ \E s \in SlotOf(m.from) :
       /\ FromSlot(s, Feed(slot[s], m.from, m.pkt, {}))
       /\ unpackS' = [at |-> s, chunks |-> IF HasChunks(slot[s], m.from, m.pkt)
                                             THEN m.pkt.chunks ELSE <<>>]
  /\ UNCHANGED <<unpackC, stale, said, told, gotS, gotC>>

\* SetTimedOut of the old slot: ResumeConnection, and the new slot is Reset.
Resumed(s) ==
  [s EXCEPT !["old"] = ResumeConnection(@, s["new"]), !["new"] = Reset(@)]

\* Recv asks for the next chunk of the packet, whatever happened to the slot
\* since, and then discards it if the slot is empty; the game is given it
\* otherwise, and it may be the /timeout of the player.
ServerUnpack ==
  LET c == slot[unpackS.at]
      n == NextTaken(c, unpackS.chunks)
      s == [slot EXCEPT ![unpackS.at] = UnpackNextChunk(c, unpackS.chunks)]
      returned == n <= Len(unpackS.chunks) /\ c.state # "OFFLINE"
  IN /\ unpackS.chunks # <<>>
     /\ unpackS' = [unpackS EXCEPT !.chunks =
                      IF returned THEN SubSeq(@, n + 1, Len(@)) ELSE <<>>]
     /\ gotS' = IF returned THEN Append(gotS, unpackS.chunks[n].msg) ELSE gotS
     /\ \/ slot' = s
        \/ /\ returned
           /\ unpackS.at = "new" /\ slot["old"].state = "ERROR"
           /\ slot' = Resumed(s)
     /\ UNCHANGED <<cli, net, unpackC, stale, said, told, gotC>>

\* CNetServer::Update; a protected slot that timed out is kept.
ServerUpdate(s, due) ==
  /\ unpackS.chunks = <<>>
  /\ FromSlot(s, UpdateOrClose(slot[s], due))
  /\ UNCHANGED <<unpackC, unpackS, stale, said, told, gotS, gotC>>

TimeOutOld ==
  /\ slot["old"].peerAddr = "there"
  /\ ServerUpdate("old", {"timeout"})

Sending == {{"answer"}, {"resend"}, {"flush"}, {"keepalive"}}

Next ==
  \/ \E flush \in BOOLEAN : ClientSend(flush) \/ Tell(flush) \/ TellOld(flush)
  \/ \E m \in net : ClientReceive(m) \/ ServerReceive(m)
  \/ ClientUnpack \/ ServerUnpack \/ TimeOutOld
  \/ \E due \in Sending :
       ClientUpdate(due) \/ \E s \in {"old", "new"} : ServerUpdate(s, due)

Spec == Init /\ [][Next]_vars

\* As in NetChannel: a packet that could be taken again and again is taken at
\* last, and what an Update sends finds room in the network again and again.
Carries(m, i) == \E j \in DOMAIN m.pkt.chunks : m.pkt.chunks[j].msg = i
All == UNION Sending
Through(from, c) == Sent(from, c.out) \subseteq net'
ClientThrough ==
  /\ unpackS.chunks = <<>>
  /\ ClientUpdate(All) /\ Through("here", Update(cli, All))
ServerThrough ==
  /\ unpackC = <<>>
  /\ ServerUpdate(Playing, All)
  /\ Through("server", UpdateOrClose(slot[Playing], All))
ServerReceiveChunk(i) == \E m \in net : Carries(m, i) /\ ServerReceive(m)
ClientReceiveChunk(i) == \E m \in net : Carries(m, i) /\ ClientReceive(m)
ServerReceiveAny == \E m \in net : ServerReceive(m)
Fairness ==
  /\ WF_vars(ClientUnpack) /\ WF_vars(ServerUnpack)
  /\ SF_vars(ClientThrough) /\ SF_vars(ServerThrough)
  /\ \A i \in 1 .. MaxSaid : SF_vars(ServerReceiveChunk(i))
  /\ \A i \in 1 .. MaxTold : SF_vars(ClientReceiveChunk(i))
  /\ SF_vars(ServerReceiveAny)
FairSpec == Spec /\ Fairness

-----------------------------------------------------------------------------
\* Every variable has its type.
TypeOK ==
  /\ cli.state = "ONLINE" /\ cli.out = {}
  /\ slot["old"].state \in {"ONLINE", "ERROR"}
  /\ slot["new"].state \in {"ONLINE", "OFFLINE"}
  /\ unpackS.at \in {"old", "new"}
  /\ Cardinality(net) <= MaxInFlight
  /\ Len(gotC) <= told + stale /\ Len(gotS) <= said

Counts(q) == \A i \in DOMAIN q : q[i] = i

\* The game is given every chunk of the player once and in order across the
\* change of the slot, also those behind the /timeout in its packet.
HeardInOrder == Counts(gotS)

\* The client is given every chunk of the game once and in order, across the
\* change of the slot it comes from.
ToldInOrder == Counts(gotC)

\* No chunk is forgotten in the change: what the client was not given yet is
\* in the resend buffer of the slot that has its connection.
NothingLostInChange ==
  \A i \in Len(gotC) + 1 .. told :
    \E j \in DOMAIN slot[Playing].buffer : slot[Playing].buffer[j].msg = i

\* The slot that has the player's connection takes the packets of its client:
\* they carry the token that Feed compares.
SlotHearsClient ==
  IsTokenValid(slot[Playing], Packet(cli, "server", "none", FALSE, <<>>, Unknown))

\* The player is heard: what it says reaches the game in the end.
PlayerIsHeard == \A i \in 1 .. MaxSaid : []<>(said >= i => Len(gotS) >= i)

=============================================================================
