---------------------------- MODULE NetHandshake ----------------------------
(***************************************************************************)
(* Clients that connect to a server, leave, come back and time out, over a *)
(* network that loses, duplicates, delays and reorders packets: the        *)
(* control messages of 0.6 and 0.7 between CNetClient and CNetServer, and  *)
(* the slots of the server.                                                *)
(*                                                                         *)
(* A client is the address it sends from.  Both sides' receive loops and   *)
(* Updates run in any order; the applications connect, disconnect and drop *)
(* when they like.  No chunks are sent: the traffic of an open connection  *)
(* is that of NetChannel, here it is keep-alives.                          *)
(***************************************************************************)
EXTENDS NetServer

CONSTANTS
  Client,         \* addresses of the clients
  Server,         \* the address of the server
  Protocols,      \* subset of BOOLEAN: clients connect with 0.7 (TRUE), 0.6
  ClientToken,    \* the random tokens of 0.7 clients
  Expiring,       \* subset of Timers: the timers that may expire
  Limiting,       \* subset of BOOLEAN: outcomes of Connlimit
  Leavers,        \* clients that may disconnect
  Dropping,       \* subset of Slot: slots the server may drop
  Protecting,     \* subset of Slot: slots that may ask for timeout protection
  MaxInFlight     \* packets the network holds at a time

ASSUME HandshakeAssumption ==
  /\ Server \notin Client
  /\ Protocols \subseteq BOOLEAN
  /\ Limiting \subseteq BOOLEAN
  /\ Expiring \subseteq Timers
  /\ Leavers \subseteq Client
  /\ Dropping \subseteq Slot
  /\ Protecting \subseteq Slot
  /\ MaxInFlight \in Nat

VARIABLES
  client,    \* client[a]: the CNetConnection of the client at a
  srv,       \* the CNetServer
  net        \* packets in flight, with their sender

vars == <<client, srv, net>>

Init ==
  /\ client = [a \in Client |-> ResetConn]
  /\ srv = [slots |-> [i \in Slot |-> ResetConn], out |-> {}]
  /\ net = {}

\* The packets of a sender join those in flight, one to the zeroed address goes
\* nowhere; a full network loses what does not fit.  A packet that is received
\* stays: it can arrive again.
Transmit(from, pkts) ==
  LET all == net \cup {[from |-> from, pkt |-> pkt] : pkt \in {p \in pkts : p.to # NoAddr}}
  IN  \/ Cardinality(all) <= MaxInFlight /\ net' = all
      \/ /\ Cardinality(all) > MaxInFlight
         /\ net' \in kSubset(MaxInFlight, all)

ClientSteps(a, c) ==
  /\ client' = [client EXCEPT ![a] = [c EXCEPT !.out = {}]]
  /\ Transmit(a, c.out)
  /\ UNCHANGED srv

ServerSteps(s) ==
  /\ srv' = Emptied(s)
  /\ Transmit(Server, Outgoing(s))
  /\ UNCHANGED client

-----------------------------------------------------------------------------
(* The client at address a                                                  *)

\* CNetClient::Connect and Connect7, on a connection that is offline.
ConnectClient(a) ==
  /\ client[a].state = "OFFLINE"
  /\ \/ FALSE \in Protocols /\ ClientSteps(a, Connect(client[a], {Server}))
     \/ /\ TRUE \in Protocols
        /\ \E t \in ClientToken : ClientSteps(a, Connect7(client[a], {Server}, Server, t))

\* CNetClient::Disconnect.
DisconnectClient(a) ==
  /\ a \in Leavers
  /\ client[a].state # "OFFLINE"
  /\ ClientSteps(a, Disconnect(client[a]))

\* CNetClient::Recv: a packet of the other version comes from an address of
\* the other type, or is not valid.
RecvClient(a, m) ==
  /\ client[a].state \notin {"OFFLINE", "ERROR"}
  /\ m.pkt.to = a
  /\ m.pkt.sixup = client[a].sixup
  /\ ClientSteps(a, Feed(client[a], m.from, m.pkt, {}))

\* CNetClient::Update.
UpdateClient(a, due) == ClientSteps(a, UpdateOrClose(client[a], due))

-----------------------------------------------------------------------------
(* The server                                                               *)

RecvServer(m, limited) ==
  /\ m.pkt.to = Server
  /\ ServerSteps(RecvPacket(srv, m.from, m.pkt, limited, {}))

UpdateServer(due) == ServerSteps(UpdateSlots(srv, due))

\* CNetServer::Drop, called by the game.
DropClient(i) ==
  /\ i \in Dropping
  /\ srv.slots[i].state # "OFFLINE"
  /\ ServerSteps(DropSlot(srv, i))

\* CNetServer::IgnoreTimeouts, called by the game for a client in the game.
ProtectClient(i) ==
  /\ i \in Protecting
  /\ srv.slots[i].state = "ONLINE"
  /\ ServerSteps(ProtectSlot(srv, i))

Next ==
  \/ \E a \in Client :
       \/ ConnectClient(a)
       \/ DisconnectClient(a)
       \/ \E m \in net : RecvClient(a, m)
       \/ \E due \in SUBSET Expiring : UpdateClient(a, due)
  \/ \E m \in net, limited \in Limiting : RecvServer(m, limited)
  \/ \E due \in [Slot -> SUBSET Expiring] : UpdateServer(due)
  \/ \E i \in Slot : DropClient(i) \/ ProtectClient(i)

Spec == Init /\ [][Next]_vars

-----------------------------------------------------------------------------
(* Types                                                                    *)

TokenType == {Unknown, Unsupported, Magic} \cup ClientToken \cup {TokenOf[a] : a \in Client}

PacketType ==
  [to : Client \cup {Server}, ack : {0}, resend : {FALSE}, chunks : {<< >>},
   ctrl : {"keepalive", "connect", "connectaccept", "accept", "close", "token"},
   token : TokenType, info : TokenType, sixup : BOOLEAN]

ConnType ==
  [state : States, sequence : {0}, ack : {0}, peerAck : {0},
   remoteClosed : BOOLEAN, timeoutProtected : BOOLEAN,
   timeoutSituation : BOOLEAN, token : TokenType, securityToken : TokenType,
   sixup : BOOLEAN, resendRequested : {FALSE}, connectAddrs : SUBSET {Server},
   unknownSeq : {FALSE}, buffer : {<< >>}, construct : {EmptyConstruct},
   peerAddr : Client \cup {Server, NoAddr}, out : {{}}]

TypeOK ==
  /\ client \in [Client -> ConnType]
  /\ srv \in [slots : [Slot -> ConnType], out : {{}}]
  /\ \A i \in Slot : srv.slots[i].state # "OFFLINE" => srv.slots[i].peerAddr \in Client
  /\ net \subseteq [from : Client \cup {Server}, pkt : PacketType]
  /\ Cardinality(net) <= MaxInFlight

-----------------------------------------------------------------------------
(* Safety                                                                   *)

IsOpen(i) == srv.slots[i].state \notin {"OFFLINE", "ERROR"}

\* An address has at most one open slot, however often its client connects,
\* with either protocol, and whatever old packets arrive: Recv finds the slot
\* and TryAcceptClient uses it again.
OneSlotPerAddress ==
  \A i, j \in Slot : IsOpen(i) /\ IsOpen(j) /\ i # j =>
    srv.slots[i].peerAddr # srv.slots[j].peerAddr

\* No more slots than sv_max_clients_per_ip belong to the addresses of one IP,
\* the slots kept for clients that timed out included.
LimitPerIp ==
  \A a \in Client :
    Cardinality({i \in Slot : /\ IsOpen(i) \/ srv.slots[i].timeoutSituation
                              /\ TokenOf[srv.slots[i].peerAddr] = TokenOf[a]})
      <= MaxClientsPerIp

\* A slot that is not free stays with its address until it is free: no client
\* takes over the slot of another, not even one whose connection has ended and
\* is still to be dropped or kept.
SlotKeepsItsClient ==
  [][\A i \in Slot : /\ srv.slots[i].state # "OFFLINE"
                     /\ srv'.slots[i].state # "OFFLINE"
       => srv'.slots[i].peerAddr = srv.slots[i].peerAddr]_vars

\* CNetConnection::Update: "send a new connect every 500ms".  A slot the server
\* opened for a 0.7 client seals its packets with a token a client announced,
\* so the client can accept them.
SealedForClient ==
  \A i \in Slot : srv.slots[i].state = "ONLINE" /\ srv.slots[i].sixup =>
    srv.slots[i].securityToken \in ClientToken

-----------------------------------------------------------------------------
(* Liveness.  The network loses any number of packets but not all of a      *)
(* kind, Update runs, and a slot whose client has left, or came back with   *)
(* the other version, hears nothing for the length of a timeout.            *)

ResendConnect(a) ==
  /\ client[a].state = "CONNECT"
  /\ UpdateClient(a, {"flush"})
  /\ \E m \in net' : m.from = a /\ m.pkt.ctrl = "connect"

AnswerConnect(a) ==
  /\ \E m \in net : m.from = a /\ m.pkt.ctrl = "connect" /\ RecvServer(m, FALSE)
  /\ \E m \in net' : m.pkt.to = a /\ m.pkt.ctrl = "connectaccept"

ReceiveAccept(a) == \E m \in net : m.pkt.ctrl = "connectaccept" /\ RecvClient(a, m)

\* The client of the slot is offline or speaks the other version by now: what
\* is not read as the version of the slot does not reach its connection.
IsGone(i) ==
  LET a == srv.slots[i].peerAddr
  IN  a \in Client => client[a].state = "OFFLINE" \/ client[a].sixup # srv.slots[i].sixup

ExpireSlot(i) ==
  /\ IsGone(i)
  /\ UpdateServer([j \in Slot |-> IF j = i THEN {"timeout", "protection"} ELSE {}])

\* No packet arrives for ever: those of an earlier version are gone in the end.
NoneStale(a) == \A m \in net : m.from = a => m.pkt.sixup = client[a].sixup

Fairness ==
  /\ \A a \in Client : /\ []<>NoneStale(a)
                       /\ SF_vars(ResendConnect(a))
                       /\ SF_vars(AnswerConnect(a))
                       /\ SF_vars(ReceiveAccept(a))
  /\ \A i \in Slot : WF_vars(ExpireSlot(i))

FairSpec == Spec /\ Fairness

\* A client that connects with 0.6 and keeps trying is answered in the end,
\* whatever happened to its packets and to its earlier connections: it goes
\* online, is refused or gives up.
EventuallyAnswered ==
  \A a \in Client : client[a].state = "CONNECT" /\ ~ client[a].sixup
    ~> client[a].state # "CONNECT" \/ client[a].sixup

\* No slot is lost: the slot of a client that has gone is free again in the end,
\* whether its CLOSE arrived or not, and if it was kept after a timeout too.
SlotsAreFreed ==
  \A i \in Slot : srv.slots[i].state # "OFFLINE" ~>
    srv.slots[i].state = "OFFLINE" \/ ~ IsGone(i)
=============================================================================
