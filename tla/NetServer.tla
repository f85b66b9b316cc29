------------------------------ MODULE NetServer ------------------------------
(***************************************************************************)
(* CNetServer (engine/shared/network_server.cpp): the slots of the server, *)
(* each with a connection, and the handlers that give them to clients and  *)
(* take them back.  One operator per member function, on a record with the *)
(* connections (slots) and the packets sent without one (out).             *)
(*                                                                         *)
(* The clients are those of this repository: 0.6 with a DDNet token, and   *)
(* 0.7.  Clients without a token (OnPreConnMsg) are not modelled.  The     *)
(* rate limit of Connlimit depends on the clock and is an argument, and so *)
(* is every other comparison with the clock (see NetConnection).           *)
(***************************************************************************)
EXTENDS NetConnection, FiniteSetsExt

CONSTANTS
  MaxClients,        \* number of slots
  MaxClientsPerIp,   \* sv_max_clients_per_ip
  SvSixup,           \* sv_sixup
  TokenOf            \* GetToken of an address, the same for all its ports

ASSUME ServerAssumption ==
  /\ MaxClients \in Nat \ {0}
  /\ MaxClientsPerIp \in 1 .. MaxClients
  /\ SvSixup \in BOOLEAN

Slot == 0 .. MaxClients - 1

NoSlot == -1

\* Mutant of GetClientSlot: sees only the slots of 0.6 clients.
GetClientSlotSix(slots, a) ==
  LET at == {i \in Slot : /\ slots[i].state \notin {"OFFLINE", "ERROR"}
                          /\ slots[i].peerAddr = a /\ ~ slots[i].sixup}
  IN  IF at = {} THEN NoSlot ELSE Min(at)

GetClientSlot(slots, a) ==
  LET at == {i \in Slot : /\ slots[i].state \notin {"OFFLINE", "ERROR"}
                          /\ slots[i].peerAddr = a}
  IN  IF at = {} THEN NoSlot ELSE Min(at)

\* Mutant of ClientsWithAddr: does not count the slots that are kept for a
\* client that timed out.
ClientsWithAddrOpen(slots, a) ==
  {i \in Slot : /\ slots[i].state \notin {"OFFLINE", "ERROR"}
                /\ TokenOf[slots[i].peerAddr] = TokenOf[a]}

\* The slots NumClientsWithAddr counts: those kept after a timeout too.
ClientsWithAddr(slots, a) ==
  {i \in Slot : /\ slots[i].state # "OFFLINE" /\ IsKept(slots[i])
                /\ TokenOf[slots[i].peerAddr] = TokenOf[a]}

NumClientsWithAddr(slots, a) == Cardinality(ClientsWithAddr(slots, a))

\* CNetBase::SendControlMsg, not on behalf of a slot.
SendControlMsg(srv, a, ctrl, info, token, sixup) ==
  [srv EXCEPT !.out = @ \cup
     {[to |-> a, ctrl |-> ctrl, ack |-> 0, resend |-> FALSE, chunks |-> << >>,
       token |-> token, info |-> info, sixup |-> sixup]}]

-----------------------------------------------------------------------------
(* Opening: the packets of an address that wants to connect, or connect     *)
(* again (slot # NoSlot).                                                   *)

\* Mutant of FreeSlots: gives away a slot whose connection has ended.
FreeSlotsErrored(slots) == {i \in Slot : slots[i].state \in {"OFFLINE", "ERROR"}}

FreeSlots(slots) == {i \in Slot : slots[i].state = "OFFLINE"}

\* "0.7 connections are not accepted", "Too many connections in a short time",
\* "Only %d players with the same IP", "This server is full".
IsRefused(srv, a, slot, sixup, limited) ==
  \/ sixup /\ ~ SvSixup
  \/ slot = NoSlot /\ \/ limited
                      \/ NumClientsWithAddr(srv.slots, a) + 1 > MaxClientsPerIp
                      \/ FreeSlots(srv.slots) = {}

TryAcceptClient(srv, a, securityToken, slot, sixup, token, limited) ==
  LET i == IF slot # NoSlot THEN slot ELSE Min(FreeSlots(srv.slots))
  IN  IF IsRefused(srv, a, slot, sixup, limited)
      THEN SendControlMsg(srv, a, "close", Unknown, securityToken, sixup)
      ELSE IF limited THEN srv
           ELSE [srv EXCEPT !.slots[i] = DirectInit(@, a, securityToken, token, sixup)]

\* Mutant of OnTokenCtrlMsg: does not answer an address that has a slot.
OnTokenCtrlMsgNew(srv, a, pkt, slot, limited) ==
  CASE pkt.ctrl = "connect" /\ slot = NoSlot ->
         SendControlMsg(srv, a, "connectaccept", Magic, TokenOf[a], FALSE)
    [] pkt.ctrl = "accept" /\ pkt.token = TokenOf[a] ->
         TryAcceptClient(srv, a, pkt.token, slot, FALSE, Unsupported, limited)
    [] OTHER -> srv

\* 0.6: CONNECT is answered with the token of the address, the ACCEPT that
\* brings it back opens the connection.
OnTokenCtrlMsg(srv, a, pkt, slot, limited) ==
  CASE pkt.ctrl = "connect" ->
         SendControlMsg(srv, a, "connectaccept", Magic, TokenOf[a], FALSE)
    [] pkt.ctrl = "accept" /\ pkt.token = TokenOf[a] ->
         TryAcceptClient(srv, a, pkt.token, slot, FALSE, Unsupported, limited)
    [] OTHER -> srv

\* 0.7: TOKEN is answered with the token of the address, sealed with the one
\* the client announces; the CONNECT that is sealed with it opens.
OnSixupCtrlMsg(srv, a, pkt, slot, limited) ==
  LET accept == SendControlMsg(srv, a, "connectaccept", TokenOf[a], pkt.info, TRUE)
  IN  CASE pkt.ctrl = "token" ->
             SendControlMsg(srv, a, "token", TokenOf[a], pkt.info, TRUE)
        [] pkt.ctrl = "connect" ->
             IF pkt.token = TokenOf[a]
             THEN TryAcceptClient(accept, a, pkt.info, slot, TRUE, pkt.token, limited)
             ELSE accept
        [] OTHER -> srv

-----------------------------------------------------------------------------
(* Recv, for one packet, and Update.                                        *)

\* A packet is read as 0.7 when its slot is, or when it is a control packet of
\* 0.7; read as the other version it is invalid, or its token does not match.
IsReadable(slots, slot, pkt) ==
  LET sixup == \/ slot # NoSlot /\ slots[slot].sixup
               \/ pkt.sixup /\ pkt.ctrl # "none"
  IN  pkt.sixup = sixup

FeedSlot(srv, slot, a, pkt, due) ==
  IF slot = NoSlot \/ srv.slots[slot].sixup # pkt.sixup
  THEN srv
  ELSE [srv EXCEPT !.slots[slot] = Feed(@, a, pkt, due)]

\* The slot is looked up before the handlers run: the packet that opens a
\* connection is not fed to it.
RecvPacket(srv, a, pkt, limited, due) ==
  LET slot == GetClientSlot(srv.slots, a)
      d    == IF pkt.sixup THEN OnSixupCtrlMsg(srv, a, pkt, slot, limited)
              ELSE OnTokenCtrlMsg(srv, a, pkt, slot, limited)
  IN  IF IsReadable(srv.slots, slot, pkt) THEN FeedSlot(d, slot, a, pkt, due) ELSE srv

UpdateSlots(srv, due) ==
  [srv EXCEPT !.slots = [i \in Slot |-> UpdateOrClose(srv.slots[i], due[i])]]

DropSlot(srv, i) == [srv EXCEPT !.slots[i] = Disconnect(@)]

ProtectSlot(srv, i) == [srv EXCEPT !.slots[i] = IgnoreTimeouts(@)]

\* Everything the server has handed to the socket.
Outgoing(srv) == srv.out \cup UNION {srv.slots[i].out : i \in Slot}

Emptied(srv) ==
  [slots |-> [i \in Slot |-> [srv.slots[i] EXCEPT !.out = {}]], out |-> {}]
=============================================================================
