----------------------------- MODULE Snapshots -----------------------------
(***************************************************************************)
(* The snapshots a DDNet server sends to one player and the client keeps:  *)
(* CServer::DoSnapshot and the handling of NETMSG_INPUT on one side, the   *)
(* handling of NETMSG_SNAP* in CClient on the other, both on top of        *)
(* CSnapshotStorage.  Snapshots and inputs travel in packets that may be   *)
(* lost, delivered twice or reordered: `net' and `inputs' hold everything  *)
(* ever sent, and a delivery leaves them alone.                            *)
(*                                                                         *)
(* The player has two slots of the server: "own", which it joined with,    *)
(* and "old", the slot of its connection that timed out and that           *)
(* CServer::SetTimedOut lets it go on playing with.  A snapshot is         *)
(* abstracted to the map, the slot it is made for and one of Worlds.       *)
(***************************************************************************)
EXTENDS Integers, Sequences, FiniteSetsExt

CONSTANTS
  Worlds,       \* what a snapshot can show
  MaxTick,      \* bound: the last tick of a map
  MaxMap,       \* bound: changes of the map
  MaxParts,     \* the packets a snapshot is cut into (CSnapshot::MAX_PARTS)
  TickSpeed,    \* ticks between two snapshots of a client that recovers
  InitEvery,    \* ticks between two snapshots before the first ack
  KeepTicks,    \* ticks a snapshot is kept for a client that does not ack
  CrcLimit      \* CRC errors that are tolerated

ASSUME SnapshotAssumption ==
  /\ {MaxTick, KeepTicks, CrcLimit} \subseteq Nat
  /\ {MaxParts, TickSpeed, InitEvery} \subseteq Nat \ {0}
  /\ Worlds # {}

VARIABLES
  tick,    \* m_CurrentGameTick
  map,     \* how often the map has changed
  srv,     \* the record of each slot: CServer::CClient
  slot,    \* the slot the connection of the player belongs to
  phase,   \* how far the player is in the change of the map
  net,     \* packets with snapshots sent to the player
  inputs,  \* acknowledgements sent by the player
  cl,      \* the snapshot state of the client
  sent     \* history: the snapshot made for the player at each tick

vars == <<tick, map, srv, slot, phase, net, inputs, cl, sent>>

Slots == {"own", "old"}
MinTick == 0
Null == -1
Parts == 0 .. MaxParts - 1
EmptySnapshot == [map |-> -1, slot |-> "none", world |-> "empty"]
BadSnapshot == [map |-> -1, slot |-> "none", world |-> "bad"]
Missing == [map |-> -1, slot |-> "none", world |-> "missing"]
Snap(s, w) == [map |-> map, slot |-> s, world |-> w]
Least(a, b) == IF a < b THEN a ELSE b
Most(a, b) == IF a < b THEN b ELSE a
With(f, x, v) == [y \in DOMAIN f \union {x} |-> IF y = x THEN v ELSE f[y]]

(***************************************************************************)
(* CSnapshotStorage: a list of holders, in the order they were added.      *)
(***************************************************************************)
PurgeUntil(store, t) ==
  LET kept == {i \in DOMAIN store : store[i].tick >= t}
  IN IF kept = {} THEN <<>> ELSE SubSeq(store, Min(kept), Len(store))

Add(store, t, snap) == Append(store, [tick |-> t, snap |-> snap])

\* The search runs from the newest holder and stops at an older tick.
Get(store, t) ==
  LET newer == {i \in DOMAIN store : store[i].tick <= t}
      i == Max(newer)
  IN IF newer # {} /\ store[i].tick = t THEN store[i].snap ELSE Missing

Ticks(store) == {store[i].tick : i \in DOMAIN store}

ServerReset == [store |-> <<>>, acked |-> Null, rate |-> "init"]
ClientReset ==
  [store |-> <<>>, recv |-> 0, ack |-> Null, got |-> <<>>,
   prev |-> Null, cur |-> Null, received |-> 0, crc |-> 0,
   pred |-> FALSE]

Init ==
  /\ tick = MinTick
  /\ map = 0
  /\ srv = [s \in Slots |-> [ServerReset EXCEPT !.rate = IF s = "old" THEN "full" ELSE "init"]]
  /\ slot = "own"
  /\ phase = "ingame"
  /\ net = {}
  /\ inputs = {}
  /\ cl = ClientReset
  /\ sent = <<>>

-----------------------------------------------------------------------------
(***************************************************************************)
(* The server.                                                             *)
(***************************************************************************)
\* Whether a slot gets a snapshot at tick t.
Due(c, t) ==
  /\ c.rate = "recover" => t % TickSpeed = 0
  /\ c.rate = "init" => t % InitEvery = 0

Purged(c, t) == PurgeUntil(c.store, Most(t - KeepTicks, c.acked))

\* The snapshot of a slot is built and stored; without a delta base the slot recovers.
Stored(c, t, snap) ==
  LET store == Add(Purged(c, t), t, snap)
      found == c.acked >= MinTick /\ Get(store, c.acked) # Missing
  IN [c EXCEPT !.store = store,
               !.rate = IF ~found /\ @ = "full" THEN "recover" ELSE @]

DeltaTick(c, t) ==
  IF c.acked >= MinTick /\ Get(Purged(c, t), c.acked) # Missing THEN c.acked ELSE Null

\* The packets of snapshot snap at tick t, cut into n parts.
Packets(c, t, snap, n) ==
  LET base == DeltaTick(c, t)
      from == IF base = Null THEN EmptySnapshot ELSE Get(c.store, base)
  IN IF from = snap
     THEN {[kind |-> "empty", tick |-> t, base |-> base, n |-> 1, part |-> 0,
            delta |-> [from |-> from, to |-> from]]}
     ELSE {[kind |-> "parts", tick |-> t, base |-> base, n |-> n, part |-> p,
            delta |-> [from |-> from, to |-> snap]] : p \in 0 .. n - 1}

\* What the slot that timed out gets goes to a dead peer.
IdleSnapshot(t) ==
  IF slot = "own" /\ map = 0
  THEN Stored(srv["old"], t, Snap("old", CHOOSE w \in Worlds : TRUE))
  ELSE srv["old"]

\* A delta that does not fit into MAX_PARTS packets (n = 0) is not sent.
DoSnapshot(w, n) ==
  LET t == tick + 1
      snap == Snap(slot, w)
      due == phase = "ingame" /\ Due(srv[slot], t)
  IN /\ t <= MaxTick
     /\ tick' = t
     /\ srv' = IF due THEN [srv EXCEPT !["old"] = IdleSnapshot(t),
                                       ![slot] = Stored(srv[slot], t, snap)]
               ELSE [srv EXCEPT !["old"] = IdleSnapshot(t)]
     /\ net' = IF due THEN net \union Packets(srv[slot], t, snap, n) ELSE net
     /\ sent' = IF due THEN With(sent, t, snap) ELSE sent
     /\ UNCHANGED <<map, slot, phase, inputs, cl>>

\* Mutant of OnInput: the acknowledgement is not compared with the tick.
OnInputUnchecked(a) ==
  /\ phase = "ingame"
  /\ srv' = [srv EXCEPT ![slot].acked = a,
                        ![slot].rate = IF a >= MinTick THEN "full" ELSE @]
  /\ UNCHANGED <<tick, map, slot, phase, net, inputs, cl, sent>>

\* NETMSG_INPUT with the acknowledgement a.
OnInput(a) ==
  /\ phase = "ingame"
  /\ a <= tick
  /\ srv' = [srv EXCEPT ![slot].acked = a,
                        ![slot].rate = IF a >= MinTick THEN "full" ELSE @]
  /\ UNCHANGED <<tick, map, slot, phase, net, inputs, cl, sent>>

\* Mutant of SetTimedOut: the snapshots of the slot survive the resumption.
SetTimedOutKeepingSnapshots ==
  /\ phase = "ingame" /\ slot = "own" /\ map = 0
  /\ slot' = "old"
  /\ srv' = [srv EXCEPT !["old"].acked = Null, !["own"] = ServerReset]
  /\ UNCHANGED <<tick, map, phase, net, inputs, cl, sent>>

\* The player proves that the slot that timed out is its own.
SetTimedOut ==
  /\ phase = "ingame" /\ slot = "own" /\ map = 0
  /\ slot' = "old"
  /\ srv' = [srv EXCEPT !["old"].store = <<>>, !["old"].acked = Null, !["own"] = ServerReset]
  /\ UNCHANGED <<tick, map, phase, net, inputs, cl, sent>>

\* Mutant of ChangeMap: the records of the clients are not reset.
ChangeMapOnly ==
  /\ phase = "ingame"
  /\ map < MaxMap
  /\ map' = map + 1
  /\ tick' = MinTick
  /\ phase' = "changed"
  /\ sent' = <<>>
  /\ UNCHANGED <<srv, slot, net, inputs, cl>>

\* A new map starts its ticks again; every client has to load it.
ChangeMap ==
  /\ phase = "ingame"
  /\ map < MaxMap
  /\ map' = map + 1
  /\ tick' = MinTick
  /\ srv' = [s \in Slots |-> ServerReset]
  /\ phase' = "changed"
  /\ sent' = <<>>
  /\ UNCHANGED <<slot, net, inputs, cl>>

OnNetMsgEnterGame ==
  /\ phase = "entered"
  /\ phase' = "ingame"
  /\ UNCHANGED <<tick, map, srv, slot, net, inputs, cl, sent>>

-----------------------------------------------------------------------------
\* m_aPredTick is set once two snapshots are shown; LoadMap does not take it back.
Predicting == cl.cur # Null \/ cl.pred

\* Mutant of LoadMap: the storage is emptied, the snapshots shown stay.
LoadMapKeepingShown ==
  /\ phase = "changed"
  /\ phase' = "loaded"
  /\ cl' = [cl EXCEPT !.store = <<>>, !.got = <<>>, !.crc = 0]
  /\ UNCHANGED <<tick, map, srv, slot, net, inputs, sent>>

(***************************************************************************)
(* The client.                                                             *)
(***************************************************************************)
\* NETMSG_MAP_CHANGE: the storage is emptied, the ack and the tick stay.
LoadMap ==
  /\ phase = "changed"
  /\ phase' = "loaded"
  /\ cl' = [ClientReset EXCEPT !.recv = cl.recv, !.ack = cl.ack, !.pred = Predicting]
  /\ UNCHANGED <<tick, map, srv, slot, net, inputs, sent>>

EnterGame ==
  /\ phase = "loaded"
  /\ phase' = "entered"
  /\ cl' = ClientReset
  /\ UNCHANGED <<tick, map, srv, slot, net, inputs, sent>>

SendInput ==
  /\ Predicting
  /\ inputs' = inputs \union {cl.ack}
  /\ UNCHANGED <<tick, map, srv, slot, phase, net, cl, sent>>

\* CSnapshotDelta::UnpackDelta of the parts that were put together.
UnpackDelta(base, m, got) ==
  IF m.kind = "empty" THEN base
  ELSE IF \A p \in 0 .. m.n - 1 : got[p] = m.delta /\ m.delta.from = base
       THEN m.delta.to ELSE BadSnapshot

\* The parts the client has after packet m, the ones of an older tick dropped.
Collected(m) ==
  With(IF m.tick = cl.recv THEN cl.got ELSE <<>>, m.part, m.delta)

\* Mutant of PurgeTick: everything older than the delta base is purged.
PurgeToBase(m) == m.base

PurgeTick(m) ==
  LET p == IF cl.prev # Null THEN Least(m.base, cl.prev) ELSE m.base
  IN IF cl.cur # Null THEN Least(p, cl.cur) ELSE p

\* What is done before the snapshot is stored.
Purging(m) ==
  [cl EXCEPT !.store = PurgeUntil(@, PurgeTick(m)), !.recv = m.tick, !.got = <<>>,
             !.crc = IF @ > 0 THEN @ - 1 ELSE @]

\* The snapshot is stored; with the second one the client is online.
Applied(m, snap) ==
  LET store == Add(Purging(m).store, m.tick, snap)
      second == cl.received = 1
  IN [Purging(m) EXCEPT !.store = store, !.ack = m.tick,
                !.received = Least(@ + 1, 2),
                !.prev = IF second THEN store[1].tick ELSE @,
                !.cur = IF second THEN store[Len(store)].tick ELSE @]

\* Mutant of Accepted: a tick that is already acknowledged is taken again.
AcceptedAgain(m) == m.tick >= cl.recv

Accepted(m) == m.tick >= cl.recv /\ m.tick > cl.ack
Complete(m) == DOMAIN Collected(m) = 0 .. m.n - 1
Base(m) == IF m.base >= 0 THEN Get(cl.store, m.base) ELSE EmptySnapshot

\* Either kind of resynchronisation: the ack is taken back and sent at once, if inputs are sent.
Resync(m, crc) ==
  /\ cl' = [cl EXCEPT !.recv = m.tick, !.got = <<>>, !.ack = Null, !.crc = crc]
  /\ inputs' = IF Predicting THEN inputs \union {Null} ELSE inputs

OnSnapPart(m) ==
  /\ Accepted(m) /\ ~Complete(m)
  /\ cl' = [cl EXCEPT !.recv = m.tick, !.got = Collected(m)]
  /\ UNCHANGED inputs

OnSnapWithoutBase(m) ==
  /\ Accepted(m) /\ Complete(m)
  /\ Base(m) = Missing
  /\ Resync(m, cl.crc)

Garbled(m) ==
  /\ Accepted(m) /\ Complete(m)
  /\ Base(m) # Missing
  /\ UnpackDelta(Base(m), m, Collected(m)) = BadSnapshot

\* The bytes cannot be decompressed, are no delta, or give no valid snapshot: not counted.
OnSnapUnreadable(m) ==
  /\ Garbled(m)
  /\ cl' = [cl EXCEPT !.recv = m.tick, !.got = <<>>]
  /\ UNCHANGED inputs

\* They give a snapshot with another CRC.
OnSnapBad(m) ==
  /\ Garbled(m)
  /\ IF cl.crc + 1 > CrcLimit THEN Resync(m, 0)
     ELSE /\ cl' = [cl EXCEPT !.recv = m.tick, !.got = <<>>, !.crc = @ + 1]
          /\ UNCHANGED inputs

Decoded(m) ==
  /\ Accepted(m) /\ Complete(m)
  /\ Base(m) # Missing
  /\ UnpackDelta(Base(m), m, Collected(m)) # BadSnapshot

\* The copy for the game has no room for its items (AltSnapSize < 0): nothing is stored.
OnSnapTooLarge(m) ==
  /\ Decoded(m)
  /\ cl' = Purging(m)
  /\ UNCHANGED inputs

OnSnapGood(m) ==
  /\ Decoded(m)
  /\ cl' = Applied(m, UnpackDelta(Base(m), m, Collected(m)))
  /\ UNCHANGED inputs

OnSnap(m) ==
  /\ \/ OnSnapPart(m) \/ OnSnapWithoutBase(m)
     \/ OnSnapUnreadable(m) \/ OnSnapBad(m)
     \/ OnSnapTooLarge(m) \/ OnSnapGood(m)
  /\ UNCHANGED <<tick, map, srv, slot, phase, net, sent>>

\* CClient::Update shows the next snapshot when its time has come.
SwitchSnapshot ==
  LET later == {t \in Ticks(cl.store) : t > cl.cur}
  IN /\ cl.cur # Null
     /\ later # {}
     /\ cl' = [cl EXCEPT !.prev = cl.cur, !.cur = Min(later)]
     /\ UNCHANGED <<tick, map, srv, slot, phase, net, inputs, sent>>

Next ==
  \/ \E w \in Worlds, n \in 0 .. MaxParts : DoSnapshot(w, n)
  \/ \E a \in inputs : OnInput(a)
  \/ SetTimedOut
  \/ ChangeMap
  \/ OnNetMsgEnterGame
  \/ LoadMap
  \/ EnterGame
  \/ SendInput
  \/ \E m \in net : OnSnap(m)
  \/ SwitchSnapshot

Spec == Init /\ [][Next]_vars

-----------------------------------------------------------------------------
Snapshot ==
  [map : Nat \union {-1}, slot : Slots \union {"none"},
   world : Worlds \union {"empty", "bad", "missing"}]
Storage == Seq([tick : MinTick .. MaxTick, snap : Snapshot])
Delta == [from : Snapshot, to : Snapshot]
MaybeTick == Null .. MaxTick
Packet ==
  [kind : {"empty", "parts"}, tick : MinTick .. MaxTick, base : MaybeTick,
   n : 1 .. MaxParts, part : Parts, delta : Delta]

SlotState ==
  [store : Storage, acked : MaybeTick, rate : {"init", "recover", "full"}]

\* The client with the parts P of a snapshot.
ClientState(P) ==
  [store : Storage, recv : MinTick .. MaxTick, ack : MaybeTick, got : [P -> Delta],
   prev : MaybeTick, cur : MaybeTick, received : 0 .. 2, crc : 0 .. CrcLimit,
   pred : BOOLEAN]

\* Type invariant: the values every field can have.
TypeOK ==
  /\ tick \in MinTick .. MaxTick
  /\ map \in Nat
  /\ srv \in [Slots -> SlotState]
  /\ \A s \in Slots : srv[s].acked <= tick
  /\ slot \in Slots
  /\ phase \in {"ingame", "changed", "loaded", "entered"}
  /\ net \subseteq Packet
  /\ inputs \subseteq MaybeTick
  /\ \E P \in SUBSET Parts : cl \in ClientState(P)

Increasing(store) ==
  \A i, j \in DOMAIN store : i < j => store[i].tick < store[j].tick

\* Neither storage is ever given a snapshot whose tick is not newer than its last one, the
\* assertion of CSnapshotStorage::Add, whatever packets come twice or late and however often
\* the ack was taken back, the slot resumed or the map changed.
StoredTicksIncrease ==
  TypeOK /\ Increasing(cl.store) /\ \A s \in Slots : Increasing(srv[s].store)

\* The two snapshots the game shows and interpolates between are in the storage (a purge never
\* frees them) and are two different ones in order: the intra tick divides by their distance.
ShownSnapshotsLive ==
  cl.cur # Null => /\ {cl.prev, cl.cur} \subseteq Ticks(cl.store)
                   /\ cl.prev < cl.cur

\* As long as the map does not change, every snapshot the client decoded is the one the
\* server built for it at that tick: no delta is applied to a base other than the one it was
\* made against, across lost, repeated and late packets and across the move to the slot that
\* timed out.
IsTrue(store) ==
  \A i \in DOMAIN store :
    store[i].tick \in DOMAIN sent /\ store[i].snap = sent[store[i].tick]

SnapshotsTrue == map = 0 => IsTrue(cl.store)

\* Once the player is in the game on the new map the client holds no snapshot of the old one:
\* client.cpp says the reset is there because snapshots are only valid for their map.
OnlyThisMap == phase = "ingame" => \A i \in DOMAIN cl.store : cl.store[i].snap.map = map

-----------------------------------------------------------------------------
(* The inductive invariant.                                                 *)

\* The storages grow at the end: the server stores the current tick, and the client has
\* stored no later tick than it has received, nor that one unless it is acknowledged.
ServerBehind == \A s \in Slots : \A x \in Ticks(srv[s].store) : x <= tick

ClientBehind ==
  \A x \in Ticks(cl.store) : x < cl.recv \/ (x = cl.recv /\ x = cl.ack)

\* Two snapshots are shown from the second one on.
ShownFromSecond ==
  /\ cl.received < 2 => Len(cl.store) = cl.received /\ cl.cur = Null
  /\ cl.received = 2 => cl.cur # Null
  /\ cl.cur = Null => cl.prev = Null

\* What a packet says of the snapshot of its tick and of its delta base.
PacketTrue(m) ==
  /\ m.tick \in DOMAIN sent /\ m.delta.to = sent[m.tick]
  /\ IF m.base = Null THEN m.delta.from = EmptySnapshot
     ELSE m.base \in DOMAIN sent /\ m.delta.from = sent[m.base]
  /\ m.kind = "empty" => m.delta.from = m.delta.to

ServerTrue ==
  map = 0 => /\ DOMAIN sent \subseteq MinTick .. tick
             /\ IsTrue(srv[slot].store)
             /\ \A m \in net : PacketTrue(m)

IInv ==
  /\ StoredTicksIncrease /\ ServerBehind /\ ClientBehind
  /\ ShownSnapshotsLive /\ ShownFromSecond
  /\ SnapshotsTrue /\ ServerTrue
=============================================================================
