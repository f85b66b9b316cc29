-------------------------- MODULE SnapshotsProofs --------------------------
(***************************************************************************)
(* The snapshots a client keeps are those the server made, in order, and   *)
(* the two that are shown are among them: whatever packets are lost,       *)
(* repeated or late, for any number of ticks, maps, parts and worlds.      *)
(*                                                                         *)
(* The storages (CSnapshotStorage) are sequences with increasing ticks: a  *)
(* purge takes a prefix off, and what is added is newer than everything    *)
(* that is kept.                                                           *)
(***************************************************************************)
EXTENDS Snapshots, NumberLemmas, SequenceTheorems

\* Max and Min of FiniteSetsExt are what they should be.
LEMMA LargestIndex ==
  ASSUME NEW n \in Nat, NEW T \in SUBSET (1 .. n), T # {}
  PROVE  Max(T) \in T /\ \A y \in T : y <= Max(T)
<1> DEFINE D == {n - x : x \in T}
<1>1. D \in SUBSET Nat /\ D # {}
  <2>1. \A x \in T : n - x \in Nat
    OBVIOUS
  <2> QED BY <2>1
<1>2. PICK d \in D : \A e \in D : d <= e
  <2> HIDE DEF D
  <2> QED BY <1>1, SmallestNumber
<1>3. PICK x \in T : d = n - x
  OBVIOUS
<1>4. \A y \in T : x >= y
  <2>1. \A y \in T : n - y \in D /\ y \in Nat /\ x \in Nat
    OBVIOUS
  <2> HIDE DEF D
  <2> QED BY <1>2, <1>3, <2>1
<1>5. Max(T) \in T /\ \A y \in T : Max(T) >= y
  BY <1>4 DEF Max
<1> QED BY <1>5

LEMMA SmallestIsMin ==
  ASSUME NEW T \in SUBSET Nat, T # {}
  PROVE  Min(T) \in T /\ \A y \in T : Min(T) <= y
<1>1. \E x \in T : \A y \in T : x <= y
  BY SmallestNumber
<1> QED BY <1>1, Zenon DEF Min

-----------------------------------------------------------------------------
(* The storage.                                                             *)

LEMMA StorageElements ==
  ASSUME NEW store \in Storage
  PROVE  /\ DOMAIN store = 1 .. Len(store) /\ Len(store) \in Nat
         /\ \A i \in DOMAIN store :
              /\ store[i].tick \in MinTick .. MaxTick /\ store[i].tick \in Nat
              /\ store[i].snap \in Snapshot
<1> DEFINE H == [tick : MinTick .. MaxTick, snap : Snapshot]
<1>1. store \in Seq(H)
  BY DEF Storage
<1>2. \A h \in H : /\ h.tick \in MinTick .. MaxTick /\ h.tick \in Nat
                   /\ h.snap \in Snapshot
  BY SnapshotAssumption DEF MinTick
<1> HIDE DEF H
<1>3. DOMAIN store = 1 .. Len(store) /\ Len(store) \in Nat
  BY <1>1
<1>4. \A i \in DOMAIN store : store[i] \in H
  BY <1>1
<1> QED BY <1>2, <1>3, <1>4

\* A purge takes a prefix off, and nothing of it is as new as t.
LEMMA PurgeCuts ==
  ASSUME NEW store \in Storage, NEW t \in Int
  PROVE  \E k \in 0 .. Len(store) :
           /\ PurgeUntil(store, t) \in Storage
           /\ Len(PurgeUntil(store, t)) = Len(store) - k
           /\ \A i \in 1 .. Len(store) - k : PurgeUntil(store, t)[i] = store[i + k]
           /\ \A i \in 1 .. Len(store) : store[i].tick >= t => i > k
<1> DEFINE H == [tick : MinTick .. MaxTick, snap : Snapshot]
           L == Len(store)
           kept == {i \in DOMAIN store : store[i].tick >= t}
<1>1. store \in Seq(H) /\ L \in Nat /\ DOMAIN store = 1 .. L /\ Storage = Seq(H)
  BY DEF Storage
<1> HIDE DEF H
<1>2. CASE kept = {}
  <2>1. PurgeUntil(store, t) = << >>
    BY <1>2 DEF PurgeUntil
  <2>2. /\ PurgeUntil(store, t) \in Storage
        /\ Len(PurgeUntil(store, t)) = L - L
        /\ \A i \in 1 .. L - L : PurgeUntil(store, t)[i] = store[i + L]
    BY <1>1, <2>1
  <2>3. \A i \in 1 .. L : store[i].tick >= t => i > L
    BY <1>1, <1>2
  <2>4. L \in 0 .. L
    BY <1>1
  <2> QED BY <2>2, <2>3, <2>4
<1>3. CASE kept # {}
  <2> DEFINE f == Min(kept)
  <2>1. kept \in SUBSET Nat /\ kept \subseteq 1 .. L
    BY <1>1
  <2>2. f \in kept /\ \A i \in kept : f <= i
    <3> HIDE DEF kept
    <3> QED BY <1>3, <2>1, SmallestIsMin
  <2>3. f \in 1 .. L
    BY <2>1, <2>2
  <2>4. PurgeUntil(store, t) = SubSeq(store, f, L)
    BY <1>3 DEF PurgeUntil
  <2>5. \A i \in 1 .. L : store[i].tick >= t => i >= f
    BY <1>1, <2>2
  <2> HIDE DEF f, kept
  <2>6. /\ SubSeq(store, f, L) \in Seq(H)
        /\ Len(SubSeq(store, f, L)) = L - f + 1
        /\ \A i \in 1 .. L - f + 1 : SubSeq(store, f, L)[i] = store[f + i - 1]
    <3>1. f \in Int /\ L \in Int /\ f <= L /\ \A i \in f .. L : store[i] \in H
      BY <1>1, <2>3
    <3> HIDE DEF L
    <3> QED BY <3>1, SubSeqProperties
  <2>7. f - 1 \in 0 .. L /\ \A i \in 1 .. L : store[i].tick >= t => i > f - 1
    BY <1>1, <2>3, <2>5
  <2>8. \A i \in 1 .. L - (f - 1) : SubSeq(store, f, L)[i] = store[i + (f - 1)]
    BY <1>1, <2>3, <2>6
  <2>9. Len(SubSeq(store, f, L)) = L - (f - 1)
    BY <1>1, <2>3, <2>6
  <2> HIDE DEF L
  <2>10. \E k \in 0 .. L :
           /\ SubSeq(store, f, L) \in Storage
           /\ Len(SubSeq(store, f, L)) = L - k
           /\ \A i \in 1 .. L - k : SubSeq(store, f, L)[i] = store[i + k]
           /\ \A i \in 1 .. L : store[i].tick >= t => i > k
    <3>1. SubSeq(store, f, L) \in Storage
      BY <1>1, <2>6
    <3>2. PICK k : k = f - 1
      OBVIOUS
    <3>3. /\ k \in 0 .. L
          /\ Len(SubSeq(store, f, L)) = L - k
          /\ \A i \in 1 .. L - k : SubSeq(store, f, L)[i] = store[i + k]
          /\ \A i \in 1 .. L : store[i].tick >= t => i > k
      BY <2>7, <2>8, <2>9, <3>2
    <3> QED BY <3>1, <3>3
  <2> QED BY <2>4, <2>10 DEF L
<1> QED BY <1>2, <1>3

\* What is kept of a purge.
LEMMA PurgeKeeps ==
  ASSUME NEW store \in Storage, NEW t \in Int
  PROVE  /\ PurgeUntil(store, t) \in Storage
         /\ Len(PurgeUntil(store, t)) <= Len(store)
         /\ \A i \in DOMAIN PurgeUntil(store, t) :
              \E j \in DOMAIN store : PurgeUntil(store, t)[i] = store[j]
         /\ \A i \in DOMAIN store : store[i].tick >= t =>
              \E j \in DOMAIN PurgeUntil(store, t) : PurgeUntil(store, t)[j] = store[i]
         /\ Increasing(store) => Increasing(PurgeUntil(store, t))
<1> DEFINE p == PurgeUntil(store, t)
<1>1. PICK k \in 0 .. Len(store) :
        /\ p \in Storage
        /\ Len(p) = Len(store) - k
        /\ \A i \in 1 .. Len(store) - k : p[i] = store[i + k]
        /\ \A i \in 1 .. Len(store) : store[i].tick >= t => i > k
  BY PurgeCuts
<1> HIDE DEF p
<1>2. /\ DOMAIN store = 1 .. Len(store) /\ Len(store) \in Nat
      /\ DOMAIN p = 1 .. Len(p)
  BY <1>1 DEF Storage
<1>3. \A i \in DOMAIN p : i + k \in DOMAIN store /\ p[i] = store[i + k]
  BY <1>1, <1>2
<1>4. \A i \in DOMAIN store : store[i].tick >= t =>
        \E j \in DOMAIN p : p[j] = store[i]
  <2> SUFFICES ASSUME NEW i \in DOMAIN store, store[i].tick >= t
               PROVE  \E j \in DOMAIN p : p[j] = store[i]
    OBVIOUS
  <2>1. i - k \in DOMAIN p /\ (i - k) + k = i
    BY <1>1, <1>2
  <2> QED BY <1>3, <2>1
<1>5. ASSUME Increasing(store)  PROVE Increasing(p)
  <2> SUFFICES ASSUME NEW i \in DOMAIN p, NEW j \in DOMAIN p, i < j
               PROVE  p[i].tick < p[j].tick
    BY DEF Increasing
  <2>1. i + k < j + k
    BY <1>1, <1>2
  <2> QED BY <1>3, <1>5, <2>1 DEF Increasing
<1> QED BY <1>1, <1>2, <1>3, <1>4, <1>5 DEF p

\* What is added is the last holder.
LEMMA AddProps ==
  ASSUME NEW store \in Storage, NEW t \in MinTick .. MaxTick, NEW snap \in Snapshot
  PROVE  /\ Add(store, t, snap) \in Storage
         /\ Len(Add(store, t, snap)) = Len(store) + 1
         /\ \A i \in DOMAIN store : Add(store, t, snap)[i] = store[i]
         /\ Add(store, t, snap)[Len(store) + 1] = [tick |-> t, snap |-> snap]
         /\ Ticks(Add(store, t, snap)) = Ticks(store) \cup {t}
         /\ Increasing(store) /\ (\A x \in Ticks(store) : x < t) =>
              Increasing(Add(store, t, snap))
<1> DEFINE new == [tick |-> t, snap |-> snap]
           H == [tick : MinTick .. MaxTick, snap : Snapshot]
           a == Append(store, new)
<1>1. store \in Seq(H) /\ new \in H /\ new.tick = t /\ Storage = Seq(H)
  BY DEF Storage
<1>2. Add(store, t, snap) = a
  BY DEF Add
<1> HIDE DEF new, H
<1>3. /\ a \in Seq(H) /\ Len(a) = Len(store) + 1 /\ Len(store) \in Nat
      /\ \A i \in 1 .. Len(store) : a[i] = store[i]
      /\ a[Len(store) + 1] = new
      /\ DOMAIN store = 1 .. Len(store) /\ DOMAIN a = 1 .. Len(store) + 1
  BY <1>1
<1> HIDE DEF a
<1>4. Ticks(a) = Ticks(store) \cup {t}
  <2>1. \A i \in DOMAIN a : i \in DOMAIN store \/ i = Len(store) + 1
    BY <1>3
  <2>2. \A i \in DOMAIN store : i \in DOMAIN a
    BY <1>3
  <2> QED BY <1>1, <1>3, <2>1, <2>2 DEF Ticks
<1>5. ASSUME Increasing(store), \A x \in Ticks(store) : x < t
      PROVE  Increasing(a)
  <2> SUFFICES ASSUME NEW i \in DOMAIN a, NEW j \in DOMAIN a, i < j
               PROVE  a[i].tick < a[j].tick
    BY DEF Increasing
  <2>1. i \in DOMAIN store
    BY <1>3
  <2>2. CASE j \in DOMAIN store
    BY <1>3, <1>5, <2>1, <2>2 DEF Increasing
  <2>3. CASE j \notin DOMAIN store
    <3>1. a[j].tick = t
      BY <1>1, <1>3, <2>3
    <3>2. a[i].tick \in Ticks(store)
      BY <1>3, <2>1 DEF Ticks
    <3> QED BY <1>5, <3>1, <3>2
  <2> QED BY <2>2, <2>3
<1> QED BY <1>1, <1>2, <1>3, <1>4, <1>5 DEF new

\* Get finds a snapshot that was added at that tick.
LEMMA GetFinds ==
  ASSUME NEW store \in Storage, NEW t \in Int
  PROVE  /\ Get(store, t) = Missing
            \/ \E i \in DOMAIN store : store[i].tick = t /\ store[i].snap = Get(store, t)
         /\ Get(store, t) \in Snapshot
<1> DEFINE newer == {i \in DOMAIN store : store[i].tick <= t}
           i == Max(newer)
<1>1. /\ DOMAIN store = 1 .. Len(store) /\ Len(store) \in Nat
      /\ \A j \in DOMAIN store : store[j].snap \in Snapshot
  BY StorageElements
<1>2. Missing \in Snapshot
  BY DEF Missing, Snapshot
<1>3. newer \in SUBSET (1 .. Len(store))
  BY <1>1
<1>4. newer # {} => i \in newer
  <2> HIDE DEF newer
  <2> QED BY <1>1, <1>3, LargestIndex
<1>5. newer # {} => i \in DOMAIN store
  BY <1>4
<1>6. Get(store, t) = IF newer # {} /\ store[i].tick = t THEN store[i].snap ELSE Missing
  BY DEF Get
<1> HIDE DEF newer, i
<1> QED BY <1>1, <1>2, <1>5, <1>6

\* In a storage with increasing ticks it finds every one that is there.
LEMMA GetExact ==
  ASSUME NEW store \in Storage, NEW j \in DOMAIN store, Increasing(store)
  PROVE  Get(store, store[j].tick) = store[j].snap
<1> DEFINE t == store[j].tick
           newer == {i \in DOMAIN store : store[i].tick <= t}
           i == Max(newer)
<1>1. /\ DOMAIN store = 1 .. Len(store) /\ Len(store) \in Nat
      /\ \A k \in DOMAIN store : store[k].tick \in Int
  BY StorageElements
<1>2. newer \in SUBSET (1 .. Len(store)) /\ j \in newer
  BY <1>1
<1>3. i \in newer /\ j <= i
  <2> HIDE DEF newer
  <2> QED BY <1>1, <1>2, LargestIndex
<1>4. i \in DOMAIN store /\ store[i].tick <= t
  BY <1>3
<1>5. i = j
  BY <1>1, <1>3, <1>4 DEF Increasing
<1> QED BY <1>2, <1>5 DEF Get

-----------------------------------------------------------------------------
(* The server.                                                              *)

LEMMA SlotElements ==
  ASSUME NEW c \in SlotState
  PROVE  c.store \in Storage /\ c.acked \in MaybeTick /\ c.acked \in Int
BY DEF SlotState, MaybeTick, Null

\* What CSnapshotStorage::PurgeUntil leaves of a slot.
LEMMA PurgedSlot ==
  ASSUME NEW c \in SlotState, NEW t \in Nat
  PROVE  /\ Purged(c, t) \in Storage
         /\ \A i \in DOMAIN Purged(c, t) :
              \E j \in DOMAIN c.store : Purged(c, t)[i] = c.store[j]
         /\ Increasing(c.store) => Increasing(Purged(c, t))
<1>1. Most(t - KeepTicks, c.acked) \in Int
  BY SlotElements, SnapshotAssumption DEF Most
<1>2. c.store \in Storage
  BY SlotElements
<1> QED BY <1>1, <1>2, PurgeKeeps DEF Purged

\* A slot after a snapshot.
LEMMA StoredSlot ==
  ASSUME NEW c \in SlotState, NEW t \in MinTick .. MaxTick, NEW snap \in Snapshot,
         Increasing(c.store), \A x \in Ticks(c.store) : x < t
  PROVE  /\ Stored(c, t, snap) \in SlotState
         /\ Stored(c, t, snap).acked = c.acked
         /\ Increasing(Stored(c, t, snap).store)
         /\ \A x \in Ticks(Stored(c, t, snap).store) : x <= t
         /\ \A i \in DOMAIN Stored(c, t, snap).store :
              \/ Stored(c, t, snap).store[i] = [tick |-> t, snap |-> snap]
              \/ \E j \in DOMAIN c.store : Stored(c, t, snap).store[i] = c.store[j]
<1> DEFINE p == Purged(c, t)
           a == Add(p, t, snap)
           found == c.acked >= MinTick /\ Get(a, c.acked) # Missing
           rate == IF ~found /\ c.rate = "full" THEN "recover" ELSE c.rate
<1>0. t \in Nat
  BY SnapshotAssumption DEF MinTick
<1>1. /\ p \in Storage /\ Increasing(p)
      /\ \A i \in DOMAIN p : \E j \in DOMAIN c.store : p[i] = c.store[j]
  BY <1>0, PurgedSlot
<1> HIDE DEF p
<1>2. \A x \in Ticks(p) : x \in Ticks(c.store)
  BY <1>1 DEF Ticks
<1>3. /\ a \in Storage /\ Len(a) = Len(p) + 1
      /\ \A i \in DOMAIN p : a[i] = p[i]
      /\ a[Len(p) + 1] = [tick |-> t, snap |-> snap]
      /\ Ticks(a) = Ticks(p) \cup {t}
      /\ Increasing(a)
  BY <1>1, <1>2, AddProps
<1>4. DOMAIN a = 1 .. Len(a) /\ DOMAIN p = 1 .. Len(p) /\ Len(p) \in Nat
  BY <1>1, <1>3, StorageElements
<1>5. Stored(c, t, snap) = [c EXCEPT !.store = a, !.rate = rate]
  BY DEF Stored, p
<1> HIDE DEF a
<1>6. rate \in {"init", "recover", "full"}
  BY DEF SlotState
<1> HIDE DEF rate
<1>7. /\ Stored(c, t, snap) \in SlotState
      /\ Stored(c, t, snap).acked = c.acked
      /\ Stored(c, t, snap).store = a
  BY <1>3, <1>5, <1>6 DEF SlotState
<1>8. \A x \in Ticks(a) : x <= t
  <2>1. \A x \in Ticks(c.store) : x < t /\ x <= t
    <3>1. \A x \in Ticks(c.store) : x \in Nat
      BY SlotElements, StorageElements DEF Ticks
    <3> QED BY <1>0, <3>1
  <2> QED BY <1>0, <1>2, <1>3, <2>1
<1>9. \A i \in DOMAIN a :
        \/ a[i] = [tick |-> t, snap |-> snap]
        \/ \E j \in DOMAIN c.store : a[i] = c.store[j]
  <2> SUFFICES ASSUME NEW i \in DOMAIN a
               PROVE  \/ a[i] = [tick |-> t, snap |-> snap]
                      \/ \E j \in DOMAIN c.store : a[i] = c.store[j]
    OBVIOUS
  <2>1. i = Len(p) + 1 \/ i \in DOMAIN p
    BY <1>3, <1>4
  <2> QED BY <1>1, <1>3, <2>1
<1> QED BY <1>3, <1>7, <1>8, <1>9

\* The packets of a snapshot: what they are made against is in the storage of the slot.
LEMMA PacketsOf ==
  ASSUME NEW c \in SlotState, NEW t \in MinTick .. MaxTick, NEW snap \in Snapshot,
         NEW n \in 0 .. MaxParts, Increasing(c.store), NEW m \in Packets(c, t, snap, n)
  PROVE  /\ m \in Packet
         /\ m.tick = t /\ m.delta.to = snap
         /\ m.kind = "empty" => m.delta.from = m.delta.to
         /\ \/ m.base = Null /\ m.delta.from = EmptySnapshot
            \/ /\ m.base # Null
               /\ \E j \in DOMAIN c.store : /\ c.store[j].tick = m.base
                                            /\ c.store[j].snap = m.delta.from
<1> DEFINE base == DeltaTick(c, t)
           from == IF base = Null THEN EmptySnapshot ELSE Get(c.store, base)
<1>0. /\ t \in Nat /\ c.store \in Storage /\ c.acked \in MaybeTick /\ c.acked \in Int
      /\ MaxParts \in Nat \ {0}
  BY SlotElements, SnapshotAssumption DEF MinTick
<1>1. /\ base \in MaybeTick
      /\ from \in Snapshot
      /\ \/ base = Null /\ from = EmptySnapshot
         \/ /\ base # Null
            /\ \E j \in DOMAIN c.store : c.store[j].tick = base /\ c.store[j].snap = from
  <2>1. CASE base = Null
    BY <2>1, SnapshotAssumption DEF EmptySnapshot, Snapshot, MaybeTick, Null
  <2>2. CASE base # Null
    <3>1. base = c.acked /\ Get(Purged(c, t), c.acked) # Missing
      BY <2>2 DEF DeltaTick
    <3>2. PICK i \in DOMAIN Purged(c, t) : Purged(c, t)[i].tick = c.acked
      BY <1>0, <3>1, PurgedSlot, GetFinds
    <3>3. PICK j \in DOMAIN c.store : c.store[j].tick = c.acked
      BY <1>0, <3>2, PurgedSlot
    <3>4. Get(c.store, c.acked) = c.store[j].snap
      BY <1>0, <3>3, GetExact
    <3>5. c.store[j].snap \in Snapshot
      BY <1>0, StorageElements
    <3> QED BY <1>0, <2>2, <3>1, <3>3, <3>4, <3>5
  <2> QED BY <2>1, <2>2
<1> HIDE DEF base
<1>2. from \in Snapshot /\ snap \in Snapshot
  BY <1>1
<1>3. CASE from = snap
  <2>1. m = [kind |-> "empty", tick |-> t, base |-> base, n |-> 1, part |-> 0,
             delta |-> [from |-> from, to |-> from]]
    BY <1>3 DEF Packets, base
  <2> HIDE DEF from
  <2>2. 0 \in Parts /\ 1 \in 1 .. MaxParts
    BY <1>0 DEF Parts
  <2> QED BY <1>1, <1>3, <2>1, <2>2 DEF Packet, Delta
<1>4. CASE from # snap
  <2>1. PICK p \in 0 .. n - 1 :
          m = [kind |-> "parts", tick |-> t, base |-> base, n |-> n, part |-> p,
               delta |-> [from |-> from, to |-> snap]]
    BY <1>4 DEF Packets, base
  <2> HIDE DEF from
  <2>2. p \in Parts /\ n \in 1 .. MaxParts
    BY <1>0 DEF Parts
  <2> QED BY <1>1, <2>1, <2>2 DEF Packet, Delta
<1> QED BY <1>3, <1>4

LEMMA EmptyStorage ==
  /\ << >> \in Storage /\ Increasing(<< >>) /\ Ticks(<< >>) = {} /\ IsTrue(<< >>)
BY DEF Storage, Increasing, Ticks, IsTrue

\* The client after the map was loaded has nothing.
LEMMA NoParts == << >> \in [{} -> Delta] /\ {} \in SUBSET Parts
OBVIOUS

LEMMA InitInv == Init => IInv
<1> SUFFICES ASSUME Init  PROVE IInv
  OBVIOUS
<1>0. /\ MaxTick \in Nat /\ CrcLimit \in Nat
      /\ MinTick \in MinTick .. MaxTick /\ 0 \in MinTick .. MaxTick
      /\ Null \in MaybeTick /\ Null <= MinTick
  BY SnapshotAssumption DEF MinTick, MaybeTick, Null
<1>1. /\ \A s \in Slots : /\ srv[s] \in SlotState
                          /\ srv[s].store = << >> /\ srv[s].acked = Null
      /\ srv \in [Slots -> SlotState]
  BY <1>0, EmptyStorage DEF Init, ServerReset, SlotState
<1>2. /\ cl \in ClientState({}) /\ cl.store = << >> /\ cl.cur = Null /\ cl.prev = Null
      /\ cl.received = 0
  BY <1>0, EmptyStorage, NoParts DEF Init, ClientReset, ClientState
<1>3. TypeOK
  BY <1>0, <1>1, <1>2, NoParts DEF Init, TypeOK, Slots
<1>4. StoredTicksIncrease /\ ServerBehind /\ ClientBehind
  BY <1>1, <1>2, <1>3, EmptyStorage DEF StoredTicksIncrease, ServerBehind, ClientBehind
<1>5. ShownSnapshotsLive /\ ShownFromSecond
  BY <1>2 DEF ShownSnapshotsLive, ShownFromSecond
<1>6. SnapshotsTrue /\ ServerTrue
  BY <1>1, <1>2, EmptyStorage DEF Init, SnapshotsTrue, ServerTrue, Slots
<1> QED BY <1>4, <1>5, <1>6 DEF IInv

\* A step that leaves the client alone.
LEMMA ClientSame ==
  ASSUME IInv, UNCHANGED cl
  PROVE  /\ Increasing(cl.store)' /\ ClientBehind'
         /\ ShownSnapshotsLive' /\ ShownFromSecond'
         /\ \E P \in SUBSET Parts : cl' \in ClientState(P)
BY DEF IInv, StoredTicksIncrease, TypeOK, ClientBehind, ShownSnapshotsLive, ShownFromSecond,
   Increasing, Ticks

LEMMA DoSnapshotInv ==
  ASSUME IInv, NEW w \in Worlds, NEW n \in 0 .. MaxParts, DoSnapshot(w, n)
  PROVE  IInv'
<1> DEFINE t == tick + 1
           snap == Snap(slot, w)
           due == phase = "ingame" /\ Due(srv[slot], t)
           idle == Snap("old", CHOOSE v \in Worlds : TRUE)
<1>0. /\ t \in MinTick .. MaxTick /\ t \in Nat /\ tick \in Nat /\ tick < t
      /\ slot \in Slots /\ "old" \in Slots
      /\ snap \in Snapshot /\ idle \in Snapshot
  <2>1. t <= MaxTick /\ tick \in MinTick .. MaxTick /\ slot \in Slots /\ map \in Nat
    BY DEF DoSnapshot, IInv, StoredTicksIncrease, TypeOK
  <2>2. (CHOOSE v \in Worlds : TRUE) \in Worlds
    BY SnapshotAssumption
  <2> QED BY <2>1, <2>2, SnapshotAssumption DEF MinTick, Slots, Snap, Snapshot
<1>1. \A s \in Slots : /\ srv[s] \in SlotState /\ Increasing(srv[s].store)
                       /\ \A x \in Ticks(srv[s].store) : x < t
                       /\ \A x \in Ticks(srv[s].store) : x <= t
                       /\ srv[s].acked <= t
  <2> SUFFICES ASSUME NEW s \in Slots
               PROVE  /\ srv[s] \in SlotState /\ Increasing(srv[s].store)
                      /\ \A x \in Ticks(srv[s].store) : x < t
                      /\ \A x \in Ticks(srv[s].store) : x <= t
                      /\ srv[s].acked <= t
    OBVIOUS
  <2>1. /\ srv[s] \in SlotState /\ Increasing(srv[s].store) /\ srv[s].acked <= tick
        /\ \A x \in Ticks(srv[s].store) : x <= tick
    BY DEF IInv, StoredTicksIncrease, TypeOK, ServerBehind
  <2>2. srv[s].store \in Storage /\ srv[s].acked \in Int
    BY <2>1, SlotElements
  <2>3. \A x \in Ticks(srv[s].store) : x \in Nat
    BY <2>2, StorageElements DEF Ticks
  <2> QED BY <1>0, <2>1, <2>2, <2>3
<1>2. /\ tick' = t /\ UNCHANGED <<map, slot, phase, inputs, cl>>
      /\ srv' = IF due THEN [srv EXCEPT !["old"] = IdleSnapshot(t),
                                        ![slot] = Stored(srv[slot], t, snap)]
                ELSE [srv EXCEPT !["old"] = IdleSnapshot(t)]
      /\ net' = IF due THEN net \union Packets(srv[slot], t, snap, n) ELSE net
      /\ sent' = IF due THEN With(sent, t, snap) ELSE sent
  BY DEF DoSnapshot
<1>3. /\ IdleSnapshot(t) \in SlotState /\ IdleSnapshot(t).acked = srv["old"].acked
      /\ Increasing(IdleSnapshot(t).store)
      /\ \A x \in Ticks(IdleSnapshot(t).store) : x <= t
      /\ slot = "old" => IdleSnapshot(t) = srv["old"]
  <2>1. CASE slot = "own" /\ map = 0
    <3>1. IdleSnapshot(t) = Stored(srv["old"], t, idle)
      BY <2>1 DEF IdleSnapshot
    <3> HIDE DEF idle
    <3>2. /\ srv["old"] \in SlotState /\ Increasing(srv["old"].store)
          /\ \A x \in Ticks(srv["old"].store) : x < t
      BY <1>0, <1>1
    <3>3. /\ Stored(srv["old"], t, idle) \in SlotState
          /\ Stored(srv["old"], t, idle).acked = srv["old"].acked
          /\ Increasing(Stored(srv["old"], t, idle).store)
          /\ \A x \in Ticks(Stored(srv["old"], t, idle).store) : x <= t
      BY <1>0, <3>2, StoredSlot
    <3> QED BY <2>1, <3>1, <3>3
  <2>2. CASE ~ (slot = "own" /\ map = 0)
    <3>1. IdleSnapshot(t) = srv["old"]
      BY <2>2 DEF IdleSnapshot
    <3>2. \A x \in Ticks(srv["old"].store) : x <= t
      BY <1>0, <1>1
    <3> QED BY <1>0, <1>1, <3>1, <3>2
  <2> QED BY <2>1, <2>2
<1> HIDE DEF idle
<1>4. /\ Stored(srv[slot], t, snap) \in SlotState
      /\ Stored(srv[slot], t, snap).acked = srv[slot].acked
      /\ Increasing(Stored(srv[slot], t, snap).store)
      /\ \A x \in Ticks(Stored(srv[slot], t, snap).store) : x <= t
      /\ \A i \in DOMAIN Stored(srv[slot], t, snap).store :
           \/ Stored(srv[slot], t, snap).store[i] = [tick |-> t, snap |-> snap]
           \/ \E j \in DOMAIN srv[slot].store :
                Stored(srv[slot], t, snap).store[i] = srv[slot].store[j]
  <2> HIDE DEF snap
  <2> QED BY <1>0, <1>1, StoredSlot
<1>5. srv \in [Slots -> SlotState]
  BY DEF IInv, StoredTicksIncrease, TypeOK
<1> HIDE DEF snap, due
<1>6. \A s \in Slots :
        srv'[s] = IF due /\ s = slot THEN Stored(srv[slot], t, snap)
                  ELSE IF s = "old" THEN IdleSnapshot(t) ELSE srv[s]
  BY <1>0, <1>2, <1>5
<1>7. /\ srv' \in [Slots -> SlotState]
      /\ \A s \in Slots : /\ srv'[s].acked <= t
                          /\ Increasing(srv'[s].store)
                          /\ \A x \in Ticks(srv'[s].store) : x <= t
  <2>1. srv' \in [Slots -> SlotState]
    BY <1>0, <1>2, <1>3, <1>4, <1>5
  <2>2. ASSUME NEW s \in Slots
        PROVE  /\ srv'[s].acked <= t /\ Increasing(srv'[s].store)
               /\ \A x \in Ticks(srv'[s].store) : x <= t
    <3>1. srv[s].acked <= t /\ \A x \in Ticks(srv[s].store) : x <= t
      BY <1>1
    <3>2. CASE due /\ s = slot
      BY <1>4, <1>6, <3>1, <3>2
    <3>3. CASE ~ (due /\ s = slot) /\ s = "old"
      BY <1>3, <1>6, <3>1, <3>3
    <3>4. CASE ~ (due /\ s = slot) /\ s # "old"
      BY <1>1, <1>6, <3>1, <3>4
    <3> QED BY <3>2, <3>3, <3>4
  <2> QED BY <2>1, <2>2
<1>8. \A m \in Packets(srv[slot], t, snap, n) :
        /\ m \in Packet
        /\ m.tick = t /\ m.delta.to = snap
        /\ m.kind = "empty" => m.delta.from = m.delta.to
        /\ \/ m.base = Null /\ m.delta.from = EmptySnapshot
           \/ /\ m.base # Null
              /\ \E j \in DOMAIN srv[slot].store : /\ srv[slot].store[j].tick = m.base
                                                   /\ srv[slot].store[j].snap = m.delta.from
  BY <1>0, <1>1, PacketsOf
<1>9. TypeOK'
  <2>1. net' \subseteq Packet
    BY <1>2, <1>8 DEF IInv, StoredTicksIncrease, TypeOK
  <2>2. \A s \in Slots : srv'[s].acked <= tick'
    BY <1>2, <1>7
  <2>3. tick' \in MinTick .. MaxTick
    BY <1>0, <1>2
  <2> QED BY <1>2, <1>7, <2>1, <2>2, <2>3 DEF IInv, StoredTicksIncrease, TypeOK
<1>10. StoredTicksIncrease' /\ ServerBehind'
  BY <1>2, <1>7, <1>9, ClientSame DEF StoredTicksIncrease, ServerBehind
<1>11. ServerTrue' /\ SnapshotsTrue'
  <2> SUFFICES ASSUME map = 0
               PROVE  /\ DOMAIN sent' \subseteq MinTick .. t
                      /\ IsTrue(srv[slot].store)'
                      /\ \A m \in net' : PacketTrue(m)'
                      /\ IsTrue(cl.store)'
    BY <1>2 DEF ServerTrue, SnapshotsTrue
  <2>1. /\ DOMAIN sent \subseteq MinTick .. tick
        /\ IsTrue(srv[slot].store)
        /\ \A m \in net : PacketTrue(m)
        /\ IsTrue(cl.store)
    BY DEF IInv, ServerTrue, SnapshotsTrue
  <2>2. CASE due
    <3>1. /\ DOMAIN sent' = DOMAIN sent \union {t}
          /\ sent'[t] = snap
          /\ \A x \in DOMAIN sent : sent'[x] = sent[x]
      <4>1. sent' = [y \in DOMAIN sent \union {t} |-> IF y = t THEN snap ELSE sent[y]]
        BY <1>2, <2>2 DEF With
      <4>2. t \notin DOMAIN sent
        BY <1>0, <2>1
      <4> QED BY <4>1, <4>2
    <3>2. DOMAIN sent' \subseteq MinTick .. t
      BY <1>0, <2>1, <3>1 DEF MinTick
    <3>3. IsTrue(srv[slot].store)'
      <4>1. srv'[slot] = Stored(srv[slot], t, snap) /\ slot' = slot
        BY <1>0, <1>2, <1>6, <2>2
      <4> QED BY <1>4, <2>1, <3>1, <4>1 DEF IsTrue
    <3>4. ASSUME NEW m \in net'  PROVE PacketTrue(m)'
      <4>1. CASE m \in net
        BY <2>1, <3>1, <4>1 DEF PacketTrue
      <4>2. CASE m \in Packets(srv[slot], t, snap, n)
        BY <1>8, <2>1, <3>1, <4>2 DEF PacketTrue, IsTrue
      <4> QED BY <1>2, <2>2, <3>4, <4>1, <4>2
    <3>5. IsTrue(cl.store)'
      BY <1>2, <2>1, <3>1 DEF IsTrue
    <3> QED BY <3>2, <3>3, <3>4, <3>5
  <2>3. CASE ~ due
    <3>1. srv'[slot].store = srv[slot].store /\ sent' = sent /\ net' = net
      BY <1>0, <1>2, <1>3, <1>6, <2>3
    <3>2. DOMAIN sent' \subseteq MinTick .. t
      BY <1>0, <2>1, <3>1 DEF MinTick
    <3> QED BY <1>2, <2>1, <3>1, <3>2 DEF IsTrue, PacketTrue
  <2> QED BY <2>2, <2>3
<1> QED BY <1>2, <1>10, <1>11, ClientSame DEF IInv

\* The records of the slots that are reset.
LEMMA ResetSlots ==
  /\ ServerReset \in SlotState /\ ServerReset.store = << >> /\ ServerReset.acked = Null
  /\ Null \in MaybeTick /\ Null <= MinTick
BY EmptyStorage, SnapshotAssumption DEF ServerReset, SlotState, MaybeTick, Null, MinTick

LEMMA OnInputInv ==
  ASSUME IInv, NEW a \in inputs, OnInput(a)  PROVE IInv'
<1>0. /\ a \in MaybeTick /\ a <= tick /\ slot \in Slots /\ srv \in [Slots -> SlotState]
  BY DEF OnInput, IInv, StoredTicksIncrease, TypeOK
<1>1. /\ UNCHANGED <<tick, map, slot, phase, net, inputs, cl, sent>>
      /\ srv' = [srv EXCEPT ![slot].acked = a,
                            ![slot].rate = IF a >= MinTick THEN "full" ELSE @]
  BY DEF OnInput
<1>2. /\ srv' \in [Slots -> SlotState]
      /\ \A s \in Slots : /\ srv'[s].store = srv[s].store
                          /\ srv'[s].acked = IF s = slot THEN a ELSE srv[s].acked
  BY <1>0, <1>1 DEF SlotState
<1>3. StoredTicksIncrease' /\ ServerBehind'
  BY <1>0, <1>1, <1>2, ClientSame DEF IInv, StoredTicksIncrease, TypeOK, ServerBehind
<1>4. ServerTrue' /\ SnapshotsTrue'
  BY <1>0, <1>1, <1>2 DEF IInv, ServerTrue, SnapshotsTrue, IsTrue, PacketTrue
<1> QED BY <1>1, <1>3, <1>4, ClientSame DEF IInv

LEMMA SetTimedOutInv ==
  ASSUME IInv, SetTimedOut  PROVE IInv'
<1>0. srv \in [Slots -> SlotState] /\ slot = "own"
  BY DEF SetTimedOut, IInv, StoredTicksIncrease, TypeOK
<1>1. /\ UNCHANGED <<tick, map, phase, net, inputs, cl, sent>>
      /\ slot' = "old"
      /\ srv' = [srv EXCEPT !["old"].store = <<>>, !["old"].acked = Null,
                            !["own"] = ServerReset]
  BY DEF SetTimedOut
<1>2. /\ srv' \in [Slots -> SlotState]
      /\ \A s \in Slots : srv'[s].store = << >> /\ srv'[s].acked = Null
  BY <1>0, <1>1, ResetSlots, EmptyStorage DEF SlotState, Slots
<1>3. tick \in MinTick .. MaxTick /\ Null <= tick
  BY ResetSlots DEF IInv, StoredTicksIncrease, TypeOK, MinTick, Null
<1>4. StoredTicksIncrease' /\ ServerBehind'
  BY <1>1, <1>2, <1>3, ClientSame, EmptyStorage
     DEF IInv, StoredTicksIncrease, TypeOK, ServerBehind, Slots
<1>5. ServerTrue' /\ SnapshotsTrue'
  BY <1>1, <1>2, EmptyStorage DEF IInv, ServerTrue, SnapshotsTrue, IsTrue, PacketTrue, Slots
<1> QED BY <1>1, <1>4, <1>5, ClientSame DEF IInv

LEMMA ChangeMapInv ==
  ASSUME IInv, ChangeMap  PROVE IInv'
<1>1. /\ UNCHANGED <<slot, net, inputs, cl>>
      /\ tick' = MinTick /\ map' = map + 1 /\ phase' = "changed"
      /\ srv' = [s \in Slots |-> ServerReset]
  BY DEF ChangeMap
<1>2. /\ srv' \in [Slots -> SlotState]
      /\ \A s \in Slots : srv'[s].store = << >> /\ srv'[s].acked = Null
  BY <1>1, ResetSlots
<1>3. map \in Nat /\ MinTick \in MinTick .. MaxTick
  BY SnapshotAssumption DEF IInv, StoredTicksIncrease, TypeOK, MinTick
<1>4. TypeOK' /\ map' # 0
  BY <1>1, <1>2, <1>3, ClientSame, ResetSlots DEF IInv, StoredTicksIncrease, TypeOK
<1>5. StoredTicksIncrease' /\ ServerBehind'
  BY <1>1, <1>2, <1>4, ClientSame, EmptyStorage
     DEF IInv, StoredTicksIncrease, ServerBehind
<1>6. ServerTrue' /\ SnapshotsTrue'
  BY <1>4 DEF ServerTrue, SnapshotsTrue
<1> QED BY <1>1, <1>5, <1>6, ClientSame DEF IInv

LEMMA OnNetMsgEnterGameInv ==
  ASSUME IInv, OnNetMsgEnterGame  PROVE IInv'
<1>1. /\ UNCHANGED <<tick, map, srv, slot, net, inputs, cl, sent>>
      /\ phase' = "ingame"
  BY DEF OnNetMsgEnterGame
<1>2. StoredTicksIncrease' /\ ServerBehind'
  BY <1>1 DEF IInv, StoredTicksIncrease, TypeOK, ServerBehind
<1>3. ServerTrue' /\ SnapshotsTrue'
  BY <1>1 DEF IInv, ServerTrue, SnapshotsTrue, IsTrue, PacketTrue
<1> QED BY <1>1, <1>2, <1>3, ClientSame DEF IInv

-----------------------------------------------------------------------------
(* The client.                                                              *)

\* A step that leaves the server alone: it is enough to look at the client.
LEMMA ServerSame ==
  ASSUME IInv, UNCHANGED <<tick, map, srv, slot, net, sent>>,
         phase' \in {"ingame", "changed", "loaded", "entered"},
         inputs' \subseteq MaybeTick,
         \E P \in SUBSET Parts : cl' \in ClientState(P),
         Increasing(cl'.store), ClientBehind', ShownSnapshotsLive', ShownFromSecond',
         SnapshotsTrue'
  PROVE  IInv'
<1>1. StoredTicksIncrease' /\ ServerBehind'
  BY DEF IInv, StoredTicksIncrease, TypeOK, ServerBehind
<1>2. ServerTrue'
  BY DEF IInv, ServerTrue, IsTrue, PacketTrue
<1> QED BY <1>1, <1>2 DEF IInv

\* The fields of the client have their types.
LEMMA ClientTypes ==
  ASSUME IInv
  PROVE  /\ cl.store \in Storage /\ Increasing(cl.store)
         /\ cl.recv \in MinTick .. MaxTick /\ cl.ack \in MaybeTick
         /\ {cl.prev, cl.cur} \subseteq MaybeTick /\ cl.received \in 0 .. 2
         /\ cl.crc \in 0 .. CrcLimit /\ cl.pred \in BOOLEAN
         /\ \E P \in SUBSET Parts : cl.got \in [P -> Delta] /\ cl \in ClientState(P)
         /\ cl = [store |-> cl.store, recv |-> cl.recv, ack |-> cl.ack, got |-> cl.got,
                  prev |-> cl.prev, cur |-> cl.cur, received |-> cl.received,
                  crc |-> cl.crc, pred |-> cl.pred]
<1>1. PICK P \in SUBSET Parts : cl \in ClientState(P)
  BY DEF IInv, StoredTicksIncrease, TypeOK
<1>2. Increasing(cl.store)
  BY DEF IInv, StoredTicksIncrease
<1> QED BY <1>1, <1>2 DEF ClientState

\* A client with an empty storage.
Emptied(recv, ack, pred) ==
  [store |-> <<>>, recv |-> recv, ack |-> ack, got |-> <<>>,
   prev |-> Null, cur |-> Null, received |-> 0, crc |-> 0, pred |-> pred]

\* It shows nothing.
LEMMA EmptyClient ==
  ASSUME IInv, UNCHANGED <<tick, map, srv, slot, net, inputs, sent>>,
         phase' \in {"ingame", "changed", "loaded", "entered"},
         NEW recv \in MinTick .. MaxTick, NEW ack \in MaybeTick, NEW pred \in BOOLEAN,
         cl' = Emptied(recv, ack, pred)
  PROVE  IInv'
<1>0. /\ Null \in MaybeTick /\ inputs \subseteq MaybeTick
      /\ 0 \in 0 .. 2 /\ 0 \in 0 .. CrcLimit
  BY ResetSlots, SnapshotAssumption DEF IInv, StoredTicksIncrease, TypeOK
<1>1. cl' \in ClientState({})
  BY <1>0, EmptyStorage, NoParts DEF Emptied, ClientState
<1>2. cl'.store = << >> /\ cl'.cur = Null /\ cl'.prev = Null /\ cl'.received = 0
  BY DEF Emptied
<1>3. Increasing(cl'.store) /\ ClientBehind' /\ SnapshotsTrue'
  BY <1>2, EmptyStorage DEF ClientBehind, SnapshotsTrue, Increasing, Ticks, IsTrue
<1>4. ShownSnapshotsLive' /\ ShownFromSecond'
  BY <1>2 DEF ShownSnapshotsLive, ShownFromSecond
<1> QED BY <1>0, <1>1, <1>3, <1>4, NoParts, ServerSame

LEMMA LoadMapInv ==
  ASSUME IInv, LoadMap  PROVE IInv'
<1>1. cl.recv \in MinTick .. MaxTick /\ cl.ack \in MaybeTick /\ Predicting \in BOOLEAN
  BY ClientTypes DEF Predicting
<1>2. cl' = Emptied(cl.recv, cl.ack, Predicting)
  BY DEF LoadMap, ClientReset, Emptied
<1> QED BY <1>1, <1>2, EmptyClient DEF LoadMap

LEMMA EnterGameInv ==
  ASSUME IInv, EnterGame  PROVE IInv'
<1>1. 0 \in MinTick .. MaxTick /\ Null \in MaybeTick /\ FALSE \in BOOLEAN
  BY ResetSlots, SnapshotAssumption DEF MinTick
<1>2. cl' = Emptied(0, Null, FALSE)
  BY DEF EnterGame, ClientReset, Emptied
<1> QED BY <1>1, <1>2, EmptyClient DEF EnterGame

LEMMA SendInputInv ==
  ASSUME IInv, SendInput  PROVE IInv'
<1>1. /\ UNCHANGED <<tick, map, srv, slot, phase, net, cl, sent>>
      /\ inputs' \subseteq MaybeTick
  BY ClientTypes DEF SendInput, IInv, StoredTicksIncrease, TypeOK
<1>2. phase' \in {"ingame", "changed", "loaded", "entered"}
  BY <1>1 DEF IInv, StoredTicksIncrease, TypeOK
<1>3. SnapshotsTrue' /\ Increasing(cl'.store)
  BY <1>1 DEF IInv, SnapshotsTrue, IsTrue, StoredTicksIncrease
<1> QED BY <1>1, <1>2, <1>3, ClientSame, ServerSame

\* A packet that is accepted is newer than everything in the storage.
LEMMA AcceptedIsNewer ==
  ASSUME IInv, NEW m \in net, Accepted(m)
  PROVE  /\ m \in Packet /\ m.tick \in MinTick .. MaxTick /\ m.tick \in Nat
         /\ m.base \in MaybeTick /\ m.base \in Int
         /\ m.delta.from \in Snapshot /\ m.delta.to \in Snapshot
         /\ cl.recv <= m.tick
         /\ \A x \in Ticks(cl.store) : x \in Nat /\ x < m.tick
<1>1. m \in Packet
  BY DEF IInv, StoredTicksIncrease, TypeOK
<1>2. /\ m.tick \in MinTick .. MaxTick /\ m.tick \in Nat
      /\ m.base \in MaybeTick /\ m.base \in Int
      /\ m.delta.from \in Snapshot /\ m.delta.to \in Snapshot
  BY <1>1, SnapshotAssumption DEF Packet, Delta, MinTick, MaybeTick, Null
<1>3. cl.store \in Storage /\ cl.recv \in Nat /\ cl.ack \in Int
  BY ClientTypes, SnapshotAssumption DEF MinTick, MaybeTick, Null
<1>4. \A x \in Ticks(cl.store) : x \in Nat
  BY <1>3, StorageElements DEF Ticks
<1>5. \A x \in Ticks(cl.store) : x < m.tick
  BY <1>2, <1>3, <1>4 DEF IInv, ClientBehind, Accepted
<1> QED BY <1>1, <1>2, <1>4, <1>5 DEF Accepted

\* The parts collected are parts.
LEMMA CollectedParts ==
  ASSUME IInv, NEW m \in net
  PROVE  \E P \in SUBSET Parts : Collected(m) \in [P -> Delta]
<1> DEFINE got == IF m.tick = cl.recv THEN cl.got ELSE <<>>
<1>1. m.part \in Parts /\ m.delta \in Delta
  BY DEF IInv, StoredTicksIncrease, TypeOK, Packet
<1>2. PICK P \in SUBSET Parts : got \in [P -> Delta]
  BY ClientTypes, NoParts
<1> HIDE DEF got
<1>3. With(got, m.part, m.delta) \in [P \union {m.part} -> Delta]
  BY <1>1, <1>2 DEF With
<1>4. P \union {m.part} \in SUBSET Parts
  BY <1>1, <1>2
<1> QED BY <1>3, <1>4 DEF Collected, got

\* A packet that stores nothing.
LEMMA NothingStored ==
  ASSUME IInv, NEW m \in net, Accepted(m),
         UNCHANGED <<tick, map, srv, slot, phase, net, sent>>,
         NEW ack \in {cl.ack, Null}, NEW P \in SUBSET Parts, NEW got \in [P -> Delta],
         NEW crc \in 0 .. CrcLimit,
         cl' = [cl EXCEPT !.recv = m.tick, !.got = got, !.ack = ack, !.crc = crc],
         inputs' \subseteq MaybeTick
  PROVE  IInv'
<1>0. /\ m.tick \in MinTick .. MaxTick /\ ack \in MaybeTick
      /\ \A x \in Ticks(cl.store) : x < m.tick
      /\ phase' \in {"ingame", "changed", "loaded", "entered"}
  <2>1. phase' \in {"ingame", "changed", "loaded", "entered"}
    BY DEF IInv, StoredTicksIncrease, TypeOK
  <2> QED BY <2>1, AcceptedIsNewer, ClientTypes, ResetSlots
<1>1. PICK Q \in SUBSET Parts : cl \in ClientState(Q)
  BY DEF IInv, StoredTicksIncrease, TypeOK
<1>2. /\ cl' \in ClientState(P)
      /\ cl'.store = cl.store /\ cl'.prev = cl.prev /\ cl'.cur = cl.cur
      /\ cl'.received = cl.received /\ cl'.recv = m.tick
  BY <1>0, <1>1 DEF ClientState
<1>3. Increasing(cl'.store) /\ ClientBehind' /\ SnapshotsTrue'
  <2>1. Increasing(cl'.store)
    BY <1>2, ClientTypes
  <2>2. ClientBehind'
    BY <1>0, <1>2 DEF ClientBehind, Ticks
  <2>3. SnapshotsTrue'
    BY <1>2 DEF IInv, SnapshotsTrue, IsTrue
  <2> QED BY <2>1, <2>2, <2>3
<1>4. ShownSnapshotsLive' /\ ShownFromSecond'
  BY <1>2 DEF IInv, ShownSnapshotsLive, ShownFromSecond, Ticks
<1> QED BY <1>0, <1>2, <1>3, <1>4, ServerSame

LEMMA ResyncInv ==
  ASSUME IInv, NEW m \in net, Accepted(m), NEW crc \in 0 .. CrcLimit, Resync(m, crc),
         UNCHANGED <<tick, map, srv, slot, phase, net, sent>>
  PROVE  IInv'
<1>1. /\ cl' = [cl EXCEPT !.recv = m.tick, !.got = << >>, !.ack = Null, !.crc = crc]
      /\ inputs' \subseteq MaybeTick
  BY ResetSlots DEF Resync, IInv, StoredTicksIncrease, TypeOK
<1> QED BY <1>1, NoParts, NothingStored

LEMMA OnSnapPartInv ==
  ASSUME IInv, NEW m \in net, OnSnapPart(m),
         UNCHANGED <<tick, map, srv, slot, phase, net, sent>>
  PROVE  IInv'
<1>1. PICK P \in SUBSET Parts : Collected(m) \in [P -> Delta]
  BY CollectedParts
<1>2. /\ cl.ack \in {cl.ack, Null} /\ cl.crc \in 0 .. CrcLimit
      /\ Accepted(m) /\ inputs' \subseteq MaybeTick
  BY ClientTypes DEF OnSnapPart, IInv, StoredTicksIncrease, TypeOK
<1>3. cl' = [cl EXCEPT !.recv = m.tick, !.got = Collected(m), !.ack = cl.ack, !.crc = cl.crc]
  BY ClientTypes DEF OnSnapPart
<1> HIDE DEF Accepted
<1> QED BY <1>1, <1>2, <1>3, NothingStored

LEMMA OnSnapUnreadableInv ==
  ASSUME IInv, NEW m \in net, OnSnapUnreadable(m),
         UNCHANGED <<tick, map, srv, slot, phase, net, sent>>
  PROVE  IInv'
<1>1. PICK P \in SUBSET Parts : << >> \in [P -> Delta]
  BY NoParts
<1>2. /\ cl.ack \in {cl.ack, Null} /\ cl.crc \in 0 .. CrcLimit
      /\ Accepted(m) /\ inputs' \subseteq MaybeTick
  BY ClientTypes DEF OnSnapUnreadable, Garbled, IInv, StoredTicksIncrease, TypeOK
<1>3. cl' = [cl EXCEPT !.recv = m.tick, !.got = << >>, !.ack = cl.ack, !.crc = cl.crc]
  BY ClientTypes DEF OnSnapUnreadable
<1> HIDE DEF Accepted
<1>4. PICK got : got = << >>
  OBVIOUS
<1>5. /\ cl' = [cl EXCEPT !.recv = m.tick, !.got = got, !.ack = cl.ack, !.crc = cl.crc]
      /\ got \in [P -> Delta]
  BY <1>1, <1>3, <1>4
<1> QED BY <1>2, <1>5, NothingStored

LEMMA OnSnapBadInv ==
  ASSUME IInv, NEW m \in net, OnSnapBad(m),
         UNCHANGED <<tick, map, srv, slot, phase, net, sent>>
  PROVE  IInv'
<1>0. cl.crc \in 0 .. CrcLimit /\ CrcLimit \in Nat /\ Accepted(m)
  BY ClientTypes, SnapshotAssumption DEF OnSnapBad, Garbled
<1>1. CASE cl.crc + 1 > CrcLimit
  <2>1. Resync(m, 0) /\ 0 \in 0 .. CrcLimit
    BY <1>0, <1>1 DEF OnSnapBad
  <2> QED BY <1>0, <2>1, ResyncInv
<1>2. CASE ~ (cl.crc + 1 > CrcLimit)
  <2>1. cl' = [cl EXCEPT !.recv = m.tick, !.got = << >>, !.crc = cl.crc + 1]
        /\ inputs' \subseteq MaybeTick
    BY <1>2 DEF OnSnapBad, IInv, StoredTicksIncrease, TypeOK
  <2>2. cl' = [cl EXCEPT !.recv = m.tick, !.got = << >>, !.ack = cl.ack, !.crc = cl.crc + 1]
    BY <2>1, ClientTypes
  <2>3. cl.crc + 1 \in 0 .. CrcLimit /\ cl.ack \in {cl.ack, Null}
    BY <1>0, <1>2
  <2> HIDE DEF Accepted
  <2>4. PICK crc : crc = cl.crc + 1
    OBVIOUS
  <2>5. PICK P \in SUBSET Parts : << >> \in [P -> Delta]
    BY NoParts
  <2>6. PICK ack : ack = cl.ack
    OBVIOUS
  <2>7. PICK got : got = << >>
    OBVIOUS
  <2>8. /\ cl' = [cl EXCEPT !.recv = m.tick, !.got = got, !.ack = ack, !.crc = crc]
        /\ crc \in 0 .. CrcLimit /\ got \in [P -> Delta] /\ ack \in {cl.ack, Null}
    BY <2>2, <2>3, <2>4, <2>5, <2>6, <2>7
  <2>9. Accepted(m) /\ inputs' \subseteq MaybeTick
    BY <1>0, <2>1
  <2> QED BY <2>8, <2>9, NothingStored
<1> QED BY <1>1, <1>2

LEMMA OnSnapWithoutBaseInv ==
  ASSUME IInv, NEW m \in net, OnSnapWithoutBase(m),
         UNCHANGED <<tick, map, srv, slot, phase, net, sent>>
  PROVE  IInv'
<1>1. /\ cl.crc \in 0 .. CrcLimit /\ Accepted(m) /\ Resync(m, cl.crc)
  BY ClientTypes DEF OnSnapWithoutBase
<1> HIDE DEF Accepted, Resync
<1> QED BY <1>1, ResyncInv

\* A snapshot that is decoded is the one the server made at that tick.
LEMMA GoodSnap ==
  ASSUME IInv, NEW m \in net, Decoded(m)
  PROVE  /\ UnpackDelta(Base(m), m, Collected(m)) \in Snapshot
         /\ map = 0 => /\ m.tick \in DOMAIN sent
                       /\ UnpackDelta(Base(m), m, Collected(m)) = sent[m.tick]
         /\ m.base # Null => \E i \in DOMAIN cl.store : cl.store[i].tick = m.base
<1> DEFINE snap == UnpackDelta(Base(m), m, Collected(m))
<1>1. Accepted(m) /\ Base(m) # Missing /\ snap # BadSnapshot
  BY DEF Decoded
<1>2. /\ m \in Packet /\ m.base \in MaybeTick /\ m.base \in Int
      /\ m.delta.from \in Snapshot /\ m.delta.to \in Snapshot
  BY <1>1, AcceptedIsNewer
<1>3. m.base # Null => m.base >= 0
  BY <1>2 DEF MaybeTick, Null
<1>4. m.base = Null => Base(m) = EmptySnapshot
  BY DEF Base, Null
<1>5. m.base # Null => /\ Base(m) \in Snapshot
                       /\ \E i \in DOMAIN cl.store : /\ cl.store[i].tick = m.base
                                                     /\ cl.store[i].snap = Base(m)
  BY <1>1, <1>2, <1>3, ClientTypes, GetFinds DEF Base
<1>6. EmptySnapshot \in Snapshot
  BY DEF EmptySnapshot, Snapshot
<1> HIDE DEF snap
<1>7. snap = m.delta.to \/ (m.kind = "empty" /\ snap = Base(m))
  <2>1. snap = IF m.kind = "empty" THEN Base(m)
               ELSE IF \A p \in 0 .. m.n - 1 :
                         Collected(m)[p] = m.delta /\ m.delta.from = Base(m)
                    THEN m.delta.to ELSE BadSnapshot
    BY DEF UnpackDelta, snap
  <2> QED BY <1>1, <2>1
<1>8. ASSUME map = 0
      PROVE  m.tick \in DOMAIN sent /\ snap = sent[m.tick]
  <2>1. PacketTrue(m) /\ IsTrue(cl.store)
    BY <1>8 DEF IInv, ServerTrue, SnapshotsTrue
  <2>2. m.kind = "empty" => Base(m) = m.delta.from
    <3>1. CASE m.base = Null
      BY <1>4, <2>1, <3>1 DEF PacketTrue
    <3>2. CASE m.base # Null
      BY <1>5, <2>1, <3>2 DEF PacketTrue, IsTrue
    <3> QED BY <3>1, <3>2
  <2> QED BY <1>7, <2>1, <2>2 DEF PacketTrue
<1> QED BY <1>2, <1>4, <1>5, <1>6, <1>7, <1>8 DEF snap

\* The snapshots that are shown are not purged, nor is the only one there is.
LEMMA PurgedClient ==
  ASSUME IInv, NEW m \in net, Decoded(m)
  PROVE  LET kept == PurgeUntil(cl.store, PurgeTick(m))
         IN /\ kept \in Storage /\ Increasing(kept)
            /\ \A i \in DOMAIN kept : \E j \in DOMAIN cl.store : kept[i] = cl.store[j]
            /\ Ticks(kept) \subseteq Ticks(cl.store)
            /\ cl.received < 2 => Len(kept) = cl.received
            /\ cl.cur # Null => {cl.prev, cl.cur} \subseteq Ticks(kept)
<1> DEFINE t == PurgeTick(m)
           kept == PurgeUntil(cl.store, t)
<1>0. /\ Accepted(m) /\ m.base \in MaybeTick /\ m.base \in Int
      /\ m.base # Null => \E i \in DOMAIN cl.store : cl.store[i].tick = m.base
  BY AcceptedIsNewer, GoodSnap DEF Decoded
<1>1. /\ cl.store \in Storage /\ Increasing(cl.store)
      /\ cl.prev \in Int /\ cl.cur \in Int /\ cl.received \in 0 .. 2
  BY ClientTypes DEF MaybeTick, Null
<1>2. /\ DOMAIN cl.store = 1 .. Len(cl.store) /\ Len(cl.store) \in Nat
      /\ \A i \in DOMAIN cl.store : cl.store[i].tick \in Nat
  BY <1>1, StorageElements
<1>3. t \in Int
  BY <1>0, <1>1 DEF PurgeTick, Least
<1>4. /\ kept \in Storage /\ Increasing(kept)
      /\ Len(kept) <= Len(cl.store)
      /\ \A i \in DOMAIN kept : \E j \in DOMAIN cl.store : kept[i] = cl.store[j]
      /\ \A i \in DOMAIN cl.store : cl.store[i].tick >= t =>
           \E j \in DOMAIN kept : kept[j] = cl.store[i]
  <2> HIDE DEF t
  <2> QED BY <1>1, <1>3, PurgeKeeps
<1>5. /\ cl.received < 2 => Len(cl.store) = cl.received /\ cl.cur = Null /\ cl.prev = Null
      /\ cl.cur # Null => {cl.prev, cl.cur} \subseteq Ticks(cl.store)
  BY DEF IInv, ShownFromSecond, ShownSnapshotsLive
<1>6. /\ cl.cur = Null /\ cl.prev = Null => t = m.base
      /\ cl.cur # Null /\ cl.prev # Null => t <= cl.prev /\ t <= cl.cur
  BY <1>0, <1>1 DEF PurgeTick, Least
<1> HIDE DEF t, kept
<1>7. DOMAIN kept = 1 .. Len(kept) /\ Len(kept) \in Nat
  BY <1>4, StorageElements
<1>8. Ticks(kept) \subseteq Ticks(cl.store)
  BY <1>4 DEF Ticks
<1>9. ASSUME cl.received < 2  PROVE Len(kept) = cl.received
  <2>1. CASE cl.received = 0
    BY <1>4, <1>5, <1>7, <2>1
  <2>2. CASE cl.received = 1
    <3>1. Len(cl.store) = 1 /\ t = m.base /\ 1 \in DOMAIN cl.store
      <4>1. Len(cl.store) = 1 /\ cl.cur = Null /\ cl.prev = Null
        BY <1>5, <1>9, <2>2
      <4>2. 1 \in DOMAIN cl.store
        BY <1>2, <4>1
      <4> QED BY <1>6, <4>1, <4>2
    <3>2. cl.store[1].tick >= t
      <4>1. CASE m.base = Null
        BY <1>2, <3>1, <4>1 DEF Null
      <4>2. CASE m.base # Null
        <5>1. PICK i \in DOMAIN cl.store : cl.store[i].tick = m.base
          BY <1>0, <4>2
        <5>2. i = 1
          BY <1>2, <3>1
        <5> QED BY <1>2, <3>1, <5>1, <5>2
      <4> QED BY <4>1, <4>2
    <3>3. \E j \in DOMAIN kept : kept[j] = cl.store[1]
      BY <1>4, <3>1, <3>2
    <3> QED BY <1>4, <1>7, <2>2, <3>1, <3>3
  <2> QED BY <1>1, <1>9, <2>1, <2>2
<1>10. ASSUME cl.cur # Null  PROVE {cl.prev, cl.cur} \subseteq Ticks(kept)
  <2>1. {cl.prev, cl.cur} \subseteq Ticks(cl.store)
    BY <1>5, <1>10
  <2>2. cl.prev # Null
    BY <1>2, <2>1 DEF Ticks, Null
  <2>3. t <= cl.prev /\ t <= cl.cur
    BY <1>6, <1>10, <2>2
  <2>4. \A x \in Ticks(cl.store) : x >= t => x \in Ticks(kept)
    BY <1>4 DEF Ticks
  <2> QED BY <1>1, <1>3, <2>1, <2>3, <2>4
<1> QED BY <1>4, <1>8, <1>9, <1>10 DEF kept, t

LEMMA OnSnapTooLargeInv ==
  ASSUME IInv, NEW m \in net, OnSnapTooLarge(m),
         UNCHANGED <<tick, map, srv, slot, phase, net, sent>>
  PROVE  IInv'
<1> DEFINE kept == PurgeUntil(cl.store, PurgeTick(m))
<1>1. /\ m.tick \in MinTick .. MaxTick
      /\ \A x \in Ticks(cl.store) : x \in Nat /\ x < m.tick
  <2>1. Accepted(m)
    BY DEF OnSnapTooLarge, Decoded
  <2> QED BY <2>1, AcceptedIsNewer
<1>2. /\ kept \in Storage /\ Increasing(kept)
      /\ \A i \in DOMAIN kept : \E j \in DOMAIN cl.store : kept[i] = cl.store[j]
      /\ Ticks(kept) \subseteq Ticks(cl.store)
      /\ cl.received < 2 => Len(kept) = cl.received
      /\ cl.cur # Null => {cl.prev, cl.cur} \subseteq Ticks(kept)
  BY PurgedClient DEF OnSnapTooLarge
<1>3. /\ cl' = [cl EXCEPT !.store = kept, !.recv = m.tick, !.got = <<>>,
                          !.crc = IF cl.crc > 0 THEN cl.crc - 1 ELSE cl.crc]
      /\ UNCHANGED inputs
  BY ClientTypes DEF OnSnapTooLarge, Purging
<1> HIDE DEF kept
<1>4. (IF cl.crc > 0 THEN cl.crc - 1 ELSE cl.crc) \in 0 .. CrcLimit
  BY ClientTypes, SnapshotAssumption
<1>5. PICK Q \in SUBSET Parts : cl \in ClientState(Q)
  BY DEF IInv, StoredTicksIncrease, TypeOK
<1>6. /\ cl' \in ClientState({})
      /\ cl'.store = kept /\ cl'.recv = m.tick /\ cl'.ack = cl.ack
      /\ cl'.received = cl.received /\ cl'.prev = cl.prev /\ cl'.cur = cl.cur
  BY <1>1, <1>2, <1>3, <1>4, <1>5, NoParts DEF ClientState
<1>7. ClientBehind'
  <2>1. \A x \in Ticks(kept) : x < m.tick
    BY <1>1, <1>2
  <2> QED BY <1>6, <2>1 DEF ClientBehind, Ticks
<1>8. SnapshotsTrue'
  BY <1>2, <1>6 DEF IInv, SnapshotsTrue, IsTrue
<1>9. ShownSnapshotsLive' /\ ShownFromSecond'
  BY <1>2, <1>6 DEF IInv, ShownSnapshotsLive, ShownFromSecond, Ticks
<1>10. /\ phase' \in {"ingame", "changed", "loaded", "entered"}
       /\ inputs' \subseteq MaybeTick /\ Increasing(cl'.store) /\ {} \in SUBSET Parts
  BY <1>2, <1>3, <1>6 DEF IInv, StoredTicksIncrease, TypeOK
<1> QED BY <1>6, <1>7, <1>8, <1>9, <1>10, ServerSame

LEMMA OnSnapGoodInv ==
  ASSUME IInv, NEW m \in net, OnSnapGood(m),
         UNCHANGED <<tick, map, srv, slot, phase, net, sent>>
  PROVE  IInv'
<1> DEFINE snap == UnpackDelta(Base(m), m, Collected(m))
           kept == PurgeUntil(cl.store, PurgeTick(m))
           store == Add(kept, m.tick, snap)
           second == cl.received = 1
<1>0. /\ m.tick \in MinTick .. MaxTick /\ m.tick \in Nat /\ m.tick \in MaybeTick
      /\ \A x \in Ticks(cl.store) : x \in Nat /\ x < m.tick
      /\ snap \in Snapshot
      /\ map = 0 => m.tick \in DOMAIN sent /\ snap = sent[m.tick]
  <2>1. Decoded(m) /\ Accepted(m)
    BY DEF OnSnapGood, Decoded
  <2>2. /\ m.tick \in MinTick .. MaxTick /\ m.tick \in Nat
        /\ \A x \in Ticks(cl.store) : x \in Nat /\ x < m.tick
    BY <2>1, AcceptedIsNewer
  <2>3. m.tick \in MaybeTick
    BY <2>2, SnapshotAssumption DEF MaybeTick, MinTick, Null
  <2> QED BY <2>1, <2>2, <2>3, GoodSnap
<1>1. /\ cl' = [cl EXCEPT !.store = store, !.recv = m.tick, !.got = <<>>, !.ack = m.tick,
                          !.crc = IF cl.crc > 0 THEN cl.crc - 1 ELSE cl.crc,
                          !.received = Least(cl.received + 1, 2),
                          !.prev = IF second THEN store[1].tick ELSE cl.prev,
                          !.cur = IF second THEN store[Len(store)].tick ELSE cl.cur]
      /\ UNCHANGED inputs
  BY ClientTypes DEF OnSnapGood, Applied, Purging
<1>2. /\ kept \in Storage /\ Increasing(kept)
      /\ \A i \in DOMAIN kept : \E j \in DOMAIN cl.store : kept[i] = cl.store[j]
      /\ Ticks(kept) \subseteq Ticks(cl.store)
      /\ cl.received < 2 => Len(kept) = cl.received
      /\ cl.cur # Null => {cl.prev, cl.cur} \subseteq Ticks(kept)
  BY PurgedClient DEF OnSnapGood
<1> HIDE DEF snap, kept
<1>3. \A x \in Ticks(kept) : x < m.tick
  BY <1>0, <1>2
<1>4. /\ store \in Storage /\ Len(store) = Len(kept) + 1 /\ Increasing(store)
      /\ \A i \in DOMAIN kept : store[i] = kept[i]
      /\ store[Len(kept) + 1] = [tick |-> m.tick, snap |-> snap]
      /\ Ticks(store) = Ticks(kept) \cup {m.tick}
  BY <1>0, <1>2, <1>3, AddProps
<1>5. /\ DOMAIN kept = 1 .. Len(kept) /\ Len(kept) \in Nat
      /\ DOMAIN store = 1 .. Len(kept) + 1
      /\ \A i \in DOMAIN store : store[i].tick \in MinTick .. MaxTick /\ store[i].tick \in Nat
  BY <1>2, <1>4, StorageElements
<1> HIDE DEF store
<1>6. /\ cl.received \in 0 .. 2 /\ cl.crc \in 0 .. CrcLimit /\ CrcLimit \in Nat
      /\ {cl.prev, cl.cur} \subseteq MaybeTick
  BY ClientTypes, SnapshotAssumption
<1>7. ASSUME second
      PROVE  /\ store[1].tick \in MaybeTick /\ store[Len(store)].tick \in MaybeTick
             /\ {store[1].tick, store[Len(store)].tick} \subseteq Ticks(store)
             /\ store[1].tick < store[Len(store)].tick
             /\ store[Len(store)].tick # Null
  <2>1. 1 \in DOMAIN store /\ Len(store) \in DOMAIN store /\ 1 < Len(store)
    BY <1>2, <1>4, <1>5, <1>7
  <2>2. store[1].tick \in MaybeTick /\ store[Len(store)].tick \in MaybeTick
    BY <1>5, <2>1, SnapshotAssumption DEF MaybeTick, MinTick, Null
  <2>3. store[1].tick < store[Len(store)].tick
    BY <1>4, <2>1 DEF Increasing
  <2> QED BY <1>5, <2>1, <2>2, <2>3 DEF Ticks, Null
<1>8. /\ (IF second THEN store[1].tick ELSE cl.prev) \in MaybeTick
      /\ (IF second THEN store[Len(store)].tick ELSE cl.cur) \in MaybeTick
      /\ (IF cl.crc > 0 THEN cl.crc - 1 ELSE cl.crc) \in 0 .. CrcLimit
      /\ Least(cl.received + 1, 2) \in 0 .. 2
      /\ cl.received < 2 => Least(cl.received + 1, 2) = cl.received + 1
      /\ cl.received = 2 => Least(cl.received + 1, 2) = 2
  BY <1>6, <1>7 DEF Least
<1> HIDE DEF second
<1>9. PICK Q \in SUBSET Parts : cl \in ClientState(Q)
  BY DEF IInv, StoredTicksIncrease, TypeOK
<1>10. /\ cl' \in ClientState({})
       /\ cl'.store = store /\ cl'.recv = m.tick /\ cl'.ack = m.tick
       /\ cl'.received = Least(cl.received + 1, 2)
       /\ cl'.prev = IF second THEN store[1].tick ELSE cl.prev
       /\ cl'.cur = IF second THEN store[Len(store)].tick ELSE cl.cur
  BY <1>0, <1>1, <1>4, <1>8, <1>9, NoParts DEF ClientState
<1>11. ClientBehind'
  BY <1>3, <1>4, <1>10 DEF ClientBehind, Ticks
<1>12. SnapshotsTrue'
  <2> SUFFICES ASSUME map = 0, NEW i \in DOMAIN store
               PROVE  store[i].tick \in DOMAIN sent /\ store[i].snap = sent[store[i].tick]
    BY <1>10 DEF SnapshotsTrue, IsTrue
  <2>1. CASE i = Len(kept) + 1
    BY <1>0, <1>4, <2>1
  <2>2. CASE i \in DOMAIN kept
    BY <1>2, <1>4, <2>2 DEF IInv, SnapshotsTrue, IsTrue
  <2> QED BY <1>5, <2>1, <2>2
<1>13. ShownSnapshotsLive' /\ ShownFromSecond'
  <2>1. CASE second
    <3>1. cl'.cur # Null /\ cl'.received = 2
      BY <1>7, <1>8, <1>10, <2>1 DEF second
    <3>2. cl'.prev < cl'.cur /\ {cl'.prev, cl'.cur} \subseteq Ticks(store)
      BY <1>7, <1>10, <2>1
    <3> QED BY <1>10, <3>1, <3>2 DEF ShownSnapshotsLive, ShownFromSecond, Ticks
  <2>2. CASE ~ second
    <3>1. cl'.prev = cl.prev /\ cl'.cur = cl.cur
      BY <1>10, <2>2
    <3>2. ShownSnapshotsLive'
      <4>1. cl.cur # Null => /\ {cl.prev, cl.cur} \subseteq Ticks(store)
                             /\ cl.prev < cl.cur
        BY <1>2, <1>4 DEF IInv, ShownSnapshotsLive
      <4> QED BY <1>10, <3>1, <4>1 DEF ShownSnapshotsLive, Ticks
    <3>3. ShownFromSecond'
      <4>1. /\ cl.received < 2 => cl.cur = Null
            /\ cl.received = 2 => cl.cur # Null
            /\ cl.cur = Null => cl.prev = Null
        BY DEF IInv, ShownFromSecond
      <4>2. CASE cl.received = 0
        <5>1. cl'.received = 1 /\ Len(store) = 1
          BY <1>2, <1>4, <1>8, <1>10, <4>2
        <5> QED BY <1>10, <3>1, <4>1, <4>2, <5>1 DEF ShownFromSecond
      <4>3. CASE cl.received = 2
        <5>1. cl'.received = 2
          BY <1>8, <1>10, <4>3
        <5> QED BY <1>10, <3>1, <4>1, <4>3, <5>1 DEF ShownFromSecond
      <4> QED BY <1>6, <2>2, <4>2, <4>3 DEF second
    <3> QED BY <3>2, <3>3
  <2> QED BY <2>1, <2>2
<1>14. /\ phase' \in {"ingame", "changed", "loaded", "entered"}
       /\ inputs' \subseteq MaybeTick /\ Increasing(cl'.store) /\ {} \in SUBSET Parts
  BY <1>1, <1>4, <1>10 DEF IInv, StoredTicksIncrease, TypeOK
<1> QED BY <1>10, <1>11, <1>12, <1>13, <1>14, ServerSame

\* The next snapshot is shown: the oldest one newer than the one that is.
LEMMA SwitchSnapshotInv ==
  ASSUME IInv, SwitchSnapshot  PROVE IInv'
<1> DEFINE later == {t \in Ticks(cl.store) : t > cl.cur}
<1>1. /\ UNCHANGED <<tick, map, srv, slot, phase, net, inputs, sent>>
      /\ cl.cur # Null /\ later # {}
      /\ cl' = [cl EXCEPT !.prev = cl.cur, !.cur = Min(later)]
  BY DEF SwitchSnapshot
<1>2. \A x \in Ticks(cl.store) : x \in Nat /\ x \in MaybeTick
  <2>1. \A x \in Ticks(cl.store) : x \in Nat /\ x \in MinTick .. MaxTick
    BY ClientTypes, StorageElements DEF Ticks
  <2> QED BY <2>1, SnapshotAssumption DEF MinTick, MaybeTick, Null
<1>3. Min(later) \in later
  <2>1. later \in SUBSET Nat
    BY <1>2
  <2> HIDE DEF later
  <2> QED BY <1>1, <2>1, SmallestIsMin
<1>4. /\ Min(later) \in Ticks(cl.store) /\ Min(later) > cl.cur
      /\ Min(later) \in MaybeTick /\ Min(later) # Null
  BY <1>2, <1>3 DEF Null
<1>5. cl.cur \in MaybeTick /\ cl.cur \in Int /\ Min(later) \in Int
  BY <1>4, ClientTypes DEF MaybeTick, Null
<1>6. cl.cur \in Ticks(cl.store) /\ cl.received = 2
  BY <1>1, ClientTypes DEF IInv, ShownSnapshotsLive, ShownFromSecond
<1> HIDE DEF later
<1>7. PICK Q \in SUBSET Parts : cl \in ClientState(Q)
  BY DEF IInv, StoredTicksIncrease, TypeOK
<1>8. /\ cl' \in ClientState(Q)
      /\ cl'.store = cl.store /\ cl'.recv = cl.recv /\ cl'.ack = cl.ack
      /\ cl'.received = cl.received /\ cl'.prev = cl.cur /\ cl'.cur = Min(later)
  BY <1>1, <1>4, <1>5, <1>7 DEF ClientState
<1>9. ClientBehind' /\ SnapshotsTrue' /\ Increasing(cl'.store)
  BY <1>1, <1>8, ClientTypes DEF IInv, ClientBehind, SnapshotsTrue, IsTrue, Ticks
<1>10. ShownSnapshotsLive' /\ ShownFromSecond'
  <2>1. cl'.prev < cl'.cur
    BY <1>4, <1>5, <1>8
  <2> QED BY <1>4, <1>6, <1>8, <2>1 DEF ShownSnapshotsLive, ShownFromSecond, Ticks
<1>11. phase' \in {"ingame", "changed", "loaded", "entered"} /\ inputs' \subseteq MaybeTick
  BY <1>1 DEF IInv, StoredTicksIncrease, TypeOK
<1> QED BY <1>1, <1>8, <1>9, <1>10, <1>11, ServerSame

-----------------------------------------------------------------------------
(* The theorems.                                                            *)

LEMMA StutterInv == IInv /\ UNCHANGED vars => IInv'
<1> SUFFICES ASSUME IInv, UNCHANGED vars  PROVE IInv'
  OBVIOUS
<1>1. UNCHANGED <<tick, map, srv, slot, phase, net, inputs, cl, sent>>
  BY DEF vars
<1>2. /\ phase' \in {"ingame", "changed", "loaded", "entered"}
      /\ inputs' \subseteq MaybeTick
  BY <1>1 DEF IInv, StoredTicksIncrease, TypeOK
<1>3. SnapshotsTrue' /\ Increasing(cl'.store)
  BY <1>1 DEF IInv, SnapshotsTrue, IsTrue, StoredTicksIncrease
<1> QED BY <1>1, <1>2, <1>3, ClientSame, ServerSame

LEMMA NextInv == IInv /\ Next => IInv'
<1> SUFFICES ASSUME IInv, Next  PROVE IInv'
  OBVIOUS
<1>1. CASE \E w \in Worlds, n \in 0 .. MaxParts : DoSnapshot(w, n)
  BY <1>1, DoSnapshotInv
<1>2. CASE \E a \in inputs : OnInput(a)
  BY <1>2, OnInputInv
<1>3. CASE SetTimedOut
  BY <1>3, SetTimedOutInv
<1>4. CASE ChangeMap
  BY <1>4, ChangeMapInv
<1>5. CASE OnNetMsgEnterGame
  BY <1>5, OnNetMsgEnterGameInv
<1>6. CASE LoadMap
  BY <1>6, LoadMapInv
<1>7. CASE EnterGame
  BY <1>7, EnterGameInv
<1>8. CASE SendInput
  BY <1>8, SendInputInv
<1>9. CASE \E m \in net : OnSnap(m)
  <2>1. PICK m \in net : OnSnap(m)
    BY <1>9
  <2>2. /\ UNCHANGED <<tick, map, srv, slot, phase, net, sent>>
        /\ \/ OnSnapPart(m) \/ OnSnapWithoutBase(m)
           \/ OnSnapUnreadable(m) \/ OnSnapBad(m)
           \/ OnSnapTooLarge(m) \/ OnSnapGood(m)
    BY <2>1 DEF OnSnap
  <2> QED BY <2>2, OnSnapPartInv, OnSnapWithoutBaseInv, OnSnapUnreadableInv, OnSnapBadInv,
             OnSnapTooLargeInv, OnSnapGoodInv
<1>10. CASE SwitchSnapshot
  BY <1>10, SwitchSnapshotInv
<1> QED BY <1>1, <1>2, <1>3, <1>4, <1>5, <1>6, <1>7, <1>8, <1>9, <1>10 DEF Next

\* The storages of both sides grow only at their new end, the client shows what it has, and
\* every snapshot it holds is the server's: what the invariant says holds in every state.
THEOREM SnapshotInvariant == Spec => []IInv
<1>1. IInv /\ [Next]_vars => IInv'
  BY NextInv, StutterInv
<1> QED BY <1>1, InitInv, PTL DEF Spec

\* CSnapshotStorage::Add is never given a tick that is not newer than the last one, neither
\* by CServer::DoSnapshot nor by the client, whatever the network does with the packets.
THEOREM TicksIncrease == Spec => []StoredTicksIncrease
<1>1. IInv => StoredTicksIncrease
  BY DEF IInv
<1> QED BY <1>1, SnapshotInvariant, PTL

\* CSnapshotStorage::PurgeUntil never frees a snapshot the client shows, and the two that are
\* shown are different ones, in order.
THEOREM ShownAreLive == Spec => []ShownSnapshotsLive
<1>1. IInv => ShownSnapshotsLive
  BY DEF IInv
<1> QED BY <1>1, SnapshotInvariant, PTL

\* Until the map changes, what the client decoded for a tick is what the server built for it.
THEOREM ClientSeesTruth == Spec => []SnapshotsTrue
<1>1. IInv => SnapshotsTrue
  BY DEF IInv
<1> QED BY <1>1, SnapshotInvariant, PTL
=============================================================================
