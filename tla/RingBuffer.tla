----------------------------- MODULE RingBuffer -----------------------------
(***************************************************************************)
(* CRingBufferBase (engine/shared/ringbuffer.h, ringbuffer.cpp): the       *)
(* memory behind the resend buffer of a connection, the console's and the  *)
(* chat's history and the assertion log.                                   *)
(*                                                                         *)
(* The memory is tiled by blocks, each with a header of sizeof(CItem)      *)
(* bytes, in a doubly linked list in the order of their addresses.         *)
(* Addresses and sizes are counted in headers.  m_pConsume is the oldest   *)
(* block in use, m_pProduce the one the next allocation looks at first.    *)
(* mem has one entry per header that is still linked: following a pointer  *)
(* to a header that was merged away is an evaluation error.                *)
(*                                                                         *)
(* One operator per member function, taking the buffer before the call and *)
(* returning the buffer after it; the `while' loops are recursive          *)
(* functions of the number of turns.                                       *)
(***************************************************************************)
EXTENDS Integers, Sequences, FiniteSets, SequencesExt

CONSTANTS
  ItemSize,   \* sizeof(CItem)
  Bytes,      \* the Size given to Init
  Lengths,    \* the sizes asked of Allocate
  Values      \* contents of the items

ASSUME RingAssumption ==
  /\ ItemSize \in Nat \ {0}
  /\ Bytes \in Nat /\ Bytes >= ItemSize
  /\ Lengths \subseteq Nat

\* [mem, produce, consume, last, recycle]; recycle is FLAG_RECYCLE.
VARIABLE buf

Capacity == Bytes \div ItemSize      \* m_Size in headers

First == 0                           \* m_pFirst, which never moves

Nil == Capacity                      \* nullptr

\* The payload and its header, rounded up.
WantedSize(len) == (len + ItemSize + ItemSize - 1) \div ItemSize

Cleared(recycle) ==
  [mem |-> [o \in {First} |-> [prev |-> Nil, next |-> Nil, free |-> TRUE,
                               size |-> Capacity, item |-> "none"]],
   produce |-> First, consume |-> First, last |-> First, recycle |-> recycle]

NextBlock(b, o) == IF b.mem[o].next # Nil THEN b.mem[o].next ELSE First

PrevBlock(b, o) == IF b.mem[o].prev # Nil THEN b.mem[o].prev ELSE b.last

\* Where MergeBack leaves its argument.
MergeTarget(b, o) ==
  IF b.mem[o].free /\ b.mem[o].prev # Nil /\ b.mem[b.mem[o].prev].free
  THEN b.mem[o].prev ELSE o

MergeBack(b, o) ==
  LET prev == MergeTarget(b, o)
      next == b.mem[o].next
      Moved(pointer) == IF pointer = o THEN prev ELSE pointer
      merged == [i \in DOMAIN b.mem \ {o} |->
                  CASE i = prev -> [b.mem[i] EXCEPT !.size = @ + b.mem[o].size,
                                                    !.next = next]
                    [] i = next -> [b.mem[i] EXCEPT !.prev = prev]
                    [] OTHER    -> b.mem[i]]
  IN  IF prev = o THEN b
      ELSE [mem |-> merged, produce |-> Moved(b.produce),
            consume |-> Moved(b.consume), last |-> Moved(b.last), recycle |-> b.recycle]

\* A turn of the loop that advances m_pConsume.
MergeConsume(b) ==
  LET d == [MergeBack(b, b.consume) EXCEPT !.consume = MergeTarget(b, b.consume)]
  IN  [d EXCEPT !.consume = NextBlock(d, @)]

SkipTurn(b) ==
  IF b.mem[b.consume].free /\ b.consume # b.produce THEN MergeConsume(b) ELSE b

SkipFree(b) ==
  LET turn[n \in 0 .. Capacity] == IF n = 0 THEN b ELSE SkipTurn(turn[n - 1])
  IN  turn[Capacity]

CanPop(b) == ~ b.mem[b.consume].free

\* Mutant of PopFirst: does not skip the free blocks after the item.
PopFirstNoSkip(b) ==
  IF ~ CanPop(b) THEN b
  ELSE LET d == MergeConsume([b EXCEPT !.mem[b.consume].free = TRUE])
       IN  MergeBack(d, d.consume)

\* Mutant of PopFirst: does not merge when it has caught up with m_pProduce.
PopFirstNoMerge(b) ==
  IF ~ CanPop(b) THEN b
  ELSE SkipFree(MergeConsume([b EXCEPT !.mem[b.consume].free = TRUE]))

PopFirst(b) ==
  IF ~ CanPop(b) THEN b
  ELSE LET d == SkipFree(MergeConsume([b EXCEPT !.mem[b.consume].free = TRUE]))
       IN  MergeBack(d, d.consume)

-----------------------------------------------------------------------------
(* Allocate                                                                 *)

\* Mutant of FindBlock: starts over at the beginning even if that is in use.
FindBlockInUse(b, want) ==
  CASE ~ b.mem[b.produce].free -> Nil
    [] b.mem[b.produce].free /\ b.mem[b.produce].size >= want -> b.produce
    [] OTHER -> IF b.mem[First].size >= want THEN First ELSE Nil

\* The block that is found, or Nil.
FindBlock(b, want) ==
  CASE ~ b.mem[b.produce].free -> Nil
    [] b.mem[b.produce].free /\ b.mem[b.produce].size >= want -> b.produce
    [] OTHER -> IF b.mem[First].free /\ b.mem[First].size >= want THEN First ELSE Nil

\* The loop over the policy: destroy the oldest items until a block is found.
RoomTurn(b, want) == IF b.recycle /\ FindBlock(b, want) = Nil THEN PopFirst(b) ELSE b

MakeRoom(b, want) ==
  LET turn[n \in 0 .. Capacity] == IF n = 0 THEN b ELSE RoomTurn(turn[n - 1], want)
  IN  IF want > Capacity THEN b ELSE turn[Capacity]

\* "split the block if needed"
Split(b, o, want) ==
  LET block == b.mem[o]
      new   == o + want
  IN  IF block.size <= want + 1 THEN b
      ELSE [b EXCEPT
              !.mem = [i \in DOMAIN b.mem \cup {new} |->
                        CASE i = o -> [block EXCEPT !.next = new, !.size = want]
                          [] i = new -> [prev |-> o, next |-> block.next, free |-> TRUE,
                                         size |-> block.size - want, item |-> "none"]
                          [] i = block.next -> [b.mem[i] EXCEPT !.prev = new]
                          [] OTHER -> b.mem[i]],
              !.last = IF block.next = Nil THEN new ELSE @]

\* "set next block", "set as used"; v is what the caller writes into the item.
Take(b, o, want, v) ==
  LET d == Split(b, o, want)
  IN  [d EXCEPT !.produce = NextBlock(d, o),
                !.mem[o].free = FALSE, !.mem[o].item = v]

Refuses(b, want) == want > Capacity \/ FindBlock(MakeRoom(b, want), want) = Nil

Allocate(b, want, v) ==
  LET d == MakeRoom(b, want)
  IN  IF Refuses(b, want) THEN d ELSE Take(d, FindBlock(d, want), want, v)

-----------------------------------------------------------------------------
(* Prev, Next, First, Last: the item that is returned, or Nil.              *)

\* Walk with Step from block o, over free blocks, until m_pProduce.
Walk(b, o, Step(_, _)) ==
  LET Turn(i) == IF i # b.produce /\ b.mem[i].free THEN Step(b, i) ELSE i
      turn[n \in 0 .. Capacity] == IF n = 0 THEN Step(b, o) ELSE Turn(turn[n - 1])
      stop == turn[Capacity]
  IN  IF stop = b.produce THEN Nil ELSE stop

PrevItem(b, o) == Walk(b, o, PrevBlock)

NextItem(b, o) == Walk(b, o, NextBlock)

FirstItem(b) == IF b.mem[b.consume].free THEN Nil ELSE b.consume

LastItem(b) == PrevItem(b, b.produce)

-----------------------------------------------------------------------------
(* The user of the buffer                                                   *)

RingInit == \E recycle \in BOOLEAN : buf = Cleared(recycle)

\* buf[...].item of a block that is free is never read: it is forgotten.
Forget(b) ==
  [b EXCEPT !.mem = [o \in DOMAIN b.mem |->
                       IF b.mem[o].free THEN [b.mem[o] EXCEPT !.item = "none"]
                       ELSE b.mem[o]]]

PutItem(len, v) == buf' = Forget(Allocate(buf, WantedSize(len), v))

PopItem == buf' = Forget(PopFirst(buf))

Clear == buf' = Cleared(buf.recycle)

RingNext == (\E len \in Lengths, v \in Values : PutItem(len, v)) \/ PopItem \/ Clear

RingSpec == RingInit /\ [][RingNext]_buf

-----------------------------------------------------------------------------
(* Properties                                                               *)

Blocks(b) == DOMAIN b.mem

InUse(b) == {o \in Blocks(b) : ~ b.mem[o].free}

Typed(b) ==
  LET Offset == 0 .. Capacity - 1
  IN  /\ Blocks(b) \subseteq Offset
      /\ b.mem \in [Blocks(b) -> [prev : Offset \cup {Nil}, next : Offset \cup {Nil},
                                  free : BOOLEAN, size : 1 .. Capacity,
                                  item : Values \cup {"none"}]]
      /\ b \in [mem : {b.mem}, produce : Blocks(b), consume : Blocks(b),
                last : Blocks(b), recycle : BOOLEAN]

\* The list links the blocks in the order of their addresses, and they tile
\* the memory: no two items overlap, and no memory is lost by a merge or a
\* split.
Tiled(b) ==
  /\ First \in Blocks(b) /\ b.mem[First].prev = Nil
  /\ \A o \in Blocks(b) :
       /\ b.mem[o].next = o + b.mem[o].size
       /\ IF o = b.last THEN b.mem[o].next = Nil
          ELSE b.mem[o].next \in Blocks(b) /\ b.mem[b.mem[o].next].prev = o
  /\ \A o \in Blocks(b) \ {First} :
       b.mem[o].prev \in Blocks(b) /\ b.mem[b.mem[o].prev].next = o
  /\ \A o, p \in Blocks(b) : o < p => b.mem[o].next <= p

\* Walking from First with Next, and from Last with Prev, one meets the items
\* in use once each: forwards the oldest first, backwards the newest first.
\* A buffer without a free block where the next allocation would look has
\* m_pProduce on the oldest item, at which the walk backwards stops early.
Age(b, o) == (o - b.consume) % Capacity

Oldest(b) ==
  [i \in 1 .. Cardinality(InUse(b)) |->
     CHOOSE o \in InUse(b) :
       Cardinality({p \in InUse(b) : Age(b, p) <= Age(b, o)}) = i]

Visited(b, start, Step(_, _)) ==
  LET seen[n \in 0 .. Capacity + 1] ==
        IF n = 0 THEN << >>
        ELSE LET s == seen[n - 1]
                 next == IF s = << >> THEN start ELSE Step(b, s[Len(s)])
             IN  IF next = Nil THEN s ELSE Append(s, next)
  IN  seen[Capacity + 1]

\* No pointer to a header that MergeBack has removed is left, the blocks tile the
\* memory, so that no two items overlap and none of it is lost, and the walks
\* with First and Next, and with Last and Prev, meet the items in use once each
\* and in the order of their age.
WalksInOrder ==
  /\ Typed(buf) /\ Tiled(buf)
  /\ Visited(buf, FirstItem(buf), NextItem) = Oldest(buf)
  /\ Visited(buf, LastItem(buf), PrevItem) =
       Reverse(IF buf.produce \in InUse(buf) THEN Tail(Oldest(buf)) ELSE Oldest(buf))

\* The items in use are a queue with the promises of RingQueue.
Contents(b) ==
  [i \in DOMAIN Oldest(b) |->
     [item |-> b.mem[Oldest(b)[i]].item, size |-> b.mem[Oldest(b)[i]].size]]

Queue == INSTANCE RingQueue WITH queue <- Contents(buf), recycle <- buf.recycle,
                                 Needs <- {WantedSize(len) : len \in Lengths}

\* The ring buffer is the queue of its items, RingQueue.
ImplementsQueue == Queue!Spec

\* Allocate returns nullptr only for what can never fit, or, without
\* FLAG_RECYCLE, when the free space is too tight: freed blocks are merged
\* again, so no sequence of allocations and pops wears the buffer out.
RefusesOnlyWhenTight ==
  \A want \in 1 .. Capacity :
    Refuses(buf, want) => /\ ~ buf.recycle
                          /\ InUse(buf) # {}
                          /\ Queue!Tight(Contents(buf), want)
=============================================================================
