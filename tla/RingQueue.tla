----------------------------- MODULE RingQueue -----------------------------
(***************************************************************************)
(* What a ring buffer promises to its user: a queue of items that together *)
(* take at most Capacity units.  An item is turned away (or, with recycle, *)
(* the oldest one destroyed) only when the free space is tight: it may be  *)
(* split in two by the end of the memory, and the part at the end, which   *)
(* an item that had to start over at the beginning left behind, is smaller *)
(* than that item.                                                         *)
(***************************************************************************)
EXTENDS Integers, Sequences

CONSTANTS
  Capacity,   \* units of memory
  Needs,      \* the units a new item may need
  Values      \* contents

VARIABLES
  queue,      \* [item, size], the oldest first
  recycle     \* FLAG_RECYCLE

Used(q) ==
  LET sum[i \in 0 .. Len(q)] == IF i = 0 THEN 0 ELSE sum[i - 1] + q[i].size
  IN  sum[Len(q)]

Room(q) == Capacity - Used(q)

Tight(q, need) ==
  \E size \in {need} \cup {q[i].size : i \in DOMAIN q} :
    Room(q) <= (need - 1) + (size - 1)

\* The queue without its i oldest items.
Without(q, i) == SubSeq(q, i + 1, Len(q))

Init == queue = << >> /\ recycle \in BOOLEAN

\* The last unit of a block may be left to its item.
Put(need, v) ==
  \E dropped \in 0 .. Len(queue), size \in {need, need + 1} :
    LET kept == Without(queue, dropped)
    IN  /\ dropped > 0 => recycle
        /\ \A i \in 0 .. dropped - 1 : Tight(Without(queue, i), need)
        /\ size <= Room(kept)
        /\ queue' = Append(kept, [item |-> v, size |-> size])

Pop == queue # << >> /\ queue' = Tail(queue)

Clear == queue' = << >>

Next ==
  /\ (\E need \in Needs, v \in Values : Put(need, v)) \/ Pop \/ Clear
  /\ UNCHANGED recycle

Spec == Init /\ [][Next]_<<queue, recycle>>
=============================================================================
