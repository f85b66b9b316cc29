----------------------------- MODULE RingProofs -----------------------------
(***************************************************************************)
(* The two rings.                                                          *)
(*                                                                         *)
(* ASYNCIO: what is written arrives in the file, all of it and in order.   *)
(* A ring is looked at through two numbers: how many bytes are in it and   *)
(* how many were taken out of it; each write keeps the second, whether it  *)
(* fits, wraps around or makes the ring grow.                              *)
(*                                                                         *)
(* CRingBufferBase: the ring buffer is a queue of items, which turns an    *)
(* item away only when the free space is tight and which the walks meet in *)
(* order.  The blocks tile the memory, the items are the blocks from       *)
(* m_pConsume to m_pProduce, and they take as much memory as lies between  *)
(* the two: PopFirst and Allocate keep that, whatever they merge, skip or  *)
(* split.                                                                  *)
(***************************************************************************)
EXTENDS AsyncIo, RingBuffer, NumberLemmas, FiniteSetTheorems, SequenceTheorems, TLAPS

-----------------------------------------------------------------------------
(* Places on the ring.                                                      *)

At(s, p, i) == (p + i) % s

Gap(s, p, q) == (q - p) % s

\* How far one place is behind another, both counted from a third.
LEMMA Between ==
  ASSUME NEW s \in Nat \ {0}, NEW p \in 0 .. s - 1, NEW j \in 0 .. s - 1, NEW l \in 0 .. s - 1
  PROVE  /\ At(s, p, j) \in 0 .. s - 1
         /\ Gap(s, At(s, p, l), At(s, p, j)) = IF j >= l THEN j - l ELSE j - l + s
<1>1. PICK u \in Int : u = p + j
  OBVIOUS
<1>2. PICK v \in Int : v = p + l
  OBVIOUS
<1>3. 0 <= u /\ u < 2 * s /\ 0 <= v /\ v < 2 * s
  BY <1>1, <1>2
<1>4. /\ u % s = IF u < s THEN u ELSE u - s
      /\ v % s = IF v < s THEN v ELSE v - s
  BY <1>3, Once
<1>5. PICK d \in Int : d = (u % s) - (v % s)
  BY <1>4
<1>6. -s <= d /\ d < s
  BY <1>3, <1>4, <1>5
<1>7. d % s = IF d >= 0 THEN d ELSE d + s
  BY <1>6, Back
<1>8. d % s = (IF j >= l THEN j - l ELSE j - l + s) /\ u % s \in 0 .. s - 1
  BY <1>1, <1>2, <1>3, <1>4, <1>5, <1>7
<1> QED BY <1>1, <1>2, <1>5, <1>8 DEF At, Gap

\* The distance leads from one place to the other.
LEMMA Reaches ==
  ASSUME NEW s \in Nat \ {0}, NEW p \in 0 .. s - 1, NEW q \in 0 .. s - 1
  PROVE  /\ Gap(s, p, q) \in 0 .. s - 1
         /\ q = At(s, p, Gap(s, p, q))
<1>1. PICK d \in Int : d = q - p
  OBVIOUS
<1>2. -s <= d /\ d < s
  BY <1>1
<1>3. d % s = IF d >= 0 THEN d ELSE d + s
  BY <1>2, Back
<1>4. PICK e \in Int : e = d % s
  BY <1>3
<1>5. PICK f \in Int : f = p + e
  OBVIOUS
<1>6. 0 <= f /\ f < 2 * s
  BY <1>2, <1>3, <1>4, <1>5
<1>7. f % s = IF f < s THEN f ELSE f - s
  BY <1>6, Once
<1>8. e \in 0 .. s - 1 /\ q = f % s
  BY <1>1, <1>2, <1>3, <1>4, <1>5, <1>7
<1> QED BY <1>1, <1>4, <1>5, <1>8 DEF At, Gap

\* Two steps forward are one.
LEMMA Onward ==
  ASSUME NEW s \in Nat \ {0}, NEW p \in 0 .. s - 1, NEW j \in Nat, NEW k \in Nat, j + k < s
  PROVE  At(s, At(s, p, j), k) = At(s, p, j + k)
<1>1. PICK u \in Int : u = p + j
  OBVIOUS
<1>2. PICK z \in Int : z = p + (j + k)
  OBVIOUS
<1>3. 0 <= u /\ u < 2 * s /\ 0 <= z /\ z < 2 * s
  BY <1>1, <1>2
<1>4. /\ u % s = IF u < s THEN u ELSE u - s
      /\ z % s = IF z < s THEN z ELSE z - s
  BY <1>3, Once
<1>5. PICK y \in Int : y = (u % s) + k
  BY <1>4
<1>6. 0 <= y /\ y < 2 * s
  BY <1>1, <1>3, <1>4, <1>5
<1>7. y % s = IF y < s THEN y ELSE y - s
  BY <1>6, Once
<1>8. y % s = z % s
  BY <1>1, <1>2, <1>4, <1>5, <1>7
<1> QED BY <1>1, <1>2, <1>5, <1>8 DEF At

LEMMA AtStart ==
  ASSUME NEW s \in Nat \ {0}, NEW p \in 0 .. s - 1
  PROVE  At(s, p, 0) = p
<1>1. PICK u \in Int : u = p + 0
  OBVIOUS
<1>2. u = p /\ u % s = u
  BY <1>1, SmallMod
<1> QED BY <1>1, <1>2 DEF At

-----------------------------------------------------------------------------
(* The ring as a record.                                                    *)

Buffers == UNION {[0 .. s - 1 -> Nat] : s \in Nat}
Record ==
  [buffer : Buffers, size : Nat, readPos : Nat, writePos : Nat, accepted : Nat]

LEMMA Unfolded ==
  ASSUME NEW r
  PROVE  /\ BufferLen(r) = Gap(r.size, r.readPos, r.writePos)
         /\ Content(r) = [i \in 1 .. BufferLen(r) |-> r.buffer[At(r.size, r.readPos, i - 1)]]
BY Zenon DEF BufferLen, Content, Gap, At

\* A ring with l bytes in it.
HasBytes(r, l) ==
  /\ r.size \in Nat \ {0} /\ r.accepted \in Nat
  /\ r.readPos \in 0 .. r.size - 1
  /\ l \in 0 .. r.size - 1 /\ l <= r.accepted
  /\ r.writePos = At(r.size, r.readPos, l)
  /\ r.buffer \in [0 .. r.size - 1 -> 0 .. r.accepted]
  /\ \A i \in 0 .. l - 1 : r.buffer[At(r.size, r.readPos, i)] = r.accepted - l + i + 1

LEMMA RingHas ==
  ASSUME NEW r, IsRing(r)
  PROVE  HasBytes(r, BufferLen(r)) /\ Taken(r) = r.accepted - BufferLen(r)
<1>1. PICK l : l = BufferLen(r)
  OBVIOUS
<1>2. Taken(r) = r.accepted - l
  BY <1>1 DEF Taken
<1>3. /\ r.size \in Nat \ {0} /\ r.accepted \in Nat
      /\ r.readPos \in 0 .. r.size - 1 /\ r.writePos \in 0 .. r.size - 1
      /\ r.buffer \in [0 .. r.size - 1 -> 0 .. r.accepted]
      /\ Taken(r) >= 0
  BY DEF IsRing
<1>4. l = Gap(r.size, r.readPos, r.writePos)
  BY <1>1, Unfolded
<1>5. l \in 0 .. r.size - 1 /\ r.writePos = At(r.size, r.readPos, l)
  BY <1>3, <1>4, Reaches
<1>6. l <= r.accepted
  BY <1>2, <1>3, <1>5
<1>7. PICK c : c = Content(r)
  OBVIOUS
<1>8. c = [i \in 1 .. l |-> r.buffer[At(r.size, r.readPos, i - 1)]]
  BY <1>1, <1>7, Unfolded
<1>9. c = [i \in 1 .. Len(c) |-> r.accepted - l + i]
  BY <1>2, <1>7 DEF IsRing, Numbered
<1>10. Len(c) = l
  BY <1>5, <1>8
<1>11. ASSUME NEW i \in 0 .. l - 1
       PROVE  r.buffer[At(r.size, r.readPos, i)] = r.accepted - l + i + 1
  <2>1. PICK k \in 1 .. l : k = i + 1 /\ k - 1 = i
    BY <1>5
  <2>2. c[k] = r.buffer[At(r.size, r.readPos, i)]
    BY <1>8, <2>1
  <2>3. c[k] = r.accepted - l + k
    BY <1>9, <1>10
  <2> QED BY <1>3, <1>5, <2>1, <2>2, <2>3
<1> QED BY <1>1, <1>2, <1>3, <1>5, <1>6, <1>11 DEF HasBytes

\* What makes a ring: where it starts, how much is in it, and its bytes.
LEMMA RingOf ==
  ASSUME NEW r, NEW l, HasBytes(r, l)
  PROVE  IsRing(r) /\ BufferLen(r) = l /\ Taken(r) = r.accepted - l
<1>1. PICK b, s, p, w, c : /\ b = r.buffer /\ s = r.size /\ p = r.readPos
                           /\ w = r.writePos /\ c = r.accepted
  OBVIOUS
<1>2. /\ s \in Nat \ {0} /\ c \in Nat /\ p \in 0 .. s - 1
      /\ l \in 0 .. s - 1 /\ l <= c /\ w = At(s, p, l)
      /\ b \in [0 .. s - 1 -> 0 .. c]
      /\ \A i \in 0 .. l - 1 : b[At(s, p, i)] = c - l + i + 1
  BY <1>1 DEF HasBytes
<1>3. PICK o : o = 0
  OBVIOUS
<1>4. o \in 0 .. s - 1 /\ l >= o /\ At(s, p, o) = p /\ w \in 0 .. s - 1
  BY <1>2, <1>3, AtStart, Between
<1>5. Gap(s, p, w) = l
  BY <1>2, <1>3, <1>4, Between
<1>6. BufferLen(r) = l
  BY <1>1, <1>5, Unfolded
<1>7. Taken(r) = c - l
  BY <1>1, <1>6 DEF Taken
<1>8. PICK q : q = Content(r)
  OBVIOUS
<1>unfolded. q = [i \in 1 .. BufferLen(r) |-> r.buffer[At(r.size, r.readPos, i - 1)]]
  BY <1>8, Unfolded
<1>9. q = [i \in 1 .. l |-> b[At(s, p, i - 1)]]
  BY <1>1, <1>6, <1>unfolded
<1>10. Len(q) = l
  BY <1>2, <1>9
<1>11. ASSUME NEW i \in 1 .. l  PROVE b[At(s, p, i - 1)] = (c - l) + i
  <2>1. PICK k \in 0 .. l - 1 : k = i - 1
    BY <1>2
  <2> QED BY <1>2, <2>1
<1>12. q = [i \in 1 .. Len(q) |-> (c - l) + i]
  BY <1>9, <1>10, <1>11
<1>13. Numbered(Content(r), Taken(r))
  BY <1>7, <1>8, <1>12 DEF Numbered
<1>14. Taken(r) >= 0
  BY <1>2, <1>7
<1>15. IsRing(r)
  BY <1>1, <1>2, <1>4, <1>13, <1>14 DEF IsRing
<1> QED BY <1>1, <1>6, <1>7, <1>15

LEMMA RecordOf ==
  ASSUME NEW l, NEW b, NEW s, NEW p, NEW w, NEW c,
         NEW r, r = [buffer |-> b, size |-> s, readPos |-> p, writePos |-> w, accepted |-> c],
         HasBytes(r, l)
  PROVE  r \in Record
<1>1. /\ s \in Nat \ {0} /\ c \in Nat /\ p \in 0 .. s - 1 /\ l \in 0 .. s - 1
      /\ w = At(s, p, l) /\ b \in [0 .. s - 1 -> 0 .. c]
  BY DEF HasBytes
<1>2. w \in Nat
  BY <1>1, Between
<1>3. b \in [0 .. s - 1 -> Nat]
  BY <1>1
<1>4. b \in Buffers
  BY <1>1, <1>3 DEF Buffers
<1> QED BY <1>1, <1>2, <1>4 DEF Record

LEMMA RecordIs ==
  ASSUME NEW r \in Record
  PROVE  r = [buffer |-> r.buffer, size |-> r.size, readPos |-> r.readPos,
              writePos |-> r.writePos, accepted |-> r.accepted]
BY DEF Record

-----------------------------------------------------------------------------
(* Bytes that are put in follow those that are there.                       *)

\* The rings out of which the first t bytes were taken, with at least the first a put in.
Rings(t, a) == {r \in Record : IsRing(r) /\ Taken(r) = t /\ r.accepted >= a}

LEMMA PutKeeps ==
  ASSUME NEW t, NEW a \in Nat, NEW r \in Rings(t, a), NEW n \in Nat,
         n < r.size - BufferLen(r)
  PROVE  Put(r, n) \in Rings(t, a)
<1>1. PICK l : l = BufferLen(r)
  OBVIOUS
<1>2. r \in Record /\ HasBytes(r, l) /\ t = r.accepted - l /\ r.accepted >= a
  BY <1>1, RingHas DEF Rings
<1>3. PICK d, s, p, w, c : r = [buffer |-> d, size |-> s, readPos |-> p, writePos |-> w,
                                accepted |-> c]
  BY <1>2, RecordIs
<1>4. /\ s \in Nat \ {0} /\ c \in Nat /\ p \in 0 .. s - 1
      /\ l \in 0 .. s - 1 /\ l <= c /\ w = At(s, p, l)
      /\ d \in [0 .. s - 1 -> 0 .. c]
      /\ \A i \in 0 .. l - 1 : d[At(s, p, i)] = c - l + i + 1
      /\ t = c - l /\ c >= a /\ n < s - l
  BY <1>1, <1>2, <1>3 DEF HasBytes
<1> DEFINE b == [i \in 0 .. s - 1 |->
                   IF Gap(s, w, i) < n THEN c + Gap(s, w, i) + 1 ELSE d[i]]
<1>5. l + n \in 0 .. s - 1 /\ c + n \in Nat /\ l + n <= c + n /\ w \in 0 .. s - 1
  BY <1>4, Between
<1>6. At(s, w, n) = At(s, p, l + n)
  BY <1>4, <1>5, Onward
<1>7. ASSUME NEW i \in 0 .. s - 1
      PROVE  b[i] \in 0 .. c + n
  <2>1. Gap(s, w, i) \in 0 .. s - 1 /\ d[i] \in 0 .. c
    BY <1>4, <1>5, Reaches
  <2>2. b[i] = IF Gap(s, w, i) < n THEN c + Gap(s, w, i) + 1 ELSE d[i]
    OBVIOUS
  <2> HIDE DEF b
  <2>3. PICK k \in 0 .. s - 1 : k = Gap(s, w, i)
    BY <2>1
  <2>4. CASE k < n
    <3>1. b[i] = c + k + 1
      BY <2>2, <2>3, <2>4
    <3> QED BY <1>4, <2>4, <3>1
  <2>5. CASE ~ (k < n)
    <3>1. b[i] = d[i]
      BY <2>2, <2>3, <2>5
    <3> QED BY <1>4, <2>1, <3>1
  <2> QED BY <2>4, <2>5
<1>8. b \in [0 .. s - 1 -> 0 .. c + n]
  BY <1>7
<1>9. ASSUME NEW i \in 0 .. (l + n) - 1
      PROVE  b[At(s, p, i)] = (c + n) - (l + n) + i + 1
  <2>1. i \in 0 .. s - 1
    BY <1>4
  <2>2. PICK x \in 0 .. s - 1 : x = At(s, p, i)
    BY <1>4, <2>1, Between
  <2>3. Gap(s, At(s, p, l), At(s, p, i)) = IF i >= l THEN i - l ELSE i - l + s
    BY <1>4, <2>1, Between
  <2>gap. Gap(s, w, x) = IF i >= l THEN i - l ELSE i - l + s
    BY Zenon, <1>4, <2>2, <2>3
  <2>4. b[x] = IF Gap(s, w, x) < n THEN c + Gap(s, w, x) + 1 ELSE d[x]
    OBVIOUS
  <2> HIDE DEF b
  <2>5. CASE i >= l
    BY <1>4, <2>2, <2>gap, <2>4, <2>5
  <2>6. CASE i < l
    <3>1. d[x] = c - l + i + 1
      BY <1>4, <2>1, <2>2, <2>6
    <3>2. ~ (Gap(s, w, x) < n)
      BY <1>4, <2>1, <2>gap, <2>6
    <3> QED BY <1>4, <2>1, <2>2, <2>4, <3>1, <3>2
  <2> QED BY <1>4, <2>1, <2>5, <2>6
<1>10. PICK q : q = Put(r, n)
  OBVIOUS
<1>11. q = [buffer |-> b, size |-> s, readPos |-> p, writePos |-> At(s, p, l + n),
            accepted |-> c + n]
  <2>1. DOMAIN d = 0 .. s - 1
    BY <1>4
  <2>2. Put(r, n) = [buffer |-> b, size |-> s, readPos |-> p, writePos |-> At(s, w, n),
                     accepted |-> c + n]
    <3>1. /\ r.buffer = d /\ r.size = s /\ r.readPos = p /\ r.writePos = w
          /\ r.accepted = c
      BY <1>3
    <3> QED BY Zenon, <2>1, <3>1 DEF Put, Gap, At
  <2> QED BY Zenon, <1>6, <1>10, <2>2
<1> HIDE DEF b
<1>12. HasBytes(q, l + n) /\ q.accepted = c + n
  BY <1>4, <1>5, <1>8, <1>9, <1>11 DEF HasBytes
<1>13. q \in Record /\ IsRing(q) /\ Taken(q) = (c + n) - (l + n)
  BY <1>11, <1>12, RecordOf, RingOf
<1> QED BY <1>4, <1>10, <1>12, <1>13 DEF Rings

\* The doublings of a size grow, so one of them is large enough.
LEMMA SizeFits ==
  ASSUME NEW cur \in Nat \ {0}, NEW need \in Nat
  PROVE  NextBufferSize(cur, need) \in Nat /\ NextBufferSize(cur, need) >= need
<1> DEFINE D == Doubled(cur)
           F == [x \in Nat \X Nat |-> 2 * x[2]]
<1>1. D = [k \in Nat |-> IF k = 0 THEN cur ELSE 2 * D[k - 1]]
  <2>1. F \in [Nat \X Nat -> Nat] /\ cur \in Nat
    OBVIOUS
  <2>2. \A n \in Nat, y \in Nat : F[<<n, y>>] = 2 * y
    OBVIOUS
  <2> HIDE DEF F
  <2>steps. StepsFrom(cur, F, Nat) # {}
    BY Zenon, <2>1, StepsDefined
  <2>3. PICK g \in [Nat -> Nat] : g[0] = cur /\ \A n \in Nat : g[n + 1] = F[<<n, g[n]>>]
    BY Zenon, <2>steps DEF StepsFrom
  <2>4. ASSUME NEW k \in Nat, k # 0  PROVE g[k] = 2 * g[k - 1]
    <3>1. PICK n \in Nat : n = k - 1 /\ n + 1 = k
      BY <2>4
    <3>2. g[n] \in Nat
      OBVIOUS
    <3> QED BY <2>2, <2>3, <3>1, <3>2
  <2>5. g = [k \in Nat |-> IF k = 0 THEN cur ELSE 2 * g[k - 1]]
    BY <2>3, <2>4
  <2>6. \E h : h = [k \in Nat |-> IF k = 0 THEN cur ELSE 2 * h[k - 1]]
    BY <2>5
  <2>7. Doubled(cur) = CHOOSE h : h = [k \in Nat |-> IF k = 0 THEN cur ELSE 2 * h[k - 1]]
    BY DEF Doubled
  <2> QED BY Zenon, <2>6, <2>7
<1> HIDE DEF D
<1>2. D[0] = cur /\ \A n \in Nat : D[n + 1] = 2 * D[n]
  <2>1. ASSUME NEW n \in Nat  PROVE D[n + 1] = 2 * D[n]
    <3>1. PICK k \in Nat : k = n + 1 /\ k - 1 = n /\ k # 0
      OBVIOUS
    <3> QED BY <1>1, <3>1
  <2> QED BY <1>1, <2>1
<1> DEFINE S == {n \in Nat : D[n] \in Nat /\ D[n] > n}
<1>3. 0 \in S
  BY <1>2
<1>4. ASSUME NEW n \in Nat, n \in S  PROVE n + 1 \in S
  BY <1>2, <1>4
<1> HIDE DEF S
<1>5. Nat \subseteq S
  BY <1>3, <1>4, NumberInduction
<1>6. \A n \in Nat : D[n] \in Nat /\ D[n] > n
  BY <1>5 DEF S
<1> DEFINE T == {k \in 0 .. need : D[k] >= need}
<1>7. T \in SUBSET Nat /\ T # {}
  BY <1>6
<1>8. PICK k \in T : \A i \in T : k <= i
  BY <1>7, SmallestNumber
<1>9. k \in 0 .. need /\ D[k] >= need /\ \A i \in 0 .. k - 1 : D[i] < need
  <2>1. ASSUME NEW i \in 0 .. k - 1  PROVE D[i] < need
    <3>1. i \in 0 .. need /\ i \notin T /\ D[i] \in Nat
      BY <1>6, <1>8
    <3> QED BY <3>1
  <2> QED BY <1>8, <2>1
<1> DEFINE c == CHOOSE j \in 0 .. need : /\ D[j] >= need
                                       /\ \A i \in 0 .. j - 1 : D[i] < need
<1>10. c \in 0 .. need /\ D[c] >= need
  BY <1>9
<1>11. NextBufferSize(cur, need) = D[c]
  BY DEF NextBufferSize, D
<1> HIDE DEF c
<1> QED BY <1>6, <1>10, <1>11

LEMMA GrownKeeps ==
  ASSUME NEW t, NEW a \in Nat, NEW r \in Rings(t, a), NEW n \in Nat
  PROVE  Grown(r, n) \in Rings(t, a)
<1>1. PICK l : l = BufferLen(r)
  OBVIOUS
<1>2. PICK c : c = r.accepted
  OBVIOUS
<1>3. IsRing(r) /\ c >= a /\ Taken(r) = t
  BY <1>2 DEF Rings
<1>4. HasBytes(r, l) /\ t = c - l
  BY <1>1, <1>2, <1>3, RingHas
<1>5. l \in Nat /\ l <= c /\ c \in Nat /\ r.size \in Nat \ {0}
  BY <1>2, <1>4 DEF HasBytes
<1>6. PICK s : s = NextBufferSize(r.size, l + n + 1)
  OBVIOUS
<1>7. s \in Nat \ {0} /\ s >= l + n + 1
  BY <1>5, <1>6, SizeFits
<1>8. PICK m, e : m = l + n /\ e = c + n
  OBVIOUS
<1>9. m \in 0 .. s - 1 /\ e \in Nat /\ m <= e /\ e - m = c - l
  BY <1>5, <1>7, <1>8
<1>10. PICK y : y = Content(r)
  OBVIOUS
<1>11. y = [i \in 1 .. Len(y) |-> (c - l) + i]
  BY <1>3, <1>4, <1>10 DEF IsRing, Numbered
<1>12. y = [i \in 1 .. l |-> r.buffer[At(r.size, r.readPos, i - 1)]]
  <2>1. y = [i \in 1 .. BufferLen(r) |-> r.buffer[At(r.size, r.readPos, i - 1)]]
    BY <1>10, Unfolded
  <2> QED BY <1>1, <2>1
<1>13. Len(y) = l /\ y \in Seq(Int)
  <2>1. Len(y) = l
    BY <1>5, <1>12
  <2>2. \A i \in 1 .. l : (c - l) + i \in Int
    BY <1>5
  <2> QED BY <1>5, <1>11, <2>1, <2>2
<1>14. PICK z : z = [i \in 1 .. n |-> c + i]
  OBVIOUS
<1>15. Len(z) = n /\ z \in Seq(Int)
  BY <1>5, <1>14
<1>16. /\ Len(y \o z) = m
       /\ \A i \in 1 .. m : (y \o z)[i] = IF i <= l THEN y[i] ELSE z[i - l]
  BY <1>8, <1>13, <1>15, ConcatProperties
<1>17. ASSUME NEW i \in 1 .. m  PROVE (y \o z)[i] = (c - l) + i
  <2>1. CASE i <= l
    <3>1. y[i] = (c - l) + i
      BY <1>5, <1>11, <1>13, <2>1
    <3> QED BY <1>16, <2>1, <3>1
  <2>2. CASE ~ (i <= l)
    <3>1. PICK k \in 1 .. n : k = i - l
      BY <1>5, <1>8, <2>2
    <3>2. z[k] = c + k
      BY <1>14
    <3>3. (y \o z)[i] = c + k
      BY <1>16, <2>2, <3>1, <3>2
    <3> QED BY <1>5, <3>1, <3>3
  <2> QED BY <2>1, <2>2
<1>18. PICK x : x = y \o z
  OBVIOUS
<1>19. PICK b : b = [i \in 0 .. s - 1 |-> IF i < m THEN x[i + 1] ELSE 0]
  OBVIOUS
<1>20. PICK q : q = Grown(r, n)
  OBVIOUS
<1>21. q = [buffer |-> b, size |-> s, readPos |-> 0, writePos |-> m, accepted |-> e]
  BY Zenon, <1>1, <1>2, <1>6, <1>8, <1>10, <1>14, <1>18, <1>19, <1>20 DEF Grown
<1>22. ASSUME NEW i \in 0 .. m - 1
       PROVE  i \in 0 .. s - 1 /\ b[i] = (c - l) + i + 1
  <2>1. PICK k \in 1 .. m : k = i + 1
    BY <1>9
  <2>2. x[k] = (c - l) + k
    BY <1>17, <1>18
  <2>3. i \in 0 .. s - 1 /\ i < m
    BY <1>7, <1>9
  <2>4. b[i] = x[k]
    BY <1>19, <2>1, <2>3
  <2>5. b[i] = (c - l) + i + 1
    BY <1>5, <2>1, <2>2, <2>4
  <2> QED BY <2>3, <2>5
<1>23. b \in [0 .. s - 1 -> 0 .. e]
  <2>1. ASSUME NEW i \in 0 .. s - 1  PROVE b[i] \in 0 .. e
    <3>1. CASE i < m
      <4>1. i \in 0 .. m - 1
        BY <1>9, <3>1
      <4> QED BY <1>5, <1>8, <1>9, <1>22, <4>1
    <3>2. CASE ~ (i < m)
      BY <1>9, <1>19, <3>2
    <3> QED BY <3>1, <3>2
  <2> QED BY <1>19, <2>1
<1>24. PICK o : o = 0
  OBVIOUS
<1>25. o \in 0 .. s - 1 /\ \A i \in 0 .. s - 1 : At(s, o, i) = i
  <2>1. o \in 0 .. s - 1
    BY <1>7, <1>24
  <2>2. ASSUME NEW i \in 0 .. s - 1  PROVE At(s, o, i) = i
    <3>1. o + i = i /\ i % s = i
      BY <1>7, <1>24, SmallMod
    <3> QED BY <3>1 DEF At
  <2> QED BY <2>1, <2>2
<1>26. HasBytes(q, m)
  BY <1>7, <1>9, <1>21, <1>22, <1>23, <1>24, <1>25 DEF HasBytes
<1>27. q \in Record /\ IsRing(q) /\ Taken(q) = e - m
  BY <1>21, <1>26, RecordOf, RingOf
<1>28. e >= a
  BY <1>3, <1>5, <1>8
<1> QED BY <1>4, <1>9, <1>20, <1>21, <1>27, <1>28 DEF Rings

LEMMA WriteKeeps ==
  ASSUME NEW t, NEW a \in Nat, NEW r \in Rings(t, a), NEW n \in Nat
  PROVE  WriteUnlocked(r, n) \in Rings(t, a)
BY PutKeeps, GrownKeeps DEF WriteUnlocked

\* A line is written in as many steps as it has parts.
LEMMA LineKeeps ==
  ASSUME NEW t, NEW a \in Nat, NEW r \in Rings(t, a), NEW line \in Seq(Nat)
  PROVE  WriteLine(r, line) \in Rings(t, a)
<1> DEFINE X == Rings(t, a)
           n == Len(line)
           F == [y \in Nat \X X |->
                   IF y[1] < n THEN WriteUnlocked(y[2], line[y[1] + 1]) ELSE y[2]]
<1>1. n \in Nat /\ \A i \in 1 .. n : line[i] \in Nat
  OBVIOUS
<1>2. \A i \in 1 .. n, x \in X : WriteUnlocked(x, line[i]) \in X
  BY <1>1, WriteKeeps
<1> HIDE DEF X, n
<1>3. F \in [Nat \X X -> X]
  <2>1. ASSUME NEW y \in Nat \X X
        PROVE (IF y[1] < n THEN WriteUnlocked(y[2], line[y[1] + 1]) ELSE y[2]) \in X
    <3>1. CASE y[1] < n
      <4>1. y[1] + 1 \in 1 .. n /\ y[2] \in X
        BY <1>1, <3>1
      <4> QED BY <1>2, <3>1, <4>1
    <3> QED BY <3>1
  <2> QED BY <2>1
<1>4. \A i \in Nat, x \in X :
        F[<<i, x>>] = IF i < n THEN WriteUnlocked(x, line[i + 1]) ELSE x
  OBVIOUS
<1> HIDE DEF F
<1>5. r \in X
  BY DEF X
<1>6. StepsFrom(r, F, X) # {}
  BY Zenon, <1>3, <1>5, StepsDefined
<1>7. PICK g \in [Nat -> X] : g[0] = r /\ \A i \in Nat : g[i + 1] = F[<<i, g[i]>>]
  BY Zenon, <1>6 DEF StepsFrom
<1> DEFINE h == [i \in 0 .. n |-> g[i]]
<1>8. h = [i \in 0 .. n |-> IF i = 0 THEN r ELSE WriteUnlocked(h[i - 1], line[i])]
  <2>1. ASSUME NEW i \in 0 .. n, i # 0  PROVE g[i] = WriteUnlocked(h[i - 1], line[i])
    <3>1. PICK k \in Nat : k = i - 1 /\ i = k + 1 /\ k < n /\ k \in 0 .. n
      BY <1>1, <2>1
    <3>2. g[i] = F[<<k, g[k]>>] /\ g[k] \in X
      BY <1>7, <3>1
    <3>3. F[<<k, g[k]>>] = WriteUnlocked(g[k], line[i])
      BY <1>4, <3>1, <3>2
    <3> QED BY <3>1, <3>2, <3>3
  <2> QED BY <1>7, <2>1
<1> DEFINE After == CHOOSE f : f = [i \in 0 .. n |-> IF i = 0 THEN r
                                                    ELSE WriteUnlocked(f[i - 1], line[i])]
<1>9. After = [i \in 0 .. n |-> IF i = 0 THEN r ELSE WriteUnlocked(After[i - 1], line[i])]
  <2> HIDE DEF h
  <2> QED BY Zenon, <1>8
<1>10. WriteLine(r, line) = After[n]
  BY DEF WriteLine, n
<1> HIDE DEF After
<1> DEFINE S == {i \in Nat : i <= n => After[i] \in X}
<1>11. 0 \in S
  BY <1>1, <1>5, <1>9
<1>12. ASSUME NEW i \in Nat, i \in S  PROVE i + 1 \in S
  <2> SUFFICES ASSUME i + 1 <= n  PROVE After[i + 1] \in X
    OBVIOUS
  <2>1. PICK k \in 1 .. n : k = i + 1 /\ k - 1 = i /\ k # 0 /\ k \in 0 .. n
    BY <1>1
  <2>2. After[i] \in X
    BY <1>1, <1>12
  <2>3. After[k] = WriteUnlocked(After[i], line[k])
    BY <1>9, <2>1
  <2> QED BY <1>2, <2>1, <2>2, <2>3
<1> HIDE DEF S
<1>13. Nat \subseteq S
  BY <1>11, <1>12, NumberInduction
<1>14. After[n] \in X
  BY <1>1, <1>13 DEF S
<1> QED BY <1>10, <1>14 DEF X

-----------------------------------------------------------------------------
(* The steps.                                                               *)

LEMMA RingIs ==
  ASSUME IInv
  PROVE  Ring \in Rings(Len(file) + Len(local), accepted)
<1>1. PICK r : r = Ring
  OBVIOUS
<1>2. /\ r.buffer = buffer /\ r.size = size /\ r.readPos = readPos
      /\ r.writePos = writePos /\ r.accepted = accepted
      /\ r = [buffer |-> buffer, size |-> size, readPos |-> readPos,
              writePos |-> writePos, accepted |-> accepted]
  BY <1>1 DEF Ring
<1>3. IsRing(r) /\ Taken(r) = Len(file) + Len(local)
  BY <1>1 DEF IInv, OnTheirWay
<1>4. HasBytes(r, BufferLen(r))
  BY <1>3, RingHas
<1>5. r \in Record
  BY <1>2, <1>4, RecordOf
<1>6. accepted \in Int
  BY DEF IInv, TypeOK
<1> QED BY <1>1, <1>2, <1>3, <1>5, <1>6 DEF Rings

\* The variables of a ring: what they tell of it.
LEMMA RingTypes ==
  ASSUME NEW r, IsRing(r), r.accepted <= MaxBytes
  PROVE  /\ r.size \in Nat \ {0} /\ r.buffer \in [0 .. r.size - 1 -> 0 .. MaxBytes]
         /\ r.readPos \in 0 .. r.size - 1 /\ r.writePos \in 0 .. r.size - 1
         /\ r.accepted \in 0 .. MaxBytes
<1>1. /\ r.size \in Nat \ {0} /\ r.accepted \in Nat
      /\ r.readPos \in 0 .. r.size - 1 /\ r.writePos \in 0 .. r.size - 1
      /\ r.buffer \in [0 .. r.size - 1 -> 0 .. r.accepted]
  BY DEF IsRing
<1>2. MaxBytes \in Nat
  BY AioAssumption
<1>3. 0 .. r.accepted \subseteq 0 .. MaxBytes
  BY <1>1, <1>2
<1> QED BY <1>1, <1>2, <1>3

LEMMA InitInv == Init => IInv
<1> SUFFICES ASSUME Init  PROVE IInv
  OBVIOUS
<1> USE DEF Init
<1>1. BufSize \in Nat \ {0} /\ MaxBytes \in Nat
  BY AioAssumption
<1>2. PICK r : r = Ring
  OBVIOUS
<1>3. /\ r.buffer = buffer /\ r.size = size /\ r.readPos = readPos
      /\ r.writePos = writePos /\ r.accepted = accepted
  BY <1>2 DEF Ring
<1>4. buffer \in [0 .. size - 1 -> 0 .. 0]
  OBVIOUS
<1>5. PICK o : o = 0
  OBVIOUS
<1>6. At(size, o, o) = o
  BY <1>1, <1>5, AtStart
<1>7. HasBytes(r, o)
  BY <1>1, <1>3, <1>4, <1>5, <1>6 DEF HasBytes
<1>8. IsRing(r) /\ Taken(r) = 0
  BY <1>3, <1>5, <1>7, RingOf
<1>9. /\ file = << >> /\ local = << >> /\ Len(file) = 0 /\ Len(local) = 0
  OBVIOUS
<1>10. Numbered(file, 0) /\ Numbered(local, Len(file))
  BY <1>9 DEF Numbered
<1>11. OnTheirWay
  BY <1>2, <1>8, <1>9, <1>10 DEF OnTheirWay
<1>12. TypeOK
  <2>1. r.accepted <= MaxBytes
    BY <1>1, <1>3
  <2>2. /\ size \in Nat \ {0} /\ buffer \in [0 .. size - 1 -> 0 .. MaxBytes]
        /\ {readPos, writePos} \subseteq 0 .. size - 1
    BY <1>3, <1>8, <2>1, RingTypes
  <2> QED BY <1>1, <1>9, <2>2 DEF TypeOK
<1>13. GoesLast /\ CompleteAfterWait
  BY DEF GoesLast, CompleteAfterWait
<1> QED BY <1>11, <1>12, <1>13 DEF IInv

\* The new ring: what a step that leaves it in order has still to show.
LEMMA RingNow ==
  ASSUME NEW t, NEW a \in Nat, NEW r \in Rings(t, a),
         buffer' = r.buffer, size' = r.size, readPos' = r.readPos, writePos' = r.writePos,
         accepted' = r.accepted
  PROVE  IsRing(Ring)' /\ Taken(Ring)' = t
<1>1. r \in Record /\ IsRing(r) /\ Taken(r) = t
  BY DEF Rings
<1>2. Ring' = r
  BY <1>1, RecordIs DEF Ring
<1> QED BY <1>1, <1>2

LEMMA WriteInv ==
  ASSUME IInv, NEW w \in Writers, NEW line \in Lines, Write(w, line)
  PROVE  IInv'
<1>1. TypeOK /\ OnTheirWay /\ GoesLast /\ CompleteAfterWait
  BY DEF IInv
<1>2. line \in Seq(Nat)
  BY AioAssumption
<1>3. PICK t : t = Len(file) + Len(local)
  OBVIOUS
<1>4. accepted \in 0 .. MaxBytes /\ accepted \in Nat
  BY <1>1 DEF TypeOK
<1>5. PICK r : r = WriteLine(Ring, line)
  OBVIOUS
<1>6. r \in Rings(t, accepted)
  BY <1>2, <1>3, <1>4, <1>5, RingIs, LineKeeps
<1>7. /\ r.accepted <= MaxBytes
      /\ buffer' = r.buffer /\ size' = r.size
      /\ readPos' = r.readPos /\ writePos' = r.writePos
      /\ accepted' = r.accepted
  BY <1>5 DEF Write
<1>8. /\ signals' = signals \cup {w}
      /\ UNCHANGED <<sphore, finish, refcount, thread, local, file, owner, promised>>
  BY DEF Write
<1>9. IsRing(Ring)' /\ Taken(Ring)' = t
  BY <1>4, <1>6, <1>7, RingNow
<1>10. IsRing(r) /\ r.accepted >= accepted
  BY <1>6 DEF Rings
<1>11. TypeOK'
  <2>1. /\ size' \in Nat \ {0} /\ buffer' \in [0 .. size' - 1 -> 0 .. MaxBytes]
        /\ {readPos', writePos'} \subseteq 0 .. size' - 1 /\ accepted' \in 0 .. MaxBytes
    BY <1>7, <1>10, RingTypes
  <2>2. promised' \in 0 .. accepted'
    BY <1>1, <1>4, <1>7, <1>8, <1>10, <2>1 DEF TypeOK
  <2> QED BY <1>1, <1>8, <2>1, <2>2 DEF TypeOK
<1>12. OnTheirWay'
  BY <1>1, <1>3, <1>8, <1>9 DEF OnTheirWay, Numbered
<1>13. GoesLast' /\ CompleteAfterWait'
  BY <1>1, <1>8 DEF GoesLast, CompleteAfterWait
<1> QED BY <1>11, <1>12, <1>13 DEF IInv

\* Steps that touch neither the bytes nor the counts of them.
LEMMA BytesStay ==
  ASSUME IInv, UNCHANGED <<ring, local, file, accepted>>,
         thread # "io" \/ thread' = thread
  PROVE  OnTheirWay'
<1>1. Ring' = Ring
  BY DEF Ring, ring
<1>2. OnTheirWay /\ local' = local /\ file' = file
  BY DEF IInv
<1>3. thread' # "io" => local' = << >>
  BY <1>2 DEF OnTheirWay
<1> QED BY <1>1, <1>2, <1>3 DEF OnTheirWay, Numbered

\* ... nor anything else that is typed.
LEMMA TypesStay ==
  ASSUME TypeOK, UNCHANGED <<ring, local, file, accepted>>,
         sphore' \in Nat, refcount' \in 0 .. 2, finish' \in {"running", "close", "exit"},
         thread' \in {"top", "wait", "io", "gone"},
         owner' \in {"open", "closed", "join", "joined", "freed"},
         signals' \subseteq Writers, promised' \in 0 .. accepted
  PROVE  TypeOK'
BY DEF TypeOK, ring

LEMMA SignalInv ==
  ASSUME IInv, NEW w \in Writers, Signal(w)
  PROVE  IInv'
<1>1. TypeOK /\ OnTheirWay /\ GoesLast /\ CompleteAfterWait
  BY DEF IInv
<1>2. /\ signals' = signals \ {w} /\ sphore' = sphore + 1
      /\ UNCHANGED <<ring, finish, refcount, thread, local, file, owner, accepted, promised>>
  BY DEF Signal
<1>3. TypeOK'
  BY <1>1, <1>2, TypesStay DEF TypeOK
<1>4. OnTheirWay'
  BY <1>2, BytesStay
<1>5. GoesLast' /\ CompleteAfterWait'
  BY <1>1, <1>2 DEF GoesLast, CompleteAfterWait
<1> QED BY <1>3, <1>4, <1>5 DEF IInv

LEMMA AioCloseInv ==
  ASSUME IInv, AioClose
  PROVE  IInv'
<1>1. TypeOK /\ OnTheirWay /\ GoesLast /\ CompleteAfterWait
  BY DEF IInv
<1>2. /\ owner = "open" /\ finish' = "close" /\ owner' = "closed"
      /\ sphore' = sphore + 1 /\ promised' = accepted
      /\ UNCHANGED <<ring, refcount, thread, local, file, signals, accepted>>
  BY DEF AioClose
<1>3. TypeOK'
  BY <1>1, <1>2, TypesStay DEF TypeOK
<1>4. OnTheirWay'
  BY <1>2, BytesStay
<1>5. thread # "gone"
  BY <1>1, <1>2 DEF GoesLast
<1>6. GoesLast' /\ CompleteAfterWait'
  BY <1>1, <1>2, <1>5 DEF GoesLast, CompleteAfterWait
<1> QED BY <1>3, <1>4, <1>6 DEF IInv

LEMMA AioWaitInv ==
  ASSUME IInv, AioWait
  PROVE  IInv'
<1>1. TypeOK /\ OnTheirWay /\ GoesLast /\ CompleteAfterWait
  BY DEF IInv
<1>2. /\ owner \in {"open", "closed"} /\ owner' = "join"
      /\ finish' = (IF finish = "running" THEN "exit" ELSE finish)
      /\ promised' = (IF finish = "running" THEN accepted ELSE promised)
      /\ sphore' = sphore + 1
      /\ UNCHANGED <<ring, refcount, thread, local, file, signals, accepted>>
  BY DEF AioWait
<1>3. TypeOK'
  <2>1. promised' \in 0 .. accepted /\ finish' \in {"running", "close", "exit"}
    BY <1>1, <1>2 DEF TypeOK
  <2> QED BY <1>1, <1>2, <2>1, TypesStay DEF TypeOK
<1>4. OnTheirWay'
  BY <1>2, BytesStay
<1>5. GoesLast' /\ CompleteAfterWait'
  BY <1>1, <1>2 DEF GoesLast, CompleteAfterWait
<1> QED BY <1>3, <1>4, <1>5 DEF IInv

LEMMA JoinInv ==
  ASSUME IInv, Join
  PROVE  IInv'
<1>1. TypeOK /\ OnTheirWay /\ GoesLast /\ CompleteAfterWait
  BY DEF IInv
<1>2. /\ owner = "join" /\ thread = "gone" /\ owner' = "joined"
      /\ UNCHANGED <<ring, sphore, finish, refcount, thread, local, file, signals,
                     accepted, promised>>
  BY DEF Join
<1>3. TypeOK'
  BY <1>1, <1>2, TypesStay DEF TypeOK
<1>4. OnTheirWay'
  BY <1>2, BytesStay
<1>5. GoesLast' /\ CompleteAfterWait'
  BY <1>1, <1>2 DEF GoesLast, CompleteAfterWait
<1> QED BY <1>3, <1>4, <1>5 DEF IInv

LEMMA AioFreeInv ==
  ASSUME IInv, AioFree
  PROVE  IInv'
<1>1. TypeOK /\ OnTheirWay /\ GoesLast /\ CompleteAfterWait
  BY DEF IInv
<1>2. /\ owner = "joined" /\ owner' = "freed" /\ refcount' = refcount - 1
      /\ UNCHANGED <<ring, sphore, finish, thread, local, file, signals, accepted, promised>>
  BY DEF AioFree
<1>3. refcount = 1 /\ thread = "gone"
  BY <1>1, <1>2 DEF GoesLast, CompleteAfterWait
<1>4. TypeOK'
  BY <1>1, <1>2, <1>3, TypesStay DEF TypeOK
<1>5. OnTheirWay'
  BY <1>2, BytesStay
<1>6. GoesLast' /\ CompleteAfterWait'
  BY <1>1, <1>2, <1>3 DEF GoesLast, CompleteAfterWait
<1> QED BY <1>4, <1>5, <1>6 DEF IInv

-----------------------------------------------------------------------------
(* The thread.                                                              *)

LEMMA WokenInv ==
  ASSUME IInv, Woken
  PROVE  IInv'
<1>1. TypeOK /\ OnTheirWay /\ GoesLast /\ CompleteAfterWait
  BY DEF IInv
<1>2. /\ thread = "wait" /\ sphore > 0 /\ sphore' = sphore - 1 /\ thread' = "top"
      /\ UNCHANGED <<ring, finish, refcount, local, file, signals, owner, accepted, promised>>
  BY DEF Woken
<1>3. TypeOK'
  BY <1>1, <1>2, TypesStay DEF TypeOK
<1>4. OnTheirWay'
  BY <1>2, BytesStay
<1>5. GoesLast' /\ CompleteAfterWait'
  BY <1>1, <1>2 DEF GoesLast, CompleteAfterWait
<1> QED BY <1>3, <1>4, <1>5 DEF IInv

LEMMA SeqWider ==
  ASSUME NEW T, NEW S \in SUBSET T, NEW y \in Seq(S)
  PROVE  y \in Seq(T)
<1>1. Len(y) \in Nat /\ y = [i \in 1 .. Len(y) |-> y[i]]
  OBVIOUS
<1>2. \A i \in 1 .. Len(y) : y[i] \in T
  OBVIOUS
<1> QED BY <1>1, <1>2

\* Bytes numbered on from each other, put together.
LEMMA NumberedConcat ==
  ASSUME NEW S, NEW x \in Seq(S), NEW y \in Seq(S), NEW n \in Nat,
         Numbered(x, n), Numbered(y, n + Len(x))
  PROVE  Numbered(x \o y, n) /\ Len(x \o y) = Len(x) + Len(y)
<1>1. PICK z : z = x \o y
  OBVIOUS
<1>2. /\ z \in Seq(S) /\ Len(z) = Len(x) + Len(y) /\ Len(x) \in Nat /\ Len(y) \in Nat
      /\ \A i \in 1 .. Len(x) + Len(y) : z[i] = IF i <= Len(x) THEN x[i] ELSE y[i - Len(x)]
  BY <1>1, ConcatProperties
<1>3. \A i \in 1 .. Len(x) : x[i] = n + i
  BY DEF Numbered
<1>4. \A i \in 1 .. Len(y) : y[i] = n + Len(x) + i
  BY <1>2 DEF Numbered
<1>5. ASSUME NEW i \in 1 .. Len(z)  PROVE z[i] = n + i
  <2>1. CASE i <= Len(x)
    BY <1>2, <1>3, <2>1
  <2>2. CASE ~ (i <= Len(x))
    <3>1. PICK k \in 1 .. Len(y) : k = i - Len(x)
      BY <1>2, <2>2
    <3>2. z[i] = y[k]
      BY <1>2, <2>2, <3>1
    <3> QED BY <1>2, <1>4, <3>1, <3>2
  <2> QED BY <2>1, <2>2
<1>6. z = [i \in 1 .. Len(z) |-> z[i]]
  BY <1>2
<1>7. Numbered(z, n)
  BY <1>5, <1>6 DEF Numbered
<1> QED BY <1>1, <1>2, <1>7

LEMMA WriteFileInv ==
  ASSUME IInv, WriteFile
  PROVE  IInv'
<1>1. TypeOK /\ OnTheirWay /\ GoesLast /\ CompleteAfterWait
  BY DEF IInv
<1>2. /\ thread = "io" /\ thread' = "top" /\ file' = file \o local /\ local' = << >>
      /\ UNCHANGED <<ring, sphore, finish, refcount, signals, owner, accepted, promised>>
  BY DEF WriteFile
<1>3. /\ file \in Seq(1 .. MaxBytes) /\ local \in Seq(1 .. MaxBytes)
      /\ Len(file) \in Nat /\ Len(local) \in Nat
  BY <1>1 DEF TypeOK
<1>4. Numbered(file, 0) /\ Numbered(local, 0 + Len(file))
  BY <1>1, <1>3 DEF OnTheirWay
<1>5. Numbered(file', 0) /\ Len(file') = Len(file) + Len(local)
  BY <1>2, <1>3, <1>4, NumberedConcat
<1>6. file' \in Seq(1 .. MaxBytes) /\ local' \in Seq(1 .. MaxBytes) /\ Len(local') = 0
  BY <1>2, <1>3, ConcatProperties
<1>7. TypeOK'
  BY <1>1, <1>2, <1>6 DEF TypeOK, ring
<1>8. OnTheirWay'
  <2>1. Ring' = Ring
    BY <1>2 DEF Ring, ring
  <2>2. Taken(Ring)' = Len(file') + Len(local')
    BY <1>1, <1>3, <1>5, <1>6, <2>1 DEF OnTheirWay
  <2>3. Numbered(local', Len(file'))
    BY <1>2 DEF Numbered
  <2> QED BY <1>1, <1>2, <1>5, <2>1, <2>2, <2>3 DEF OnTheirWay
<1>9. GoesLast' /\ CompleteAfterWait'
  BY <1>1, <1>2, <1>3, <1>5 DEF GoesLast, CompleteAfterWait, TypeOK
<1> QED BY <1>7, <1>8, <1>9 DEF IInv

\* An empty ring: everything is in the file.
LEMMA NothingLeft ==
  ASSUME IInv, thread = "top", readPos = writePos
  PROVE  Len(file) = accepted
<1>1. PICK r : r = Ring
  OBVIOUS
<1>2. /\ r.size = size /\ r.readPos = readPos /\ r.writePos = writePos /\ r.accepted = accepted
  BY <1>1 DEF Ring
<1>3. IsRing(r) /\ Taken(r) = Len(file) + Len(local) /\ local = << >>
  BY <1>1 DEF IInv, OnTheirWay
<1>4. BufferLen(r) = Gap(size, readPos, readPos)
  BY <1>2, Unfolded
<1>5. Gap(size, readPos, readPos) = 0
  <2>1. /\ size \in Nat \ {0} /\ readPos \in 0 .. size - 1
    BY <1>2, <1>3 DEF IsRing
  <2>2. PICK o : o = 0
    OBVIOUS
  <2>3. o \in 0 .. size - 1 /\ At(size, readPos, o) = readPos
    BY <2>1, <2>2, AtStart
  <2>4. Gap(size, At(size, readPos, o), At(size, readPos, o)) = o - o
    BY <2>1, <2>3, Between
  <2> QED BY <2>2, <2>3, <2>4
<1>6. Taken(r) = accepted - 0
  BY <1>2, <1>4, <1>5 DEF Taken
<1>7. accepted \in Nat /\ Len(file) \in Nat /\ Len(local) = 0
  BY <1>3 DEF IInv, TypeOK
<1> QED BY <1>3, <1>6, <1>7

LEMMA FirstOf ==
  ASSUME NEW S, NEW v \in Seq(S), NEW n \in Nat, n <= Len(v)
  PROVE  /\ SubSeq(v, 1, n) \in Seq(S) /\ Len(SubSeq(v, 1, n)) = n
         /\ \A i \in 1 .. n : SubSeq(v, 1, n)[i] = v[i]
OBVIOUS

\* Bytes that are taken are the next ones, and the rest follows them.
LEMMA TakeKeeps ==
  ASSUME NEW r, IsRing(r), NEW n \in Nat, n <= BufferLen(r),
         NEW q, q.size = r.size, q.accepted = r.accepted, q.writePos = r.writePos,
         q.readPos = (r.readPos + n) % r.size,
         q.buffer = [i \in DOMAIN r.buffer |->
                       IF (i - r.readPos) % r.size < n THEN 0 ELSE r.buffer[i]],
         NEW x, x = SubSeq(Content(r), 1, n)
  PROVE  /\ IsRing(q) /\ Taken(q) = Taken(r) + n
         /\ Numbered(x, Taken(r)) /\ Len(x) = n
         /\ x \in Seq(1 .. r.accepted)
<1>1. PICK l, s, p, w, c, d : /\ l = BufferLen(r) /\ s = r.size /\ p = r.readPos
                              /\ w = r.writePos /\ c = r.accepted /\ d = r.buffer
  OBVIOUS
<1>2. HasBytes(r, l) /\ Taken(r) = c - l
  BY <1>1, RingHas
<1>3. /\ s \in Nat \ {0} /\ c \in Nat /\ p \in 0 .. s - 1
      /\ l \in 0 .. s - 1 /\ l <= c /\ w = At(s, p, l)
      /\ d \in [0 .. s - 1 -> 0 .. c]
      /\ \A i \in 0 .. l - 1 : d[At(s, p, i)] = c - l + i + 1
      /\ n <= l
  BY <1>1, <1>2 DEF HasBytes
<1>4. q.size = s /\ q.accepted = c /\ q.writePos = w
  BY <1>1
<1>5. q.readPos = At(s, p, n)
  BY Zenon, <1>1 DEF At
<1>6. q.buffer = [i \in 0 .. s - 1 |-> IF Gap(s, p, i) < n THEN 0 ELSE d[i]]
  <2>1. DOMAIN d = 0 .. s - 1
    BY <1>3
  <2> QED BY Zenon, <1>1, <2>1 DEF Gap
<1>types. s \in Nat \ {0} /\ p \in 0 .. s - 1
  BY <1>3
<1>7. n \in 0 .. s - 1 /\ q.readPos \in 0 .. s - 1 /\ l - n \in 0 .. s - 1 /\ l - n <= c
  <2>1. n \in 0 .. s - 1 /\ l - n \in 0 .. s - 1 /\ l - n <= c
    BY <1>3
  <2> QED BY <1>types, <1>5, <2>1, Between
<1>8. At(s, q.readPos, l - n) = w
  <2>1. PICK m \in Nat : m = l - n /\ n + m = l /\ n + m < s
    BY <1>3, <1>7
  <2>2. At(s, At(s, p, n), m) = At(s, p, n + m)
    BY <1>3, <2>1, Onward
  <2> QED BY <1>3, <1>5, <2>1, <2>2
<1>9. q.buffer \in [0 .. s - 1 -> 0 .. c]
  <2>1. ASSUME NEW i \in 0 .. s - 1  PROVE q.buffer[i] \in 0 .. c
    <3>1. 0 \in 0 .. c /\ d[i] \in 0 .. c
      BY <1>3
    <3>2. q.buffer[i] = 0 \/ q.buffer[i] = d[i]
      BY <1>6
    <3> QED BY <3>1, <3>2
  <2> QED BY <1>6, <2>1
<1>10. ASSUME NEW i \in 0 .. (l - n) - 1
       PROVE  q.buffer[At(s, q.readPos, i)] = c - (l - n) + i + 1
  <2>1. PICK m \in 0 .. l - 1 : m = n + i
    BY <1>3
  <2>2. m \in 0 .. s - 1 /\ i \in Nat /\ n + i < s
    BY <1>3, <2>1
  <2>onward. At(s, At(s, p, n), i) = At(s, p, n + i)
    BY <1>types, <2>2, Onward
  <2>3. At(s, q.readPos, i) = At(s, p, m)
    BY <1>5, <2>1, <2>onward
  <2>4. PICK y \in 0 .. s - 1 : y = At(s, p, m)
    BY <1>3, <2>2, Between
  <2>5. PICK o : o = 0
    OBVIOUS
  <2>6. o \in 0 .. s - 1 /\ At(s, p, o) = p
    BY <1>3, <2>5, AtStart
  <2>7. Gap(s, At(s, p, o), At(s, p, m)) = IF m >= o THEN m - o ELSE m - o + s
    BY <1>types, <2>2, <2>6, Between
  <2>8. Gap(s, p, y) = m
    <3>1. m >= o /\ m - o = m
      BY <2>1, <2>5
    <3> QED BY <2>4, <2>6, <2>7, <3>1
  <2>9. q.buffer[y] = d[y]
    <3>1. ~ (m < n)
      BY <1>3, <2>1, <2>2
    <3> QED BY <1>6, <2>4, <2>8, <3>1
  <2>10. d[y] = c - l + m + 1
    BY <1>3, <2>4
  <2>11. c - l + m + 1 = c - (l - n) + i + 1
    BY <1>3, <2>1, <2>2
  <2> QED BY <2>3, <2>4, <2>9, <2>10, <2>11
<1>11. HasBytes(q, l - n)
  BY <1>3, <1>4, <1>7, <1>8, <1>9, <1>10 DEF HasBytes
<1>12. IsRing(q) /\ Taken(q) = c - (l - n)
  BY <1>4, <1>11, RingOf
<1>13. PICK v : v = Content(r)
  OBVIOUS
<1>14. v = [i \in 1 .. Len(v) |-> (c - l) + i]
  BY <1>2, <1>13 DEF IsRing, Numbered
<1>15. Len(v) = l
  <2>1. v = [i \in 1 .. BufferLen(r) |-> r.buffer[At(r.size, r.readPos, i - 1)]]
    BY <1>13, Unfolded
  <2> QED BY <1>1, <1>3, <2>1
<1>16. x = [i \in 1 .. n |-> (c - l) + i]
  <2>1. ASSUME NEW i \in 1 .. l  PROVE (c - l) + i \in 1 .. c
    BY <1>3
  <2>2. v \in Seq(1 .. c)
    BY <1>3, <1>14, <1>15, <2>1
  <2>3. /\ Len(x) = n /\ x \in Seq(1 .. c)
        /\ \A i \in 1 .. n : x[i] = v[i]
    <3>1. x = SubSeq(v, 1, n) /\ n <= Len(v)
      BY <1>3, <1>13, <1>15
    <3>2. PICK S : S = 1 .. c
      OBVIOUS
    <3>3. v \in Seq(S)
      BY <2>2, <3>2
    <3>4. /\ SubSeq(v, 1, n) \in Seq(S) /\ Len(SubSeq(v, 1, n)) = n
          /\ \A i \in 1 .. n : SubSeq(v, 1, n)[i] = v[i]
      BY Zenon, <3>1, <3>3, FirstOf
    <3> QED BY Zenon, <3>1, <3>2, <3>4
  <2> QED BY <1>3, <1>14, <1>15, <2>3
<1>17. Len(x) = n /\ x \in Seq(1 .. c)
  <2>1. ASSUME NEW i \in 1 .. n  PROVE (c - l) + i \in 1 .. c
    BY <1>3
  <2> QED BY <1>16, <2>1
<1>18. Numbered(x, Taken(r))
  BY <1>2, <1>16, <1>17 DEF Numbered
<1> QED BY <1>1, <1>2, <1>3, <1>12, <1>17, <1>18

LEMMA BeginInv ==
  ASSUME IInv, Begin
  PROVE  IInv'
<1>1. TypeOK /\ OnTheirWay /\ GoesLast /\ CompleteAfterWait
  BY DEF IInv
<1>2. /\ thread = "top" /\ Top
      /\ UNCHANGED <<sphore, finish, file, signals, owner, accepted, promised>>
  BY DEF Begin
<1>3. CASE readPos = writePos
  <2>1. UNCHANGED <<ring, local>>
    BY <1>2, <1>3 DEF Top
  <2>2. \/ finish # "running" /\ thread' = "gone" /\ refcount' = refcount - 1
        \/ finish = "running" /\ thread' = "wait" /\ refcount' = refcount
    BY <1>2, <1>3 DEF Top
  <2>3. Len(file) = accepted
    BY <1>2, <1>3, NothingLeft
  <2>4. refcount' \in 0 .. 2 /\ CompleteAfterWait'
    BY <1>1, <1>2, <2>2 DEF CompleteAfterWait, TypeOK
  <2>5. TypeOK'
    BY <1>1, <1>2, <2>1, <2>2, <2>4, TypesStay DEF TypeOK
  <2>6. OnTheirWay'
    BY <1>2, <2>1, BytesStay
  <2>7. GoesLast'
    BY <1>1, <1>2, <2>2, <2>3 DEF GoesLast, TypeOK
  <2> QED BY <2>4, <2>5, <2>6, <2>7 DEF IInv
<1>4. CASE readPos # writePos
  <2>1. PICK r, q : r = Ring /\ q = Ring'
    OBVIOUS
  <2>2. PICK n : n = IF Len(Content(r)) < LocalSize THEN Len(Content(r)) ELSE LocalSize
    OBVIOUS
  <2>3. /\ local' = SubSeq(Content(r), 1, n)
        /\ readPos' = (readPos + n) % size
        /\ buffer' = [i \in DOMAIN buffer |->
                        IF (i - readPos) % size < n THEN 0 ELSE buffer[i]]
        /\ thread' = "io" /\ UNCHANGED <<size, writePos, refcount>>
    BY <1>2, <1>4, <2>1, <2>2 DEF Top
  <2>4. /\ r.buffer = buffer /\ r.size = size /\ r.readPos = readPos
        /\ r.writePos = writePos /\ r.accepted = accepted
    BY <2>1 DEF Ring
  <2>5. /\ q.buffer = buffer' /\ q.size = size' /\ q.readPos = readPos'
        /\ q.writePos = writePos' /\ q.accepted = accepted'
    BY <2>1 DEF Ring
  <2>6. IsRing(r) /\ Taken(r) = Len(file) + Len(local) /\ local = << >>
    BY <1>1, <1>2, <2>1 DEF OnTheirWay
  <2>7. n \in Nat /\ n <= BufferLen(r)
    <3>1. BufferLen(r) \in Nat
      BY <2>6, RingHas DEF HasBytes
    <3>2. Len(Content(r)) = BufferLen(r)
      <4>1. PICK v : v = Content(r)
        OBVIOUS
      <4>2. v = [i \in 1 .. BufferLen(r) |-> r.buffer[At(r.size, r.readPos, i - 1)]]
        BY <4>1, Unfolded
      <4> QED BY <3>1, <4>1, <4>2
    <3> QED BY <2>2, <3>1, <3>2, AioAssumption
  <2>8. /\ IsRing(q) /\ Taken(q) = Taken(r) + n
        /\ Numbered(local', Taken(r)) /\ Len(local') = n
        /\ local' \in Seq(1 .. r.accepted)
    <3>1. /\ q.size = r.size /\ q.accepted = r.accepted /\ q.writePos = r.writePos
          /\ q.readPos = (r.readPos + n) % r.size
          /\ q.buffer = [i \in DOMAIN r.buffer |->
                           IF (i - r.readPos) % r.size < n THEN 0 ELSE r.buffer[i]]
      BY Zenon, <1>2, <2>3, <2>4, <2>5
    <3> QED BY <2>3, <2>6, <2>7, <3>1, TakeKeeps
  <2>9. Len(local) = 0 /\ Len(file) \in Nat /\ Taken(r) = Len(file)
    BY <1>1, <2>6 DEF TypeOK
  <2>10. accepted \in 0 .. MaxBytes /\ MaxBytes \in Nat
    BY <1>1, AioAssumption DEF TypeOK
  <2>11. TypeOK'
    <3>1. /\ size' \in Nat \ {0} /\ buffer' \in [0 .. size' - 1 -> 0 .. MaxBytes]
          /\ readPos' \in 0 .. size' - 1 /\ writePos' \in 0 .. size' - 1
      BY <1>2, <2>5, <2>8, <2>10, RingTypes
    <3>2. local' \in Seq(1 .. MaxBytes)
      <4>1. 1 .. accepted \subseteq 1 .. MaxBytes
        BY <2>10
      <4>2. PICK y : y = local'
        OBVIOUS
      <4>3. y \in Seq(1 .. accepted)
        BY <2>4, <2>8, <4>2
      <4>4. y \in Seq(1 .. MaxBytes)
        BY <4>1, <4>3, SeqWider
      <4> QED BY <4>2, <4>4
    <3> QED BY <1>1, <1>2, <2>3, <3>1, <3>2 DEF TypeOK
  <2>12. OnTheirWay'
    <3>1. IsRing(Ring)' /\ Taken(Ring)' = Len(file)' + Len(local)'
      BY <1>2, <2>1, <2>8, <2>9
    <3>2. Numbered(file, 0)' /\ Numbered(local, Len(file))'
      BY <1>1, <1>2, <2>8, <2>9 DEF OnTheirWay
    <3> QED BY <2>3, <3>1, <3>2 DEF OnTheirWay
  <2>13. GoesLast' /\ CompleteAfterWait'
    BY <1>1, <1>2, <2>3 DEF GoesLast, CompleteAfterWait
  <2> QED BY <2>11, <2>12, <2>13 DEF IInv
<1> QED BY <1>3, <1>4

-----------------------------------------------------------------------------
LEMMA NextInv == IInv /\ [Next]_vars => IInv'
<1> SUFFICES ASSUME IInv, [Next]_vars  PROVE IInv'
  OBVIOUS
<1>1. ASSUME NEW w \in Writers, Signal(w)  PROVE IInv'
  BY <1>1, SignalInv
<1>2. ASSUME NEW w \in Writers, NEW line \in Lines, Write(w, line)  PROVE IInv'
  BY <1>2, WriteInv
<1>3. CASE AioClose \/ AioWait \/ Join \/ AioFree
  BY <1>3, AioCloseInv, AioWaitInv, JoinInv, AioFreeInv
<1>4. CASE AioThread
  BY <1>4, BeginInv, WokenInv, WriteFileInv DEF AioThread
<1>5. CASE UNCHANGED vars
  <2>1. IInv /\ UNCHANGED <<buffer, size, readPos, writePos, sphore, finish, refcount, thread,
                            local, file, signals, owner, accepted, promised>>
    BY <1>5 DEF vars, ring
  <2>2. UNCHANGED <<ring, local, file, accepted>> /\ thread' = thread
    BY <2>1 DEF ring
  <2>3. OnTheirWay'
    BY <2>2, BytesStay
  <2>4. TypeOK' /\ GoesLast' /\ CompleteAfterWait'
    BY <2>1 DEF IInv, TypeOK, GoesLast, CompleteAfterWait
  <2> QED BY <2>3, <2>4 DEF IInv
<1> QED BY <1>1, <1>2, <1>3, <1>4, <1>5 DEF Next

\* The bytes of a ring are numbered on from those taken out of it, in every
\* state: whatever was written meanwhile, grown or wrapped around.
THEOREM AioInvariant == Spec => []IInv
<1>1. Init => IInv
  BY InitInv
<1>2. IInv /\ [Next]_vars => IInv'
  BY NextInv
<1> QED BY <1>1, <1>2, PTL DEF Spec

LEMMA InvInOrder == IInv => InOrder
<1> SUFFICES ASSUME IInv  PROVE InOrder
  OBVIOUS
<1>1. PICK r, x : r = Ring /\ x = Content(Ring)
  OBVIOUS
<1>2. /\ IsRing(r) /\ Taken(r) = Len(file) + Len(local) /\ r.accepted = accepted
      /\ Numbered(file, 0) /\ Numbered(local, Len(file))
  BY <1>1 DEF IInv, OnTheirWay, Ring
<1>3. PICK l : l = BufferLen(r)
  OBVIOUS
<1>4. l \in Nat /\ l <= accepted /\ accepted \in Nat /\ accepted - l = Len(file) + Len(local)
  BY <1>2, <1>3, RingHas DEF HasBytes
<1>5. Len(x) = l
  <2>1. x = [i \in 1 .. l |-> r.buffer[At(r.size, r.readPos, i - 1)]]
    BY <1>1, <1>3, Unfolded
  <2> QED BY <1>4, <2>1
<1>6. Numbered(x, Len(file) + Len(local))
  <2>1. Numbered(Content(r), Taken(r))
    BY <1>2 DEF IsRing
  <2> QED BY Zenon, <1>1, <1>2, <2>1
<1>7. /\ file \in Seq(Int) /\ local \in Seq(Int) /\ Len(file) \in Nat /\ Len(local) \in Nat
  <2>1. file \in Seq(1 .. MaxBytes) /\ local \in Seq(1 .. MaxBytes)
    BY DEF IInv, TypeOK
  <2>2. PICK S \in SUBSET Int : S = 1 .. MaxBytes
    BY AioAssumption
  <2>3. file \in Seq(Int) /\ local \in Seq(Int)
    BY <2>1, <2>2, SeqWider
  <2> QED BY <2>1, <2>3
<1>8. x \in Seq(Int)
  <2>1. x = [i \in 1 .. l |-> Len(file) + Len(local) + i]
    BY <1>5, <1>6 DEF Numbered
  <2>2. \A i \in 1 .. l : Len(file) + Len(local) + i \in Int
    BY <1>7
  <2> QED BY <1>4, <2>1, <2>2
<1>9. PICK y : y = file \o local
  OBVIOUS
<1>10. y \in Seq(Int) /\ Numbered(y, 0) /\ Len(y) = Len(file) + Len(local)
  <2>1. Numbered(local, 0 + Len(file))
    BY <1>2, <1>7
  <2> QED BY <1>2, <1>7, <1>9, <2>1, NumberedConcat, ConcatProperties
<1>11. PICK z : z = y \o x
  OBVIOUS
<1>12. Numbered(z, 0) /\ Len(z) = Len(y) + Len(x)
  <2>1. Numbered(x, 0 + Len(y))
    BY <1>6, <1>7, <1>10
  <2> QED BY <1>8, <1>10, <1>11, <2>1, NumberedConcat
<1>13. Len(z) = accepted
  BY <1>4, <1>5, <1>7, <1>10, <1>12
<1>14. z = [i \in 1 .. accepted |-> i]
  BY <1>4, <1>12, <1>13 DEF Numbered
<1> QED BY <1>1, <1>9, <1>11, <1>14 DEF InOrder

\* No byte is lost, repeated or moved between the callers and the file, and
\* after aio_wait everything is there.
THEOREM BytesInOrder == Spec => []WrittenInOrder
<1>1. IInv => WrittenInOrder
  BY InvInOrder DEF IInv, WrittenInOrder
<1> QED BY <1>1, AioInvariant, PTL

-----------------------------------------------------------------------------
(* The ring buffer: sizes.                                                  *)

LEMMA CapacityPositive == Capacity \in Nat \ {0}
<1>1. PICK m : m = ItemSize /\ m \in Nat \ {0} /\ Bytes \in Nat /\ Bytes >= m
  BY RingAssumption
<1>2. PICK q : q = Bytes \div m
  OBVIOUS
<1>3. q \in Nat /\ Bytes % m \in 0 .. m - 1 /\ Bytes = m * q + (Bytes % m)
  BY <1>1, <1>2, DivMod
<1>4. q # 0
  <2> SUFFICES ASSUME q = 0  PROVE FALSE
    OBVIOUS
  <2>1. m * q = 0
    BY <1>1
  <2> QED BY <1>1, <1>3, <2>1
<1> QED BY <1>1, <1>2, <1>3, <1>4 DEF Capacity

LEMMA WantedPositive ==
  ASSUME NEW len \in Nat
  PROVE  WantedSize(len) \in Nat \ {0}
<1>1. PICK m : m = ItemSize /\ m \in Nat \ {0}
  BY RingAssumption
<1>2. PICK n \in Nat : n = len + m + m - 1 /\ n >= m
  BY <1>1
<1>3. PICK q : q = n \div m
  OBVIOUS
<1>4. q \in Nat /\ n % m \in 0 .. m - 1 /\ n = m * q + (n % m)
  BY <1>1, <1>2, <1>3, DivMod
<1>5. q # 0
  <2> SUFFICES ASSUME q = 0  PROVE FALSE
    OBVIOUS
  <2>1. m * q = 0
    BY <1>1
  <2> QED BY <1>1, <1>2, <1>4, <2>1
<1> QED BY <1>1, <1>2, <1>3, <1>4, <1>5 DEF WantedSize

-----------------------------------------------------------------------------
(* The list of blocks.                                                      *)

\* What the fields of a buffer are.
LEMMA TypedIs ==
  ASSUME NEW b, Typed(b)
  PROVE  /\ Blocks(b) \subseteq 0 .. Capacity - 1
         /\ b.produce \in Blocks(b) /\ b.consume \in Blocks(b) /\ b.last \in Blocks(b)
         /\ b.recycle \in BOOLEAN
         /\ \A o \in Blocks(b) :
              /\ b.mem[o].prev \in 0 .. Capacity /\ b.mem[o].next \in 0 .. Capacity
              /\ b.mem[o].free \in BOOLEAN /\ b.mem[o].size \in 1 .. Capacity
              /\ b.mem[o].item \in Values \cup {"none"}
              /\ b.mem[o] = [prev |-> b.mem[o].prev, next |-> b.mem[o].next,
                             free |-> b.mem[o].free, size |-> b.mem[o].size,
                             item |-> b.mem[o].item]
<1>1. Capacity \in Nat \ {0}
  BY CapacityPositive
<1>2. ASSUME NEW o \in Blocks(b)
      PROVE  /\ b.mem[o].prev \in 0 .. Capacity /\ b.mem[o].next \in 0 .. Capacity
             /\ b.mem[o].free \in BOOLEAN /\ b.mem[o].size \in 1 .. Capacity
             /\ b.mem[o].item \in Values \cup {"none"}
             /\ b.mem[o] = [prev |-> b.mem[o].prev, next |-> b.mem[o].next,
                            free |-> b.mem[o].free, size |-> b.mem[o].size,
                            item |-> b.mem[o].item]
  <2>1. b.mem[o] \in [prev : (0 .. Capacity - 1) \cup {Capacity},
                      next : (0 .. Capacity - 1) \cup {Capacity},
                      free : BOOLEAN, size : 1 .. Capacity, item : Values \cup {"none"}]
    BY <1>2 DEF Typed, Nil
  <2> QED BY <1>1, <2>1
<1> QED BY <1>1, <1>2 DEF Typed

\* A buffer from its fields.
LEMMA TypedFrom ==
  ASSUME NEW S \in SUBSET (0 .. Capacity - 1), NEW p \in S, NEW c \in S, NEW l \in S,
         NEW r \in BOOLEAN, NEW m, m = [o \in S |-> m[o]],
         \A o \in S : /\ m[o].prev \in 0 .. Capacity /\ m[o].next \in 0 .. Capacity
                      /\ m[o].free \in BOOLEAN /\ m[o].size \in 1 .. Capacity
                      /\ m[o].item \in Values \cup {"none"}
                      /\ m[o] = [prev |-> m[o].prev, next |-> m[o].next, free |-> m[o].free,
                                 size |-> m[o].size, item |-> m[o].item]
  PROVE  Typed([mem |-> m, produce |-> p, consume |-> c, last |-> l, recycle |-> r])
<1> DEFINE b == [mem |-> m, produce |-> p, consume |-> c, last |-> l, recycle |-> r]
<1>1. Capacity \in Nat \ {0}
  BY CapacityPositive
<1>2. DOMAIN m = S
  OBVIOUS
<1>3. \A o \in S : m[o] \in [prev : (0 .. Capacity - 1) \cup {Capacity},
                             next : (0 .. Capacity - 1) \cup {Capacity},
                             free : BOOLEAN, size : 1 .. Capacity,
                             item : Values \cup {"none"}]
  <2> SUFFICES ASSUME NEW o \in S
               PROVE  m[o] \in [prev : (0 .. Capacity - 1) \cup {Capacity},
                                next : (0 .. Capacity - 1) \cup {Capacity},
                                free : BOOLEAN, size : 1 .. Capacity,
                                item : Values \cup {"none"}]
    OBVIOUS
  <2>1. m[o].prev \in (0 .. Capacity - 1) \cup {Capacity}
    BY <1>1
  <2>2. m[o].next \in (0 .. Capacity - 1) \cup {Capacity}
    BY <1>1
  <2> QED BY <2>1, <2>2
<1>4. b.mem = m /\ b.produce = p /\ b.consume = c /\ b.last = l /\ b.recycle = r
  OBVIOUS
<1>5. b \in [mem : {b.mem}, produce : S, consume : S, last : S, recycle : BOOLEAN]
  OBVIOUS
<1>6. m \in [S -> [prev : (0 .. Capacity - 1) \cup {Capacity},
                   next : (0 .. Capacity - 1) \cup {Capacity},
                   free : BOOLEAN, size : 1 .. Capacity, item : Values \cup {"none"}]]
  BY <1>3
<1> HIDE DEF b
<1>7. Blocks(b) = S
  BY <1>2, <1>4 DEF Blocks
<1>8. Typed(b)
  BY Zenon, <1>4, <1>5, <1>6, <1>7 DEF Typed, Nil
<1> QED BY <1>8 DEF b


\* The fields of the block at o.
Prv(b, o) == b.mem[o].prev
Nxt(b, o) == b.mem[o].next
Siz(b, o) == b.mem[o].size
IsFree(b, o) == b.mem[o].free

\* Typed and Tiled, without the records.
Shape(b) ==
  /\ 0 \in Blocks(b) /\ Prv(b, 0) = Capacity
  /\ b.produce \in Blocks(b) /\ b.consume \in Blocks(b) /\ b.last \in Blocks(b)
  /\ \A o \in Blocks(b) :
       /\ o \in 0 .. Capacity - 1 /\ Siz(b, o) \in 1 .. Capacity
       /\ Nxt(b, o) \in 0 .. Capacity /\ Nxt(b, o) = o + Siz(b, o)
       /\ Prv(b, o) \in 0 .. Capacity /\ IsFree(b, o) \in BOOLEAN
       /\ o = b.last => Nxt(b, o) = Capacity
       /\ o # b.last => Nxt(b, o) \in Blocks(b) /\ Prv(b, Nxt(b, o)) = o
       /\ o # 0 => Prv(b, o) \in Blocks(b) /\ Nxt(b, Prv(b, o)) = o
  /\ \A o, p \in Blocks(b) : o < p => Nxt(b, o) <= p

LEMMA ShapeOf ==
  ASSUME NEW b, Typed(b), Tiled(b)
  PROVE  Shape(b)
<1>1. First = 0 /\ Nil = Capacity
  BY DEF First, Nil
<1>2. /\ Blocks(b) \subseteq 0 .. Capacity - 1
      /\ b.produce \in Blocks(b) /\ b.consume \in Blocks(b) /\ b.last \in Blocks(b)
      /\ \A o \in Blocks(b) :
           /\ Prv(b, o) \in 0 .. Capacity /\ Nxt(b, o) \in 0 .. Capacity
           /\ IsFree(b, o) \in BOOLEAN /\ Siz(b, o) \in 1 .. Capacity
  BY TypedIs DEF Prv, Nxt, IsFree, Siz
<1>3. /\ 0 \in Blocks(b) /\ Prv(b, 0) = Capacity
      /\ \A o \in Blocks(b) :
           /\ Nxt(b, o) = o + Siz(b, o)
           /\ IF o = b.last THEN Nxt(b, o) = Capacity
              ELSE Nxt(b, o) \in Blocks(b) /\ Prv(b, Nxt(b, o)) = o
      /\ \A o \in Blocks(b) \ {0} : Prv(b, o) \in Blocks(b) /\ Nxt(b, Prv(b, o)) = o
      /\ \A o, p \in Blocks(b) : o < p => Nxt(b, o) <= p
  BY Zenon, <1>1 DEF Tiled, Prv, Nxt, IsFree, Siz
<1> QED BY <1>2, <1>3 DEF Shape

LEMMA TiledOf ==
  ASSUME NEW b, Shape(b)
  PROVE  Tiled(b)
<1>1. First = 0 /\ Nil = Capacity
  BY DEF First, Nil
<1>2. /\ 0 \in Blocks(b) /\ Prv(b, 0) = Capacity
      /\ \A o \in Blocks(b) :
           /\ Nxt(b, o) = o + Siz(b, o)
           /\ IF o = b.last THEN Nxt(b, o) = Capacity
              ELSE Nxt(b, o) \in Blocks(b) /\ Prv(b, Nxt(b, o)) = o
      /\ \A o \in Blocks(b) \ {0} : Prv(b, o) \in Blocks(b) /\ Nxt(b, Prv(b, o)) = o
      /\ \A o, p \in Blocks(b) : o < p => Nxt(b, o) <= p
  BY DEF Shape
<1> QED BY Zenon, <1>1, <1>2 DEF Tiled, Prv, Nxt, IsFree, Siz

\* A block ends where the next one begins.
LEMMA LastIsLast ==
  ASSUME NEW b, Shape(b), NEW o \in Blocks(b)
  PROVE  /\ o <= b.last /\ o < Nxt(b, o)
         /\ Nxt(b, o) \in Blocks(b) <=> o # b.last
         /\ Capacity \notin Blocks(b) /\ Capacity \in Nat \ {0}
<1>1. Capacity \in Nat \ {0}
  BY CapacityPositive
<1>2. /\ b.last \in 0 .. Capacity - 1 /\ o \in 0 .. Capacity - 1
      /\ Siz(b, o) \in 1 .. Capacity /\ Nxt(b, o) = o + Siz(b, o)
      /\ o = b.last => Nxt(b, o) = Capacity
      /\ o # b.last => Nxt(b, o) \in Blocks(b)
      /\ b.last < o => Nxt(b, b.last) <= o
      /\ Nxt(b, b.last) = Capacity
  BY DEF Shape
<1>3. Capacity \notin Blocks(b)
  BY <1>1 DEF Shape
<1> QED BY <1>1, <1>2, <1>3

\* The blocks of the list that MergeBack leaves.
Relinked(r, i, t, n, z) ==
  CASE i = t -> [r EXCEPT !.size = @ + z, !.next = n]
    [] i = n -> [r EXCEPT !.prev = t]
    [] OTHER -> r

LEMMA MergedBlock ==
  ASSUME NEW r, r = [prev |-> r.prev, next |-> r.next, free |-> r.free, size |-> r.size,
                     item |-> r.item],
         NEW i, NEW t, NEW n, n # t, NEW z, NEW v,
         v = Relinked(r, i, t, n, z)
  PROVE  /\ v.free = r.free /\ v.item = r.item
         /\ v.next = IF i = t THEN n ELSE r.next
         /\ v.size = IF i = t THEN r.size + z ELSE r.size
         /\ v.prev = IF i = n THEN t ELSE r.prev
         /\ v = [prev |-> v.prev, next |-> v.next, free |-> v.free, size |-> v.size,
                 item |-> v.item]
<1>1. CASE i = t
  <2>1. v = [prev |-> r.prev, next |-> n, free |-> r.free, size |-> r.size + z,
             item |-> r.item]
    BY <1>1 DEF Relinked
  <2> QED BY <1>1, <2>1
<1>2. CASE i # t /\ i = n
  <2>1. v = [prev |-> t, next |-> r.next, free |-> r.free, size |-> r.size, item |-> r.item]
    BY <1>2 DEF Relinked
  <2> QED BY <1>2, <2>1
<1>3. CASE i # t /\ i # n
  BY <1>3 DEF Relinked
<1> QED BY <1>1, <1>2, <1>3

\* Shape is about the list and the pointers only.
LEMMA SameShape ==
  ASSUME NEW b, Shape(b), NEW d, Blocks(d) = Blocks(b),
         d.produce \in Blocks(b), d.consume \in Blocks(b), d.last = b.last,
         \A i \in Blocks(b) : /\ Siz(d, i) = Siz(b, i) /\ Nxt(d, i) = Nxt(b, i)
                             /\ Prv(d, i) = Prv(b, i) /\ IsFree(d, i) \in BOOLEAN
  PROVE  Shape(d)
<1>1. 0 \in Blocks(d) /\ Prv(d, 0) = Capacity /\ d.last \in Blocks(d)
  BY DEF Shape
<1>2. ASSUME NEW o \in Blocks(d)
      PROVE  /\ o \in 0 .. Capacity - 1 /\ Siz(d, o) \in 1 .. Capacity
             /\ Nxt(d, o) \in 0 .. Capacity /\ Nxt(d, o) = o + Siz(d, o)
             /\ Prv(d, o) \in 0 .. Capacity
             /\ o = d.last => Nxt(d, o) = Capacity
             /\ o # d.last => Nxt(d, o) \in Blocks(d) /\ Prv(d, Nxt(d, o)) = o
             /\ o # 0 => Prv(d, o) \in Blocks(d) /\ Nxt(d, Prv(d, o)) = o
  <2>1. /\ o \in Blocks(b) /\ Siz(d, o) = Siz(b, o) /\ Nxt(d, o) = Nxt(b, o)
        /\ Prv(d, o) = Prv(b, o)
    OBVIOUS
  <2>2. o # d.last => Nxt(d, o) \in Blocks(d) /\ Prv(d, Nxt(d, o)) = o
    BY <2>1 DEF Shape
  <2>3. o # 0 => Prv(d, o) \in Blocks(d) /\ Nxt(d, Prv(d, o)) = o
    BY <2>1 DEF Shape
  <2> QED BY <2>1, <2>2, <2>3 DEF Shape
<1>3. ASSUME NEW o \in Blocks(d), NEW p \in Blocks(d), o < p  PROVE Nxt(d, o) <= p
  BY <1>3 DEF Shape
<1> QED BY <1>1, <1>2, <1>3 DEF Shape

\* What MergeBack does when it merges.
LEMMA MergeEffect ==
  ASSUME NEW b, Typed(b), Shape(b), NEW o \in Blocks(b), NEW q, q = MergeTarget(b, o), q # o,
         NEW d, d = MergeBack(b, o)
  PROVE  /\ q \in Blocks(b) /\ q < o /\ Nxt(b, q) = o /\ Prv(b, o) = q /\ o # 0
         /\ IsFree(b, o) /\ IsFree(b, q)
         /\ Typed(d) /\ Blocks(d) = Blocks(b) \ {o}
         /\ d.produce = IF b.produce = o THEN q ELSE b.produce
         /\ d.consume = IF b.consume = o THEN q ELSE b.consume
         /\ d.last = IF b.last = o THEN q ELSE b.last
         /\ d.recycle = b.recycle
         /\ \A i \in Blocks(d) :
              /\ IsFree(d, i) = IsFree(b, i) /\ d.mem[i].item = b.mem[i].item
              /\ Nxt(d, i) = IF i = q THEN Nxt(b, o) ELSE Nxt(b, i)
              /\ Siz(d, i) = IF i = q THEN Siz(b, q) + Siz(b, o) ELSE Siz(b, i)
              /\ Prv(d, i) = IF i = Nxt(b, o) THEN q ELSE Prv(b, i)
<1>1. q = Prv(b, o) /\ IsFree(b, o) /\ IsFree(b, q) /\ Prv(b, o) # Capacity
  BY DEF MergeTarget, Nil, Prv, IsFree
<1>2. o # 0 /\ q \in Blocks(b) /\ Nxt(b, q) = o
  BY <1>1 DEF Shape
<1>3. /\ q < o /\ q \in Nat /\ o \in Nat /\ Capacity \in Nat
      /\ Nxt(b, o) # q /\ Nxt(b, o) > o /\ Nxt(b, o) \in Nat
      /\ Siz(b, q) + Siz(b, o) \in 1 .. Capacity
  BY <1>2, CapacityPositive DEF Shape
<1> DEFINE n == b.mem[o].next
           t == MergeTarget(b, o)
           S == (DOMAIN b.mem) \ {o}
           Moved(pointer) == IF pointer = o THEN t ELSE pointer
           e(i) == CASE i = t -> [b.mem[i] EXCEPT !.size = @ + b.mem[o].size, !.next = n]
                     [] i = n -> [b.mem[i] EXCEPT !.prev = t]
                     [] OTHER -> b.mem[i]
           m == [i \in S |-> e(i)]
<1>4. d = [mem |-> m, produce |-> Moved(b.produce), consume |-> Moved(b.consume),
           last |-> Moved(b.last), recycle |-> b.recycle]
  BY Zenon DEF MergeBack
<1>5. S = Blocks(b) \ {o} /\ t = q
  BY DEF Blocks
<1>6. n = Nxt(b, o)
  BY DEF Nxt
<1>7. ASSUME NEW i \in S
      PROVE  /\ m[i].free = IsFree(b, i) /\ m[i].item = b.mem[i].item
             /\ m[i].next = IF i = q THEN n ELSE Nxt(b, i)
             /\ m[i].size = IF i = q THEN Siz(b, q) + Siz(b, o) ELSE Siz(b, i)
             /\ m[i].prev = IF i = n THEN q ELSE Prv(b, i)
             /\ m[i] = [prev |-> m[i].prev, next |-> m[i].next, free |-> m[i].free,
                        size |-> m[i].size, item |-> m[i].item]
  <2>1. PICK r : r = b.mem[i] /\ r = [prev |-> r.prev, next |-> r.next, free |-> r.free,
                                      size |-> r.size, item |-> r.item]
    BY <1>5, TypedIs
  <2> DEFINE v == e(i)
  <2> HIDE DEF e
  <2>2. m[i] = v
    OBVIOUS
  <2> USE DEF e
  <2>3. v = Relinked(r, i, q, n, b.mem[o].size)
    BY Zenon, <1>5, <2>1 DEF Relinked
  <2> HIDE DEF m, v, n, e
  <2>4. n # q
    BY <1>3, <1>6
  <2>5. /\ v.free = r.free /\ v.item = r.item
        /\ v.next = IF i = q THEN n ELSE r.next
        /\ v.size = IF i = q THEN r.size + b.mem[o].size ELSE r.size
        /\ v.prev = IF i = n THEN q ELSE r.prev
        /\ v = [prev |-> v.prev, next |-> v.next, free |-> v.free, size |-> v.size,
                item |-> v.item]
    BY <2>1, <2>3, <2>4, MergedBlock
  <2>6. /\ r.free = IsFree(b, i) /\ r.next = Nxt(b, i) /\ r.size = Siz(b, i)
        /\ r.prev = Prv(b, i) /\ r.item = b.mem[i].item /\ b.mem[o].size = Siz(b, o)
        /\ i = q => Siz(b, i) = Siz(b, q)
    BY <2>1 DEF IsFree, Nxt, Siz, Prv
  <2>7. PICK w : w = m[i] /\ w = v
    BY <2>2
  <2> HIDE DEF v
  <2> QED BY <2>5, <2>6, <2>7
<1> HIDE DEF e
<1>8. m = [i \in S |-> m[i]] /\ S = DOMAIN m
  OBVIOUS
<1> HIDE DEF m, S, n, t
<1>9. /\ S \in SUBSET (0 .. Capacity - 1) /\ q \in S
      /\ Moved(b.produce) \in S /\ Moved(b.consume) \in S /\ Moved(b.last) \in S
      /\ b.recycle \in BOOLEAN
  BY <1>2, <1>3, <1>5, TypedIs
<1>10. ASSUME NEW i \in S
       PROVE  /\ m[i].prev \in 0 .. Capacity /\ m[i].next \in 0 .. Capacity
              /\ m[i].free \in BOOLEAN /\ m[i].size \in 1 .. Capacity
              /\ m[i].item \in Values \cup {"none"}
  <2>1. i \in Blocks(b) /\ b.mem[i].item \in Values \cup {"none"}
    BY <1>5, TypedIs
  <2>2. q \in 0 .. Capacity /\ n \in 0 .. Capacity
    BY <1>2, <1>3, <1>6 DEF Shape
  <2>3. /\ Prv(b, i) \in 0 .. Capacity /\ Nxt(b, i) \in 0 .. Capacity
        /\ IsFree(b, i) \in BOOLEAN /\ Siz(b, i) \in 1 .. Capacity
    BY <2>1 DEF Shape
  <2> QED BY <1>3, <1>7, <2>1, <2>2, <2>3
<1> HIDE DEF Moved
<1>11. Typed(d)
  <2>1. \A i \in S : /\ m[i].prev \in 0 .. Capacity /\ m[i].next \in 0 .. Capacity
                      /\ m[i].free \in BOOLEAN /\ m[i].size \in 1 .. Capacity
                      /\ m[i].item \in Values \cup {"none"}
                      /\ m[i] = [prev |-> m[i].prev, next |-> m[i].next, free |-> m[i].free,
                                 size |-> m[i].size, item |-> m[i].item]
    BY <1>7, <1>10
  <2>2. m = [i \in S |-> m[i]]
    BY <1>8
  <2>3. Typed([mem |-> m, produce |-> Moved(b.produce), consume |-> Moved(b.consume),
               last |-> Moved(b.last), recycle |-> b.recycle])
    BY Zenon, <1>9, <2>1, <2>2, TypedFrom
  <2> QED BY <1>4, <2>3
<1>12. /\ d.mem = m /\ d.produce = Moved(b.produce) /\ d.consume = Moved(b.consume)
       /\ d.last = Moved(b.last) /\ d.recycle = b.recycle
  BY <1>4
<1>13. Blocks(d) = S
  BY <1>8, <1>12 DEF Blocks
<1>14. ASSUME NEW i \in Blocks(d)
       PROVE  /\ IsFree(d, i) = IsFree(b, i) /\ d.mem[i].item = b.mem[i].item
              /\ Nxt(d, i) = IF i = q THEN Nxt(b, o) ELSE Nxt(b, i)
              /\ Siz(d, i) = IF i = q THEN Siz(b, q) + Siz(b, o) ELSE Siz(b, i)
              /\ Prv(d, i) = IF i = Nxt(b, o) THEN q ELSE Prv(b, i)
  <2>1. /\ m[i].free = IsFree(b, i) /\ m[i].item = b.mem[i].item
        /\ m[i].next = IF i = q THEN n ELSE Nxt(b, i)
        /\ m[i].size = IF i = q THEN Siz(b, q) + Siz(b, o) ELSE Siz(b, i)
        /\ m[i].prev = IF i = n THEN q ELSE Prv(b, i)
    BY <1>7, <1>13
  <2>2. /\ IsFree(d, i) = m[i].free /\ Nxt(d, i) = m[i].next /\ Siz(d, i) = m[i].size
        /\ Prv(d, i) = m[i].prev /\ d.mem[i] = m[i]
    BY <1>12 DEF IsFree, Nxt, Siz, Prv
  <2> QED BY <1>6, <2>1, <2>2
<1> QED BY <1>1, <1>2, <1>3, <1>5, <1>11, <1>12, <1>13, <1>14 DEF Moved

LEMMA MergeShape ==
  ASSUME NEW b, Typed(b), Shape(b), NEW o \in Blocks(b), NEW q, q = MergeTarget(b, o), q # o,
         NEW d, d = MergeBack(b, o)
  PROVE  Shape(d)
<1>1. /\ q \in Blocks(b) /\ q < o /\ Nxt(b, q) = o /\ Prv(b, o) = q /\ o # 0
      /\ Blocks(d) = Blocks(b) \ {o}
      /\ d.produce = IF b.produce = o THEN q ELSE b.produce
      /\ d.consume = IF b.consume = o THEN q ELSE b.consume
      /\ d.last = IF b.last = o THEN q ELSE b.last
      /\ \A i \in Blocks(d) :
           /\ IsFree(d, i) = IsFree(b, i)
           /\ Nxt(d, i) = IF i = q THEN Nxt(b, o) ELSE Nxt(b, i)
           /\ Siz(d, i) = IF i = q THEN Siz(b, q) + Siz(b, o) ELSE Siz(b, i)
           /\ Prv(d, i) = IF i = Nxt(b, o) THEN q ELSE Prv(b, i)
  BY MergeEffect
<1>2. /\ Capacity \in Nat \ {0} /\ Capacity \notin Blocks(b)
      /\ \A i \in Blocks(b) : i <= b.last /\ i < Nxt(b, i) /\ (Nxt(b, i) \in Blocks(b) <=> i # b.last)
  BY <1>1, LastIsLast
<1>3. /\ 0 \in Blocks(d) /\ Prv(d, 0) = Capacity
      /\ d.produce \in Blocks(d) /\ d.consume \in Blocks(d) /\ d.last \in Blocks(d)
  BY <1>1, <1>2 DEF Shape
<1>4. ASSUME NEW i \in Blocks(d)
      PROVE  /\ i \in 0 .. Capacity - 1 /\ Siz(d, i) \in 1 .. Capacity
             /\ Nxt(d, i) \in 0 .. Capacity /\ Nxt(d, i) = i + Siz(d, i)
             /\ Prv(d, i) \in 0 .. Capacity /\ IsFree(d, i) \in BOOLEAN
  BY <1>1, <1>2 DEF Shape
<1>5. ASSUME NEW i \in Blocks(d)
      PROVE  /\ i = d.last => Nxt(d, i) = Capacity
             /\ i # d.last => Nxt(d, i) \in Blocks(d) /\ Prv(d, Nxt(d, i)) = i
  <2>1. CASE i = q
    BY <1>1, <1>2, <2>1 DEF Shape
  <2>2. CASE i # q
    <3>1. Nxt(b, i) # o
      BY <1>1, <1>2, <2>2 DEF Shape
    <3>2. Nxt(b, i) # Nxt(b, o) \/ i = b.last
      BY <1>1, <1>2, <2>2 DEF Shape
    <3> QED BY <1>1, <1>2, <2>2, <3>1, <3>2 DEF Shape
  <2> QED BY <2>1, <2>2
<1>6. ASSUME NEW i \in Blocks(d), i # 0
      PROVE  Prv(d, i) \in Blocks(d) /\ Nxt(d, Prv(d, i)) = i
  <2>1. CASE i = Nxt(b, o)
    BY <1>1, <2>1
  <2>2. CASE i # Nxt(b, o)
    <3>1. Prv(b, i) \in Blocks(b) /\ Nxt(b, Prv(b, i)) = i
      BY <1>1, <1>6 DEF Shape
    <3> QED BY <1>1, <2>2, <3>1
  <2> QED BY <2>1, <2>2
<1>7. ASSUME NEW i \in Blocks(d), NEW j \in Blocks(d), i < j  PROVE Nxt(d, i) <= j
  <2>1. CASE i = q
    <3>1. o <= j
      BY <1>1, <1>2, <1>7, <2>1 DEF Shape
    <3> QED BY <1>1, <1>2, <1>7, <2>1, <3>1 DEF Shape
  <2>2. CASE i # q
    BY <1>1, <1>7, <2>2 DEF Shape
  <2> QED BY <2>1, <2>2
<1> QED BY <1>3, <1>4, <1>5, <1>6, <1>7 DEF Shape

\* What MergeBack does, whether it merges or not; q is where it leaves its argument.
Merged(b, o, q, d) ==
  /\ Typed(d) /\ Shape(d) /\ q \in Blocks(b) /\ q \in Blocks(d)
  /\ \A i : i \in Blocks(d) <=> i \in Blocks(b) /\ (i = q \/ i # o)
  /\ d.produce = IF b.produce = o THEN q ELSE b.produce
  /\ d.consume = IF b.consume = o THEN q ELSE b.consume
  /\ d.last = IF b.last = o THEN q ELSE b.last
  /\ d.recycle = b.recycle
  /\ \A i \in Blocks(d) :
       /\ (IsFree(d, i) <=> IsFree(b, i)) /\ d.mem[i].item = b.mem[i].item
       /\ Nxt(d, i) = IF i = q THEN Nxt(b, o) ELSE Nxt(b, i)
       /\ i # q => Siz(d, i) = Siz(b, i)
       /\ ~ IsFree(d, i) => Siz(d, i) = Siz(b, i)
  /\ q # o => q < o /\ Nxt(b, q) = o /\ IsFree(b, o) /\ IsFree(b, q)
  /\ q = o => \A i \in Blocks(b) : Nxt(b, i) = o /\ IsFree(b, o) => ~ IsFree(b, i)

LEMMA MergeAny ==
  ASSUME NEW b, Typed(b), Shape(b), NEW o \in Blocks(b)
  PROVE  Merged(b, o, MergeTarget(b, o), MergeBack(b, o))
<1>1. PICK q : q = MergeTarget(b, o)
  OBVIOUS
<1>2. PICK d : d = MergeBack(b, o)
  OBVIOUS
<1>3. CASE q # o
  <2>1. /\ q \in Blocks(b) /\ q < o /\ Nxt(b, q) = o
        /\ IsFree(b, o) /\ IsFree(b, q)
        /\ Typed(d) /\ Blocks(d) = Blocks(b) \ {o}
        /\ d.produce = IF b.produce = o THEN q ELSE b.produce
        /\ d.consume = IF b.consume = o THEN q ELSE b.consume
        /\ d.last = IF b.last = o THEN q ELSE b.last
        /\ d.recycle = b.recycle
        /\ \A i \in Blocks(d) :
             /\ IsFree(d, i) = IsFree(b, i) /\ d.mem[i].item = b.mem[i].item
             /\ Nxt(d, i) = IF i = q THEN Nxt(b, o) ELSE Nxt(b, i)
             /\ Siz(d, i) = IF i = q THEN Siz(b, q) + Siz(b, o) ELSE Siz(b, i)
    BY <1>1, <1>2, <1>3, MergeEffect
  <2>2. Shape(d)
    BY <1>1, <1>2, <1>3, MergeShape
  <2>3. \A i : i \in Blocks(d) <=> i \in Blocks(b) /\ (i = q \/ i # o)
    BY <1>3, <2>1
  <2>4. \A i \in Blocks(d) : (i # q => Siz(d, i) = Siz(b, i)) /\ (~ IsFree(d, i) => Siz(d, i) = Siz(b, i))
    BY <2>1
  <2>5. q \in Blocks(d)
    BY <1>3, <2>1
  <2> QED BY <1>1, <1>2, <1>3, <2>1, <2>2, <2>3, <2>4, <2>5 DEF Merged
<1>4. CASE q = o
  <2>1. d = b
    BY <1>1, <1>2, <1>4 DEF MergeBack
  <2>2. ASSUME NEW i \in Blocks(b), Nxt(b, i) = o, IsFree(b, o), IsFree(b, i)
        PROVE  FALSE
    <3>1. Prv(b, o) = i /\ o # 0 /\ Prv(b, o) # Capacity
      BY <2>2, LastIsLast DEF Shape
    <3>2. MergeTarget(b, o) = Prv(b, o)
      BY <2>2, <3>1 DEF MergeTarget, Nil, Prv, IsFree
    <3>3. i # o
      BY <2>2 DEF Shape
    <3> QED BY <1>1, <1>4, <3>1, <3>2, <3>3
  <2>3. \A i \in Blocks(b) : Nxt(b, i) = o /\ IsFree(b, o) => ~ IsFree(b, i)
    BY <2>2
  <2>4. Merged(b, o, o, b)
    BY <2>3 DEF Merged, Shape
  <2> QED BY <1>1, <1>2, <1>4, <2>1, <2>4
<1> QED BY <1>3, <1>4

-----------------------------------------------------------------------------
(* PopFirst.                                                                *)

\* The blocks from m_pConsume to m_pProduce, where the two are not the same.
Ahead(b, o) ==
  \/ b.consume < b.produce /\ b.consume <= o /\ o < b.produce
  \/ b.produce < b.consume /\ (b.consume <= o \/ o < b.produce)

\* The invariant, without the records.
Solid(b) ==
  /\ Typed(b) /\ Shape(b)
  /\ \A o \in Blocks(b) : ~ IsFree(b, o) => Ahead(b, o) \/ (b.consume = b.produce /\ ~ IsFree(b, b.consume))
  /\ \A o \in Blocks(b) :
       IsFree(b, o) =>
         /\ Ahead(b, o) \/ (b.consume = b.produce /\ ~ IsFree(b, b.consume)) =>
              /\ o = b.last /\ b.produce <= b.consume /\ o # b.consume /\ b.consume # 0
              /\ 0 \in Blocks(b) /\ ~ IsFree(b, 0) /\ Siz(b, o) < Siz(b, 0)
         /\ Nxt(b, o) \in Blocks(b) => ~ IsFree(b, Nxt(b, o))

\* What is left of it while PopFirst advances m_pConsume.
Loose(b) ==
  /\ Typed(b) /\ Shape(b)
  /\ \A o \in Blocks(b) : ~ IsFree(b, o) => Ahead(b, o)
  /\ \A o \in Blocks(b) :
       IsFree(b, o) =>
         /\ Ahead(b, o) =>
              /\ o = b.last /\ b.produce < b.consume
              /\ 0 \in Blocks(b) /\ ~ IsFree(b, 0) /\ Siz(b, o) < Siz(b, 0)
         /\ Nxt(b, o) \in Blocks(b) /\ IsFree(b, Nxt(b, o)) => Nxt(b, o) = b.consume

\* m_pConsume's block is freed.
Freed(b) == [b EXCEPT !.mem[b.consume].free = TRUE]

LEMMA FreeEffect ==
  ASSUME NEW b, Typed(b), Shape(b), NEW d, d = Freed(b)
  PROVE  /\ Typed(d) /\ Shape(d) /\ Blocks(d) = Blocks(b)
         /\ d.produce = b.produce /\ d.consume = b.consume /\ d.last = b.last
         /\ d.recycle = b.recycle
         /\ \A i \in Blocks(d) :
              /\ (IsFree(d, i) <=> i = b.consume \/ IsFree(b, i))
              /\ d.mem[i].item = b.mem[i].item /\ Siz(d, i) = Siz(b, i)
              /\ Nxt(d, i) = Nxt(b, i) /\ Prv(d, i) = Prv(b, i)
<1> DEFINE c == b.consume
           m == [b.mem EXCEPT ![c].free = TRUE]
           S == Blocks(b)
<1>1. b = [mem |-> b.mem, produce |-> b.produce, consume |-> b.consume, last |-> b.last,
           recycle |-> b.recycle]
  BY DEF Typed
<1>2. PICK f : f = b.mem /\ f = [o \in S |-> f[o]] /\ c \in S /\ S = DOMAIN f
  BY DEF Typed, Shape, Blocks
<1>3. d = [mem |-> m, produce |-> b.produce, consume |-> c, last |-> b.last,
           recycle |-> b.recycle]
  BY <1>1 DEF Freed
<1>4. ASSUME NEW i \in S
      PROVE  /\ f[i].prev \in 0 .. Capacity /\ f[i].next \in 0 .. Capacity
             /\ f[i].free \in BOOLEAN /\ f[i].size \in 1 .. Capacity
             /\ f[i].item \in Values \cup {"none"}
             /\ f[i] = [prev |-> f[i].prev, next |-> f[i].next, free |-> f[i].free,
                        size |-> f[i].size, item |-> f[i].item]
  BY <1>2, TypedIs
<1>5. m = [f EXCEPT ![c].free = TRUE]
  BY <1>2
<1> HIDE DEF c
<1>6. c = b.consume
  BY DEF c
<1> HIDE DEF m, S
<1>7. DOMAIN m = S /\ m = [i \in S |-> m[i]] /\ \A i \in S : m[i] = IF i = c THEN [f[i] EXCEPT !.free = TRUE] ELSE f[i]
  BY <1>2, <1>5
<1>8. ASSUME NEW i \in S
      PROVE  /\ m[i].prev = f[i].prev /\ m[i].next = f[i].next /\ m[i].size = f[i].size
             /\ m[i].item = f[i].item /\ m[i].free = IF i = c THEN TRUE ELSE f[i].free
             /\ m[i] = [prev |-> m[i].prev, next |-> m[i].next, free |-> m[i].free,
                        size |-> m[i].size, item |-> m[i].item]
  <2>1. CASE i = c
    <3>1. m[i] = [prev |-> f[i].prev, next |-> f[i].next, free |-> TRUE,
                  size |-> f[i].size, item |-> f[i].item]
      BY <1>4, <1>7, <2>1
    <3> QED BY <2>1, <3>1
  <2>2. CASE i # c
    BY <1>4, <1>7, <2>2
  <2> QED BY <2>1, <2>2
<1>9. Typed(d)
  <2>1. \A i \in S : /\ m[i].prev \in 0 .. Capacity /\ m[i].next \in 0 .. Capacity
                      /\ m[i].free \in BOOLEAN /\ m[i].size \in 1 .. Capacity
                      /\ m[i].item \in Values \cup {"none"}
                      /\ m[i] = [prev |-> m[i].prev, next |-> m[i].next, free |-> m[i].free,
                                 size |-> m[i].size, item |-> m[i].item]
    BY <1>4, <1>8
  <2>2. m = [i \in S |-> m[i]]
    BY <1>7
  <2>3. S \in SUBSET (0 .. Capacity - 1) /\ b.produce \in S /\ c \in S /\ b.last \in S
        /\ b.recycle \in BOOLEAN
    BY <1>2, TypedIs DEF S
  <2>4. Typed([mem |-> m, produce |-> b.produce, consume |-> c, last |-> b.last,
               recycle |-> b.recycle])
    BY Zenon, <2>1, <2>2, <2>3, TypedFrom
  <2> QED BY <1>3, <2>4
<1>10. /\ d.mem = m /\ d.produce = b.produce /\ d.consume = b.consume /\ d.last = b.last
       /\ d.recycle = b.recycle
  BY <1>3, <1>6
<1>11. Blocks(d) = S /\ S = Blocks(b)
  BY <1>7, <1>10 DEF Blocks, S
<1>12. ASSUME NEW i \in Blocks(d)
       PROVE
         /\ (IsFree(d, i) <=> i = b.consume \/ IsFree(b, i))
         /\ d.mem[i].item = b.mem[i].item /\ Siz(d, i) = Siz(b, i)
         /\ Nxt(d, i) = Nxt(b, i) /\ Prv(d, i) = Prv(b, i)
  <2>1. d.mem[i] = m[i] /\ f[i] = b.mem[i]
    BY <1>2, <1>10
  <2>2. /\ m[i].prev = f[i].prev /\ m[i].next = f[i].next /\ m[i].size = f[i].size
        /\ m[i].item = f[i].item /\ m[i].free = IF i = c THEN TRUE ELSE f[i].free
    BY <1>8, <1>11
  <2>3. IsFree(d, i) = IF i = c THEN TRUE ELSE IsFree(b, i)
    BY Zenon, <2>1, <2>2 DEF IsFree
  <2>4. CASE i = c
    BY Zenon, <1>6, <2>1, <2>2, <2>3, <2>4 DEF Siz, Nxt, Prv
  <2>5. CASE i # c
    BY Zenon, <1>6, <2>1, <2>2, <2>3, <2>5 DEF Siz, Nxt, Prv
  <2> QED BY <2>4, <2>5
<1>13. Shape(d)
  <2>1. \A i \in Blocks(d) : IsFree(d, i) \in BOOLEAN
    <3> SUFFICES ASSUME NEW i \in Blocks(d)  PROVE IsFree(d, i) \in BOOLEAN
      OBVIOUS
    <3> QED BY <1>9, TypedIs DEF IsFree
  <2>2. /\ d.produce = b.produce /\ d.consume = b.consume /\ d.last = b.last
        /\ Blocks(d) = Blocks(b)
        /\ \A i \in Blocks(d) : /\ Siz(d, i) = Siz(b, i) /\ Nxt(d, i) = Nxt(b, i)
                                /\ Prv(d, i) = Prv(b, i)
    BY <1>10, <1>11, <1>12
  <2>3. d.produce \in Blocks(b) /\ d.consume \in Blocks(b)
    BY <2>2 DEF Shape
  <2> QED BY <2>1, <2>2, <2>3, SameShape
<1> QED BY <1>9, <1>10, <1>11, <1>12, <1>13

\* The blocks that MergeConsume leaves; q is the block before the one it moves to.
Advanced(b, q, d) ==
  /\ Typed(d) /\ Shape(d) /\ q \in Blocks(b) /\ q \in Blocks(d)
  /\ \A i : i \in Blocks(d) <=> i \in Blocks(b) /\ (i = q \/ i # b.consume)
  /\ d.produce = IF b.produce = b.consume THEN q ELSE b.produce
  /\ d.consume = IF Nxt(b, b.consume) = Capacity THEN 0 ELSE Nxt(b, b.consume)
  /\ d.last = IF b.last = b.consume THEN q ELSE b.last
  /\ d.recycle = b.recycle
  /\ \A i \in Blocks(d) :
       /\ (IsFree(d, i) <=> IsFree(b, i)) /\ d.mem[i].item = b.mem[i].item
       /\ Nxt(d, i) = IF i = q THEN Nxt(b, b.consume) ELSE Nxt(b, i)
       /\ i # q => Siz(d, i) = Siz(b, i)
       /\ ~ IsFree(d, i) => Siz(d, i) = Siz(b, i)
  /\ q # b.consume => q < b.consume /\ Nxt(b, q) = b.consume /\ IsFree(b, b.consume) /\ IsFree(b, q)
  /\ q = b.consume =>
       \A i \in Blocks(b) : Nxt(b, i) = b.consume /\ IsFree(b, b.consume) => ~ IsFree(b, i)

\* A buffer whose m_pConsume is moved.
LEMMA MoveConsume ==
  ASSUME NEW b, Typed(b), Shape(b), NEW x \in Blocks(b), NEW d, d = [b EXCEPT !.consume = x]
  PROVE  /\ Typed(d) /\ Shape(d) /\ d.mem = b.mem /\ Blocks(d) = Blocks(b)
         /\ d.produce = b.produce /\ d.consume = x /\ d.last = b.last /\ d.recycle = b.recycle
<1>1. b = [mem |-> b.mem, produce |-> b.produce, consume |-> b.consume, last |-> b.last,
           recycle |-> b.recycle]
  BY DEF Typed
<1>2. d = [mem |-> b.mem, produce |-> b.produce, consume |-> x, last |-> b.last,
           recycle |-> b.recycle]
  BY <1>1
<1>3. /\ d.produce = b.produce /\ d.consume = x /\ d.last = b.last /\ d.mem = b.mem
      /\ d.recycle = b.recycle
  BY <1>2
<1>4. Blocks(d) = Blocks(b)
  BY <1>3 DEF Blocks
<1>5. b.mem = [o \in Blocks(b) |-> b.mem[o]] /\ Blocks(b) \in SUBSET (0 .. Capacity - 1)
  BY DEF Typed
<1>6. Typed(d)
  <2>1. \A o \in Blocks(b) :
          /\ b.mem[o].prev \in 0 .. Capacity /\ b.mem[o].next \in 0 .. Capacity
          /\ b.mem[o].free \in BOOLEAN /\ b.mem[o].size \in 1 .. Capacity
          /\ b.mem[o].item \in Values \cup {"none"}
          /\ b.mem[o] = [prev |-> b.mem[o].prev, next |-> b.mem[o].next,
                         free |-> b.mem[o].free, size |-> b.mem[o].size,
                         item |-> b.mem[o].item]
    BY TypedIs
  <2>2. b.produce \in Blocks(b) /\ b.last \in Blocks(b) /\ b.recycle \in BOOLEAN
    BY TypedIs
  <2>3. \A m : /\ m = [o \in Blocks(b) |-> m[o]]
               /\ \A o \in Blocks(b) :
                    /\ m[o].prev \in 0 .. Capacity /\ m[o].next \in 0 .. Capacity
                    /\ m[o].free \in BOOLEAN /\ m[o].size \in 1 .. Capacity
                    /\ m[o].item \in Values \cup {"none"}
                    /\ m[o] = [prev |-> m[o].prev, next |-> m[o].next,
                               free |-> m[o].free, size |-> m[o].size,
                               item |-> m[o].item]
               => Typed([mem |-> m, produce |-> b.produce, consume |-> x, last |-> b.last,
                         recycle |-> b.recycle])
    BY <1>5, <2>2, TypedFrom
  <2>4. Typed([mem |-> b.mem, produce |-> b.produce, consume |-> x, last |-> b.last,
               recycle |-> b.recycle])
    BY <1>5, <2>1, <2>3
  <2> QED BY <1>2, <2>4
<1>7. Shape(d)
  BY <1>3, <1>4 DEF Shape, Prv, Nxt, Siz, IsFree
<1> QED BY <1>3, <1>4, <1>6, <1>7

LEMMA AdvanceEffect ==
  ASSUME NEW b, Typed(b), Shape(b)
  PROVE  Advanced(b, MergeTarget(b, b.consume), MergeConsume(b))
<1> DEFINE c == b.consume
<1>1. PICK q : q = MergeTarget(b, c)
  OBVIOUS
<1>2. PICK e : e = MergeBack(b, c)
  OBVIOUS
<1>3. PICK f : f = [e EXCEPT !.consume = q]
  OBVIOUS
<1>4. PICK x : x = NextBlock(f, q)
  OBVIOUS
<1>5. PICK d : d = [f EXCEPT !.consume = x]
  OBVIOUS
<1>6. c \in Blocks(b)
  BY DEF Shape
<1>7. Merged(b, c, q, e)
  BY <1>1, <1>2, <1>6, MergeAny
<1>8. /\ Typed(f) /\ Shape(f) /\ f.mem = e.mem /\ Blocks(f) = Blocks(e) /\ q \in Blocks(f)
      /\ f.produce = e.produce /\ f.consume = q /\ f.last = e.last /\ f.recycle = e.recycle
  BY <1>3, <1>7, MoveConsume DEF Merged
<1>9. x = (IF Nxt(b, c) = Capacity THEN 0 ELSE Nxt(b, c)) /\ x \in Blocks(f)
  <2>1. Nxt(f, q) = Nxt(b, c)
    BY <1>7, <1>8 DEF Merged, Nxt
  <2>2. x = IF Nxt(f, q) = Capacity THEN 0 ELSE Nxt(f, q)
    BY <1>4 DEF NextBlock, Nxt, Nil, First
  <2> QED BY <1>8, <2>1, <2>2 DEF Shape
<1>10. /\ Typed(d) /\ Shape(d) /\ d.mem = e.mem /\ Blocks(d) = Blocks(e)
       /\ d.produce = e.produce /\ d.consume = x /\ d.last = e.last /\ d.recycle = e.recycle
  BY <1>5, <1>8, <1>9, MoveConsume
<1>11. MergeConsume(b) = d
  <2>1. MergeConsume(b) = [f EXCEPT !.consume = NextBlock(f, @)]
    BY Zenon, <1>1, <1>2, <1>3 DEF MergeConsume
  <2>2. [f EXCEPT !.consume = NextBlock(f, @)] = [f EXCEPT !.consume = NextBlock(f, f.consume)]
    OBVIOUS
  <2> QED BY <1>4, <1>5, <1>8, <2>1, <2>2
<1>12. \A i \in Blocks(d) : /\ (IsFree(d, i) <=> IsFree(e, i)) /\ Nxt(d, i) = Nxt(e, i)
                            /\ Siz(d, i) = Siz(e, i) /\ d.mem[i].item = e.mem[i].item
  BY <1>10 DEF IsFree, Nxt, Siz
<1>13. Advanced(b, q, d)
  BY <1>7, <1>9, <1>10, <1>12 DEF Merged, Advanced
<1> QED BY <1>1, <1>11, <1>13

\* o comes before p on the way around the memory that begins at c.
Before(c, o, p) == IF (c <= o) <=> (c <= p) THEN o < p ELSE c <= o

\* The items of d are those of b but the one at c, in the same order.
Survive(b, c, d) ==
  /\ d.recycle = b.recycle
  /\ \A o : o \in Blocks(d) /\ ~ IsFree(d, o) <=> o \in Blocks(b) /\ ~ IsFree(b, o) /\ o # c
  /\ \A o \in Blocks(d) :
       ~ IsFree(d, o) => Siz(d, o) = Siz(b, o) /\ d.mem[o].item = b.mem[o].item
  /\ \A o, p \in Blocks(d) :
       ~ IsFree(d, o) /\ ~ IsFree(d, p) => (Before(b.consume, o, p) <=> Before(d.consume, o, p))

LEMMA ShapeNumbers ==
  ASSUME NEW b, Shape(b)
  PROVE  /\ Capacity \in Int /\ Capacity > 0
         /\ b.consume \in Int /\ b.produce \in Int /\ b.last \in Int
         /\ b.consume \in Blocks(b) /\ b.produce \in Blocks(b) /\ b.last \in Blocks(b)
         /\ 0 \in Blocks(b) /\ Capacity \notin Blocks(b)
         /\ \A o \in Blocks(b) :
              /\ o \in Int /\ 0 <= o /\ o < Capacity /\ o <= b.last
              /\ Nxt(b, o) \in Int /\ o < Nxt(b, o) /\ Nxt(b, o) <= Capacity
              /\ Siz(b, o) \in Int /\ Siz(b, o) > 0 /\ Nxt(b, o) = o + Siz(b, o)
              /\ Nxt(b, o) = Capacity <=> o = b.last
              /\ o # b.last => Nxt(b, o) \in Blocks(b)
              /\ IsFree(b, o) \in BOOLEAN
         /\ \A o, p \in Blocks(b) : o < p => Nxt(b, o) <= p
<1>1. Capacity \in Int /\ Capacity > 0
  BY CapacityPositive
<1>2. ASSUME NEW o \in Blocks(b)
      PROVE  /\ o \in Int /\ 0 <= o /\ o < Capacity /\ o <= b.last
             /\ Nxt(b, o) \in Int /\ o < Nxt(b, o) /\ Nxt(b, o) <= Capacity
             /\ Siz(b, o) \in Int /\ Siz(b, o) > 0 /\ Nxt(b, o) = o + Siz(b, o)
             /\ Nxt(b, o) = Capacity <=> o = b.last
             /\ o # b.last => Nxt(b, o) \in Blocks(b)
             /\ IsFree(b, o) \in BOOLEAN /\ Capacity \notin Blocks(b)
  <2>1. /\ o \in 0 .. Capacity - 1 /\ Siz(b, o) \in 1 .. Capacity
        /\ Nxt(b, o) \in 0 .. Capacity /\ Nxt(b, o) = o + Siz(b, o)
        /\ IsFree(b, o) \in BOOLEAN
        /\ o = b.last => Nxt(b, o) = Capacity
        /\ o # b.last => Nxt(b, o) \in Blocks(b)
    BY DEF Shape
  <2>2. o <= b.last /\ Capacity \notin Blocks(b)
    BY LastIsLast
  <2> QED BY <1>1, <2>1, <2>2
<1>3. b.consume \in Blocks(b) /\ b.produce \in Blocks(b) /\ b.last \in Blocks(b) /\ 0 \in Blocks(b)
  BY DEF Shape
<1>4. \A o, p \in Blocks(b) : o < p => Nxt(b, o) <= p
  BY DEF Shape
<1> QED BY <1>1, <1>2, <1>3, <1>4

\* How long the arc is.
ArcLength(b) ==
  IF b.consume < b.produce THEN b.produce - b.consume
  ELSE IF b.consume = b.produce /\ IsFree(b, b.consume) THEN 0
  ELSE (IF IsFree(b, b.last) THEN b.last ELSE Capacity) - b.consume + b.produce

\* The oldest item is freed and m_pConsume moves on by a block.
LEMMA PopStart ==
  ASSUME NEW b, Solid(b), ~ IsFree(b, b.consume),
         NEW e, e = Freed(b), NEW d, d = MergeConsume(e)
  PROVE  Loose(d) /\ Survive(b, b.consume, d) /\ ArcLength(d) = ArcLength(b) - Siz(b, b.consume)
<1>1. Typed(b) /\ Shape(b)
  BY DEF Solid
<1>2. PICK c : c = b.consume
  OBVIOUS
<1>3. /\ Typed(e) /\ Shape(e) /\ Blocks(e) = Blocks(b)
      /\ e.produce = b.produce /\ e.consume = c /\ e.last = b.last
      /\ e.recycle = b.recycle
      /\ \A i \in Blocks(b) :
           /\ (IsFree(e, i) <=> i = c \/ IsFree(b, i))
           /\ e.mem[i].item = b.mem[i].item /\ Siz(e, i) = Siz(b, i)
           /\ Nxt(e, i) = Nxt(b, i)
  <2>1. /\ Typed(e) /\ Shape(e) /\ Blocks(e) = Blocks(b)
        /\ e.produce = b.produce /\ e.consume = b.consume /\ e.last = b.last
        /\ e.recycle = b.recycle
        /\ \A i \in Blocks(e) :
             /\ (IsFree(e, i) <=> i = b.consume \/ IsFree(b, i))
             /\ e.mem[i].item = b.mem[i].item /\ Siz(e, i) = Siz(b, i)
             /\ Nxt(e, i) = Nxt(b, i) /\ Prv(e, i) = Prv(b, i)
    BY <1>1, FreeEffect
  <2> QED BY <1>2, <2>1
<1>4. PICK q : q = MergeTarget(e, c)
  OBVIOUS
<1>5. Advanced(e, q, d)
  BY <1>3, <1>4, AdvanceEffect
<1>6. PICK n : n = Nxt(b, c)
  OBVIOUS
<1>7. /\ Typed(d) /\ Shape(d) /\ q \in Blocks(b) /\ q \in Blocks(d)
      /\ \A i : i \in Blocks(d) <=> i \in Blocks(b) /\ (i = q \/ i # c)
      /\ d.produce = IF b.produce = c THEN q ELSE b.produce
      /\ d.consume = IF n = Capacity THEN 0 ELSE n
      /\ d.last = IF b.last = c THEN q ELSE b.last
      /\ d.recycle = b.recycle
      /\ \A i \in Blocks(d) :
           /\ (IsFree(d, i) <=> i = c \/ IsFree(b, i)) /\ d.mem[i].item = b.mem[i].item
           /\ Nxt(d, i) = IF i = q THEN n ELSE Nxt(b, i)
           /\ i # q => Siz(d, i) = Siz(b, i)
           /\ ~ IsFree(d, i) => Siz(d, i) = Siz(b, i)
      /\ q # c => q < c /\ Nxt(b, q) = c /\ IsFree(b, q)
      /\ q = c => \A i \in Blocks(b) : Nxt(b, i) = c /\ i # c => ~ IsFree(b, i)
  <2>1. Nxt(e, c) = n /\ c \in Blocks(b)
    BY <1>1, <1>2, <1>3, <1>6 DEF Shape
  <2>2. /\ Typed(d) /\ Shape(d) /\ q \in Blocks(b) /\ q \in Blocks(d)
        /\ \A i : i \in Blocks(d) <=> i \in Blocks(b) /\ (i = q \/ i # c)
        /\ d.produce = IF b.produce = c THEN q ELSE b.produce
        /\ d.consume = IF n = Capacity THEN 0 ELSE n
        /\ d.last = IF b.last = c THEN q ELSE b.last
        /\ d.recycle = b.recycle
        /\ q # c => q < c /\ Nxt(e, q) = c /\ IsFree(e, q)
        /\ q = c => \A i \in Blocks(e) : Nxt(e, i) = c /\ IsFree(e, c) => ~ IsFree(e, i)
    BY <1>3, <1>5, <2>1 DEF Advanced
  <2>3. \A i \in Blocks(d) :
           /\ (IsFree(d, i) <=> IsFree(e, i)) /\ d.mem[i].item = e.mem[i].item
           /\ Nxt(d, i) = IF i = q THEN n ELSE Nxt(e, i)
           /\ i # q => Siz(d, i) = Siz(e, i)
           /\ ~ IsFree(d, i) => Siz(d, i) = Siz(e, i)
    BY <1>3, <1>5, <2>1 DEF Advanced
  <2>4. q # c => Nxt(b, q) = c /\ IsFree(b, q)
    BY <1>3, <2>2
  <2>5. q = c => \A i \in Blocks(b) : Nxt(b, i) = c /\ i # c => ~ IsFree(b, i)
    BY <1>3, <2>1, <2>2
  <2>6. \A i \in Blocks(d) :
           /\ (IsFree(d, i) <=> i = c \/ IsFree(b, i)) /\ d.mem[i].item = b.mem[i].item
           /\ Nxt(d, i) = IF i = q THEN n ELSE Nxt(b, i)
           /\ i # q => Siz(d, i) = Siz(b, i)
           /\ ~ IsFree(d, i) => Siz(d, i) = Siz(b, i)
    BY <1>3, <2>2, <2>3
  <2> QED BY <2>2, <2>4, <2>5, <2>6
<1>8. c \in Blocks(b) /\ ~ IsFree(b, c)
  BY <1>1, <1>2 DEF Shape
<1>9. Survive(b, b.consume, d)
  <2>1. \A o : o \in Blocks(d) /\ ~ IsFree(d, o) <=> o \in Blocks(b) /\ ~ IsFree(b, o) /\ o # c
    BY <1>7, <1>8
  <2>2. ASSUME NEW o \in Blocks(d), NEW p \in Blocks(d), ~ IsFree(d, o), ~ IsFree(d, p)
        PROVE  Before(c, o, p) <=> Before(d.consume, o, p)
    <3>1. o \in Blocks(b) /\ p \in Blocks(b) /\ o # c /\ p # c
      BY <2>1, <2>2
    <3>2. /\ o \in Int /\ p \in Int /\ c \in Int /\ n \in Int /\ Capacity \in Int
          /\ c < n /\ o >= 0 /\ o < Capacity /\ p >= 0 /\ p < Capacity
          /\ c < o => n <= o
          /\ c < p => n <= p
      BY <1>1, <1>6, <1>8, <3>1, ShapeNumbers
    <3> QED BY <1>7, <3>1, <3>2 DEF Before
  <2> QED BY <1>2, <1>7, <2>1, <2>2 DEF Survive
<1> DEFINE Whole(o) == Ahead(b, o) \/ b.consume = b.produce
<1>10. /\ \A o \in Blocks(b) : ~ IsFree(b, o) => Whole(o)
       /\ \A o \in Blocks(b) : IsFree(b, o) =>
             /\ Whole(o) =>
                  /\ o = b.last /\ b.produce <= c /\ o # c /\ c # 0
                  /\ ~ IsFree(b, 0) /\ Siz(b, o) < Siz(b, 0)
             /\ Nxt(b, o) \in Blocks(b) => ~ IsFree(b, Nxt(b, o))
  <2>1. \A o \in Blocks(b) : Whole(o) <=> Ahead(b, o) \/ (b.consume = b.produce /\ ~ IsFree(b, b.consume))
    BY <1>2, <1>8
  <2> HIDE DEF Whole
  <2>2. \A o \in Blocks(b) : ~ IsFree(b, o) => Whole(o)
    BY <2>1 DEF Solid
  <2>3. \A o \in Blocks(b) : IsFree(b, o) =>
             /\ Whole(o) =>
                  /\ o = b.last /\ b.produce <= b.consume /\ o # b.consume /\ b.consume # 0
                  /\ ~ IsFree(b, 0) /\ Siz(b, o) < Siz(b, 0)
             /\ Nxt(b, o) \in Blocks(b) => ~ IsFree(b, Nxt(b, o))
    BY <2>1 DEF Solid
  <2> QED BY <1>2, <2>2, <2>3
<1>11. ASSUME NEW o \in Blocks(b)
       PROVE  /\ o \in Int /\ 0 <= o /\ o < Capacity
              /\ c < o => n <= o
              /\ q < o /\ q # c => c <= o
              /\ o <= b.last
  BY <1>1, <1>6, <1>7, <1>8, ShapeNumbers
<1>12. /\ c \in Int /\ n \in Int /\ Capacity \in Int /\ q \in Int /\ b.produce \in Int
       /\ b.produce \in Blocks(b) /\ b.last \in Blocks(b) /\ 0 \in Blocks(b)
       /\ c < n /\ n <= Capacity /\ 0 <= c /\ 0 <= q /\ q <= c /\ 0 <= b.produce
       /\ (n = Capacity <=> c = b.last)
       /\ (n \in Blocks(b) <=> n # Capacity)
       /\ (c < b.produce => n <= b.produce) /\ Capacity \notin Blocks(d)
  <2>1. /\ c \in Int /\ n \in Int /\ Capacity \in Int /\ q \in Int /\ b.produce \in Int
        /\ b.produce \in Blocks(b) /\ b.last \in Blocks(b) /\ 0 \in Blocks(b)
        /\ c < n /\ n <= Capacity /\ 0 <= c /\ 0 <= q /\ 0 <= b.produce
        /\ (n = Capacity <=> c = b.last)
        /\ (c # b.last => n \in Blocks(b)) /\ Capacity \notin Blocks(b)
    BY <1>1, <1>6, <1>7, <1>8, ShapeNumbers
  <2>2. c < b.produce => n <= b.produce
    BY <1>11, <2>1
  <2>3. q <= c /\ Capacity \notin Blocks(d)
    BY <1>7, <2>1
  <2> QED BY <2>1, <2>2, <2>3
<1>13. PICK p \in Int : p = b.produce /\ p \in Blocks(b)
  BY <1>12
<1>14. \A o : Whole(o) <=> \/ c < p /\ c <= o /\ o < p
                           \/ p < c /\ (c <= o \/ o < p)
                           \/ c = p
  BY <1>2, <1>13 DEF Ahead
<1>15. PICK c1 \in Int : c1 = d.consume /\ c1 = IF n = Capacity THEN 0 ELSE n
  BY <1>7, <1>12
<1>16. PICK p1 \in Int : p1 = d.produce /\ p1 = IF p = c THEN q ELSE p
  BY <1>7, <1>12, <1>13
<1>17. \A o : Ahead(d, o) <=> \/ c1 < p1 /\ c1 <= o /\ o < p1
                              \/ p1 < c1 /\ (c1 <= o \/ o < p1)
  BY <1>15, <1>16 DEF Ahead
<1> HIDE DEF Whole
<1>18. ASSUME NEW o \in Blocks(d), ~ IsFree(d, o)  PROVE Ahead(d, o)
  <2>1. o \in Blocks(b) /\ o # c /\ ~ IsFree(b, o) /\ Whole(o)
    BY <1>7, <1>10, <1>18
  <2>2. q # c => q # o
    BY <1>7, <2>1
  <2>3. CASE p = c
    BY <1>11, <1>12, <1>13, <1>15, <1>16, <1>17, <2>1, <2>2, <2>3
  <2>4. CASE p # c
    BY <1>11, <1>12, <1>13, <1>14, <1>15, <1>16, <1>17, <2>1, <2>4
  <2> QED BY <2>3, <2>4
<1>19. ASSUME NEW o \in Blocks(d), IsFree(d, o), Ahead(d, o)
       PROVE  /\ o = d.last /\ d.produce < d.consume
              /\ 0 \in Blocks(d) /\ ~ IsFree(d, 0) /\ Siz(d, o) < Siz(d, 0)
  <2>1. o \in Blocks(b)
    BY <1>7
  <2>2. o # c
    <3>1. p < Capacity
      BY <1>11, <1>13
    <3> SUFFICES ASSUME o = c  PROVE FALSE
      OBVIOUS
    <3>2. q = c
      BY <1>7
    <3>3. CASE p = c
      BY <1>12, <1>13, <1>15, <1>16, <1>17, <1>19, <3>2, <3>3
    <3>4. CASE p # c
      BY <1>12, <1>13, <1>15, <1>16, <1>17, <1>19, <3>1, <3>2, <3>4
    <3> QED BY <3>3, <3>4
  <2>3. IsFree(b, o)
    BY <1>7, <1>19, <2>2
  <2>4. Whole(o)
    BY <1>11, <1>12, <1>13, <1>14, <1>15, <1>16, <1>17, <1>19, <2>1, <2>2
  <2>5. /\ o = b.last /\ b.produce <= c /\ c # 0
        /\ ~ IsFree(b, 0) /\ Siz(b, o) < Siz(b, 0)
    BY <1>10, <2>1, <2>3, <2>4
  <2>6. o # q
    BY <1>11, <1>12, <2>1, <2>2, <2>5, <1>8
  <2>7. 0 \in Blocks(d) /\ ~ IsFree(d, 0) /\ Siz(d, 0) = Siz(b, 0) /\ Siz(d, o) = Siz(b, o)
    BY <1>7, <1>12, <2>5, <2>6
  <2>8. o = d.last /\ c1 = n
    BY <1>7, <1>12, <1>15, <2>2, <2>5
  <2>9. p1 < c1
    BY <1>12, <1>13, <1>16, <2>5, <2>8
  <2> QED BY <1>15, <1>16, <2>5, <2>7, <2>8, <2>9
<1>20. ASSUME NEW o \in Blocks(d), IsFree(d, o), Nxt(d, o) \in Blocks(d), IsFree(d, Nxt(d, o))
       PROVE  Nxt(d, o) = d.consume
  <2>1. CASE o = q
    <3>1. Nxt(d, o) = n /\ n # Capacity
      BY <1>7, <1>12, <1>20, <2>1
    <3> QED BY <1>7, <3>1
  <2>2. CASE o # q
    <3>1. o \in Blocks(b) /\ o # c /\ IsFree(b, o) /\ Nxt(d, o) = Nxt(b, o)
      BY <1>7, <1>20, <2>2
    <3>2. CASE Nxt(b, o) = c
      BY <1>7, <1>20, <3>1, <3>2
    <3>3. CASE Nxt(b, o) # c
      BY <1>7, <1>10, <1>20, <3>1, <3>3
    <3> QED BY <3>2, <3>3
  <2> QED BY <2>1, <2>2
<1>21. ArcLength(d) = ArcLength(b) - Siz(b, b.consume)
  <2>1. Siz(b, c) \in Int /\ n = c + Siz(b, c) /\ b.last < Capacity /\ b.last \in Int /\ p < Capacity
    BY <1>1, <1>6, <1>8, <1>13, ShapeNumbers
  <2>2. c1 \in Blocks(d) /\ (c1 = p1 => IsFree(d, c1))
    <3>1. c1 \in Blocks(d) /\ (c1 = p1 => ~ Ahead(d, c1))
      BY <1>7, <1>15, <1>17 DEF Shape
    <3> QED BY <1>18, <3>1
  <2>3. ArcLength(b) = IF c < p THEN p - c ELSE IF c = p /\ IsFree(b, c) THEN 0
                   ELSE (IF IsFree(b, b.last) THEN b.last ELSE Capacity) - c + p
    BY <1>2, <1>13 DEF ArcLength
  <2>4. ArcLength(d) = IF c1 < p1 THEN p1 - c1 ELSE IF c1 = p1 /\ IsFree(d, c1) THEN 0
                   ELSE (IF IsFree(d, d.last) THEN d.last ELSE Capacity) - c1 + p1
    BY <1>15, <1>16 DEF ArcLength
  <2>5. c # b.last => d.last = b.last /\ (IsFree(d, d.last) <=> IsFree(b, b.last))
    BY <1>7 DEF Shape
  <2>6. CASE c < p
    <3>1. c1 = n /\ p1 = p /\ n <= p
      BY <1>12, <1>13, <1>15, <1>16, <2>1, <2>6
    <3>2. ArcLength(b) = p - c
      BY <2>3, <2>6
    <3>3. CASE n < p
      <4>1. ArcLength(d) = p - n
        BY <2>4, <3>1, <3>3
      <4> QED BY <1>2, <1>12, <2>1, <3>2, <4>1
    <3>4. CASE n = p
      <4>1. ArcLength(d) = 0
        BY <2>2, <2>4, <3>1, <3>4
      <4> QED BY <1>2, <1>12, <2>1, <3>2, <3>4, <4>1
    <3> QED BY <1>12, <3>1, <3>3, <3>4
  <2>7. CASE p < c
    <3>1. p1 = p /\ 0 <= p
      BY <1>12, <1>13, <1>16, <2>7
    <3>2. CASE n = Capacity
      <4>1. c = b.last /\ c1 = 0 /\ ~ IsFree(b, b.last)
        BY <1>8, <1>12, <1>15, <3>2
      <4>2. ArcLength(b) = Capacity - c + p
        BY <1>12, <2>3, <2>7, <4>1
      <4>3. ArcLength(d) = p
        <5>1. CASE p = 0
          BY <2>2, <2>4, <3>1, <4>1, <5>1
        <5>2. CASE p # 0
          BY <2>4, <3>1, <4>1, <5>2
        <5> QED BY <5>1, <5>2
      <4> QED BY <1>2, <1>12, <2>1, <3>2, <4>2, <4>3
    <3>3. CASE n # Capacity
      <4>1. c # b.last /\ c1 = n /\ p1 < c1
        BY <1>12, <1>15, <2>7, <3>1, <3>3
      <4> DEFINE e2 == IF IsFree(b, b.last) THEN b.last ELSE Capacity
      <4>0. e2 \in Int
        <5>1. CASE IsFree(b, b.last)
          BY <2>1, <5>1
        <5>2. CASE ~ IsFree(b, b.last)
          BY <1>12, <5>2
        <5> QED BY <5>1, <5>2
      <4> HIDE DEF e2
      <4>1a. PICK x \in Int : x = e2
        BY <4>0
      <4>2. x = IF IsFree(b, b.last) THEN b.last ELSE Capacity
        BY <4>1a DEF e2
      <4>3. ArcLength(b) = x - c + p
        BY <1>12, <2>3, <2>7, <4>2
      <4>4. x = IF IsFree(d, d.last) THEN d.last ELSE Capacity
        <5>1. CASE IsFree(b, b.last)
          BY <2>5, <4>1, <4>2, <5>1
        <5>2. CASE ~ IsFree(b, b.last)
          BY <2>5, <4>1, <4>2, <5>2
        <5> QED BY <5>1, <5>2
      <4>5. ArcLength(d) = x - n + p
        BY <2>4, <3>1, <4>1, <4>4
      <4> QED BY <1>2, <1>12, <2>1, <4>2, <4>3, <4>5
    <3> QED BY <3>2, <3>3
  <2>8. CASE p = c
    <3>1. q = c
      <4>1. q # c => IsFree(b, q) /\ q \in Blocks(b) /\ Whole(q) /\ q # b.last
        BY <1>7, <1>11, <1>12, <1>8, <1>14, <2>8
      <4> QED BY <1>10, <4>1
    <3>2. p1 = c
      BY <1>16, <2>8, <3>1
    <3>3. CASE n = Capacity
      <4>1. c = b.last /\ c1 = 0 /\ ~ IsFree(b, b.last)
        BY <1>8, <1>12, <1>15, <3>3
      <4>2. ArcLength(b) = Capacity
        BY <1>8, <1>12, <2>3, <2>8, <4>1
      <4>3. ArcLength(d) = c
        <5>1. CASE c = 0
          BY <2>2, <2>4, <3>2, <4>1, <5>1
        <5>2. CASE c # 0
          BY <1>12, <2>4, <3>2, <4>1, <5>2
        <5> QED BY <5>1, <5>2
      <4> QED BY <1>2, <1>12, <2>1, <3>3, <4>2, <4>3
    <3>4. CASE n # Capacity
      <4>1. c # b.last /\ c1 = n /\ p1 < c1
        BY <1>12, <1>15, <3>2, <3>4
      <4> DEFINE e2 == IF IsFree(b, b.last) THEN b.last ELSE Capacity
      <4>0. e2 \in Int
        <5>1. CASE IsFree(b, b.last)
          BY <2>1, <5>1
        <5>2. CASE ~ IsFree(b, b.last)
          BY <1>12, <5>2
        <5> QED BY <5>1, <5>2
      <4> HIDE DEF e2
      <4>1a. PICK x \in Int : x = e2
        BY <4>0
      <4>2. x = IF IsFree(b, b.last) THEN b.last ELSE Capacity
        BY <4>1a DEF e2
      <4>3. ArcLength(b) = x
        BY <1>8, <1>12, <2>3, <2>8, <4>2
      <4>4. x = IF IsFree(d, d.last) THEN d.last ELSE Capacity
        <5>1. CASE IsFree(b, b.last)
          BY <2>5, <4>1, <4>2, <5>1
        <5>2. CASE ~ IsFree(b, b.last)
          BY <2>5, <4>1, <4>2, <5>2
        <5> QED BY <5>1, <5>2
      <4>5. ArcLength(d) = x - n + c
        BY <2>4, <3>2, <4>1, <4>4
      <4> QED BY <1>2, <1>12, <2>1, <4>2, <4>3, <4>5
    <3> QED BY <3>3, <3>4
  <2> QED BY <1>12, <1>13, <2>6, <2>7, <2>8
<1> QED BY <1>7, <1>9, <1>12, <1>18, <1>19, <1>20, <1>21 DEF Loose

\* A turn of the loop after that: it skips the memory at the end that was too small.
LEMMA PopSkip ==
  ASSUME NEW b, Loose(b), IsFree(b, b.consume), b.consume # b.produce, NEW d, d = MergeConsume(b)
  PROVE  /\ Loose(d) /\ Survive(b, Capacity, d) /\ ArcLength(d) = ArcLength(b)
         /\ ~ IsFree(d, d.consume)
<1>1. Typed(b) /\ Shape(b)
  BY DEF Loose
<1>2. PICK c \in Int, p \in Int : c = b.consume /\ p = b.produce
  BY <1>1, ShapeNumbers
<1>3. c \in Blocks(b) /\ p \in Blocks(b) /\ 0 \in Blocks(b)
  BY <1>1, <1>2, ShapeNumbers
<1>4. \A o \in Blocks(b) : /\ o \in Int /\ 0 <= o /\ o < Capacity /\ o <= b.last
                          /\ (Nxt(b, o) = Capacity <=> o = b.last)
  BY <1>1, ShapeNumbers
<1>5. Ahead(b, c)
  BY <1>2, <1>3, <1>4 DEF Ahead
<1>6. c = b.last /\ p < c /\ ~ IsFree(b, 0) /\ Siz(b, c) < Siz(b, 0)
  BY <1>2, <1>3, <1>5 DEF Loose
<1>7. 0 < p
  <2>1. Ahead(b, 0)
    BY <1>3, <1>6 DEF Loose
  <2> QED BY <1>2, <1>3, <1>4, <1>6, <2>1 DEF Ahead
<1>8. PICK q : q = MergeTarget(b, c)
  OBVIOUS
<1>9. Advanced(b, q, d)
  BY <1>1, <1>2, <1>8, AdvanceEffect
<1>10. /\ Typed(d) /\ Shape(d) /\ q \in Blocks(b) /\ q \in Blocks(d)
       /\ \A i : i \in Blocks(d) <=> i \in Blocks(b) /\ (i = q \/ i # c)
       /\ d.produce = p /\ d.consume = 0 /\ d.last = q /\ d.recycle = b.recycle
       /\ q # c => q < c /\ Nxt(b, q) = c /\ IsFree(b, q)
  BY <1>2, <1>3, <1>4, <1>6, <1>9 DEF Advanced
<1>11. \A i \in Blocks(d) :
         /\ (IsFree(d, i) <=> IsFree(b, i)) /\ d.mem[i].item = b.mem[i].item
         /\ Nxt(d, i) = IF i = q THEN Capacity ELSE Nxt(b, i)
         /\ ~ IsFree(d, i) => Siz(d, i) = Siz(b, i)
  BY <1>2, <1>3, <1>4, <1>6, <1>9 DEF Advanced
<1>12. \A o : Ahead(b, o) <=> c <= o \/ o < p
  BY <1>2, <1>6 DEF Ahead
<1>13. \A o : Ahead(d, o) <=> 0 <= o /\ o < p
  BY <1>7, <1>10 DEF Ahead
<1>14. \A o \in Blocks(b) : ~ IsFree(b, o) => o < p /\ o < c
  <2> SUFFICES ASSUME NEW o \in Blocks(b), ~ IsFree(b, o)  PROVE o < p /\ o < c
    OBVIOUS
  <2>1. Ahead(b, o) /\ o # c
    BY <1>2 DEF Loose
  <2> QED BY <1>4, <1>6, <1>12, <2>1
<1>15. \A o \in Blocks(b) : o < p => ~ IsFree(b, o)
  <2> SUFFICES ASSUME NEW o \in Blocks(b), o < p, IsFree(b, o)  PROVE FALSE
    OBVIOUS
  <2>1. o = b.last
    BY <1>12 DEF Loose
  <2> QED BY <1>2, <1>6, <2>1
<1>16. \A o \in Blocks(d) : ~ IsFree(d, o) => Ahead(d, o)
  BY <1>4, <1>10, <1>11, <1>13, <1>14
<1>17. \A o \in Blocks(d) : IsFree(d, o) => ~ Ahead(d, o)
  BY <1>10, <1>11, <1>13, <1>15
<1>18. ASSUME NEW o \in Blocks(d), IsFree(d, o), Nxt(d, o) \in Blocks(d), IsFree(d, Nxt(d, o))
       PROVE  FALSE
  <2>1. o # q
    <3>1. Capacity \notin Blocks(d)
      BY <1>10, ShapeNumbers
    <3> QED BY <1>11, <1>18, <3>1
  <2>2. o \in Blocks(b) /\ IsFree(b, o) /\ Nxt(b, o) \in Blocks(b) /\ IsFree(b, Nxt(b, o))
    BY <1>10, <1>11, <1>18, <2>1
  <2>3. Nxt(b, o) = c
    BY <1>2, <2>2 DEF Loose
  <2>4. q = c
    BY <1>10, <1>11, <1>18, <2>1, <2>3
  <2>5. \A i \in Blocks(b) : Nxt(b, i) = c => ~ IsFree(b, i)
    BY <1>2, <1>9, <2>4 DEF Advanced
  <2> QED BY <2>2, <2>3, <2>5
<1>19. Loose(d)
  BY <1>10, <1>16, <1>17, <1>18 DEF Loose
<1>20. Survive(b, Capacity, d)
  <2>1. \A o : o \in Blocks(d) /\ ~ IsFree(d, o) <=> o \in Blocks(b) /\ ~ IsFree(b, o) /\ o # Capacity
    BY <1>2, <1>4, <1>10, <1>11
  <2>2. ASSUME NEW o \in Blocks(d), NEW i \in Blocks(d), ~ IsFree(d, o), ~ IsFree(d, i)
        PROVE  Before(c, o, i) <=> Before(d.consume, o, i)
    <3>1. o \in Int /\ i \in Int /\ o < c /\ i < c /\ 0 <= o /\ 0 <= i
      BY <1>4, <1>10, <1>11, <1>14, <2>2
    <3> QED BY <1>10, <3>1 DEF Before
  <2> QED BY <1>2, <1>10, <1>11, <2>1, <2>2 DEF Survive
<1>21. ArcLength(d) = p /\ ArcLength(b) = p
  BY <1>2, <1>6, <1>7, <1>10 DEF ArcLength
<1>22. ~ IsFree(d, 0) /\ 0 \in Blocks(d)
  BY <1>3, <1>6, <1>10, <1>11, <1>14
<1> QED BY <1>10, <1>19, <1>20, <1>21, <1>22

\* The last merge, where m_pConsume is at an item or has caught up with m_pProduce.
LEMMA PopEnd ==
  ASSUME NEW b, Loose(b), IsFree(b, b.consume) => b.consume = b.produce,
         NEW d, d = MergeBack(b, b.consume)
  PROVE  Solid(d) /\ Survive(b, Capacity, d) /\ ArcLength(d) = ArcLength(b)
<1>1. Typed(b) /\ Shape(b)
  BY DEF Loose
<1>2. PICK c \in Int, p \in Int : c = b.consume /\ p = b.produce
  BY <1>1, ShapeNumbers
<1>3. c \in Blocks(b) /\ p \in Blocks(b) /\ 0 \in Blocks(b) /\ Capacity \notin Blocks(b)
  BY <1>1, <1>2, ShapeNumbers
<1>4. PICK q : q = MergeTarget(b, c)
  OBVIOUS
<1>5. Merged(b, c, q, d)
  BY <1>1, <1>2, <1>3, <1>4, MergeAny
<1>6. CASE ~ IsFree(b, c)
  <2>1. d = b
    <3>1. MergeTarget(b, c) = c
      BY <1>6 DEF MergeTarget, IsFree
    <3> QED BY <1>2, <3>1 DEF MergeBack
  <2>2. Ahead(b, c) /\ c # p
    BY <1>2, <1>3, <1>6 DEF Loose, Ahead
  <2>3. \A o \in Blocks(b) : ~ IsFree(b, o) => Ahead(b, o)
    BY DEF Loose
  <2>4. ASSUME NEW o \in Blocks(b), IsFree(b, o), Ahead(b, o)
        PROVE  /\ o = b.last /\ b.produce <= b.consume /\ o # b.consume /\ b.consume # 0
               /\ 0 \in Blocks(b) /\ ~ IsFree(b, 0) /\ Siz(b, o) < Siz(b, 0)
    <3>1. /\ o = b.last /\ p < c
          /\ 0 \in Blocks(b) /\ ~ IsFree(b, 0) /\ Siz(b, o) < Siz(b, 0)
      BY <1>2, <2>4 DEF Loose
    <3>2. 0 <= p
      BY <1>1, <1>3, ShapeNumbers
    <3> QED BY <1>2, <1>6, <2>4, <3>1, <3>2
  <2>5. \A o \in Blocks(b) : IsFree(b, o) /\ Nxt(b, o) \in Blocks(b) => ~ IsFree(b, Nxt(b, o))
    BY <1>2, <1>6 DEF Loose
  <2>6. Solid(b)
    BY <1>1, <1>2, <2>2, <2>3, <2>4, <2>5 DEF Solid
  <2>7. Survive(b, Capacity, b)
    BY <1>3 DEF Survive
  <2> QED BY <2>1, <2>6, <2>7
<1>7. CASE IsFree(b, c)
  <2>1. c = p
    BY <1>2, <1>7
  <2>2. \A o \in Blocks(b) : IsFree(b, o)
    BY <1>2, <2>1 DEF Loose, Ahead
  <2>3. /\ Typed(d) /\ Shape(d) /\ q \in Blocks(b) /\ q \in Blocks(d)
        /\ \A i : i \in Blocks(d) <=> i \in Blocks(b) /\ (i = q \/ i # c)
        /\ d.produce = q /\ d.consume = q /\ d.recycle = b.recycle
        /\ \A i \in Blocks(d) :
             /\ IsFree(d, i) <=> IsFree(b, i)
             /\ Nxt(d, i) = IF i = q THEN Nxt(b, c) ELSE Nxt(b, i)
        /\ q = c => \A i \in Blocks(b) : Nxt(b, i) = c /\ IsFree(b, c) => ~ IsFree(b, i)
        /\ q # c => q < c
    BY <1>2, <1>5, <2>1 DEF Merged
  <2>4. \A o \in Blocks(d) : IsFree(d, o)
    BY <2>2, <2>3
  <2>5. \A o \in Blocks(d) : ~ Ahead(d, o)
    BY <2>3, <1>1, ShapeNumbers DEF Ahead
  <2>6. ASSUME NEW o \in Blocks(d), Nxt(d, o) \in Blocks(d)  PROVE FALSE
    <3>1. ASSUME NEW i \in Blocks(b), Nxt(b, i) \in Blocks(b)  PROVE Nxt(b, i) = c
      BY <1>2, <2>2, <3>1 DEF Loose
    <3>2. o \in Blocks(b)
      BY <2>3
    <3>3. CASE o = q
      <4>1. Nxt(b, c) = c
        BY <1>3, <2>3, <2>6, <3>1, <3>3
      <4> QED BY <1>1, <1>3, <4>1, ShapeNumbers
    <3>4. CASE o # q
      <4>1. Nxt(b, o) = c /\ c \in Blocks(d)
        BY <2>3, <2>6, <3>1, <3>2, <3>4
      <4>2. q = c
        BY <2>3, <4>1
      <4> QED BY <1>7, <2>2, <2>3, <3>2, <4>1, <4>2
    <3> QED BY <3>3, <3>4
  <2>7. Solid(d)
    BY <2>3, <2>4, <2>5, <2>6 DEF Solid
  <2>8. Survive(b, Capacity, d)
    <3>1. \A o : ~ (o \in Blocks(d) /\ ~ IsFree(d, o)) /\ ~ (o \in Blocks(b) /\ ~ IsFree(b, o))
      BY <2>2, <2>4
    <3>2. \A o : o \in Blocks(d) /\ ~ IsFree(d, o) <=> o \in Blocks(b) /\ ~ IsFree(b, o) /\ o # Capacity
      BY <3>1
    <3>3. \A o \in Blocks(d) :
            ~ IsFree(d, o) => Siz(d, o) = Siz(b, o) /\ d.mem[o].item = b.mem[o].item
      BY <2>4
    <3>4. \A o, i \in Blocks(d) :
            ~ IsFree(d, o) /\ ~ IsFree(d, i) => (Before(b.consume, o, i) <=> Before(d.consume, o, i))
      BY <2>4
    <3> QED BY <2>3, <3>2, <3>3, <3>4 DEF Survive
  <2>9. ArcLength(d) = 0 /\ ArcLength(b) = 0
    <3>1. q \in Int
      BY <1>1, <2>3, ShapeNumbers
    <3>2. IsFree(d, q)
      BY <2>3, <2>4
    <3>3. ArcLength(d) = 0
      BY <2>3, <3>1, <3>2 DEF ArcLength
    <3>4. ArcLength(b) = 0
      BY <1>2, <1>7, <2>1 DEF ArcLength
    <3> QED BY <3>3, <3>4
  <2> QED BY <2>7, <2>8, <2>9
<1> QED BY <1>6, <1>7

\* The loop that advances m_pConsume over free blocks does so once at most.
LEMMA SkipEffect ==
  ASSUME NEW b, Loose(b), NEW d, d = SkipFree(b)
  PROVE  /\ Loose(d) /\ Survive(b, Capacity, d) /\ ArcLength(d) = ArcLength(b)
         /\ IsFree(d, d.consume) => d.consume = d.produce
<1>1. PICK e : e = SkipTurn(b)
  OBVIOUS
<1>2. /\ Loose(e) /\ Survive(b, Capacity, e) /\ ArcLength(e) = ArcLength(b)
      /\ IsFree(e, e.consume) => e.consume = e.produce
  <2>1. CASE IsFree(b, b.consume) /\ b.consume # b.produce
    <3>1. e = MergeConsume(b)
      BY <1>1, <2>1 DEF SkipTurn, IsFree
    <3> QED BY <2>1, <3>1, PopSkip
  <2>2. CASE ~ (IsFree(b, b.consume) /\ b.consume # b.produce)
    <3>1. e = b
      BY <1>1, <2>2 DEF SkipTurn, IsFree
    <3>2. Survive(b, Capacity, b)
      BY ShapeNumbers DEF Survive, Loose
    <3> QED BY <2>2, <3>1, <3>2
  <2> QED BY <2>1, <2>2
<1>3. SkipTurn(e) = e
  BY <1>2 DEF SkipTurn, IsFree
<1> DEFINE X == {b, e}
           F == [y \in Nat \X X |-> SkipTurn(y[2])]
<1>4. F \in [Nat \X X -> X] /\ \A i \in Nat, x \in X : F[<<i, x>>] = SkipTurn(x)
  BY <1>1, <1>3
<1> HIDE DEF F
<1>5. Capacity \in Nat \ {0}
  BY CapacityPositive
<1>6. PICK g \in [0 .. Capacity -> X] : g[0] = b /\ \A i \in 1 .. Capacity : g[i] = F[<<i, g[i - 1]>>]
  <2>1. b \in X
    OBVIOUS
  <2>2. F \in [Nat \X X -> X] /\ Capacity \in Nat
    BY <1>4, <1>5
  <2> HIDE DEF X
  <2>3. TurnsFrom(b, F, X, Capacity) # {}
    BY Zenon, <2>1, <2>2, TurnsDefined
  <2> QED BY Zenon, <2>3 DEF TurnsFrom
<1>7. g = [i \in 0 .. Capacity |-> IF i = 0 THEN b ELSE SkipTurn(g[i - 1])]
  <2>1. ASSUME NEW i \in 0 .. Capacity, i # 0  PROVE g[i] = SkipTurn(g[i - 1])
    <3>1. i \in 1 .. Capacity /\ i \in Nat /\ g[i - 1] \in X
      BY <1>5, <2>1
    <3> HIDE DEF X
    <3> QED BY <1>4, <1>6, <3>1
  <2> QED BY <1>6, <2>1
<1> DEFINE turn == CHOOSE f : f = [i \in 0 .. Capacity |-> IF i = 0 THEN b ELSE SkipTurn(f[i - 1])]
<1>8. turn = [i \in 0 .. Capacity |-> IF i = 0 THEN b ELSE SkipTurn(turn[i - 1])]
  BY Zenon, <1>7
<1>9. SkipFree(b) = turn[Capacity]
  BY DEF SkipFree
<1> HIDE DEF turn
<1> DEFINE S == {i \in Nat : i + 1 <= Capacity => turn[i + 1] = e}
<1>10. 0 \in S
  BY <1>1, <1>5, <1>8
<1>11. ASSUME NEW i \in Nat, i \in S  PROVE i + 1 \in S
  <2> SUFFICES ASSUME i + 2 <= Capacity  PROVE turn[i + 2] = e
    OBVIOUS
  <2>1. turn[i + 1] = e
    BY <1>5, <1>11
  <2>2. PICK k \in 0 .. Capacity : k = i + 2 /\ k # 0 /\ k - 1 = i + 1
    BY <1>5
  <2>3. turn[k] = SkipTurn(turn[k - 1])
    BY <1>8, <2>2
  <2> QED BY <1>3, <2>1, <2>2, <2>3
<1> HIDE DEF S
<1>12. Nat \subseteq S
  BY <1>10, <1>11, NumberInduction
<1>13. turn[Capacity] = e
  <2>1. PICK k \in Nat : k = Capacity - 1 /\ k + 1 = Capacity
    BY <1>5
  <2> QED BY <1>12, <2>1 DEF S
<1> QED BY <1>2, <1>9, <1>13

\* The items of d are those of b but the one at c, and those of e are those of d.
LEMMA SurviveTwice ==
  ASSUME NEW b, Shape(b), NEW d, NEW e, NEW c, Survive(b, c, d), Survive(d, Capacity, e)
  PROVE  Survive(b, c, e)
<1>1. Capacity \notin Blocks(b)
  BY ShapeNumbers
<1>2. /\ e.recycle = b.recycle
      /\ \A o : o \in Blocks(e) /\ ~ IsFree(e, o) <=> o \in Blocks(d) /\ ~ IsFree(d, o) /\ o # Capacity
      /\ \A o : o \in Blocks(d) /\ ~ IsFree(d, o) <=> o \in Blocks(b) /\ ~ IsFree(b, o) /\ o # c
  BY DEF Survive
<1>3. \A o \in Blocks(e) : ~ IsFree(e, o) => o \in Blocks(d) /\ ~ IsFree(d, o)
  BY <1>2
<1>4. \A o : o \in Blocks(e) /\ ~ IsFree(e, o) <=> o \in Blocks(b) /\ ~ IsFree(b, o) /\ o # c
  BY <1>1, <1>2
<1>5. ASSUME NEW o \in Blocks(e), ~ IsFree(e, o)
      PROVE  Siz(e, o) = Siz(b, o) /\ e.mem[o].item = b.mem[o].item
  BY <1>3, <1>5 DEF Survive
<1>6. ASSUME NEW o \in Blocks(e), NEW p \in Blocks(e), ~ IsFree(e, o), ~ IsFree(e, p)
      PROVE  Before(b.consume, o, p) <=> Before(e.consume, o, p)
  BY <1>3, <1>6 DEF Survive
<1> QED BY <1>2, <1>4, <1>5, <1>6 DEF Survive

LEMMA PopEffect ==
  ASSUME NEW b, Solid(b), ~ IsFree(b, b.consume), NEW d, d = PopFirst(b)
  PROVE  Solid(d) /\ Survive(b, b.consume, d) /\ ArcLength(d) = ArcLength(b) - Siz(b, b.consume)
<1>1. PICK e : e = MergeConsume(Freed(b))
  OBVIOUS
<1>2. PICK f : f = SkipFree(e)
  OBVIOUS
<1>3. PICK g : g = MergeBack(f, f.consume)
  OBVIOUS
<1>4. d = g
  <2>1. CanPop(b)
    BY DEF CanPop, IsFree
  <2> QED BY Zenon, <1>1, <1>2, <1>3, <2>1 DEF PopFirst, Freed
<1>5. Loose(e) /\ Survive(b, b.consume, e) /\ ArcLength(e) = ArcLength(b) - Siz(b, b.consume)
  BY <1>1, PopStart
<1>6. /\ Loose(f) /\ Survive(e, Capacity, f) /\ ArcLength(f) = ArcLength(e)
      /\ IsFree(f, f.consume) => f.consume = f.produce
  BY <1>2, <1>5, SkipEffect
<1>7. Solid(g) /\ Survive(f, Capacity, g) /\ ArcLength(g) = ArcLength(f)
  BY <1>3, <1>6, PopEnd
<1>8. Survive(b, b.consume, g)
  <2>1. Shape(b)
    BY DEF Solid
  <2>2. Survive(b, b.consume, f)
    BY <1>5, <1>6, <2>1, SurviveTwice
  <2> QED BY <1>7, <2>1, <2>2, SurviveTwice
<1> QED BY <1>4, <1>5, <1>6, <1>7, <1>8

-----------------------------------------------------------------------------
(* Allocate: the block that is found is split and taken.                    *)

\* The blocks that Split leaves when it splits.
LEMMA SplitEffect ==
  ASSUME NEW b, Typed(b), Shape(b), NEW o \in Blocks(b), NEW want \in Nat \ {0},
         want + 1 < Siz(b, o), NEW n, n = o + want, NEW d, d = Split(b, o, want)
  PROVE  /\ Typed(d) /\ n \notin Blocks(b) /\ o < n /\ n < Nxt(b, o)
         /\ Blocks(d) = Blocks(b) \cup {n}
         /\ d.produce = b.produce /\ d.consume = b.consume
         /\ d.last = IF b.last = o THEN n ELSE b.last
         /\ d.recycle = b.recycle
         /\ IsFree(d, n) /\ Nxt(d, n) = Nxt(b, o) /\ Siz(d, n) = Siz(b, o) - want
         /\ Prv(d, n) = o /\ d.mem[n].item = "none"
         /\ \A i \in Blocks(b) :
              /\ IsFree(d, i) = IsFree(b, i) /\ d.mem[i].item = b.mem[i].item
              /\ Nxt(d, i) = IF i = o THEN n ELSE Nxt(b, i)
              /\ Siz(d, i) = IF i = o THEN want ELSE Siz(b, i)
              /\ Prv(d, i) = IF i = Nxt(b, o) THEN n ELSE Prv(b, i)
<1>1. /\ o \in Int /\ n \in Int /\ Capacity \in Int /\ 0 <= o /\ o < n /\ n < Nxt(b, o)
      /\ Nxt(b, o) <= Capacity /\ Nxt(b, o) \in Int /\ Siz(b, o) \in Int /\ Siz(b, o) <= Capacity
      /\ (Nxt(b, o) = Capacity <=> o = b.last)
  BY ShapeNumbers
<1>2. n \notin Blocks(b) /\ Nxt(b, o) # o
  <2>1. \A i \in Blocks(b) : o < i => Nxt(b, o) <= i
    BY DEF Shape
  <2> QED BY <1>1, <2>1
<1> DEFINE S == DOMAIN b.mem \cup {o + want}
           x == b.mem[o].next
           e(i) == CASE i = o -> [b.mem[o] EXCEPT !.next = o + want, !.size = want]
                     [] i = o + want -> [prev |-> o, next |-> b.mem[o].next, free |-> TRUE,
                                         size |-> b.mem[o].size - want, item |-> "none"]
                     [] i = b.mem[o].next -> [b.mem[i] EXCEPT !.prev = o + want]
                     [] OTHER -> b.mem[i]
           m == [i \in S |-> e(i)]
           l == IF b.mem[o].next = Nil THEN o + want ELSE b.last
<1>3. d = [b EXCEPT !.mem = m, !.last = l]
  <2>1. ~ (b.mem[o].size <= want + 1)
    BY <1>1 DEF Siz
  <2> QED BY Zenon, <2>1 DEF Split
<1>4. S = Blocks(b) \cup {n} /\ x = Nxt(b, o)
  BY DEF Blocks, Nxt
<1>5. b = [mem |-> b.mem, produce |-> b.produce, consume |-> b.consume, last |-> b.last,
           recycle |-> b.recycle]
  BY DEF Typed
<1> HIDE DEF e
<1>6. m = [i \in S |-> m[i]] /\ S = DOMAIN m /\ \A i \in S : m[i] = e(i)
  OBVIOUS
<1> HIDE DEF m, S, l
<1>7. d = [mem |-> m, produce |-> b.produce, consume |-> b.consume, last |-> l,
           recycle |-> b.recycle]
  BY <1>3, <1>5
<1>8. l = IF b.last = o THEN n ELSE b.last
  <2>1. (b.mem[o].next = Nil) <=> (b.last = o)
    BY <1>1 DEF Nil, Nxt
  <2> QED BY Zenon, <2>1 DEF l
<1>9. ASSUME NEW i \in Blocks(b)
      PROVE  /\ m[i].free = IsFree(b, i) /\ m[i].item = b.mem[i].item
             /\ m[i].next = IF i = o THEN n ELSE Nxt(b, i)
             /\ m[i].size = IF i = o THEN want ELSE Siz(b, i)
             /\ m[i].prev = IF i = Nxt(b, o) THEN n ELSE Prv(b, i)
             /\ m[i] = [prev |-> m[i].prev, next |-> m[i].next, free |-> m[i].free,
                        size |-> m[i].size, item |-> m[i].item]
  <2>1. PICK r : r = b.mem[i] /\ r = [prev |-> r.prev, next |-> r.next, free |-> r.free,
                                      size |-> r.size, item |-> r.item]
    BY TypedIs
  <2>2. /\ r.free = IsFree(b, i) /\ r.next = Nxt(b, i) /\ r.size = Siz(b, i)
        /\ r.prev = Prv(b, i) /\ r.item = b.mem[i].item
    BY <2>1 DEF IsFree, Nxt, Siz, Prv
  <2>3. i # n /\ i \in S
    BY <1>2, <1>4
  <2>4. PICK v : v = m[i] /\ v = e(i)
    BY <1>6, <2>3
  <2>5. CASE i = o
    <3>0. o # o + want /\ o # b.mem[o].next
      BY <1>1, <1>2 DEF Nxt
    <3>1. e(i) = [b.mem[o] EXCEPT !.next = o + want, !.size = want]
      BY Zenon, <2>5, <3>0 DEF e
    <3>1a. e(i) = [r EXCEPT !.next = n, !.size = want]
      BY Zenon, <2>1, <2>5, <3>1
    <3>2. v = [prev |-> r.prev, next |-> n, free |-> r.free, size |-> want, item |-> r.item]
      BY <2>1, <2>4, <3>1a
    <3>3. /\ v.prev = r.prev /\ v.next = n /\ v.free = r.free /\ v.size = want /\ v.item = r.item
          /\ v = [prev |-> v.prev, next |-> v.next, free |-> v.free, size |-> v.size, item |-> v.item]
      BY <3>2
    <3> QED BY Zenon, <1>2, <2>2, <2>4, <2>5, <3>3
  <2>6. CASE i # o /\ i = x
    <3>1. e(i) = [r EXCEPT !.prev = n]
      BY Zenon, <2>1, <2>3, <2>6 DEF e
    <3>2. v = [prev |-> n, next |-> r.next, free |-> r.free, size |-> r.size, item |-> r.item]
      BY <2>1, <2>4, <3>1
    <3>3. /\ v.prev = n /\ v.next = r.next /\ v.free = r.free /\ v.size = r.size /\ v.item = r.item
          /\ v = [prev |-> v.prev, next |-> v.next, free |-> v.free, size |-> v.size, item |-> v.item]
      BY <3>2
    <3> QED BY Zenon, <1>4, <2>2, <2>4, <2>6, <3>3
  <2>7. CASE i # o /\ i # x
    <3>1. e(i) = r
      BY Zenon, <2>1, <2>3, <2>7 DEF e
    <3>2. v = r
      BY <2>4, <3>1
    <3> QED BY Zenon, <1>4, <2>1, <2>2, <2>4, <2>7, <3>2
  <2> QED BY <2>5, <2>6, <2>7
<1>10. /\ m[n].free = TRUE /\ m[n].next = Nxt(b, o) /\ m[n].size = Siz(b, o) - want
       /\ m[n].prev = o /\ m[n].item = "none"
       /\ m[n] = [prev |-> m[n].prev, next |-> m[n].next, free |-> m[n].free,
                  size |-> m[n].size, item |-> m[n].item]
  <2>1. m[n] = e(n)
    BY <1>4, <1>6
  <2>2. n # o /\ n # b.mem[o].next
    BY <1>1 DEF Nxt
  <2>3. e(n) = [prev |-> o, next |-> b.mem[o].next, free |-> TRUE,
                size |-> b.mem[o].size - want, item |-> "none"]
    BY Zenon, <2>2 DEF e
  <2>4. m[n] = [prev |-> o, next |-> Nxt(b, o), free |-> TRUE,
                size |-> Siz(b, o) - want, item |-> "none"]
    BY Zenon, <2>1, <2>3 DEF Nxt, Siz
  <2> QED BY <2>4
<1>11. Typed(d)
  <2>1. ASSUME NEW i \in S
        PROVE  /\ m[i].prev \in 0 .. Capacity /\ m[i].next \in 0 .. Capacity
               /\ m[i].free \in BOOLEAN /\ m[i].size \in 1 .. Capacity
               /\ m[i].item \in Values \cup {"none"}
               /\ m[i] = [prev |-> m[i].prev, next |-> m[i].next, free |-> m[i].free,
                          size |-> m[i].size, item |-> m[i].item]
    <3>1. CASE i = n
      <4>1. /\ o \in 0 .. Capacity /\ Nxt(b, o) \in 0 .. Capacity
            /\ Siz(b, o) - want \in 1 .. Capacity
        BY <1>1
      <4> QED BY <1>10, <3>1, <4>1
    <3>2. CASE i # n
      <4>1. i \in Blocks(b)
        BY <1>4, <3>2
      <4>2. b.mem[i].item \in Values \cup {"none"}
        BY <4>1, TypedIs
      <4>3. n \in 0 .. Capacity /\ want \in 1 .. Capacity
        BY <1>1
      <4>4. /\ Prv(b, i) \in 0 .. Capacity /\ Nxt(b, i) \in 0 .. Capacity
            /\ IsFree(b, i) \in BOOLEAN /\ Siz(b, i) \in 1 .. Capacity
        BY <4>1 DEF Shape
      <4> QED BY <1>9, <4>1, <4>2, <4>3, <4>4
    <3> QED BY <3>1, <3>2
  <2>2. m = [i \in S |-> m[i]]
    BY <1>6
  <2>3. S \in SUBSET (0 .. Capacity - 1) /\ b.produce \in S /\ b.consume \in S /\ l \in S
        /\ b.recycle \in BOOLEAN
    <3>1. /\ Blocks(b) \subseteq 0 .. Capacity - 1 /\ b.recycle \in BOOLEAN
          /\ b.produce \in Blocks(b) /\ b.consume \in Blocks(b) /\ b.last \in Blocks(b)
      BY TypedIs
    <3>2. n \in 0 .. Capacity - 1
      BY <1>1
    <3> QED BY <1>4, <1>8, <3>1, <3>2
  <2>4. \A i \in S :
               /\ m[i].prev \in 0 .. Capacity /\ m[i].next \in 0 .. Capacity
               /\ m[i].free \in BOOLEAN /\ m[i].size \in 1 .. Capacity
               /\ m[i].item \in Values \cup {"none"}
               /\ m[i] = [prev |-> m[i].prev, next |-> m[i].next, free |-> m[i].free,
                          size |-> m[i].size, item |-> m[i].item]
    BY <2>1
  <2>5. Typed([mem |-> m, produce |-> b.produce, consume |-> b.consume, last |-> l,
               recycle |-> b.recycle])
    BY Zenon, <2>2, <2>3, <2>4, TypedFrom
  <2> QED BY <1>7, <2>5
<1>12. /\ d.mem = m /\ d.produce = b.produce /\ d.consume = b.consume /\ d.last = l
       /\ d.recycle = b.recycle
  BY <1>7
<1>13. Blocks(d) = S
  BY <1>6, <1>12 DEF Blocks
<1>14. ASSUME NEW i \in Blocks(b)
       PROVE  /\ IsFree(d, i) = IsFree(b, i) /\ d.mem[i].item = b.mem[i].item
              /\ Nxt(d, i) = IF i = o THEN n ELSE Nxt(b, i)
              /\ Siz(d, i) = IF i = o THEN want ELSE Siz(b, i)
              /\ Prv(d, i) = IF i = Nxt(b, o) THEN n ELSE Prv(b, i)
  BY Zenon, <1>9, <1>12 DEF IsFree, Nxt, Siz, Prv
<1>15. /\ IsFree(d, n) /\ Nxt(d, n) = Nxt(b, o) /\ Siz(d, n) = Siz(b, o) - want
       /\ Prv(d, n) = o /\ d.mem[n].item = "none"
  <2>1. d.mem[n] = m[n]
    BY <1>12
  <2>2. d.mem[n].free = TRUE
    BY <1>10, <2>1
  <2> QED BY Zenon, <1>10, <2>1, <2>2 DEF IsFree, Nxt, Siz, Prv
<1> QED BY <1>1, <1>2, <1>4, <1>8, <1>11, <1>12, <1>13, <1>14, <1>15

LEMMA SplitShape ==
  ASSUME NEW b, Typed(b), Shape(b), NEW o \in Blocks(b), NEW want \in Nat \ {0},
         want + 1 < Siz(b, o), NEW d, d = Split(b, o, want)
  PROVE  Shape(d)
<1>1. PICK n : n = o + want
  OBVIOUS
<1>2. /\ n \notin Blocks(b) /\ o < n /\ n < Nxt(b, o)
      /\ Blocks(d) = Blocks(b) \cup {n}
      /\ d.produce = b.produce /\ d.consume = b.consume
      /\ d.last = IF b.last = o THEN n ELSE b.last
      /\ IsFree(d, n) /\ Nxt(d, n) = Nxt(b, o) /\ Siz(d, n) = Siz(b, o) - want
      /\ Prv(d, n) = o /\ Typed(d)
      /\ \A i \in Blocks(b) :
           /\ IsFree(d, i) = IsFree(b, i)
           /\ Nxt(d, i) = IF i = o THEN n ELSE Nxt(b, i)
           /\ Siz(d, i) = IF i = o THEN want ELSE Siz(b, i)
           /\ Prv(d, i) = IF i = Nxt(b, o) THEN n ELSE Prv(b, i)
  BY <1>1, SplitEffect
<1>3. /\ Capacity \in Int /\ Capacity > 0 /\ o \in Int /\ 0 <= o /\ n \in Int /\ n < Capacity
      /\ Nxt(b, o) \in Int /\ Nxt(b, o) <= Capacity /\ Capacity \notin Blocks(b) /\ o <= b.last
      /\ b.last \in Int /\ b.last < Capacity /\ Nxt(b, o) = o + Siz(b, o) /\ Siz(b, o) \in Int
      /\ (Nxt(b, o) = Capacity <=> o = b.last)
      /\ (o # b.last => Nxt(b, o) \in Blocks(b))
  BY <1>1, <1>2, ShapeNumbers
<1>4. /\ 0 \in Blocks(d) /\ Prv(d, 0) = Capacity
      /\ d.produce \in Blocks(d) /\ d.consume \in Blocks(d) /\ d.last \in Blocks(d)
  BY <1>2, <1>3 DEF Shape
<1>5. \A i \in Blocks(d) : IsFree(d, i) \in BOOLEAN
  <2> SUFFICES ASSUME NEW i \in Blocks(d)  PROVE IsFree(d, i) \in BOOLEAN
    OBVIOUS
  <2> QED BY <1>2, TypedIs DEF IsFree
<1>6. ASSUME NEW i \in Blocks(d)
      PROVE  /\ i \in 0 .. Capacity - 1 /\ Siz(d, i) \in 1 .. Capacity
             /\ Nxt(d, i) \in 0 .. Capacity /\ Nxt(d, i) = i + Siz(d, i)
             /\ Prv(d, i) \in 0 .. Capacity
  <2>1. CASE i = n
    <3>1. Siz(b, o) <= Capacity
      BY <1>3
    <3> QED BY <1>1, <1>2, <1>3, <2>1, <3>1
  <2>2. CASE i # n
    <3>1. /\ i \in Blocks(b) /\ i \in 0 .. Capacity - 1 /\ Siz(b, i) \in 1 .. Capacity
          /\ Nxt(b, i) \in 0 .. Capacity /\ Nxt(b, i) = i + Siz(b, i)
          /\ Prv(b, i) \in 0 .. Capacity
      BY <1>2, <2>2 DEF Shape
    <3> QED BY <1>1, <1>2, <1>3, <3>1
  <2> QED BY <2>1, <2>2
<1>7. ASSUME NEW i \in Blocks(d)
      PROVE  /\ i = d.last => Nxt(d, i) = Capacity
             /\ i # d.last => Nxt(d, i) \in Blocks(d) /\ Prv(d, Nxt(d, i)) = i
  <2>1. CASE i = n
    BY <1>2, <1>3, <2>1 DEF Shape
  <2>2. CASE i = o
    BY <1>2, <1>3, <2>2
  <2>3. CASE i # n /\ i # o
    <3>1. i \in Blocks(b) /\ Nxt(d, i) = Nxt(b, i)
      BY <1>2, <2>3
    <3>2. /\ i = b.last => Nxt(b, i) = Capacity
          /\ i # b.last => Nxt(b, i) \in Blocks(b) /\ Prv(b, Nxt(b, i)) = i
      BY <3>1 DEF Shape
    <3>3. i # b.last => Nxt(b, i) # Nxt(b, o)
      BY <1>3, <2>3, <3>2 DEF Shape
    <3> QED BY <1>2, <1>3, <2>3, <3>1, <3>2, <3>3
  <2> QED BY <2>1, <2>2, <2>3
<1>8. ASSUME NEW i \in Blocks(d), i # 0
      PROVE  Prv(d, i) \in Blocks(d) /\ Nxt(d, Prv(d, i)) = i
  <2>1. CASE i = n
    BY <1>2, <2>1
  <2>2. CASE i # n
    <3>1. i \in Blocks(b)
      BY <1>2, <2>2
    <3>2. CASE i = Nxt(b, o)
      BY <1>2, <3>1, <3>2
    <3>3. CASE i # Nxt(b, o)
      <4>1. Prv(b, i) \in Blocks(b) /\ Nxt(b, Prv(b, i)) = i
        BY <1>8, <3>1 DEF Shape
      <4> QED BY <1>2, <3>1, <3>3, <4>1
    <3> QED BY <3>2, <3>3
  <2> QED BY <2>1, <2>2
<1>9. ASSUME NEW i \in Blocks(d), NEW j \in Blocks(d), i < j  PROVE Nxt(d, i) <= j
  <2>1. \A x, y \in Blocks(b) : x < y => Nxt(b, x) <= y
    BY DEF Shape
  <2>2. i \in Int /\ j \in Int
    BY <1>3, <1>6
  <2>3. CASE i = n
    <3>1. j \in Blocks(b) /\ o < j
      BY <1>2, <1>3, <1>9, <2>2, <2>3
    <3> QED BY <1>2, <2>1, <2>3, <3>1
  <2>4. CASE i = o
    <3>1. CASE j = n
      BY <1>2, <1>3, <2>4, <3>1
    <3>2. CASE j # n
      <4>1. j \in Blocks(b) /\ Nxt(b, o) <= j
        BY <1>2, <1>9, <2>1, <2>4, <3>2
      <4> QED BY <1>2, <1>3, <2>2, <2>4, <4>1
    <3> QED BY <3>1, <3>2
  <2>5. CASE i # n /\ i # o
    <3>1. i \in Blocks(b) /\ Nxt(d, i) = Nxt(b, i) /\ Nxt(b, i) \in Int
      BY <1>2, <2>5, ShapeNumbers
    <3>2. CASE j = n
      <4>1. i < o
        <5>1. ~ (o < i)
          <6>1. o < i => Nxt(b, o) <= i
            BY <2>1, <3>1
          <6> QED BY <1>2, <1>3, <1>9, <2>2, <3>2, <6>1
        <5> QED BY <1>3, <2>2, <2>5, <5>1
      <4>2. Nxt(b, i) <= o
        BY <2>1, <3>1, <4>1
      <4> QED BY <1>2, <1>3, <3>1, <3>2, <4>2
    <3>3. CASE j # n
      BY <1>2, <1>9, <2>1, <3>1, <3>3
    <3> QED BY <3>2, <3>3
  <2> QED BY <2>3, <2>4, <2>5
<1> QED BY <1>4, <1>5, <1>6, <1>7, <1>8, <1>9 DEF Shape

\* "set next block", "set as used"
Marked(b, o, x, v) == [b EXCEPT !.produce = x, !.mem[o].free = FALSE, !.mem[o].item = v]

\* d is b with the block at o used for v, and m_pProduce at x.
MarkedAs(b, o, x, v, d) ==
  /\ Typed(d) /\ Shape(d) /\ Blocks(d) = Blocks(b)
  /\ d.produce = x /\ d.consume = b.consume /\ d.last = b.last
  /\ d.recycle = b.recycle
  /\ \A i \in Blocks(b) :
       /\ (IsFree(d, i) <=> i # o /\ IsFree(b, i))
       /\ d.mem[i].item = (IF i = o THEN v ELSE b.mem[i].item)
       /\ Siz(d, i) = Siz(b, i) /\ Nxt(d, i) = Nxt(b, i) /\ Prv(d, i) = Prv(b, i)

LEMMA MarkEffect ==
  ASSUME NEW b, Typed(b), Shape(b), NEW o \in Blocks(b), NEW x \in Blocks(b), NEW v \in Values,
         NEW d, d = Marked(b, o, x, v)
  PROVE  MarkedAs(b, o, x, v, d)
<1> DEFINE m == [b.mem EXCEPT ![o] = [b.mem[o] EXCEPT !.free = FALSE, !.item = v]]
           S == Blocks(b)
<1>1. b = [mem |-> b.mem, produce |-> b.produce, consume |-> b.consume, last |-> b.last,
           recycle |-> b.recycle]
  BY DEF Typed
<1>2. PICK f : f = b.mem /\ f = [i \in S |-> f[i]] /\ S = DOMAIN f
  BY DEF Typed, Blocks
<1>3. d = [mem |-> m, produce |-> x, consume |-> b.consume, last |-> b.last,
           recycle |-> b.recycle]
  <2>1. PICK g : g = [[f EXCEPT ![o].free = FALSE] EXCEPT ![o].item = v]
    OBVIOUS
  <2>2. g = [f EXCEPT ![o] = [f[o] EXCEPT !.free = FALSE, !.item = v]]
    <3>1. f[o] = [prev |-> f[o].prev, next |-> f[o].next, free |-> f[o].free,
                  size |-> f[o].size, item |-> f[o].item]
      BY <1>2, TypedIs
    <3> QED BY <1>2, <2>1, <3>1
  <2>3. g = m
    BY <1>2, <2>2
  <2>4. d = [mem |-> g, produce |-> x, consume |-> b.consume, last |-> b.last,
             recycle |-> b.recycle]
    BY <1>1, <1>2, <2>1 DEF Marked
  <2> QED BY <2>3, <2>4
<1>4. ASSUME NEW i \in S
      PROVE  /\ f[i].prev \in 0 .. Capacity /\ f[i].next \in 0 .. Capacity
             /\ f[i].free \in BOOLEAN /\ f[i].size \in 1 .. Capacity
             /\ f[i].item \in Values \cup {"none"}
             /\ f[i] = [prev |-> f[i].prev, next |-> f[i].next, free |-> f[i].free,
                        size |-> f[i].size, item |-> f[i].item]
  BY <1>2, TypedIs
<1>5. m = [f EXCEPT ![o] = [f[o] EXCEPT !.free = FALSE, !.item = v]]
  BY <1>2
<1> HIDE DEF m, S
<1>6. o \in S /\ x \in S
  BY DEF S
<1>7. DOMAIN m = S /\ m = [i \in S |-> m[i]]
      /\ \A i \in S : m[i] = IF i = o THEN [f[o] EXCEPT !.free = FALSE, !.item = v] ELSE f[i]
  BY <1>2, <1>5, <1>6
<1>8. ASSUME NEW i \in S
      PROVE  /\ m[i].prev = f[i].prev /\ m[i].next = f[i].next /\ m[i].size = f[i].size
             /\ m[i].item = (IF i = o THEN v ELSE f[i].item)
             /\ m[i].free = (IF i = o THEN FALSE ELSE f[i].free)
             /\ m[i] = [prev |-> m[i].prev, next |-> m[i].next, free |-> m[i].free,
                        size |-> m[i].size, item |-> m[i].item]
  <2>1. CASE i = o
    <3>1. m[i] = [prev |-> f[i].prev, next |-> f[i].next, free |-> FALSE,
                  size |-> f[i].size, item |-> v]
      BY <1>4, <1>7, <2>1
    <3> QED BY <2>1, <3>1
  <2>2. CASE i # o
    BY <1>4, <1>7, <2>2
  <2> QED BY <2>1, <2>2
<1>9. Typed(d)
  <2>1. \A i \in S : /\ m[i].prev \in 0 .. Capacity /\ m[i].next \in 0 .. Capacity
                      /\ m[i].free \in BOOLEAN /\ m[i].size \in 1 .. Capacity
                      /\ m[i].item \in Values \cup {"none"}
                      /\ m[i] = [prev |-> m[i].prev, next |-> m[i].next, free |-> m[i].free,
                                 size |-> m[i].size, item |-> m[i].item]
    BY <1>4, <1>8
  <2>2. m = [i \in S |-> m[i]]
    BY <1>7
  <2>3. S \in SUBSET (0 .. Capacity - 1) /\ x \in S /\ b.consume \in S /\ b.last \in S
        /\ b.recycle \in BOOLEAN
    BY <1>6, TypedIs DEF S
  <2>4. Typed([mem |-> m, produce |-> x, consume |-> b.consume, last |-> b.last,
               recycle |-> b.recycle])
    BY Zenon, <2>1, <2>2, <2>3, TypedFrom
  <2> QED BY <1>3, <2>4
<1>10. /\ d.mem = m /\ d.produce = x /\ d.consume = b.consume /\ d.last = b.last
       /\ d.recycle = b.recycle
  BY <1>3
<1>11. Blocks(d) = S /\ S = Blocks(b)
  BY <1>7, <1>10 DEF Blocks, S
<1>12. ASSUME NEW i \in Blocks(b)
       PROVE  /\ (IsFree(d, i) <=> i # o /\ IsFree(b, i))
              /\ d.mem[i].item = (IF i = o THEN v ELSE b.mem[i].item)
              /\ Siz(d, i) = Siz(b, i) /\ Nxt(d, i) = Nxt(b, i) /\ Prv(d, i) = Prv(b, i)
  <2>1. d.mem[i] = m[i] /\ f[i] = b.mem[i] /\ i \in S
    BY <1>2, <1>10, <1>11
  <2>2. /\ m[i].prev = f[i].prev /\ m[i].next = f[i].next /\ m[i].size = f[i].size
        /\ m[i].item = (IF i = o THEN v ELSE f[i].item)
        /\ m[i].free = (IF i = o THEN FALSE ELSE f[i].free)
    BY <1>8, <2>1
  <2>3. IsFree(d, i) = IF i = o THEN FALSE ELSE IsFree(b, i)
    BY Zenon, <2>1, <2>2 DEF IsFree
  <2>4. CASE i = o
    BY Zenon, <2>1, <2>2, <2>3, <2>4 DEF Siz, Nxt, Prv
  <2>5. CASE i # o
    BY Zenon, <2>1, <2>2, <2>3, <2>5 DEF Siz, Nxt, Prv
  <2> QED BY <2>4, <2>5
<1>13. Shape(d)
  <2>1. \A i \in Blocks(b) : IsFree(d, i) \in BOOLEAN
    <3> SUFFICES ASSUME NEW i \in Blocks(d)  PROVE IsFree(d, i) \in BOOLEAN
      BY <1>11
    <3> QED BY <1>9, TypedIs DEF IsFree
  <2>2. /\ d.produce \in Blocks(b) /\ d.consume \in Blocks(b) /\ d.last = b.last
        /\ Blocks(d) = Blocks(b)
    BY <1>10, <1>11 DEF Shape
  <2>3. \A i \in Blocks(b) : /\ Siz(d, i) = Siz(b, i) /\ Nxt(d, i) = Nxt(b, i)
                            /\ Prv(d, i) = Prv(b, i)
    BY <1>12
  <2> QED BY <2>1, <2>2, <2>3, SameShape
<1> QED BY <1>9, <1>10, <1>11, <1>12, <1>13 DEF MarkedAs

\* The block at o is taken, for an item of z headers.
Placed(b, o, z, v, d) ==
  /\ Typed(d) /\ Shape(d) /\ o + z <= Nxt(b, o)
  /\ d.consume = b.consume /\ d.recycle = b.recycle
  /\ d.produce = IF o + z = Capacity THEN 0 ELSE o + z
  /\ d.last = IF b.last = o /\ o + z # Nxt(b, o) THEN o + z ELSE b.last
  /\ \A i : i \in Blocks(d) <=> i \in Blocks(b) \/ (i = o + z /\ o + z # Nxt(b, o))
  /\ o + z # Nxt(b, o) => o + z \notin Blocks(b) /\ IsFree(d, o + z) /\ Nxt(d, o + z) = Nxt(b, o)
  /\ \A i \in Blocks(b) :
       /\ (IsFree(d, i) <=> i # o /\ IsFree(b, i))
       /\ d.mem[i].item = (IF i = o THEN v ELSE b.mem[i].item)
       /\ Siz(d, i) = (IF i = o THEN z ELSE Siz(b, i))
       /\ Nxt(d, i) = (IF i = o THEN o + z ELSE Nxt(b, i))

LEMMA TakeEffect ==
  ASSUME NEW b, Typed(b), Shape(b), NEW o \in Blocks(b), NEW want \in Nat \ {0},
         want <= Siz(b, o), NEW v \in Values, NEW d, d = Take(b, o, want, v)
  PROVE  \E z \in {want, want + 1} : Placed(b, o, z, v, d)
<1>1. PICK e : e = Split(b, o, want)
  OBVIOUS
<1>2. PICK x : x = NextBlock(e, o)
  OBVIOUS
<1>3. d = Marked(e, o, x, v)
  BY Zenon, <1>1, <1>2 DEF Take, Marked
<1>4. /\ o \in Int /\ 0 <= o /\ Siz(b, o) \in Int /\ Nxt(b, o) = o + Siz(b, o) /\ Nxt(b, o) \in Int
      /\ Nxt(b, o) <= Capacity /\ Capacity \in Int /\ 0 \in Blocks(b)
      /\ (Nxt(b, o) = Capacity <=> o = b.last)
      /\ (o # b.last => Nxt(b, o) \in Blocks(b))
  BY ShapeNumbers
<1>5. x = IF Nxt(e, o) = Capacity THEN 0 ELSE Nxt(e, o)
  BY <1>2 DEF NextBlock, Nxt, Nil, First
<1>6. CASE Siz(b, o) <= want + 1
  <2>1. e = b
    <3>1. b.mem[o].size <= want + 1
      BY <1>6 DEF Siz
    <3> QED BY Zenon, <1>1, <3>1 DEF Split
  <2>2. PICK z \in {want, want + 1} : z = Siz(b, o) /\ o + z = Nxt(b, o)
    BY <1>4, <1>6
  <2>3. x \in Blocks(b)
    BY <1>4, <1>5, <2>1
  <2>4. /\ Typed(d) /\ Shape(d) /\ Blocks(d) = Blocks(b)
        /\ d.produce = x /\ d.consume = b.consume /\ d.last = b.last
        /\ d.recycle = b.recycle
        /\ \A i \in Blocks(b) :
             /\ (IsFree(d, i) <=> i # o /\ IsFree(b, i))
             /\ d.mem[i].item = (IF i = o THEN v ELSE b.mem[i].item)
             /\ Siz(d, i) = Siz(b, i) /\ Nxt(d, i) = Nxt(b, i) /\ Prv(d, i) = Prv(b, i)
    <3>1. MarkedAs(b, o, x, v, d)
      BY <1>3, <2>1, <2>3, MarkEffect
    <3> QED BY Zenon, <3>1 DEF MarkedAs
  <2>5. Placed(b, o, z, v, d)
    <3>1. \A i : i \in Blocks(d) <=> i \in Blocks(b) \/ (i = o + z /\ o + z # Nxt(b, o))
      BY <2>2, <2>4
    <3>2. d.produce = IF o + z = Capacity THEN 0 ELSE o + z
      BY <1>5, <2>1, <2>2, <2>4
    <3>3. d.last = (IF b.last = o /\ o + z # Nxt(b, o) THEN o + z ELSE b.last)
          /\ o + z <= Nxt(b, o)
      BY <1>4, <2>2, <2>4
    <3>4. \A i \in Blocks(b) :
            /\ (IsFree(d, i) <=> i # o /\ IsFree(b, i))
            /\ d.mem[i].item = (IF i = o THEN v ELSE b.mem[i].item)
            /\ Siz(d, i) = (IF i = o THEN z ELSE Siz(b, i))
            /\ Nxt(d, i) = (IF i = o THEN o + z ELSE Nxt(b, i))
      <4> SUFFICES ASSUME NEW i \in Blocks(b)
                   PROVE  /\ (IsFree(d, i) <=> i # o /\ IsFree(b, i))
                          /\ d.mem[i].item = (IF i = o THEN v ELSE b.mem[i].item)
                          /\ Siz(d, i) = (IF i = o THEN z ELSE Siz(b, i))
                          /\ Nxt(d, i) = (IF i = o THEN o + z ELSE Nxt(b, i))
        OBVIOUS
      <4>1. Siz(d, i) = Siz(b, i) /\ Nxt(d, i) = Nxt(b, i)
        BY <2>4
      <4>2. CASE i = o
        BY Zenon, <2>2, <2>4, <4>1, <4>2
      <4>3. CASE i # o
        BY Zenon, <2>2, <2>4, <4>1, <4>3
      <4> QED BY <4>2, <4>3
    <3> QED BY Zenon, <2>2, <2>4, <3>1, <3>2, <3>3, <3>4 DEF Placed
  <2> QED BY <2>2, <2>5
<1>7. CASE ~ (Siz(b, o) <= want + 1)
  <2>1. want + 1 < Siz(b, o)
    BY <1>4, <1>7
  <2>2. PICK n \in Int : n = o + want
    BY <1>4
  <2>3. /\ Typed(e) /\ n \notin Blocks(b) /\ o < n /\ n < Nxt(b, o)
        /\ Blocks(e) = Blocks(b) \cup {n}
        /\ e.produce = b.produce /\ e.consume = b.consume
        /\ e.last = (IF b.last = o THEN n ELSE b.last)
        /\ e.recycle = b.recycle
        /\ IsFree(e, n) /\ Nxt(e, n) = Nxt(b, o)
        /\ \A i \in Blocks(b) :
             /\ IsFree(e, i) = IsFree(b, i) /\ e.mem[i].item = b.mem[i].item
             /\ Nxt(e, i) = (IF i = o THEN n ELSE Nxt(b, i))
             /\ Siz(e, i) = (IF i = o THEN want ELSE Siz(b, i))
    BY <1>1, <2>1, <2>2, SplitEffect
  <2>4. Shape(e)
    BY <1>1, <2>1, SplitShape
  <2>5. x = n /\ n # Capacity /\ n \in Blocks(e) /\ o \in Blocks(e)
    BY <1>4, <1>5, <2>3
  <2>6. /\ Typed(d) /\ Shape(d) /\ Blocks(d) = Blocks(e)
        /\ d.produce = n /\ d.consume = e.consume /\ d.last = e.last
        /\ d.recycle = e.recycle
        /\ \A i \in Blocks(e) :
             /\ (IsFree(d, i) <=> i # o /\ IsFree(e, i))
             /\ d.mem[i].item = (IF i = o THEN v ELSE e.mem[i].item)
             /\ Siz(d, i) = Siz(e, i) /\ Nxt(d, i) = Nxt(e, i) /\ Prv(d, i) = Prv(e, i)
    <3>1. d = Marked(e, o, n, v) /\ Typed(e) /\ n \in Blocks(e)
      BY <1>3, <2>3, <2>5
    <3>2. MarkedAs(e, o, n, v, d)
      BY <2>4, <2>5, <3>1, MarkEffect
    <3> QED BY Zenon, <3>2 DEF MarkedAs
  <2>7. \A i \in Blocks(b) :
          /\ (IsFree(d, i) <=> i # o /\ IsFree(b, i))
          /\ d.mem[i].item = (IF i = o THEN v ELSE b.mem[i].item)
          /\ Siz(d, i) = (IF i = o THEN want ELSE Siz(b, i))
          /\ Nxt(d, i) = (IF i = o THEN n ELSE Nxt(b, i))
    <3> SUFFICES ASSUME NEW i \in Blocks(b)
                 PROVE  /\ (IsFree(d, i) <=> i # o /\ IsFree(b, i))
                        /\ d.mem[i].item = (IF i = o THEN v ELSE b.mem[i].item)
                        /\ Siz(d, i) = (IF i = o THEN want ELSE Siz(b, i))
                        /\ Nxt(d, i) = (IF i = o THEN n ELSE Nxt(b, i))
      OBVIOUS
    <3>1. i \in Blocks(e) /\ IsFree(e, i) = IsFree(b, i) /\ e.mem[i].item = b.mem[i].item
          /\ Nxt(e, i) = (IF i = o THEN n ELSE Nxt(b, i))
          /\ Siz(e, i) = (IF i = o THEN want ELSE Siz(b, i))
      BY <2>3
    <3>2. IsFree(d, i) <=> i # o /\ IsFree(e, i)
      BY <2>6, <3>1
    <3>3. d.mem[i].item = (IF i = o THEN v ELSE e.mem[i].item) /\ Siz(d, i) = Siz(e, i)
          /\ Nxt(d, i) = Nxt(e, i)
      BY <2>6, <3>1
    <3>4. d.mem[i].item = (IF i = o THEN v ELSE b.mem[i].item)
      BY Zenon, <3>1, <3>3
    <3> QED BY Zenon, <3>1, <3>2, <3>3, <3>4
  <2>8. IsFree(d, n) /\ Nxt(d, n) = Nxt(b, o) /\ n # o
    BY <2>3, <2>5, <2>6
  <2>9. Placed(b, o, want, v, d)
    <3>1. \A i : i \in Blocks(d) <=> i \in Blocks(b) \/ (i = n /\ n # Nxt(b, o))
      BY <2>3, <2>6
    <3>2. d.produce = IF n = Capacity THEN 0 ELSE n
      BY <2>5, <2>6
    <3>3. d.last = (IF b.last = o /\ n # Nxt(b, o) THEN n ELSE b.last) /\ n <= Nxt(b, o)
      BY <1>4, <2>3, <2>6
    <3>4. d.consume = b.consume /\ d.recycle = b.recycle /\ Typed(d) /\ Shape(d)
      BY <2>3, <2>6
    <3> QED BY Zenon, <2>2, <2>3, <2>7, <2>8, <3>1, <3>2, <3>3, <3>4 DEF Placed
  <2> QED BY <2>9
<1> QED BY <1>6, <1>7

\* What Solid says of a buffer whose m_pProduce is free.
LEMMA RoomAtProduce ==
  ASSUME NEW b, Solid(b), NEW c, NEW p, c = b.consume, p = b.produce, IsFree(b, p)
  PROVE  /\ c \in Int /\ p \in Int /\ c \in Blocks(b) /\ p \in Blocks(b) /\ b.last \in Int
         /\ c = p => Blocks(b) = {0} /\ c = 0 /\ Siz(b, 0) = Capacity
         /\ c # p => ~ IsFree(b, c)
         /\ \A i \in Blocks(b) : ~ IsFree(b, i) => Ahead(b, i) /\ c # p
         /\ c < p => /\ p = b.last /\ Nxt(b, p) = Capacity
                     /\ \A i \in Blocks(b) : IsFree(b, i) /\ i # p => i < c
                     /\ \A i \in Blocks(b) : ~ IsFree(b, i) => c <= i /\ i < p
         /\ p < c => /\ \A i \in Blocks(b) : ~ IsFree(b, i) => c <= i \/ i < p
                     /\ \A i \in Blocks(b) : IsFree(b, i) /\ (c <= i \/ i < p) =>
                          i = b.last /\ i # c /\ ~ IsFree(b, 0) /\ Siz(b, i) < Siz(b, 0)
<1>1. Typed(b) /\ Shape(b)
  BY DEF Solid
<1>2. /\ c \in Int /\ p \in Int /\ c \in Blocks(b) /\ p \in Blocks(b) /\ b.last \in Int
      /\ 0 \in Blocks(b) /\ \A i \in Blocks(b) : i \in Int /\ 0 <= i /\ i <= b.last
      /\ Capacity \notin Blocks(b)
      /\ \A i \in Blocks(b) : i # b.last => Nxt(b, i) \in Blocks(b) /\ i < Nxt(b, i)
      /\ Nxt(b, b.last) = Capacity /\ b.last \in Blocks(b)
  BY <1>1, ShapeNumbers
<1>3. \A i \in Blocks(b) : ~ IsFree(b, i) => Ahead(b, i) /\ c # p
  BY <1>2 DEF Solid, Ahead
<1>4. \A i \in Blocks(b) : IsFree(b, i) /\ Ahead(b, i) =>
        /\ i = b.last /\ p <= c /\ i # c /\ c # 0
        /\ ~ IsFree(b, 0) /\ Siz(b, i) < Siz(b, 0)
  BY DEF Solid
<1>5. \A i \in Blocks(b) : IsFree(b, i) /\ Nxt(b, i) \in Blocks(b) => ~ IsFree(b, Nxt(b, i))
  BY DEF Solid
<1>6. c = p => Blocks(b) = {0} /\ c = 0 /\ Siz(b, 0) = Capacity
  <2> SUFFICES ASSUME c = p  PROVE Blocks(b) = {0} /\ c = 0 /\ Siz(b, 0) = Capacity
    OBVIOUS
  <2>1. \A i \in Blocks(b) : IsFree(b, i)
    BY <1>3
  <2>2. \A i \in Blocks(b) : i = b.last
    BY <1>2, <1>5, <2>1
  <2>3. b.last = 0 /\ Blocks(b) = {0}
    BY <1>2, <2>2
  <2>4. Nxt(b, 0) = 0 + Siz(b, 0) /\ Siz(b, 0) \in Int
    BY <1>1, <2>3, ShapeNumbers
  <2> QED BY <1>2, <2>3, <2>4
<1>7. c # p => ~ IsFree(b, c)
  <2> SUFFICES ASSUME c # p, IsFree(b, c)  PROVE FALSE
    OBVIOUS
  <2>1. Ahead(b, c)
    BY <1>2 DEF Ahead
  <2> QED BY <1>2, <1>4, <2>1
<1>8. c < p => /\ p = b.last /\ Nxt(b, p) = Capacity
               /\ \A i \in Blocks(b) : IsFree(b, i) /\ i # p => i < c
               /\ \A i \in Blocks(b) : ~ IsFree(b, i) => c <= i /\ i < p
  <2> SUFFICES ASSUME c < p
               PROVE  /\ p = b.last /\ Nxt(b, p) = Capacity
                      /\ \A i \in Blocks(b) : IsFree(b, i) /\ i # p => i < c
                      /\ \A i \in Blocks(b) : ~ IsFree(b, i) => c <= i /\ i < p
    OBVIOUS
  <2>1. \A i \in Blocks(b) : ~ IsFree(b, i) => c <= i /\ i < p
    BY <1>2, <1>3 DEF Ahead
  <2>2. p = b.last
    <3> SUFFICES ASSUME p # b.last  PROVE FALSE
      OBVIOUS
    <3>1. Nxt(b, p) \in Blocks(b) /\ p < Nxt(b, p) /\ ~ IsFree(b, Nxt(b, p))
      BY <1>2, <1>5
    <3> QED BY <1>2, <2>1, <3>1
  <2>3. ASSUME NEW i \in Blocks(b), IsFree(b, i), i # p  PROVE i < c
    <3>1. i < p
      BY <1>2, <2>2, <2>3
    <3>2. ~ Ahead(b, i)
      BY <1>2, <1>4, <2>3
    <3> QED BY <1>2, <3>1, <3>2 DEF Ahead
  <2> QED BY <1>2, <2>1, <2>2, <2>3
<1>9. p < c => /\ \A i \in Blocks(b) : ~ IsFree(b, i) => c <= i \/ i < p
               /\ \A i \in Blocks(b) : IsFree(b, i) /\ (c <= i \/ i < p) =>
                    i = b.last /\ i # c /\ ~ IsFree(b, 0) /\ Siz(b, i) < Siz(b, 0)
  BY <1>2, <1>3, <1>4 DEF Ahead
<1> QED BY <1>2, <1>3, <1>6, <1>7, <1>8, <1>9

\* d is b with the block at o used by an item of z headers.
PutAt(b, o, z, d) ==
  /\ Solid(d) /\ ArcLength(d) = ArcLength(b) + z
  /\ \A i \in Blocks(b) : ~ IsFree(b, i) => Before(b.consume, i, o)

\* The block that FindBlock returns.
LEMMA PutEffect ==
  ASSUME NEW b, Solid(b), NEW o \in Blocks(b), NEW z \in Int, NEW v, NEW d,
         Placed(b, o, z, v, d), z > 0, IsFree(b, o), IsFree(b, b.produce),
         o # b.produce => o = 0 /\ Siz(b, b.produce) < z
  PROVE  PutAt(b, o, z, d)
<1>1. PICK c : c = b.consume
  OBVIOUS
<1>2. PICK p : p = b.produce
  OBVIOUS
<1>3. PICK q : q = d.produce
  OBVIOUS
<1>4. PICK l : l = b.last
  OBVIOUS
<1>5. Typed(b) /\ Shape(b) /\ Typed(d) /\ Shape(d)
  BY DEF Solid, Placed
<1>6. /\ c \in Int /\ p \in Int /\ l \in Int /\ o \in Int /\ Capacity \in Int /\ Capacity > 0
      /\ c \in Blocks(b) /\ p \in Blocks(b) /\ l \in Blocks(b) /\ 0 \in Blocks(b)
      /\ Capacity \notin Blocks(b) /\ q \in Int
      /\ \A i \in Blocks(b) :
           /\ i \in Int /\ 0 <= i /\ i < Capacity /\ i <= l
           /\ Nxt(b, i) \in Int /\ i < Nxt(b, i) /\ Nxt(b, i) <= Capacity
           /\ Siz(b, i) \in Int /\ Nxt(b, i) = i + Siz(b, i)
           /\ (Nxt(b, i) = Capacity <=> i = l)
           /\ (i # l => Nxt(b, i) \in Blocks(b))
      /\ \A i, j \in Blocks(b) : i < j => Nxt(b, i) <= j
  BY <1>1, <1>2, <1>3, <1>4, <1>5, ShapeNumbers
<1>7. /\ d.consume = c /\ q = (IF o + z = Capacity THEN 0 ELSE o + z)
      /\ o + z <= Nxt(b, o)
      /\ d.last = (IF l = o /\ o + z # Nxt(b, o) THEN o + z ELSE l)
      /\ \A i : i \in Blocks(d) <=> i \in Blocks(b) \/ (i = o + z /\ o + z # Nxt(b, o))
      /\ (o + z # Nxt(b, o) => /\ o + z \notin Blocks(b) /\ IsFree(d, o + z)
                               /\ Nxt(d, o + z) = Nxt(b, o))
      /\ \A i \in Blocks(b) :
           /\ (IsFree(d, i) <=> i # o /\ IsFree(b, i))
           /\ Siz(d, i) = (IF i = o THEN z ELSE Siz(b, i))
           /\ Nxt(d, i) = (IF i = o THEN o + z ELSE Nxt(b, i))
  BY <1>1, <1>3, <1>4 DEF Placed
<1>8. /\ c = p => Blocks(b) = {0} /\ c = 0 /\ Siz(b, 0) = Capacity
      /\ c # p => ~ IsFree(b, c)
      /\ \A i \in Blocks(b) : ~ IsFree(b, i) => c # p
      /\ c < p => /\ p = l /\ Nxt(b, p) = Capacity
                  /\ \A i \in Blocks(b) : IsFree(b, i) /\ i # p => i < c
                  /\ \A i \in Blocks(b) : ~ IsFree(b, i) => c <= i /\ i < p
      /\ p < c => /\ \A i \in Blocks(b) : ~ IsFree(b, i) => c <= i \/ i < p
                  /\ \A i \in Blocks(b) : IsFree(b, i) /\ (c <= i \/ i < p) =>
                       i = l /\ i # c /\ ~ IsFree(b, 0) /\ Siz(b, i) < Siz(b, 0)
  BY <1>1, <1>2, <1>4, RoomAtProduce
<1>9. \A i \in Blocks(b) : IsFree(b, i) /\ Nxt(b, i) \in Blocks(b) => ~ IsFree(b, Nxt(b, i))
  BY DEF Solid
<1>10. IsFree(b, p) /\ (o # p => o = 0 /\ Siz(b, p) < z)
  BY <1>2
<1> DEFINE A(i) == \/ c < q /\ c <= i /\ i < q
                   \/ q < c /\ (c <= i \/ i < q)
           W == c = q /\ ~ IsFree(d, c)
           Good == /\ \A i \in Blocks(d) : ~ IsFree(d, i) => A(i) \/ W
                   /\ \A i \in Blocks(d) :
                        IsFree(d, i) => 
                          (A(i) \/ W => /\ i = d.last /\ q <= c /\ i # c /\ c # 0
                                        /\ ~ IsFree(d, 0) /\ Siz(d, i) < Siz(d, 0))
                   /\ \A i \in Blocks(b) : ~ IsFree(b, i) => Before(c, i, o)
                   /\ ArcLength(d) = ArcLength(b) + z
<1>11. ASSUME NEW i \in Blocks(d), IsFree(d, i), Nxt(d, i) \in Blocks(d)
       PROVE  ~ IsFree(d, Nxt(d, i))
  <2>1. CASE i \in Blocks(b)
    <3>1. i # o /\ IsFree(b, i) /\ Nxt(d, i) = Nxt(b, i)
      BY <1>7, <1>11, <2>1
    <3>2. Nxt(b, i) \in Blocks(b)
      BY <1>6, <1>7, <1>11, <2>1, <3>1
    <3>3. ~ IsFree(b, Nxt(b, i))
      BY <1>9, <2>1, <3>1, <3>2
    <3> QED BY <1>7, <3>1, <3>2, <3>3
  <2>2. CASE i \notin Blocks(b)
    <3>1. i = o + z /\ o + z # Nxt(b, o) /\ Nxt(d, i) = Nxt(b, o)
      BY <1>7, <1>11, <2>2
    <3>2. Nxt(b, o) \in Blocks(b)
      BY <1>6, <1>7, <1>11, <3>1
    <3>3. ~ IsFree(b, Nxt(b, o))
      BY <1>9, <3>2
    <3> QED BY <1>7, <3>1, <3>2, <3>3
  <2> QED BY <2>1, <2>2
<1>12. ArcLength(b) = IF c < p THEN p - c ELSE IF c = p THEN 0
                  ELSE (IF IsFree(b, l) THEN l ELSE Capacity) - c + p
  BY <1>1, <1>2, <1>4, <1>10 DEF ArcLength
<1>13. ArcLength(d) = IF c < q THEN q - c ELSE IF c = q /\ IsFree(d, c) THEN 0
                  ELSE (IF IsFree(d, d.last) THEN d.last ELSE Capacity) - c + q
  BY <1>3, <1>7 DEF ArcLength
<1>14. ASSUME c = p  PROVE Good
  <2>1. o = 0 /\ c = 0 /\ Blocks(b) = {0} /\ Nxt(b, 0) = Capacity /\ l = 0
    BY <1>6, <1>8, <1>14
  <2>2. CASE z = Capacity
    <3>1. q = 0 /\ ~ IsFree(d, 0) /\ d.last = 0
      BY <1>6, <1>7, <2>1, <2>2
    <3>2. \A i : i \in Blocks(d) <=> i = 0
      BY <1>6, <1>7, <2>1, <2>2
    <3>3. ArcLength(d) = Capacity
      BY <1>6, <1>13, <2>1, <3>1
    <3>4. ArcLength(d) = ArcLength(b) + z
      BY <1>6, <1>12, <1>14, <2>2, <3>3
    <3>5. \A i \in Blocks(d) : ~ IsFree(d, i)
      BY <3>1, <3>2
    <3>6. W
      BY <2>1, <3>1
    <3> HIDE DEF A, W
    <3> QED BY Zenon, <1>8, <1>14, <3>4, <3>5, <3>6
  <2>3. CASE z # Capacity
    <3>1. q = z /\ ~ IsFree(d, 0) /\ IsFree(d, z)
      BY <1>6, <1>7, <2>1, <2>3
    <3>2. \A i : i \in Blocks(d) <=> i = 0 \/ i = z
      BY <1>6, <1>7, <2>1, <2>3
    <3>3. ArcLength(d) = z
      BY <1>6, <1>13, <2>1, <3>1
    <3>4. ArcLength(d) = ArcLength(b) + z
      BY <1>6, <1>12, <1>14, <3>3
    <3>5. \A i \in Blocks(d) : ~ IsFree(d, i) => A(i) \/ W
      BY <1>6, <2>1, <3>1, <3>2
    <3>6. \A i \in Blocks(d) : IsFree(d, i) => ~ (A(i) \/ W)
      BY <1>6, <2>1, <3>1, <3>2
    <3> HIDE DEF A, W
    <3> QED BY Zenon, <1>8, <1>14, <3>4, <3>5, <3>6
  <2> QED BY <2>2, <2>3
<1>15. ASSUME c < p /\ o = p  PROVE Good
  <2>1. p = l /\ Nxt(b, p) = Capacity /\ ~ IsFree(b, c) /\ c # o /\ ~ IsFree(d, p)
    BY <1>6, <1>7, <1>8, <1>15
  <2>2. \A i \in Blocks(b) : ~ IsFree(b, i) => Before(c, i, o)
    BY <1>6, <1>8, <1>15 DEF Before
  <2>3. ~ IsFree(d, c)
    BY <1>6, <1>7, <2>1
  <2>4. CASE p + z = Capacity
    <3>1. q = 0 /\ d.last = p /\ \A i : i \in Blocks(d) <=> i \in Blocks(b)
      BY <1>6, <1>7, <1>15, <2>1, <2>4
    <3>2. ArcLength(d) = Capacity - c
      BY <1>6, <1>13, <2>1, <2>3, <3>1
    <3>3. ArcLength(d) = ArcLength(b) + z
      BY <1>6, <1>12, <1>15, <2>4, <3>2
    <3>4. \A i \in Blocks(d) : IsFree(d, i) => i < c /\ 0 <= i
      BY <1>6, <1>7, <1>8, <1>15, <3>1
    <3>5. \A i \in Blocks(d) : ~ IsFree(d, i) => c <= i
      BY <1>6, <1>7, <1>8, <1>15, <3>1
    <3>6. \A i \in Blocks(d) : ~ IsFree(d, i) => A(i) \/ W
      BY <1>6, <2>3, <3>1, <3>5
    <3>7. \A i \in Blocks(d) : IsFree(d, i) => ~ (A(i) \/ W)
      BY <1>6, <2>3, <3>1, <3>4
    <3> HIDE DEF A, W
    <3> QED BY Zenon, <2>2, <3>3, <3>6, <3>7
  <2>5. CASE p + z # Capacity
    <3>1. q = p + z /\ d.last = p + z /\ IsFree(d, q)
          /\ \A i : i \in Blocks(d) <=> i \in Blocks(b) \/ i = q
      BY <1>6, <1>7, <1>15, <2>1, <2>5
    <3>2. ArcLength(d) = p + z - c
      BY <1>6, <1>13, <1>15, <3>1
    <3>3. ArcLength(d) = ArcLength(b) + z
      BY <1>6, <1>12, <1>15, <3>2
    <3>4. \A i \in Blocks(d) : IsFree(d, i) => i < c \/ q <= i
      BY <1>6, <1>7, <1>8, <1>15, <3>1
    <3>5. \A i \in Blocks(d) : ~ IsFree(d, i) => c <= i /\ i < q
      BY <1>6, <1>7, <1>8, <1>15, <3>1
    <3>6. \A i \in Blocks(d) : ~ IsFree(d, i) => A(i) \/ W
      BY <1>6, <1>15, <3>1, <3>5
    <3>7. \A i \in Blocks(d) : IsFree(d, i) => ~ (A(i) \/ W)
      BY <1>5, <1>6, <1>15, <3>1, <3>4, ShapeNumbers
    <3> HIDE DEF A, W
    <3> QED BY Zenon, <2>2, <3>3, <3>6, <3>7
  <2> QED BY <2>4, <2>5
<1>16. ASSUME p < c /\ o = p  PROVE Good
  <2>1. /\ ~ IsFree(b, c) /\ c # o /\ c <= l /\ l # o /\ 0 <= p
        /\ p + z <= Nxt(b, p) /\ Nxt(b, p) <= c
    BY <1>6, <1>7, <1>8, <1>16
  <2>2. \A i \in Blocks(b) : ~ IsFree(b, i) => Before(c, i, o)
    BY <1>6, <1>8, <1>16 DEF Before
  <2>3. ~ IsFree(d, c) /\ q = p + z /\ d.last = l /\ q <= c
    BY <1>6, <1>7, <1>16, <2>1
  <2>4. IsFree(d, l) <=> IsFree(b, l)
    BY <1>6, <1>7, <2>1
  <2>5. ArcLength(d) = ArcLength(b) + z
    <3>1. ArcLength(d) = (IF IsFree(d, l) THEN l ELSE Capacity) - c + q
      BY <1>6, <1>13, <2>3
    <3>2. ArcLength(b) = (IF IsFree(b, l) THEN l ELSE Capacity) - c + p
      BY <1>6, <1>12, <1>16
    <3>3. PICK e \in Int : e = (IF IsFree(b, l) THEN l ELSE Capacity)
      BY <1>6
    <3>4. ArcLength(d) = e - c + q
      BY Zenon, <2>4, <3>1, <3>3
    <3> QED BY <1>6, <2>3, <3>2, <3>3, <3>4
  <2>6. \A i \in Blocks(d) : ~ IsFree(d, i) => c <= i \/ i < q
    BY <1>6, <1>7, <1>8, <1>16, <2>3
  <2>7. ASSUME NEW i \in Blocks(d), IsFree(d, i), c <= i \/ i < q \/ W
        PROVE  /\ i = l /\ i # c /\ c # 0 /\ ~ IsFree(d, 0) /\ Siz(d, i) < Siz(d, 0)
    <3>1. CASE i \in Blocks(b)
      <4>1. i # p /\ IsFree(b, i) /\ Siz(d, i) = Siz(b, i)
        BY <1>7, <1>16, <2>7, <3>1
      <4>2. c <= i \/ i < p
        <5>1. p < i => q <= i
          BY <1>6, <2>1, <2>3, <3>1
        <5> QED BY <1>6, <2>3, <2>7, <3>1, <4>1, <5>1
      <4>3. i = l /\ i # c /\ ~ IsFree(b, 0) /\ Siz(b, i) < Siz(b, 0)
        BY <1>8, <1>16, <3>1, <4>1, <4>2
      <4>4. o # 0
        BY <4>3
      <4>5. ~ IsFree(d, 0) /\ Siz(d, 0) = Siz(b, 0)
        BY <1>6, <1>7, <4>3, <4>4
      <4> QED BY <1>6, <1>16, <4>1, <4>3, <4>5
    <3>2. CASE i \notin Blocks(b)
      <4>1. i = q /\ q # Nxt(b, p)
        BY <1>7, <1>16, <2>3, <2>7, <3>2
      <4>2. q < c
        BY <1>6, <2>1, <2>3, <4>1
      <4> QED BY <1>6, <2>3, <2>7, <4>1, <4>2
    <3> QED BY <3>1, <3>2
  <2>8. \A i \in Blocks(d) : ~ IsFree(d, i) => A(i) \/ W
    BY <1>6, <2>3, <2>6
  <2>9. ASSUME NEW i \in Blocks(d), IsFree(d, i), A(i) \/ W
        PROVE  /\ i = d.last /\ q <= c /\ i # c /\ c # 0
               /\ ~ IsFree(d, 0) /\ Siz(d, i) < Siz(d, 0)
    <3>1. c <= i \/ i < q \/ W
      BY <1>6, <2>3, <2>9
    <3> QED BY <2>3, <2>7, <2>9, <3>1
  <2> HIDE DEF A, W
  <2> QED BY Zenon, <2>2, <2>5, <2>8, <2>9
<1>17. ASSUME c # p /\ o # p  PROVE Good
  <2>1. o = 0 /\ 0 <= p /\ Siz(b, p) < z /\ p # 0
    BY <1>6, <1>10, <1>17
  <2>2. c < p
    <3> SUFFICES ASSUME p < c  PROVE FALSE
      BY <1>6, <1>17
    <3>1. 0 < p
      BY <1>6, <2>1
    <3> QED BY <1>6, <1>8, <2>1, <3>1
  <2>3. /\ p = l /\ Nxt(b, p) = Capacity /\ ~ IsFree(b, c) /\ 0 < c
        /\ z <= Nxt(b, 0) /\ Nxt(b, 0) <= c /\ q = z /\ d.last = p
    BY <1>6, <1>7, <1>8, <1>17, <2>1, <2>2
  <2>4. ~ IsFree(d, c) /\ ~ IsFree(d, 0) /\ IsFree(d, p) /\ Siz(d, 0) = z /\ Siz(d, p) < z
    BY <1>6, <1>7, <1>10, <2>1, <2>2, <2>3
  <2>5. \A i \in Blocks(b) : ~ IsFree(b, i) => Before(c, i, o)
    BY <1>6, <1>8, <2>1, <2>2, <2>3 DEF Before
  <2>6. ArcLength(d) = ArcLength(b) + z
    <3>1. ArcLength(d) = p - c + z
      BY <1>6, <1>13, <2>3, <2>4
    <3> QED BY <1>6, <1>12, <2>2, <3>1
  <2>7. \A i \in Blocks(d) : ~ IsFree(d, i) => c <= i \/ i < q
    BY <1>6, <1>7, <1>8, <2>1, <2>2, <2>3
  <2>8. ASSUME NEW i \in Blocks(d), IsFree(d, i), c <= i \/ i < q \/ W
        PROVE  i = p
    <3>1. CASE i \in Blocks(b)
      <4>1. i # 0 /\ IsFree(b, i)
        BY <1>7, <2>1, <2>8, <3>1
      <4>2. 0 < i /\ Nxt(b, 0) <= i
        BY <1>6, <3>1, <4>1
      <4>3. i # p => i < c
        BY <1>8, <2>2, <3>1, <4>1
      <4> QED BY <1>6, <2>3, <2>8, <3>1, <4>2, <4>3
    <3>2. CASE i \notin Blocks(b)
      <4>1. i = q /\ q # Nxt(b, 0)
        BY <1>7, <2>1, <2>3, <2>8, <3>2
      <4> QED BY <1>6, <2>3, <2>8, <4>1
    <3> QED BY <3>1, <3>2
  <2>9. \A i \in Blocks(d) : ~ IsFree(d, i) => A(i) \/ W
    BY <1>6, <2>3, <2>4, <2>7
  <2>10. ASSUME NEW i \in Blocks(d), IsFree(d, i), A(i) \/ W
        PROVE  /\ i = d.last /\ q <= c /\ i # c /\ c # 0
               /\ ~ IsFree(d, 0) /\ Siz(d, i) < Siz(d, 0)
    <3>1. i = p
      BY <1>6, <2>3, <2>8, <2>10
    <3> QED BY <1>6, <2>2, <2>3, <2>4, <3>1
  <2> HIDE DEF A, W
  <2> QED BY Zenon, <2>5, <2>6, <2>9, <2>10
<1>18. Good
  <2> HIDE DEF Good
  <2>1. c = p \/ (c < p /\ o = p) \/ (p < c /\ o = p) \/ (c # p /\ o # p)
    BY <1>6
  <2> QED BY <1>14, <1>15, <1>16, <1>17, <2>1
<1>19. Solid(d)
  <2>1. \A i \in Blocks(d) : Ahead(d, i) <=> A(i)
    BY <1>3, <1>7 DEF Ahead
  <2>2. (d.consume = d.produce /\ ~ IsFree(d, d.consume)) <=> W
    BY <1>3, <1>7
  <2>3. d.consume = c /\ d.produce = q /\ 0 \in Blocks(d)
    BY <1>3, <1>6, <1>7
  <2> HIDE DEF A, W
  <2> QED BY Zenon, <1>5, <1>11, <1>18, <2>1, <2>2, <2>3 DEF Solid
<1> QED BY Zenon, <1>1, <1>18, <1>19 DEF PutAt

-----------------------------------------------------------------------------
(* The items in the order of their age.                                     *)

\* Before is the order of the ages.
LEMMA AgeOrder ==
  ASSUME NEW b, Shape(b), NEW o \in Blocks(b), NEW p \in Blocks(b)
  PROVE  /\ Age(b, o) \in Int
         /\ Before(b.consume, o, p) <=> Age(b, o) < Age(b, p)
         /\ o # p => Before(b.consume, o, p) \/ Before(b.consume, p, o)
<1>1. PICK c : c = b.consume
  OBVIOUS
<1>2. /\ c \in Int /\ o \in Int /\ p \in Int /\ Capacity \in Nat \ {0}
      /\ 0 <= c /\ c < Capacity /\ 0 <= o /\ o < Capacity /\ 0 <= p /\ p < Capacity
  BY <1>1, ShapeNumbers, CapacityPositive
<1>3. Age(b, o) = IF c <= o THEN o - c ELSE o - c + Capacity
  <2>0. PICK m \in Nat \ {0} : m = Capacity
    BY <1>2
  <2>1. PICK a \in Int : a = o - c /\ -m <= a /\ a < m
    BY <1>2, <2>0
  <2>1a. /\ 0 <= a /\ a < m => a % m = a
         /\ -m <= a /\ a < 0 => a % m = a + m
    BY SmallMod
  <2>2. /\ 0 <= a => a % Capacity = a
        /\ a < 0 => a % Capacity = a + Capacity
    BY <2>0, <2>1, <2>1a
  <2>3. Age(b, o) = a % Capacity
    BY <1>1, <2>1 DEF Age
  <2>4. CASE c <= o
    BY <1>2, <2>1, <2>2, <2>3, <2>4
  <2>5. CASE ~ (c <= o)
    BY <1>2, <2>1, <2>2, <2>3, <2>5
  <2> QED BY <2>4, <2>5
<1>4. Age(b, p) = IF c <= p THEN p - c ELSE p - c + Capacity
  <2>0. PICK m \in Nat \ {0} : m = Capacity
    BY <1>2
  <2>1. PICK a \in Int : a = p - c /\ -m <= a /\ a < m
    BY <1>2, <2>0
  <2>1a. /\ 0 <= a /\ a < m => a % m = a
         /\ -m <= a /\ a < 0 => a % m = a + m
    BY SmallMod
  <2>2. /\ 0 <= a => a % Capacity = a
        /\ a < 0 => a % Capacity = a + Capacity
    BY <2>0, <2>1, <2>1a
  <2>3. Age(b, p) = a % Capacity
    BY <1>1, <2>1 DEF Age
  <2>4. CASE c <= p
    BY <1>2, <2>1, <2>2, <2>3, <2>4
  <2>5. CASE ~ (c <= p)
    BY <1>2, <2>1, <2>2, <2>3, <2>5
  <2> QED BY <2>4, <2>5
<1> QED BY <1>1, <1>2, <1>3, <1>4 DEF Before

\* s has the blocks in use of b, the oldest first.
Listing(b, s) ==
  /\ s \in Seq(Blocks(b))
  /\ \A o \in Blocks(b) : ~ IsFree(b, o) <=> \E i \in 1 .. Len(s) : s[i] = o
  /\ \A i, j \in 1 .. Len(s) : i < j => Before(b.consume, s[i], s[j])

\* A sequence of n different elements has all of a set of n.
LEMMA CountPrefix ==
  ASSUME NEW n \in Nat, NEW s, NEW T,
         \A x : x \in T <=> \E i \in 1 .. n : s[i] = x,
         \A i, j \in 1 .. n : i < j => s[i] # s[j]
  PROVE  IsFiniteSet(T) /\ Cardinality(T) = n
<1> DEFINE f == [i \in 1 .. n |-> s[i]]
<1>1. f \in [1 .. n -> T]
  OBVIOUS
<1>2. f \in Injection(1 .. n, T)
  <2>1. \A i, j \in 1 .. n : f[i] = f[j] => i = j
    OBVIOUS
  <2> QED BY <1>1, <2>1 DEF Injection, IsInjective
<1>3. f \in Surjection(1 .. n, T)
  <2>1. \A x \in T : \E i \in 1 .. n : f[i] = x
    OBVIOUS
  <2> QED BY <1>1, <2>1 DEF Surjection
<1>4. ExistsBijection(1 .. n, T)
  BY <1>2, <1>3 DEF ExistsBijection, Bijection
<1>5. IsFiniteSet(1 .. n) /\ Cardinality(1 .. n) = n
  BY FS_Interval
<1> QED BY <1>4, <1>5, FS_Bijection

\* Oldest is that sequence.
LEMMA OldestIs ==
  ASSUME NEW b, Shape(b), NEW s, Listing(b, s)
  PROVE  Oldest(b) = s
<1> DEFINE U == InUse(b)
           n == Len(s)
           UpTo(o) == {p \in U : Age(b, p) <= Age(b, o)}
<1>1. n \in Nat /\ s = [i \in 1 .. n |-> s[i]] /\ \A i \in 1 .. n : s[i] \in Blocks(b)
  BY LenProperties DEF Listing
<1>2. \A o : o \in U <=> o \in Blocks(b) /\ ~ IsFree(b, o)
  BY DEF InUse, IsFree
<1>3. \A o : o \in U <=> \E i \in 1 .. n : s[i] = o
  BY <1>1, <1>2 DEF Listing
<1>4. ASSUME NEW i \in 1 .. n, NEW j \in 1 .. n
      PROVE  /\ Age(b, s[i]) \in Int /\ Age(b, s[j]) \in Int
             /\ i < j => Age(b, s[i]) < Age(b, s[j])
  BY <1>1, <1>4, AgeOrder DEF Listing
<1>5. \A i, j \in 1 .. n : i < j => s[i] # s[j]
  BY <1>4
<1> HIDE DEF U, n
<1>6. Cardinality(U) = n
  BY <1>1, <1>3, <1>5, CountPrefix
<1>7. ASSUME NEW i \in 1 .. n  PROVE Cardinality(UpTo(s[i])) = i
  <2>1. i \in Nat
    OBVIOUS
  <2>2. ASSUME NEW x  PROVE x \in UpTo(s[i]) <=> \E j \in 1 .. i : s[j] = x
    <3>1. ASSUME x \in UpTo(s[i])  PROVE \E j \in 1 .. i : s[j] = x
      <4>1. PICK j \in 1 .. n : s[j] = x
        BY <1>3, <3>1
      <4>2. ~ (i < j)
        BY <1>4, <3>1, <4>1
      <4> QED BY <1>1, <4>1, <4>2
    <3>2. ASSUME NEW j \in 1 .. i, s[j] = x  PROVE x \in UpTo(s[i])
      <4>1. j \in 1 .. n /\ (j < i \/ j = i)
        BY <1>1
      <4>2. Age(b, s[j]) <= Age(b, s[i])
        BY <1>4, <4>1
      <4> QED BY <1>3, <3>2, <4>1, <4>2
    <3> QED BY <3>1, <3>2
  <2>3. \A j, k \in 1 .. i : j < k => s[j] # s[k]
    BY <1>1, <1>5
  <2> HIDE DEF UpTo
  <2> QED BY <2>1, <2>2, <2>3, CountPrefix
<1>8. ASSUME NEW i \in 1 .. n
      PROVE  (CHOOSE o \in U : Cardinality(UpTo(o)) = i) = s[i]
  <2>1. s[i] \in U /\ Cardinality(UpTo(s[i])) = i
    BY <1>3, <1>7
  <2>2. ASSUME NEW o \in U, Cardinality(UpTo(o)) = i  PROVE o = s[i]
    <3>1. PICK j \in 1 .. n : s[j] = o
      BY <1>3
    <3>2. j = i
      BY <1>7, <2>2, <3>1
    <3> QED BY <3>1, <3>2
  <2> HIDE DEF UpTo
  <2>3. \E o \in U : Cardinality(UpTo(o)) = i
    BY <2>1
  <2> QED BY <2>2, <2>3
<1>9. Oldest(b) = [i \in 1 .. n |-> CHOOSE o \in U : Cardinality(UpTo(o)) = i]
  <2>1. Oldest(b) = [i \in 1 .. Cardinality(U) |-> CHOOSE o \in U : Cardinality(UpTo(o)) = i]
    BY DEF Oldest, U
  <2> QED BY Zenon, <1>6, <2>1
<1> HIDE DEF UpTo
<1> QED BY <1>1, <1>8, <1>9

\* An empty buffer lists nothing.
LEMMA ListingEmpty ==
  ASSUME NEW b, \A o \in Blocks(b) : IsFree(b, o)
  PROVE  Listing(b, << >>)
BY DEF Listing

\* The oldest item is the one at m_pConsume.
LEMMA ListingFirst ==
  ASSUME NEW b, Shape(b), NEW s, Listing(b, s), ~ IsFree(b, b.consume)
  PROVE  s # << >> /\ s[1] = b.consume
<1>1. PICK c : c = b.consume
  OBVIOUS
<1>2. c \in Blocks(b) /\ \A o \in Blocks(b) : o \in Int
  BY <1>1, ShapeNumbers
<1>3. PICK n \in Nat : n = Len(s) /\ \A i \in 1 .. n : s[i] \in Blocks(b)
  BY LenProperties DEF Listing
<1>4. PICK k \in 1 .. n : s[k] = c
  BY <1>1, <1>2, <1>3 DEF Listing
<1>5. k = 1
  <2> SUFFICES ASSUME 1 < k  PROVE FALSE
    BY <1>3
  <2>1. Before(c, s[1], c) /\ s[1] \in Int
    BY <1>1, <1>2, <1>3, <1>4 DEF Listing
  <2> QED BY <1>2, <2>1 DEF Before
<1>6. s # << >>
  BY <1>3, <1>4
<1> QED BY <1>1, <1>4, <1>5, <1>6

\* Without the item at m_pConsume.
LEMMA ListingTail ==
  ASSUME NEW b, Shape(b), NEW s, Listing(b, s), ~ IsFree(b, b.consume),
         NEW d, Shape(d), Survive(b, b.consume, d)
  PROVE  Listing(d, Tail(s))
<1>1. s # << >> /\ s[1] = b.consume
  BY ListingFirst
<1>2. PICK n \in Nat : n = Len(s) /\ \A i \in 1 .. n : s[i] \in Blocks(b)
  BY LenProperties DEF Listing
<1>3. PICK t : t = Tail(s)
  OBVIOUS
<1>4. s \in Seq(Blocks(b)) /\ n > 0
  BY <1>1, <1>2, EmptySeq DEF Listing
<1>5. t \in Seq(Blocks(b)) /\ Len(t) = n - 1 /\ \A i \in 1 .. n - 1 : t[i] = s[i + 1]
  BY <1>1, <1>2, <1>3, <1>4, HeadTailProperties
<1>6. /\ \A i \in 1 .. n : ~ IsFree(b, s[i])
      /\ \A o \in Blocks(b) : ~ IsFree(b, o) => \E i \in 1 .. n : s[i] = o
      /\ \A i, j \in 1 .. n : i < j => Before(b.consume, s[i], s[j])
  BY <1>2 DEF Listing
<1>7. \A i, j \in 1 .. n : i < j => s[i] # s[j]
  <2> SUFFICES ASSUME NEW i \in 1 .. n, NEW j \in 1 .. n, i < j, s[i] = s[j]  PROVE FALSE
    OBVIOUS
  <2>1. Before(b.consume, s[i], s[i]) /\ s[i] \in Blocks(b)
    BY <1>2, <1>6
  <2> QED BY <2>1, ShapeNumbers DEF Before
<1>8. \A o : o \in Blocks(d) /\ ~ IsFree(d, o) <=> o \in Blocks(b) /\ ~ IsFree(b, o) /\ o # b.consume
  BY DEF Survive
<1>9. \A i \in 1 .. n - 1 : t[i] \in Blocks(d) /\ ~ IsFree(d, t[i])
  <2> SUFFICES ASSUME NEW i \in 1 .. n - 1  PROVE t[i] \in Blocks(d) /\ ~ IsFree(d, t[i])
    OBVIOUS
  <2>1. PICK j \in 1 .. n : j = i + 1 /\ 1 < j
    OBVIOUS
  <2>2. t[i] = s[j] /\ s[j] # s[1] /\ s[j] \in Blocks(b) /\ ~ IsFree(b, s[j])
    BY <1>2, <1>5, <1>6, <1>7, <2>1
  <2> QED BY <1>1, <1>8, <2>2
<1>10. t \in Seq(Blocks(d))
  <2>1. t = [i \in 1 .. n - 1 |-> t[i]]
    BY <1>5, LenProperties
  <2>2. PICK m \in Nat : m = n - 1
    BY <1>4
  <2>3. t \in [1 .. m -> Blocks(d)]
    BY <1>9, <2>1, <2>2
  <2> QED BY <2>2, <2>3, SeqDef
<1>11. ASSUME NEW o \in Blocks(d)
       PROVE  ~ IsFree(d, o) <=> \E i \in 1 .. n - 1 : t[i] = o
  <2>1. ASSUME ~ IsFree(d, o)  PROVE \E i \in 1 .. n - 1 : t[i] = o
    <3>1. PICK j \in 1 .. n : s[j] = o /\ j # 1
      BY <1>1, <1>6, <1>8, <2>1
    <3>2. PICK i \in 1 .. n - 1 : i + 1 = j
      BY <3>1
    <3> QED BY <1>5, <3>1, <3>2
  <2> QED BY <1>9, <2>1
<1>12. ASSUME NEW i \in 1 .. n - 1, NEW j \in 1 .. n - 1, i < j
       PROVE  Before(d.consume, t[i], t[j])
  <2>1. PICK x \in 1 .. n : x = i + 1
    OBVIOUS
  <2>2. PICK y \in 1 .. n : y = j + 1 /\ x < y
    BY <1>12, <2>1
  <2>3. Before(b.consume, t[i], t[j])
    BY <1>5, <1>6, <2>1, <2>2
  <2> QED BY <1>9, <2>3 DEF Survive
<1>13. Listing(d, t)
  BY <1>5, <1>10, <1>11, <1>12 DEF Listing
<1> QED BY <1>3, <1>13

\* With the item that is put in.
LEMMA ListingAppend ==
  ASSUME NEW b, Shape(b), NEW s, Listing(b, s), NEW o \in Blocks(b), NEW z, NEW v, NEW d,
         Placed(b, o, z, v, d), IsFree(b, o),
         \A i \in Blocks(b) : ~ IsFree(b, i) => Before(b.consume, i, o)
  PROVE  Listing(d, Append(s, o))
<1>1. PICK n \in Nat : n = Len(s) /\ \A i \in 1 .. n : s[i] \in Blocks(b)
  BY LenProperties DEF Listing
<1>2. PICK t : t = Append(s, o)
  OBVIOUS
<1>3. /\ t \in Seq(Blocks(b)) /\ Len(t) = n + 1 /\ t[n + 1] = o
      /\ \A i \in 1 .. n : t[i] = s[i]
  BY <1>1, <1>2, AppendProperties DEF Listing
<1>4. /\ \A i \in 1 .. n : ~ IsFree(b, s[i])
      /\ \A i \in Blocks(b) : ~ IsFree(b, i) => \E j \in 1 .. n : s[j] = i
      /\ \A i, j \in 1 .. n : i < j => Before(b.consume, s[i], s[j])
  BY <1>1 DEF Listing
<1>5. /\ d.consume = b.consume
      /\ \A i : i \in Blocks(d) <=> i \in Blocks(b) \/ (i = o + z /\ o + z # Nxt(b, o))
      /\ (o + z # Nxt(b, o) => o + z \notin Blocks(b) /\ IsFree(d, o + z))
      /\ \A i \in Blocks(b) : (IsFree(d, i) <=> i # o /\ IsFree(b, i))
  BY DEF Placed
<1>6. t \in Seq(Blocks(d))
  <2>1. Blocks(b) \subseteq Blocks(d)
    BY <1>5
  <2> QED BY <1>3, <2>1, SeqMonotonic
<1>7. ASSUME NEW i \in Blocks(d)
      PROVE  ~ IsFree(d, i) <=> \E j \in 1 .. n + 1 : t[j] = i
  <2>1. ASSUME ~ IsFree(d, i)  PROVE \E j \in 1 .. n + 1 : t[j] = i
    <3>1. i \in Blocks(b) /\ (i = o \/ ~ IsFree(b, i))
      BY <1>5, <2>1
    <3>2. CASE i = o
      BY <1>3, <3>2
    <3>3. CASE ~ IsFree(b, i)
      <4>1. PICK j \in 1 .. n : s[j] = i
        BY <1>4, <3>1, <3>3
      <4>2. j \in 1 .. n + 1
        OBVIOUS
      <4> QED BY <1>3, <4>1, <4>2
    <3> QED BY <3>1, <3>2, <3>3
  <2>2. ASSUME NEW j \in 1 .. n + 1, t[j] = i  PROVE ~ IsFree(d, i)
    <3>1. CASE j = n + 1
      BY <1>3, <1>5, <2>2, <3>1
    <3>2. CASE j # n + 1
      <4>1. j \in 1 .. n
        BY <3>2
      <4> QED BY <1>1, <1>3, <1>4, <1>5, <2>2, <4>1
    <3> QED BY <3>1, <3>2
  <2> QED BY <2>1, <2>2
<1>8. ASSUME NEW i \in 1 .. n + 1, NEW j \in 1 .. n + 1, i < j
      PROVE  Before(d.consume, t[i], t[j])
  <2>1. i \in 1 .. n
    BY <1>8
  <2>2. CASE j = n + 1
    BY <1>1, <1>3, <1>4, <1>5, <2>1, <2>2
  <2>3. CASE j # n + 1
    <3>1. j \in 1 .. n
      BY <2>3
    <3> QED BY <1>3, <1>4, <1>5, <1>8, <2>1, <3>1
  <2> QED BY <2>2, <2>3
<1>9. Listing(d, t)
  BY <1>3, <1>6, <1>7, <1>8 DEF Listing
<1> QED BY <1>2, <1>9

-----------------------------------------------------------------------------
(* The memory that the items of a queue use.                                *)

\* What the sums of Used are.
SumsOf(q, f) ==
  /\ f \in [0 .. Len(q) -> Int] /\ f[0] = 0
  /\ \A i \in 1 .. Len(q) : f[i] = f[i - 1] + q[i].size

LEMMA UsedIs ==
  ASSUME NEW q, Len(q) \in Nat, \A i \in 1 .. Len(q) : q[i].size \in Int
  PROVE  \E f : SumsOf(q, f) /\ Queue!Used(q) = f[Len(q)]
<1>1. PICK n \in Nat : n = Len(q)
  OBVIOUS
<1>2. PICK z : z = [i \in 1 .. n |-> q[i].size]
  OBVIOUS
<1>3. z \in [1 .. n -> Int]
  BY <1>1, <1>2
<1> DEFINE F == [y \in Nat \X Int |-> IF y[1] \in 1 .. n THEN y[2] + z[y[1]] ELSE y[2]]
<1>4. F \in [Nat \X Int -> Int] /\ \A i \in 1 .. n, x \in Int : F[<<i, x>>] = x + z[i]
  BY <1>3
<1> HIDE DEF F
<1>5. PICK g \in [0 .. n -> Int] : g[0] = 0 /\ \A i \in 1 .. n : g[i] = F[<<i, g[i - 1]>>]
  <2>1. 0 \in Int
    OBVIOUS
  <2>2. TurnsFrom(0, F, Int, n) # {}
    BY Zenon, <1>4, <2>1, TurnsDefined
  <2> QED BY Zenon, <2>2 DEF TurnsFrom
<1>6. \A i \in 1 .. n : g[i - 1] \in Int /\ g[i] = g[i - 1] + z[i]
  <2> SUFFICES ASSUME NEW i \in 1 .. n  PROVE g[i - 1] \in Int /\ g[i] = g[i - 1] + z[i]
    OBVIOUS
  <2>1. PICK x \in Int : x = g[i - 1]
    <3>1. i - 1 \in 0 .. n
      OBVIOUS
    <3> QED BY <1>5, <3>1
  <2>2. g[i] = F[<<i, x>>]
    BY <1>5, <2>1
  <2>3. F[<<i, x>>] = x + z[i]
    BY <1>4
  <2> QED BY <2>1, <2>2, <2>3
<1>7. g = [i \in 0 .. n |-> IF i = 0 THEN 0 ELSE g[i - 1] + q[i].size]
  BY <1>2, <1>5, <1>6
<1> DEFINE sum == CHOOSE f : f = [i \in 0 .. Len(q) |-> IF i = 0 THEN 0 ELSE f[i - 1] + q[i].size]
<1>8. sum = [i \in 0 .. n |-> IF i = 0 THEN 0 ELSE sum[i - 1] + q[i].size]
  BY Zenon, <1>1, <1>7
<1>9. Queue!Used(q) = sum[n]
  BY Zenon, <1>1 DEF Queue!Used
<1> HIDE DEF sum
<1>10. PICK h : h = sum
  OBVIOUS
<1>11. h = [i \in 0 .. n |-> IF i = 0 THEN 0 ELSE h[i - 1] + q[i].size]
  BY Zenon, <1>8, <1>10
<1> DEFINE S == {i \in Nat : i <= n => h[i] = g[i]}
<1>12. 0 \in S
  BY <1>5, <1>11
<1>13. ASSUME NEW i \in Nat, i \in S  PROVE i + 1 \in S
  <2> SUFFICES ASSUME i + 1 <= n  PROVE h[i + 1] = g[i + 1]
    OBVIOUS
  <2>1. PICK k \in 1 .. n : k = i + 1 /\ k - 1 = i
    BY <1>1
  <2>2. h[k] = h[i] + q[k].size
    BY <1>11, <2>1
  <2>3. h[i] = g[i] /\ g[k] = g[i] + q[k].size
    BY <1>2, <1>6, <1>13, <2>1
  <2> QED BY <2>1, <2>2, <2>3
<1> HIDE DEF S
<1>14. Nat \subseteq S
  BY <1>12, <1>13, NumberInduction
<1>15. h[n] = g[n]
  BY <1>14 DEF S
<1>16. SumsOf(q, g)
  <2>1. \A i \in 1 .. n : g[i] = g[i - 1] + q[i].size
    BY <1>2, <1>6
  <2> QED BY Zenon, <1>1, <1>5, <2>1 DEF SumsOf
<1> QED BY <1>1, <1>9, <1>10, <1>15, <1>16

\* The items of a queue.
Items == [item : Values \cup {"none"}, size : 1 .. Capacity]

LEMMA ItemsSize ==
  ASSUME NEW q \in Seq(Items)
  PROVE  /\ Len(q) \in Nat
         /\ \A i \in 1 .. Len(q) : q[i] \in Items /\ q[i].size \in Int /\ q[i].size \in 1 .. Capacity
<1>1. Len(q) \in Nat /\ \A i \in 1 .. Len(q) : q[i] \in Items
  BY LenProperties
<1>2. \A e \in Items : e.size \in 1 .. Capacity /\ e.size \in Int
  BY CapacityPositive DEF Items
<1> QED BY <1>1, <1>2

LEMMA UsedEmpty == Queue!Used(<< >>) = 0
<1>1. Len(<< >>) = 0
  OBVIOUS
<1>2. PICK f : SumsOf(<< >>, f) /\ Queue!Used(<< >>) = f[0]
  BY <1>1, UsedIs
<1> QED BY <1>2 DEF SumsOf

LEMMA UsedAppend ==
  ASSUME NEW q \in Seq(Items), NEW e \in Items
  PROVE  Queue!Used(Append(q, e)) = Queue!Used(q) + e.size
<1>1. PICK n \in Nat : n = Len(q)
  BY ItemsSize
<1>2. PICK r \in Seq(Items) : r = Append(q, e)
  BY AppendProperties
<1>3. Len(r) = n + 1 /\ r[n + 1] = e /\ \A i \in 1 .. n : r[i] = q[i]
  BY <1>1, <1>2, AppendProperties
<1>4. PICK f : SumsOf(q, f) /\ Queue!Used(q) = f[n]
  BY <1>1, ItemsSize, UsedIs
<1>5. PICK g : SumsOf(r, g) /\ Queue!Used(r) = g[n + 1]
  BY <1>3, ItemsSize, UsedIs
<1>6. /\ f \in [0 .. n -> Int] /\ f[0] = 0 /\ \A i \in 1 .. n : f[i] = f[i - 1] + q[i].size
      /\ g \in [0 .. n + 1 -> Int] /\ g[0] = 0
      /\ \A i \in 1 .. n + 1 : g[i] = g[i - 1] + r[i].size
  BY <1>1, <1>3, <1>4, <1>5 DEF SumsOf
<1> DEFINE S == {i \in Nat : i <= n => g[i] = f[i]}
<1>7. 0 \in S
  BY <1>6
<1>8. ASSUME NEW i \in Nat, i \in S  PROVE i + 1 \in S
  <2> SUFFICES ASSUME i + 1 <= n  PROVE g[i + 1] = f[i + 1]
    OBVIOUS
  <2>1. PICK k \in 1 .. n : k = i + 1 /\ k - 1 = i /\ k \in 1 .. n + 1
    OBVIOUS
  <2>2. g[i] = f[i] /\ r[k] = q[k]
    BY <1>3, <1>8, <2>1
  <2>3. f[k] = f[i] + q[k].size /\ g[k] = g[i] + r[k].size
    BY <1>6, <2>1
  <2> QED BY <2>1, <2>2, <2>3
<1> HIDE DEF S
<1>9. Nat \subseteq S
  BY <1>7, <1>8, NumberInduction
<1>10. g[n] = f[n]
  BY <1>9 DEF S
<1>11. g[n + 1] = g[n] + e.size
  <2>1. PICK k \in 1 .. n + 1 : k = n + 1 /\ k - 1 = n
    OBVIOUS
  <2>2. g[k] = g[k - 1] + r[k].size
    BY <1>6
  <2> QED BY <1>3, <2>1, <2>2
<1> QED BY <1>2, <1>4, <1>5, <1>10, <1>11

LEMMA UsedTail ==
  ASSUME NEW q \in Seq(Items), q # << >>
  PROVE  Queue!Used(Tail(q)) = Queue!Used(q) - q[1].size
<1>1. PICK n \in Nat : n = Len(q) /\ n > 0
  BY ItemsSize, EmptySeq
<1>2. PICK r \in Seq(Items) : r = Tail(q)
  BY HeadTailProperties
<1>3. Len(r) = n - 1 /\ \A i \in 1 .. n - 1 : r[i] = q[i + 1]
  BY <1>1, <1>2, HeadTailProperties
<1>4. PICK f : SumsOf(q, f) /\ Queue!Used(q) = f[n]
  BY <1>1, ItemsSize, UsedIs
<1>5. PICK g : SumsOf(r, g) /\ Queue!Used(r) = g[n - 1]
  BY <1>3, ItemsSize, UsedIs
<1>6. /\ f \in [0 .. n -> Int] /\ f[0] = 0 /\ \A i \in 1 .. n : f[i] = f[i - 1] + q[i].size
      /\ g \in [0 .. n - 1 -> Int] /\ g[0] = 0
      /\ \A i \in 1 .. n - 1 : g[i] = g[i - 1] + r[i].size
  BY <1>1, <1>3, <1>4, <1>5 DEF SumsOf
<1>7. PICK w \in Int : w = q[1].size /\ f[1] = w
  <2>1. f[1] = f[0] + q[1].size /\ q[1].size \in Int
    BY <1>1, <1>6, ItemsSize
  <2> QED BY <1>6, <2>1
<1> DEFINE S == {i \in Nat : i <= n - 1 => g[i] = f[i + 1] - w}
<1>8. 0 \in S
  BY <1>6, <1>7
<1>9. ASSUME NEW i \in Nat, i \in S  PROVE i + 1 \in S
  <2> SUFFICES ASSUME i + 1 <= n - 1  PROVE g[i + 1] = f[i + 2] - w
    OBVIOUS
  <2>1. PICK k \in 1 .. n - 1 : k = i + 1 /\ k - 1 = i
    OBVIOUS
  <2>2. PICK m \in 1 .. n : m = k + 1 /\ m - 1 = k
    BY <1>1
  <2>3. g[i] = f[k] - w /\ r[k] = q[m] /\ q[m].size \in Int
    BY <1>1, <1>3, <1>9, <2>1, <2>2, ItemsSize
  <2>4. f[m] = f[k] + q[m].size /\ g[k] = g[i] + r[k].size /\ f[k] \in Int
    <3>1. k \in 0 .. n
      BY <1>1
    <3>2. f[m] = f[m - 1] + q[m].size /\ g[k] = g[k - 1] + r[k].size
      BY <1>6
    <3> QED BY <1>6, <2>1, <2>2, <3>1, <3>2
  <2> QED BY <2>1, <2>2, <2>3, <2>4
<1> HIDE DEF S
<1>10. Nat \subseteq S
  BY <1>8, <1>9, NumberInduction
<1>11. g[n - 1] = f[n] - w
  <2>1. PICK k \in Nat : k = n - 1 /\ k + 1 = n
    BY <1>1
  <2> QED BY <1>10, <2>1 DEF S
<1> QED BY <1>2, <1>4, <1>5, <1>7, <1>11

-----------------------------------------------------------------------------
(* Contents                                                                 *)

ItemAt(b, o) == [item |-> b.mem[o].item, size |-> Siz(b, o)]

LEMMA ContentsIs ==
  ASSUME NEW b, Typed(b), Shape(b), NEW s, Listing(b, s)
  PROVE  /\ Contents(b) \in Seq(Items) /\ Len(Contents(b)) = Len(s)
         /\ \A i \in 1 .. Len(s) : Contents(b)[i] = ItemAt(b, s[i])
<1>1. PICK n \in Nat : n = Len(s) /\ DOMAIN s = 1 .. n /\ \A i \in 1 .. n : s[i] \in Blocks(b)
  BY LenProperties DEF Listing
<1>2. Oldest(b) = s
  BY OldestIs
<1>3. Contents(b) = [i \in 1 .. n |-> [item |-> b.mem[s[i]].item, size |-> b.mem[s[i]].size]]
  BY Zenon, <1>1, <1>2 DEF Contents
<1>4. PICK q : q = Contents(b)
  OBVIOUS
<1>5. q = [i \in 1 .. n |-> ItemAt(b, s[i])]
  BY Zenon, <1>3, <1>4 DEF ItemAt, Siz
<1>6. \A o \in Blocks(b) : ItemAt(b, o) \in Items
  <2> SUFFICES ASSUME NEW o \in Blocks(b)  PROVE ItemAt(b, o) \in Items
    OBVIOUS
  <2>1. b.mem[o].item \in Values \cup {"none"} /\ Siz(b, o) \in 1 .. Capacity
    BY TypedIs DEF Siz
  <2> QED BY <2>1 DEF ItemAt, Items
<1>7. q \in [1 .. n -> Items]
  BY <1>1, <1>5, <1>6
<1>8. q \in Seq(Items)
  BY <1>7, SeqDef
<1>9. Len(q) = n
  BY <1>7, <1>8
<1> QED BY <1>1, <1>4, <1>5, <1>8, <1>9

LEMMA SameContents ==
  ASSUME NEW b, Typed(b), Shape(b), NEW s, Listing(b, s),
         NEW q \in Seq(Items), Len(q) = Len(s),
         \A i \in 1 .. Len(s) : q[i] = ItemAt(b, s[i])
  PROVE  Contents(b) = q
BY ContentsIs, SeqEqual

\* Without the oldest item.
LEMMA PopContents ==
  ASSUME NEW b, Solid(b), NEW s, Listing(b, s), ~ IsFree(b, b.consume),
         NEW d, d = PopFirst(b)
  PROVE  /\ Solid(d) /\ Listing(d, Tail(s)) /\ d.recycle = b.recycle
         /\ Contents(b) # << >> /\ Contents(d) = Tail(Contents(b))
         /\ ArcLength(d) = ArcLength(b) - Contents(b)[1].size
<1>1. Solid(d) /\ Survive(b, b.consume, d) /\ ArcLength(d) = ArcLength(b) - Siz(b, b.consume)
  BY PopEffect
<1>2. Typed(b) /\ Shape(b) /\ Typed(d) /\ Shape(d)
  BY <1>1 DEF Solid
<1>3. s # << >> /\ s[1] = b.consume
  BY <1>2, ListingFirst
<1>4. PICK t : t = Tail(s) /\ Listing(d, t)
  BY <1>1, <1>2, ListingTail
<1>5. PICK n \in Nat : n = Len(s) /\ n > 0
  BY <1>3, LenProperties, EmptySeq DEF Listing
<1>6. t \in Seq(Blocks(b)) /\ Len(t) = n - 1 /\ \A i \in 1 .. n - 1 : t[i] = s[i + 1]
  BY <1>3, <1>4, <1>5, HeadTailProperties DEF Listing
<1>7. PICK q \in Seq(Items) : q = Contents(b) /\ Len(q) = n /\ \A i \in 1 .. n : q[i] = ItemAt(b, s[i])
  BY <1>2, <1>5, ContentsIs
<1>8. q # << >>
  BY <1>5, <1>7
<1>9. PICK r \in Seq(Items) : r = Tail(q) /\ Len(r) = n - 1 /\ \A i \in 1 .. n - 1 : r[i] = q[i + 1]
  <2>1. PICK r \in Seq(Items) : r = Tail(q)
    BY <1>8, HeadTailProperties
  <2>2. Len(r) = n - 1
    BY <1>7, <1>8, <2>1, HeadTailProperties
  <2>3. \A i \in 1 .. Len(r) : r[i] = q[i + 1]
    BY <1>8, <2>1, HeadTailProperties
  <2> QED BY <2>1, <2>2, <2>3
<1>10. ASSUME NEW i \in 1 .. n - 1  PROVE r[i] = ItemAt(d, t[i])
  <2>1. i + 1 \in 1 .. n
    BY <1>5
  <2>2. r[i] = ItemAt(b, t[i])
    BY <1>6, <1>7, <1>9, <2>1
  <2>3. t[i] \in Blocks(d) /\ ~ IsFree(d, t[i])
    <3>1. Len(t) \in Nat /\ \A j \in 1 .. Len(t) : t[j] \in Blocks(d)
      BY <1>4, LenProperties DEF Listing
    <3>2. i \in 1 .. Len(t)
      BY <1>6
    <3> QED BY <1>4, <3>1, <3>2 DEF Listing
  <2>4. Siz(d, t[i]) = Siz(b, t[i]) /\ d.mem[t[i]].item = b.mem[t[i]].item
    BY <1>1, <2>3 DEF Survive
  <2> QED BY Zenon, <2>2, <2>4 DEF ItemAt
<1>11. Contents(d) = r
  <2>1. Len(r) = Len(t) /\ \A i \in 1 .. Len(t) : r[i] = ItemAt(d, t[i])
    BY <1>6, <1>9, <1>10
  <2> QED BY Zenon, <1>2, <1>4, <2>1, SameContents
<1>12. q[1].size = Siz(b, b.consume)
  <2>1. q[1] = ItemAt(b, b.consume)
    BY <1>3, <1>5, <1>7
  <2>2. ItemAt(b, b.consume).size = Siz(b, b.consume)
    BY DEF ItemAt
  <2> QED BY Zenon, <2>1, <2>2
<1>13. d.recycle = b.recycle
  BY <1>1 DEF Survive
<1> QED BY <1>1, <1>4, <1>7, <1>8, <1>9, <1>11, <1>12, <1>13

\* With the item that is put in.
LEMMA PutContents ==
  ASSUME NEW b, Solid(b), NEW s, Listing(b, s), NEW o \in Blocks(b), NEW z \in Int, NEW v \in Values,
         NEW d, Placed(b, o, z, v, d), IsFree(b, o), PutAt(b, o, z, d),
         NEW e, e = [item |-> v, size |-> z]
  PROVE  /\ Solid(d) /\ Listing(d, Append(s, o)) /\ d.recycle = b.recycle
         /\ Contents(d) = Append(Contents(b), e) /\ e \in Items
         /\ ArcLength(d) = ArcLength(b) + z
<1>1. /\ Solid(d) /\ ArcLength(d) = ArcLength(b) + z
      /\ \A i \in Blocks(b) : ~ IsFree(b, i) => Before(b.consume, i, o)
  BY DEF PutAt
<1>2. Typed(b) /\ Shape(b) /\ Typed(d) /\ Shape(d)
  BY <1>1 DEF Solid
<1>3. PICK t : t = Append(s, o) /\ Listing(d, t)
  BY <1>1, <1>2, ListingAppend
<1>4. PICK n \in Nat : n = Len(s) /\ \A i \in 1 .. n : s[i] \in Blocks(b)
  BY LenProperties DEF Listing
<1>5. Len(t) = n + 1 /\ t[n + 1] = o /\ \A i \in 1 .. n : t[i] = s[i]
  BY <1>3, <1>4, AppendProperties DEF Listing
<1>6. PICK q \in Seq(Items) : q = Contents(b) /\ Len(q) = n /\ \A i \in 1 .. n : q[i] = ItemAt(b, s[i])
  BY <1>2, <1>4, ContentsIs
<1>7. /\ o \in Blocks(d) /\ d.recycle = b.recycle
      /\ d.mem[o].item = v /\ Siz(d, o) = z
      /\ \A i \in Blocks(b) :
           i # o => d.mem[i].item = b.mem[i].item /\ Siz(d, i) = Siz(b, i)
  BY DEF Placed
<1>9. e = ItemAt(d, o)
  BY Zenon, <1>7 DEF ItemAt
<1>10. e \in Items
  <2>1. Siz(d, o) \in 1 .. Capacity
    BY <1>2, <1>7, TypedIs DEF Siz
  <2> QED BY <1>7, <2>1 DEF Items
<1>11. PICK r \in Seq(Items) : r = Append(q, e) /\ Len(r) = n + 1 /\ r[n + 1] = e
                               /\ \A i \in 1 .. n : r[i] = q[i]
  <2>1. PICK r \in Seq(Items) : r = Append(q, e)
    BY <1>10, AppendProperties
  <2>2. Len(r) = n + 1 /\ r[n + 1] = e /\ \A i \in 1 .. n : r[i] = q[i]
    BY <1>6, <1>10, <2>1, AppendProperties
  <2> QED BY <2>1, <2>2
<1>12. ASSUME NEW i \in 1 .. n + 1  PROVE r[i] = ItemAt(d, t[i])
  <2>1. CASE i = n + 1
    BY <1>5, <1>9, <1>11, <2>1
  <2>2. CASE i # n + 1
    <3>1. i \in 1 .. n
      BY <2>2
    <3>2. s[i] # o
      <4>1. ~ IsFree(b, s[i])
        BY <1>4, <3>1 DEF Listing
      <4> QED BY <4>1
    <3>3. r[i] = ItemAt(b, s[i]) /\ t[i] = s[i] /\ s[i] \in Blocks(b)
      BY <1>4, <1>5, <1>6, <1>11, <3>1
    <3>4. d.mem[s[i]].item = b.mem[s[i]].item /\ Siz(d, s[i]) = Siz(b, s[i])
      BY <1>7, <3>2, <3>3
    <3> QED BY Zenon, <3>3, <3>4 DEF ItemAt
  <2> QED BY <2>1, <2>2
<1>13. Contents(d) = r
  <2>1. Len(r) = Len(t) /\ \A i \in 1 .. Len(t) : r[i] = ItemAt(d, t[i])
    BY <1>5, <1>11, <1>12
  <2> QED BY Zenon, <1>2, <1>3, <2>1, SameContents
<1> QED BY <1>1, <1>3, <1>6, <1>7, <1>10, <1>11, <1>13

-----------------------------------------------------------------------------
(* The invariant, and the operations that keep it.                          *)

Sound(b) ==
  /\ Solid(b) /\ Listing(b, Oldest(b))
  /\ Queue!Used(Contents(b)) = ArcLength(b)

LEMMA ArcBounds ==
  ASSUME NEW b, Solid(b)
  PROVE  /\ ArcLength(b) \in Int /\ ArcLength(b) <= Capacity
         /\ ~ IsFree(b, b.consume) => ArcLength(b) > 0
<1>1. /\ Shape(b) /\ b.consume \in Int /\ b.produce \in Int /\ b.last \in Int /\ Capacity \in Int
      /\ 0 <= b.consume /\ b.consume <= b.last /\ b.last < Capacity
      /\ 0 <= b.produce /\ b.produce <= b.last /\ b.last \in Blocks(b)
  BY ShapeNumbers DEF Solid
<1>2. b.produce <= b.consume =>
        /\ ArcLength(b) = (IF b.consume = b.produce /\ IsFree(b, b.consume) THEN 0
                       ELSE (IF IsFree(b, b.last) THEN b.last ELSE Capacity) - b.consume + b.produce)
  BY <1>1 DEF ArcLength
<1>3. b.consume < b.produce => ArcLength(b) = b.produce - b.consume
  BY DEF ArcLength
<1>4. PICK e \in Int : /\ e = (IF IsFree(b, b.last) THEN b.last ELSE Capacity)
                       /\ b.last <= e /\ e <= Capacity /\ (~ IsFree(b, b.last) => e = Capacity)
  BY <1>1
<1>5. ~ IsFree(b, b.consume) => b.consume < e
  <2>1. ~ IsFree(b, b.consume) /\ IsFree(b, b.last) => b.consume # b.last
    OBVIOUS
  <2> QED BY <1>1, <1>4, <2>1
<1>6. CASE b.consume < b.produce
  BY <1>1, <1>3, <1>6
<1>7. CASE b.consume = b.produce /\ IsFree(b, b.consume)
  BY <1>1, <1>2, <1>7
<1>8. CASE b.produce < b.consume \/ (b.consume = b.produce /\ ~ IsFree(b, b.consume))
  <2>1. ArcLength(b) = e - b.consume + b.produce
    BY <1>1, <1>2, <1>4, <1>8
  <2> QED BY <1>1, <1>4, <1>5, <1>8, <2>1
<1> QED BY <1>1, <1>6, <1>7, <1>8

LEMMA SoundIs ==
  ASSUME NEW b, Solid(b), NEW s, Listing(b, s), Queue!Used(Contents(b)) = ArcLength(b)
  PROVE  Sound(b)
BY OldestIs DEF Sound, Solid

LEMMA SoundPop ==
  ASSUME NEW b, Sound(b), ~ IsFree(b, b.consume), NEW d, d = PopFirst(b)
  PROVE  /\ Sound(d) /\ d.recycle = b.recycle
         /\ Contents(b) \in Seq(Items) /\ Contents(b) # << >> /\ Contents(d) = Tail(Contents(b))
         /\ ArcLength(d) < ArcLength(b)
<1>1. PICK s : Solid(b) /\ Listing(b, s) /\ Queue!Used(Contents(b)) = ArcLength(b)
  BY DEF Sound
<1>2. PICK q \in Seq(Items) : q = Contents(b)
  BY <1>1, ContentsIs DEF Solid
<1>3. /\ Solid(d) /\ Listing(d, Tail(s)) /\ d.recycle = b.recycle
      /\ q # << >> /\ Contents(d) = Tail(q) /\ ArcLength(d) = ArcLength(b) - q[1].size
  BY <1>1, <1>2, PopContents
<1>4. Queue!Used(Contents(d)) = ArcLength(d)
  BY <1>1, <1>2, <1>3, UsedTail
<1>5. ArcLength(d) < ArcLength(b)
  <2>1. q[1].size \in 1 .. Capacity /\ Capacity \in Nat
    <3>1. 1 \in 1 .. Len(q)
      BY <1>3, EmptySeq
    <3> QED BY <3>1, ItemsSize, CapacityPositive
  <2>2. PICK w \in Nat : w = q[1].size /\ w > 0
    BY <2>1
  <2> QED BY <1>1, <1>3, <2>2, ArcBounds
<1> QED BY <1>2, <1>3, <1>4, <1>5, SoundIs

LEMMA SoundPut ==
  ASSUME NEW b, Sound(b), NEW want \in Nat \ {0}, NEW v \in Values, NEW o, o = FindBlock(b, want),
         o \in Blocks(b), IsFree(b, o), IsFree(b, b.produce), want <= Siz(b, o),
         o # b.produce => o = 0 /\ Siz(b, b.produce) < want,
         NEW d, d = Take(b, o, want, v)
  PROVE  \E z \in {want, want + 1} :
           /\ Sound(d) /\ d.recycle = b.recycle
           /\ Contents(d) = Append(Contents(b), [item |-> v, size |-> z])
           /\ z <= Queue!Room(Contents(b))
<1>1. PICK s : Solid(b) /\ Listing(b, s) /\ Queue!Used(Contents(b)) = ArcLength(b)
  BY DEF Sound
<1>2. Typed(b) /\ Shape(b)
  BY <1>1 DEF Solid
<1>3. PICK q \in Seq(Items) : q = Contents(b)
  BY <1>1, <1>2, ContentsIs
<1>4. PICK z \in {want, want + 1} : Placed(b, o, z, v, d)
  BY <1>2, TakeEffect
<1>5. PutAt(b, o, z, d)
  <2>1. z \in Int /\ z > 0 /\ (o # b.produce => o = 0 /\ Siz(b, b.produce) < z)
    BY <1>2, <1>4, ShapeNumbers
  <2> QED BY <1>1, <1>4, <2>1, PutEffect
<1>6. PICK e : e = [item |-> v, size |-> z]
  OBVIOUS
<1>7. /\ Solid(d) /\ Listing(d, Append(s, o)) /\ d.recycle = b.recycle
      /\ Contents(d) = Append(q, e) /\ e \in Items /\ ArcLength(d) = ArcLength(b) + z
  <2>1. z \in Int
    OBVIOUS
  <2> QED BY <1>1, <1>3, <1>4, <1>5, <1>6, <2>1, PutContents
<1>8. Queue!Used(Contents(d)) = ArcLength(d)
  <2>1. Queue!Used(Append(q, e)) = Queue!Used(q) + e.size
    BY <1>7, UsedAppend
  <2>2. e.size = z
    BY <1>6
  <2> QED BY <1>1, <1>3, <1>7, <2>1, <2>2
<1>9. z <= Queue!Room(q)
  <2>1. Queue!Room(q) = Capacity - ArcLength(b)
    BY <1>1, <1>3 DEF Queue!Room
  <2>2. ArcLength(d) <= Capacity /\ ArcLength(b) \in Int /\ z \in Int /\ Capacity \in Int
    BY <1>1, <1>4, <1>7, ArcBounds, CapacityPositive
  <2> QED BY <1>7, <2>1, <2>2
<1>10. Sound(d)
  BY <1>7, <1>8, SoundIs
<1> QED BY <1>3, <1>4, <1>6, <1>7, <1>9, <1>10

-----------------------------------------------------------------------------
(* The user forgets the items of the blocks that are free.                  *)

LEMMA ForgetEffect ==
  ASSUME NEW b, Typed(b), Shape(b), NEW d, d = Forget(b)
  PROVE  /\ Typed(d) /\ Shape(d) /\ Blocks(d) = Blocks(b)
         /\ d.produce = b.produce /\ d.consume = b.consume /\ d.last = b.last
         /\ d.recycle = b.recycle
         /\ \A i \in Blocks(b) :
              /\ IsFree(d, i) <=> IsFree(b, i)
              /\ ~ IsFree(b, i) => d.mem[i].item = b.mem[i].item
              /\ Siz(d, i) = Siz(b, i) /\ Nxt(d, i) = Nxt(b, i)
<1> DEFINE S == DOMAIN b.mem
           e(o) == IF b.mem[o].free THEN [b.mem[o] EXCEPT !.item = "none"] ELSE b.mem[o]
           m == [o \in S |-> e(o)]
<1>1. b = [mem |-> b.mem, produce |-> b.produce, consume |-> b.consume, last |-> b.last,
           recycle |-> b.recycle]
  BY DEF Typed
<1>2. d = [b EXCEPT !.mem = m]
  BY Zenon DEF Forget
<1> HIDE DEF e
<1>3. m = [o \in S |-> m[o]] /\ S = DOMAIN m /\ \A o \in S : m[o] = e(o)
  OBVIOUS
<1>4. S = Blocks(b)
  BY DEF Blocks
<1> HIDE DEF m, S
<1>5. d = [mem |-> m, produce |-> b.produce, consume |-> b.consume, last |-> b.last,
           recycle |-> b.recycle]
  BY <1>1, <1>2
<1>6. ASSUME NEW i \in S
      PROVE  /\ m[i].free = b.mem[i].free /\ m[i].prev = b.mem[i].prev
             /\ m[i].next = b.mem[i].next /\ m[i].size = b.mem[i].size
             /\ (~ IsFree(b, i) => m[i].item = b.mem[i].item)
             /\ m[i].item \in {"none", b.mem[i].item}
             /\ m[i] = [prev |-> m[i].prev, next |-> m[i].next, free |-> m[i].free,
                        size |-> m[i].size, item |-> m[i].item]
  <2>1. PICK r : r = b.mem[i] /\ r = [prev |-> r.prev, next |-> r.next, free |-> r.free,
                                      size |-> r.size, item |-> r.item]
    BY <1>4, TypedIs
  <2>2. IsFree(b, i) <=> r.free
    BY <2>1 DEF IsFree
  <2>3. CASE r.free
    <3>1. m[i] = [prev |-> r.prev, next |-> r.next, free |-> r.free, size |-> r.size,
                  item |-> "none"]
      BY <1>3, <2>1, <2>3 DEF e
    <3> QED BY <2>1, <2>2, <2>3, <3>1
  <2>4. CASE ~ r.free
    <3>1. m[i] = r
      BY <1>3, <2>1, <2>4 DEF e
    <3> QED BY <2>1, <3>1
  <2> QED BY <2>3, <2>4
<1>7. Typed(d)
  <2>1. ASSUME NEW o \in S
        PROVE  /\ m[o].prev \in 0 .. Capacity /\ m[o].next \in 0 .. Capacity
               /\ m[o].free \in BOOLEAN /\ m[o].size \in 1 .. Capacity
               /\ m[o].item \in Values \cup {"none"}
               /\ m[o] = [prev |-> m[o].prev, next |-> m[o].next, free |-> m[o].free,
                          size |-> m[o].size, item |-> m[o].item]
    <3>1. /\ b.mem[o].prev \in 0 .. Capacity /\ b.mem[o].next \in 0 .. Capacity
          /\ b.mem[o].free \in BOOLEAN /\ b.mem[o].size \in 1 .. Capacity
          /\ b.mem[o].item \in Values \cup {"none"}
      BY <1>4, TypedIs
    <3> QED BY <1>6, <3>1
  <2>2. m = [o \in S |-> m[o]]
    BY <1>3
  <2>3. S \in SUBSET (0 .. Capacity - 1) /\ b.produce \in S /\ b.consume \in S
        /\ b.last \in S /\ b.recycle \in BOOLEAN
    BY <1>4, TypedIs
  <2>4. Typed([mem |-> m, produce |-> b.produce, consume |-> b.consume, last |-> b.last,
               recycle |-> b.recycle])
    BY Zenon, <2>1, <2>2, <2>3, TypedFrom
  <2> QED BY <1>5, <2>4
<1>8. /\ d.mem = m /\ d.produce = b.produce /\ d.consume = b.consume /\ d.last = b.last
      /\ d.recycle = b.recycle
  BY <1>5
<1>9. Blocks(d) = S
  BY <1>3, <1>8 DEF Blocks
<1>10. ASSUME NEW i \in Blocks(b)
       PROVE  /\ (IsFree(d, i) <=> IsFree(b, i))
              /\ (~ IsFree(b, i) => d.mem[i].item = b.mem[i].item)
              /\ Siz(d, i) = Siz(b, i) /\ Nxt(d, i) = Nxt(b, i) /\ Prv(d, i) = Prv(b, i)
  <2>1. /\ m[i].free = b.mem[i].free /\ m[i].prev = b.mem[i].prev
        /\ m[i].next = b.mem[i].next /\ m[i].size = b.mem[i].size
        /\ (~ IsFree(b, i) => m[i].item = b.mem[i].item)
    BY <1>4, <1>6
  <2> QED BY Zenon, <1>8, <2>1 DEF IsFree, Siz, Nxt, Prv
<1>11. Shape(d)
  <2>1. \A i \in Blocks(b) : IsFree(d, i) \in BOOLEAN
    <3> SUFFICES ASSUME NEW i \in Blocks(d)  PROVE IsFree(d, i) \in BOOLEAN
      BY <1>4, <1>9
    <3> QED BY <1>7, TypedIs DEF IsFree
  <2>2. /\ d.produce \in Blocks(b) /\ d.consume \in Blocks(b) /\ d.last = b.last
        /\ Blocks(d) = Blocks(b)
    BY <1>4, <1>8, <1>9 DEF Shape
  <2>3. \A i \in Blocks(b) : /\ Siz(d, i) = Siz(b, i) /\ Nxt(d, i) = Nxt(b, i)
                            /\ Prv(d, i) = Prv(b, i)
    BY <1>10
  <2> QED BY <2>1, <2>2, <2>3, SameShape
<1> QED BY <1>4, <1>7, <1>8, <1>9, <1>10, <1>11

LEMMA SoundForget ==
  ASSUME NEW b, Sound(b), NEW d, d = Forget(b)
  PROVE  Sound(d) /\ Contents(d) = Contents(b) /\ d.recycle = b.recycle
<1>1. PICK s : Solid(b) /\ Listing(b, s) /\ Queue!Used(Contents(b)) = ArcLength(b)
  BY DEF Sound
<1>2. Typed(b) /\ Shape(b)
  BY <1>1 DEF Solid
<1>3. /\ Typed(d) /\ Shape(d) /\ Blocks(d) = Blocks(b)
      /\ d.produce = b.produce /\ d.consume = b.consume /\ d.last = b.last
      /\ d.recycle = b.recycle
      /\ \A i \in Blocks(b) :
           /\ (IsFree(d, i) <=> IsFree(b, i))
           /\ (~ IsFree(b, i) => d.mem[i].item = b.mem[i].item)
           /\ Siz(d, i) = Siz(b, i) /\ Nxt(d, i) = Nxt(b, i)
  BY <1>2, ForgetEffect
<1>4. /\ b.consume \in Blocks(b) /\ b.last \in Blocks(b) /\ 0 \in Blocks(b)
  BY <1>2, ShapeNumbers
<1>5. Solid(d)
  <2>1. \A i : Ahead(d, i) <=> Ahead(b, i)
    BY <1>3 DEF Ahead
  <2>2. IsFree(d, d.consume) <=> IsFree(b, b.consume)
    BY <1>3, <1>4
  <2>3. \A o \in Blocks(d) : ~ IsFree(d, o) => Ahead(d, o) \/ (d.consume = d.produce /\ ~ IsFree(d, d.consume))
    BY <1>1, <1>3, <2>1, <2>2 DEF Solid
  <2>4. ASSUME NEW o \in Blocks(d), IsFree(d, o)
        PROVE  /\ Ahead(d, o) \/ (d.consume = d.produce /\ ~ IsFree(d, d.consume)) =>
                    /\ o = d.last /\ d.produce <= d.consume /\ o # d.consume /\ d.consume # 0
                    /\ 0 \in Blocks(d) /\ ~ IsFree(d, 0) /\ Siz(d, o) < Siz(d, 0)
               /\ Nxt(d, o) \in Blocks(d) => ~ IsFree(d, Nxt(d, o))
    <3>1. o \in Blocks(b) /\ IsFree(b, o) /\ Siz(d, o) = Siz(b, o) /\ Nxt(d, o) = Nxt(b, o)
          /\ Siz(d, 0) = Siz(b, 0) /\ (IsFree(d, 0) <=> IsFree(b, 0))
      BY <1>3, <1>4, <2>4
    <3>2. /\ Ahead(b, o) \/ (b.consume = b.produce /\ ~ IsFree(b, b.consume)) =>
               /\ o = b.last /\ b.produce <= b.consume /\ o # b.consume /\ b.consume # 0
               /\ 0 \in Blocks(b) /\ ~ IsFree(b, 0) /\ Siz(b, o) < Siz(b, 0)
          /\ Nxt(b, o) \in Blocks(b) => ~ IsFree(b, Nxt(b, o))
      BY <1>1, <3>1 DEF Solid
    <3>3. Nxt(d, o) \in Blocks(d) => ~ IsFree(d, Nxt(d, o))
      BY <1>3, <3>1, <3>2
    <3>4. Ahead(d, o) \/ (d.consume = d.produce /\ ~ IsFree(d, d.consume)) =>
            Ahead(b, o) \/ (b.consume = b.produce /\ ~ IsFree(b, b.consume))
      BY <1>3, <2>1, <2>2
    <3> QED BY <1>3, <3>1, <3>2, <3>3, <3>4
  <2> QED BY <1>3, <2>3, <2>4 DEF Solid
<1>6. ArcLength(d) = ArcLength(b)
  <2>1. (IsFree(d, d.consume) <=> IsFree(b, b.consume)) /\ (IsFree(d, d.last) <=> IsFree(b, b.last))
    BY <1>3, <1>4
  <2>2. PICK e : e = (IF IsFree(b, b.last) THEN b.last ELSE Capacity)
    OBVIOUS
  <2>3. e = (IF IsFree(d, d.last) THEN d.last ELSE Capacity)
    BY <1>3, <2>1, <2>2
  <2>4. CASE IsFree(b, b.consume)
    BY <1>3, <2>1, <2>2, <2>3, <2>4 DEF ArcLength
  <2>5. CASE ~ IsFree(b, b.consume)
    BY <1>3, <2>1, <2>2, <2>3, <2>5 DEF ArcLength
  <2> QED BY <2>4, <2>5
<1>7. Listing(d, s)
  <2>1. \A o \in Blocks(d) : ~ IsFree(d, o) <=> \E i \in 1 .. Len(s) : s[i] = o
    BY <1>1, <1>3 DEF Listing
  <2> QED BY <1>1, <1>3, <2>1 DEF Listing
<1>8. PICK q \in Seq(Items) : q = Contents(b) /\ Len(q) = Len(s)
                              /\ \A i \in 1 .. Len(s) : q[i] = ItemAt(b, s[i])
  BY <1>1, <1>2, ContentsIs
<1>9. ASSUME NEW i \in 1 .. Len(s)  PROVE q[i] = ItemAt(d, s[i])
  <2>1. s[i] \in Blocks(b) /\ ~ IsFree(b, s[i])
    <3>1. s[i] \in Blocks(b)
      BY <1>1, ElementOfSeq DEF Listing
    <3> QED BY <1>1, <3>1 DEF Listing
  <2>2. d.mem[s[i]].item = b.mem[s[i]].item /\ Siz(d, s[i]) = Siz(b, s[i])
    BY <1>3, <2>1
  <2>3. q[i] = ItemAt(b, s[i])
    BY <1>8
  <2> QED BY Zenon, <2>2, <2>3 DEF ItemAt
<1>10. Contents(d) = q
  BY Zenon, <1>3, <1>7, <1>8, <1>9, SameContents
<1> QED BY <1>1, <1>3, <1>5, <1>6, <1>7, <1>8, <1>10, SoundIs

-----------------------------------------------------------------------------
(* Init and Clear.                                                          *)

LEMMA SoundCleared ==
  ASSUME NEW r \in BOOLEAN, NEW b, b = Cleared(r)
  PROVE  Sound(b) /\ Contents(b) = << >> /\ b.recycle = r
<1>1. Capacity \in Nat \ {0} /\ First = 0 /\ Nil = Capacity
  BY CapacityPositive DEF First, Nil
<1> DEFINE m == [o \in {0} |-> [prev |-> Capacity, next |-> Capacity, free |-> TRUE,
                                size |-> Capacity, item |-> "none"]]
<1>2. b = [mem |-> m, produce |-> 0, consume |-> 0, last |-> 0, recycle |-> r]
  BY Zenon, <1>1 DEF Cleared
<1>3. /\ m = [o \in {0} |-> m[o]] /\ DOMAIN m = {0}
      /\ m[0].prev = Capacity /\ m[0].next = Capacity /\ m[0].free \in BOOLEAN /\ m[0].free
      /\ m[0].size = Capacity /\ m[0].item = "none"
      /\ m[0] = [prev |-> m[0].prev, next |-> m[0].next, free |-> m[0].free,
                 size |-> m[0].size, item |-> m[0].item]
  OBVIOUS
<1> HIDE DEF m
<1>4. Typed(b)
  <2>0. /\ m[0].prev \in 0 .. Capacity /\ m[0].next \in 0 .. Capacity
        /\ m[0].free \in BOOLEAN /\ m[0].size \in 1 .. Capacity
        /\ m[0].item \in Values \cup {"none"}
    BY <1>1, <1>3
  <2>1. \A o \in {0} : /\ m[o].prev \in 0 .. Capacity /\ m[o].next \in 0 .. Capacity
                       /\ m[o].free \in BOOLEAN /\ m[o].size \in 1 .. Capacity
                       /\ m[o].item \in Values \cup {"none"}
                       /\ m[o] = [prev |-> m[o].prev, next |-> m[o].next, free |-> m[o].free,
                                  size |-> m[o].size, item |-> m[o].item]
    <3> SUFFICES ASSUME NEW o \in {0}
                 PROVE  /\ m[o].prev \in 0 .. Capacity /\ m[o].next \in 0 .. Capacity
                        /\ m[o].free \in BOOLEAN /\ m[o].size \in 1 .. Capacity
                        /\ m[o].item \in Values \cup {"none"}
                        /\ m[o] = [prev |-> m[o].prev, next |-> m[o].next, free |-> m[o].free,
                                   size |-> m[o].size, item |-> m[o].item]
      OBVIOUS
    <3>1. o = 0
      OBVIOUS
    <3> QED BY Zenon, <1>3, <2>0, <3>1
  <2>2. m = [o \in {0} |-> m[o]]
    BY <1>3
  <2>3. {0} \in SUBSET (0 .. Capacity - 1) /\ 0 \in {0}
    BY <1>1
  <2>4. Typed([mem |-> m, produce |-> 0, consume |-> 0, last |-> 0, recycle |-> r])
    BY Zenon, <2>1, <2>2, <2>3, TypedFrom
  <2> QED BY <1>2, <2>4
<1>5. b.mem = m /\ b.produce = 0 /\ b.consume = 0 /\ b.last = 0 /\ b.recycle = r
  BY <1>2
<1>6. Blocks(b) = {0}
  BY <1>3, <1>5 DEF Blocks
<1>7. Prv(b, 0) = Capacity /\ Nxt(b, 0) = Capacity /\ IsFree(b, 0) /\ IsFree(b, 0) \in BOOLEAN /\ Siz(b, 0) = Capacity
  BY Zenon, <1>3, <1>5 DEF Prv, Nxt, IsFree, Siz
<1>8. Shape(b)
  BY <1>1, <1>5, <1>6, <1>7 DEF Shape
<1>9. Solid(b)
  BY <1>1, <1>4, <1>5, <1>6, <1>7, <1>8 DEF Solid, Ahead
<1>10. Listing(b, << >>)
  BY <1>6, <1>7, ListingEmpty
<1>11. Contents(b) = << >>
  <2>1. Contents(b) \in Seq(Items) /\ Len(Contents(b)) = Len(<< >>)
    BY Zenon, <1>4, <1>8, <1>10, ContentsIs
  <2> QED BY <2>1, EmptySeq
<1>12. ArcLength(b) = 0
  BY <1>5, <1>7 DEF ArcLength
<1> QED BY <1>5, <1>9, <1>10, <1>11, <1>12, UsedEmpty, SoundIs

-----------------------------------------------------------------------------
(* FindBlock finds nothing only when the free space is tight.               *)

LEMMA FindBlockIs ==
  ASSUME NEW b, Shape(b), NEW want \in Nat \ {0}, NEW o, o = FindBlock(b, want)
  PROVE  \/ /\ o = Nil
            /\ \/ ~ IsFree(b, b.produce)
               \/ Siz(b, b.produce) < want /\ (IsFree(b, 0) => Siz(b, 0) < want)
         \/ /\ o # Nil /\ o \in Blocks(b) /\ IsFree(b, o) /\ IsFree(b, b.produce)
            /\ want <= Siz(b, o)
            /\ o # b.produce => o = 0 /\ Siz(b, b.produce) < want
<1>1. /\ b.produce \in Blocks(b) /\ 0 \in Blocks(b) /\ First = 0
      /\ Nil = Capacity /\ Capacity \notin Blocks(b)
      /\ Siz(b, 0) \in Int /\ Siz(b, b.produce) \in Int
  BY ShapeNumbers DEF First, Nil
<1>2. CASE ~ IsFree(b, b.produce)
  <2>1. o = Nil
    BY <1>2 DEF FindBlock, IsFree
  <2> QED BY <1>2, <2>1
<1>3. CASE IsFree(b, b.produce) /\ want <= Siz(b, b.produce)
  <2>1. o = b.produce
    BY <1>3 DEF FindBlock, IsFree, Siz
  <2> QED BY <1>1, <1>3, <2>1
<1>4. CASE IsFree(b, b.produce) /\ ~ (want <= Siz(b, b.produce))
  <2>1. o = IF IsFree(b, 0) /\ Siz(b, 0) >= want THEN 0 ELSE Nil
    BY <1>1, <1>4 DEF FindBlock, IsFree, Siz
  <2>2. CASE IsFree(b, 0) /\ Siz(b, 0) >= want
    BY <1>1, <1>4, <2>1, <2>2
  <2>3. CASE ~ (IsFree(b, 0) /\ Siz(b, 0) >= want)
    BY <1>1, <1>4, <2>1, <2>3
  <2> QED BY <2>2, <2>3
<1> QED BY <1>2, <1>3, <1>4

LEMMA FullEffect ==
  ASSUME NEW b, Solid(b), NEW want \in 1 .. Capacity, FindBlock(b, want) = Nil
  PROVE  /\ ~ IsFree(b, b.consume)
         /\ \/ Capacity - ArcLength(b) <= (want - 1) + (want - 1)
            \/ /\ ~ IsFree(b, 0)
               /\ Capacity - ArcLength(b) <= (want - 1) + (Siz(b, 0) - 1)
<1>1. PICK c : c = b.consume
  OBVIOUS
<1>2. PICK p : p = b.produce
  OBVIOUS
<1>3. PICK l : l = b.last
  OBVIOUS
<1>4. Shape(b) /\ Capacity \in Nat /\ want \in Nat \ {0}
  BY CapacityPositive DEF Solid
<1>5. /\ c \in Int /\ p \in Int /\ l \in Int
      /\ c \in Blocks(b) /\ p \in Blocks(b) /\ l \in Blocks(b) /\ 0 \in Blocks(b)
      /\ Capacity \notin Blocks(b)
      /\ \A i \in Blocks(b) :
           /\ i \in Int /\ 0 <= i /\ i < Capacity /\ i <= l
           /\ Nxt(b, i) \in Int /\ i < Nxt(b, i) /\ Nxt(b, i) <= Capacity
           /\ Siz(b, i) \in Int /\ Siz(b, i) > 0 /\ Nxt(b, i) = i + Siz(b, i)
           /\ (Nxt(b, i) = Capacity <=> i = l)
           /\ (i # l => Nxt(b, i) \in Blocks(b))
      /\ \A i, j \in Blocks(b) : i < j => Nxt(b, i) <= j
  BY <1>1, <1>2, <1>3, <1>4, ShapeNumbers
<1>6. \/ ~ IsFree(b, p)
      \/ IsFree(b, p) /\ Siz(b, p) < want /\ (IsFree(b, 0) => Siz(b, 0) < want)
  BY <1>2, <1>4, FindBlockIs
<1>7. ArcLength(b) = IF c < p THEN p - c ELSE IF c = p /\ IsFree(b, c) THEN 0
                 ELSE (IF IsFree(b, l) THEN l ELSE Capacity) - c + p
  BY <1>1, <1>2, <1>3 DEF ArcLength
<1>8. CASE ~ IsFree(b, p)
  <2>1. c = p
    <3>1. ~ Ahead(b, p)
      BY <1>1, <1>2, <1>5 DEF Ahead
    <3> QED BY <1>1, <1>2, <1>5, <1>8, <3>1 DEF Solid
  <2>2. CASE IsFree(b, l)
    <3>1. ~ IsFree(b, 0) /\ Siz(b, l) < Siz(b, 0)
      BY <1>1, <1>2, <1>3, <1>5, <1>8, <2>1, <2>2 DEF Solid
    <3>2. ArcLength(b) = l /\ Nxt(b, l) = Capacity
      BY <1>5, <1>7, <1>8, <2>1, <2>2
    <3> QED BY <1>1, <1>4, <1>5, <1>8, <2>1, <3>1, <3>2
  <2>3. CASE ~ IsFree(b, l)
    <3>1. ArcLength(b) = Capacity
      BY <1>4, <1>5, <1>7, <1>8, <2>1, <2>3
    <3> QED BY <1>1, <1>4, <1>8, <2>1, <3>1
  <2> QED BY <2>2, <2>3
<1>9. CASE IsFree(b, p) /\ Siz(b, p) < want /\ (IsFree(b, 0) => Siz(b, 0) < want)
  <2>1. /\ c = p => Blocks(b) = {0} /\ c = 0 /\ Siz(b, 0) = Capacity
        /\ c # p => ~ IsFree(b, c)
        /\ \A i \in Blocks(b) : ~ IsFree(b, i) => c # p
        /\ c < p => /\ p = l /\ Nxt(b, p) = Capacity
                    /\ \A i \in Blocks(b) : IsFree(b, i) /\ i # p => i < c
                    /\ \A i \in Blocks(b) : ~ IsFree(b, i) => c <= i /\ i < p
        /\ p < c => /\ \A i \in Blocks(b) : ~ IsFree(b, i) => c <= i \/ i < p
                    /\ \A i \in Blocks(b) : IsFree(b, i) /\ (c <= i \/ i < p) =>
                         i = l /\ i # c /\ ~ IsFree(b, 0) /\ Siz(b, i) < Siz(b, 0)
    BY <1>1, <1>2, <1>3, <1>9, RoomAtProduce
  <2>2. c # p
    BY <1>4, <1>5, <1>9, <2>1
  <2>3. \A i \in Blocks(b) : IsFree(b, i) /\ Nxt(b, i) \in Blocks(b) => ~ IsFree(b, Nxt(b, i))
    BY DEF Solid
  <2>4. CASE c < p
    <3>1. p = l /\ Nxt(b, p) = Capacity /\ ArcLength(b) = p - c /\ ~ IsFree(b, c)
      BY <1>5, <1>7, <2>1, <2>4
    <3>2. CASE c = 0
      BY <1>1, <1>4, <1>5, <1>9, <3>1, <3>2
    <3>3. CASE c # 0
      <4>1. IsFree(b, 0) /\ 0 < c
        BY <1>5, <2>1, <2>4, <3>3
      <4>2. Nxt(b, 0) <= c /\ Nxt(b, 0) \in Blocks(b)
        BY <1>5, <4>1
      <4>3. c <= Nxt(b, 0)
        BY <1>5, <2>1, <2>3, <2>4, <4>1, <4>2
      <4>4. Siz(b, 0) = c /\ c < want
        BY <1>5, <1>9, <4>1, <4>2, <4>3
      <4> QED BY <1>1, <1>4, <1>5, <1>9, <3>1, <4>4
    <3> QED BY <3>2, <3>3
  <2>5. CASE p < c
    <3>1. Nxt(b, p) <= c /\ Nxt(b, p) \in Blocks(b) /\ ~ IsFree(b, c)
      BY <1>5, <2>1, <2>5
    <3>2. c <= Nxt(b, p)
      BY <1>5, <1>9, <2>1, <2>3, <2>5, <3>1
    <3>3. Siz(b, p) = c - p
      BY <1>5, <3>1, <3>2
    <3>4. CASE IsFree(b, l)
      <4>1. ~ IsFree(b, 0) /\ Siz(b, l) < Siz(b, 0)
        BY <1>5, <2>1, <2>5, <3>4
      <4>2. ArcLength(b) = l - c + p /\ Nxt(b, l) = Capacity
        BY <1>5, <1>7, <2>5, <3>4
      <4>3. l + Siz(b, l) = Capacity
        BY <1>5, <4>2
      <4> QED BY <1>1, <1>4, <1>5, <1>9, <3>1, <3>3, <4>1, <4>2, <4>3
    <3>5. CASE ~ IsFree(b, l)
      <4>1. ArcLength(b) = Capacity - c + p
        BY <1>5, <1>7, <2>5, <3>5
      <4> QED BY <1>1, <1>4, <1>5, <1>9, <3>1, <3>3, <4>1
    <3> QED BY <3>4, <3>5
  <2> QED BY <1>5, <2>2, <2>4, <2>5
<1> QED BY <1>6, <1>8, <1>9

LEMMA FullTight ==
  ASSUME NEW b, Sound(b), NEW want \in 1 .. Capacity, FindBlock(b, want) = Nil
  PROVE  ~ IsFree(b, b.consume) /\ Queue!Tight(Contents(b), want)
<1>1. Solid(b) /\ Queue!Used(Contents(b)) = ArcLength(b)
  BY DEF Sound
<1>2. PICK s : Listing(b, s) /\ s \in Seq(Blocks(b))
  BY DEF Sound, Listing
<1>3. Typed(b) /\ Shape(b)
  BY <1>1 DEF Solid
<1>4. PICK q \in Seq(Items) : q = Contents(b) /\ Len(q) = Len(s)
                              /\ \A i \in 1 .. Len(s) : q[i] = ItemAt(b, s[i])
  BY <1>2, <1>3, ContentsIs
<1>5. Queue!Room(q) = Capacity - ArcLength(b)
  BY <1>1, <1>4 DEF Queue!Room
<1>6. DOMAIN q = 1 .. Len(q)
  BY LenProperties
<1>7. ~ IsFree(b, b.consume)
  BY <1>1, FullEffect
<1>8. CASE Capacity - ArcLength(b) <= (want - 1) + (want - 1)
  <2>1. Queue!Room(q) <= (want - 1) + (want - 1)
    BY <1>5, <1>8
  <2> QED BY <1>4, <1>7, <2>1 DEF Queue!Tight
<1>9. CASE ~ IsFree(b, 0) /\ Capacity - ArcLength(b) <= (want - 1) + (Siz(b, 0) - 1)
  <2>1. 0 \in Blocks(b)
    BY <1>3, ShapeNumbers
  <2>2. PICK i \in 1 .. Len(s) : s[i] = 0
    BY <1>2, <1>9, <2>1 DEF Listing
  <2>3. q[i].size = Siz(b, 0)
    <3>1. q[i] = ItemAt(b, 0)
      BY <1>4, <2>2
    <3>2. ItemAt(b, 0).size = Siz(b, 0)
      BY DEF ItemAt
    <3> QED BY Zenon, <3>1, <3>2
  <2>4. i \in DOMAIN q
    BY <1>4, <1>6
  <2>5. Queue!Room(q) <= (want - 1) + (q[i].size - 1)
    BY <1>5, <1>9, <2>3
  <2>6. q[i].size \in {want} \cup {q[j].size : j \in DOMAIN q}
    BY <2>4
  <2>7. Queue!Tight(q, want)
    BY <2>5, <2>6 DEF Queue!Tight
  <2> QED BY <1>4, <1>7, <2>7
<1> QED BY <1>1, <1>8, <1>9, FullEffect

-----------------------------------------------------------------------------
(* MakeRoom                                                                 *)

LEMMA WithoutNone ==
  ASSUME NEW q \in Seq(Items)
  PROVE  Queue!Without(q, 0) = q
<1>1. SubSeq(q, 0 + 1, Len(q)) = q
  BY SubSeqFull
<1> QED BY Zenon, <1>1 DEF Queue!Without

LEMMA WithoutTail ==
  ASSUME NEW q \in Seq(Items), NEW k \in 0 .. Len(q) - 1
  PROVE  /\ Tail(Queue!Without(q, k)) = Queue!Without(q, k + 1)
<1>1. PICK n \in Nat : n = Len(q)
  BY LenProperties
<1>2. PICK m \in 1 .. n : m = k + 1
  BY <1>1
<1>3. n \in m .. n
  BY <1>1, <1>2
<1>4. Tail(SubSeq(q, m, n)) = SubSeq(q, m + 1, n)
  BY <1>1, <1>3, HeadTailOfSubSeq
<1> QED BY Zenon, <1>1, <1>2, <1>4 DEF Queue!Without

LEMMA WithoutLen ==
  ASSUME NEW q \in Seq(Items), NEW k \in 0 .. Len(q), Queue!Without(q, k) # << >>
  PROVE  k < Len(q)
<1>1. PICK n \in Nat : n = Len(q)
  BY LenProperties
<1> SUFFICES ASSUME k = n  PROVE FALSE
  BY <1>1
<1>2. SubSeq(q, n + 1, n) = << >>
  BY SubSeqEmpty
<1>3. Queue!Without(q, k) = SubSeq(q, n + 1, n)
  BY Zenon, <1>1 DEF Queue!Without
<1> QED BY <1>2, <1>3

\* What the loop over the policy has done after some turns.
Roomed(b, want, d) ==
  /\ Sound(d) /\ d.recycle = b.recycle
  /\ \E k \in 0 .. Len(Contents(b)) :
       /\ Contents(d) = Queue!Without(Contents(b), k)
       /\ k > 0 => b.recycle
       /\ \A i \in 0 .. k - 1 : Queue!Tight(Queue!Without(Contents(b), i), want)

LEMMA TurnEffect ==
  ASSUME NEW b, Sound(b), NEW want \in 1 .. Capacity, NEW d, Roomed(b, want, d),
         NEW e, e = RoomTurn(d, want)
  PROVE  /\ Roomed(b, want, e)
         /\ FindBlock(d, want) # Nil => e = d
         /\ b.recycle /\ FindBlock(d, want) = Nil => ArcLength(e) < ArcLength(d)
<1>1. /\ Sound(d) /\ d.recycle = b.recycle
  BY DEF Roomed
<1>2. PICK q \in Seq(Items) : q = Contents(b)
  BY ContentsIs DEF Sound, Solid
<1>3. PICK n \in Nat : n = Len(q)
  BY <1>2, LenProperties
<1>4. PICK k \in 0 .. n : /\ Contents(d) = Queue!Without(q, k)
                          /\ k > 0 => b.recycle
                          /\ \A i \in 0 .. k - 1 : Queue!Tight(Queue!Without(q, i), want)
  BY <1>2, <1>3 DEF Roomed
<1>5. CASE ~ (b.recycle /\ FindBlock(d, want) = Nil)
  <2>1. e = d
    BY <1>1, <1>5 DEF RoomTurn
  <2> QED BY <1>5, <2>1
<1>6. CASE b.recycle /\ FindBlock(d, want) = Nil
  <2>1. e = PopFirst(d)
    BY <1>1, <1>6 DEF RoomTurn
  <2>2. ~ IsFree(d, d.consume) /\ Queue!Tight(Contents(d), want)
    BY <1>1, <1>6, FullTight
  <2>3. /\ Sound(e) /\ e.recycle = d.recycle /\ Contents(d) # << >>
        /\ Contents(e) = Tail(Contents(d)) /\ ArcLength(e) < ArcLength(d)
    BY <1>1, <2>1, <2>2, SoundPop
  <2>4. k < n
    BY <1>3, <1>4, <2>3, WithoutLen
  <2>5. PICK m \in 0 .. n : m = k + 1
    BY <2>4
  <2>6. Contents(e) = Queue!Without(q, m)
    <3>1. k \in 0 .. Len(q) - 1
      BY <1>3, <2>4
    <3>2. Tail(Queue!Without(q, k)) = Queue!Without(q, k + 1)
      BY <3>1, WithoutTail
    <3> QED BY <1>4, <2>3, <2>5, <3>2
  <2>7. \A i \in 0 .. m - 1 : Queue!Tight(Queue!Without(q, i), want)
    <3>1. Queue!Tight(Queue!Without(q, k), want)
      BY <1>4, <2>2
    <3>2. \A i \in 0 .. m - 1 : i = k \/ i \in 0 .. k - 1
      BY <2>5
    <3> QED BY Zenon, <1>4, <3>1, <3>2
  <2>8. e.recycle = b.recycle /\ b.recycle
    BY <1>1, <1>6, <2>3
  <2>9. Roomed(b, want, e)
    BY Zenon, <1>2, <1>3, <2>3, <2>5, <2>6, <2>7, <2>8 DEF Roomed
  <2> QED BY <1>6, <2>3, <2>9
<1> QED BY <1>5, <1>6

\* The buffers.
RingBuffers ==
  [mem : UNION {[S -> [prev : 0 .. Capacity, next : 0 .. Capacity, free : BOOLEAN,
                       size : 1 .. Capacity, item : Values \cup {"none"}]] :
                S \in SUBSET (0 .. Capacity - 1)},
   produce : 0 .. Capacity, consume : 0 .. Capacity, last : 0 .. Capacity, recycle : BOOLEAN]

LEMMA RingBuffersAre ==
  ASSUME NEW b, Typed(b)
  PROVE  b \in RingBuffers
<1>1. Capacity \in Nat \ {0}
  BY CapacityPositive
<1> DEFINE R == [prev : (0 .. Capacity - 1) \cup {Capacity},
                 next : (0 .. Capacity - 1) \cup {Capacity},
                 free : BOOLEAN, size : 1 .. Capacity, item : Values \cup {"none"}]
           Q == [prev : 0 .. Capacity, next : 0 .. Capacity, free : BOOLEAN,
                 size : 1 .. Capacity, item : Values \cup {"none"}]
<1>2. R = Q
  <2>1. (0 .. Capacity - 1) \cup {Capacity} = 0 .. Capacity
    BY <1>1
  <2> QED BY Zenon, <2>1
<1> HIDE DEF R, Q
<1>3. b.mem \in [Blocks(b) -> Q] /\ Blocks(b) \in SUBSET (0 .. Capacity - 1)
  <2>1. b.mem \in [Blocks(b) -> R] /\ Blocks(b) \in SUBSET (0 .. Capacity - 1)
    BY Zenon DEF Typed, Nil, R
  <2> QED BY <1>2, <2>1
<1>4. b.mem \in UNION {[S -> Q] : S \in SUBSET (0 .. Capacity - 1)}
  BY <1>3
<1>5. /\ b.produce \in 0 .. Capacity /\ b.consume \in 0 .. Capacity /\ b.last \in 0 .. Capacity
      /\ b.recycle \in BOOLEAN
  BY <1>1, <1>3, TypedIs
<1>6. b = [mem |-> b.mem, produce |-> b.produce, consume |-> b.consume, last |-> b.last,
           recycle |-> b.recycle]
  BY DEF Typed
<1>7. b \in [mem : UNION {[S -> Q] : S \in SUBSET (0 .. Capacity - 1)},
             produce : 0 .. Capacity, consume : 0 .. Capacity, last : 0 .. Capacity,
             recycle : BOOLEAN]
  BY <1>4, <1>5, <1>6
<1> QED BY Zenon, <1>7 DEF RingBuffers, Q

LEMMA RoomEffect ==
  ASSUME NEW b, Sound(b), NEW want \in 1 .. Capacity, NEW d, d = MakeRoom(b, want)
  PROVE  /\ Roomed(b, want, d)
         /\ ~ b.recycle => d = b
         /\ b.recycle => FindBlock(d, want) # Nil
<1>1. Capacity \in Nat \ {0} /\ ~ (want > Capacity)
  BY CapacityPositive
<1> DEFINE X == {x \in RingBuffers : Roomed(b, want, x)}
           F == [y \in Nat \X X |-> RoomTurn(y[2], want)]
<1>2. b \in X
  <2>1. PICK q \in Seq(Items) : q = Contents(b)
    BY ContentsIs DEF Sound, Solid
  <2>2. Contents(b) = Queue!Without(Contents(b), 0)
    BY <2>1, WithoutNone
  <2>3. 0 \in 0 .. Len(Contents(b)) /\ ~ (0 > 0) /\ \A i \in 0 .. 0 - 1 : FALSE
    BY <2>1, LenProperties
  <2>4. Roomed(b, want, b)
    BY Zenon, <2>2, <2>3 DEF Roomed
  <2> QED BY <2>4, RingBuffersAre DEF Sound, Solid
<1>3. ASSUME NEW x \in X  PROVE RoomTurn(x, want) \in X
  <2>1. Roomed(b, want, RoomTurn(x, want))
    BY TurnEffect
  <2> QED BY <2>1, RingBuffersAre DEF Roomed, Sound, Solid
<1> HIDE DEF X
<1>4. F \in [Nat \X X -> X] /\ \A i \in Nat, x \in X : F[<<i, x>>] = RoomTurn(x, want)
  BY <1>3
<1> HIDE DEF F
<1>5. PICK g \in [0 .. Capacity -> X] : g[0] = b /\ \A i \in 1 .. Capacity : g[i] = F[<<i, g[i - 1]>>]
  <2>1. Capacity \in Nat
    BY <1>1
  <2>2. TurnsFrom(b, F, X, Capacity) # {}
    BY Zenon, <1>2, <1>4, <2>1, TurnsDefined
  <2> QED BY Zenon, <2>2 DEF TurnsFrom
<1>6. g = [i \in 0 .. Capacity |-> IF i = 0 THEN b ELSE RoomTurn(g[i - 1], want)]
  <2>1. ASSUME NEW i \in 0 .. Capacity, i # 0  PROVE g[i] = RoomTurn(g[i - 1], want)
    <3>1. i \in 1 .. Capacity /\ i \in Nat /\ g[i - 1] \in X
      BY <1>1, <2>1
    <3> QED BY <1>4, <1>5, <3>1
  <2> QED BY <1>5, <2>1
<1> DEFINE turn == CHOOSE f : f = [i \in 0 .. Capacity |-> IF i = 0 THEN b ELSE RoomTurn(f[i - 1], want)]
<1>7. turn = [i \in 0 .. Capacity |-> IF i = 0 THEN b ELSE RoomTurn(turn[i - 1], want)]
  BY Zenon, <1>6
<1>8. d = turn[Capacity]
  BY Zenon, <1>1 DEF MakeRoom
<1> HIDE DEF turn
<1> DEFINE S == {i \in Nat : i <= Capacity =>
                   /\ turn[i] \in X
                   /\ ~ b.recycle => turn[i] = b
                   /\ b.recycle => \/ FindBlock(turn[i], want) # Nil
                                   \/ ArcLength(turn[i]) <= Capacity - i}
<1>9. 0 \in S
  <2>1. turn[0] = b
    BY <1>1, <1>7
  <2>2. ArcLength(b) <= Capacity - 0
    BY <1>1, ArcBounds DEF Sound
  <2> QED BY <1>2, <2>1, <2>2
<1>10. ASSUME NEW i \in Nat, i \in S  PROVE i + 1 \in S
  <2> SUFFICES ASSUME i + 1 <= Capacity
               PROVE  /\ turn[i + 1] \in X
                      /\ ~ b.recycle => turn[i + 1] = b
                      /\ b.recycle => \/ FindBlock(turn[i + 1], want) # Nil
                                      \/ ArcLength(turn[i + 1]) <= Capacity - (i + 1)
    OBVIOUS
  <2>1. PICK x \in X : /\ x = turn[i] /\ (~ b.recycle => x = b)
                       /\ b.recycle => FindBlock(x, want) # Nil \/ ArcLength(x) <= Capacity - i
    BY <1>1, <1>10
  <2>2. PICK y : y = turn[i + 1] /\ y = RoomTurn(x, want)
    <3>1. PICK j \in 0 .. Capacity : j = i + 1 /\ j # 0 /\ j - 1 = i
      BY <1>1
    <3>2. turn[j] = RoomTurn(turn[j - 1], want)
      BY <1>7, <3>1
    <3> QED BY <2>1, <3>1, <3>2
  <2>3. y \in X /\ Roomed(b, want, x) /\ Roomed(b, want, y)
    BY <1>3, <2>2 DEF X
  <2>4. /\ FindBlock(x, want) # Nil => y = x
        /\ b.recycle /\ FindBlock(x, want) = Nil => ArcLength(y) < ArcLength(x)
    BY <2>2, <2>3, TurnEffect
  <2>5. ~ b.recycle => y = b
    BY <2>1, <2>2 DEF RoomTurn
  <2>6. ASSUME b.recycle  PROVE FindBlock(y, want) # Nil \/ ArcLength(y) <= Capacity - (i + 1)
    <3>1. CASE FindBlock(x, want) # Nil
      BY <2>4, <3>1
    <3>2. CASE FindBlock(x, want) = Nil
      <4>1. ArcLength(y) \in Int /\ ArcLength(x) \in Int
        BY <2>3, ArcBounds DEF Roomed, Sound
      <4> QED BY <1>1, <2>1, <2>4, <2>6, <3>2, <4>1
    <3> QED BY <3>1, <3>2
  <2> QED BY <2>2, <2>3, <2>5, <2>6
<1> HIDE DEF S
<1>11. Nat \subseteq S
  BY <1>9, <1>10, NumberInduction
<1>12. /\ d \in X /\ (~ b.recycle => d = b)
       /\ b.recycle => FindBlock(d, want) # Nil \/ ArcLength(d) <= 0
  <2>1. Capacity \in S
    BY <1>1, <1>11
  <2> QED BY <1>1, <1>8, <2>1 DEF S
<1>13. Roomed(b, want, d)
  BY <1>12 DEF X
<1>14. ASSUME b.recycle, FindBlock(d, want) = Nil  PROVE FALSE
  <2>1. Sound(d) /\ Solid(d)
    BY <1>13 DEF Roomed, Sound
  <2>2. ArcLength(d) > 0 /\ ArcLength(d) \in Int
    BY <1>14, <2>1, FullTight, ArcBounds
  <2> QED BY <1>12, <1>14, <2>2
<1> QED BY <1>12, <1>13, <1>14

-----------------------------------------------------------------------------
(* Allocate                                                                 *)

\* The item is put in, after some of the oldest ones were destroyed.
Stored(b, want, v, d) ==
  \E k \in 0 .. Len(Contents(b)), z \in {want, want + 1} :
    /\ k > 0 => b.recycle
    /\ \A i \in 0 .. k - 1 : Queue!Tight(Queue!Without(Contents(b), i), want)
    /\ z <= Queue!Room(Queue!Without(Contents(b), k))
    /\ Contents(d) = Append(Queue!Without(Contents(b), k), [item |-> v, size |-> z])

\* Allocate has stored the item or left the buffer alone.
LEMMA AllocateEffect ==
  ASSUME NEW b, Sound(b), NEW want \in Nat \ {0}, NEW v \in Values, NEW d, d = Allocate(b, want, v)
  PROVE  Sound(d) /\ d.recycle = b.recycle /\ (d = b \/ Stored(b, want, v, d))
<1>1. Capacity \in Nat \ {0}
  BY CapacityPositive
<1>2. CASE want > Capacity
  <2>1. d = b
    BY <1>2 DEF Allocate, Refuses, MakeRoom
  <2> QED BY <2>1
<1>3. CASE ~ (want > Capacity)
  <2>1. want \in 1 .. Capacity
    BY <1>1, <1>3
  <2>2. PICK e : e = MakeRoom(b, want)
    OBVIOUS
  <2>3. /\ Roomed(b, want, e)
        /\ ~ b.recycle => e = b
        /\ b.recycle => FindBlock(e, want) # Nil
    BY <2>1, <2>2, RoomEffect
  <2>4. Sound(e) /\ e.recycle = b.recycle
    BY <2>3 DEF Roomed
  <2>5. CASE FindBlock(e, want) = Nil
    <3>1. d = e
      BY <2>2, <2>5 DEF Allocate, Refuses
    <3>2. e = b \/ b.recycle
      BY <2>3, <2>4
    <3> QED BY <2>3, <2>4, <2>5, <3>1, <3>2
  <2>6. CASE FindBlock(e, want) # Nil
    <3>1. PICK o : o = FindBlock(e, want)
      OBVIOUS
    <3>2. d = Take(e, o, want, v)
      BY <1>3, <2>2, <2>6, <3>1 DEF Allocate, Refuses
    <3>3. /\ o \in Blocks(e) /\ IsFree(e, o) /\ IsFree(e, e.produce) /\ want <= Siz(e, o)
          /\ o # e.produce => o = 0 /\ Siz(e, e.produce) < want
      BY <2>4, <2>6, <3>1, FindBlockIs DEF Sound, Solid
    <3>4. PICK z \in {want, want + 1} :
            /\ Sound(d) /\ d.recycle = e.recycle
            /\ Contents(d) = Append(Contents(e), [item |-> v, size |-> z])
            /\ z <= Queue!Room(Contents(e))
      BY <2>4, <3>1, <3>2, <3>3, SoundPut
    <3>5. PICK k \in 0 .. Len(Contents(b)) :
            /\ Contents(e) = Queue!Without(Contents(b), k)
            /\ k > 0 => b.recycle
            /\ \A i \in 0 .. k - 1 : Queue!Tight(Queue!Without(Contents(b), i), want)
      BY <2>3 DEF Roomed
    <3>6. /\ Contents(d) = Append(Queue!Without(Contents(b), k), [item |-> v, size |-> z])
          /\ z <= Queue!Room(Queue!Without(Contents(b), k))
      BY Zenon, <3>4, <3>5
    <3>7. d.recycle = b.recycle
      BY <2>4, <3>4
    <3> QED BY Zenon, <3>4, <3>5, <3>6, <3>7 DEF Stored
  <2> QED BY <2>5, <2>6
<1> QED BY <1>2, <1>3

-----------------------------------------------------------------------------
(* The steps.                                                               *)

QueueVars == <<Contents(buf), buf.recycle>>

LEMMA PutStep ==
  ASSUME Sound(buf), NEW len \in Lengths, NEW v \in Values, PutItem(len, v)
  PROVE  Sound(buf') /\ [Queue!Next]_QueueVars
<1>1. PICK want \in Nat \ {0} : want = WantedSize(len) /\ want \in {WantedSize(l) : l \in Lengths}
  BY WantedPositive, RingAssumption
<1>2. PICK d : d = Allocate(buf, want, v)
  OBVIOUS
<1>3. Sound(d) /\ d.recycle = buf.recycle /\ (d = buf \/ Stored(buf, want, v, d))
  BY <1>2, AllocateEffect
<1>4. buf' = Forget(d)
  <2>1. buf' = Forget(Allocate(buf, WantedSize(len), v))
    BY DEF PutItem
  <2> QED BY Zenon, <1>1, <1>2, <2>1
<1>5. Sound(buf') /\ Contents(buf') = Contents(d) /\ buf'.recycle = d.recycle
  BY <1>3, <1>4, SoundForget
<1>6. CASE d = buf
  <2>1. QueueVars' = QueueVars
    BY <1>3, <1>5, <1>6 DEF QueueVars
  <2> QED BY <1>5, <2>1
<1>7. CASE Stored(buf, want, v, d)
  <2>1. PICK k \in 0 .. Len(Contents(buf)), z \in {want, want + 1} :
             /\ k > 0 => buf.recycle
             /\ \A i \in 0 .. k - 1 : Queue!Tight(Queue!Without(Contents(buf), i), want)
             /\ z <= Queue!Room(Queue!Without(Contents(buf), k))
             /\ Contents(d) = Append(Queue!Without(Contents(buf), k), [item |-> v, size |-> z])
    BY Zenon, <1>7 DEF Stored
  <2>2. Contents(buf') = Append(Queue!Without(Contents(buf), k), [item |-> v, size |-> z])
    BY <1>5, <2>1
  <2>3. Queue!Put(want, v)
    BY Zenon, <2>1, <2>2 DEF Queue!Put
  <2>4. buf'.recycle = buf.recycle
    BY <1>3, <1>5
  <2>5. Queue!Next
    BY Zenon, <1>1, <2>3, <2>4 DEF Queue!Next
  <2> QED BY <1>5, <2>5
<1> QED BY <1>3, <1>6, <1>7

LEMMA PopStep ==
  ASSUME Sound(buf), PopItem
  PROVE  Sound(buf') /\ [Queue!Next]_QueueVars
<1>1. PICK d : d = PopFirst(buf)
  OBVIOUS
<1>2. buf' = Forget(d)
  BY <1>1 DEF PopItem
<1>3. CASE IsFree(buf, buf.consume)
  <2>1. d = buf
    BY <1>1, <1>3 DEF PopFirst, CanPop, IsFree
  <2>2. Sound(buf') /\ Contents(buf') = Contents(buf) /\ buf'.recycle = buf.recycle
    BY <1>2, <2>1, SoundForget
  <2>3. QueueVars' = QueueVars
    BY <2>2 DEF QueueVars
  <2> QED BY <2>2, <2>3
<1>4. CASE ~ IsFree(buf, buf.consume)
  <2>1. /\ Sound(d) /\ d.recycle = buf.recycle
        /\ Contents(buf) # << >> /\ Contents(d) = Tail(Contents(buf))
    BY <1>1, <1>4, SoundPop
  <2>2. Sound(buf') /\ Contents(buf') = Contents(d) /\ buf'.recycle = d.recycle
    BY <1>2, <2>1, SoundForget
  <2>3. Queue!Pop /\ buf'.recycle = buf.recycle
    BY Zenon, <2>1, <2>2 DEF Queue!Pop
  <2>4. Queue!Next
    BY Zenon, <2>3 DEF Queue!Next
  <2> QED BY <2>2, <2>4
<1> QED BY <1>3, <1>4

LEMMA ClearStep ==
  ASSUME Sound(buf), Clear
  PROVE  Sound(buf') /\ [Queue!Next]_QueueVars
<1>1. buf.recycle \in BOOLEAN
  BY TypedIs DEF Sound, Solid
<1>2. Sound(buf') /\ Contents(buf') = << >> /\ buf'.recycle = buf.recycle
  BY <1>1, SoundCleared DEF Clear
<1>3. Queue!Clear
  BY Zenon, <1>2 DEF Queue!Clear
<1>4. Queue!Next
  BY Zenon, <1>2, <1>3 DEF Queue!Next
<1> QED BY <1>2, <1>4

LEMMA RingStep ==
  ASSUME Sound(buf), [RingNext]_buf
  PROVE  Sound(buf') /\ [Queue!Next]_QueueVars
<1>1. CASE UNCHANGED buf
  BY <1>1 DEF QueueVars
<1>2. ASSUME NEW len \in Lengths, NEW v \in Values, PutItem(len, v)
      PROVE  Sound(buf') /\ [Queue!Next]_QueueVars
  BY <1>2, PutStep
<1>3. CASE PopItem
  BY <1>3, PopStep
<1>4. CASE Clear
  BY <1>4, ClearStep
<1> QED BY <1>1, <1>2, <1>3, <1>4 DEF RingNext

LEMMA RingStart ==
  ASSUME RingInit
  PROVE  Sound(buf) /\ Queue!Init
<1>1. PICK r \in BOOLEAN : buf = Cleared(r)
  BY DEF RingInit
<1>2. Sound(buf) /\ Contents(buf) = << >> /\ buf.recycle = r
  BY <1>1, SoundCleared
<1> QED BY <1>2 DEF Queue!Init

\* The blocks tile the memory, the items are where m_pConsume and m_pProduce say,
\* and they take as much of it as the part between them.
THEOREM RingSound == RingSpec => []Sound(buf)
<1>1. RingInit => Sound(buf)
  BY RingStart
<1>2. Sound(buf) /\ [RingNext]_buf => Sound(buf)'
  BY RingStep
<1> QED BY <1>1, <1>2, PTL DEF RingSpec

\* Every call of Allocate, PopFirst and Clear is a step of the queue of the items.
THEOREM RingRefines == RingSpec => ImplementsQueue
<1>1. RingInit => Queue!Init
  BY RingStart
<1>2. Sound(buf) /\ [RingNext]_buf => [Queue!Next]_QueueVars
  BY RingStep
<1>3. RingSpec => []Sound(buf)
  BY RingSound
<1> QED BY <1>1, <1>2, <1>3, PTL DEF RingSpec, ImplementsQueue, Queue!Spec, QueueVars

\* Allocate returns nullptr only when it must.
THEOREM RingRefuses == RingSpec => []RefusesOnlyWhenTight
<1>1. Sound(buf) => RefusesOnlyWhenTight
  <2> SUFFICES ASSUME Sound(buf), NEW want \in 1 .. Capacity, Refuses(buf, want)
               PROVE  ~ buf.recycle /\ InUse(buf) # {} /\ Queue!Tight(Contents(buf), want)
    BY Zenon DEF RefusesOnlyWhenTight
  <2>1. PICK d : d = MakeRoom(buf, want)
    OBVIOUS
  <2>2. /\ ~ buf.recycle => d = buf
        /\ buf.recycle => FindBlock(d, want) # Nil
    BY <2>1, RoomEffect
  <2>3. FindBlock(d, want) = Nil
    BY <2>1, CapacityPositive DEF Refuses
  <2>4. ~ IsFree(buf, buf.consume) /\ Queue!Tight(Contents(buf), want) /\ ~ buf.recycle
    BY <2>2, <2>3, FullTight
  <2>5. buf.consume \in Blocks(buf)
    BY ShapeNumbers DEF Sound, Solid
  <2> QED BY <2>4, <2>5 DEF InUse, IsFree
<1> QED BY <1>1, RingSound, PTL

-----------------------------------------------------------------------------
(* The walks.                                                               *)

\* Before is a strict total order of the blocks, and m_pConsume comes first.
LEMMA BeforeOrder ==
  ASSUME NEW b, Shape(b), NEW c, c = b.consume
  PROVE  /\ \A i, j \in Blocks(b) : Before(c, i, j) => i # j /\ ~ Before(c, j, i)
         /\ \A i, j \in Blocks(b) : i = j \/ Before(c, i, j) \/ Before(c, j, i)
         /\ \A i, j, k \in Blocks(b) : Before(c, i, j) /\ Before(c, j, k) => Before(c, i, k)
         /\ \A i \in Blocks(b) : ~ Before(c, i, c) /\ (i = c \/ Before(c, c, i))
<1>1. c \in Int /\ \A i \in Blocks(b) : i \in Int
  BY ShapeNumbers
<1> QED BY <1>1 DEF Before

\* The block after o in the order of the addresses, and around the end, is the next one
\* in the order of the ages.
Follows(b, o, x) ==
  /\ x = b.consume => \A i \in Blocks(b) : i = o \/ Before(b.consume, i, o)
  /\ x # b.consume => /\ Before(b.consume, o, x)
                      /\ \A i \in Blocks(b) : \/ i = o \/ Before(b.consume, i, o)
                                              \/ i = x \/ Before(b.consume, x, i)

LEMMA NextBlockIs ==
  ASSUME NEW b, Shape(b), NEW o \in Blocks(b), NEW x, x = NextBlock(b, o)
  PROVE  /\ x \in Blocks(b) /\ Follows(b, o, x)
         /\ o = b.last => x = 0
         /\ o # b.last => x = Nxt(b, o)
<1>1. PICK c : c = b.consume
  OBVIOUS
<1>2. /\ c \in Int /\ c \in Blocks(b) /\ 0 \in Blocks(b) /\ b.last \in Int
      /\ Nil = Capacity /\ First = 0
      /\ \A i \in Blocks(b) :
           /\ i \in Int /\ 0 <= i /\ i <= b.last
           /\ Nxt(b, i) \in Int /\ i < Nxt(b, i)
           /\ (Nxt(b, i) = Capacity <=> i = b.last)
           /\ (i # b.last => Nxt(b, i) \in Blocks(b))
      /\ \A i, j \in Blocks(b) : i < j => Nxt(b, i) <= j
  BY <1>1, ShapeNumbers DEF First, Nil
<1>3. x = IF Nxt(b, o) # Capacity THEN Nxt(b, o) ELSE 0
  BY <1>2 DEF NextBlock, Nxt
<1>4. CASE o = b.last
  <2>1. x = 0
    BY <1>2, <1>3, <1>4
  <2>2. Follows(b, o, x)
    BY <1>1, <1>2, <1>4, <2>1 DEF Follows, Before
  <2> QED BY <1>2, <1>4, <2>1, <2>2
<1>5. CASE o # b.last
  <2>1. x = Nxt(b, o) /\ x \in Blocks(b)
    BY <1>2, <1>3, <1>5
  <2>2. \A i \in Blocks(b) : i <= o \/ x <= i
    BY <1>2, <2>1
  <2>3. Follows(b, o, x)
    BY <1>1, <1>2, <2>1, <2>2 DEF Follows, Before
  <2> QED BY <1>5, <2>1, <2>3
<1> QED BY <1>4, <1>5

LEMMA PrevBlockIs ==
  ASSUME NEW b, Shape(b), NEW o \in Blocks(b), NEW x, x = PrevBlock(b, o)
  PROVE  /\ x \in Blocks(b) /\ Follows(b, x, o)
         /\ x = b.last => o = 0
         /\ x # b.last => o = Nxt(b, x)
<1>1. /\ Nil = Capacity /\ b.last \in Blocks(b) /\ Capacity \notin Blocks(b)
      /\ Prv(b, 0) = Capacity /\ Nxt(b, b.last) = Capacity
      /\ o # 0 => Prv(b, o) \in Blocks(b) /\ Nxt(b, Prv(b, o)) = o
  BY ShapeNumbers DEF Shape, Nil
<1>2. x = IF Prv(b, o) # Capacity THEN Prv(b, o) ELSE b.last
  BY <1>1 DEF PrevBlock, Prv
<1>3. x \in Blocks(b) /\ (x = b.last => o = 0) /\ (x # b.last => o = Nxt(b, x))
  BY <1>1, <1>2
<1>4. PICK y : y = NextBlock(b, x)
  OBVIOUS
<1>5. Follows(b, x, y) /\ (x = b.last => y = 0) /\ (x # b.last => y = Nxt(b, x))
  BY Zenon, <1>3, <1>4, NextBlockIs
<1> QED BY <1>3, <1>4, <1>5

\* A turn of the loop of Next, which has ended when the turn changes nothing.
NextTurn(b, i) == IF i # b.produce /\ b.mem[i].free THEN NextBlock(b, i) ELSE i

LEMMA NextItemIs ==
  ASSUME NEW b, NEW o, NEW x, x = NextBlock(b, o), NEW y, y = NextTurn(b, x), NextTurn(b, y) = y
  PROVE  NextItem(b, o) = IF y = b.produce THEN Nil ELSE y
<1> DEFINE X == {x, y}
           F == [z \in Nat \X X |-> NextTurn(b, z[2])]
<1>1. F \in [Nat \X X -> X] /\ \A i \in Nat, z \in X : F[<<i, z>>] = NextTurn(b, z)
  <2>1. \A z \in X : NextTurn(b, z) \in X
    OBVIOUS
  <2> HIDE DEF X
  <2>2. \A z \in Nat \X X : z[2] \in X
    OBVIOUS
  <2> QED BY <2>1, <2>2
<1> HIDE DEF F
<1>2. Capacity \in Nat \ {0}
  BY CapacityPositive
<1>3. PICK g \in [0 .. Capacity -> X] : g[0] = x /\ \A i \in 1 .. Capacity : g[i] = F[<<i, g[i - 1]>>]
  <2>1. x \in X /\ Capacity \in Nat
    BY <1>2
  <2> HIDE DEF X
  <2>2. TurnsFrom(x, F, X, Capacity) # {}
    BY Zenon, <1>1, <2>1, TurnsDefined
  <2> QED BY Zenon, <2>2 DEF TurnsFrom
<1>4. g = [i \in 0 .. Capacity |-> IF i = 0 THEN NextBlock(b, o) ELSE NextTurn(b, g[i - 1])]
  <2>1. ASSUME NEW i \in 0 .. Capacity, i # 0  PROVE g[i] = NextTurn(b, g[i - 1])
    <3>1. i \in 1 .. Capacity /\ i \in Nat /\ g[i - 1] \in X
      BY <1>2, <2>1
    <3> HIDE DEF X
    <3> QED BY <1>1, <1>3, <3>1
  <2> QED BY <1>3, <2>1
<1> DEFINE turn == CHOOSE f : f = [i \in 0 .. Capacity |->
                                     IF i = 0 THEN NextBlock(b, o) ELSE NextTurn(b, f[i - 1])]
<1>5. turn = [i \in 0 .. Capacity |-> IF i = 0 THEN NextBlock(b, o) ELSE NextTurn(b, turn[i - 1])]
  BY Zenon, <1>4
<1>6. NextItem(b, o) = IF turn[Capacity] = b.produce THEN Nil ELSE turn[Capacity]
  BY DEF NextItem, Walk, NextTurn
<1> HIDE DEF turn
<1> DEFINE S == {i \in Nat : i + 1 <= Capacity => turn[i + 1] = y}
<1>7. 0 \in S
  BY <1>2, <1>5
<1>8. ASSUME NEW i \in Nat, i \in S  PROVE i + 1 \in S
  <2> SUFFICES ASSUME i + 2 <= Capacity  PROVE turn[i + 2] = y
    OBVIOUS
  <2>1. turn[i + 1] = y
    BY <1>2, <1>8
  <2>2. PICK k \in 0 .. Capacity : k = i + 2 /\ k # 0 /\ k - 1 = i + 1
    BY <1>2
  <2>3. turn[k] = NextTurn(b, turn[k - 1])
    BY <1>5, <2>2
  <2> QED BY <2>1, <2>2, <2>3
<1> HIDE DEF S
<1>9. Nat \subseteq S
  BY <1>7, <1>8, NumberInduction
<1>10. turn[Capacity] = y
  <2>1. PICK k \in Nat : k = Capacity - 1 /\ k + 1 = Capacity
    BY <1>2
  <2> QED BY <1>9, <2>1 DEF S
<1> QED BY <1>6, <1>10

\* A turn of the loop of Prev, which has ended when the turn changes nothing.
PrevTurn(b, i) == IF i # b.produce /\ b.mem[i].free THEN PrevBlock(b, i) ELSE i

LEMMA PrevItemIs ==
  ASSUME NEW b, NEW o, NEW x, x = PrevBlock(b, o), NEW y, y = PrevTurn(b, x), PrevTurn(b, y) = y
  PROVE  PrevItem(b, o) = IF y = b.produce THEN Nil ELSE y
<1> DEFINE X == {x, y}
           F == [z \in Nat \X X |-> PrevTurn(b, z[2])]
<1>1. F \in [Nat \X X -> X] /\ \A i \in Nat, z \in X : F[<<i, z>>] = PrevTurn(b, z)
  <2>1. \A z \in X : PrevTurn(b, z) \in X
    OBVIOUS
  <2> HIDE DEF X
  <2>2. \A z \in Nat \X X : z[2] \in X
    OBVIOUS
  <2> QED BY <2>1, <2>2
<1> HIDE DEF F
<1>2. Capacity \in Nat \ {0}
  BY CapacityPositive
<1>3. PICK g \in [0 .. Capacity -> X] : g[0] = x /\ \A i \in 1 .. Capacity : g[i] = F[<<i, g[i - 1]>>]
  <2>1. x \in X /\ Capacity \in Nat
    BY <1>2
  <2> HIDE DEF X
  <2>2. TurnsFrom(x, F, X, Capacity) # {}
    BY Zenon, <1>1, <2>1, TurnsDefined
  <2> QED BY Zenon, <2>2 DEF TurnsFrom
<1>4. g = [i \in 0 .. Capacity |-> IF i = 0 THEN PrevBlock(b, o) ELSE PrevTurn(b, g[i - 1])]
  <2>1. ASSUME NEW i \in 0 .. Capacity, i # 0  PROVE g[i] = PrevTurn(b, g[i - 1])
    <3>1. i \in 1 .. Capacity /\ i \in Nat /\ g[i - 1] \in X
      BY <1>2, <2>1
    <3> HIDE DEF X
    <3> QED BY <1>1, <1>3, <3>1
  <2> QED BY <1>3, <2>1
<1> DEFINE turn == CHOOSE f : f = [i \in 0 .. Capacity |->
                                     IF i = 0 THEN PrevBlock(b, o) ELSE PrevTurn(b, f[i - 1])]
<1>5. turn = [i \in 0 .. Capacity |-> IF i = 0 THEN PrevBlock(b, o) ELSE PrevTurn(b, turn[i - 1])]
  BY Zenon, <1>4
<1>6. PrevItem(b, o) = IF turn[Capacity] = b.produce THEN Nil ELSE turn[Capacity]
  BY DEF PrevItem, Walk, PrevTurn
<1> HIDE DEF turn
<1> DEFINE S == {i \in Nat : i + 1 <= Capacity => turn[i + 1] = y}
<1>7. 0 \in S
  BY <1>2, <1>5
<1>8. ASSUME NEW i \in Nat, i \in S  PROVE i + 1 \in S
  <2> SUFFICES ASSUME i + 2 <= Capacity  PROVE turn[i + 2] = y
    OBVIOUS
  <2>1. turn[i + 1] = y
    BY <1>2, <1>8
  <2>2. PICK k \in 0 .. Capacity : k = i + 2 /\ k # 0 /\ k - 1 = i + 1
    BY <1>2
  <2>3. turn[k] = PrevTurn(b, turn[k - 1])
    BY <1>5, <2>2
  <2> QED BY <2>1, <2>2, <2>3
<1> HIDE DEF S
<1>9. Nat \subseteq S
  BY <1>7, <1>8, NumberInduction
<1>10. turn[Capacity] = y
  <2>1. PICK k \in Nat : k = Capacity - 1 /\ k + 1 = Capacity
    BY <1>2
  <2> QED BY <1>9, <2>1 DEF S
<1> QED BY <1>6, <1>10

\* The first k elements.
Prefix(s, k) == SubSeq(s, 1, k)

\* A turn of the walk with First and Next, which adds the item that is returned.
NextSeen(b, s) ==
  LET next == IF s = << >> THEN FirstItem(b) ELSE NextItem(b, s[Len(s)])
  IN  IF next = Nil THEN s ELSE Append(s, next)

LEMMA VisitedNext ==
  ASSUME NEW b, NEW S, NEW t \in Seq(S), Len(t) <= Capacity,
         \A k \in 0 .. Len(t) - 1 : NextSeen(b, Prefix(t, k)) = Prefix(t, k + 1),
         NextSeen(b, t) = t
  PROVE  Visited(b, FirstItem(b), NextItem) = t
<1>1. PICK n \in Nat : n = Len(t)
  BY LenProperties
<1>2. PICK m \in Nat : m = Capacity + 1 /\ n < m
  BY <1>1, CapacityPositive
<1> DEFINE P(i) == Prefix(t, i)
           X == {P(i) : i \in 0 .. n}
           Q(i) == IF i <= n THEN P(i) ELSE t
<1>3. P(n) = t /\ P(0) = << >>
  BY <1>1, SubSeqFull, SubSeqEmpty DEF Prefix
<1> HIDE DEF P
<1>4. \A k \in 0 .. n - 1 : NextSeen(b, P(k)) = P(k + 1)
  BY <1>1 DEF P
<1>5. \A i \in Nat : Q(i + 1) = NextSeen(b, Q(i))
  <2> SUFFICES ASSUME NEW i \in Nat  PROVE Q(i + 1) = NextSeen(b, Q(i))
    OBVIOUS
  <2>1. CASE i < n
    <3>1. i \in 0 .. n - 1
      BY <2>1
    <3> QED BY <1>4, <2>1, <3>1
  <2>2. CASE i = n
    BY <1>3, <2>2
  <2>3. CASE i > n
    BY <2>3
  <2> QED BY <2>1, <2>2, <2>3
<1> HIDE DEF Q
<1> DEFINE g == [i \in 0 .. m |-> Q(i)]
<1>6. g = [i \in 0 .. m |-> IF i = 0 THEN << >> ELSE NextSeen(b, g[i - 1])]
  <2>1. Q(0) = << >>
    BY <1>3 DEF Q
  <2>2. ASSUME NEW i \in 0 .. m, i # 0  PROVE Q(i) = NextSeen(b, g[i - 1])
    <3>1. PICK k \in Nat : k = i - 1 /\ i = k + 1 /\ k \in 0 .. m
      BY <2>2
    <3>2. g[i - 1] = Q(k)
      BY <3>1
    <3> QED BY <1>5, <3>1, <3>2
  <2> QED BY <2>1, <2>2
<1> HIDE DEF g
<1> DEFINE seen == CHOOSE f : f = [i \in 0 .. Capacity + 1 |->
                                     IF i = 0 THEN << >> ELSE NextSeen(b, f[i - 1])]
<1>7. seen = [i \in 0 .. Capacity + 1 |-> IF i = 0 THEN << >> ELSE NextSeen(b, seen[i - 1])]
  BY Zenon, <1>2, <1>6
<1>8. Visited(b, FirstItem(b), NextItem) = seen[Capacity + 1]
  BY DEF Visited, NextSeen
<1> HIDE DEF seen
<1>9. seen = [i \in 0 .. m |-> IF i = 0 THEN << >> ELSE NextSeen(b, seen[i - 1])]
  BY Zenon, <1>2, <1>7
<1> DEFINE T == {i \in Nat : i <= m => seen[i] = Q(i)}
<1>10. 0 \in T
  BY <1>3, <1>9 DEF Q
<1>11. ASSUME NEW i \in Nat, i \in T  PROVE i + 1 \in T
  <2> SUFFICES ASSUME i + 1 <= m  PROVE seen[i + 1] = Q(i + 1)
    OBVIOUS
  <2>1. PICK k \in 0 .. m : k = i + 1 /\ k # 0 /\ k - 1 = i
    OBVIOUS
  <2>2. seen[k] = NextSeen(b, seen[k - 1]) /\ seen[i] = Q(i)
    BY <1>9, <1>11, <2>1
  <2> QED BY <1>5, <2>1, <2>2
<1> HIDE DEF T
<1>12. Nat \subseteq T
  BY <1>10, <1>11, NumberInduction
<1>13. seen[m] = Q(m)
  BY <1>12 DEF T
<1>14. Q(m) = t
  BY <1>2 DEF Q
<1> QED BY <1>2, <1>8, <1>13, <1>14

\* A turn of the walk with Last and Prev, which adds the item that is returned.
PrevSeen(b, s) ==
  LET next == IF s = << >> THEN LastItem(b) ELSE PrevItem(b, s[Len(s)])
  IN  IF next = Nil THEN s ELSE Append(s, next)

LEMMA VisitedPrev ==
  ASSUME NEW b, NEW S, NEW t \in Seq(S), Len(t) <= Capacity,
         \A k \in 0 .. Len(t) - 1 : PrevSeen(b, Prefix(t, k)) = Prefix(t, k + 1),
         PrevSeen(b, t) = t
  PROVE  Visited(b, LastItem(b), PrevItem) = t
<1>1. PICK n \in Nat : n = Len(t)
  BY LenProperties
<1>2. PICK m \in Nat : m = Capacity + 1 /\ n < m
  BY <1>1, CapacityPositive
<1> DEFINE P(i) == Prefix(t, i)
           X == {P(i) : i \in 0 .. n}
           Q(i) == IF i <= n THEN P(i) ELSE t
<1>3. P(n) = t /\ P(0) = << >>
  BY <1>1, SubSeqFull, SubSeqEmpty DEF Prefix
<1> HIDE DEF P
<1>4. \A k \in 0 .. n - 1 : PrevSeen(b, P(k)) = P(k + 1)
  BY <1>1 DEF P
<1>5. \A i \in Nat : Q(i + 1) = PrevSeen(b, Q(i))
  <2> SUFFICES ASSUME NEW i \in Nat  PROVE Q(i + 1) = PrevSeen(b, Q(i))
    OBVIOUS
  <2>1. CASE i < n
    <3>1. i \in 0 .. n - 1
      BY <2>1
    <3> QED BY <1>4, <2>1, <3>1
  <2>2. CASE i = n
    BY <1>3, <2>2
  <2>3. CASE i > n
    BY <2>3
  <2> QED BY <2>1, <2>2, <2>3
<1> HIDE DEF Q
<1> DEFINE g == [i \in 0 .. m |-> Q(i)]
<1>6. g = [i \in 0 .. m |-> IF i = 0 THEN << >> ELSE PrevSeen(b, g[i - 1])]
  <2>1. Q(0) = << >>
    BY <1>3 DEF Q
  <2>2. ASSUME NEW i \in 0 .. m, i # 0  PROVE Q(i) = PrevSeen(b, g[i - 1])
    <3>1. PICK k \in Nat : k = i - 1 /\ i = k + 1 /\ k \in 0 .. m
      BY <2>2
    <3>2. g[i - 1] = Q(k)
      BY <3>1
    <3> QED BY <1>5, <3>1, <3>2
  <2> QED BY <2>1, <2>2
<1> HIDE DEF g
<1> DEFINE seen == CHOOSE f : f = [i \in 0 .. Capacity + 1 |->
                                     IF i = 0 THEN << >> ELSE PrevSeen(b, f[i - 1])]
<1>7. seen = [i \in 0 .. Capacity + 1 |-> IF i = 0 THEN << >> ELSE PrevSeen(b, seen[i - 1])]
  BY Zenon, <1>2, <1>6
<1>8. Visited(b, LastItem(b), PrevItem) = seen[Capacity + 1]
  BY DEF Visited, PrevSeen
<1> HIDE DEF seen
<1>9. seen = [i \in 0 .. m |-> IF i = 0 THEN << >> ELSE PrevSeen(b, seen[i - 1])]
  BY Zenon, <1>2, <1>7
<1> DEFINE T == {i \in Nat : i <= m => seen[i] = Q(i)}
<1>10. 0 \in T
  BY <1>3, <1>9 DEF Q
<1>11. ASSUME NEW i \in Nat, i \in T  PROVE i + 1 \in T
  <2> SUFFICES ASSUME i + 1 <= m  PROVE seen[i + 1] = Q(i + 1)
    OBVIOUS
  <2>1. PICK k \in 0 .. m : k = i + 1 /\ k # 0 /\ k - 1 = i
    OBVIOUS
  <2>2. seen[k] = PrevSeen(b, seen[k - 1]) /\ seen[i] = Q(i)
    BY <1>9, <1>11, <2>1
  <2> QED BY <1>5, <2>1, <2>2
<1> HIDE DEF T
<1>12. Nat \subseteq T
  BY <1>10, <1>11, NumberInduction
<1>13. seen[m] = Q(m)
  BY <1>12 DEF T
<1>14. Q(m) = t
  BY <1>2 DEF Q
<1> QED BY <1>2, <1>8, <1>13, <1>14

\* A free block between m_pConsume and m_pProduce is the rest of the memory that was too small
\* for the item that is at its beginning.
LEMMA FreeAhead ==
  ASSUME NEW b, Solid(b), NEW c, NEW p, c = b.consume, p = b.produce
  PROVE  /\ c \in Blocks(b) /\ p \in Blocks(b) /\ b.last \in Blocks(b) /\ 0 \in Blocks(b)
         /\ \A i \in Blocks(b) : ~ IsFree(b, i) => c = p \/ Before(c, i, p)
         /\ \A i \in Blocks(b) : ~ IsFree(b, i) => ~ IsFree(b, c)
         /\ \A i \in Blocks(b) :
              IsFree(b, i) /\ (Before(c, i, p) \/ (c = p /\ ~ IsFree(b, c))) =>
                i = b.last /\ i # c /\ c # 0 /\ ~ IsFree(b, 0)
         /\ c # p => ~ IsFree(b, c) /\ IsFree(b, p) /\ ~ Before(c, p, b.last)
         /\ \A i \in Blocks(b) : IsFree(b, i) /\ Nxt(b, i) \in Blocks(b) => ~ IsFree(b, Nxt(b, i))
<1>1. Shape(b)
  BY DEF Solid
<1>2. /\ c \in Int /\ p \in Int /\ c \in Blocks(b) /\ p \in Blocks(b) /\ b.last \in Blocks(b)
      /\ 0 \in Blocks(b) /\ b.last \in Int
      /\ \A i \in Blocks(b) : i \in Int /\ 0 <= i /\ i <= b.last
  BY <1>1, ShapeNumbers
<1>3. c # p => \A i \in Blocks(b) : Ahead(b, i) <=> Before(c, i, p)
  BY <1>2 DEF Ahead, Before
<1>4. c = p => \A i \in Blocks(b) : ~ Ahead(b, i) /\ ~ Before(c, i, p)
  BY <1>2 DEF Ahead, Before
<1>5. \A i \in Blocks(b) : ~ IsFree(b, i) => c = p \/ Before(c, i, p)
  BY <1>3 DEF Solid
<1>6. \A i \in Blocks(b) :
        IsFree(b, i) /\ (Before(c, i, p) \/ (c = p /\ ~ IsFree(b, c))) =>
          i = b.last /\ i # c /\ c # 0 /\ ~ IsFree(b, 0)
  BY <1>3, <1>4 DEF Solid
<1>7. c # p => ~ IsFree(b, c) /\ IsFree(b, p)
  <2> SUFFICES ASSUME c # p  PROVE ~ IsFree(b, c) /\ IsFree(b, p)
    OBVIOUS
  <2>1. Before(c, c, p) /\ ~ Before(c, p, p)
    BY <1>2 DEF Before
  <2> QED BY <1>2, <1>5, <1>6, <2>1
<1>8. \A i \in Blocks(b) : ~ IsFree(b, i) => ~ IsFree(b, c)
  <2> SUFFICES ASSUME NEW i \in Blocks(b), ~ IsFree(b, i), c = p  PROVE ~ IsFree(b, c)
    BY <1>7
  <2> QED BY <1>4 DEF Solid
<1>9. c # p => ~ Before(c, p, b.last)
  <2> SUFFICES ASSUME c # p  PROVE ~ Before(c, p, b.last)
    OBVIOUS
  <2>1. c < p => p = b.last
    BY <1>7, RoomAtProduce
  <2> QED BY <1>2, <2>1 DEF Before
<1>10. \A i \in Blocks(b) : IsFree(b, i) /\ Nxt(b, i) \in Blocks(b) => ~ IsFree(b, Nxt(b, i))
  BY DEF Solid
<1> QED BY <1>2, <1>5, <1>6, <1>7, <1>8, <1>9, <1>10

\* Next returns the item after o, in the order of the ages, or nullptr.
LEMMA NextItemOf ==
  ASSUME NEW b, Solid(b), NEW c, c = b.consume,
         NEW o \in Blocks(b), ~ IsFree(b, o), NEW n, n = NextItem(b, o)
  PROVE  \/ n = Nil /\ \A i \in Blocks(b) : ~ IsFree(b, i) => i = o \/ Before(c, i, o)
         \/ /\ n # Nil /\ n \in Blocks(b) /\ ~ IsFree(b, n) /\ Before(c, o, n)
            /\ \A i \in Blocks(b) :
                 ~ IsFree(b, i) => i = o \/ Before(c, i, o) \/ i = n \/ Before(c, n, i)
<1>1. Shape(b) /\ Nil \notin Blocks(b)
  BY ShapeNumbers DEF Solid, Nil
<1>2. PICK p : p = b.produce
  OBVIOUS
<1>3. /\ c \in Blocks(b) /\ p \in Blocks(b) /\ b.last \in Blocks(b) /\ 0 \in Blocks(b)
      /\ \A i \in Blocks(b) : ~ IsFree(b, i) => c = p \/ Before(c, i, p)
      /\ \A i \in Blocks(b) : ~ IsFree(b, i) => ~ IsFree(b, c)
      /\ \A i \in Blocks(b) :
           IsFree(b, i) /\ (Before(c, i, p) \/ (c = p /\ ~ IsFree(b, c))) =>
             i = b.last /\ i # c /\ c # 0 /\ ~ IsFree(b, 0)
      /\ c # p => ~ IsFree(b, c) /\ IsFree(b, p) /\ ~ Before(c, p, b.last)
  BY <1>2, FreeAhead
<1>4. /\ \A i, j \in Blocks(b) : Before(c, i, j) => i # j /\ ~ Before(c, j, i)
      /\ \A i, j \in Blocks(b) : i = j \/ Before(c, i, j) \/ Before(c, j, i)
      /\ \A i, j, k \in Blocks(b) : Before(c, i, j) /\ Before(c, j, k) => Before(c, i, k)
      /\ \A i \in Blocks(b) : ~ Before(c, i, c) /\ (i = c \/ Before(c, c, i))
  BY <1>1, BeforeOrder
<1>5. PICK x : x = NextBlock(b, o)
  OBVIOUS
<1>6. x \in Blocks(b) /\ Follows(b, o, x)
  BY <1>1, <1>5, NextBlockIs
<1>7. /\ x = c => \A i \in Blocks(b) : i = o \/ Before(c, i, o)
      /\ x # c => /\ Before(c, o, x)
                  /\ \A i \in Blocks(b) : \/ i = o \/ Before(c, i, o)
                                          \/ i = x \/ Before(c, x, i)
  BY <1>6 DEF Follows
<1>8. CASE x = p
  <2>1. NextTurn(b, x) = x
    BY <1>2, <1>8 DEF NextTurn
  <2>2. n = Nil
    BY <1>2, <1>5, <1>8, <2>1, NextItemIs
  <2>3. \A i \in Blocks(b) : ~ IsFree(b, i) => i = o \/ Before(c, i, o)
    BY <1>3, <1>4, <1>7, <1>8
  <2> QED BY <2>2, <2>3
<1>9. CASE x # p /\ ~ IsFree(b, x)
  <2>1. NextTurn(b, x) = x
    BY <1>9 DEF NextTurn, IsFree
  <2>2. n = x
    BY <1>2, <1>5, <1>9, <2>1, NextItemIs
  <2>3. x # c
    BY <1>3, <1>4, <1>7, <1>9
  <2> QED BY <1>1, <1>6, <1>7, <1>9, <2>2, <2>3
<1>10. CASE x # p /\ IsFree(b, x)
  <2>1. x # c
    BY <1>3, <1>10
  <2>2. Before(c, x, p) \/ (c = p /\ ~ IsFree(b, c))
    BY <1>3, <1>4, <1>6, <1>7, <1>10, <2>1
  <2>3. x = b.last /\ c # 0 /\ ~ IsFree(b, 0)
    BY <1>3, <1>6, <1>10, <2>2
  <2>4. PICK y : y = NextTurn(b, x)
    OBVIOUS
  <2>5. y = NextBlock(b, x)
    BY <1>2, <1>10, <2>4 DEF NextTurn, IsFree
  <2>6. y = 0 /\ Follows(b, x, y)
    BY <1>1, <1>6, <2>3, <2>5, NextBlockIs
  <2>7. 0 # p
    BY <1>3, <1>4, <2>3
  <2>8. NextTurn(b, y) = y
    BY <2>3, <2>6 DEF NextTurn, IsFree
  <2>9. n = 0
    BY <1>2, <1>5, <2>4, <2>6, <2>7, <2>8, NextItemIs
  <2>10. /\ Before(c, x, 0)
         /\ \A i \in Blocks(b) : i = x \/ Before(c, i, x) \/ i = 0 \/ Before(c, 0, i)
    BY <2>3, <2>6 DEF Follows
  <2>11. Before(c, o, 0)
    BY <1>3, <1>4, <1>6, <1>7, <2>1, <2>10
  <2>12. ASSUME NEW i \in Blocks(b), ~ IsFree(b, i)
         PROVE  i = o \/ Before(c, i, o) \/ i = 0 \/ Before(c, 0, i)
    BY <1>4, <1>6, <1>7, <1>10, <2>1, <2>10, <2>12
  <2> QED BY <1>1, <1>3, <2>3, <2>9, <2>11, <2>12
<1> QED BY <1>8, <1>9, <1>10

\* The items that the walk backwards meets: it stops at m_pProduce.
Met(b, o) == ~ IsFree(b, o) /\ o # b.produce

\* Prev returns the item before o, in the order of the ages, or nullptr.
LEMMA PrevItemOf ==
  ASSUME NEW b, Solid(b), NEW c, c = b.consume,
         NEW o \in Blocks(b), Met(b, o), NEW n, n = PrevItem(b, o)
  PROVE  \/ n = Nil /\ \A i \in Blocks(b) : Met(b, i) => i = o \/ Before(c, o, i)
         \/ /\ n # Nil /\ n \in Blocks(b) /\ Met(b, n) /\ Before(c, n, o)
            /\ \A i \in Blocks(b) :
                 Met(b, i) => i = o \/ Before(c, o, i) \/ i = n \/ Before(c, i, n)
<1>1. Shape(b) /\ Nil \notin Blocks(b)
  BY ShapeNumbers DEF Solid, Nil
<1>2. PICK p : p = b.produce
  OBVIOUS
<1>3. /\ c \in Blocks(b) /\ p \in Blocks(b) /\ b.last \in Blocks(b) /\ 0 \in Blocks(b)
      /\ \A i \in Blocks(b) : ~ IsFree(b, i) => c = p \/ Before(c, i, p)
      /\ \A i \in Blocks(b) : ~ IsFree(b, i) => ~ IsFree(b, c)
      /\ \A i \in Blocks(b) :
           IsFree(b, i) /\ (Before(c, i, p) \/ (c = p /\ ~ IsFree(b, c))) =>
             i = b.last /\ i # c /\ c # 0 /\ ~ IsFree(b, 0)
      /\ c # p => ~ IsFree(b, c) /\ IsFree(b, p) /\ ~ Before(c, p, b.last)
      /\ \A i \in Blocks(b) : IsFree(b, i) /\ Nxt(b, i) \in Blocks(b) => ~ IsFree(b, Nxt(b, i))
  BY <1>2, FreeAhead
<1>4. /\ \A i, j \in Blocks(b) : Before(c, i, j) => i # j /\ ~ Before(c, j, i)
      /\ \A i, j \in Blocks(b) : i = j \/ Before(c, i, j) \/ Before(c, j, i)
      /\ \A i, j, k \in Blocks(b) : Before(c, i, j) /\ Before(c, j, k) => Before(c, i, k)
      /\ \A i \in Blocks(b) : ~ Before(c, i, c) /\ (i = c \/ Before(c, c, i))
  BY <1>1, BeforeOrder
<1>5. ~ IsFree(b, o) /\ o # p /\ \A i \in Blocks(b) : Met(b, i) <=> ~ IsFree(b, i) /\ i # p
  BY <1>2 DEF Met
<1>6. PICK q : q = PrevBlock(b, o)
  OBVIOUS
<1>7. q \in Blocks(b) /\ Follows(b, q, o) /\ (q = b.last => o = 0)
  BY <1>1, <1>6, PrevBlockIs
<1>8. /\ o = c => \A i \in Blocks(b) : i = q \/ Before(c, i, q)
      /\ o # c => /\ Before(c, q, o)
                  /\ \A i \in Blocks(b) : \/ i = q \/ Before(c, i, q)
                                          \/ i = o \/ Before(c, o, i)
  BY <1>7 DEF Follows
<1>9. ASSUME q = p  PROVE n = Nil
  <2>1. PrevTurn(b, q) = q
    BY <1>2, <1>9 DEF PrevTurn
  <2> QED BY <1>2, <1>6, <1>9, <2>1, PrevItemIs
<1>10. ASSUME q # p, ~ IsFree(b, q)  PROVE n = q
  <2>1. PrevTurn(b, q) = q
    BY <1>10 DEF PrevTurn, IsFree
  <2> QED BY <1>2, <1>6, <1>10, <2>1, PrevItemIs
<1>11. PICK r : r = PrevBlock(b, q)
  OBVIOUS
<1>12. r \in Blocks(b) /\ Follows(b, r, q) /\ (r = b.last => q = 0) /\ (r # b.last => q = Nxt(b, r))
  BY <1>1, <1>7, <1>11, PrevBlockIs
<1>13. q # c => /\ Before(c, r, q)
                /\ \A i \in Blocks(b) : i = r \/ Before(c, i, r) \/ i = q \/ Before(c, q, i)
  BY <1>12 DEF Follows
<1>14. ASSUME q # p, IsFree(b, q), r = p \/ ~ IsFree(b, r)
       PROVE  n = IF r = p THEN Nil ELSE r
  <2>1. PrevTurn(b, q) = r
    BY <1>2, <1>11, <1>14 DEF PrevTurn, IsFree
  <2>2. PrevTurn(b, r) = r
    BY <1>2, <1>14 DEF PrevTurn, IsFree
  <2> QED BY <1>2, <1>6, <2>1, <2>2, PrevItemIs
<1>15. CASE o = c
  <2>1. \A i \in Blocks(b) : i = o \/ Before(c, o, i)
    BY <1>4, <1>15
  <2>2. CASE q = p
    BY <1>9, <2>1, <2>2
  <2>3. CASE q # p
    <3>1. Before(c, p, q) /\ q # c /\ c # p
      BY <1>3, <1>4, <1>5, <1>7, <1>8, <1>15, <2>3
    <3>2. IsFree(b, q)
      BY <1>3, <1>4, <1>7, <3>1
    <3>3. r = p
      <4> SUFFICES ASSUME r # p  PROVE FALSE
        OBVIOUS
      <4>1. Before(c, p, r)
        BY <1>3, <1>4, <1>7, <1>13, <3>1
      <4>2. IsFree(b, r)
        BY <1>3, <1>4, <1>12, <3>1, <4>1
      <4>3. r = b.last
        BY <1>3, <1>7, <1>12, <3>2, <4>2
      <4> QED BY <1>3, <3>1, <4>1, <4>3
    <3> QED BY <1>14, <2>1, <2>3, <3>2, <3>3
  <2> QED BY <2>2, <2>3
<1>16. CASE o # c
  <2>1. /\ Before(c, q, o)
        /\ \A i \in Blocks(b) : i = q \/ Before(c, i, q) \/ i = o \/ Before(c, o, i)
    BY <1>8, <1>16
  <2>2. CASE q = p
    <3>1. c = p
      BY <1>3, <1>4, <1>5, <2>1, <2>2
    <3> QED BY <1>4, <1>5, <1>9, <2>1, <2>2, <3>1
  <2>3. CASE q # p /\ ~ IsFree(b, q)
    BY <1>1, <1>5, <1>7, <1>10, <2>1, <2>3
  <2>4. CASE q # p /\ IsFree(b, q)
    <3>1. Before(c, q, p) \/ (c = p /\ ~ IsFree(b, c))
      BY <1>3, <1>4, <1>5, <1>7, <2>1
    <3>2. q = b.last /\ q # c
      BY <1>3, <1>7, <2>4, <3>1
    <3>3. /\ Before(c, r, q)
          /\ \A i \in Blocks(b) : i = r \/ Before(c, i, r) \/ i = q \/ Before(c, q, i)
      BY <1>13, <3>2
    <3>4. r # q /\ ~ IsFree(b, r)
      <4> SUFFICES ASSUME IsFree(b, r)  PROVE FALSE
        BY <1>4, <1>7, <1>12, <3>3
      <4>1. Before(c, r, p) \/ (c = p /\ ~ IsFree(b, c))
        BY <1>3, <1>4, <1>7, <1>12, <3>1, <3>3
      <4>2. r = b.last
        BY <1>3, <1>12, <4>1
      <4> QED BY <1>4, <1>7, <1>12, <3>2, <3>3, <4>2
    <3>5. n = IF r = p THEN Nil ELSE r
      BY <1>14, <2>4, <3>4
    <3>6. Before(c, r, o)
      BY <1>4, <1>7, <1>12, <2>1, <3>3
    <3>7. ASSUME NEW i \in Blocks(b), Met(b, i)
          PROVE  i = o \/ Before(c, o, i) \/ i = r \/ Before(c, i, r)
      BY <1>4, <1>5, <1>7, <1>12, <2>1, <2>4, <3>3, <3>7
    <3>8. CASE r = p
      <4>1. c = p
        BY <1>3, <1>4, <1>5, <3>6, <3>8
      <4> QED BY <1>4, <1>5, <3>5, <3>7, <3>8, <4>1
    <3>9. CASE r # p
      BY <1>1, <1>5, <1>12, <3>4, <3>5, <3>6, <3>7, <3>9
    <3> QED BY <3>8, <3>9
  <2> QED BY <2>2, <2>3, <2>4
<1> QED BY <1>15, <1>16

\* First returns the oldest item, and nullptr only if there is none.
LEMMA FirstItemOf ==
  ASSUME NEW b, Solid(b), NEW c, c = b.consume, NEW n, n = FirstItem(b)
  PROVE  \/ n = Nil /\ \A i \in Blocks(b) : IsFree(b, i)
         \/ /\ n # Nil /\ n \in Blocks(b) /\ ~ IsFree(b, n)
            /\ \A i \in Blocks(b) : i = n \/ Before(c, n, i)
<1>1. Shape(b) /\ Nil \notin Blocks(b)
  BY ShapeNumbers DEF Solid, Nil
<1>2. n = IF IsFree(b, c) THEN Nil ELSE c
  BY DEF FirstItem, IsFree
<1>3. c \in Blocks(b) /\ \A i \in Blocks(b) : ~ IsFree(b, i) => ~ IsFree(b, c)
  BY FreeAhead
<1>4. \A i \in Blocks(b) : i = c \/ Before(c, c, i)
  BY <1>1, BeforeOrder
<1> QED BY <1>1, <1>2, <1>3, <1>4

\* Last returns the newest item other than the one at m_pProduce, and nullptr only if there is
\* none.
LEMMA LastItemOf ==
  ASSUME NEW b, Solid(b), NEW c, c = b.consume, NEW n, n = LastItem(b)
  PROVE  \/ n = Nil /\ \A i \in Blocks(b) : ~ Met(b, i)
         \/ /\ n # Nil /\ n \in Blocks(b) /\ Met(b, n)
            /\ \A i \in Blocks(b) : Met(b, i) => i = n \/ Before(c, i, n)
<1>1. Shape(b) /\ Nil \notin Blocks(b)
  BY ShapeNumbers DEF Solid, Nil
<1>2. PICK p : p = b.produce
  OBVIOUS
<1>3. /\ c \in Blocks(b) /\ p \in Blocks(b) /\ b.last \in Blocks(b) /\ 0 \in Blocks(b)
      /\ \A i \in Blocks(b) : ~ IsFree(b, i) => c = p \/ Before(c, i, p)
      /\ \A i \in Blocks(b) : ~ IsFree(b, i) => ~ IsFree(b, c)
      /\ \A i \in Blocks(b) :
           IsFree(b, i) /\ (Before(c, i, p) \/ (c = p /\ ~ IsFree(b, c))) =>
             i = b.last /\ i # c /\ c # 0 /\ ~ IsFree(b, 0)
      /\ c # p => ~ IsFree(b, c) /\ IsFree(b, p) /\ ~ Before(c, p, b.last)
  BY <1>2, FreeAhead
<1>4. /\ \A i, j \in Blocks(b) : Before(c, i, j) => i # j /\ ~ Before(c, j, i)
      /\ \A i, j \in Blocks(b) : i = j \/ Before(c, i, j) \/ Before(c, j, i)
      /\ \A i \in Blocks(b) : ~ Before(c, i, c) /\ (i = c \/ Before(c, c, i))
  BY <1>1, BeforeOrder
<1>5. \A i \in Blocks(b) : Met(b, i) <=> ~ IsFree(b, i) /\ i # p
  BY <1>2 DEF Met
<1>6. PICK q : q = PrevBlock(b, p)
  OBVIOUS
<1>7. q \in Blocks(b) /\ Follows(b, q, p) /\ (q = b.last => p = 0)
  BY <1>1, <1>3, <1>6, PrevBlockIs
<1>8. /\ p = c => \A i \in Blocks(b) : i = q \/ Before(c, i, q)
      /\ p # c => /\ Before(c, q, p)
                  /\ \A i \in Blocks(b) : \/ i = q \/ Before(c, i, q)
                                          \/ i = p \/ Before(c, p, i)
  BY <1>7 DEF Follows
<1>9. q = p \/ ~ IsFree(b, q)
  <2> SUFFICES ASSUME q # p, IsFree(b, q)  PROVE FALSE
    OBVIOUS
  <2>1. CASE c = p /\ IsFree(b, c)
    <3>1. Blocks(b) = {0}
      BY <1>2, <2>1, RoomAtProduce
    <3> QED BY <1>3, <1>7, <3>1
  <2>2. CASE c # p \/ ~ IsFree(b, c)
    <3>1. q = b.last /\ c # 0 /\ ~ IsFree(b, 0)
      BY <1>3, <1>7, <1>8, <2>2
    <3> QED BY <1>3, <1>7, <3>1
  <2> QED BY <2>1, <2>2
<1>10. n = IF q = p THEN Nil ELSE q
  <2>1. PrevTurn(b, q) = q
    BY <1>2, <1>9 DEF PrevTurn, IsFree
  <2>2. n = PrevItem(b, p)
    BY <1>2 DEF LastItem
  <2> QED BY <1>2, <1>6, <2>1, <2>2, PrevItemIs
<1>11. CASE q = p
  <2>1. c = p
    BY <1>3, <1>4, <1>8, <1>11
  <2> QED BY <1>4, <1>5, <1>8, <1>10, <1>11, <2>1
<1>12. CASE q # p
  BY <1>1, <1>3, <1>4, <1>5, <1>7, <1>8, <1>9, <1>10, <1>12
<1> QED BY <1>11, <1>12

\* A prefix is longer by the next element.
LEMMA PrefixAppend ==
  ASSUME NEW S, NEW s \in Seq(S), NEW k \in 0 .. Len(s), NEW t, t = Prefix(s, k)
  PROVE  /\ t \in Seq(S) /\ Len(t) = k
         /\ k > 0 => t # << >> /\ t[k] = s[k]
         /\ k < Len(s) => Append(t, s[k + 1]) = Prefix(s, k + 1)
<1>1. PICK n \in Nat : n = Len(s) /\ \A i \in 1 .. n : s[i] \in S
  BY LenProperties
<1>2. k \in Int /\ 0 <= k /\ k <= n /\ \A i \in 1 .. k : s[i] \in S
  BY <1>1
<1>3. t \in Seq(S) /\ Len(t) = k /\ \A i \in 1 .. k : t[i] = s[i]
  BY <1>2, SubSeqProperties DEF Prefix
<1>4. ASSUME k < n  PROVE Append(t, s[k + 1]) = Prefix(s, k + 1)
  <2>1. PICK e \in S : e = s[k + 1]
    BY <1>1, <1>2, <1>4
  <2>2. PICK u : u = Append(t, e)
    OBVIOUS
  <2>3. /\ u \in Seq(S) /\ Len(u) = k + 1 /\ \A i \in 1 .. k : u[i] = s[i]
        /\ u[k + 1] = s[k + 1]
    BY <1>3, <2>1, <2>2, AppendProperties
  <2>4. PICK w : w = SubSeq(s, 1, k + 1) /\ w = Prefix(s, k + 1)
    BY DEF Prefix
  <2>5. PICK l \in Int : l = k + 1 /\ \A i \in 1 .. l : s[i] \in S
    BY <1>1, <1>2, <1>4
  <2>6. w \in Seq(S) /\ Len(w) = l /\ \A i \in 1 .. l : w[i] = s[i]
    BY <1>2, <2>4, <2>5, SubSeqProperties
  <2>7. \A i \in 1 .. k + 1 : u[i] = w[i]
    BY <1>2, <2>3, <2>5, <2>6
  <2>8. u = w
    BY <2>3, <2>5, <2>6, <2>7, SeqEqual
  <2> QED BY <2>1, <2>2, <2>4, <2>8
<1>5. k > 0 => t # << >> /\ t[k] = s[k]
  BY <1>2, <1>3, EmptySeq
<1> QED BY <1>1, <1>3, <1>4, <1>5

\* The walk with First and Next meets the items in the order of their age.
LEMMA WalkForwards ==
  ASSUME NEW b, Solid(b), NEW s, Listing(b, s), Len(s) <= Capacity
  PROVE  Visited(b, FirstItem(b), NextItem) = s
<1>1. Shape(b)
  BY DEF Solid
<1>2. PICK c : c = b.consume
  OBVIOUS
<1>3. PICK n \in Nat : n = Len(s) /\ \A i \in 1 .. n : s[i] \in Blocks(b)
  BY LenProperties DEF Listing
<1>4. /\ s \in Seq(Blocks(b))
      /\ \A i \in 1 .. n : ~ IsFree(b, s[i])
      /\ \A o \in Blocks(b) : ~ IsFree(b, o) => \E i \in 1 .. n : s[i] = o
      /\ \A i, j \in 1 .. n : i < j => Before(c, s[i], s[j])
  BY <1>2, <1>3 DEF Listing
<1>5. /\ \A i, j \in Blocks(b) : Before(c, i, j) => i # j /\ ~ Before(c, j, i)
  BY <1>1, <1>2, BeforeOrder
<1>6. \A i, j \in 1 .. n : Before(c, s[i], s[j]) => i < j
  BY <1>3, <1>4, <1>5
<1>7. ASSUME NEW k \in 0 .. n
      PROVE  /\ k < n => NextSeen(b, Prefix(s, k)) = Prefix(s, k + 1)
             /\ k = n => NextSeen(b, Prefix(s, k)) = Prefix(s, k)
  <2>1. PICK t : t = Prefix(s, k)
    OBVIOUS
  <2>2. /\ t \in Seq(Blocks(b)) /\ Len(t) = k
        /\ k > 0 => t # << >> /\ t[k] = s[k]
        /\ k < n => Append(t, s[k + 1]) = Prefix(s, k + 1)
    <3>1. s \in Seq(Blocks(b)) /\ k \in 0 .. Len(s)
      BY <1>3, <1>7, <1>4
    <3> QED BY <1>3, <2>1, <3>1, PrefixAppend
  <2>3. PICK m : m = IF t = << >> THEN FirstItem(b) ELSE NextItem(b, t[Len(t)])
    OBVIOUS
  <2>4. NextSeen(b, t) = IF m = Nil THEN t ELSE Append(t, m)
    BY <2>3 DEF NextSeen
  <2>5. (k < n => m # Nil /\ m = s[k + 1]) /\ (k = n => m = Nil)
    <3>1. CASE k = 0
      <4>1. m = FirstItem(b)
        BY <2>2, <2>3, <3>1, EmptySeq
      <4>2. \/ m = Nil /\ \A i \in Blocks(b) : IsFree(b, i)
            \/ /\ m # Nil /\ m \in Blocks(b) /\ ~ IsFree(b, m)
               /\ \A i \in Blocks(b) : i = m \/ Before(c, m, i)
        BY <1>2, <4>1, FirstItemOf
      <4>3. CASE m = Nil /\ \A i \in Blocks(b) : IsFree(b, i)
        BY <1>3, <1>4, <3>1, <4>3
      <4>4. CASE /\ m # Nil /\ m \in Blocks(b) /\ ~ IsFree(b, m)
                 /\ \A i \in Blocks(b) : i = m \/ Before(c, m, i)
        <5>1. PICK j \in 1 .. n : s[j] = m
          BY <1>4, <4>4
        <5>2. 1 \in 1 .. n /\ s[1] \in Blocks(b)
          BY <1>3, <5>1
        <5>3. s[1] = m
          BY <1>6, <4>4, <5>1, <5>2
        <5> QED BY <3>1, <4>4, <5>2, <5>3
      <4> QED BY <4>2, <4>3, <4>4
    <3>2. CASE k > 0
      <4>1. PICK o : o = s[k]
        OBVIOUS
      <4>2. k \in 1 .. n /\ o \in Blocks(b) /\ ~ IsFree(b, o)
        BY <1>3, <1>4, <1>7, <3>2, <4>1
      <4>3. m = NextItem(b, o)
        BY <2>2, <2>3, <3>2, <4>1
      <4>4. \/ m = Nil /\ \A i \in Blocks(b) : ~ IsFree(b, i) => i = o \/ Before(c, i, o)
            \/ /\ m # Nil /\ m \in Blocks(b) /\ ~ IsFree(b, m) /\ Before(c, o, m)
               /\ \A i \in Blocks(b) :
                    ~ IsFree(b, i) => i = o \/ Before(c, i, o) \/ i = m \/ Before(c, m, i)
        BY <1>2, <4>2, <4>3, NextItemOf
      <4>5. ASSUME k < n
            PROVE  /\ k + 1 \in 1 .. n /\ s[k + 1] \in Blocks(b) /\ ~ IsFree(b, s[k + 1])
                   /\ s[k + 1] # o /\ ~ Before(c, s[k + 1], o)
        <5>1. k + 1 \in 1 .. n /\ s[k + 1] \in Blocks(b) /\ ~ IsFree(b, s[k + 1])
          BY <1>3, <1>4, <4>2, <4>5
        <5>2. Before(c, o, s[k + 1])
          BY <1>4, <4>1, <4>2, <5>1
        <5> QED BY <1>5, <4>2, <5>1, <5>2
      <4>6. CASE m = Nil /\ \A i \in Blocks(b) : ~ IsFree(b, i) => i = o \/ Before(c, i, o)
        BY <4>5, <4>6
      <4>7. CASE /\ m # Nil /\ m \in Blocks(b) /\ ~ IsFree(b, m) /\ Before(c, o, m)
                 /\ \A i \in Blocks(b) :
                      ~ IsFree(b, i) => i = o \/ Before(c, i, o) \/ i = m \/ Before(c, m, i)
        <5>1. PICK j \in 1 .. n : s[j] = m
          BY <1>4, <4>7
        <5>2. k < j
          BY <1>6, <4>1, <4>2, <4>7, <5>1
        <5>3. k < n
          BY <4>2, <5>1, <5>2
        <5>4. s[k + 1] = m \/ Before(c, m, s[k + 1])
          BY <4>5, <4>7, <5>3
        <5>5. s[k + 1] = m
          <6> SUFFICES ASSUME Before(c, m, s[k + 1])  PROVE FALSE
            BY <5>4
          <6>1. j < k + 1
            BY <1>6, <4>5, <5>1, <5>3
          <6> QED BY <4>2, <5>1, <5>2, <6>1
        <5> QED BY <4>7, <5>3, <5>5
      <4> QED BY <4>4, <4>6, <4>7
    <3> QED BY <1>7, <3>1, <3>2
  <2>6. CASE k < n
    BY <2>1, <2>2, <2>4, <2>5, <2>6
  <2>7. CASE k = n
    BY <2>1, <2>4, <2>5, <2>7
  <2> QED BY <1>3, <2>6, <2>7
<1>8. \A k \in 0 .. Len(s) - 1 : NextSeen(b, Prefix(s, k)) = Prefix(s, k + 1)
  BY <1>3, <1>7
<1>9. NextSeen(b, s) = s
  <2>1. Prefix(s, n) = s
    BY <1>3, <1>4, SubSeqFull DEF Prefix
  <2>2. n \in 0 .. n
    BY <1>3
  <2> QED BY <1>7, <2>1, <2>2
<1> QED BY <1>4, <1>8, <1>9, VisitedNext

\* The walk with Last and Prev meets them backwards.
LEMMA WalkBackwards ==
  ASSUME NEW b, Solid(b), NEW s \in Seq(Blocks(b)), Len(s) <= Capacity,
         \A o \in Blocks(b) : Met(b, o) <=> \E i \in 1 .. Len(s) : s[i] = o,
         \A i, j \in 1 .. Len(s) : i < j => Before(b.consume, s[j], s[i])
  PROVE  Visited(b, LastItem(b), PrevItem) = s
<1>1. Shape(b)
  BY DEF Solid
<1>2. PICK c : c = b.consume
  OBVIOUS
<1>3. PICK n \in Nat : n = Len(s) /\ \A i \in 1 .. n : s[i] \in Blocks(b)
  BY LenProperties
<1>4. /\ \A i \in 1 .. n : Met(b, s[i])
      /\ \A o \in Blocks(b) : Met(b, o) => \E i \in 1 .. n : s[i] = o
      /\ \A i, j \in 1 .. n : i < j => Before(c, s[j], s[i])
  BY <1>2, <1>3
<1>5. /\ \A i, j \in Blocks(b) : Before(c, i, j) => i # j /\ ~ Before(c, j, i)
  BY <1>1, <1>2, BeforeOrder
<1>6. \A i, j \in 1 .. n : Before(c, s[j], s[i]) => i < j
  BY <1>3, <1>4, <1>5
<1>7. ASSUME NEW k \in 0 .. n
      PROVE  /\ k < n => PrevSeen(b, Prefix(s, k)) = Prefix(s, k + 1)
             /\ k = n => PrevSeen(b, Prefix(s, k)) = Prefix(s, k)
  <2>1. PICK t : t = Prefix(s, k)
    OBVIOUS
  <2>2. /\ t \in Seq(Blocks(b)) /\ Len(t) = k
        /\ k > 0 => t # << >> /\ t[k] = s[k]
        /\ k < n => Append(t, s[k + 1]) = Prefix(s, k + 1)
    <3>1. s \in Seq(Blocks(b)) /\ k \in 0 .. Len(s)
      BY <1>3, <1>7
    <3> QED BY <1>3, <2>1, <3>1, PrefixAppend
  <2>3. PICK m : m = IF t = << >> THEN LastItem(b) ELSE PrevItem(b, t[Len(t)])
    OBVIOUS
  <2>4. PrevSeen(b, t) = IF m = Nil THEN t ELSE Append(t, m)
    BY <2>3 DEF PrevSeen
  <2>5. (k < n => m # Nil /\ m = s[k + 1]) /\ (k = n => m = Nil)
    <3>1. CASE k = 0
      <4>1. m = LastItem(b)
        BY <2>2, <2>3, <3>1, EmptySeq
      <4>2. \/ m = Nil /\ \A i \in Blocks(b) : ~ Met(b, i)
            \/ /\ m # Nil /\ m \in Blocks(b) /\ Met(b, m)
               /\ \A i \in Blocks(b) : Met(b, i) => i = m \/ Before(c, i, m)
        BY <1>2, <4>1, LastItemOf
      <4>3. CASE m = Nil /\ \A i \in Blocks(b) : ~ Met(b, i)
        BY <1>3, <1>4, <3>1, <4>3
      <4>4. CASE /\ m # Nil /\ m \in Blocks(b) /\ Met(b, m)
                 /\ \A i \in Blocks(b) : Met(b, i) => i = m \/ Before(c, i, m)
        <5>1. PICK j \in 1 .. n : s[j] = m
          BY <1>4, <4>4
        <5>2. 1 \in 1 .. n /\ s[1] \in Blocks(b) /\ Met(b, s[1])
          BY <1>3, <1>4, <5>1
        <5>3. s[1] = m
          BY <1>6, <4>4, <5>1, <5>2
        <5> QED BY <3>1, <4>4, <5>2, <5>3
      <4> QED BY <4>2, <4>3, <4>4
    <3>2. CASE k > 0
      <4>1. PICK o : o = s[k]
        OBVIOUS
      <4>2. k \in 1 .. n /\ o \in Blocks(b) /\ Met(b, o)
        BY <1>3, <1>4, <1>7, <3>2, <4>1
      <4>3. m = PrevItem(b, o)
        BY <2>2, <2>3, <3>2, <4>1
      <4>4. \/ m = Nil /\ \A i \in Blocks(b) : Met(b, i) => i = o \/ Before(c, o, i)
            \/ /\ m # Nil /\ m \in Blocks(b) /\ Met(b, m) /\ Before(c, m, o)
               /\ \A i \in Blocks(b) :
                    Met(b, i) => i = o \/ Before(c, o, i) \/ i = m \/ Before(c, i, m)
        BY <1>2, <4>2, <4>3, PrevItemOf
      <4>5. ASSUME k < n
            PROVE  /\ k + 1 \in 1 .. n /\ s[k + 1] \in Blocks(b) /\ Met(b, s[k + 1])
                   /\ s[k + 1] # o /\ ~ Before(c, o, s[k + 1])
        <5>1. k + 1 \in 1 .. n /\ s[k + 1] \in Blocks(b) /\ Met(b, s[k + 1])
          BY <1>3, <1>4, <4>2, <4>5
        <5>2. Before(c, s[k + 1], o)
          BY <1>4, <4>1, <4>2, <5>1
        <5> QED BY <1>5, <4>2, <5>1, <5>2
      <4>6. CASE m = Nil /\ \A i \in Blocks(b) : Met(b, i) => i = o \/ Before(c, o, i)
        BY <4>5, <4>6
      <4>7. CASE /\ m # Nil /\ m \in Blocks(b) /\ Met(b, m) /\ Before(c, m, o)
                 /\ \A i \in Blocks(b) :
                      Met(b, i) => i = o \/ Before(c, o, i) \/ i = m \/ Before(c, i, m)
        <5>1. PICK j \in 1 .. n : s[j] = m
          BY <1>4, <4>7
        <5>2. k < j
          BY <1>6, <4>1, <4>2, <4>7, <5>1
        <5>3. k < n
          BY <4>2, <5>1, <5>2
        <5>4. s[k + 1] = m \/ Before(c, s[k + 1], m)
          BY <4>5, <4>7, <5>3
        <5>5. s[k + 1] = m
          <6> SUFFICES ASSUME Before(c, s[k + 1], m)  PROVE FALSE
            BY <5>4
          <6>1. j < k + 1
            BY <1>6, <4>5, <5>1, <5>3
          <6> QED BY <4>2, <5>1, <5>2, <6>1
        <5> QED BY <4>7, <5>3, <5>5
      <4> QED BY <4>4, <4>6, <4>7
    <3> QED BY <1>7, <3>1, <3>2
  <2>6. CASE k < n
    BY <2>1, <2>2, <2>4, <2>5, <2>6
  <2>7. CASE k = n
    BY <2>1, <2>4, <2>5, <2>7
  <2> QED BY <1>3, <2>6, <2>7
<1>8. \A k \in 0 .. Len(s) - 1 : PrevSeen(b, Prefix(s, k)) = Prefix(s, k + 1)
  BY <1>3, <1>7
<1>9. PrevSeen(b, s) = s
  <2>1. Prefix(s, n) = s
    BY <1>3, SubSeqFull DEF Prefix
  <2>2. n \in 0 .. n
    BY <1>3
  <2> QED BY <1>7, <2>1, <2>2
<1> QED BY <1>8, <1>9, VisitedPrev

\* There are at most as many items as headers.
LEMMA ListingLength ==
  ASSUME NEW b, Shape(b), NEW s, Listing(b, s)
  PROVE  Len(s) <= Capacity
<1>1. PICK n \in Nat : n = Len(s) /\ \A i \in 1 .. n : s[i] \in Blocks(b)
  BY LenProperties DEF Listing
<1> DEFINE T == {s[i] : i \in 1 .. n}
<1>2. \A i, j \in 1 .. n : i < j => s[i] # s[j]
  <2>1. \A i, j \in 1 .. n : i < j => Before(b.consume, s[i], s[j])
    BY <1>1 DEF Listing
  <2> QED BY <1>1, <2>1, BeforeOrder
<1>3. Cardinality(T) = n
  BY <1>2, CountPrefix
<1>4. Capacity \in Nat \ {0}
  BY CapacityPositive
<1>5. T \subseteq 0 .. Capacity - 1
  <2>1. \A o \in Blocks(b) : o \in Int /\ 0 <= o /\ o < Capacity
    BY ShapeNumbers
  <2>2. \A i \in 1 .. n : s[i] \in 0 .. Capacity - 1
    BY <1>1, <1>4, <2>1
  <2> QED BY <2>2
<1>6. IsFiniteSet(0 .. Capacity - 1) /\ Cardinality(0 .. Capacity - 1) = Capacity
  BY <1>4, FS_Interval
<1> QED BY <1>1, <1>3, <1>4, <1>5, <1>6, FS_Subset

\* u has what the walk backwards meets, in the order of the ages.
Passed(b, u) ==
  /\ u \in Seq(Blocks(b))
  /\ \A o \in Blocks(b) : Met(b, o) <=> \E i \in 1 .. Len(u) : u[i] = o
  /\ \A i, j \in 1 .. Len(u) : i < j => Before(b.consume, u[i], u[j])

\* An item at m_pProduce is the oldest one, and the walk backwards stops there.
LEMMA MetListing ==
  ASSUME NEW b, Solid(b), NEW s, Listing(b, s), NEW u,
         u = IF IsFree(b, b.produce) THEN s ELSE Tail(s)
  PROVE  Passed(b, u) /\ Len(u) <= Len(s)
<1>1. Shape(b)
  BY DEF Solid
<1>2. PICK c : c = b.consume
  OBVIOUS
<1>3. PICK n \in Nat : n = Len(s) /\ \A i \in 1 .. n : s[i] \in Blocks(b)
  BY LenProperties DEF Listing
<1>4. /\ s \in Seq(Blocks(b)) /\ b.produce \in Blocks(b)
      /\ \A i \in 1 .. n : ~ IsFree(b, s[i])
      /\ \A o \in Blocks(b) : ~ IsFree(b, o) => \E i \in 1 .. n : s[i] = o
      /\ \A i, j \in 1 .. n : i < j => Before(c, s[i], s[j])
  BY <1>1, <1>2, <1>3, ShapeNumbers DEF Listing
<1>5. CASE IsFree(b, b.produce)
  <2>1. u = s
    BY <1>5
  <2>2. \A o \in Blocks(b) : Met(b, o) <=> ~ IsFree(b, o)
    BY <1>5 DEF Met
  <2> QED BY <1>2, <1>3, <1>4, <2>1, <2>2 DEF Passed
<1>6. CASE ~ IsFree(b, b.produce)
  <2>1. c = b.produce
    BY <1>2, <1>6, FreeAhead
  <2>2. s # << >> /\ s[1] = c
    BY <1>1, <1>2, <1>6, <2>1, ListingFirst
  <2>3. n > 0
    BY <1>3, <1>4, <2>2, EmptySeq
  <2>4. u = Tail(s)
    BY <1>6
  <2>5. u \in Seq(Blocks(b)) /\ Len(u) = n - 1 /\ \A i \in 1 .. n - 1 : u[i] = s[i + 1]
    BY <1>3, <1>4, <2>2, <2>4, HeadTailProperties
  <2>6. \A i \in 2 .. n : s[i] # c
    <3> SUFFICES ASSUME NEW i \in 2 .. n  PROVE s[i] # c
      OBVIOUS
    <3>1. Before(c, s[1], s[i]) /\ s[1] \in Blocks(b) /\ s[i] \in Blocks(b)
      BY <1>3, <1>4, <2>3
    <3> QED BY <1>1, <1>2, <2>2, <3>1, BeforeOrder
  <2>7. ASSUME NEW o \in Blocks(b), Met(b, o)
        PROVE  \E i \in 1 .. n - 1 : u[i] = o
    <3>1. ~ IsFree(b, o) /\ o # c
      BY <2>1, <2>7 DEF Met
    <3>2. PICK i \in 1 .. n : s[i] = o
      BY <1>4, <3>1
    <3>3. PICK j \in 1 .. n - 1 : i = j + 1
      BY <2>2, <3>1, <3>2
    <3> QED BY <2>5, <3>2, <3>3
  <2>8. ASSUME NEW i \in 1 .. n - 1  PROVE Met(b, u[i])
    <3>1. i + 1 \in 1 .. n /\ i + 1 \in 2 .. n /\ u[i] = s[i + 1]
      BY <2>5
    <3> QED BY <1>4, <2>1, <2>6, <3>1 DEF Met
  <2>9. ASSUME NEW i \in 1 .. n - 1, NEW j \in 1 .. n - 1, i < j
        PROVE  Before(c, u[i], u[j])
    <3>1. i + 1 \in 1 .. n /\ j + 1 \in 1 .. n /\ i + 1 < j + 1
      BY <2>9
    <3> QED BY <1>4, <2>5, <2>9, <3>1
  <2>10. PICK m \in Nat : m = n - 1
    BY <2>3
  <2>11. u \in Seq(Blocks(b)) /\ Len(u) = m /\ \A i \in 1 .. m : u[i] \in Blocks(b)
    BY <2>5, <2>10, LenProperties
  <2>12. \A i, j \in 1 .. m : i < j => Before(b.consume, u[i], u[j])
    BY <1>2, <2>9, <2>10
  <2>13. \A o \in Blocks(b) : Met(b, o) <=> \E i \in 1 .. m : u[i] = o
    BY <2>7, <2>8, <2>10
  <2>14. Len(u) <= Len(s)
    BY <1>3, <2>10, <2>11
  <2> QED BY <2>11, <2>12, <2>13, <2>14 DEF Passed
<1> QED BY <1>5, <1>6

\* The walks of a sound buffer.
LEMMA SoundWalks ==
  ASSUME NEW b, Sound(b)
  PROVE  /\ Typed(b) /\ Tiled(b)
         /\ Visited(b, FirstItem(b), NextItem) = Oldest(b)
         /\ Visited(b, LastItem(b), PrevItem) =
              Reverse(IF b.produce \in InUse(b) THEN Tail(Oldest(b)) ELSE Oldest(b))
<1>1. Solid(b) /\ Shape(b) /\ Typed(b) /\ b.produce \in Blocks(b)
  BY ShapeNumbers DEF Sound, Solid
<1>2. PICK s : s = Oldest(b)
  OBVIOUS
<1>3. Listing(b, s)
  BY <1>2 DEF Sound
<1>4. Len(s) <= Capacity /\ Len(s) \in Nat
  BY <1>1, <1>3, ListingLength, LenProperties DEF Listing
<1>5. Visited(b, FirstItem(b), NextItem) = s
  BY <1>1, <1>3, <1>4, WalkForwards
<1>6. PICK u : u = IF IsFree(b, b.produce) THEN s ELSE Tail(s)
  OBVIOUS
<1>7. Passed(b, u) /\ Len(u) <= Len(s)
  BY <1>1, <1>3, <1>6, MetListing
<1>8. PICK n \in Nat : n = Len(u) /\ \A i \in 1 .. n : u[i] \in Blocks(b)
  BY <1>7, LenProperties DEF Passed
<1>9. PICK t : t = Reverse(u)
  OBVIOUS
<1>10. t = [i \in 1 .. n |-> u[(n - i) + 1]]
  BY <1>8, <1>9 DEF Reverse
<1>11. \A i \in 1 .. n : (n - i) + 1 \in 1 .. n
  BY <1>8
<1>12. t \in Seq(Blocks(b)) /\ Len(t) = n /\ \A i \in 1 .. n : t[i] = u[(n - i) + 1]
  <2>1. t \in [1 .. n -> Blocks(b)]
    BY <1>8, <1>10, <1>11
  <2> QED BY <1>8, <1>10, <2>1
<1>13. ASSUME NEW o \in Blocks(b)
       PROVE  Met(b, o) <=> \E i \in 1 .. Len(t) : t[i] = o
  <2>1. ASSUME Met(b, o)  PROVE \E i \in 1 .. n : t[i] = o
    <3>1. PICK j \in 1 .. n : u[j] = o
      BY <1>7, <1>8, <1>13, <2>1 DEF Passed
    <3>2. PICK i \in 1 .. n : i = (n - j) + 1 /\ (n - i) + 1 = j
      BY <1>8
    <3> QED BY <1>12, <3>1, <3>2
  <2>2. ASSUME NEW i \in 1 .. n, t[i] = o  PROVE Met(b, o)
    BY <1>7, <1>8, <1>11, <1>12, <1>13, <2>2 DEF Passed
  <2> QED BY <1>12, <2>1, <2>2
<1>14. ASSUME NEW i \in 1 .. Len(t), NEW j \in 1 .. Len(t), i < j
       PROVE  Before(b.consume, t[j], t[i])
  <2>1. PICK x \in 1 .. n : x = (n - i) + 1
    BY <1>11, <1>12
  <2>2. PICK y \in 1 .. n : y = (n - j) + 1
    BY <1>11, <1>12
  <2>3. y < x /\ t[i] = u[x] /\ t[j] = u[y]
    BY <1>8, <1>12, <1>14, <2>1, <2>2
  <2> QED BY <1>7, <1>8, <2>1, <2>2, <2>3 DEF Passed
<1>15. Len(t) <= Capacity
  BY <1>4, <1>7, <1>8, <1>12, CapacityPositive
<1>16. Visited(b, LastItem(b), PrevItem) = t
  BY <1>1, <1>12, <1>13, <1>14, <1>15, WalkBackwards
<1>17. u = IF b.produce \in InUse(b) THEN Tail(Oldest(b)) ELSE Oldest(b)
  BY <1>1, <1>2, <1>6 DEF InUse, IsFree
<1> QED BY <1>1, <1>2, <1>5, <1>9, <1>16, <1>17, TiledOf

\* The walks meet the items once each and in the order of their age.
THEOREM RingWalks == RingSpec => []WalksInOrder
<1>1. Sound(buf) => WalksInOrder
  BY SoundWalks DEF WalksInOrder
<1> QED BY <1>1, RingSound, PTL
=============================================================================
