------------------------------ MODULE BanPool ------------------------------
(* CBanPool of engine/shared/netban.h: a fixed array of bans whose elements  *)
(* are threaded, by pointers inside them, on a free list or on the used      *)
(* list, and when used on a hash list as well. The used list is sorted by    *)
(* expiry, the bans that never expire last: CNetBan::Update looks only at    *)
(* its head. A pool is a record and every operation takes one and returns    *)
(* the next; the pointer nullptr is 0. The data of an element on the free    *)
(* list is never read and is NoData here.                                    *)
EXTENDS Integers, Sequences, FiniteSets

CONSTANTS
    MAX_BANS,       \* elements of a pool, 2048 in the code
    HashSize,       \* values of m_Hash, 256 in the code
    Length,         \* bytes of an address, 4 or 16 in the code
    ByteSize,       \* values of a byte of an address, 256 in the code
    NoData

EXPIRES_NEVER == -1

Nodes == 1..MAX_BANS
Pointer == 0..MAX_BANS

\* An address is [type, ip], a range [lb, ub]: a target of a ban is either.
IsRange(d) == "lb" \in DOMAIN d

FirstBytes(ip, n) ==
    LET Sum[i \in 0..n] == IF i = 0 THEN 0 ELSE Sum[i - 1] + ip[i] IN Sum[n]

\* The bytes of ip after the first n, as a number: mem_comp compares them so.
Tail2Nat(ip, n) ==
    LET Val[i \in n..Length] == IF i = n THEN 0 ELSE Val[i - 1] * ByteSize + ip[i]
    IN  Val[Length]

CommonBytes(r) ==
    CHOOSE n \in 0..Length - 1 :
        /\ \A i \in 1..n : r.lb.ip[i] = r.ub.ip[i]
        /\ r.lb.ip[n + 1] # r.ub.ip[n + 1]

\* CNetHash: the list index, and the sum of the bytes it is made of.
NetHash(d) ==
    IF IsRange(d) THEN <<CommonBytes(d), FirstBytes(d.lb.ip, CommonBytes(d)) % HashSize>>
                  ELSE <<0, FirstBytes(d.ip, Length) % HashSize>>

\* Mutant of PrefixHash: the list of the whole length is used for no prefix.
PrefixHashFlat(a, i) == <<0, FirstBytes(a.ip, i) % HashSize>>

\* CNetHash::MakeHashArray, for the i first bytes of an address.
PrefixHash(a, i) == <<i % Length, FirstBytes(a.ip, i) % HashSize>>

Buckets == (0..Length - 1) \X (0..HashSize - 1)

-----------------------------------------------------------------------------
(* Lists.                                                                    *)

\* p->field = v, where the code has tested p against nullptr first.
SetLink(field, p, v) == IF p = 0 THEN field ELSE [field EXCEPT ![p] = v]

\* The elements from first on, in order. A list that does not end is cut at
\* one element more than there are.
RECURSIVE Cut(_, _, _)
Cut(nxt, n, k) == IF n = 0 \/ k = 0 THEN <<>> ELSE <<n>> \o Cut(nxt, nxt[n], k - 1)

Chain(nxt, first) == Cut(nxt, first, MAX_BANS + 1)

Used(p) == Chain(p.next, p.used)
Free(p) == Chain(p.next, p.free)
Hashed(p, h) == Chain(p.hnext, p.hash[h])

\* CBanPool::Reset
Reset ==
    [data |-> [n \in Nodes |-> NoData], expires |-> [n \in Nodes |-> 0],
     next |-> [n \in Nodes |-> IF n = MAX_BANS THEN 0 ELSE n + 1],
     prev |-> [n \in Nodes |-> n - 1],
     hnext |-> [n \in Nodes |-> 0], hprev |-> [n \in Nodes |-> 0],
     hash |-> [h \in Buckets |-> 0],
     free |-> 1, used |-> 0, count |-> 0]

\* Mutant of GoesBefore: the bans that never expire are as others, expired at -1.
GoesBeforePlain(p, b, q) == p.expires[b] <= p.expires[q]

\* Whether the new ban b goes before q: q never expires, or b expires no later.
GoesBefore(p, b, q) ==
    \/ p.expires[q] = EXPIRES_NEVER
    \/ /\ p.expires[b] # EXPIRES_NEVER
       /\ p.expires[b] <= p.expires[q]

\* CBanPool::InsertUsed
InsertUsed(p, b) ==
    LET list == Used(p)
        later == {i \in DOMAIN list : GoesBefore(p, b, list[i])}
        q == IF later = {} THEN 0
             ELSE list[CHOOSE i \in later : \A j \in later : i <= j]
        before == IF q # 0 THEN p.prev[q]
                  ELSE IF list = <<>> THEN 0 ELSE list[Len(list)]
    IN  [p EXCEPT !.next = SetLink([@ EXCEPT ![b] = q], before, b),
                  !.prev = SetLink([@ EXCEPT ![b] = before], q, b),
                  !.used = IF before = 0 THEN b ELSE @]

\* CBanPool::Add, when there is a free element.
Add(p, d, e) ==
    LET b == p.free
        h == NetHash(d)
        old == p.hash[h]
        taken == [p EXCEPT !.data[b] = d, !.expires[b] = e,
                           !.prev = SetLink(@, p.next[b], p.prev[b]),
                           !.next = SetLink(@, p.prev[b], p.next[b]),
                           !.free = IF p.prev[b] = 0 THEN p.next[b] ELSE @,
                           !.hprev = [SetLink(@, old, b) EXCEPT ![b] = 0],
                           !.hnext[b] = old,
                           !.hash[h] = b]
    IN  [InsertUsed(taken, b) EXCEPT !.count = @ + 1]

\* Takes b out of the used list.
UnlinkUsed(p, b) ==
    [p EXCEPT !.prev = SetLink(@, p.next[b], p.prev[b]),
              !.next = SetLink(@, p.prev[b], p.next[b]),
              !.used = IF p.prev[b] = 0 THEN p.next[b] ELSE @]

\* Mutant of UnlinkHash: the next element keeps its link back.
UnlinkHashOneWay(p, b) ==
    [p EXCEPT !.hprev[b] = 0,
              !.hnext = [SetLink(@, p.hprev[b], p.hnext[b]) EXCEPT ![b] = 0],
              !.hash[NetHash(p.data[b])] = IF p.hprev[b] = 0 THEN p.hnext[b] ELSE @]

\* Takes b out of its hash list.
UnlinkHash(p, b) ==
    [p EXCEPT !.hprev = [SetLink(@, p.hnext[b], p.hprev[b]) EXCEPT ![b] = 0],
              !.hnext = [SetLink(@, p.hprev[b], p.hnext[b]) EXCEPT ![b] = 0],
              !.hash[NetHash(p.data[b])] = IF p.hprev[b] = 0 THEN p.hnext[b] ELSE @]

\* CBanPool::Remove
Remove(p, b) ==
    LET q == UnlinkUsed(UnlinkHash(p, b), b)
    IN  [q EXCEPT !.prev = [SetLink(@, p.free, b) EXCEPT ![b] = 0],
                  !.next[b] = p.free,
                  !.free = b,
                  !.data[b] = NoData, !.expires[b] = 0,
                  !.count = @ - 1]

\* CBanPool::Update
Update(p, b, e) == InsertUsed(UnlinkUsed([p EXCEPT !.expires[b] = e], b), b)

\* Mutant of Find: two targets with the same hash are not told apart.
FindFirst(p, d, h) == p.hash[h]

\* CBanPool::Find: the ban of exactly this target, 0 when there is none.
Find(p, d, h) ==
    LET list == Hashed(p, h)
        hits == {i \in DOMAIN list : p.data[list[i]] = d}
    IN  IF hits = {} THEN 0 ELSE list[CHOOSE i \in hits : \A j \in hits : i <= j]

\* CBanPool::Get: the ban at an index of the used list, 0 when out of range.
Get(p, index) ==
    IF index \in 0..p.count - 1 THEN Used(p)[index + 1] ELSE 0

-----------------------------------------------------------------------------
(* Matching.                                                                 *)

\* CNetRange::IsValid
IsValid(r) == r.lb.type = r.ub.type /\ Tail2Nat(r.lb.ip, 0) < Tail2Nat(r.ub.ip, 0)

\* CNetBan::NetMatch of a range, the first `start` bytes of which are common.
NetMatchFrom(r, a, start) ==
    /\ r.lb.type = a.type
    /\ \A i \in 1..start : r.lb.ip[i] = a.ip[i]
    /\ Tail2Nat(r.lb.ip, start) <= Tail2Nat(a.ip, start)
    /\ Tail2Nat(a.ip, start) <= Tail2Nat(r.ub.ip, start)

NetMatch(d, a) == IF IsRange(d) THEN NetMatchFrom(d, a, 0) ELSE d = a
=============================================================================
