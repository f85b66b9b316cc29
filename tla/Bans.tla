-------------------------------- MODULE Bans --------------------------------
(* CNetBan of engine/shared/netban.cpp with CServerBan of                    *)
(* engine/server/server.cpp: the two pools of bans, for addresses and for    *)
(* ranges, the commands that change them, the file bans_save writes and exec *)
(* runs again, and the clients of the server, which must not be banned.      *)
EXTENDS BanPool

CONSTANTS
    Addrs,          \* the addresses that can be typed in a command
    Ranges,         \* and the ranges of them, all valid
    PeerAddrs,      \* the addresses packets come from
    Local,          \* the address of localhost
    Slots,          \* clients of the server
    Levels,         \* rcon levels a client may have, 0 for none
    NoAddr,
    Minutes,        \* the arguments of the ban commands, 0 for ever
    MinuteLength,   \* ticks of the clock in a minute
    MaxNow,         \* bound: the clock
    MaxSaves        \* bound: executions of bans_save

VARIABLES
    addrPool, rangePool,
    now,            \* time_timestamp()
    client,         \* address of each client, NoAddr for STATE_EMPTY
    level,          \* m_Authed of each client
    file,           \* the lines of the file that bans_save wrote
    todo,           \* the lines exec has still to run
    promised,       \* history: the bans in it, until a command changes a ban
    saves           \* bound: number of times it was written

vars == <<addrPool, rangePool, now, client, level, file, todo, promised, saves>>

Targets == Addrs \cup PeerAddrs \cup Ranges
Lines == [target : Targets, minutes : Nat]
VOTE == "vote"
SERV == "server"

PoolOf(d) == IF IsRange(d) THEN rangePool ELSE addrPool

Init ==
    /\ addrPool = Reset
    /\ rangePool = Reset
    /\ now = 0
    /\ client = [s \in Slots |-> NoAddr]
    /\ level = [s \in Slots |-> 0]
    /\ file = <<>>
    /\ todo = <<>>
    /\ promised = <<>>
    /\ saves = 0

-----------------------------------------------------------------------------
(* Clients.                                                                  *)

\* The address bans are looked up by: that of a websocket is as any other.
LookupAddr(a) == IF a.type = "ws4" THEN [a EXCEPT !.type = "v4"] ELSE a

\* CNetBan::IsBanned
IsBanned(orig) ==
    LET a == LookupAddr(orig)
    IN  \/ Find(addrPool, a, PrefixHash(a, Length)) # 0
        \/ \E i \in 0..Length - 1 :
              LET list == Hashed(rangePool, PrefixHash(a, i))
              IN  \E k \in DOMAIN list :
                      NetMatchFrom(rangePool.data[list[k]], a, i)

\* CNetServer::Recv drops the packets of banned addresses, the first one of a
\* client among them.
Connect(s, a) ==
    /\ client[s] = NoAddr
    /\ ~IsBanned(a)
    /\ client' = [client EXCEPT ![s] = a]
    /\ level' = [level EXCEPT ![s] = 0]
    /\ UNCHANGED <<addrPool, rangePool, now, file, todo, promised, saves>>

Login(s, l) ==
    /\ client[s] # NoAddr
    /\ l # level[s]
    /\ level' = [level EXCEPT ![s] = l]
    /\ UNCHANGED <<addrPool, rangePool, now, client, file, todo, promised, saves>>

Leave(s) ==
    /\ client[s] # NoAddr
    /\ client' = [client EXCEPT ![s] = NoAddr]
    /\ level' = [level EXCEPT ![s] = 0]
    /\ UNCHANGED <<addrPool, rangePool, now, file, todo, promised, saves>>

-----------------------------------------------------------------------------
(* The ban commands.                                                         *)

\* Mutant of Matching: only the first client is looked at.
MatchingFirst(d) ==
    {s \in Slots : /\ client[s] # NoAddr /\ NetMatch(d, client[s])
                   /\ \A t \in Slots : client[t] # NoAddr /\ NetMatch(d, client[t]) => t = s}

Matching(d) == {s \in Slots : client[s] # NoAddr /\ NetMatch(d, client[s])}

\* The checks of CServerBan::BanExt: nobody bans themselves or a client of
\* their own level or a higher one, and a vote bans no client with a level.
Denied(issuer, d) ==
    \/ /\ issuer \in Slots
       /\ \E s \in Matching(d) : s = issuer \/ level[s] >= level[issuer]
    \/ /\ issuer = VOTE
       /\ \E s \in Matching(d) : level[s] > 0

Stamp(m) == IF m > 0 THEN now + m * MinuteLength ELSE EXPIRES_NEVER

\* CServerBan::BanExt and CNetBan::Ban for a target of either pool. The
\* clients are dropped when the ban is a new one.
BanExt(issuer, d, m) ==
    LET pool == PoolOf(d)
        b == Find(pool, d, NetHash(d))
        banned == IF b # 0 THEN Update(pool, b, Stamp(m)) ELSE Add(pool, d, Stamp(m))
        dropped == IF b # 0 THEN {} ELSE Matching(d)
    IN  /\ IF Denied(issuer, d) \/ NetMatch(d, Local) \/ (b = 0 /\ pool.free = 0)
           THEN UNCHANGED <<addrPool, rangePool, client, level>>
           ELSE /\ IF IsRange(d) THEN rangePool' = banned /\ UNCHANGED addrPool
                                 ELSE addrPool' = banned /\ UNCHANGED rangePool
                /\ client' = [s \in Slots |-> IF s \in dropped THEN NoAddr ELSE client[s]]
                /\ level' = [s \in Slots |-> IF s \in dropped THEN 0 ELSE level[s]]
        /\ UNCHANGED <<now, file, saves>>

\* An rcon command of a client, a command of the server's own, or a vote.
Issuers == {s \in Slots : client[s] # NoAddr /\ level[s] > 0} \cup {VOTE, SERV}

\* ConBanExt with an address and ConBanRange
BanTarget(issuer, d, m) == BanExt(issuer, d, m) /\ promised' = <<>> /\ UNCHANGED todo

\* ConBanExt with a client id
BanClient(issuer, s, m) ==
    /\ client[s] # NoAddr
    /\ BanExt(issuer, client[s], m)
    /\ promised' = <<>>
    /\ UNCHANGED todo

SetPool(d, p) ==
    IF IsRange(d) THEN rangePool' = p /\ UNCHANGED addrPool
                  ELSE addrPool' = p /\ UNCHANGED rangePool

\* CNetBan::Unban of a target
Unban(d) ==
    LET b == Find(PoolOf(d), d, NetHash(d))
    IN  /\ b # 0
        /\ SetPool(d, Remove(PoolOf(d), b))
        /\ promised' = <<>>
        /\ UNCHANGED <<now, client, level, file, todo, saves>>

\* CNetBan::UnbanByIndex: the ranges are numbered after the addresses.
UnbanByIndex(index) ==
    LET a == Get(addrPool, index)
        r == Get(rangePool, index - addrPool.count)
    IN  /\ \/ a # 0 /\ addrPool' = Remove(addrPool, a) /\ UNCHANGED rangePool
           \/ a = 0 /\ r # 0 /\ rangePool' = Remove(rangePool, r) /\ UNCHANGED addrPool
        /\ promised' = <<>>
        /\ UNCHANGED <<now, client, level, file, todo, saves>>

UnbanAll ==
    /\ addrPool' = Reset
    /\ rangePool' = Reset
    /\ promised' = <<>>
    /\ UNCHANGED <<now, client, level, file, todo, saves>>

-----------------------------------------------------------------------------
(* Time.                                                                     *)

\* Mutant of RemoveExpired: a ban goes in the last second of its time.
RECURSIVE RemoveExpiredEarly(_)
RemoveExpiredEarly(p) ==
    IF p.used # 0 /\ p.expires[p.used] # EXPIRES_NEVER /\ p.expires[p.used] <= now
    THEN RemoveExpiredEarly(Remove(p, p.used))
    ELSE p

\* The loop of CNetBan::Update over one pool, an element at a time.
RECURSIVE RemoveExpired(_)
RemoveExpired(p) ==
    IF p.used # 0 /\ p.expires[p.used] # EXPIRES_NEVER /\ p.expires[p.used] < now
    THEN RemoveExpired(Remove(p, p.used))
    ELSE p

NetBanUpdate ==
    /\ addrPool' = RemoveExpired(addrPool)
    /\ rangePool' = RemoveExpired(rangePool)
    /\ UNCHANGED <<now, client, level, file, todo, promised, saves>>

Tick ==
    /\ now < MaxNow
    /\ now' = now + 1
    /\ UNCHANGED <<addrPool, rangePool, client, level, file, todo, promised, saves>>

-----------------------------------------------------------------------------
(* The file.                                                                 *)

\* Mutant of SavedMinutes: the minutes that have begun are not counted.
SavedMinutesDown(e) == IF e = EXPIRES_NEVER THEN 0 ELSE (e - now) \div MinuteLength

\* Mutant of SavedMinutes: -1 is not told from a time.
SavedMinutesPlain(e) == (e - now + MinuteLength - 1) \div MinuteLength

\* The minutes bans_save writes. ConBanExt and ConBanRange clamp the -1 of a
\* ban for ever to the 0 that stands for it in a command.
SavedMinutes(e) ==
    IF e = EXPIRES_NEVER THEN 0 ELSE (e - now + MinuteLength - 1) \div MinuteLength

LinesOf(p) ==
    [i \in DOMAIN Used(p) |-> [target |-> p.data[Used(p)[i]],
                               minutes |-> SavedMinutes(p.expires[Used(p)[i]])]]

InForce(p) ==
    [d \in {p.data[n] : n \in Nodes} \ {NoData} |->
        p.expires[CHOOSE n \in Nodes : p.data[n] = d]]

\* CNetBan::ConBansSave
ConBansSave ==
    /\ saves < MaxSaves
    /\ todo = <<>>
    /\ file' = LinesOf(addrPool) \o LinesOf(rangePool)
    /\ promised' = [d \in DOMAIN InForce(addrPool) \cup DOMAIN InForce(rangePool) |->
                       IF IsRange(d) THEN InForce(rangePool)[d] ELSE InForce(addrPool)[d]]
    /\ saves' = saves + 1
    /\ UNCHANGED <<addrPool, rangePool, now, client, level, todo>>

\* The server is started again, CNetBan::Init, and execs the file.
Restart ==
    /\ file # <<>>
    /\ addrPool' = Reset
    /\ rangePool' = Reset
    /\ client' = [s \in Slots |-> NoAddr]
    /\ level' = [s \in Slots |-> 0]
    /\ todo' = file
    /\ file' = <<>>
    /\ UNCHANGED <<now, promised, saves>>

ExecLine ==
    /\ todo # <<>>
    /\ BanExt(SERV, Head(todo).target, Head(todo).minutes)
    /\ todo' = Tail(todo)
    /\ UNCHANGED promised

Next ==
    \/ \E s \in Slots : \/ \E a \in PeerAddrs : Connect(s, a)
                        \/ \E l \in Levels : Login(s, l)
                        \/ Leave(s)
    \/ \E i \in Issuers, m \in Minutes :
           \/ \E d \in Addrs \cup Ranges : BanTarget(i, d, m)
           \/ \E s \in Slots : BanClient(i, s, m)
    \/ \E d \in Addrs \cup Ranges : Unban(d)
    \/ \E index \in 0..2 * MAX_BANS : UnbanByIndex(index)
    \/ UnbanAll
    \/ NetBanUpdate
    \/ Tick
    \/ ConBansSave
    \/ Restart
    \/ ExecLine

Spec == Init /\ [][Next]_vars

-----------------------------------------------------------------------------
(* Properties.                                                               *)

Pool ==
    [data : [Nodes -> Targets \cup {NoData}], expires : [Nodes -> {EXPIRES_NEVER} \cup Nat],
     next : [Nodes -> Pointer], prev : [Nodes -> Pointer],
     hnext : [Nodes -> Pointer], hprev : [Nodes -> Pointer],
     hash : [Buckets -> Pointer], free : Pointer, used : Pointer, count : Pointer]

TypeOK ==
    /\ addrPool \in Pool /\ rangePool \in Pool
    /\ now \in 0..MaxNow
    /\ client \in [Slots -> PeerAddrs \cup {NoAddr}]
    /\ level \in [Slots -> Levels \cup {0}]
    /\ \A i \in DOMAIN file : file[i] \in Lines
    /\ \A i \in DOMAIN todo : todo[i] \in Lines

\* A list that is doubly linked: every element is the one before the next one.
Threaded(first, nxt, prv) ==
    LET list == Chain(nxt, first)
    IN  /\ Len(list) <= MAX_BANS
        /\ \A i \in DOMAIN list : prv[list[i]] = IF i = 1 THEN 0 ELSE list[i - 1]

ElementsOf(list) == {list[i] : i \in DOMAIN list}

\* Every element of a pool is on exactly one of its free and used lists, every
\* used one on the hash list of its target and on no other, no target is there
\* twice, and the links back agree with those forward: the array survives any
\* sequence of adding, changing and removing.
PoolTidy(p) ==
    LET used == ElementsOf(Used(p))
        free == ElementsOf(Free(p))
        hashed == [n \in used |-> NetHash(p.data[n])]
    IN  /\ Threaded(p.used, p.next, p.prev)
        /\ Threaded(p.free, p.next, p.prev)
        /\ \A h \in Buckets : Threaded(p.hash[h], p.hnext, p.hprev)
        /\ used \cap free = {}
        /\ used \cup free = Nodes
        /\ p.count = Len(Used(p))
        /\ \A n \in Nodes : p.data[n] # NoData <=> n \in used
        /\ \A h \in Buckets : ElementsOf(Hashed(p, h)) = {n \in used : hashed[n] = h}
        /\ \A m, n \in used : p.data[m] = p.data[n] => m = n

ListsTidy == PoolTidy(addrPool) /\ PoolTidy(rangePool)

\* What is looked up through the hashes, an address and the ranges of every
\* length of common prefix, is banned exactly when some ban on the used lists
\* covers it.
FoundIffBanned ==
    \A a \in PeerAddrs :
        IsBanned(a) <=>
            \E p \in {addrPool, rangePool} : \E n \in ElementsOf(Used(p)) :
                NetMatch(p.data[n], LookupAddr(a))

\* No client that is connected is banned: banning drops the clients only when
\* the ban is new, and who is banned cannot connect again.
NoBannedClient == \A s \in Slots : client[s] # NoAddr => ~IsBanned(client[s])

\* The bans as BanList has them, by target.
List == INSTANCE BanList WITH
    banned <- [d \in DOMAIN InForce(addrPool) \cup DOMAIN InForce(rangePool) |->
                  IF IsRange(d) THEN InForce(rangePool)[d] ELSE InForce(addrPool)[d]],
    Addrs <- Addrs \cup PeerAddrs

\* The pools implement the list of bans.
ImplementsList == List!Spec

\* Each command does to the list what it says, to the target it names and to no
\* other, or nothing: targets share hash lists and elements are used again.
StepAsPromised ==
    \A d \in Addrs \cup Ranges :
        /\ \A m \in Minutes :
              BanTarget(SERV, d, m) => List!Ban(d) \/ UNCHANGED <<addrPool, rangePool>>
        /\ Unban(d) => List!Unban(d)

EachAsPromised == [][StepAsPromised]_vars

\* Update leaves no ban whose time is over, although it looks only at the head
\* of a list.
NoneOverstays ==
    \A p \in {RemoveExpired(addrPool), RemoveExpired(rangePool)} :
        \A n \in ElementsOf(Used(p)) : p.expires[n] = EXPIRES_NEVER \/ p.expires[n] >= now

\* A ban that is in force when the file is written is in force at least as
\* long once the next start of the server has run the file.
RestoredForAsLong ==
    todo = <<>> =>
        \A d \in DOMAIN promised :
            LET b == Find(PoolOf(d), d, NetHash(d))
                until == PoolOf(d).expires[b]
            IN  promised[d] = EXPIRES_NEVER \/ promised[d] >= now =>
                    /\ b # 0
                    /\ \/ until = EXPIRES_NEVER
                       \/ promised[d] # EXPIRES_NEVER /\ until >= promised[d]

\* A ban with an end still has one when it has been saved and restored.
TemporaryStaysTemporary ==
    \A d \in DOMAIN promised :
        promised[d] # EXPIRES_NEVER =>
            LET b == Find(PoolOf(d), d, NetHash(d))
            IN  b # 0 => PoolOf(d).expires[b] # EXPIRES_NEVER

\* Banning a client by its id keeps its address out.
BannedByIdStaysOut ==
    [][\A s \in Slots, i \in Issuers, m \in Minutes, a \in PeerAddrs :
          client[s] = a /\ BanClient(i, s, m) /\ client'[s] = NoAddr => IsBanned(a)']_vars
=============================================================================
