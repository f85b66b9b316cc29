# chillerbot-ux in TLA+

chillerbot-ux is a client for DDNet (a Teeworlds successor) with a chat bot in
it; its repository also holds the DDNet server and the master server. This
directory models the parts of the program whose correctness depends on the order
in which things happen: the connection-oriented protocol of `engine/shared`,
timeout protection, snapshots, the worker threads, bans, the registration with
the master, the teams of the game, and the chat helper. TLC checks the modules on
small instances, TLAPS proves the main safety properties of the protocol, the
snapshots, the worker threads and the registration for all values of the constants.

`src/` below means `src/engine/shared/` of the repository unless a path says
otherwise.

## The system

| Component | State | Operations | What makes it correct |
|---|---|---|---|
| Connection (`CNetConnection`, `network_conn.cpp`) | state, sequence numbers `m_Sequence`, `m_Ack`, `m_PeerAck`, tokens, resend buffer, packet under construction, timers | `Connect`, `Connect7`, `Feed`, `QueueChunk`, `Flush`, `Update`, `Disconnect`, `DirectInit`, `ResumeConnection` | vital chunks arrive in order and once; nothing unacknowledged leaves the resend buffer; everything is acknowledged in the end |
| Chunk unpacker (`CPacketChunkUnpacker`, `network.cpp`) | the rest of one packet, a pointer to its connection | `FeedPacket`, `UnpackNextChunk` | takes the next number only; asks for a resend on a gap |
| Network client and server (`network_client.cpp`, `network_server.cpp`) | one connection; 128 slots, the pending flushes | `Recv`, `Send`, `Update`, `Drop`, `EndFlushBatch`, `TryAcceptClient`, the control messages, `ResumeOldConnection` | both ends agree on the numbers after the handshake; a slot belongs to one client; a timed-out client gets its slot back |
| Ring buffer (`CRingBufferBase`, `ringbuffer.cpp`) | list of blocks in one piece of memory, produce and consume pointers | `Allocate`, `PopFirst`, `First`, `Next`, `Prev`, `Last`, `Clear` | a queue; blocks never overlap; freed memory is found again |
| Snapshots (`snapshot.cpp`, `engine/server/server.cpp`, `engine/client/client.cpp`) | stored snapshots, the tick each client acknowledged | build, delta, send in parts, acknowledge, purge | the client decodes against the snapshot the server encoded against |
| Job pool (`jobs.cpp`) | linked list of jobs, worker threads, state of each job | `Add`, `Abort`, `Shutdown`, `RunLoop` | every job runs once or is aborted; shutdown loses none |
| Database pool (`engine/server/databases/connection_pool.cpp`) | ring of 512 queries between the game thread, a backup thread and a worker; shutdown flag | `Execute`, `ExecuteWrite`, `OnShutdown`, the two loops | queries in order; a rank is in the backup until it is in the main database, and is stored once |
| Asynchronous files (`base/aio.cpp`) | a ring of bytes that grows, one thread | `aio_write`, `aio_close`, `aio_wait`, `aio_free` | the file is what was written; close loses nothing |
| Bans (`netban.cpp`, `engine/server/server.cpp`) | two pools threaded on free, used and hash lists | ban, unban, expire, save, run the file | a banned address is out, nobody else is, for as long as promised |
| Registration (`engine/server/register.cpp`, `mastersrv`) | per protocol: challenge, status, serial; the master's tables | requests by jobs, challenges over UDP, expiry | the master lists what is enabled, with its newest info |
| Server-side client, client session (`engine/server/server.cpp`, `engine/client/client.cpp`) | state of each client, map download window, timeout code | message handlers, `SetTimedOut`, `ClientRejoinCallback` | a rejoining client keeps its slot |
| Teams (`game/server/teams.cpp`, `score.cpp`, `save.cpp`) | team of each player, team states, flags of each tee, a pending save | tiles, deaths, `/team`, `/lock`, `/practice`, `/swap`, `/save`, `/load` | a run exists once; ranks are for whole, unpractised runs |
| chillerbot (`game/client/components/chillerbot`, `chat.cpp`) | send buffers, stack of pings, away mode, the history of the chat | `SayBuffer`, `ReplyToLastPing`, `GoAfk`, `OnRender` | each buffer sends in order; what waits is sent; away ends with activity |
| Votes, econ, HTTP, console, accounts | | | not modelled |
| Rendering, sound, text, menus, editor, maps, demos, physics | | | devices, file formats and floating-point simulation: not modelled |

`CClient` and `CServer` drive everything from one thread each: once per tick they
drain the socket (`Recv` until it returns 0, handling each chunk as it comes),
run the game, send what the game queued and call `Update`. Handlers call back into
the network layer: a chunk's handler can send, flush, drop the connection or
resume another one while the unpacker still holds the rest of the packet. The
network between the two loses, duplicates, delays and reorders packets. The job
pool, the database workers, the writers of files and the HTTP thread are the only
other threads; the game learns of their results in a later tick, when what it
asked for may no longer apply.

### What is hard here

`PROJECT.json` lists the hazards with their lines. In short: numbers modulo 1024
compared in two ways; three independent mechanisms of retransmission; a bounded
resend buffer whose overflow is not an error; an unpacker that outlives the state
it points to; a handshake whose last packet is sent once; a takeover of a
connection that copies part of its state; snapshots decoded against others that
may be gone; a shutdown that races with workers over a linked list; a write whose
failure leaves work in another database; lists threaded through one array; requests
that overtake each other; and results of the database for a team that changed.

## Modules

| Module | Models | Source |
|---|---|---|
| `SeqArith` | numbers modulo `NET_MAX_SEQUENCE`, `IsSeqInBackroom`, the acknowledgement window | `network.cpp:471`, `network_conn.cpp:382` |
| `SeqTriples` | three numbers, chosen at first, to compare | |
| `NetConnection` | every member function of `CNetConnection` and the unpacker as an operator on a connection record | `network_conn.cpp`, `network.cpp:57` |
| `NetChannel` | two established connections, the network, the applications | `network_client.cpp`, `network_server.cpp` |
| `ReliableLink` | what a pair of connections promises: a queue in each direction | |
| `NetServer` | the slots of `CNetServer` and the handlers that give them away and take them back, as operators on a server record | `network_server.cpp` |
| `NetHandshake` | clients and a server that open and close connections, the network | `network_client.cpp`, `network_server.cpp` |
| `NetResume` | timeout protection: a connection moved to the slot of an older one, between two chunks of a packet | `network_conn.cpp:583`, `network_server.cpp`, `engine/server/server.cpp` |
| `RingBuffer` | `CRingBufferBase` | `ringbuffer.cpp`, `ringbuffer.h` |
| `RingQueue` | what the ring buffer promises: a queue that turns items away only when space is tight | |
| `Snapshots` | what a server sends one player and the client stores | `engine/server/server.cpp`, `engine/client/client.cpp`, `snapshot.cpp` |
| `JobPool` | `CJobPool` and its workers, step by step between locks | `jobs.cpp` |
| `JobService` | what a job pool promises: each accepted job is executed, or cancelled if it allows that | |
| `DbPool` | `CDbConnectionPool` with its backup thread and worker | `engine/server/databases/connection_pool.cpp` |
| `AsyncIo` | `ASYNCIO` | `base/aio.cpp` |
| `BanPool`, `Bans` | `CBanPool`; `CNetBan` with `CServerBan` and the clients | `netban.h`, `netban.cpp`, `engine/server/server.cpp` |
| `BanList` | what bans promise: targets, each with an end | |
| `Register` | `CRegister` and the tables of the master server | `engine/server/register.cpp`, `mastersrv/src/main.rs` |
| `Teams` | `CGameTeams` and the handlers that drive it | `game/server/teams.cpp`, `gamemodes/ddnet.cpp`, `ddracechat.cpp`, `score.cpp`, `save.cpp` |
| `ChatHelper` | pings, send buffers and the away mode | `game/client/components/chillerbot` |
| `ChatQueue` | the lines typed faster than one a second | `game/client/components/chat.cpp` |
| `Chat` | the two together | |
| `MC...` | instances for TLC | |
| `NumberLemmas` | division by an unknown modulus, least elements, induction, recursive functions: lemmas for the proofs | |
| `NetChannelProofs`, `NetHandshakeProofs`, `SnapshotsProofs`, `JobPoolProofs` | theorems about the module of that name, and their lemmas; the first also about `SeqArith` | |
| `ServerProofs` | theorems about `Register` and `Teams` | |
| `GameProofs` | theorems about `DbPool` and `Chat` | |
| `RingProofs` | theorems about the two rings, `AsyncIo` and `RingBuffer` | |

### The protocol

**State.** A connection record has the fields of `CNetConnection` under their names
without the prefix (`sequence` is `m_Sequence`, and so on). `buffer` is the content
of the resend ring buffer, `construct` is `m_Construct`. `out` collects the packets
a handler sends, in place of the socket. The ring buffer is modelled separately,
with its block list, in `RingBuffer`; `NetConnection` uses what `RingQueue` promises,
a queue of bounded size, counted in chunks.

**Actions of `NetChannel`.** `Send` is `CNetClient::Send` and `CNetServer::Send`,
`EndFlushBatch`, `ProtectTimeouts` (`IgnoreTimeouts`) and `Drop` are the functions of
those names, `Receive` is one turn of the receive loop with a packet from the
socket, `Unpack` one turn with a chunk from the unpacker, `Tick` is
`CNetClient::Update` or `CNetServer::Update`, the closing of a failed connection
included. `Send` and `Drop` may come between two `Unpack` steps of a packet, as the
handler of a chunk may call them; `Receive` and `Tick` may not, because the loops
drain the unpacker first.

**`NetServer` and `NetHandshake`.** A server is a record: `slots`, one connection record
per slot, and `out`, the packets it sends without a connection. The operators have the names
of the functions: `TryAcceptClient`, `OnTokenCtrlMsg` (0.6 with a DDNet token),
`OnSixupCtrlMsg` (0.7), `GetClientSlot`, `NumClientsWithAddr`; `RecvPacket` is the body of the
loop in `CNetServer::Recv`, with the slot looked up before the handlers run, as there.
A client of `NetHandshake` is the address it sends from. `ConnectClient` is `Connect` and
`Connect7`, `DisconnectClient`, `RecvClient` and `UpdateClient` are the other functions of
`CNetClient`; `RecvServer`, `UpdateServer`, `DropClient` and `ProtectClient` those of
`CNetServer`. `Connlimit` counts per address and second, and its answer is an argument, as
the timers are. The rule for reading a packet as 0.6 or 0.7 (`IsReadable`) is the one
of `Recv` and `UnpackPacket`: the version of the slot the address has, else that of the
packet's flags. Clients send keep-alives and control messages only: what happens to chunks
is the subject of `NetChannel`. Clients without a token (`OnPreConnMsg`) are left out: the
client of this repository always announces one.

**`NetResume`.** The server has two slots: "old", whose connection has broken and may still
have chunks queued or unacknowledged, and "new", with an established connection of the same
player. The first chunk of the client is its `/timeout`; `ServerUnpack`, on reaching it, runs
`SetTimedOut`, `ResumeOldConnection` and `ResumeConnection`. The rest of its packet is
discarded: the slot the unpacker goes on with is empty by then, and the client sends those
chunks again to the resumed connection. `OldSixup` and `NewSixup` are the protocol versions of the
two, `OldAcked` how much of the old connection the client had acknowledged.

**Network.** A set of packets. Receiving a packet leaves it there, so it can arrive
again, late, after younger ones, or never. `MaxInFlight` bounds the set; what does not
fit is lost. `Snapshots` keeps everything that was ever sent.

**Abstractions.** A chunk carries the number of its message as content (ghost
information: no operator looks at it). Time is a set of timers that have expired,
chosen freely at each step, so every order of timeouts is covered. Sizes are counted
in chunks. Security tokens are model values. The rate limit of answers to resend
requests is the timer `answer`. Error texts, statistics and logging are left out.

**Assumption on the network.** `Fresh` removes packets whose numbers are more than
`MaxAge` messages old, with `MaxAge < MaxSequence - 1`. A ten-bit number says nothing
about a packet that is a full turn (1024 messages) late, and the code has no other
defence; the property is false without the assumption.

### Snapshots

`DoSnapshot` is `CServer::DoSnapshot` for one client, `OnInput` the handling of `NETMSG_INPUT` (the
acknowledgement travels in it), `SetTimedOut` the move of the player to its old slot, whose
storage has snapshots of the same ticks. On the client `OnSnap` is the handling of `NETMSG_SNAP`,
`NETMSG_SNAPSINGLE` and `NETMSG_SNAPEMPTY`, with the assembly of parts, the choice of the delta base, the
checksum and the purge; `SwitchSnapshot` moves `m_aapSnapshots` to the next stored one. `ChangeMap`, `LoadMap`,
`EnterGame` and `OnNetMsgEnterGame` are the change of a map. A snapshot's content is the map, the
slot and one of `Worlds`; a delta is its base and its result, and unpacking it against another base gives
something that is neither, with which the handler returns without counting (`OnSnapUnreadable`: the bytes
cannot be decompressed or give no valid snapshot) or counts a CRC error (`OnSnapBad`). What was decoded may
have no room for its items in the copy for the game (`OnSnapTooLarge`): the old snapshots are purged by then,
and nothing is stored. Before the map changes a delta is never unpacked against another base:
`SnapshotsTrue` says that the base the client uses is the server's. In the case "map" of `session` it happens, after a late
snapshot of the old map was stored.

### Threads

**`JobPool`.** A step ends where a lock is released or a semaphore is used. A worker is at one of the steps
of `RunLoop` (`Wait`, `Fetch`, `FetchNothing`, `Start`, `SkipAborted`, `Remember`, `Run`, `Forget`); the list is modelled
by its pointers `m_pFirstJob`, `m_pNext`, `m_pLastJob`, since `Shutdown` unlinks in the middle of it. The main thread
runs `Init`, `Add`, and the steps of `Shutdown` (`LockQueue`, `Unlink`, `KeepQueued`, `UnlockQueue`, `AbortRunning`, `Wake`,
`Join`); a job may be aborted by anyone at any time. After a shutdown the pool may be started again.

**`DbPool`.** `Insert` is `Execute`, `ExecuteWrite` and the registrations, `BackupStep` one turn of
`CBackup::ProcessQueries`, `CheckFailMode`, `Take`, `ExecRead`, `ExecWrite`, `SettleSucceeded`, `SettleFailed`, `Register` and
`Complete` the parts of a turn of `CWorker::ProcessQueries`; the tables are those `CScoreWorker::SaveScore`
writes in its normal, backup and fail modes. Statements may fail at each point.

**`AsyncIo`.** A write and the look of the thread at the ring are each a step under the lock; the
signal after a write, the write to the file and the wait are steps of their own. In `aio_close` and
`aio_wait` the flag is set and the signal given in one step: the owner does nothing in between, a thread
that is awake sees the flag either way, and one that waits goes on with the signal.

### Bans and registration

**`BanPool`, `Bans`.** A pool has the arrays `prevHash`, `nextHash`, `prev`, `next` and the heads of the lists, and
`Add`, `Remove`, `Update`, `Find` are `CBanPool`'s on these; `Bans` has one action per command, `NetBanUpdate` for
`CNetBan::Update`, `Connect` for a client that passes `NewClientCallback`, `ConBansSave` and, after a `Restart`,
one `ExecLine` per line of the file. Addresses have two bytes, each 0 or 1: enough for every length of a
common prefix.

**`Register`.** `Update` is `CProtocol::Update` with the sending of a request, `OnToken` a challenge that arrives,
`Elapse` a time that passes, `OnRegister` the handling of a request by the master, `ApplyStatus` and
`ApplySerial` the two locks under which a job stores its answer, `OnDelete`, `PruneLeft` and `PruneLate` the
other ways an entry of the master ends. `Enable` and `Disable` are changes of `sv_register`, `Restart` a
new process of the game server, whose requests of before are still under way.

### Game and chat

**`Teams`.** `g` holds the state of `CGameTeams` and of the tees; a handler is an operator from `g` to `g`, an
action applies one. A run is numbered (ghost), so that a copy of it in the game, in the database or
with a worker can be recognised, with the facts about it a rank depends on. `SaveTeam` and `LoadTeam` are
the commands, `SaveWorker` and `LoadWorker` what the database does, `ProcessSaveTeam` the tick in which the
game takes the result. `Features` names the commands that are used.

**`ChatHelper`, `ChatQueue`.** `FlushBuffers` and `BufferReady` are the two halves of sending what is
buffered (`OnRender` looks at the buffers only in a frame whose time is a multiple of 10, which a step chooses), `SendChat` what the player types, `FadeActivity` the fading of the activity
after which the player is away. `Chat` puts the two side by side: they share no state. `ChatQueue` models the lines that wait as the code does:
a count of the newest entries of the history. `overtook` remembers that a line was sent at once while others waited,
which moves the entries the count names; `mistaken` counts the lines that were taken for a note.

Mutants are operators with the comment "Mutant of": a bug somebody could write in
the operator below them. No definition uses them.

## What the runs check

Several components share a run. They share no state, so an interleaving of two of them
shows nothing that a behaviour of one does not: an MC module has the variables of all of
them and one more, `case` or `part`, which `Init` chooses and no step changes, and only the
component it names takes steps. A component with theorems is extended by the MC module
(`SeqTriples`, `JobPool`, `DbPool`, `Chat`, `Teams`, `AsyncIo`, `RingBuffer`, `Snapshots`, `Register`), so that the property of the run is the one of the
theorem; the other cases are instances (`INSTANCE ... WITH`) with constants of their own,
named in the head of the module. A property of several cases is
a conjunction of the properties of the components, guarded by the case where
an instance's constants make no sense of the others' states. `channel` and `server` have
several cases of a module they extend: `channel` as instances with smaller constants,
`server` of `Register` as a filter on its steps (`Within`). `Teams` is extended twice, by `game` with saves and by
`server` with practice mode.

| Run | Cases | Shows |
|---|---|---|
| `data` | all triples modulo 16; a ring buffer of 7 headers, items of 1, 2, 3 and 5 headers and one that never fits, without and with `FLAG_RECYCLE`; two writers of lines of one and three bytes, a ring of two bytes that grows | both circular comparisons agree with the distance on the circle (`ComparesOnCircle`); the blocks tile the memory and the walks follow their age (`WalksInOrder`); memory does not fragment (`RefusesOnlyWhenTight`); `RingQueue` is implemented (`ImplementsQueue`); the file is what was written (`WrittenInOrder`) |
| `channel` | modulo 4: packets of two chunks and more messages than the resend buffer holds; past a full turn of the numbers; both directions at once; a connection that is dropped, times out or is protected, with chunks that are not vital | `DeliveredInOrder`; no undelivered chunk is freed (`NothingForgotten`); the buffer is exactly the window (`BufferIsWindow`); the inductive invariant `IInv`; the pair implements `ReliableLink` (`ImplementsLink`) |
| `channel_live` | two messages one way, modulo 4 | `EventuallyDelivered`, `EventuallyAcknowledged` |
| `handshake` | a client that connects with either protocol, leaves, times out, is dropped and comes back, two slots, three packets in flight; two clients behind one IP, limit 1, timeout protection, `Connlimit` either way | no old packet gives a client a second slot (`OneSlotPerAddress`); `LimitPerIp`, also with slots kept after a timeout; no client gets the slot of another before it was free (`SlotKeepsItsClient`) |
| `handshake_live` | one client, one slot, both protocols, drops and protection, two packets in flight | `EventuallyAnswered`, `SlotsAreFreed` |
| `handshake_sixup` | a 0.7 client and a flush timer that expires | a violation of `SealedForClient`, see below |
| `session` | a 0.6 connection moved to a slot that was 0.7, the client speaking behind its `/timeout`; the game speaking across the move; snapshots of two parts across the move; a change of the map with snapshots under way | no chunk is lost or repeated by the move (`StreamContinues`); storages get newer snapshots only (`StoredTicksIncrease`); what is shown is stored (`ShownSnapshotsLive`); until the map changes, what was decoded is what was built (`SnapshotsTrue`) |
| `workers` | three jobs, two of them abortable, two workers, a second life of the pool; the database pool; two writers, a ring of two bytes that grows | `NoJobLost`; the job pool implements `JobService` (`ImplementsService`); every shutdown returns and all work of the three is done (`AllWorkEnds`) |
| `server` | a pool of three bans for four addresses; of two for three addresses hashed alike; addresses and ranges with two clients; saving and restoring; one protocol with two requests under way; a restart; two protocols; three tees, two to a team, with practice, team 0 mode and swaps | the lists are intact and nothing outlives `Update` (`ListsTidy`); commands change the ban they name (`ImplementsList`); `BansHold`; the master's tables agree and no info is left out that it lacks (`MasterAgrees`); no older info replaces newer (`InfoOnlyNewer`); no rank for a practised run, none with a finish of an earlier run, none in team 0 mode (`RunsAreFair`) |
| `game` | the database pool: a ring of three, four queries of which two are pending, any write may fail; two tees that race, save, load and swap, also with an invalid tee in the save; two send buffers; six typed lines | a run exists once and an empty team keeps nothing (`TeamsConsistent`); ranks are stored once (`QueriesSafe`) and stay (`RanksKept`); each buffer sends in order, a note ends the away mode only after another line was counted in its place, and typed lines go out in order, each once, until one overtakes those that wait (`ChatInOrder`) |
| `live` | a resumed connection; a team; the registration, with a change of `sv_register` or a restart; the send buffers; the typed lines | a resumed player is heard (`PlayerIsHeard`), an unfinishable team ends (`UnfinishableEnds`), the master lists what is enabled (`MasterFollows`), the send buffers run empty and the counter of waiting lines runs to 0 (`ChatDrains`) |
| `bans_forever` | bans saved and restored | a violation of `TemporaryStaysTemporary`, see below |

`TypeOK` is a property of its own where a theorem states it, elsewhere a conjunct of another one.

**Bounds.** A modulus of 4 is the smallest even one with a number that is neither
old, nor next, nor the last; five messages pass it once and reuse number 1. A buffer
of half the modulus is the largest the design allows: with 32 KiB and at least 72 bytes for
a chunk and its headers the real one holds at most 455 chunks, and half of the numbers are 512. Two
packets in flight are enough for reordering, and since packets stay after they are
received, also for duplication. A packet of two chunks can hold an old and a new
one, a chunk twice, and a full packet followed by an overflow. For the handshake, three packets
hold one of each kind a 0.6 connection needs (`CONNECT`, `CONNECTACCEPT`, `ACCEPT`) or two of an old
connection and one of the new; a second slot is enough for a client to get one too many, and
two clients at one IP for a limit of one to be passed. In the ring buffer seven
headers and these sizes reach every branch: split and no split, the wrap with a
skipped tail, the completely full buffer, merges on both sides. The resend buffer
that overflows (`overrun`) is reached in every case of `channel`: the
properties then promise nothing for that direction, because the code
(`network_conn.cpp:189`, "hope nobody will ask for resend") does not.

In `session` the numbers do not wrap (modulo 8): what a move does to them is the question, not
the circle. Four ticks with snapshots kept for two of them reach a purge, a lost
base and a full snapshot in between; three ticks on each of two maps, of which only the last can show something
new, reach a late snapshot of the old map, a delta on top of it and a resynchronisation after two CRC errors. For the threads, three jobs are a head, a
middle and a tail of the list, and two workers are one more than takes the last
job; four queries pass a ring of three once, at most two pending keep it from overflowing; a ring
of two bytes wraps, fills and grows with the second line. Three bans fill a list with a
head, a middle and a tail, and addresses hashed alike make one chain of
all of them; ranges share a prefix of none or one byte. For the
registration, two requests under way can overtake each other, and one fault (a loss,
a late answer, a new seed of the master) at any time. In the teams of `game` and `server` one run at a time is
numbered; three tees for two places make a team that is too large.

**Deadlock.** Every run with a `.cfg` line that switches it off has cases that stop: an
application may have sent its last message on closed connections, a client
that need not connect may stay away, threads end, and counters that only bound
the instance run out.
In `data` it is the threads of a file that end; the ring buffer never stops, and the triples of numbers stutter.

**Fairness** (`channel_live`). The receive loop runs (weak fairness of `Unpack`). A packet with
a given message, or a given acknowledgement, that is receivable again and again is
received: the network loses any number of packets, but not all (strong fairness per
message and per acknowledgement). `Update` runs once per tick with the resend, flush and
keep-alive timers expiring, and again and again what it sends finds room in the
network while the peer is idle (`TickThrough`). Nobody ends the connection
(`LiveSpec` leaves `Drop` and the timers for it out).

For `handshake_live`: `Update` resends a `CONNECT` again and again, and the server receives one
of them, and the client one of its answers, if they keep coming (strong fairness per kind and
client: the network loses any number of packets but not all). A slot whose client has gone, or
speaks the other version by now, hears nothing for the length of the timeout, and then
expires (weak fairness of `ExpireSlot`): keep-alives come from a client that is there, and what is not
of the version of the slot is not fed to its connection. No packet of an earlier version is
delivered for ever (`[]<>NoneStale`): it leaves the network some day. Nothing forces a client to
connect, to leave or to be dropped.

For `workers`: threads run. Each worker, the thread of the database pool and of a file takes its next step
unless it waits for a semaphore, and the main thread goes on with a shutdown it has
begun; nothing forces a job to be added, aborted or the pool to be shut down. That `Run` returns
is part of it.

For `live`: the loops of client and server run and the network lets a chunk through that keeps coming,
as above (`resume`); the server ticks and a dead tee respawns (`teams`); `CProtocol::Update` runs, its 15
seconds pass, jobs of requests end, with or without an answer, a challenge that keeps
coming arrives, and the master expires what nobody refreshes (`register`, `again`); every component
is rendered in every frame, now and then in one whose time is a multiple of 10, and seconds pass (`helper`, `queue`). For the line that waits in the chat, strong
fairness of `SendPending`: the player may type just before each frame in which the second is over, but not for ever.
`PlayerIsHeard` and `UnfinishableEnds` are stated as `[]<>(P => Q)`, again and again not stuck, because the state
they speak of can begin anew; `SlotsAreFreed` is a leads-to: a slot that is taken becomes free, or its client is back.
`ChatDrains` says that the send buffers run empty and the counter to 0 and stay so; which lines were sent on the way
it says only for a behaviour in which none overtook another.

## What the violations show

**The resent 0.7 CONNECT** (`handshake_sixup`). `network_conn.cpp:567` says "send a new connect every 500ms". What
`SendConnect` sends is the `CONNECT` of 0.6, with `SECURITY_TOKEN_MAGIC` where the first `CONNECT`
of a 0.7 connection has the token of the client (`network_conn.cpp:442`). The server takes it for that
token, opens a slot with it, or initialises the slot it has just opened again, and seals every
packet with it from then on; the client accepts none of them (`network_conn.cpp:379`). The
connection does not come about when the first `CONNECT` or its answer is lost or late.
`SealedForClient` fails for this reason, and it is why `EventuallyAnswered` speaks of 0.6 only.

**A ban saved in its last second** (`bans_forever`). `bans_save` writes the time left as
`(m_Expires - Now + 59) / 60` minutes (`netban.cpp:598`). `Update` removes a ban once `m_Expires < Now`, so one with
`m_Expires = Now` is still there and is written with 0 minutes, which the `ban` commands take as for ever.
`BansHold` says what holds: a ban is in force at least as long after the file was run.

### What was observed

The following sentences of the repository are stated as properties in the modules and do not hold
there either. Each has a counterexample of a few steps; no run checks them. To see one, check the property on
the module with the constants of the case named, changed as said.

* `JobPool`, `ShutdownAbortsAll` (case `jobs` of `workers`): `jobs.h:171` says that
  `Shutdown` aborts all abortable jobs. A worker that has taken a job from the list and not yet put it among
  the running ones (`jobs.cpp:75`, `jobs.cpp:104`) holds one that `Shutdown` sees in neither; it runs to its end.
* `DbPool`, `WorksThroughAll` (case `db` of `game` with `Slots = 2`, `MaxPending = 4`): with more queries pending than the ring has slots the oldest are
  overwritten, and when the threads come round to an empty slot they take it as the end, against
  "work through all database jobs after OnShutdown is called before exiting the thread" (`connection_pool.cpp`).
* `Teams`, `RankIsFinal` (`Features = {"save"}`): `DoTeamChange` runs `CheckTeamFinished` on a team whose save is pending, so
  those who had finished get a rank, and the save holds the same run.
* `Teams`, `DesertedNotRanked` (`Features = {}`): a member who is dead when a locked team starts can leave it without making it
  unfinishable, since only `OnCharacterDeath` does that.
* `Teams`, `NoRunInTeam0Mode` (`Features = {"save", "team0mode"}`): "Team can't be loaded while in team 0 mode" is checked when the
  load is requested, and the mode can be switched on before the database answers.
* `Teams`, `FreshStart` (`Features = {"save", "invalid"}`): `ProcessSaveTeam` kills a team with an invalid tee while the save is
  still set, so `OnCharacterDeath` returns at once, and the finish flags of the loaded run survive into the next. With
  `"practice"` added, `PracticedNotRanked` fails for the same reason.
* `Teams`, `UnfinishableDoomed`, and `UnfinishableEnds` with it (`Features = {"practice"}`): `Tick` drops the deadline of an
  unfinishable team that practices, and `/unpractice` kills only tees that live.
* `Snapshots`, `OnlyThisMap` (`MaxMap = 1`, two worlds): packets of snapshots carry no mark of the map, so a full snapshot of the
  old map that arrives late is stored, and the new ones are refused until their ticks catch up. `client.cpp` says the
  snapshots "are only valid for the old map".
* `ChatHelper`, `StayNeverReturns` (case `helper` of `game`): the counter behind "StayAfk - Do not deactivate afk mode" is lowered by
  whatever line is sent next, so a filter reply uses it up and the note itself ends the mode.
* `ChatQueue`, `SentAsTyped` (case `queue` of `game`): a line typed between the end of the second and the next frame is
  appended to the history; the count from its end then names other entries, and one of those that waited is not sent.
* `NetResume`, `ToldInOrder` (`OldAcked = 0`, `MaxOld = 1`, `MaxTold = 1`, `MaxInFlight = 2`): `ResumeConnection` keeps the `m_Construct` of the
  timed-out connection, whose unflushed chunks are sent with their old numbers; a client that waits for that
  number takes the stale chunk and drops the next real one. `StreamContinues` speaks of a quiet old connection in the case "told".
* `NetResume`, `SlotHearsClient` (`OldSixup = FALSE`, `NewSixup = TRUE`): `ResumeConnection` takes the version of the new connection and not its `m_Token`,
  which is compared in every 0.7 packet: the slot ignores the client and times out again. The other way round,
  from 0.7 to 0.6, it works and is in `session`.
* `Bans`, `BannedByIdStaysOut` (a client whose address has the type `ws4`): `ConBanExt` bans the address with its websocket type, and lookups
  compare it as `NETTYPE_IPV4`: the client is dropped and can come back.

## What is proved

Every theorem is for all values of the constants that satisfy these assumptions, which TLC evaluates in
the runs too: the modulus is even and greater than 2 (`MaxSequenceAssumption`), the resend
buffer holds at least one and at most half of the numbers (`CapacityAssumption`),
there are two peers, and packets live less than a turn (`BoundAssumption`); for the handshake,
there is a slot, the limit per IP is at least one and at most the number of slots
(`ServerAssumption`), and the server's address is no client's (`HandshakeAssumption`); in the database pool
fewer queries are pending than the ring has slots (`DbAssumption`: the code does not look whether a slot is
free, see `WorksThroughAll` above); elsewhere only that bounds are natural numbers and sets of names are sets
(`PoolAssumption`, `SnapshotAssumption`, `RegisterAssumption`, `TeamsAssumption`), that the send buffers and the stack of pings hold at least one and a line
of the chat counts as activity (`ChatAssumption`), that buffers have at least one byte (`AioAssumption`), and that
the memory of a ring buffer has room for a header (`RingAssumption`).

| Module | Theorem | Property of a run |
|---|---|---|
| `NetChannelProofs` | `BackroomIsDistance`, `AckValidIsWindow`, `NumbersOnCircle`, `Invariance`, `TypeCorrect`, `Delivery`, `Retention`, `BufferWindow`, `LinkImplemented` | `ComparesOnCircle`, `IInv`, `TypeOK`, `DeliveredInOrder`, `NothingForgotten`, `BufferIsWindow`, `ImplementsLink` |
| `NetHandshakeProofs` | `Invariance`, `TypeCorrect`, `OneSlot`, `Limited`, `NoTakeover` | `TypeOK`, `OneSlotPerAddress`, `LimitPerIp`, `SlotKeepsItsClient` |
| `JobPoolProofs` | `PoolInvariant`, `NoJobIsLost`, `ServiceImplemented` | `NoJobLost`, `ImplementsService` |
| `GameProofs` | `DbInvariant`, `QueriesAreSafe`, `CopiedRanksKept`, `ChatStaysInOrder` | `QueriesSafe`, `RanksKept`, `ChatInOrder` |
| `RingProofs` | `AioInvariant`, `BytesInOrder`, `RingSound`, `RingRefines`, `RingRefuses`, `RingWalks` | `WrittenInOrder`, `ImplementsQueue`, `RefusesOnlyWhenTight`, `WalksInOrder` |
| `SnapshotsProofs` | `SnapshotInvariant`, `TicksIncrease`, `ShownAreLive`, `ClientSeesTruth` | `StoredTicksIncrease`, `ShownSnapshotsLive`, `SnapshotsTrue` |
| `ServerProofs` | `RegisterInvariant`, `MasterAndServerAgree`, `InfoNeverOlder`, `TeamsAreConsistent`, `PracticeIsNotWashed`, `RunsStayFair` | `MasterAgrees`, `InfoOnlyNewer`, `TeamsConsistent`, `RunsAreFair` |

**Connections.** The head of `NetChannelProofs` is about `SeqArith`. It also has the arithmetic of `Wire`
(the number of the i-th message): it is injective on less than a turn, and both
comparisons decide what they should for messages less than a turn apart.
`DeliveredInOrder` alone is not inductive. `IInv` adds `Numbering` (every chunk anywhere
carries the number of its message, every packet acknowledges what its sender had been
given, and is fresh), `Window` (the resend buffer holds exactly the messages after the
last acknowledged one, and what the peer was given lies in it) and `UnpackFresh` (no chunk
waiting in an unpacker is a turn behind). With it a chunk with the next number can only
be the next message, and an acknowledgement that passes the window check of `Feed`
can only free messages that were delivered. What follows in `NetChannelProofs` shows for each
operator of `NetConnection` that it keeps a connection `Good`, and whether it leaves
its window alone; then there is one lemma per action. `LinkImplemented` is the refinement of
`ReliableLink`: under the invariant the initial states of a pair map to initial ones, and each step maps to a
send, a delivery, an acknowledgement or a stutter, in each direction until its sender outruns the resend buffer.

**Handshake.** The invariant says that every connection idles (no chunks, numbers at zero), that a
connection of the server is `OFFLINE`, `ONLINE` or `ERROR`, that one with `m_TimeoutSituation` is in
`ERROR` and kept, and who sends packets to whom. Without the part on timeouts the limit is
not inductive: `NumClientsWithAddr` would count other slots than the ones that come back. What
happens to a slot is one of two things: its connection goes on or ends (`Continues`), or
`TryAcceptClient` initialises it (`Opens`). One lemma shows for each handler which it does, and
two show that both keep the invariant (`ContinueKeepsInv`, `OpensKeepsInv`); for the limit, the
latter compares the slots `NumClientsWithAddr` counted before with those that count after.

**Job pool.** The list of jobs is made of pointers, so the invariant says which: there is a sequence without
repetition whose members the `next` pointers string together from `first` to `last`. `Add` makes it one longer,
a worker that takes a job goes on with its tail, and `Shutdown`, which steals the list, with the empty one.
Every job is then in exactly one place: in that sequence, with a worker, among the running ones, or done. The
same sequence is the queue of `JobService`, and `ServiceImplemented` maps each step to one of the service.

**Database pool.** Three parties go round the ring: who adds, the backup thread, the worker. The invariant says that they
pass in this order: each semaphore counts how far its thread is behind the party before it (`Counted`), and the slots from
the worker to the end of the queue hold the queries that belong there, the others nothing (`InRing`). A query is then executed
once and in the order of the game. `NotYetWritten` adds where a rank may be while its query is worked on: it
never reaches both the write server and the local table. `CopiedRanksKept` says of every step that a rank which was
copied stays in one of the tables.

**Chat.** Messages are numbered as they arrive, so the lines of a buffer are in order if no line has a greater number than the
next, the last one no greater than the messages there were, and the first none less than what was sent (`BuffersSound`). A full
buffer drops its oldest line and a full stack its oldest ping; neither changes an order. That a note still queued has its share of
the counter cannot be said of the counter alone, because any line that is sent while away lowers it. `IgnoreCoversQueue` also counts
the times this happened with no note sent, and the invariant adds that the counter and those times together are at most the
messages that arrived (`ModeSound`), so the counter stays bounded. From it follows what can be said of the away mode: when a note
in front of a buffer meets a counter of 0, the queued notes are covered by those times alone, so there was one
(`BackByMistakeOnly`).
For `ChatQueue` as many lines are sent or waiting as were accepted (`QueueInv`), so `m_PendingChatCounter` names an entry of the
history. Which lines they are is `SentUntilOvertaken`: those sent are the history without its last
`m_PendingChatCounter` entries, as long as no line was sent at once while others waited. Accepting a line that waits adds an
entry and counts one more, sending one takes the first of those counted, and a line sent at once is the last entry only if
none waits.

**Teams.** A handler may kill tees in a loop, each death may move a tee to another team, and leaving a team may reset it, so between
two steps of a handler the teams are in states no action ends in. `TeamsSound` says what holds of all of them: types, that a team nobody
is in, and no other, is `EMPTY` and keeps nothing, and that a `STARTED` team is on a run or in team 0 mode. `Keeps` says what every part of a handler does to
the rest: it leaves the pending saves alone, starts no run (`NoNewRun`: a run is the one its team had, or is over), and players who are out
stay out. It is transitive, so each operator has one lemma, and a loop one more by induction on its turns (`TurnInduction`). What
remains of an action is whether it hands a run on: starting makes one with a fresh number, a save takes it out of the world, the worker
puts it in the table, or gives it back, a load takes it out. `TeamsInv` adds that the numbers of the runs raced, with a worker and in
the table are different ones (`Apart`), and that teams which are not on a run have none to duplicate (`NoIdleRun`). None of it depends
on which features are used: a load with an invalid tee and a switch to team 0 mode while it is under way are in it.

That runs are fair (`RunsStayFair`) is about who may still finish. `FairInv` says: who has finished is alive, in a team that is on its way, or
waits for its save (`FinishersPlay`, `IdleFresh`), and so a new run starts with nobody's finish; a tee that races in a team is in one on its way
(`RacersMove`); when a team has practiced on its run and does not any more, none of its members races or has finished
(`PracticeHeld`), because `/unpractice` kills them, joining needs a tee that does not race, and a spawn in a locked team copies the race of a
member, of which there is none left; and the same holds of saves (`SavedFair`). Within a handler it holds but for those who have just
died (the parameter of `FinishersPlay`) and the team that was just opened (those of `IdleFresh` and `RacersMove`). `Lowers` is for these proofs what
`Keeps` is for `TeamsInv`: nobody finishes or starts, and no team does. It is kept by moves, deaths and the loops of them; a finish, a spawn, a start, a swap and a load
have lemmas of their own. The theorem assumes what the observations above show to be needed: saving is used without team 0
mode (`OneOfModes`, for `NoRunInTeam0Mode`), and a loaded team can be where it was saved (`LoadsValid`). With the
second alone the other two conjuncts hold, `PracticeIsNotWashed`.

**Asynchronous writing.** A ring is looked at through two numbers: the bytes that are in it (`BufferLen`) and the bytes that were
taken out of it (`Taken`). Its content is numbered on from the second (`IsRing`), and the file and what the thread has in its hands are
what comes before. A write keeps what was taken, in each of its three cases: the bytes fit, they wrap around, or the ring grows
and is laid out anew from its first cell. That the ring grows far enough is the recursion of `next_buffer_size`, and a line of several
writes is one too: both are functions on the natural numbers, which `StepsDefined` defines and `NumberInduction` reasons about. The
thread goes only when it was told to and has found the ring empty (`GoesLast`), so after `aio_wait` nothing is missing.

**Ring buffer.** None of its three properties is inductive. `Sound`, which is, says: the blocks tile the memory (`Shape`); the
blocks in use are those from `m_pConsume` on, around the end of the memory, up to `m_pProduce`, and the only free block
among them is the end of the memory, if the item at its beginning did not fit there; no two blocks in a row are free
(all this is `Solid`); and the sizes of the items add up to the way from `m_pConsume` to `m_pProduce` (`ArcLength`). `PopFirst` gives this up
while it moves on: the block that `m_pConsume` has come to and the one before it may both be free until the next `MergeBack`, so its loop has a weaker
invariant, `Loose`. From `Solid` it follows that a free `m_pProduce` has the free space on one side of it or at both ends of the memory, and
so what `FindBlock` returning nothing says about how much there is (`FullTight`): that is `RingRefuses`. The items in the
order of their age are the queue (`Listing`, `Contents`); `PopFirst` takes its head off, `Allocate` appends, and the recycling loop
takes off heads for as long as the space is tight (`Roomed`): that is the refinement, `RingRefines`. For the walks, the block after a block
in the order of the addresses, and around the end, is the next one in the order of the ages (`Follows`), and `Next` and `Prev` step over
at most one free block. The `while` loops are recursive functions of the number of turns, `NumberInduction` reasons about them.

**Snapshots.** A storage is a sequence with increasing ticks: `PurgeUntil` takes a prefix off and what is added is
newer than what is there. Packets under way are about snapshots that were built. What a client decodes is therefore what
the server built for that tick, and what it shows is in its storage; both until the map changes
(`OnlyThisMap` above says why not longer).

**Registration.** Between a request that the master accepts and the answer that is read, the server does not know yet
what the master has. `OkStored` speaks of that time: a request with a successful answer on its way carries info that the master
has (`Has`: this or newer, unless it has removed the server). What a request does to the master is then
one of two things, a registration or a removal (`Registers`, `Removes`), both of which keep the two tables in agreement and the
serial of a server's info from going back: `InfoNeverOlder`, whichever requests were delayed, lost, or left by an earlier
process.

`NumberLemmas` has what these share on natural numbers: remainders, least elements, induction over a set of numbers, and functions
defined by recursion, for any number of turns (`StepsDefined`) or a bounded one (`TurnsDefined`).

Only model-checked: liveness, whose fairness and `ENABLED` are out of the prover's reach; what recursion over data
returns, such as the walk along a list of bans (`Bans`, `BanList`); and `StreamContinues` of `NetResume`, which needs the `Numbering` and `Window` of `NetChannelProofs`
again for a connection that changes its slot while packets are under way: that proof is not written.

## Plan

What would come next, in this order:

1. Proofs: `StreamContinues` of `NetResume`.
2. Clients without a token (`OnPreConnMsg`), and the slot reuse of `CNetServer` with chunks under way, which
   `NetResume` shows for two slots only.
3. The states of `CServer`'s clients with the window of the map download, and `CClient`'s dummy.
4. Votes (`game/server/gamecontext.cpp`) with players who leave, and mutes.

## Not modelled

Encodings (Huffman, variable-length integers, packers), maps, demos and other file
formats, rendering, audio, input, menus, the editor, game physics and prediction,
HTTP, the server browser, and vendored libraries: they are I/O, numeric simulation
or data formats with exhaustive unit tests, and by far the most of the repository's lines. Votes, mutes, the war
list, passwords and city accounts are handled in one step of one thread each and keep little state. Of the network
layer: connectionless packets, STUN and the token cache of the server browser, traffic limits and statistics.
Of `Teams`: forced solo and mandatory teams, team super, invitations, times and ranks of single players. Of the database
pool: which of several read servers is tried first, and every statement but `SaveScore`'s.
