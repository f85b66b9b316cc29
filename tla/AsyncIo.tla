------------------------------ MODULE AsyncIo ------------------------------
(***************************************************************************)
(* ASYNCIO (base/aio.cpp), through which the log and the teehistorian      *)
(* write: callers put bytes into a ring buffer that grows, a thread writes *)
(* them to the file.  The lock is held for a step only, a log line being   *)
(* several writes of one step; the semaphore is signalled after it is      *)
(* released.  Bytes are numbered in the order in which they are accepted.  *)
(***************************************************************************)
EXTENDS Integers, Sequences

CONSTANTS
  Writers,      \* threads that write
  Lines,        \* what a line may be: sequences of sizes
  BufSize,      \* ASYNC_BUFSIZE
  LocalSize,    \* ASYNC_LOCAL_BUFSIZE
  MaxBytes      \* bound: how many bytes are written

ASSUME AioAssumption ==
  /\ {BufSize, LocalSize} \subseteq Nat \ {0}
  /\ MaxBytes \in Nat
  /\ Lines \subseteq Seq(Nat)

VARIABLES
  buffer, size, readPos, writePos,      \* the ring; a byte that is read is 0
  sphore,
  finish,       \* "running", "close" or "exit"
  refcount,
  thread,       \* where the thread is: "top", "wait", "io" or "gone"
  local,        \* local_buffer
  file,
  signals,      \* the writers that have still to signal
  owner,        \* where the owner is: "open", "closed", "join", "joined" or "freed"
  accepted,     \* history: how many bytes were accepted
  promised      \* history: how many of them before the thread was told to go

ring == <<buffer, size, readPos, writePos>>
vars == <<ring, sphore, finish, refcount, thread, local, file, signals, owner,
          accepted, promised>>

Init ==
  /\ buffer = [i \in 0 .. BufSize - 1 |-> 0] /\ size = BufSize
  /\ readPos = 0 /\ writePos = 0
  /\ sphore = 0 /\ finish = "running" /\ refcount = 2
  /\ thread = "top" /\ local = << >> /\ file = << >>
  /\ signals = {} /\ owner = "open"
  /\ accepted = 0 /\ promised = 0

-----------------------------------------------------------------------------
(* The ring, as a record that the writes of a line go through in turn. *)

BufferLen(r) == (r.writePos - r.readPos) % r.size

\* The bytes of the two parts of buffer_ptrs, in order.
Content(r) == [i \in 1 .. BufferLen(r) |-> r.buffer[(r.readPos + (i - 1)) % r.size]]

Doubled(cur) ==
  LET Double[k \in Nat] == IF k = 0 THEN cur ELSE 2 * Double[k - 1]
  IN  Double

\* The first doubling that is large enough.
NextBufferSize(cur, need) ==
  Doubled(cur)[CHOOSE k \in 0 .. need : /\ Doubled(cur)[k] >= need
                                       /\ \A i \in 0 .. k - 1 : Doubled(cur)[i] < need]

Grown(r, n) ==
  LET used == BufferLen(r)
      bytes == Content(r) \o [i \in 1 .. n |-> r.accepted + i]
      s == NextBufferSize(r.size, used + n + 1)
  IN  [buffer |-> [i \in 0 .. s - 1 |-> IF i < used + n THEN bytes[i + 1] ELSE 0],
       size |-> s, readPos |-> 0, writePos |-> used + n, accepted |-> r.accepted + n]

Put(r, n) ==
  [buffer |-> [i \in DOMAIN r.buffer |->
                 LET k == (i - r.writePos) % r.size
                 IN  IF k < n THEN r.accepted + k + 1 ELSE r.buffer[i]],
   size |-> r.size, readPos |-> r.readPos, writePos |-> (r.writePos + n) % r.size,
   accepted |-> r.accepted + n]

\* Mutant of WriteUnlocked: lets the ring become full.
WriteUnlockedFull(r, n) ==
  IF n <= r.size - BufferLen(r) THEN Put(r, n) ELSE Grown(r, n)

\* aio_write_unlocked: a full ring could not be told from an empty one.
WriteUnlocked(r, n) ==
  IF n < r.size - BufferLen(r) THEN Put(r, n) ELSE Grown(r, n)

\* A line, from aio_lock to aio_unlock.
WriteLine(r, line) ==
  LET After[i \in 0 .. Len(line)] ==
        IF i = 0 THEN r ELSE WriteUnlocked(After[i - 1], line[i])
  IN  After[Len(line)]

-----------------------------------------------------------------------------
(* Callers *)

Ring == [buffer |-> buffer, size |-> size, readPos |-> readPos,
         writePos |-> writePos, accepted |-> accepted]

Write(w, line) ==
  /\ owner # "freed" /\ w \notin signals
  /\ LET r == WriteLine(Ring, line)
     IN  /\ r.accepted <= MaxBytes
         /\ buffer' = r.buffer /\ size' = r.size
         /\ readPos' = r.readPos /\ writePos' = r.writePos
         /\ accepted' = r.accepted
  /\ signals' = signals \cup {w}
  /\ UNCHANGED <<sphore, finish, refcount, thread, local, file, owner, promised>>

Signal(w) ==
  /\ w \in signals
  /\ signals' = signals \ {w}
  /\ sphore' = sphore + 1
  /\ UNCHANGED <<ring, finish, refcount, thread, local, file, owner, accepted, promised>>

\* The lock and the signal after it are one step here and in AioWait: the owner does nothing
\* in between, a thread that is awake sees finish either way, and one that waits goes on with
\* the signal.
AioClose ==
  /\ owner = "open"
  /\ finish' = "close" /\ owner' = "closed"
  /\ sphore' = sphore + 1
  /\ promised' = accepted
  /\ UNCHANGED <<ring, refcount, thread, local, file, signals, accepted>>

\* Mutant of AioWait: does not wake up the thread.
AioWaitSilent ==
  /\ owner \in {"open", "closed"}
  /\ owner' = "join"
  /\ finish' = IF finish = "running" THEN "exit" ELSE finish
  /\ promised' = IF finish = "running" THEN accepted ELSE promised
  /\ UNCHANGED <<ring, sphore, refcount, thread, local, file, signals, accepted>>

\* aio_wait: the semaphore is signalled and the thread is joined.
AioWait ==
  /\ owner \in {"open", "closed"}
  /\ owner' = "join"
  /\ finish' = IF finish = "running" THEN "exit" ELSE finish
  /\ sphore' = sphore + 1
  /\ promised' = IF finish = "running" THEN accepted ELSE promised
  /\ UNCHANGED <<ring, refcount, thread, local, file, signals, accepted>>

Join ==
  /\ owner = "join" /\ thread = "gone"
  /\ owner' = "joined"
  /\ UNCHANGED <<ring, sphore, finish, refcount, thread, local, file, signals,
                 accepted, promised>>

\* The owner frees what no other thread uses any more.
AioFree ==
  /\ owner = "joined" /\ signals = {}
  /\ owner' = "freed" /\ refcount' = refcount - 1
  /\ UNCHANGED <<ring, sphore, finish, thread, local, file, signals, accepted, promised>>

-----------------------------------------------------------------------------
(* aio_thread *)

\* Mutant of Top: leaves as soon as it is told to.
TopLeaves ==
  /\ IF finish # "running"
     THEN /\ thread' = "gone" /\ refcount' = refcount - 1
          /\ UNCHANGED <<ring, local>>
     ELSE IF readPos = writePos
     THEN thread' = "wait" /\ UNCHANGED <<ring, local, refcount>>
     ELSE LET bytes == Content(Ring)
              n == IF Len(bytes) < LocalSize THEN Len(bytes) ELSE LocalSize
          IN  /\ local' = SubSeq(bytes, 1, n)
              /\ readPos' = (readPos + n) % size
              /\ buffer' = [i \in DOMAIN buffer |->
                              IF (i - readPos) % size < n THEN 0 ELSE buffer[i]]
              /\ thread' = "io"
              /\ UNCHANGED <<size, writePos, refcount>>

\* With the lock held: leaves, waits, or takes what local_buffer can hold.
Top ==
  /\ IF readPos = writePos
     THEN IF finish # "running"
          THEN /\ thread' = "gone" /\ refcount' = refcount - 1
               /\ UNCHANGED <<ring, local>>
          ELSE thread' = "wait" /\ UNCHANGED <<ring, local, refcount>>
     ELSE LET bytes == Content(Ring)
              n == IF Len(bytes) < LocalSize THEN Len(bytes) ELSE LocalSize
          IN  /\ local' = SubSeq(bytes, 1, n)
              /\ readPos' = (readPos + n) % size
              /\ buffer' = [i \in DOMAIN buffer |->
                              IF (i - readPos) % size < n THEN 0 ELSE buffer[i]]
              /\ thread' = "io"
              /\ UNCHANGED <<size, writePos, refcount>>

Begin ==
  /\ thread = "top" /\ Top
  /\ UNCHANGED <<sphore, finish, file, signals, owner, accepted, promised>>

Woken ==
  /\ thread = "wait" /\ sphore > 0
  /\ sphore' = sphore - 1
  /\ thread' = "top"
  /\ UNCHANGED <<ring, finish, refcount, local, file, signals, owner, accepted, promised>>

\* io_write without the lock, then the top of the loop.
WriteFile ==
  /\ thread = "io"
  /\ file' = file \o local
  /\ local' = << >>
  /\ thread' = "top"
  /\ UNCHANGED <<ring, sphore, finish, refcount, signals, owner, accepted, promised>>

AioThread == Begin \/ Woken \/ WriteFile

Next ==
  \/ \E w \in Writers : Signal(w) \/ \E line \in Lines : Write(w, line)
  \/ AioClose \/ AioWait \/ Join \/ AioFree
  \/ AioThread

\* Threads run; nothing makes anybody write or the owner close.
Fairness ==
  /\ WF_vars(AioThread) /\ WF_vars(Join)
  /\ \A w \in Writers : WF_vars(Signal(w))

Spec == Init /\ [][Next]_vars /\ Fairness

-----------------------------------------------------------------------------
\* Every variable has its type.
TypeOK ==
  /\ size \in Nat \ {0} /\ buffer \in [0 .. size - 1 -> 0 .. MaxBytes]
  /\ {readPos, writePos} \subseteq 0 .. size - 1
  /\ sphore \in Nat /\ refcount \in 0 .. 2
  /\ finish \in {"running", "close", "exit"}
  /\ thread \in {"top", "wait", "io", "gone"}
  /\ owner \in {"open", "closed", "join", "joined", "freed"}
  /\ signals \subseteq Writers
  /\ local \in Seq(1 .. MaxBytes) /\ file \in Seq(1 .. MaxBytes)
  /\ accepted \in 0 .. MaxBytes /\ promised \in 0 .. accepted

(***************************************************************************)
(* No byte is lost, repeated or moved: the file, what the thread has in    *)
(* its hands and what is in the ring, which may have wrapped around and    *)
(* grown meanwhile, are the bytes that were accepted, in that order.       *)
(***************************************************************************)
InOrder == file \o local \o Content(Ring) = [i \in 1 .. accepted |-> i]

(***************************************************************************)
(* aio_wait: "Wait for the asynchronous operations to complete." When it   *)
(* has returned everything that was accepted before it, or before          *)
(* aio_close, is in the file, and the memory is freed when both the owner  *)
(* and the thread have let go of it.                                       *)
(***************************************************************************)
CompleteAfterWait ==
  /\ owner \in {"joined", "freed"} => Len(file) >= promised
  /\ refcount = (IF thread = "gone" THEN 0 ELSE 1) + (IF owner = "freed" THEN 0 ELSE 1)

\* What aio promises about the bytes it accepts.
WrittenInOrder == TypeOK /\ InOrder /\ CompleteAfterWait

-----------------------------------------------------------------------------
(* The inductive invariant.                                                 *)

Numbered(s, n) == s = [i \in 1 .. Len(s) |-> n + i]

\* The bytes that are not in the ring any more.
Taken(r) == r.accepted - BufferLen(r)

\* What is in the ring is numbered on from there; no cell has a later number.
IsRing(r) ==
  /\ r.size \in Nat \ {0} /\ r.accepted \in Nat
  /\ r.readPos \in 0 .. r.size - 1 /\ r.writePos \in 0 .. r.size - 1
  /\ r.buffer \in [0 .. r.size - 1 -> 0 .. r.accepted]
  /\ Taken(r) >= 0 /\ Numbered(Content(r), Taken(r))

\* The bytes on their way: the file, the thread's hands and the ring.
OnTheirWay ==
  /\ IsRing(Ring)
  /\ Numbered(file, 0) /\ Numbered(local, Len(file))
  /\ Taken(Ring) = Len(file) + Len(local)
  /\ thread # "io" => local = << >>

\* The thread goes when it has been told to and everything is in the file.
GoesLast ==
  /\ owner = "open" => finish = "running"
  /\ finish = "running" => thread # "gone"
  /\ thread = "gone" => Len(file) >= promised
  /\ owner \in {"joined", "freed"} => thread = "gone"

IInv == TypeOK /\ OnTheirWay /\ GoesLast /\ CompleteAfterWait

-----------------------------------------------------------------------------
\* A signal that comes between the thread's look at the ring and its wait is
\* not lost: every byte is written in the end, until the thread is told to go.
EveryByteWritten ==
  \A n \in 1 .. MaxBytes :
    []<>((IF finish = "running" THEN accepted ELSE promised) >= n => Len(file) >= n)

\* The thread that is told to go goes.
WaitReturns == []<>(owner # "join")
=============================================================================
