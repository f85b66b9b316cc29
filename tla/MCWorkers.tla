----------------------------- MODULE MCWorkers -----------------------------
(***************************************************************************)
(* The threads that work behind the server's and the client's main thread: *)
(* JobPool, which this module extends, DbPool and AsyncIo.  They share no  *)
(* state, so that a step of one never matters to another: a behaviour of   *)
(* this module is one of one of them, chosen in the initial state, while   *)
(* the others stay as they begin.  Of DbPool and AsyncIo only what they    *)
(* must do in the end is checked here; what they may never do is checked   *)
(* by MCGame and MCData.                                                   *)
(***************************************************************************)
EXTENDS JobPool

CONSTANTS
  RingSlots, Queries,     \* DbPool: Slots, MaxQueries
  Bytes                   \* AsyncIo: MaxBytes

VARIABLES
  part,         \* "jobs", "db" or "io"
  queries, aQueries, numBackup, numWorker, dbShutdown, dbMain, bjob, bpc, bdb,
  wjob, wpc, query, done, failMode, dbs, copies, moved, stored, completed,
  buffer, size, readPos, writePos, sphore, finish, refcount, thread, local,
  file, signals, owner, accepted, promised

dbVars ==
  <<queries, aQueries, numBackup, numWorker, dbShutdown, dbMain, bjob, bpc, bdb,
    wjob, wpc, query, done, failMode, dbs, copies, moved, stored, completed>>
ioVars ==
  <<buffer, size, readPos, writePos, sphore, finish, refcount, thread, local,
    file, signals, owner, accepted, promised>>
all == <<part, vars, dbVars, ioVars>>

Db == INSTANCE DbPool WITH
  Slots <- RingSlots, Kinds <- {"read", "write", "addBackup", "addWrite"},
  MaxQueries <- Queries, MaxPending <- 2, shutdown <- dbShutdown, main <- dbMain

Io == INSTANCE AsyncIo WITH
  Writers <- Workers, Lines <- {<<1>>, <<2, 1>>}, BufSize <- 2, LocalSize <- 3,
  MaxBytes <- Bytes

MCInit == part \in {"jobs", "db", "io"} /\ Init /\ Db!Init /\ Io!Init

JobsNext == part = "jobs" /\ Next /\ UNCHANGED <<part, dbVars, ioVars>>
DbNext   == part = "db" /\ Db!Next /\ UNCHANGED <<part, vars, ioVars>>
IoNext   == part = "io" /\ Io!Next /\ UNCHANGED <<part, vars, dbVars>>

MCNext == JobsNext \/ DbNext \/ IoNext

\* The fairness of the three modules, for the one that runs.
MCFairness ==
  /\ \A w \in Workers : WF_vars(part = "jobs" /\ RunLoop(w))
  /\ WF_vars(part = "jobs" /\ (Signal \/ ShutdownSteps))
  /\ WF_dbVars(part = "db" /\ Db!BackupStep)
  /\ WF_dbVars(part = "db" /\ Db!Worker)
  /\ WF_dbVars(part = "db" /\ (Db!SignalShutdown \/ Db!ShutdownReturns))
  /\ WF_ioVars(part = "io" /\ Io!AioThread)
  /\ WF_ioVars(part = "io" /\ Io!Join)
  /\ \A w \in Workers : WF_ioVars(part = "io" /\ Io!Signal(w))

MCSpec == MCInit /\ [][MCNext]_all /\ MCFairness

-----------------------------------------------------------------------------
\* No thread waits for ever: a shutdown of either pool returns, and so does
\* aio_wait; every query that is queued completes, and every byte accepted before
\* the file is closed is written.
AllWorkEnds ==
  /\ ShutdownEnds
  /\ Db!ShutdownEnds /\ Db!EveryQueryCompletes
  /\ Io!WaitReturns /\ Io!EveryByteWritten
=============================================================================
