------------------------------- MODULE DbPool -------------------------------
(***************************************************************************)
(* CDbConnectionPool (engine/server/databases/connection_pool.cpp): the    *)
(* main thread puts queries into a ring; the backup thread looks at each   *)
(* of them first and copies writes to a local database; the worker thread  *)
(* takes them out and executes them.  A query is identified by its number, *)
(* the n-th call of Execute, ExecuteWrite, Register... being number n - 1. *)
(*                                                                         *)
(* The local database has two tables: "copies" (record_race_backup) and    *)
(* "moved" (record_race); "stored" is the table of the write server.  What *)
(* a write does to them is CScoreWorker::SaveScore.  A statement that      *)
(* fails changes nothing.                                                  *)
(***************************************************************************)
EXTENDS Integers, SequencesExt

CONSTANTS
  Slots,        \* std::size(m_aQueries)
  Kinds,        \* the kinds of query the main thread may queue
  MaxQueries,   \* bound: how many it queues
  MaxPending,   \* bound: how many are queued and not completed
  None

\* The pool does not look whether a slot is free: it is right as long as it is
\* never full.
ASSUME DbAssumption ==
  /\ {Slots, MaxQueries, MaxPending} \subseteq Nat
  /\ MaxPending < Slots
  /\ None \notin 0 .. MaxQueries

VARIABLES
  queries,      \* history: the kind of every query, in order
  aQueries,     \* the ring: a query's number or None
  numBackup, numWorker,      \* semaphores
  shutdown,     \* CSharedData::m_Shutdown
  main,         \* where the main thread is
  bjob, bpc, bdb,            \* backup thread: JobNum, running?, m_pWriteBackup?
  wjob, wpc,                 \* worker thread: JobNum, where it is
  query,        \* pThreadData
  done,         \* Success
  failMode,     \* FailMode
  dbs,          \* the worker's connections
  copies, moved, stored,     \* tables
  completed     \* [n, success] of the finished queries, in order

mainVars == <<queries, main>>
backupVars == <<bjob, bpc, bdb>>
workerVars == <<wjob, wpc, query, done, failMode, dbs, completed>>
tables == <<copies, moved, stored>>
vars == <<mainVars, aQueries, numBackup, numWorker, shutdown, backupVars,
          workerVars, tables>>

Init ==
  /\ queries = << >> /\ aQueries = [s \in 0 .. Slots - 1 |-> None]
  /\ numBackup = 0 /\ numWorker = 0
  /\ shutdown = FALSE /\ main = "open"
  /\ bjob = 0 /\ bpc = "wait" /\ bdb = FALSE
  /\ wjob = 0 /\ wpc = "check" /\ query = None /\ done = FALSE
  /\ failMode = FALSE /\ dbs = {}
  /\ copies = {} /\ moved = {} /\ stored = {}
  /\ completed = << >>

Kind(n) == queries[n + 1]

Pending == Len(queries) - Len(completed)

-----------------------------------------------------------------------------
(* Main thread *)

\* Execute, ExecuteWrite, RegisterSqliteDatabase, RegisterMysqlDatabase, Print.
Insert(kind) ==
  /\ main = "open"
  /\ Len(queries) < MaxQueries /\ Pending < MaxPending
  /\ queries' = Append(queries, kind)
  /\ aQueries' = [aQueries EXCEPT ![Len(queries) % Slots] = Len(queries)]
  /\ numBackup' = numBackup + 1
  /\ UNCHANGED <<numWorker, shutdown, main, backupVars, workerVars, tables>>

OnShutdown ==
  /\ main = "open"
  /\ shutdown' = TRUE
  /\ main' = "signal"
  /\ UNCHANGED <<queries, aQueries, numBackup, numWorker, backupVars, workerVars,
                 tables>>

\* Mutant of SignalShutdown: nobody is woken up.
SignalShutdownSilently ==
  /\ main = "signal"
  /\ main' = "closing"
  /\ UNCHANGED <<queries, aQueries, numBackup, numWorker, shutdown, backupVars,
                 workerVars, tables>>

SignalShutdown ==
  /\ main = "signal"
  /\ numBackup' = numBackup + 1
  /\ main' = "closing"
  /\ UNCHANGED <<queries, aQueries, numWorker, shutdown, backupVars, workerVars,
                 tables>>

\* Mutant of ShutdownReturns: does not wait.
ShutdownReturnsAtOnce ==
  /\ main = "closing"
  /\ main' = "down"
  /\ UNCHANGED <<queries, aQueries, numBackup, numWorker, shutdown, backupVars,
                 workerVars, tables>>

ShutdownReturns ==
  /\ main = "closing" /\ ~shutdown
  /\ main' = "down"
  /\ UNCHANGED <<queries, aQueries, numBackup, numWorker, shutdown, backupVars,
                 workerVars, tables>>

-----------------------------------------------------------------------------
(* CBackup::ProcessQueries *)

\* Write::BACKUP_FIRST
CopyFirst(n) == copies' \in {copies, copies \cup {n}}

\* Mutant of BackupStep: keeps read queries from the worker.
BackupStepSkipsReads ==
  /\ bpc = "wait" /\ numBackup > 0
  /\ numBackup' = numBackup - 1
  /\ bjob' = bjob + 1
  /\ LET n == aQueries[bjob % Slots]
         Is(kind) == n # None /\ Kind(n) = kind
     IN  /\ bpc' = IF n = None THEN "exit" ELSE "wait"
         /\ numWorker' = IF Is("read") THEN numWorker ELSE numWorker + 1
         /\ bdb' = (bdb \/ Is("addBackup"))
         /\ IF Is("write") /\ bdb THEN CopyFirst(n) ELSE UNCHANGED copies
  /\ UNCHANGED <<mainVars, aQueries, shutdown, workerVars, moved, stored>>

\* Mutant of BackupStep: looks at a query before there is one.
BackupStepEarly ==
  /\ bpc = "wait" /\ bjob <= MaxQueries
  /\ numBackup' = numBackup - 1
  /\ numWorker' = numWorker + 1
  /\ bjob' = bjob + 1
  /\ bpc' = IF aQueries[bjob % Slots] = None THEN "exit" ELSE "wait"
  /\ UNCHANGED <<mainVars, aQueries, shutdown, bdb, workerVars, tables>>

BackupStep ==
  /\ bpc = "wait" /\ numBackup > 0
  /\ numBackup' = numBackup - 1
  /\ numWorker' = numWorker + 1
  /\ bjob' = bjob + 1
  /\ LET n == aQueries[bjob % Slots]
         Is(kind) == n # None /\ Kind(n) = kind
     IN  /\ bpc' = IF n = None THEN "exit" ELSE "wait"
         /\ bdb' = (bdb \/ Is("addBackup"))
         /\ IF Is("write") /\ bdb THEN CopyFirst(n) ELSE UNCHANGED copies
  /\ UNCHANGED <<mainVars, aQueries, shutdown, workerVars, moved, stored>>

-----------------------------------------------------------------------------
(* CWorker::ProcessQueries *)

\* Mutant of CheckFailMode: fail mode is never left.
CheckFailModeNever ==
  /\ wpc = "check"
  /\ wpc' = "wait"
  /\ UNCHANGED <<mainVars, aQueries, numBackup, numWorker, shutdown, backupVars,
                 wjob, query, done, failMode, dbs, completed, tables>>

CheckFailMode ==
  /\ wpc = "check"
  /\ failMode' = (failMode /\ numWorker # 0)
  /\ wpc' = "wait"
  /\ UNCHANGED <<mainVars, aQueries, numBackup, numWorker, shutdown, backupVars,
                 wjob, query, done, dbs, completed, tables>>

\* Mutant of Take: leaves the query in its slot.
TakeCopy ==
  /\ wpc = "wait" /\ numWorker > 0
  /\ numWorker' = numWorker - 1
  /\ query' = aQueries[wjob % Slots]
  /\ wjob' = wjob + 1
  /\ done' = FALSE
  /\ IF query' = None THEN wpc' = "exit" /\ shutdown' = FALSE
                      ELSE wpc' = "exec" /\ UNCHANGED shutdown
  /\ UNCHANGED <<mainVars, aQueries, numBackup, backupVars, failMode, dbs,
                 completed, tables>>

Take ==
  /\ wpc = "wait" /\ numWorker > 0
  /\ numWorker' = numWorker - 1
  /\ query' = aQueries[wjob % Slots]
  /\ aQueries' = [aQueries EXCEPT ![wjob % Slots] = None]
  /\ wjob' = wjob + 1
  /\ done' = FALSE
  /\ IF query' = None THEN wpc' = "exit" /\ shutdown' = FALSE
                      ELSE wpc' = "exec" /\ UNCHANGED shutdown
  /\ UNCHANGED <<mainVars, numBackup, backupVars, failMode, dbs, completed,
                 tables>>

AtQuery(kind) == wpc = "exec" /\ Kind(query) = kind

ExecRead ==
  /\ AtQuery("read")
  /\ \E success \in BOOLEAN :
       /\ success => "addRead" \in dbs /\ ~shutdown /\ ~failMode
       /\ done' = success
       /\ failMode' = (failMode \/ ~success)
  /\ wpc' = "complete"
  /\ UNCHANGED <<mainVars, aQueries, numBackup, numWorker, shutdown, backupVars,
                 wjob, query, dbs, completed, tables>>

\* The write goes straight to the backup.
Skips == (shutdown \/ failMode) /\ "addBackup" \in dbs

\* Write::NORMAL
ExecWrite ==
  /\ AtQuery("write")
  /\ \E success \in BOOLEAN :
       /\ success => ~Skips /\ "addWrite" \in dbs
       /\ stored' = IF success THEN stored \cup {query} ELSE stored
       /\ done' = success
       /\ failMode' = (failMode \/ ~success)
  /\ wpc' = IF "addBackup" \in dbs THEN "settle" ELSE "complete"
  /\ UNCHANGED <<mainVars, aQueries, numBackup, numWorker, shutdown, backupVars,
                 wjob, query, dbs, completed, copies, moved>>

\* Mutant of SettleSucceeded: moves the copy.
SettleSucceededMoves ==
  /\ wpc = "settle" /\ done
  /\ copies' = copies \ {query}
  /\ moved' = moved \cup (copies \cap {query})
  /\ wpc' = "complete"
  /\ UNCHANGED <<mainVars, aQueries, numBackup, numWorker, shutdown, backupVars,
                 wjob, query, done, failMode, dbs, completed, stored>>

\* Write::NORMAL_SUCCEEDED: delete the copy.
SettleSucceeded ==
  /\ wpc = "settle" /\ done
  /\ copies' \in {copies, copies \ {query}}
  /\ wpc' = "complete"
  /\ UNCHANGED <<mainVars, aQueries, numBackup, numWorker, shutdown, backupVars,
                 wjob, query, done, failMode, dbs, completed, moved, stored>>

\* Mutant of SettleFailed: deletes the copy even if it could not be moved.
SettleFailedDeletes ==
  /\ wpc = "settle" /\ ~done
  /\ moved' \in {moved, moved \cup (copies \cap {query})}
  /\ copies' = copies \ {query}
  /\ done' \in BOOLEAN
  /\ wpc' = "complete"
  /\ UNCHANGED <<mainVars, aQueries, numBackup, numWorker, shutdown, backupVars,
                 wjob, query, failMode, dbs, completed, stored>>

\* Write::NORMAL_FAILED: insert what is among the copies, then delete it there.
SettleFailed ==
  /\ wpc = "settle" /\ ~done
  /\ \/ UNCHANGED <<copies, moved>> /\ done' = FALSE
     \/ /\ moved' = moved \cup (copies \cap {query})
        /\ \/ copies' = copies /\ done' = FALSE
           \/ copies' = copies \ {query} /\ done' = TRUE
  /\ wpc' = "complete"
  /\ UNCHANGED <<mainVars, aQueries, numBackup, numWorker, shutdown, backupVars,
                 wjob, query, failMode, dbs, completed, stored>>

\* ADD_MYSQL, ADD_SQLITE, PRINT
Register ==
  /\ wpc = "exec" /\ Kind(query) \notin {"read", "write"}
  /\ dbs' = dbs \cup ({Kind(query)} \ {"print"})
  /\ done' = TRUE
  /\ wpc' = "complete"
  /\ UNCHANGED <<mainVars, aQueries, numBackup, numWorker, shutdown, backupVars,
                 wjob, query, failMode, completed, tables>>

\* m_Success, then m_Completed.
Complete ==
  /\ wpc = "complete"
  /\ completed' = Append(completed, [n |-> query, success |-> done])
  /\ wpc' = "check"
  /\ UNCHANGED <<mainVars, aQueries, numBackup, numWorker, shutdown, backupVars,
                 wjob, query, done, failMode, dbs, tables>>

-----------------------------------------------------------------------------
Worker ==
  \/ CheckFailMode \/ Take \/ ExecRead \/ ExecWrite \/ SettleSucceeded
  \/ SettleFailed \/ Register \/ Complete

Next ==
  \/ \E kind \in Kinds : Insert(kind)
  \/ OnShutdown \/ SignalShutdown \/ ShutdownReturns
  \/ BackupStep
  \/ Worker

\* The two threads run; a shutdown that has begun goes on.
Fairness ==
  WF_vars(BackupStep) /\ WF_vars(Worker) /\ WF_vars(SignalShutdown \/ ShutdownReturns)

Spec == Init /\ [][Next]_vars /\ Fairness

-----------------------------------------------------------------------------
Numbers == 0 .. Len(queries) - 1

TypeOK ==
  /\ queries \in Seq(Kinds)
  /\ aQueries \in [0 .. Slots - 1 -> Numbers \cup {None}]
  /\ {numBackup, numWorker, bjob, wjob} \subseteq 0 .. MaxQueries + 1
  /\ {shutdown, bdb, done, failMode} \subseteq BOOLEAN
  /\ main \in {"open", "signal", "closing", "down"}
  /\ bpc \in {"wait", "exit"}
  /\ wpc \in {"check", "wait", "exec", "settle", "complete", "exit"}
  /\ query \in Numbers \cup {None}
  /\ dbs \subseteq Kinds
  /\ copies \cup moved \cup stored \subseteq Numbers
  /\ completed \in Seq([n : Numbers, success : BOOLEAN])

(***************************************************************************)
(* The queries are completed one after the other in the order in which     *)
(* they were queued, none twice and none skipped, although two threads     *)
(* walk over the ring: a save is in the database before the load behind it *)
(* is executed.                                                            *)
(***************************************************************************)
InOrder == \A i \in DOMAIN completed : completed[i].n = i - 1

(***************************************************************************)
(* A write that the backup thread has copied is in one of the tables from  *)
(* then on, whatever fails and whenever the server is shut down or         *)
(* crashes.                                                                *)
(***************************************************************************)
RanksKept ==
  [][copies \cup moved \cup stored \subseteq copies' \cup moved' \cup stored']_vars

\* A rank never reaches both the write server and the local table that an
\* administrator imports later.
NotTwice == stored \cap moved = {}

(***************************************************************************)
(* A query that reaches an idle pool is never dismissed because an earlier *)
(* one failed: the worker does not wait for work in fail mode.             *)
(***************************************************************************)
IdleNotFailing == wpc = "wait" /\ numWorker = 0 => ~failMode

\* OnShutdown returns after the last query, which both threads have seen.
Drained ==
  main = "down" => Pending = 0 /\ bpc = "exit" /\ wpc = "exit"

\* What the pool promises about the queries and the ranks they carry.
QueriesSafe == TypeOK /\ InOrder /\ NotTwice /\ IdleNotFailing /\ Drained

\* "work through all database jobs after OnShutdown is called before exiting
\* the thread"
WorksThroughAll == wpc = "exit" => Pending = 0

-----------------------------------------------------------------------------
(* The inductive invariant.                                                 *)

\* The semaphores count the queries, and the signal of the shutdown, that a
\* thread has not yet looked at; a thread leaves after the signal.
Signals == Len(queries) + IF main \in {"closing", "down"} THEN 1 ELSE 0

Counted ==
  /\ Pending <= MaxPending /\ Len(queries) <= MaxQueries
  /\ bjob + numBackup = Signals
  /\ wjob + numWorker = bjob
  /\ bpc = "exit" <=> bjob > Len(queries)
  /\ wpc = "exit" <=> wjob > Len(queries)

\* A slot holds the query behind the worker that belongs there, or nothing.
InRing ==
  /\ \A n \in wjob .. Len(queries) - 1 : aQueries[n % Slots] = n
  /\ \A s \in 0 .. Slots - 1 :
       aQueries[s] # None => aQueries[s] >= wjob /\ aQueries[s] % Slots = s

\* The worker has taken one query more than it has completed while it works on
\* that one.
Working ==
  /\ wpc \in {"check", "wait"} => wjob = Len(completed)
  /\ wpc \in {"exec", "settle", "complete"} =>
       query = Len(completed) /\ wjob = query + 1
  /\ wpc = "exit" => Pending = 0

\* The flag is up from the call of OnShutdown until the worker leaves.
FlagIsUp ==
  /\ shutdown <=> main = "signal" \/ (main = "closing" /\ wpc # "exit")
  /\ main = "down" => wpc = "exit"

\* A query that was not executed is in neither table, and the move of one that
\* failed has not been tried before.
NotYetWritten ==
  /\ \A n \in stored \cup moved : n < wjob
  /\ wpc = "exec" => query \notin stored \cup moved
  /\ wpc = "settle" => query \notin moved /\ (done <=> query \in stored)

IInv ==
  /\ QueriesSafe
  /\ Counted /\ InRing /\ Working /\ FlagIsUp /\ NotYetWritten

-----------------------------------------------------------------------------
\* Shutdown returns: both threads find an empty slot and leave.
ShutdownEnds == []<>(main \in {"open", "down"})

\* Every query that is queued is completed in the end (it stays completed).
EveryQueryCompletes ==
  \A i \in 1 .. MaxQueries : []<>(Len(queries) >= i => Len(completed) >= i)
=============================================================================
