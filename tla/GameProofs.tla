----------------------------- MODULE GameProofs -----------------------------
(***************************************************************************)
(* What the game keeps in order: the pool of the database and the chat.    *)
(*                                                                         *)
(* CDbConnectionPool: the queries are completed in order and none is lost, *)
(* and a copied rank is kept and never ends in both tables, for any number *)
(* of slots, queries and kinds of query as long as the ring is never full. *)
(*                                                                         *)
(* IInv counts the three parties along the ring: the main thread is ahead  *)
(* of the backup thread by numBackup slots and that one of the worker by   *)
(* numWorker slots; the slots between the worker and the main thread hold  *)
(* the queries with their numbers, and the others are empty.               *)
(*                                                                         *)
(* CChatHelper and CChat: HelperInv bounds the ids in the send buffers and *)
(* on the stack of pings by the messages that have arrived, and the sum of *)
(* the two counters of the away mode by them from above and by the queued  *)
(* notes from below; QueueInv counts the lines that wait, and says which   *)
(* they are until one is sent at once before them.                         *)
(***************************************************************************)
EXTENDS DbPool, Chat, NumberLemmas, FiniteSetTheorems, SequenceTheorems

LEMMA InitInv == Init => IInv
<1> SUFFICES ASSUME Init  PROVE IInv
  OBVIOUS
<1>1. queries \in Seq(Kinds) /\ Len(queries) = 0
  BY DEF Init
<1>2. completed \in Seq([n : Numbers, success : BOOLEAN]) /\ Len(completed) = 0
  BY DEF Init
<1>3. TypeOK
  <2>1. 0 \in 0 .. MaxQueries + 1
    BY DbAssumption
  <2>2. aQueries \in [0 .. Slots - 1 -> Numbers \cup {None}]
    BY DEF Init
  <2> QED BY <1>1, <1>2, <2>1, <2>2 DEF Init, TypeOK
<1>4. QueriesSafe
  BY <1>2, <1>3 DEF Init, QueriesSafe, InOrder, NotTwice, IdleNotFailing, Drained
<1>5. Counted /\ InRing
  BY <1>1, <1>2, DbAssumption DEF Init, Counted, InRing, Pending, Signals
<1>6. Working /\ FlagIsUp /\ NotYetWritten
  BY <1>2 DEF Init, Working, FlagIsUp, NotYetWritten
<1> QED BY <1>4, <1>5, <1>6 DEF IInv

\* The three parties along the ring, in numbers.
LEMMA Along ==
  ASSUME IInv
  PROVE  /\ Slots \in Nat \ {0}
         /\ Len(queries) \in Nat /\ Len(completed) \in Nat
         /\ bjob \in Nat /\ wjob \in Nat /\ numBackup \in Nat /\ numWorker \in Nat
         /\ Len(completed) <= wjob /\ wjob <= bjob
         /\ Len(completed) <= Len(queries)
         /\ Len(queries) < Len(completed) + Slots
<1>1. /\ bjob \in Nat /\ wjob \in Nat /\ numBackup \in Nat /\ numWorker \in Nat
      /\ Len(queries) \in Nat /\ Len(completed) \in Nat
  BY DEF IInv, QueriesSafe, TypeOK
<1>2. Slots \in Nat /\ MaxPending \in Nat /\ MaxPending < Slots
  BY DbAssumption
<1>3. /\ wpc \in {"check", "wait", "exec", "settle", "complete", "exit"}
      /\ query \in Numbers \cup {None}
      /\ None \notin 0 .. MaxQueries
  BY DbAssumption DEF IInv, QueriesSafe, TypeOK
<1>4. wpc = "exit" => wjob > Len(queries) /\ Len(queries) = Len(completed)
  BY <1>1 DEF IInv, Counted, Working, Pending
<1>5. wpc # "exit" => wjob \in {Len(completed), Len(completed) + 1} /\ wjob <= Len(queries)
  BY <1>1, <1>3 DEF IInv, Counted, Working
<1>6. Len(completed) <= Len(queries) /\ Len(completed) <= wjob
  BY <1>1, <1>4, <1>5
<1>7. /\ wjob + numWorker = bjob
      /\ Len(queries) - Len(completed) <= MaxPending
  BY DEF IInv, Counted, Pending
<1> QED BY <1>1, <1>2, <1>6, <1>7

\* The slots of two queries that are in the ring together differ, and so does
\* the slot the main thread writes to next.
LEMMA SlotsDiffer ==
  ASSUME IInv, NEW i \in wjob .. Len(queries), NEW j \in wjob .. Len(queries), i # j
  PROVE  i % Slots # j % Slots
<1>1. /\ Slots \in Nat \ {0} /\ wjob \in Nat /\ Len(queries) \in Nat
      /\ Len(queries) < wjob + Slots
  BY Along
<1>2. /\ i \in Nat /\ j \in Nat
      /\ i < j + Slots /\ j < i + Slots /\ (i < j \/ j < i)
  BY <1>1
<1>3. CASE i < j
  BY <1>1, <1>2, <1>3, ModDiffers, Zenon
<1>4. CASE j < i
  <2>1. j % Slots # i % Slots
    BY <1>1, <1>2, <1>4, ModDiffers, Zenon
  <2> QED BY <2>1
<1> QED BY <1>2, <1>3, <1>4

\* The slot behind the last query is empty.
LEMMA NextSlotEmpty ==
  ASSUME IInv, wjob <= Len(queries)
  PROVE  /\ Len(queries) % Slots \in 0 .. Slots - 1
         /\ aQueries[Len(queries) % Slots] = None
<1>1. /\ Slots \in Nat \ {0} /\ wjob \in Nat /\ Len(queries) \in Nat
  BY DbAssumption DEF IInv, QueriesSafe, TypeOK
<1> DEFINE s == Len(queries) % Slots
<1>2. s \in 0 .. Slots - 1
  BY <1>1, DivMod
<1>3. ASSUME aQueries[s] # None  PROVE FALSE
  <2>1. aQueries[s] \in wjob .. Len(queries) - 1 /\ aQueries[s] % Slots = s
    BY <1>1, <1>2, <1>3 DEF IInv, InRing, QueriesSafe, TypeOK, Numbers
  <2>2. aQueries[s] \in wjob .. Len(queries) /\ Len(queries) \in wjob .. Len(queries)
        /\ aQueries[s] # Len(queries)
    BY <1>1, <2>1
  <2> QED BY <2>1, <2>2, SlotsDiffer
<1> QED BY <1>2, <1>3

-----------------------------------------------------------------------------
(* The main thread.                                                         *)

LEMMA InsertInv ==
  ASSUME IInv, NEW kind \in Kinds, Insert(kind)  PROVE IInv'
<1> DEFINE L == Len(queries)
<1>0. /\ L \in Nat /\ Len(completed) \in Nat /\ queries \in Seq(Kinds)
      /\ bjob \in Nat /\ wjob \in Nat /\ numBackup \in Nat /\ numWorker \in Nat
      /\ L < MaxQueries /\ MaxQueries \in Nat /\ L - Len(completed) < MaxPending
      /\ MaxPending \in Nat /\ main = "open"
  BY Along, DbAssumption DEF Insert, Pending, IInv, QueriesSafe, TypeOK
<1>1. /\ queries' \in Seq(Kinds) /\ Len(queries') = L + 1
      /\ main' = main /\ bpc' = bpc /\ wpc' = wpc
      /\ bjob' = bjob /\ wjob' = wjob
      /\ numWorker' = numWorker /\ numBackup' = numBackup + 1
      /\ completed' = completed /\ query' = query
  BY <1>0 DEF Insert, backupVars, workerVars
<1>2. /\ wjob + numWorker = bjob /\ bjob + numBackup = L
      /\ bpc # "exit" /\ wpc # "exit"
  BY <1>0 DEF IInv, Counted, Signals
<1>3. Numbers \subseteq Numbers' /\ L \in Numbers' /\ Numbers \subseteq Nat
  BY <1>0, <1>1 DEF Numbers
<1>4. /\ L % Slots \in 0 .. Slots - 1
      /\ wjob <= L
      /\ aQueries \in [0 .. Slots - 1 -> Numbers \cup {None}]
      /\ aQueries' = [aQueries EXCEPT ![L % Slots] = L]
      /\ aQueries'[L % Slots] = L
  <2>1. wjob <= L /\ L % Slots \in 0 .. Slots - 1
    BY <1>0, <1>2, NextSlotEmpty
  <2>2. /\ aQueries \in [0 .. Slots - 1 -> Numbers \cup {None}]
        /\ aQueries' = [aQueries EXCEPT ![L % Slots] = L]
    BY DEF Insert, IInv, QueriesSafe, TypeOK
  <2> QED BY <2>1, <2>2
<1>5. TypeOK'
  <2>1. aQueries' \in [0 .. Slots - 1 -> Numbers' \cup {None}]
    BY <1>3, <1>4 DEF Insert, IInv, QueriesSafe, TypeOK
  <2>2. completed' \in Seq([n : Numbers', success : BOOLEAN])
    <3>1. [n : Numbers, success : BOOLEAN] \subseteq [n : Numbers', success : BOOLEAN]
      BY <1>3
    <3>2. completed \in Seq([n : Numbers, success : BOOLEAN])
      BY DEF IInv, QueriesSafe, TypeOK
    <3> DEFINE R == [n : Numbers, success : BOOLEAN]
               R1 == [n : Numbers', success : BOOLEAN]
    <3>3. completed \in Seq(R) /\ R \subseteq R1
      BY <3>1, <3>2
    <3> HIDE DEF R, R1
    <3>4. completed \in Seq(R1)
      BY <3>3
    <3> QED BY <3>4, <1>1 DEF R1
  <2>3. {numBackup', numWorker', bjob', wjob'} \subseteq 0 .. MaxQueries + 1
    BY <1>0, <1>1, <1>2
  <2> QED BY <1>1, <1>3, <2>1, <2>2, <2>3
          DEF Insert, IInv, QueriesSafe, TypeOK, backupVars, workerVars, tables
<1>6. QueriesSafe'
  BY <1>0, <1>1, <1>5 DEF Insert, IInv, QueriesSafe, InOrder, NotTwice, IdleNotFailing,
     Drained, backupVars, workerVars, tables
<1>7. Counted'
  BY <1>0, <1>1, <1>2 DEF Counted, Signals, Pending
<1>8. InRing'
  <2>1. ASSUME NEW n \in wjob .. L  PROVE aQueries'[n % Slots] = n
    <3>1. CASE n = L
      BY <1>4, <3>1
    <3>2. CASE n # L
      <4>1. n % Slots # L % Slots
        BY <1>0, <1>4, <3>2, SlotsDiffer
      <4>2. n \in wjob .. L - 1 /\ aQueries[n % Slots] = n
        BY <1>0, <3>2 DEF IInv, InRing
      <4>3. n % Slots \in 0 .. Slots - 1
        <5>1. n \in Nat /\ Slots \in Nat \ {0}
          BY <1>0, <4>2, Along
        <5> QED BY <5>1, DivMod
      <4> QED BY <1>4, <4>1, <4>2, <4>3
    <3> QED BY <3>1, <3>2
  <2>2. ASSUME NEW s \in 0 .. Slots - 1, aQueries'[s] # None
        PROVE  aQueries'[s] >= wjob /\ aQueries'[s] % Slots = s
    <3>1. CASE s = L % Slots
      BY <1>0, <1>4, <3>1
    <3>2. CASE s # L % Slots
      BY <1>4, <3>2, <2>2 DEF IInv, InRing
    <3> QED BY <3>1, <3>2
  <2>3. wjob' .. Len(queries') - 1 = wjob .. L
    BY <1>0, <1>1
  <2> QED BY <2>1, <2>2, <2>3, <1>1 DEF InRing
<1>9. Working' /\ FlagIsUp' /\ NotYetWritten'
  BY <1>0, <1>1, <1>2 DEF Insert, IInv, Working, FlagIsUp, NotYetWritten, Pending,
     backupVars, workerVars, tables
<1> QED BY <1>6, <1>7, <1>8, <1>9 DEF IInv

\* The steps of the shutdown touch no query.
LEMMA ShutdownInv ==
  ASSUME IInv, OnShutdown \/ SignalShutdown \/ ShutdownReturns  PROVE IInv'
<1>0. /\ Len(queries) \in Nat /\ Len(completed) \in Nat
      /\ bjob \in Nat /\ wjob \in Nat /\ numBackup \in Nat /\ numWorker \in Nat
      /\ Len(queries) <= MaxQueries /\ MaxQueries \in Nat
  <2>1. Len(queries) <= MaxQueries
    BY DEF IInv, Counted
  <2> QED BY <2>1, Along, DbAssumption
<1>1. /\ UNCHANGED <<queries, aQueries, numWorker, bjob, bpc, bdb, wjob, wpc, query,
                     done, failMode, dbs, copies, moved, stored, completed>>
  BY DEF OnShutdown, SignalShutdown, ShutdownReturns, backupVars, workerVars, tables
<1>2. CASE OnShutdown
  BY <1>0, <1>1, <1>2 DEF OnShutdown, IInv, QueriesSafe, TypeOK, InOrder, NotTwice,
     IdleNotFailing, Drained, Counted, Signals, Pending, InRing, Working, FlagIsUp,
     NotYetWritten, Numbers
<1>3. CASE SignalShutdown
  <2>1. /\ numBackup' = numBackup + 1 /\ main = "signal" /\ main' = "closing"
        /\ shutdown' = shutdown
    BY <1>3 DEF SignalShutdown
  <2>2. /\ bjob + numBackup = Len(queries) /\ shutdown
    BY <1>0, <2>1 DEF IInv, Counted, Signals, FlagIsUp
  <2>3. Counted' /\ FlagIsUp'
    <3>1. Signals' = Len(queries) + 1
      BY <1>1, <2>1 DEF Signals
    <3>2. wpc # "exit" /\ Len(queries)' = Len(queries) /\ Pending' = Pending
      BY <1>0, <1>1, <2>1, <2>2 DEF IInv, Counted, Pending
    <3> QED BY <1>0, <1>1, <2>1, <2>2, <3>1, <3>2 DEF Counted, FlagIsUp, IInv
  <2>4. numBackup' \in 0 .. MaxQueries + 1
    BY <1>0, <2>1, <2>2
  <2>5. TypeOK'
    BY <1>1, <2>1, <2>4 DEF IInv, QueriesSafe, TypeOK, Numbers
  <2>6. QueriesSafe'
    BY <1>1, <2>1, <2>5 DEF IInv, QueriesSafe, InOrder, NotTwice, IdleNotFailing, Drained
  <2>7. InRing' /\ Working' /\ NotYetWritten'
    BY <1>1 DEF IInv, InRing, Working, NotYetWritten, Pending
  <2> QED BY <2>3, <2>6, <2>7 DEF IInv
<1>4. CASE ShutdownReturns
  BY <1>0, <1>1, <1>4 DEF ShutdownReturns, IInv, QueriesSafe, TypeOK, InOrder, NotTwice,
     IdleNotFailing, Drained, Counted, Signals, Pending, InRing, Working, FlagIsUp,
     NotYetWritten, Numbers
<1> QED BY <1>2, <1>3, <1>4

-----------------------------------------------------------------------------
(* The two threads.                                                         *)

\* A thread finds its slot empty exactly when there is no query left.
LEMMA SlotOf ==
  ASSUME IInv, NEW job \in wjob .. Len(queries)
  PROVE  /\ job % Slots \in 0 .. Slots - 1
         /\ job < Len(queries) => aQueries[job % Slots] = job /\ job # None
         /\ job = Len(queries) => aQueries[job % Slots] = None
<1>0. /\ Len(queries) \in Nat /\ wjob \in Nat /\ Slots \in Nat \ {0} /\ job \in Nat
      /\ wjob <= Len(queries) /\ Len(queries) <= MaxQueries /\ MaxQueries \in Nat
  <2>1. Len(queries) <= MaxQueries
    BY DEF IInv, Counted
  <2> QED BY <2>1, Along, DbAssumption
<1>1. job % Slots \in 0 .. Slots - 1
  BY <1>0, DivMod
<1>2. job < Len(queries) => aQueries[job % Slots] = job /\ job # None
  BY <1>0, DbAssumption DEF IInv, InRing
<1>3. job = Len(queries) => aQueries[job % Slots] = None
  BY <1>0, NextSlotEmpty
<1> QED BY <1>1, <1>2, <1>3

LEMMA BackupInv ==
  ASSUME IInv, BackupStep  PROVE IInv'
<1> DEFINE L == Len(queries)
           n == aQueries[bjob % Slots]
<1>0. /\ L \in Nat /\ Len(completed) \in Nat
      /\ bjob \in Nat /\ wjob \in Nat /\ numBackup \in Nat /\ numWorker \in Nat
      /\ wjob <= bjob /\ L <= MaxQueries /\ MaxQueries \in Nat
      /\ wjob + numWorker = bjob /\ bjob + numBackup = Signals
      /\ Signals \in {L, L + 1}
  <2>1. /\ L <= MaxQueries /\ wjob + numWorker = bjob /\ bjob + numBackup = Signals
    BY DEF IInv, Counted
  <2>2. L \in Nat /\ Signals \in {L, L + 1}
    BY Along DEF Signals
  <2> QED BY <2>1, <2>2, Along, DbAssumption
<1>1. /\ bpc = "wait" /\ numBackup > 0
      /\ numBackup' = numBackup - 1 /\ numWorker' = numWorker + 1 /\ bjob' = bjob + 1
      /\ bpc' = IF n = None THEN "exit" ELSE "wait"
      /\ UNCHANGED <<queries, main, aQueries, shutdown, wjob, wpc, query, done, failMode,
                     dbs, completed, moved, stored>>
  BY DEF BackupStep, mainVars, workerVars
<1>2. /\ copies' = copies \/ (n # None /\ copies' \subseteq copies \cup {n})
      /\ bdb' \in BOOLEAN
  BY DEF BackupStep, CopyFirst, IInv, QueriesSafe, TypeOK
<1>3. /\ bjob < L => n = bjob /\ bjob # None
      /\ bjob = L => n = None
      /\ bjob <= L
  <2>1. bjob \in wjob .. L
    BY <1>0, <1>1
  <2> QED BY <2>1, SlotOf
<1>4. copies' \subseteq Numbers
  <2>1. copies \subseteq Numbers
    BY DEF IInv, QueriesSafe, TypeOK
  <2>2. n # None => n \in Numbers
    BY <1>0, <1>3 DEF Numbers
  <2> QED BY <1>2, <2>1, <2>2
<1>5. {numBackup', numWorker', bjob', wjob'} \subseteq 0 .. MaxQueries + 1
  BY <1>0, <1>1, <1>3
<1> HIDE DEF n
<1>6. TypeOK'
  BY <1>1, <1>2, <1>4, <1>5 DEF IInv, QueriesSafe, TypeOK, Numbers
<1>7. main # "down" /\ numWorker' # 0
  BY <1>0, <1>1 DEF IInv, QueriesSafe, Drained
<1>8. QueriesSafe'
  BY <1>1, <1>6, <1>7 DEF IInv, QueriesSafe, InOrder, NotTwice, IdleNotFailing, Drained
<1>9. Counted'
  <2>1. Signals' = Signals /\ Pending' = Pending
    BY <1>1 DEF Signals, Pending
  <2>2. bpc' = "exit" <=> bjob' > L
    BY <1>0, <1>1, <1>3
  <2> QED BY <1>0, <1>1, <2>1, <2>2 DEF IInv, Counted
<1>10. InRing' /\ Working' /\ FlagIsUp' /\ NotYetWritten'
  BY <1>1 DEF IInv, InRing, Working, FlagIsUp, NotYetWritten, Pending
<1> QED BY <1>8, <1>9, <1>10 DEF IInv

LEMMA TakeInv ==
  ASSUME IInv, Take  PROVE IInv'
<1> DEFINE L == Len(queries)
           slot == wjob % Slots
<1>0. /\ L \in Nat /\ Len(completed) \in Nat
      /\ bjob \in Nat /\ wjob \in Nat /\ numBackup \in Nat /\ numWorker \in Nat
      /\ L <= MaxQueries /\ MaxQueries \in Nat
      /\ wjob + numWorker = bjob /\ bjob + numBackup = Signals
      /\ Signals \in {L, L + 1}
  <2>1. /\ L <= MaxQueries /\ wjob + numWorker = bjob /\ bjob + numBackup = Signals
    BY DEF IInv, Counted
  <2>2. L \in Nat /\ Signals \in {L, L + 1}
    BY Along DEF Signals
  <2> QED BY <2>1, <2>2, Along, DbAssumption
<1>1. /\ wpc = "wait" /\ numWorker > 0
      /\ numWorker' = numWorker - 1 /\ wjob' = wjob + 1
      /\ query' = aQueries[slot]
      /\ aQueries' = [aQueries EXCEPT ![slot] = None]
      /\ IF query' = None THEN wpc' = "exit" /\ shutdown' = FALSE
                         ELSE wpc' = "exec" /\ shutdown' = shutdown
      /\ done' = FALSE
      /\ UNCHANGED <<queries, main, numBackup, bjob, bpc, bdb, failMode, dbs, completed,
                     copies, moved, stored>>
  BY DEF Take, mainVars, backupVars, tables
<1>2. wjob = Len(completed) /\ wjob <= L
  BY <1>0, <1>1 DEF IInv, Working, Counted
<1>3. /\ slot \in 0 .. Slots - 1
      /\ wjob < L => query' = wjob /\ wjob # None
      /\ wjob = L => query' = None
  <2>1. wjob \in wjob .. L
    BY <1>0, <1>2
  <2> QED BY <1>1, <2>1, SlotOf
<1>4. /\ aQueries \in [0 .. Slots - 1 -> Numbers \cup {None}]
      /\ aQueries' \in [0 .. Slots - 1 -> Numbers \cup {None}]
      /\ query' \in Numbers \cup {None}
  BY <1>1, <1>3 DEF IInv, QueriesSafe, TypeOK
<1>5. wjob < L => wpc' = "exec" /\ shutdown' = shutdown /\ query' = wjob
  BY <1>1, <1>3
<1>6. wjob = L => /\ wpc' = "exit" /\ shutdown' = FALSE /\ main = "closing"
                  /\ query' = None
  <2>1. wjob = L => main \in {"closing", "down"}
    BY <1>0, <1>1 DEF Signals
  <2>2. main # "down"
    BY <1>1 DEF IInv, FlagIsUp
  <2> QED BY <1>1, <1>3, <2>1, <2>2
<1> HIDE DEF slot
<1>7. TypeOK'
  <2>1. {numBackup', numWorker', bjob', wjob'} \subseteq 0 .. MaxQueries + 1
    BY <1>0, <1>1, <1>2
  <2>2. wpc' \in {"exec", "exit"} /\ shutdown' \in BOOLEAN
    BY <1>1 DEF IInv, QueriesSafe, TypeOK
  <2> QED BY <1>1, <1>4, <2>1, <2>2 DEF IInv, QueriesSafe, TypeOK, Numbers
<1>8. QueriesSafe'
  <2>1. main # "down" /\ wpc' # "wait"
    BY <1>1 DEF IInv, FlagIsUp
  <2> QED BY <1>1, <1>7, <2>1
          DEF IInv, QueriesSafe, InOrder, NotTwice, IdleNotFailing, Drained
<1>9. Counted'
  <2>1. Signals' = Signals /\ Pending' = Pending
    BY <1>1 DEF Signals, Pending
  <2>2. wpc' = "exit" <=> wjob' > L
    BY <1>0, <1>1, <1>2, <1>5, <1>6
  <2> QED BY <1>0, <1>1, <2>1, <2>2 DEF IInv, Counted
<1>10. InRing'
  <2>1. ASSUME NEW n \in wjob + 1 .. L - 1  PROVE aQueries'[n % Slots] = n
    <3>1. n \in wjob .. L - 1 /\ n \in wjob .. L /\ wjob \in wjob .. L /\ n # wjob
      BY <1>0, <1>2
    <3>2. n % Slots # slot
      BY <3>1, SlotsDiffer DEF slot
    <3>3. n % Slots \in 0 .. Slots - 1 /\ aQueries[n % Slots] = n
      BY <1>0, <3>1, SlotOf DEF IInv, InRing
    <3> QED BY <1>1, <1>4, <3>2, <3>3
  <2>2. ASSUME NEW s \in 0 .. Slots - 1, aQueries'[s] # None
        PROVE  aQueries'[s] >= wjob + 1 /\ aQueries'[s] % Slots = s
    <3>1. s # slot /\ aQueries'[s] = aQueries[s]
      BY <1>1, <1>4, <2>2
    <3>2. aQueries[s] >= wjob /\ aQueries[s] % Slots = s
      BY <2>2, <3>1 DEF IInv, InRing
    <3>3. aQueries[s] # wjob
      BY <3>1, <3>2 DEF slot
    <3>4. aQueries[s] \in Nat
      BY <1>0, <1>4, <2>2, <3>1 DEF Numbers
    <3> QED BY <1>0, <3>1, <3>2, <3>3, <3>4
  <2> QED BY <1>1, <2>1, <2>2 DEF InRing
<1>11. Working'
  BY <1>0, <1>1, <1>2, <1>5, <1>6 DEF Working, Pending
<1>12. FlagIsUp'
  BY <1>0, <1>1, <1>2, <1>5, <1>6 DEF IInv, FlagIsUp
<1>13. NotYetWritten'
  <2>1. \A n \in stored \cup moved : n < wjob /\ n \in Nat
    BY <1>0 DEF IInv, NotYetWritten, QueriesSafe, TypeOK, Numbers
  <2>2. wpc' \in {"exec", "exit"} /\ (wpc' = "exec" => query' = wjob)
    BY <1>0, <1>2, <1>5, <1>6
  <2> QED BY <1>0, <1>1, <2>1, <2>2 DEF NotYetWritten
<1> QED BY <1>8, <1>9, <1>10, <1>11, <1>12, <1>13 DEF IInv

-----------------------------------------------------------------------------
(* The worker with the query it has taken.                                  *)

\* A step of the worker that does not touch the ring.
OffRing ==
  UNCHANGED <<queries, main, aQueries, numBackup, numWorker, shutdown, bjob, bpc, bdb, wjob>>

LEMMA OffRingInv ==
  ASSUME IInv, OffRing, wpc # "exit", wpc' # "exit", main # "down", Pending' <= Pending
  PROVE  Counted' /\ InRing' /\ FlagIsUp' /\ Drained'
<1>0. Len(queries) \in Nat /\ Len(completed) \in Nat /\ MaxPending \in Nat
      /\ Pending <= MaxPending
  BY Along, DbAssumption DEF IInv, Counted
<1>1. Signals' = Signals /\ Len(queries)' = Len(queries)
  BY DEF OffRing, Signals
<1>2. Pending' <= MaxPending
  <2>1. completed' = completed => Pending' = Pending
    BY DEF OffRing, Pending
  <2> QED BY <1>0 DEF Pending, OffRing
<1>3. Counted'
  BY <1>1, <1>2 DEF IInv, Counted, OffRing
<1>4. InRing' /\ FlagIsUp' /\ Drained'
  BY DEF IInv, InRing, FlagIsUp, Drained, OffRing
<1> QED BY <1>3, <1>4

\* What holds while the worker has a query.
LEMMA HasQuery ==
  ASSUME IInv, wpc \in {"exec", "settle", "complete"}
  PROVE  /\ query = Len(completed) /\ wjob = query + 1 /\ query \in Numbers
         /\ Len(completed) \in Nat /\ main # "down" /\ wpc # "exit"
<1>1. query = Len(completed) /\ wjob = query + 1 /\ main # "down" /\ wpc # "exit"
  BY DEF IInv, Working, FlagIsUp
<1>2. wjob <= Len(queries) /\ Len(completed) \in Nat /\ Len(queries) \in Nat
  BY <1>1, Along DEF IInv, Counted
<1> QED BY <1>1, <1>2 DEF Numbers

LEMMA CheckFailModeInv ==
  ASSUME IInv, CheckFailMode  PROVE IInv'
<1>1. /\ OffRing /\ wpc = "check" /\ wpc' = "wait"
      /\ failMode' = (failMode /\ numWorker # 0)
      /\ UNCHANGED <<query, done, dbs, completed, copies, moved, stored>>
  BY DEF CheckFailMode, OffRing, mainVars, backupVars, tables
<1>2. main # "down" /\ Pending' = Pending /\ Pending \in Int
  BY <1>1, Along DEF IInv, FlagIsUp, Pending, OffRing
<1>3. Counted' /\ InRing' /\ FlagIsUp' /\ Drained'
  BY <1>1, <1>2, OffRingInv
<1>4. TypeOK'
  BY <1>1 DEF IInv, QueriesSafe, TypeOK, Numbers, OffRing
<1>5. InOrder' /\ NotTwice' /\ IdleNotFailing'
  BY <1>1 DEF IInv, QueriesSafe, InOrder, NotTwice, IdleNotFailing, OffRing
<1>6. Working' /\ NotYetWritten'
  BY <1>1 DEF IInv, Working, NotYetWritten, OffRing
<1> QED BY <1>3, <1>4, <1>5, <1>6 DEF IInv, QueriesSafe

LEMMA ExecReadInv ==
  ASSUME IInv, ExecRead  PROVE IInv'
<1>1. /\ OffRing /\ wpc = "exec" /\ wpc' = "complete"
      /\ {done', failMode'} \subseteq BOOLEAN
      /\ UNCHANGED <<query, dbs, completed, copies, moved, stored>>
  BY DEF ExecRead, AtQuery, OffRing, mainVars, backupVars, tables, IInv, QueriesSafe, TypeOK
<1>2. main # "down" /\ Pending' = Pending /\ Pending \in Int
  BY <1>1, Along, HasQuery DEF Pending, OffRing
<1>3. Counted' /\ InRing' /\ FlagIsUp' /\ Drained'
  BY <1>1, <1>2, OffRingInv
<1>4. TypeOK'
  BY <1>1 DEF IInv, QueriesSafe, TypeOK, Numbers, OffRing
<1>5. InOrder' /\ NotTwice' /\ IdleNotFailing'
  BY <1>1 DEF IInv, QueriesSafe, InOrder, NotTwice, IdleNotFailing, OffRing
<1>6. Working' /\ NotYetWritten'
  BY <1>1 DEF IInv, Working, NotYetWritten, OffRing
<1> QED BY <1>3, <1>4, <1>5, <1>6 DEF IInv, QueriesSafe

LEMMA ExecWriteInv ==
  ASSUME IInv, ExecWrite  PROVE IInv'
<1>1. /\ OffRing /\ wpc = "exec" /\ wpc' \in {"settle", "complete"}
      /\ {done', failMode'} \subseteq BOOLEAN
      /\ stored' = IF done' THEN stored \cup {query} ELSE stored
      /\ UNCHANGED <<query, dbs, completed, copies, moved>>
  BY DEF ExecWrite, AtQuery, OffRing, mainVars, backupVars, IInv, QueriesSafe, TypeOK
<1>2. /\ main # "down" /\ Pending' = Pending /\ Pending \in Int
      /\ query \in Numbers /\ query < wjob /\ query \notin stored \cup moved
  BY <1>1, Along, HasQuery DEF Pending, OffRing, IInv, NotYetWritten
<1>3. Counted' /\ InRing' /\ FlagIsUp' /\ Drained'
  BY <1>1, <1>2, OffRingInv
<1>4. TypeOK'
  BY <1>1, <1>2 DEF IInv, QueriesSafe, TypeOK, Numbers, OffRing
<1>5. InOrder' /\ NotTwice' /\ IdleNotFailing'
  BY <1>1, <1>2 DEF IInv, QueriesSafe, InOrder, NotTwice, IdleNotFailing, OffRing
<1>6. Working' /\ NotYetWritten'
  BY <1>1, <1>2 DEF IInv, Working, NotYetWritten, OffRing
<1> QED BY <1>3, <1>4, <1>5, <1>6 DEF IInv, QueriesSafe

LEMMA SettleInv ==
  ASSUME IInv, SettleSucceeded \/ SettleFailed  PROVE IInv'
<1>1. /\ OffRing /\ wpc = "settle" /\ wpc' = "complete"
      /\ done' \in BOOLEAN
      /\ copies' \subseteq copies
      /\ moved' = moved \/ (~ done /\ moved' = moved \cup (copies \cap {query}))
      /\ UNCHANGED <<query, failMode, dbs, completed, stored>>
  BY DEF SettleSucceeded, SettleFailed, OffRing, mainVars, backupVars, IInv, QueriesSafe,
     TypeOK
<1>2. /\ main # "down" /\ Pending' = Pending /\ Pending \in Int
      /\ query \in Numbers /\ query < wjob
      /\ ~ done => query \notin stored
  BY <1>1, Along, HasQuery DEF Pending, OffRing, IInv, NotYetWritten
<1>3. Counted' /\ InRing' /\ FlagIsUp' /\ Drained'
  BY <1>1, <1>2, OffRingInv
<1>4. TypeOK'
  BY <1>1, <1>2 DEF IInv, QueriesSafe, TypeOK, Numbers, OffRing
<1>5. InOrder' /\ NotTwice' /\ IdleNotFailing'
  BY <1>1, <1>2 DEF IInv, QueriesSafe, InOrder, NotTwice, IdleNotFailing, OffRing
<1>6. Working' /\ NotYetWritten'
  BY <1>1, <1>2 DEF IInv, Working, NotYetWritten, OffRing
<1> QED BY <1>3, <1>4, <1>5, <1>6 DEF IInv, QueriesSafe

LEMMA RegisterInv ==
  ASSUME IInv, Register  PROVE IInv'
<1>1. /\ OffRing /\ wpc = "exec" /\ wpc' = "complete" /\ done' = TRUE
      /\ dbs' \subseteq dbs \cup {Kind(query)}
      /\ UNCHANGED <<query, failMode, completed, copies, moved, stored>>
  BY DEF Register, OffRing, mainVars, backupVars, tables
<1>2. /\ main # "down" /\ Pending' = Pending /\ Pending \in Int
      /\ query \in Numbers
  BY <1>1, Along, HasQuery DEF Pending, OffRing
<1>3. Counted' /\ InRing' /\ FlagIsUp' /\ Drained'
  BY <1>1, <1>2, OffRingInv
<1>4. TypeOK'
  <2>1. Kind(query) \in Kinds
    BY <1>2 DEF Kind, Numbers, IInv, QueriesSafe, TypeOK
  <2> QED BY <1>1, <2>1 DEF IInv, QueriesSafe, TypeOK, Numbers, OffRing
<1>5. InOrder' /\ NotTwice' /\ IdleNotFailing'
  BY <1>1 DEF IInv, QueriesSafe, InOrder, NotTwice, IdleNotFailing, OffRing
<1>6. Working' /\ NotYetWritten'
  BY <1>1 DEF IInv, Working, NotYetWritten, OffRing
<1> QED BY <1>3, <1>4, <1>5, <1>6 DEF IInv, QueriesSafe

LEMMA CompleteInv ==
  ASSUME IInv, Complete  PROVE IInv'
<1> DEFINE last == [n |-> query, success |-> done]
           R == [n : Numbers, success : BOOLEAN]
<1>1. /\ OffRing /\ wpc = "complete" /\ wpc' = "check"
      /\ completed' = Append(completed, last)
      /\ UNCHANGED <<query, done, failMode, dbs, copies, moved, stored>>
  BY DEF Complete, OffRing, mainVars, backupVars, tables
<1>2. /\ main # "down" /\ query \in Numbers
      /\ query = Len(completed) /\ wjob = query + 1 /\ Len(completed) \in Nat
      /\ Len(queries) \in Nat
  BY <1>1, Along, HasQuery
<1>3. completed \in Seq(R) /\ last \in R
  BY <1>2 DEF IInv, QueriesSafe, TypeOK
<1>4. last.n = query
  OBVIOUS
<1> HIDE DEF last, R
<1>5. /\ completed' \in Seq(R) /\ Len(completed') = query + 1
      /\ \A i \in 1 .. Len(completed) : completed'[i] = completed[i]
      /\ completed'[query + 1] = last
  BY <1>1, <1>2, <1>3
<1>6. Pending' <= Pending
  BY <1>1, <1>2, <1>5 DEF Pending, OffRing
<1>7. Counted' /\ InRing' /\ FlagIsUp' /\ Drained'
  BY <1>1, <1>2, <1>6, OffRingInv
<1>8. TypeOK'
  <2>1. completed' \in Seq([n : Numbers, success : BOOLEAN])'
    BY <1>1, <1>5 DEF R, OffRing, Numbers
  <2> QED BY <1>1, <2>1 DEF IInv, QueriesSafe, TypeOK, Numbers, OffRing
<1>9. InOrder'
  <2> SUFFICES ASSUME NEW i \in DOMAIN completed'  PROVE completed'[i].n = i - 1
    BY DEF InOrder
  <2>1. i \in 1 .. query + 1
    BY <1>5
  <2>2. CASE i = query + 1
    BY <1>2, <1>4, <1>5, <2>2
  <2>3. CASE i # query + 1
    <3>1. i \in DOMAIN completed /\ completed'[i] = completed[i]
      BY <1>2, <1>3, <1>5, <2>1, <2>3
    <3> QED BY <3>1 DEF IInv, QueriesSafe, InOrder
  <2> QED BY <2>2, <2>3
<1>10. NotTwice' /\ IdleNotFailing'
  BY <1>1 DEF IInv, QueriesSafe, NotTwice, IdleNotFailing, OffRing
<1>11. Working' /\ NotYetWritten'
  BY <1>1, <1>2, <1>5 DEF IInv, Working, NotYetWritten, OffRing
<1> QED BY <1>7, <1>8, <1>9, <1>10, <1>11 DEF IInv, QueriesSafe

-----------------------------------------------------------------------------
LEMMA NextInv ==
  ASSUME IInv, [Next]_vars  PROVE IInv'
<1>1. CASE Next
  <2>1. CASE \E kind \in Kinds : Insert(kind)
    BY <2>1, InsertInv
  <2>2. CASE OnShutdown \/ SignalShutdown \/ ShutdownReturns
    BY <2>2, ShutdownInv
  <2>3. CASE BackupStep
    BY <2>3, BackupInv
  <2>4. CASE Worker
    BY <2>4, CheckFailModeInv, TakeInv, ExecReadInv, ExecWriteInv, SettleInv, RegisterInv,
       CompleteInv DEF Worker
  <2> QED BY <1>1, <2>1, <2>2, <2>3, <2>4 DEF Next
<1>2. CASE UNCHANGED vars
  BY <1>2 DEF vars, mainVars, backupVars, workerVars, tables, IInv, QueriesSafe, TypeOK,
     Numbers, InOrder, NotTwice, IdleNotFailing, Drained, Pending, Signals, Counted, InRing,
     Working, FlagIsUp, NotYetWritten
<1> QED BY <1>1, <1>2

\* The inductive invariant of CDbConnectionPool: who has seen which query, and which
\* slots of the ring are full.
THEOREM DbInvariant == Spec => []IInv
<1> QED BY InitInv, NextInv, PTL DEF Spec

\* The queries (CWorker::ProcessQueries) are completed in the order of Execute and
\* ExecuteWrite, OnShutdown returns after the last, no rank is both on the write server
\* and in the local table, and an idle pool does not dismiss a query.
THEOREM QueriesAreSafe == Spec => []QueriesSafe
<1>1. IInv => QueriesSafe
  BY DEF IInv
<1> QED BY <1>1, DbInvariant, PTL

\* Whatever statement fails and whenever the server is shut down, a rank that CBackup has
\* copied stays in one of the tables.
THEOREM CopiedRanksKept == Spec => RanksKept
<1> DEFINE Kept == copies \cup moved \cup stored \subseteq copies' \cup moved' \cup stored'
<1>1. ASSUME IInv, [Next]_vars  PROVE Kept
  <2>1. CASE SettleSucceeded
    <3>1. query \in stored
      <4>1. wpc = "settle" /\ done
        BY <2>1 DEF SettleSucceeded
      <4>2. done <=> query \in stored
        BY <1>1, <4>1 DEF IInv, NotYetWritten
      <4> QED BY <4>1, <4>2, Zenon
    <3>2. copies \ {query} \subseteq copies' /\ moved' = moved /\ stored' = stored
      BY <2>1 DEF SettleSucceeded
    <3> QED BY <3>1, <3>2
  <2>2. CASE SettleFailed
    BY <2>2 DEF SettleFailed
  <2>3. CASE BackupStep
    BY <2>3 DEF BackupStep, CopyFirst
  <2>4. CASE ExecWrite
    BY <2>4 DEF ExecWrite
  <2>5. CASE UNCHANGED tables
    BY <2>5 DEF tables
  <2>6. ASSUME Next, ~ SettleSucceeded, ~ SettleFailed, ~ BackupStep, ~ ExecWrite
        PROVE  UNCHANGED tables
    BY <2>6 DEF Next, Worker, Insert, OnShutdown, SignalShutdown, ShutdownReturns,
       CheckFailMode, Take, ExecRead, Register, Complete, tables
  <2> QED BY <1>1, <2>1, <2>2, <2>3, <2>4, <2>5, <2>6 DEF vars
<1>2. IInv /\ [Next]_vars => [Kept]_vars
  BY <1>1
<1> QED BY <1>2, DbInvariant, PTL DEF Spec, RanksKept

-----------------------------------------------------------------------------
(* The send buffers of the chat helper.                                     *)

Message == [id : Nat, stay : BOOLEAN]

\* What a buffer keeps is in the order of arrival, from low to high.
OldestFirst(b, low, high) ==
  /\ \A i, j \in 1 .. Len(b) : i <= j => b[i].id <= b[j].id
  /\ \A i \in 1 .. Len(b) : low <= b[i].id /\ b[i].id <= high

BufferSound(b, low, high) ==
  /\ b \in Seq(Message)
  /\ Len(b) <= BufferLen
  /\ OldestFirst(b, low, high)

StaySet(b) == {i \in DOMAIN b : b[i].stay}
StayCount(b) == Cardinality(StaySet(b))

LEMMA StayCountNat ==
  ASSUME NEW b \in Seq(Message)  PROVE StayCount(b) \in Nat /\ IsFiniteSet(StaySet(b))
<1>1. IsFiniteSet(1 .. Len(b))
  BY FS_Interval
<1>2. StaySet(b) \in SUBSET (1 .. Len(b))
  BY DEF StaySet
<1>3. IsFiniteSet(StaySet(b))
  BY Zenon, <1>1, <1>2, FS_Subset
<1> QED BY Zenon, <1>3, FS_CardinalityType DEF StayCount

LEMMA NoStays == StayCount(<<>>) = 0
<1>1. StaySet(<<>>) = {}
  BY DEF StaySet
<1> QED BY <1>1, FS_EmptySet DEF StayCount

LEMMA AppendStays ==
  ASSUME NEW b \in Seq(Message), NEW msg \in Message
  PROVE  /\ msg.stay => StayCount(Append(b, msg)) = StayCount(b) + 1
         /\ ~ msg.stay => StayCount(Append(b, msg)) = StayCount(b)
<1>1. /\ IsFiniteSet(StaySet(b)) /\ StayCount(b) \in Nat
      /\ Len(b) + 1 \notin StaySet(b)
  BY StayCountNat DEF StaySet
<1>2. /\ DOMAIN Append(b, msg) = 1 .. Len(b) + 1
      /\ \A i \in 1 .. Len(b) : Append(b, msg)[i] = b[i]
      /\ Append(b, msg)[Len(b) + 1] = msg
      /\ DOMAIN b = 1 .. Len(b) /\ Len(b) \in Nat
  OBVIOUS
<1>3. ASSUME msg.stay  PROVE StaySet(Append(b, msg)) = StaySet(b) \cup {Len(b) + 1}
  BY <1>2, <1>3 DEF StaySet
<1>4. ASSUME ~ msg.stay  PROVE StaySet(Append(b, msg)) = StaySet(b)
  BY <1>2, <1>4 DEF StaySet
<1> QED BY <1>1, <1>3, <1>4, FS_AddElement DEF StayCount

LEMMA TailStays ==
  ASSUME NEW b \in Seq(Message), b # <<>>
  PROVE  /\ Head(b).stay => StayCount(Tail(b)) = StayCount(b) - 1
         /\ ~ Head(b).stay => StayCount(Tail(b)) = StayCount(b)
<1> DEFINE T == StaySet(b) \ {1}
           f == [i \in StaySet(Tail(b)) |-> i + 1]
<1>1. /\ Tail(b) \in Seq(Message) /\ Len(Tail(b)) = Len(b) - 1 /\ Len(b) \in Nat \ {0}
      /\ \A i \in 1 .. Len(b) - 1 : Tail(b)[i] = b[i + 1]
      /\ Head(b) = b[1]
  OBVIOUS
<1>2. /\ StaySet(Tail(b)) = {i \in 1 .. Len(b) - 1 : b[i + 1].stay}
      /\ StaySet(b) = {i \in 1 .. Len(b) : b[i].stay}
  BY <1>1 DEF StaySet
<1>3. IsFiniteSet(StaySet(Tail(b))) /\ IsFiniteSet(StaySet(b))
      /\ StayCount(b) \in Nat
  BY <1>1, StayCountNat
<1>4. f \in Bijection(StaySet(Tail(b)), T)
  <2>1. f \in [StaySet(Tail(b)) -> T]
    BY <1>1, <1>2
  <2>2. \A i, j \in StaySet(Tail(b)) : f[i] = f[j] => i = j
    BY <1>2
  <2>3. ASSUME NEW k \in T  PROVE \E i \in StaySet(Tail(b)) : f[i] = k
    <3>1. k - 1 \in 1 .. Len(b) - 1 /\ (k - 1) + 1 = k /\ b[k].stay
      BY <1>1, <1>2
    <3>2. b[(k - 1) + 1].stay
      BY Zenon, <3>1
    <3>3. k - 1 \in StaySet(Tail(b))
      BY <1>2, <3>1, <3>2
    <3>4. f[k - 1] = k
      BY <3>1, <3>3
    <3> QED BY <3>3, <3>4
  <2> HIDE DEF f, T
  <2> QED BY <2>1, <2>2, <2>3 DEF Bijection, Injection, Surjection, IsInjective
<1>5. Cardinality(T) = StayCount(Tail(b))
  BY <1>3, <1>4, FS_Bijection DEF ExistsBijection, StayCount
<1>6. /\ Head(b).stay => Cardinality(T) = StayCount(b) - 1
      /\ ~ Head(b).stay => Cardinality(T) = StayCount(b)
  <2>1. 1 \in StaySet(b) <=> Head(b).stay
    BY <1>1, <1>2
  <2> QED BY <1>3, <2>1, FS_RemoveElement DEF StayCount
<1> QED BY <1>5, <1>6

\* The rest of a buffer.
LEMMA TailSound ==
  ASSUME NEW b, NEW low \in Nat, NEW high \in Nat, BufferSound(b, low, high), b # <<>>,
         ChatAssumption
  PROVE  /\ BufferSound(Tail(b), Head(b).id, high)
         /\ BufferSound(Tail(b), low, high)
         /\ Head(b) \in Message /\ Head(b).id <= high
         /\ low <= Head(b).id
<1>1. /\ Tail(b) \in Seq(Message) /\ Len(Tail(b)) = Len(b) - 1 /\ Len(b) \in Nat \ {0}
      /\ \A i \in 1 .. Len(b) - 1 : Tail(b)[i] = b[i + 1]
      /\ Head(b) = b[1] /\ Head(b) \in Message
  BY DEF BufferSound
<1>2. \A i \in 1 .. Len(b) - 1 : i + 1 \in 1 .. Len(b) /\ 1 \in 1 .. Len(b) /\ b[i + 1] \in Message
  BY <1>1 DEF BufferSound
<1>3. OldestFirst(Tail(b), Head(b).id, high)
  BY <1>1, <1>2 DEF BufferSound, OldestFirst
<1>4. Head(b).id <= high /\ low <= Head(b).id
  <2>1. 1 \in 1 .. Len(b)
    BY <1>1
  <2> QED BY <1>1, <2>1 DEF BufferSound, OldestFirst
<1>5. OldestFirst(Tail(b), low, high)
  <2>1. \A i \in 1 .. Len(b) - 1 : low <= b[i + 1].id /\ b[i + 1].id <= high
    BY <1>2 DEF BufferSound, OldestFirst
  <2> QED BY <1>1, <1>3, <2>1 DEF OldestFirst
<1>6. Len(Tail(b)) <= BufferLen
  BY <1>1 DEF BufferSound, ChatAssumption
<1> QED BY Zenon, <1>1, <1>3, <1>4, <1>5, <1>6 DEF BufferSound

LEMMA AppendSound ==
  ASSUME NEW b, NEW low \in Nat, NEW high \in Nat, NEW msg \in Message,
         BufferSound(b, low, high), Len(b) < BufferLen, low <= msg.id, high <= msg.id,
         ChatAssumption
  PROVE  BufferSound(Append(b, msg), low, msg.id)
<1>1. /\ Append(b, msg) \in Seq(Message) /\ Len(Append(b, msg)) = Len(b) + 1 /\ Len(b) \in Nat
      /\ \A i \in 1 .. Len(b) : Append(b, msg)[i] = b[i] /\ b[i] \in Message
      /\ Append(b, msg)[Len(b) + 1] = msg
  BY DEF BufferSound
<1> DEFINE c == Append(b, msg)
<1>2. c \in Seq(Message) /\ Len(c) = Len(b) + 1 /\ c[Len(b) + 1] = msg
      /\ \A i \in 1 .. Len(b) : c[i] = b[i]
  BY <1>1
<1> HIDE DEF c
<1>3. \A i \in 1 .. Len(b) : b[i].id \in Nat /\ b[i].id <= high /\ low <= b[i].id
  BY <1>1 DEF BufferSound, OldestFirst, Message
<1>4. msg.id \in Nat
  BY DEF Message
<1>5. ASSUME NEW i \in 1 .. Len(c), NEW j \in 1 .. Len(c), i <= j  PROVE c[i].id <= c[j].id
  <2>1. CASE j = Len(b) + 1
    <3>1. c[j].id = msg.id
      BY <1>2, <2>1
    <3>2. c[i].id <= msg.id
      <4>1. CASE i = Len(b) + 1
        BY <1>2, <1>4, <4>1
      <4>2. CASE i \in 1 .. Len(b)
        <5>1. c[i].id = b[i].id
          BY <1>2, <4>2
        <5> QED BY <1>3, <1>4, <4>2, <5>1
      <4> QED BY <1>1, <1>2, <4>1, <4>2
    <3> QED BY <3>1, <3>2
  <2>2. CASE j # Len(b) + 1
    <3>1. i \in 1 .. Len(b) /\ j \in 1 .. Len(b)
      BY <1>1, <1>2, <1>5, <2>2
    <3>2. b[i].id <= b[j].id
      BY <3>1, <1>5 DEF BufferSound, OldestFirst
    <3> QED BY <1>2, <3>1, <3>2
  <2> QED BY <2>1, <2>2
<1>6. ASSUME NEW i \in 1 .. Len(c)  PROVE low <= c[i].id /\ c[i].id <= msg.id
  <2>1. CASE i = Len(b) + 1
    BY <1>2, <1>4, <2>1
  <2>2. CASE i \in 1 .. Len(b)
    <3>1. c[i].id = b[i].id
      BY <1>2, <2>2
    <3> QED BY <1>3, <1>4, <2>2, <3>1
  <2> QED BY <1>1, <1>2, <2>1, <2>2
<1>7. Len(c) <= BufferLen
  BY <1>1, <1>2 DEF ChatAssumption
<1>8. BufferSound(c, low, msg.id)
  BY <1>2, <1>5, <1>6, <1>7 DEF BufferSound, OldestFirst
<1> QED BY <1>8 DEF c

\* CChatHelper::SayBuffer keeps the order and the size, and adds one message at most
\* that does not end the away mode.
LEMMA PushedSound ==
  ASSUME NEW b, NEW low \in Nat, NEW high \in Nat, NEW msg \in Message,
         BufferSound(b, low, high), low <= msg.id, high <= msg.id, ChatAssumption
  PROVE  /\ BufferSound(Helper!Pushed(b, msg), low, msg.id)
         /\ msg.stay => StayCount(Helper!Pushed(b, msg)) <= StayCount(b) + 1
         /\ ~ msg.stay => StayCount(Helper!Pushed(b, msg)) <= StayCount(b)
<1>0. b \in Seq(Message) /\ StayCount(b) \in Nat /\ Len(b) \in Nat /\ BufferLen \in Nat \ {0}
  BY StayCountNat DEF BufferSound, ChatAssumption
<1>1. CASE Len(b) < BufferLen
  <2>1. Helper!Pushed(b, msg) = Append(b, msg)
    BY <1>1 DEF Helper!Pushed
  <2>2. BufferSound(Append(b, msg), low, msg.id)
    BY Zenon, <1>1, AppendSound
  <2> QED BY <1>0, <2>1, <2>2, AppendStays
<1>2. CASE ~ (Len(b) < BufferLen)
  <2>1. Helper!Pushed(b, msg) = Append(Tail(b), msg)
    BY <1>2 DEF Helper!Pushed
  <2>2. b # <<>>
    BY <1>0, <1>2
  <2>3. BufferSound(Tail(b), low, high)
    BY <2>2, TailSound, Zenon
  <2>4. Len(Tail(b)) < BufferLen /\ Tail(b) \in Seq(Message) /\ StayCount(Tail(b)) <= StayCount(b)
        /\ StayCount(Tail(b)) \in Nat
    <3>1. Tail(b) \in Seq(Message) /\ Len(Tail(b)) = Len(b) - 1
      BY <1>0, <2>2
    <3>2. StayCount(Tail(b)) \in Nat
      BY <3>1, StayCountNat
    <3>3. StayCount(Tail(b)) <= StayCount(b)
      BY <1>0, <2>2, <3>2, TailStays
    <3>4. Len(b) <= BufferLen
      BY DEF BufferSound
    <3> QED BY <1>0, <3>1, <3>2, <3>3, <3>4
  <2>5. BufferSound(Append(Tail(b), msg), low, msg.id)
    BY Zenon, <2>3, <2>4, AppendSound
  <2>6. /\ msg.stay => StayCount(Append(Tail(b), msg)) = StayCount(Tail(b)) + 1
        /\ ~ msg.stay => StayCount(Append(Tail(b), msg)) = StayCount(Tail(b))
    BY <2>4, AppendStays
  <2>7. /\ msg.stay => StayCount(Append(Tail(b), msg)) <= StayCount(b) + 1
        /\ ~ msg.stay => StayCount(Append(Tail(b), msg)) <= StayCount(b)
    BY <1>0, <2>4, <2>6
  <2> QED BY Zenon, <2>1, <2>5, <2>7
<1> QED BY <1>1, <1>2

-----------------------------------------------------------------------------
(* The away mode and the pings.                                             *)

Modes == [afk : BOOLEAN, activity : 0 .. ReturnAt - 1, ignore : Nat, mistaken : Nat]

\* CChillerBotUX::ReturnFromAfk takes at most one share of the counter, and only a message
\* queued with StayAfk takes the share that was meant for it.
LEMMA ReturnSound ==
  ASSUME ChatAssumption, NEW m \in Modes, NEW chat \in {"none", "command", "line", "stay"}
  PROVE  LET r == Helper!ReturnFromAfk(m, chat) IN
         /\ r \in Modes
         /\ r.ignore + r.mistaken <= m.ignore + m.mistaken
         /\ m.ignore + m.mistaken <= r.ignore + r.mistaken + 1
         /\ chat # "stay" => r.ignore + r.mistaken = m.ignore + m.mistaken
<1> DEFINE r == Helper!ReturnFromAfk(m, chat)
           ignored == chat \in {"line", "stay"} /\ m.ignore > 0
           gain == IF chat \in {"line", "stay"} /\ ~ignored THEN ReturnAt + 1 ELSE 1
           back == m.activity + gain >= ReturnAt
<1>1. /\ m.afk \in BOOLEAN /\ m.activity \in 0 .. ReturnAt - 1 /\ m.ignore \in Nat
      /\ m.mistaken \in Nat /\ ReturnAt \in Nat \ {0}
  BY DEF Modes, ChatAssumption
<1>2. CASE ~ m.afk
  <2>1. r = m
    BY <1>2 DEF Helper!ReturnFromAfk
  <2> QED BY <1>1, <2>1
<1>3. CASE m.afk
  <2>1. r = [afk |-> ~back,
             activity |-> IF back THEN 0 ELSE m.activity + gain,
             ignore |-> IF ignored THEN m.ignore - 1 ELSE m.ignore,
             mistaken |-> IF ignored /\ chat = "line" THEN m.mistaken + 1 ELSE m.mistaken]
    BY <1>3 DEF Helper!ReturnFromAfk
  <2>2. gain \in Nat
    BY <1>1
  <2>3. /\ r.afk = ~ back
        /\ r.activity = IF back THEN 0 ELSE m.activity + gain
        /\ r.ignore = IF ignored THEN m.ignore - 1 ELSE m.ignore
        /\ r.mistaken = IF ignored /\ chat = "line" THEN m.mistaken + 1 ELSE m.mistaken
        /\ r = [afk |-> r.afk, activity |-> r.activity, ignore |-> r.ignore,
                mistaken |-> r.mistaken]
    BY <2>1
  <2> HIDE DEF r, gain
  <2>4. r.afk \in BOOLEAN /\ r.activity \in 0 .. ReturnAt - 1
    BY <1>1, <2>2, <2>3
  <2>5. r.ignore \in Nat /\ r.mistaken \in Nat
    BY <1>1, <2>3
  <2>6. r \in Modes
    BY <2>3, <2>4, <2>5 DEF Modes
  <2>7. /\ r.ignore + r.mistaken <= m.ignore + m.mistaken
        /\ m.ignore + m.mistaken <= r.ignore + r.mistaken + 1
        /\ chat # "stay" => r.ignore + r.mistaken = m.ignore + m.mistaken
    BY <1>1, <2>3
  <2> QED BY <2>6, <2>7 DEF r
<1> QED BY <1>1, <1>2, <1>3

Pings == [id : Nat, team : Helper!Teams, able : BOOLEAN, spam : BOOLEAN]

\* The stack of pings: newest first, and none of the future.
PingsSound(p, n) ==
  /\ p \in Seq(Pings)
  /\ Len(p) <= PingQueueSize
  /\ \A i, j \in 1 .. Len(p) : i < j => p[j].id < p[i].id
  /\ \A i \in 1 .. Len(p) : p[i].id <= n

\* A part of the stack.
LEMMA SubPings ==
  ASSUME NEW p, NEW n \in Nat, PingsSound(p, n), NEW i \in 1 .. Len(p) + 1,
         NEW j \in 0 .. Len(p), ChatAssumption
  PROVE  PingsSound(SubSeq(p, i, j), n)
<1> DEFINE q == SubSeq(p, i, j)
<1>1. /\ p \in Seq(Pings) /\ Len(p) \in Nat /\ Len(p) <= PingQueueSize
      /\ PingQueueSize \in Nat
  BY DEF PingsSound, ChatAssumption
<1>2. /\ q \in Seq(Pings) /\ Len(q) \in Nat /\ Len(q) <= Len(p)
      /\ \A k \in 1 .. Len(q) : q[k] = p[i + k - 1] /\ i + k - 1 \in 1 .. Len(p)
  <2>1. CASE i <= j
    <3>1. Len(q) = j - i + 1 /\ \A k \in 1 .. j - i + 1 : q[k] = p[i + k - 1]
      BY <1>1, <2>1, SubSeqProperties
    <3>2. \A k \in 1 .. j - i + 1 : i + k - 1 \in 1 .. Len(p)
      BY <1>1
    <3>3. q \in Seq(Pings)
      BY <1>1, SubSeqProperties
    <3> QED BY <1>1, <2>1, <3>1, <3>2, <3>3
  <2>2. CASE i > j
    <3>1. q = <<>>
      BY <1>1, <2>2, SubSeqProperties
    <3> QED BY <1>1, <3>1
  <2> QED BY <1>1, <2>1, <2>2
<1> HIDE DEF q
<1>3. ASSUME NEW k \in 1 .. Len(q), NEW l \in 1 .. Len(q), k < l  PROVE q[l].id < q[k].id
  <2>1. PICK a \in 1 .. Len(p) : a = i + k - 1
    BY <1>2
  <2>2. PICK c \in 1 .. Len(p) : c = i + l - 1
    BY <1>2
  <2>3. a < c
    BY <1>1, <1>2, <1>3, <2>1, <2>2
  <2>4. p[c].id < p[a].id
    BY <2>3 DEF PingsSound
  <2> QED BY <1>2, <2>1, <2>2, <2>4
<1>4. ASSUME NEW k \in 1 .. Len(q)  PROVE q[k].id <= n
  BY <1>2 DEF PingsSound
<1>5. PingsSound(q, n)
  BY <1>1, <1>2, <1>3, <1>4 DEF PingsSound
<1> QED BY <1>5 DEF q

\* CChatHelper::PushPing.
LEMMA PushPingSound ==
  ASSUME NEW n \in Nat, PingsSound(pings, n), NEW msg \in Pings, msg.id = n + 1,
         ChatAssumption
  PROVE  PingsSound(Helper!PushPing(msg), n + 1)
<1>1. /\ pings \in Seq(Pings) /\ Len(pings) \in Nat /\ Len(pings) <= PingQueueSize
      /\ PingQueueSize \in Nat \ {0}
  BY DEF PingsSound, ChatAssumption
<1> DEFINE p == <<msg>> \o pings
           k == Helper!Min({PingQueueSize, Len(pings) + 1})
           q == SubSeq(p, 1, k)
<1>2. /\ p \in Seq(Pings) /\ Len(p) = Len(pings) + 1
      /\ p[1] = msg /\ \A i \in 2 .. Len(p) : p[i] = pings[i - 1]
  BY <1>1
<1>3. k \in 1 .. Len(p) /\ k <= PingQueueSize
  <2>1. \E x \in {PingQueueSize, Len(pings) + 1} :
          \A y \in {PingQueueSize, Len(pings) + 1} : x <= y
    BY <1>1
  <2>2. k \in {PingQueueSize, Len(pings) + 1}
        /\ \A y \in {PingQueueSize, Len(pings) + 1} : k <= y
    BY <2>1 DEF Helper!Min
  <2> QED BY <1>1, <1>2, <2>2
<1> HIDE DEF p, k
<1>4. q \in Seq(Pings) /\ Len(q) = k /\ \A i \in 1 .. k : q[i] = p[i]
  BY <1>2, <1>3, SubSeqProperties
<1> HIDE DEF q
<1>5. ASSUME NEW i \in 2 .. Len(p)
      PROVE  i - 1 \in 1 .. Len(pings) /\ p[i].id <= n /\ p[i].id \in Nat
  <2>1. i - 1 \in 1 .. Len(pings) /\ p[i] = pings[i - 1]
    BY <1>1, <1>2
  <2>2. pings[i - 1].id <= n /\ pings[i - 1] \in Pings
    BY <1>1, <2>1 DEF PingsSound
  <2> QED BY <2>1, <2>2 DEF Pings
<1>6. ASSUME NEW i \in 1 .. k, NEW j \in 1 .. k, i < j  PROVE q[j].id < q[i].id
  <2>1. q[i] = p[i] /\ q[j] = p[j] /\ j \in 2 .. Len(p) /\ i \in 1 .. Len(p)
    BY <1>3, <1>4, <1>6
  <2>2. CASE i = 1
    BY <1>2, <1>5, <2>1, <2>2
  <2>3. CASE i # 1
    <3>1. i \in 2 .. Len(p)
      BY <2>1, <2>3
    <3>2. i - 1 \in 1 .. Len(pings) /\ j - 1 \in 1 .. Len(pings) /\ i - 1 < j - 1
      BY <1>5, <1>6, <2>1, <3>1
    <3>3. pings[j - 1].id < pings[i - 1].id
      BY <3>2 DEF PingsSound
    <3> QED BY <1>2, <2>1, <3>1, <3>3
  <2> QED BY <2>2, <2>3
<1>7. ASSUME NEW i \in 1 .. k  PROVE q[i].id <= n + 1
  <2>1. q[i] = p[i] /\ i \in 1 .. Len(p)
    BY <1>3, <1>4
  <2>2. CASE i = 1
    BY <1>2, <2>1, <2>2
  <2>3. CASE i # 1
    <3>1. i \in 2 .. Len(p)
      BY <2>1, <2>3
    <3> QED BY <1>5, <2>1, <3>1
  <2> QED BY <2>2, <2>3
<1>8. PingsSound(q, n + 1)
  BY <1>3, <1>4, <1>6, <1>7 DEF PingsSound
<1> QED BY <1>8 DEF q, p, k, Helper!PushPing

-----------------------------------------------------------------------------
(* The chat helper.                                                         *)

BuffersSound ==
  /\ buf \in [Helper!Teams -> Seq(Message)]
  /\ saidLast \in [Helper!Teams -> Nat]
  /\ \A t \in Helper!Teams : saidLast[t] <= arrived /\ BufferSound(buf[t], saidLast[t], arrived)

ModeSound ==
  /\ afk \in BOOLEAN
  /\ activity \in 0 .. ReturnAt - 1
  /\ ignore \in Nat
  /\ mistaken \in Nat
  /\ ignore + mistaken <= arrived

Covered == StayCount(buf["all"]) + StayCount(buf["team"]) <= ignore + mistaken

HelperInv ==
  /\ arrived \in 0 .. MaxMsgs
  /\ ownTyped \in 0 .. MaxOwn
  /\ ready \in BOOLEAN
  /\ ModeSound
  /\ BuffersSound
  /\ Covered
  /\ PingsSound(pings, arrived)
  /\ Helper!RepliesToNewest
  /\ Helper!BackByMistakeOnly

LEMMA HelperInitInv ==
  ASSUME ChatAssumption, Helper!Init  PROVE HelperInv
<1>1. arrived \in 0 .. MaxMsgs /\ ownTyped \in 0 .. MaxOwn /\ ready \in BOOLEAN
  BY DEF Helper!Init, ChatAssumption
<1>2. ModeSound
  <2>1. afk = FALSE /\ activity = 0 /\ ignore = 0 /\ mistaken = 0 /\ arrived = 0
    BY DEF Helper!Init
  <2>2. ReturnAt \in Nat \ {0}
    BY DEF ChatAssumption
  <2>3. afk \in BOOLEAN
    BY Zenon, <2>1
  <2>4. activity \in 0 .. ReturnAt - 1 /\ ignore \in Nat /\ mistaken \in Nat
        /\ ignore + mistaken <= arrived
    BY <2>1, <2>2
  <2> QED BY Zenon, <2>3, <2>4 DEF ModeSound
<1>3. BuffersSound
  <2>1. BufferSound(<<>>, 0, 0)
    BY DEF BufferSound, OldestFirst, ChatAssumption
  <2>2. buf \in [Helper!Teams -> Seq(Message)] /\ saidLast \in [Helper!Teams -> Nat]
    BY DEF Helper!Init
  <2>3. \A t \in Helper!Teams : buf[t] = <<>> /\ saidLast[t] = 0 /\ arrived = 0
    BY DEF Helper!Init
  <2> QED BY <2>1, <2>2, <2>3 DEF BuffersSound
<1>4. Covered
  <2>1. buf["all"] = <<>> /\ buf["team"] = <<>> /\ ignore = 0 /\ mistaken = 0
    BY DEF Helper!Init, Helper!Teams
  <2> QED BY <2>1, NoStays DEF Covered
<1>5. PingsSound(pings, arrived)
  BY DEF Helper!Init, PingsSound, ChatAssumption
<1>6. Helper!RepliesToNewest /\ Helper!BackByMistakeOnly
  BY DEF Helper!Init, Helper!RepliesToNewest, Helper!BackByMistakeOnly, Helper!Nothing
<1> QED BY <1>1, <1>2, <1>3, <1>4, <1>5, <1>6 DEF HelperInv

\* A step in which no ping was answered and no buffer was sent from.
LEMMA NothingDone ==
  ASSUME lastStep' = Helper!Nothing
  PROVE  Helper!RepliesToNewest' /\ Helper!BackByMistakeOnly'
BY DEF Helper!RepliesToNewest, Helper!BackByMistakeOnly, Helper!Nothing

\* The record of the away mode.
LEMMA ModeTyped ==
  ASSUME ModeSound
  PROVE  /\ Helper!Mode \in Modes
         /\ Helper!Mode.ignore = ignore /\ Helper!Mode.mistaken = mistaken
BY DEF ModeSound, Modes, Helper!Mode

\* A mode that is set, with as many shares as before.
LEMMA ModeSet ==
  ASSUME HelperInv, NEW m \in Modes, Helper!SetMode(m),
         m.ignore + m.mistaken <= arrived', arrived' \in Nat
  PROVE  ModeSound' /\ ignore' + mistaken' = m.ignore + m.mistaken
BY DEF Helper!SetMode, Modes, ModeSound

\* Every action but those of the buffers.
LEMMA BuffersUnchanged ==
  ASSUME HelperInv, UNCHANGED <<buf, saidLast, arrived>>
  PROVE  BuffersSound' /\ (ignore' + mistaken' = ignore + mistaken => Covered')
BY DEF HelperInv, BuffersSound, Covered

LEMMA ShareKept ==
  ASSUME ChatAssumption, HelperInv, NEW chat \in {"none", "command", "line"},
         Helper!SetMode(Helper!ReturnFromAfk(Helper!Mode, chat)), UNCHANGED arrived
  PROVE  ModeSound' /\ ignore' + mistaken' = ignore + mistaken
<1>1. ModeSound /\ arrived \in Nat
  BY DEF HelperInv
<1> DEFINE r == Helper!ReturnFromAfk(Helper!Mode, chat)
<1>2. r \in Modes /\ r.ignore + r.mistaken = ignore + mistaken
  <2>1. chat \in {"none", "command", "line", "stay"} /\ chat # "stay"
    OBVIOUS
  <2>2. r \in Modes
        /\ r.ignore + r.mistaken = Helper!Mode.ignore + Helper!Mode.mistaken
    BY Zenon, <1>1, <2>1, ModeTyped, ReturnSound
  <2> QED BY <1>1, <2>2, ModeTyped
<1> HIDE DEF r
<1>3. Helper!SetMode(r)
  BY DEF r
<1>4. r.ignore + r.mistaken <= arrived' /\ arrived' \in Nat
  BY <1>1, <1>2 DEF ModeSound
<1> QED BY <1>2, <1>3, <1>4, ModeSet

\* The steps that only touch the mode: a key, a line or a command of the player, the fading
\* of the activity, going away, and the timer of the buffers.
LEMMA ModeStepInv ==
  ASSUME ChatAssumption, HelperInv,
         \/ Helper!OnInput \/ Helper!GoAfk \/ Helper!FadeActivity \/ Helper!BufferReady
         \/ \E chat \in {"line", "command"} : Helper!SendChat(chat)
  PROVE  HelperInv'
<1>1. UNCHANGED <<buf, saidLast, arrived, pings>> /\ lastStep' = Helper!Nothing
  BY DEF Helper!OnInput, Helper!GoAfk, Helper!FadeActivity, Helper!BufferReady, Helper!SendChat
<1>2. arrived' \in 0 .. MaxMsgs /\ ready' \in BOOLEAN /\ ownTyped' \in 0 .. MaxOwn
  <2>1. /\ ready' \in {ready, TRUE}
        /\ ownTyped' = ownTyped \/ (ownTyped < MaxOwn /\ ownTyped' = ownTyped + 1)
    BY DEF Helper!OnInput, Helper!GoAfk, Helper!FadeActivity, Helper!BufferReady,
       Helper!SendChat
  <2>2. ready \in BOOLEAN /\ ownTyped \in 0 .. MaxOwn /\ arrived \in 0 .. MaxMsgs
        /\ MaxOwn \in Nat
    BY DEF HelperInv, ChatAssumption
  <2>3. ready' \in BOOLEAN
    BY Zenon, <2>1, <2>2
  <2>4. arrived' \in 0 .. MaxMsgs /\ ownTyped' \in 0 .. MaxOwn
    BY <1>1, <2>1, <2>2
  <2> QED BY Zenon, <2>3, <2>4
<1>3. ModeSound' /\ ignore' + mistaken' = ignore + mistaken
  <2>1. CASE Helper!OnInput
    BY <1>1, <2>1, ShareKept DEF Helper!OnInput
  <2>2. CASE \E chat \in {"line", "command"} : Helper!SendChat(chat)
    <3>1. PICK chat \in {"line", "command"} : Helper!SendChat(chat)
      BY <2>2
    <3>2. chat \in {"none", "command", "line"}
      OBVIOUS
    <3>3. Helper!SetMode(Helper!ReturnFromAfk(Helper!Mode, chat))
      BY <3>1 DEF Helper!SendChat
    <3> QED BY Zenon, <1>1, <3>2, <3>3, ShareKept
  <2>3. CASE Helper!GoAfk
    <3>1. afk' = TRUE /\ activity' = 0 /\ ignore' = ignore /\ mistaken' = mistaken
      BY <2>3 DEF Helper!GoAfk, Helper!SetMode, Helper!Mode
    <3> QED BY <1>1, <3>1 DEF ModeSound, HelperInv, ChatAssumption
  <2>4. CASE Helper!FadeActivity
    <3>1. activity > 0 /\ activity' = activity - 1 /\ UNCHANGED <<afk, ignore, mistaken>>
      BY <2>4 DEF Helper!FadeActivity
    <3> QED BY <1>1, <3>1 DEF ModeSound, HelperInv, ChatAssumption
  <2>5. CASE Helper!BufferReady
    <3>1. UNCHANGED <<afk, activity, ignore, mistaken>>
      BY <2>5 DEF Helper!BufferReady
    <3> QED BY <1>1, <3>1 DEF ModeSound, HelperInv, ChatAssumption
  <2> QED BY <2>1, <2>2, <2>3, <2>4, <2>5
<1>4. PingsSound(pings, arrived)'
  BY <1>1 DEF HelperInv
<1> QED BY <1>1, <1>2, <1>3, <1>4, BuffersUnchanged, NothingDone DEF HelperInv

LEMMA ExpirePingsInv ==
  ASSUME ChatAssumption, HelperInv, Helper!ExpirePings  PROVE HelperInv'
<1>1. /\ UNCHANGED <<buf, saidLast, arrived, ready, ownTyped, afk, activity, ignore, mistaken>>
      /\ lastStep' = Helper!Nothing
  BY DEF Helper!ExpirePings
<1>2. PICK k \in 0 .. Len(pings) - 1 : pings' = SubSeq(pings, 1, k)
  BY DEF Helper!ExpirePings
<1>3. PingsSound(pings, arrived) /\ arrived \in Nat /\ Len(pings) \in Nat
  BY DEF HelperInv, PingsSound
<1>4. PingsSound(pings', arrived)
  BY <1>2, <1>3, SubPings
<1>5. ModeSound'
  BY <1>1 DEF HelperInv, ModeSound
<1> QED BY <1>1, <1>4, <1>5, BuffersUnchanged, NothingDone DEF HelperInv

LEMMA ReplyToLastPingInv ==
  ASSUME ChatAssumption, HelperInv, Helper!ReplyToLastPing  PROVE HelperInv'
<1> DEFINE able == {i \in DOMAIN pings : pings[i].able}
           n == IF able = {} THEN Len(pings) ELSE Helper!Min(able)
<1>1. /\ pings \in Seq(Pings) /\ Len(pings) \in Nat /\ pings # <<>>
      /\ PingsSound(pings, arrived) /\ arrived \in Nat /\ DOMAIN pings = 1 .. Len(pings)
  BY DEF HelperInv, PingsSound, Helper!ReplyToLastPing
<1>2. /\ UNCHANGED <<buf, saidLast, arrived, ready>>
      /\ ownTyped < MaxOwn
      /\ ownTyped' = IF able = {} THEN ownTyped ELSE ownTyped + 1
      /\ pings' = SubSeq(pings, n + 1, Len(pings))
      /\ Helper!SetMode(IF able = {} THEN Helper!Mode
                        ELSE Helper!ReturnFromAfk(Helper!Mode, "line"))
      /\ lastStep' = [back |-> {}, answered |-> IF able = {} THEN 0 ELSE pings[n].id,
                      passed |-> {pings[j].id : j \in 1 .. n - 1}]
  BY Zenon DEF Helper!ReplyToLastPing
<1>3. n \in 1 .. Len(pings)
  <2>1. CASE able = {}
    BY <1>1, <2>1
  <2>2. CASE able # {}
    <3>1. able \subseteq 1 .. Len(pings) /\ able \in SUBSET Nat
      BY <1>1
    <3>2. \E x \in able : \A y \in able : x <= y
      BY <2>2, <3>1, SmallestNumber
    <3>3. Helper!Min(able) \in able
      BY <3>2 DEF Helper!Min
    <3> QED BY <2>2, <3>1, <3>3
  <2> QED BY <2>1, <2>2
<1> HIDE DEF n
<1>4. PingsSound(pings', arrived)
  BY <1>1, <1>2, <1>3, SubPings
<1>5. ownTyped' \in 0 .. MaxOwn
  BY <1>2 DEF HelperInv, ChatAssumption
<1>6. ModeSound' /\ ignore' + mistaken' = ignore + mistaken
  <2>1. CASE able = {}
    <3>1. Helper!SetMode(Helper!Mode)
      BY <1>2, <2>1
    <3>2. UNCHANGED <<afk, activity, ignore, mistaken>>
      BY <3>1 DEF Helper!SetMode, Helper!Mode
    <3> QED BY <1>2, <3>2 DEF ModeSound, HelperInv
  <2>2. CASE able # {}
    <3>1. Helper!SetMode(Helper!ReturnFromAfk(Helper!Mode, "line"))
      BY <1>2, <2>2
    <3> QED BY <1>2, <3>1, ShareKept
  <2> QED BY <2>1, <2>2
<1>7. Helper!RepliesToNewest'
  <2>1. CASE able = {}
    <3>1. lastStep'.answered = 0
      BY <1>2, <2>1
    <3> QED BY <3>1 DEF Helper!RepliesToNewest
  <2>2. CASE able # {}
    <3>1. /\ lastStep'.answered = pings[n].id
          /\ lastStep'.passed = {pings[j].id : j \in 1 .. n - 1}
      BY <1>2, <2>2
    <3>2. \A j \in 1 .. n - 1 : pings[j].id > pings[n].id
      <4>1. \A j \in 1 .. n - 1 : j \in 1 .. Len(pings) /\ j < n
        BY <1>1, <1>3
      <4> QED BY <1>1, <1>3, <4>1 DEF PingsSound
    <3>3. ASSUME NEW i \in 1 .. Len(pings')  PROVE pings'[i].id < pings[n].id
      <4>1. /\ Len(pings') = Len(pings) - n
            /\ \A k \in 1 .. Len(pings) - n : pings'[k] = pings[n + k]
        <5>1. \A k \in n + 1 .. Len(pings) : pings[k] \in Pings
          BY <1>1, <1>3
        <5>2. /\ Len(pings') = IF n + 1 <= Len(pings) THEN Len(pings) - (n + 1) + 1 ELSE 0
              /\ \A k \in 1 .. Len(pings) - (n + 1) + 1 : pings'[k] = pings[(n + 1) + k - 1]
          BY <1>1, <1>2, <1>3, <5>1, SubSeqProperties
        <5>3. Len(pings') = Len(pings) - n
          <6>1. Len(pings') = IF n + 1 <= Len(pings) THEN Len(pings) - (n + 1) + 1 ELSE 0
            BY Zenon, <5>2
          <6>2. n \in Nat /\ n <= Len(pings) /\ Len(pings) \in Nat
            BY <1>1, <1>3
          <6> HIDE DEF able
          <6> QED BY <6>1, <6>2
        <5>4. ASSUME NEW k \in 1 .. Len(pings) - n  PROVE pings'[k] = pings[n + k]
          <6>1. k \in 1 .. Len(pings) - (n + 1) + 1 /\ (n + 1) + k - 1 = n + k
            BY <1>1, <1>3
          <6>2. pings'[k] = pings[(n + 1) + k - 1]
            BY Zenon, <5>2, <6>1
          <6> QED BY Zenon, <6>1, <6>2
        <5> QED BY <5>3, <5>4
      <4>2. pings'[i] = pings[n + i]
        BY Zenon, <3>3, <4>1
      <4>3. n + i \in 1 .. Len(pings) /\ n < n + i
        BY <1>1, <1>3, <4>1
      <4>4. pings[n + i].id < pings[n].id
        BY <1>1, <1>3, <4>3 DEF PingsSound
      <4> QED BY <4>2, <4>4
    <3>4. DOMAIN pings' = 1 .. Len(pings')
      BY <1>4 DEF PingsSound
    <3>5. \A p \in lastStep'.passed : p > lastStep'.answered
      BY <3>1, <3>2
    <3>6. \A i \in DOMAIN pings' : pings'[i].id < lastStep'.answered
      BY <3>1, <3>3, <3>4
    <3> QED BY <3>5, <3>6 DEF Helper!RepliesToNewest
  <2> QED BY <2>1, <2>2
<1>8. Helper!BackByMistakeOnly'
  <2>1. lastStep'.back = {}
    BY <1>2
  <2> QED BY <2>1 DEF Helper!BackByMistakeOnly
<1> QED BY <1>2, <1>4, <1>5, <1>6, <1>7, <1>8, BuffersUnchanged DEF HelperInv

-----------------------------------------------------------------------------
\* A buffer is sound for later messages too.
LEMMA Widen ==
  ASSUME NEW b, NEW low \in Nat, NEW high \in Nat, NEW higher \in Nat, high <= higher,
         BufferSound(b, low, high)
  PROVE  BufferSound(b, low, higher)
<1>1. \A i \in 1 .. Len(b) : b[i].id \in Nat
  <2>1. \A i \in 1 .. Len(b) : b[i] \in Message
    BY DEF BufferSound
  <2> QED BY <2>1 DEF Message
<1>2. OldestFirst(b, low, higher)
  BY <1>1 DEF BufferSound, OldestFirst
<1> QED BY <1>2 DEF BufferSound

\* FilterChat queues one message at most, which ends the away mode.
LEMMA FilteredSound ==
  ASSUME ChatAssumption, NEW b, NEW low \in Nat, NEW high \in Nat, NEW msg \in Pings,
         BufferSound(b, low, high), low <= high, high <= msg.id
  PROVE  /\ BufferSound(Helper!Filtered(b, msg), low, msg.id)
         /\ StayCount(Helper!Filtered(b, msg)) <= StayCount(b)
<1> DEFINE r == [id |-> msg.id, stay |-> FALSE]
<1>1. /\ r \in Message /\ r.id = msg.id /\ ~ r.stay /\ msg.id \in Nat /\ low <= r.id
      /\ high <= r.id
  BY DEF Message, Pings
<1>2. StayCount(b) \in Nat
  BY StayCountNat DEF BufferSound
<1>3. CASE SpamReply /\ msg.spam /\ ~ Helper!IsAfk
  <2>1. Helper!Filtered(b, msg) = Helper!Pushed(b, r)
    BY Zenon, <1>3 DEF Helper!Filtered
  <2> HIDE DEF r
  <2>2. /\ BufferSound(Helper!Pushed(b, r), low, r.id)
        /\ StayCount(Helper!Pushed(b, r)) <= StayCount(b)
    BY Zenon, <1>1, PushedSound
  <2> QED BY Zenon, <1>1, <2>1, <2>2
<1>4. CASE ~ (SpamReply /\ msg.spam /\ ~ Helper!IsAfk)
  <2>1. Helper!Filtered(b, msg) = b
    BY Zenon, <1>4 DEF Helper!Filtered
  <2>2. BufferSound(b, low, msg.id)
    BY <1>1, Widen
  <2> QED BY <1>2, <2>1, <2>2
<1> QED BY Zenon, <1>3, <1>4

\* One buffer changes when a message arrives.
LEMMA BufferPut ==
  ASSUME ChatAssumption, HelperInv, NEW t \in Helper!Teams, NEW b, NEW n \in Nat,
         buf' = [buf EXCEPT ![t] = b], saidLast' = saidLast, arrived' = arrived + 1,
         BufferSound(b, saidLast[t], arrived + 1), StayCount(b) <= StayCount(buf[t]) + n
  PROVE  /\ BuffersSound'
         /\ StayCount(buf'["all"]) + StayCount(buf'["team"])
              <= StayCount(buf["all"]) + StayCount(buf["team"]) + n
<1>1. /\ BuffersSound /\ arrived \in Nat
      /\ buf \in [Helper!Teams -> Seq(Message)] /\ saidLast \in [Helper!Teams -> Nat]
  BY DEF HelperInv, BuffersSound
<1>2. b \in Seq(Message)
  BY DEF BufferSound
<1>3. buf' \in [Helper!Teams -> Seq(Message)] /\ saidLast' \in [Helper!Teams -> Nat]
      /\ buf'[t] = b /\ \A u \in Helper!Teams : u # t => buf'[u] = buf[u]
  BY <1>1, <1>2
<1>4. ASSUME NEW u \in Helper!Teams
      PROVE  saidLast'[u] <= arrived' /\ BufferSound(buf'[u], saidLast'[u], arrived')
  <2>1. saidLast[u] \in Nat /\ saidLast[u] <= arrived /\ BufferSound(buf[u], saidLast[u], arrived)
    BY <1>1 DEF BuffersSound
  <2>2. saidLast'[u] <= arrived'
    BY <1>1, <2>1
  <2>3. BufferSound(buf'[u], saidLast[u], arrived + 1)
    <3>1. CASE u = t
      BY <1>3, <3>1
    <3>2. CASE u # t
      <4>1. BufferSound(buf[u], saidLast[u], arrived + 1)
        BY <1>1, <2>1, Widen
      <4> QED BY Zenon, <1>3, <3>2, <4>1
    <3> QED BY <3>1, <3>2
  <2> QED BY Zenon, <2>2, <2>3
<1>5. \A u \in Helper!Teams : StayCount(buf[u]) \in Nat /\ StayCount(buf'[u]) \in Nat
  BY <1>1, <1>3, StayCountNat
<1>6. StayCount(buf'["all"]) + StayCount(buf'["team"])
        <= StayCount(buf["all"]) + StayCount(buf["team"]) + n
  <2>1. "all" \in Helper!Teams /\ "team" \in Helper!Teams /\ "all" # "team"
        /\ t \in {"all", "team"}
    BY DEF Helper!Teams
  <2>2. CASE t = "all"
    <3>1. buf'["all"] = b /\ buf'["team"] = buf["team"] /\ StayCount(b) <= StayCount(buf["all"]) + n
      BY <1>3, <2>1, <2>2
    <3>2. /\ StayCount(buf["all"]) \in Nat /\ StayCount(buf["team"]) \in Nat
          /\ StayCount(b) \in Nat
      BY <1>5, <2>1, <3>1
    <3>3. StayCount(buf'["all"]) = StayCount(b) /\ StayCount(buf'["team"]) = StayCount(buf["team"])
      BY Zenon, <3>1
    <3> QED BY <3>1, <3>2, <3>3
  <2>3. CASE t = "team"
    <3>1. buf'["team"] = b /\ buf'["all"] = buf["all"] /\ StayCount(b) <= StayCount(buf["team"]) + n
      BY <1>3, <2>1, <2>3
    <3>2. /\ StayCount(buf["all"]) \in Nat /\ StayCount(buf["team"]) \in Nat
          /\ StayCount(b) \in Nat
      BY <1>5, <2>1, <3>1
    <3>3. StayCount(buf'["team"]) = StayCount(b) /\ StayCount(buf'["all"]) = StayCount(buf["all"])
      BY Zenon, <3>1
    <3> QED BY <3>1, <3>2, <3>3
  <2> QED BY <2>1, <2>2, <2>3
<1> QED BY Zenon, <1>3, <1>4, <1>6 DEF BuffersSound

LEMMA OnRepeatedMessageInv ==
  ASSUME ChatAssumption, HelperInv, Helper!OnRepeatedMessage  PROVE HelperInv'
<1> DEFINE msg == [Head(pings) EXCEPT !.id = arrived + 1]
           b == Helper!Filtered(buf[msg.team], msg)
<1>1. /\ pings # <<>> /\ arrived < MaxMsgs /\ arrived' = arrived + 1
      /\ buf' = [buf EXCEPT ![msg.team] = b]
      /\ lastStep' = Helper!Nothing
      /\ UNCHANGED <<afk, activity, ignore, ready, pings, ownTyped, saidLast, mistaken>>
  BY Zenon DEF Helper!OnRepeatedMessage, Helper!Filtered
<1>2. /\ arrived \in Nat /\ MaxMsgs \in Nat /\ PingsSound(pings, arrived)
      /\ pings \in Seq(Pings) /\ ModeSound /\ Covered /\ BuffersSound
  BY DEF HelperInv, PingsSound, ChatAssumption
<1>3. Head(pings) \in Pings
  BY <1>1, <1>2
<1>4. msg \in Pings /\ msg.id = arrived + 1 /\ msg.team \in Helper!Teams
  BY <1>2, <1>3 DEF Pings
<1> HIDE DEF msg
<1>5. /\ BufferSound(buf[msg.team], saidLast[msg.team], arrived)
      /\ saidLast[msg.team] <= arrived /\ saidLast[msg.team] \in Nat
  BY <1>2, <1>4 DEF BuffersSound
<1>6. BufferSound(b, saidLast[msg.team], arrived + 1) /\ StayCount(b) <= StayCount(buf[msg.team])
  <2>1. arrived <= msg.id
    BY <1>2, <1>4
  <2>2. /\ BufferSound(b, saidLast[msg.team], msg.id)
        /\ StayCount(b) <= StayCount(buf[msg.team])
    BY Zenon, <1>2, <1>4, <1>5, <2>1, FilteredSound
  <2> QED BY Zenon, <1>4, <2>2
<1> HIDE DEF b
<1>7. /\ BuffersSound'
      /\ StayCount(buf'["all"]) + StayCount(buf'["team"])
           <= StayCount(buf["all"]) + StayCount(buf["team"]) + 0
  <2>1. StayCount(b) <= StayCount(buf[msg.team]) + 0
    <3>1. StayCount(buf[msg.team]) \in Nat
      BY <1>2, <1>4, StayCountNat DEF BuffersSound
    <3> QED BY <1>6, <3>1
  <2>2. 0 \in Nat
    OBVIOUS
  <2> QED BY Zenon, <1>1, <1>4, <1>6, <2>1, <2>2, BufferPut
<1>8. Covered'
  <2>1. \A u \in Helper!Teams : StayCount(buf[u]) \in Nat /\ StayCount(buf'[u]) \in Nat
    BY <1>2, <1>7, StayCountNat DEF BuffersSound
  <2>2. "all" \in Helper!Teams /\ "team" \in Helper!Teams
    BY DEF Helper!Teams
  <2> QED BY <1>1, <1>2, <1>7, <2>1, <2>2 DEF Covered, ModeSound
<1>9. ModeSound'
  BY <1>1, <1>2 DEF ModeSound
<1>10. PingsSound(pings', arrived')
  <2>1. \A i \in 1 .. Len(pings) : pings[i] \in Pings /\ pings[i].id <= arrived
    BY <1>2 DEF PingsSound
  <2>2. ASSUME NEW i \in 1 .. Len(pings)  PROVE pings[i].id <= arrived + 1
    <3>1. pings[i] \in Pings /\ pings[i].id <= arrived
      BY Zenon, <2>1
    <3>2. pings[i].id \in Nat
      BY Zenon, <3>1 DEF Pings
    <3>3. PICK n \in Nat : n = pings[i].id
      BY Zenon, <3>2
    <3>4. n <= arrived /\ arrived \in Nat
      BY Zenon, <1>2, <3>1, <3>3
    <3>5. n <= arrived + 1
      BY <3>4
    <3> QED BY Zenon, <3>3, <3>5
  <2>3. PingsSound(pings, arrived + 1)
    BY <1>2, <2>2 DEF PingsSound
  <2> QED BY Zenon, <1>1, <2>3
<1>11. arrived' \in 0 .. MaxMsgs /\ ownTyped' \in 0 .. MaxOwn /\ ready' \in BOOLEAN
  BY <1>1, <1>2 DEF HelperInv
<1> QED BY Zenon, <1>1, <1>7, <1>8, <1>9, <1>10, <1>11, NothingDone DEF HelperInv

LEMMA OnChatMessageInv ==
  ASSUME ChatAssumption, HelperInv, NEW msg \in Pings, msg.id = arrived + 1,
         NEW tabbed \in BOOLEAN, Helper!OnChatMessage(msg, tabbed)
  PROVE  HelperInv'
<1> DEFINE noted == Helper!IsAfk \/ tabbed
           filtered == Helper!Filtered(buf[msg.team], msg)
           note == [id |-> msg.id, stay |-> TRUE]
           queued == [Helper!Mode EXCEPT !.ignore = IF noted THEN @ + 1 ELSE @]
           b == IF noted THEN Helper!Pushed(filtered, note) ELSE filtered
           m == IF AutoReply /\ ~noted THEN Helper!ReturnFromAfk(queued, "line") ELSE queued
           n == IF noted THEN 1 ELSE 0
           t == msg.team
<1>1. /\ arrived < MaxMsgs /\ arrived' = arrived + 1
      /\ pings' = Helper!PushPing(msg)
      /\ buf' = [buf EXCEPT ![t] = b]
      /\ Helper!SetMode(m)
      /\ lastStep' = Helper!Nothing
      /\ UNCHANGED <<ready, ownTyped, saidLast>>
  BY Zenon DEF Helper!OnChatMessage
<1>2. /\ arrived \in Nat /\ MaxMsgs \in Nat /\ PingsSound(pings, arrived)
      /\ pings \in Seq(Pings) /\ ModeSound /\ Covered /\ BuffersSound
  BY DEF HelperInv, PingsSound, ChatAssumption
<1>3. t \in Helper!Teams
  BY DEF Pings
<1>4. /\ BufferSound(buf[t], saidLast[t], arrived) /\ buf[t] \in Seq(Message)
      /\ saidLast[t] <= arrived /\ saidLast[t] \in Nat
      /\ StayCount(buf[t]) \in Nat
  BY <1>2, <1>3, StayCountNat DEF BuffersSound
<1>5. /\ BufferSound(filtered, saidLast[t], msg.id)
      /\ StayCount(filtered) <= StayCount(buf[t])
      /\ StayCount(filtered) \in Nat
      /\ msg.id \in Nat
  <2>1. arrived <= msg.id /\ msg.id \in Nat
    BY <1>2
  <2>2. /\ BufferSound(filtered, saidLast[t], msg.id)
        /\ StayCount(filtered) <= StayCount(buf[t])
    BY Zenon, <1>2, <1>4, <2>1, FilteredSound
  <2> HIDE DEF filtered
  <2>3. filtered \in Seq(Message)
    BY <2>2 DEF BufferSound
  <2> QED BY <2>1, <2>2, <2>3, StayCountNat
<1>6. /\ noted => n = 1 /\ b = Helper!Pushed(filtered, note) /\ queued.ignore = ignore + 1
      /\ ~ noted => n = 0 /\ b = filtered /\ queued.ignore = ignore
      /\ queued.mistaken = mistaken /\ queued \in Modes
  <2>1. Helper!Mode \in Modes /\ Helper!Mode.ignore = ignore /\ Helper!Mode.mistaken = mistaken
        /\ ignore \in Nat
    BY <1>2, ModeTyped DEF ModeSound
  <2> HIDE DEF noted, filtered, note
  <2>2. noted => n = 1 /\ b = Helper!Pushed(filtered, note)
    OBVIOUS
  <2>3. ~ noted => n = 0 /\ b = filtered
    OBVIOUS
  <2>4. noted => queued.ignore = ignore + 1
    BY <2>1 DEF Modes
  <2>5. ~ noted => queued.ignore = ignore
    BY <2>1 DEF Modes
  <2>6. queued.mistaken = mistaken
    BY <2>1 DEF Modes
  <2>7. queued \in Modes
    BY <2>1 DEF Modes
  <2> QED BY <2>2, <2>3, <2>4, <2>5, <2>6, <2>7
<1>7. note \in Message /\ note.id = msg.id /\ note.stay
  BY <1>5 DEF Message
<1>8. /\ n <= 1
      /\ noted => m = queued
      /\ m = queued \/ m = Helper!ReturnFromAfk(queued, "line")
  OBVIOUS
<1> HIDE DEF noted, filtered, note, n, b, queued, m
<1>9. ASSUME noted
      PROVE  /\ StayCount(b) <= StayCount(buf[t]) + n
             /\ m \in Modes /\ m.ignore + m.mistaken = ignore + mistaken + n
             /\ n \in Nat /\ BufferSound(b, saidLast[t], arrived + 1)
  <2>1. n = 1 /\ b = Helper!Pushed(filtered, note) /\ queued.ignore = ignore + 1
    BY <1>6, <1>9
  <2>2. saidLast[t] <= note.id /\ msg.id <= note.id
    BY <1>2, <1>4, <1>7
  <2>3. /\ BufferSound(b, saidLast[t], msg.id)
        /\ StayCount(b) <= StayCount(filtered) + 1
    <3>1. /\ BufferSound(Helper!Pushed(filtered, note), saidLast[t], note.id)
          /\ StayCount(Helper!Pushed(filtered, note)) <= StayCount(filtered) + 1
      BY Zenon, <1>4, <1>5, <1>7, <2>2, PushedSound
    <3> QED BY Zenon, <1>7, <2>1, <3>1
  <2>4. StayCount(b) \in Nat
    BY <2>3, StayCountNat DEF BufferSound
  <2>5. StayCount(b) <= StayCount(buf[t]) + n
    BY <1>4, <1>5, <2>1, <2>3, <2>4
  <2>6. m = queued
    BY <1>8, <1>9
  <2>7. m.ignore + m.mistaken = ignore + mistaken + n /\ m \in Modes
    BY <1>2, <1>6, <2>1, <2>6 DEF ModeSound
  <2>8. n \in Nat /\ BufferSound(b, saidLast[t], arrived + 1)
    BY <2>1, <2>3
  <2> QED BY Zenon, <2>5, <2>7, <2>8
<1>10. ASSUME ~ noted
       PROVE  /\ StayCount(b) <= StayCount(buf[t]) + n
              /\ m \in Modes /\ m.ignore + m.mistaken = ignore + mistaken + n
              /\ n \in Nat /\ BufferSound(b, saidLast[t], arrived + 1)
  <2>1. n = 0 /\ b = filtered /\ queued.ignore = ignore
    BY <1>6, <1>10
  <2>2. m = queued \/ m = Helper!ReturnFromAfk(queued, "line")
    BY <1>8
  <2>3. BufferSound(b, saidLast[t], msg.id) /\ StayCount(b) <= StayCount(buf[t]) + n
    BY <1>4, <1>5, <2>1
  <2>4. m \in Modes /\ m.ignore + m.mistaken = queued.ignore + queued.mistaken
    <3> DEFINE r == Helper!ReturnFromAfk(queued, "line")
    <3>1. r \in Modes /\ r.ignore + r.mistaken = queued.ignore + queued.mistaken
      <4>1. "line" \in {"none", "command", "line", "stay"} /\ "line" # "stay"
        OBVIOUS
      <4> QED BY Zenon, <1>6, <4>1, ReturnSound
    <3> QED BY Zenon, <1>6, <2>2, <3>1
  <2>5. m.ignore + m.mistaken = ignore + mistaken + n
    BY <1>2, <1>6, <2>1, <2>4 DEF ModeSound
  <2>6. n \in Nat /\ BufferSound(b, saidLast[t], arrived + 1)
    BY <2>1, <2>3
  <2> QED BY Zenon, <2>3, <2>4, <2>5, <2>6
<1>11. /\ StayCount(b) <= StayCount(buf[t]) + n
       /\ m \in Modes /\ m.ignore + m.mistaken = ignore + mistaken + n
       /\ n \in Nat /\ BufferSound(b, saidLast[t], arrived + 1)
  BY Zenon, <1>9, <1>10
<1>12. /\ BuffersSound'
       /\ StayCount(buf'["all"]) + StayCount(buf'["team"])
            <= StayCount(buf["all"]) + StayCount(buf["team"]) + n
  BY Zenon, <1>1, <1>3, <1>11, BufferPut
<1>13. ModeSound' /\ ignore' + mistaken' = ignore + mistaken + n
  <2>1. m.ignore + m.mistaken <= arrived' /\ arrived' \in Nat
    BY <1>1, <1>2, <1>11, <1>8 DEF ModeSound
  <2>2. ModeSound' /\ ignore' + mistaken' = m.ignore + m.mistaken
    BY Zenon, <1>1, <1>11, <2>1, ModeSet
  <2> QED BY <1>11, <2>2
<1>14. Covered'
  <2>1. \A u \in Helper!Teams : StayCount(buf[u]) \in Nat /\ StayCount(buf'[u]) \in Nat
    BY <1>2, <1>12, StayCountNat DEF BuffersSound
  <2>2. "all" \in Helper!Teams /\ "team" \in Helper!Teams
    BY DEF Helper!Teams
  <2>3. ignore \in Nat /\ mistaken \in Nat
        /\ StayCount(buf["all"]) + StayCount(buf["team"]) <= ignore + mistaken
    BY <1>2 DEF Covered, ModeSound
  <2>4. StayCount(buf'["all"]) + StayCount(buf'["team"]) <= ignore' + mistaken'
    BY <1>11, <1>12, <1>13, <2>1, <2>2, <2>3
  <2> QED BY <2>4 DEF Covered
<1>15. PingsSound(pings', arrived')
  BY <1>1, <1>2, PushPingSound
<1>16. arrived' \in 0 .. MaxMsgs /\ ownTyped' \in 0 .. MaxOwn /\ ready' \in BOOLEAN
  BY <1>1, <1>2 DEF HelperInv
<1> QED BY Zenon, <1>1, <1>12, <1>13, <1>14, <1>15, <1>16, NothingDone DEF HelperInv

-----------------------------------------------------------------------------
\* What sending the first message of a buffer takes from the counter is what it takes from
\* the buffer, at most.
LEMMA DrainSound ==
  ASSUME ChatAssumption, HelperInv, NEW m \in Modes, NEW t \in Helper!Teams,
         NEW rest, rest = IF buf[t] # <<>> THEN Tail(buf[t]) ELSE <<>>
  PROVE  LET r == Helper!Drain(m, t) IN
         /\ r \in Modes
         /\ r.ignore + r.mistaken <= m.ignore + m.mistaken
         /\ StayCount(rest) \in Nat
         /\ StayCount(rest) + m.ignore + m.mistaken
              <= StayCount(buf[t]) + r.ignore + r.mistaken
<1> DEFINE r == Helper!Drain(m, t)
<1>1. /\ buf[t] \in Seq(Message) /\ StayCount(buf[t]) \in Nat
      /\ m.ignore \in Nat /\ m.mistaken \in Nat
  BY StayCountNat DEF HelperInv, BuffersSound, Modes
<1>2. CASE buf[t] = <<>>
  <2>1. r = m /\ rest = buf[t]
    BY <1>2 DEF Helper!Drain
  <2> HIDE DEF r
  <2> QED BY <1>1, <2>1 DEF r
<1>3. CASE buf[t] # <<>>
  <2> DEFINE chat == IF Head(buf[t]).stay THEN "stay" ELSE "line"
  <2>1. r = Helper!ReturnFromAfk(m, chat) /\ rest = Tail(buf[t])
    BY <1>3 DEF Helper!Drain
  <2>2. Head(buf[t]).stay \in BOOLEAN /\ rest \in Seq(Message)
    <3>1. Head(buf[t]) \in Message /\ Tail(buf[t]) \in Seq(Message)
      BY <1>1, <1>3
    <3> QED BY Zenon, <2>1, <3>1 DEF Message
  <2>3. chat \in {"none", "command", "line", "stay"}
    OBVIOUS
  <2>4. chat # "stay" => ~ Head(buf[t]).stay
    OBVIOUS
  <2> HIDE DEF chat, r
  <2>5. /\ r \in Modes
        /\ r.ignore + r.mistaken <= m.ignore + m.mistaken
        /\ m.ignore + m.mistaken <= r.ignore + r.mistaken + 1
        /\ chat # "stay" => r.ignore + r.mistaken = m.ignore + m.mistaken
    BY Zenon, <2>1, <2>3, ReturnSound
  <2>6. r.ignore \in Nat /\ r.mistaken \in Nat /\ StayCount(rest) \in Nat
    BY <2>2, <2>5, StayCountNat DEF Modes
  <2>7. /\ Head(buf[t]).stay => StayCount(rest) = StayCount(buf[t]) - 1
        /\ ~ Head(buf[t]).stay => StayCount(rest) = StayCount(buf[t])
    BY <1>1, <1>3, <2>1, TailStays
  <2>8. StayCount(rest) + m.ignore + m.mistaken <= StayCount(buf[t]) + r.ignore + r.mistaken
    <3>1. CASE Head(buf[t]).stay
      BY <1>1, <2>5, <2>6, <2>7, <3>1
    <3>2. CASE ~ Head(buf[t]).stay
      <4>1. CASE chat # "stay"
        BY <1>1, <2>5, <2>6, <2>7, <3>2, <4>1
      <4>2. CASE chat = "stay"
        BY <3>2, <4>2 DEF chat
      <4> QED BY <4>1, <4>2
    <3> QED BY <3>1, <3>2
  <2> QED BY <2>5, <2>6, <2>8 DEF r
<1> QED BY <1>2, <1>3

\* What other lines have used up of the counter is not taken back.
LEMMA MistakesStay ==
  ASSUME NEW m \in Modes, NEW t \in Helper!Teams
  PROVE  m.mistaken <= Helper!Drain(m, t).mistaken
<1>1. m.mistaken \in Nat
  BY DEF Modes
<1>2. \A chat : m.mistaken <= Helper!ReturnFromAfk(m, chat).mistaken
  <2> SUFFICES ASSUME NEW chat  PROVE m.mistaken <= Helper!ReturnFromAfk(m, chat).mistaken
    OBVIOUS
  <2>1. Helper!ReturnFromAfk(m, chat).mistaken \in {m.mistaken, m.mistaken + 1}
    BY <1>1 DEF Helper!ReturnFromAfk
  <2> QED BY <1>1, <2>1
<1> QED BY <1>1, <1>2 DEF Helper!Drain

\* A buffer whose first message is a note has one.
LEMMA NoteInFront ==
  ASSUME NEW b \in Seq(Message), b # <<>>, Head(b).stay
  PROVE  StayCount(b) \in Nat /\ StayCount(b) >= 1
<1>1. Tail(b) \in Seq(Message)
  OBVIOUS
<1>2. StayCount(b) \in Nat /\ StayCount(Tail(b)) \in Nat
  BY <1>1, StayCountNat
<1>3. StayCount(Tail(b)) = StayCount(b) - 1
  BY TailStays
<1> QED BY <1>2, <1>3

LEMMA FlushBuffersInv ==
  ASSUME ChatAssumption, HelperInv, Helper!FlushBuffers  PROVE HelperInv'
<1> DEFINE full == {t \in Helper!Teams : buf[t] # <<>>}
           m1 == Helper!Drain(Helper!Mode, "all")
           m2 == Helper!Drain(m1, "team")
<1>1. /\ Helper!SetMode(m2)
      /\ ready' = FALSE
      /\ buf' = [t \in Helper!Teams |-> IF t \in full THEN Tail(buf[t]) ELSE <<>>]
      /\ saidLast' = [t \in Helper!Teams |-> IF t \in full THEN Head(buf[t]).id ELSE saidLast[t]]
      /\ UNCHANGED <<pings, arrived, ownTyped>>
  BY DEF Helper!FlushBuffers
<1> DEFINE counted == (IF afk /\ ignore = 0 THEN {"all"} ELSE {})
                        \union (IF m1.afk /\ m1.ignore = 0 THEN {"team"} ELSE {})
<1>2. /\ lastStep'.answered = 0
      /\ lastStep'.back = {t \in full \cap counted : Head(buf[t]).stay}
  <2>1. lastStep' = [Helper!Nothing EXCEPT
                      !.back = {t \in full \cap counted : Head(buf[t]).stay}]
    BY DEF Helper!FlushBuffers
  <2> HIDE DEF full, counted
  <2> QED BY <2>1 DEF Helper!Nothing
<1>3. /\ arrived \in Nat /\ ModeSound /\ Covered /\ BuffersSound
      /\ PingsSound(pings, arrived) /\ MaxMsgs \in Nat
  BY DEF HelperInv, ChatAssumption
<1>4. "all" \in Helper!Teams /\ "team" \in Helper!Teams
  BY DEF Helper!Teams
<1>5. ASSUME NEW t \in Helper!Teams
      PROVE  /\ buf'[t] = IF buf[t] # <<>> THEN Tail(buf[t]) ELSE <<>>
             /\ buf'[t] \in Seq(Message) /\ saidLast'[t] \in Nat /\ saidLast'[t] <= arrived
             /\ BufferSound(buf'[t], saidLast'[t], arrived)
  <2>1. /\ BufferSound(buf[t], saidLast[t], arrived) /\ saidLast[t] \in Nat
        /\ saidLast[t] <= arrived /\ buf[t] \in Seq(Message)
    BY <1>3 DEF BuffersSound
  <2>2. /\ buf'[t] = IF buf[t] # <<>> THEN Tail(buf[t]) ELSE <<>>
        /\ saidLast'[t] = IF buf[t] # <<>> THEN Head(buf[t]).id ELSE saidLast[t]
    BY <1>1
  <2>3. CASE buf[t] = <<>>
    <3>1. buf'[t] = buf[t] /\ saidLast'[t] = saidLast[t]
      BY <2>2, <2>3
    <3> QED BY Zenon, <2>1, <2>2, <3>1
  <2>4. CASE buf[t] # <<>>
    <3>1. buf'[t] = Tail(buf[t]) /\ saidLast'[t] = Head(buf[t]).id
      BY <2>2, <2>4
    <3>2. /\ BufferSound(Tail(buf[t]), Head(buf[t]).id, arrived)
          /\ Head(buf[t]) \in Message /\ Head(buf[t]).id <= arrived
      BY Zenon, <1>3, <2>1, <2>4, TailSound
    <3>3. Head(buf[t]).id \in Nat /\ Tail(buf[t]) \in Seq(Message)
      BY <3>2 DEF Message, BufferSound
    <3> QED BY Zenon, <2>2, <3>1, <3>2, <3>3
  <2> QED BY Zenon, <2>3, <2>4
<1>6. BuffersSound'
  <2>1. buf' \in [Helper!Teams -> Seq(Message)] /\ saidLast' \in [Helper!Teams -> Nat]
    BY <1>1, <1>5
  <2> QED BY Zenon, <1>1, <1>5, <2>1 DEF BuffersSound
<1> HIDE DEF m1, m2, counted
<1>7. /\ m1 \in Modes /\ m1.ignore + m1.mistaken <= ignore + mistaken
      /\ StayCount(buf'["all"]) \in Nat
      /\ StayCount(buf'["all"]) + ignore + mistaken
           <= StayCount(buf["all"]) + m1.ignore + m1.mistaken
  <2>1. Helper!Mode \in Modes /\ Helper!Mode.ignore = ignore /\ Helper!Mode.mistaken = mistaken
    BY <1>3, ModeTyped
  <2>2. buf'["all"] = IF buf["all"] # <<>> THEN Tail(buf["all"]) ELSE <<>>
    BY <1>4, <1>5
  <2>3. /\ m1 \in Modes
        /\ m1.ignore + m1.mistaken <= Helper!Mode.ignore + Helper!Mode.mistaken
        /\ StayCount(buf'["all"]) \in Nat
        /\ StayCount(buf'["all"]) + Helper!Mode.ignore + Helper!Mode.mistaken
             <= StayCount(buf["all"]) + m1.ignore + m1.mistaken
    BY Zenon, <1>4, <2>1, <2>2, DrainSound DEF m1
  <2> QED BY Zenon, <2>1, <2>3
<1>8. /\ m2 \in Modes /\ m2.ignore + m2.mistaken <= m1.ignore + m1.mistaken
      /\ StayCount(buf'["team"]) \in Nat
      /\ StayCount(buf'["team"]) + m1.ignore + m1.mistaken
           <= StayCount(buf["team"]) + m2.ignore + m2.mistaken
  <2>1. buf'["team"] = IF buf["team"] # <<>> THEN Tail(buf["team"]) ELSE <<>>
    BY <1>4, <1>5
  <2> QED BY Zenon, <1>4, <1>7, <2>1, DrainSound DEF m2
<1>9. /\ ignore \in Nat /\ mistaken \in Nat /\ m1.ignore \in Nat /\ m1.mistaken \in Nat
      /\ m2.ignore \in Nat /\ m2.mistaken \in Nat
      /\ StayCount(buf["all"]) \in Nat /\ StayCount(buf["team"]) \in Nat
  BY <1>3, <1>4, <1>7, <1>8, StayCountNat DEF ModeSound, Modes, BuffersSound
<1>10. ModeSound' /\ ignore' + mistaken' = m2.ignore + m2.mistaken
  <2>1. m2.ignore + m2.mistaken <= arrived' /\ arrived' \in Nat
    <3>1. ignore + mistaken <= arrived /\ arrived' = arrived
      BY <1>1, <1>3 DEF ModeSound
    <3> QED BY <1>3, <1>7, <1>8, <1>9, <3>1
  <2> QED BY Zenon, <1>1, <1>8, <2>1, ModeSet
<1>11. Covered'
  <2>1. StayCount(buf["all"]) + StayCount(buf["team"]) <= ignore + mistaken
    BY <1>3 DEF Covered
  <2>2. StayCount(buf'["all"]) + StayCount(buf'["team"]) <= ignore' + mistaken'
    BY <1>7, <1>8, <1>9, <1>10, <2>1
  <2> QED BY <2>2 DEF Covered
<1>12. ready' \in BOOLEAN
  BY Zenon, <1>1
<1>13. arrived' \in 0 .. MaxMsgs /\ ownTyped' \in 0 .. MaxOwn /\ PingsSound(pings', arrived')
  BY <1>1, <1>3 DEF HelperInv
<1>14. Helper!RepliesToNewest'
  BY <1>2 DEF Helper!RepliesToNewest
<1>15. Helper!BackByMistakeOnly'
  <2> SUFFICES ASSUME NEW t \in lastStep'.back  PROVE mistaken' > 0
    BY DEF Helper!BackByMistakeOnly
  <2>1. /\ t \in counted /\ t \in Helper!Teams /\ buf[t] # <<>> /\ Head(buf[t]).stay
        /\ buf[t] \in Seq(Message)
    BY <1>2, <1>3 DEF BuffersSound
  <2>2. StayCount(buf[t]) >= 1
    BY <2>1, NoteInFront
  <2>3. mistaken <= m1.mistaken /\ m1.mistaken <= m2.mistaken /\ mistaken' = m2.mistaken
    <3>1. Helper!Mode \in Modes /\ Helper!Mode.mistaken = mistaken
      BY <1>3, ModeTyped
    <3>2. Helper!Mode.mistaken <= m1.mistaken
      BY Zenon, <1>4, <3>1, MistakesStay DEF m1
    <3>3. m1.mistaken <= m2.mistaken
      BY Zenon, <1>4, <1>7, MistakesStay DEF m2
    <3>4. mistaken' = m2.mistaken
      BY <1>1 DEF Helper!SetMode
    <3> QED BY Zenon, <3>1, <3>2, <3>3, <3>4
  <2>4. StayCount(buf["all"]) + StayCount(buf["team"]) <= ignore + mistaken
    BY <1>3 DEF Covered
  <2>5. (t = "all" /\ ignore = 0) \/ (t = "team" /\ m1.ignore = 0)
    BY <2>1 DEF counted
  <2>6. CASE t = "all" /\ ignore = 0
    <3>1. StayCount(buf["all"]) >= 1
      BY Zenon, <2>2, <2>6
    <3>2. mistaken >= 1
      BY <1>9, <2>4, <2>6, <3>1
    <3> QED BY <1>9, <2>3, <3>2
  <2>7. CASE t = "team" /\ m1.ignore = 0
    <3>1. StayCount(buf["team"]) >= 1
      BY Zenon, <2>2, <2>7
    <3>2. m1.mistaken >= 1
      BY <1>7, <1>9, <2>4, <2>7, <3>1
    <3> QED BY <1>9, <2>3, <3>2
  <2> QED BY <2>5, <2>6, <2>7
<1> QED BY Zenon, <1>6, <1>10, <1>11, <1>12, <1>13, <1>14, <1>15 DEF HelperInv

LEMMA HelperNextInv ==
  ASSUME ChatAssumption, HelperInv, [Helper!Next]_(Helper!vars)  PROVE HelperInv'
<1>1. CASE \E t \in Helper!Teams, able, spam, tabbed \in BOOLEAN :
             Helper!OnChatMessage(
               [id |-> arrived + 1, team |-> t, able |-> able, spam |-> spam], tabbed)
  <2>1. PICK t \in Helper!Teams, able \in BOOLEAN, spam \in BOOLEAN, tabbed \in BOOLEAN :
          Helper!OnChatMessage(
            [id |-> arrived + 1, team |-> t, able |-> able, spam |-> spam], tabbed)
    BY <1>1
  <2> DEFINE msg == [id |-> arrived + 1, team |-> t, able |-> able, spam |-> spam]
  <2>2. msg \in Pings /\ msg.id = arrived + 1
    BY DEF HelperInv, Pings
  <2> HIDE DEF msg
  <2>3. Helper!OnChatMessage(msg, tabbed)
    BY <2>1 DEF msg
  <2> QED BY Zenon, <2>2, <2>3, OnChatMessageInv
<1>2. CASE Helper!OnRepeatedMessage
  BY <1>2, OnRepeatedMessageInv
<1>3. CASE Helper!FlushBuffers
  BY <1>3, FlushBuffersInv
<1>4. CASE Helper!ExpirePings
  BY <1>4, ExpirePingsInv
<1>5. CASE Helper!ReplyToLastPing
  BY <1>5, ReplyToLastPingInv
<1>6. CASE \/ Helper!OnInput \/ Helper!GoAfk \/ Helper!FadeActivity \/ Helper!BufferReady
           \/ \E chat \in {"line", "command"} : Helper!SendChat(chat)
  BY <1>6, ModeStepInv
<1>7. CASE UNCHANGED Helper!vars
  <2>1. UNCHANGED <<afk, activity, ignore, buf, ready, pings, arrived, ownTyped, saidLast,
                    mistaken, lastStep>>
    BY <1>7 DEF Helper!vars
  <2> QED BY <2>1 DEF HelperInv, ModeSound, BuffersSound, Covered, Helper!RepliesToNewest,
                      Helper!BackByMistakeOnly
<1> QED BY <1>1, <1>2, <1>3, <1>4, <1>5, <1>6, <1>7 DEF Helper!Next

\* The cardinality that the chat helper takes from its own instance of FiniteSets.
LEMMA SameCardinality == \A S : Helper!Cardinality(S) = Cardinality(S)
BY Zenon DEF Helper!Cardinality, Cardinality

LEMMA HelperInvImplies ==
  ASSUME ChatAssumption, HelperInv
  PROVE  /\ Helper!TypeOK /\ Helper!SentInOrder /\ Helper!RepliesToNewest
         /\ Helper!IgnoreCoversQueue /\ Helper!BackByMistakeOnly
<1>1. /\ ModeSound /\ BuffersSound /\ Covered /\ PingsSound(pings, arrived)
      /\ arrived \in 0 .. MaxMsgs /\ MaxMsgs \in Nat /\ MaxOwn \in Nat
  BY DEF HelperInv, ChatAssumption
<1>2. ASSUME NEW t \in Helper!Teams
      PROVE  /\ Len(buf[t]) <= BufferLen
             /\ \A i \in DOMAIN buf[t] : saidLast[t] <= buf[t][i].id
             /\ \A i \in 1 .. Len(buf[t]) - 1 : buf[t][i].id <= buf[t][i + 1].id
  <2>1. BufferSound(buf[t], saidLast[t], arrived)
    BY <1>1 DEF BuffersSound
  <2>2. buf[t] \in Seq(Message) /\ Len(buf[t]) \in Nat /\ DOMAIN buf[t] = 1 .. Len(buf[t])
    BY <2>1 DEF BufferSound
  <2>3. \A i \in 1 .. Len(buf[t]) - 1 :
          i \in 1 .. Len(buf[t]) /\ i + 1 \in 1 .. Len(buf[t]) /\ i <= i + 1
    BY <2>2
  <2> QED BY <2>1, <2>2, <2>3 DEF BufferSound, OldestFirst
<1>3. Helper!SentInOrder
  BY Zenon, <1>2 DEF Helper!SentInOrder
<1>4. ignore \in 0 .. MaxMsgs /\ mistaken \in 0 .. MaxOwn + MaxMsgs
      /\ activity \in 0 .. ReturnAt - 1
  BY <1>1 DEF ModeSound
<1>5. Helper!TypeOK
  <2>1. Len(pings) <= PingQueueSize /\ afk \in BOOLEAN /\ ready \in BOOLEAN
        /\ ownTyped \in 0 .. MaxOwn
    BY Zenon, <1>1 DEF HelperInv, PingsSound, ModeSound
  <2> QED BY Zenon, <1>2, <1>4, <2>1 DEF Helper!TypeOK
<1>6. Helper!IgnoreCoversQueue
  <2>1. \A t : Helper!Stays(t) = StayCount(buf[t])
    BY Zenon, SameCardinality DEF Helper!Stays, StayCount, StaySet
  <2>2. Helper!Stays("all") + Helper!Stays("team") <= ignore + mistaken
    BY Zenon, <1>1, <2>1 DEF Covered
  <2> QED BY Zenon, <2>2 DEF Helper!IgnoreCoversQueue
<1> QED BY <1>3, <1>5, <1>6 DEF HelperInv

-----------------------------------------------------------------------------
(* The lines of the player.                                                 *)

QueueInv ==
  /\ Queue!TypeOK /\ Queue!EntriesCounted /\ Queue!SentUntilOvertaken
  /\ pending <= Len(history) /\ Len(history) <= typed

\* The entries of the history that are named by their place: an entry that is added does not
\* change them, and the next one follows them.
LEMMA FirstEntries ==
  ASSUME NEW L, NEW h \in Seq(L), NEW n \in 0 .. Len(h)
  PROVE  /\ SubSeq(h, 1, n) \in Seq(L) /\ Len(SubSeq(h, 1, n)) = n
         /\ \A i \in 1 .. n : SubSeq(h, 1, n)[i] = h[i]
<1>1. \A i \in 1 .. n : h[i] \in L
  OBVIOUS
<1> DEFINE s == SubSeq(h, 1, n)
<1>2. /\ s \in Seq(L) /\ Len(s) = IF 1 <= n THEN n - 1 + 1 ELSE 0
      /\ \A i \in 1 .. n - 1 + 1 : s[i] = h[1 + i - 1]
  BY <1>1, SubSeqProperties
<1> HIDE DEF s
<1>3. Len(s) = n /\ \A i \in 1 .. n : s[i] = h[i]
  <2>1. n \in Nat /\ n - 1 + 1 = n
    OBVIOUS
  <2>2. ASSUME NEW i \in 1 .. n  PROVE s[i] = h[i]
    <3>1. i \in 1 .. n - 1 + 1 /\ 1 + i - 1 = i
      BY <2>1
    <3>2. s[i] = h[1 + i - 1]
      BY Zenon, <1>2, <3>1
    <3> QED BY Zenon, <3>1, <3>2
  <2> QED BY <1>2, <2>1, <2>2
<1> QED BY <1>2, <1>3 DEF s

LEMMA FirstOnes ==
  ASSUME NEW L, NEW h \in Seq(L), NEW x \in L, NEW n \in 0 .. Len(h)
  PROVE  SubSeq(Append(h, x), 1, n) = SubSeq(h, 1, n)
<1> DEFINE g == Append(h, x)
<1>1. /\ g \in Seq(L) /\ Len(g) = Len(h) + 1 /\ Len(h) \in Nat
      /\ \A i \in 1 .. n : g[i] = h[i]
  OBVIOUS
<1> HIDE DEF g
<1>2. n \in 0 .. Len(g)
  BY <1>1
<1>3. /\ SubSeq(h, 1, n) \in Seq(L) /\ Len(SubSeq(h, 1, n)) = n
      /\ \A i \in 1 .. n : SubSeq(h, 1, n)[i] = h[i]
  BY FirstEntries
<1>4. /\ SubSeq(g, 1, n) \in Seq(L) /\ Len(SubSeq(g, 1, n)) = n
      /\ \A i \in 1 .. n : SubSeq(g, 1, n)[i] = g[i]
  BY <1>1, <1>2, FirstEntries
<1>5. SubSeq(g, 1, n) = SubSeq(h, 1, n)
  BY <1>1, <1>3, <1>4, SeqEqual
<1> QED BY <1>5 DEF g

LEMMA AllOfThem ==
  ASSUME NEW L, NEW h \in Seq(L)  PROVE SubSeq(h, 1, Len(h)) = h
<1>1. Len(h) \in 0 .. Len(h)
  OBVIOUS
<1>2. /\ SubSeq(h, 1, Len(h)) \in Seq(L) /\ Len(SubSeq(h, 1, Len(h))) = Len(h)
      /\ \A i \in 1 .. Len(h) : SubSeq(h, 1, Len(h))[i] = h[i]
  BY <1>1, FirstEntries
<1> QED BY <1>2, SeqEqual

LEMMA OneMore ==
  ASSUME NEW L, NEW h \in Seq(L), NEW n \in 0 .. Len(h) - 1
  PROVE  Append(SubSeq(h, 1, n), h[n + 1]) = SubSeq(h, 1, n + 1)
<1> DEFINE s == SubSeq(h, 1, n)
           r == SubSeq(h, 1, n + 1)
<1>1. n \in 0 .. Len(h) /\ n + 1 \in 0 .. Len(h) /\ h[n + 1] \in L
  OBVIOUS
<1>2. s \in Seq(L) /\ Len(s) = n /\ \A i \in 1 .. n : s[i] = h[i]
  BY <1>1, FirstEntries
<1>3. r \in Seq(L) /\ Len(r) = n + 1 /\ \A i \in 1 .. n + 1 : r[i] = h[i]
  BY <1>1, FirstEntries
<1> HIDE DEF s, r
<1>4. h[n + 1] \in L
  BY <1>1
<1>5. /\ Append(s, h[n + 1]) \in Seq(L) /\ Len(Append(s, h[n + 1])) = n + 1
      /\ \A i \in 1 .. n : Append(s, h[n + 1])[i] = s[i]
      /\ Append(s, h[n + 1])[n + 1] = h[n + 1]
  BY <1>2, <1>4, AppendProperties
<1>6. \A i \in 1 .. n + 1 : Append(s, h[n + 1])[i] = r[i]
  BY <1>2, <1>3, <1>5
<1>7. Append(s, h[n + 1]) = r
  BY <1>3, <1>5, <1>6, SeqEqual
<1> QED BY <1>7 DEF s, r

LEMMA QueueInitInv ==
  ASSUME ChatAssumption, Queue!Init  PROVE QueueInv
<1>1. /\ history = <<>> /\ pending = 0 /\ recent = FALSE /\ typed = 0 /\ sent = <<>>
      /\ overtook = FALSE /\ MaxWaiting \in Nat /\ MaxLines \in Nat
  BY DEF Queue!Init, ChatAssumption
<1>2. recent \in BOOLEAN /\ overtook \in BOOLEAN
  BY Zenon, <1>1
<1>3. /\ history \in Seq(1 .. MaxLines) /\ sent \in Seq(1 .. MaxLines)
      /\ pending \in 0 .. MaxWaiting /\ typed \in 0 .. MaxLines
      /\ Len(sent) + pending = Len(history) /\ pending <= Len(history) /\ Len(history) <= typed
  BY <1>1
<1>4. Queue!SentUntilOvertaken
  <2>1. Len(history) - pending = Len(history)
    BY <1>1
  <2>2. SubSeq(history, 1, Len(history)) = history
    BY <1>3, AllOfThem
  <2>3. sent = history
    BY Zenon, <1>1
  <2> QED BY Zenon, <2>1, <2>2, <2>3 DEF Queue!SentUntilOvertaken
<1> QED BY Zenon, <1>2, <1>3, <1>4 DEF QueueInv, Queue!TypeOK, Queue!EntriesCounted

LEMMA QueueNextInv ==
  ASSUME ChatAssumption, QueueInv, [Queue!Next]_(Queue!vars)  PROVE QueueInv'
<1> DEFINE L == 1 .. MaxLines
<1>1. /\ history \in Seq(L) /\ sent \in Seq(L) /\ pending \in 0 .. MaxWaiting
      /\ recent \in BOOLEAN /\ overtook \in BOOLEAN /\ typed \in 0 .. MaxLines
      /\ Len(sent) + pending = Len(history) /\ pending <= Len(history) /\ Len(history) <= typed
      /\ Len(sent) \in Nat /\ Len(history) \in Nat
      /\ MaxWaiting \in Nat /\ MaxLines \in Nat
  BY DEF QueueInv, Queue!TypeOK, Queue!EntriesCounted, ChatAssumption
<1>2. recent' \in BOOLEAN /\ overtook' \in BOOLEAN
  BY Zenon, <1>1 DEF Queue!Next, Queue!vars, Queue!SendNow, Queue!SendLater, Queue!Refuse,
     Queue!SendPending, Queue!SendByOther, Queue!SecondPasses
<1> DEFINE first == SubSeq(history, 1, Len(history) - pending)
           Ordered == ~overtook' => sent' = SubSeq(history', 1, Len(history') - pending')
<1>3. ~overtook => sent = first
  BY DEF QueueInv, Queue!SentUntilOvertaken
<1> HIDE DEF first
<1>4. /\ history' \in Seq(L) /\ sent' \in Seq(L) /\ pending' \in 0 .. MaxWaiting
      /\ typed' \in 0 .. MaxLines
      /\ Len(sent') + pending' = Len(history') /\ pending' <= Len(history')
      /\ Len(history') <= typed'
      /\ Ordered
  <2>1. CASE Queue!SendNow
    <3>1. /\ typed < MaxLines /\ typed' = typed + 1 /\ history' = Append(history, typed')
          /\ sent' = Append(sent, typed') /\ pending' = pending
          /\ overtook' = (overtook \/ pending > 0)
      BY <2>1 DEF Queue!SendNow, Queue!Type
    <3>2. typed' \in L /\ typed' \in 0 .. MaxLines
      BY <1>1, <3>1
    <3> HIDE DEF L, Ordered
    <3>3. PICK x \in L : x = typed'
      BY Zenon, <3>2
    <3>4. history' = Append(history, x) /\ sent' = Append(sent, x)
      BY Zenon, <3>1, <3>3
    <3>5. /\ Append(history, x) \in Seq(L) /\ Append(sent, x) \in Seq(L)
          /\ Len(Append(history, x)) = Len(history) + 1 /\ Len(Append(sent, x)) = Len(sent) + 1
      BY <1>1
    <3>6. history' \in Seq(L) /\ sent' \in Seq(L)
          /\ Len(history') = Len(history) + 1 /\ Len(sent') = Len(sent) + 1
      BY Zenon, <3>4, <3>5
    <3>7. Len(sent') + pending' = Len(history') /\ pending' <= Len(history')
          /\ Len(history') <= typed' /\ pending' \in 0 .. MaxWaiting
      <4>1. typed' = typed + 1 /\ pending' = pending
        BY Zenon, <3>1
      <4>2. PICK h \in Nat, n \in Nat : h = Len(history') /\ n = Len(sent')
        BY <1>1, <3>6
      <4>3. h = Len(history) + 1 /\ n = Len(sent) + 1
        BY <3>6, <4>2
      <4>4. n + pending = h /\ pending <= h /\ h <= typed + 1
        BY <1>1, <4>3
      <4> QED BY <1>1, <4>1, <4>2, <4>4
    <3>8. ASSUME ~overtook'  PROVE sent' = SubSeq(history', 1, Len(history') - pending')
      <4>1. ~overtook /\ ~ (pending > 0)
        BY Zenon, <3>1, <3>8
      <4>2. pending = 0 /\ pending' = 0
        <5>1. pending = 0
          BY <1>1, <4>1
        <5> QED BY Zenon, <3>1, <5>1
      <4>3. sent = history
        <5>1. Len(history) - pending = Len(history)
          BY <1>1, <4>2
        <5>2. first = history
          BY <1>1, <5>1, AllOfThem DEF first
        <5> QED BY Zenon, <1>3, <4>1, <5>2
      <4>4. sent' = history'
        BY Zenon, <3>4, <4>3
      <4>5. Len(history') - pending' = Len(history')
        BY <1>1, <3>6, <4>2
      <4>6. SubSeq(history', 1, Len(history')) = history'
        BY <3>6, AllOfThem
      <4> QED BY Zenon, <4>4, <4>5, <4>6
    <3> QED BY Zenon, <3>2, <3>6, <3>7, <3>8 DEF Ordered
  <2>2. CASE Queue!SendLater
    <3>1. /\ typed < MaxLines /\ typed' = typed + 1 /\ history' = Append(history, typed')
          /\ sent' = sent /\ pending' = pending + 1 /\ pending < MaxWaiting
          /\ overtook' = overtook
      BY <2>2 DEF Queue!SendLater, Queue!Type
    <3>2. typed' \in L
      BY <1>1, <3>1
    <3> HIDE DEF L, Ordered
    <3>3. PICK x \in L : x = typed'
      BY Zenon, <3>2
    <3>4. history' = Append(history, x)
      BY Zenon, <3>1, <3>3
    <3>5. history' \in Seq(L) /\ Len(history') = Len(history) + 1
      BY <1>1, <3>4
    <3>6. Ordered
      <4>1. Len(history') - pending' = Len(history) - pending
        BY <1>1, <3>1, <3>5
      <4>2. Len(history) - pending \in 0 .. Len(history)
        BY <1>1
      <4>3. SubSeq(Append(history, x), 1, Len(history) - pending) = first
        BY <1>1, <4>2, FirstOnes DEF first
      <4>4. SubSeq(history', 1, Len(history') - pending') = first
        BY Zenon, <3>4, <4>1, <4>3
      <4> QED BY Zenon, <1>3, <3>1, <4>4 DEF Ordered
    <3>7. /\ sent' \in Seq(L) /\ pending' \in 0 .. MaxWaiting /\ typed' \in 0 .. MaxLines
          /\ Len(sent') + pending' = Len(history') /\ pending' <= Len(history')
          /\ Len(history') <= typed'
      <4>1. sent' = sent /\ pending' = pending + 1 /\ typed' = typed + 1
            /\ typed < MaxLines /\ pending < MaxWaiting
        BY Zenon, <3>1
      <4>2. Len(sent') = Len(sent) /\ Len(history') = Len(history) + 1 /\ sent' \in Seq(L)
        BY Zenon, <1>1, <3>5, <4>1
      <4>3. PICK h \in Nat : h = Len(history')
        BY <1>1, <4>2
      <4>4. Len(sent) + pending + 1 = h /\ pending + 1 <= h /\ h <= typed + 1
        BY <1>1, <4>2, <4>3
      <4> QED BY <1>1, <4>1, <4>2, <4>3, <4>4
    <3> QED BY Zenon, <3>5, <3>6, <3>7
  <2>3. CASE Queue!Refuse
    <3>1. typed < MaxLines /\ typed' = typed + 1 /\ UNCHANGED <<history, pending, sent, overtook>>
      BY <2>3 DEF Queue!Refuse, Queue!Type
    <3>2. Ordered
      BY Zenon, <1>3, <3>1 DEF Ordered, first
    <3> HIDE DEF Ordered
    <3> QED BY <1>1, <3>1, <3>2
  <2>4. CASE Queue!SendPending
    <3> DEFINE n == Len(history) - pending
    <3>1. /\ pending > 0 /\ sent' = Append(sent, history[n + 1])
          /\ pending' = pending - 1 /\ UNCHANGED <<history, typed, overtook>>
      BY <2>4 DEF Queue!SendPending
    <3>2. /\ n + 1 \in 1 .. Len(history) /\ n \in 0 .. Len(history) - 1
          /\ Len(history) - pending' = n + 1
      BY <1>1, <3>1
    <3>3. first = SubSeq(history, 1, n)
      BY DEF first
    <3> HIDE DEF L, n, Ordered
    <3>4. history[n + 1] \in L
      BY <1>1, <3>2
    <3>5. Ordered
      <4>1. Append(SubSeq(history, 1, n), history[n + 1]) = SubSeq(history, 1, n + 1)
        BY <1>1, <3>2, OneMore
      <4>2. history' = history /\ overtook' = overtook
        BY Zenon, <3>1
      <4>3. SubSeq(history', 1, Len(history') - pending') = SubSeq(history, 1, n + 1)
        BY Zenon, <3>2, <4>2
      <4>4. ASSUME ~overtook'  PROVE sent' = SubSeq(history, 1, n + 1)
        <5>1. sent = SubSeq(history, 1, n)
          BY Zenon, <1>3, <3>3, <4>2, <4>4
        <5>2. sent' = Append(sent, history[n + 1])
          BY Zenon, <3>1
        <5>3. sent' = Append(SubSeq(history, 1, n), history[n + 1])
          BY Zenon, <5>1, <5>2
        <5> QED BY Zenon, <4>1, <5>3
      <4> QED BY Zenon, <4>3, <4>4 DEF Ordered
    <3>6. PICK x \in L : x = history[n + 1]
      BY Zenon, <3>4
    <3>7. sent' = Append(sent, x)
      BY Zenon, <3>1, <3>6
    <3>8. sent' \in Seq(L) /\ Len(sent') = Len(sent) + 1
      BY <1>1, <3>7
    <3>9. /\ history' \in Seq(L) /\ pending' \in 0 .. MaxWaiting /\ typed' \in 0 .. MaxLines
          /\ Len(sent') + pending' = Len(history') /\ pending' <= Len(history')
          /\ Len(history') <= typed'
      <4>1. history' = history /\ typed' = typed /\ pending' = pending - 1 /\ pending > 0
        BY Zenon, <3>1
      <4>2. Len(history') = Len(history)
        BY Zenon, <4>1
      <4>3. PICK k \in Nat : k = Len(sent')
        BY <1>1, <3>8
      <4>4. k + (pending - 1) = Len(history) /\ pending - 1 <= Len(history)
            /\ pending - 1 \in 0 .. MaxWaiting
        BY <1>1, <3>8, <4>1, <4>3
      <4> QED BY <1>1, <4>1, <4>2, <4>3, <4>4
    <3> QED BY Zenon, <3>5, <3>8, <3>9
  <2>5. CASE UNCHANGED <<history, pending, sent, typed, overtook>>
    <3>1. Ordered
      BY Zenon, <1>3, <2>5 DEF Ordered, first
    <3> HIDE DEF Ordered
    <3> QED BY <1>1, <2>5, <3>1
  <2> HIDE DEF Ordered
  <2> QED BY <2>1, <2>2, <2>3, <2>4, <2>5
      DEF Queue!Next, Queue!vars, Queue!SendByOther, Queue!SecondPasses
<1>5. Queue!SentUntilOvertaken'
  BY Zenon, <1>4 DEF Queue!SentUntilOvertaken
<1> QED BY Zenon, <1>2, <1>4, <1>5 DEF QueueInv, Queue!TypeOK, Queue!EntriesCounted

\* The chat of the client (CChatHelper, CChat): each buffer sends in the order of arrival and
\* the newest ping is answered.  The notes that are queued are at most as many as the counter of
\* the away mode shows and other lines have used up of it, so a note ends the away mode only
\* after another line was counted in the place of one.  The counter of waiting lines never
\* points outside the history, and the typed lines are sent in their order, each once, until
\* one is sent at once while others wait.
THEOREM ChatStaysInOrder == ChatSpec => []ChatInOrder
<1> USE ChatAssumption
<1>1. Helper!Init => HelperInv
  BY HelperInitInv
<1>2. HelperInv /\ [Helper!Next]_(Helper!vars) => HelperInv'
  BY HelperNextInv
<1>3. Queue!Init => QueueInv
  BY QueueInitInv
<1>4. QueueInv /\ [Queue!Next]_(Queue!vars) => QueueInv'
  BY QueueNextInv
<1>5. HelperInv /\ QueueInv => ChatInOrder
  BY HelperInvImplies DEF QueueInv, ChatInOrder
<1>6. Helper!Spec => []HelperInv
  BY <1>1, <1>2, PTL DEF Helper!Spec
<1>7. Queue!Spec => []QueueInv
  BY <1>3, <1>4, PTL DEF Queue!Spec
<1> QED BY <1>5, <1>6, <1>7, PTL DEF ChatSpec
=============================================================================
