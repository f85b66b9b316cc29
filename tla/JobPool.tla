------------------------------ MODULE JobPool ------------------------------
(***************************************************************************)
(* CJobPool (engine/shared/jobs.cpp).  The main thread adds jobs to a      *)
(* linked list and wakes worker threads with a semaphore; Shutdown aborts  *)
(* what can be aborted, wakes every worker and waits for it.  A worker     *)
(* holds each of the two locks only for a step, so only Shutdown's walk    *)
(* over the list needs an explicit lock.                                   *)
(***************************************************************************)
EXTENDS Integers, FiniteSets, SequencesExt

CONSTANTS Jobs, Workers, Abortables, None

\* CJobPool::Init is called for at least one thread.
ASSUME PoolAssumption ==
  /\ IsFiniteSet(Jobs) /\ None \notin Jobs /\ Abortables \subseteq Jobs
  /\ IsFiniteSet(Workers) /\ Workers # {}

VARIABLES
  state,        \* IJob::m_State
  next,         \* IJob::m_pNext
  first, last,  \* m_pFirstJob, m_pLastJob
  sem,          \* m_Semaphore
  running,      \* m_RunningJobs
  shutdown,     \* m_Shutdown
  pc, job,      \* of each worker: where it is in RunLoop, and its pJob
  main,         \* where the main thread is
  cur, prev,    \* pJob and pPrev of Shutdown's walk
  toWake,       \* signals Shutdown has still to give
  fresh,        \* history: jobs that were never added
  pushed,       \* history: jobs that Add put into the list
  ran           \* history: how often Run was called

queueVars == <<first, last, next>>
workerVars == <<pc, job>>
scanVars == <<cur, prev, toWake>>
history == <<fresh, pushed, ran>>
vars == <<state, queueVars, sem, running, shutdown, workerVars, main, scanVars,
          history>>

Init ==
  /\ state = [j \in Jobs |-> "queued"]
  /\ next = [j \in Jobs |-> None]
  /\ first = None /\ last = None
  /\ sem = 0
  /\ running = {}
  /\ shutdown = TRUE
  /\ pc = [w \in Workers |-> "exit"]
  /\ job = [w \in Workers |-> None]
  /\ main = "down"
  /\ cur = None /\ prev = None /\ toWake = 0
  /\ fresh = Jobs
  /\ pushed = {}
  /\ ran = [j \in Jobs |-> 0]

LockFree == main # "scan"

\* IJob::Abort
Aborted(j) == IF j \in Abortables THEN [state EXCEPT ![j] = "aborted"] ELSE state

-----------------------------------------------------------------------------
(* Worker threads: RunLoop *)

\* Mutant of Wait: goes on although the wait was interrupted.
WaitWithoutToken(w) ==
  /\ pc[w] = "wait"
  /\ sem' = sem - 1
  /\ pc' = [pc EXCEPT ![w] = "fetch"]
  /\ UNCHANGED <<state, queueVars, running, shutdown, job, main, scanVars,
                 history>>

Wait(w) ==
  /\ pc[w] = "wait" /\ sem > 0
  /\ sem' = sem - 1
  /\ pc' = [pc EXCEPT ![w] = "fetch"]
  /\ UNCHANGED <<state, queueVars, running, shutdown, job, main, scanVars,
                 history>>

Fetch(w) ==
  /\ pc[w] = "fetch" /\ LockFree /\ first # None
  /\ job' = [job EXCEPT ![w] = first]
  /\ first' = next[first]
  /\ next' = [next EXCEPT ![first] = None]
  /\ last' = IF next[first] = None THEN None ELSE last
  /\ pc' = [pc EXCEPT ![w] = "start"]
  /\ UNCHANGED <<state, sem, running, shutdown, main, scanVars, history>>

\* Mutant of FetchNothing: the worker leaves as soon as the pool shuts down.
FetchNothingInShutdown(w) ==
  /\ pc[w] = "fetch" /\ LockFree /\ (first = None \/ shutdown)
  /\ pc' = [pc EXCEPT ![w] = IF shutdown THEN "exit" ELSE "wait"]
  /\ UNCHANGED <<state, queueVars, sem, running, shutdown, job, main, scanVars,
                 history>>

\* The list was empty: a spurious wake-up, or the end of the thread.
FetchNothing(w) ==
  /\ pc[w] = "fetch" /\ LockFree /\ first = None
  /\ pc' = [pc EXCEPT ![w] = IF shutdown THEN "exit" ELSE "wait"]
  /\ UNCHANGED <<state, queueVars, sem, running, shutdown, job, main, scanVars,
                 history>>

\* Mutant of Start: a store where the code compares and exchanges.
StartUnconditionally(w) ==
  /\ pc[w] = "start"
  /\ state' = [state EXCEPT ![job[w]] = "running"]
  /\ pc' = [pc EXCEPT ![w] = "remember"]
  /\ UNCHANGED <<queueVars, sem, running, shutdown, job, main, scanVars, history>>

Start(w) ==
  /\ pc[w] = "start" /\ state[job[w]] = "queued"
  /\ state' = [state EXCEPT ![job[w]] = "running"]
  /\ pc' = [pc EXCEPT ![w] = "remember"]
  /\ UNCHANGED <<queueVars, sem, running, shutdown, job, main, scanVars, history>>

SkipAborted(w) ==
  /\ pc[w] = "start" /\ state[job[w]] = "aborted"
  /\ pc' = [pc EXCEPT ![w] = "wait"]
  /\ job' = [job EXCEPT ![w] = None]
  /\ UNCHANGED <<state, queueVars, sem, running, shutdown, main, scanVars,
                 history>>

Remember(w) ==
  /\ pc[w] = "remember"
  /\ running' = running \cup {job[w]}
  /\ pc' = [pc EXCEPT ![w] = "run"]
  /\ UNCHANGED <<state, queueVars, sem, shutdown, job, main, scanVars, history>>

Run(w) ==
  /\ pc[w] = "run"
  /\ ran' = [ran EXCEPT ![job[w]] = @ + 1]
  /\ pc' = [pc EXCEPT ![w] = "forget"]
  /\ UNCHANGED <<state, queueVars, sem, running, shutdown, job, main, scanVars,
                 fresh, pushed>>

Forget(w) ==
  /\ pc[w] = "forget"
  /\ running' = running \ {job[w]}
  /\ pc' = [pc EXCEPT ![w] = "finish"]
  /\ UNCHANGED <<state, queueVars, sem, shutdown, job, main, scanVars, history>>

\* Done unless it was aborted meanwhile.
Finish(w) ==
  /\ pc[w] = "finish" /\ state[job[w]] \in {"running", "aborted"}
  /\ state' = [state EXCEPT ![job[w]] = IF @ = "running" THEN "done" ELSE @]
  /\ pc' = [pc EXCEPT ![w] = "wait"]
  /\ job' = [job EXCEPT ![w] = None]
  /\ UNCHANGED <<queueVars, sem, running, shutdown, main, scanVars, history>>

-----------------------------------------------------------------------------
(* The main thread *)

InitPool ==
  /\ main = "down" /\ shutdown
  /\ shutdown' = FALSE
  /\ sem' = 0
  /\ first' = None /\ last' = None
  /\ pc' = [w \in Workers |-> "wait"]
  /\ main' = "ready"
  /\ UNCHANGED <<state, next, running, job, scanVars, history>>

Add(j) ==
  /\ main = "ready" /\ ~shutdown
  /\ j \in fresh
  /\ next' = IF last = None THEN next ELSE [next EXCEPT ![last] = j]
  /\ last' = j
  /\ first' = IF first = None THEN j ELSE first
  /\ main' = "signal"
  /\ fresh' = fresh \ {j}
  /\ pushed' = pushed \cup {j}
  /\ UNCHANGED <<state, sem, running, shutdown, workerVars, scanVars, ran>>

\* Mutant of Signal: an event instead of a counting semaphore.
SignalBinary ==
  /\ main = "signal"
  /\ sem' = 1
  /\ main' = "ready"
  /\ UNCHANGED <<state, queueVars, running, shutdown, workerVars, scanVars,
                 history>>

Signal ==
  /\ main = "signal"
  /\ sem' = sem + 1
  /\ main' = "ready"
  /\ UNCHANGED <<state, queueVars, running, shutdown, workerVars, scanVars,
                 history>>

AddRefused(j) ==
  /\ main = "down" /\ shutdown
  /\ j \in fresh
  /\ state' = Aborted(j)
  /\ fresh' = fresh \ {j}
  /\ UNCHANGED <<queueVars, sem, running, shutdown, workerVars, main, scanVars,
                 pushed, ran>>

\* Shutdown: the flag, then the lock of the list.
Shutdown ==
  /\ main = "ready" /\ ~shutdown
  /\ shutdown' = TRUE
  /\ main' = "lock"
  /\ UNCHANGED <<state, queueVars, sem, running, workerVars, scanVars, history>>

LockQueue ==
  /\ main = "lock"
  /\ cur' = first /\ prev' = None
  /\ main' = "scan"
  /\ UNCHANGED <<state, queueVars, sem, running, shutdown, workerVars, toWake,
                 history>>

Unlink ==
  /\ main = "scan" /\ cur \in Abortables
  /\ state' = Aborted(cur)
  /\ LET rest == [next EXCEPT ![cur] = None]
     IN  next' = IF prev = None THEN rest ELSE [rest EXCEPT ![prev] = next[cur]]
  /\ first' = IF prev = None THEN next[cur] ELSE first
  /\ cur' = next[cur]
  /\ UNCHANGED <<last, sem, running, shutdown, workerVars, main, prev, toWake,
                 history>>

KeepQueued ==
  /\ main = "scan" /\ cur \in Jobs \ Abortables
  /\ prev' = cur
  /\ cur' = next[cur]
  /\ UNCHANGED <<state, queueVars, sem, running, shutdown, workerVars, main,
                 toWake, history>>

\* Mutant of UnlockQueue: m_pLastJob is not updated.
UnlockStaleTail ==
  /\ main = "scan" /\ cur = None
  /\ main' = "abort"
  /\ UNCHANGED <<state, queueVars, sem, running, shutdown, workerVars, scanVars,
                 history>>

UnlockQueue ==
  /\ main = "scan" /\ cur = None
  /\ last' = prev
  /\ main' = "abort"
  /\ UNCHANGED <<state, first, next, sem, running, shutdown, workerVars,
                 scanVars, history>>

AbortRunning ==
  /\ main = "abort"
  /\ state' = [j \in Jobs |-> IF j \in running THEN Aborted(j)[j] ELSE state[j]]
  /\ toWake' = Cardinality(Workers)
  /\ main' = "wake"
  /\ UNCHANGED <<queueVars, sem, running, shutdown, workerVars, cur, prev,
                 history>>

\* Mutant of Wake: one worker too few is woken up.
WakeOneLess ==
  /\ main = "wake"
  /\ IF toWake > 1 THEN sem' = sem + 1 /\ toWake' = toWake - 1 /\ main' = main
                   ELSE main' = "join" /\ UNCHANGED <<sem, toWake>>
  /\ UNCHANGED <<state, queueVars, running, shutdown, workerVars, cur, prev,
                 history>>

Wake ==
  /\ main = "wake"
  /\ IF toWake > 0 THEN sem' = sem + 1 /\ toWake' = toWake - 1 /\ main' = main
                   ELSE main' = "join" /\ UNCHANGED <<sem, toWake>>
  /\ UNCHANGED <<state, queueVars, running, shutdown, workerVars, cur, prev,
                 history>>

Join ==
  /\ main = "join" /\ \A w \in Workers : pc[w] = "exit"
  /\ main' = "down"
  /\ UNCHANGED <<state, queueVars, sem, running, shutdown, workerVars, scanVars,
                 history>>

\* The owner of a job aborts it, from any thread and at any time.
Abort(j) ==
  /\ state' = Aborted(j)
  /\ UNCHANGED <<queueVars, sem, running, shutdown, workerVars, main, scanVars,
                 history>>

-----------------------------------------------------------------------------
RunLoop(w) ==
  \/ Wait(w) \/ Fetch(w) \/ FetchNothing(w) \/ Start(w) \/ SkipAborted(w)
  \/ Remember(w) \/ Run(w) \/ Forget(w) \/ Finish(w)

ShutdownSteps ==
  LockQueue \/ Unlink \/ KeepQueued \/ UnlockQueue \/ AbortRunning \/ Wake \/ Join

Next ==
  \/ \E w \in Workers : RunLoop(w)
  \/ \E j \in Jobs : Add(j) \/ AddRefused(j) \/ Abort(j)
  \/ InitPool \/ Signal \/ Shutdown \/ ShutdownSteps

(***************************************************************************)
(* The threads are scheduled fairly and every Run returns; nothing makes   *)
(* the main thread add a job, start the pool or shut it down.              *)
(***************************************************************************)
Fairness ==
  /\ \A w \in Workers : WF_vars(RunLoop(w))
  /\ WF_vars(Signal \/ ShutdownSteps)

Spec == Init /\ [][Next]_vars /\ Fairness

-----------------------------------------------------------------------------
\* The i-th job of the list, None after its end.
Nth[i \in 0 .. Cardinality(Jobs)] ==
  IF i = 0 THEN first ELSE IF Nth[i - 1] = None THEN None ELSE next[Nth[i - 1]]

Queue == {Nth[i] : i \in DOMAIN Nth} \ {None}

Holders(where) == {w \in Workers : pc[w] \in where}

Held(where) == {job[w] : w \in Holders(where)}

Busy == {"start", "remember", "run", "forget", "finish"}

Settled == {j \in Jobs : state[j] \in {"done", "aborted"}}

TypeOK ==
  /\ state \in [Jobs -> {"queued", "running", "done", "aborted"}]
  /\ next \in [Jobs -> Jobs \cup {None}]
  /\ {first, last, cur, prev} \subseteq Jobs \cup {None}
  /\ sem \in Nat /\ toWake \in 0 .. Cardinality(Workers)
  /\ running \subseteq Jobs
  /\ shutdown \in BOOLEAN
  /\ pc \in [Workers -> {"wait", "fetch", "start", "remember", "run", "forget",
                         "finish", "exit"}]
  /\ job \in [Workers -> Jobs \cup {None}]
  /\ main \in {"down", "ready", "signal", "lock", "scan", "abort", "wake", "join"}
  /\ fresh \subseteq Jobs /\ pushed \subseteq Jobs
  /\ ran \in [Jobs -> 0 .. 1]

(***************************************************************************)
(* Outside Shutdown's walk the list has no cycle, ends at m_pLastJob and   *)
(* loses no job: what was added is in it, in the hands of one worker, or   *)
(* done or aborted.  Unlinking a head, a tail or a run of neighbours       *)
(* must keep this, or a later Add would append to a job nobody reaches.    *)
(***************************************************************************)
ListIsWhole ==
  LockFree =>
    /\ Nth[Cardinality(Jobs)] = None
    /\ (first = None) <=> (last = None)
    /\ last # None => last \in Queue /\ next[last] = None
    /\ pushed \subseteq Queue \cup Settled \cup Held(Busy)
    /\ Queue \cap Held(Busy) = {}

(***************************************************************************)
(* No wake-up is lost: the jobs in the list are outnumbered by the signals *)
(* nobody has consumed and the workers that consumed one and have not      *)
(* looked at the list yet (one signal may be on its way from Add).         *)
(***************************************************************************)
WakeupsSuffice ==
  LockFree =>
    Cardinality(Queue) <=
      sem + Cardinality(Holders({"fetch"})) + (IF main = "signal" THEN 1 ELSE 0)

(***************************************************************************)
(* jobs.h, IsAbortable: jobs in the pool which are not abortable are       *)
(* guaranteed to fully complete before the job pool is shut down.          *)
(***************************************************************************)
CompleteBeforeDown ==
  main = "down" =>
    \A j \in pushed : /\ j \notin Abortables => state[j] = "done" /\ ran[j] = 1
                      /\ j \in Settled

\* Whatever Shutdown unlinks and workers take: no job that was added is lost, the
\* signals suffice for those in the list, and the pool is down when none is left.
NoJobLost == TypeOK /\ ListIsWhole /\ WakeupsSuffice /\ CompleteBeforeDown

(***************************************************************************)
(* jobs.h, Shutdown: "Aborts all abortable jobs."  It does not: a job that *)
(* a worker has taken from the list and not yet remembered as running is   *)
(* in neither of the places that Shutdown walks over.                      *)
(***************************************************************************)
ShutdownAbortsAll ==
  main \in {"wake", "join"} =>
    \A j \in pushed \cap Abortables : ran[j] = 1 \/ state[j] = "aborted"

\* Shutdown returns: every worker gets a signal that finds the list empty.
ShutdownEnds == []<>(main \in {"down", "ready", "signal"})

-----------------------------------------------------------------------------
(***************************************************************************)
(* The inductive invariant: the pointers are those of a sequence q of jobs *)
(* at every moment, also while Shutdown walks over the list.               *)
(***************************************************************************)
At(q, i) == IF i \in DOMAIN q THEN q[i] ELSE None

IsList(q) ==
  /\ IsInjective(q)
  /\ first = At(q, 1)
  /\ \A i \in DOMAIN q : next[q[i]] = At(q, i + 1)
  /\ \A j \in Jobs \ Range(q) : next[j] = None
  /\ IF main = "scan"
     THEN \E k \in 0 .. Len(q) : prev = At(q, k) /\ cur = At(q, k + 1)
     ELSE last = At(q, Len(q))

\* A job that was added is in the list, with one worker or settled.
InOnePlace(q) ==
  /\ fresh \cap pushed = {}
  /\ Range(q) \cup Held(Busy) \subseteq pushed
  /\ Range(q) \cap Held(Busy) = {}
  /\ pushed \subseteq Range(q) \cup Held(Busy) \cup Settled
  /\ \A w, v \in Holders(Busy) : job[w] = job[v] => w = v

\* How far it is when it is there.
InStep(q) ==
  /\ \A j \in fresh \cup Range(q) : state[j] \in {"queued", "aborted"} /\ ran[j] = 0
  /\ \A w \in Workers :
       /\ job[w] \in Jobs <=> pc[w] \in Busy
       /\ pc[w] \in Busy =>
            /\ state[job[w]] \in {IF pc[w] = "start" THEN "queued" ELSE "running", "aborted"}
            /\ ran[job[w]] = IF pc[w] \in {"forget", "finish"} THEN 1 ELSE 0
  /\ \A j \in Jobs : /\ state[j] = "aborted" => j \in Abortables
                     /\ state[j] = "done" => ran[j] = 1
  /\ running = Held({"run", "forget"})

\* A worker leaves only when nothing is left and nothing more can come.
LeavesLast(q) ==
  /\ shutdown <=> main \notin {"ready", "signal"}
  /\ Holders({"exit"}) # {} => shutdown /\ q = << >>
  /\ main = "down" => Holders({"exit"}) = Workers

Awaited(q) ==
  Len(q) <= sem + Cardinality(Holders({"fetch"})) + (IF main = "signal" THEN 1 ELSE 0)

Invariant(q) ==
  IsList(q) /\ InOnePlace(q) /\ InStep(q) /\ LeavesLast(q) /\ Awaited(q)

IInv == TypeOK /\ \E q \in SeqOf(Jobs, Cardinality(Jobs)) : Invariant(q)

-----------------------------------------------------------------------------
\* The pool implements the service.
Service ==
  INSTANCE JobService WITH
    open <- main # "down",
    pending <- {j \in pushed : state[j] = "queued"},
    executing <- Held({"remember", "run", "forget", "finish"})

ImplementsService == Service!Init /\ [][Service!Next]_(Service!vars)
=============================================================================
