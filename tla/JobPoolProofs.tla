--------------------------- MODULE JobPoolProofs ---------------------------
(***************************************************************************)
(* The job pool loses no job and implements JobService.  The argument      *)
(* follows the sequence q whose pointers the list holds: every step takes  *)
(* the sequence of the list before it to the sequence after it (its tail   *)
(* for Fetch, one more job for Add, one less for Unlink), and the other    *)
(* parts of the invariant say where each job of q and each worker is.      *)
(* One lemma per action; NthOfList connects the pointers with q.           *)
(***************************************************************************)
EXTENDS JobPool, NumberLemmas, FiniteSetTheorems, SequenceTheorems

\* Steps that leave the list and Shutdown's walk alone.
LEMMA ListKept ==
  ASSUME NEW q, IsList(q), UNCHANGED <<queueVars, cur, prev>>,
         (main = "scan") <=> (main' = "scan")
  PROVE  IsList(q)'
BY DEF IsList, At, queueVars

\* The workers in a set of steps can be counted.
LEMMA HoldersFinite ==
  ASSUME NEW S
  PROVE  IsFiniteSet(Holders(S)) /\ Cardinality(Holders(S)) \in Nat
<1>1. Holders(S) \subseteq Workers
  BY DEF Holders
<1> QED BY <1>1, PoolAssumption, FS_Subset, FS_CardinalityType

\* The number of workers that look at the list follows the step of one of them.
LEMMA FetchersCounted ==
  ASSUME NEW w \in Workers, \A v \in Workers \ {w} : pc'[v] = pc[v]
  PROVE  LET n == Cardinality(Holders({"fetch"}))
         IN  /\ n \in Nat
             /\ pc[w] # "fetch" /\ pc'[w] = "fetch" => n' = n + 1
             /\ pc[w] = "fetch" /\ pc'[w] # "fetch" => n' = n - 1
             /\ pc[w] # "fetch" /\ pc'[w] # "fetch" => n' = n
<1> DEFINE H == Holders({"fetch"})
<1>1. IsFiniteSet(H) /\ Cardinality(H) \in Nat
  BY HoldersFinite
<1>2. H' = IF pc'[w] = "fetch" THEN H \cup {w} ELSE H \ {w}
  BY DEF Holders
<1>3. w \in H <=> pc[w] = "fetch"
  BY DEF Holders
<1>4. Cardinality(H \cup {w}) = IF w \in H THEN Cardinality(H) ELSE Cardinality(H) + 1
  BY <1>1, FS_AddElement
<1>5. Cardinality(H \ {w}) = IF w \in H THEN Cardinality(H) - 1 ELSE Cardinality(H)
  BY <1>1, FS_RemoveElement
<1> QED BY <1>1, <1>2, <1>3, <1>4, <1>5

\* The step of a worker that neither takes a job from the list nor waits for one.
LEMMA StillAwaited ==
  ASSUME TypeOK, NEW q \in Seq(Jobs), Awaited(q), NEW w \in Workers,
         \A v \in Workers \ {w} : pc'[v] = pc[v],
         pc'[w] # "fetch", pc[w] # "fetch", UNCHANGED <<sem, main>>
  PROVE  Awaited(q)'
<1>1. Cardinality(Holders({"fetch"})) \in Nat
  BY HoldersFinite
<1>2. Cardinality(Holders({"fetch"}))' = Cardinality(Holders({"fetch"}))
  BY FetchersCounted DEF TypeOK
<1>3. Len(q) \in Nat /\ sem \in Nat
  BY DEF TypeOK
<1> QED BY <1>1, <1>2, <1>3 DEF Awaited

-----------------------------------------------------------------------------
\* A worker consumes a signal and is going to look at the list.
LEMMA WaitStep ==
  ASSUME TypeOK, NEW q \in Seq(Jobs), Invariant(q), NEW w \in Workers, Wait(w)
  PROVE  TypeOK' /\ Invariant(q)'
<1> USE DEF Wait, queueVars, scanVars, history
<1>1. TypeOK'
  BY DEF TypeOK
<1>2. IsList(q)'
  BY ListKept DEF Invariant
<1>3. Held(Busy)' = Held(Busy) /\ Holders(Busy)' = Holders(Busy)
  BY DEF Held, Holders, Busy, TypeOK
<1>4. InOnePlace(q)'
  BY <1>3 DEF Invariant, InOnePlace, Settled
<1>5. InStep(q)'
  BY DEF Invariant, InStep, TypeOK, Held, Holders, Busy
<1>6. LeavesLast(q)'
  BY DEF Invariant, LeavesLast, TypeOK, Holders
<1>7. Awaited(q)'
  <2>1. Cardinality(Holders({"fetch"}))' = Cardinality(Holders({"fetch"})) + 1
    BY FetchersCounted DEF TypeOK
  <2>2. /\ Cardinality(Holders({"fetch"})) \in Nat
        /\ Len(q) \in Nat /\ sem \in Nat
    BY HoldersFinite DEF TypeOK
  <2> QED BY <2>1, <2>2 DEF Invariant, Awaited
<1> QED BY <1>1, <1>2, <1>4, <1>5, <1>6, <1>7 DEF Invariant

\* A worker leaves only when the list is empty and the pool shuts down.
LEMMA FetchNothingStep ==
  ASSUME TypeOK, NEW q \in Seq(Jobs), Invariant(q), NEW w \in Workers, FetchNothing(w)
  PROVE  TypeOK' /\ Invariant(q)'
<1> USE DEF FetchNothing, queueVars, scanVars, history
<1>1. TypeOK'
  BY DEF TypeOK
<1>2. IsList(q)'
  BY ListKept DEF Invariant
<1>3. Held(Busy)' = Held(Busy) /\ Holders(Busy)' = Holders(Busy)
  BY DEF Held, Holders, Busy, TypeOK
<1>4. InOnePlace(q)'
  BY <1>3 DEF Invariant, InOnePlace, Settled
<1>5. InStep(q)'
  BY DEF Invariant, InStep, TypeOK, Held, Holders, Busy
<1>q. q = << >>
  BY PoolAssumption DEF Invariant, IsList, At
<1>6. LeavesLast(q)'
  BY <1>q DEF Invariant, LeavesLast, TypeOK, Holders
<1>7. Awaited(q)'
  <2>1. Cardinality(Holders({"fetch"})') \in Nat
    <3>1. Holders({"fetch"})' \subseteq Workers
      BY DEF Holders
    <3> QED BY <3>1, PoolAssumption, FS_Subset, FS_CardinalityType
  <2> QED BY <1>q, <1>1, <2>1 DEF Awaited, TypeOK
<1> QED BY <1>1, <1>2, <1>4, <1>5, <1>6, <1>7 DEF Invariant

\* The job a worker starts is in nobody else's hands.
LEMMA StartStep ==
  ASSUME TypeOK, NEW q \in Seq(Jobs), Invariant(q), NEW w \in Workers, Start(w)
  PROVE  TypeOK' /\ Invariant(q)'
<1> USE DEF Start, queueVars, scanVars, history
<1>0. job[w] \in Jobs
  BY DEF Invariant, InStep, Busy
<1>1. TypeOK'
  BY DEF TypeOK
<1>2. IsList(q)'
  BY ListKept DEF Invariant
<1>3. Held(Busy)' = Held(Busy) /\ Holders(Busy)' = Holders(Busy)
  BY DEF Held, Holders, Busy, TypeOK
<1>4. InOnePlace(q)'
  BY <1>3, <1>0 DEF Invariant, InOnePlace, Settled, TypeOK
<1>a. w \in Holders(Busy) /\ job[w] \in Held(Busy)
  BY DEF Holders, Busy, Held
<1>5. InStep(q)'
  <2>1. \A j \in fresh \cup Range(q) : j # job[w]
    BY <1>a DEF Invariant, InOnePlace
  <2>2. \A v \in Workers : pc[v] \in Busy /\ v # w => job[v] # job[w]
    BY <1>a DEF Invariant, InOnePlace, Holders
  <2>3. Held({"run", "forget"})' = Held({"run", "forget"})
    BY DEF Held, Holders, TypeOK
  <2> QED BY <2>1, <2>2, <2>3, <1>0 DEF Invariant, InStep, TypeOK, Busy
<1>6. LeavesLast(q)'
  BY DEF Invariant, LeavesLast, TypeOK, Holders
<1>7. Awaited(q)'
  BY StillAwaited DEF Invariant, TypeOK
<1> QED BY <1>1, <1>2, <1>4, <1>5, <1>6, <1>7 DEF Invariant

\* An aborted job that is skipped is settled.
LEMMA SkipAbortedStep ==
  ASSUME TypeOK, NEW q \in Seq(Jobs), Invariant(q), NEW w \in Workers, SkipAborted(w)
  PROVE  TypeOK' /\ Invariant(q)'
<1> USE DEF SkipAborted, queueVars, scanVars, history
<1>0. job[w] \in Jobs
  BY DEF Invariant, InStep, Busy
<1>1. TypeOK'
  BY DEF TypeOK
<1>2. IsList(q)'
  BY ListKept DEF Invariant
<1>a. w \in Holders(Busy) /\ job[w] \in Held(Busy)
  BY DEF Holders, Busy, Held
<1>3. Held(Busy)' = Held(Busy) \ {job[w]} /\ Holders(Busy)' = Holders(Busy) \ {w}
  BY <1>a DEF Invariant, InOnePlace, Held, Holders, Busy, TypeOK
<1>4. InOnePlace(q)'
  <2>1. job[w] \in Settled
    BY <1>0 DEF Settled
  <2> QED BY <1>3, <2>1 DEF Invariant, InOnePlace, Settled, TypeOK, Holders, Busy
<1>5. InStep(q)'
  <2>3. Held({"run", "forget"})' = Held({"run", "forget"})
    BY DEF Held, Holders, TypeOK
  <2> QED BY <2>3, <1>0, PoolAssumption DEF Invariant, InStep, TypeOK, Busy
<1>6. LeavesLast(q)'
  BY DEF Invariant, LeavesLast, TypeOK, Holders
<1>7. Awaited(q)'
  BY StillAwaited DEF Invariant, TypeOK
<1> QED BY <1>1, <1>2, <1>4, <1>5, <1>6, <1>7 DEF Invariant

\* m_RunningJobs gets the job that the worker is about to run.
LEMMA RememberStep ==
  ASSUME TypeOK, NEW q \in Seq(Jobs), Invariant(q), NEW w \in Workers, Remember(w)
  PROVE  TypeOK' /\ Invariant(q)'
<1> USE DEF Remember, queueVars, scanVars, history
<1>0. job[w] \in Jobs
  BY DEF Invariant, InStep, Busy
<1>1. TypeOK'
  BY <1>0 DEF TypeOK
<1>2. IsList(q)'
  BY ListKept DEF Invariant
<1>3. Held(Busy)' = Held(Busy) /\ Holders(Busy)' = Holders(Busy)
  BY DEF Held, Holders, Busy, TypeOK
<1>4. InOnePlace(q)'
  BY <1>3 DEF Invariant, InOnePlace, Settled
<1>5. InStep(q)'
  <2>3. Held({"run", "forget"})' = Held({"run", "forget"}) \cup {job[w]}
    BY DEF Held, Holders, TypeOK
  <2> QED BY <2>3, <1>0 DEF Invariant, InStep, TypeOK, Busy
<1>6. LeavesLast(q)'
  BY DEF Invariant, LeavesLast, TypeOK, Holders
<1>7. Awaited(q)'
  BY StillAwaited DEF Invariant, TypeOK
<1> QED BY <1>1, <1>2, <1>4, <1>5, <1>6, <1>7 DEF Invariant

\* A job runs for the first time.
LEMMA RunStep ==
  ASSUME TypeOK, NEW q \in Seq(Jobs), Invariant(q), NEW w \in Workers, Run(w)
  PROVE  TypeOK' /\ Invariant(q)'
<1> USE DEF Run, queueVars, scanVars, history
<1>0. job[w] \in Jobs /\ ran[job[w]] = 0
  BY DEF Invariant, InStep, Busy
<1>1. TypeOK'
  BY <1>0 DEF TypeOK
<1>2. IsList(q)'
  BY ListKept DEF Invariant
<1>3. Held(Busy)' = Held(Busy) /\ Holders(Busy)' = Holders(Busy)
  BY DEF Held, Holders, Busy, TypeOK
<1>4. InOnePlace(q)'
  BY <1>3 DEF Invariant, InOnePlace, Settled
<1>a. w \in Holders(Busy) /\ job[w] \in Held(Busy)
  BY DEF Holders, Busy, Held
<1>5. InStep(q)'
  <2>1. \A j \in fresh \cup Range(q) : j # job[w]
    BY <1>a DEF Invariant, InOnePlace
  <2>2. \A v \in Workers : pc[v] \in Busy /\ v # w => job[v] # job[w]
    BY <1>a DEF Invariant, InOnePlace, Holders
  <2>3. Held({"run", "forget"})' = Held({"run", "forget"})
    BY DEF Held, Holders, TypeOK
  <2> QED BY <2>1, <2>2, <2>3, <1>0 DEF Invariant, InStep, TypeOK, Busy
<1>6. LeavesLast(q)'
  BY DEF Invariant, LeavesLast, TypeOK, Holders
<1>7. Awaited(q)'
  BY StillAwaited DEF Invariant, TypeOK
<1> QED BY <1>1, <1>2, <1>4, <1>5, <1>6, <1>7 DEF Invariant

\* m_RunningJobs loses the job of no other worker.
LEMMA ForgetStep ==
  ASSUME TypeOK, NEW q \in Seq(Jobs), Invariant(q), NEW w \in Workers, Forget(w)
  PROVE  TypeOK' /\ Invariant(q)'
<1> USE DEF Forget, queueVars, scanVars, history
<1>0. job[w] \in Jobs
  BY DEF Invariant, InStep, Busy
<1>1. TypeOK'
  BY <1>0 DEF TypeOK
<1>2. IsList(q)'
  BY ListKept DEF Invariant
<1>3. Held(Busy)' = Held(Busy) /\ Holders(Busy)' = Holders(Busy)
  BY DEF Held, Holders, Busy, TypeOK
<1>4. InOnePlace(q)'
  BY <1>3 DEF Invariant, InOnePlace, Settled
<1>5. InStep(q)'
  <2>3. Held({"run", "forget"})' = Held({"run", "forget"}) \ {job[w]}
    BY DEF Invariant, InOnePlace, Held, Holders, TypeOK, Busy
  <2> QED BY <2>3, <1>0 DEF Invariant, InStep, TypeOK, Busy
<1>6. LeavesLast(q)'
  BY DEF Invariant, LeavesLast, TypeOK, Holders
<1>7. Awaited(q)'
  BY StillAwaited DEF Invariant, TypeOK
<1> QED BY <1>1, <1>2, <1>4, <1>5, <1>6, <1>7 DEF Invariant

\* A job that has run is done, or was aborted meanwhile.
LEMMA FinishStep ==
  ASSUME TypeOK, NEW q \in Seq(Jobs), Invariant(q), NEW w \in Workers, Finish(w)
  PROVE  TypeOK' /\ Invariant(q)'
<1> USE DEF Finish, queueVars, scanVars, history
<1>0. job[w] \in Jobs
  BY DEF Invariant, InStep, Busy
<1>1. TypeOK'
  BY DEF TypeOK
<1>2. IsList(q)'
  BY ListKept DEF Invariant
<1>a. w \in Holders(Busy) /\ job[w] \in Held(Busy)
  BY DEF Holders, Busy, Held
<1>3. Held(Busy)' = Held(Busy) \ {job[w]} /\ Holders(Busy)' = Holders(Busy) \ {w}
  BY <1>a DEF Invariant, InOnePlace, Held, Holders, Busy, TypeOK
<1>4. InOnePlace(q)'
  <2>1. Settled' = Settled \cup {job[w]}
    BY <1>0 DEF Settled, TypeOK
  <2> QED BY <1>3, <2>1 DEF Invariant, InOnePlace, Holders, TypeOK, Busy
<1>5. InStep(q)'
  <2>1. \A j \in fresh \cup Range(q) : j # job[w]
    BY <1>a DEF Invariant, InOnePlace
  <2>2. \A v \in Workers : pc[v] \in Busy /\ v # w => job[v] # job[w]
    BY <1>a DEF Invariant, InOnePlace, Holders
  <2>3. Held({"run", "forget"})' = Held({"run", "forget"})
    BY DEF Held, Holders, TypeOK
  <2> QED BY <2>1, <2>2, <2>3, <1>0, PoolAssumption DEF Invariant, InStep, TypeOK, Busy
<1>6. LeavesLast(q)'
  BY DEF Invariant, LeavesLast, TypeOK, Holders
<1>7. Awaited(q)'
  BY StillAwaited DEF Invariant, TypeOK
<1> QED BY <1>1, <1>2, <1>4, <1>5, <1>6, <1>7 DEF Invariant

\* A worker takes the head of the list: the list is the tail of what it was.
LEMMA FetchStep ==
  ASSUME TypeOK, NEW q \in Seq(Jobs), Invariant(q), NEW w \in Workers, Fetch(w)
  PROVE  TypeOK' /\ Tail(q) \in Seq(Jobs) /\ Invariant(Tail(q))'
<1> USE DEF Fetch, queueVars, scanVars, history
<1> DEFINE r == Tail(q)
<1>0. first \in Jobs /\ q # << >> /\ first = q[1]
  BY PoolAssumption DEF Invariant, IsList, At, TypeOK
<1>r. /\ r \in Seq(Jobs) /\ Len(q) \in Nat /\ Len(r) = Len(q) - 1
      /\ \A i \in 1 .. Len(r) : r[i] = q[i + 1] /\ i + 1 \in 1 .. Len(q)
      /\ DOMAIN r = 1 .. Len(r) /\ DOMAIN q = 1 .. Len(q) /\ Len(q) >= 1
      /\ \A i \in 1 .. Len(q) : q[i] \in Jobs
  BY <1>0
<1>i. \A a, b \in 1 .. Len(q) : q[a] = q[b] => a = b
  BY <1>r DEF Invariant, IsList, IsInjective
<1>b. Range(r) = Range(q) \ {first} /\ first \in Range(q)
  <2>1. \A j \in Range(q) \ {first} : j \in Range(r)
    <3> SUFFICES ASSUME NEW i \in 1 .. Len(q), q[i] # first  PROVE q[i] \in Range(r)
      BY <1>r DEF Range
    <3>1. i # 1 /\ i - 1 \in 1 .. Len(r)
      BY <1>0, <1>r
    <3>2. q[i] = r[i - 1]
      BY <3>1, <1>r
    <3> QED BY <3>1, <3>2, <1>r DEF Range
  <2>2. \A j \in Range(r) : j \in Range(q) /\ j # first
    BY <1>0, <1>r, <1>i DEF Range
  <2>3. first \in Range(q)
    BY <1>0, <1>r DEF Range
  <2> QED BY <2>1, <2>2, <2>3
<1>1. TypeOK'
  BY <1>0, PoolAssumption DEF TypeOK
<1>2. IsList(r)'
  <2>1. main # "scan" /\ main' # "scan"
    BY DEF LockFree
  <2>2. IsInjective(r)
    BY <1>r, <1>i DEF IsInjective
  <2>3. next[first] = At(q, 2) /\ At(q, 2) = At(r, 1)
    BY <1>0, <1>r DEF Invariant, IsList, At
  <2>4. \A i \in 1 .. Len(r) : next'[r[i]] = At(r, i + 1)
    <3> SUFFICES ASSUME NEW i \in 1 .. Len(r)  PROVE next'[r[i]] = At(r, i + 1)
      OBVIOUS
    <3>1. r[i] # first /\ r[i] \in Jobs
      BY <1>0, <1>r, <1>i
    <3>2. next'[r[i]] = next[q[i + 1]]
      BY <3>1, <1>r DEF TypeOK
    <3>3. next[q[i + 1]] = At(q, i + 2)
      <4>1. i + 1 \in DOMAIN q /\ (i + 1) + 1 = i + 2
        BY <1>r
      <4>2. \A k \in DOMAIN q : next[q[k]] = At(q, k + 1)
        BY DEF Invariant, IsList
      <4> HIDE DEF At
      <4> QED BY <4>1, <4>2, Zenon
    <3>4. At(q, i + 2) = At(r, i + 1)
      BY <1>r DEF At
    <3> QED BY <3>2, <3>3, <3>4
  <2>5. \A j \in Jobs \ Range(r) : next'[j] = None
    BY <1>b, <1>0 DEF Invariant, IsList, TypeOK
  <2>6. last' = At(r, Len(r))
    <3>1. CASE Len(q) = 1
      <4>1. At(q, 2) = None /\ At(r, Len(r)) = None
        BY <3>1, <1>r DEF At
      <4> QED BY <4>1, <2>3
    <3>2. CASE Len(q) # 1
      <4>1. At(q, 2) # None /\ At(r, Len(r)) = At(q, Len(q))
        BY <3>2, <1>r, PoolAssumption DEF At
      <4> QED BY <4>1, <2>1, <2>3 DEF Invariant, IsList
    <3> QED BY <3>1, <3>2
  <2> HIDE DEF r
  <2> QED BY <2>1, <2>2, <2>3, <2>4, <2>5, <2>6, <1>r DEF IsList, At
<1>3. Held(Busy)' = Held(Busy) \cup {first} /\ Holders(Busy)' = Holders(Busy) \cup {w}
  BY DEF Held, Holders, Busy, TypeOK
<1>4. InOnePlace(r)'
  <2>1. \A v \in Holders(Busy) : job[v] # first
    BY <1>b DEF Invariant, InOnePlace, Held
  <2>2. w \notin Holders(Busy)
    BY DEF Holders, Busy
  <2>3. \A v \in Holders(Busy) : job'[v] = job[v]
    BY <2>2 DEF Holders, TypeOK
  <2>4. job'[w] = first
    BY DEF TypeOK
  <2> HIDE DEF r
  <2>5. \A u, v \in Holders(Busy)' : job'[u] = job'[v] => u = v
    BY <1>3, <2>1, <2>2, <2>3, <2>4 DEF Invariant, InOnePlace
  <2> QED BY <1>b, <1>3, <2>5 DEF Invariant, InOnePlace, Settled
<1>5. InStep(r)'
  <2>1. state[first] \in {"queued", "aborted"} /\ ran[first] = 0
    BY <1>b DEF Invariant, InStep
  <2>3. Held({"run", "forget"})' = Held({"run", "forget"})
    BY DEF Held, Holders, TypeOK
  <2> HIDE DEF r
  <2> QED BY <2>1, <2>3, <1>b, <1>0 DEF Invariant, InStep, TypeOK, Busy
<1>6. LeavesLast(r)'
  <2>1. Holders({"exit"})' = Holders({"exit"}) /\ Holders({"exit"}) = {}
    BY <1>0 DEF Invariant, LeavesLast, TypeOK, Holders
  <2> QED BY <2>1 DEF Invariant, LeavesLast
<1>7. Awaited(r)'
  <2>0. pc[w] = "fetch" /\ pc'[w] = "start" /\ \A v \in Workers \ {w} : pc'[v] = pc[v]
    BY DEF TypeOK
  <2>1. Cardinality(Holders({"fetch"}))' = Cardinality(Holders({"fetch"})) - 1
    BY <2>0, FetchersCounted
  <2>2. /\ Cardinality(Holders({"fetch"})) \in Nat
        /\ sem \in Nat
    BY HoldersFinite DEF TypeOK
  <2> HIDE DEF r
  <2> QED BY <2>1, <2>2, <1>r DEF Invariant, Awaited
<1> QED BY <1>r, <1>1, <1>2, <1>4, <1>5, <1>6, <1>7 DEF Invariant

\* Every step of a worker keeps the invariant, for the list it leaves behind.
LEMMA WorkerStep ==
  ASSUME TypeOK, NEW q \in Seq(Jobs), Invariant(q), NEW w \in Workers, RunLoop(w)
  PROVE  TypeOK' /\ \E r \in Seq(Jobs) : Invariant(r)'
BY WaitStep, FetchStep, FetchNothingStep, StartStep, SkipAbortedStep, RememberStep,
   RunStep, ForgetStep, FinishStep DEF RunLoop

-----------------------------------------------------------------------------
(* The main thread.                                                         *)

\* Nothing moves but the states of abortable jobs, which are aborted.
LEMMA OnlyAborted ==
  ASSUME TypeOK, NEW q \in Seq(Jobs), Invariant(q),
         state' \in [Jobs -> {"queued", "running", "done", "aborted"}],
         \A j \in Jobs : \/ state'[j] = state[j]
                         \/ j \in Abortables /\ state'[j] = "aborted",
         UNCHANGED <<pc, job, running, ran, pushed>>, fresh' \subseteq fresh
  PROVE  InOnePlace(q)' /\ InStep(q)'
<1>1. Held(Busy)' = Held(Busy) /\ Holders(Busy)' = Holders(Busy)
  BY DEF Held, Holders
<1>2. Settled \subseteq Settled'
  BY DEF Settled
<1>3. InOnePlace(q)'
  BY <1>1, <1>2 DEF Invariant, InOnePlace
<1>4. Held({"run", "forget"})' = Held({"run", "forget"})
  BY DEF Held, Holders
<1>5. \A j \in fresh' \cup Range(q) : state'[j] \in {"queued", "aborted"} /\ ran'[j] = 0
  <2>1. Range(q) \subseteq Jobs
    BY DEF Range
  <2> QED BY <2>1 DEF Invariant, InStep, TypeOK
<1>6. \A w \in Workers : pc[w] \in Busy => job[w] \in Jobs
  BY DEF Invariant, InStep
<1> QED BY <1>3, <1>4, <1>5, <1>6 DEF Invariant, InStep

\* Nothing changes about any job.
LEMMA StateStays ==
  ASSUME TypeOK, NEW q \in Seq(Jobs), Invariant(q),
         UNCHANGED <<state, workerVars, running, history>>
  PROVE  InOnePlace(q)' /\ InStep(q)'
BY OnlyAborted DEF workerVars, history, TypeOK

\* The fetching workers and the signals stay.
LEMMA FetchersStay ==
  ASSUME TypeOK, NEW q \in Seq(Jobs), Invariant(q), UNCHANGED <<sem, workerVars>>,
         main' = "signal" <=> main = "signal"
  PROVE  Awaited(q)'
BY DEF Invariant, Awaited, workerVars, Holders

\* Add gives its signal.
LEMMA SignalStep ==
  ASSUME TypeOK, NEW q \in Seq(Jobs), Invariant(q), Signal
  PROVE  TypeOK' /\ Invariant(q)'
<1> USE DEF Signal, queueVars, scanVars, workerVars, history
<1>1. TypeOK'
  BY DEF TypeOK
<1>2. IsList(q)'
  BY ListKept DEF Invariant
<1>3. InOnePlace(q)' /\ InStep(q)'
  BY StateStays
<1>4. LeavesLast(q)'
  BY DEF Invariant, LeavesLast, Holders
<1>5. Awaited(q)'
  <2>1. /\ Cardinality(Holders({"fetch"})) \in Nat
        /\ sem \in Nat /\ Len(q) \in Nat
    BY HoldersFinite DEF TypeOK
  <2>2. Cardinality(Holders({"fetch"}))' = Cardinality(Holders({"fetch"}))
    BY DEF Holders
  <2> QED BY <2>1, <2>2 DEF Invariant, Awaited
<1> QED BY <1>1, <1>2, <1>3, <1>4, <1>5 DEF Invariant

\* The pool opens with an empty list.
LEMMA InitPoolStep ==
  ASSUME TypeOK, NEW q \in Seq(Jobs), Invariant(q), InitPool
  PROVE  TypeOK' /\ Invariant(q)'
<1> USE DEF InitPool, queueVars, scanVars, workerVars, history
<1>0. q = << >> /\ \A w \in Workers : pc[w] = "exit"
  BY PoolAssumption DEF Invariant, LeavesLast, Holders
<1>1. TypeOK'
  BY DEF TypeOK
<1>2. IsList(q)'
  BY <1>0 DEF Invariant, IsList, At
<1>3. Holders(Busy) = {} /\ Holders(Busy)' = {}
  BY <1>0 DEF Holders, Busy
<1>4. Held(Busy) = {} /\ Held(Busy)' = {}
  BY <1>3 DEF Held
<1>5. InOnePlace(q)'
  BY <1>3, <1>4 DEF Invariant, InOnePlace, Settled
<1>6. InStep(q)'
  <2>1. Held({"run", "forget"}) = {} /\ Held({"run", "forget"})' = {}
    BY <1>0 DEF Held, Holders
  <2> QED BY <1>0, <2>1 DEF Invariant, InStep, Busy
<1>7. LeavesLast(q)'
  BY DEF LeavesLast, Holders
<1>8. Awaited(q)'
  <2>1. Holders({"fetch"})' = {}
    BY DEF Holders
  <2> QED BY <2>1, <1>0, FS_EmptySet DEF Awaited
<1> QED BY <1>1, <1>2, <1>5, <1>6, <1>7, <1>8 DEF Invariant

\* A job that is offered to a closed pool is aborted at most.
LEMMA AddRefusedStep ==
  ASSUME TypeOK, NEW q \in Seq(Jobs), Invariant(q), NEW j \in Jobs, AddRefused(j)
  PROVE  TypeOK' /\ Invariant(q)'
<1> USE DEF AddRefused, queueVars, scanVars, workerVars, history
<1>1. TypeOK'
  BY DEF TypeOK, Aborted
<1>2. IsList(q)'
  BY ListKept DEF Invariant
<1>3. InOnePlace(q)' /\ InStep(q)'
  BY <1>1, OnlyAborted DEF Aborted, TypeOK
<1>4. LeavesLast(q)'
  BY DEF Invariant, LeavesLast, Holders
<1>5. Awaited(q)'
  BY FetchersStay
<1> QED BY <1>1, <1>2, <1>3, <1>4, <1>5 DEF Invariant

\* The owner of a job aborts it.
LEMMA AbortStep ==
  ASSUME TypeOK, NEW q \in Seq(Jobs), Invariant(q), NEW j \in Jobs, Abort(j)
  PROVE  TypeOK' /\ Invariant(q)'
<1> USE DEF Abort, queueVars, scanVars, workerVars, history
<1>1. TypeOK'
  BY DEF TypeOK, Aborted
<1>2. IsList(q)'
  BY ListKept DEF Invariant
<1>3. InOnePlace(q)' /\ InStep(q)'
  BY <1>1, OnlyAborted DEF Aborted, TypeOK
<1>4. LeavesLast(q)'
  BY DEF Invariant, LeavesLast, Holders
<1>5. Awaited(q)'
  BY FetchersStay
<1> QED BY <1>1, <1>2, <1>3, <1>4, <1>5 DEF Invariant

\* Shutdown aborts what it finds in m_RunningJobs.
LEMMA AbortRunningStep ==
  ASSUME TypeOK, NEW q \in Seq(Jobs), Invariant(q), AbortRunning
  PROVE  TypeOK' /\ Invariant(q)'
<1> USE DEF AbortRunning, queueVars, scanVars, workerVars, history
<1>1. TypeOK'
  <2>1. Cardinality(Workers) \in Nat
    BY PoolAssumption, FS_CardinalityType
  <2> QED BY <2>1 DEF TypeOK, Aborted
<1>2. IsList(q)'
  BY ListKept DEF Invariant
<1>3. InOnePlace(q)' /\ InStep(q)'
  BY <1>1, OnlyAborted DEF Aborted, TypeOK
<1>4. LeavesLast(q)'
  BY DEF Invariant, LeavesLast, Holders
<1>5. Awaited(q)'
  BY FetchersStay
<1> QED BY <1>1, <1>2, <1>3, <1>4, <1>5 DEF Invariant

\* Shutdown sets the flag.
LEMMA ShutdownStep ==
  ASSUME TypeOK, NEW q \in Seq(Jobs), Invariant(q), Shutdown
  PROVE  TypeOK' /\ Invariant(q)'
<1> USE DEF Shutdown, queueVars, scanVars, workerVars, history
<1>1. TypeOK'
  BY DEF TypeOK
<1>2. IsList(q)'
  BY ListKept DEF Invariant
<1>3. InOnePlace(q)' /\ InStep(q)'
  BY StateStays
<1>4. LeavesLast(q)'
  BY DEF Invariant, LeavesLast, Holders
<1>5. Awaited(q)'
  BY FetchersStay
<1> QED BY <1>1, <1>2, <1>3, <1>4, <1>5 DEF Invariant

\* Shutdown wakes the workers.
LEMMA WakeStep ==
  ASSUME TypeOK, NEW q \in Seq(Jobs), Invariant(q), Wake
  PROVE  TypeOK' /\ Invariant(q)'
<1> USE DEF Wake, queueVars, workerVars, history
<1>1. TypeOK'
  <2>1. Cardinality(Workers) \in Nat
    BY PoolAssumption, FS_CardinalityType
  <2> QED BY <2>1 DEF TypeOK
<1>2. IsList(q)'
  BY ListKept DEF Invariant
<1>3. InOnePlace(q)' /\ InStep(q)'
  BY StateStays
<1>4. LeavesLast(q)'
  BY DEF Invariant, LeavesLast, Holders
<1>5. Awaited(q)'
  <2>1. /\ Cardinality(Holders({"fetch"})) \in Nat
        /\ sem \in Nat /\ Len(q) \in Nat /\ sem' \in Nat /\ sem' >= sem
    BY HoldersFinite DEF TypeOK
  <2>2. Cardinality(Holders({"fetch"}))' = Cardinality(Holders({"fetch"}))
    BY DEF Holders
  <2>3. main # "signal" /\ main' # "signal"
    OBVIOUS
  <2> QED BY <2>1, <2>2, <2>3 DEF Invariant, Awaited
<1> QED BY <1>1, <1>2, <1>3, <1>4, <1>5 DEF Invariant

\* The pool is down when the workers have left.
LEMMA JoinStep ==
  ASSUME TypeOK, NEW q \in Seq(Jobs), Invariant(q), Join
  PROVE  TypeOK' /\ Invariant(q)'
<1> USE DEF Join, queueVars, scanVars, workerVars, history
<1>1. TypeOK'
  BY DEF TypeOK
<1>2. IsList(q)'
  BY ListKept DEF Invariant
<1>3. InOnePlace(q)' /\ InStep(q)'
  BY StateStays
<1>4. LeavesLast(q)'
  BY DEF Invariant, LeavesLast, Holders
<1>5. Awaited(q)'
  BY FetchersStay
<1> QED BY <1>1, <1>2, <1>3, <1>4, <1>5 DEF Invariant


\* A job that is added is the new tail of the list.
LEMMA AddStep ==
  ASSUME TypeOK, NEW q \in Seq(Jobs), Invariant(q), NEW j \in Jobs, Add(j)
  PROVE  TypeOK' /\ Append(q, j) \in Seq(Jobs) /\ Invariant(Append(q, j))'
<1> USE DEF Add, scanVars, workerVars
<1> DEFINE r == Append(q, j)
<1>r. /\ r \in Seq(Jobs) /\ Len(q) \in Nat /\ Len(r) = Len(q) + 1
      /\ \A i \in 1 .. Len(q) : r[i] = q[i] /\ q[i] \in Jobs
      /\ r[Len(r)] = j
      /\ DOMAIN r = 1 .. Len(r) /\ DOMAIN q = 1 .. Len(q)
  OBVIOUS
<1>0. Range(r) = Range(q) \cup {j} /\ j \notin Range(q) /\ j \notin pushed
  <2>1. Range(q) \subseteq pushed /\ j \notin pushed
    BY DEF Invariant, InOnePlace
  <2>2. \A i \in Range(r) : i \in Range(q) \cup {j}
    BY <1>r DEF Range
  <2>3. \A i \in Range(q) \cup {j} : i \in Range(r)
    BY <1>r DEF Range
  <2> QED BY <2>1, <2>2, <2>3
<1>1. TypeOK'
  BY DEF TypeOK
<1>i. \A a, b \in 1 .. Len(q) : q[a] = q[b] => a = b
  BY <1>r DEF Invariant, IsList, IsInjective
<1>2. IsList(r)'
  <2>1. /\ main # "scan" /\ main' # "scan" /\ last = At(q, Len(q))
        /\ first = At(q, 1)
        /\ \A i \in 1 .. Len(q) : next[q[i]] = At(q, i + 1)
        /\ \A i \in Jobs \ Range(q) : next[i] = None
    BY <1>r DEF Invariant, IsList
  <2>2. IsInjective(r)
    <3>1. \A i \in 1 .. Len(q) : r[i] # j
      BY <1>r, <1>0 DEF Range
    <3> SUFFICES ASSUME NEW a \in 1 .. Len(r), NEW b \in 1 .. Len(r), r[a] = r[b]
                 PROVE a = b
      BY <1>r DEF IsInjective
    <3>2. CASE a = Len(r)
      <4>1. b \notin 1 .. Len(q)
        BY <3>1, <3>2, <1>r
      <4> QED BY <4>1, <3>2, <1>r
    <3>3. CASE a # Len(r)
      <4>1. a \in 1 .. Len(q)
        BY <3>3, <1>r
      <4>2. b # Len(r)
        BY <4>1, <3>1, <1>r
      <4>3. b \in 1 .. Len(q)
        BY <4>2, <1>r
      <4> QED BY <4>1, <4>3, <1>i, <1>r
    <3> QED BY <3>2, <3>3
  <2>3. CASE Len(q) = 0
    <3>1. last = None /\ first = None
      BY <2>1, <2>3, <1>r DEF At
    <3>2. first' = j /\ last' = j /\ next' = next
      BY <3>1
    <3>3. Range(q) = {} /\ Len(r) = 1 /\ r[1] = j
      BY <2>3, <1>r DEF Range
    <3>4. next[j] = None
      BY <2>1, <1>0
    <3> HIDE DEF r
    <3> QED BY <1>0, <1>r, <2>1, <2>2, <3>2, <3>3, <3>4 DEF IsList, At
  <2>4. CASE Len(q) # 0
    <3>1. last = q[Len(q)] /\ first = q[1] /\ q[1] \in Jobs /\ q[Len(q)] \in Jobs
      BY <2>1, <2>4, <1>r DEF At
    <3>2. first' = first /\ last' = j /\ next' = [next EXCEPT ![last] = j]
      BY <3>1, PoolAssumption
    <3>3. first' = At(r, 1) /\ last' = At(r, Len(r))
      BY <3>1, <3>2, <2>4, <1>r DEF At
    <3>4. \A i \in 1 .. Len(r) : next'[r[i]] = At(r, i + 1)
      <4> SUFFICES ASSUME NEW i \in 1 .. Len(r)  PROVE next'[r[i]] = At(r, i + 1)
        OBVIOUS
      <4>1. CASE i = Len(r)
        <5>1. r[i] = j /\ j # last
          BY <4>1, <1>r, <3>1, <1>0, <2>4 DEF Range
        <5>2. next'[j] = None
          BY <5>1, <3>2, <2>1, <1>0 DEF TypeOK
        <5>3. At(r, i + 1) = None
          BY <4>1, <1>r DEF At
        <5> QED BY <5>1, <5>2, <5>3
      <4>2. CASE i = Len(q)
        <5>1. r[i] = last /\ last \in Jobs /\ At(r, i + 1) = j
          BY <4>2, <1>r, <3>1 DEF At
        <5> QED BY <5>1, <3>2 DEF TypeOK
      <4>3. CASE i \in 1 .. Len(q) - 1
        <5>1. r[i] = q[i] /\ q[i] \in Jobs /\ q[i] # last
          BY <4>3, <1>r, <1>i, <3>1
        <5>2. At(q, i + 1) = At(r, i + 1)
          BY <4>3, <1>r DEF At
        <5>3. next'[r[i]] = next[q[i]]
          BY <5>1, <3>2 DEF TypeOK
        <5> QED BY <5>2, <5>3, <2>1, <4>3, <1>r
      <4>4. i = Len(r) \/ i = Len(q) \/ i \in 1 .. Len(q) - 1
        BY <1>r
      <4> QED BY <4>1, <4>2, <4>3, <4>4
    <3>5. \A i \in Jobs \ Range(r) : next'[i] = None
      <4>1. last \in Range(q)
        BY <3>1, <1>r, <2>4 DEF Range
      <4> QED BY <4>1, <2>1, <3>2, <1>0 DEF TypeOK
    <3> HIDE DEF r
    <3> QED BY <1>r, <2>1, <2>2, <3>3, <3>4, <3>5 DEF IsList
  <2> QED BY <2>3, <2>4
<1>3. Held(Busy)' = Held(Busy) /\ Holders(Busy)' = Holders(Busy)
  BY DEF Held, Holders
<1>4. InOnePlace(r)'
  <2> HIDE DEF r
  <2>1. j \notin Held(Busy) /\ j \in fresh
    BY <1>0 DEF Invariant, InOnePlace
  <2> QED BY <1>0, <1>3, <2>1 DEF Invariant, InOnePlace, Settled
<1>5. InStep(r)'
  <2> HIDE DEF r
  <2>1. Held({"run", "forget"})' = Held({"run", "forget"})
    BY DEF Held, Holders
  <2> QED BY <1>0, <2>1 DEF Invariant, InStep
<1>6. LeavesLast(r)'
  <2>1. Holders({"exit"})' = Holders({"exit"}) /\ Holders({"exit"}) = {}
    BY DEF Invariant, LeavesLast, Holders
  <2> QED BY <2>1 DEF Invariant, LeavesLast
<1>7. Awaited(r)'
  <2>1. /\ Cardinality(Holders({"fetch"})) \in Nat
        /\ sem \in Nat
    BY HoldersFinite DEF TypeOK
  <2>2. Cardinality(Holders({"fetch"}))' = Cardinality(Holders({"fetch"}))
    BY DEF Holders
  <2> HIDE DEF r
  <2> QED BY <2>1, <2>2, <1>r DEF Invariant, Awaited
<1> QED BY <1>r, <1>1, <1>2, <1>4, <1>5, <1>6, <1>7 DEF Invariant

\* Shutdown's walk starts before the head.
LEMMA LockQueueStep ==
  ASSUME TypeOK, NEW q \in Seq(Jobs), Invariant(q), LockQueue
  PROVE  TypeOK' /\ Invariant(q)'
<1> USE DEF LockQueue, queueVars, workerVars, history
<1>1. TypeOK'
  BY DEF TypeOK
<1>2. IsList(q)'
  <2>1. prev' = At(q, 0) /\ cur' = At(q, 0 + 1) /\ 0 \in 0 .. Len(q)
    BY DEF Invariant, IsList, At
  <2> QED BY <2>1 DEF Invariant, IsList, At
<1>3. InOnePlace(q)' /\ InStep(q)'
  BY StateStays
<1>4. LeavesLast(q)'
  BY DEF Invariant, LeavesLast, Holders
<1>5. Awaited(q)'
  BY FetchersStay
<1> QED BY <1>1, <1>2, <1>3, <1>4, <1>5 DEF Invariant

\* The walk passes a job that is not abortable.
LEMMA KeepQueuedStep ==
  ASSUME TypeOK, NEW q \in Seq(Jobs), Invariant(q), KeepQueued
  PROVE  TypeOK' /\ Invariant(q)'
<1> USE DEF KeepQueued, queueVars, workerVars, history
<1>1. TypeOK'
  BY DEF TypeOK
<1>2. IsList(q)'
  <2>0. PICK k \in 0 .. Len(q) : prev = At(q, k) /\ cur = At(q, k + 1)
    BY DEF Invariant, IsList
  <2>1. k + 1 \in 1 .. Len(q) /\ cur = q[k + 1]
    BY <2>0, PoolAssumption DEF At
  <2>2. prev' = At(q, k + 1) /\ cur' = At(q, (k + 1) + 1)
    BY <2>0, <2>1 DEF Invariant, IsList
  <2>3. k + 1 \in 0 .. Len(q)
    BY <2>1
  <2> QED BY <2>2, <2>3 DEF Invariant, IsList, At
<1>3. InOnePlace(q)' /\ InStep(q)'
  BY StateStays
<1>4. LeavesLast(q)'
  BY DEF Invariant, LeavesLast, Holders
<1>5. Awaited(q)'
  BY FetchersStay
<1> QED BY <1>1, <1>2, <1>3, <1>4, <1>5 DEF Invariant

\* The walk ends behind the tail, which becomes m_pLastJob.
LEMMA UnlockQueueStep ==
  ASSUME TypeOK, NEW q \in Seq(Jobs), Invariant(q), UnlockQueue
  PROVE  TypeOK' /\ Invariant(q)'
<1> USE DEF UnlockQueue, scanVars, workerVars, history
<1>1. TypeOK'
  BY DEF TypeOK
<1>2. IsList(q)'
  <2>0. PICK k \in 0 .. Len(q) : prev = At(q, k) /\ cur = At(q, k + 1)
    BY DEF Invariant, IsList
  <2>1. \A i \in 1 .. Len(q) : q[i] \in Jobs
    OBVIOUS
  <2>2. k = Len(q)
    BY <2>0, <2>1, PoolAssumption DEF At
  <2> QED BY <2>0, <2>2 DEF Invariant, IsList, At
<1>3. InOnePlace(q)' /\ InStep(q)'
  BY StateStays
<1>4. LeavesLast(q)'
  BY DEF Invariant, LeavesLast, Holders
<1>5. Awaited(q)'
  BY FetchersStay
<1> QED BY <1>1, <1>2, <1>3, <1>4, <1>5 DEF Invariant

\* A sequence without its element k + 1.
Without(q, k) == [i \in 1 .. Len(q) - 1 |-> IF i <= k THEN q[i] ELSE q[i + 1]]

\* The walk takes the abortable job it is at out of the list: head, tail or between.
LEMMA UnlinkStep ==
  ASSUME TypeOK, NEW q \in Seq(Jobs), Invariant(q), Unlink
  PROVE  TypeOK' /\ \E r \in Seq(Jobs) : Invariant(r)'
<1> USE DEF Unlink, scanVars, workerVars, history
<1>0. PICK k \in 0 .. Len(q) : prev = At(q, k) /\ cur = At(q, k + 1)
  BY DEF Invariant, IsList
<1>a. /\ \A i \in 1 .. Len(q) : q[i] \in Jobs
      /\ DOMAIN q = 1 .. Len(q) /\ Len(q) \in Nat
  OBVIOUS
<1>b. k + 1 \in 1 .. Len(q) /\ cur = q[k + 1] /\ cur \in Jobs /\ k \in Nat
  BY <1>0, <1>a, PoolAssumption DEF At
<1>c. \A a, b \in 1 .. Len(q) : q[a] = q[b] => a = b
  BY <1>a DEF Invariant, IsList, IsInjective
<1> DEFINE r == Without(q, k)
<1>r. /\ r \in Seq(Jobs) /\ Len(r) = Len(q) - 1 /\ DOMAIN r = 1 .. Len(r)
      /\ \A i \in 1 .. Len(r) : r[i] = IF i <= k THEN q[i] ELSE q[i + 1]
  BY <1>a, <1>b DEF Without
<1> HIDE DEF r
<1>d. \A i \in 0 .. k : At(r, i) = At(q, i)
  BY <1>a, <1>b, <1>r DEF At
<1>e. \A i \in Nat : i > k => At(r, i) = At(q, i + 1)
  BY <1>a, <1>b, <1>r DEF At
<1>f. Range(r) = Range(q) \ {cur} /\ cur \in Range(q)
  <2>1. ASSUME NEW i \in 1 .. Len(r)  PROVE r[i] \in Range(q) \ {cur}
    <3>1. CASE i <= k
      <4>1. i \in 1 .. Len(q) /\ i # k + 1 /\ r[i] = q[i]
        BY <3>1, <1>a, <1>b, <1>r
      <4> QED BY <4>1, <1>a, <1>b, <1>c DEF Range
    <3>2. CASE i > k
      <4>1. i + 1 \in 1 .. Len(q) /\ i + 1 # k + 1 /\ r[i] = q[i + 1]
        BY <3>2, <1>a, <1>b, <1>r
      <4> QED BY <4>1, <1>a, <1>b, <1>c DEF Range
    <3> QED BY <3>1, <3>2, <1>b, <1>r
  <2>2. ASSUME NEW i \in 1 .. Len(q), i # k + 1  PROVE q[i] \in Range(r)
    <3>1. CASE i <= k
      <4>1. i \in 1 .. Len(r) /\ r[i] = q[i]
        BY <3>1, <1>a, <1>b, <1>r
      <4> QED BY <4>1, <1>r DEF Range
    <3>2. CASE i > k
      <4>1. i - 1 \in 1 .. Len(r) /\ r[i - 1] = q[i]
        BY <3>2, <2>2, <1>a, <1>b, <1>r
      <4> QED BY <4>1, <1>r DEF Range
    <3> QED BY <3>1, <3>2, <1>b
  <2>3. cur \in Range(q)
    BY <1>a, <1>b DEF Range
  <2>4. Range(r) = {r[i] : i \in 1 .. Len(r)} /\ Range(q) = {q[i] : i \in 1 .. Len(q)}
    BY <1>a, <1>r DEF Range
  <2> QED BY <2>1, <2>2, <2>3, <2>4, <1>b
<1>1. TypeOK'
  BY <1>b DEF TypeOK, Aborted
<1>2. IsList(r)'
  <2>1. /\ main = "scan" /\ main' = "scan" /\ prev' = prev
        /\ first = At(q, 1)
        /\ \A i \in 1 .. Len(q) : next[q[i]] = At(q, i + 1)
        /\ \A i \in Jobs \ Range(q) : next[i] = None
    BY <1>a DEF Invariant, IsList
  <2>2. IsInjective(r)
    <3> SUFFICES ASSUME NEW i \in 1 .. Len(r), NEW j \in 1 .. Len(r), r[i] = r[j]
                 PROVE i = j
      BY <1>r DEF IsInjective
    <3> DEFINE I == IF i <= k THEN i ELSE i + 1
               J == IF j <= k THEN j ELSE j + 1
    <3>1. r[i] = q[I] /\ r[j] = q[J] /\ I \in 1 .. Len(q) /\ J \in 1 .. Len(q)
      BY <1>a, <1>b, <1>r
    <3>2. I = J
      BY <3>1, <1>c
    <3> QED BY <3>2, <1>b
  <2>3. next[cur] = At(q, k + 2)
    BY <1>b, <2>1
  <2>4. next[cur] = At(r, k + 1)
    BY <2>3, <1>e, <1>b
  <2>5. prev = At(r, k) /\ cur' = At(r, k + 1) /\ k \in 0 .. Len(r)
    BY <2>4, <1>0, <1>d, <1>b, <1>r
  <2>6. CASE k = 0
    <3>1. prev = None
      BY <2>6, <1>0, <1>a DEF At
    <3>2. next' = [next EXCEPT ![cur] = None] /\ first' = next[cur]
      BY <3>1
    <3>3. first' = At(r, 1)
      BY <3>2, <2>4, <2>6
    <3>4. \A i \in 1 .. Len(r) : next'[r[i]] = At(r, i + 1)
      <4> SUFFICES ASSUME NEW i \in 1 .. Len(r)  PROVE next'[r[i]] = At(r, i + 1)
        OBVIOUS
      <4>1. r[i] = q[i + 1] /\ i + 1 \in 1 .. Len(q) /\ r[i] # cur /\ r[i] \in Jobs
        BY <2>6, <1>a, <1>b, <1>c, <1>r
      <4>2. next'[r[i]] = At(q, (i + 1) + 1)
        BY <4>1, <3>2, <2>1 DEF TypeOK
      <4> QED BY <4>2, <1>e, <2>6, <1>r
    <3>5. \A i \in Jobs \ Range(r) : next'[i] = None
      BY <1>f, <2>1, <3>2 DEF TypeOK
    <3> QED BY <1>r, <2>1, <2>2, <2>5, <3>3, <3>4, <3>5 DEF IsList, At
  <2>7. CASE k # 0
    <3>1. prev = q[k] /\ k \in 1 .. Len(q) /\ prev \in Jobs /\ prev # None /\ prev # cur
      BY <2>7, <1>0, <1>a, <1>b, <1>c, PoolAssumption DEF At
    <3>2. /\ next' = [[next EXCEPT ![cur] = None] EXCEPT ![prev] = next[cur]]
          /\ first' = first
      BY <3>1
    <3>3. first' = At(r, 1)
      BY <3>2, <2>1, <2>7, <1>d, <1>b
    <3>4. \A i \in 1 .. Len(r) : next'[r[i]] = At(r, i + 1)
      <4> SUFFICES ASSUME NEW i \in 1 .. Len(r)  PROVE next'[r[i]] = At(r, i + 1)
        OBVIOUS
      <4>1. CASE i = k
        <5>1. r[i] = prev
          BY <4>1, <3>1, <1>r
        <5>2. next'[prev] = next[cur]
          BY <3>1, <3>2 DEF TypeOK
        <5> QED BY <4>1, <5>1, <5>2, <2>4
      <4>2. CASE i < k
        <5>1. r[i] = q[i] /\ i \in 1 .. Len(q) /\ r[i] # cur /\ r[i] # prev /\ r[i] \in Jobs
          BY <4>2, <3>1, <1>a, <1>b, <1>c, <1>r
        <5>2. next'[r[i]] = At(q, i + 1)
          BY <5>1, <3>2, <2>1 DEF TypeOK
        <5>3. i + 1 \in 0 .. k
          BY <4>2, <1>b
        <5> QED BY <5>2, <5>3, <1>d
      <4>3. CASE i > k
        <5>1. /\ r[i] = q[i + 1] /\ i + 1 \in 1 .. Len(q) /\ r[i] \in Jobs
              /\ r[i] # cur /\ r[i] # prev
          BY <4>3, <3>1, <1>a, <1>b, <1>c, <1>r
        <5>2. next'[r[i]] = At(q, (i + 1) + 1)
          BY <5>1, <3>2, <2>1 DEF TypeOK
        <5>3. i + 1 \in Nat /\ i + 1 > k
          BY <4>3, <1>b
        <5> QED BY <5>2, <5>3, <1>e
      <4> QED BY <4>1, <4>2, <4>3, <1>b
    <3>5. \A i \in Jobs \ Range(r) : next'[i] = None
      <4>1. prev \in Range(r)
        BY <3>1, <1>f, <1>a DEF Range
      <4> QED BY <4>1, <1>f, <2>1, <3>2 DEF TypeOK
    <3> QED BY <1>r, <2>1, <2>2, <2>5, <3>3, <3>4, <3>5 DEF IsList, At
  <2> QED BY <2>6, <2>7
<1>3. InOnePlace(q)' /\ InStep(q)'
  BY <1>1, OnlyAborted, <1>b DEF Aborted, TypeOK
<1>4. InOnePlace(r)'
  <2>1. cur \in Settled'
    BY <1>b DEF Settled, Aborted, TypeOK
  <2> QED BY <1>3, <1>f, <2>1 DEF InOnePlace
<1>5. InStep(r)'
  BY <1>3, <1>f DEF InStep
<1>6. LeavesLast(r)'
  <2>1. q # << >>
    BY <1>b
  <2>2. Holders({"exit"})' = {}
    BY <2>1 DEF Invariant, LeavesLast, Holders
  <2> QED BY <2>2 DEF Invariant, LeavesLast
<1>7. Awaited(r)'
  <2>1. Awaited(q)'
    BY FetchersStay
  <2>2. Cardinality(Holders({"fetch"})') \in Nat
    <3>1. Holders({"fetch"})' \subseteq Workers
      BY DEF Holders
    <3> QED BY <3>1, PoolAssumption, FS_Subset, FS_CardinalityType
  <2> QED BY <2>1, <2>2, <1>r, <1>a, <1>1 DEF Awaited, TypeOK
<1> QED BY <1>r, <1>1, <1>2, <1>4, <1>5, <1>6, <1>7 DEF Invariant

-----------------------------------------------------------------------------
\* The list is no longer than there are jobs.
LEMMA ListFits ==
  ASSUME NEW q \in Seq(Jobs), IsInjective(q)
  PROVE  q \in SeqOf(Jobs, Cardinality(Jobs)) /\ Len(q) <= Cardinality(Jobs)
<1>1. /\ q \in [1 .. Len(q) -> Jobs] /\ Len(q) \in Nat
      /\ \A a, b \in 1 .. Len(q) : q[a] = q[b] => a = b
  BY DEF IsInjective
<1>2. IsFiniteSet(1 .. Len(q)) /\ Cardinality(1 .. Len(q)) = Len(q)
  <2>1. /\ IsFiniteSet(1 .. Len(q))
        /\ Cardinality(1 .. Len(q)) = IF 1 > Len(q) THEN 0 ELSE Len(q) - 1 + 1
    BY <1>1, FS_Interval
  <2> QED BY <1>1, <2>1
<1>3. IsFiniteSet(Jobs) /\ Cardinality(Jobs) \in Nat
  BY PoolAssumption, FS_CardinalityType
<1>4. ~ Cardinality(Jobs) < Cardinality(1 .. Len(q))
  BY <1>1, <1>2, <1>3, FS_PigeonHole
<1>5. Len(q) \in 0 .. Cardinality(Jobs)
  BY <1>1, <1>2, <1>3, <1>4
<1> QED BY <1>1, <1>5 DEF SeqOf

\* The pool begins with an empty list and no worker.
LEMMA InitInv == Init => IInv
<1> SUFFICES ASSUME Init  PROVE IInv
  OBVIOUS
<1> USE DEF Init
<1>0. Cardinality(Workers) \in Nat
  BY PoolAssumption, FS_CardinalityType
<1>1. TypeOK
  BY <1>0 DEF TypeOK
<1>2. << >> \in Seq(Jobs) /\ Range(<< >>) = {} /\ Len(<< >>) = 0
  BY DEF Range
<1>3. IsList(<< >>)
  BY <1>2 DEF IsList, At, IsInjective
<1>4. Holders(Busy) = {} /\ Held(Busy) = {} /\ Held({"run", "forget"}) = {}
  BY DEF Holders, Held, Busy
<1>5. InOnePlace(<< >>)
  BY <1>2, <1>4 DEF InOnePlace
<1>6. InStep(<< >>)
  BY <1>2, <1>4, PoolAssumption DEF InStep, Busy
<1>7. LeavesLast(<< >>)
  BY DEF LeavesLast, Holders
<1>8. Cardinality(Holders({"fetch"})) = 0
  <2>1. Holders({"fetch"}) = {}
    BY DEF Holders
  <2> QED BY <2>1, FS_EmptySet
<1>9. Awaited(<< >>)
  BY <1>2, <1>8 DEF Awaited
<1> QED BY <1>1, <1>2, <1>3, <1>5, <1>6, <1>7, <1>9, ListFits DEF IInv, Invariant, IsList

\* Every step takes the sequence of the list to the sequence of the new list.
LEMMA NextInv == IInv /\ [Next]_vars => IInv'
<1> SUFFICES ASSUME IInv, [Next]_vars  PROVE IInv'
  OBVIOUS
<1>0. PICK q \in SeqOf(Jobs, Cardinality(Jobs)) : Invariant(q)
  BY DEF IInv
<1>1. q \in Seq(Jobs) /\ TypeOK
  BY DEF SeqOf, IInv
<1>2. TypeOK' /\ \E r \in Seq(Jobs) : Invariant(r)'
  <2>1. CASE \E w \in Workers : RunLoop(w)
    BY <2>1, <1>0, <1>1, WorkerStep
  <2>2. CASE \E j \in Jobs : Add(j) \/ AddRefused(j) \/ Abort(j)
    BY <2>2, <1>0, <1>1, AddStep, AddRefusedStep, AbortStep
  <2>3. CASE InitPool \/ Signal \/ Shutdown
    BY <2>3, <1>0, <1>1, InitPoolStep, SignalStep, ShutdownStep
  <2>4. CASE LockQueue \/ Unlink \/ KeepQueued \/ UnlockQueue
    BY <2>4, <1>0, <1>1, LockQueueStep, UnlinkStep, KeepQueuedStep, UnlockQueueStep
  <2>5. CASE AbortRunning \/ Wake \/ Join
    BY <2>5, <1>0, <1>1, AbortRunningStep, WakeStep, JoinStep
  <2>6. CASE UNCHANGED vars
    <3> USE <2>6 DEF vars, queueVars, workerVars, scanVars, history
    <3>1. TypeOK'
      BY <1>1 DEF TypeOK
    <3>2. IsList(q)'
      BY <1>0, ListKept DEF Invariant
    <3>3. InOnePlace(q)' /\ InStep(q)'
      BY <1>0, <1>1, StateStays
    <3>4. LeavesLast(q)' /\ Awaited(q)'
      BY <1>0, <1>1 DEF Invariant, LeavesLast, Awaited, Holders
    <3> QED BY <1>1, <3>1, <3>2, <3>3, <3>4 DEF Invariant
  <2> QED BY <2>1, <2>2, <2>3, <2>4, <2>5, <2>6 DEF Next, ShutdownSteps
<1>3. PICK r \in Seq(Jobs) : Invariant(r)'
  BY <1>2
<1>4. r \in SeqOf(Jobs, Cardinality(Jobs))
  BY <1>3, ListFits DEF Invariant, IsList
<1> QED BY <1>2, <1>3, <1>4 DEF IInv

\* The inductive invariant of the pool (Init, Add, Shutdown and RunLoop of CJobPool)
\* holds in every reachable state: the pointers of the list are those of a sequence.
THEOREM PoolInvariant == Spec => []IInv
<1> QED BY InitInv, NextInv, PTL DEF Spec

-----------------------------------------------------------------------------
(* Following the pointers gives the sequence.                               *)

\* The i-th pointer from m_pFirstJob leads to the i-th job of the sequence.
LEMMA NthOfList ==
  ASSUME TypeOK, NEW q \in Seq(Jobs), IsList(q)
  PROVE  /\ DOMAIN Nth = 0 .. Cardinality(Jobs)
         /\ \A i \in 0 .. Cardinality(Jobs) : Nth[i] = At(q, i + 1)
<1> DEFINE D == 0 .. Cardinality(Jobs)
           Step(f) == [i \in D |-> IF i = 0 THEN first
                                   ELSE IF f[i - 1] = None THEN None ELSE next[f[i - 1]]]
           g == [i \in D |-> At(q, i + 1)]
<1>0. Cardinality(Jobs) \in Nat
  BY PoolAssumption, FS_CardinalityType
<1>1. /\ \A i \in 1 .. Len(q) : q[i] \in Jobs /\ q[i] # None
      /\ DOMAIN q = 1 .. Len(q) /\ Len(q) \in Nat
  BY PoolAssumption
<1>2. \A i \in D \ {0} : IF At(q, i) = None THEN At(q, i + 1) = None
                         ELSE At(q, i + 1) = next[At(q, i)]
  BY <1>0, <1>1 DEF IsList, At
<1>3. g = Step(g)
  <2>1. \A i \in D \ {0} : i - 1 \in D /\ g[i - 1] = At(q, i)
    BY <1>0
  <2>2. \A i \in D : g[i] = Step(g)[i]
    BY <1>2, <2>1 DEF IsList
  <2> QED BY <2>2
<1>4. Nth = CHOOSE f : f = Step(f)
  BY DEF Nth
<1> HIDE DEF g
<1>5. Nth = Step(Nth)
  <2> HIDE DEF Step
  <2> QED BY <1>3, <1>4
<1>6. DOMAIN Nth = D
  BY <1>5
<1>7. \A i \in D : Nth[i] = IF i = 0 THEN first
                            ELSE IF Nth[i - 1] = None THEN None ELSE next[Nth[i - 1]]
  BY <1>5
<1>8. {i \in D : Nth[i] # At(q, i + 1)} = {}
  <2> SUFFICES ASSUME {i \in D : Nth[i] # At(q, i + 1)} # {}  PROVE FALSE
    OBVIOUS
  <2> DEFINE T == {i \in D : Nth[i] # At(q, i + 1)}
  <2>0. T \in SUBSET Nat /\ T # {}
    BY <1>0
  <2> HIDE DEF T
  <2>1. PICK m \in T : \A i \in T : m <= i
    BY <2>0, SmallestNumber
  <2> USE DEF T
  <2>2. m # 0
    BY <2>1, <1>7 DEF IsList
  <2>3. m - 1 \in D /\ Nth[m - 1] = At(q, m)
    BY <1>0, <2>1, <2>2
  <2> QED BY <1>2, <1>7, <2>1, <2>2, <2>3
<1> QED BY <1>6, <1>8

\* The jobs that the pointers reach are those of the sequence.
LEMMA QueueOfList ==
  ASSUME TypeOK, NEW q \in Seq(Jobs), IsList(q)
  PROVE  Queue = Range(q)
<1>0. Cardinality(Jobs) \in Nat
  BY PoolAssumption, FS_CardinalityType
<1>1. /\ \A i \in 1 .. Len(q) : q[i] \in Jobs /\ q[i] # None
      /\ DOMAIN q = 1 .. Len(q) /\ Len(q) \in Nat
  BY PoolAssumption
<1>2. Len(q) <= Cardinality(Jobs)
  BY ListFits DEF IsList
<1>3. \A i \in 1 .. Len(q) : q[i] \in Queue
  <2> SUFFICES ASSUME NEW i \in 1 .. Len(q)  PROVE q[i] \in Queue
    OBVIOUS
  <2>1. i - 1 \in DOMAIN Nth /\ Nth[i - 1] = q[i]
    BY <1>0, <1>1, <1>2, NthOfList DEF At
  <2> QED BY <2>1, <1>1 DEF Queue
<1>4. ASSUME NEW i \in DOMAIN Nth, Nth[i] # None
      PROVE  Nth[i] \in Range(q)
  BY <1>4, <1>1, NthOfList DEF At, Range
<1> QED BY <1>1, <1>3, <1>4 DEF Queue, Range

\* The list loses no job, in every state of the inductive invariant.
LEMMA InvListIsWhole == IInv => ListIsWhole
<1> SUFFICES ASSUME IInv, LockFree  PROVE ListIsWhole
  BY DEF ListIsWhole
<1>0. PICK q \in SeqOf(Jobs, Cardinality(Jobs)) : Invariant(q)
  BY DEF IInv
<1>1. /\ q \in Seq(Jobs) /\ TypeOK /\ IsList(q) /\ Len(q) <= Cardinality(Jobs)
      /\ Cardinality(Jobs) \in Nat /\ Len(q) \in Nat
  BY <1>0, PoolAssumption, FS_CardinalityType DEF SeqOf, IInv, Invariant
<1>2. Queue = Range(q)
  BY <1>1, QueueOfList
<1>3. /\ \A i \in 1 .. Len(q) : q[i] \in Jobs /\ q[i] # None
      /\ DOMAIN q = 1 .. Len(q)
      /\ first = At(q, 1) /\ last = At(q, Len(q))
  BY <1>1, PoolAssumption DEF IsList, LockFree
<1>4. Nth[Cardinality(Jobs)] = None
  BY <1>1, NthOfList DEF At
<1>5. (first = None) <=> (last = None)
  BY <1>1, <1>3 DEF At
<1>6. last # None => last \in Range(q) /\ next[last] = None
  <2> SUFFICES ASSUME last # None  PROVE last \in Range(q) /\ next[last] = None
    OBVIOUS
  <2>1. Len(q) \in 1 .. Len(q) /\ last = q[Len(q)]
    BY <1>1, <1>3 DEF At
  <2>2. next[last] = At(q, Len(q) + 1)
    BY <2>1, <1>1, <1>3 DEF IsList
  <2> QED BY <2>1, <2>2, <1>1, <1>3 DEF At, Range
<1>7. /\ pushed \subseteq Queue \cup Settled \cup Held(Busy)
      /\ Queue \cap Held(Busy) = {}
  BY <1>0, <1>2 DEF Invariant, InOnePlace
<1> QED BY <1>2, <1>4, <1>5, <1>6, <1>7 DEF ListIsWhole

\* The signals suffice for the list.
LEMMA InvWakeupsSuffice == IInv => WakeupsSuffice
<1> SUFFICES ASSUME IInv  PROVE WakeupsSuffice
  OBVIOUS
<1>0. PICK q \in SeqOf(Jobs, Cardinality(Jobs)) : Invariant(q)
  BY DEF IInv
<1>1. q \in Seq(Jobs) /\ TypeOK /\ IsList(q) /\ Awaited(q) /\ sem \in Nat
  BY <1>0 DEF SeqOf, IInv, Invariant, TypeOK
<1>2. Queue = {q[i] : i \in 1 .. Len(q)}
  BY <1>1, QueueOfList DEF Range
<1>3. q \in [1 .. Len(q) -> Jobs] /\ Len(q) \in Nat
  BY <1>1
<1>4. IsFiniteSet(1 .. Len(q)) /\ Cardinality(1 .. Len(q)) = Len(q)
  <2>1. /\ IsFiniteSet(1 .. Len(q))
        /\ Cardinality(1 .. Len(q)) = IF 1 > Len(q) THEN 0 ELSE Len(q) - 1 + 1
    BY <1>3, FS_Interval
  <2> QED BY <1>3, <2>1
<1>5. q \in Surjection(1 .. Len(q), Queue)
  BY <1>2, <1>3 DEF Surjection
<1>6. IsFiniteSet(Queue) /\ Cardinality(Queue) <= Len(q) /\ Cardinality(Queue) \in Nat
  BY <1>4, <1>5, FS_Surjection, FS_CardinalityType
<1>7. Cardinality(Holders({"fetch"})) \in Nat
  BY HoldersFinite
<1> QED BY <1>1, <1>3, <1>6, <1>7 DEF Awaited, WakeupsSuffice

\* Nothing is left when the pool is down.
LEMMA InvCompleteBeforeDown == IInv => CompleteBeforeDown
<1> SUFFICES ASSUME IInv, main = "down"  PROVE CompleteBeforeDown
  BY DEF CompleteBeforeDown
<1>0. PICK q \in SeqOf(Jobs, Cardinality(Jobs)) : Invariant(q)
  BY DEF IInv
<1>1. q = << >> /\ \A w \in Workers : pc[w] = "exit"
  BY <1>0, PoolAssumption DEF Invariant, LeavesLast, Holders
<1>2. Range(q) = {} /\ Held(Busy) = {}
  BY <1>1 DEF Range, Held, Holders, Busy
<1>3. pushed \subseteq Settled
  BY <1>0, <1>2 DEF Invariant, InOnePlace
<1> QED BY <1>0, <1>3 DEF Invariant, InStep, Settled, CompleteBeforeDown

\* No job that was added is lost, no wake-up is missing, and the pool is down only
\* when no job is left, for any number of jobs and workers.
THEOREM NoJobIsLost == Spec => []NoJobLost
<1>1. IInv => NoJobLost
  BY InvListIsWhole, InvWakeupsSuffice, InvCompleteBeforeDown DEF IInv, NoJobLost
<1> QED BY <1>1, PoolInvariant, PTL

-----------------------------------------------------------------------------
(* The refinement.                                                          *)

\* The pool begins as a closed service.
LEMMA InitService == Init => Service!Init
BY DEF Init, Service!Init, Held, Holders

\* A worker's step is a Start or a Finish of the service, or none of its steps.
LEMMA WorkerService ==
  ASSUME TypeOK, NEW q \in Seq(Jobs), Invariant(q), NEW w \in Workers, RunLoop(w)
  PROVE  [Service!Next]_(Service!vars)
<1> DEFINE Pending == {j \in pushed : state[j] = "queued"}
           Executing == Held({"remember", "run", "forget", "finish"})
<1>1. ASSUME UNCHANGED <<main, fresh, pushed>>, Pending' = Pending, Executing' = Executing
      PROVE  [Service!Next]_(Service!vars)
  BY <1>1 DEF Service!vars
<1>2. CASE Wait(w) \/ Fetch(w) \/ FetchNothing(w)
  <2>1. Executing' = Executing
    BY <1>2 DEF Wait, Fetch, FetchNothing, Held, Holders, TypeOK
  <2> QED BY <2>1, <1>1, <1>2 DEF Wait, Fetch, FetchNothing, history
<1>3. CASE Start(w)
  <2> USE <1>3 DEF Start, history
  <2>1. job[w] \in Held(Busy) /\ job[w] \in Jobs /\ job[w] \in pushed
    BY DEF Held, Holders, Busy, Invariant, InStep, InOnePlace
  <2>2. job[w] \in Pending /\ Pending' = Pending \ {job[w]}
    BY <2>1 DEF TypeOK
  <2>3. Executing' = Executing \cup {job[w]}
    BY DEF Held, Holders, TypeOK
  <2>4. PICK j \in Jobs : j = job[w]
    BY <2>1
  <2>5. Service!Start(j)
    BY <2>2, <2>3, <2>4 DEF Service!Start
  <2> QED BY <2>5 DEF Service!Next
<1>4. CASE SkipAborted(w) \/ Remember(w) \/ Run(w) \/ Forget(w)
  <2>1. Executing' = Executing
    BY <1>4 DEF SkipAborted, Remember, Run, Forget, Held, Holders, TypeOK
  <2> QED BY <2>1, <1>1, <1>4 DEF SkipAborted, Remember, Run, Forget, history
<1>5. CASE Finish(w)
  <2> USE <1>5 DEF Finish, history
  <2>1. job[w] \in Executing /\ job[w] \in Jobs
    BY DEF Held, Holders, Busy, Invariant, InStep
  <2>2. Executing' = Executing \ {job[w]}
    BY DEF Held, Holders, Busy, TypeOK, Invariant, InOnePlace
  <2>3. Pending' = Pending
    BY <2>1 DEF TypeOK
  <2>4. PICK j \in Jobs : j = job[w]
    BY <2>1
  <2>5. Service!Finish(j)
    BY <2>1, <2>2, <2>3, <2>4 DEF Service!Finish
  <2> QED BY <2>5 DEF Service!Next
<1> QED BY <1>2, <1>3, <1>4, <1>5 DEF RunLoop

\* The steps of the main thread and of a job's owner are Open, Accept, Refuse, Cancel
\* and Close of the service, or none of its steps.
LEMMA MainService ==
  ASSUME TypeOK, NEW q \in Seq(Jobs), Invariant(q),
         \/ \E j \in Jobs : Add(j) \/ AddRefused(j) \/ Abort(j)
         \/ InitPool \/ Signal \/ Shutdown \/ ShutdownSteps
  PROVE  [Service!Next]_(Service!vars)
<1> DEFINE Pending == {j \in pushed : state[j] = "queued"}
           Executing == Held({"remember", "run", "forget", "finish"})
<1>a. /\ fresh \cap pushed = {} /\ Range(q) \subseteq pushed
      /\ \A j \in fresh : state[j] \in {"queued", "aborted"}
  BY DEF Invariant, InOnePlace, InStep
<1>b. UNCHANGED workerVars => Executing' = Executing
  BY DEF Held, Holders, workerVars
<1>1. ASSUME (main = "down") <=> (main' = "down"), UNCHANGED <<fresh, pushed, state, workerVars>>
      PROVE  UNCHANGED Service!vars
  BY <1>1, <1>b DEF Service!vars
<1>2. ASSUME NEW j \in Jobs, Add(j)
      PROVE  Service!Next
  <2> USE <1>2 DEF Add
  <2>1. CASE state[j] = "queued"
    <3>1. Pending' = Pending \cup {j}
      BY <2>1
    <3> QED BY <3>1, <1>b DEF Service!Next, Service!Accept
  <2>2. CASE state[j] # "queued"
    <3>1. Pending' = Pending
      BY <2>2
    <3> QED BY <3>1, <1>b DEF Service!Next, Service!Refuse
  <2> QED BY <2>1, <2>2
<1>3. ASSUME NEW j \in Jobs, AddRefused(j)
      PROVE  Service!Next
  <2> USE <1>3 DEF AddRefused, Aborted
  <2>1. Pending' = Pending
    BY <1>a DEF TypeOK
  <2> QED BY <2>1, <1>b DEF Service!Next, Service!Refuse
<1>4. ASSUME NEW j \in Jobs, state' = Aborted(j), (main = "down") <=> (main' = "down"),
             UNCHANGED <<fresh, pushed, workerVars>>
      PROVE  [Service!Next]_(Service!vars)
  <2>1. CASE j \in Pending /\ j \in Abortables
    <3>1. Pending' = Pending \ {j}
      BY <1>4, <2>1 DEF Aborted, TypeOK
    <3>2. Service!Cancel(j)
      BY <1>4, <2>1, <3>1, <1>b DEF Service!Cancel
    <3> QED BY <3>2 DEF Service!Next
  <2>2. CASE ~ (j \in Pending /\ j \in Abortables)
    <3>1. Pending' = Pending
      BY <1>4, <2>2 DEF Aborted, TypeOK
    <3> QED BY <1>4, <3>1, <1>b DEF Service!vars
  <2> QED BY <2>1, <2>2
<1>5. ASSUME NEW j \in Jobs, Abort(j)
      PROVE  [Service!Next]_(Service!vars)
  BY <1>5, <1>4 DEF Abort, history
<1>6. ASSUME InitPool
      PROVE  Service!Next
  <2>1. \A w \in Workers : pc[w] = "exit"
    BY <1>6 DEF InitPool, Invariant, LeavesLast, Holders
  <2>2. Executing' = {} /\ Executing = {}
    BY <1>6, <2>1 DEF InitPool, Held, Holders
  <2> QED BY <1>6, <2>2 DEF InitPool, history, Service!Next, Service!Open
<1>7. ASSUME Signal \/ Shutdown \/ LockQueue \/ KeepQueued \/ UnlockQueue \/ Wake
      PROVE  UNCHANGED Service!vars
  BY <1>7, <1>1 DEF Signal, Shutdown, LockQueue, KeepQueued, UnlockQueue, Wake, history
<1>8. ASSUME Unlink
      PROVE  [Service!Next]_(Service!vars)
  <2>1. cur \in Jobs
    BY <1>8, PoolAssumption DEF Unlink
  <2> QED BY <1>4, <1>8, <2>1 DEF Unlink, history
<1>9. ASSUME AbortRunning
      PROVE  UNCHANGED Service!vars
  <2>1. \A j \in running : state[j] \in {"running", "aborted"}
    <3>1. \A w \in Holders({"run", "forget"}) : state[job[w]] \in {"running", "aborted"}
      BY DEF Invariant, InStep, Holders, Busy
    <3> QED BY <3>1 DEF Invariant, InStep, Held
  <2>2. Pending' = Pending
    BY <1>9, <2>1 DEF AbortRunning, Aborted, history, TypeOK
  <2> QED BY <1>9, <2>2, <1>b DEF AbortRunning, history, Service!vars
<1>10. ASSUME Join
       PROVE  Service!Next
  <2> USE <1>10 DEF Join, history
  <2>1. \A w \in Workers : pc[w] = "exit"
    OBVIOUS
  <2>2. Executing = {} /\ Held(Busy) = {}
    BY <2>1 DEF Held, Holders, Busy
  <2>3. q = << >> /\ Range(q) = {}
    BY <2>1, PoolAssumption DEF Invariant, LeavesLast, Holders, Range
  <2>4. Pending = {}
    BY <2>2, <2>3 DEF Invariant, InOnePlace, Settled
  <2>5. Pending' = Pending
    OBVIOUS
  <2> QED BY <2>2, <2>4, <2>5, <1>b DEF Service!Next, Service!Close
<1> QED BY <1>2, <1>3, <1>5, <1>6, <1>7, <1>8, <1>9, <1>10 DEF ShutdownSteps

\* The pool implements JobService: a job it accepts starts at most once and not after
\* it was cancelled, only abortable ones are cancelled, and it closes with none left.
THEOREM ServiceImplemented == Spec => ImplementsService
<1>1. IInv /\ [Next]_vars => [Service!Next]_(Service!vars)
  <2> SUFFICES ASSUME IInv, [Next]_vars  PROVE [Service!Next]_(Service!vars)
    OBVIOUS
  <2>0. PICK q \in SeqOf(Jobs, Cardinality(Jobs)) : Invariant(q)
    BY DEF IInv
  <2>1. q \in Seq(Jobs) /\ TypeOK
    BY DEF SeqOf, IInv
  <2>2. CASE Next
    BY <2>0, <2>1, <2>2, WorkerService, MainService DEF Next
  <2>3. CASE UNCHANGED vars
    BY <2>3 DEF vars, workerVars, history, Service!vars, Held, Holders
  <2> QED BY <2>2, <2>3
<1> QED BY <1>1, InitService, PoolInvariant, PTL DEF Spec, ImplementsService
=============================================================================
