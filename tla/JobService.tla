----------------------------- MODULE JobService -----------------------------
(***************************************************************************)
(* What a job pool promises to the thread that uses it: a job it accepts   *)
(* is executed once, unless it is abortable and is cancelled first, and    *)
(* the pool is closed only when nothing it accepted is left.               *)
(***************************************************************************)
CONSTANTS
  Jobs,
  Abortables   \* the jobs whose IsAbortable() is true

VARIABLES
  open,        \* the pool accepts jobs
  fresh,       \* the jobs nobody has offered to the pool yet
  pending,     \* accepted, neither started nor cancelled
  executing    \* started, not finished

vars == <<open, fresh, pending, executing>>

Init == open = FALSE /\ fresh = Jobs /\ pending = {} /\ executing = {}

Open == open' = TRUE /\ UNCHANGED <<fresh, pending, executing>>

Accept(j) ==
  /\ open
  /\ j \in fresh
  /\ fresh' = fresh \ {j}
  /\ pending' = pending \cup {j}
  /\ UNCHANGED <<open, executing>>

\* Offered to a closed pool, or cancelled before it was offered.
Refuse(j) ==
  /\ j \in fresh
  /\ fresh' = fresh \ {j}
  /\ UNCHANGED <<open, pending, executing>>

Start(j) ==
  /\ j \in pending
  /\ pending' = pending \ {j}
  /\ executing' = executing \cup {j}
  /\ UNCHANGED <<open, fresh>>

Cancel(j) ==
  /\ j \in pending \cap Abortables
  /\ pending' = pending \ {j}
  /\ UNCHANGED <<open, fresh, executing>>

Finish(j) ==
  /\ j \in executing
  /\ executing' = executing \ {j}
  /\ UNCHANGED <<open, fresh, pending>>

Close ==
  /\ pending = {} /\ executing = {}
  /\ open' = FALSE
  /\ UNCHANGED <<fresh, pending, executing>>

Next ==
  \/ Open \/ Close
  \/ \E j \in Jobs :
       Accept(j) \/ Refuse(j) \/ Start(j) \/ Cancel(j) \/ Finish(j)

\* Every accepted job is started or cancelled, and every started one finishes.
Fairness ==
  \A j \in Jobs : WF_vars(Start(j) \/ Cancel(j)) /\ WF_vars(Finish(j))

Spec == Init /\ [][Next]_vars /\ Fairness
=============================================================================
