---------------------------- MODULE Orchestrator ----------------------------
(***************************************************************************)
(* The in-memory orchestrator (AgentOrchestrator): the predecessor of the  *)
(* task control plane, kept as a library with its tests.  It runs on one   *)
(* thread: an operation, its transitions and the schedule() it ends with   *)
(* are one step; the runners' promises settle between the steps.           *)
(***************************************************************************)
EXTENDS Integers, FiniteSets, FiniteSetsExt

CONSTANTS
  MostRuns,       \* bound: runs created
  maxConcurrency

Run == 1..MostRuns  \* in the order of their creation, the Map's order

VARIABLES
  status,   \* InternalRun.status
  deps,     \* InternalRun.dependencies
  active,   \* runs with workerActive: activeWorkers counts them
  waiting,  \* runs whose runner is blocked in waitIfPaused
  settled   \* schedule() has run since the last create() or restore()

vars == <<status, deps, active, waiting, settled>>

AgentRunStatus == {"queued", "running", "paused", "completed", "failed", "cancelled"}
Over == {"completed", "failed", "cancelled"}

Init ==
  /\ status = [r \in Run |-> "absent"] /\ deps = [r \in Run |-> {}]
  /\ active = {} /\ waiting = {} /\ settled = TRUE

Known(r) == status[r] # "absent"

----------------------------------------------------------------------------
(* The first loop of schedule(), repeated until nothing changes: a queued   *)
(* run fails with a dependency.                                             *)
Failed(st) ==
  LET hit(F) == {r \in Run : st[r] = "queued" /\ \E d \in deps[r] :
                               d \in F \/ st[d] \in {"failed", "cancelled"}}
  IN  {r \in Run : \A F \in SUBSET Run : hit(F) \subseteq F => r \in F}

(* The second loop: queued runs whose dependencies are completed. *)
Startable(st) ==
  {r \in Run : st[r] = "queued" /\ \A d \in deps[r] : st[d] = "completed"}

(* The oldest startable runs take the free workers. *)
Started(st, act) ==
  {r \in Startable(st) :
     Cardinality({q \in Startable(st) : q < r}) < maxConcurrency - Cardinality(act)}

Schedule(st, act) ==
  LET failed == [r \in Run |-> IF r \in Failed(st) THEN "failed" ELSE st[r]]
      start == Started(failed, act)
  IN
  /\ status' = [r \in Run |-> IF r \in start THEN "running" ELSE failed[r]]
  /\ active' = act \union start
  /\ settled' = TRUE

(* Mutant: the operation does not schedule. *)
NoSchedule(st, act) == status' = st /\ active' = act /\ UNCHANGED settled

(* cancel and the end of a worker schedule what they made possible. *)
Reschedule(st, act) == Schedule(st, act)

----------------------------------------------------------------------------
Create(r) ==
  /\ ~Known(r) /\ \A q \in Run : q < r => Known(q)
  /\ \E ds \in SUBSET {q \in Run : q < r} : deps' = [deps EXCEPT ![r] = ds]
  /\ status' = [status EXCEPT ![r] = "queued"]
  /\ settled' = FALSE
  /\ UNCHANGED <<active, waiting>>

CallSchedule ==
  /\ ~settled /\ Schedule(status, active)
  /\ UNCHANGED <<deps, waiting>>

(* A runner that is already working goes on until it asks. *)
Pause(r) ==
  /\ status[r] \in {"queued", "running"}
  /\ status' = [status EXCEPT ![r] = "paused"]
  /\ UNCHANGED <<deps, active, waiting, settled>>

(* A run whose worker is still there goes on with it. *)
Resume(r) ==
  /\ status[r] = "paused"
  /\ waiting' = waiting \ {r}
  /\ IF r \in active
     THEN status' = [status EXCEPT ![r] = "running"] /\ UNCHANGED <<active, settled>>
     ELSE Schedule([status EXCEPT ![r] = "queued"], active)
  /\ UNCHANGED deps

(* The worker of a cancelled run keeps its place until it ends. *)
Cancel(r) ==
  /\ status[r] \in {"queued", "running", "paused"}
  /\ waiting' = waiting \ {r}
  /\ Reschedule([status EXCEPT ![r] = "cancelled"], active)
  /\ UNCHANGED deps

(* waitIfPaused of a paused run that is not aborted. *)
WaitIfPaused(r) ==
  /\ r \in active \ waiting /\ status[r] = "paused"
  /\ waiting' = waiting \union {r}
  /\ UNCHANGED <<status, deps, active, settled>>

(* The runner's promise settles: finish or fail. *)
Settle(r, end) ==
  /\ r \in active \ waiting
  /\ Reschedule(IF status[r] = "cancelled" THEN status ELSE [status EXCEPT ![r] = end],
                active \ {r})
  /\ UNCHANGED <<deps, waiting>>

(* A new process restores the saved runs: what was at work starts again. *)
Restore ==
  /\ active # {} \/ \E r \in Run : status[r] = "paused"
  /\ status' = [r \in Run |-> IF status[r] \in {"running", "paused"} THEN "queued" ELSE status[r]]
  /\ active' = {} /\ waiting' = {} /\ settled' = FALSE
  /\ UNCHANGED deps

----------------------------------------------------------------------------
Next ==
  \/ CallSchedule \/ Restore
  \/ \E r \in Run :
       \/ Create(r) \/ Pause(r) \/ Resume(r) \/ Cancel(r) \/ WaitIfPaused(r)
       \/ Settle(r, "completed") \/ Settle(r, "failed")

Spec == Init /\ [][Next]_vars

----------------------------------------------------------------------------
TypeOK ==
  /\ status \in [Run -> AgentRunStatus \union {"absent"}]
  /\ \A r \in Run : deps[r] \subseteq 1..(r - 1)
  /\ waiting \subseteq active /\ active \subseteq Run

(* Once schedule() has seen all runs no later call is needed: no worker is  *)
(* idle while a run could start, none sleeps for a run that is not paused,  *)
(* and no run waits for a dependency that can no longer complete; and never *)
(* are there more workers than allowed.                                     *)
SchedulerKeepsUp ==
  /\ Cardinality(active) <= maxConcurrency
  /\ \A r \in waiting : status[r] = "paused"
  /\ settled =>
       /\ Failed(status) = {}
       /\ Startable(status) = {} \/ Cardinality(active) = maxConcurrency

============================================================================
