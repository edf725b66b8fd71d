----------------------------- MODULE AgentTask -----------------------------
(***************************************************************************)
(* The database-backed Agent task control plane                            *)
(* (apps/api/src/modules/agent-orchestration/agent-task.service.ts).       *)
(*                                                                         *)
(* A teacher creates tasks with dependencies; connectors of the student    *)
(* claim them under a lease, renew it, and report a result or a failure;   *)
(* every claim poll takes back the leases that ran out.  All state is in   *)
(* three tables, and every request interleaves with every other one at     *)
(* each await.  A request in flight is therefore a record in `req`: its    *)
(* step number (op) and what it has read and not used yet.  One action is  *)
(* one database round trip (a query, an update, or a transaction).         *)
(***************************************************************************)
EXTENDS Integers, FiniteSets, Sequences

CONSTANTS
  Task,           \* the rows AgentTask that may come to exist
  NoTask,         \* the task of an idle handler
  Student,
  StudentOf,      \* Task -> Student
  Deps,           \* Task -> the tasks it is created with as dependencies
  Heavy,          \* the tasks of resource class heavy; the others are light
  Connector,
  Eligible,       \* Connector -> the tasks of its student, provider and capabilities
  LightCapacity,  \* Connector -> the light tasks it may hold at once
  HeavyCapacity,  \* Connector -> 0 or 1
  MaxAttempts,    \* maxAttempts of every task
  AttemptCap,     \* model bound: no task is claimed more often than this
  Handler,        \* model bound: requests of teachers and workers in flight at once
  Poller,         \* model bound: claim polls at once; may overlap with Handler
  TeacherOps,     \* the control requests teachers send, of pause, resume, cancel
  CanRestart,     \* whether the API process may be restarted
  MayStop,        \* model bound: the connectors that may stop for good
  Preloaded       \* tasks created one after the other before the behaviour starts

AttemptOpen == {"leased", "running"}
AttemptStatus == AttemptOpen \union {"completed", "failed", "expired", "cancelled"}
Attempt == [by: Connector, st: AttemptStatus]

ActiveStatus == {"leased", "running"}
BrokenStatus == {"failed", "needs_teacher", "cancelled"}
TaskStatus == ActiveStatus \union BrokenStatus
                \union {"absent", "blocked", "queued", "completed"}

ASSUME ConstantsAssumption ==
  /\ NoTask \notin Task
  /\ IsFiniteSet(Task)
  /\ StudentOf \in [Task -> Student]
  /\ Deps \in [Task -> SUBSET Task]
  /\ Heavy \subseteq Task
  /\ Eligible \in [Connector -> SUBSET Task]
  /\ \A c \in Connector : \A t, u \in Eligible[c] : StudentOf[t] = StudentOf[u]
  /\ LightCapacity \in [Connector -> Nat]
  /\ HeavyCapacity \in [Connector -> {0, 1}]
  /\ MaxAttempts \in Nat \ {0}
  /\ AttemptCap \in Nat
  /\ MayStop \subseteq Connector
  /\ TeacherOps \subseteq {"pause", "resume", "cancel"}
  /\ CanRestart \in BOOLEAN
  /\ Preloaded \subseteq Task
  /\ \A t \in Preloaded : Deps[t] \subseteq Preloaded

VARIABLES
  status,     \* AgentTask.status, "absent" before the row exists
  reason,     \* AgentTask.failureReason: "none" (NULL), "paused" or "other"
  blockedBy,  \* AgentTask.blockedByCount
  token,      \* the attempt whose lease token hash the row holds; 0 is NULL
  lapsed,     \* AgentTask.leaseExpiresAt <= now
  heavyKey,   \* the row holds the unique heavyLeaseKey of its student
  attempts,   \* the AgentTaskAttempt rows of the task, by attempt number
  req,        \* what each request in flight does next, and what it has read
  down,       \* connectors that stopped for good
  everDone    \* history: tasks that some attempt has completed

vars == <<status, reason, blockedBy, token, lapsed, heavyKey, attempts, req,
          down, everDone>>

row == <<status, reason, blockedBy, token, lapsed, heavyKey, attempts>>

----------------------------------------------------------------------------
(* Requests in flight.                                                     *)

Ops == {"idle", "create", "pause", "resume", "unpause", "cancel", "heartbeat",
        "complete", "fail", "unlockScan", "markScan", "reconcile", "settle",
        "mark"}

Request == [op: Ops, task: Task \union {NoTask}, n: Nat, blockers: Nat,
            next: TaskStatus, todo: SUBSET Task]

Idle == [op |-> "idle", task |-> NoTask, n |-> 0, blockers |-> 0,
         next |-> "absent", todo |-> {}]

Slot == Handler \union Poller

Goto(h, r) == req' = [req EXCEPT ![h] = r]

TypeOK ==
  /\ status \in [Task -> TaskStatus]
  /\ reason \in [Task -> {"none", "paused", "other"}]
  /\ blockedBy \in [Task -> Nat]
  /\ token \in [Task -> Nat]
  /\ lapsed \in [Task -> BOOLEAN]
  /\ heavyKey \in [Task -> BOOLEAN]
  /\ attempts \in [Task -> Seq(Attempt)]
  /\ req \in [Slot -> Request]
  /\ down \subseteq Connector
  /\ everDone \subseteq Task

(* attemptCount is incremented by the transaction that inserts the attempt. *)
AttemptCount(t) == Len(attempts[t])

Active(t) == status[t] \in ActiveStatus

(* leaseOwnerId is written with leaseTokenHash, and to the same connector.  *)
OwnedBy(c, t) == token[t] # 0 /\ attempts[t][token[t]].by = c

(* Mutant: a dependency that ended without completing does not block.      *)
IncompleteUnlessBroken(t) ==
  {d \in Deps[t] : status[d] \notin {"completed"} \union BrokenStatus}

Incomplete(t) == {d \in Deps[t] : status[d] # "completed"}

Dependents(t) == {d \in Task : status[d] # "absent" /\ t \in Deps[d]}

(* Mutant: the lease's unique key is not written.                          *)
KeyNotUnique(t) == TRUE

(* A heavy claim writes the student's key, unique over the table.           *)
KeyFree(t) ==
  \A u \in Task : heavyKey[u] => StudentOf[u] # StudentOf[t]

HeavyIdle(t) ==
  \A u \in Heavy : Active(u) => StudentOf[u] # StudentOf[t]

(* Mutant: leases whose worker has not sent a heartbeat yet do not count.   *)
LightStarted(c) == {u \in Task \ Heavy : status[u] = "running" /\ OwnedBy(c, u)}

LightHeld(c) == {u \in Task \ Heavy : Active(u) /\ OwnedBy(c, u)}

Init ==
  /\ status = [t \in Task |->
                 IF t \notin Preloaded THEN "absent"
                 ELSE IF Deps[t] = {} THEN "queued" ELSE "blocked"]
  /\ reason = [t \in Task |-> "none"]
  /\ blockedBy = [t \in Task |-> IF t \in Preloaded THEN Cardinality(Deps[t]) ELSE 0]
  /\ token = [t \in Task |-> 0]
  /\ lapsed = [t \in Task |-> FALSE]
  /\ heavyKey = [t \in Task |-> FALSE]
  /\ attempts = [t \in Task |-> <<>>]
  /\ req = [h \in Slot |-> Idle]
  /\ down = {}
  /\ everDone = {}

----------------------------------------------------------------------------
(* create: the dependencies are read, and the row inserted by a later      *)
(* statement with the count that was read.                                 *)

BeginCreate(h, t) ==
  /\ req[h] = Idle
  /\ status[t] = "absent"
  /\ t \notin Deps[t]
  /\ \A d \in Deps[t] : status[d] # "absent"
  /\ Goto(h, [Idle EXCEPT !.op = "create", !.task = t,
                          !.blockers = Cardinality(Incomplete(t))])
  /\ UNCHANGED <<row, down, everDone>>

(* runId is unique: the slower of two creates of the same run fails.       *)
InsertTask(h) ==
  LET t == req[h].task IN
  /\ req[h].op = "create"
  /\ IF status[t] = "absent"
     THEN /\ status' = [status EXCEPT ![t] =
                          IF req[h].blockers > 0 THEN "blocked" ELSE "queued"]
          /\ blockedBy' = [blockedBy EXCEPT ![t] = req[h].blockers]
     ELSE UNCHANGED <<status, blockedBy>>
  /\ Goto(h, Idle)
  /\ UNCHANGED <<reason, token, lapsed, heavyKey, attempts, down, everDone>>

----------------------------------------------------------------------------
(* pause, resume, cancel: each checks the row it has read and then updates *)
(* it by id, with no condition on what the row has become.                 *)

BeginPause(h, t) ==
  /\ "pause" \in TeacherOps
  /\ req[h] = Idle
  /\ status[t] = "queued"
  /\ Goto(h, [Idle EXCEPT !.op = "pause", !.task = t])
  /\ UNCHANGED <<row, down, everDone>>

WritePause(h) ==
  LET t == req[h].task IN
  /\ req[h].op = "pause"
  /\ status' = [status EXCEPT ![t] = "blocked"]
  /\ reason' = [reason EXCEPT ![t] = "paused"]
  /\ Goto(h, Idle)
  /\ UNCHANGED <<blockedBy, token, lapsed, heavyKey, attempts, down, everDone>>

BeginResume(h, t) ==
  /\ "resume" \in TeacherOps
  /\ req[h] = Idle
  /\ status[t] = "blocked" /\ reason[t] = "paused"
  /\ Goto(h, [Idle EXCEPT !.op = "resume", !.task = t])
  /\ UNCHANGED <<row, down, everDone>>

CountBlockers(h) ==
  /\ req[h].op = "resume"
  /\ Goto(h, [req[h] EXCEPT !.op = "unpause",
                            !.blockers = Cardinality(Incomplete(req[h].task))])
  /\ UNCHANGED <<row, down, everDone>>

WriteResume(h) ==
  LET t == req[h].task IN
  /\ req[h].op = "unpause"
  /\ status' = [status EXCEPT ![t] =
                  IF req[h].blockers = 0 THEN "queued" ELSE "blocked"]
  /\ blockedBy' = [blockedBy EXCEPT ![t] = req[h].blockers]
  /\ reason' = [reason EXCEPT ![t] = "none"]
  /\ Goto(h, Idle)
  /\ UNCHANGED <<token, lapsed, heavyKey, attempts, down, everDone>>

BeginCancel(h, t) ==
  /\ "cancel" \in TeacherOps
  /\ req[h] = Idle
  /\ status[t] \notin {"absent", "completed", "failed", "cancelled"}
  /\ Goto(h, [Idle EXCEPT !.op = "cancel", !.task = t])
  /\ UNCHANGED <<row, down, everDone>>

WriteCancel(h) ==
  LET t == req[h].task IN
  /\ req[h].op = "cancel"
  /\ status' = [status EXCEPT ![t] = "cancelled"]
  /\ token' = [token EXCEPT ![t] = 0]
  /\ lapsed' = [lapsed EXCEPT ![t] = FALSE]
  /\ heavyKey' = [heavyKey EXCEPT ![t] = FALSE]
  /\ attempts' = [attempts EXCEPT ![t] =
                    [i \in DOMAIN @ |->
                       IF @[i].st \in AttemptOpen
                       THEN [@[i] EXCEPT !.st = "cancelled"] ELSE @[i]]]
  /\ Goto(h, [Idle EXCEPT !.op = "markScan", !.task = t])
  /\ UNCHANGED <<reason, blockedBy, down, everDone>>

----------------------------------------------------------------------------
(* claim: the serialisable transaction of tryClaim repeats the conditions  *)
(* the candidate was selected by, all but blockedByCount = 0, which no     *)
(* queued row breaks (DependencyGate); so both are one step.               *)
(* Which candidate is tried first (priority with aging), availableAt and   *)
(* the provider quota only delay a claim, so any of them may be next.      *)

(* Mutant: a claim does not ask that the row carries no lease.             *)
ClaimableWhenQueued(c, t) ==
  t \in Eligible[c] /\ status[t] = "queued" /\ blockedBy[t] = 0

Claimable(c, t) ==
  /\ t \in Eligible[c]
  /\ status[t] = "queued"
  /\ blockedBy[t] = 0
  /\ token[t] = 0

HasRoom(c, t) ==
  IF t \in Heavy
  THEN HeavyCapacity[c] > 0 /\ HeavyIdle(t) /\ KeyFree(t)
  ELSE Cardinality(LightHeld(c)) < LightCapacity[c]

Claim(c, t) ==
  /\ c \notin down
  /\ Claimable(c, t)
  /\ HasRoom(c, t)
  /\ AttemptCount(t) < AttemptCap
  /\ status' = [status EXCEPT ![t] = "leased"]
  /\ heavyKey' = [heavyKey EXCEPT ![t] = t \in Heavy]
  /\ attempts' = [attempts EXCEPT ![t] = Append(@, [by |-> c, st |-> "leased"])]
  /\ token' = [token EXCEPT ![t] = AttemptCount(t) + 1]
  /\ lapsed' = [lapsed EXCEPT ![t] = FALSE]
  /\ UNCHANGED <<reason, blockedBy, req, down, everDone>>

----------------------------------------------------------------------------
(* heartbeat, complete, fail: findLease looks the attempt up by its token; *)
(* the transaction then updates the task row only if it still carries that *)
(* token and is leased or running.  Its expiry condition compares with the *)
(* time of the first step, so it adds nothing to the token's.  A request   *)
(* may come from any attempt ever granted: late, repeated, or both.        *)

LeaseRequest(h, t, n) ==
  /\ req[h] = Idle
  /\ n \in DOMAIN attempts[t]
  /\ attempts[t][n].by \notin down

LeaseCurrent(h) ==
  Active(req[h].task) /\ token[req[h].task] = req[h].n

SetAttempt(h, st) ==
  attempts' = [attempts EXCEPT ![req[h].task][req[h].n].st = st]

BeginHeartbeat(h, t, n) ==
  /\ LeaseRequest(h, t, n)
  /\ ~(token[t] # 0 /\ lapsed[t])
  /\ Active(t)
  /\ Goto(h, [Idle EXCEPT !.op = "heartbeat", !.task = t, !.n = n])
  /\ UNCHANGED <<row, down, everDone>>

CommitHeartbeat(h) ==
  /\ req[h].op = "heartbeat"
  /\ IF LeaseCurrent(h)
     THEN /\ status' = [status EXCEPT ![req[h].task] = "running"]
          /\ lapsed' = [lapsed EXCEPT ![req[h].task] = FALSE]
          /\ SetAttempt(h, "running")
     ELSE UNCHANGED <<status, lapsed, attempts>>
  /\ Goto(h, Idle)
  /\ UNCHANGED <<reason, blockedBy, token, heavyKey, down, everDone>>

(* A task found completed is answered as a success, with nothing written.  *)
BeginComplete(h, t, n) ==
  /\ LeaseRequest(h, t, n)
  /\ status[t] # "completed"
  /\ token[t] # 0 /\ ~lapsed[t]
  /\ Goto(h, [Idle EXCEPT !.op = "complete", !.task = t, !.n = n])
  /\ UNCHANGED <<row, down, everDone>>

CommitComplete(h) ==
  LET t == req[h].task IN
  /\ req[h].op = "complete"
  /\ IF LeaseCurrent(h)
     THEN /\ status' = [status EXCEPT ![t] = "completed"]
          /\ reason' = [reason EXCEPT ![t] = "none"]
          /\ heavyKey' = [heavyKey EXCEPT ![t] = FALSE]
          /\ SetAttempt(h, "completed")
          /\ everDone' = everDone \union {t}
          /\ Goto(h, [Idle EXCEPT !.op = "unlockScan", !.task = t])
     ELSE /\ Goto(h, Idle)
          /\ UNCHANGED <<status, reason, heavyKey, attempts, everDone>>
  /\ UNCHANGED <<blockedBy, token, lapsed, down>>

AfterFailure(t, infrastructure) ==
  CASE infrastructure /\ AttemptCount(t) < MaxAttempts -> "queued"
    [] infrastructure /\ AttemptCount(t) >= MaxAttempts -> "needs_teacher"
    [] OTHER -> "failed"

(* fail does not look at the expiry; a repeated fail is answered as before. *)
BeginFail(h, t, n, infrastructure) ==
  /\ LeaseRequest(h, t, n)
  /\ attempts[t][n].st # "failed"
  /\ Active(t)
  /\ Goto(h, [Idle EXCEPT !.op = "fail", !.task = t, !.n = n,
                          !.next = AfterFailure(t, infrastructure)])
  /\ UNCHANGED <<row, down, everDone>>

CommitFail(h) ==
  LET t == req[h].task
      retry == req[h].next = "queued" IN
  /\ req[h].op = "fail"
  /\ IF LeaseCurrent(h)
     THEN /\ status' = [status EXCEPT ![t] = req[h].next]
          /\ reason' = [reason EXCEPT ![t] = "other"]
          /\ heavyKey' = [heavyKey EXCEPT ![t] = FALSE]
          /\ token' = [token EXCEPT ![t] = IF retry THEN 0 ELSE @]
          /\ lapsed' = [lapsed EXCEPT ![t] = IF retry THEN FALSE ELSE @]
          /\ SetAttempt(h, "failed")
          /\ Goto(h, IF retry THEN Idle
                     ELSE [Idle EXCEPT !.op = "markScan", !.task = t])
     ELSE /\ Goto(h, Idle)
          /\ UNCHANGED <<status, reason, heavyKey, token, lapsed, attempts>>
  /\ UNCHANGED <<blockedBy, down, everDone>>

----------------------------------------------------------------------------
(* recoverExpiredLeases, run by every claim poll, by schedule, and by a    *)
(* heartbeat or completion that comes too late: each row found is updated  *)
(* only if its status, token and expiry are as found, hence one step.      *)

Expired(t) == Active(t) /\ token[t] # 0 /\ lapsed[t]

Recover(h, t) ==
  LET again == AttemptCount(t) < MaxAttempts IN
  /\ req[h] = Idle
  /\ Expired(t)
  /\ status' = [status EXCEPT ![t] = IF again THEN "queued" ELSE "needs_teacher"]
  /\ reason' = [reason EXCEPT ![t] = "other"]
  /\ token' = [token EXCEPT ![t] = 0]
  /\ lapsed' = [lapsed EXCEPT ![t] = FALSE]
  /\ heavyKey' = [heavyKey EXCEPT ![t] = FALSE]
  /\ attempts' = [attempts EXCEPT ![t][token[t]].st =
                    IF @ \in AttemptOpen THEN "expired" ELSE @]
  /\ Goto(h, IF again THEN Idle
             ELSE [Idle EXCEPT !.op = "markScan", !.task = t])
  /\ UNCHANGED <<blockedBy, down, everDone>>

----------------------------------------------------------------------------
(* Dependents.  Completion reconciles each direct dependent; an end        *)
(* without completion marks them all with one update.                      *)

Reconciling(todo) ==
  IF todo = {} THEN Idle ELSE [Idle EXCEPT !.op = "reconcile", !.todo = todo]

(* reconcileBlockedTasks selects NOT (failureReason = 'paused by teacher'), *)
(* which in SQL is not true of a row whose failureReason is NULL.           *)
ReconcileSelection ==
  {t \in Task : status[t] = "blocked" /\ reason[t] \notin {"none", "paused"}}

ReconcilePass(h) ==
  /\ req[h] = Idle
  /\ Goto(h, Reconciling(ReconcileSelection))
  /\ UNCHANGED <<row, down, everDone>>

ScanDependents(h) ==
  LET found == Dependents(req[h].task) IN
  /\ req[h].op \in {"unlockScan", "markScan"}
  /\ Goto(h, IF req[h].op = "unlockScan" THEN Reconciling(found)
             ELSE IF found = {} THEN Idle
             ELSE [Idle EXCEPT !.op = "mark", !.todo = found])
  /\ UNCHANGED <<row, down, everDone>>

(* reconcileTask reads the task and its dependencies ...                   *)
ReadDependent(h, t) ==
  LET rest == req[h].todo \ {t}
      broken == \E d \in Deps[t] : status[d] \in BrokenStatus
      settled == IF broken THEN "needs_teacher"
                 ELSE IF Incomplete(t) = {} THEN "queued" ELSE "blocked" IN
  /\ req[h].op = "reconcile"
  /\ t \in req[h].todo
  /\ Goto(h, IF status[t] = "blocked" /\ reason[t] # "paused"
             THEN [op |-> "settle", task |-> t, n |-> 0, next |-> settled,
                   blockers |-> Cardinality(Incomplete(t)), todo |-> rest]
             ELSE Reconciling(rest))
  /\ UNCHANGED <<row, down, everDone>>

(* ... and updates it if it is still blocked, whatever its failureReason.  *)
SettleDependent(h) ==
  LET t == req[h].task
      broken == req[h].next = "needs_teacher" IN
  /\ req[h].op = "settle"
  /\ IF status[t] = "blocked"
     THEN /\ status' = [status EXCEPT ![t] = req[h].next]
          /\ reason' = [reason EXCEPT ![t] = IF broken THEN "other" ELSE @]
          /\ blockedBy' = [blockedBy EXCEPT ![t] =
                             IF broken THEN @ ELSE req[h].blockers]
     ELSE UNCHANGED <<status, reason, blockedBy>>
  /\ Goto(h, Reconciling(req[h].todo))
  /\ UNCHANGED <<token, lapsed, heavyKey, attempts, down, everDone>>

(* Mutant: only the dependents that are queued already are marked.          *)
MarkedQueued(h) == {t \in req[h].todo : status[t] = "queued"}

Marked(h) == {t \in req[h].todo : status[t] \in {"blocked", "queued"}}

MarkDependents(h) ==
  /\ req[h].op = "mark"
  /\ status' = [t \in Task |-> IF t \in Marked(h) THEN "needs_teacher" ELSE status[t]]
  /\ reason' = [t \in Task |-> IF t \in Marked(h) THEN "other" ELSE reason[t]]
  /\ Goto(h, Idle)
  /\ UNCHANGED <<blockedBy, token, lapsed, heavyKey, attempts, down, everDone>>

----------------------------------------------------------------------------
(* Time, crashes.                                                          *)

(* The 60 seconds since the last renewal pass.                             *)
Lapse(t) ==
  /\ Active(t) /\ token[t] # 0 /\ ~lapsed[t]
  /\ lapsed' = [lapsed EXCEPT ![t] = TRUE]
  /\ UNCHANGED <<status, reason, blockedBy, token, heavyKey, attempts, req,
                 down, everDone>>

StopConnector(c) ==
  /\ c \in MayStop \ down
  /\ down' = down \union {c}
  /\ UNCHANGED <<row, req, everDone>>

(* Every request in flight is lost between two of its steps.               *)
Restart ==
  /\ CanRestart
  /\ req' = [h \in Slot |-> Idle]
  /\ UNCHANGED <<row, down, everDone>>

----------------------------------------------------------------------------

HandlerStep(h) ==
  \/ InsertTask(h)
  \/ WritePause(h)
  \/ CountBlockers(h)
  \/ WriteResume(h)
  \/ WriteCancel(h)
  \/ CommitHeartbeat(h)
  \/ CommitComplete(h)
  \/ CommitFail(h)
  \/ ScanDependents(h)
  \/ \E t \in Task : ReadDependent(h, t)
  \/ SettleDependent(h)
  \/ MarkDependents(h)

TeacherRequest(h, t) ==
  \/ BeginCreate(h, t)
  \/ BeginPause(h, t)
  \/ BeginResume(h, t)
  \/ BeginCancel(h, t)

WorkerRequest(h, t) ==
  \E n \in 1..AttemptCap :
    \/ BeginHeartbeat(h, t, n)
    \/ BeginComplete(h, t, n)
    \/ \E infrastructure \in BOOLEAN : BeginFail(h, t, n, infrastructure)

Next ==
  \/ \E h \in Slot : HandlerStep(h)
  \/ \E h \in Handler, t \in Task : TeacherRequest(h, t) \/ WorkerRequest(h, t)
  \/ \E p \in Poller : ReconcilePass(p) \/ \E t \in Task : Recover(p, t)
  \/ \E t \in Task : Lapse(t) \/ \E c \in Connector : Claim(c, t)
  \/ \E c \in Connector : StopConnector(c)
  \/ Restart

Spec == Init /\ [][Next]_vars

(* Fairness.  A request in flight goes on to its end unless the process    *)
(* dies; connectors poll for ever, and every poll recovers, reconciles and *)
(* claims; the lease of a dead connector runs out.  A live connector ends  *)
(* the execution of a lease with an answer.  SF where other requests may   *)
(* keep taking the slots, a bound of the model and not of the program.     *)

Answer(h, t) ==
  /\ Active(t)
  /\ \/ BeginComplete(h, t, token[t])
     \/ \E infrastructure \in BOOLEAN : BeginFail(h, t, token[t], infrastructure)

OwnerDown(t) == \E c \in down : OwnedBy(c, t)

LapseOfDead == \E t \in Task : OwnerDown(t) /\ Lapse(t)

Fairness ==
  /\ \A h \in Slot : WF_vars(HandlerStep(h))
  /\ \A p \in Poller : WF_vars(ReconcilePass(p))
  /\ \A c \in Connector : WF_vars(\E t \in Task : Claim(c, t))
  /\ WF_vars(LapseOfDead)
  /\ SF_vars(\E p \in Poller, t \in Task : Recover(p, t))
  /\ SF_vars(\E h \in Handler, t \in Task : Answer(h, t))

FairSpec == Spec /\ Fairness

----------------------------------------------------------------------------
(* Properties.                                                             *)

HasOpenAttempt(t) ==
  \E n \in DOMAIN attempts[t] : attempts[t][n].st \in AttemptOpen

(* A student's heavy tasks run one at a time: two of them never have an    *)
(* attempt in progress together, even when a pause overwrote a lease and   *)
(* the task no longer counts as active (tryClaim, the unique heavyLeaseKey). *)
HeavyExclusive ==
  \A t, u \in Heavy :
    /\ t # u
    /\ StudentOf[t] = StudentOf[u]
    => ~(HasOpenAttempt(t) /\ HasOpenAttempt(u))

(* Fencing: an attempt in progress is the last one granted and the one     *)
(* whose token the task row carries, so at most one worker of a task can   *)
(* still write to it, whatever requests of teachers and earlier workers    *)
(* are in flight.                                                          *)
OneOpenAttempt ==
  \A t \in Task : \A n \in DOMAIN attempts[t] :
    attempts[t][n].st \in AttemptOpen => n = token[t] /\ n = AttemptCount(t)

(* A task is queued, or was ever leased, only after each task it depends   *)
(* on has been completed by some worker, although the counts it was        *)
(* unblocked by were read in earlier steps (create, resume, reconcileTask); *)
(* and the count a queued row shows is 0.                                  *)
DependencyGate ==
  \A t \in Task :
    /\ status[t] = "queued" \/ attempts[t] # <<>> => Deps[t] \subseteq everDone
    /\ status[t] = "queued" => blockedBy[t] = 0

(* A connector never has more active light tasks than the capacity it asked *)
(* for, counted inside the claim's transaction.                             *)
LightWithinCapacity ==
  \A c \in Connector : Cardinality(LightHeld(c)) <= LightCapacity[c]

(* A task reads completed only while the attempt whose token it carries is *)
(* the completed one: the result on the row is that attempt's.             *)
CompletedByHolder ==
  \A t \in Task :
    status[t] = "completed" =>
      token[t] \in DOMAIN attempts[t] /\ attempts[t][token[t]].st = "completed"

(* Every blocked row carries either no failure reason or the teacher's     *)
(* pause.  The periodic reconcileBlockedTasks therefore selects no row at  *)
(* all: only the reconciliation a completion triggers unblocks a task.     *)
BlockedReason ==
  \A t \in Task : status[t] = "blocked" => reason[t] \in {"none", "paused"}

(* History is never rewritten: an attempt that ended (completed, failed,   *)
(* expired, cancelled) keeps that outcome, and no attempt row disappears,  *)
(* whatever late heartbeat, answer or expiry arrives.                      *)
EndedAttemptsStay ==
  [][\A t \in Task : \A n \in DOMAIN attempts[t] :
       /\ n \in DOMAIN attempts'[t]
       /\ attempts[t][n].st \notin AttemptOpen => attempts'[t][n] = attempts[t][n]]_vars

(* With no teacher intervening, every task of a stored dependency graph    *)
(* ends: completed, failed, or handed to the teacher.                      *)
GraphDrains ==
  \A t \in Task :
    status[t] # "absent" ~> status[t] \in {"completed"} \union BrokenStatus

(* Seen through its attempts, the control plane is a fenced lease.         *)
Holder == [t \in Task |-> IF HasOpenAttempt(t) THEN token[t] ELSE 0]
Granted == [t \in Task |-> AttemptCount(t)]
Accepted == [t \in Task |->
  {n \in DOMAIN attempts[t] : attempts[t][n].st = "completed"}]

Lease == INSTANCE FencedLease
  WITH Exclusive <- Heavy, OwnerOf <- StudentOf,
       holder <- Holder, granted <- Granted, accepted <- Accepted

(* Every behaviour of the control plane, races included, is one of the     *)
(* abstract lease: no attempt number is reused, no attempt holds a task    *)
(* beside another, and no result is accepted from an attempt that has lost *)
(* the task.                                                               *)
ImplementsLease == Lease!Spec

(* pause's own refusal: a run "can only be paused while queued".           *)
PausedOnlyWhileQueued ==
  [][\A t \in Task : Active(t) => status'[t] # "blocked"]_vars

(* "unlocks dependents": a task whose dependencies have all completed does *)
(* not stay blocked.                                                       *)
DependentsUnlock ==
  \A t \in Task :
    status[t] = "blocked" /\ reason[t] = "none" /\ Incomplete(t) = {}
      ~> status[t] # "blocked"

============================================================================
