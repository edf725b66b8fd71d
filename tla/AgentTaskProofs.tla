-------------------------- MODULE AgentTaskProofs --------------------------
(***************************************************************************)
(* Proofs about AgentTask, for every set of tasks, connectors, handlers    *)
(* and dependencies.                                                       *)
(***************************************************************************)
EXTENDS AgentTask, SequenceTheorems, FiniteSetTheorems, TLAPS

(* What the steps of a request rely on: the task it read is a task, and    *)
(* the status it is about to write is one its earlier steps compute.       *)
RequestOK(r) ==
  /\ r \in Request
  /\ r.op \notin {"idle", "reconcile", "mark"} => r.task \in Task
  /\ r.op = "fail" => r.next \in {"queued", "needs_teacher", "failed"}
  /\ r.op = "settle" => r.next \in {"queued", "needs_teacher", "blocked"}

ReqOK == req \in [Slot -> Request] /\ \A h \in Slot : RequestOK(req[h])

RowOK ==
  /\ status \in [Task -> TaskStatus]
  /\ reason \in [Task -> {"none", "paused", "other"}]
  /\ blockedBy \in [Task -> Nat]
  /\ token \in [Task -> Nat]
  /\ lapsed \in [Task -> BOOLEAN]
  /\ heavyKey \in [Task -> BOOLEAN]
  /\ attempts \in [Task -> Seq(Attempt)]
  /\ down \subseteq Connector
  /\ everDone \subseteq Task

(* The row's token is that of an attempt, the only one that may be open,   *)
(* and an active task has it open.                                         *)
HolderAt(t) ==
  /\ token[t] <= Len(attempts[t])
  /\ \A n \in 1..Len(attempts[t]) :
       attempts[t][n].st \in AttemptOpen => n = token[t] /\ n = Len(attempts[t])
  /\ Active(t) => token[t] # 0 /\ attempts[t][token[t]].st \in AttemptOpen

HolderOK == \A t \in Task : HolderAt(t)

CoreInv == RowOK /\ ReqOK /\ HolderOK

(* The attempts are as before but for the outcome of attempt n of t.       *)
OnlyOutcome(t, n, st) ==
  /\ attempts' \in [Task -> Seq(Attempt)]
  /\ \A u \in Task : Len(attempts'[u]) = Len(attempts[u])
  /\ \A u \in Task : \A i \in 1..Len(attempts[u]) :
       attempts'[u][i] = IF u = t /\ i = n THEN [by |-> attempts[u][i].by, st |-> st]
                         ELSE attempts[u][i]

LEMMA Outcome ==
  ASSUME RowOK, NEW t \in Task, NEW n \in 1..Len(attempts[t]),
         NEW st \in AttemptStatus,
         attempts' = [attempts EXCEPT ![t][n].st = st]
  PROVE  OnlyOutcome(t, n, st)
<1> DEFINE e == [by |-> attempts[t][n].by, st |-> st]
<1>1. attempts \in [Task -> Seq(Attempt)] /\ attempts[t] \in Seq(Attempt)
  BY DEF RowOK
<1>2. attempts[t][n] \in Attempt
  BY <1>1, ElementOfSeq
<1>3. e \in Attempt
  BY <1>2 DEF Attempt
<1>4. attempts' = [attempts EXCEPT ![t] = [attempts[t] EXCEPT ![n] = e]]
  <2>1. [attempts[t][n] EXCEPT !.st = st] = e
    BY <1>2 DEF Attempt
  <2>2. attempts' = [attempts EXCEPT ![t] = [attempts[t] EXCEPT
                       ![n] = [attempts[t][n] EXCEPT !.st = st]]]
    OBVIOUS
  <2> QED
    BY <2>1, <2>2
<1>5. /\ [attempts[t] EXCEPT ![n] = e] \in Seq(Attempt)
      /\ Len([attempts[t] EXCEPT ![n] = e]) = Len(attempts[t])
      /\ \A j \in 1..Len(attempts[t]) :
           [attempts[t] EXCEPT ![n] = e][j] = IF j = n THEN e ELSE attempts[t][j]
  BY <1>1, <1>3, ExceptSeq
<1> QED
  BY <1>1, <1>4, <1>5 DEF OnlyOutcome

----------------------------------------------------------------------------
(* Requests.                                                               *)

LEMMA IncompleteCount ==
  ASSUME NEW t \in Task
  PROVE  /\ IsFiniteSet(Incomplete(t))
         /\ Cardinality(Incomplete(t)) \in Nat
         /\ Cardinality(Incomplete(t)) = 0 <=> Incomplete(t) = {}
<1>1. Incomplete(t) \subseteq Task
  BY ConstantsAssumption DEF Incomplete
<1>2. IsFiniteSet(Incomplete(t))
  BY <1>1, FS_Subset, ConstantsAssumption
<1> QED
  BY <1>2, FS_CardinalityType, FS_EmptySet

LEMMA GotoOK ==
  ASSUME ReqOK, NEW h \in Slot, NEW r, RequestOK(r), Goto(h, r)
  PROVE  ReqOK'
BY DEF ReqOK, Goto, RequestOK

LEMMA IdleOK == RequestOK(Idle)
BY DEF RequestOK, Idle, Request, Ops, TaskStatus

LEMMA GotoIdle ==
  ASSUME ReqOK, NEW h \in Slot, Goto(h, Idle)
  PROVE  ReqOK'
BY GotoOK, IdleOK

LEMMA ReconcilingOK ==
  ASSUME NEW todo \in SUBSET Task
  PROVE  RequestOK(Reconciling(todo))
BY DEF Reconciling, RequestOK, Idle, Request, Ops, TaskStatus

LEMMA BeginsReqOK ==
  ASSUME ReqOK, NEW h \in Slot, NEW t \in Task,
         BeginCreate(h, t) \/ BeginPause(h, t) \/ BeginResume(h, t) \/ BeginCancel(h, t)
  PROVE  ReqOK'
<1>1. CASE BeginCreate(h, t)
  <2> DEFINE r == [Idle EXCEPT !.op = "create", !.task = t,
                               !.blockers = Cardinality(Incomplete(t))]
  <2>1. RequestOK(r)
    BY IncompleteCount DEF RequestOK, Idle, Request, Ops, TaskStatus
  <2> QED
    BY <1>1, <2>1, GotoOK DEF BeginCreate
<1>2. CASE BeginPause(h, t)
  <2>1. RequestOK([Idle EXCEPT !.op = "pause", !.task = t])
    BY DEF RequestOK, Idle, Request, Ops, TaskStatus
  <2> QED
    BY <1>2, <2>1, GotoOK DEF BeginPause
<1>3. CASE BeginResume(h, t)
  <2>1. RequestOK([Idle EXCEPT !.op = "resume", !.task = t])
    BY DEF RequestOK, Idle, Request, Ops, TaskStatus
  <2> QED
    BY <1>3, <2>1, GotoOK DEF BeginResume
<1>4. CASE BeginCancel(h, t)
  <2>1. RequestOK([Idle EXCEPT !.op = "cancel", !.task = t])
    BY DEF RequestOK, Idle, Request, Ops, TaskStatus
  <2> QED
    BY <1>4, <2>1, GotoOK DEF BeginCancel
<1> QED
  BY <1>1, <1>2, <1>3, <1>4

LEMMA WorkerReqOK ==
  ASSUME ReqOK, NEW h \in Slot, NEW t \in Task, WorkerRequest(h, t)
  PROVE  ReqOK'
<1>1. PICK n \in 1..AttemptCap :
        \/ BeginHeartbeat(h, t, n)
        \/ BeginComplete(h, t, n)
        \/ \E infrastructure \in BOOLEAN : BeginFail(h, t, n, infrastructure)
  BY DEF WorkerRequest
<1>2. n \in Nat
  BY ConstantsAssumption
<1>3. CASE BeginHeartbeat(h, t, n)
  <2>1. RequestOK([Idle EXCEPT !.op = "heartbeat", !.task = t, !.n = n])
    BY <1>2 DEF RequestOK, Idle, Request, Ops, TaskStatus
  <2> QED
    BY <1>3, <2>1, GotoOK DEF BeginHeartbeat
<1>4. CASE BeginComplete(h, t, n)
  <2>1. RequestOK([Idle EXCEPT !.op = "complete", !.task = t, !.n = n])
    BY <1>2 DEF RequestOK, Idle, Request, Ops, TaskStatus
  <2> QED
    BY <1>4, <2>1, GotoOK DEF BeginComplete
<1>5. ASSUME NEW infrastructure \in BOOLEAN, BeginFail(h, t, n, infrastructure)
      PROVE  ReqOK'
  <2>1. AfterFailure(t, infrastructure) \in {"queued", "needs_teacher", "failed"}
    BY DEF AfterFailure
  <2>2. RequestOK([Idle EXCEPT !.op = "fail", !.task = t, !.n = n,
                               !.next = AfterFailure(t, infrastructure)])
    BY <1>2, <2>1 DEF RequestOK, Idle, Request, Ops, TaskStatus, BrokenStatus
  <2> QED
    BY <1>5, <2>2, GotoOK DEF BeginFail
<1> QED
  BY <1>1, <1>3, <1>4, <1>5

LEMMA HandlerReqOK ==
  ASSUME ReqOK, NEW h \in Slot, HandlerStep(h)
  PROVE  ReqOK'
<1> DEFINE q == req[h]
<1> USE DEF ReqOK
<1>0. RequestOK(q)
  OBVIOUS
<1>1. CASE InsertTask(h) \/ WritePause(h) \/ WriteResume(h) \/ CommitHeartbeat(h) \/ MarkDependents(h)
  BY <1>1, GotoIdle DEF InsertTask, WritePause, WriteResume, CommitHeartbeat, MarkDependents
<1>2. CASE CountBlockers(h)
  <2>1. RequestOK([q EXCEPT !.op = "unpause",
                            !.blockers = Cardinality(Incomplete(q.task))])
    BY <1>0, <1>2, IncompleteCount DEF CountBlockers, RequestOK, Request, Ops
  <2> QED
    BY <1>2, <2>1, GotoOK DEF CountBlockers
<1>3. CASE WriteCancel(h)
  <2>1. RequestOK([Idle EXCEPT !.op = "markScan", !.task = q.task])
    BY <1>0, <1>3 DEF WriteCancel, RequestOK, Idle, Request, Ops, TaskStatus
  <2> QED
    BY <1>3, <2>1, GotoOK DEF WriteCancel
<1>4. CASE CommitComplete(h)
  <2>1. RequestOK([Idle EXCEPT !.op = "unlockScan", !.task = q.task])
    BY <1>0, <1>4 DEF CommitComplete, RequestOK, Idle, Request, Ops, TaskStatus
  <2> QED
    BY <1>4, <2>1, GotoOK, GotoIdle DEF CommitComplete
<1>5. CASE CommitFail(h)
  <2>1. RequestOK([Idle EXCEPT !.op = "markScan", !.task = q.task])
    BY <1>0, <1>5 DEF CommitFail, RequestOK, Idle, Request, Ops, TaskStatus
  <2> QED
    BY <1>5, <2>1, GotoOK, GotoIdle DEF CommitFail
<1>6. CASE ScanDependents(h)
  <2> DEFINE found == Dependents(q.task)
  <2>1. found \in SUBSET Task
    BY DEF Dependents
  <2>2. RequestOK([Idle EXCEPT !.op = "mark", !.todo = found])
    BY <2>1 DEF RequestOK, Idle, Request, Ops, TaskStatus
  <2> QED
    BY <1>6, <2>1, <2>2, ReconcilingOK, IdleOK, GotoOK DEF ScanDependents
<1>7. ASSUME NEW t \in Task, ReadDependent(h, t)
      PROVE  ReqOK'
  <2>1. q.todo \ {t} \in SUBSET Task
    BY <1>0 DEF RequestOK, Request
  <2>2. ASSUME NEW s \in {"queued", "needs_teacher", "blocked"}
        PROVE  RequestOK([op |-> "settle", task |-> t, n |-> 0, next |-> s,
                          blockers |-> Cardinality(Incomplete(t)),
                          todo |-> q.todo \ {t}])
    BY <2>1, IncompleteCount DEF RequestOK, Request, Ops, TaskStatus, BrokenStatus
  <2> QED
    BY <1>7, <2>1, <2>2, ReconcilingOK, GotoOK DEF ReadDependent
<1>8. CASE SettleDependent(h)
  <2>1. q.todo \in SUBSET Task
    BY <1>0 DEF RequestOK, Request
  <2> QED
    BY <1>8, <2>1, ReconcilingOK, GotoOK DEF SettleDependent
<1> QED
  BY <1>1, <1>2, <1>3, <1>4, <1>5, <1>6, <1>7, <1>8 DEF HandlerStep

LEMMA RecoverReqOK ==
  ASSUME ReqOK, NEW p \in Slot, NEW t \in Task, Recover(p, t)
  PROVE  ReqOK'
<1>1. RequestOK([Idle EXCEPT !.op = "markScan", !.task = t])
  BY DEF RequestOK, Idle, Request, Ops, TaskStatus
<1> QED
  BY <1>1, IdleOK, GotoOK DEF Recover

LEMMA NextReqOK ==
  ASSUME ReqOK, [Next]_vars
  PROVE  ReqOK'
<1>1. ASSUME NEW h \in Handler, NEW t \in Task, TeacherRequest(h, t)
      PROVE  ReqOK'
  BY <1>1, BeginsReqOK DEF TeacherRequest, Slot
<1>2. ASSUME NEW h \in Handler, NEW t \in Task, WorkerRequest(h, t)
      PROVE  ReqOK'
  BY <1>2, WorkerReqOK DEF Slot
<1>3. ASSUME NEW p \in Poller, ReconcilePass(p)
      PROVE  ReqOK'
  <2>1. ReconcileSelection \in SUBSET Task
    BY DEF ReconcileSelection
  <2> QED
    BY <1>3, <2>1, ReconcilingOK, GotoOK DEF ReconcilePass, Slot
<1>4. ASSUME NEW p \in Poller, NEW t \in Task, Recover(p, t)
      PROVE  ReqOK'
  BY <1>4, RecoverReqOK DEF Slot
<1>5. CASE \/ \E t \in Task : Lapse(t) \/ \E c \in Connector : Claim(c, t)
           \/ \E c \in Connector : StopConnector(c)
  BY <1>5 DEF Lapse, Claim, StopConnector, ReqOK
<1>6. CASE Restart
  BY <1>6, IdleOK DEF Restart, ReqOK, RequestOK
<1>7. CASE UNCHANGED vars
  BY <1>7 DEF vars, ReqOK
<1> QED
  BY <1>1, <1>2, <1>3, <1>4, <1>5, <1>6, <1>7, HandlerReqOK DEF Next

----------------------------------------------------------------------------
(* Rows: types, and who holds a task.                                      *)

LEMMA HolderFrame ==
  ASSUME HolderOK, NEW t \in Task, token'[t] = token[t],
         attempts'[t] = attempts[t], Active(t)' => Active(t)
  PROVE  HolderAt(t)'
BY DEF HolderOK, HolderAt

LEMMA ActiveAttempt ==
  ASSUME RowOK, HolderOK, NEW t \in Task, Active(t)
  PROVE  /\ token[t] \in 1..Len(attempts[t])
         /\ attempts[t][token[t]] \in Attempt
         /\ attempts[t][token[t]].st \in AttemptOpen
<1>1. attempts[t] \in Seq(Attempt) /\ token[t] \in Nat
  BY DEF RowOK
<1>2. token[t] \in 1..Len(attempts[t])
  BY <1>1, LenProperties DEF HolderOK, HolderAt
<1> QED
  BY <1>1, <1>2, ElementOfSeq DEF HolderOK, HolderAt

LEMMA HolderKept ==
  ASSUME NEW u \in Task, HolderAt(u), token'[u] = token[u],
         Active(u)' => Active(u), Active(u) => token[u] \in 1..Len(attempts[u]),
         Len(attempts'[u]) = Len(attempts[u]),
         \A n \in 1..Len(attempts[u]) :
           attempts'[u][n].st \in AttemptOpen <=> attempts[u][n].st \in AttemptOpen
  PROVE  HolderAt(u)'
<1>1. token'[u] <= Len(attempts'[u])
  BY DEF HolderAt
<1>2. ASSUME NEW n \in 1..Len(attempts'[u]), attempts'[u][n].st \in AttemptOpen
      PROVE  n = token'[u] /\ n = Len(attempts'[u])
  BY <1>2 DEF HolderAt
<1>3. ASSUME Active(u)'
      PROVE  token'[u] # 0 /\ attempts'[u][token'[u]].st \in AttemptOpen
  BY <1>3 DEF HolderAt
<1> QED
  BY <1>1, <1>2, <1>3 DEF HolderAt

(* The holder's attempt ends, and the task is no longer active.            *)
LEMMA HolderEnds ==
  ASSUME RowOK, HolderOK, NEW t \in Task, NEW st \in AttemptStatus \ AttemptOpen,
         OnlyOutcome(t, token[t], st), ~Active(t)', token'[t] \in {0, token[t]},
         \A u \in Task \ {t} : token'[u] = token[u] /\ (Active(u)' => Active(u))
  PROVE  HolderOK'
<1> SUFFICES ASSUME NEW u \in Task
             PROVE  HolderAt(u)'
  BY DEF HolderOK
<1>1. /\ attempts[u] \in Seq(Attempt) /\ attempts'[u] \in Seq(Attempt)
      /\ Len(attempts'[u]) = Len(attempts[u]) /\ Len(attempts[u]) \in Nat
      /\ token[u] \in Nat
  BY LenProperties DEF RowOK, OnlyOutcome
<1>2. CASE u = t
  <2>1. token[t] <= Len(attempts[t]) /\ token'[t] <= Len(attempts'[t])
    BY <1>1, <1>2 DEF HolderOK, HolderAt
  <2>2. ASSUME NEW n \in 1..Len(attempts'[t])
        PROVE  attempts'[t][n].st \notin AttemptOpen
    <3>1. n \in 1..Len(attempts[t])
      BY <1>1, <1>2, <2>2
    <3>2. attempts'[t][n] = IF n = token[t] THEN [by |-> attempts[t][n].by, st |-> st]
                            ELSE attempts[t][n]
      BY <3>1 DEF OnlyOutcome
    <3>3. n # token[t] => attempts[t][n].st \notin AttemptOpen
      BY <3>1 DEF HolderOK, HolderAt
    <3> QED
      BY <3>2, <3>3
  <2> QED
    BY <1>2, <2>1, <2>2 DEF HolderAt
<1>3. CASE u # t
  <2>1. \A n \in 1..Len(attempts[u]) : attempts'[u][n] = attempts[u][n]
    BY <1>3 DEF OnlyOutcome
  <2>2. token'[u] = token[u] /\ (Active(u)' => Active(u)) /\ HolderAt(u)
    BY <1>3 DEF HolderOK
  <2>3. Active(u) => token[u] \in 1..Len(attempts[u])
    BY ActiveAttempt
  <2> QED
    BY <1>1, <2>1, <2>2, <2>3, HolderKept
<1> QED
  BY <1>2, <1>3

(* The holder's attempt goes on.                                           *)
LEMMA HolderStays ==
  ASSUME RowOK, HolderOK, NEW t \in Task, Active(t),
         OnlyOutcome(t, token[t], "running"),
         \A u \in Task : token'[u] = token[u] /\ (Active(u)' => Active(u))
  PROVE  HolderOK'
<1> SUFFICES ASSUME NEW u \in Task
             PROVE  HolderAt(u)'
  BY DEF HolderOK
<1>1. /\ attempts[u] \in Seq(Attempt) /\ attempts'[u] \in Seq(Attempt)
      /\ Len(attempts'[u]) = Len(attempts[u]) /\ Len(attempts[u]) \in Nat
      /\ token[u] \in Nat
  BY LenProperties DEF RowOK, OnlyOutcome
<1>2. token[t] \in 1..Len(attempts[t])
  BY ActiveAttempt
<1>3. ASSUME NEW n \in 1..Len(attempts[u])
      PROVE  attempts'[u][n].st = IF u = t /\ n = token[t] THEN "running"
                                  ELSE attempts[u][n].st
  <2>1. attempts'[u][n] = IF u = t /\ n = token[t]
                          THEN [by |-> attempts[u][n].by, st |-> "running"]
                          ELSE attempts[u][n]
    BY DEF OnlyOutcome
  <2> QED
    BY <2>1
<1>4. attempts[t][token[t]].st \in AttemptOpen
  BY ActiveAttempt
<1>5. token'[u] = token[u] /\ (Active(u)' => Active(u)) /\ HolderAt(u)
  BY DEF HolderOK
<1>6. Active(u) => token[u] \in 1..Len(attempts[u])
  BY ActiveAttempt
<1>7. \A n \in 1..Len(attempts[u]) :
        attempts'[u][n].st \in AttemptOpen <=> attempts[u][n].st \in AttemptOpen
  BY <1>3, <1>4 DEF AttemptOpen
<1> QED
  BY <1>1, <1>5, <1>6, <1>7, HolderKept

(* A step that leaves the leases alone and makes no task active.           *)
LEMMA HolderQuiet ==
  ASSUME RowOK, HolderOK, token' = token, attempts' = attempts,
         \A t \in Task : Active(t)' => Active(t)
  PROVE  HolderOK'
BY HolderFrame DEF HolderOK

LEMMA TeacherRowOK ==
  ASSUME CoreInv, NEW h \in Slot,
         InsertTask(h) \/ WritePause(h) \/ WriteResume(h)
  PROVE  RowOK' /\ HolderOK'
<1> DEFINE t == req[h].task
<1>1. t \in Task /\ req[h].blockers \in Nat
  BY DEF CoreInv, ReqOK, RequestOK, Request, InsertTask, WritePause, WriteResume
<1>2. /\ token' = token /\ attempts' = attempts
      /\ \A u \in Task : Active(u)' => Active(u)
  BY <1>1 DEF CoreInv, RowOK, InsertTask, WritePause, WriteResume, Active, ActiveStatus
<1>3. RowOK'
  BY <1>1 DEF CoreInv, RowOK, InsertTask, WritePause, WriteResume, TaskStatus
<1> QED
  BY <1>2, <1>3, HolderQuiet DEF CoreInv

LEMMA CancelRowOK ==
  ASSUME CoreInv, NEW h \in Slot, WriteCancel(h)
  PROVE  RowOK' /\ HolderOK'
<1>1. PICK t \in Task : t = req[h].task
  BY DEF CoreInv, ReqOK, RequestOK, WriteCancel
<1> DEFINE ended == [i \in 1..Len(attempts[t]) |->
                       IF attempts[t][i].st \in AttemptOpen
                       THEN [attempts[t][i] EXCEPT !.st = "cancelled"]
                       ELSE attempts[t][i]]
<1>2. attempts[t] \in Seq(Attempt) /\ DOMAIN attempts[t] = 1..Len(attempts[t])
      /\ Len(attempts[t]) \in Nat
  BY <1>1, LenProperties DEF CoreInv, RowOK
<1>3. attempts' = [attempts EXCEPT ![t] = ended]
  BY <1>1, <1>2 DEF WriteCancel
<1>4. \A i \in 1..Len(attempts[t]) : ended[i] \in Attempt /\ ended[i].st \notin AttemptOpen
  <2> SUFFICES ASSUME NEW i \in 1..Len(attempts[t])
               PROVE  ended[i] \in Attempt /\ ended[i].st \notin AttemptOpen
    OBVIOUS
  <2>1. attempts[t][i] \in Attempt
    BY <1>2, ElementOfSeq
  <2> QED
    BY <2>1 DEF Attempt, AttemptStatus, AttemptOpen
<1>5. ended \in Seq(Attempt) /\ Len(ended) = Len(attempts[t])
  <2>1. ended \in [1..Len(attempts[t]) -> Attempt]
    BY <1>4
  <2>2. ended \in Seq(Attempt)
    BY <1>2, <2>1, SeqDef
  <2> QED
    BY <1>2, <2>1, <2>2, LenProperties
<1> HIDE DEF ended
<1>6. RowOK'
  <2>1. attempts' \in [Task -> Seq(Attempt)]
    BY <1>3, <1>5 DEF CoreInv, RowOK
  <2>2. /\ status' \in [Task -> TaskStatus]
        /\ token' \in [Task -> Nat]
        /\ lapsed' \in [Task -> BOOLEAN]
        /\ heavyKey' \in [Task -> BOOLEAN]
    BY <1>1 DEF WriteCancel, CoreInv, RowOK, TaskStatus, BrokenStatus
  <2> QED
    BY <2>1, <2>2 DEF WriteCancel, CoreInv, RowOK
<1>7. HolderAt(t)'
  <2>1. token'[t] = 0 /\ ~Active(t)'
    BY <1>1 DEF WriteCancel, CoreInv, RowOK, Active, ActiveStatus
  <2>2. attempts'[t] = ended
    BY <1>3 DEF CoreInv, RowOK
  <2> QED
    BY <1>2, <1>4, <1>5, <2>1, <2>2 DEF HolderAt
<1>8. ASSUME NEW u \in Task, u # t
      PROVE  HolderAt(u)'
  <2>1. token'[u] = token[u] /\ attempts'[u] = attempts[u] /\ (Active(u)' => Active(u))
    BY <1>1, <1>3, <1>8 DEF WriteCancel, CoreInv, RowOK, Active
  <2> QED
    BY <2>1, HolderFrame DEF CoreInv
<1> QED
  BY <1>6, <1>7, <1>8 DEF HolderOK

(* A granted attempt is appended, and the row carries its token.           *)
LEMMA ClaimEffect ==
  ASSUME RowOK, NEW c \in Connector, NEW t \in Task, Claim(c, t)
  PROVE  /\ attempts' \in [Task -> Seq(Attempt)]
         /\ Len(attempts'[t]) = Len(attempts[t]) + 1
         /\ attempts'[t][Len(attempts[t]) + 1] = [by |-> c, st |-> "leased"]
         /\ \A i \in 1..Len(attempts[t]) : attempts'[t][i] = attempts[t][i]
         /\ \A u \in Task \ {t} : attempts'[u] = attempts[u] /\ token'[u] = token[u]
         /\ token'[t] = Len(attempts[t]) + 1
         /\ Len(attempts[t]) \in Nat
<1> DEFINE new == [by |-> c, st |-> "leased"]
<1>1. attempts[t] \in Seq(Attempt) /\ new \in Attempt
  BY DEF RowOK, Attempt, AttemptStatus, AttemptOpen
<1>2. /\ Append(attempts[t], new) \in Seq(Attempt)
      /\ Len(Append(attempts[t], new)) = Len(attempts[t]) + 1
      /\ \A i \in 1..Len(attempts[t]) : Append(attempts[t], new)[i] = attempts[t][i]
      /\ Append(attempts[t], new)[Len(attempts[t]) + 1] = new
  BY <1>1, AppendProperties
<1>3. attempts' = [attempts EXCEPT ![t] = Append(attempts[t], new)]
  BY DEF Claim
<1>4. token' = [token EXCEPT ![t] = Len(attempts[t]) + 1]
  BY DEF Claim, AttemptCount
<1>5. Len(attempts[t]) \in Nat
  BY <1>1, LenProperties
<1> QED
  BY <1>2, <1>3, <1>4, <1>5 DEF RowOK

LEMMA ClaimRowOK ==
  ASSUME CoreInv, NEW c \in Connector, NEW t \in Task, Claim(c, t)
  PROVE  RowOK' /\ HolderOK'
<1> USE DEF CoreInv
<1>1. RowOK'
  <2>1. attempts' \in [Task -> Seq(Attempt)]
    BY ClaimEffect
  <2>2. AttemptCount(t) + 1 \in Nat
    BY ClaimEffect DEF AttemptCount
  <2>3. /\ status' \in [Task -> TaskStatus]
        /\ token' \in [Task -> Nat]
        /\ lapsed' \in [Task -> BOOLEAN]
        /\ heavyKey' \in [Task -> BOOLEAN]
    BY <2>2 DEF Claim, RowOK, TaskStatus, ActiveStatus
  <2> QED
    BY <2>1, <2>3 DEF Claim, RowOK
<1>2. HolderAt(t)'
  <2>1. ~Active(t) /\ token[t] = 0
    BY DEF Claim, Claimable, Active, ActiveStatus
  <2>2. \A i \in 1..Len(attempts[t]) : attempts[t][i].st \notin AttemptOpen
    BY <2>1 DEF HolderOK, HolderAt
  <2>3. /\ Len(attempts'[t]) = Len(attempts[t]) + 1
        /\ token'[t] = Len(attempts[t]) + 1
        /\ attempts'[t][Len(attempts[t]) + 1] = [by |-> c, st |-> "leased"]
        /\ \A i \in 1..Len(attempts[t]) : attempts'[t][i] = attempts[t][i]
        /\ Len(attempts[t]) \in Nat
    BY ClaimEffect
  <2>4. attempts'[t][token'[t]].st = "leased"
    BY <2>3
  <2>5. ASSUME NEW i \in 1..Len(attempts'[t]), attempts'[t][i].st \in AttemptOpen
        PROVE  i = Len(attempts[t]) + 1
    BY SMTT(30), <2>2, <2>3, <2>5
  <2> QED
    BY <2>3, <2>4, <2>5 DEF HolderAt, AttemptOpen
<1>3. ASSUME NEW u \in Task, u # t
      PROVE  HolderAt(u)'
  <2>1. token'[u] = token[u] /\ attempts'[u] = attempts[u] /\ (Active(u)' => Active(u))
    BY <1>3, ClaimEffect DEF Claim, RowOK, Active
  <2> QED
    BY <2>1, HolderFrame
<1> QED
  BY <1>1, <1>2, <1>3 DEF HolderOK

(* What the three conditional updates by token have in common.             *)
LEMMA CurrentEffect ==
  ASSUME CoreInv, NEW h \in Slot, req[h].op \in {"heartbeat", "complete", "fail"},
         LeaseCurrent(h), NEW st \in AttemptStatus, SetAttempt(h, st)
  PROVE  /\ req[h].task \in Task
         /\ req[h].n = token[req[h].task]
         /\ Active(req[h].task)
         /\ OnlyOutcome(req[h].task, token[req[h].task], st)
<1>1. req[h].task \in Task
  BY DEF CoreInv, ReqOK, RequestOK
<1>2. req[h].n = token[req[h].task] /\ Active(req[h].task)
  BY DEF LeaseCurrent
<1>3. req[h].n \in 1..Len(attempts[req[h].task])
  BY <1>1, <1>2, ActiveAttempt DEF CoreInv
<1> QED
  BY <1>1, <1>2, <1>3, Outcome DEF CoreInv, SetAttempt

LEMMA HeartbeatRowOK ==
  ASSUME CoreInv, NEW h \in Slot, CommitHeartbeat(h), LeaseCurrent(h)
  PROVE  RowOK' /\ HolderOK'
<1>1. PICK t \in Task : t = req[h].task
  BY DEF CoreInv, ReqOK, RequestOK, CommitHeartbeat
<1>2. Active(t) /\ OnlyOutcome(t, token[t], "running")
  BY <1>1, CurrentEffect DEF CommitHeartbeat, AttemptStatus, AttemptOpen
<1>3. RowOK'
  <2>1. attempts' \in [Task -> Seq(Attempt)]
    BY <1>2 DEF OnlyOutcome
  <2>2. /\ status' = [status EXCEPT ![req[h].task] = "running"]
        /\ lapsed' = [lapsed EXCEPT ![req[h].task] = FALSE]
        /\ UNCHANGED <<reason, blockedBy, token, heavyKey, down, everDone>>
    BY DEF CommitHeartbeat
  <2>3. status' \in [Task -> TaskStatus] /\ lapsed' \in [Task -> BOOLEAN]
    BY <2>2 DEF CoreInv, RowOK, TaskStatus, ActiveStatus
  <2> QED
    BY <2>1, <2>2, <2>3 DEF CoreInv, RowOK
<1>4. \A u \in Task : token'[u] = token[u] /\ (Active(u)' => Active(u))
  BY <1>1, <1>2 DEF CommitHeartbeat, CoreInv, RowOK, Active
<1> QED
  BY <1>2, <1>3, <1>4, HolderStays DEF CoreInv

LEMMA CompleteRowOK ==
  ASSUME CoreInv, NEW h \in Slot, CommitComplete(h), LeaseCurrent(h)
  PROVE  RowOK' /\ HolderOK'
<1>1. PICK t \in Task : t = req[h].task
  BY DEF CoreInv, ReqOK, RequestOK, CommitComplete
<1>2. OnlyOutcome(t, token[t], "completed")
  BY <1>1, CurrentEffect DEF CommitComplete, AttemptStatus
<1>3. /\ status' = [status EXCEPT ![t] = "completed"]
      /\ reason' = [reason EXCEPT ![t] = "none"]
      /\ heavyKey' = [heavyKey EXCEPT ![t] = FALSE]
      /\ everDone' = everDone \union {t}
      /\ UNCHANGED <<blockedBy, token, lapsed, down>>
  BY <1>1 DEF CommitComplete
<1>4. RowOK'
  BY <1>2, <1>3 DEF CoreInv, RowOK, OnlyOutcome, TaskStatus
<1>5. /\ ~Active(t)' /\ token'[t] = token[t]
      /\ \A u \in Task \ {t} : token'[u] = token[u] /\ (Active(u)' => Active(u))
  BY <1>3 DEF CoreInv, RowOK, Active, ActiveStatus
<1>6. "completed" \in AttemptStatus \ AttemptOpen
  BY DEF AttemptStatus, AttemptOpen
<1> QED
  BY <1>2, <1>4, <1>5, <1>6, HolderEnds DEF CoreInv

LEMMA FailRowOK ==
  ASSUME CoreInv, NEW h \in Slot, CommitFail(h), LeaseCurrent(h)
  PROVE  RowOK' /\ HolderOK'
<1>1. PICK t \in Task : t = req[h].task
  BY DEF CoreInv, ReqOK, RequestOK, CommitFail
<1>2. OnlyOutcome(t, token[t], "failed")
  BY <1>1, CurrentEffect DEF CommitFail, AttemptStatus
<1>3. req[h].next \in {"queued", "needs_teacher", "failed"}
  BY DEF CoreInv, ReqOK, RequestOK, CommitFail
<1>4. /\ status' = [status EXCEPT ![t] = req[h].next]
      /\ reason' = [reason EXCEPT ![t] = "other"]
      /\ heavyKey' = [heavyKey EXCEPT ![t] = FALSE]
      /\ token' = [token EXCEPT ![t] = IF req[h].next = "queued" THEN 0 ELSE token[t]]
      /\ lapsed' = [lapsed EXCEPT ![t] =
                      IF req[h].next = "queued" THEN FALSE ELSE lapsed[t]]
      /\ UNCHANGED <<blockedBy, down, everDone>>
  BY <1>1 DEF CommitFail
<1>5. RowOK'
  <2>1. token' \in [Task -> Nat] /\ lapsed' \in [Task -> BOOLEAN]
    BY <1>4 DEF CoreInv, RowOK
  <2>2. status' \in [Task -> TaskStatus]
    BY <1>3, <1>4 DEF CoreInv, RowOK, TaskStatus, BrokenStatus
  <2> QED
    BY <1>2, <1>4, <2>1, <2>2 DEF CoreInv, RowOK, OnlyOutcome
<1>6. /\ ~Active(t)' /\ token'[t] \in {0, token[t]}
      /\ \A u \in Task \ {t} : token'[u] = token[u] /\ (Active(u)' => Active(u))
  BY <1>3, <1>4 DEF CoreInv, RowOK, Active, ActiveStatus
<1>7. "failed" \in AttemptStatus \ AttemptOpen
  BY DEF AttemptStatus, AttemptOpen
<1> QED
  BY <1>2, <1>5, <1>6, <1>7, HolderEnds DEF CoreInv

LEMMA RecoverEffect ==
  ASSUME CoreInv, NEW p \in Slot, NEW t \in Task, Recover(p, t)
  PROVE  Active(t) /\ OnlyOutcome(t, token[t], "expired")
<1>1. /\ Active(t)
      /\ token[t] \in 1..Len(attempts[t])
      /\ attempts[t][token[t]].st \in AttemptOpen
  BY ActiveAttempt DEF CoreInv, Recover, Expired
<1>2. attempts' = [attempts EXCEPT ![t][token[t]].st = "expired"]
  BY <1>1 DEF Recover
<1> QED
  BY <1>1, <1>2, Outcome DEF CoreInv, AttemptStatus

LEMMA RecoverRowOK ==
  ASSUME CoreInv, NEW p \in Slot, NEW t \in Task, Recover(p, t)
  PROVE  RowOK' /\ HolderOK'
<1>1. OnlyOutcome(t, token[t], "expired")
  BY RecoverEffect
<1>2. /\ status' = [status EXCEPT ![t] = IF AttemptCount(t) < MaxAttempts
                                         THEN "queued" ELSE "needs_teacher"]
      /\ reason' = [reason EXCEPT ![t] = "other"]
      /\ token' = [token EXCEPT ![t] = 0]
      /\ lapsed' = [lapsed EXCEPT ![t] = FALSE]
      /\ heavyKey' = [heavyKey EXCEPT ![t] = FALSE]
      /\ UNCHANGED <<blockedBy, down, everDone>>
  BY DEF Recover
<1>3. RowOK'
  BY <1>1, <1>2 DEF CoreInv, RowOK, OnlyOutcome, TaskStatus, BrokenStatus
<1>4. /\ ~Active(t)' /\ token'[t] = 0
      /\ \A u \in Task \ {t} : token'[u] = token[u] /\ (Active(u)' => Active(u))
  BY <1>2 DEF CoreInv, RowOK, Active, ActiveStatus
<1>5. "expired" \in AttemptStatus \ AttemptOpen
  BY DEF AttemptStatus, AttemptOpen
<1> QED
  BY <1>1, <1>3, <1>4, <1>5, HolderEnds DEF CoreInv

LEMMA DependentRowOK ==
  ASSUME CoreInv, NEW h \in Slot, SettleDependent(h) \/ MarkDependents(h)
  PROVE  RowOK' /\ HolderOK'
<1>1. CASE SettleDependent(h)
  <2>1. PICK t \in Task : t = req[h].task
    BY <1>1 DEF CoreInv, ReqOK, RequestOK, SettleDependent
  <2>2. /\ req[h].next \in {"queued", "needs_teacher", "blocked"}
        /\ req[h].blockers \in Nat
    BY <1>1 DEF CoreInv, ReqOK, RequestOK, Request, SettleDependent
  <2>3. RowOK'
    <3>1. CASE status[t] = "blocked"
      <4>1. status' \in [Task -> TaskStatus]
        <5>1. status' = [status EXCEPT ![t] = req[h].next]
          BY <1>1, <2>1, <3>1 DEF SettleDependent
        <5>2. req[h].next \in TaskStatus /\ status \in [Task -> TaskStatus]
          BY <2>2 DEF CoreInv, RowOK, TaskStatus, BrokenStatus
        <5> QED
          BY <5>1, <5>2
      <4>2. reason' \in [Task -> {"none", "paused", "other"}]
        BY <1>1, <2>1, <3>1 DEF SettleDependent, CoreInv, RowOK
      <4>3. blockedBy' \in [Task -> Nat]
        <5> DEFINE count == IF req[h].next = "needs_teacher" THEN blockedBy[t]
                            ELSE req[h].blockers
        <5>1. blockedBy' = [blockedBy EXCEPT ![t] = count]
          BY <1>1, <2>1, <3>1 DEF SettleDependent
        <5>2. count \in Nat
          BY <2>2 DEF CoreInv, RowOK
        <5> QED
          BY <5>1, <5>2 DEF CoreInv, RowOK
      <4> QED
        BY <1>1, <4>1, <4>2, <4>3 DEF SettleDependent, CoreInv, RowOK
    <3>2. CASE status[t] # "blocked"
      BY <1>1, <2>1, <3>2 DEF SettleDependent, CoreInv, RowOK
    <3> QED
      BY <3>1, <3>2
  <2>4. \A u \in Task : Active(u)' => Active(u)
    BY <1>1, <2>1, <2>2 DEF SettleDependent, CoreInv, RowOK, Active, ActiveStatus
  <2>5. token' = token /\ attempts' = attempts
    BY <1>1 DEF SettleDependent
  <2> QED
    BY <2>3, <2>4, <2>5, HolderQuiet DEF CoreInv
<1>2. CASE MarkDependents(h)
  <2>1. RowOK'
    BY <1>2 DEF MarkDependents, CoreInv, RowOK, TaskStatus, BrokenStatus
  <2>2. \A u \in Task : Active(u)' => Active(u)
    BY <1>2 DEF MarkDependents, Active, ActiveStatus
  <2>3. token' = token /\ attempts' = attempts
    BY <1>2 DEF MarkDependents
  <2> QED
    BY <2>1, <2>2, <2>3, HolderQuiet DEF CoreInv
<1> QED
  BY <1>1, <1>2

(* A step that writes no row.                                              *)
Quiet == UNCHANGED <<status, reason, blockedBy, token, heavyKey, attempts, everDone>>

LEMMA QuietRowOK ==
  ASSUME CoreInv, Quiet, lapsed' \in [Task -> BOOLEAN], down' \subseteq Connector
  PROVE  RowOK' /\ HolderOK'
<1>1. \A u \in Task : Active(u)' => Active(u)
  BY DEF Quiet, Active
<1> QED
  BY <1>1, HolderQuiet DEF CoreInv, Quiet, RowOK

(* Every step either writes no row or is one of ten writes.                *)
RowWrite(h) ==
  \/ InsertTask(h) \/ WritePause(h) \/ WriteResume(h)
  \/ WriteCancel(h)
  \/ CommitHeartbeat(h) /\ LeaseCurrent(h)
  \/ CommitComplete(h) /\ LeaseCurrent(h)
  \/ CommitFail(h) /\ LeaseCurrent(h)
  \/ SettleDependent(h) \/ MarkDependents(h)
  \/ \E t \in Task : Recover(h, t)

LEMMA StepKinds ==
  ASSUME CoreInv, [Next]_vars
  PROVE  \/ Quiet /\ lapsed' \in [Task -> BOOLEAN] /\ down' \subseteq Connector
         \/ \E h \in Slot : RowWrite(h)
         \/ \E c \in Connector, t \in Task : Claim(c, t)
<1> DEFINE Still == Quiet /\ lapsed' \in [Task -> BOOLEAN] /\ down' \subseteq Connector
<1> USE DEF CoreInv, RowOK
<1>1. ASSUME NEW h \in Slot, HandlerStep(h)
      PROVE  Still \/ RowWrite(h)
  <2>1. CASE CountBlockers(h) \/ ScanDependents(h) \/ \E t \in Task : ReadDependent(h, t)
    BY <2>1 DEF CountBlockers, ScanDependents, ReadDependent, row, Quiet
  <2>2. CASE CommitHeartbeat(h) /\ ~LeaseCurrent(h)
    BY <2>2 DEF CommitHeartbeat, Quiet
  <2>3. CASE CommitComplete(h) /\ ~LeaseCurrent(h)
    BY <2>3 DEF CommitComplete, Quiet
  <2>4. CASE CommitFail(h) /\ ~LeaseCurrent(h)
    BY <2>4 DEF CommitFail, Quiet
  <2> QED
    BY <1>1, <2>1, <2>2, <2>3, <2>4 DEF HandlerStep, RowWrite
<1>2. ASSUME NEW h \in Handler, NEW t \in Task, TeacherRequest(h, t)
      PROVE  Still
  BY <1>2 DEF TeacherRequest, BeginCreate, BeginPause, BeginResume, BeginCancel, row, Quiet
<1>3. ASSUME NEW h \in Handler, NEW t \in Task, WorkerRequest(h, t)
      PROVE  Still
  BY <1>3 DEF WorkerRequest, BeginHeartbeat, BeginComplete, BeginFail, row, Quiet
<1>4. ASSUME NEW p \in Poller, ReconcilePass(p)
      PROVE  Still
  BY <1>4 DEF ReconcilePass, row, Quiet
<1>5. ASSUME NEW p \in Poller, NEW t \in Task, Recover(p, t)
      PROVE  p \in Slot /\ RowWrite(p)
  BY <1>5 DEF RowWrite, Slot
<1>6. ASSUME NEW t \in Task, Lapse(t)
      PROVE  Still
  BY <1>6 DEF Lapse, Quiet
<1>7. ASSUME NEW c \in Connector, StopConnector(c)
      PROVE  Still
  BY <1>7 DEF StopConnector, row, Quiet
<1>8. CASE Restart \/ UNCHANGED vars
  BY <1>8 DEF Restart, vars, row, Quiet
<1> QED
  BY <1>1, <1>2, <1>3, <1>4, <1>5, <1>6, <1>7, <1>8 DEF Next

LEMMA InitCore == Init => CoreInv
<1> SUFFICES ASSUME Init
             PROVE  CoreInv
  OBVIOUS
<1>1. \A t \in Task : IsFiniteSet(Deps[t]) /\ Cardinality(Deps[t]) \in Nat
  BY ConstantsAssumption, FS_Subset, FS_CardinalityType
<1>2. <<>> \in Seq(Attempt) /\ Len(<<>>) = 0
  BY EmptySeq
<1>3. RowOK
  BY <1>1, <1>2 DEF Init, RowOK, TaskStatus
<1>4. ReqOK
  BY IdleOK DEF Init, ReqOK, RequestOK
<1>5. HolderOK
  BY <1>2, ConstantsAssumption DEF Init, HolderOK, HolderAt, Active, ActiveStatus
<1> QED
  BY <1>3, <1>4, <1>5 DEF CoreInv

LEMMA NextCore ==
  ASSUME CoreInv, [Next]_vars
  PROVE  CoreInv'
<1>1. ReqOK'
  BY NextReqOK DEF CoreInv
<1>2. ASSUME NEW h \in Slot, RowWrite(h)
      PROVE  RowOK' /\ HolderOK'
  BY <1>2, TeacherRowOK, CancelRowOK, HeartbeatRowOK, CompleteRowOK, FailRowOK,
     DependentRowOK, RecoverRowOK DEF RowWrite
<1> QED
  BY <1>1, <1>2, StepKinds, QuietRowOK, ClaimRowOK DEF CoreInv

THEOREM CoreInvariant == Spec => []CoreInv
BY InitCore, NextCore, PTL DEF Spec

(* Type correctness.                                                       *)
THEOREM TypeCorrect == Spec => []TypeOK
<1>1. CoreInv => TypeOK
  BY DEF CoreInv, RowOK, ReqOK, TypeOK
<1> QED
  BY <1>1, CoreInvariant, PTL

(* At most one attempt of a task is in progress, the last one granted, and *)
(* the row carries its token.                                              *)
THEOREM Fencing == Spec => []OneOpenAttempt
<1>1. CoreInv => OneOpenAttempt
  <2> SUFFICES ASSUME CoreInv, NEW t \in Task, NEW n \in DOMAIN attempts[t],
                      attempts[t][n].st \in AttemptOpen
               PROVE  n = token[t] /\ n = AttemptCount(t)
    BY DEF OneOpenAttempt
  <2>1. DOMAIN attempts[t] = 1..Len(attempts[t])
    BY LenProperties DEF CoreInv, RowOK
  <2> QED
    BY <2>1 DEF CoreInv, HolderOK, HolderAt, AttemptCount
<1> QED
  BY <1>1, CoreInvariant, PTL

----------------------------------------------------------------------------
(* What a step may do to the attempts and the heavy keys: nothing but      *)
(* clear a key nobody needs, renew the last attempt, end it, or grant one. *)

OpenLast(t) ==
  /\ Len(attempts[t]) \in 1..Len(attempts[t])
  /\ attempts[t][Len(attempts[t])].st \in AttemptOpen

Kept ==
  /\ attempts' = attempts
  /\ \A t \in Task : heavyKey'[t] = heavyKey[t] \/ (~heavyKey'[t] /\ ~OpenLast(t))

Renewed(t) ==
  /\ OpenLast(t)
  /\ OnlyOutcome(t, Len(attempts[t]), "running")
  /\ heavyKey' = heavyKey

Ended(t, st) ==
  /\ OpenLast(t)
  /\ OnlyOutcome(t, Len(attempts[t]), st)
  /\ heavyKey' = [heavyKey EXCEPT ![t] = FALSE]

LEMMA OpenIsLast ==
  ASSUME CoreInv, NEW t \in Task
  PROVE  /\ HasOpenAttempt(t) <=> OpenLast(t)
         /\ OpenLast(t) => token[t] = Len(attempts[t])
         /\ Active(t) => OpenLast(t)
         /\ DOMAIN attempts[t] = 1..Len(attempts[t]) /\ Len(attempts[t]) \in Nat
<1>1. DOMAIN attempts[t] = 1..Len(attempts[t]) /\ Len(attempts[t]) \in Nat
  BY LenProperties DEF CoreInv, RowOK
<1>2. HasOpenAttempt(t) <=> OpenLast(t)
  BY <1>1 DEF CoreInv, HolderOK, HolderAt, HasOpenAttempt, OpenLast
<1>3. OpenLast(t) => token[t] = Len(attempts[t])
  BY <1>1 DEF CoreInv, HolderOK, HolderAt, OpenLast
<1>4. Active(t) => OpenLast(t)
  BY <1>1, <1>2, ActiveAttempt DEF CoreInv, HasOpenAttempt
<1> QED
  BY <1>1, <1>2, <1>3, <1>4

LEMMA CancelStep ==
  ASSUME CoreInv, NEW h \in Slot, WriteCancel(h)
  PROVE  Kept \/ \E t \in Task : Ended(t, "cancelled")
<1>1. PICK t \in Task : t = req[h].task
  BY DEF CoreInv, ReqOK, RequestOK, WriteCancel
<1> DEFINE N == Len(attempts[t])
<1>2. DOMAIN attempts[t] = 1..N /\ N \in Nat /\ attempts[t] \in Seq(Attempt)
  BY OpenIsLast DEF CoreInv, RowOK
<1>3. attempts' = [attempts EXCEPT ![t] =
                    [i \in 1..N |-> IF attempts[t][i].st \in AttemptOpen
                                   THEN [attempts[t][i] EXCEPT !.st = "cancelled"]
                                   ELSE attempts[t][i]]]
  BY <1>1, <1>2 DEF WriteCancel
<1>4. heavyKey' = [heavyKey EXCEPT ![t] = FALSE]
  BY <1>1 DEF WriteCancel
<1>5. ASSUME NEW i \in 1..N, attempts[t][i].st \in AttemptOpen
      PROVE  i = N
  BY <1>5 DEF CoreInv, HolderOK, HolderAt
<1>6. CASE OpenLast(t)
  <2>1. N \in 1..N /\ attempts[t][N].st \in AttemptOpen
    BY <1>6 DEF OpenLast
  <2>2. attempts[t][N] \in Attempt
    BY <1>2, <2>1, ElementOfSeq
  <2>3. [attempts[t][N] EXCEPT !.st = "cancelled"]
          = [by |-> attempts[t][N].by, st |-> "cancelled"]
    BY <2>2 DEF Attempt
  <2> DEFINE new == [i \in 1..N |-> IF i = N THEN [by |-> attempts[t][N].by, st |-> "cancelled"]
                                   ELSE attempts[t][i]]
  <2>4. attempts' = [attempts EXCEPT ![t] = new]
    BY <1>3, <1>5, <2>1, <2>3
  <2>5. attempts' \in [Task -> Seq(Attempt)]
    BY CancelRowOK DEF RowOK
  <2>6. attempts'[t] = new
    BY <2>4 DEF CoreInv, RowOK
  <2>7. Len(attempts'[t]) = N
    BY <1>2, <2>5, <2>6, LenProperties
  <2>8. \A u \in Task \ {t} : attempts'[u] = attempts[u]
    BY <2>4 DEF CoreInv, RowOK
  <2>9. OnlyOutcome(t, N, "cancelled")
    BY <2>5, <2>6, <2>7, <2>8 DEF OnlyOutcome
  <2> QED
    BY <1>4, <1>6, <2>9 DEF Ended
<1>7. CASE ~OpenLast(t)
  <2>1. \A i \in 1..N : attempts[t][i].st \notin AttemptOpen
    BY <1>2, <1>5, <1>7 DEF OpenLast
  <2>2. attempts[t] = [i \in 1..N |-> attempts[t][i]]
    BY <1>2, LenProperties
  <2>3. attempts' = [attempts EXCEPT ![t] = attempts[t]]
    BY <1>3, <2>1, <2>2
  <2>4. attempts' = attempts
    BY <2>3 DEF CoreInv, RowOK
  <2> QED
    BY <1>4, <1>7, <2>4 DEF Kept, CoreInv, RowOK
<1> QED
  BY <1>6, <1>7

LEMMA LeaseStep ==
  ASSUME CoreInv, [Next]_vars
  PROVE  \/ Kept
         \/ \E t \in Task : Renewed(t)
         \/ \E t \in Task, st \in AttemptStatus \ AttemptOpen : Ended(t, st)
         \/ \E c \in Connector, t \in Task : Claim(c, t)
<1>1. ASSUME UNCHANGED <<attempts, heavyKey>>
      PROVE  Kept
  BY <1>1 DEF Kept
<1>2. ASSUME NEW h \in Slot, CommitHeartbeat(h), LeaseCurrent(h)
      PROVE  \E t \in Task : Renewed(t)
  <2>1. /\ req[h].task \in Task /\ Active(req[h].task)
        /\ OnlyOutcome(req[h].task, token[req[h].task], "running")
    BY <1>2, CurrentEffect DEF CommitHeartbeat, AttemptStatus, AttemptOpen
  <2> QED
    BY <1>2, <2>1, OpenIsLast DEF CommitHeartbeat, Renewed
<1>3. ASSUME NEW h \in Slot, CommitComplete(h), LeaseCurrent(h)
      PROVE  \E t \in Task : Ended(t, "completed")
  <2>1. /\ req[h].task \in Task /\ Active(req[h].task)
        /\ OnlyOutcome(req[h].task, token[req[h].task], "completed")
    BY <1>3, CurrentEffect DEF CommitComplete, AttemptStatus
  <2> QED
    BY <1>3, <2>1, OpenIsLast DEF CommitComplete, Ended
<1>4. ASSUME NEW h \in Slot, CommitFail(h), LeaseCurrent(h)
      PROVE  \E t \in Task : Ended(t, "failed")
  <2>1. /\ req[h].task \in Task /\ Active(req[h].task)
        /\ OnlyOutcome(req[h].task, token[req[h].task], "failed")
    BY <1>4, CurrentEffect DEF CommitFail, AttemptStatus
  <2> QED
    BY <1>4, <2>1, OpenIsLast DEF CommitFail, Ended
<1>5. ASSUME NEW p \in Slot, NEW t \in Task, Recover(p, t)
      PROVE  Ended(t, "expired")
  BY <1>5, RecoverEffect, OpenIsLast DEF Recover, Ended
<1>6. {"completed", "failed", "expired", "cancelled"} = AttemptStatus \ AttemptOpen
  BY DEF AttemptStatus, AttemptOpen
<1>7. ASSUME NEW h \in Slot,
             InsertTask(h) \/ WritePause(h) \/ WriteResume(h)
               \/ SettleDependent(h) \/ MarkDependents(h)
      PROVE  UNCHANGED <<attempts, heavyKey>>
  BY <1>7 DEF InsertTask, WritePause, WriteResume, SettleDependent, MarkDependents
<1>8. ASSUME NEW h \in Slot, RowWrite(h)
      PROVE  \/ Kept
             \/ \E t \in Task : Renewed(t)
             \/ \E t \in Task, st \in AttemptStatus \ AttemptOpen : Ended(t, st)
  BY <1>1, <1>2, <1>3, <1>4, <1>5, <1>6, <1>7, <1>8, CancelStep DEF RowWrite
<1> QED
  BY <1>1, <1>8, StepKinds DEF Quiet

(* No attempt that ended changes, and none disappears.                     *)
THEOREM HistoryKept == Spec => EndedAttemptsStay
<1> DEFINE Stay == \A t \in Task : \A n \in DOMAIN attempts[t] :
                     /\ n \in DOMAIN attempts'[t]
                     /\ attempts[t][n].st \notin AttemptOpen
                          => attempts'[t][n] = attempts[t][n]
<1>1. ASSUME CoreInv, CoreInv', [Next]_vars
      PROVE  Stay
  <2> SUFFICES ASSUME NEW u \in Task, NEW n \in 1..Len(attempts[u])
               PROVE  /\ n \in 1..Len(attempts'[u])
                      /\ attempts[u][n].st \notin AttemptOpen
                           => attempts'[u][n] = attempts[u][n]
    <3>1. \A t \in Task : /\ DOMAIN attempts[t] = 1..Len(attempts[t])
                          /\ DOMAIN attempts'[t] = 1..Len(attempts'[t])
      BY <1>1, LenProperties DEF CoreInv, RowOK
    <3> QED
      BY <3>1
  <2>1. CASE Kept
    BY <2>1 DEF Kept
  <2>2. ASSUME NEW t \in Task, NEW st, OpenLast(t), OnlyOutcome(t, Len(attempts[t]), st)
        PROVE  /\ n \in 1..Len(attempts'[u])
               /\ attempts[u][n].st \notin AttemptOpen
                    => attempts'[u][n] = attempts[u][n]
    BY <2>2 DEF OnlyOutcome, OpenLast
  <2>3. ASSUME NEW c \in Connector, NEW t \in Task, Claim(c, t)
        PROVE  /\ n \in 1..Len(attempts'[u])
               /\ attempts[u][n].st \notin AttemptOpen
                    => attempts'[u][n] = attempts[u][n]
    <3>1. /\ Len(attempts'[t]) = Len(attempts[t]) + 1 /\ Len(attempts[t]) \in Nat
          /\ \A i \in 1..Len(attempts[t]) : attempts'[t][i] = attempts[t][i]
          /\ u # t => attempts'[u] = attempts[u]
      BY <1>1, <2>3, ClaimEffect DEF CoreInv
    <3>2. CASE u = t
      BY <3>1, <3>2
    <3>3. CASE u # t
      BY <3>1, <3>3
    <3> QED
      BY <3>2, <3>3
  <2> QED
    BY <1>1, <2>1, <2>2, <2>3, LeaseStep DEF Renewed, Ended
<1> QED
  BY <1>1, CoreInvariant, PTL DEF Spec, EndedAttemptsStay

----------------------------------------------------------------------------
(* The heavy keys: a heavy task carries its student's key just as long as  *)
(* an attempt of it is in progress, which the row's status does not tell   *)
(* once a pause has overwritten it.                                        *)

KeyInv ==
  /\ \A t \in Task : heavyKey[t] <=> t \in Heavy /\ OpenLast(t)
  /\ \A t, u \in Task :
       heavyKey[t] /\ heavyKey[u] /\ StudentOf[t] = StudentOf[u] => t = u

LEMMA InitKey == Init => KeyInv
<1> SUFFICES ASSUME Init
             PROVE  KeyInv
  OBVIOUS
<1>1. \A t \in Task : Len(attempts[t]) = 0 /\ ~heavyKey[t]
  BY EmptySeq DEF Init
<1> QED
  BY <1>1 DEF KeyInv, OpenLast

(* How a step of each kind moves the open attempts.                        *)
LEMMA RenewedOpen ==
  ASSUME CoreInv, NEW t \in Task, Renewed(t), NEW u \in Task
  PROVE  OpenLast(u)' <=> OpenLast(u)
<1>1. Len(attempts[u]) \in Nat /\ Len(attempts[t]) \in Nat
  BY OpenIsLast
<1>2. Len(attempts'[u]) = Len(attempts[u])
  BY DEF Renewed, OnlyOutcome
<1>3. ASSUME NEW i \in 1..Len(attempts[u])
      PROVE  attempts'[u][i] = IF u = t /\ i = Len(attempts[t])
                               THEN [by |-> attempts[u][i].by, st |-> "running"]
                               ELSE attempts[u][i]
  BY DEF Renewed, OnlyOutcome
<1>4. CASE u = t
  <2>1. Len(attempts[t]) \in 1..Len(attempts[t]) /\ OpenLast(t)
    BY DEF OpenLast, Renewed
  <2>2. attempts'[t][Len(attempts[t])]
          = [by |-> attempts[t][Len(attempts[t])].by, st |-> "running"]
    BY <2>1 DEF Renewed, OnlyOutcome
  <2>3. attempts'[t][Len(attempts[t])].st = "running"
    BY <2>2
  <2> QED
    BY <1>2, <1>4, <2>1, <2>3 DEF OpenLast, AttemptOpen
<1>5. CASE u # t
  BY <1>1, <1>2, <1>3, <1>5 DEF OpenLast
<1> QED
  BY <1>4, <1>5

LEMMA EndedOpen ==
  ASSUME CoreInv, NEW t \in Task, NEW st \in AttemptStatus \ AttemptOpen,
         Ended(t, st), NEW u \in Task
  PROVE  OpenLast(u)' <=> u # t /\ OpenLast(u)
<1>1. Len(attempts[u]) \in Nat /\ Len(attempts[t]) \in Nat
  BY OpenIsLast
<1>2. Len(attempts'[u]) = Len(attempts[u])
  BY DEF Ended, OnlyOutcome
<1>3. ASSUME NEW i \in 1..Len(attempts[u])
      PROVE  attempts'[u][i] = IF u = t /\ i = Len(attempts[t])
                               THEN [by |-> attempts[u][i].by, st |-> st]
                               ELSE attempts[u][i]
  BY DEF Ended, OnlyOutcome
<1>4. CASE u = t
  <2>1. Len(attempts[t]) \in 1..Len(attempts[t]) /\ OpenLast(t)
    BY DEF OpenLast, Ended
  <2>2. attempts'[t][Len(attempts[t])]
          = [by |-> attempts[t][Len(attempts[t])].by, st |-> st]
    BY <2>1 DEF Ended, OnlyOutcome
  <2>3. attempts'[t][Len(attempts[t])].st = st
    BY <2>2
  <2> QED
    BY <1>2, <1>4, <2>1, <2>3 DEF OpenLast, AttemptOpen
<1>5. CASE u # t
  BY <1>1, <1>2, <1>3, <1>5 DEF OpenLast
<1> QED
  BY <1>4, <1>5

LEMMA ClaimOpen ==
  ASSUME CoreInv, NEW c \in Connector, NEW t \in Task, Claim(c, t), NEW u \in Task
  PROVE  /\ ~OpenLast(t)
         /\ OpenLast(u)' <=> u = t \/ OpenLast(u)
<1>1. /\ Len(attempts'[t]) = Len(attempts[t]) + 1 /\ Len(attempts[t]) \in Nat
      /\ attempts'[t][Len(attempts[t]) + 1] = [by |-> c, st |-> "leased"]
      /\ u # t => attempts'[u] = attempts[u]
  BY ClaimEffect DEF CoreInv
<1>2. ~OpenLast(t)
  <2>1. token[t] = 0
    BY DEF Claim, Claimable
  <2>2. OpenLast(t) => token[t] = Len(attempts[t]) /\ Len(attempts[t]) # 0
    BY OpenIsLast DEF OpenLast
  <2> QED
    BY <2>1, <2>2
<1>3. OpenLast(t)'
  BY <1>1 DEF OpenLast, AttemptOpen
<1>4. u # t => (OpenLast(u)' <=> OpenLast(u))
  BY <1>1 DEF OpenLast
<1> QED
  BY <1>2, <1>3, <1>4

LEMMA NextKey ==
  ASSUME CoreInv, KeyInv, [Next]_vars
  PROVE  KeyInv'
<1>1. CASE Kept
  <2>1. \A t \in Task : OpenLast(t)' <=> OpenLast(t)
    BY <1>1 DEF Kept, OpenLast
  <2>2. \A t \in Task : heavyKey'[t] <=> heavyKey[t]
    BY <1>1 DEF Kept, KeyInv
  <2> QED
    BY <2>1, <2>2 DEF KeyInv
<1>2. ASSUME NEW t \in Task, Renewed(t)
      PROVE  KeyInv'
  <2>1. heavyKey' = heavyKey
    BY <1>2 DEF Renewed
  <2> QED
    BY <1>2, <2>1, RenewedOpen DEF KeyInv
<1>3. ASSUME NEW t \in Task, NEW st \in AttemptStatus \ AttemptOpen, Ended(t, st)
      PROVE  KeyInv'
  <2>1. \A u \in Task : heavyKey'[u] <=> u # t /\ heavyKey[u]
    BY <1>3 DEF Ended, CoreInv, RowOK
  <2> QED
    BY <1>3, <2>1, EndedOpen DEF KeyInv
<1>4. ASSUME NEW c \in Connector, NEW t \in Task, Claim(c, t)
      PROVE  KeyInv'
  <2>1. \A u \in Task : heavyKey'[u] <=> IF u = t THEN t \in Heavy ELSE heavyKey[u]
    BY <1>4 DEF Claim, CoreInv, RowOK
  <2>2. t \in Heavy => \A u \in Task : heavyKey[u] => StudentOf[u] # StudentOf[t]
    BY <1>4 DEF Claim, HasRoom, KeyFree
  <2>3. \A u \in Task : heavyKey'[u] <=> u \in Heavy /\ OpenLast(u)'
    BY <1>4, <2>1, ClaimOpen DEF KeyInv
  <2> QED
    BY <2>1, <2>2, <2>3 DEF KeyInv
<1> QED
  BY <1>1, <1>2, <1>3, <1>4, LeaseStep

THEOREM KeyInvariant == Spec => [](CoreInv /\ KeyInv)
<1>1. Init => CoreInv /\ KeyInv
  BY InitCore, InitKey
<1>2. CoreInv /\ KeyInv /\ [Next]_vars => (CoreInv /\ KeyInv)'
  BY NextCore, NextKey
<1> QED
  BY <1>1, <1>2, PTL DEF Spec

(* A student's heavy tasks have attempts in progress one at a time.        *)
THEOREM HeavyOneAtATime == Spec => []HeavyExclusive
<1>1. CoreInv /\ KeyInv => HeavyExclusive
  BY OpenIsLast, ConstantsAssumption DEF KeyInv, HeavyExclusive
<1> QED
  BY <1>1, KeyInvariant, PTL

----------------------------------------------------------------------------
(* Refinement of the abstract lease.                                       *)

(* The abstract state, in terms of the attempts alone.                     *)
Abstraction ==
  /\ Holder = [t \in Task |-> IF OpenLast(t) THEN Len(attempts[t]) ELSE 0]
  /\ Granted = [t \in Task |-> Len(attempts[t])]
  /\ Accepted = [t \in Task |->
       {n \in 1..Len(attempts[t]) : attempts[t][n].st = "completed"}]

LEMMA AbstractState == CoreInv => Abstraction
<1> SUFFICES ASSUME CoreInv
             PROVE  Abstraction
  OBVIOUS
<1>1. \A t \in Task :
        Holder[t] = IF OpenLast(t) THEN Len(attempts[t]) ELSE 0
  BY OpenIsLast DEF Holder
<1>2. Holder = [t \in Task |-> IF OpenLast(t) THEN Len(attempts[t]) ELSE 0]
  BY <1>1 DEF Holder
<1>3. \A t \in Task :
        {n \in DOMAIN attempts[t] : attempts[t][n].st = "completed"}
          = {n \in 1..Len(attempts[t]) : attempts[t][n].st = "completed"}
  BY OpenIsLast
<1> QED
  BY <1>2, <1>3 DEF Abstraction, Granted, Accepted, AttemptCount

LEMMA AbstractStateNext == CoreInv' => Abstraction'
BY AbstractState, PTL

LEMMA RenewedStutters ==
  ASSUME CoreInv, Abstraction, Abstraction', NEW t \in Task, Renewed(t)
  PROVE  UNCHANGED Lease!avars
<1>1. \A u \in Task : Len(attempts'[u]) = Len(attempts[u])
  BY DEF Renewed, OnlyOutcome
<1>2. Holder' = Holder /\ Granted' = Granted
  BY <1>1, RenewedOpen DEF Abstraction
<1>3. ASSUME NEW u \in Task, NEW i \in 1..Len(attempts[u])
      PROVE  attempts'[u][i].st = "completed" <=> attempts[u][i].st = "completed"
  <2>1. attempts'[u][i] = IF u = t /\ i = Len(attempts[t])
                          THEN [by |-> attempts[u][i].by, st |-> "running"]
                          ELSE attempts[u][i]
    BY DEF Renewed, OnlyOutcome
  <2>2. attempts[t][Len(attempts[t])].st # "completed"
    BY DEF Renewed, OpenLast, AttemptOpen
  <2> QED
    BY <2>1, <2>2
<1>4. \A u \in Task :
        {n \in 1..Len(attempts'[u]) : attempts'[u][n].st = "completed"}
          = {n \in 1..Len(attempts[u]) : attempts[u][n].st = "completed"}
  BY <1>1, <1>3
<1>5. Accepted' = Accepted
  BY <1>4 DEF Abstraction
<1> QED
  BY <1>2, <1>5 DEF Lease!avars

LEMMA EndedReleases ==
  ASSUME CoreInv, Abstraction, Abstraction', NEW t \in Task,
         NEW st \in AttemptStatus \ AttemptOpen, Ended(t, st)
  PROVE  Lease!Accept(t) \/ Lease!Release(t)
<1> DEFINE N == Len(attempts[t])
           Won(u) == {n \in 1..Len(attempts[u]) : attempts[u][n].st = "completed"}
           WonNext(u) == {n \in 1..Len(attempts'[u]) : attempts'[u][n].st = "completed"}
<1>1. N \in 1..N /\ OpenLast(t) /\ attempts[t][N].st # "completed"
  BY DEF Ended, OpenLast, AttemptOpen
<1>2. \A u \in Task : Len(attempts'[u]) = Len(attempts[u])
  BY DEF Ended, OnlyOutcome
<1>3. Granted' = Granted
  BY <1>2 DEF Abstraction
<1>4. \A u \in Task : OpenLast(u)' <=> u # t /\ OpenLast(u)
  BY EndedOpen
<1>5. Holder' = [Holder EXCEPT ![t] = 0]
  BY <1>2, <1>4 DEF Abstraction
<1>6. Holder[t] = N /\ N # 0
  BY <1>1 DEF Abstraction
<1>7. ASSUME NEW u \in Task, NEW i \in 1..Len(attempts[u])
      PROVE  attempts'[u][i].st = IF u = t /\ i = N THEN st ELSE attempts[u][i].st
  <2>1. attempts'[u][i] = IF u = t /\ i = N
                          THEN [by |-> attempts[u][i].by, st |-> st]
                          ELSE attempts[u][i]
    BY DEF Ended, OnlyOutcome
  <2> QED
    BY <2>1
<1>8. \A u \in Task : u # t => WonNext(u) = Won(u)
  BY <1>2, <1>7
<1>9. CASE st = "completed"
  <2>1. WonNext(t) = Won(t) \union {N}
    BY <1>1, <1>2, <1>7, <1>9
  <2>2. Accepted = [u \in Task |-> Won(u)] /\ Accepted' = [u \in Task |-> WonNext(u)]
    BY DEF Abstraction
  <2> HIDE DEF Won, WonNext
  <2>3. Accepted' = [Accepted EXCEPT ![t] = @ \union {Holder[t]}]
    BY <1>6, <1>8, <2>1, <2>2
  <2> QED
    BY <1>3, <1>5, <1>6, <2>3 DEF Lease!Accept
<1>10. CASE st # "completed"
  <2>1. WonNext(t) = Won(t)
    BY <1>1, <1>2, <1>7, <1>10
  <2>2. Accepted' = Accepted
    BY <1>8, <2>1 DEF Abstraction
  <2> QED
    BY <1>3, <1>5, <1>6, <2>2 DEF Lease!Release
<1> QED
  BY <1>9, <1>10

LEMMA ClaimGrants ==
  ASSUME CoreInv, KeyInv, Abstraction, Abstraction',
         NEW c \in Connector, NEW t \in Task, Claim(c, t)
  PROVE  Lease!Grant(t)
<1> DEFINE N == Len(attempts[t])
           Won(u) == {n \in 1..Len(attempts[u]) : attempts[u][n].st = "completed"}
           WonNext(u) == {n \in 1..Len(attempts'[u]) : attempts'[u][n].st = "completed"}
<1>1. /\ Len(attempts'[t]) = N + 1 /\ N \in Nat
      /\ attempts'[t][N + 1] = [by |-> c, st |-> "leased"]
      /\ \A i \in 1..N : attempts'[t][i] = attempts[t][i]
      /\ \A u \in Task \ {t} : attempts'[u] = attempts[u]
  BY ClaimEffect DEF CoreInv
<1>2. ~OpenLast(t) /\ \A u \in Task : OpenLast(u)' <=> u = t \/ OpenLast(u)
  BY ClaimOpen
<1>3. Holder[t] = 0
  BY <1>2 DEF Abstraction
<1>4. Granted' = [Granted EXCEPT ![t] = @ + 1]
  BY <1>1 DEF Abstraction
<1>5. Holder' = [Holder EXCEPT ![t] = Granted[t] + 1]
  BY <1>1, <1>2 DEF Abstraction
<1>6. WonNext(t) = Won(t)
  <2>1. ASSUME NEW n \in 1..(N + 1)
        PROVE  n \in WonNext(t) <=> n \in Won(t)
    <3>1. CASE n \in 1..N
      BY <1>1, <3>1
    <3>2. CASE n = N + 1
      BY <1>1, <3>2
    <3> QED
      BY <1>1, <3>1, <3>2
  <2> QED
    BY <1>1, <2>1
<1>7. Accepted' = Accepted
  BY <1>1, <1>6 DEF Abstraction
<1>8. t \in Heavy => \A u \in Heavy : StudentOf[u] = StudentOf[t] => Holder[u] = 0
  <2>1. t \in Heavy => \A u \in Task : heavyKey[u] => StudentOf[u] # StudentOf[t]
    BY DEF Claim, HasRoom, KeyFree
  <2>2. ASSUME NEW u \in Heavy, ~heavyKey[u]
        PROVE  Holder[u] = 0
    BY <2>2, ConstantsAssumption DEF KeyInv, Abstraction
  <2> QED
    BY <2>1, <2>2, ConstantsAssumption
<1> QED
  BY <1>3, <1>4, <1>5, <1>7, <1>8 DEF Lease!Grant

(* The control plane implements the fenced lease: each of its steps, races *)
(* included, is a step of the abstract specification or leaves it as it is. *)
THEOREM Refinement == Spec => ImplementsLease
<1>1. Init => Lease!Init
  <2> SUFFICES ASSUME Init
               PROVE  Lease!Init
    OBVIOUS
  <2>1. \A t \in Task : attempts[t] = <<>> /\ token[t] = 0
    BY DEF Init
  <2>2. Holder = [t \in Task |-> 0]
    BY <2>1 DEF Holder
  <2>3. Granted = [t \in Task |-> 0]
    BY <2>1, EmptySeq DEF Granted, AttemptCount
  <2>4. \A t \in Task : DOMAIN attempts[t] = {}
    BY <2>1
  <2>5. Accepted = [t \in Task |-> {}]
    BY <2>4 DEF Accepted
  <2> QED
    BY <2>2, <2>3, <2>5 DEF Lease!Init
<1>2. ASSUME CoreInv, KeyInv, CoreInv', [Next]_vars
      PROVE  [Lease!Next]_Lease!avars
  <2>1. Abstraction /\ Abstraction'
    BY <1>2, AbstractState, AbstractStateNext
  <2>2. CASE Kept
    BY <2>1, <2>2 DEF Kept, OpenLast, Abstraction, Lease!avars
  <2>3. ASSUME NEW t \in Task, Renewed(t)
        PROVE  UNCHANGED Lease!avars
    BY <1>2, <2>1, <2>3, RenewedStutters
  <2>4. ASSUME NEW t \in Task, NEW st \in AttemptStatus \ AttemptOpen, Ended(t, st)
        PROVE  Lease!Next
    BY <1>2, <2>1, <2>4, EndedReleases DEF Lease!Next
  <2>5. ASSUME NEW c \in Connector, NEW t \in Task, Claim(c, t)
        PROVE  Lease!Next
    BY <1>2, <2>1, <2>5, ClaimGrants DEF Lease!Next
  <2> QED
    BY <1>2, <2>2, <2>3, <2>4, <2>5, LeaseStep
<1> QED
  BY <1>1, <1>2, KeyInvariant, PTL DEF Spec, ImplementsLease, Lease!Spec

----------------------------------------------------------------------------
(* Dependencies, results and capacity. *)

(* What a request has read of a task's dependencies stays true, because no *)
(* task leaves everDone: if it counted no blocker, each is done for good.  *)
RequestGate(r) ==
  /\ r.op \in {"create", "unpause"} /\ r.blockers = 0 => Deps[r.task] \subseteq everDone
  /\ r.op = "settle" /\ r.next = "queued" =>
       r.blockers = 0 /\ Deps[r.task] \subseteq everDone

GateAt(t) ==
  /\ status[t] = "completed" => t \in everDone
  /\ status[t] = "queued" \/ attempts[t] # <<>> => Deps[t] \subseteq everDone
  /\ status[t] = "queued" \/ Active(t) => blockedBy[t] = 0

GateInv ==
  /\ \A h \in Slot : RequestGate(req[h])
  /\ \A t \in Task : GateAt(t)

LEMMA NothingIncomplete ==
  ASSUME GateInv, NEW t \in Task, Incomplete(t) = {}
  PROVE  Deps[t] \subseteq everDone
<1>1. Deps[t] \subseteq Task
  BY ConstantsAssumption
<1> QED
  BY <1>1 DEF GateInv, GateAt, Incomplete

LEMMA DoneGrows ==
  ASSUME CoreInv, [Next]_vars
  PROVE  everDone \subseteq everDone'
<1>1. ASSUME NEW h \in Slot, RowWrite(h)
      PROVE  everDone \subseteq everDone'
  BY <1>1 DEF RowWrite, InsertTask, WritePause, WriteResume, WriteCancel,
     CommitHeartbeat, CommitComplete, CommitFail, SettleDependent, MarkDependents, Recover
<1> QED
  BY <1>1, StepKinds DEF Quiet, Claim

(* A step leaves a request as it is, or takes it to a step that has read   *)
(* nothing of dependencies, or to one that has just read them.             *)
Read(r, t) ==
  /\ r.task = t
  /\ r.blockers = Cardinality(Incomplete(t))
  /\ r.op = "settle" /\ r.next = "queued" => Incomplete(t) = {}

Unread(r) == r.op \notin {"create", "unpause", "settle"}

Moves == \A h \in Slot : \/ req'[h] = req[h]
                          \/ Unread(req'[h])
                          \/ \E t \in Task : Read(req'[h], t)

LEMMA ReconcilingUnread ==
  ASSUME NEW todo
  PROVE  Unread(Reconciling(todo))
BY DEF Reconciling, Unread, Idle

LEMMA GotoMoves ==
  ASSUME CoreInv, NEW g \in Slot, NEW r, Goto(g, r),
         Unread(r) \/ \E t \in Task : Read(r, t)
  PROVE  Moves
BY DEF Goto, CoreInv, ReqOK, Moves

LEMMA RequestMoves ==
  ASSUME CoreInv, [Next]_vars
  PROVE  Moves
<1>0. ASSUME NEW g \in Slot, NEW r, Goto(g, r), Unread(r)
      PROVE  Moves
  BY <1>0, GotoMoves
<1>1. ASSUME NEW h \in Slot, NEW t \in Task, BeginCreate(h, t)
      PROVE  Moves
  <2> DEFINE r == [Idle EXCEPT !.op = "create", !.task = t,
                               !.blockers = Cardinality(Incomplete(t))]
  <2>1. Read(r, t)
    BY DEF Read, Idle
  <2> QED
    BY <1>1, <2>1, GotoMoves DEF BeginCreate
<1>2. ASSUME NEW h \in Slot, NEW t \in Task,
             BeginPause(h, t) \/ BeginResume(h, t) \/ BeginCancel(h, t) \/ WorkerRequest(h, t)
      PROVE  Moves
  BY <1>0, <1>2 DEF BeginPause, BeginResume, BeginCancel, WorkerRequest, BeginHeartbeat,
     BeginComplete, BeginFail, Unread, Idle
<1>3. ASSUME NEW h \in Slot, CountBlockers(h)
      PROVE  Moves
  <2> DEFINE r == [req[h] EXCEPT !.op = "unpause",
                                 !.blockers = Cardinality(Incomplete(req[h].task))]
  <2>1. req[h] \in Request /\ req[h].task \in Task
    BY <1>3 DEF CountBlockers, CoreInv, ReqOK, RequestOK
  <2>2. Read(r, req[h].task)
    BY <2>1 DEF Read, Request
  <2> QED
    BY <1>3, <2>1, <2>2, GotoMoves DEF CountBlockers
<1>4. ASSUME NEW h \in Slot, NEW t \in Task, ReadDependent(h, t)
      PROVE  Moves
  <2> DEFINE broken == \E d \in Deps[t] : status[d] \in BrokenStatus
             r == [op |-> "settle", task |-> t, n |-> 0,
                   next |-> IF broken THEN "needs_teacher"
                            ELSE IF Incomplete(t) = {} THEN "queued" ELSE "blocked",
                   blockers |-> Cardinality(Incomplete(t)), todo |-> req[h].todo \ {t}]
  <2>1. Goto(h, r) \/ Goto(h, Reconciling(req[h].todo \ {t}))
    BY <1>4 DEF ReadDependent
  <2>2. Read(r, t)
    BY DEF Read
  <2> QED
    BY <1>0, <2>1, <2>2, GotoMoves, ReconcilingUnread
<1>5. ASSUME NEW h \in Slot,
             \/ InsertTask(h) \/ WritePause(h) \/ WriteResume(h) \/ WriteCancel(h)
             \/ CommitHeartbeat(h) \/ CommitComplete(h) \/ CommitFail(h)
             \/ ScanDependents(h) \/ SettleDependent(h) \/ MarkDependents(h)
             \/ ReconcilePass(h) \/ \E t \in Task : Recover(h, t)
      PROVE  Moves
  BY <1>0, <1>5, ReconcilingUnread DEF InsertTask, WritePause, WriteResume, WriteCancel,
     CommitHeartbeat, CommitComplete, CommitFail, ScanDependents, SettleDependent,
     MarkDependents, ReconcilePass, Recover, Unread, Idle
<1>6. CASE UNCHANGED req
  BY <1>6 DEF Moves
<1>7. CASE Restart
  BY <1>7 DEF Restart, Unread, Idle, Moves
<1>8. CASE \E h \in Slot : HandlerStep(h)
  BY <1>3, <1>4, <1>5, <1>8 DEF HandlerStep
<1>9. CASE \E h \in Handler, t \in Task : TeacherRequest(h, t) \/ WorkerRequest(h, t)
  BY <1>1, <1>2, <1>9 DEF TeacherRequest, Slot
<1>10. CASE \E p \in Poller : ReconcilePass(p) \/ \E t \in Task : Recover(p, t)
  BY <1>5, <1>10 DEF Slot
<1>11. CASE \/ \E t \in Task : Lapse(t) \/ \E c \in Connector : Claim(c, t)
            \/ \E c \in Connector : StopConnector(c)
            \/ UNCHANGED vars
  BY <1>6, <1>11 DEF Lapse, Claim, StopConnector, vars
<1> QED
  BY <1>7, <1>8, <1>9, <1>10, <1>11 DEF Next

LEMMA NextRequestGate ==
  ASSUME CoreInv, GateInv, [Next]_vars, NEW h \in Slot
  PROVE  RequestGate(req[h])'
<1>1. everDone \subseteq everDone'
  BY DoneGrows
<1>2. CASE req'[h] = req[h]
  BY <1>1, <1>2 DEF GateInv, RequestGate
<1>3. CASE Unread(req'[h])
  BY <1>3 DEF Unread, RequestGate
<1>4. ASSUME NEW t \in Task, Read(req'[h], t)
      PROVE  RequestGate(req[h])'
  <2>1. Cardinality(Incomplete(t)) = 0 <=> Incomplete(t) = {}
    BY IncompleteCount
  <2>2. Incomplete(t) = {} => Deps[t] \subseteq everDone'
    BY <1>1, NothingIncomplete
  <2> QED
    BY <1>4, <2>1, <2>2 DEF Read, RequestGate
<1> QED
  BY <1>2, <1>3, <1>4, RequestMoves DEF Moves

(* A step that grants nothing and queues no task that was not queued or    *)
(* active.                                                                 *)
LEMMA GateFrame ==
  ASSUME CoreInv, GateInv, [Next]_vars, NEW t \in Task,
         attempts'[t] # <<>> => attempts[t] # <<>>,
         status'[t] = "queued" => status[t] = "queued" \/ Active(t),
         Active(t)' => status[t] = "queued" \/ Active(t),
         status'[t] = "completed" => status[t] = "completed" \/ t \in everDone',
         blockedBy'[t] = blockedBy[t]
  PROVE  GateAt(t)'
<1>1. everDone \subseteq everDone'
  BY DoneGrows
<1>2. Active(t) => attempts[t] # <<>>
  BY ActiveAttempt, EmptySeq DEF CoreInv
<1>3. GateAt(t)
  BY DEF GateInv
<1> QED
  BY <1>1, <1>2, <1>3 DEF GateAt

LEMMA SameLength ==
  ASSUME CoreInv, CoreInv', NEW t \in Task, Len(attempts'[t]) = Len(attempts[t])
  PROVE  attempts'[t] # <<>> => attempts[t] # <<>>
<1>1. attempts[t] \in Seq(Attempt) /\ attempts'[t] \in Seq(Attempt)
  BY DEF CoreInv, RowOK
<1> QED
  BY <1>1, EmptySeq

LEMMA NextGateAt ==
  ASSUME CoreInv, CoreInv', GateInv, [Next]_vars, NEW u \in Task
  PROVE  GateAt(u)'
<1> USE DEF Active, ActiveStatus
<1>1. CASE Quiet
  BY <1>1, GateFrame DEF Quiet
<1>2. ASSUME NEW h \in Slot, InsertTask(h)
      PROVE  GateAt(u)'
  <2>1. CASE u = req[h].task /\ status[u] = "absent"
    <3>1. req[h].blockers \in Nat /\ RequestGate(req[h]) /\ GateAt(u) /\ everDone' = everDone
      BY <1>2 DEF InsertTask, CoreInv, ReqOK, RequestOK, Request, GateInv
    <3>2. /\ status'[u] = IF req[h].blockers > 0 THEN "blocked" ELSE "queued"
          /\ blockedBy'[u] = req[h].blockers
          /\ attempts'[u] = attempts[u]
      BY <1>2, <2>1 DEF InsertTask, CoreInv, RowOK
    <3>3. status'[u] = "queued" => req[h].blockers = 0
      BY <3>1, <3>2
    <3>4. req[h].blockers = 0 => Deps[u] \subseteq everDone
      BY <1>2, <2>1, <3>1 DEF InsertTask, RequestGate
    <3> QED
      BY <3>1, <3>2, <3>3, <3>4 DEF GateAt
  <2>2. CASE ~(u = req[h].task /\ status[u] = "absent")
    <3>1. status'[u] = status[u] /\ blockedBy'[u] = blockedBy[u] /\ attempts' = attempts
      BY <1>2, <2>2 DEF InsertTask, CoreInv, RowOK
    <3> QED
      BY <3>1, GateFrame
  <2> QED
    BY <2>1, <2>2
<1>3. ASSUME NEW h \in Slot, WriteResume(h)
      PROVE  GateAt(u)'
  <2>1. CASE u = req[h].task
    <3>1. req[h].blockers \in Nat /\ RequestGate(req[h]) /\ GateAt(u) /\ everDone' = everDone
      BY <1>3 DEF WriteResume, CoreInv, ReqOK, RequestOK, Request, GateInv
    <3>2. /\ status'[u] = IF req[h].blockers = 0 THEN "queued" ELSE "blocked"
          /\ blockedBy'[u] = req[h].blockers
          /\ attempts'[u] = attempts[u]
      BY <1>3, <2>1 DEF WriteResume, CoreInv, RowOK
    <3>3. req[h].blockers = 0 => Deps[u] \subseteq everDone
      BY <1>3, <2>1, <3>1 DEF WriteResume, RequestGate
    <3> QED
      BY <3>1, <3>2, <3>3 DEF GateAt
  <2>2. CASE u # req[h].task
    <3>1. status'[u] = status[u] /\ blockedBy'[u] = blockedBy[u] /\ attempts' = attempts
      BY <1>3, <2>2 DEF WriteResume, CoreInv, RowOK
    <3> QED
      BY <3>1, GateFrame
  <2> QED
    BY <2>1, <2>2
<1>4. ASSUME NEW h \in Slot, SettleDependent(h)
      PROVE  GateAt(u)'
  <2>1. CASE u = req[h].task /\ status[u] = "blocked"
    <3>1. /\ req[h].next \in {"queued", "needs_teacher", "blocked"}
          /\ RequestGate(req[h]) /\ GateAt(u) /\ everDone' = everDone
      BY <1>4 DEF SettleDependent, CoreInv, ReqOK, RequestOK, GateInv
    <3>2. status'[u] = req[h].next /\ attempts'[u] = attempts[u]
      BY <1>4, <2>1 DEF SettleDependent, CoreInv, RowOK
    <3>3. req[h].next = "queued" => blockedBy'[u] = 0 /\ Deps[u] \subseteq everDone
      BY <1>4, <2>1, <3>1 DEF SettleDependent, CoreInv, RowOK, RequestGate
    <3> QED
      BY <3>1, <3>2, <3>3 DEF GateAt
  <2>2. CASE ~(u = req[h].task /\ status[u] = "blocked")
    <3>1. status'[u] = status[u] /\ blockedBy'[u] = blockedBy[u] /\ attempts' = attempts
      BY <1>4, <2>2 DEF SettleDependent, CoreInv, RowOK
    <3> QED
      BY <3>1, GateFrame
  <2> QED
    BY <2>1, <2>2
<1>5. ASSUME NEW h \in Slot, WritePause(h) \/ MarkDependents(h)
      PROVE  GateAt(u)'
  <2>1. /\ attempts' = attempts /\ blockedBy' = blockedBy
        /\ status'[u] \in {status[u], "blocked", "needs_teacher"}
    BY <1>5 DEF WritePause, MarkDependents, CoreInv, RowOK
  <2> QED
    BY <2>1, GateFrame
<1>6. ASSUME NEW h \in Slot, WriteCancel(h)
      PROVE  GateAt(u)'
  <2>1. blockedBy' = blockedBy /\ status'[u] \in {status[u], "cancelled"}
    BY <1>6 DEF WriteCancel, CoreInv, RowOK
  <2>2. Len(attempts'[u]) = Len(attempts[u])
    BY <1>6, CancelStep DEF Kept, Ended, OnlyOutcome
  <2> QED
    BY <2>1, <2>2, SameLength, GateFrame
<1>7. ASSUME NEW h \in Slot, LeaseCurrent(h),
             CommitHeartbeat(h) \/ CommitComplete(h) \/ CommitFail(h)
      PROVE  GateAt(u)'
  <2>1. Len(attempts'[u]) = Len(attempts[u])
    BY <1>7, CurrentEffect DEF CommitHeartbeat, CommitComplete, CommitFail,
       AttemptStatus, AttemptOpen, OnlyOutcome
  <2>2. blockedBy' = blockedBy
    BY <1>7 DEF CommitHeartbeat, CommitComplete, CommitFail
  <2>3. \/ status'[u] = status[u]
        \/ Active(u) /\ status'[u] # "completed"
        \/ status'[u] = "completed" /\ u \in everDone'
    <3>1. req[h].task \in Task /\ (req[h].op = "fail" => req[h].next # "completed")
      BY <1>7 DEF CommitHeartbeat, CommitComplete, CommitFail, CoreInv, ReqOK, RequestOK
    <3>2. Active(req[h].task)
      BY <1>7 DEF LeaseCurrent
    <3>3. CASE CommitHeartbeat(h)
      BY <1>7, <3>1, <3>2, <3>3 DEF CommitHeartbeat, CoreInv, RowOK
    <3>4. CASE CommitComplete(h)
      <4>1. status' = [status EXCEPT ![req[h].task] = "completed"]
            /\ everDone' = everDone \union {req[h].task}
        BY <1>7, <3>4 DEF CommitComplete
      <4> QED
        BY <3>1, <4>1 DEF CoreInv, RowOK
    <3>5. CASE CommitFail(h)
      <4>1. status' = [status EXCEPT ![req[h].task] = req[h].next] /\ req[h].op = "fail"
        BY <1>7, <3>5 DEF CommitFail
      <4> QED
        BY <3>1, <3>2, <4>1 DEF CoreInv, RowOK
    <3> QED
      BY <1>7, <3>3, <3>4, <3>5
  <2> QED
    BY <2>1, <2>2, <2>3, SameLength, GateFrame
<1>8. ASSUME NEW h \in Slot, NEW t \in Task, Recover(h, t)
      PROVE  GateAt(u)'
  <2>1. Active(t) /\ Len(attempts'[u]) = Len(attempts[u])
    BY <1>8, RecoverEffect DEF OnlyOutcome
  <2>2. /\ blockedBy' = blockedBy
        /\ status'[u] # status[u] => u = t /\ status'[u] \in {"queued", "needs_teacher"}
    BY <1>8 DEF Recover, CoreInv, RowOK
  <2> QED
    BY <2>1, <2>2, SameLength, GateFrame
<1>9. ASSUME NEW c \in Connector, NEW t \in Task, Claim(c, t)
      PROVE  GateAt(u)'
  <2>1. everDone' = everDone /\ blockedBy' = blockedBy /\ status[t] = "queued"
    BY <1>9 DEF Claim, Claimable
  <2>2. CASE u = t
    <3>1. status'[u] = "leased"
      BY <1>9, <2>2 DEF Claim, CoreInv, RowOK
    <3> QED
      BY <2>1, <2>2, <3>1 DEF GateInv, GateAt
  <2>3. CASE u # t
    <3>1. attempts'[u] = attempts[u] /\ status'[u] = status[u]
      BY <1>9, <2>3, ClaimEffect DEF Claim, CoreInv, RowOK
    <3> QED
      BY <2>1, <3>1, GateFrame
  <2> QED
    BY <2>2, <2>3
<1> QED
  BY <1>1, <1>2, <1>3, <1>4, <1>5, <1>6, <1>7, <1>8, <1>9, StepKinds DEF RowWrite

LEMMA InitGate == Init => GateInv
<1> SUFFICES ASSUME Init
             PROVE  GateInv
  OBVIOUS
<1>1. \A h \in Slot : RequestGate(req[h])
  BY DEF Init, RequestGate, Idle
<1>2. ASSUME NEW t \in Task
      PROVE  GateAt(t)
  BY FS_EmptySet DEF Init, GateAt, Active, ActiveStatus
<1> QED
  BY <1>1, <1>2 DEF GateInv

THEOREM GateInvariant == Spec => [](CoreInv /\ GateInv)
<1>1. CoreInv /\ GateInv /\ [Next]_vars => (CoreInv /\ GateInv)'
  <2> SUFFICES ASSUME CoreInv, GateInv, [Next]_vars
               PROVE  CoreInv' /\ GateInv'
    OBVIOUS
  <2>1. CoreInv'
    BY NextCore
  <2> QED
    BY <2>1, NextRequestGate, NextGateAt DEF GateInv
<1> QED
  BY <1>1, InitCore, InitGate, PTL DEF Spec

(* A task is queued, or was ever leased, only after each task it depends   *)
(* on has been completed.                                                  *)
THEOREM DependenciesFirst == Spec => []DependencyGate
<1>1. GateInv => DependencyGate
  BY DEF GateInv, GateAt, DependencyGate
<1> QED
  BY <1>1, GateInvariant, PTL

----------------------------------------------------------------------------
(* Completed rows and their attempt.                                       *)

CompletedAt(t) ==
  status[t] = "completed" =>
    /\ token[t] \in 1..Len(attempts[t])
    /\ attempts[t][token[t]].st = "completed"

CompletedInv == \A t \in Task : CompletedAt(t)

(* An attempt that completed stays so, whatever the step.                  *)
LEMMA CompletedStays ==
  ASSUME CoreInv, [Next]_vars, NEW t \in Task, NEW n \in 1..Len(attempts[t]),
         attempts[t][n].st = "completed"
  PROVE  n \in 1..Len(attempts'[t]) /\ attempts'[t][n].st = "completed"
<1>1. CASE Kept
  BY <1>1 DEF Kept
<1>2. ASSUME NEW u \in Task, NEW st, OpenLast(u), OnlyOutcome(u, Len(attempts[u]), st)
      PROVE  n \in 1..Len(attempts'[t]) /\ attempts'[t][n].st = "completed"
  <2>1. t = u => n # Len(attempts[u])
    BY <1>2 DEF OpenLast, AttemptOpen
  <2>2. attempts'[t][n] = attempts[t][n] /\ Len(attempts'[t]) = Len(attempts[t])
    BY <1>2, <2>1 DEF OnlyOutcome
  <2> QED
    BY <2>2
<1>3. ASSUME NEW c \in Connector, NEW u \in Task, Claim(c, u)
      PROVE  n \in 1..Len(attempts'[t]) /\ attempts'[t][n].st = "completed"
  <2>1. /\ Len(attempts'[u]) = Len(attempts[u]) + 1 /\ Len(attempts[u]) \in Nat
        /\ \A i \in 1..Len(attempts[u]) : attempts'[u][i] = attempts[u][i]
        /\ t # u => attempts'[t] = attempts[t]
    BY <1>3, ClaimEffect DEF CoreInv
  <2>2. CASE t = u
    BY <2>1, <2>2
  <2>3. CASE t # u
    BY <2>1, <2>3
  <2> QED
    BY <2>2, <2>3
<1> QED
  BY <1>1, <1>2, <1>3, LeaseStep DEF Renewed, Ended

LEMMA CompletedFrame ==
  ASSUME CoreInv, CompletedInv, [Next]_vars, NEW t \in Task,
         status'[t] = "completed" => status[t] = "completed" /\ token'[t] = token[t]
  PROVE  CompletedAt(t)'
BY CompletedStays DEF CompletedInv, CompletedAt

LEMMA NextCompleted ==
  ASSUME CoreInv, CompletedInv, [Next]_vars, NEW u \in Task
  PROVE  CompletedAt(u)'
<1>1. CASE Quiet
  BY <1>1, CompletedFrame DEF Quiet
<1>2. ASSUME NEW h \in Slot,
             \/ InsertTask(h) \/ WritePause(h) \/ WriteResume(h)
             \/ SettleDependent(h) \/ MarkDependents(h)
      PROVE  CompletedAt(u)'
  <2>1. req[h].op = "settle" => req[h].next # "completed"
    BY DEF CoreInv, ReqOK, RequestOK
  <2>2. token' = token /\ (status'[u] = "completed" => status[u] = "completed")
    BY <1>2, <2>1 DEF InsertTask, WritePause, WriteResume, SettleDependent,
       MarkDependents, CoreInv, RowOK
  <2> QED
    BY <2>2, CompletedFrame
<1>3. ASSUME NEW h \in Slot, WriteCancel(h)
      PROVE  CompletedAt(u)'
  <2>1. status'[u] = "completed" => u # req[h].task /\ status[u] = "completed"
    BY <1>3 DEF WriteCancel, CoreInv, RowOK
  <2>2. u # req[h].task => token'[u] = token[u]
    BY <1>3 DEF WriteCancel, CoreInv, RowOK
  <2> QED
    BY <2>1, <2>2, CompletedFrame
<1>4. ASSUME NEW h \in Slot, LeaseCurrent(h), CommitHeartbeat(h)
      PROVE  CompletedAt(u)'
  <2>1. token' = token /\ (status'[u] = "completed" => status[u] = "completed")
    BY <1>4 DEF CommitHeartbeat, CoreInv, RowOK
  <2> QED
    BY <2>1, CompletedFrame
<1>5. ASSUME NEW h \in Slot, LeaseCurrent(h), CommitComplete(h)
      PROVE  CompletedAt(u)'
  <2>1. PICK t \in Task : t = req[h].task
    BY <1>5 DEF CommitComplete, CoreInv, ReqOK, RequestOK
  <2>2. Active(t) /\ OnlyOutcome(t, token[t], "completed")
    BY <1>5, <2>1, CurrentEffect DEF CommitComplete, AttemptStatus
  <2>3. token' = token /\ (u # t => status'[u] = status[u])
    BY <1>5, <2>1 DEF CommitComplete, CoreInv, RowOK
  <2>4. CASE u = t
    <3>1. token[t] \in 1..Len(attempts[t])
      BY <2>2, ActiveAttempt DEF CoreInv
    <3>2. /\ attempts'[t][token[t]] = [by |-> attempts[t][token[t]].by, st |-> "completed"]
          /\ Len(attempts'[t]) = Len(attempts[t])
      BY <2>2, <3>1 DEF OnlyOutcome
    <3>3. attempts'[t][token[t]].st = "completed"
      BY <3>2
    <3> QED
      BY <2>3, <2>4, <3>1, <3>2, <3>3 DEF CompletedAt
  <2>5. CASE u # t
    BY <2>3, <2>5, CompletedFrame
  <2> QED
    BY <2>4, <2>5
<1>6. ASSUME NEW h \in Slot, LeaseCurrent(h), CommitFail(h)
      PROVE  CompletedAt(u)'
  <2>1. req[h].next # "completed"
    BY <1>6 DEF CommitFail, CoreInv, ReqOK, RequestOK
  <2>2. status' = [status EXCEPT ![req[h].task] = req[h].next]
    BY <1>6 DEF CommitFail
  <2>3. u # req[h].task => token'[u] = token[u]
    BY <1>6 DEF CommitFail, CoreInv, RowOK
  <2> QED
    BY <2>1, <2>2, <2>3, CompletedFrame DEF CoreInv, RowOK
<1>7. ASSUME NEW h \in Slot, NEW t \in Task, Recover(h, t)
      PROVE  CompletedAt(u)'
  <2>1. u = t => status'[u] # "completed"
    BY <1>7 DEF Recover, CoreInv, RowOK
  <2>2. u # t => token'[u] = token[u] /\ status'[u] = status[u]
    BY <1>7 DEF Recover, CoreInv, RowOK
  <2> QED
    BY <2>1, <2>2, CompletedFrame
<1>8. ASSUME NEW c \in Connector, NEW t \in Task, Claim(c, t)
      PROVE  CompletedAt(u)'
  <2>1. u = t => status'[u] # "completed"
    BY <1>8 DEF Claim, CoreInv, RowOK
  <2>2. u # t => token'[u] = token[u] /\ status'[u] = status[u]
    BY <1>8, ClaimEffect DEF Claim, CoreInv, RowOK
  <2> QED
    BY <2>1, <2>2, CompletedFrame
<1> QED
  BY <1>1, <1>2, <1>3, <1>4, <1>5, <1>6, <1>7, <1>8, StepKinds DEF RowWrite

(* A task reads completed only while the attempt whose token it carries is *)
(* the completed one.                                                      *)
THEOREM ResultOfHolder == Spec => []CompletedByHolder
<1>1. Init => CoreInv /\ CompletedInv
  <2>1. Init => CompletedInv
    BY DEF Init, CompletedInv, CompletedAt
  <2> QED
    BY <2>1, InitCore
<1>2. CoreInv /\ CompletedInv /\ [Next]_vars => (CoreInv /\ CompletedInv)'
  BY NextCore, NextCompleted DEF CompletedInv
<1>3. CoreInv /\ CompletedInv => CompletedByHolder
  BY OpenIsLast DEF CompletedInv, CompletedAt, CompletedByHolder
<1> QED
  BY <1>1, <1>2, <1>3, PTL DEF Spec

----------------------------------------------------------------------------
(* What a blocked row says.                                                *)

ReasonAt(t) ==
  /\ status[t] = "blocked" => reason[t] \in {"none", "paused"}
  /\ status[t] = "absent" => reason[t] = "none"

ReasonInv == \A t \in Task : ReasonAt(t)

LEMMA NextReason ==
  ASSUME CoreInv, ReasonInv, [Next]_vars, NEW u \in Task
  PROVE  ReasonAt(u)'
<1> USE DEF ReasonInv, ReasonAt
<1>1. CASE Quiet
  BY <1>1 DEF Quiet
<1>2. ASSUME NEW h \in Slot, InsertTask(h) \/ WritePause(h) \/ WriteResume(h)
      PROVE  ReasonAt(u)'
  BY <1>2 DEF InsertTask, WritePause, WriteResume, CoreInv, RowOK
<1>3. ASSUME NEW h \in Slot, SettleDependent(h)
      PROVE  ReasonAt(u)'
  <2>1. req[h].next \in {"queued", "needs_teacher", "blocked"}
    BY <1>3 DEF SettleDependent, CoreInv, ReqOK, RequestOK
  <2> QED
    BY SMTT(30), <1>3, <2>1 DEF SettleDependent, CoreInv, RowOK
<1>4. ASSUME NEW h \in Slot, WriteCancel(h) \/ MarkDependents(h)
      PROVE  ReasonAt(u)'
  BY <1>4 DEF WriteCancel, MarkDependents, CoreInv, RowOK
<1>5. ASSUME NEW h \in Slot, LeaseCurrent(h),
             CommitHeartbeat(h) \/ CommitComplete(h) \/ CommitFail(h)
      PROVE  ReasonAt(u)'
  <2>1. req[h].op = "fail" => req[h].next \in {"queued", "needs_teacher", "failed"}
    BY DEF CoreInv, ReqOK, RequestOK
  <2>2. CASE CommitHeartbeat(h)
    BY <1>5, <2>2 DEF CommitHeartbeat, CoreInv, RowOK
  <2>3. CASE CommitComplete(h)
    BY <1>5, <2>3 DEF CommitComplete, CoreInv, RowOK
  <2>4. CASE CommitFail(h)
    <3>1. /\ status' = [status EXCEPT ![req[h].task] = req[h].next]
          /\ reason' = [reason EXCEPT ![req[h].task] = "other"]
          /\ req[h].op = "fail"
      BY <1>5, <2>4 DEF CommitFail
    <3> QED
      BY <2>1, <3>1 DEF CoreInv, RowOK
  <2> QED
    BY <1>5, <2>2, <2>3, <2>4
<1>6. ASSUME NEW h \in Slot, NEW t \in Task, Recover(h, t)
      PROVE  ReasonAt(u)'
  <2>1. /\ u = t => status'[u] \in {"queued", "needs_teacher"}
        /\ u # t => status'[u] = status[u] /\ reason'[u] = reason[u]
    BY <1>6 DEF Recover, CoreInv, RowOK
  <2> QED
    BY <2>1
<1>7. ASSUME NEW c \in Connector, NEW t \in Task, Claim(c, t)
      PROVE  ReasonAt(u)'
  BY <1>7 DEF Claim, CoreInv, RowOK
<1> QED
  BY <1>1, <1>2, <1>3, <1>4, <1>5, <1>6, <1>7, StepKinds DEF RowWrite

(* Every blocked row carries no failure reason, or the teacher's pause.    *)
THEOREM BlockedReasons == Spec => []BlockedReason
<1>1. Init => CoreInv /\ ReasonInv
  <2>1. Init => ReasonInv
    BY DEF Init, ReasonInv, ReasonAt
  <2> QED
    BY <2>1, InitCore
<1>2. CoreInv /\ ReasonInv /\ [Next]_vars => (CoreInv /\ ReasonInv)'
  BY NextCore, NextReason DEF ReasonInv
<1>3. ReasonInv => BlockedReason
  BY DEF ReasonInv, ReasonAt, BlockedReason
<1> QED
  BY <1>1, <1>2, <1>3, PTL DEF Spec

----------------------------------------------------------------------------
(* Light tasks a connector holds.                                          *)

LEMMA OnlyClaimActivates ==
  ASSUME CoreInv, [Next]_vars, NEW u \in Task, Active(u)'
  PROVE  Active(u) \/ \E c \in Connector : Claim(c, u)
<1> USE DEF Active, ActiveStatus
<1>1. CASE Quiet
  BY <1>1 DEF Quiet
<1>2. ASSUME NEW h \in Slot, RowWrite(h)
      PROVE  Active(u)
  <2>1. req[h].op = "fail" => req[h].next \in {"queued", "needs_teacher", "failed"}
    BY DEF CoreInv, ReqOK, RequestOK
  <2>2. req[h].op = "settle" => req[h].next \in {"queued", "needs_teacher", "blocked"}
    BY DEF CoreInv, ReqOK, RequestOK
  <2>3. CASE InsertTask(h) \/ WritePause(h) \/ WriteResume(h) \/ WriteCancel(h) \/ MarkDependents(h)
    BY <2>3 DEF InsertTask, WritePause, WriteResume, WriteCancel, MarkDependents, CoreInv, RowOK
  <2>4. CASE CommitHeartbeat(h) /\ LeaseCurrent(h)
    BY <2>4 DEF CommitHeartbeat, LeaseCurrent, CoreInv, RowOK
  <2>5. CASE CommitComplete(h) /\ LeaseCurrent(h)
    BY <2>5 DEF CommitComplete, CoreInv, RowOK
  <2>6. CASE CommitFail(h) /\ LeaseCurrent(h)
    <3>1. status' = [status EXCEPT ![req[h].task] = req[h].next] /\ req[h].op = "fail"
      BY <2>6 DEF CommitFail
    <3> QED
      BY <2>1, <3>1 DEF CoreInv, RowOK
  <2>7. CASE SettleDependent(h)
    BY <2>2, <2>7 DEF SettleDependent, CoreInv, RowOK
  <2>8. ASSUME NEW t \in Task, Recover(h, t)
        PROVE  Active(u)
    BY <2>8 DEF Recover, CoreInv, RowOK
  <2> QED
    BY <1>2, <2>3, <2>4, <2>5, <2>6, <2>7, <2>8 DEF RowWrite
<1>3. ASSUME NEW c \in Connector, NEW t \in Task, Claim(c, t), t # u
      PROVE  Active(u)
  BY <1>3 DEF Claim, CoreInv, RowOK
<1> QED
  BY <1>1, <1>2, <1>3, StepKinds

(* While a task is active its owner is the connector of its last attempt.  *)
OwnerFacts ==
  \A t \in Task : Active(t) =>
    /\ token[t] = Len(attempts[t])
    /\ Len(attempts[t]) \in 1..Len(attempts[t])

LEMMA OwnerState == CoreInv => OwnerFacts
BY OpenIsLast DEF OwnerFacts, OpenLast

LEMMA OwnerStateNext == CoreInv' => OwnerFacts'
BY OwnerState, PTL

LEMMA ActiveKeepsOwner ==
  ASSUME CoreInv, CoreInv', [Next]_vars, NEW u \in Task, Active(u), Active(u)',
         NEW c \in Connector, OwnedBy(c, u)'
  PROVE  OwnedBy(c, u)
<1>1. OwnerFacts /\ OwnerFacts'
  BY OwnerState, OwnerStateNext
<1> DEFINE N == Len(attempts[u])
<1>2. token[u] = N /\ N \in 1..N /\ token'[u] = Len(attempts'[u])
  BY <1>1 DEF OwnerFacts
<1>3. CASE Kept
  BY <1>2, <1>3 DEF Kept, OwnedBy
<1>4. ASSUME NEW t \in Task, NEW st, OnlyOutcome(t, Len(attempts[t]), st)
      PROVE  OwnedBy(c, u)
  <2>1. /\ Len(attempts'[u]) = N
        /\ attempts'[u][N] = IF u = t /\ N = Len(attempts[t])
                             THEN [by |-> attempts[u][N].by, st |-> st]
                             ELSE attempts[u][N]
    BY <1>2, <1>4 DEF OnlyOutcome
  <2>2. attempts'[u][N].by = attempts[u][N].by
    BY <2>1
  <2> QED
    BY <1>2, <2>1, <2>2 DEF OwnedBy
<1>5. ASSUME NEW k \in Connector, NEW t \in Task, Claim(k, t)
      PROVE  OwnedBy(c, u)
  <2>1. t # u
    BY <1>5 DEF Claim, Claimable, Active, ActiveStatus
  <2>2. attempts'[u] = attempts[u] /\ token'[u] = token[u]
    BY <1>5, <2>1, ClaimEffect DEF CoreInv
  <2> QED
    BY <2>2 DEF OwnedBy
<1> QED
  BY <1>3, <1>4, <1>5, LeaseStep DEF Renewed, Ended

LEMMA NextCapacity ==
  ASSUME CoreInv, CoreInv', [Next]_vars, LightWithinCapacity, NEW c \in Connector
  PROVE  Cardinality(LightHeld(c)') <= LightCapacity[c]
<1>1. /\ IsFiniteSet(LightHeld(c)) /\ Cardinality(LightHeld(c)) \in Nat
      /\ Cardinality(LightHeld(c)) <= LightCapacity[c]
      /\ LightCapacity[c] \in Nat
  <2>1. LightHeld(c) \subseteq Task
    BY DEF LightHeld
  <2> QED
    BY <2>1, FS_Subset, FS_CardinalityType, ConstantsAssumption DEF LightWithinCapacity
<1>2. ASSUME NEW u \in LightHeld(c)', u \notin LightHeld(c)
      PROVE  \E k \in Connector : Claim(k, u) /\ u \notin Heavy /\ OwnedBy(c, u)'
  BY <1>2, OnlyClaimActivates, ActiveKeepsOwner DEF LightHeld
<1>3. CASE LightHeld(c)' \subseteq LightHeld(c)
  <2>1. Cardinality(LightHeld(c)') <= Cardinality(LightHeld(c)) /\ IsFiniteSet(LightHeld(c)')
    BY <1>1, <1>3, FS_Subset
  <2>2. Cardinality(LightHeld(c)') \in Nat
    BY <2>1, FS_CardinalityType
  <2> QED
    BY <1>1, <2>1, <2>2
<1>4. CASE ~(LightHeld(c)' \subseteq LightHeld(c))
  <2>1. PICK u \in LightHeld(c)', k \in Connector :
          Claim(k, u) /\ u \in Task \ Heavy /\ OwnedBy(c, u)'
    BY <1>2, <1>4 DEF LightHeld
  <2>2. k = c
    <3>1. /\ token'[u] = Len(attempts[u]) + 1
          /\ attempts'[u][Len(attempts[u]) + 1] = [by |-> k, st |-> "leased"]
      BY <2>1, ClaimEffect DEF CoreInv
    <3> QED
      BY <2>1, <3>1 DEF OwnedBy
  <2>3. Cardinality(LightHeld(c)) < LightCapacity[c]
    BY <2>1, <2>2 DEF Claim, HasRoom
  <2>4. \A v \in Task : v # u /\ Active(v)' => Active(v)
    BY <2>1 DEF Claim, CoreInv, RowOK, Active
  <2>5. LightHeld(c)' \subseteq LightHeld(c) \union {u}
    BY <2>4, ActiveKeepsOwner DEF LightHeld
  <2>6. /\ IsFiniteSet(LightHeld(c) \union {u})
        /\ Cardinality(LightHeld(c) \union {u}) <= Cardinality(LightHeld(c)) + 1
    BY <1>1, FS_AddElement
  <2>7. /\ Cardinality(LightHeld(c)') <= Cardinality(LightHeld(c) \union {u})
        /\ IsFiniteSet(LightHeld(c)')
    BY <2>5, <2>6, FS_Subset
  <2>8. Cardinality(LightHeld(c)') \in Nat /\ Cardinality(LightHeld(c) \union {u}) \in Nat
    BY <2>6, <2>7, FS_CardinalityType
  <2> QED
    BY <1>1, <2>3, <2>6, <2>7, <2>8
<1> QED
  BY <1>3, <1>4

(* A connector never has more active light tasks than its capacity.        *)
THEOREM LightCapacityKept == Spec => []LightWithinCapacity
<1>1. Init => CoreInv /\ LightWithinCapacity
  <2>1. ASSUME Init, NEW c \in Connector
        PROVE  Cardinality(LightHeld(c)) <= LightCapacity[c]
    <3>1. LightHeld(c) = {}
      BY <2>1 DEF Init, LightHeld, Active, ActiveStatus
    <3> QED
      BY <3>1, FS_EmptySet, ConstantsAssumption
  <2> QED
    BY <2>1, InitCore DEF LightWithinCapacity
<1>2. CoreInv /\ LightWithinCapacity /\ [Next]_vars => (CoreInv /\ LightWithinCapacity)'
  <2> SUFFICES ASSUME CoreInv, LightWithinCapacity, [Next]_vars
               PROVE  CoreInv' /\ LightWithinCapacity'
    OBVIOUS
  <2>1. CoreInv'
    BY NextCore
  <2>2. \A c \in Connector : Cardinality(LightHeld(c)') <= LightCapacity[c]
    BY <2>1, NextCapacity
  <2> QED
    BY <2>1, <2>2 DEF LightWithinCapacity
<1> QED
  BY <1>1, <1>2, PTL DEF Spec

============================================================================
