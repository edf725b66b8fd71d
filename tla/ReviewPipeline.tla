--------------------------- MODULE ReviewPipeline ---------------------------
(***************************************************************************)
(* A student's submission on its way to the teacher's decision             *)
(* (submissions.controller.ts, queue/review.queue.ts,                      *)
(* queue/review.processor.ts, review-worker.ts, reviews.controller.ts).    *)
(*                                                                         *)
(* The review row is in the database, the job that works on it in Redis, and *)
(* the two are never written together: handlers of the API add jobs after  *)
(* their transaction, the worker's recovery sweep adds them again for rows *)
(* that are still queued.  BullMQ's jobs are external and modelled by the  *)
(* options the code gives them: an identifier per submission, three        *)
(* attempts, the last hundred failed jobs kept.                            *)
(*                                                                         *)
(* A request is identified with its clientRequestId and the submission it  *)
(* creates; a client repeats it as often as it likes.  Submissions are     *)
(* never deleted here.  Scores and texts are left out; reviewer stands for *)
(* everything a decision writes.                                           *)
(***************************************************************************)
EXTENDS Naturals, FiniteSets

CONSTANTS
  Request,       \* (studentId, clientRequestId) of the submissions
  Key, KeyOf,    \* the pendingReviewKey "student:day" of each
  Teacher,
  Client,        \* requests the API serves at once
  Runner,        \* REVIEW_WORKER_CONCURRENCY slots of the worker
  Nobody,
  MaxTries,      \* attempts of a job
  MaxStalls,     \* BullMQ's maxStalledCount
  Kinds,         \* environment: the troubles that may happen
  TroubleCap     \* model bound: how many may

ASSUME PipelineAssumption ==
  /\ KeyOf \in [Request -> Key]
  /\ Nobody \notin Teacher \union Request
  /\ MaxTries \in Nat \ {0}
  /\ MaxStalls \in Nat /\ TroubleCap \in Nat

VARIABLES
  review,    \* ReviewResult.status, "none" before the row exists
  pending,   \* the row carries its pendingReviewKey
  reviewer,  \* ReviewResult.reviewerId
  client,    \* the submission handlers
  adds,      \* jobs the API is adding, some after the answer was given
  sweep,     \* jobs the recovery sweep has yet to add
  job,       \* the Redis job of each submission
  runner,    \* what each slot of the worker executes
  tries,     \* history: executions that threw, counted to MaxTries
  trouble    \* troubles so far

vars == <<review, pending, reviewer, client, adds, sweep, job, runner, tries,
          trouble>>
rows == <<review, pending, reviewer>>
api == <<client, adds>>

Status == {"none", "queued", "ai_reviewed", "needs_teacher", "teacher_decided"}

Decidable == {"ai_reviewed", "needs_teacher"}

Undecided == Decidable \union {"queued"}

NoJob == [state |-> "none", made |-> 0, stalls |-> 0]

NewJob == [NoJob EXCEPT !.state = "waiting"]

Free == [pc |-> "free", req |-> Nobody, made |-> 0, lock |-> "lost"]

Init ==
  /\ review = [r \in Request |-> "none"]
  /\ pending = [r \in Request |-> FALSE]
  /\ reviewer = [r \in Request |-> Nobody]
  /\ client = [c \in Client |-> [pc |-> "idle", req |-> Nobody]]
  /\ adds = {} /\ sweep = {}
  /\ job = [r \in Request |-> NoJob]
  /\ runner = [w \in Runner |-> Free]
  /\ tries = [r \in Request |-> 0]
  /\ trouble = 0

Trouble(kind) ==
  /\ kind \in Kinds /\ trouble < TroubleCap
  /\ trouble' = trouble + 1

----------------------------------------------------------------------------
(* Submission. *)

Goes(c, pc, r) == client' = [client EXCEPT ![c] = [pc |-> pc, req |-> r]]

(* The idempotent look-up.  A new request has to pass assertActiveConnector *)
(* too; being refused there changes nothing.                                *)
Submit(c, r) ==
  /\ client[c].pc = "idle"
  /\ Goes(c, IF review[r] = "none" THEN "insert" ELSE "enqueue", r)
  /\ UNCHANGED <<rows, adds, sweep, job, runner, tries, trouble>>

(* Mutant: only queued reviews hold the key. *)
KeyTakenWhileQueued(r) ==
  \E q \in Request : review[q] = "queued" /\ KeyOf[q] = KeyOf[r]

(* @unique pendingReviewKey. *)
KeyTaken(r) == \E q \in Request : pending[q] /\ KeyOf[q] = KeyOf[r]

(* The transaction that creates the submission and its review. *)
Insert(c) ==
  LET r == client[c].req IN
  /\ client[c].pc = "insert"
  /\ review[r] = "none" /\ ~KeyTaken(r)
  /\ review' = [review EXCEPT ![r] = "queued"]
  /\ pending' = [pending EXCEPT ![r] = TRUE]
  /\ Goes(c, "enqueue", r)
  /\ UNCHANGED <<reviewer, adds, sweep, job, runner, tries, trouble>>

(* P2002: the same request was inserted meanwhile, or another one of the    *)
(* day is open.                                                             *)
Duplicate(c) ==
  LET r == client[c].req IN
  /\ client[c].pc = "insert"
  /\ review[r] # "none" \/ KeyTaken(r)
  /\ IF review[r] # "none" THEN Goes(c, "enqueue", r) ELSE Goes(c, "idle", Nobody)
  /\ UNCHANGED <<rows, adds, sweep, job, runner, tries, trouble>>

(* enqueueOrWait answers after two seconds at the latest; the add it waited *)
(* for goes on.                                                             *)
EnqueueOrWait(c) ==
  /\ client[c].pc = "enqueue"
  /\ adds' = adds \union {client[c].req}
  /\ Goes(c, "idle", Nobody)
  /\ UNCHANGED <<rows, sweep, job, runner, tries, trouble>>

(* queue.add with the identifier of a job Redis still has does nothing,     *)
(* whatever state that job is in.                                           *)
Add(r) ==
  job' = [job EXCEPT ![r] = IF job[r].state = "none" THEN NewJob ELSE @]

AddLands(r) ==
  /\ r \in adds /\ adds' = adds \ {r}
  /\ Add(r)
  /\ UNCHANGED <<rows, client, sweep, runner, tries, trouble>>

AddFails(r) ==
  /\ r \in adds /\ adds' = adds \ {r}
  /\ Trouble("redis")
  /\ UNCHANGED <<rows, client, sweep, job, runner, tries>>

ApiCrash ==
  /\ Trouble("api")
  /\ client' = [c \in Client |-> [pc |-> "idle", req |-> Nobody]]
  /\ adds' = {}
  /\ UNCHANGED <<rows, sweep, job, runner, tries>>

----------------------------------------------------------------------------
(* The worker's recovery sweep; recoveryRunning while sweep is not empty. *)

(* Mutant: the sweep looks for the reviews the model has failed. *)
SweepReadFailed ==
  /\ sweep = {}
  /\ sweep' = {r \in Request : review[r] = "needs_teacher"}
  /\ UNCHANGED <<rows, api, job, runner, tries, trouble>>

(* The oldest first and 500 at most, which Request does not reach. *)
SweepRead ==
  /\ sweep = {}
  /\ sweep' = {r \in Request : review[r] = "queued"}
  /\ UNCHANGED <<rows, api, job, runner, tries, trouble>>

SweepAdd(r) ==
  /\ r \in sweep /\ sweep' = sweep \ {r}
  /\ Add(r)
  /\ UNCHANGED <<rows, api, runner, tries, trouble>>

SweepFails ==
  /\ sweep # {} /\ sweep' = {}
  /\ Trouble("redis")
  /\ UNCHANGED <<rows, api, job, runner, tries>>

----------------------------------------------------------------------------
(* The execution of a job. *)

StartJob(r) ==
  /\ job[r].state = "waiting"
  /\ \E w \in Runner :
       /\ runner[w].pc = "free"
       /\ runner' = [runner EXCEPT ![w] =
            [pc |-> "start", req |-> r, made |-> job[r].made, lock |-> "held"]]
  /\ job' = [job EXCEPT ![r].state = "active"]
  /\ UNCHANGED <<rows, api, sweep, tries, trouble>>

(* A review that is no longer queued is returned as it is. *)
RunReads(w) ==
  /\ runner[w].pc = "start"
  /\ runner' = [runner EXCEPT ![w].pc =
       IF review[runner[w].req] = "queued" THEN "assess" ELSE "done"]
  /\ UNCHANGED <<rows, api, sweep, job, tries, trouble>>

(* Mutant: an unconditional update. *)
SetAnyway(r, s) == review' = [review EXCEPT ![r] = s]

(* Both writes of the worker are conditional on the row still being queued. *)
SetIfQueued(r, s) ==
  review' = [review EXCEPT ![r] = IF review[r] = "queued" THEN s ELSE @]

(* The model and the teaching workflow have answered. *)
RunAssesses(w) ==
  /\ runner[w].pc = "assess"
  /\ SetIfQueued(runner[w].req, "ai_reviewed")
  /\ runner' = [runner EXCEPT ![w].pc = "done"]
  /\ UNCHANGED <<pending, reviewer, api, sweep, job, tries, trouble>>

(* The mutant: the attempt that runs is counted twice. *)
LastTryEarly(w) == runner[w].made + 2 >= MaxTries

LastTry(w) == runner[w].made + 1 >= MaxTries

(* Any await of processSubmissionReview may throw: the model's answer, the  *)
(* workflow or the database.                                                *)
RunThrows(w) ==
  LET r == runner[w].req IN
  /\ runner[w].pc \in {"start", "assess", "done"}
  /\ runner' = [runner EXCEPT ![w].pc = IF LastTry(w) THEN "mark" ELSE "throw"]
  /\ tries' = [tries EXCEPT ![r] = IF @ < MaxTries THEN @ + 1 ELSE @]
  /\ UNCHANGED <<rows, api, sweep, job, trouble>>

MarkNeedsTeacher(w) ==
  /\ runner[w].pc = "mark"
  /\ SetIfQueued(runner[w].req, "needs_teacher")
  /\ runner' = [runner EXCEPT ![w].pc = "throw"]
  /\ UNCHANGED <<pending, reviewer, api, sweep, job, tries, trouble>>

(* The database that made the last attempt fail may still be away. *)
MarkThrows(w) ==
  /\ runner[w].pc = "mark"
  /\ Trouble("mark")
  /\ runner' = [runner EXCEPT ![w].pc = "throw"]
  /\ UNCHANGED <<rows, api, sweep, job, tries>>

(* removeOnComplete; without the lock the job is left alone. *)
JobCompletes(w) ==
  LET r == runner[w].req IN
  /\ runner[w].pc = "done"
  /\ job' = IF runner[w].lock = "held" THEN [job EXCEPT ![r] = NoJob] ELSE job
  /\ runner' = [runner EXCEPT ![w] = Free]
  /\ UNCHANGED <<rows, api, sweep, tries, trouble>>

JobFails(w) ==
  LET r == runner[w].req
      made == job[r].made + 1
      failed == [state |-> IF made >= MaxTries THEN "failed" ELSE "delayed",
                 made |-> made, stalls |-> job[r].stalls]
  IN
  /\ runner[w].pc = "throw"
  /\ job' = IF runner[w].lock = "held" THEN [job EXCEPT ![r] = failed] ELSE job
  /\ runner' = [runner EXCEPT ![w] = Free]
  /\ UNCHANGED <<rows, api, sweep, tries, trouble>>

BackoffOver(r) ==
  /\ job[r].state = "delayed"
  /\ job' = [job EXCEPT ![r].state = "waiting"]
  /\ UNCHANGED <<rows, api, sweep, runner, tries, trouble>>

(* removeOnFail: a hundred later failures push a failed job out. *)
Forget(r) ==
  /\ job[r].state = "failed"
  /\ job' = [job EXCEPT ![r] = NoJob]
  /\ UNCHANGED <<rows, api, sweep, runner, tries, trouble>>

----------------------------------------------------------------------------
(* What goes wrong between the worker and Redis. *)

(* Mutant: the stalled check does not look at the lock. *)
OwnedByNobody(r) == FALSE

Owned(r) == \E w \in Runner : runner[w].lock = "held" /\ runner[w].req = r

(* The lock is not renewed in time; the slot works on without knowing. *)
LockLost(w) ==
  /\ runner[w].lock = "held"
  /\ Trouble("lock")
  /\ runner' = [runner EXCEPT ![w].lock = "lost"]
  /\ UNCHANGED <<rows, api, sweep, job, tries>>

(* The stalled check runs a job without a lock again, up to MaxStalls times;*)
(* then it fails the job without calling the processor.                     *)
Stalled(r) ==
  /\ job[r].state = "active" /\ ~Owned(r)
  /\ job' = [job EXCEPT ![r] =
       [state |-> IF @.stalls >= MaxStalls THEN "failed" ELSE "waiting",
        made |-> @.made, stalls |-> @.stalls + 1]]
  /\ UNCHANGED <<rows, api, sweep, runner, tries, trouble>>

WorkerCrash ==
  /\ Trouble("worker")
  /\ runner' = [w \in Runner |-> Free]
  /\ sweep' = {}
  /\ UNCHANGED <<rows, api, job, tries>>

(* Redis comes back without a job. *)
JobLost(r) ==
  /\ job[r].state # "none"
  /\ Trouble("lost")
  /\ job' = [job EXCEPT ![r] = NoJob]
  /\ runner' = [w \in Runner |->
                  [runner[w] EXCEPT !.lock = IF runner[w].req = r THEN "lost" ELSE @]]
  /\ UNCHANGED <<rows, api, sweep, tries>>

----------------------------------------------------------------------------
(* The teacher's decision, one transaction. *)
Decide(r, t) ==
  /\ review[r] \in Decidable
  /\ review' = [review EXCEPT ![r] = "teacher_decided"]
  /\ reviewer' = [reviewer EXCEPT ![r] = t]
  /\ pending' = [pending EXCEPT ![r] = FALSE]
  /\ UNCHANGED <<api, sweep, job, runner, tries, trouble>>

----------------------------------------------------------------------------
ClientStep(c) ==
  Insert(c) \/ Duplicate(c) \/ EnqueueOrWait(c) \/ \E r \in Request : Submit(c, r)

JobStep(r) ==
  \/ AddLands(r) \/ AddFails(r) \/ SweepAdd(r) \/ StartJob(r) \/ BackoffOver(r)
  \/ Forget(r) \/ Stalled(r) \/ JobLost(r)
  \/ \E t \in Teacher : Decide(r, t)

RunnerStep(w) ==
  \/ RunReads(w) \/ RunAssesses(w) \/ RunThrows(w) \/ MarkNeedsTeacher(w)
  \/ MarkThrows(w) \/ JobCompletes(w) \/ JobFails(w) \/ LockLost(w)

Next ==
  \/ \E c \in Client : ClientStep(c)
  \/ \E r \in Request : JobStep(r)
  \/ \E w \in Runner : RunnerStep(w)
  \/ SweepRead \/ SweepFails \/ ApiCrash \/ WorkerCrash

Spec == Init /\ [][Next]_vars

(* A started execution ends, BullMQ's timers run, the sweep comes every 30  *)
(* seconds, and its jobs are first in, first out: one that waits again and  *)
(* again while a slot is free is taken.  Nothing makes a client finish, an  *)
(* add of the API land, a failed job be forgotten or a teacher decide.      *)
Fairness ==
  /\ WF_vars(SweepRead)
  /\ \A r \in Request :
       /\ WF_vars(SweepAdd(r)) /\ WF_vars(BackoffOver(r)) /\ WF_vars(Stalled(r))
       /\ SF_vars(StartJob(r))
  /\ \A w \in Runner :
       WF_vars(RunReads(w) \/ RunAssesses(w) \/ MarkNeedsTeacher(w)
               \/ JobCompletes(w) \/ JobFails(w))

FairSpec == Spec /\ Fairness

----------------------------------------------------------------------------
(* Type correctness of the rows, the handlers, the jobs and the slots. *)
TypeOK ==
  /\ review \in [Request -> Status]
  /\ pending \in [Request -> BOOLEAN]
  /\ reviewer \in [Request -> Teacher \union {Nobody}]
  /\ client \in [Client -> [pc : {"idle", "insert", "enqueue"},
                             req : Request \union {Nobody}]]
  /\ \A c \in Client : client[c].pc = "idle" <=> client[c].req = Nobody
  /\ adds \subseteq Request /\ sweep \subseteq Request
  /\ job \in [Request -> [state : {"none", "waiting", "active", "delayed", "failed"},
                          made : Nat, stalls : Nat]]
  /\ runner \in [Runner -> [pc : {"free", "start", "assess", "done", "mark", "throw"},
                             req : Request \union {Nobody}, made : Nat, lock : {"held", "lost"}]]
  /\ \A w \in Runner : runner[w].pc = "free" <=> runner[w].req = Nobody
  /\ \A w \in Runner : runner[w].lock = "held" => runner[w].pc # "free"
  /\ tries \in [Request -> 0 .. MaxTries]
  /\ trouble \in 0 .. TroubleCap

(* One execution at a time holds a job's lock, it is the job's current      *)
(* attempt, and no job counts more attempts or stalls than it is given:     *)
(* the lock that moves between worker slots, stall checks and lost jobs     *)
(* (review.processor.ts, BullMQ's worker).                                  *)
OneOwner ==
  /\ \A v, w \in Runner :
       /\ runner[v].lock = "held" /\ runner[w].lock = "held"
       /\ runner[v].req = runner[w].req
       => v = w
  /\ \A w \in Runner : runner[w].lock = "held" =>
       LET j == job[runner[w].req] IN j.state = "active" /\ j.made = runner[w].made
  /\ \A r \in Request : job[r].made <= MaxTries /\ job[r].stalls <= MaxStalls + 1

(* A submission carries its pendingReviewKey exactly while its review is    *)
(* undecided, and a student has one such submission a day, however many     *)
(* handlers, repetitions and decisions interleave.                          *)
OneOpenReview ==
  /\ \A r \in Request : pending[r] <=> review[r] \in Undecided
  /\ \A q, r \in Request : pending[q] /\ pending[r] /\ KeyOf[q] = KeyOf[r] => q = r

(* A review is handed over as failed only after as many executions of it    *)
(* have thrown as a job is given, also when jobs were lost, stalled or      *)
(* executed twice (createReviewJobProcessor's count).                       *)
TriedBeforeTeacher ==
  \A r \in Request : review[r] = "needs_teacher" => tries[r] = MaxTries

(* The database answers the last attempt's catch, and no job stalls more    *)
(* often than BullMQ runs it again.                                         *)
MildTrouble == "mark" \notin Kinds /\ TroubleCap <= MaxStalls

(* Under MildTrouble a review that is still queued is never behind a failed *)
(* job: Redis keeps failed jobs, so the recovery sweep would add nothing    *)
(* (review.queue.ts keeps the last hundred, review-worker.ts adds under the *)
(* same identifier).                                                        *)
RecoveryCanWork ==
  \A r \in Request : review[r] = "queued" => job[r].state # "failed"

(* Every queued review reaches the teacher's list, assessed or as one that  *)
(* needs the teacher, whatever the model, Redis and crashes do.             *)
ReviewSettles ==
  \A r \in Request : review[r] = "queued" ~> review[r] \in Decidable

(* The submission that holds a student's day. *)
Holder(k) ==
  IF \E r \in Request : pending[r] /\ KeyOf[r] = k
  THEN CHOOSE r \in Request : pending[r] /\ KeyOf[r] = k ELSE Nobody

Desk == INSTANCE ReviewDesk WITH
  stage <- review, judge <- reviewer, desk <- [k \in Key |-> Holder(k)]

(* No interleaving of handlers, executions and decisions moves a review     *)
(* back, assesses it twice, replaces a decision or opens a second review of *)
(* a day: the conditional updates of the processor and of decide.           *)
ImplementsDesk == Desk!Spec

=============================================================================
