----------------------------- MODULE TaskWorker -----------------------------
(***************************************************************************)
(* Execution of a leased task by the connectors of a student               *)
(* (apps/agent-connector/src: task-worker.ts, client.ts and                *)
(* adapters/provider-process-adapter.ts).                                  *)
(*                                                                         *)
(* A worker claims a task, starts a provider process for it, renews the    *)
(* lease on a timer while the process runs, and answers when it has ended. *)
(* Requests and responses are delayed or lost; the client times out and    *)
(* repeats them.  The control plane is the other side: one task, each      *)
(* request served at once (AgentTask has its interleavings).               *)
(*                                                                         *)
(* Time passes in Tick, one unit for every timer, and never past a timer   *)
(* that is due.  Whether two providers can work on the task at once is a   *)
(* question of these durations alone.                                      *)
(***************************************************************************)
EXTENDS Integers, FiniteSets

CONSTANTS
  Connector,
  LeaseTime,     \* LEASE_DURATION_MS, counted from the server's last renewal
  Interval,      \* heartbeatIntervalSeconds, from one answered renewal to the next
  Timeout,       \* requestTimeoutMs of one try
  ClaimTimeout,  \* the client's patience with a claim's long poll
  Retries,       \* heartbeatMaxRetries: tries after the first
  Grace,         \* terminationGraceMs, from SIGTERM to SIGKILL
  Delay,         \* environment: a message slower than this never arrives
  ClaimDelay,    \* environment: the same for the response to a claim
  MaxAttempts,   \* maxAttempts of the task
  AttemptCap,    \* model bound: leases granted
  MayStop        \* model bound: connectors that are shut down or crash

ASSUME DurationsAssumption ==
  /\ {LeaseTime, Interval, Timeout, ClaimTimeout} \subseteq Nat \ {0}
  /\ {Retries, Grace, Delay, ClaimDelay, AttemptCap} \subseteq Nat
  /\ MaxAttempts \in Nat \ {0}
  /\ MayStop \subseteq Connector

(* The emission of run.started is over before the first renewal is due.    *)
ASSUME EmitAssumption == Timeout <= Interval

VARIABLES
  status,     \* AgentTask.status; "active" is leased or running
  granted,    \* attempts granted
  holder,     \* the attempt whose token the task row carries, 0 is NULL
  leaseLeft,  \* time until leaseExpiresAt, 0 once it has passed
  outcome,    \* AgentTaskAttempt.status of each attempt
  phase,      \* where run and executeLease of the worker are
  att,        \* the attempt of the worker's lease
  call,       \* the claim, event or answer the worker is waiting for
  hb,         \* the renewal timer and request
  lost,       \* leaseLost
  shut,       \* the shutdown signal has fired
  ghost,      \* a claim the client gave up still polls on the server
  answer,     \* the request executeLease will end with
  child,      \* what terminates the provider process, and when it is killed
  exit        \* history: how the provider of each attempt ended

server == <<status, granted, holder, leaseLeft, outcome>>
worker == <<phase, att, call, hb, lost, shut, ghost, answer, child>>
vars == <<server, worker, exit>>

----------------------------------------------------------------------------

Attempts == 1..AttemptCap

Phase == {"idle", "claiming", "announcing", "running", "reporting", "stopping",
          "answering", "stopped", "crashed"}

(* A request in flight, the response to it, or a timer that is running.    *)
(* left is the time until it times out or fires, age that of the message.  *)
Call == [at: {"off", "wait", "request", "ok", "conflict"},
         age: Nat, left: Nat, try: Nat]

Off == [at |-> "off", age |-> 0, left |-> 0, try |-> 0]
Wait(time) == [Off EXCEPT !.at = "wait", !.left = time]
Send(time) == [at |-> "request", age |-> 0, left |-> time, try |-> 1]
Respond(m, with) == [m EXCEPT !.at = with, !.age = 0]

(* Mutant: the count of tries starts again with each of them.              *)
AgainAsFirst(m, time) == Send(time)

Again(m, time) == [Send(time) EXCEPT !.try = m.try + 1]

InFlight(m) == m.at \in {"request", "ok", "conflict"}
Arrived(m, with) == m.at = with /\ m.age <= Delay

(* A try that fails (transport error, retryable status, timeout), whether  *)
(* or not the server has served it, is repeated up to Retries times.       *)
MayRepeat(m) == InFlight(m) /\ m.try <= Retries

Exhausted(m) == InFlight(m) /\ m.try > Retries

NoExit == [code |-> "none", by |-> {}]
Child == [by: SUBSET {"timeout", "abort"}, kill: Nat]
NoChild == [by |-> {}, kill |-> 0]

TypeOK ==
  /\ status \in {"queued", "active", "completed", "failed", "needs_teacher"}
  /\ granted \in 0..AttemptCap
  /\ holder \in 0..granted
  /\ leaseLeft \in 0..LeaseTime
  /\ outcome \in [Attempts -> {"open", "completed", "rejected", "failed", "expired"}]
  /\ phase \in [Connector -> Phase]
  /\ att \in [Connector -> 0..granted]
  /\ call \in [Connector -> Call]
  /\ hb \in [Connector -> Call]
  /\ lost \in [Connector -> BOOLEAN]
  /\ shut \in [Connector -> BOOLEAN]
  /\ ghost \in [Connector -> BOOLEAN]
  /\ answer \in [Connector -> {"none", "complete", "business", "infrastructure"}]
  /\ child \in [Connector -> Child]
  /\ exit \in [Attempts -> [code: {"none", "zero", "nonzero", "null", "malformed"},
                            by: SUBSET {"timeout", "abort"}]]

Init ==
  /\ status = "queued"
  /\ granted = 0
  /\ holder = 0
  /\ leaseLeft = 0
  /\ outcome = [n \in Attempts |-> "open"]
  /\ phase = [c \in Connector |-> "idle"]
  /\ att = [c \in Connector |-> 0]
  /\ call = [c \in Connector |-> Off]
  /\ hb = [c \in Connector |-> Off]
  /\ lost = [c \in Connector |-> FALSE]
  /\ shut = [c \in Connector |-> FALSE]
  /\ ghost = [c \in Connector |-> FALSE]
  /\ answer = [c \in Connector |-> "none"]
  /\ child = [c \in Connector |-> NoChild]
  /\ exit = [n \in Attempts |-> NoExit]

----------------------------------------------------------------------------
(* The control plane, one request at a time.                               *)

(* Mutant: whoever holds the lease, the request counts as its holder's.    *)
HeldByAnyone(n) == status = "active"

Held(n) == status = "active" /\ holder = n

AfterInfrastructure == IF granted < MaxAttempts THEN "queued" ELSE "needs_teacher"

(* recoverExpiredLeases, part of every claim and of a late renewal or      *)
(* completion.                                                             *)
RecoverExpired ==
  IF status = "active" /\ leaseLeft = 0
  THEN /\ status' = AfterInfrastructure
       /\ holder' = 0
       /\ outcome' = [outcome EXCEPT ![holder] = "expired"]
  ELSE UNCHANGED <<status, holder, outcome>>

Grant ==
  /\ status = "queued"
  /\ granted < AttemptCap
  /\ status' = "active"
  /\ granted' = granted + 1
  /\ holder' = granted + 1
  /\ leaseLeft' = LeaseTime
  /\ UNCHANGED outcome

(* A poll of a claim, attended by its client or not.                       *)
Polling(c) == ghost[c] \/ (phase[c] = "claiming" /\ call[c].at = "request")

Recover ==
  /\ \E c \in Connector : Polling(c)
  /\ status = "active" /\ leaseLeft = 0
  /\ RecoverExpired
  /\ UNCHANGED <<granted, leaseLeft, worker, exit>>

GrantLease(c) ==
  /\ phase[c] = "claiming" /\ call[c].at = "request"
  /\ Grant
  /\ att' = [att EXCEPT ![c] = granted + 1]
  /\ call' = [call EXCEPT ![c] = Respond(@, "ok")]
  /\ UNCHANGED <<phase, hb, lost, shut, ghost, answer, child, exit>>

(* claim does not notice that its client has gone.                         *)
GrantToNobody(c) ==
  /\ ghost[c]
  /\ Grant
  /\ ghost' = [ghost EXCEPT ![c] = FALSE]
  /\ UNCHANGED <<phase, att, call, hb, lost, shut, answer, child, exit>>

PollEnds(c) ==
  /\ ghost[c]
  /\ ghost' = [ghost EXCEPT ![c] = FALSE]
  /\ UNCHANGED <<server, phase, att, call, hb, lost, shut, answer, child, exit>>

ServeHeartbeat(c) ==
  /\ Arrived(hb[c], "request")
  /\ IF Held(att[c]) /\ leaseLeft > 0
     THEN /\ leaseLeft' = LeaseTime
          /\ hb' = [hb EXCEPT ![c] = Respond(@, "ok")]
          /\ UNCHANGED <<status, holder, outcome>>
     ELSE /\ RecoverExpired
          /\ hb' = [hb EXCEPT ![c] = Respond(@, "conflict")]
          /\ UNCHANGED leaseLeft
  /\ UNCHANGED <<granted, phase, att, call, lost, shut, ghost, answer, child, exit>>

(* complete: a task found completed is a success, whoever completed it.    *)
ServeComplete(c) ==
  /\ answer[c] = "complete"
  /\ \/ /\ status = "completed"
        /\ call' = [call EXCEPT ![c] = Respond(@, "ok")]
        /\ UNCHANGED <<status, holder, outcome>>
     \/ /\ Held(att[c]) /\ leaseLeft > 0
        /\ status' = "completed"
        /\ outcome' = [outcome EXCEPT ![att[c]] = "completed"]
        /\ call' = [call EXCEPT ![c] = Respond(@, "ok")]
        /\ UNCHANGED holder
     \/ /\ status # "completed"
        /\ ~(Held(att[c]) /\ leaseLeft > 0)
        /\ RecoverExpired
        /\ call' = [call EXCEPT ![c] = Respond(@, "conflict")]

(* fail: a repeated one is a success; the expiry is not looked at.         *)
ServeFail(c) ==
  LET business == answer[c] = "business"
      again == ~business /\ granted < MaxAttempts IN
  /\ answer[c] \in {"business", "infrastructure"}
  /\ \/ /\ outcome[att[c]] \in {"failed", "rejected"}
        /\ call' = [call EXCEPT ![c] = Respond(@, "ok")]
        /\ UNCHANGED <<status, holder, outcome>>
     \/ /\ outcome[att[c]] \notin {"failed", "rejected"}
        /\ Held(att[c])
        /\ status' = IF business THEN "failed" ELSE AfterInfrastructure
        /\ holder' = IF again THEN 0 ELSE holder
        /\ outcome' = [outcome EXCEPT ![att[c]] =
                         IF business THEN "rejected" ELSE "failed"]
        /\ call' = [call EXCEPT ![c] = Respond(@, "ok")]
     \/ /\ outcome[att[c]] \notin {"failed", "rejected"}
        /\ ~Held(att[c])
        /\ call' = [call EXCEPT ![c] = Respond(@, "conflict")]
        /\ UNCHANGED <<status, holder, outcome>>

ServeAnswer(c) ==
  /\ phase[c] = "answering"
  /\ Arrived(call[c], "request")
  /\ ServeComplete(c) \/ ServeFail(c)
  /\ UNCHANGED <<granted, leaseLeft, phase, att, hb, lost, shut, ghost, answer,
                 child, exit>>

----------------------------------------------------------------------------
(* run: the claim loop.                                                    *)

Poll(c) ==
  /\ phase[c] = "idle"
  /\ phase' = [phase EXCEPT ![c] = "claiming"]
  /\ call' = [call EXCEPT ![c] = Send(ClaimTimeout)]
  /\ UNCHANGED <<server, att, hb, lost, shut, ghost, answer, child, exit>>

(* The top of the loop: while (!signal.aborted).                           *)
NextTurn(c) == IF shut[c] THEN "stopped" ELSE "idle"

NothingToDo(c) ==
  /\ phase[c] = "claiming" /\ call[c].at = "request"
  /\ phase' = [phase EXCEPT ![c] = NextTurn(c)]
  /\ call' = [call EXCEPT ![c] = Off]
  /\ UNCHANGED <<server, att, hb, lost, shut, ghost, answer, child, exit>>

(* A claim is not repeated; the server may go on polling for it.           *)
ClaimFails(c) ==
  /\ phase[c] = "claiming"
  /\ phase' = [phase EXCEPT ![c] = NextTurn(c)]
  /\ ghost' = [ghost EXCEPT ![c] = @ \/ call[c].at = "request"]
  /\ call' = [call EXCEPT ![c] = Off]
  /\ UNCHANGED <<server, att, hb, lost, shut, answer, child, exit>>

ClaimArrived(c) ==
  phase[c] = "claiming" /\ call[c].at = "ok" /\ call[c].age <= ClaimDelay

(* executeLease with a usable payload: the renewal timer starts, and       *)
(* adapter.run first reports run.started.                                  *)
StartLease(c) ==
  /\ ClaimArrived(c)
  /\ phase' = [phase EXCEPT ![c] = "announcing"]
  /\ call' = [call EXCEPT ![c] = Wait(Timeout)]
  /\ hb' = [hb EXCEPT ![c] = Wait(Interval)]
  /\ UNCHANGED <<server, att, lost, shut, ghost, answer, child, exit>>

(* taskRunInput throws: failTask at once, without a renewal timer.         *)
MalformedPayload(c) ==
  /\ ClaimArrived(c)
  /\ phase' = [phase EXCEPT ![c] = "answering"]
  /\ call' = [call EXCEPT ![c] = Send(Timeout)]
  /\ answer' = [answer EXCEPT ![c] = "business"]
  /\ exit' = [exit EXCEPT ![att[c]] = [code |-> "malformed", by |-> {}]]
  /\ UNCHANGED <<server, att, hb, lost, shut, ghost, child>>

(* adapter.run throws before it starts a process (the working directory).  *)
RunThrows(c) ==
  /\ ClaimArrived(c)
  /\ phase' = [phase EXCEPT ![c] = "stopping"]
  /\ call' = [call EXCEPT ![c] = Off]
  /\ answer' = [answer EXCEPT ![c] = "infrastructure"]
  /\ UNCHANGED <<server, att, hb, lost, shut, ghost, child, exit>>

----------------------------------------------------------------------------
(* The provider process.                                                   *)

(* The process runs from the end of Spawn to its exit.                     *)
Alive(c) == phase[c] = "running"

Aborted(c) == lost[c] \/ shut[c]

(* terminate: SIGTERM, and the SIGKILL timer unless it runs already.       *)
Terminate(p, cause) ==
  [p EXCEPT !.by = @ \union {cause}, !.kill = IF p.by = {} THEN Grace ELSE @]

(* The event has been sent, or has failed; the process is started even if  *)
(* the signal has fired meanwhile, and terminated then.                    *)
Spawn(c) ==
  /\ phase[c] = "announcing"
  /\ phase' = [phase EXCEPT ![c] = "running"]
  /\ call' = [call EXCEPT ![c] = Off]
  /\ child' = [child EXCEPT ![c] =
                 IF Aborted(c) THEN Terminate(NoChild, "abort") ELSE NoChild]
  /\ UNCHANGED <<server, att, hb, lost, shut, ghost, answer, exit>>

(* The run's timeout is far longer than any other duration: any time.      *)
RunTimesOut(c) ==
  /\ Alive(c)
  /\ "timeout" \notin child[c].by
  /\ child' = [child EXCEPT ![c] = Terminate(@, "timeout")]
  /\ UNCHANGED <<server, phase, att, call, hb, lost, shut, ghost, answer, exit>>

(* Mutant: the exit code decides, whoever ended the process.                *)
AnswerByCode(code, by) ==
  CASE code = "zero" -> "complete"
    [] code = "null" -> "infrastructure"
    [] OTHER -> "business"

(* A process that was terminated, failed to start or died of a signal is   *)
(* an infrastructure failure, a non-zero exit a business one.              *)
AnswerFor(code, by) ==
  CASE code = "zero" /\ by = {} -> "complete"
    [] code = "nonzero" /\ by = {} -> "business"
    [] OTHER -> "infrastructure"

(* close or error of the process, and then the event run.completed.        *)
Exit(c, code) ==
  /\ phase[c] = "running"
  /\ phase' = [phase EXCEPT ![c] = "reporting"]
  /\ call' = [call EXCEPT ![c] = Wait(Timeout)]
  /\ child' = [child EXCEPT ![c] = NoChild]
  /\ answer' = [answer EXCEPT ![c] = AnswerFor(code, child[c].by)]
  /\ exit' = [exit EXCEPT ![att[c]] = [code |-> code, by |-> child[c].by]]
  /\ UNCHANGED <<server, att, hb, lost, shut, ghost>>

----------------------------------------------------------------------------
(* executeLease: the end.                                                  *)

(* heartbeat.stop clears the timer, and waits for a request in flight.     *)
StopHeartbeat(c) ==
  /\ phase[c] = "reporting"
  /\ phase' = [phase EXCEPT ![c] = "stopping"]
  /\ call' = [call EXCEPT ![c] = Off]
  /\ hb' = [hb EXCEPT ![c] = IF @.at = "wait" THEN Off ELSE @]
  /\ UNCHANGED <<server, att, lost, shut, ghost, answer, child, exit>>

Settled(c) == hb[c].at = "off"

(* executeLease returns; its local variables are gone.                     *)
ReturnToLoop(c) ==
  /\ phase' = [phase EXCEPT ![c] = NextTurn(c)]
  /\ call' = [call EXCEPT ![c] = Off]
  /\ answer' = [answer EXCEPT ![c] = "none"]
  /\ lost' = [lost EXCEPT ![c] = FALSE]

Conclude(c) ==
  /\ phase[c] = "stopping"
  /\ Settled(c)
  /\ IF Aborted(c) THEN ReturnToLoop(c)
     ELSE /\ phase' = [phase EXCEPT ![c] = "answering"]
          /\ call' = [call EXCEPT ![c] = Send(Timeout)]
          /\ UNCHANGED <<answer, lost>>
  /\ UNCHANGED <<server, att, hb, shut, ghost, child, exit>>

RetryAnswer(c) ==
  /\ phase[c] = "answering"
  /\ MayRepeat(call[c])
  /\ call' = [call EXCEPT ![c] = Again(@, Timeout)]
  /\ UNCHANGED <<server, phase, att, hb, lost, shut, ghost, answer, child, exit>>

(* Success, refusal or no answer at all: run goes on to the next claim.    *)
AnswerEnds(c) ==
  /\ phase[c] = "answering"
  /\ Arrived(call[c], "ok") \/ Arrived(call[c], "conflict") \/ Exhausted(call[c])
  /\ ReturnToLoop(c)
  /\ UNCHANGED <<server, att, hb, shut, ghost, child, exit>>

----------------------------------------------------------------------------
(* startTaskHeartbeat.                                                     *)

SendHeartbeat(c) ==
  /\ hb[c].at = "wait" /\ hb[c].left = 0
  /\ hb' = [hb EXCEPT ![c] = Send(Timeout)]
  /\ UNCHANGED <<server, phase, att, call, lost, shut, ghost, answer, child, exit>>

HeartbeatOk(c) ==
  /\ Arrived(hb[c], "ok")
  /\ hb' = [hb EXCEPT ![c] = IF phase[c] = "stopping" THEN Off ELSE Wait(Interval)]
  /\ UNCHANGED <<server, phase, att, call, lost, shut, ghost, answer, child, exit>>

RetryHeartbeat(c) ==
  /\ MayRepeat(hb[c])
  /\ hb' = [hb EXCEPT ![c] = Again(@, Timeout)]
  /\ UNCHANGED <<server, phase, att, call, lost, shut, ghost, answer, child, exit>>

(* Mutant: the signal of the lease is not aborted.                         *)
KeepRunning(c) == child[c]

AbortRun(c) == IF Alive(c) THEN Terminate(child[c], "abort") ELSE child[c]

(* onFailure: refused, or out of tries.                                    *)
HeartbeatFails(c) ==
  /\ Arrived(hb[c], "conflict") \/ Exhausted(hb[c])
  /\ hb' = [hb EXCEPT ![c] = Off]
  /\ lost' = [lost EXCEPT ![c] = TRUE]
  /\ child' = [child EXCEPT ![c] = AbortRun(c)]
  /\ UNCHANGED <<server, phase, att, call, shut, ghost, answer, exit>>

----------------------------------------------------------------------------
(* Shutdown, crash, time.                                                  *)

(* SIGTERM aborts the claim, unless its response is being read already,    *)
(* and the run; an answer in flight is not aborted.                        *)
Shutdown(c) ==
  /\ c \in MayStop
  /\ ~shut[c] /\ phase[c] \notin {"stopped", "crashed"}
  /\ shut' = [shut EXCEPT ![c] = TRUE]
  /\ child' = [child EXCEPT ![c] = AbortRun(c)]
  /\ \/ /\ phase[c] \in {"idle", "claiming"}
        /\ phase' = [phase EXCEPT ![c] = "stopped"]
        /\ ghost' = [ghost EXCEPT ![c] = @ \/ call[c].at = "request"]
        /\ call' = [call EXCEPT ![c] = Off]
     \/ /\ phase[c] \notin {"idle", "claiming"} \/ ClaimArrived(c)
        /\ UNCHANGED <<phase, call, ghost>>
  /\ UNCHANGED <<server, att, hb, lost, answer, exit>>

(* The machine stops, with the provider on it.                             *)
Crash(c) ==
  /\ c \in MayStop
  /\ phase[c] \notin {"stopped", "crashed"}
  /\ phase' = [phase EXCEPT ![c] = "crashed"]
  /\ ghost' = [ghost EXCEPT ![c] =
                 @ \/ (phase[c] = "claiming" /\ call[c].at = "request")]
  /\ call' = [call EXCEPT ![c] = Off]
  /\ hb' = [hb EXCEPT ![c] = Off]
  /\ child' = [child EXCEPT ![c] = NoChild]
  /\ UNCHANGED <<server, att, lost, shut, answer, exit>>

Due(m) == m.at # "off" /\ m.left = 0

SomethingDue(c) ==
  Due(call[c]) \/ Due(hb[c]) \/ (child[c].by # {} /\ child[c].kill = 0)

TooOld == (IF Delay < ClaimDelay THEN ClaimDelay ELSE Delay) + 1

Elapse(n) == IF n > 0 THEN n - 1 ELSE 0

Older(m) == [m EXCEPT !.left = Elapse(@),
                      !.age = IF InFlight(m) /\ @ < TooOld THEN @ + 1 ELSE @]

Tick ==
  /\ \A c \in Connector : ~SomethingDue(c)
  /\ leaseLeft' = Elapse(leaseLeft)
  /\ call' = [c \in Connector |-> Older(call[c])]
  /\ hb' = [c \in Connector |-> Older(hb[c])]
  /\ child' = [c \in Connector |-> [child[c] EXCEPT !.kill = Elapse(@)]]
  /\ UNCHANGED <<status, granted, holder, outcome, phase, att, lost, shut, ghost,
                 answer, exit>>

----------------------------------------------------------------------------

ServerStep(c) ==
  \/ GrantLease(c)
  \/ GrantToNobody(c)
  \/ PollEnds(c)
  \/ ServeHeartbeat(c)
  \/ ServeAnswer(c)

ClaimStep(c) ==
  \/ Poll(c)
  \/ NothingToDo(c)
  \/ ClaimFails(c)
  \/ StartLease(c)
  \/ MalformedPayload(c)
  \/ RunThrows(c)

RunStep(c) ==
  \/ Spawn(c)
  \/ RunTimesOut(c)
  \/ \E code \in {"zero", "nonzero", "null"} : Exit(c, code)
  \/ StopHeartbeat(c)
  \/ Conclude(c)
  \/ RetryAnswer(c)
  \/ AnswerEnds(c)

HeartbeatStep(c) ==
  \/ SendHeartbeat(c)
  \/ HeartbeatOk(c)
  \/ RetryHeartbeat(c)
  \/ HeartbeatFails(c)

Next ==
  \/ \E c \in Connector :
       ServerStep(c) \/ ClaimStep(c) \/ RunStep(c) \/ HeartbeatStep(c)
         \/ Shutdown(c) \/ Crash(c)
  \/ Recover
  \/ Tick

Spec == Init /\ [][Next]_vars

(* Fairness.  Timers fire and time passes; a client's steps are taken, a    *)
(* run times out at last, and a process that was killed is gone.  Nothing   *)
(* is assumed of the network, of the server or of the provider's own end.  *)

Killed(c) == child[c].by # {} /\ child[c].kill = 0

Fairness ==
  /\ WF_vars(Tick)
  /\ \A c \in Connector :
       /\ WF_vars(HeartbeatStep(c))
       /\ WF_vars(Spawn(c) \/ StopHeartbeat(c) \/ Conclude(c))
       /\ WF_vars(RetryAnswer(c) \/ AnswerEnds(c))
       /\ WF_vars(RunTimesOut(c))
       /\ WF_vars(Killed(c) /\ Exit(c, "null"))
       /\ WF_vars(ClaimFails(c))

FairSpec == Spec /\ Fairness

----------------------------------------------------------------------------
(* Properties.                                                             *)

(* The condition on the durations under which a lease outlasts a worker    *)
(* that cannot renew it.                                                   *)
LeaseOutlastsSilence ==
  /\ Interval + (Retries + 1) * Timeout + Grace + Delay < LeaseTime
  /\ Interval + (Retries + 1) * Timeout + Grace + ClaimDelay < LeaseTime

(* The task is never worked on by two connectors at once: a worker that     *)
(* cannot renew has stopped its provider before the lease can be granted    *)
(* again.  This holds because a renewal that goes unanswered, with all its  *)
(* repetitions and the grace of the kill, takes less than the lease.        *)
NoDuplicateExecution ==
  \A c, d \in Connector : Alive(c) /\ Alive(d) => c = d

(* What the control plane records is what happened: a completed attempt's   *)
(* provider ended by itself with code 0, a business failure's with another  *)
(* code or its payload was no instruction, and no attempt that the worker   *)
(* aborted (shutdown, lease lost) was answered at all.                      *)
HonestOutcome ==
  \A n \in Attempts :
    /\ outcome[n] = "completed" => exit[n] = [code |-> "zero", by |-> {}]
    /\ outcome[n] = "rejected" =>
         exit[n].code \in {"nonzero", "malformed"} /\ exit[n].by = {}
    /\ "abort" \in exit[n].by => outcome[n] \in {"open", "expired"}

(* While an answer is on its way nothing else of the lease is: no renewal   *)
(* in flight that could find the lease gone, no provider, no lost lease.    *)
AnswerAfterRenewals ==
  \A c \in Connector :
    phase[c] = "answering" =>
      hb[c].at = "off" /\ ~Alive(c) /\ ~lost[c]

(* The serial loop is never blocked for good by one lease: whatever is lost *)
(* on the network and however the provider behaves, the worker returns to   *)
(* the claim loop, or has stopped.                                          *)
LoopAdvances ==
  \A c \in Connector :
    phase[c] \notin {"idle", "stopped", "crashed"}
      ~> phase[c] \in {"idle", "stopped", "crashed"}

(* With timers, lost messages and repetitions the task is still a fenced    *)
(* lease: one holder at a time, and only its result is accepted.            *)
Holder == [t \in {"task"} |-> IF status = "active" THEN holder ELSE 0]
Granted == [t \in {"task"} |-> granted]
Accepted == [t \in {"task"} |-> {n \in Attempts : outcome[n] = "completed"}]

Lease == INSTANCE FencedLease
  WITH Task <- {"task"}, Exclusive <- {}, OwnerOf <- [t \in {} |-> t],
       holder <- Holder, granted <- Granted, accepted <- Accepted

ImplementsLease == Lease!Spec

============================================================================
