-------------------------- MODULE TaskWorkerProofs --------------------------
(***************************************************************************)
(* Proofs about TaskWorker for every number of connectors and all          *)
(* durations: its types, the shape of a worker's local state, the timing   *)
(* argument by which a task is never executed twice at once, and that      *)
(* recorded outcomes are true.                                             *)
(***************************************************************************)
EXTENDS TaskWorker, TLAPS

LEMMA CallTypes ==
  /\ Off \in Call
  /\ \A time \in Nat : Wait(time) \in Call /\ Send(time) \in Call
  /\ \A m \in Call, time \in Nat : Again(m, time) \in Call
  /\ \A m \in Call : Respond(m, "ok") \in Call /\ Respond(m, "conflict") \in Call
  /\ \A m \in Call : Older(m) \in Call
<1>1. Off \in Call
  BY DEF Off, Call
<1>2. \A time \in Nat : Wait(time) \in Call /\ Send(time) \in Call
  BY DEF Off, Call, Wait, Send
<1>3. \A m \in Call, time \in Nat : Again(m, time) \in Call
  BY DEF Call, Send, Again
<1>4. \A m \in Call : Respond(m, "ok") \in Call /\ Respond(m, "conflict") \in Call
  BY DEF Call, Respond
<1>5. ASSUME NEW m \in Call PROVE Older(m) \in Call
  <2>1. /\ Elapse(m.left) \in Nat
        /\ (IF InFlight(m) /\ m.age < TooOld THEN m.age + 1 ELSE m.age) \in Nat
    BY DEF Call, Elapse
  <2>. QED BY <2>1 DEF Call, Older
<1>. QED BY <1>1, <1>2, <1>3, <1>4, <1>5

LEMMA ChildTypes ==
  /\ NoChild \in Child
  /\ \A p \in Child : \A cause \in {"timeout", "abort"} : Terminate(p, cause) \in Child
  /\ TypeOK => \A c \in Connector : AbortRun(c) \in Child
  /\ \A p \in Child : [p EXCEPT !.kill = Elapse(@)] \in Child
<1>1. NoChild \in Child
  BY DEF NoChild, Child
<1>2. ASSUME NEW p \in Child, NEW cause \in {"timeout", "abort"}
      PROVE  Terminate(p, cause) \in Child
  <2>1. /\ p.by \union {cause} \in SUBSET {"timeout", "abort"}
        /\ (IF p.by = {} THEN Grace ELSE p.kill) \in Nat
    BY DurationsAssumption DEF Child
  <2>. QED BY <2>1 DEF Child, Terminate
<1>3. ASSUME TypeOK, NEW c \in Connector PROVE AbortRun(c) \in Child
  BY <1>2, <1>3 DEF AbortRun, TypeOK
<1>4. ASSUME NEW p \in Child PROVE [p EXCEPT !.kill = Elapse(@)] \in Child
  <2>1. Elapse(p.kill) \in Nat
    BY DEF Child, Elapse
  <2>. QED BY <2>1 DEF Child
<1>. QED BY <1>1, <1>2, <1>3, <1>4

LEMMA InitType == Init => TypeOK
BY CallTypes, ChildTypes, DurationsAssumption
DEF Init, TypeOK, NoExit, Attempts, Phase

(* TypeOK in parts: the rows of the server, the worker's timers, and the    *)
(* rest of the worker's state.                                              *)
RowStatus == {"queued", "active", "completed", "failed", "needs_teacher"}
Outcome == {"open", "completed", "rejected", "failed", "expired"}

RowTypes ==
  /\ status \in RowStatus
  /\ granted \in 0..AttemptCap
  /\ holder \in 0..granted
  /\ leaseLeft \in 0..LeaseTime
  /\ outcome \in [Attempts -> Outcome]

TimerTypes ==
  /\ call \in [Connector -> Call]
  /\ hb \in [Connector -> Call]
  /\ child \in [Connector -> Child]

LocalTypes ==
  /\ phase \in [Connector -> Phase]
  /\ att \in [Connector -> 0..granted]
  /\ lost \in [Connector -> BOOLEAN]
  /\ shut \in [Connector -> BOOLEAN]
  /\ ghost \in [Connector -> BOOLEAN]
  /\ answer \in [Connector -> {"none", "complete", "business", "infrastructure"}]
  /\ exit \in [Attempts -> [code: {"none", "zero", "nonzero", "null", "malformed"},
                            by: SUBSET {"timeout", "abort"}]]

LEMMA TypeParts == TypeOK <=> RowTypes /\ TimerTypes /\ LocalTypes
BY DEF TypeOK, RowTypes, RowStatus, Outcome, TimerTypes, LocalTypes

LEMMA TypePartsNext == TypeOK' <=> RowTypes' /\ TimerTypes' /\ LocalTypes'
BY TypeParts, PTL

LEMMA ExpiredTypes ==
  ASSUME RowTypes, RecoverExpired
  PROVE  status' \in RowStatus /\ holder' \in 0..granted /\ outcome' \in [Attempts -> Outcome]
<1>1. granted \in Nat
  BY DurationsAssumption DEF RowTypes
<1>2. CASE status = "active" /\ leaseLeft = 0
  BY <1>1, <1>2 DEF RowTypes, RowStatus, Outcome, RecoverExpired, AfterInfrastructure
<1>3. CASE ~(status = "active" /\ leaseLeft = 0)
  BY <1>3 DEF RowTypes, RecoverExpired
<1>. QED BY <1>2, <1>3

(* One leaf per part and action: what the server does ...                  *)
LEMMA ServerType ==
  ASSUME TypeOK, NEW c \in Connector, ServerStep(c) \/ Recover
  PROVE  TypeOK'
<1>. /\ Timeout \in Nat /\ ClaimTimeout \in Nat /\ Interval \in Nat
     /\ NextTurn(c) \in Phase
     /\ RowTypes /\ TimerTypes /\ LocalTypes
  BY DurationsAssumption, TypeParts DEF NextTurn, Phase
<1>1. CASE GrantLease(c)
  <2>1. RowTypes'
    BY <1>1, DurationsAssumption DEF RowTypes, RowStatus, Outcome, server, Attempts, GrantLease, Grant
  <2>2. TimerTypes'
    BY <1>1, CallTypes, ChildTypes DEF TimerTypes, GrantLease, Grant
  <2>3. LocalTypes'
    BY <1>1, DurationsAssumption DEF RowTypes, RowStatus, Outcome, LocalTypes, server, Phase, Attempts, GrantLease, Grant
  <2>. QED BY <2>1, <2>2, <2>3, TypePartsNext
<1>2. CASE GrantToNobody(c)
  <2>1. RowTypes'
    BY <1>2, DurationsAssumption DEF RowTypes, RowStatus, Outcome, server, Attempts, GrantToNobody, Grant
  <2>2. TimerTypes'
    BY <1>2, CallTypes, ChildTypes DEF TimerTypes, GrantToNobody, Grant
  <2>3. LocalTypes'
    BY <1>2, DurationsAssumption DEF RowTypes, RowStatus, Outcome, LocalTypes, server, Phase, Attempts, GrantToNobody, Grant
  <2>. QED BY <2>1, <2>2, <2>3, TypePartsNext
<1>3. CASE PollEnds(c)
  <2>1. RowTypes'
    BY <1>3, DurationsAssumption DEF RowTypes, RowStatus, Outcome, server, Attempts, PollEnds
  <2>2. TimerTypes'
    BY <1>3, CallTypes, ChildTypes DEF TimerTypes, PollEnds
  <2>3. LocalTypes'
    BY <1>3, DurationsAssumption DEF RowTypes, RowStatus, Outcome, LocalTypes, server, Phase, Attempts, PollEnds
  <2>. QED BY <2>1, <2>2, <2>3, TypePartsNext
<1>4. CASE ServeHeartbeat(c)
  <2>1. RowTypes'
    BY <1>4, DurationsAssumption DEF RowTypes, RowStatus, Outcome, server, Attempts, ServeHeartbeat, RecoverExpired, AfterInfrastructure
  <2>2. TimerTypes'
    BY <1>4, CallTypes, ChildTypes DEF TimerTypes, ServeHeartbeat, RecoverExpired, AfterInfrastructure
  <2>3. LocalTypes'
    BY <1>4, DurationsAssumption DEF RowTypes, RowStatus, Outcome, LocalTypes, server, Phase, Attempts, ServeHeartbeat, RecoverExpired, AfterInfrastructure
  <2>. QED BY <2>1, <2>2, <2>3, TypePartsNext
<1>5. CASE ServeAnswer(c)
  <2>1. RowTypes'
    <3>1. /\ RowTypes /\ RecoverExpired => status' \in RowStatus /\ holder' \in 0..granted /\ outcome' \in [Attempts -> Outcome]
          /\ UNCHANGED <<granted, leaseLeft>>
      BY <1>5, ExpiredTypes DEF ServeAnswer
    <3>2. CASE ServeComplete(c)
      BY <3>1, <3>2 DEF RowTypes, RowStatus, Outcome, ServeComplete
    <3>3. CASE ServeFail(c)
      BY <3>1, <3>3 DEF RowTypes, RowStatus, Outcome, ServeFail, AfterInfrastructure
    <3>. QED BY <1>5, <3>2, <3>3 DEF ServeAnswer
  <2>2. TimerTypes'
    BY <1>5, CallTypes, ChildTypes DEF TimerTypes, ServeAnswer, ServeComplete, ServeFail, RecoverExpired, AfterInfrastructure, Held
  <2>3. LocalTypes'
    BY <1>5, DurationsAssumption DEF RowTypes, RowStatus, Outcome, LocalTypes, server, Phase, Attempts, ServeAnswer, ServeComplete, ServeFail, RecoverExpired, AfterInfrastructure, Held
  <2>. QED BY <2>1, <2>2, <2>3, TypePartsNext
<1>6. CASE Recover
  <2>1. RowTypes'
    BY <1>6, ExpiredTypes DEF RowTypes, RowStatus, Outcome, Recover
  <2>2. TimerTypes'
    BY <1>6, CallTypes, ChildTypes DEF TimerTypes, Recover, RecoverExpired, AfterInfrastructure, worker
  <2>3. LocalTypes'
    BY <1>6, DurationsAssumption DEF RowTypes, RowStatus, Outcome, LocalTypes, server, Phase, Attempts, Recover, RecoverExpired, AfterInfrastructure, worker
  <2>. QED BY <2>1, <2>2, <2>3, TypePartsNext
<1>. QED BY <1>1, <1>2, <1>3, <1>4, <1>5, <1>6 DEF ServerStep

(* ... and what the worker does.                                           *)
LEMMA ClaimType ==
  ASSUME TypeOK, NEW c \in Connector, ClaimStep(c)
  PROVE  TypeOK'
<1>. /\ Timeout \in Nat /\ ClaimTimeout \in Nat /\ Interval \in Nat
     /\ NextTurn(c) \in Phase
     /\ RowTypes /\ TimerTypes /\ LocalTypes
  BY DurationsAssumption, TypeParts DEF NextTurn, Phase
<1>1. CASE Poll(c)
  <2>1. RowTypes'
    BY <1>1, DurationsAssumption DEF RowTypes, RowStatus, Outcome, server, Attempts, Poll
  <2>2. TimerTypes'
    BY <1>1, CallTypes, ChildTypes DEF TimerTypes, Poll
  <2>3. LocalTypes'
    BY <1>1, DurationsAssumption DEF RowTypes, RowStatus, Outcome, LocalTypes, server, Phase, Attempts, Poll
  <2>. QED BY <2>1, <2>2, <2>3, TypePartsNext
<1>2. CASE NothingToDo(c)
  <2>1. RowTypes'
    BY <1>2, DurationsAssumption DEF RowTypes, RowStatus, Outcome, server, Attempts, NothingToDo
  <2>2. TimerTypes'
    BY <1>2, CallTypes, ChildTypes DEF TimerTypes, NothingToDo
  <2>3. LocalTypes'
    BY <1>2, DurationsAssumption DEF RowTypes, RowStatus, Outcome, LocalTypes, server, Phase, Attempts, NothingToDo
  <2>. QED BY <2>1, <2>2, <2>3, TypePartsNext
<1>3. CASE ClaimFails(c)
  <2>1. RowTypes'
    BY <1>3, DurationsAssumption DEF RowTypes, RowStatus, Outcome, server, Attempts, ClaimFails
  <2>2. TimerTypes'
    BY <1>3, CallTypes, ChildTypes DEF TimerTypes, ClaimFails
  <2>3. LocalTypes'
    BY <1>3, DurationsAssumption DEF RowTypes, RowStatus, Outcome, LocalTypes, server, Phase, Attempts, ClaimFails
  <2>. QED BY <2>1, <2>2, <2>3, TypePartsNext
<1>4. CASE StartLease(c)
  <2>1. RowTypes'
    BY <1>4, DurationsAssumption DEF RowTypes, RowStatus, Outcome, server, Attempts, StartLease
  <2>2. TimerTypes'
    BY <1>4, CallTypes, ChildTypes DEF TimerTypes, StartLease
  <2>3. LocalTypes'
    BY <1>4, DurationsAssumption DEF RowTypes, RowStatus, Outcome, LocalTypes, server, Phase, Attempts, StartLease
  <2>. QED BY <2>1, <2>2, <2>3, TypePartsNext
<1>5. CASE MalformedPayload(c)
  <2>1. RowTypes'
    BY <1>5, DurationsAssumption DEF RowTypes, RowStatus, Outcome, server, Attempts, MalformedPayload
  <2>2. TimerTypes'
    BY <1>5, CallTypes, ChildTypes DEF TimerTypes, MalformedPayload
  <2>3. LocalTypes'
    BY <1>5, DurationsAssumption DEF RowTypes, RowStatus, Outcome, LocalTypes, server, Phase, Attempts, MalformedPayload
  <2>. QED BY <2>1, <2>2, <2>3, TypePartsNext
<1>6. CASE RunThrows(c)
  <2>1. RowTypes'
    BY <1>6, DurationsAssumption DEF RowTypes, RowStatus, Outcome, server, Attempts, RunThrows
  <2>2. TimerTypes'
    BY <1>6, CallTypes, ChildTypes DEF TimerTypes, RunThrows
  <2>3. LocalTypes'
    BY <1>6, DurationsAssumption DEF RowTypes, RowStatus, Outcome, LocalTypes, server, Phase, Attempts, RunThrows
  <2>. QED BY <2>1, <2>2, <2>3, TypePartsNext
<1>. QED BY <1>1, <1>2, <1>3, <1>4, <1>5, <1>6 DEF ClaimStep

LEMMA RunType ==
  ASSUME TypeOK, NEW c \in Connector, RunStep(c)
  PROVE  TypeOK'
<1>. /\ Timeout \in Nat /\ ClaimTimeout \in Nat /\ Interval \in Nat
     /\ NextTurn(c) \in Phase
     /\ RowTypes /\ TimerTypes /\ LocalTypes
  BY DurationsAssumption, TypeParts DEF NextTurn, Phase
<1>1. CASE Spawn(c)
  <2>1. RowTypes'
    BY <1>1, DurationsAssumption DEF RowTypes, RowStatus, Outcome, server, Attempts, Spawn
  <2>2. TimerTypes'
    BY <1>1, CallTypes, ChildTypes DEF TimerTypes, Spawn
  <2>3. LocalTypes'
    BY <1>1, DurationsAssumption DEF RowTypes, RowStatus, Outcome, LocalTypes, server, Phase, Attempts, Spawn
  <2>. QED BY <2>1, <2>2, <2>3, TypePartsNext
<1>2. CASE RunTimesOut(c)
  <2>1. RowTypes'
    BY <1>2, DurationsAssumption DEF RowTypes, RowStatus, Outcome, server, Attempts, RunTimesOut
  <2>2. TimerTypes'
    BY <1>2, CallTypes, ChildTypes DEF TimerTypes, RunTimesOut
  <2>3. LocalTypes'
    BY <1>2, DurationsAssumption DEF RowTypes, RowStatus, Outcome, LocalTypes, server, Phase, Attempts, RunTimesOut
  <2>. QED BY <2>1, <2>2, <2>3, TypePartsNext
<1>3. CASE \E code \in {"zero", "nonzero", "null"} : Exit(c, code)
  <2>1. RowTypes'
    BY <1>3, DurationsAssumption DEF RowTypes, RowStatus, Outcome, server, Attempts, Exit
  <2>2. TimerTypes'
    BY SMTT(30), <1>3, CallTypes, ChildTypes DEF TimerTypes, Exit, AnswerFor, Child
  <2>3. LocalTypes'
    <3>1. PICK code \in {"zero", "nonzero", "null"} : Exit(c, code)
      BY <1>3
    <3>2. /\ AnswerFor(code, child[c].by) \in {"complete", "business", "infrastructure"}
          /\ child[c].by \in SUBSET {"timeout", "abort"}
      BY DEF AnswerFor, TimerTypes, Child
    <3>. QED BY <3>1, <3>2 DEF LocalTypes, server, Phase, Exit
  <2>. QED BY <2>1, <2>2, <2>3, TypePartsNext
<1>4. CASE StopHeartbeat(c)
  <2>1. RowTypes'
    BY <1>4, DurationsAssumption DEF RowTypes, RowStatus, Outcome, server, Attempts, StopHeartbeat
  <2>2. TimerTypes'
    BY <1>4, CallTypes, ChildTypes DEF TimerTypes, StopHeartbeat
  <2>3. LocalTypes'
    BY <1>4, DurationsAssumption DEF RowTypes, RowStatus, Outcome, LocalTypes, server, Phase, Attempts, StopHeartbeat
  <2>. QED BY <2>1, <2>2, <2>3, TypePartsNext
<1>5. CASE Conclude(c)
  <2>1. RowTypes'
    BY <1>5, DurationsAssumption DEF RowTypes, RowStatus, Outcome, server, Attempts, Conclude, ReturnToLoop
  <2>2. TimerTypes'
    BY <1>5, CallTypes, ChildTypes DEF TimerTypes, Conclude, ReturnToLoop
  <2>3. LocalTypes'
    <3>1. CASE Aborted(c)
      <4>1. ReturnToLoop(c) /\ UNCHANGED <<server, att, hb, shut, ghost, child, exit>>
        BY <1>5, <3>1 DEF Conclude
      <4>. QED BY <4>1 DEF LocalTypes, server, ReturnToLoop
    <3>2. CASE ~Aborted(c)
      <4>1. /\ phase' = [phase EXCEPT ![c] = "answering"]
            /\ UNCHANGED <<answer, lost, granted, att, shut, ghost, exit>>
        BY <1>5, <3>2 DEF Conclude, server
      <4>. QED BY <4>1 DEF LocalTypes, Phase
    <3>. QED BY <3>1, <3>2
  <2>. QED BY <2>1, <2>2, <2>3, TypePartsNext
<1>6. CASE RetryAnswer(c)
  <2>1. RowTypes'
    BY <1>6, DurationsAssumption DEF RowTypes, RowStatus, Outcome, server, Attempts, RetryAnswer
  <2>2. TimerTypes'
    BY <1>6, CallTypes, ChildTypes DEF TimerTypes, RetryAnswer
  <2>3. LocalTypes'
    BY <1>6, DurationsAssumption DEF RowTypes, RowStatus, Outcome, LocalTypes, server, Phase, Attempts, RetryAnswer
  <2>. QED BY <2>1, <2>2, <2>3, TypePartsNext
<1>7. CASE AnswerEnds(c)
  <2>1. RowTypes'
    BY <1>7, DurationsAssumption DEF RowTypes, RowStatus, Outcome, server, Attempts, AnswerEnds, ReturnToLoop
  <2>2. TimerTypes'
    BY <1>7, CallTypes, ChildTypes DEF TimerTypes, AnswerEnds, ReturnToLoop
  <2>3. LocalTypes'
    BY <1>7, DurationsAssumption DEF RowTypes, RowStatus, Outcome, LocalTypes, server, Phase, Attempts, AnswerEnds, ReturnToLoop
  <2>. QED BY <2>1, <2>2, <2>3, TypePartsNext
<1>. QED BY <1>1, <1>2, <1>3, <1>4, <1>5, <1>6, <1>7 DEF RunStep

LEMMA HeartbeatType ==
  ASSUME TypeOK, NEW c \in Connector, HeartbeatStep(c)
  PROVE  TypeOK'
<1>. /\ Timeout \in Nat /\ ClaimTimeout \in Nat /\ Interval \in Nat
     /\ NextTurn(c) \in Phase
     /\ RowTypes /\ TimerTypes /\ LocalTypes
  BY DurationsAssumption, TypeParts DEF NextTurn, Phase
<1>1. CASE SendHeartbeat(c)
  <2>1. RowTypes'
    BY <1>1, DurationsAssumption DEF RowTypes, RowStatus, Outcome, server, Attempts, SendHeartbeat
  <2>2. TimerTypes'
    BY <1>1, CallTypes, ChildTypes DEF TimerTypes, SendHeartbeat
  <2>3. LocalTypes'
    BY <1>1, DurationsAssumption DEF RowTypes, RowStatus, Outcome, LocalTypes, server, Phase, Attempts, SendHeartbeat
  <2>. QED BY <2>1, <2>2, <2>3, TypePartsNext
<1>2. CASE HeartbeatOk(c)
  <2>1. RowTypes'
    BY <1>2, DurationsAssumption DEF RowTypes, RowStatus, Outcome, server, Attempts, HeartbeatOk
  <2>2. TimerTypes'
    BY <1>2, CallTypes, ChildTypes DEF TimerTypes, HeartbeatOk
  <2>3. LocalTypes'
    BY <1>2, DurationsAssumption DEF RowTypes, RowStatus, Outcome, LocalTypes, server, Phase, Attempts, HeartbeatOk
  <2>. QED BY <2>1, <2>2, <2>3, TypePartsNext
<1>3. CASE RetryHeartbeat(c)
  <2>1. RowTypes'
    BY <1>3, DurationsAssumption DEF RowTypes, RowStatus, Outcome, server, Attempts, RetryHeartbeat
  <2>2. TimerTypes'
    BY <1>3, CallTypes, ChildTypes DEF TimerTypes, RetryHeartbeat
  <2>3. LocalTypes'
    BY <1>3, DurationsAssumption DEF RowTypes, RowStatus, Outcome, LocalTypes, server, Phase, Attempts, RetryHeartbeat
  <2>. QED BY <2>1, <2>2, <2>3, TypePartsNext
<1>4. CASE HeartbeatFails(c)
  <2>1. RowTypes'
    BY <1>4, DurationsAssumption DEF RowTypes, RowStatus, Outcome, server, Attempts, HeartbeatFails
  <2>2. TimerTypes'
    BY <1>4, CallTypes, ChildTypes DEF TimerTypes, HeartbeatFails
  <2>3. LocalTypes'
    BY <1>4, DurationsAssumption DEF RowTypes, RowStatus, Outcome, LocalTypes, server, Phase, Attempts, HeartbeatFails
  <2>. QED BY <2>1, <2>2, <2>3, TypePartsNext
<1>. QED BY <1>1, <1>2, <1>3, <1>4 DEF HeartbeatStep

LEMMA StopType ==
  ASSUME TypeOK, NEW c \in Connector, Shutdown(c) \/ Crash(c)
  PROVE  TypeOK'
<1>. /\ Timeout \in Nat /\ ClaimTimeout \in Nat /\ Interval \in Nat
     /\ NextTurn(c) \in Phase
     /\ RowTypes /\ TimerTypes /\ LocalTypes
  BY DurationsAssumption, TypeParts DEF NextTurn, Phase
<1>1. CASE Shutdown(c)
  <2>1. RowTypes'
    BY <1>1, DurationsAssumption DEF RowTypes, RowStatus, Outcome, server, Attempts, Shutdown
  <2>2. TimerTypes'
    BY <1>1, CallTypes, ChildTypes DEF TimerTypes, Shutdown
  <2>3. LocalTypes'
    BY <1>1, DurationsAssumption DEF RowTypes, RowStatus, Outcome, LocalTypes, server, Phase, Attempts, Shutdown
  <2>. QED BY <2>1, <2>2, <2>3, TypePartsNext
<1>2. CASE Crash(c)
  <2>1. RowTypes'
    BY <1>2, DurationsAssumption DEF RowTypes, RowStatus, Outcome, server, Attempts, Crash
  <2>2. TimerTypes'
    BY <1>2, CallTypes, ChildTypes DEF TimerTypes, Crash
  <2>3. LocalTypes'
    BY <1>2, DurationsAssumption DEF RowTypes, RowStatus, Outcome, LocalTypes, server, Phase, Attempts, Crash
  <2>. QED BY <2>1, <2>2, <2>3, TypePartsNext
<1>. QED BY <1>1, <1>2

LEMMA TickType == TypeOK /\ Tick => TypeOK'
<1>. SUFFICES ASSUME TypeOK, Tick
              PROVE  TypeOK'
  OBVIOUS
<1>. RowTypes /\ TimerTypes /\ LocalTypes
  BY TypeParts
<1>1. RowTypes'
  BY DurationsAssumption DEF RowTypes, RowStatus, Outcome, Tick, Elapse
<1>2. TimerTypes'
  BY CallTypes, ChildTypes DEF TimerTypes, Tick
<1>3. LocalTypes'
  BY DEF LocalTypes, Tick
<1>. QED BY <1>1, <1>2, <1>3, TypePartsNext

LEMMA NextType == TypeOK /\ [Next]_vars => TypeOK'
<1>. SUFFICES ASSUME TypeOK, [Next]_vars
              PROVE  TypeOK'
  OBVIOUS
<1>1. CASE UNCHANGED vars
  BY <1>1 DEF vars, server, worker, TypeOK
<1>2. ASSUME NEW c \in Connector,
             ServerStep(c) \/ ClaimStep(c) \/ RunStep(c) \/ HeartbeatStep(c)
      PROVE  TypeOK'
  BY <1>2, ServerType, ClaimType, RunType, HeartbeatType
<1>3. CASE Recover
  <2>1. PICK c \in Connector : Polling(c)
    BY <1>3 DEF Recover
  <2>. QED BY <1>3, ServerType
<1>. QED BY <1>1, <1>2, <1>3, StopType, TickType DEF Next

(* The worker's module keeps its types, for all durations.                 *)
THEOREM WorkerTypes == Spec => []TypeOK
BY InitType, NextType, PTL DEF Spec

----------------------------------------------------------------------------
(* The inductive invariant.                                                *)

(* Phases of a worker that has a lease and renews it.                      *)
Leasing == {"announcing", "running", "reporting", "stopping"}

(* How the parts of one worker's state fit together.                       *)
Shape(c) ==
  /\ phase[c] \in Leasing \union {"answering"} => att[c] # 0
  /\ phase[c] = "claiming" /\ call[c].at = "ok" => att[c] # 0
  /\ ~Alive(c) => child[c].by = {}
  /\ child[c].by # {} => child[c].kill <= Grace
  /\ hb[c].at # "off" => phase[c] \in Leasing /\ ~lost[c]
  /\ hb[c].at = "wait" => phase[c] # "stopping"
  /\ InFlight(hb[c]) => hb[c].try >= 1 /\ hb[c].try <= Retries + 1
  /\ phase[c] \in {"announcing", "running"} /\ ~lost[c] => hb[c].at # "off"
  /\ lost[c] => phase[c] \in Leasing \union {"crashed"}
  /\ phase[c] = "running" /\ lost[c] => child[c].by # {}

(* Two workers never have the same attempt.                                *)
Unshared == \A c, d \in Connector : att[c] = att[d] /\ att[c] # 0 => c = d

(* run.started is reported before the first renewal is due.                *)
Announced(c) ==
  phase[c] = "announcing" =>
    /\ call[c].at = "wait"
    /\ \/ hb[c].at = "wait" /\ call[c].left <= hb[c].left
       \/ call[c].left = 0

(* The longest time until a provider is dead, or its lease renewed.        *)
Horizon(c) ==
  CASE lost[c] /\ phase[c] = "announcing" -> Grace
    [] lost[c] /\ phase[c] # "announcing" -> child[c].kill
    [] ~lost[c] /\ hb[c].at = "wait" -> hb[c].left + (Retries + 1) * Timeout + Grace
    [] OTHER -> hb[c].left + (Retries + 1 - hb[c].try) * Timeout + Grace

(* The lease outlasts the provider, counted from the last renewal whose    *)
(* response may still arrive.                                              *)
Covered(c) ==
  /\ phase[c] \in {"announcing", "running"} =>
       Held(att[c]) /\ Horizon(c) < leaseLeft
  /\ phase[c] \in {"announcing", "running"} /\ Arrived(hb[c], "ok") =>
       leaseLeft + hb[c].age >= LeaseTime
  /\ ClaimArrived(c) =>
       Held(att[c]) /\ leaseLeft + call[c].age >= LeaseTime

(* What an attempt's records say at each stage.                            *)
Untold == {"open", "expired"}

(* The worker has, or is about to receive, an attempt it cannot answer yet. *)
Unanswerable(c) ==
  \/ phase[c] = "claiming" /\ call[c].at = "ok"
  \/ phase[c] \in {"announcing", "running"}

Truthful(c) ==
  /\ Unanswerable(c) =>
       outcome[att[c]] \in Untold /\ exit[att[c]] = NoExit
  /\ phase[c] \in {"reporting", "stopping"} =>
       /\ outcome[att[c]] \in Untold
       /\ "abort" \in exit[att[c]].by => Aborted(c)
  /\ phase[c] \in {"reporting", "stopping", "answering"} =>
       /\ answer[c] = "complete" => exit[att[c]] = [code |-> "zero", by |-> {}]
       /\ answer[c] = "business" =>
            exit[att[c]].code \in {"nonzero", "malformed"} /\ exit[att[c]].by = {}
  /\ phase[c] = "answering" => "abort" \notin exit[att[c]].by
  /\ "abort" \in child[c].by => Aborted(c)

Fresh ==
  /\ status = "active" => holder # 0
  /\ \A n \in Attempts : n > granted => outcome[n] = "open" /\ exit[n] = NoExit


WorkerInv ==
  /\ TypeOK
  /\ Unshared
  /\ \A c \in Connector : Shape(c) /\ Announced(c)

----------------------------------------------------------------------------
(* Fields of the records the steps build.                                  *)

LEMMA CallFields ==
  /\ Off.at = "off" /\ Off.left = 0
  /\ \A time \in Nat : Wait(time).at = "wait" /\ Wait(time).left = time
  /\ \A time \in Nat : /\ Send(time).at = "request" /\ Send(time).left = time
                       /\ Send(time).try = 1 /\ Send(time).age = 0
  /\ \A m \in Call, time \in Nat :
       /\ Again(m, time).at = "request" /\ Again(m, time).left = time
       /\ Again(m, time).try = m.try + 1 /\ Again(m, time).age = 0
  /\ \A m \in Call : \A with \in {"ok", "conflict"} :
       /\ Respond(m, with).at = with /\ Respond(m, with).left = m.left
       /\ Respond(m, with).try = m.try /\ Respond(m, with).age = 0
  /\ \A m \in Call :
       /\ Older(m).at = m.at /\ Older(m).left = Elapse(m.left)
       /\ Older(m).try = m.try
       /\ Older(m).age = IF InFlight(m) /\ m.age < TooOld THEN m.age + 1 ELSE m.age
BY DEF Call, Off, Wait, Send, Again, Respond, Older

LEMMA CallRange ==
  \A m \in Call : /\ m.at \in {"off", "wait", "request", "ok", "conflict"}
                  /\ m.age \in Nat /\ m.left \in Nat /\ m.try \in Nat
BY DEF Call

LEMMA ChildFields ==
  /\ NoChild.by = {} /\ NoChild.kill = 0
  /\ \A p \in Child : \A cause \in {"timeout", "abort"} :
       /\ Terminate(p, cause).by = p.by \union {cause}
       /\ Terminate(p, cause).kill = IF p.by = {} THEN Grace ELSE p.kill
  /\ \A p \in Child : p.kill \in Nat /\ p.by \subseteq {"timeout", "abort"}
BY DEF Child, NoChild, Terminate

(* Steps of one connector leave the worker state of the others alone.      *)
OneOf(c) ==
  \/ ServerStep(c)
  \/ ClaimStep(c)
  \/ RunStep(c)
  \/ HeartbeatStep(c)
  \/ Shutdown(c)
  \/ Crash(c)

Same(e) ==
  /\ phase'[e] = phase[e]
  /\ att'[e] = att[e]
  /\ call'[e] = call[e]
  /\ hb'[e] = hb[e]
  /\ lost'[e] = lost[e]
  /\ shut'[e] = shut[e]
  /\ answer'[e] = answer[e]
  /\ child'[e] = child[e]

LEMMA OthersSame ==
  ASSUME TypeOK, NEW c \in Connector, OneOf(c),
         NEW e \in Connector, e # c
  PROVE  Same(e)
<1>1. CASE GrantLease(c)
  BY <1>1 DEF TypeOK, Same, server, GrantLease, Grant
<1>2. CASE GrantToNobody(c)
  BY <1>2 DEF TypeOK, Same, server, GrantToNobody, Grant
<1>3. CASE PollEnds(c)
  BY <1>3 DEF TypeOK, Same, server, PollEnds
<1>4. CASE ServeHeartbeat(c)
  BY <1>4 DEF TypeOK, Same, server, ServeHeartbeat
<1>5. CASE ServeAnswer(c)
  BY <1>5 DEF TypeOK, Same, server, ServeAnswer, ServeComplete, ServeFail
<1>6. CASE Poll(c)
  BY <1>6 DEF TypeOK, Same, server, Poll
<1>7. CASE NothingToDo(c)
  BY <1>7 DEF TypeOK, Same, server, NothingToDo
<1>8. CASE ClaimFails(c)
  BY <1>8 DEF TypeOK, Same, server, ClaimFails
<1>9. CASE StartLease(c)
  BY <1>9 DEF TypeOK, Same, server, StartLease
<1>10. CASE MalformedPayload(c)
  BY <1>10 DEF TypeOK, Same, server, MalformedPayload
<1>11. CASE RunThrows(c)
  BY <1>11 DEF TypeOK, Same, server, RunThrows
<1>12. CASE Spawn(c)
  BY <1>12 DEF TypeOK, Same, server, Spawn
<1>13. CASE RunTimesOut(c)
  BY <1>13 DEF TypeOK, Same, server, RunTimesOut
<1>14. CASE \E code \in {"zero", "nonzero", "null"} : Exit(c, code)
  BY <1>14 DEF TypeOK, Same, server, Exit
<1>15. CASE StopHeartbeat(c)
  BY <1>15 DEF TypeOK, Same, server, StopHeartbeat
<1>16. CASE Conclude(c)
  BY <1>16 DEF TypeOK, Same, server, Conclude, ReturnToLoop
<1>17. CASE RetryAnswer(c)
  BY <1>17 DEF TypeOK, Same, server, RetryAnswer
<1>18. CASE AnswerEnds(c)
  BY <1>18 DEF TypeOK, Same, server, AnswerEnds, ReturnToLoop
<1>19. CASE SendHeartbeat(c)
  BY <1>19 DEF TypeOK, Same, server, SendHeartbeat
<1>20. CASE HeartbeatOk(c)
  BY <1>20 DEF TypeOK, Same, server, HeartbeatOk
<1>21. CASE RetryHeartbeat(c)
  BY <1>21 DEF TypeOK, Same, server, RetryHeartbeat
<1>22. CASE HeartbeatFails(c)
  BY <1>22 DEF TypeOK, Same, server, HeartbeatFails
<1>23. CASE Shutdown(c)
  BY <1>23 DEF TypeOK, Same, server, Shutdown
<1>24. CASE Crash(c)
  BY <1>24 DEF TypeOK, Same, server, Crash
<1>. QED
  BY <1>1, <1>2, <1>3, <1>4, <1>5, <1>6, <1>7, <1>8, <1>9, <1>10, <1>11, <1>12, <1>13, <1>14, <1>15, <1>16, <1>17, <1>18, <1>19, <1>20, <1>21, <1>22, <1>23, <1>24
  DEF OneOf, ServerStep, ClaimStep, RunStep, HeartbeatStep

LEMMA SameShape ==
  ASSUME NEW e \in Connector, Same(e)
  PROVE  /\ Shape(e) => Shape(e)'
         /\ Announced(e) => Announced(e)'
BY DEF Same, Shape, Announced, Alive

(* One leaf per action: the worker that takes it keeps its shape.          *)
LEMMA OwnShape ==
  ASSUME TypeOK, NEW c \in Connector, OneOf(c), Shape(c), Announced(c)
  PROVE  Shape(c)' /\ Announced(c)'
<1>. /\ call[c] \in Call /\ hb[c] \in Call /\ child[c] \in Child
     /\ Timeout \in Nat /\ ClaimTimeout \in Nat /\ Interval \in Nat
     /\ Retries \in Nat /\ Grace \in Nat
     /\ granted \in Nat
  BY DurationsAssumption DEF TypeOK
<1>1. CASE GrantLease(c)
  BY <1>1, CallFields, CallRange, ChildFields, EmitAssumption
  DEF TypeOK, Shape, Announced, Alive, Leasing, InFlight, server,
      GrantLease, Grant
<1>2. CASE GrantToNobody(c)
  BY <1>2, CallFields, CallRange, ChildFields, EmitAssumption
  DEF TypeOK, Shape, Announced, Alive, Leasing, InFlight, server,
      GrantToNobody, Grant
<1>3. CASE PollEnds(c)
  BY <1>3, CallFields, CallRange, ChildFields, EmitAssumption
  DEF TypeOK, Shape, Announced, Alive, Leasing, InFlight, server,
      PollEnds
<1>4. CASE ServeHeartbeat(c)
  <2>1. /\ hb[c].at = "request"
        /\ \E with \in {"ok", "conflict"} : hb' = [hb EXCEPT ![c] = Respond(@, with)]
        /\ UNCHANGED <<phase, att, call, lost, child>>
    BY <1>4 DEF ServeHeartbeat, Arrived
  <2>2. PICK with \in {"ok", "conflict"} : hb'[c] = Respond(hb[c], with)
    BY <2>1 DEF TypeOK
  <2>. QED BY <2>1, <2>2, CallFields, CallRange, ChildFields
    DEF Shape, Announced, Alive, Leasing, InFlight
<1>5. CASE ServeAnswer(c)
  BY <1>5, CallFields, CallRange, ChildFields, EmitAssumption
  DEF TypeOK, Shape, Announced, Alive, Leasing, InFlight, server,
      ServeAnswer, ServeComplete, ServeFail
<1>6. CASE Poll(c)
  BY <1>6, CallFields, CallRange, ChildFields, EmitAssumption
  DEF TypeOK, Shape, Announced, Alive, Leasing, InFlight, server,
      Poll
<1>7. CASE NothingToDo(c)
  BY <1>7, CallFields, CallRange, ChildFields, EmitAssumption
  DEF TypeOK, Shape, Announced, Alive, Leasing, InFlight, server,
      NothingToDo, NextTurn
<1>8. CASE ClaimFails(c)
  BY <1>8, CallFields, CallRange, ChildFields, EmitAssumption
  DEF TypeOK, Shape, Announced, Alive, Leasing, InFlight, server,
      ClaimFails, NextTurn
<1>9. CASE StartLease(c)
  BY <1>9, CallFields, CallRange, ChildFields, EmitAssumption
  DEF TypeOK, Shape, Announced, Alive, Leasing, InFlight, server,
      StartLease, ClaimArrived
<1>10. CASE MalformedPayload(c)
  BY <1>10, CallFields, CallRange, ChildFields, EmitAssumption
  DEF TypeOK, Shape, Announced, Alive, Leasing, InFlight, server,
      MalformedPayload, ClaimArrived
<1>11. CASE RunThrows(c)
  BY <1>11, CallFields, CallRange, ChildFields, EmitAssumption
  DEF TypeOK, Shape, Announced, Alive, Leasing, InFlight, server,
      RunThrows, ClaimArrived
<1>12. CASE Spawn(c)
  <2>1. /\ phase[c] = "announcing" /\ phase'[c] = "running" /\ call'[c] = Off
        /\ UNCHANGED <<att, hb, lost>>
        /\ child'[c] = IF Aborted(c) THEN Terminate(NoChild, "abort") ELSE NoChild
    BY <1>12 DEF Spawn, TypeOK
  <2>2. /\ child'[c].kill <= Grace
        /\ Aborted(c) => child'[c].by # {}
    <3>1. CASE Aborted(c)
      <4>1. child'[c] = Terminate(NoChild, "abort")
        BY <2>1, <3>1
      <4>2. /\ Terminate(NoChild, "abort").by = {} \union {"abort"}
            /\ Terminate(NoChild, "abort").kill = Grace
        BY ChildTypes, ChildFields
      <4>. QED BY <4>1, <4>2
    <3>2. CASE ~Aborted(c)
      BY <2>1, <3>2, ChildTypes, ChildFields
    <3>. QED BY <3>1, <3>2
  <2>3. lost[c] => Aborted(c)
    BY DEF Aborted
  <2>. QED BY <2>1, <2>2, <2>3, CallFields, CallRange, ChildFields
    DEF Shape, Announced, Alive, Leasing, InFlight
<1>13. CASE RunTimesOut(c)
  BY <1>13, CallFields, CallRange, ChildFields, EmitAssumption
  DEF TypeOK, Shape, Announced, Alive, Leasing, InFlight, server,
      RunTimesOut
<1>14. CASE \E code \in {"zero", "nonzero", "null"} : Exit(c, code)
  BY <1>14, CallFields, CallRange, ChildFields, EmitAssumption
  DEF TypeOK, Shape, Announced, Alive, Leasing, InFlight, server,
      Exit
<1>15. CASE StopHeartbeat(c)
  BY <1>15, CallFields, CallRange, ChildFields, EmitAssumption
  DEF TypeOK, Shape, Announced, Alive, Leasing, InFlight, server,
      StopHeartbeat
<1>16. CASE Conclude(c)
  BY <1>16, CallFields, CallRange, ChildFields, EmitAssumption
  DEF TypeOK, Shape, Announced, Alive, Leasing, InFlight, server,
      Conclude, ReturnToLoop, NextTurn, Settled, Aborted
<1>17. CASE RetryAnswer(c)
  BY <1>17, CallFields, CallRange, ChildFields, EmitAssumption
  DEF TypeOK, Shape, Announced, Alive, Leasing, InFlight, server,
      RetryAnswer, MayRepeat
<1>18. CASE AnswerEnds(c)
  BY <1>18, CallFields, CallRange, ChildFields, EmitAssumption
  DEF TypeOK, Shape, Announced, Alive, Leasing, InFlight, server,
      AnswerEnds, ReturnToLoop, NextTurn
<1>19. CASE SendHeartbeat(c)
  BY <1>19, CallFields, CallRange, ChildFields, EmitAssumption
  DEF TypeOK, Shape, Announced, Alive, Leasing, InFlight, server,
      SendHeartbeat
<1>20. CASE HeartbeatOk(c)
  BY <1>20, CallFields, CallRange, ChildFields, EmitAssumption
  DEF TypeOK, Shape, Announced, Alive, Leasing, InFlight, server,
      HeartbeatOk, Arrived
<1>21. CASE RetryHeartbeat(c)
  BY <1>21, CallFields, CallRange, ChildFields, EmitAssumption
  DEF TypeOK, Shape, Announced, Alive, Leasing, InFlight, server,
      RetryHeartbeat, MayRepeat
<1>22. CASE HeartbeatFails(c)
  <2>1. /\ InFlight(hb[c])
        /\ hb'[c] = Off /\ lost'[c] = TRUE /\ child'[c] = AbortRun(c)
        /\ UNCHANGED <<phase, att, call>>
    BY <1>22 DEF HeartbeatFails, TypeOK, Arrived, Exhausted, InFlight
  <2>2. /\ ~Alive(c) => child'[c].by = {}
        /\ Alive(c) => child'[c].by # {}
        /\ child'[c].by # {} => child'[c].kill <= Grace
    <3>1. CASE Alive(c)
      <4>1. child'[c] = Terminate(child[c], "abort")
        BY <2>1, <3>1 DEF AbortRun
      <4>2. child[c].by # {} => child[c].kill <= Grace
        BY DEF Shape
      <4>. QED BY <3>1, <4>1, <4>2, ChildFields
    <3>2. CASE ~Alive(c)
      BY <2>1, <3>2 DEF AbortRun, Shape
    <3>. QED BY <3>1, <3>2
  <2>. QED BY <2>1, <2>2, CallFields, CallRange, ChildFields
    DEF Shape, Announced, Alive, Leasing, InFlight
<1>23. CASE Shutdown(c)
  <2>1. /\ child'[c] = AbortRun(c)
        /\ UNCHANGED <<att, hb, lost>>
        /\ \/ phase[c] \in {"idle", "claiming"} /\ phase'[c] = "stopped" /\ call'[c] = Off
           \/ UNCHANGED <<phase, call>>
    BY <1>23 DEF Shutdown, TypeOK
  <2>2. /\ ~Alive(c) => child'[c].by = {}
        /\ Alive(c) => child'[c].by # {}
        /\ child'[c].by # {} => child'[c].kill <= Grace
    <3>1. CASE Alive(c)
      <4>1. child'[c] = Terminate(child[c], "abort")
        BY <2>1, <3>1 DEF AbortRun
      <4>2. child[c].by # {} => child[c].kill <= Grace
        BY DEF Shape
      <4>. QED BY <3>1, <4>1, <4>2, ChildFields
    <3>2. CASE ~Alive(c)
      BY <2>1, <3>2 DEF AbortRun, Shape
    <3>. QED BY <3>1, <3>2
  <2>. QED BY <2>1, <2>2, CallFields, CallRange, ChildFields
    DEF Shape, Announced, Alive, Leasing, InFlight
<1>24. CASE Crash(c)
  BY <1>24, CallFields, CallRange, ChildFields, EmitAssumption
  DEF TypeOK, Shape, Announced, Alive, Leasing, InFlight, server,
      Crash
<1>. QED
  BY <1>1, <1>2, <1>3, <1>4, <1>5, <1>6, <1>7, <1>8, <1>9, <1>10, <1>11, <1>12, <1>13, <1>14, <1>15, <1>16, <1>17, <1>18, <1>19, <1>20, <1>21, <1>22, <1>23, <1>24
  DEF OneOf, ServerStep, ClaimStep, RunStep, HeartbeatStep

LEMMA TickShape ==
  ASSUME TypeOK, Tick, NEW c \in Connector, Shape(c), Announced(c)
  PROVE  Shape(c)' /\ Announced(c)'
<1>1. /\ call[c] \in Call /\ hb[c] \in Call /\ child[c] \in Child
      /\ Grace \in Nat
  BY DurationsAssumption DEF TypeOK
<1>2. /\ UNCHANGED <<phase, att, lost>>
      /\ call'[c] = Older(call[c]) /\ hb'[c] = Older(hb[c])
      /\ child'[c] = [child[c] EXCEPT !.kill = Elapse(@)]
  BY DEF Tick
<1>3. child'[c].by = child[c].by /\ child'[c].kill = Elapse(child[c].kill)
  BY <1>1, <1>2 DEF Child
<1>4. /\ call'[c].at = call[c].at /\ call'[c].left = Elapse(call[c].left)
      /\ hb'[c].at = hb[c].at /\ hb'[c].left = Elapse(hb[c].left)
      /\ hb'[c].try = hb[c].try
  BY <1>1, <1>2, CallFields
<1>5. /\ call[c].left \in Nat /\ hb[c].left \in Nat /\ child[c].kill \in Nat
  BY <1>1, CallRange, ChildFields
<1>6. Shape(c)'
  BY <1>1, <1>2, <1>3, <1>4, <1>5 DEF Shape, Alive, Leasing, InFlight, Elapse
<1>7. Announced(c)'
  BY <1>2, <1>4, <1>5 DEF Announced, Elapse
<1>. QED BY <1>6, <1>7

(* Only a grant gives a worker an attempt, and a new one.                  *)
LEMMA NewAttempt ==
  ASSUME TypeOK, NEW c \in Connector, OneOf(c)
  PROVE  att'[c] = att[c] \/ att'[c] = granted + 1
BY DEF TypeOK, server, OneOf, ServerStep, ClaimStep, RunStep, HeartbeatStep,
       GrantLease, GrantToNobody, PollEnds, ServeHeartbeat, ServeAnswer,
       Poll, NothingToDo, ClaimFails, StartLease, MalformedPayload, RunThrows,
       Spawn, RunTimesOut, Exit, StopHeartbeat, Conclude, RetryAnswer, AnswerEnds,
       SendHeartbeat, HeartbeatOk, RetryHeartbeat, HeartbeatFails, Shutdown, Crash

LEMMA UnsharedStep ==
  ASSUME WorkerInv, NEW c \in Connector, OneOf(c)
  PROVE  Unshared'
<1>. SUFFICES ASSUME NEW d \in Connector, NEW e \in Connector,
                     att'[d] = att'[e], att'[d] # 0
              PROVE  d = e
  BY DEF Unshared
<1>. TypeOK /\ Unshared
  BY DEF WorkerInv
<1>1. \A f \in Connector : f # c => att'[f] = att[f]
  BY OthersSame DEF Same
<1>2. att'[c] = att[c] \/ att'[c] = granted + 1
  BY NewAttempt
<1>3. \A f \in Connector : att[f] \in 0..granted
  BY DEF TypeOK
<1>4. granted \in Nat
  BY DurationsAssumption DEF TypeOK
<1>. QED BY <1>1, <1>2, <1>3, <1>4 DEF Unshared

LEMMA InvInit == Init => WorkerInv
<1>. SUFFICES ASSUME Init
              PROVE  WorkerInv
  OBVIOUS
<1>1. TypeOK
  BY InitType
<1>2. Unshared
  BY DEF Init, Unshared
<1>3. ASSUME NEW c \in Connector PROVE Shape(c) /\ Announced(c)
  BY CallFields, ChildFields
  DEF Init, Shape, Announced, Alive, Leasing, InFlight
<1>. QED BY <1>1, <1>2, <1>3 DEF WorkerInv

LEMMA InvNext == WorkerInv /\ [Next]_vars => WorkerInv'
<1>. SUFFICES ASSUME WorkerInv, [Next]_vars
              PROVE  WorkerInv'
  OBVIOUS
<1>. TypeOK /\ Unshared /\ TypeOK'
  BY NextType DEF WorkerInv
<1>1. ASSUME NEW c \in Connector, OneOf(c)
      PROVE  WorkerInv'
  <2>1. ASSUME NEW e \in Connector PROVE Shape(e)' /\ Announced(e)'
    <3>1. CASE e = c
      BY <1>1, <3>1, OwnShape DEF WorkerInv
    <3>2. CASE e # c
      <4>1. Same(e)
        BY <1>1, <3>2, OthersSame
      <4>. QED BY <4>1, SameShape DEF WorkerInv
    <3>. QED BY <3>1, <3>2
  <2>2. Unshared'
    BY <1>1, UnsharedStep
  <2>. QED BY <2>1, <2>2 DEF WorkerInv
<1>2. CASE Recover \/ UNCHANGED vars
  <2>1. UNCHANGED worker
    BY <1>2 DEF Recover, vars
  <2>2. \A e \in Connector : Same(e)
    BY <2>1 DEF worker, Same
  <2>3. \A e \in Connector : Shape(e)' /\ Announced(e)'
    BY <2>2, SameShape DEF WorkerInv
  <2>4. Unshared'
    BY <2>1 DEF worker, Unshared
  <2>. QED BY <2>3, <2>4 DEF WorkerInv
<1>3. CASE Tick
  <2>1. \A e \in Connector : Shape(e)' /\ Announced(e)'
    BY <1>3, TickShape DEF WorkerInv
  <2>2. Unshared'
    BY <1>3 DEF Tick, Unshared
  <2>. QED BY <2>1, <2>2 DEF WorkerInv
<1>. QED BY <1>1, <1>2, <1>3 DEF Next, OneOf

(* While an answer is on its way nothing else of the lease is: stopping    *)
(* the renewals first makes it so, whatever is lost or late.               *)
THEOREM WorkerAnswersAlone == Spec => []AnswerAfterRenewals
<1>1. WorkerInv => AnswerAfterRenewals
  BY DEF WorkerInv, Shape, AnswerAfterRenewals, Alive, Leasing
<1>. QED BY <1>1, InvInit, InvNext, PTL DEF Spec

----------------------------------------------------------------------------
(* The timing argument.                                                    *)

(* c has a provider, is about to start one, or has a claim it may accept.  *)
Busy(c) == phase[c] \in {"announcing", "running"} \/ ClaimArrived(c)

(* The time the tries of a renewal take that are still to come.            *)
TriesLeft(n) == (Retries + 1 - n) * Timeout

LEMMA Tries ==
  /\ TriesLeft(0) = (Retries + 1) * Timeout
  /\ \A n \in Nat : TriesLeft(n) = TriesLeft(n + 1) + Timeout
  /\ \A n \in Nat : n <= Retries + 1 => TriesLeft(n) \in Nat
<1>. Retries \in Nat /\ Timeout \in Nat
  BY DurationsAssumption
<1>1. TriesLeft(0) = (Retries + 1) * Timeout
  BY DEF TriesLeft
<1>2. ASSUME NEW n \in Nat PROVE TriesLeft(n) = TriesLeft(n + 1) + Timeout
  BY DEF TriesLeft
<1>3. ASSUME NEW n \in Nat, n <= Retries + 1 PROVE TriesLeft(n) \in Nat
  <2>1. PICK k \in Nat : k = Retries + 1 - n
    BY <1>3
  <2>. QED BY <2>1 DEF TriesLeft
<1>. QED BY <1>1, <1>2, <1>3

(* Horizon, case by case.                                                  *)
LEMMA Horizons ==
  ASSUME NEW c \in Connector
  PROVE  /\ lost[c] /\ phase[c] = "announcing" => Horizon(c) = Grace
         /\ lost[c] /\ phase[c] # "announcing" => Horizon(c) = child[c].kill
         /\ ~lost[c] /\ hb[c].at = "wait" =>
              Horizon(c) = hb[c].left + TriesLeft(0) + Grace
         /\ ~lost[c] /\ hb[c].at # "wait" =>
              Horizon(c) = hb[c].left + TriesLeft(hb[c].try) + Grace
BY Tries DEF Horizon, TriesLeft

LEMMA HorizonsNext ==
  ASSUME NEW c \in Connector
  PROVE  /\ lost'[c] /\ phase'[c] = "announcing" => Horizon(c)' = Grace
         /\ lost'[c] /\ phase'[c] # "announcing" => Horizon(c)' = child'[c].kill
         /\ ~lost'[c] /\ hb'[c].at = "wait" =>
              Horizon(c)' = hb'[c].left + TriesLeft(0) + Grace
         /\ ~lost'[c] /\ hb'[c].at # "wait" =>
              Horizon(c)' = hb'[c].left + TriesLeft(hb'[c].try) + Grace
BY Tries DEF Horizon, TriesLeft

LEMMA HorizonNat ==
  ASSUME WorkerInv, NEW c \in Connector, phase[c] \in {"announcing", "running"}
  PROVE  Horizon(c) \in Nat
<1>1. /\ hb[c] \in Call /\ child[c] \in Child /\ Grace \in Nat /\ Retries \in Nat
      /\ lost[c] \in BOOLEAN /\ Shape(c)
  BY DurationsAssumption DEF WorkerInv, TypeOK
<1>2. hb[c].left \in Nat /\ hb[c].try \in Nat /\ child[c].kill \in Nat
  BY <1>1, CallRange, ChildFields
<1>3. TriesLeft(0) \in Nat
  BY <1>1, Tries
<1>4. CASE ~lost[c] /\ hb[c].at # "wait"
  <2>1. InFlight(hb[c])
    BY <1>1, <1>4, CallRange DEF Shape, InFlight
  <2>2. TriesLeft(hb[c].try) \in Nat
    BY <1>1, <1>2, <2>1, Tries DEF Shape
  <2>. QED BY <1>1, <1>2, <1>4, <2>2, Horizons
<1>5. CASE lost[c] \/ hb[c].at = "wait"
  BY <1>1, <1>2, <1>3, <1>5, Horizons
<1>. QED BY <1>4, <1>5

(* A busy worker's lease is there, and some time of it is left.            *)
LEMMA BusyHolds ==
  ASSUME LeaseOutlastsSilence, WorkerInv, NEW c \in Connector, Covered(c), Busy(c)
  PROVE  Held(att[c]) /\ att[c] # 0 /\ leaseLeft > 0
<1>1. /\ Shape(c) /\ call[c] \in Call /\ leaseLeft \in Int /\ LeaseTime \in Nat
      /\ Interval \in Nat /\ Grace \in Nat /\ ClaimDelay \in Nat /\ Retries \in Nat
  BY DurationsAssumption DEF WorkerInv, TypeOK
<1>2. CASE phase[c] \in {"announcing", "running"}
  BY <1>1, <1>2, HorizonNat DEF Covered, Shape, Leasing
<1>3. CASE ClaimArrived(c)
  <2>1. Held(att[c]) /\ att[c] # 0 /\ leaseLeft + call[c].age >= LeaseTime
    BY <1>1, <1>3 DEF Covered, ClaimArrived, Shape
  <2>2. call[c].age \in Nat /\ call[c].age <= ClaimDelay
    BY <1>1, <1>3, CallRange DEF ClaimArrived
  <2>3. ClaimDelay < LeaseTime
    <3>1. TriesLeft(0) \in Nat
      BY <1>1, Tries
    <3>. QED BY <1>1, <3>1, Tries DEF LeaseOutlastsSilence
  <2>. QED BY <1>1, <2>1, <2>2, <2>3
<1>. QED BY <1>2, <1>3 DEF Busy

(* No step of another connector, of its requests on the server or of the   *)
(* recovery touches the lease of a busy worker.                            *)
LEMMA OthersKeepLease ==
  ASSUME LeaseOutlastsSilence, WorkerInv, NEW e \in Connector, Covered(e), Busy(e),
         NEW c \in Connector, OneOf(c), e # c
  PROVE  UNCHANGED <<status, holder, leaseLeft>>
<1>1. Held(att[e]) /\ att[e] # 0 /\ leaseLeft > 0
  BY BusyHolds
<1>2. ~Held(att[c]) /\ status = "active"
  BY <1>1 DEF Held, WorkerInv, Unshared
<1>3. leaseLeft # 0
  BY <1>1, DurationsAssumption DEF WorkerInv, TypeOK
<1>4. CASE ServerStep(c)
  <2>1. CASE ServeHeartbeat(c)
    BY <1>2, <1>3, <2>1 DEF ServeHeartbeat, RecoverExpired
  <2>2. CASE ServeAnswer(c)
    BY <1>2, <1>3, <2>2
    DEF ServeAnswer, ServeComplete, ServeFail, RecoverExpired
  <2>3. CASE GrantLease(c) \/ GrantToNobody(c) \/ PollEnds(c)
    BY <1>2, <2>3 DEF GrantLease, GrantToNobody, Grant, PollEnds, server
  <2>. QED BY <1>4, <2>1, <2>2, <2>3 DEF ServerStep
<1>5. CASE ClaimStep(c)
  BY <1>5 DEF ClaimStep, server, Poll, NothingToDo, ClaimFails, StartLease,
              MalformedPayload, RunThrows
<1>6. CASE RunStep(c)
  BY <1>6 DEF RunStep, server, Spawn, RunTimesOut, Exit, StopHeartbeat, Conclude,
              RetryAnswer, AnswerEnds
<1>7. CASE HeartbeatStep(c)
  BY <1>7 DEF HeartbeatStep, server, SendHeartbeat, HeartbeatOk, RetryHeartbeat,
              HeartbeatFails
<1>8. CASE Shutdown(c) \/ Crash(c)
  BY <1>8 DEF Shutdown, Crash, server
<1>. QED BY <1>4, <1>5, <1>6, <1>7, <1>8 DEF OneOf

(* A worker whose own state and lease stay as they are stays covered.      *)
LEMMA SameCovered ==
  ASSUME NEW e \in Connector, Same(e), Covered(e),
         Busy(e) => UNCHANGED <<status, holder, leaseLeft>>
  PROVE  Covered(e)'
<1>1. Horizon(e)' = Horizon(e)
  BY DEF Same, Horizon
<1>2. ClaimArrived(e)' <=> ClaimArrived(e)
  BY DEF Same, ClaimArrived
<1>. QED BY <1>1, <1>2 DEF Same, Covered, Busy, Held, Arrived

(* Steps after which the worker is not busy leave nothing to cover.        *)
LEMMA IdleCovered ==
  ASSUME NEW c \in Connector,
         phase'[c] \notin {"announcing", "running"},
         phase'[c] = "claiming" => call'[c].at # "ok"
  PROVE  Covered(c)'
BY DEF Covered, ClaimArrived

(* Steps that leave the lease, and a horizon that grows no further.        *)
LEMMA StillCovered ==
  ASSUME NEW c \in Connector, WorkerInv, Covered(c),
         phase[c] \in {"announcing", "running"},
         phase'[c] \in {"announcing", "running"},
         UNCHANGED <<server, att>>,
         Horizon(c)' \in Int, Horizon(c)' <= Horizon(c),
         Arrived(hb[c], "ok")' => hb'[c] = hb[c]
  PROVE  Covered(c)'
<1>1. Horizon(c) \in Nat
  BY HorizonNat
<1>2. leaseLeft \in Int
  BY DurationsAssumption DEF WorkerInv, TypeOK
<1>. QED BY <1>1, <1>2 DEF Covered, ClaimArrived, Held, server, Arrived

LEMMA ServerCovered ==
  ASSUME LeaseOutlastsSilence, WorkerInv, NEW c \in Connector,
         ServerStep(c), Covered(c)
  PROVE  Covered(c)'
<1>. /\ call[c] \in Call /\ hb[c] \in Call /\ LeaseTime \in Nat
     /\ leaseLeft \in 0..LeaseTime /\ Shape(c) /\ granted \in Nat
  BY DurationsAssumption DEF WorkerInv, TypeOK
<1>1. CASE GrantLease(c)
  <2>1. /\ phase'[c] = "claiming" /\ call'[c] = Respond(call[c], "ok")
        /\ att'[c] = granted + 1 /\ holder' = granted + 1 /\ status' = "active"
        /\ leaseLeft' = LeaseTime
    BY <1>1 DEF GrantLease, Grant, WorkerInv, TypeOK
  <2>2. call'[c].age = 0
    BY <2>1, CallFields
  <2>. QED BY <2>1, <2>2 DEF Covered, Held
<1>2. CASE GrantToNobody(c) \/ PollEnds(c)
  <2>1. Same(c)
    BY <1>2 DEF GrantToNobody, PollEnds, Same
  <2>2. Busy(c) => UNCHANGED <<status, holder, leaseLeft>>
    BY <1>2, BusyHolds DEF GrantToNobody, PollEnds, Grant, Held, server
  <2>. QED BY <2>1, <2>2, SameCovered
<1>3. CASE ServeHeartbeat(c)
  <2>1. PICK with \in {"ok", "conflict"} : hb'[c] = Respond(hb[c], with)
    BY <1>3 DEF ServeHeartbeat, WorkerInv, TypeOK
  <2>2. /\ UNCHANGED <<phase, att, call, lost, child>>
        /\ hb[c].at = "request"
    BY <1>3 DEF ServeHeartbeat, Arrived
  <2>3. hb'[c].left = hb[c].left /\ hb'[c].try = hb[c].try /\ hb'[c].age = 0
        /\ hb'[c].at # "wait"
    BY <2>1, CallFields
  <2>4. phase[c] \in Leasing /\ ~lost[c]
    BY <2>2 DEF Shape
  <2>5. ~ClaimArrived(c)'
    BY <2>2, <2>4 DEF ClaimArrived, Leasing
  <2>6. ASSUME phase[c] \in {"announcing", "running"}
        PROVE  Covered(c)'
    <3>1. Held(att[c]) /\ leaseLeft > 0
      BY <2>6, BusyHolds DEF Busy
    <3>2. leaseLeft' = LeaseTime /\ UNCHANGED <<status, holder>>
      BY <1>3, <3>1 DEF ServeHeartbeat
    <3>3. Horizon(c)' = Horizon(c)
      BY <2>2, <2>3, <2>4, Horizons, HorizonsNext
    <3>4. Horizon(c) \in Nat /\ Horizon(c) < leaseLeft
      BY <2>6, HorizonNat DEF Covered
    <3>. QED BY <2>2, <2>3, <2>5, <3>1, <3>2, <3>3, <3>4 DEF Covered, Held
  <2>. QED BY <2>2, <2>5, <2>6 DEF Covered
<1>4. CASE ServeAnswer(c)
  <2>1. phase'[c] = "answering"
    BY <1>4 DEF ServeAnswer
  <2>. QED BY <2>1, IdleCovered
<1>. QED BY <1>1, <1>2, <1>3, <1>4 DEF ServerStep

LEMMA ClaimCovered ==
  ASSUME LeaseOutlastsSilence, WorkerInv, NEW c \in Connector,
         ClaimStep(c), Covered(c)
  PROVE  Covered(c)'
<1>1. CASE StartLease(c)
  <2>1. /\ ClaimArrived(c) /\ Shape(c)
        /\ UNCHANGED <<server, att, lost>>
        /\ phase[c] = "claiming" /\ phase'[c] = "announcing"
        /\ hb'[c] = Wait(Interval)
    BY <1>1 DEF StartLease, WorkerInv, TypeOK, ClaimArrived
  <2>2. /\ call[c] \in Call /\ leaseLeft \in Int /\ LeaseTime \in Nat
        /\ Interval \in Nat /\ Grace \in Nat /\ ClaimDelay \in Nat /\ Retries \in Nat
        /\ TriesLeft(0) \in Nat
    BY DurationsAssumption, Tries DEF WorkerInv, TypeOK
  <2>3. Held(att[c]) /\ leaseLeft + call[c].age >= LeaseTime
    BY <2>1 DEF Covered
  <2>4. call[c].age \in Nat /\ call[c].age <= ClaimDelay
    BY <2>1, <2>2, CallRange DEF ClaimArrived
  <2>5. ~lost'[c] /\ hb'[c].at = "wait" /\ hb'[c].left = Interval
    BY <2>1, <2>2, CallFields DEF Shape, Leasing
  <2>6. Horizon(c)' = Interval + TriesLeft(0) + Grace
    BY <2>5, HorizonsNext
  <2>7. Interval + TriesLeft(0) + Grace + ClaimDelay < LeaseTime
    BY <2>2, Tries DEF LeaseOutlastsSilence
  <2>8. Horizon(c)' < leaseLeft'
    BY <2>1, <2>2, <2>3, <2>4, <2>6, <2>7 DEF server
  <2>. QED BY <2>1, <2>3, <2>5, <2>8 DEF Covered, ClaimArrived, Held, server, Arrived
<1>2. CASE Poll(c)
  <2>1. call'[c].at = "request" /\ phase'[c] = "claiming"
    BY <1>2, CallFields, DurationsAssumption DEF Poll, WorkerInv, TypeOK
  <2>. QED BY <2>1, IdleCovered
<1>3. CASE NothingToDo(c) \/ ClaimFails(c) \/ MalformedPayload(c) \/ RunThrows(c)
  <2>1. phase'[c] \in {"idle", "stopped", "answering", "stopping"}
    BY <1>3 DEF NothingToDo, ClaimFails, MalformedPayload, RunThrows, NextTurn,
                WorkerInv, TypeOK
  <2>. QED BY <2>1, IdleCovered
<1>. QED BY <1>1, <1>2, <1>3 DEF ClaimStep

LEMMA RunCovered ==
  ASSUME LeaseOutlastsSilence, WorkerInv, NEW c \in Connector,
         RunStep(c), Covered(c)
  PROVE  Covered(c)'
<1>. TypeOK /\ child[c] \in Child /\ Shape(c)
  BY DEF WorkerInv, TypeOK
<1>1. CASE Spawn(c)
  <2>1. /\ UNCHANGED <<server, att, hb, lost>>
        /\ phase[c] = "announcing" /\ phase'[c] = "running"
        /\ child'[c] = IF Aborted(c) THEN Terminate(NoChild, "abort") ELSE NoChild
    BY <1>1 DEF Spawn, TypeOK
  <2>2. lost[c] => child'[c].kill = Grace
    <3>1. lost[c] => child'[c] = Terminate(NoChild, "abort")
      BY <2>1 DEF Aborted
    <3>. QED BY <3>1, ChildTypes, ChildFields
  <2>3. Horizon(c)' = Horizon(c)
    BY <2>1, <2>2, Horizons, HorizonsNext
  <2>4. Horizon(c) \in Nat
    BY <2>1, HorizonNat
  <2>. QED BY <2>1, <2>3, <2>4, StillCovered
<1>2. CASE RunTimesOut(c)
  <2>1. /\ UNCHANGED <<server, phase, att, hb, lost>>
        /\ phase[c] = "running"
        /\ child'[c] = Terminate(child[c], "timeout")
    BY <1>2 DEF RunTimesOut, TypeOK, Alive
  <2>2. lost[c] => child'[c].kill = child[c].kill
    BY <2>1, ChildFields DEF Shape
  <2>3. Horizon(c)' = Horizon(c)
    BY <2>1, <2>2, Horizons, HorizonsNext
  <2>4. Horizon(c) \in Nat
    BY <2>1, HorizonNat
  <2>. QED BY <2>1, <2>3, <2>4, StillCovered
<1>3. CASE \/ \E code \in {"zero", "nonzero", "null"} : Exit(c, code)
           \/ StopHeartbeat(c) \/ Conclude(c) \/ RetryAnswer(c) \/ AnswerEnds(c)
  <2>1. phase'[c] \in {"reporting", "stopping", "answering", "idle", "stopped"}
    BY <1>3 DEF Exit, StopHeartbeat, Conclude, RetryAnswer, AnswerEnds,
                ReturnToLoop, NextTurn, TypeOK
  <2>. QED BY <2>1, IdleCovered
<1>. QED BY <1>1, <1>2, <1>3 DEF RunStep

LEMMA HeartbeatCovered ==
  ASSUME LeaseOutlastsSilence, WorkerInv, NEW c \in Connector,
         HeartbeatStep(c), Covered(c)
  PROVE  Covered(c)'
<1>. /\ TypeOK /\ child[c] \in Child /\ hb[c] \in Call /\ Shape(c)
     /\ hb[c].left \in Nat /\ hb[c].try \in Nat /\ hb[c].age \in Nat
     /\ Timeout \in Nat /\ Interval \in Nat /\ Retries \in Nat /\ Grace \in Nat
     /\ Delay \in Nat /\ LeaseTime \in Nat /\ leaseLeft \in Int
     /\ TriesLeft(0) \in Nat
  BY CallRange, DurationsAssumption, Tries DEF WorkerInv, TypeOK
<1>0. /\ UNCHANGED <<server, phase, att>>
      /\ hb[c].at # "off" /\ phase[c] \in Leasing /\ ~lost[c]
  BY DEF HeartbeatStep, SendHeartbeat, HeartbeatOk, RetryHeartbeat, HeartbeatFails,
         Arrived, MayRepeat, Exhausted, InFlight, Shape
<1>1. CASE phase[c] \notin {"announcing", "running"}
  BY <1>0, <1>1, IdleCovered DEF Leasing
<1>2. ASSUME phase[c] \in {"announcing", "running"}, SendHeartbeat(c)
      PROVE  Covered(c)'
  <2>1. /\ hb[c].at = "wait" /\ hb[c].left = 0 /\ hb'[c] = Send(Timeout)
        /\ UNCHANGED lost
    BY <1>2 DEF SendHeartbeat, TypeOK
  <2>2. /\ hb'[c].at = "request" /\ hb'[c].left = Timeout /\ hb'[c].try = 1
    BY <2>1, CallFields
  <2>3. Horizon(c)' = Horizon(c)
    BY <1>0, <2>1, <2>2, Horizons, HorizonsNext, Tries
  <2>4. Horizon(c) \in Nat
    BY <1>2, HorizonNat
  <2>. QED BY <1>0, <1>2, <2>2, <2>3, <2>4, StillCovered DEF Arrived
<1>3. ASSUME phase[c] \in {"announcing", "running"}, HeartbeatOk(c)
      PROVE  Covered(c)'
  <2>1. /\ Arrived(hb[c], "ok") /\ hb'[c] = Wait(Interval) /\ UNCHANGED lost
    BY <1>3 DEF HeartbeatOk, TypeOK
  <2>2. /\ hb'[c].at = "wait" /\ hb'[c].left = Interval
    BY <2>1, CallFields
  <2>3. Horizon(c)' = Interval + TriesLeft(0) + Grace
    BY <1>0, <2>1, <2>2, HorizonsNext
  <2>4. Interval + TriesLeft(0) + Grace + Delay < LeaseTime
    BY Tries DEF LeaseOutlastsSilence
  <2>5. Held(att[c]) /\ leaseLeft + hb[c].age >= LeaseTime /\ hb[c].age <= Delay
    BY <1>3, <2>1 DEF Covered, Arrived
  <2>6. Horizon(c)' < leaseLeft'
    BY <1>0, <2>3, <2>4, <2>5 DEF server
  <2>. QED BY <1>0, <1>3, <2>2, <2>5, <2>6 DEF Covered, ClaimArrived, Held, server, Arrived
<1>4. ASSUME phase[c] \in {"announcing", "running"}, RetryHeartbeat(c)
      PROVE  Covered(c)'
  <2>1. /\ InFlight(hb[c]) /\ hb[c].try <= Retries
        /\ hb'[c] = Again(hb[c], Timeout) /\ UNCHANGED lost
    BY <1>4 DEF RetryHeartbeat, MayRepeat, TypeOK
  <2>2. /\ hb'[c].at = "request" /\ hb'[c].left = Timeout
        /\ hb'[c].try = hb[c].try + 1
    BY <2>1, CallFields
  <2>3. Horizon(c)' = Timeout + TriesLeft(hb[c].try + 1) + Grace
    BY <1>0, <2>1, <2>2, HorizonsNext
  <2>4. Horizon(c) = hb[c].left + TriesLeft(hb[c].try) + Grace
    BY <1>0, <2>1, Horizons DEF InFlight
  <2>5. /\ TriesLeft(hb[c].try) = TriesLeft(hb[c].try + 1) + Timeout
        /\ TriesLeft(hb[c].try + 1) \in Nat
    BY <2>1, Tries
  <2>6. Horizon(c)' \in Int /\ Horizon(c)' <= Horizon(c)
    BY <2>3, <2>4, <2>5
  <2>. QED BY <1>0, <1>4, <2>2, <2>6, StillCovered DEF Arrived
<1>5. ASSUME phase[c] \in {"announcing", "running"}, HeartbeatFails(c)
      PROVE  Covered(c)'
  <2>1. /\ InFlight(hb[c])
        /\ hb'[c] = Off /\ lost'[c] /\ child'[c] = AbortRun(c)
    BY <1>5 DEF HeartbeatFails, TypeOK, Arrived, Exhausted, InFlight
  <2>2. hb[c].try <= Retries + 1 /\ hb[c].at # "wait"
    BY <2>1 DEF Shape, InFlight
  <2>3. phase[c] = "running" => child'[c].kill <= Grace /\ child'[c].kill \in Nat
    BY <2>1, ChildFields DEF AbortRun, Alive, Shape
  <2>4. Horizon(c) >= Grace
    <3>1. TriesLeft(hb[c].try) \in Nat
      BY <2>2, Tries
    <3>. QED BY <1>0, <2>2, <3>1, Horizons
  <2>5. Horizon(c)' <= Grace /\ Horizon(c)' \in Nat
    BY <1>0, <1>5, <2>1, <2>3, HorizonsNext
  <2>6. Horizon(c) \in Nat
    BY <1>5, HorizonNat
  <2>7. Horizon(c)' <= Horizon(c)
    BY <2>4, <2>5, <2>6
  <2>. QED BY <1>0, <1>5, <2>1, <2>5, <2>7, CallFields, StillCovered DEF Arrived
<1>. QED BY <1>1, <1>2, <1>3, <1>4, <1>5 DEF HeartbeatStep

LEMMA StopCovered ==
  ASSUME WorkerInv, NEW c \in Connector, Shutdown(c) \/ Crash(c), Covered(c)
  PROVE  Covered(c)'
<1>. /\ TypeOK /\ child[c] \in Child /\ Shape(c)
  BY DEF WorkerInv, TypeOK
<1>1. CASE Crash(c) \/ phase'[c] = "stopped"
  BY <1>1, IdleCovered DEF Crash, TypeOK
<1>2. CASE Shutdown(c) /\ phase'[c] # "stopped"
  <2>1. /\ UNCHANGED <<server, phase, att, call, hb, lost>>
        /\ child'[c] = AbortRun(c)
    BY <1>2 DEF Shutdown, TypeOK
  <2>2. CASE phase[c] \in {"announcing", "running"}
    <3>1. lost[c] /\ phase[c] = "running" => child'[c].kill = child[c].kill
      BY <2>1, ChildFields DEF AbortRun, Alive, Shape
    <3>2. Horizon(c)' = Horizon(c)
      BY <2>1, <2>2, <3>1, Horizons, HorizonsNext
    <3>3. Horizon(c) \in Nat
      BY <2>2, HorizonNat
    <3>. QED BY <2>1, <2>2, <3>2, <3>3, StillCovered
  <2>3. CASE phase[c] \notin {"announcing", "running"}
    BY <2>1, <2>3 DEF Covered, ClaimArrived, Held, server
  <2>. QED BY <2>2, <2>3
<1>. QED BY <1>1, <1>2

(* Time: every horizon and the lease get shorter together.                 *)
LEMMA TickCovered ==
  ASSUME LeaseOutlastsSilence, WorkerInv, Tick, NEW c \in Connector, Covered(c)
  PROVE  Covered(c)'
<1>. /\ Shape(c) /\ Announced(c)
     /\ call[c] \in Call /\ hb[c] \in Call /\ child[c] \in Child
     /\ LeaseTime \in Nat /\ leaseLeft \in Nat /\ Delay \in Nat /\ ClaimDelay \in Nat
     /\ Grace \in Nat
  BY DurationsAssumption DEF WorkerInv, TypeOK
<1>1. /\ UNCHANGED <<status, holder, phase, att, lost>>
      /\ leaseLeft' = Elapse(leaseLeft)
      /\ call'[c] = Older(call[c]) /\ hb'[c] = Older(hb[c])
      /\ child'[c] = [child[c] EXCEPT !.kill = Elapse(@)]
      /\ ~Due(call[c]) /\ ~Due(hb[c]) /\ (child[c].by # {} => child[c].kill # 0)
  BY DEF Tick, SomethingDue
<1>2. child'[c].kill = Elapse(child[c].kill)
  BY <1>1 DEF Child
<1>3. /\ call'[c].at = call[c].at
      /\ call'[c].age =
           IF InFlight(call[c]) /\ call[c].age < TooOld THEN call[c].age + 1 ELSE call[c].age
      /\ hb'[c].at = hb[c].at /\ hb'[c].left = Elapse(hb[c].left)
      /\ hb'[c].try = hb[c].try
      /\ hb'[c].age =
           IF InFlight(hb[c]) /\ hb[c].age < TooOld THEN hb[c].age + 1 ELSE hb[c].age
  BY <1>1, CallFields
<1>4. /\ call[c].left \in Nat /\ call[c].age \in Nat /\ hb[c].left \in Nat
      /\ hb[c].age \in Nat /\ hb[c].try \in Nat /\ child[c].kill \in Nat
  BY CallRange, ChildFields
<1>5. TooOld \in Nat /\ Delay < TooOld /\ ClaimDelay < TooOld
  BY DEF TooOld
<1>6. ASSUME phase[c] \in {"announcing", "running"}
      PROVE  Held(att[c])' /\ Horizon(c)' < leaseLeft'
  <2>1. Held(att[c]) /\ Horizon(c) < leaseLeft /\ Horizon(c) \in Nat
    BY <1>6, HorizonNat DEF Covered
  <2>2. Horizon(c)' = Horizon(c) - 1
    <3>1. CASE lost[c] /\ phase[c] = "announcing"
      BY <1>1, <3>1 DEF Announced, Shape, Due
    <3>2. CASE lost[c] /\ phase[c] = "running"
      <4>1. child[c].kill # 0
        BY <1>1, <3>2 DEF Shape
      <4>2. child'[c].kill = child[c].kill - 1
        BY <1>2, <1>4, <4>1 DEF Elapse
      <4>3. Horizon(c) = child[c].kill
        BY <3>2, Horizons
      <4>4. Horizon(c)' = child'[c].kill
        BY <1>1, <3>2, HorizonsNext
      <4>. QED BY <4>2, <4>3, <4>4
    <3>3. CASE ~lost[c] /\ hb[c].at = "wait"
      <4>1. hb[c].left # 0
        BY <1>1, <3>3 DEF Due
      <4>2. TriesLeft(0) \in Nat
        BY Tries, DurationsAssumption
      <4>. QED BY <1>1, <1>3, <1>4, <3>3, <4>1, <4>2, Horizons, HorizonsNext DEF Elapse
    <3>4. CASE ~lost[c] /\ hb[c].at # "wait"
      <4>1. hb[c].left # 0
        BY <1>1, <1>6, <3>4 DEF Due, Shape
      <4>2. TriesLeft(hb[c].try) \in Nat
        BY <1>4, <1>6, <3>4, Tries, CallRange DEF Shape, InFlight
      <4>. QED BY <1>1, <1>3, <1>4, <3>4, <4>1, <4>2, Horizons, HorizonsNext DEF Elapse
    <3>. QED BY <1>6, <3>1, <3>2, <3>3, <3>4
  <2>. QED BY <1>1, <2>1, <2>2 DEF Held, Elapse
<1>7. ASSUME phase[c] \in {"announcing", "running"}, Arrived(hb[c], "ok")'
      PROVE  leaseLeft' + hb'[c].age >= LeaseTime
  <2>1. Arrived(hb[c], "ok") /\ hb'[c].age = hb[c].age + 1
    BY <1>3, <1>4, <1>5, <1>7 DEF Arrived, InFlight
  <2>2. leaseLeft + hb[c].age >= LeaseTime
    BY <1>7, <2>1 DEF Covered
  <2>. QED BY <1>1, <1>4, <2>1, <2>2 DEF Elapse
<1>8. ASSUME ClaimArrived(c)'
      PROVE  Held(att[c])' /\ leaseLeft' + call'[c].age >= LeaseTime
  <2>1. ClaimArrived(c) /\ call'[c].age = call[c].age + 1
    BY <1>1, <1>3, <1>4, <1>5, <1>8 DEF ClaimArrived, InFlight
  <2>2. Held(att[c]) /\ leaseLeft + call[c].age >= LeaseTime
    BY <2>1 DEF Covered
  <2>. QED BY <1>1, <1>4, <2>1, <2>2 DEF Elapse, Held
<1>. QED BY <1>1, <1>6, <1>7, <1>8 DEF Covered

(* Recover needs a lease that has run out, so it meets no busy worker.     *)
LEMMA RecoverCovered ==
  ASSUME LeaseOutlastsSilence, WorkerInv, Recover, NEW c \in Connector, Covered(c)
  PROVE  Covered(c)'
<1>1. ~Busy(c)
  BY BusyHolds DEF Recover
<1>2. UNCHANGED worker
  BY DEF Recover
<1>. QED BY <1>1, <1>2 DEF worker, Covered, Busy, ClaimArrived

CoveredInv == WorkerInv /\ \A c \in Connector : Covered(c)

LEMMA CoveredNext ==
  ASSUME LeaseOutlastsSilence, CoveredInv, [Next]_vars
  PROVE  CoveredInv'
<1>. WorkerInv /\ TypeOK /\ WorkerInv'
  BY InvNext DEF CoveredInv, WorkerInv
<1>. SUFFICES ASSUME NEW e \in Connector
              PROVE  Covered(e)'
  BY DEF CoveredInv
<1>. Covered(e)
  BY DEF CoveredInv
<1>1. ASSUME NEW c \in Connector, OneOf(c)
      PROVE  Covered(e)'
  <2>1. CASE e = c
    BY <1>1, <2>1, ServerCovered, ClaimCovered, RunCovered, HeartbeatCovered, StopCovered
    DEF OneOf
  <2>2. CASE e # c
    BY <1>1, <2>2, OthersSame, OthersKeepLease, SameCovered
  <2>. QED BY <2>1, <2>2
<1>2. CASE UNCHANGED vars
  BY <1>2, SameCovered DEF vars, server, worker, Same
<1>3. CASE Recover
  BY <1>3, RecoverCovered
<1>4. CASE Tick
  BY <1>4, TickCovered
<1>. QED BY <1>1, <1>2, <1>3, <1>4 DEF Next, OneOf

(* Under the condition on the durations, and for any number of connectors  *)
(* and retries, no two providers work on the task at once.                 *)
THEOREM WorkerExcludes ==
  ASSUME LeaseOutlastsSilence
  PROVE  Spec => []NoDuplicateExecution
<1>1. Init => CoveredInv
  <2>1. Init => \A c \in Connector : Covered(c)
    BY DEF Init, Covered, ClaimArrived
  <2>. QED BY <2>1, InvInit DEF CoveredInv
<1>2. CoveredInv /\ [Next]_vars => CoveredInv'
  BY CoveredNext
<1>3. CoveredInv => NoDuplicateExecution
  <2>1. ASSUME CoveredInv, NEW c \in Connector, NEW d \in Connector,
               Alive(c), Alive(d)
        PROVE  c = d
    <3>1. Held(att[c]) /\ Held(att[d]) /\ att[c] # 0
      BY <2>1, BusyHolds DEF CoveredInv, Busy, Alive
    <3>. QED BY <2>1, <3>1 DEF CoveredInv, WorkerInv, Unshared, Held
  <2>. QED BY <2>1 DEF NoDuplicateExecution
<1>. QED BY <1>1, <1>2, <1>3, PTL DEF Spec

----------------------------------------------------------------------------
(* Recorded outcomes are true.                                             *)

TruthInv ==
  /\ WorkerInv
  /\ Fresh
  /\ HonestOutcome
  /\ \A c \in Connector : Truthful(c)

(* What a step of c may do to the outcome of an attempt ...                *)
LEMMA OutcomeChange ==
  ASSUME TypeOK, NEW c \in Connector, OneOf(c), NEW n \in Attempts
  PROVE  \/ outcome'[n] = outcome[n]
         \/ outcome'[n] = "expired" /\ n = holder
         \/ /\ ServeAnswer(c) /\ n = att[c]
            /\ outcome'[n] = CASE answer[c] = "complete" -> "completed"
                               [] answer[c] = "business" -> "rejected"
                               [] OTHER -> "failed"
<1>1. CASE ServerStep(c)
  <2>1. CASE ServeHeartbeat(c)
    BY <2>1 DEF ServeHeartbeat, RecoverExpired, TypeOK
  <2>2. CASE ServeAnswer(c)
    <3>1. CASE ServeComplete(c)
      BY <2>2, <3>1 DEF ServeComplete, RecoverExpired, TypeOK
    <3>2. CASE ServeFail(c)
      BY <2>2, <3>2 DEF ServeFail, TypeOK
    <3>. QED BY <2>2, <3>1, <3>2 DEF ServeAnswer
  <2>3. CASE GrantLease(c) \/ GrantToNobody(c) \/ PollEnds(c)
    BY <2>3 DEF GrantLease, GrantToNobody, Grant, PollEnds, server
  <2>. QED BY <1>1, <2>1, <2>2, <2>3 DEF ServerStep
<1>2. CASE ClaimStep(c)
  BY <1>2 DEF ClaimStep, server, Poll, NothingToDo, ClaimFails, StartLease,
              MalformedPayload, RunThrows
<1>3. CASE RunStep(c)
  BY <1>3 DEF RunStep, server, Spawn, RunTimesOut, Exit, StopHeartbeat, Conclude,
              RetryAnswer, AnswerEnds
<1>4. CASE HeartbeatStep(c)
  BY <1>4 DEF HeartbeatStep, server, SendHeartbeat, HeartbeatOk, RetryHeartbeat,
              HeartbeatFails
<1>5. CASE Shutdown(c) \/ Crash(c)
  BY <1>5 DEF Shutdown, Crash, server
<1>. QED BY <1>1, <1>2, <1>3, <1>4, <1>5 DEF OneOf

(* ... and to the record of how its provider ended.                        *)
LEMMA ExitChange ==
  ASSUME TypeOK, NEW c \in Connector, OneOf(c), NEW n \in Attempts
  PROVE  exit'[n] = exit[n] \/ (n = att[c] /\ Unanswerable(c))
<1>1. CASE MalformedPayload(c)
  BY <1>1 DEF MalformedPayload, ClaimArrived, Unanswerable, TypeOK
<1>2. CASE \E code \in {"zero", "nonzero", "null"} : Exit(c, code)
  BY <1>2 DEF Exit, Unanswerable, TypeOK
<1>3. CASE ~MalformedPayload(c) /\ ~(\E code \in {"zero", "nonzero", "null"} : Exit(c, code))
  <2>1. UNCHANGED exit
    BY <1>3 DEF OneOf, ServerStep, ClaimStep, RunStep, HeartbeatStep,
       GrantLease, GrantToNobody, PollEnds, ServeHeartbeat, ServeAnswer,
       Poll, NothingToDo, ClaimFails, StartLease, RunThrows,
       Spawn, RunTimesOut, StopHeartbeat, Conclude, RetryAnswer, AnswerEnds,
       SendHeartbeat, HeartbeatOk, RetryHeartbeat, HeartbeatFails, Shutdown, Crash
  <2>. QED BY <2>1
<1>. QED BY <1>1, <1>2, <1>3

(* A worker past its claim has an attempt that was granted.                *)
LEMMA HasAttempt ==
  ASSUME WorkerInv, NEW c \in Connector,
         Unanswerable(c) \/ phase[c] \in {"reporting", "stopping", "answering"}
  PROVE  att[c] \in Attempts /\ att[c] <= granted
BY DurationsAssumption
DEF WorkerInv, TypeOK, Shape, Unanswerable, Leasing, Attempts

LEMMA OthersTruthful ==
  ASSUME TruthInv, NEW c \in Connector, OneOf(c), NEW e \in Connector, e # c
  PROVE  Truthful(e)'
<1>. TypeOK /\ WorkerInv /\ Truthful(e)
  BY DEF TruthInv, WorkerInv
<1>1. Same(e)
  BY OthersSame
<1>2. ASSUME Unanswerable(e) \/ phase[e] \in {"reporting", "stopping", "answering"}
      PROVE  /\ outcome'[att[e]] \in {outcome[att[e]], "expired"}
             /\ exit'[att[e]] = exit[att[e]]
  <2>1. att[e] \in Attempts /\ att[e] # 0
    BY <1>2, HasAttempt DEF Attempts
  <2>2. att[e] # att[c]
    BY <2>1 DEF WorkerInv, Unshared
  <2>. QED BY <2>1, <2>2, OutcomeChange, ExitChange
<1>3. Unanswerable(e)' <=> Unanswerable(e)
  BY <1>1 DEF Same, Unanswerable
<1>4. Aborted(e)' <=> Aborted(e)
  BY <1>1 DEF Same, Aborted
<1>. QED BY <1>1, <1>2, <1>3, <1>4 DEF Same, Truthful, Untold

LEMMA OwnTruthful ==
  ASSUME TruthInv, NEW c \in Connector, OneOf(c)
  PROVE  Truthful(c)'
<1>. /\ TypeOK /\ WorkerInv /\ Truthful(c) /\ Shape(c) /\ Fresh
     /\ call[c] \in Call /\ child[c] \in Child
     /\ Timeout \in Nat /\ ClaimTimeout \in Nat /\ granted \in Nat /\ AttemptCap \in Nat
  BY DurationsAssumption DEF TruthInv, WorkerInv, TypeOK
<1>. Unanswerable(c) \/ phase[c] \in {"reporting", "stopping", "answering"} =>
       att[c] \in Attempts
  BY HasAttempt
<1>1. CASE GrantLease(c)
  <2>1. /\ phase[c] = "claiming" /\ granted < AttemptCap
        /\ att'[c] = granted + 1
        /\ UNCHANGED <<phase, outcome, exit, lost, shut, child, answer>>
    BY <1>1 DEF GrantLease, Grant, TypeOK
  <2>2. outcome[granted + 1] = "open" /\ exit[granted + 1] = NoExit
    BY <2>1 DEF Fresh, Attempts
  <2>. QED BY <2>1, <2>2 DEF Truthful, Untold, Unanswerable, Aborted
<1>2. CASE GrantToNobody(c)
  BY <1>2, CallFields, ChildFields, ChildTypes
  DEF TypeOK, Shape, Alive, Leasing, Truthful, Untold, Unanswerable, Aborted, NoExit,
      AnswerFor, server, Attempts, Fresh, GrantToNobody, Grant
<1>3. CASE PollEnds(c)
  BY <1>3, CallFields, ChildFields, ChildTypes
  DEF TypeOK, Shape, Alive, Leasing, Truthful, Untold, Unanswerable, Aborted, NoExit,
      AnswerFor, server, Attempts, Fresh, PollEnds
<1>4. CASE ServeHeartbeat(c)
  BY SMTT(30), <1>4, CallFields, ChildFields, ChildTypes
  DEF TypeOK, Shape, Alive, Leasing, Truthful, Untold, Unanswerable, Aborted, NoExit,
      AnswerFor, server, Attempts, Fresh, ServeHeartbeat, RecoverExpired
<1>5. CASE ServeAnswer(c)
  BY <1>5, CallFields, ChildFields, ChildTypes
  DEF TypeOK, Shape, Alive, Leasing, Truthful, Untold, Unanswerable, Aborted, NoExit,
      AnswerFor, server, Attempts, Fresh, ServeAnswer
<1>6. CASE Poll(c)
  BY <1>6, CallFields, ChildFields, ChildTypes
  DEF TypeOK, Shape, Alive, Leasing, Truthful, Untold, Unanswerable, Aborted, NoExit,
      AnswerFor, server, Attempts, Fresh, Poll
<1>7. CASE NothingToDo(c)
  BY <1>7, CallFields, ChildFields, ChildTypes
  DEF TypeOK, Shape, Alive, Leasing, Truthful, Untold, Unanswerable, Aborted, NoExit,
      AnswerFor, server, Attempts, Fresh, NothingToDo, NextTurn
<1>8. CASE ClaimFails(c)
  BY <1>8, CallFields, ChildFields, ChildTypes
  DEF TypeOK, Shape, Alive, Leasing, Truthful, Untold, Unanswerable, Aborted, NoExit,
      AnswerFor, server, Attempts, Fresh, ClaimFails, NextTurn
<1>9. CASE StartLease(c)
  BY <1>9, CallFields, ChildFields, ChildTypes
  DEF TypeOK, Shape, Alive, Leasing, Truthful, Untold, Unanswerable, Aborted, NoExit,
      AnswerFor, server, Attempts, Fresh, StartLease, ClaimArrived
<1>10. CASE MalformedPayload(c)
  BY <1>10, CallFields, ChildFields, ChildTypes
  DEF TypeOK, Shape, Alive, Leasing, Truthful, Untold, Unanswerable, Aborted, NoExit,
      AnswerFor, server, Attempts, Fresh, MalformedPayload, ClaimArrived
<1>11. CASE RunThrows(c)
  BY <1>11, CallFields, ChildFields, ChildTypes
  DEF TypeOK, Shape, Alive, Leasing, Truthful, Untold, Unanswerable, Aborted, NoExit,
      AnswerFor, server, Attempts, Fresh, RunThrows, ClaimArrived
<1>12. CASE Spawn(c)
  BY <1>12, CallFields, ChildFields, ChildTypes
  DEF TypeOK, Shape, Alive, Leasing, Truthful, Untold, Unanswerable, Aborted, NoExit,
      AnswerFor, server, Attempts, Fresh, Spawn
<1>13. CASE RunTimesOut(c)
  BY SMTT(30), <1>13, CallFields, ChildFields, ChildTypes
  DEF TypeOK, Shape, Alive, Leasing, Truthful, Untold, Unanswerable, Aborted, NoExit,
      AnswerFor, server, Attempts, Fresh, RunTimesOut
<1>14. CASE \E code \in {"zero", "nonzero", "null"} : Exit(c, code)
  <2>1. PICK code \in {"zero", "nonzero", "null"} : Exit(c, code)
    BY <1>14
  <2>2. /\ phase[c] = "running" /\ phase'[c] = "reporting"
        /\ UNCHANGED <<att, outcome, lost, shut>>
        /\ child'[c] = NoChild
        /\ answer'[c] = AnswerFor(code, child[c].by)
        /\ exit' = [exit EXCEPT ![att[c]] = [code |-> code, by |-> child[c].by]]
    BY <2>1 DEF Exit, TypeOK, server
  <2>3. exit'[att[c]] = [code |-> code, by |-> child[c].by]
    BY <2>2 DEF TypeOK, Unanswerable
  <2>4. outcome[att[c]] \in Untold /\ ("abort" \in child[c].by => Aborted(c))
    BY <2>2 DEF Truthful, Unanswerable
  <2>5. Aborted(c)' <=> Aborted(c)
    BY <2>2 DEF Aborted
  <2>6. /\ answer'[c] = "complete" => code = "zero" /\ child[c].by = {}
        /\ answer'[c] = "business" => code = "nonzero" /\ child[c].by = {}
    BY <2>2 DEF AnswerFor
  <2>7. /\ outcome'[att'[c]] \in Untold
        /\ "abort" \in exit'[att'[c]].by => Aborted(c)'
    BY <2>2, <2>3, <2>4, <2>5
  <2>8. /\ answer'[c] = "complete" => exit'[att'[c]] = [code |-> "zero", by |-> {}]
        /\ answer'[c] = "business" => /\ exit'[att'[c]].code \in {"nonzero", "malformed"}
                                      /\ exit'[att'[c]].by = {}
    <3>1. exit'[att'[c]] = [code |-> code, by |-> child[c].by]
      BY <2>2, <2>3
    <3>2. exit'[att'[c]].code = code /\ exit'[att'[c]].by = child[c].by
      BY <3>1
    <3>. QED BY <2>6, <3>1, <3>2
  <2>9. "abort" \notin child'[c].by
    BY <2>2, ChildFields
  <2>. QED BY <2>2, <2>7, <2>8, <2>9 DEF Truthful, Unanswerable
<1>15. CASE StopHeartbeat(c)
  BY <1>15, CallFields, ChildFields, ChildTypes
  DEF TypeOK, Shape, Alive, Leasing, Truthful, Untold, Unanswerable, Aborted, NoExit,
      AnswerFor, server, Attempts, Fresh, StopHeartbeat
<1>16. CASE Conclude(c)
  BY SMTT(30), <1>16, CallFields, ChildFields, ChildTypes
  DEF TypeOK, Shape, Alive, Leasing, Truthful, Untold, Unanswerable, Aborted, NoExit,
      AnswerFor, server, Attempts, Fresh, Conclude, ReturnToLoop, NextTurn, Settled
<1>17. CASE RetryAnswer(c)
  BY <1>17, CallFields, ChildFields, ChildTypes
  DEF TypeOK, Shape, Alive, Leasing, Truthful, Untold, Unanswerable, Aborted, NoExit,
      AnswerFor, server, Attempts, Fresh, RetryAnswer
<1>18. CASE AnswerEnds(c)
  BY <1>18, CallFields, ChildFields, ChildTypes
  DEF TypeOK, Shape, Alive, Leasing, Truthful, Untold, Unanswerable, Aborted, NoExit,
      AnswerFor, server, Attempts, Fresh, AnswerEnds, ReturnToLoop, NextTurn
<1>19. CASE SendHeartbeat(c)
  BY <1>19, CallFields, ChildFields, ChildTypes
  DEF TypeOK, Shape, Alive, Leasing, Truthful, Untold, Unanswerable, Aborted, NoExit,
      AnswerFor, server, Attempts, Fresh, SendHeartbeat
<1>20. CASE HeartbeatOk(c)
  BY <1>20, CallFields, ChildFields, ChildTypes
  DEF TypeOK, Shape, Alive, Leasing, Truthful, Untold, Unanswerable, Aborted, NoExit,
      AnswerFor, server, Attempts, Fresh, HeartbeatOk
<1>21. CASE RetryHeartbeat(c)
  BY <1>21, CallFields, ChildFields, ChildTypes
  DEF TypeOK, Shape, Alive, Leasing, Truthful, Untold, Unanswerable, Aborted, NoExit,
      AnswerFor, server, Attempts, Fresh, RetryHeartbeat
<1>22. CASE HeartbeatFails(c)
  BY <1>22, CallFields, ChildFields, ChildTypes
  DEF TypeOK, Shape, Alive, Leasing, Truthful, Untold, Unanswerable, Aborted, NoExit,
      AnswerFor, server, Attempts, Fresh, HeartbeatFails, AbortRun
<1>23. CASE Shutdown(c)
  BY <1>23, CallFields, ChildFields, ChildTypes
  DEF TypeOK, Shape, Alive, Leasing, Truthful, Untold, Unanswerable, Aborted, NoExit,
      AnswerFor, server, Attempts, Fresh, Shutdown, AbortRun, ClaimArrived
<1>24. CASE Crash(c)
  BY <1>24, CallFields, ChildFields, ChildTypes
  DEF TypeOK, Shape, Alive, Leasing, Truthful, Untold, Unanswerable, Aborted, NoExit,
      AnswerFor, server, Attempts, Fresh, Crash
<1>. QED
  BY <1>1, <1>2, <1>3, <1>4, <1>5, <1>6, <1>7, <1>8, <1>9, <1>10, <1>11, <1>12, <1>13, <1>14, <1>15, <1>16, <1>17, <1>18, <1>19, <1>20, <1>21, <1>22, <1>23, <1>24
  DEF OneOf, ServerStep, ClaimStep, RunStep, HeartbeatStep

LEMMA FreshStep ==
  ASSUME TypeOK, Fresh, NEW c \in Connector, WorkerInv, OneOf(c)
  PROVE  Fresh'
<1>. granted \in Nat /\ granted' \in Nat
  BY NextType, DurationsAssumption DEF TypeOK, Next, OneOf
<1>1. granted' >= granted /\ (status' = "active" => holder' # 0)
  <2>1. CASE GrantLease(c) \/ GrantToNobody(c)
    BY <2>1 DEF GrantLease, GrantToNobody, Grant
  <2>2. CASE ServeHeartbeat(c)
    BY <2>2 DEF ServeHeartbeat, RecoverExpired, AfterInfrastructure, Fresh
  <2>3. CASE ServeAnswer(c)
    BY <2>3 DEF ServeAnswer, ServeComplete, ServeFail, RecoverExpired,
                AfterInfrastructure, Fresh
  <2>4. CASE PollEnds(c) \/ ClaimStep(c) \/ RunStep(c) \/ HeartbeatStep(c)
               \/ Shutdown(c) \/ Crash(c)
    BY <2>4 DEF Fresh, PollEnds, ClaimStep, RunStep, HeartbeatStep, server,
       Poll, NothingToDo, ClaimFails, StartLease, MalformedPayload, RunThrows,
       Spawn, RunTimesOut, Exit, StopHeartbeat, Conclude, RetryAnswer, AnswerEnds,
       SendHeartbeat, HeartbeatOk, RetryHeartbeat, HeartbeatFails, Shutdown, Crash
  <2>. QED BY <2>1, <2>2, <2>3, <2>4 DEF OneOf, ServerStep
<1>2. ASSUME NEW n \in Attempts, n > granted'
      PROVE  outcome'[n] = "open" /\ exit'[n] = NoExit
  <2>1. n > granted /\ outcome[n] = "open" /\ exit[n] = NoExit /\ n \in Nat
    BY <1>1, <1>2 DEF Fresh, Attempts
  <2>2. exit'[n] = exit[n]
    BY <2>1, ExitChange, HasAttempt
  <2>3. n # holder /\ ~(ServeAnswer(c) /\ n = att[c])
    BY <2>1 DEF TypeOK
  <2>. QED BY <2>1, <2>2, <2>3, OutcomeChange
<1>. QED BY <1>1, <1>2 DEF Fresh

LEMMA HonestStep ==
  ASSUME TruthInv, NEW c \in Connector, OneOf(c)
  PROVE  HonestOutcome'
<1>. SUFFICES ASSUME NEW n \in Attempts
              PROVE  /\ outcome'[n] = "completed" =>
                          exit'[n] = [code |-> "zero", by |-> {}]
                     /\ outcome'[n] = "rejected" =>
                          exit'[n].code \in {"nonzero", "malformed"} /\ exit'[n].by = {}
                     /\ "abort" \in exit'[n].by => outcome'[n] \in {"open", "expired"}
  BY DEF HonestOutcome
<1>. TypeOK /\ WorkerInv /\ Truthful(c)
  BY DEF TruthInv, WorkerInv
<1>1. CASE exit'[n] = exit[n] /\ outcome'[n] \in {outcome[n], "expired"}
  BY <1>1 DEF TruthInv, HonestOutcome
<1>2. CASE exit'[n] # exit[n]
  <2>1. n = att[c] /\ Unanswerable(c)
    BY <1>2, ExitChange
  <2>2. ~ServeAnswer(c)
    BY <2>1 DEF Unanswerable, ServeAnswer
  <2>3. outcome'[n] \in Untold
    BY <2>1, <2>2, OutcomeChange DEF Truthful, Untold
  <2>. QED BY <2>3 DEF Untold
<1>3. CASE exit'[n] = exit[n] /\ outcome'[n] \notin {outcome[n], "expired"}
  <2>1. /\ ServeAnswer(c) /\ n = att[c]
        /\ outcome'[n] = CASE answer[c] = "complete" -> "completed"
                           [] answer[c] = "business" -> "rejected"
                           [] OTHER -> "failed"
    BY <1>3, OutcomeChange
  <2>2. phase[c] = "answering"
    BY <2>1 DEF ServeAnswer
  <2>. QED BY <1>3, <2>1, <2>2 DEF Truthful
<1>. QED BY <1>1, <1>2, <1>3

LEMMA TruthNext ==
  ASSUME TruthInv, [Next]_vars
  PROVE  TruthInv'
<1>. WorkerInv /\ TypeOK /\ Fresh /\ HonestOutcome /\ WorkerInv'
  BY InvNext DEF TruthInv, WorkerInv
<1>1. ASSUME NEW c \in Connector, OneOf(c)
      PROVE  TruthInv'
  <2>1. \A e \in Connector : Truthful(e)'
    BY <1>1, OwnTruthful, OthersTruthful
  <2>2. Fresh' /\ HonestOutcome'
    BY <1>1, FreshStep, HonestStep
  <2>. QED BY <2>1, <2>2 DEF TruthInv
<1>2. CASE Recover
  <2>1. UNCHANGED <<granted, worker, exit>>
    BY <1>2 DEF Recover
  <2>2. /\ status' # "active"
        /\ outcome' = [outcome EXCEPT ![holder] = "expired"]
    BY <1>2 DEF Recover, RecoverExpired, AfterInfrastructure
  <2>3. \A n \in Attempts : /\ outcome'[n] \in {outcome[n], "expired"}
                            /\ n > granted => outcome'[n] = outcome[n]
    BY <2>2, DurationsAssumption DEF TypeOK, Attempts
  <2>4. Fresh'
    BY <2>1, <2>2, <2>3 DEF Fresh
  <2>5. HonestOutcome'
    BY <2>1, <2>3 DEF HonestOutcome
  <2>6. ASSUME NEW c \in Connector PROVE Truthful(c)'
    <3>1. Truthful(c)
      BY DEF TruthInv
    <3>2. Unanswerable(c) \/ phase[c] \in {"reporting", "stopping", "answering"} =>
            outcome'[att[c]] \in {outcome[att[c]], "expired"}
      BY <2>3, HasAttempt
    <3>. QED BY <2>1, <3>1, <3>2 DEF worker, Truthful, Unanswerable, Aborted, Untold
  <2>. QED BY <2>4, <2>5, <2>6 DEF TruthInv
<1>3. CASE Tick
  <2>1. UNCHANGED <<status, granted, holder, outcome, phase, att, lost, shut, answer, exit>>
    BY <1>3 DEF Tick
  <2>2. ASSUME NEW c \in Connector PROVE Truthful(c)'
    <3>1. call'[c].at = call[c].at
      BY <1>3, CallFields DEF Tick, TypeOK
    <3>2. child'[c].by = child[c].by
      BY <1>3 DEF Tick, TypeOK, Child
    <3>3. Truthful(c)
      BY DEF TruthInv
    <3>. QED BY <2>1, <3>1, <3>2, <3>3 DEF Truthful, Unanswerable, Aborted
  <2>3. Fresh' /\ HonestOutcome'
    BY <2>1 DEF Fresh, HonestOutcome
  <2>. QED BY <2>2, <2>3 DEF TruthInv
<1>4. CASE UNCHANGED vars
  BY <1>4 DEF vars, server, worker, TruthInv, Fresh, HonestOutcome, Truthful,
              Unanswerable, Aborted
<1>. QED BY <1>1, <1>2, <1>3, <1>4 DEF Next, OneOf

(* The inductive invariant behind the truth of the records.                *)
THEOREM TruthInvariant == Spec => []TruthInv
<1>1. Init => TruthInv
  <2>1. Init => Fresh /\ HonestOutcome
    BY DEF Init, Fresh, HonestOutcome, NoExit
  <2>2. Init => \A c \in Connector : Truthful(c)
    BY CallFields, ChildFields DEF Init, Truthful, Unanswerable
  <2>. QED BY <2>1, <2>2, InvInit DEF TruthInv
<1>2. TruthInv /\ [Next]_vars => TruthInv'
  BY TruthNext
<1>. QED BY <1>1, <1>2, PTL DEF Spec

(* What the control plane records of an attempt is how its provider ended, *)
(* however many requests and responses were lost, late or repeated.        *)
THEOREM WorkerHonest == Spec => []HonestOutcome
<1>1. TruthInv => HonestOutcome
  BY DEF TruthInv
<1>. QED BY <1>1, TruthInvariant, PTL

----------------------------------------------------------------------------
(* The refinement of the fenced lease.                                     *)

(* The active attempt is the last granted, and open.                       *)
Open == status = "active" => holder = granted /\ holder # 0 /\ outcome[holder] = "open"

LeaseInv == TypeOK /\ Fresh /\ Open

(* The abstract state, without the functions over the one task.            *)
H == IF status = "active" THEN holder ELSE 0
W == {n \in Attempts : outcome[n] = "completed"}

Stays == H' = H /\ granted' = granted /\ W' = W
Grants == H = 0 /\ H' = granted + 1 /\ granted' = granted + 1 /\ W' = W
Accepts == H # 0 /\ H' = 0 /\ granted' = granted /\ W' = W \union {H}
Releases == H # 0 /\ H' = 0 /\ granted' = granted /\ W' = W
LeaseEffect == Stays \/ Grants \/ Accepts \/ Releases

LEMMA GrantEffect ==
  ASSUME LeaseInv, Grant
  PROVE  Grants /\ Open'
<1>1. granted \in Nat /\ AttemptCap \in Nat /\ granted < AttemptCap
  BY DurationsAssumption DEF LeaseInv, TypeOK, Grant
<1>2. granted + 1 \in Attempts /\ granted + 1 > granted
  BY <1>1 DEF Attempts
<1>3. outcome[granted + 1] = "open"
  BY <1>2 DEF LeaseInv, Fresh
<1>. QED BY <1>1, <1>2, <1>3 DEF Grant, Grants, Open, H, W

LEMMA RecoveryEffect ==
  ASSUME LeaseInv, RecoverExpired, UNCHANGED granted
  PROVE  (Stays \/ Releases) /\ Open'
<1>1. CASE status = "active" /\ leaseLeft = 0
  <2>1. /\ status' # "active"
        /\ outcome' = [outcome EXCEPT ![holder] = "expired"]
    BY <1>1 DEF RecoverExpired, AfterInfrastructure
  <2>2. W' = W
    BY <1>1, <2>1 DEF W, LeaseInv, Open, TypeOK
  <2>. QED BY <1>1, <2>1, <2>2 DEF Releases, Open, H, LeaseInv
<1>2. CASE ~(status = "active" /\ leaseLeft = 0)
  BY <1>2 DEF RecoverExpired, LeaseInv, Open, Stays, H, W
<1>. QED BY <1>1, <1>2

LEMMA AnswerEffect ==
  ASSUME LeaseInv, NEW c \in Connector, ServeAnswer(c)
  PROVE  LeaseEffect /\ Open'
<1>1. UNCHANGED granted
  BY DEF ServeAnswer
<1>2. CASE UNCHANGED <<status, holder, outcome>>
  BY <1>1, <1>2 DEF LeaseEffect, Stays, LeaseInv, Open, H, W
<1>3. CASE RecoverExpired
  BY <1>1, <1>3, RecoveryEffect DEF LeaseEffect
<1>4. CASE /\ Held(att[c]) /\ status' = "completed"
           /\ outcome' = [outcome EXCEPT ![att[c]] = "completed"]
  <2>1. holder \in Attempts /\ H = holder /\ att[c] = holder /\ holder # 0
    BY <1>4, DurationsAssumption DEF Held, H, LeaseInv, Open, TypeOK, Attempts
  <2>2. W' = W \union {H}
    BY <1>4, <2>1 DEF W, LeaseInv, TypeOK
  <2>. QED BY <1>1, <1>4, <2>1, <2>2 DEF LeaseEffect, Accepts, H, Open
<1>5. CASE /\ Held(att[c]) /\ status' \in {"failed", "queued", "needs_teacher"}
           /\ \E o \in {"rejected", "failed"} : outcome' = [outcome EXCEPT ![att[c]] = o]
  <2>1. H # 0 /\ outcome[att[c]] = "open"
    BY <1>5 DEF Held, H, LeaseInv, Open
  <2>2. W' = W
    BY <1>5, <2>1 DEF W, LeaseInv, TypeOK
  <2>. QED BY <1>1, <1>5, <2>1, <2>2 DEF LeaseEffect, Releases, H, Open
<1>6. CASE ServeComplete(c)
  BY <1>2, <1>3, <1>4, <1>6 DEF ServeComplete
<1>7. CASE ServeFail(c)
  BY <1>2, <1>5, <1>7 DEF ServeFail, AfterInfrastructure
<1>. QED BY <1>6, <1>7 DEF ServeAnswer

LEMMA StepEffect ==
  ASSUME LeaseInv, [Next]_vars
  PROVE  LeaseEffect /\ Open'
<1>1. ASSUME NEW c \in Connector, OneOf(c)
      PROVE  LeaseEffect /\ Open'
  <2>1. CASE GrantLease(c) \/ GrantToNobody(c)
    BY <2>1, GrantEffect DEF GrantLease, GrantToNobody, LeaseEffect
  <2>2. CASE ServeHeartbeat(c)
    <3>1. CASE UNCHANGED <<status, holder, outcome>>
      BY <2>2, <3>1 DEF ServeHeartbeat, LeaseEffect, Stays, LeaseInv, Open, H, W
    <3>2. CASE RecoverExpired
      BY <2>2, <3>2, RecoveryEffect DEF ServeHeartbeat, LeaseEffect
    <3>. QED BY <2>2, <3>1, <3>2 DEF ServeHeartbeat
  <2>3. CASE ServeAnswer(c)
    BY <2>3, AnswerEffect
  <2>4. CASE PollEnds(c) \/ ClaimStep(c) \/ RunStep(c) \/ HeartbeatStep(c)
               \/ Shutdown(c) \/ Crash(c)
    <3>1. UNCHANGED server
      BY <2>4 DEF PollEnds, ClaimStep, RunStep, HeartbeatStep,
         Poll, NothingToDo, ClaimFails, StartLease, MalformedPayload, RunThrows,
         Spawn, RunTimesOut, Exit, StopHeartbeat, Conclude, RetryAnswer, AnswerEnds,
         SendHeartbeat, HeartbeatOk, RetryHeartbeat, HeartbeatFails, Shutdown, Crash
    <3>. QED BY <3>1 DEF server, LeaseEffect, Stays, LeaseInv, Open, H, W
  <2>. QED BY <1>1, <2>1, <2>2, <2>3, <2>4 DEF OneOf, ServerStep
<1>2. CASE Recover
  BY <1>2, RecoveryEffect DEF Recover, LeaseEffect
<1>3. CASE Tick \/ UNCHANGED vars
  <2>1. UNCHANGED <<status, granted, holder, outcome>>
    BY <1>3 DEF Tick, vars, server
  <2>. QED BY <2>1 DEF LeaseEffect, Stays, LeaseInv, Open, H, W
<1>. QED BY <1>1, <1>2, <1>3 DEF Next, OneOf

LEMMA LiftedState ==
  /\ Holder = [t \in {"task"} |-> H]
  /\ Granted = [t \in {"task"} |-> granted]
  /\ Accepted = [t \in {"task"} |-> W]
BY DEF Holder, Granted, Accepted, H, W

LEMMA LiftedStateNext ==
  /\ Holder' = [t \in {"task"} |-> H']
  /\ Granted' = [t \in {"task"} |-> granted']
  /\ Accepted' = [t \in {"task"} |-> W']
BY DEF Holder, Granted, Accepted, H, W

LEMMA LiftedStep == LeaseEffect => [Lease!Next]_Lease!avars
<1>1. Stays => UNCHANGED Lease!avars
  BY LiftedState, LiftedStateNext DEF Stays, Lease!avars
<1>2. Grants => Lease!Grant("task")
  BY LiftedState, LiftedStateNext DEF Grants, Lease!Grant
<1>3. Accepts => Lease!Accept("task")
  BY LiftedState, LiftedStateNext DEF Accepts, Lease!Accept
<1>4. Releases => Lease!Release("task")
  BY LiftedState, LiftedStateNext DEF Releases, Lease!Release
<1>. QED BY <1>1, <1>2, <1>3, <1>4 DEF LeaseEffect, Lease!Next

(* With timers, losses and repetitions on the worker's side, the task is    *)
(* still a fenced lease: only its holder's result is accepted, once.        *)
THEOREM WorkerRefinement == Spec => ImplementsLease
<1>1. Init => LeaseInv /\ Lease!Init
  <2>1. Init => LeaseInv
    BY InitType DEF Init, LeaseInv, Fresh, Open
  <2>2. Init => H = 0 /\ granted = 0 /\ W = {}
    BY DEF Init, H, W
  <2>. QED BY <2>1, <2>2, LiftedState DEF Lease!Init
<1>2. TruthInv /\ LeaseInv /\ [Next]_vars => TruthInv' /\ LeaseInv'
  BY TruthNext, StepEffect DEF TruthInv, WorkerInv, LeaseInv
<1>3. LeaseInv /\ [Next]_vars => [Lease!Next]_Lease!avars
  BY StepEffect, LiftedStep
<1>. QED BY <1>1, <1>2, <1>3, TruthInvariant, PTL DEF Spec, ImplementsLease, Lease!Spec

============================================================================
