----------------------------- MODULE Classroom -----------------------------
(***************************************************************************)
(* The stages of a lesson (ClassroomsService), which the teacher starts,   *)
(* pauses, extends, ends and unlocks.                                      *)
(*                                                                         *)
(* The deployed database is PostgreSQL under READ COMMITTED: a transaction *)
(* that reads a row and then updates it by id is not atomic, and is        *)
(* modelled by its statements.                                             *)
(***************************************************************************)
EXTENDS Integers

CONSTANTS
  StageCount,  \* stages of the lesson, in their sortOrder
  Duration,    \* planned length of a stage, in seconds
  Second,      \* steps of the server's clock in a second
  Call,        \* stage requests in flight
  Tab,         \* pages of the teacher with the control panel
  Horizon,     \* bound: how long the lesson is watched, in steps of the clock
  MostExtra,   \* bound: extensions of one stage
  MostActions  \* bound: stage actions of the lesson

Stage == 1..StageCount
None == 0

VARIABLES
  session,  \* the session row: status, currentStageId and version
  stage,    \* the stage rows
  now,      \* the server's clock
  ran,      \* history: how long each stage has really been running
  resumed,  \* history: how often each stage was resumed
  call,     \* what each stage request has read
  client,   \* what the teacher controls the lesson with
  shown     \* each panel's localSnapshot: a stage as it was when it was read

vars == <<session, stage, now, ran, resumed, call, client, shown>>

StageStatus == {"draft", "running", "paused", "completed", "ended_early"}
Active == {"running", "paused"}
Ended == {"completed", "ended_early"}

StageRow == [status : StageStatus, started : -1..Horizon, pausedAt : -1..Horizon,
             paused : Nat, extra : Nat, version : Nat]

Draft == [status |-> "draft", started |-> -1, pausedAt |-> -1, paused |-> 0, extra |-> 0,
          version |-> 0]

Nothing == [on |-> None, status |-> "draft", version |-> 0]

NoCall == [pc |-> "idle", act |-> "none", on |-> None, seen |-> Draft, cur |-> None]

Init ==
  /\ session = [status |-> "absent", current |-> None, version |-> 0]
  /\ stage = [s \in Stage |-> Draft]
  /\ call = [c \in Call |-> NoCall]
  /\ ran = [s \in Stage |-> 0] /\ resumed = [s \in Stage |-> 0]
  /\ now = 0
  /\ client = "none" /\ shown = [b \in Tab |-> Nothing]

(* Math.max(0, a - b) *)
Minus(a, b) == IF a > b THEN a - b ELSE 0

(* getRemainingSeconds, for a stage that has started: whole seconds. *)
Remaining(s, t) ==
  LET frozen == IF stage[s].status = "paused" THEN stage[s].pausedAt ELSE t
      elapsed == Minus((frozen - stage[s].started) \div Second, stage[s].paused)
  IN Minus(Duration + stage[s].extra, elapsed)

----------------------------------------------------------------------------
(* Mutant: the whole pause is lost. *)
NoPauseSeconds(seen) == 0

(* resumePauseSeconds: what is over a whole second of a pause is dropped. *)
PauseSeconds(seen) ==
  IF seen.status = "paused" THEN Minus(now, seen.pausedAt) \div Second ELSE 0

CreateSession ==
  /\ session.status = "absent"
  /\ client' \in {"panel", "api"}
  /\ session' = [session EXCEPT !.status = "draft"]
  /\ UNCHANGED <<stage, call, ran, resumed, now, shown>>

Legal(act, status) ==
  CASE act = "start" -> status \in {"draft", "paused"}
    [] act = "pause" -> status = "running"
    [] act \in {"extend", "complete", "end_early"} -> status \in Active
    [] act = "unlock_next" -> status \in Ended

(* Mutant: a row of buttons for every stage. *)
EveryStage(b, act, s) == TRUE

(* The buttons of ClassroomControlPanel are those of the stage in its       *)
(* snapshot, by the status it had there; it sends the version it had.       *)
Offered(b, act, s) ==
  /\ shown[b].on = s /\ Legal(act, shown[b].status)
  /\ shown[b].version = stage[s].version

(* The lesson's current stage, or the first that has not begun. *)
Leading(s) ==
  IF session.current # None THEN s = session.current
  ELSE stage[s].status = "draft" /\ \A t \in Stage : stage[t].status = "draft" => s <= t

(* A panel reads the lesson when its page is loaded, by the answer to its   *)
(* action, or after a 409; between these, and when the answer is lost, it   *)
(* does not look.                                                           *)
Refresh(b) ==
  /\ client = "panel"
  /\ \E s \in Stage : Leading(s) /\ shown' = [shown EXCEPT ![b] =
       [on |-> s, status |-> stage[s].status, version |-> stage[s].version]]
  /\ UNCHANGED <<session, stage, ran, resumed, now, call, client>>

(* applyStageAction reads the stage with its session.  A client whose       *)
(* expectedVersion is not the one read here is refused; nothing changes.    *)
Look(c, act, s) ==
  /\ session.status # "absent" /\ session.version < MostActions
  /\ call[c].pc = "idle"
  /\ Legal(act, stage[s].status)
  /\ client = "panel" => \E b \in Tab : Offered(b, act, s)
  /\ act = "unlock_next" => s < StageCount
  /\ act = "extend" => stage[s].extra < MostExtra
  /\ call' = [call EXCEPT ![c] =
                [pc |-> IF act = "start" /\ session.current \notin {None, s}
                        THEN "peek" ELSE "write",
                 act |-> act, on |-> s, seen |-> stage[s], cur |-> session.current]]
  /\ UNCHANGED <<session, stage, ran, resumed, now, client, shown>>

(* start: "Another classroom stage is still active". *)
Peek(c) ==
  /\ call[c].pc = "peek"
  /\ call' = [call EXCEPT ![c] = IF stage[@.cur].status \in Active THEN NoCall
                                 ELSE [@ EXCEPT !.pc = "write"]]
  /\ UNCHANGED <<session, stage, ran, resumed, now, client, shown>>

StartStage(c) ==
  LET s == call[c].on  seen == call[c].seen IN
  /\ call[c].act = "start"
  /\ stage' = [stage EXCEPT ![s] =
                 [@ EXCEPT !.status = "running", !.pausedAt = -1,
                           !.started = IF seen.started = -1 THEN now ELSE seen.started,
                           !.paused = stage[s].paused + PauseSeconds(seen),
                           !.version = stage[s].version + 1]]
  /\ resumed' = [resumed EXCEPT ![s] = @ + (IF seen.status = "paused" THEN 1 ELSE 0)]
  /\ session' = [status |-> "live", current |-> s, version |-> session.version + 1]

PauseStage(c) ==
  /\ call[c].act = "pause"
  /\ stage' = [stage EXCEPT ![call[c].on] = [@ EXCEPT !.status = "paused", !.pausedAt = now,
                                                    !.version = stage[call[c].on].version + 1]]
  /\ session' = [session EXCEPT !.version = @ + 1] /\ UNCHANGED resumed

ExtendStage(c) ==
  /\ call[c].act = "extend"
  /\ stage' = [stage EXCEPT ![call[c].on] =
                 [@ EXCEPT !.extra = stage[call[c].on].extra + 1,
                           !.version = stage[call[c].on].version + 1]]
  /\ session' = [session EXCEPT !.version = @ + 1] /\ UNCHANGED resumed

EndStage(c) ==
  /\ call[c].act \in {"complete", "end_early"}
  /\ stage' = [stage EXCEPT ![call[c].on] =
                 [@ EXCEPT !.status = IF call[c].act = "complete" THEN "completed"
                                      ELSE "ended_early",
                           !.pausedAt = -1, !.version = stage[call[c].on].version + 1]]
  /\ session' = [session EXCEPT !.version = @ + 1] /\ UNCHANGED resumed

(* The session's version moves, the stage's does not. *)
UnlockNext(c) ==
  /\ call[c].act = "unlock_next"
  /\ session' = [session EXCEPT !.current = call[c].on + 1, !.version = @ + 1]
  /\ UNCHANGED <<stage, resumed>>

(* The updates by id, the event and the commit. *)
Write(c) ==
  /\ call[c].pc = "write"
  /\ StartStage(c) \/ PauseStage(c) \/ ExtendStage(c) \/ EndStage(c) \/ UnlockNext(c)
  /\ call' = [call EXCEPT ![c] = NoCall]
  /\ UNCHANGED <<ran, now, client, shown>>

(* A step of the clock is shorter than a second and long against a          *)
(* transaction.                                                             *)
Tick ==
  /\ now < Horizon /\ \A c \in Call : call[c].pc = "idle"
  /\ now' = now + 1
  /\ ran' = [s \in Stage |-> ran[s] + (IF stage[s].status = "running" THEN 1 ELSE 0)]
  /\ UNCHANGED <<session, stage, call, client, resumed, shown>>

----------------------------------------------------------------------------
StageCall(c) ==
  \/ Peek(c) \/ Write(c)
  \/ \E act \in {"start", "pause", "extend", "complete", "end_early", "unlock_next"} :
       \E s \in Stage : Look(c, act, s)

Next ==
  \/ CreateSession \/ Tick
  \/ \E c \in Call : StageCall(c)
  \/ \E b \in Tab : Refresh(b)

Spec == Init /\ [][Next]_vars

----------------------------------------------------------------------------
TypeOK ==
  /\ session \in [status : {"absent", "draft", "live"}, current : Stage \union {None},
                version : Nat]
  /\ stage \in [Stage -> StageRow]
  /\ now \in 0..Horizon
  /\ ran \in [Stage -> 0..Horizon] /\ resumed \in [Stage -> Nat]
  /\ client \in {"none", "panel", "api"}
  /\ shown \in [Tab -> [on : Stage \union {None}, status : StageStatus, version : Nat]]

(* A stage is never left more seconds than its duration and extensions less *)
(* the time it has really run, and of its pauses it is charged less than a  *)
(* second for each resume, however long they were and however it was        *)
(* extended; a paused stage loses nothing.                                  *)
RemainingExcludesPauses ==
  \A s \in Stage : stage[s].status \in Active =>
    LET length == Duration + stage[s].extra IN
      /\ Remaining(s, now) <= Minus(length, ran[s] \div Second)
      /\ Remaining(s, now) >=
           Minus(length, (ran[s] + (Second - 1) * resumed[s]) \div Second)

(* Every stage before s has ended. *)
Passed(s) == \A t \in Stage : t < s => stage[t].status \in Ended

(* The stages of a lesson follow one another: while one is running or       *)
(* paused all before it have ended and none after it has begun, and the     *)
(* class is not shown a stage before those in front of it have ended.       *)
InOrder ==
  /\ \A s \in Stage : stage[s].status \in Active =>
       /\ Passed(s)
       /\ \A t \in Stage : t > s => stage[t].status = "draft"
  /\ session.current # None => Passed(session.current)

(* It holds for a teacher who keeps to the control panel, one request at a  *)
(* time, however old what the pages show; start's own check does not make   *)
(* it so.                                                                   *)
PanelKeepsOneStage == client = "panel" => InOrder

============================================================================
