---------------------------- MODULE ConnectorCli ----------------------------
(***************************************************************************)
(* One run of the connector's command (apps/agent-connector/src: cli.ts,   *)
(* role-selector.ts and the two adapters): a role is chosen, the connector *)
(* connects, and the command runs the tests, one instruction, or the tasks *)
(* of the control plane until it is told to stop.  What a lease demands of *)
(* the last is the subject of TaskWorker; here it is the command's end:    *)
(* its programs, timers, signals, reports and its exit code.  The server   *)
(* takes a connector for online not only by its heartbeat: also when it    *)
(* stores an event of a run, and when it leases a task to it.              *)
(***************************************************************************)
EXTENDS Integers, FiniteSets

CONSTANTS
  MaxOutput,    \* maxOutputLength, in pieces of output
  MostSignals,  \* bound: SIGINT and SIGTERM received
  MostRuns      \* bound: tasks a worker executes

VARIABLES
  mode,     \* what the environment variables ask for
  at,       \* where run is
  tries,    \* attempts at a role
  run,      \* the adapter's run: its timers, listener and output
  program,  \* the spawned program
  result,   \* of the last run that ended
  runs,
  hears,    \* signals with a listener: process.once
  stop,     \* the signal that arrived last at a listener
  signals,
  beat,     \* startHeartbeat: its timer, or its request
  stopped,
  mail,     \* the kinds of request on their way that set its status there
  server,   \* the status it has recorded
  crossed,  \* history: a request that says online was on its way at the end
  exitCode

command == <<mode, at, tries, exitCode>>
adapter == <<run, program, result, runs>>
process == <<hears, stop, signals>>
heartbeat == <<beat, stopped, mail, server, crossed>>
vars == <<command, adapter, process, heartbeat>>

Signal == {"SIGINT", "SIGTERM"}
Attempts == 2  \* ROLE_SELECTION_ATTEMPTS

Idle == [pc |-> "idle", limit |-> FALSE, grace |-> FALSE, abortable |-> FALSE,
         by |-> {}, out |-> 0, cut |-> FALSE]
NoProgram == [life |-> "none", code |-> "none", killed |-> FALSE, held |-> FALSE]

Init ==
  /\ mode = "none" /\ at = "new" /\ tries = 0 /\ exitCode = 0
  /\ run = Idle /\ program = NoProgram /\ result = "none" /\ runs = 0
  /\ hears = {} /\ stop = "none" /\ signals = 0
  /\ beat = "off" /\ stopped = FALSE /\ mail = {} /\ server = "none"
  /\ crossed = FALSE

----------------------------------------------------------------------------
(* The adapters. *)

Testing == at = "running" /\ mode = "test"
Going == run.pc = "going"

(* append: what exceeds the limit is cut off, and said to be. *)
Append(r, n) ==
  IF r.out + n <= MaxOutput THEN [r EXCEPT !.out = @ + n]
  ELSE [r EXCEPT !.out = MaxOutput, !.cut = TRUE]

(* The test adapter does not say it. *)
AppendTest(r, n) == [Append(r, n) EXCEPT !.cut = FALSE]

(* terminate: the reason joins the output; SIGTERM, and once the timer of   *)
(* the SIGKILL.                                                             *)
Terminate(r, cause) ==
  [Append(r, 1) EXCEPT !.by = @ \union {cause},
                       !.grace = IF r.by = {} THEN TRUE ELSE @]

(* finish: success is the program's own, before anything ended it. *)
Succeeds(code) == code = "zero" /\ run.by = {}

(* run.completed or run.failed is reported too; the selector reports none. *)
Settle(code) ==
  /\ run' = [run EXCEPT !.pc = "reporting", !.limit = FALSE, !.grace = FALSE,
                        !.abortable = FALSE]
  /\ result' = IF Succeeds(code) THEN "ok" ELSE "bad"
  /\ mail' = IF at = "running" THEN mail \union {"online"} ELSE mail
  /\ UNCHANGED <<beat, stopped, server, crossed>>

(* emit: run.started, tried once.  It is answered, or given up, which stops *)
(* nothing, while the server may store it still.                            *)
ReportStarted ==
  /\ at = "running" /\ run.pc = "announcing"
  /\ run' = [run EXCEPT !.pc = "announced"] /\ mail' = mail \union {"online"}
  /\ UNCHANGED <<command, program, result, runs, process,
                 beat, stopped, server, crossed>>

Announced == run.pc = IF at = "running" THEN "announced" ELSE "announcing"

(* The program is spawned, also if the signal has been aborted meanwhile.   *)
Spawn ==
  /\ Announced /\ ~Testing
  /\ LET r == [run EXCEPT !.pc = "going", !.limit = TRUE,
                          !.abortable = at = "running"] IN
     run' = IF r.abortable /\ stop # "none" THEN Terminate(r, "abort") ELSE r
  /\ program' = [NoProgram EXCEPT !.life = "alive"]
  /\ UNCHANGED <<command, result, runs, process, heartbeat>>

SpawnTest ==
  /\ Announced /\ Testing
  /\ run' = [run EXCEPT !.pc = "going", !.limit = TRUE]
  /\ program' = [NoProgram EXCEPT !.life = "alive"]
  /\ UNCHANGED <<command, result, runs, process, heartbeat>>

(* The error event of a program that cannot be started. *)
SpawnFails ==
  /\ Announced /\ Settle("null")
  /\ UNCHANGED <<command, program, runs, process>>

Write(n) ==
  /\ Going /\ (program.life = "alive" \/ program.held)
  /\ run' = IF Testing THEN AppendTest(run, n) ELSE Append(run, n)
  /\ UNCHANGED <<command, program, result, runs, process, heartbeat>>

(* It ends by itself or of a signal, which it may also ignore, ... *)
ProgramEnds(code) ==
  /\ program.life = "alive" /\ (program.killed => code = "null")
  /\ \E held \in BOOLEAN :
       program' = [program EXCEPT !.life = "dead", !.code = code, !.held = held]
  /\ UNCHANGED <<command, run, result, runs, process, heartbeat>>

(* ... and may leave a process of its own that holds the pipes. *)
PipesAreDropped ==
  /\ program.held /\ program' = [program EXCEPT !.held = FALSE]
  /\ UNCHANGED <<command, run, result, runs, process, heartbeat>>

Close ==
  /\ Going /\ ~Testing /\ program.life = "dead" /\ ~program.held
  /\ Settle(program.code)
  /\ UNCHANGED <<command, program, runs, process>>

TestCloses ==
  /\ Going /\ Testing /\ program.life = "dead" /\ ~program.held
  /\ Settle(program.code)
  /\ UNCHANGED <<command, program, runs, process>>

(* The test command is sent SIGTERM, and no more. *)
TestTimesOut ==
  /\ Going /\ Testing /\ run.limit
  /\ run' = [AppendTest(run, 1) EXCEPT !.limit = FALSE, !.by = {"timeout"}]
  /\ UNCHANGED <<command, program, result, runs, process, heartbeat>>

(* timeoutMs *)
TimeoutFires ==
  /\ Going /\ ~Testing /\ run.limit
  /\ run' = [Terminate(run, "timeout") EXCEPT !.limit = FALSE]
  /\ UNCHANGED <<command, program, result, runs, process, heartbeat>>

(* terminationGraceMs: SIGKILL. *)
GraceEnds ==
  /\ Going /\ run.grace
  /\ run' = [run EXCEPT !.grace = FALSE]
  /\ program' = [program EXCEPT !.killed = @ \/ program.life = "alive"]
  /\ UNCHANGED <<command, result, runs, process, heartbeat>>

----------------------------------------------------------------------------
(* main: a role, and the connection. *)

Over(code) == at' = "over" /\ exitCode' = code

(* Any error before the heartbeat starts: a variable that is no number, a   *)
(* role that does not exist, an executable not allowed ...                  *)
Misconfigured ==
  /\ at \in {"new", "start"} /\ Over(1)
  /\ UNCHANGED <<mode, tries, adapter, process, heartbeat>>

(* ... or a test command not allowed, of which the server is told nothing.  *)
TestRefused ==
  /\ at = "running" /\ mode = "test" /\ run.pc = "announcing" /\ Over(1)
  /\ run' = Idle
  /\ UNCHANGED <<mode, tries, program, result, runs, process, heartbeat>>

Announce == run' = [Idle EXCEPT !.pc = "announcing"] /\ program' = NoProgram

StartCli(m) ==
  /\ at = "new" /\ mode' = m
  /\ \/ at' = "connecting" /\ UNCHANGED <<tries, run, program>>  \* a role is given
     \/ at' = "selecting" /\ tries' = 1 /\ Announce
  /\ UNCHANGED <<exitCode, result, runs, process, heartbeat>>

(* parseRoleSelectionOutput: also a successful run may say no role. *)
RoleChosen ==
  /\ at = "selecting" /\ run.pc = "reporting" /\ result = "ok"
  /\ at' = "connecting" /\ run' = Idle
  /\ UNCHANGED <<mode, tries, exitCode, program, result, runs, process, heartbeat>>

NoRole ==
  /\ at = "selecting" /\ run.pc = "reporting"
  /\ IF tries < Attempts
     THEN tries' = tries + 1 /\ Announce /\ UNCHANGED at
     ELSE at' = "connecting" /\ run' = Idle /\ UNCHANGED <<tries, program>>
  /\ UNCHANGED <<mode, exitCode, result, runs, process, heartbeat>>

Connect ==
  /\ at = "connecting" /\ at' = "start" /\ server' = "online"
  /\ UNCHANGED <<mode, tries, exitCode, adapter, process,
                 beat, stopped, mail, crossed>>

(* Not repeated; the server may have served it. *)
ConnectFails ==
  /\ at = "connecting" /\ Over(1) /\ server' \in {server, "online"}
  /\ UNCHANGED <<mode, tries, adapter, process, beat, stopped, mail, crossed>>

----------------------------------------------------------------------------
(* main: the three things it may do. *)

Test ==
  /\ at = "start" /\ mode = "test" /\ at' = "running" /\ Announce
  /\ UNCHANGED <<mode, tries, exitCode, result, runs, process, heartbeat>>

Listen == hears' = Signal /\ beat' = "timer"

Instruction ==
  /\ at = "start" /\ mode = "instruction" /\ at' = "running" /\ Listen
  /\ Announce
  /\ UNCHANGED <<mode, tries, exitCode, result, runs, stop, signals,
                 stopped, mail, server, crossed>>

Worker ==
  /\ at = "start" /\ mode = "worker" /\ at' = "running" /\ Listen
  /\ UNCHANGED <<mode, tries, exitCode, adapter, stop, signals,
                 stopped, mail, server, crossed>>

(* AgentTaskWorker: a claim, which the server may serve later, even if it is*)
(* given up here, ...                                                       *)
Claim ==
  /\ at = "running" /\ mode = "worker" /\ run = Idle /\ stop = "none"
  /\ runs < MostRuns /\ mail' = mail \union {"online"}
  /\ UNCHANGED <<command, adapter, process, beat, stopped, server, crossed>>

(* ... a task, ... *)
ExecuteLease ==
  /\ at = "running" /\ mode = "worker" /\ run = Idle /\ stop = "none"
  /\ runs < MostRuns /\ runs' = runs + 1 /\ Announce
  /\ UNCHANGED <<command, result, process, heartbeat>>

(* ... and back to the loop. *)
LeaseEnds ==
  /\ at = "running" /\ mode = "worker" /\ run.pc = "reporting" /\ run' = Idle
  /\ UNCHANGED <<command, program, result, runs, process, heartbeat>>

(* The signals have no listeners any more, the heartbeat no timer, and the  *)
(* last report is sent.                                                     *)
Leave(code) ==
  /\ at' = "leaving" /\ exitCode' = code
  /\ hears' = {} /\ stopped' = TRUE /\ beat' = IF beat = "timer" THEN "off" ELSE beat
  /\ crossed' = (beat = "sent" \/ "online" \in mail) /\ mail' = mail \union {"offline"}
  /\ UNCHANGED <<mode, tries, program, result, runs, stop, signals, server>>

RunEnds ==
  /\ at = "running" /\ mode # "worker" /\ run.pc = "reporting" /\ run' = Idle
  /\ Leave(IF result = "ok" THEN 0 ELSE 1)

(* The working directory is outside the workspace. *)
RunThrows ==
  /\ at = "running" /\ mode = "instruction" /\ run.pc = "announcing"
  /\ run' = Idle /\ Leave(1)

WorkerStops ==
  /\ at = "running" /\ mode = "worker" /\ run = Idle /\ stop # "none" /\ run' = run
  /\ Leave(IF stop = "SIGINT" THEN 130 ELSE 143)

(* The report has been answered. *)
OfflineAnswered ==
  /\ at = "leaving" /\ "offline" \notin mail /\ Over(exitCode)
  /\ UNCHANGED <<mode, tries, adapter, process, heartbeat>>

(* It has not: only the test mode does not catch that. *)
OfflineFails ==
  /\ at = "leaving" /\ Over(IF mode = "test" THEN 1 ELSE exitCode)
  /\ UNCHANGED <<mode, tries, adapter, process, heartbeat>>

----------------------------------------------------------------------------
(* Signals and heartbeats. *)

(* requestStop: the first of each kind aborts what runs; ... *)
Stop(s) ==
  /\ s \in hears /\ hears' = hears \ {s} /\ stop' = s
  /\ run' = IF Going /\ run.abortable /\ "abort" \notin run.by
            THEN Terminate(run, "abort") ELSE run
  /\ UNCHANGED <<at, beat>>

(* ... one without a listener ends the process, whatever it has started. *)
Die(s) ==
  /\ s \notin hears /\ at' = "dead" /\ run' = Idle /\ beat' = "off" /\ hears' = {}
  /\ UNCHANGED stop

Receive(s) ==
  /\ signals < MostSignals /\ signals' = signals + 1
  /\ at \notin {"new", "over", "dead"} /\ (Stop(s) \/ Die(s))
  /\ UNCHANGED <<mode, tries, exitCode, program, result, runs,
                 stopped, mail, server, crossed>>

BeatIsDue ==
  /\ beat = "timer" /\ beat' = "sent" /\ mail' = mail \union {"online"}
  /\ UNCHANGED <<command, adapter, process, stopped, server, crossed>>

(* Mutant: the next one is always scheduled. *)
RescheduleAlways == "timer"

Reschedule == IF stopped THEN "off" ELSE "timer"

(* The client's next try. *)
BeatAgain ==
  /\ beat = "sent" /\ mail' = mail \union {"online"}
  /\ UNCHANGED <<command, adapter, process, beat, stopped, server, crossed>>

(* It is answered, or out of tries while the last is on its way still. *)
BeatEnds ==
  /\ beat = "sent" /\ beat' = Reschedule
  /\ UNCHANGED <<command, adapter, process, stopped, mail, server, crossed>>

(* Of a kind more than one may be on its way; what is lost stays so for good. *)
Serve(m) ==
  /\ m \in mail /\ mail' \in {mail, mail \ {m}} /\ server' = m
  /\ UNCHANGED <<command, adapter, process, beat, stopped, crossed>>

----------------------------------------------------------------------------
Next ==
  \/ Misconfigured \/ TestRefused
  \/ \E m \in {"test", "instruction", "worker"} : StartCli(m)
  \/ RoleChosen \/ NoRole \/ Connect \/ ConnectFails
  \/ Test \/ Instruction \/ Worker \/ Claim \/ ExecuteLease \/ LeaseEnds
  \/ RunEnds \/ RunThrows \/ WorkerStops \/ OfflineAnswered \/ OfflineFails
  \/ ReportStarted \/ SpawnTest \/ TestCloses \/ TestTimesOut
  \/ Spawn \/ SpawnFails \/ PipesAreDropped \/ Close \/ TimeoutFires \/ GraceEnds
  \/ \E n \in 1..2 : Write(n)
  \/ \E code \in {"zero", "nonzero", "null"} : ProgramEnds(code)
  \/ \E s \in Signal : Receive(s)
  \/ BeatIsDue \/ BeatAgain \/ BeatEnds \/ \E m \in mail : Serve(m)

Spec == Init /\ [][Next]_vars

----------------------------------------------------------------------------
TypeOK ==
  /\ mode \in {"none", "test", "instruction", "worker"}
  /\ at \in {"new", "selecting", "connecting", "start", "running", "leaving",
            "over", "dead"}
  /\ run \in [pc : {"idle", "announcing", "announced", "going", "reporting"},
              limit : BOOLEAN, grace : BOOLEAN, abortable : BOOLEAN,
              by : SUBSET {"timeout", "abort"}, out : 0..MaxOutput, cut : BOOLEAN]
  /\ program \in [life : {"none", "alive", "dead"}, killed : BOOLEAN,
                  code : {"none", "zero", "nonzero", "null"}, held : BOOLEAN]
  /\ beat \in {"off", "timer", "sent"} /\ mail \subseteq {"online", "offline"}
  /\ server \in {"none", "online", "offline"} /\ hears \subseteq Signal
  /\ exitCode \in {0, 1, 130, 143}

(* A provider whose time is up, or that was told to stop, is gone or will   *)
(* be killed: no run waits for good for one that ignores SIGTERM.  The test *)
(* command has no such promise: it is sent SIGTERM alone.                   *)
KillFollows ==
  Going /\ ~Testing /\ (~run.limit \/ run.by # {}) =>
    run.grace \/ program.killed \/ program.life = "dead"

(* A run that is over leaves no timer and no listener; once main is over by *)
(* itself and its last request with it, nothing keeps the process alive: no *)
(* timer, no heartbeat to come, no program.  A signal without a listener    *)
(* ends the process before that, and may leave a program.                   *)
NothingStays ==
  /\ run.pc = "reporting" => ~run.limit /\ ~run.grace /\ ~run.abortable
  /\ at = "over" /\ beat # "sent" =>
       beat = "off" /\ run = Idle /\ hears = {} /\ program.life # "alive"

(* It exits with 0 only if the program it was to run did. *)
ExitCodeTells ==
  at = "over" /\ exitCode = 0 => mode # "worker" /\ program.code = "zero"

(* The server's last word of a command that ends and is heard is offline,   *)
(* unless a heartbeat, the report of a run or a claim was on its way when   *)
(* the command stopped: that may be served last.                            *)
OfflineIsLast ==
  stopped /\ "offline" \notin mail /\ ~crossed => server = "offline"

(* A command that ends by itself leaves nothing behind and has told the     *)
(* truth, as far as the four say.                                           *)
CommandEndsClean ==
  KillFollows /\ NothingStays /\ ExitCodeTells /\ OfflineIsLast

=============================================================================
