# A verification of Agent Guild RPG

Agent Guild RPG is a teaching platform: students' local coding agents register
through a connector, claim tasks a teacher (or the platform) creates, run them
as provider processes, and submit the results, which an automatic reviewer and
then a teacher judge; around this there are classrooms, rooms and chat, guilds,
a lottery and a shared 2D world. This directory holds TLA+ specifications of
the parts of that program where order, time and failure matter, the TLC
configurations that check them on small instances, and TLAPS proofs.

Paths below are relative to the repository; `MODULES` stands for
`apps/api/src/modules`.

## 1. Inventory

One Node.js process (`apps/api`) serves HTTP and WebSocket requests over a
database (Prisma); a second one (`apps/api/src/review-worker.ts`) processes the
review queue; each student's machine runs an agent connector
(`apps/agent-connector`); browsers run `apps/web`. A handler is an async
function: it runs alone between two awaits, and any other handler may run at
each of them. A statement is atomic against the database. Development and tests
use SQLite, where a transaction is atomic too; a classroom runs PostgreSQL 16
(`README.md:55`, `:126`), whose transactions are READ COMMITTED unless they ask
for more. Only the claim of a task asks (`Serializable`,
`agent-task.service.ts:697`); elsewhere a transaction that reads rows and then
writes them by id is modelled as two steps, and one whose writes carry their
own conditions as one. What a transaction writes is committed as one.

| Component | State | Operations | What makes it correct |
| --- | --- | --- | --- |
| **Agent task control plane** (`MODULES/agent-orchestration/agent-task.service.ts`) | rows AgentTask, AgentTaskDependency, AgentTaskAttempt | create, schedule, pause, resume, cancel; claim with its ranking and provider quota, heartbeat, complete, fail; lease recovery, reconciliation of dependents | one execution at a time per task, fenced by the lease token; dependencies first; heavy tasks of a student one at a time; connector capacities; dead leases come back; a graph ends; the quota holds and no task starves |
| **Connector worker** (`apps/agent-connector/src/task-worker.ts`, `client.ts`, `adapters/provider-process-adapter.ts`) | the lease being executed, its renewal timer and request, the provider process and its kill timer, retry counters | claim loop, execution of a lease, renewal, repeated requests with timeouts, termination, shutdown | no two providers on one task; only true outcomes are reported; the loop never stops |
| **Connector command line, adapters** (`apps/agent-connector/src/cli.ts`, `role-selector.ts`, `adapters/`) | mode, heartbeat timer, signal listeners, the spawned program with its timers and output, exit code | role choice, connect, test, instruction, worker, shutdown | a command that ends by itself leaves nothing behind, has a true exit code and tells the server that it is offline |
| **Connector registry** (`MODULES/agent-connectors/agent-connectors.service.ts`) | pairing codes, connector tokens, online status and lastSeenAt, event log | createPairing, connect, heartbeat, recordEvents, listConnectorEvents, stale sweep | a code buys one token; events are stored once and read in order; offline is eventually true |
| **In-memory orchestrator** (`MODULES/agent-orchestration/orchestrator.ts`, `prisma-agent-run-state.persistence.ts`) | a DAG of runs, running set, provider quota, snapshots | schedule, pause, resume, cancel, start, finish, fail, restore | legal transitions only; capacity; a restored graph continues |
| **Submissions and review queue** (`MODULES/submissions`, `MODULES/queue`, `review-worker.ts`, `MODULES/reviews`) | submissions, reviews, BullMQ jobs | create, createFromAgentTask, enqueue, processSubmissionReview, recovery sweep, teacher's decision | every submission is reviewed or handed to a teacher; one result per review; a decision is final |
| **Classrooms** (`MODULES/classrooms`) | sessions with stage progress and version, help requests | create, stage actions, help: create, claim, resolve, cancel | one stage runs at a time; a stale version changes nothing; a help request has one owner |
| **Rooms and chat** (`MODULES/rooms`, `MODULES/chat`) | access grants, channels, messages | grant, revoke, expire, send, list | the newest messages reach every reader who has access |
| **Realtime gateway and agent world** (`MODULES/realtime`) | sockets, subscriptions, presence, avatar positions, per-student movement queue | connect, disconnect, subscribe, move, reset | a connected user is shown online; no socket outlives its session; the browser ends where the server is |
| **Guilds** (`MODULES/guilds`) | guilds, memberships, invitations | create, invite, accept, decline, remove | one guild per student; an invitation is used once |
| **Website lottery** (`MODULES/website-lottery`) | one draw per student and day | draw, redraw | one redraw; no option twice |
| **Memory, teaching agents, insights** (`MODULES/memory`) | memory rows, conversations, the times of the last reflections; the cache of derived avatars | record and reflect, converse, three-step procedures with rule fallback, insights; derive and list avatars | no reflection begun within the cooldown after another has ended; an answer tells who wrote it and follows its question; a cached list does not hide a change for long |
| **Accounts and sessions** (`MODULES/auth`; `apps/web/src/app/login`, `lib/session.ts`, `components/auth`) | users, sessions; the browser's cookie, stored identity and banners | register, login, logout, authenticate, clean up | an address has one owner; an ended session authenticates nobody and every page loaded afterwards comes to say so |
| **Schema and seed** (`apps/api/prisma`) | the tables with their keys | empty and fill in the order of the keys | a run leaves the whole scenario or a state the next run repairs |
| **Quests, teams, world read models** (`MODULES/quests`, `agent-team`, `world`) | the identity in the team and its desk; the rest is read | choose, clear, connect with a role; queries | the page shows the stored identity, the avatar stands at its desk |
| **Panels of the web client** (`apps/web/src/components`: `teacher`, `agent-team`, `classroom`, `chat`, `guild`, `website-lottery`) | a list copied from the page, busy rows, requests | click, answer, later list, refresh | a quiet panel shows nothing older than it was told |
| **Web client, the rest** (`apps/web`) | view state, sockets | rendering, requests, path finding | reconnects and shows the server's state |
| **Contracts, infrastructure** (`packages/contracts`, `main.ts`, filters) | none | schemas, error mapping | - |

Interactions: connectors call the control plane and the registry over HTTP
(each call may be lost, delayed or repeated by the client); the control plane
and the registry push avatar events into the realtime gateway; a completed
task may become a submission; submissions enqueue review jobs for the worker
process; classrooms, rooms and chat publish through the gateway.

The hard behaviours, each at its line, are the `hazards` of `PROJECT.json`.
Most are of three kinds: a row is read, awaited and then written by id (pause,
resume, cancel, fail, create with dependencies, pairing, redraw, stage actions,
invitations); time runs on two machines (lease, renewal, retries, shutdown,
countdown); and what follows a commit is lost, late or out of order
(reconciliation, enqueueing, and every event a browser is told by).

## 2. Modules

| Module | Models |
| --- | --- |
| `FencedLease` | the abstract promise: numbered attempts, one holder per task, exclusive tasks of one owner one at a time, results accepted from the holder only |
| `AgentTask` | the control plane, every request split at its awaits |
| `ClaimQueue` | which task a claim gets: the page, its ranking, the capacity and the provider's bucket |
| `MCAgentTask`, `AgentTask*.cfg` | the instances of `AgentTask` |
| `AgentTaskProofs` | proofs about it |
| `TaskWorker` | connectors executing a task, in discrete time |
| `MCTaskWorker`, `TaskWorker*.cfg` | its instances |
| `TaskWorkerProofs` | proofs about it |
| `ReviewDesk` | the abstract promise: one open review per student and day, forward only, decided once |
| `ReviewPipeline` | submissions, review jobs, the worker and the teacher's decision |
| `MCReviewPipeline`, `ReviewPipeline*.cfg` | its instances |
| `Classroom` | the stages of a lesson under teacher and API calls, and what is left of a stage |
| `StageCountdown` | the countdown a browser computes from a snapshot (extends `Classroom`) |
| `ClassroomView` | how a stage reaches the student's banner |
| `HelpDesk` | help requests with their claims, and the room access they give |
| `Gateway` | one user's sockets, presence and session checks |
| `RoomMessages` | a guest's copy of a chat room, under the owner's grants and revocations |
| `AgentWorld` | a student's avatar: row, movement queue, lock, and the student's browser |
| `AvatarView` | a user's figure in somebody else's world: derivation, cache, shared loads, events, poll |
| `ConnectorRegistry` | pairing, the connector command, its heartbeats, the stale sweep, the panel |
| `WebsiteLottery` | drawing and redrawing against the teacher's edits |
| `Guilds` | founding, inviting, accepting, removing |
| `Orchestrator` | the in-memory scheduler |
| `Pathfinding` | A* on the workstation floor |
| `Seed` | the tables, their foreign and unique keys, and the script that fills them beside a running API |
| `Accounts` | registration and login |
| `Sessions` | a browser's session: row, cookie, stored identity, and the banners of its tabs |
| `Memories` | observations, automatic reflections and the map that holds their times |
| `Panels` | one open panel of the web client with its rows, requests and lists |
| `AgentTeam` | the identity in the team: its row, the page's choice, the avatar's desk |
| `EventLog` | the events connectors report in batches, and a reader with a cursor |
| `RoomHistory` | a room's older pages, read along a cursor |
| `Answers` | what the model or the rules write, step by step, and the NPC's dialog |
| `ConnectorCli` | one run of the connector's command, from the choice of a role to its exit code |
| `CourseProofs` | proofs about `HelpDesk`, `Guilds`, `WebsiteLottery`, `Accounts`, `Classroom`, `Memories`, and the types of all parts of `Course` |
| `ViewsProofs` | proofs about `ReviewPipeline`, `Gateway` and `AgentWorld`, and the types of all parts of `Views` |
| `ProgramProofs` | proofs about `Orchestrator`, `ConnectorCli` and `Seed` |
| `RouteProofs` | proofs about `Pathfinding` and `ClaimQueue` |
| `ClientProofs` | proofs about `Answers` and `AgentTeam` |
| `PanelProofs` | proofs about `Panels`, `EventLog` and `RoomHistory` |
| `Course` | what requests change at once: the review desk, `Classroom`, `HelpDesk`, `WebsiteLottery`, `Guilds`, `Pathfinding`, `Orchestrator`, `Seed`, `Accounts`, `Memories`, `Panels`, `Answers`, `ConnectorCli`, `ClaimQueue`, `EventLog`, `RoomHistory`, `AgentTeam` |
| `MCCourse`, `Course.cfg` | its instance |
| `Views` | what must reach somebody in the end: the review's worker, `AgentWorld`, `Gateway`, `RoomMessages`, `ConnectorRegistry`, `ClassroomView`, `AvatarView`, `Sessions` |
| `MCViews`, `Views.cfg` | its instance |
| `StageCountdown.cfg` | the countdown's violation |

### 2.1 AgentTask

The three tables are functions over `Task`: `status`, `reason`
(failureReason, only its classes), `blockedBy` (blockedByCount), `token`,
`lapsed` (leaseExpiresAt is in the past), `heavyKey` (heavyLeaseKey is set) and
`attempts`, the sequence of attempt rows. A lease token is a random string that
is never used again; it is modelled by the number of the attempt it was made
for. `req` holds the requests in flight: which step they are at and what they
have read. One action is one round trip to the database: `BeginPause` /
`WritePause`, `BeginComplete` / `CommitComplete`, and so on. After a completion
the same request scans the dependents, reads each and settles it
(`ScanDependents`, `ReadDependent`, `SettleDependent`), each step separately
interleaved; after another end it marks them (`MarkDependents`). A claim poll
is three steps any poller takes: `Recover` (one expired lease), `ReconcilePass`,
and `Claim` (select and transaction). `Restart` loses every request in flight.

Abstractions, all of data or of delays:
- `availableAt`, priority, aging and provider quota only delay a claim; `Claim`
  may pick any claimable task. What they decide is the subject of `ClaimQueue`
  (2.11). `Claim` merges the selection and the
  transaction: the transaction checks everything again but blockedByCount, which
  is 0 on every queued row (proved, `DependenciesFirst`).
- Heartbeat and completion test the expiry in their update with the time they
  captured when they read the row, so between the two steps a lapse makes no
  difference but a recovery does; `LeaseCurrent` is the test of the token.
- `AgentSession.status`, `lastSeenAt` and `publishAvatarState` are written but
  never read by a decision here. Page sizes (100, 200, 50) are taken to be
  enough for the instance. Result payloads are not modelled.
- Workers are permissive: any live connector may send a heartbeat, an answer or
  a repeated answer for any attempt it was granted, at any time.

### 2.2 TaskWorker

`phase` is where `run`/`executeLease` of a connector is; `call` the request or
the wait it is in; `hb` the renewal timer or request; `child` the causes of
termination and the kill timer; `lost`, `shut` the two abort signals. Requests
carry their age (time on the network since they were sent or answered), the
time left until the client gives up, and the number of the try. `Tick` lets one
unit pass for all of them and is not enabled while a timer is due, as
`setTimeout` callbacks run when due; a message older than `Delay` never
arrives. The server is a one-task control plane whose requests are atomic.

Abstractions: the back-off between tries (0.25 s and 0.5 s) is rounded into the
grace; requeueing has no back-off; the run's own timeout may fire at any time;
a request given up by the client is served before that or never; a crash takes
the provider with it (a provider that survives the connector is a hazard the
program does not defend against); reporting an event (`run.started`,
`run.completed`) takes any time up to its timeout and its outcome is ignored,
as in the code.

### 2.3 ReviewPipeline

`review`, `pending` and `reviewer` are the rows (status, whether
pendingReviewKey is set, reviewerId); `client` the submission handlers between
their awaits (`Submit` the look-up, `Insert`/`Duplicate` the transaction,
`EnqueueOrWait`); `adds` the `queue.add` calls of the API, which outlive the
answer; `sweep` what the worker's recovery has read and not yet added; `job` the
Redis job of each submission; `runner` the worker's slots with the attempt
number and the lock each execution started with. `RunReads`, `RunAssesses`,
`RunThrows`, `MarkNeedsTeacher`, `JobCompletes` and `JobFails` are the stretches
of `createReviewJobProcessor` between its awaits. BullMQ and Redis are external:
an addition under an existing identifier is ignored, whatever the job's state; a
job whose lock is lost is executed again while the first execution goes on, once
(`maxStalledCount`), and then failed without calling the processor; failed jobs
are kept until a hundred later ones push them out (`Forget`).

Abstractions: a request is its (student, clientRequestId) and becomes at most
one submission; refusals before the transaction (connector offline, task not
completed) change nothing and are not actions; the model's answer, the SOP, the
observations it stores and the events to the browser are left out; submissions
are never deleted; of a decision only the reviewer is kept; the sweep's limit of
500 rows is not reached by the instances.

### 2.4 Lessons: Classroom, StageCountdown, ClassroomView, HelpDesk

`Classroom` splits `applyStageAction` at its reads: `Look` (the stage and the
session), `Peek` (the second look of some actions) and one writing action per
kind (`StartStage`, `PauseStage`, `ExtendStage`, `EndStage`, `UnlockNext`), all
ending in `Write`, the session update. The clock `now` has `Second` steps in a
second; a row counts whole seconds, so `PauseSeconds` and `Remaining` drop what is
over, as the code's `Math.floor` does. `ran` and `resumed` are auxiliaries: how long a
stage was really running, how often it was resumed. `client` says
whether the lesson is driven by the API or by control panels. A panel is a page
(`Tab`) with its `localSnapshot` (`shown`): `Refresh` reads the stage that leads the
lesson, when the page is loaded, answered or told of a conflict, and between two
of these the page acts on what it has, however old. `Offered` are the buttons of
that state, and the server takes them only at the version the page sends; the
stage's version does not move with `unlock_next`, so an old page may be taken for
a new one. `StageCountdown` adds a snapshot and the formula
the banner and the panel share. `ClassroomView` keeps of a stage only the
session's version: `Commit`, `ReadSnapshot` and `Broadcast` are the three awaits
of a request, the socket drops, joins late and loses what was sent meanwhile,
and polls answer in any order; `Always` is the client's rule that a poll answer
replaces what is shown.

`HelpDesk` reads a row (`ReadHelp`), moves it by compare-and-set on its version
(`Unmoved`) and then, for a claim, makes the grant in two more statements whose
failure is swallowed (`SupportLook`, `SupportGrant`, `SupportFails`).

### 2.5 Sockets and chat: Gateway, RoomMessages

`Gateway` follows the sockets of one user through `handleConnection` (`hello`
is the await it is at), with `handleDisconnect` and the end of the session at
any of them; `known` is `client.data.userId`, `timers` the session checks.
`RoomMessages` numbers messages by their creation and keeps the viewer's merged
copy, the room's events, the poll of the newest page, the viewer's own message
on its way back, and the count of failed polls. `grants` are the owner's rows for
this guest: `CreateGrant` adds one beside those that still hold, `RevokeReads`
and `RevokeWrites` are the two statements of `revokeGrant`, and `Admitted` is
what every request asks. Unsubscriptions and zones are left out.

`RoomHistory` is the other way to read a room: a client of the API that asks for
the page before the oldest message it has (`before`). A row appears a little
after its time was taken (`now - 1`), and `late` keeps the messages that came
where the reader had been. `HistoryReadOnce` says what the cursor loses: it is
the time alone, so a message of the same millisecond as the last of a page is
never shown (`Shadowed`). The property excepts just these, which do get lost, and
shows that nothing else does.

### 2.6 Avatars: AgentWorld, AvatarView

`AgentWorld` is what one student sees of the own avatar: `Turn` is the promise
chain of `movementQueues`, `MoveChecksLock`/`MoveWrites` and
`ResetReads`/`ResetWrites` the two stretches of a move and of the return home,
`LockAvatar`/`Unlock` the task or review that takes the agent, and
`AvatarMovement`, `AgentStatus` and `ApplyAvatars` the browser's three sources.
A route is taken as walked when it is accepted.

`AvatarView` is what somebody else sees of it. The server derives a status from
three facts (`Derive`), a list is answered from the cache, by the load under way
or by a new one (`FromCache`, `FromShared`, `FromNew`), and `Invalidate` forgets
cache and load although the load goes on. Publishers read the avatar and send it
in two steps; the browser has the list it replaces, single avatars it fetches,
and events that may be lost or late; `drawn` is the scene of one watched zone,
which a list or a newcomer draws again (`Refresh`) and an event restyles
(`Restyle`). Loads read in one step; other users do not matter and are left out.

### 2.7 ConnectorRegistry

`pairing` are the credentials, `cli` the runs of the command with their phase
and their heartbeat request, `row`, `fresh` and `contact` the connector rows
with the age and the order of `lastSeenAt`. Requests are multisets (`wire`), may
be repeated by the client's retry and are handled or lost in any order. `Age` is
the 75 seconds after which `Stale` counts a row as offline. A command that is stopping
may repeat a report of either kind: the retries of an online heartbeat that was
under way go on, and whether one was is not kept.

`EventLog` is what the connectors report. `wire` are the requests of
`recordEvents` on their way, also those the client has given up or repeated; a
lost one simply stays there. `Persist` is the transaction, in which an identifier
that is there already stays as it is (`Upsert`), and `Refuse` its rollback. The
reader's page (`ListConnectorEvents`) is on its way while others record; `late`
keeps the events that were recorded, under an earlier time, where the reader had
been.

### 2.8 WebsiteLottery and Guilds

Both split every request into its reads and its writes. What the database
refuses is a guard of the write: the unique draw of a student and of an option,
the foreign key of an option (`WebsiteLottery`), and the partial index that
allows a student one active membership (`IndexAllows`, line 514 of the
PostgreSQL baseline migration).

### 2.9 Orchestrator and Pathfinding

`Orchestrator` is single-threaded: an operation with the `schedule()` at its end
is one step, and `settled` says that `schedule()` has seen all runs.
`Pathfinding` takes a turn of A*'s loop per step; lengths are hundredths of a
grid step, a diagonal rounded up and an estimate down, so that rounding cannot
make the estimate too large. `least` is the reference: the lengths found by
relaxing all edges, without a queue or an estimate. It is the search from the free
node nearest the avatar to the free node nearest the click; the last piece to the exact
target, with its own check of the straight line, and the removal of points in the
middle of a straight piece (`workstation-pathfinding.ts:85-99`, `:214-231`) are not
modelled.

### 2.10 Seed, Accounts, Sessions, Memories

`Seed` keeps for each table which rows it has (`PeopleKeys` to `LessonKeys` are
the foreign keys with what a deletion does) and takes one `deleteMany` or
`createMany` per step; the database refuses a step under the keys, and the API
registers a user between any two. `Accounts` holds in a row whose password its
hash is of, so that "gets another's account" can be said. `Sessions` is the
production build, whose cookie no script can remove: `sync` is the request of a
banner, `leave` the logout, and `row`, `age`, `cookie` and `snapshot` are shared
by the tabs. A banner asks when its page is loaded (`Open`) and not again;
`due` is an auxiliary: this tab's page was loaded when its session was over, and
its request has neither been lost nor met another deletion of the row. `Memories` is the map `lastReflectTime` with the calls that check
it, reflect, and store the time last.

### 2.11 ClaimQueue

A claim is `BeginClaim` (the query of a page by raw priority, ranked by `Score`),
`Reserve` for each candidate the connector is able to do (`reserveProviderQuota`,
with `Refilled` the bucket when the call comes) and `Commit`, the transaction
that counts the leases again and takes the row as it was read; a refused one
tries the next candidate, and a refused reservation ends the claim. Time goes by
ticks of half a minute: a claim is answered within a tick, and a lease lasts
`MostHold` ticks at most. `recent` is an auxiliary that keeps what was reserved
in each tick of the last minute. Only light tasks of one student are in the
instance; the exclusion of heavy tasks is `AgentTask`'s.

### 2.12 Panels and Answers

`Panels` describes nine panels by what they are made of: which `button`s a click
disables, when the server accepts the write, what the answer does to the list
(patch a row, replace the list), what `router.refresh` does, and where the first
list comes from. `row` counts writes; `learnt` is an auxiliary that holds the
newest of each row an answer has told the panel; `crossed` the rows with two
requests at once. Requests and answers are late, refused or lost.

`Answers` keeps of an answer who wrote each piece (`said`) and which earlier
pieces the prompt quotes (`SubmissionReview` to `ClassInsight`). `ByModel`,
`ByRules`, `ModelFails` and `NoJson` are the ways a step may end; `GiveUp` is
the client's time-out of five seconds, after which the API goes on. `dialog` is
the NPC's dialog with its history; `crossed` says that another NPC was clicked
over a pending answer.

`AgentTeam` is the panel of the team's page, the binding it writes and the desk
of the avatar, which `setMyBinding` moves in two more statements after the upsert
(`SetWrites`, `ResetReads`, `ResetWrites`), a connector that names a role moves
in its transaction (`Connect`) and the student leaves on foot (`Walk`). The
buttons are disabled for the role being saved only, so requests overlap:
`stale`, `unsure` and `away` are auxiliaries that say when page, answer and desk
cannot be what the row says.

### 2.13 ConnectorCli

`run` are the timers, the listener and the output of `ProviderProcessAdapter`
(or of the test adapter), `program` the process it spawned: alive or not,
killed, and whether a descendant holds its pipes, for `Close` comes only when
they are shut. `Stop` is a signal that finds a listener, `Die` one that does
not. `beat` is the timer or the request of `startHeartbeat` (`Reschedule` is
what runs when the request is over). Three requests set the connector's row online:
a heartbeat, the event of a run (`ReportStarted`, `Settle`; tried once, and what
the client has given up may be served still) and a `Claim`. `mail` says of which
kinds, "online" and "offline", there are requests on their way, any number of each,
and `server` what was recorded last; `crossed` says that one that says online was
on its way when the command stopped. `CommandEndsClean` claims nothing of a command
that a signal without a listener kills (`Die`), and of the test command not that it ends
although it ignores SIGTERM.

## 3. Runs

| Run | Instance | Question |
| --- | --- | --- |
| `task_chain` | two tasks a <- b, b heavy, one connector, two requests and two polls at once, pause/resume/cancel, restarts, attempts up to 2 with maxAttempts 1 | fencing, gate (`OneOpenAttempt`, `DependencyGate`) |
| `task_slots` | two heavy tasks, two connectors, pause/resume, restarts | exclusivity of heavy tasks (`HeavyExclusive`); refinement of `FencedLease` |
| `task_drain` | a stored join (c after a and b), two connectors, one may die | capacity (`LightWithinCapacity`); liveness: the graph ends, so leases come back (`GraphDrains`) |
| `task_pause` | one task | violated: a task is paused while leased |
| `task_unlock` | a <- b created while a completes | violated: b stays blocked for ever |
| `worker_lease` | two connectors, lease 6, all other durations 1, one repetition | no duplicate execution; refinement of `FencedLease` |
| `worker_alone` | one connector that may be shut down or crash at any point, two attempts | only true outcomes are recorded; the loop comes back to its next claim (`HonestOutcome`, `LoopAdvances`) |
| `worker_slow_claim` | the shipped durations in units of 5 s, claim response up to 20 s late | violated: two providers at once |
| `course` | see below | what requests of several people change at once |
| `views` | see below | what has to reach somebody in the end |
| `classroom_countdown` | one stage that starts and runs | violated: the countdown is not the server's time |
| `review_stuck` | one submission, one slot, three attempts, but the hand-over to the teacher may throw once | violated: the review stays queued |

`course` and `views` compose components that share neither rows nor memory. A
behaviour chooses one `part` at the start and moves only its variables, so the
state spaces add up instead of multiplying. The other parts of `views` stay in
their initial states, where none of their fair actions is enabled, and those of
`course` hold no value (`Rests`): invariants are asked of the part that moves
(`part = "..." => ...`), action and liveness properties hold of a part at rest, so
that each property is judged by the behaviours of its own part. Requests
(`Client`) are interchangeable model values.

| Part | Instance | Properties |
| --- | --- | --- |
| `course`: review desk | two submissions of one student and day, two handlers, two teachers, one attempt per job, a hand-over that may throw | `OneOpenReview`, `ImplementsDesk` (refinement of `ReviewDesk`) |
| lesson | three stages of two seconds, seven actions, one extension each, a clock of half seconds watched for one second, two panels | `RemainingExcludesPauses`, `PanelKeepsOneStage` |
| help | one request, a teacher, two assistants and a student, two calls at once | `HelpHasOneOwner` |
| lottery | two students, two options, two calls, the teacher's edits and deletion | `NobodyLosesTheirDraw` |
| guilds | three students, two guilds, two calls | `OneGuildWithALeader` |
| route | a grid of 5 by 4, four layouts, every start and goal | `RouteIsShortest` |
| orchestrator | three runs, two workers, every graph on them | `SchedulerKeepsUp` |
| seed | an empty database or one a class has used, a run broken off or repeated, one write of the API (a registration, a session, a pairing, a world state) | `SeedLeavesScenario` |
| accounts | two people, two addresses, three requests | `AccountHasOneOwner` |
| memories | three scopes in a map of two, two observations at once, cooldown 2 | `CooldownHolds` |
| panels | each of nine panels, two rows, two requests at once, three clicks, one other write, one loss | `PanelsAgree` |
| events | two events in batches of up to two, two connectors, two moments, one repetition, pages of one | `PanelsAgree` (`EventsReadOnce`) |
| history | three messages in three milliseconds, pages of one | `PanelsAgree` (`HistoryReadOnce`) |
| team | two roles with desks of their own, two requests at once | `PanelsAgree` (`TeamPanelHolds`) |
| answers | two calls of every kind, with and without a key; two NPCs, two messages, two openings | `AnswersHold` |
| command | each mode, output of two pieces, two signals, one task with its claim and its events | `CommandEndsClean` |
| queue | a small task that is renewed for ever, a large one of lower priority, one the connector cannot do; two claims at once, a capacity of one, two requests and four tokens a minute | `QuotaServes` |
| `views`: review | one submission, two slots, three attempts, one trouble (lock, job, Redis call, API or worker lost) | `OneOwner`, `TriedBeforeTeacher`, `ReviewSettles` |
| world | two places, two clicks, one task or review, one poll beside events | `NewestCommandWins`, `BrowserCatchesUp` |
| sockets | two tabs of one user | `TabKeepsOnline`, `ExpiredSocketCloses` |
| room | two messages, pages of one, two grants | `NewestPageShown` |
| connector | two runs of the command, one pairing at a time, one copy of a request | `EndedShowsOffline` |
| banner | two stage actions whose requests overlap | `ViewCatchesUp` |
| sessions | two tabs, one login, one lost request, no page need be loaded again | `EndedSessionIsShown` |
| avatars | one fact, two changes or failures after the page opened, one event on the wire | `AvatarsCatchUp` |

Bounds and why they are enough. The races of the control plane are between a
reader and one writer of the same row, or between a completion and one
dependent; two requests beside two polls, and one retry beyond the limit
(`AttemptCap` = `MaxAttempts` + 1), reach each of them, and the safety
properties are proved without these bounds. The join of `task_drain` is the
smallest graph in which a task waits for two connectors. In `worker_lease` the
lease is the shortest that satisfies `LeaseOutlastsSilence` with one
repetition; one unit less and TLC finds the overlap. `AttemptCap` = 2 is the
least number of executions that can overlap. The review desk of `course` needs two requests
of one day, two handlers and two teachers and nothing else; jobs meet each other
only in the worker's slots, so `views` takes one submission with every
attempt the code grants and two slots for an execution that outlives its lock.
`TroubleCap` = `MaxStalls` = 1 is what the theorem about `RecoveryCanWork` assumes
(`MildTrouble`).

In the parts of `course` two calls are the least that can overtake each other,
and each part has the third actor its race needs: the teacher beside two
students in the lottery, the student who cancels beside two claimants, a third
student so that a guild can lose a member while another joins. A stage needs two
pauses before a pause counted twice shows, and both are cut to nothing when they last
half a second; a second stage must run before the current one and the running one can
differ, and a second panel must be behind the first: seven actions reach all of this,
and a third stage is there to be begun out of turn. The event log needs two
events of one moment and an identifier two connectors use, the team's page two
requests that overlap. A chat page of one
with two messages is the least in which a message leaves the page, and two grants
the least in which one is revoked and the other still holds. Three clicks let a
panel have two requests under way and a third after an answer. In `command` the
second signal is the one `process.once` no longer catches, and two pieces are the
least output that can be cut. The queue's two claims are the least that can rank
the same rows, and its bucket is refilled by half in a tick, so that it is short
and full in turn; the page holds the three tasks. `MostWait` = 8 ticks is tight:
with 7 TLC finds a large task that waits longer. In the views
two versions, commands or changes are the least that can arrive in the wrong
order; the counters (`MostVersions`, `Command`, `MostRuns`, `MostPolls`,
`MostRows`, `MostChanges`, `MostEvents`, `MostCopies`) bound how often the
environment acts, never how the program answers. `MostChanges` = 2 lets a change
fall into a load in flight and a second one into the load that follows it; one
event on the wire is enough for it to be later than a list, and an event that
finds the wire full is lost as it may always be.

Deadlock is checked in the runs of `AgentTask` and `TaskWorker`. In `course` and
`views` bounded parts really stop (a lottery whose options are deleted, a
stopped connector, a search that has its route), so it is not.

Fairness. `AgentTask!Fairness`: a request in flight takes its next step (the
event loop runs on), connectors poll for ever (their `while` loop), the lease of
a dead connector expires (time passes), and a live connector answers what it
executes. Strong fairness stands for a request that finds a handler slot free:
slots are a bound of the model. `TaskWorker!Fairness`: time passes, due timers
fire, the worker takes its own steps, a run times out in the end
(`timeoutTimer`), and a killed process is gone. Nothing is assumed of the
network, of the server, or of the provider's own termination.

`ReviewPipeline!Fairness`: the sweep comes (`setInterval`), its additions land,
an execution that has started goes on, BullMQ's timers run; `StartJob` is
strongly fair because the queue is first in, first out and a slot becomes free
again and again. A client need never finish, an add of the API never land, a
failed job never be forgotten and a teacher never decide.

The views and `Sessions` assume that handlers that have begun go on, that requests and events on
their way are delivered or lost, and that the client's repetitions come: the
polls of `AgentWorld`, `RoomMessages`, `ClassroomView` and `AvatarView`
(`setTimeout` after every answer, `setInterval`), the session check of the
gateway (`setInterval`), the panel's refresh in `ConnectorRegistry`. A poll that
may fail succeeds in the end if it is repeated for ever (strong fairness on the
answer): a network that is down for good shows nobody anything. Nobody has to
click, send, connect, load a page again, log out, draw or decide. Their liveness properties are of
the form `<>[]`: the quantities they compare change finitely often within the
bounds, so the properties say what the browser shows once the server is quiet.

### What the violations show

- `task_pause`: `pause` reads, checks and then updates by id. A claim in
  between is overwritten: the row is blocked, still carries token and
  heavyLeaseKey, and after `resume` it is queued but no claim selects it.
- `task_unlock`: the periodic `reconcileBlockedTasks` selects
  `NOT failureReason = 'paused by teacher'`, which SQL does not find true of
  NULL. Every blocked row has NULL or that text (proved, `BlockedReasons`), so
  the pass never selects anything, and a dependent is unblocked only by the
  request that completes its dependency. A dependent created meanwhile, or a
  restart between the commit and the scan, leaves it blocked; so does the third
  task of a chain whose first task ends without completion.
- `worker_slow_claim`: the worker starts its renewal timer when the claim's
  response arrives and does not read `leaseExpiresAt`.
- `review_stuck`: the update to `needs_teacher` in the catch of the third attempt
  throws (the database outage that failed the attempts is not over). The job is
  failed and kept, so every sweep's `queue.add` is ignored; the row stays queued,
  the teacher's `decide` refuses it and the student cannot submit again that day.
- `classroom_countdown`: `remainingSeconds` is what is left when the snapshot is
  taken, but banner and panel subtract the whole time since `startedAt` from it,
  so that a page opened, or a poll answered, half-way through a stage shows the
  stage as over. Only a snapshot taken at the start is counted down correctly.

### Seen while modelling

These are behaviours of the code that the models contain and that no property
forbids; they cost little, or their repair is what a property checks.

- `pause` of a task apart, the same reading then writing by id lets two connects
  use one pairing code (`agent-connectors.service.ts:92`), two grants of one
  helper meet in `createSupportGrant`, and the version in a help event replace
  the session's version in the banner (`student-classroom-banner.tsx:47`).
- A socket that closes while `handleConnection` awaits its session is entered
  into the presence map afterwards and never removed
  (`realtime.gateway.ts:189`), although `presence.service.ts:4-5` says a user is
  online only while a socket is connected. What holds is `TabKeepsOnline`.
- A move that has passed the lock's check writes after the avatar was sent home,
  so an avatar may stand away from its desk while its task runs; and a poll's
  answer replaces the scene although an event has shown a newer revision. What
  holds is `BrowserCatchesUp`.
- The end of a grant does not take a socket out of the chat room
  (`realtime.gateway.ts:286`), and the chat client never asks for an older page.
- `unlock_next` may be called on a stage that is not the current one
  (`classrooms.service.ts:635`), and a start looks for a stage still active only under
  `currentStageId`; so a client of the API can have two stages run.
  `PanelKeepsOneStage` is therefore stated for control panels and requests that do not
  overlap. Of two panels one may be behind: after the first has unlocked the second
  stage and begun it, the other may unlock it once more, or, later, put
  `currentStageId` back to a stage that has ended (the version of the ended stage has
  not moved). The stages still follow one another, because what such a page starts
  or unlocks is a stage whose predecessors have ended. What the class is shown
  as current may then be a stage that is over, which the property does not exclude.
  No page of the web client imports `ClassroomControlPanel` yet; its tests do.
- A pause is added to `pausedSeconds` in whole seconds (`classrooms.service.ts:553`): of
  two pauses of 0.9 s nothing is credited and the stage is charged for almost two.
  `RemainingExcludesPauses` says that it never costs more, less than a second for each
  resume, and that a stage is never given time for nothing.
- `invalidateCache` does not stop a load in flight: it stores its old list and
  removes the entry of the load that followed it. A list that fails or times out
  empties the world until the next one, and a late status event shows a hidden
  figure again. All of it is repaired by the calibrating poll, as the comment at
  `world-shell.tsx:264` says: `AvatarsCatchUp`.
- `memory.service.ts` sets `lastReflectTime` after the reflection it guards, so
  observations that arrive together reflect more than once within the ten
  minutes its comment (`:273`) speaks of. `CooldownHolds` is therefore said of the
  end of a reflection, not of its beginning.
- `SessionBanner` asks when it is mounted and never again
  (`session-banner.tsx:45-105`): a tab that is left open goes on showing the name of
  a session that has ended, and one whose request was lost shows it with a note about
  the network. `EndedSessionIsShown` speaks of tabs that were loaded since and were answered.
- `session-banner.tsx:65-67` says that storing the identity again makes the session's
  end slide; in production `saveSession` leaves the cookie alone (`session.ts:67-69`)
  and the row's end stays where the login put it (`auth.service.ts:184`).
- `getSession` removes an expired session with `delete`; of two requests at once
  the second finds no row and is answered 404 instead of 401.
- When the bucket is short a claim returns at once instead of trying a cheaper
  task (`agent-task.service.ts:626`), so a task that costs more than `tpm` stops
  its student's queue for ever once it has aged to the top; a limit of less than
  one request a minute never serves anybody. The page of 50 is taken by raw
  priority before aging, so that 50 tasks of higher priority, or 50 the connector
  cannot do, hide one for ever. The bucket belongs to the provider and is first
  come, first served among students; what a refused transaction paid is lost. The
  condition `Servable` of `QuotaServes` is the complement of all this.
- A panel that disables the row it is busy with remembers one row: a click on
  another row frees the first, whose second call is refused although the first
  succeeded. The lottery's manager has no busy flag and does not drop a late list of another
  day (`website-lottery-manager.tsx:44-55`); `router.refresh` does not change the
  list the guild panel copied.
- The insights say `llmUsed` also when the model's answer was no JSON and the
  rules wrote them (`learning-insight.service.ts:57-60`). `NpcDialog` has no key
  (`world-shell.tsx:795`), so a click on another NPC shows the first one's late
  answer under the second one's name; and the client gives up after five seconds
  while the model may take thirty, so an NPC may remember a reply nobody saw.
- `cli.ts`: the offline heartbeat of the test mode is not caught (`:80-81`), so a
  passed test may exit with 1, and a test command that is refused leaves the
  server told "online"; the test adapter never goes beyond SIGTERM
  (`test-expert-adapter.ts:121-125`), so a command that ignores it blocks; a
  descendant that holds the pipes delays the end even after SIGKILL; a second
  signal of one kind, or one while the role is chosen or the command is leaving,
  ends the command and leaves its program running.
- The buttons of the team's panel are disabled for one role only, so two selections
  overlap and the one that fails last puts back what was shown before the other;
  and a reset that fails after the upsert leaves the avatar at the old desk, which
  a connector naming the same role does not repair.
- `before` is a time: messages of one millisecond may be split by the end of a page
  and then never shown (`chat.service.ts:109`).
- The server counts a connector as online when it stores an event or serves a claim
  (`agent-connectors.service.ts:375`). One the client gave up, and the server serves
  after the offline report, leaves the connector shown online until it is stale.
- `runAStar` estimates the first node's distance in pixels and all others in grid
  steps; it is the only node in the open set then, so nothing depends on it.

## 4. Proofs

All theorems hold for every value of the constants that satisfies the named
assumptions; no bound of section 3 is used. The assumptions say that a bound is
a number, that a grid has a free cell, that nobody's name is not a person's: what
is without meaning in the code otherwise. Where they say more, it is named below.

Recursion is written as recursive functions (the way back of a route, `Spent`, `Doubled`,
the filter of a sequence). `Iterated` (in `RouteProofs`) shows that such a function
exists, so that its defining equation may be used, and `StepByStep` takes a fact
from each of its values to the next: were it to fail, it would fail at a least
number. `LeastMember`, `GreatestMember` and `OldestTaken` (in `ProgramProofs`) are the
same for sets of numbers.

**AgentTask** (`ConstantsAssumption`). `CoreInv` is inductive: types, the form
of each request in flight, and the tie `token[t] # 0`, status and the last
attempt. What makes fencing hold though requests write by id is that no write
sets a token but a claim's, which needs it to be NULL, and that everything
that ends an attempt names it by token. From it: `TypeCorrect`, `Fencing`,
`HistoryKept`. `KeyInv` (an open attempt of a heavy task holds the student's
key, and no two rows hold one key) is inductive relative to it:
`HeavyOneAtATime`. Every step changes the attempts in one of four ways (kept,
renewed, ended, granted), which are a stutter or a step of `FencedLease`:
`Refinement`. The gate (`DependenciesFirst`) needs that each count a request
has read was true when read and that completion is never forgotten
(`everDone`). `ResultOfHolder`, `BlockedReasons` and `LightCapacityKept`
follow the same way.

**TaskWorker** (`DurationsAssumption`, `EmitAssumption`). `WorkerInv` says how
the parts of one worker fit together (`Shape`), that attempts are not shared
(`Unshared`) and that `run.started` is over before the first renewal
(`Announced`). `Covered` is the timing argument: `Horizon(c)` is the longest
time until c's provider is dead or its lease renewed, namely what is left of
the current wait, of all the tries to come, and of the grace; it stays below
the time left of the lease. Each try shortens it, a response restores it
(`Arrived` within `Delay`), `Tick` takes one from both sides, and nobody else
can touch the lease while it is positive. Hence `WorkerExcludes`: if

    Interval + (Retries + 1) * Timeout + Grace + Delay < LeaseTime

(and the same with `ClaimDelay`), no two providers run at once. With the
shipped values, 15 + 3 * 10 + back-off 0.75 + grace 2 leaves about 12 of the
60 seconds for a message's delay, while a claim response may take up to 30: the
second inequality is the one the code does not ensure (`worker_slow_claim`).
`TruthInv` carries for each attempt what its provider did until it is recorded:
`WorkerHonest`. `WorkerAnswersAlone` follows from `Shape`; `WorkerRefinement`
shows the whole, losses and repetitions included, to be a fenced lease.

**ReviewPipeline** (in `ViewsProofs`; `PipelineAssumption`). Only three actions write rows
(`RowSteps`), which gives `OneOpenReviewHolds` and, with it, `DeskRefinement`.
`ExecInv` ties a held lock to an active job of the same attempt number, keeps
attempts and stalls below their limits for every job that may run again, and
bounds an execution's number by the executions that threw; hence `OneOwnerHolds`
and `TriedBeforeTeacherHolds`. `RecoveryInv` adds that nothing works for a
submission that does not exist, that an execution past its last catch has handed
the review over, and that every stall is paid for by a trouble; under
`MildTrouble` it makes `RecoveryCanWork` invariant. The violation `review_stuck`
drops exactly one half of that assumption.

`Fencing` and the theorems `HistoryKept` (an attempt that ended keeps its outcome,
`EndedAttemptsStay`) and `ResultOfHolder` (a result is that of the holder of the
last lease, `CompletedByHolder`) state more of `AgentTask` than a run checks; both
formulas were model-checked on the instance of `task_chain` before they were
proved.

**CourseProofs.** Nobody's rows, requests or people are bounded here; a reader of
one of these proofs learns which check in the code carries it.
- `HelpOwner` (no assumption). The version of a help row tells its status (0 open,
  1 claimed or cancelled, 2 resolved), so a request whose version is unmoved still
  sees the status it has read (`VersionTellsStatus`, `ReadIsKept`): the
  compare-and-set is enough. The grant, made outside the transaction, is that of
  the claimer since no later write changes the assignee.
- `GuildsKeepTheirLeader`. The unique key gives one active row per student
  (`OneActiveRow`); no request in flight stands to touch the leader's row
  (`SparesTheLeader`), whatever it has read has become since.
- `DrawsAreKept`, an action property. Options that are drawn are never deleted, and
  a redraw writes the old draw or a free option (`DrawsStand`).
- `AccountsKeepTheirOwner`. The address is a unique key; the property is inductive.
- `LessonHasOneStage`, `PauseCostsUnderASecond` (the parameters are numbers; `OneRequest`:
  stage requests do not overlap, as in the runs). `RowTellsTime` accounts for the time a
  stage was not running: its whole paused seconds and less than one for each
  resume (`Accounted`); the integer lemmas `TimesGrows` to `QuotientLess` carry it over the
  divisions. `ReadHolds` says that what the one request has read still stands when it
  writes. `StagesFollow`: a stage that has ended stays so, hence the stage a panel
  has shown, however long ago, is one all of whose predecessors have ended, and
  its buttons can begin no other.
  With two requests at once both fail: two resumptions each add the same pause.
- `ReflectionsRest` (`MemoryAssumption`), an action property. `Matches`: the
  entries of the bounded map are those of the scopes used last, in the order of
  their use, each with the time that was kept for it. A scope among the last
  `MaxSize` therefore finds its own entry (`KnownMatches`), and one that is new
  pushes out the scope used longest ago only (`NewMatches`). The filter that takes
  a scope out of the sequence is unfolded by `RemovedAt`.
- `CourseTypes` (all assumptions of `Course`). Most of each part's types is
  in the invariants of the other theorems; `LessonTyped`, `AccountTyped` and, in the
  modules of those theorems, `OrchTyped`, `PanelTyped`, `EventTyped`,
  `HistoryTyped` and `TeamTyped` add what these had no need of, and `PartsTyped`
  puts them together. Some of it is
  not obvious: what a stage request has read is typed when it writes, a
  run depends on older ones only, and the desk that is set is the desk of a role
  because only a request that sets one gets so far.

All are theorems of `CourseSpec`, whatever the other parts' parameters. Of
`CourseAssumption` guilds, draws and accounts need that the value for "nobody" is
none of the people or options.

**ViewsProofs** (theorems of `ViewsSpec`). `TabsKeepUserOnline` and
`MovementsKeepTheirOrder` need no assumption. `PresenceCounts`: a known socket that is up is
counted, and a non-empty count is shown. `MoveInv`: the queue holds commands in
the order they were received, all newer than any that was written, and the last
revision written is not beyond the row's. `ViewsTypes` (`ViewsAssumption`: bounds
are numbers, and the avatar's home is a place) is the type
invariant of all parts. It needs two facts of behaviour: `MoveInv` for the command at the
head of the queue, and that no more publications of an avatar are pending than
changes have been made.

**ProgramProofs** (of `CourseAssumption`: `MostRuns`, `maxConcurrency` and
`MaxOutput` are numbers; of `SeedAssumption`: its bounds are).
- `OrchestratorKeepsUp`. `SchedulerInv` adds to the property only that an active
  run is running, paused or cancelled. The work is in `ScheduleKeepsUp`: `Failed`
  is the least set of queued runs closed under "a dependency failed", so a run
  that schedule() leaves queued has none, and `OldestTaken` shows that taking the
  oldest startable runs while there is room leaves either no room or no such run.
  Every other operation breaks the property in a way the schedule() at its end
  repairs; `WaitIfPaused` and `Pause` call none and free no room.
- `CommandsEndClean`. `RunStays` ties the adapter's run to its program (a program
  is alive only while its run is going, or after the command was killed; its
  kill follows the end of the grace), `BeatStays` says in which modes and places
  there is a heartbeat or a listener at all, and `OfflineComes` that after the last
  report either that report is on its way or it has arrived, unless a heartbeat
  crossed it. At `over`, the three give the property.
- `SeedIsComplete`. `Turn` is the place at which the script empties each table.
  `NeededLater`: a table that refers to another is emptied before it; so no deletion
  is refused, and what has had its turn is empty unless somebody writes beside
  the script (`seedTouched`). `NamedBefore`: what a row refers to has been filled
  before it; so no insert is refused either. `SeedInv` says how far both have got,
  whatever crashes and writes there were before this run.

**ClientProofs** (`MostMessages` and `MostOpenings` are numbers).
- `AnswersAreTrue`. `CallWrites` says of each call that its steps are written in
  order, and that `used` is set together with the first of them the model wrote;
  `Follows` describes the history of a dialog in which nobody crossed a pending
  answer as greeting, question, answer, question, answer, and `DialogHolds`
  that such a dialog has one request at most, which asks what was said last.
- The identity in the team (no assumption; a part of `PanelsTellWhatIsStored`).
  `RequestsHold`: requests overlap only where the page is stale and the avatar's place unsure.
  `ChoiceHolds` says beside each step of a request what the page, unless it is
  stale, has chosen and what is stored, so that it knows the row once the request has
  ended; `DeskHolds` is the same of the avatar and its desk.

**PanelProofs** (`ReadersAssumption`: times, identifiers and messages are numbers,
the events are finite, a page holds something). `PanelsTellWhatIsStored` is one theorem about
four parts; its reader learns what in the code each panel relies on.
- Panels. Three things keep an old answer from showing, and each panel has one of
  them. (1) A row is written once (`RowsHold`: review, task, run, grant, guild), so every answer
  about it is the same. (2) One marker disables all buttons (`MarkerHolds`), so there is one request; the lottery's
  is newer than the last (`DrawHolds`), which the wait for its first list makes true at the start. (3) The help queue disables
  one row's buttons, and a request given up may still be served beside the next;
  `HelpHolds` shows that the version makes one answer per shown version possible: a write needs
  the version that is shown, so the row is as shown, and no other answer is out.
  `ReviewsHold`: a list that router.refresh has read may be older than an answer,
  but then another refresh is wanted. `BoardsHold`: a board is behind on a row only
  while a request about it fetches the list, and it reads that list after the answer. The
  lottery's manager has none of the three: `OptionHolds` holds of a row until two of
  its requests cross.
- The connector's log. `PageIsNext` and `CursorParts`: a page is the first rows
  behind the cursor, in one total order of time and identifier (`LogIsOrdered`), so
  the cursor parts what was read from what was not; an event persisted behind
  the cursor was late. `OneRowPerId` is the unique key that makes repeated batches
  harmless.
- A room's history. `PageIsAhead`: what the page on its way has left out is older
  than all it holds, which is the argument for the cursor being the page's
  oldest time; the messages of just that time are what it may lose (`Shadowed`).

**RouteProofs.**
- `RoutesAreShortest` (`RouteAssumption`: there is a grid and a free cell).
  The reference relaxes all steps until nothing changes, and is
  shown to be what its name says: what it says of a cell is the length of a way
  from the start (`FromStart`), and no step makes it shorter (`Relaxation`).
  `Searched` is the invariant of A*: a node off the open set has told its neighbours
  how long the way over it is. The heart is `Consistent`: the estimate, a
  square root rounded down, shrinks along a step by no more than the step costs,
  although both are rounded; so the node with the best score is final (`CurrentIsFinal`: some
  node `OnTheWay` to it would have a better one), and so is the goal when it is reached.
  `RouteIsFound`: following the parents back ends at the start, since the length
  falls with each, and gives a way of that length.
- `QuotaNeverExceeded` (`QueueAssumption`) is the first half of `QuotaServes`. `Affords` says of a
  bucket's level that it and what was reserved in the last ticks is no more
  than the limit and what has flown in meanwhile; `AffordsLater` and
  `AffordsRefilled` carry it over a tick and a refill, which is where the
  lower of the two (`Lower`) and the whole numbers per tick are needed.
  `AttemptsLeft`: a queued task has an attempt left, since an end of the last one is
  final.

Only model-checked: the liveness properties (`GraphDrains`, `LoopAdvances`, `ReviewSettles`, `BrowserCatchesUp`,
`EndedSessionIsShown`, `ExpiredSocketCloses`, `NewestPageShown`,
`EndedShowsOffline`, `ViewCatchesUp`, `AvatarsCatchUp`), since fairness is beyond the prover; the violations;
and the second half of `QuotaServes`, that no task starves: how long a task may have to
wait is a sum over all tasks before it and over the quota that refused
transactions have paid in vain, and `MostWait` is its value for the instance that
is checked, not a parameter one could assume something simple of.

## 5. Plan

Order: the control plane and its workers first, since everything else consumes
their results; then the other place where work is handed between processes
(the review queue); then what people change concurrently (classrooms, guilds,
lottery); then connections.

1. done: `AgentTask`, `FencedLease`, `TaskWorker` and their proofs.
2. done: `ReviewPipeline`, `ReviewDesk` and their proofs.
3. done: the lesson, its help requests and its banner.
4. done: `ConnectorRegistry` with the command and its heartbeat.
5. done: `Orchestrator`, `Pathfinding`.
6. done: `Gateway`, `RoomMessages`, `AgentWorld`, `AvatarView`.
7. done: `Guilds`, `WebsiteLottery`.
8. done: `Seed`, `Accounts`, `Sessions`, `Memories`, `Panels`, `Answers`,
   `ConnectorCli`, `ClaimQueue`, `EventLog`, `RoomHistory`, `AgentTeam`.
9. done: theorems about the modules of `Course` and `Views`, by the number of
   interleavings they cover: `HelpHasOneOwner`, `OneGuildWithALeader`,
   `NobodyLosesTheirDraw`, `AccountHasOneOwner`, `RemainingExcludesPauses`,
   `PanelKeepsOneStage`, `TabKeepsOnline`, `NewestCommandWins`,
   `SchedulerKeepsUp`, `CommandEndsClean`, `AnswersHold`, `PanelsAgree`.
10. done: the routes, the seed, the cooldown of reflections, the provider's
    quota, and the type invariants of `Course` and `Views`.
11. open: a bound on the wait in `QuotaServes` as a function of the constants.

## 6. Not modelled, and why

The map covers about 30 % of the implementation's lines. The rest:

- Rendering and layout of the web client (Phaser scenes, styles, forms), wording
  and formatting, prompts and scoring of the teaching agents, verification scripts,
  request schemas and error mapping: more than half of the code, with no protocol
  of its own. What the client keeps of the server is modelled; the way it is drawn
  is not. Of the scenes' life cycle two things were seen and are not modelled: a
  scene left while it is loading is never stopped (`syncWorldScene` stops active
  scenes only), and zone changes of one's own agent are sent unordered, so the
  server may end with an earlier choice than the screen.
- The terminal dialogue of the role selector, and `SopPanel`'s page (no page mounts it; the panel itself
  is in `Answers`).
- Quests and world read models are queries and single-row updates; query
  pages and read models follow from the rows.
- In modelled components: chat unsubscriptions, the subscription to a zone,
  conversation and memory retrieval.
