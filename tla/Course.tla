------------------------------- MODULE Course -------------------------------
(***************************************************************************)
(* The rows of a course that requests of several people change: each       *)
(* component, and the review pipeline.  They share no rows, so a behaviour *)
(* looks at one part at a time: part is chosen at the start and its        *)
(* component moves.  The parameters are those of the components, where     *)
(* they are explained.                                                     *)
(***************************************************************************)
EXTENDS ReviewPipeline, Integers

CONSTANTS
  StageCount, Duration, Second, LessonCall, LessonTab, LessonHorizon, MostExtra,
  MostActions,
  HelpTeacher, Assistant, HelpStudent, Help,
  LotteryStudent, Option,
  GuildStudent, MostGuilds,
  Columns, Rows, Layouts,
  MostRuns, maxConcurrency,
  SeedReader, MostInserts, MostCrashes,
  Registrant, Email, Registration,
  Scope, Observe, Cooldown, MaxSize, MemoryHorizon,
  Item, MostClicks, MostOthers, PanelTroubles,
  Npc, MostMessages, MostOpenings,
  MaxOutput, MostSignals, CliRuns,
  QueueTask, Priority, Estimate, Able, Renewed, Stored, Poll, TasksOf,
  Asked, Maximum, Page, Rpm, Tpm, MaxAttempts, MostWait, MostHold,
  Event, Connector, EventReader, Time, Id, Limit, MostBatch, MostTries,
  MostPosts,
  Message, MostTime, PageSize,
  Role, Home, NoBinding

ASSUME CourseAssumption ==
  /\ StageCount \in Nat /\ Duration \in Nat /\ Second \in Nat \ {0}
  /\ LessonHorizon \in Nat
  /\ MostExtra \in Nat /\ MostActions \in Nat
  /\ MostGuilds \in Nat /\ MostRuns \in Nat /\ maxConcurrency \in Nat
  /\ MaxOutput \in Nat /\ MostMessages \in Nat /\ MostOpenings \in Nat
  /\ Nobody \notin GuildStudent \union Option \union Registrant

(* What is read page by page is ordered by numbers. *)
ASSUME ReadersAssumption ==
  /\ Time \in SUBSET Nat /\ Id \in SUBSET Nat /\ Limit \in Nat
  /\ IsFiniteSet(Event) /\ Nobody \notin Connector \union Event
  /\ Message \in SUBSET Nat /\ MostTime \in Nat /\ PageSize \in Nat \ {0}

(* There is a grid, and no furniture takes all of it. *)
ASSUME RouteAssumption ==
  /\ Columns \in Nat \ {0} /\ Rows \in Nat \ {0}
  /\ \A walls \in Layouts : ~ ((1..Columns) \X (1..Rows) \subseteq walls)

ASSUME MemoryAssumption ==
  Cooldown \in Nat /\ MaxSize \in Nat \ {0} /\ MemoryHorizon \in Nat

ASSUME QueueAssumption ==
  /\ IsFiniteSet(QueueTask) /\ TasksOf \in [Poll -> SUBSET QueueTask]
  /\ Estimate \in [QueueTask -> Int] /\ Rpm \in Nat /\ Tpm \in Nat
  /\ MaxAttempts \in Nat \ {0} /\ MostWait \in Nat /\ MostHold \in Nat

ASSUME SeedAssumption == MostInserts \in Nat /\ MostCrashes \in Nat

(* A batch of events is sent once at least, and the clock of a room runs.   *)
ASSUME BoundsAssumption ==
  /\ MostClicks \in Nat /\ MostOthers \in Nat /\ PanelTroubles \in Nat
  /\ MostTries \in Nat \ {0} /\ MostPosts \in Nat /\ MostTime # 0

(* 100 * sqrt(n), rounded down *)
RootTable ==
  [n \in 0..(Columns * Columns + Rows * Rows) |->
     CHOOSE r \in 0..(100 * (Columns + Rows)) :
       r * r <= 10000 * n /\ (r + 1) * (r + 1) > 10000 * n]

VARIABLES
  part,
  lessonSession, lessonStage, lessonNow, lessonRan, lessonCall,
  lessonClient, lessonResumed, lessonShown,
  helpHelp, helpGrant, helpCall, helpTook,
  lotteryOption, lotteryDraw, lotteryCall, lotteryDelete,
  guildOwner, guildMember, guildCall,
  routeGrid, routeStart, routeGoal, routePc, routeOpen, routeCame, routeG,
  routeRoute, routeLeast,
  orchStatus, orchDeps, orchActive, orchWaiting, orchSettled,
  seedRows, seedPc, seedOutcome, seedInserts, seedCrashes, seedTouched,
  accountUser, accountHomestead, accountSession, accountRequest,
  accountPage,
  memoryLastReflect, memoryCall, memoryKept, memoryUsed, memoryNow,
  panelPanel, panelRow, panelShown, panelLearnt, panelCall, panelBusy,
  panelAbandoned, panelFirst, panelRefresh, panelPage, panelCrossed,
  panelSpent,
  answerKey, answerCall, answerSaid, answerDialog, answerCrossed,
  answerOpened,
  cliMode, cliAt, cliTries, cliRun, cliProgram, cliResult, cliRuns,
  cliHears, cliStop, cliSignals, cliBeat, cliStopped, cliMail, cliServer,
  cliCrossed, cliExitCode,
  queueRow, queuePoll, queueBucket, queueRecent,
  eventLog, eventCall, eventWire, eventAcked, eventCursor, eventPage,
  eventReads, eventLate,
  historyAt, historyNow, historyBefore, historyPage, historyReads,
  historyLate, historyEnded,
  teamBinding, teamDesk, teamCall, teamSelected, teamSaving, teamError,
  teamStale, teamUnsure, teamAway

L == INSTANCE Classroom WITH
  Call <- LessonCall, Tab <- LessonTab, Horizon <- LessonHorizon, session <- lessonSession,
  stage <- lessonStage, now <- lessonNow, ran <- lessonRan,
  call <- lessonCall, client <- lessonClient, resumed <- lessonResumed,
  shown <- lessonShown

H == INSTANCE HelpDesk WITH
  Teacher <- HelpTeacher, Student <- HelpStudent, Call <- Client,
  help <- helpHelp, grant <- helpGrant, call <- helpCall, took <- helpTook

Y == INSTANCE WebsiteLottery WITH
  Student <- LotteryStudent, Call <- Client, option <- lotteryOption,
  draw <- lotteryDraw, call <- lotteryCall, delete <- lotteryDelete

U == INSTANCE Guilds WITH
  Student <- GuildStudent, Call <- Client, owner <- guildOwner,
  member <- guildMember, call <- guildCall

P == INSTANCE Pathfinding WITH
  SquareRoot <- RootTable, grid <- routeGrid, start <- routeStart,
  goal <- routeGoal, pc <- routePc, open <- routeOpen, came <- routeCame,
  g <- routeG, route <- routeRoute, least <- routeLeast

O == INSTANCE Orchestrator WITH
  status <- orchStatus, deps <- orchDeps, active <- orchActive,
  waiting <- orchWaiting, settled <- orchSettled

S == INSTANCE Seed WITH
  Reader <- SeedReader, rows <- seedRows, pc <- seedPc,
  outcome <- seedOutcome, inserts <- seedInserts, crashes <- seedCrashes,
  touched <- seedTouched

I == INSTANCE Accounts WITH
  Person <- Registrant, Request <- Registration, user <- accountUser,
  homestead <- accountHomestead, session <- accountSession,
  request <- accountRequest, page <- accountPage

E == INSTANCE Memories WITH
  Horizon <- MemoryHorizon, lastReflect <- memoryLastReflect,
  call <- memoryCall, kept <- memoryKept, used <- memoryUsed,
  now <- memoryNow

N == INSTANCE Panels WITH
  Call <- Client, MostTroubles <- PanelTroubles, panel <- panelPanel,
  row <- panelRow, shown <- panelShown, learnt <- panelLearnt,
  call <- panelCall, busy <- panelBusy, abandoned <- panelAbandoned,
  first <- panelFirst, refresh <- panelRefresh, page <- panelPage,
  crossed <- panelCrossed, spent <- panelSpent

Q == INSTANCE Answers WITH
  Call <- Client, key <- answerKey, call <- answerCall, said <- answerSaid,
  dialog <- answerDialog, crossed <- answerCrossed, opened <- answerOpened

X == INSTANCE ConnectorCli WITH
  MostRuns <- CliRuns, mode <- cliMode, at <- cliAt, tries <- cliTries,
  run <- cliRun, program <- cliProgram, result <- cliResult,
  runs <- cliRuns, hears <- cliHears, stop <- cliStop,
  signals <- cliSignals, beat <- cliBeat, stopped <- cliStopped,
  mail <- cliMail, server <- cliServer, crossed <- cliCrossed,
  exitCode <- cliExitCode

J == INSTANCE ClaimQueue WITH
  Task <- QueueTask, row <- queueRow, poll <- queuePoll,
  bucket <- queueBucket, recent <- queueRecent

Z == INSTANCE EventLog WITH
  Reader <- EventReader, log <- eventLog, call <- eventCall,
  wire <- eventWire, acked <- eventAcked, cursor <- eventCursor,
  page <- eventPage, reads <- eventReads, late <- eventLate

F == INSTANCE RoomHistory WITH
  at <- historyAt, now <- historyNow, before <- historyBefore,
  page <- historyPage, reads <- historyReads, late <- historyLate,
  ended <- historyEnded

T == INSTANCE AgentTeam WITH
  Call <- Client, None <- NoBinding, binding <- teamBinding,
  desk <- teamDesk, call <- teamCall, selected <- teamSelected,
  saving <- teamSaving, error <- teamError, stale <- teamStale,
  unsure <- teamUnsure, away <- teamAway

lessonVars == <<lessonSession, lessonStage, lessonNow, lessonRan,
                lessonCall, lessonClient, lessonResumed, lessonShown>>

helpVars == <<helpHelp, helpGrant, helpCall, helpTook>>

lotteryVars == <<lotteryOption, lotteryDraw, lotteryCall, lotteryDelete>>

guildVars == <<guildOwner, guildMember, guildCall>>

routeVars == <<routeGrid, routeStart, routeGoal, routePc, routeOpen,
               routeCame, routeG, routeRoute, routeLeast>>

orchVars == <<orchStatus, orchDeps, orchActive, orchWaiting, orchSettled>>

seedVars == <<seedRows, seedPc, seedOutcome, seedInserts, seedCrashes,
              seedTouched>>

accountVars == <<accountUser, accountHomestead, accountSession,
                 accountRequest, accountPage>>

memoryVars == <<memoryLastReflect, memoryCall, memoryKept, memoryUsed,
                memoryNow>>

panelVars == <<panelPanel, panelRow, panelShown, panelLearnt, panelCall,
               panelBusy, panelAbandoned, panelFirst, panelRefresh,
               panelPage, panelCrossed, panelSpent>>

answerVars == <<answerKey, answerCall, answerSaid, answerDialog,
                answerCrossed, answerOpened>>

cliVars == <<cliMode, cliAt, cliTries, cliRun, cliProgram, cliResult,
             cliRuns, cliHears, cliStop, cliSignals, cliBeat, cliStopped,
             cliMail, cliServer, cliCrossed, cliExitCode>>

queueVars == <<queueRow, queuePoll, queueBucket, queueRecent>>

eventVars == <<eventLog, eventCall, eventWire, eventAcked, eventCursor,
               eventPage, eventReads, eventLate>>

historyVars == <<historyAt, historyNow, historyBefore, historyPage,
                 historyReads, historyLate, historyEnded>>

teamVars == <<teamBinding, teamDesk, teamCall, teamSelected, teamSaving,
              teamError, teamStale, teamUnsure, teamAway>>

courseVars ==
  <<part, vars, lessonVars, helpVars, lotteryVars, guildVars, routeVars,
  orchVars, seedVars, accountVars, memoryVars, panelVars, answerVars,
  cliVars, queueVars, eventVars, historyVars, teamVars>>

Part ==
  {"review", "lesson", "help", "lottery", "guild", "route", "orchestrator",
  "seed", "accounts", "memories", "panels", "answers", "command", "queue",
  "events", "history", "team"}

(* What a variable holds whose component does not move; two that an action *)
(* property looks at rest in their initial state.                            *)
Rests == "rests"

CourseInit ==
  /\ part \in Part
  /\ Init
  /\ IF part = "lesson" THEN L!Init ELSE
       /\ lessonSession = Rests /\ lessonStage = Rests /\ lessonNow = Rests
       /\ lessonRan = Rests /\ lessonCall = Rests /\ lessonClient = Rests
       /\ lessonResumed = Rests /\ lessonShown = Rests
  /\ IF part = "help" THEN H!Init ELSE
       /\ helpHelp = Rests /\ helpGrant = Rests /\ helpCall = Rests
       /\ helpTook = Rests
  /\ Y!Init
  /\ IF part = "guild" THEN U!Init ELSE
       /\ guildOwner = Rests /\ guildMember = Rests /\ guildCall = Rests
  /\ IF part = "route" THEN P!Init ELSE
       /\ routeGrid = Rests /\ routeStart = Rests /\ routeGoal = Rests
       /\ routePc = Rests /\ routeOpen = Rests /\ routeCame = Rests
       /\ routeG = Rests /\ routeRoute = Rests /\ routeLeast = Rests
  /\ IF part = "orchestrator" THEN O!Init ELSE
       /\ orchStatus = Rests /\ orchDeps = Rests /\ orchActive = Rests
       /\ orchWaiting = Rests /\ orchSettled = Rests
  /\ IF part = "seed" THEN S!Init ELSE
       /\ seedRows = Rests /\ seedPc = Rests /\ seedOutcome = Rests
       /\ seedInserts = Rests /\ seedCrashes = Rests /\ seedTouched = Rests
  /\ IF part = "accounts" THEN I!Init ELSE
       /\ accountUser = Rests /\ accountHomestead = Rests
       /\ accountSession = Rests /\ accountRequest = Rests
       /\ accountPage = Rests
  /\ E!Init
  /\ IF part = "panels" THEN N!Init ELSE
       /\ panelPanel = Rests /\ panelRow = Rests /\ panelShown = Rests
       /\ panelLearnt = Rests /\ panelCall = Rests /\ panelBusy = Rests
       /\ panelAbandoned = Rests /\ panelFirst = Rests
       /\ panelRefresh = Rests /\ panelPage = Rests /\ panelCrossed = Rests
       /\ panelSpent = Rests
  /\ IF part = "answers" THEN Q!Init ELSE
       /\ answerKey = Rests /\ answerCall = Rests /\ answerSaid = Rests
       /\ answerDialog = Rests /\ answerCrossed = Rests
       /\ answerOpened = Rests
  /\ IF part = "command" THEN X!Init ELSE
       /\ cliMode = Rests /\ cliAt = Rests /\ cliTries = Rests
       /\ cliRun = Rests /\ cliProgram = Rests /\ cliResult = Rests
       /\ cliRuns = Rests /\ cliHears = Rests /\ cliStop = Rests
       /\ cliSignals = Rests /\ cliBeat = Rests /\ cliStopped = Rests
       /\ cliMail = Rests /\ cliServer = Rests /\ cliCrossed = Rests
       /\ cliExitCode = Rests
  /\ IF part = "queue" THEN J!Init ELSE
       /\ queueRow = Rests /\ queuePoll = Rests /\ queueBucket = Rests
       /\ queueRecent = Rests
  /\ IF part = "events" THEN Z!Init ELSE
       /\ eventLog = Rests /\ eventCall = Rests /\ eventWire = Rests
       /\ eventAcked = Rests /\ eventCursor = Rests /\ eventPage = Rests
       /\ eventReads = Rests /\ eventLate = Rests
  /\ IF part = "history" THEN F!Init ELSE
       /\ historyAt = Rests /\ historyNow = Rests /\ historyBefore = Rests
       /\ historyPage = Rests /\ historyReads = Rests /\ historyLate = Rests
       /\ historyEnded = Rests
  /\ IF part = "team" THEN T!Init ELSE
       /\ teamBinding = Rests /\ teamDesk = Rests /\ teamCall = Rests
       /\ teamSelected = Rests /\ teamSaving = Rests /\ teamError = Rests
       /\ teamStale = Rests /\ teamUnsure = Rests /\ teamAway = Rests

CourseNext ==
  /\ UNCHANGED part
  /\ IF part = "review" THEN Next ELSE UNCHANGED vars
  /\ IF part = "lesson" THEN L!Next ELSE UNCHANGED lessonVars
  /\ IF part = "help" THEN H!Next ELSE UNCHANGED helpVars
  /\ IF part = "lottery" THEN Y!Next ELSE UNCHANGED lotteryVars
  /\ IF part = "guild" THEN U!Next ELSE UNCHANGED guildVars
  /\ IF part = "route" THEN P!Next ELSE UNCHANGED routeVars
  /\ IF part = "orchestrator" THEN O!Next ELSE UNCHANGED orchVars
  /\ IF part = "seed" THEN S!Next ELSE UNCHANGED seedVars
  /\ IF part = "accounts" THEN I!Next ELSE UNCHANGED accountVars
  /\ IF part = "memories" THEN E!Next ELSE UNCHANGED memoryVars
  /\ IF part = "panels" THEN N!Next ELSE UNCHANGED panelVars
  /\ IF part = "answers" THEN Q!Next ELSE UNCHANGED answerVars
  /\ IF part = "command" THEN X!Next ELSE UNCHANGED cliVars
  /\ IF part = "queue" THEN J!Next ELSE UNCHANGED queueVars
  /\ IF part = "events" THEN Z!Next ELSE UNCHANGED eventVars
  /\ IF part = "history" THEN F!Next ELSE UNCHANGED historyVars
  /\ IF part = "team" THEN T!Next ELSE UNCHANGED teamVars

CourseSpec == CourseInit /\ [][CourseNext]_courseVars

----------------------------------------------------------------------------
(* Type correctness, like the invariants below, is asked of the part that   *)
(* moves: the others rest.                                                  *)
CourseTypeOK ==
  /\ part \in Part
  /\ part = "lesson" => L!TypeOK
  /\ part = "help" => H!TypeOK
  /\ part = "lottery" => Y!TypeOK
  /\ part = "guild" => U!TypeOK
  /\ part = "route" => P!TypeOK
  /\ part = "orchestrator" => O!TypeOK
  /\ part = "seed" => S!TypeOK
  /\ part = "accounts" => I!TypeOK
  /\ part = "memories" => E!TypeOK
  /\ part = "panels" => N!TypeOK
  /\ part = "answers" => Q!TypeOK
  /\ part = "command" => X!TypeOK
  /\ part = "queue" => J!TypeOK
  /\ part = "events" => Z!TypeOK
  /\ part = "history" => F!TypeOK
  /\ part = "team" => T!TypeOK

(* getRemainingSeconds leaves a stage its length less the time it has really*)
(* run: whatever is paused and extended, its pauses cost it less than a     *)
(* second for each resume (whole seconds of a pause are added up).          *)
RemainingExcludesPauses == part = "lesson" => L!RemainingExcludesPauses

(* A teacher who keeps to the control panel, one request at a time, takes   *)
(* the stages of a lesson one after the other: none begins before those in  *)
(* front of it have ended, even if other tabs still show an earlier state   *)
(* of the lesson.                                                           *)
PanelKeepsOneStage == part = "lesson" => L!PanelKeepsOneStage

(* Of all who claim a help request at once one is told that it is theirs,   *)
(* nobody after a cancellation, and no other gets into the student's room.  *)
HelpHasOneOwner == part = "help" => H!HelpHasOneOwner

(* A redraw that loses its options to others' draws or to the teacher's     *)
(* deletions leaves the student the old draw, and no two students share one.*)
NobodyLosesTheirDraw == Y!NobodyLosesTheirDraw

(* Founding, inviting, accepting, declining and removing at once leave every*)
(* student in one guild at most and every guild with its leader.            *)
OneGuildWithALeader == part = "guild" => U!OneGuildWithALeader

(* findWorkstationPath finds a shortest way on its grid, from the free node *)
(* nearest the avatar to the one nearest the click, without cutting a       *)
(* corner, and gives up only if there is no way.                            *)
RouteIsShortest == part = "route" => P!RouteIsShortest

(* After schedule() has seen all runs no worker idles beside a run that     *)
(* could start, no run waits for a failed dependency, and the limit holds,  *)
(* through pauses, resumes, cancellations and restores.                     *)
SchedulerKeepsUp == part = "orchestrator" => O!SchedulerKeepsUp

(* The seed empties and fills the tables in an order the schema allows and  *)
(* forgets none: a run nobody writes beside ends with the scenario alone.   *)
SeedLeavesScenario == part = "seed" => S!SeedLeavesScenario

(* Of all who register one address one gets the account and the sessions,   *)
(* and no account lacks its homestead.                                      *)
AccountHasOneOwner == part = "accounts" => I!AccountHasOneOwner

(* A request that finds its scope among those used last goes on to reflect *)
(* only if no reflection of it has ended within the cooldown, whatever other*)
(* scopes push out of the bounded map.  The time is kept when a reflection  *)
(* ends: of observations that arrive while one is under way each reflects.  *)
CooldownHolds == E!CooldownHolds

(* What a client shows and reads agrees with the rows: a panel with no      *)
(* request under way, whose page does not say that its list is behind, shows*)
(* no row older than an answer has told it; the team's page, if its clicks  *)
(* do not overlap and no connector changes what it has read, shows the      *)
(* identity that is stored or an error after a request it knows not the end *)
(* of; and one who reads the connector's log or a room's history page by    *)
(* page gets nothing twice and misses nothing that was there when he passed,*)
(* except, in a room, messages of the very moment at which a page ended:    *)
(* the next page leaves them out (chat.service.ts: createdAt < before).     *)
PanelsAgree ==
  /\ part = "panels" => N!PanelsAgree
  /\ part = "team" => T!TeamPanelHolds
  /\ part = "events" => Z!EventsReadOnce
  /\ part = "history" => F!HistoryReadOnce

(* A procedure's or an NPC's answer says that the model wrote it exactly if *)
(* it did (an insight says only that the model answered: the rules may have *)
(* written it); an answer quotes only what has been written, and in an NPC's*)
(* dialog follows its question.                                             *)
AnswersHold == part = "answers" => Q!AnswersHold

(* The connector command, unless a signal it has no listener for kills it,  *)
(* ends with no timer, program or heartbeat to come and a true exit code; it*)
(* waits for no provider that ignores SIGTERM (the test command is sent that*)
(* alone); and the server hears offline last, unless a heartbeat, the report*)
(* of a run or a claim was on its way when the command stopped.             *)
CommandEndsClean == part = "command" => X!CommandEndsClean

(* However claims overlap, fail and are repeated, one process draws no more *)
(* from a provider than its limit, and no task that could be served waits   *)
(* for ever behind better ones: it is leased within the time named.         *)
QuotaServes == part = "queue" => J!QuotaServes

=============================================================================
