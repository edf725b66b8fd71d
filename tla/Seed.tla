-------------------------------- MODULE Seed --------------------------------
(***************************************************************************)
(* The relational schema (schema.prisma) and the seed that empties and     *)
(* fills it (seed.ts).  A table is the set of its rows, a row is named by  *)
(* its number, and of a column only a foreign key matters: what it points  *)
(* at and what deleting that does.  The seed is not a transaction: it may  *)
(* break off between two statements, and the API may be running beside it. *)
(***************************************************************************)
EXTENDS Integers, FiniteSets, Sequences

CONSTANTS
  Reader,      \* tables the API inserts into while the seed runs
  MostInserts, \* bound: such inserts
  MostCrashes  \* bound: runs broken off or run again

VARIABLES
  rows,     \* the rows of each table
  pc,       \* the statement of the seed that runs next
  outcome,  \* of this run: "running", "done", "failed"
  inserts,  \* inserts of the API beside this and earlier runs
  crashes,
  touched   \* a row was inserted since this run began

vars == <<rows, pc, outcome, inserts, crashes, touched>>

----------------------------------------------------------------------------
(* The foreign keys of each table, with what deleting the row does that a   *)
(* key points at.  Prisma restricts a required key and nulls an optional    *)
(* one unless the schema says otherwise.                                    *)
ForeignKey(table, onDelete) == [to |-> table, onDelete |-> onDelete]
Required(tables) == {ForeignKey(t, "restrict") : t \in tables}
Optional(tables) == {ForeignKey(t, "null") : t \in tables}
Owned(tables) == {ForeignKey(t, "cascade") : t \in tables}

PeopleKeys ==
  [User |-> Optional({"StudentCohort"}), StudentCohort |-> {},
   CourseWorld |-> {}, Homestead |-> Required({"User"}),
   Guild |-> Required({"User"}),
   GuildMembership |-> Required({"Guild", "User"}) \union Optional({"User"}),
   Room |-> Optional({"Homestead"}), RoomAccessGrant |-> {},
   ChatMessage |-> Required({"User"})]

CourseKeys ==
  [QuestDay |-> Required({"CourseWorld"}) \union Optional({"User"}),
   WebsiteLotteryOption |-> Required({"QuestDay", "User"}),
   WebsiteLotteryDraw |->
     Required({"QuestDay", "User", "WebsiteLotteryOption"})]

AgentKeys ==
  [AgentSession |-> Required({"User"}), AgentTeamBinding |-> Owned({"User"}),
   AgentWorldState |-> Owned({"User"}), AgentPairing |-> Required({"User"}),
   AgentConnector |-> Required({"User", "AgentSession"}),
   AgentEvent |-> Required({"AgentConnector", "User", "QuestDay"}),
   AgentSubmission |->
     Required({"User", "CourseWorld", "QuestDay", "AgentSession"})]

TaskKeys ==
  [ReviewResult |-> Required({"AgentSubmission"}) \union Optional({"User"}),
   ContributionLog |-> Required({"User"}), AgentMemory |-> Required({"User"}),
   AgentRunSnapshot |-> {},
   AgentTask |->
     Required({"User"})
       \union Optional({"CourseWorld", "QuestDay", "Guild", "AgentConnector"}),
   AgentTaskDependency |-> Owned({"AgentTask"}),
   AgentTaskAttempt |-> Owned({"AgentTask"}) \union Optional({"AgentConnector"})]

LessonKeys ==
  [UserSession |-> Required({"User"}),
   ClassroomSession |-> Required({"CourseWorld", "QuestDay", "User"}),
   ClassroomStage |-> Owned({"ClassroomSession"}),
   ClassroomStaffAssignment |-> Owned({"ClassroomSession"}) \union Required({"User"}),
   HelpRequest |->
     Owned({"ClassroomSession"}) \union Required({"User"}) \union Optional({"User"}),
   ClassroomEvent |-> Owned({"ClassroomSession"}) \union Required({"User"})]

Table ==
  DOMAIN PeopleKeys \union DOMAIN CourseKeys \union DOMAIN AgentKeys
    \union DOMAIN TaskKeys \union DOMAIN LessonKeys

ForeignKeys ==
  [t \in Table |-> CASE t \in DOMAIN PeopleKeys -> PeopleKeys[t]
                     [] t \in DOMAIN CourseKeys -> CourseKeys[t]
                     [] t \in DOMAIN AgentKeys -> AgentKeys[t]
                     [] t \in DOMAIN TaskKeys -> TaskKeys[t]
                     [] t \in DOMAIN LessonKeys -> LessonKeys[t]]

----------------------------------------------------------------------------
(* Mutant: the options before the draws that need them. *)
OptionsFirst ==
  <<"ClassroomEvent", "WebsiteLotteryOption", "WebsiteLotteryDraw">>

(* The order seedDatabase empties the tables in. *)
EmptiedFirst ==
  <<"ClassroomEvent", "WebsiteLotteryDraw", "WebsiteLotteryOption">>

Emptied ==
  EmptiedFirst \o
  <<"HelpRequest", "ClassroomStaffAssignment", "ClassroomStage",
    "ClassroomSession", "AgentMemory", "AgentEvent", "AgentTaskAttempt",
    "AgentTaskDependency", "AgentTask", "AgentRunSnapshot", "AgentConnector",
    "AgentPairing", "UserSession", "ChatMessage", "ReviewResult",
    "AgentSubmission", "AgentSession", "ContributionLog", "RoomAccessGrant",
    "GuildMembership", "Guild", "Room", "Homestead", "QuestDay",
    "CourseWorld", "User", "StudentCohort">>

(* seedScenario: how many rows of each table, in the order of their         *)
(* creation, and the rows their keys name.                                  *)
Filling(table, count, names) ==
  [into |-> table, count |-> count, names |-> names]

PeopleFilled ==
  <<Filling("StudentCohort", 1, {}), Filling("CourseWorld", 1, {}),
    Filling("User", 4, {<<"StudentCohort", 1>>}),
    Filling("Homestead", 3, {"User"} \X (2..4)),
    Filling("Guild", 1, {<<"User", 2>>}),
    Filling("GuildMembership", 3, {<<"Guild", 1>>} \union ({"User"} \X (2..4))),
    Filling("QuestDay", 2, {<<"CourseWorld", 1>>, <<"User", 1>>})>>

LessonFilled ==
  <<Filling("ClassroomSession", 1,
            {<<"CourseWorld", 1>>, <<"QuestDay", 1>>, <<"User", 1>>}),
    Filling("ClassroomStage", 4, {<<"ClassroomSession", 1>>}),
    Filling("ClassroomStaffAssignment", 2,
            {<<"ClassroomSession", 1>>, <<"User", 1>>, <<"User", 4>>}),
    Filling("AgentSession", 3, {"User"} \X (2..4)),
    Filling("Room", 1, {<<"Homestead", 1>>}),
    Filling("WebsiteLotteryOption", 4, {<<"QuestDay", 1>>, <<"User", 1>>})>>

WorkFilled ==
  <<Filling("AgentSubmission", 3,
            {<<"CourseWorld", 1>>, <<"QuestDay", 1>>}
              \union ({"User"} \X (2..4)) \union ({"AgentSession"} \X (1..3))),
    Filling("ReviewResult", 3,
            {<<"User", 1>>} \union ({"AgentSubmission"} \X (1..3))),
    Filling("ChatMessage", 5, {"User"} \X (1..4)),
    Filling("RoomAccessGrant", 2, {})>>

Filled == PeopleFilled \o LessonFilled \o WorkFilled

LastStatement == Len(Emptied) + Len(Filled)

TypeOK ==
  /\ rows \in [Table -> SUBSET (0..5)]
  /\ pc \in 1..(LastStatement + 1)
  /\ outcome \in {"running", "done", "failed"}
  /\ inserts \in 0..MostInserts /\ crashes \in 0..MostCrashes
  /\ touched \in BOOLEAN

(* A new database, or one that a class has used: row 0 stands for whatever  *)
(* rows there are.                                                          *)
Init ==
  /\ rows \in {[t \in Table |-> {}], [t \in Table |-> {0}]}
  /\ pc = 1 /\ outcome = "running"
  /\ inserts = 0 /\ crashes = 0 /\ touched = FALSE

PointsAt(u, t, onDelete) == ForeignKey(t, onDelete) \in ForeignKeys[u]

(* deleteMany: refused while a row elsewhere needs one of these.            *)
CanEmpty(t) == \A u \in Table : PointsAt(u, t, "restrict") => rows[u] = {}

Gone(t, u) == u = t \/ PointsAt(u, t, "cascade")

(* createMany: refused if an id is taken or a key names no row.             *)
CanFill(f) ==
  /\ rows[f.into] \intersect (1..f.count) = {}
  /\ \A n \in f.names : n[2] \in rows[n[1]]

Fails == outcome' = "failed" /\ UNCHANGED <<rows, pc>>

Empty ==
  /\ outcome = "running" /\ pc <= Len(Emptied)
  /\ LET t == Emptied[pc] IN
       IF CanEmpty(t)
       THEN /\ rows' = [u \in Table |-> IF Gone(t, u) THEN {} ELSE rows[u]]
            /\ pc' = pc + 1 /\ UNCHANGED outcome
       ELSE Fails
  /\ UNCHANGED <<inserts, crashes, touched>>

Fill ==
  /\ outcome = "running" /\ pc \in (Len(Emptied) + 1)..LastStatement
  /\ LET f == Filled[pc - Len(Emptied)] IN
       IF CanFill(f)
       THEN /\ rows' = [rows EXCEPT ![f.into] = @ \union 1..f.count]
            /\ pc' = pc + 1
            /\ outcome' = IF pc = LastStatement THEN "done" ELSE "running"
       ELSE Fails
  /\ UNCHANGED <<inserts, crashes, touched>>

(* main is run again: it failed, was broken off, or the class starts anew.  *)
Rerun ==
  /\ \/ outcome = "failed" /\ UNCHANGED crashes
     \/ outcome # "failed" /\ crashes < MostCrashes /\ crashes' = crashes + 1
  /\ pc' = 1 /\ outcome' = "running" /\ touched' = FALSE
  /\ UNCHANGED <<rows, inserts>>

Beside(new) ==
  /\ inserts < MostInserts /\ inserts' = inserts + 1
  /\ rows' = [t \in Table |-> rows[t] \union new[t]]
  /\ touched' = TRUE
  /\ UNCHANGED <<pc, outcome, crashes>>

Insert(t) ==
  /\ \A k \in ForeignKeys[t] : k.onDelete # "null" => rows[k.to] # {}
  /\ Beside([u \in Table |-> IF u = t THEN {0} ELSE {}])

(* register upserts the cohort under the id the seed gives it.              *)
Register ==
  Beside([u \in Table |->
            CASE u = "StudentCohort" -> {1}
              [] u \in {"User", "Homestead", "Room"} -> {0}
              [] OTHER -> {}])

Next ==
  \/ Empty \/ Fill \/ Rerun \/ Register
  \/ \E t \in Reader : Insert(t)

Spec == Init /\ [][Next]_vars

----------------------------------------------------------------------------
Scenario(t) ==
  UNION {1..Filled[i].count : i \in {j \in DOMAIN Filled : Filled[j].into = t}}

(* The seed that nobody writes beside runs through, whatever an earlier run *)
(* or a class has left, and leaves the scenario and nothing else: no table  *)
(* is emptied before those that need its rows or filled after them, and     *)
(* none that the schema has is forgotten.  A seed that reports success      *)
(* has its scenario also if the API was writing (seedDatabase).             *)
SeedLeavesScenario ==
  /\ outcome = "failed" => touched
  /\ outcome = "done" =>
       \A t \in Table :
         /\ Scenario(t) \subseteq rows[t]
         /\ ~touched => rows[t] = Scenario(t)

=============================================================================
