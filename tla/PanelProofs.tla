----------------------------- MODULE PanelProofs -----------------------------
(***************************************************************************)
(* Proofs about what a client shows beside what is stored: the panels that *)
(* change rows, and the readers of the connector's log and of a room's     *)
(* history, page by page.                                                  *)
(***************************************************************************)
EXTENDS ClientProofs, FiniteSetTheorems

----------------------------------------------------------------------------
(* Panels.  What a panel shows is behind an answer only while it still      *)
(* waits for a list, and what an answer says is what the row was.           *)

PanelName == {"reviews", "tasks", "runs", "mine", "help", "grants", "guild", "draw", "options"}
OneButton == {"tasks", "runs", "grants", "guild", "draw"}
OneWrite == {"reviews", "tasks", "runs", "mine", "grants", "guild"}
Board == {"tasks", "runs"}

Counts == [Item -> Nat]
CallStepName == {"idle", "sent", "answered", "refused", "asking", "listed"}
PanelCall ==
  [step : CallStepName, of : Item \union {N!Nothing}, seen : Nat, got : Nat, list : Counts]

PanelShape ==
  /\ panelPanel \in PanelName \union {"none"}
  /\ panelRow \in Counts /\ panelShown \in Counts /\ panelLearnt \in Counts
  /\ panelCall \in [Client -> PanelCall]
  /\ \A c \in Client : IF panelCall[c].step = "idle" THEN panelCall[c] = N!Idle ELSE panelCall[c].of \in Item
  /\ panelAbandoned \subseteq [of : Item, seen : Nat]
  /\ panelFirst \in [at : {"given", "asked", "read", "here", "failed"}, list : Counts]
  /\ panelRefresh \in [wanted : Nat, read : BOOLEAN, list : Counts]

(* What a panel does not have never happens to it. *)
StepsBelong ==
  /\ \A c \in Client : panelCall[c].step \in {"asking", "listed"} => panelPanel \in Board
  /\ panelRefresh.read => panelRefresh.wanted > 0
  /\ panelRefresh.wanted > 0 => panelPanel \in {"reviews", "guild"}
  /\ panelFirst.at # "given" => panelPanel \in {"draw", "options"}
  /\ panelPanel = "none" =>
       /\ \A c \in Client : panelCall[c].step = "idle"
       /\ \A i \in Item : panelRow[i] = 0 /\ panelShown[i] = 0 /\ panelLearnt[i] = 0
       /\ panelAbandoned = {}

(* What the server answers is what a row is, and most rows are written once. *)
RowsHold ==
  /\ \A i \in Item : panelLearnt[i] <= panelRow[i]
  /\ \A c \in Client : panelCall[c].step = "answered" => panelCall[c].got <= panelRow[panelCall[c].of]
  /\ panelPanel \in OneWrite =>
       /\ \A i \in Item : panelRow[i] <= 1
       /\ \A c \in Client : panelCall[c].step \in {"answered", "asking", "listed"} => panelCall[c].got = 1

(* A panel with one marker for all its buttons has one request. *)
MarkerHolds ==
  panelPanel \in OneButton =>
    /\ \A c \in Client : panelCall[c].step # "idle" => panelBusy = "all"
    /\ \A c, d \in Client : panelCall[c].step # "idle" /\ panelCall[d].step # "idle" => c = d

(* A version can be written over once, so that one answer at most is next.  *)
HelpHolds ==
  panelPanel = "help" =>
    /\ \A i \in Item : panelShown[i] <= panelRow[i]
    /\ \A c \in Client : panelCall[c].step \in {"sent", "answered"} =>
         panelCall[c].seen <= panelShown[panelCall[c].of]
    /\ \A c \in Client : panelCall[c].step = "answered" =>
         panelCall[c].got = panelShown[panelCall[c].of] + 1
    /\ \A c, d \in Client :
         panelCall[c].step = "answered" /\ panelCall[d].step = "answered" /\ panelCall[c].of = panelCall[d].of =>
           c = d

(* The list comes first, and an answer is newer than the last one. *)
DrawHolds ==
  panelPanel = "draw" =>
    /\ panelFirst.at # "here" => /\ \A c \in Client : panelCall[c].step = "idle"
                                 /\ \A i \in Item : panelLearnt[i] = 0
    /\ \A c \in Client : panelCall[c].step = "answered" => panelLearnt[panelCall[c].of] <= panelCall[c].got

OptionHolds(i) ==
  /\ \A c, d \in Client :
       panelCall[c].step # "idle" /\ panelCall[c].of = i /\ panelCall[d].step # "idle" /\ panelCall[d].of = i => c = d
  /\ \A c \in Client : panelCall[c].step = "answered" /\ panelCall[c].of = i => panelLearnt[i] <= panelCall[c].got
  /\ panelFirst.at \in {"asked", "read"} =>
       /\ \A c \in Client : panelCall[c].step # "idle" => panelCall[c].of # i
       /\ panelLearnt[i] = 0
  /\ panelLearnt[i] <= panelShown[i]

OptionsHold == panelPanel = "options" => \A i \in Item : i \in panelCrossed \/ OptionHolds(i)

UpToDate(list) == \A i \in Item : panelLearnt[i] <= list[i]

(* A refresh that was wanted after an answer brings it. *)
ReviewsHold ==
  panelPanel = "reviews" =>
    /\ panelPage = "good" /\ panelRefresh.wanted = 0 => UpToDate(panelShown)
    /\ panelRefresh.read =>
         panelRefresh.wanted > 1 \/ (panelRefresh.wanted = 1 /\ UpToDate(panelRefresh.list))

PatchesHold == panelPanel \in {"mine", "help", "grants", "guild", "draw"} => UpToDate(panelShown)

(* A board is behind on a row only while it fetches its list for it. *)
BoardsHold ==
  panelPanel \in Board =>
    /\ panelPage = "good" =>
         \A i \in Item : \/ panelLearnt[i] <= panelShown[i]
                         \/ \E c \in Client : panelCall[c].step \in {"asking", "listed"} /\ panelCall[c].of = i
    /\ \A c \in Client : panelCall[c].step = "listed" => UpToDate(panelCall[c].list)

PanelInv ==
  /\ PanelShape /\ StepsBelong /\ RowsHold /\ MarkerHolds
  /\ HelpHolds /\ DrawHolds /\ OptionsHold /\ ReviewsHold /\ PatchesHold /\ BoardsHold

LEMMA KindsAre ==
  ASSUME panelPanel \in PanelName \union {"none"}
  PROVE  /\ N!Is("button", "own") <=> panelPanel \in {"reviews", "mine", "help"}
         /\ N!Is("button", "all") <=> panelPanel \in OneButton
         /\ N!Is("button", "none") <=> panelPanel = "options"
         /\ N!Is("server", "once") <=> panelPanel \in OneWrite \ {"mine"}
         /\ N!Is("server", "again") <=> panelPanel = "mine"
         /\ N!Is("server", "version") <=> panelPanel = "help"
         /\ N!Is("server", "redraw") <=> panelPanel = "draw"
         /\ N!Is("server", "any") <=> panelPanel = "options"
         /\ N!Is("answer", "patch") <=> panelPanel \in PanelName \ Board
         /\ N!Is("answer", "list") <=> panelPanel = "tasks"
         /\ N!Is("refreshed", "copied") <=> panelPanel = "reviews"
         /\ N!Is("refreshed", "never") <=> panelPanel \in PanelName \ {"reviews", "guild"}
         /\ N!Is("list", "awaited") <=> panelPanel = "draw"
<1>1. /\ N!Panel["reviews"] = N!ReviewQueue /\ N!Panel["tasks"] = N!TeacherTaskBoard
      /\ N!Panel["runs"] = N!AgentAssignmentBoard /\ N!Panel["mine"] = N!StudentAgentAssignments
      /\ N!Panel["help"] = N!HelpQueue /\ N!Panel["grants"] = N!AccessGrantList
      /\ N!Panel["guild"] = N!GuildWorkspace /\ N!Panel["draw"] = N!WebsiteLotteryPanel
      /\ N!Panel["options"] = N!WebsiteLotteryManager
  BY DEF N!Panel
<1>2. CASE panelPanel = "reviews"
  BY <1>1, <1>2 DEF N!Is, N!ReviewQueue, OneButton, OneWrite, Board, PanelName
<1>3. CASE panelPanel = "tasks"
  BY <1>1, <1>3 DEF N!Is, N!TeacherTaskBoard, OneButton, OneWrite, Board, PanelName
<1>4. CASE panelPanel = "runs"
  <2>1. /\ N!AgentAssignmentBoard.button = "all" /\ N!AgentAssignmentBoard.server = "once"
        /\ N!AgentAssignmentBoard.answer # "patch" /\ N!AgentAssignmentBoard.answer # "list"
        /\ N!AgentAssignmentBoard.refreshed = "never" /\ N!AgentAssignmentBoard.list = "given"
    BY Zenon DEF N!AgentAssignmentBoard
  <2>. QED BY <1>1, <1>4, <2>1 DEF N!Is, OneButton, OneWrite, Board, PanelName
<1>5. CASE panelPanel = "mine"
  BY <1>1, <1>5 DEF N!Is, N!StudentAgentAssignments, OneButton, OneWrite, Board, PanelName
<1>6. CASE panelPanel = "help"
  BY <1>1, <1>6 DEF N!Is, N!HelpQueue, OneButton, OneWrite, Board, PanelName
<1>7. CASE panelPanel = "grants"
  BY <1>1, <1>7 DEF N!Is, N!AccessGrantList, OneButton, OneWrite, Board, PanelName
<1>8. CASE panelPanel = "guild"
  BY <1>1, <1>8 DEF N!Is, N!GuildWorkspace, OneButton, OneWrite, Board, PanelName
<1>9. CASE panelPanel = "draw"
  BY <1>1, <1>9 DEF N!Is, N!WebsiteLotteryPanel, OneButton, OneWrite, Board, PanelName
<1>10. CASE panelPanel = "options"
  BY <1>1, <1>10 DEF N!Is, N!WebsiteLotteryManager, OneButton, OneWrite, Board, PanelName
<1>11. CASE panelPanel = "none"
  BY <1>11 DEF N!Is, OneButton, OneWrite, Board, PanelName
<1>. QED BY <1>2, <1>3, <1>4, <1>5, <1>6, <1>7, <1>8, <1>9, <1>10, <1>11 DEF PanelName

LEMMA PanelsSay == PanelInv => N!PanelsAgree
<1>. SUFFICES ASSUME PanelInv, N!AtRest, panelPage = "good", NEW i \in Item
              PROVE  panelShown[i] >= panelLearnt[i] \/ (N!Is("button", "none") /\ i \in panelCrossed)
  BY DEF N!PanelsAgree
<1>1. /\ \A c \in Client : panelCall[c] = N!Idle
      /\ panelRefresh.wanted = 0
  BY DEF N!AtRest
<1>2. \A c \in Client : panelCall[c].step = "idle"
  BY <1>1 DEF N!Idle
<1>3. panelShown[i] \in Nat /\ panelLearnt[i] \in Nat
  BY DEF PanelInv, PanelShape, Counts
<1>4. panelLearnt[i] <= panelShown[i] \/ (panelPanel = "options" /\ i \in panelCrossed)
  <2>1. CASE panelPanel = "options"
    BY <2>1 DEF PanelInv, OptionsHold, OptionHolds
  <2>2. CASE panelPanel \in Board
    BY <2>2, <1>2 DEF PanelInv, BoardsHold
  <2>3. CASE panelPanel = "reviews"
    BY <2>3, <1>1 DEF PanelInv, ReviewsHold, UpToDate
  <2>4. CASE panelPanel \in {"mine", "help", "grants", "guild", "draw"}
    BY <2>4 DEF PanelInv, PatchesHold, UpToDate
  <2>5. CASE panelPanel = "none"
    BY <2>5 DEF PanelInv, StepsBelong
  <2>. QED BY <2>1, <2>2, <2>3, <2>4, <2>5 DEF PanelInv, PanelShape, PanelName, Board
<1>. QED BY <1>3, <1>4, KindsAre DEF PanelInv, PanelShape

LEMMA PanelIdle ==
  /\ N!Idle \in PanelCall /\ N!Idle.step = "idle" /\ N!Fresh \in Counts
  /\ \A i \in Item : N!Fresh[i] = 0
<1>1. N!Fresh \in Counts /\ \A i \in Item : N!Fresh[i] = 0
  BY DEF N!Fresh, Counts
<1>. QED BY <1>1 DEF N!Idle, PanelCall, CallStepName

LEMMA PanelInit == N!Init => PanelInv
<1>. SUFFICES ASSUME N!Init PROVE PanelInv
  OBVIOUS
<1>1. /\ panelPanel = "none" /\ panelRow = N!Fresh /\ panelShown = N!Fresh /\ panelLearnt = N!Fresh
      /\ panelCall = [c \in Client |-> N!Idle] /\ panelAbandoned = {}
      /\ panelFirst = [at |-> "given", list |-> N!Fresh]
      /\ panelRefresh = [wanted |-> 0, read |-> FALSE, list |-> N!Fresh]
  BY DEF N!Init
<1>2. PanelShape
  BY <1>1, PanelIdle DEF PanelShape
<1>3. StepsBelong /\ RowsHold
  BY <1>1, PanelIdle DEF StepsBelong, RowsHold, OneWrite, Counts
<1>. QED BY <1>1, <1>2, <1>3 DEF PanelInv, MarkerHolds, HelpHolds, DrawHolds, OptionsHold, ReviewsHold, PatchesHold,
     BoardsHold, OneButton, Board

LEMMA AcceptMeans ==
  ASSUME panelPanel \in PanelName \union {"none"}, NEW i, NEW seen
  PROVE  /\ panelPanel \in OneWrite => (N!Accepts(i, seen) <=> panelRow[i] = 0)
         /\ panelPanel \in {"help", "draw"} => (N!Accepts(i, seen) <=> panelRow[i] = seen /\ panelRow[i] < 2)
         /\ panelPanel = "options" => N!Accepts(i, seen)
<1>. DEFINE any == N!Is("server", "any")
            two == N!Is("server", "version") \/ N!Is("server", "redraw")
<1>1. N!Accepts(i, seen) = CASE any -> TRUE [] two -> panelRow[i] = seen /\ panelRow[i] < 2 [] OTHER -> panelRow[i] = 0
  BY DEF N!Accepts
<1>2. (any <=> panelPanel = "options") /\ (two <=> panelPanel \in {"help", "draw"})
  BY KindsAre
<1>. HIDE DEF any, two
<1>. QED BY <1>1, <1>2 DEF OneWrite

LEMMA PanelOpens ==
  ASSUME PanelInv, NEW p \in DOMAIN N!Panel, N!Open(p)
  PROVE  PanelInv'
<1>1. p \in PanelName
  BY DEF N!Panel, PanelName
<1>2. /\ panelPanel = "none" /\ panelPanel' = p
      /\ panelFirst' = IF N!Panel[p].list = "given" THEN panelFirst ELSE [panelFirst EXCEPT !.at = "asked"]
      /\ UNCHANGED <<panelRow, panelShown, panelLearnt, panelCall, panelBusy, panelAbandoned, panelRefresh, panelPage,
                     panelCrossed>>
  BY DEF N!Open
<1>3. N!Panel[p].list # "given" => p \in {"draw", "options"}
  <2>1. N!AgentAssignmentBoard.list = "given"
    BY Zenon DEF N!AgentAssignmentBoard
  <2>. QED BY <1>1, <2>1 DEF N!Panel, PanelName, N!ReviewQueue, N!TeacherTaskBoard, N!StudentAgentAssignments, N!HelpQueue,
       N!AccessGrantList, N!GuildWorkspace
<1>4. /\ panelFirst.at = "given" /\ panelRefresh.wanted = 0 /\ ~panelRefresh.read
      /\ \A c \in Client : panelCall[c].step = "idle"
      /\ \A i \in Item : panelRow[i] = 0 /\ panelShown[i] = 0 /\ panelLearnt[i] = 0
  BY <1>2 DEF PanelInv, PanelShape, StepsBelong
<1>5. PanelShape'
  BY <1>1, <1>2 DEF PanelInv, PanelShape
<1>6. panelFirst'.at # "given" => p \in {"draw", "options"}
  BY <1>2, <1>3, <1>4
<1>7. StepsBelong'
  BY <1>1, <1>2, <1>4, <1>6 DEF StepsBelong, PanelName
<1>8. RowsHold' /\ MarkerHolds' /\ HelpHolds' /\ DrawHolds'
  BY <1>2, <1>4 DEF RowsHold, MarkerHolds, HelpHolds, DrawHolds
<1>9. OptionsHold'
  <2>1. SUFFICES ASSUME NEW i \in Item PROVE OptionHolds(i)'
    BY DEF OptionsHold
  <2>2. /\ \A c \in Client : panelCall'[c].step = "idle"
        /\ panelLearnt'[i] = 0 /\ panelShown'[i] = 0
    BY <1>2, <1>4
  <2>. QED BY <2>2 DEF OptionHolds
<1>11. PatchesHold' /\ BoardsHold'
  BY <1>2, <1>4 DEF PatchesHold, BoardsHold, UpToDate
<1>10. ReviewsHold'
  BY <1>2, <1>4 DEF ReviewsHold, UpToDate
<1>. QED BY <1>5, <1>7, <1>8, <1>9, <1>10, <1>11 DEF PanelInv

LEMMA FirstListCame ==
  ASSUME PanelInv, N!FirstRead \/ N!FirstLands \/ N!FirstFails
  PROVE  PanelInv'
<1>1. /\ UNCHANGED <<panelPanel, panelRow, panelLearnt, panelCall, panelBusy, panelAbandoned, panelRefresh, panelPage,
                     panelCrossed>>
      /\ panelFirst.at \in {"asked", "read"}
      /\ \/ panelFirst' = [at |-> "read", list |-> panelRow] /\ panelShown' = panelShown
         \/ panelFirst' = [at |-> "here", list |-> N!Fresh] /\ panelShown' = panelFirst.list
         \/ panelFirst' = [panelFirst EXCEPT !.at = "failed"] /\ panelShown' = panelShown
  BY DEF N!FirstRead, N!FirstLands, N!FirstFails
<1>2. panelPanel \in {"draw", "options"}
  BY <1>1 DEF PanelInv, StepsBelong
<1>3. /\ PanelShape'
      /\ panelFirst'.at # "given"
      /\ panelFirst'.at = "here" => panelShown' = panelFirst.list
      /\ panelFirst'.at # "here" => panelShown' = panelShown
  BY <1>1, PanelIdle DEF PanelInv, PanelShape
<1>4. StepsBelong' /\ RowsHold' /\ MarkerHolds' /\ HelpHolds' /\ ReviewsHold' /\ BoardsHold'
  BY <1>1, <1>2, <1>3 DEF PanelInv, StepsBelong, RowsHold, MarkerHolds, HelpHolds, ReviewsHold, BoardsHold, Board
<1>5. panelFirst.list \in Counts /\ panelLearnt \in Counts
  BY DEF PanelInv, PanelShape
<1>6. DrawHolds' /\ PatchesHold'
  <2>1. CASE panelPanel = "draw"
    <3>1. \A i \in Item : panelLearnt[i] = 0
      BY <1>1, <2>1 DEF PanelInv, DrawHolds
    <3>2. DrawHolds'
      BY <1>1, <2>1 DEF PanelInv, DrawHolds
    <3>3. \A i \in Item : panelLearnt[i] <= panelFirst.list[i] /\ panelLearnt[i] <= panelShown[i]
      BY <1>5, <3>1, <2>1 DEF PanelInv, PatchesHold, UpToDate, Counts
    <3>. QED BY <1>1, <1>3, <3>2, <3>3 DEF PatchesHold, UpToDate
  <2>2. CASE panelPanel = "options"
    BY <1>1, <2>2 DEF DrawHolds, PatchesHold
  <2>. QED BY <1>2, <2>1, <2>2
<1>7. OptionsHold'
  <2>1. SUFFICES ASSUME panelPanel = "options", NEW i \in Item, i \notin panelCrossed PROVE OptionHolds(i)'
    BY <1>1 DEF OptionsHold
  <2>2. OptionHolds(i)
    BY <2>1 DEF PanelInv, OptionsHold
  <2>3. panelLearnt[i] = 0 /\ panelFirst.list[i] \in Nat
    BY <1>1, <1>5, <2>2 DEF OptionHolds, Counts
  <2>4. panelLearnt'[i] <= panelShown'[i]
    BY <1>1, <1>3, <2>2, <2>3 DEF OptionHolds
  <2>. QED BY <1>1, <2>2, <2>4 DEF OptionHolds
<1>. QED BY <1>3, <1>4, <1>6, <1>7 DEF PanelInv
LEMMA PanelAnswers ==
  ASSUME PanelShape, NEW c \in Client, NEW what \in CallStepName \ {"idle"}, NEW version \in Nat,
         panelCall[c].step # "idle", N!Answers(c, what, version)
  PROVE  /\ UNCHANGED <<panelPanel, panelShown, panelLearnt, panelBusy, panelAbandoned, panelFirst, panelRefresh,
                        panelPage, panelCrossed>>
         /\ panelCall' \in [Client -> PanelCall]
         /\ panelCall'[c].step = what /\ panelCall'[c].got = version
         /\ panelCall'[c].of = panelCall[c].of /\ panelCall'[c].seen = panelCall[c].seen
         /\ panelCall[c].of \in Item
         /\ \A d \in Client \ {c} : panelCall'[d] = panelCall[d]
<1>. DEFINE x == [panelCall EXCEPT ![c].step = what]
            y == [x EXCEPT ![c].got = version]
<1>1. panelCall' = y
  BY DEF N!Answers
<1>2. panelCall \in [Client -> PanelCall] /\ panelCall[c].of \in Item
  BY DEF PanelShape
<1>3. /\ x \in [Client -> PanelCall] /\ x[c] = [panelCall[c] EXCEPT !.step = what]
      /\ \A d \in Client \ {c} : x[d] = panelCall[d]
  BY <1>2 DEF PanelCall
<1>. HIDE DEF x
<1>4. y \in [Client -> PanelCall] /\ y[c] = [x[c] EXCEPT !.got = version] /\ \A d \in Client \ {c} : y[d] = x[d]
  BY <1>3 DEF PanelCall
<1>. HIDE DEF y
<1>5. x[c].step = what /\ x[c].of = panelCall[c].of /\ x[c].seen = panelCall[c].seen /\ x[c] \in PanelCall
  BY <1>2, <1>3 DEF PanelCall
<1>6. y[c].step = what /\ y[c].of = panelCall[c].of /\ y[c].seen = panelCall[c].seen /\ y[c].got = version
  BY <1>4, <1>5 DEF PanelCall
<1>. QED BY <1>1, <1>2, <1>3, <1>4, <1>6 DEF N!Answers

LEMMA AnsweredShape ==
  ASSUME PanelInv, NEW c \in Client, panelCall[c].step = "sent", NEW what \in {"answered", "refused"},
         NEW version \in Nat, N!Answers(c, what, version), panelRow' \in Counts
  PROVE  PanelShape' /\ StepsBelong' /\ MarkerHolds' /\ ReviewsHold' /\ PatchesHold'
<1>1. PanelShape /\ what \in CallStepName \ {"idle"} /\ panelCall[c].step # "idle"
  BY DEF PanelInv, CallStepName
<1>. DEFINE facts == /\ UNCHANGED <<panelPanel, panelShown, panelLearnt, panelBusy, panelAbandoned, panelFirst, panelRefresh,
                        panelPage, panelCrossed>>
         /\ panelCall' \in [Client -> PanelCall]
         /\ panelCall'[c].step = what /\ panelCall'[c].got = version
         /\ panelCall'[c].of = panelCall[c].of /\ panelCall'[c].seen = panelCall[c].seen
         /\ panelCall[c].of \in Item
         /\ \A d \in Client \ {c} : panelCall'[d] = panelCall[d]
<1>2. facts
  BY <1>1, PanelAnswers
<1>3. \A d \in Client : IF panelCall'[d].step = "idle" THEN panelCall'[d] = N!Idle ELSE panelCall'[d].of \in Item
  <2>1. TAKE d \in Client
  <2>. QED BY <1>1, <1>2 DEF PanelShape
<1>4. PanelShape'
  BY <1>1, <1>2, <1>3 DEF PanelShape
<1>5. StepsBelong'
  <2>1. panelPanel # "none"
    BY <1>1 DEF PanelInv, StepsBelong
  <2>. QED BY <1>1, <1>2, <2>1 DEF PanelInv, StepsBelong
<1>6. MarkerHolds'
  BY <1>1, <1>2 DEF PanelInv, MarkerHolds
<1>7. ReviewsHold' /\ PatchesHold'
  BY <1>2 DEF PanelInv, ReviewsHold, PatchesHold, UpToDate
<1>. QED BY <1>4, <1>5, <1>6, <1>7
LEMMA RowWritten ==
  ASSUME PanelShape, NEW i \in Item, N!Written(i)
  PROVE  /\ panelRow' \in Counts /\ panelRow'[i] = panelRow[i] + 1 /\ panelRow[i] \in Nat
         /\ \A j \in Item \ {i} : panelRow'[j] = panelRow[j]
         /\ \A j \in Item : panelRow[j] \in Nat /\ panelRow'[j] \in Nat /\ panelRow[j] <= panelRow'[j]
BY DEF PanelShape, Counts, N!Written

LEMMA CallIsWritten ==
  ASSUME PanelInv, NEW c \in Client, panelCall[c].step = "sent", N!Writes(c)
  PROVE  PanelInv'
<1>. DEFINE i == panelCall[c].of
            version == panelRow[i] + 1
<1>1. /\ PanelShape /\ i \in Item /\ "answered" \in CallStepName \ {"idle"} /\ panelCall[c].step # "idle"
      /\ N!Accepts(i, panelCall[c].seen) /\ N!Written(i) /\ N!Answers(c, "answered", version)
      /\ panelCall \in [Client -> PanelCall]
  BY DEF PanelInv, PanelShape, CallStepName, N!Writes
<1>2. /\ panelRow' \in Counts /\ panelRow'[i] = panelRow[i] + 1 /\ panelRow[i] \in Nat
      /\ \A j \in Item \ {i} : panelRow'[j] = panelRow[j]
      /\ \A j \in Item : panelRow[j] \in Nat /\ panelRow'[j] \in Nat /\ panelRow[j] <= panelRow'[j]
      /\ version \in Nat
  BY <1>1, RowWritten
<1>3. PanelShape' /\ StepsBelong' /\ MarkerHolds' /\ ReviewsHold' /\ PatchesHold'
  BY <1>1, <1>2, AnsweredShape
<1>4. /\ UNCHANGED <<panelPanel, panelShown, panelLearnt, panelBusy, panelAbandoned, panelFirst, panelRefresh,
                     panelPage, panelCrossed>>
      /\ panelCall'[c].step = "answered" /\ panelCall'[c].got = version
      /\ panelCall'[c].of = i /\ panelCall'[c].seen = panelCall[c].seen
      /\ \A d \in Client \ {c} : panelCall'[d] = panelCall[d]
  <2>. HIDE DEF version
  <2>. QED BY <1>1, <1>2, PanelAnswers
<1>5. /\ panelPanel \in OneWrite => panelRow[i] = 0
      /\ panelPanel = "help" => panelRow[i] = panelCall[c].seen
  BY <1>1, AcceptMeans DEF PanelShape
<1>6. /\ panelLearnt \in Counts /\ panelShown \in Counts
      /\ \A d \in Client : /\ panelCall[d].got \in Nat /\ panelCall[d].seen \in Nat
                           /\ (panelCall[d].step # "idle" => panelCall[d].of \in Item)
      /\ \A j \in Item : panelLearnt[j] \in Nat /\ panelShown[j] \in Nat /\ panelLearnt[j] <= panelRow[j]
  BY <1>1 DEF PanelInv, PanelShape, RowsHold, PanelCall, Counts
<1>. HIDE DEF i
<1>7. RowsHold'
  <2>1. \A j \in Item : panelLearnt'[j] <= panelRow'[j]
    BY <1>2, <1>4, <1>6
  <2>2. ASSUME NEW d \in Client, panelCall'[d].step = "answered" PROVE panelCall'[d].got <= panelRow'[panelCall'[d].of]
    <3>1. CASE d = c
      BY <1>1, <1>2, <1>4, <3>1
    <3>2. CASE d # c
      <4>1. panelCall[d].step = "answered" /\ panelCall'[d] = panelCall[d]
        BY <1>4, <2>2, <3>2
      <4>2. panelCall[d].got <= panelRow[panelCall[d].of] /\ panelCall[d].of \in Item
        BY <1>6, <4>1 DEF PanelInv, RowsHold
      <4>. QED BY <1>2, <1>6, <4>1, <4>2
    <3>. QED BY <3>1, <3>2
  <2>3. ASSUME panelPanel' \in OneWrite
        PROVE  /\ \A j \in Item : panelRow'[j] <= 1
               /\ \A d \in Client : panelCall'[d].step \in {"answered", "asking", "listed"} => panelCall'[d].got = 1
    <3>1. panelRow[i] = 0
      BY <1>4, <1>5, <2>3
    <3>. QED BY <1>2, <1>4, <2>3, <3>1 DEF PanelInv, RowsHold
  <2>. QED BY <2>1, <2>2, <2>3 DEF RowsHold
<1>8. HelpHolds'
  <2>1. SUFFICES ASSUME panelPanel = "help" PROVE HelpHolds'
    BY <1>4 DEF HelpHolds
  <2>2. /\ \A j \in Item : panelShown[j] <= panelRow[j]
        /\ \A d \in Client : panelCall[d].step \in {"sent", "answered"} => panelCall[d].seen <= panelShown[panelCall[d].of]
        /\ \A d \in Client : panelCall[d].step = "answered" => panelCall[d].got = panelShown[panelCall[d].of] + 1
        /\ \A d, e \in Client :
             panelCall[d].step = "answered" /\ panelCall[e].step = "answered" /\ panelCall[d].of = panelCall[e].of => d = e
    BY <2>1 DEF PanelInv, HelpHolds
  <2>3. panelRow[i] = panelShown[i]
    <3>1. panelCall[c].seen <= panelShown[i] /\ panelShown[i] <= panelRow[i]
      BY <1>1, <2>2 DEF i
    <3>. QED BY <1>1, <1>2, <1>5, <1>6, <2>1, <3>1
  <2>4. \A d \in Client : panelCall[d].step = "answered" => panelCall[d].of # i
    <3>1. SUFFICES ASSUME NEW d \in Client, panelCall[d].step = "answered", panelCall[d].of = i PROVE FALSE
      OBVIOUS
    <3>2. panelCall[d].got = panelShown[i] + 1 /\ panelCall[d].got <= panelRow[i]
      BY <2>2, <3>1 DEF PanelInv, RowsHold
    <3>. QED BY <1>1, <1>6, <2>3, <3>2
  <2>5. \A j \in Item : panelShown'[j] <= panelRow'[j]
    BY <1>2, <1>4, <1>6, <2>2
  <2>6. \A d \in Client : panelCall'[d].step \in {"sent", "answered"} => panelCall'[d].seen <= panelShown'[panelCall'[d].of]
    BY <1>4, <2>2 DEF i
  <2>7. \A d \in Client : panelCall'[d].step = "answered" => panelCall'[d].got = panelShown'[panelCall'[d].of] + 1
    BY <1>4, <2>2, <2>3
  <2>8. \A d, e \in Client :
          panelCall'[d].step = "answered" /\ panelCall'[e].step = "answered" /\ panelCall'[d].of = panelCall'[e].of => d = e
    BY <1>4, <2>2, <2>4
  <2>. QED BY <2>5, <2>6, <2>7, <2>8 DEF HelpHolds
<1>9. panelLearnt[i] <= version
  BY <1>1, <1>2, <1>6
<1>10. DrawHolds'
  BY <1>1, <1>4, <1>9 DEF PanelInv, DrawHolds
<1>11. OptionsHold'
  <2>1. SUFFICES ASSUME panelPanel = "options", NEW j \in Item, j \notin panelCrossed PROVE OptionHolds(j)'
    BY <1>4 DEF OptionsHold
  <2>2. OptionHolds(j)
    BY <2>1 DEF PanelInv, OptionsHold
  <2>3. \A d \in Client : /\ panelCall'[d].of = panelCall[d].of
                          /\ panelCall'[d].step # "idle" <=> panelCall[d].step # "idle"
    BY <1>1, <1>4 DEF i
  <2>4. \A d \in Client : panelCall'[d].step = "answered" /\ panelCall'[d].of = j => panelLearnt[j] <= panelCall'[d].got
    BY <1>4, <1>9, <2>2 DEF OptionHolds
  <2>. QED BY <1>4, <2>2, <2>3, <2>4 DEF OptionHolds
<1>12. BoardsHold'
  <2>1. \A d \in Client : panelCall'[d].step \in {"asking", "listed"} <=> panelCall[d].step \in {"asking", "listed"}
    BY <1>1, <1>4
  <2>2. \A d \in Client : panelCall[d].step \in {"asking", "listed"} => panelCall'[d] = panelCall[d]
    BY <1>1, <1>4
  <2>. QED BY <1>4, <2>1, <2>2 DEF PanelInv, BoardsHold, UpToDate
<1>. QED BY <1>3, <1>7, <1>8, <1>10, <1>11, <1>12 DEF PanelInv
LEMMA CallIsTurnedAway ==
  ASSUME PanelInv, NEW c \in Client, panelCall[c].step = "sent", N!Refuses(c)
  PROVE  PanelInv'
<1>1. /\ PanelShape /\ "refused" \in CallStepName \ {"idle"} /\ panelCall[c].step # "idle"
      /\ N!Answers(c, "refused", 0) /\ panelRow' = panelRow /\ panelRow' \in Counts
  BY DEF PanelInv, PanelShape, CallStepName, N!Refuses
<1>2. PanelShape' /\ StepsBelong' /\ MarkerHolds' /\ ReviewsHold' /\ PatchesHold'
  BY <1>1, AnsweredShape
<1>3. /\ UNCHANGED <<panelPanel, panelShown, panelLearnt, panelBusy, panelAbandoned, panelFirst, panelRefresh,
                     panelPage, panelCrossed>>
      /\ panelCall'[c].step = "refused"
      /\ panelCall'[c].of = panelCall[c].of /\ panelCall'[c].seen = panelCall[c].seen
      /\ \A d \in Client \ {c} : panelCall'[d] = panelCall[d]
  BY <1>1, PanelAnswers
<1>4. /\ \A d \in Client : panelCall'[d].step \in {"answered", "asking", "listed"} => panelCall'[d] = panelCall[d]
      /\ \A d \in Client : panelCall'[d].step \in {"sent", "answered"} => panelCall'[d] = panelCall[d]
      /\ \A d \in Client : panelCall'[d].step # "idle" <=> panelCall[d].step # "idle"
      /\ \A d \in Client : panelCall'[d].of = panelCall[d].of
      /\ \A d \in Client : panelCall'[d].step \in {"asking", "listed"} <=> panelCall[d].step \in {"asking", "listed"}
  BY <1>1, <1>3
<1>5. RowsHold'
  BY <1>1, <1>3, <1>4 DEF PanelInv, RowsHold
<1>6. HelpHolds'
  BY <1>1, <1>3, <1>4 DEF PanelInv, HelpHolds
<1>7. DrawHolds'
  BY <1>1, <1>3, <1>4 DEF PanelInv, DrawHolds
<1>8. OptionsHold'
  <2>1. SUFFICES ASSUME panelPanel = "options", NEW j \in Item, j \notin panelCrossed PROVE OptionHolds(j)'
    BY <1>3 DEF OptionsHold
  <2>2. OptionHolds(j)
    BY <2>1 DEF PanelInv, OptionsHold
  <2>. QED BY <1>3, <1>4, <2>2 DEF OptionHolds
<1>9. BoardsHold'
  BY <1>3, <1>4 DEF PanelInv, BoardsHold, UpToDate
<1>. QED BY <1>2, <1>5, <1>6, <1>7, <1>8, <1>9 DEF PanelInv

LEMMA CallRepeats ==
  ASSUME PanelInv, NEW c \in Client, panelCall[c].step = "sent", N!Repeats(c), panelPanel \in {"mine", "draw"}
  PROVE  PanelInv'
<1>. DEFINE i == panelCall[c].of
            version == panelRow[i]
<1>1. /\ PanelShape /\ i \in Item /\ "answered" \in CallStepName \ {"idle"} /\ panelCall[c].step # "idle"
      /\ ~N!Accepts(i, panelCall[c].seen) /\ N!Answers(c, "answered", version)
      /\ panelRow' = panelRow /\ panelRow \in Counts /\ panelCall \in [Client -> PanelCall]
  BY DEF PanelInv, PanelShape, CallStepName, N!Repeats
<1>2. version \in Nat
  BY <1>1 DEF Counts
<1>3. PanelShape' /\ StepsBelong' /\ MarkerHolds' /\ ReviewsHold' /\ PatchesHold'
  BY <1>1, <1>2, AnsweredShape
<1>4. /\ UNCHANGED <<panelPanel, panelShown, panelLearnt, panelBusy, panelAbandoned, panelFirst, panelRefresh,
                     panelPage, panelCrossed>>
      /\ panelCall'[c].step = "answered" /\ panelCall'[c].got = version
      /\ panelCall'[c].of = i /\ panelCall'[c].seen = panelCall[c].seen
      /\ \A d \in Client \ {c} : panelCall'[d] = panelCall[d]
  <2>. HIDE DEF version
  <2>. QED BY <1>1, <1>2, PanelAnswers
<1>5. panelPanel = "mine" => panelRow[i] # 0
  BY <1>1, AcceptMeans DEF PanelShape, OneWrite
<1>6. panelLearnt[i] <= version
  BY <1>1 DEF PanelInv, RowsHold
<1>. HIDE DEF i
<1>7. RowsHold'
  <2>1. \A j \in Item : panelLearnt'[j] <= panelRow'[j]
    BY <1>1, <1>4 DEF PanelInv, RowsHold
  <2>2. \A d \in Client : panelCall'[d].step = "answered" => panelCall'[d].got <= panelRow'[panelCall'[d].of]
    BY <1>1, <1>2, <1>4 DEF PanelInv, RowsHold
  <2>3. ASSUME panelPanel' \in OneWrite
        PROVE  /\ \A j \in Item : panelRow'[j] <= 1
               /\ \A d \in Client : panelCall'[d].step \in {"answered", "asking", "listed"} => panelCall'[d].got = 1
    <3>1. panelPanel \in OneWrite /\ panelPanel = "mine"
      BY <1>4, <2>3 DEF OneWrite
    <3>2. panelRow[i] = 1
      BY <1>1, <1>2, <1>5, <3>1 DEF PanelInv, RowsHold
    <3>. QED BY <1>1, <1>4, <3>1, <3>2 DEF PanelInv, RowsHold
  <2>. QED BY <2>1, <2>2, <2>3 DEF RowsHold
<1>8. DrawHolds'
  BY <1>1, <1>4, <1>6 DEF PanelInv, DrawHolds
<1>. QED BY <1>3, <1>4, <1>7, <1>8 DEF PanelInv, HelpHolds, OptionsHold, BoardsHold, Board

LEMMA CallIsServed ==
  ASSUME PanelInv, NEW c \in Client,
         N!ServeOnce(c) \/ N!ServeAgain(c) \/ N!ServeVersion(c) \/ N!ServeDraw(c) \/ N!ServeAny(c)
  PROVE  PanelInv'
<1>1. panelPanel \in PanelName \union {"none"}
  BY DEF PanelInv, PanelShape
<1>2. /\ panelCall[c].step = "sent"
      /\ N!Writes(c) \/ N!Refuses(c) \/ (N!Repeats(c) /\ panelPanel \in {"mine", "draw"})
  BY <1>1, KindsAre DEF N!ServeOnce, N!ServeAgain, N!ServeVersion, N!ServeDraw, N!ServeAny
<1>. QED BY <1>2, CallIsWritten, CallIsTurnedAway, CallRepeats

LEMMA OthersWrite ==
  ASSUME PanelInv, NEW i \in Item, N!Written(i) \/ UNCHANGED panelRow, panelPanel # "none",
         panelPanel \in OneWrite /\ N!Written(i) => panelRow[i] = 0,
         panelAbandoned' \subseteq panelAbandoned,
         UNCHANGED <<panelPanel, panelShown, panelLearnt, panelCall, panelBusy, panelFirst, panelRefresh, panelPage,
                     panelCrossed>>
  PROVE  PanelInv'
<1>1. /\ panelRow' \in Counts
      /\ \A j \in Item : panelRow[j] \in Nat /\ panelRow'[j] \in Nat /\ panelRow[j] <= panelRow'[j]
      /\ panelPanel \in OneWrite => \A j \in Item : panelRow'[j] <= 1
  <2>1. CASE N!Written(i)
    <3>1. PanelShape
      BY DEF PanelInv
    <3>2. /\ panelRow' \in Counts /\ panelRow'[i] = panelRow[i] + 1 /\ panelRow[i] \in Nat
          /\ \A j \in Item \ {i} : panelRow'[j] = panelRow[j]
          /\ \A j \in Item : panelRow[j] \in Nat /\ panelRow'[j] \in Nat /\ panelRow[j] <= panelRow'[j]
      BY <2>1, <3>1, RowWritten
    <3>3. panelPanel \in OneWrite => \A j \in Item : panelRow[j] <= 1
      BY DEF PanelInv, RowsHold
    <3>. QED BY <2>1, <3>2, <3>3
  <2>2. CASE UNCHANGED panelRow
    BY <2>2 DEF PanelInv, PanelShape, Counts, RowsHold
  <2>. QED BY <2>1, <2>2
<1>2. PanelShape'
  BY <1>1 DEF PanelInv, PanelShape
<1>3. StepsBelong'
  BY DEF PanelInv, StepsBelong
<1>4. /\ \A j \in Item : panelLearnt[j] \in Nat /\ panelShown[j] \in Nat
      /\ \A c \in Client : panelCall[c].got \in Nat /\ (panelCall[c].step # "idle" => panelCall[c].of \in Item)
  BY DEF PanelInv, PanelShape, Counts, PanelCall
<1>5. RowsHold'
  BY <1>1, <1>4 DEF PanelInv, RowsHold
<1>6. HelpHolds'
  BY <1>1, <1>4 DEF PanelInv, HelpHolds
<1>7. MarkerHolds' /\ DrawHolds' /\ OptionsHold' /\ ReviewsHold' /\ PatchesHold' /\ BoardsHold'
  BY DEF PanelInv, MarkerHolds, DrawHolds, OptionsHold, OptionHolds, ReviewsHold, PatchesHold, BoardsHold, UpToDate
<1>. QED BY <1>2, <1>3, <1>5, <1>6, <1>7 DEF PanelInv
LEMMA OthersAreServed ==
  ASSUME PanelInv, (\E a \in panelAbandoned : N!ServeLate(a)) \/ (\E i \in Item : N!OtherUser(i))
  PROVE  PanelInv'
<1>0. panelPanel \in PanelName \union {"none"} /\ panelAbandoned \subseteq [of : Item, seen : Nat]
  BY DEF PanelInv, PanelShape
<1>1. ASSUME NEW a \in panelAbandoned, N!ServeLate(a) PROVE PanelInv'
  <2>1. a.of \in Item
    BY <1>0
  <2>2. panelPanel # "none"
    BY DEF PanelInv, StepsBelong
  <2>. DEFINE i == a.of
  <2>3. /\ (N!Accepts(i, a.seen) /\ N!Written(i)) \/ UNCHANGED panelRow
        /\ panelAbandoned' \subseteq panelAbandoned
        /\ UNCHANGED <<panelPanel, panelShown, panelLearnt, panelCall, panelBusy, panelFirst, panelRefresh, panelPage,
                       panelCrossed>>
    BY <1>1 DEF N!ServeLate
  <2>. HIDE DEF i
  <2>4. panelPanel \in OneWrite => (N!Accepts(i, a.seen) => panelRow[i] = 0)
    BY <1>0, AcceptMeans
  <2>5. UNCHANGED panelRow => PanelInv'
    <3>1. SUFFICES ASSUME UNCHANGED panelRow PROVE PanelInv'
      OBVIOUS
    <3>. QED BY <2>2, <2>3, <3>1 DEF PanelInv, PanelShape, StepsBelong, RowsHold, MarkerHolds, HelpHolds, DrawHolds, OptionsHold,
         OptionHolds, ReviewsHold, PatchesHold, BoardsHold, UpToDate
  <2>. QED BY <2>1, <2>2, <2>3, <2>4, <2>5, OthersWrite DEF i
<1>2. ASSUME NEW i \in Item, N!OtherUser(i) PROVE PanelInv'
  <2>1. /\ panelPanel # "none" /\ N!Accepts(i, panelRow[i]) /\ N!Written(i)
        /\ UNCHANGED <<panelPanel, panelShown, panelLearnt, panelCall, panelBusy, panelAbandoned, panelFirst, panelRefresh,
                       panelPage, panelCrossed>>
    BY <1>2 DEF N!OtherUser
  <2>2. panelPanel \in OneWrite => panelRow[i] = 0
    BY <1>0, <2>1, AcceptMeans
  <2>. QED BY <2>1, <2>2, OthersWrite
<1>. QED BY <1>1, <1>2

(* A call begins only where no other may be on its way beside it. *)
LEMMA PanelClicks ==
  ASSUME PanelInv, NEW c \in Client, NEW i \in Item, N!ClickOn(c, i)
  PROVE  PanelInv'
<1>. DEFINE new == [step |-> "sent", of |-> i, seen |-> panelShown[i], got |-> 0, list |-> panelShown]
<1>1. /\ panelPanel # "none" /\ panelCall[c] = N!Idle /\ N!Enabled(i) /\ panelCall' = [panelCall EXCEPT ![c] = new]
      /\ panelBusy' = CASE N!Is("button", "own") -> i [] N!Is("button", "all") -> "all" [] OTHER -> panelBusy
      /\ panelCrossed' = IF N!UnderWay(i) \/ panelFirst.at \in {"asked", "read"}
                         THEN panelCrossed \union {i} ELSE panelCrossed
      /\ UNCHANGED <<panelPanel, panelRow, panelShown, panelLearnt, panelAbandoned, panelFirst, panelRefresh, panelPage>>
  BY DEF N!ClickOn
<1>2. /\ PanelShape /\ panelPanel \in PanelName \union {"none"} /\ panelCall \in [Client -> PanelCall]
      /\ panelShown \in Counts
  BY DEF PanelInv, PanelShape
<1>3. panelCall[c].step = "idle"
  BY <1>1, PanelIdle
<1>4. new \in PanelCall /\ new.step = "sent" /\ new.of = i /\ new.seen = panelShown[i]
  BY <1>2 DEF PanelCall, CallStepName, Counts
<1>. HIDE DEF new
<1>5. /\ panelCall' \in [Client -> PanelCall] /\ panelCall'[c].step = "sent" /\ panelCall'[c].of = i
      /\ panelCall'[c].seen = panelShown[i]
      /\ \A d \in Client \ {c} : panelCall'[d] = panelCall[d]
  BY <1>1, <1>2, <1>4
<1>6. PanelShape'
  <2>1. \A d \in Client : IF panelCall'[d].step = "idle" THEN panelCall'[d] = N!Idle ELSE panelCall'[d].of \in Item
    BY <1>2, <1>5 DEF PanelShape
  <2>. QED BY <1>1, <1>2, <1>5, <2>1 DEF PanelShape
<1>7. StepsBelong'
  BY <1>1, <1>5 DEF PanelInv, StepsBelong
<1>8. \A d \in Client : panelCall'[d].step \in {"answered", "asking", "listed"} => panelCall'[d] = panelCall[d] /\ d # c
  BY <1>5
<1>9. \A d \in Client : panelCall[d].step \in {"answered", "asking", "listed"} => panelCall'[d] = panelCall[d] /\ d # c
  BY <1>3, <1>5
<1>10. RowsHold'
  BY <1>1, <1>8 DEF PanelInv, RowsHold
<1>11. MarkerHolds'
  <2>1. SUFFICES ASSUME panelPanel \in OneButton PROVE MarkerHolds'
    BY <1>1 DEF MarkerHolds
  <2>2. N!Is("button", "all") /\ ~N!Is("button", "own")
    BY <1>2, <2>1, KindsAre DEF OneButton
  <2>3. panelBusy' = "all" /\ panelBusy # "all"
    BY <1>1, <2>2 DEF N!Enabled
  <2>4. \A d \in Client : panelCall[d].step = "idle"
    BY <2>1, <2>3 DEF PanelInv, MarkerHolds
  <2>. QED BY <1>5, <2>3, <2>4 DEF MarkerHolds
<1>12. HelpHolds'
  <2>1. SUFFICES ASSUME panelPanel = "help" PROVE HelpHolds'
    BY <1>1 DEF HelpHolds
  <2>2. panelShown[i] <= panelShown[i]
    BY <1>2 DEF Counts
  <2>3. \A d \in Client : panelCall'[d].step \in {"sent", "answered"} => panelCall'[d].seen <= panelShown'[panelCall'[d].of]
    BY <1>1, <1>5, <2>1, <2>2 DEF PanelInv, HelpHolds
  <2>. QED BY <1>1, <1>8, <2>1, <2>3 DEF PanelInv, HelpHolds
<1>13. DrawHolds'
  <2>1. SUFFICES ASSUME panelPanel = "draw" PROVE DrawHolds'
    BY <1>1 DEF DrawHolds
  <2>2. panelFirst.at = "here"
    BY <1>1, <1>2, <2>1, KindsAre DEF N!Enabled
  <2>. QED BY <1>1, <1>8, <2>1, <2>2 DEF PanelInv, DrawHolds
<1>14. OptionsHold'
  <2>1. SUFFICES ASSUME panelPanel = "options", NEW j \in Item, j \notin panelCrossed' PROVE OptionHolds(j)'
    BY <1>1 DEF OptionsHold
  <2>2. OptionHolds(j) /\ (j = i => ~N!UnderWay(i) /\ panelFirst.at \notin {"asked", "read"})
    BY <1>1, <2>1 DEF PanelInv, OptionsHold
  <2>3. j = i => \A d \in Client : panelCall[d].of # i
    BY <2>2 DEF N!UnderWay
  <2>4. \A d, e \in Client :
          panelCall'[d].step # "idle" /\ panelCall'[d].of = j /\ panelCall'[e].step # "idle" /\ panelCall'[e].of = j => d = e
    BY <1>5, <2>2, <2>3 DEF OptionHolds
  <2>5. panelFirst.at \in {"asked", "read"} => \A d \in Client : panelCall'[d].step # "idle" => panelCall'[d].of # j
    BY <1>5, <2>2 DEF OptionHolds
  <2>. QED BY <1>1, <1>8, <2>2, <2>4, <2>5 DEF OptionHolds
<1>15. ReviewsHold' /\ PatchesHold'
  BY <1>1 DEF PanelInv, ReviewsHold, PatchesHold, UpToDate
<1>16. BoardsHold'
  <2>1. \A j \in Item : (\E d \in Client : panelCall[d].step \in {"asking", "listed"} /\ panelCall[d].of = j)
                        => \E d \in Client : panelCall'[d].step \in {"asking", "listed"} /\ panelCall'[d].of = j
    BY <1>9
  <2>. QED BY <1>1, <1>8, <2>1 DEF PanelInv, BoardsHold, UpToDate
<1>. QED BY <1>6, <1>7, <1>10, <1>11, <1>12, <1>13, <1>14, <1>15, <1>16 DEF PanelInv
LEMMA CallEnds ==
  ASSUME PanelInv, NEW c \in Client, panelCall[c].step # "idle", N!Ends(c), UNCHANGED panelPanel
  PROVE  /\ panelCall' \in [Client -> PanelCall] /\ panelCall'[c].step = "idle"
         /\ \A d \in Client : IF panelCall'[d].step = "idle" THEN panelCall'[d] = N!Idle ELSE panelCall'[d].of \in Item
         /\ \A d \in Client : panelCall'[d].step # "idle" => d # c /\ panelCall'[d] = panelCall[d]
         /\ \A d \in Client \ {c} : panelCall'[d] = panelCall[d]
         /\ panelPanel \in OneButton => \A d \in Client : panelCall'[d].step = "idle"
         /\ panelPanel # "none"
         /\ MarkerHolds'
<1>1. /\ panelCall' = [panelCall EXCEPT ![c] = N!Idle] /\ panelCall \in [Client -> PanelCall] /\ PanelShape
      /\ panelPanel # "none"
  BY DEF N!Ends, PanelInv, PanelShape, StepsBelong
<1>2. /\ panelCall' \in [Client -> PanelCall] /\ panelCall'[c] = N!Idle /\ panelCall'[c].step = "idle"
      /\ \A d \in Client \ {c} : panelCall'[d] = panelCall[d]
  BY <1>1, PanelIdle
<1>3. \A d \in Client : IF panelCall'[d].step = "idle" THEN panelCall'[d] = N!Idle ELSE panelCall'[d].of \in Item
  BY <1>1, <1>2 DEF PanelShape
<1>4. panelPanel \in OneButton => \A d \in Client : panelCall'[d].step = "idle"
  BY <1>2 DEF PanelInv, MarkerHolds
<1>. QED BY <1>1, <1>2, <1>3, <1>4 DEF MarkerHolds

LEMMA CallIsOver ==
  ASSUME PanelInv, NEW c \in Client, N!Refused(c) \/ N!GiveUp(c)
  PROVE  PanelInv'
<1>1. /\ panelCall[c].step \in {"sent", "answered", "refused"} /\ N!Ends(c)
      /\ panelAbandoned' = panelAbandoned \/ (panelCall[c].step = "sent" /\ panelAbandoned' =
            panelAbandoned \union {[of |-> panelCall[c].of, seen |-> panelCall[c].seen]})
      /\ UNCHANGED <<panelPanel, panelRow, panelShown, panelLearnt, panelFirst, panelRefresh, panelPage, panelCrossed>>
  BY DEF N!Refused, N!GiveUp
<1>2. panelCall[c].step # "idle"
  BY <1>1
<1>3. /\ panelCall' \in [Client -> PanelCall] /\ panelCall'[c].step = "idle"
      /\ \A d \in Client : IF panelCall'[d].step = "idle" THEN panelCall'[d] = N!Idle ELSE panelCall'[d].of \in Item
      /\ \A d \in Client : panelCall'[d].step # "idle" => d # c /\ panelCall'[d] = panelCall[d]
      /\ \A d \in Client \ {c} : panelCall'[d] = panelCall[d]
      /\ panelPanel # "none" /\ MarkerHolds'
  BY <1>1, <1>2, CallEnds
<1>4. PanelShape'
  <2>1. panelCall[c].of \in Item /\ panelCall[c].seen \in Nat
    BY <1>2 DEF PanelInv, PanelShape, PanelCall
  <2>. QED BY <1>1, <1>3, <2>1 DEF PanelInv, PanelShape
<1>5. StepsBelong'
  BY <1>1, <1>3 DEF PanelInv, StepsBelong
<1>6. \A d \in Client : panelCall'[d].step \in {"sent", "answered", "asking", "listed"} => panelCall'[d] = panelCall[d]
  BY <1>3
<1>7. RowsHold' /\ HelpHolds' /\ DrawHolds'
  BY <1>1, <1>3, <1>6 DEF PanelInv, RowsHold, HelpHolds, DrawHolds
<1>8. OptionsHold'
  <2>1. SUFFICES ASSUME panelPanel = "options", NEW j \in Item, j \notin panelCrossed PROVE OptionHolds(j)'
    BY <1>1 DEF OptionsHold
  <2>2. OptionHolds(j)
    BY <2>1 DEF PanelInv, OptionsHold
  <2>. QED BY <1>1, <1>3, <2>2 DEF OptionHolds
<1>9. ReviewsHold' /\ PatchesHold'
  BY <1>1 DEF PanelInv, ReviewsHold, PatchesHold, UpToDate
<1>10. BoardsHold'
  <2>1. \A d \in Client : panelCall[d].step \in {"asking", "listed"} => panelCall'[d] = panelCall[d]
    BY <1>1, <1>3
  <2>. QED BY <1>1, <1>6, <2>1 DEF PanelInv, BoardsHold, UpToDate
<1>. QED BY <1>3, <1>4, <1>5, <1>7, <1>8, <1>9, <1>10 DEF PanelInv

LEMMA PanelLearns ==
  ASSUME PanelShape, NEW c \in Client, panelCall[c].step # "idle", N!Learns(c)
  PROVE  /\ panelLearnt' \in Counts /\ panelCall[c].of \in Item /\ panelCall[c].got \in Nat
         /\ \A j \in Item \ {panelCall[c].of} : panelLearnt'[j] = panelLearnt[j]
         /\ panelLearnt[panelCall[c].of] \in Nat
         /\ panelLearnt'[panelCall[c].of] = IF panelCall[c].got > panelLearnt[panelCall[c].of]
                                            THEN panelCall[c].got ELSE panelLearnt[panelCall[c].of]
<1>. DEFINE i == panelCall[c].of
            got == panelCall[c].got
<1>1. panelLearnt \in Counts /\ i \in Item /\ got \in Nat
  BY DEF PanelShape, PanelCall
<1>2. panelLearnt' = [panelLearnt EXCEPT ![i] = IF got > panelLearnt[i] THEN got ELSE panelLearnt[i]]
  BY DEF N!Learns
<1>. HIDE DEF i, got
<1>3. /\ panelLearnt' \in Counts
      /\ \A j \in Item \ {i} : panelLearnt'[j] = panelLearnt[j]
      /\ panelLearnt[i] \in Nat
      /\ panelLearnt'[i] = IF got > panelLearnt[i] THEN got ELSE panelLearnt[i]
  BY <1>1, <1>2 DEF Counts
<1>. QED BY <1>1, <1>3 DEF i, got

LEMMA PanelPatches ==
  ASSUME PanelInv, NEW c \in Client, N!Patch(c)
  PROVE  PanelInv'
<1>. DEFINE i == panelCall[c].of
            got == panelCall[c].got
<1>1. /\ panelCall[c].step = "answered" /\ panelCall[c].step # "idle" /\ N!Is("answer", "patch")
      /\ panelShown' = [panelShown EXCEPT ![i] = got] /\ N!Learns(c) /\ N!Ends(c)
      /\ panelRefresh' = IF N!Is("refreshed", "never") THEN panelRefresh
                         ELSE [panelRefresh EXCEPT !.wanted = @ + 1]
      /\ UNCHANGED <<panelPanel, panelRow, panelAbandoned, panelFirst, panelPage, panelCrossed>>
  BY DEF N!Patch, N!Patched
<1>2. /\ PanelShape /\ panelPanel \in PanelName \union {"none"} /\ panelShown \in Counts /\ panelRow \in Counts
      /\ panelRefresh \in [wanted : Nat, read : BOOLEAN, list : Counts]
  BY DEF PanelInv, PanelShape
<1>3. /\ panelCall' \in [Client -> PanelCall] /\ panelCall'[c].step = "idle"
      /\ \A d \in Client : IF panelCall'[d].step = "idle" THEN panelCall'[d] = N!Idle ELSE panelCall'[d].of \in Item
      /\ \A d \in Client : panelCall'[d].step # "idle" => d # c /\ panelCall'[d] = panelCall[d]
      /\ \A d \in Client \ {c} : panelCall'[d] = panelCall[d]
      /\ panelPanel \in OneButton => \A d \in Client : panelCall'[d].step = "idle"
      /\ panelPanel # "none" /\ MarkerHolds'
  BY <1>1, CallEnds
<1>4. /\ panelLearnt' \in Counts /\ i \in Item /\ got \in Nat
      /\ \A j \in Item \ {i} : panelLearnt'[j] = panelLearnt[j]
      /\ panelLearnt[i] \in Nat
      /\ panelLearnt'[i] = IF got > panelLearnt[i] THEN got ELSE panelLearnt[i]
  BY <1>1, <1>2, PanelLearns
<1>5. panelPanel \notin Board /\ panelPanel \in PanelName
  BY <1>1, <1>2, KindsAre DEF PanelName, Board
<1>6. got <= panelRow[i] /\ panelLearnt[i] <= panelRow[i]
  BY <1>1, <1>4 DEF PanelInv, RowsHold
<1>7. panelPanel = "draw" \/ (panelPanel = "options" /\ i \notin panelCrossed) => panelLearnt[i] <= got
  BY <1>1, <1>4 DEF PanelInv, DrawHolds, OptionsHold, OptionHolds
<1>8. panelPanel \in OneWrite => got = 1 /\ panelRow[i] <= 1
  BY <1>1, <1>4 DEF PanelInv, RowsHold
<1>9. panelPanel = "help" => panelShown[i] <= panelRow[i] /\ got = panelShown[i] + 1
  BY <1>1, <1>4 DEF PanelInv, HelpHolds
<1>10. panelPanel = "help" => panelLearnt[i] <= panelShown[i]
  BY <1>4 DEF PanelInv, PatchesHold, UpToDate
<1>11. \A d \in Client : panelPanel = "help" /\ panelCall[d].step = "answered" /\ panelCall[d].of = i => d = c
  BY <1>1 DEF PanelInv, HelpHolds
<1>12. \A d \in Client : panelPanel = "options" /\ i \notin panelCrossed /\ panelCall[d].step # "idle" /\ panelCall[d].of = i => d = c
  BY <1>1, <1>4 DEF PanelInv, OptionsHold, OptionHolds
<1>13. panelPanel = "draw" => panelFirst.at = "here"
  BY <1>1 DEF PanelInv, DrawHolds
<1>14. panelPanel = "options" /\ i \notin panelCrossed => panelFirst.at \notin {"asked", "read"}
  BY <1>1, <1>4 DEF PanelInv, OptionsHold, OptionHolds
<1>. HIDE DEF i, got
<1>15. /\ panelShown' \in Counts /\ panelShown'[i] = got
       /\ \A j \in Item \ {i} : panelShown'[j] = panelShown[j]
       /\ \A j \in Item : panelShown[j] \in Nat /\ panelRow[j] \in Nat
  BY <1>1, <1>2, <1>4 DEF Counts
<1>16. panelLearnt'[i] <= panelRow[i]
  BY <1>4, <1>6
<1>17. panelPanel # "options" \/ i \notin panelCrossed => panelLearnt'[i] = got
  <2>1. CASE panelPanel = "draw" \/ (panelPanel = "options" /\ i \notin panelCrossed)
    BY <1>4, <1>7, <2>1
  <2>2. CASE panelPanel = "help"
    BY <1>4, <1>9, <1>10, <1>15, <2>2
  <2>3. CASE panelPanel \in OneWrite
    BY <1>4, <1>6, <1>8, <1>15, <2>3
  <2>. QED BY <1>5, <2>1, <2>2, <2>3 DEF PanelName, OneWrite
<1>18. IF panelPanel \in {"reviews", "guild"}
       THEN panelRefresh' \in [wanted : Nat, read : BOOLEAN, list : Counts]
            /\ panelRefresh'.wanted = panelRefresh.wanted + 1 /\ panelRefresh'.read = panelRefresh.read
       ELSE panelRefresh' = panelRefresh
  <2>1. N!Is("refreshed", "never") <=> panelPanel \notin {"reviews", "guild"}
    BY <1>2, <1>5, KindsAre
  <2>. QED BY <1>1, <1>2, <2>1
<1>19. PanelShape'
  BY <1>1, <1>2, <1>3, <1>4, <1>15, <1>18 DEF PanelShape
<1>20. StepsBelong'
  <2>1. panelRefresh.wanted \in Nat
    BY <1>2
  <2>2. panelRefresh'.read => panelRefresh'.wanted > 0
    <3>1. panelRefresh.read => panelRefresh.wanted > 0
      BY DEF PanelInv, StepsBelong
    <3>2. panelRefresh'.wanted > 0 \/ panelRefresh' = panelRefresh
      BY <1>18, <2>1
    <3>. QED BY <3>1, <3>2
  <2>3. panelRefresh'.wanted > 0 => panelPanel \in {"reviews", "guild"}
    BY <1>18, <2>1 DEF PanelInv, StepsBelong
  <2>. QED BY <1>1, <1>3, <2>2, <2>3 DEF PanelInv, StepsBelong
<1>21. RowsHold'
  BY <1>1, <1>3, <1>4, <1>16 DEF PanelInv, RowsHold
<1>22. PatchesHold'
  BY <1>1, <1>4, <1>15, <1>17 DEF PanelInv, PatchesHold, UpToDate
<1>23. DrawHolds'
  BY <1>1, <1>3, <1>13 DEF DrawHolds, OneButton
<1>24. BoardsHold'
  BY <1>1, <1>5 DEF BoardsHold
<1>. QED
  <2>1. ReviewsHold'
    <3>1. SUFFICES ASSUME panelPanel = "reviews" PROVE ReviewsHold'
      BY <1>1 DEF ReviewsHold
    <3>2. panelRefresh.wanted \in Nat /\ (panelRefresh.read => panelRefresh.wanted > 0)
      BY <1>2 DEF PanelInv, StepsBelong
    <3>3. panelRefresh'.wanted > 0 /\ (panelRefresh'.read => panelRefresh'.wanted > 1) /\ panelRefresh'.wanted \in Nat
      BY <1>18, <3>1, <3>2
    <3>. QED BY <3>3 DEF ReviewsHold
  <2>2. HelpHolds'
    <3>1. SUFFICES ASSUME panelPanel = "help" PROVE HelpHolds'
      BY <1>1 DEF HelpHolds
    <3>2. \A j \in Item : panelShown'[j] <= panelRow'[j] /\ panelShown[j] <= panelShown'[j]
      BY <1>1, <1>6, <1>9, <1>15, <3>1 DEF PanelInv, HelpHolds
    <3>3. \A d \in Client : panelCall'[d].step # "idle" => panelCall[d].of \in Item /\ panelCall[d].seen \in Nat
      BY <1>2, <1>3 DEF PanelShape, PanelCall
    <3>4. \A d \in Client : panelCall'[d].step \in {"sent", "answered"} => panelCall'[d].seen <= panelShown'[panelCall'[d].of]
      <4>1. TAKE d \in Client
      <4>2. HAVE panelCall'[d].step \in {"sent", "answered"}
      <4>3. panelCall'[d] = panelCall[d] /\ panelCall[d].of \in Item /\ panelCall[d].seen \in Nat
        BY <1>3, <3>3, <4>2
      <4>4. panelCall[d].seen <= panelShown[panelCall[d].of]
        BY <3>1, <4>2, <4>3 DEF PanelInv, HelpHolds
      <4>. QED BY <1>4, <1>15, <3>2, <4>3, <4>4
    <3>5. \A d \in Client : panelCall'[d].step = "answered" => panelCall'[d].got = panelShown'[panelCall'[d].of] + 1
      <4>1. TAKE d \in Client
      <4>2. HAVE panelCall'[d].step = "answered"
      <4>3. panelCall'[d] = panelCall[d] /\ panelCall[d].of \in Item /\ d # c
        BY <1>3, <3>3, <4>2
      <4>4. panelCall[d].of # i /\ panelCall[d].got = panelShown[panelCall[d].of] + 1
        BY <1>11, <3>1, <4>2, <4>3 DEF PanelInv, HelpHolds
      <4>. QED BY <1>15, <4>3, <4>4
    <3>6. \A d, e \in Client :
            panelCall'[d].step = "answered" /\ panelCall'[e].step = "answered" /\ panelCall'[d].of = panelCall'[e].of => d = e
      BY <1>3, <3>1 DEF PanelInv, HelpHolds
    <3>. QED BY <3>2, <3>4, <3>5, <3>6 DEF HelpHolds
  <2>3. OptionsHold'
    <3>1. SUFFICES ASSUME panelPanel = "options", NEW j \in Item, j \notin panelCrossed PROVE OptionHolds(j)'
      BY <1>1 DEF OptionsHold
    <3>2. OptionHolds(j)
      BY <3>1 DEF PanelInv, OptionsHold
    <3>3. j = i => \A d \in Client : panelCall'[d].step # "idle" => panelCall'[d].of # j
      BY <1>3, <1>12, <3>1
    <3>4. panelLearnt'[j] <= panelShown'[j]
      BY <1>4, <1>15, <1>17, <3>1, <3>2 DEF OptionHolds
    <3>5. \A d \in Client : panelCall'[d].step = "answered" /\ panelCall'[d].of = j => panelLearnt'[j] <= panelCall'[d].got
      BY <1>3, <1>4, <3>2, <3>3 DEF OptionHolds
    <3>6. panelFirst'.at \in {"asked", "read"} =>
            /\ \A d \in Client : panelCall'[d].step # "idle" => panelCall'[d].of # j
            /\ panelLearnt'[j] = 0
      BY <1>1, <1>3, <1>4, <1>14, <3>1, <3>2 DEF OptionHolds
    <3>. QED BY <1>3, <3>2, <3>4, <3>5, <3>6 DEF OptionHolds
  <2>. QED BY <1>3, <1>19, <1>20, <1>21, <1>22, <1>23, <1>24, <2>1, <2>2, <2>3 DEF PanelInv
LEMMA BoardAsks ==
  ASSUME PanelInv, NEW c \in Client, N!AskList(c)
  PROVE  PanelInv'
<1>. DEFINE i == panelCall[c].of
            got == panelCall[c].got
<1>1. /\ panelCall[c].step = "answered" /\ panelCall[c].step # "idle" /\ ~N!Is("answer", "patch")
      /\ panelCall' = [panelCall EXCEPT ![c].step = "asking"] /\ N!Learns(c)
      /\ UNCHANGED <<panelPanel, panelRow, panelShown, panelBusy, panelAbandoned, panelFirst, panelRefresh, panelPage,
                     panelCrossed>>
  BY DEF N!AskList
<1>2. /\ PanelShape /\ panelPanel \in PanelName \union {"none"} /\ panelCall \in [Client -> PanelCall]
      /\ panelPanel # "none"
  BY <1>1 DEF PanelInv, PanelShape, StepsBelong
<1>3. /\ panelLearnt' \in Counts /\ i \in Item /\ got \in Nat
      /\ \A j \in Item \ {i} : panelLearnt'[j] = panelLearnt[j]
      /\ panelLearnt[i] \in Nat
      /\ panelLearnt'[i] = IF got > panelLearnt[i] THEN got ELSE panelLearnt[i]
  BY <1>1, <1>2, PanelLearns
<1>4. /\ panelCall' \in [Client -> PanelCall] /\ panelCall'[c].step = "asking" /\ panelCall'[c].got = got
      /\ panelCall'[c].of = i
      /\ \A d \in Client \ {c} : panelCall'[d] = panelCall[d]
  BY <1>1, <1>2 DEF PanelCall, CallStepName
<1>5. panelPanel \in Board
  BY <1>1, <1>2, KindsAre DEF PanelName, Board
<1>6. got = 1 /\ got <= panelRow[i] /\ panelLearnt[i] <= panelRow[i]
  BY <1>1, <1>3, <1>5 DEF PanelInv, RowsHold, OneWrite, Board
<1>7. \A d \in Client \ {c} : panelCall[d].step = "idle"
  BY <1>1, <1>5 DEF PanelInv, MarkerHolds, OneButton, Board
<1>. HIDE DEF i, got
<1>8. PanelShape'
  <2>1. \A d \in Client : IF panelCall'[d].step = "idle" THEN panelCall'[d] = N!Idle ELSE panelCall'[d].of \in Item
    BY <1>2, <1>3, <1>4 DEF PanelShape
  <2>. QED BY <1>1, <1>2, <1>3, <1>4, <2>1 DEF PanelShape
<1>9. StepsBelong'
  BY <1>1, <1>2, <1>4, <1>5 DEF PanelInv, StepsBelong
<1>10. RowsHold'
  BY <1>1, <1>3, <1>4, <1>6, <1>7 DEF PanelInv, RowsHold
<1>11. MarkerHolds'
  BY <1>1, <1>4, <1>7 DEF PanelInv, MarkerHolds
<1>12. BoardsHold'
  BY <1>1, <1>3, <1>4, <1>7 DEF PanelInv, BoardsHold, UpToDate
<1>. QED BY <1>1, <1>5, <1>8, <1>9, <1>10, <1>11, <1>12 DEF PanelInv, HelpHolds, DrawHolds, OptionsHold, ReviewsHold, PatchesHold,
     Board

LEMMA BoardReads ==
  ASSUME PanelInv, NEW c \in Client, N!ReadList(c)
  PROVE  PanelInv'
<1>. DEFINE x == [panelCall EXCEPT ![c].step = "listed"]
            y == [x EXCEPT ![c].list = panelRow]
<1>1. /\ panelCall[c].step = "asking" /\ panelCall' = y
      /\ UNCHANGED <<panelPanel, panelRow, panelShown, panelLearnt, panelBusy, panelAbandoned, panelFirst, panelRefresh,
                     panelPage, panelCrossed>>
  BY DEF N!ReadList
<1>2. /\ PanelShape /\ panelCall \in [Client -> PanelCall] /\ panelRow \in Counts /\ panelCall[c].of \in Item
      /\ panelPanel \in Board
  BY <1>1 DEF PanelInv, PanelShape, StepsBelong
<1>3. /\ x \in [Client -> PanelCall] /\ x[c].step = "listed" /\ x[c].of = panelCall[c].of /\ x[c].got = panelCall[c].got
      /\ \A d \in Client \ {c} : x[d] = panelCall[d]
  BY <1>2 DEF PanelCall, CallStepName
<1>. HIDE DEF x
<1>4. /\ y \in [Client -> PanelCall] /\ y[c].step = "listed" /\ y[c].of = panelCall[c].of /\ y[c].got = panelCall[c].got
      /\ y[c].list = panelRow
      /\ \A d \in Client \ {c} : y[d] = panelCall[d]
  BY <1>2, <1>3 DEF PanelCall
<1>. HIDE DEF y
<1>5. PanelShape'
  <2>1. \A d \in Client : IF panelCall'[d].step = "idle" THEN panelCall'[d] = N!Idle ELSE panelCall'[d].of \in Item
    BY <1>1, <1>2, <1>4 DEF PanelShape
  <2>. QED BY <1>1, <1>2, <1>4, <2>1 DEF PanelShape
<1>6. StepsBelong'
  BY <1>1, <1>2, <1>4 DEF PanelInv, StepsBelong, Board
<1>7. RowsHold'
  BY <1>1, <1>4 DEF PanelInv, RowsHold
<1>8. MarkerHolds'
  BY <1>1, <1>4 DEF PanelInv, MarkerHolds
<1>9. BoardsHold'
  <2>1. \A d \in Client : panelCall'[d].of = panelCall[d].of
                          /\ (panelCall'[d].step \in {"asking", "listed"} <=> panelCall[d].step \in {"asking", "listed"})
    BY <1>1, <1>4
  <2>2. \A d \in Client : panelCall'[d].step = "listed" => UpToDate(panelCall'[d].list)
    BY <1>1, <1>2, <1>4 DEF PanelInv, BoardsHold, RowsHold, UpToDate
  <2>. QED BY <1>1, <2>1, <2>2 DEF PanelInv, BoardsHold, UpToDate
<1>. QED BY <1>1, <1>2, <1>5, <1>6, <1>7, <1>8, <1>9 DEF PanelInv, HelpHolds, DrawHolds, OptionsHold, ReviewsHold, PatchesHold, Board

LEMMA BoardEnds ==
  ASSUME PanelInv, NEW c \in Client, N!ShowList(c) \/ N!LoseList(c)
  PROVE  PanelInv'
<1>. DEFINE i == panelCall[c].of
            got == panelCall[c].got
<1>1. /\ panelCall[c].step \in {"asking", "listed"} /\ panelCall[c].step # "idle" /\ N!Ends(c)
      /\ \/ panelCall[c].step = "listed" /\ panelShown' = panelCall[c].list
         \/ panelShown' = panelShown /\ panelPage' = "behind"
         \/ panelShown' = [panelShown EXCEPT ![i] = got] /\ UNCHANGED panelPage
      /\ UNCHANGED <<panelPanel, panelRow, panelLearnt, panelAbandoned, panelFirst, panelRefresh, panelCrossed>>
  BY DEF N!ShowList, N!LoseList, N!Patched
<1>2. /\ PanelShape /\ panelCall[c] \in PanelCall /\ i \in Item /\ got \in Nat /\ panelCall[c].list \in Counts
      /\ panelPanel \in Board /\ panelShown \in Counts /\ panelLearnt \in Counts /\ panelRow \in Counts
  BY <1>1 DEF PanelInv, PanelShape, StepsBelong, PanelCall
<1>3. /\ panelCall' \in [Client -> PanelCall] /\ panelCall'[c].step = "idle"
      /\ \A d \in Client : IF panelCall'[d].step = "idle" THEN panelCall'[d] = N!Idle ELSE panelCall'[d].of \in Item
      /\ panelPanel \in OneButton => \A d \in Client : panelCall'[d].step = "idle"
      /\ panelPanel # "none" /\ MarkerHolds'
  BY <1>1, CallEnds
<1>4. \A d \in Client : panelCall'[d].step = "idle"
  BY <1>2, <1>3 DEF Board, OneButton
<1>5. got = 1 /\ panelLearnt[i] <= panelRow[i] /\ panelRow[i] <= 1
  BY <1>1, <1>2 DEF PanelInv, RowsHold, Board, OneWrite
<1>6. \A d \in Client : panelCall[d].step # "idle" => d = c
  BY <1>1, <1>2 DEF PanelInv, MarkerHolds, Board, OneButton
<1>7. panelCall[c].step = "listed" => UpToDate(panelCall[c].list)
  BY <1>2 DEF PanelInv, BoardsHold
<1>8. panelPage = "good" => \A j \in Item \ {i} : panelLearnt[j] <= panelShown[j]
  BY <1>2, <1>6 DEF PanelInv, BoardsHold
<1>. HIDE DEF i, got
<1>9. panelLearnt[i] <= got
  BY <1>2, <1>5 DEF Counts
<1>10. panelShown' \in Counts
  BY <1>1, <1>2 DEF Counts
<1>11. BoardsHold'
  <2>1. CASE panelCall[c].step = "listed" /\ panelShown' = panelCall[c].list
    BY <1>1, <1>4, <1>7, <2>1 DEF BoardsHold, UpToDate
  <2>2. CASE panelPage' = "behind"
    BY <1>4, <2>2 DEF BoardsHold
  <2>3. CASE panelShown' = [panelShown EXCEPT ![i] = got] /\ UNCHANGED panelPage
    <3>1. panelPage' = "good" => \A j \in Item : panelLearnt'[j] <= panelShown'[j]
      BY <1>1, <1>2, <1>8, <1>9, <2>3 DEF Counts
    <3>. QED BY <1>4, <3>1 DEF BoardsHold
  <2>. QED BY <1>1, <2>1, <2>2, <2>3
<1>12. PanelShape'
  BY <1>1, <1>2, <1>3, <1>10 DEF PanelShape
<1>13. StepsBelong' /\ RowsHold'
  BY <1>1, <1>3, <1>4 DEF PanelInv, StepsBelong, RowsHold
<1>. QED BY <1>1, <1>2, <1>3, <1>11, <1>12, <1>13 DEF PanelInv, HelpHolds, DrawHolds, OptionsHold, ReviewsHold, PatchesHold, Board

LEMMA PageRefreshes ==
  ASSUME PanelInv, N!RefreshReads \/ N!RefreshLands \/ N!RefreshFails
  PROVE  PanelInv'
<1>1. /\ panelRefresh \in [wanted : Nat, read : BOOLEAN, list : Counts] /\ panelRow \in Counts /\ panelShown \in Counts
      /\ panelPanel \in PanelName \union {"none"} /\ PanelShape
  BY DEF PanelInv, PanelShape
<1>2. /\ panelRefresh.wanted > 0
      /\ UNCHANGED <<panelPanel, panelRow, panelLearnt, panelCall, panelBusy, panelAbandoned, panelFirst, panelCrossed>>
      /\ \/ /\ panelRefresh' = [panelRefresh EXCEPT !.read = TRUE, !.list = panelRow]
            /\ UNCHANGED <<panelShown, panelPage>>
         \/ /\ panelRefresh' = [wanted |-> panelRefresh.wanted - 1, read |-> FALSE, list |-> N!Fresh]
            /\ panelRefresh.read \/ panelPage' = "degraded"
            /\ panelPanel # "reviews" => panelShown' = panelShown
            /\ panelPanel = "reviews" => panelShown' = IF panelPage' = "degraded" THEN N!Fresh ELSE panelRefresh.list
  <2>1. N!Is("refreshed", "copied") <=> panelPanel = "reviews"
    BY <1>1, KindsAre
  <2>2. panelRefresh.read => panelRefresh.wanted > 0
    BY DEF PanelInv, StepsBelong
  <2>3. CASE N!RefreshReads
    BY <2>3 DEF N!RefreshReads
  <2>4. CASE N!RefreshLands
    BY <2>1, <2>2, <2>4 DEF N!RefreshLands, N!RefreshDone
  <2>5. CASE N!RefreshFails
    BY <2>1, <2>5 DEF N!RefreshFails, N!RefreshDone
  <2>. QED BY <2>3, <2>4, <2>5
<1>3. panelPanel \in {"reviews", "guild"}
  BY <1>2 DEF PanelInv, StepsBelong
<1>4. CASE panelRefresh' = [panelRefresh EXCEPT !.read = TRUE, !.list = panelRow] /\ UNCHANGED <<panelShown, panelPage>>
  <2>1. /\ panelRefresh' \in [wanted : Nat, read : BOOLEAN, list : Counts]
        /\ panelRefresh'.wanted = panelRefresh.wanted /\ panelRefresh'.list = panelRow
    BY <1>1, <1>4
  <2>2. PanelShape' /\ StepsBelong'
    BY <1>1, <1>2, <1>3, <1>4, <2>1 DEF PanelInv, PanelShape, StepsBelong
  <2>3. UpToDate(panelRow) /\ panelRefresh.wanted \in Nat
    BY <1>1 DEF PanelInv, RowsHold, UpToDate
  <2>4. ReviewsHold'
    BY <1>2, <1>4, <2>1, <2>3 DEF PanelInv, ReviewsHold, UpToDate
  <2>5. RowsHold' /\ PatchesHold'
    BY <1>2, <1>4 DEF PanelInv, RowsHold, PatchesHold, UpToDate
  <2>. QED BY <1>2, <1>3, <2>2, <2>4, <2>5 DEF PanelInv, MarkerHolds, HelpHolds, DrawHolds, OptionsHold, BoardsHold, Board, OneButton
<1>5. CASE /\ panelRefresh' = [wanted |-> panelRefresh.wanted - 1, read |-> FALSE, list |-> N!Fresh]
           /\ panelRefresh.read \/ panelPage' = "degraded"
           /\ panelPanel # "reviews" => panelShown' = panelShown
           /\ panelPanel = "reviews" => panelShown' = IF panelPage' = "degraded" THEN N!Fresh ELSE panelRefresh.list
  <2>1. /\ panelRefresh' \in [wanted : Nat, read : BOOLEAN, list : Counts]
        /\ panelRefresh'.wanted = panelRefresh.wanted - 1 /\ ~panelRefresh'.read /\ panelRefresh.wanted \in Nat
        /\ panelShown' \in Counts
    BY <1>1, <1>2, <1>5, PanelIdle
  <2>2. PanelShape' /\ StepsBelong'
    BY <1>1, <1>2, <1>3, <2>1 DEF PanelInv, PanelShape, StepsBelong
  <2>3. ASSUME panelPanel = "reviews", panelPage' = "good", panelRefresh'.wanted = 0 PROVE UpToDate(panelShown)'
    <3>1. panelRefresh.wanted = 1 /\ panelRefresh.read /\ panelShown' = panelRefresh.list
      BY <1>5, <2>1, <2>3
    <3>2. UpToDate(panelRefresh.list)
      BY <2>3, <3>1 DEF PanelInv, ReviewsHold
    <3>. QED BY <1>2, <3>1, <3>2 DEF UpToDate
  <2>4. ReviewsHold'
    BY <1>2, <2>1, <2>3 DEF ReviewsHold
  <2>5. RowsHold' /\ PatchesHold'
    BY <1>2, <1>5 DEF PanelInv, RowsHold, PatchesHold, UpToDate
  <2>. QED BY <1>2, <1>3, <2>2, <2>4, <2>5 DEF PanelInv, MarkerHolds, HelpHolds, DrawHolds, OptionsHold, BoardsHold, Board, OneButton
<1>. QED BY <1>2, <1>4, <1>5

LEMMA PanelNext == PanelInv /\ N!Next => PanelInv'
<1>. SUFFICES ASSUME PanelInv, N!Next PROVE PanelInv'
  OBVIOUS
<1>1. CASE \E p \in DOMAIN N!Panel : N!Open(p)
  BY <1>1, PanelOpens
<1>2. CASE N!FirstRead \/ N!FirstLands \/ N!FirstFails
  BY <1>2, FirstListCame
<1>3. CASE N!RefreshReads \/ N!RefreshLands \/ N!RefreshFails
  BY <1>3, PageRefreshes
<1>4. CASE (\E i \in Item : N!OtherUser(i)) \/ (\E a \in panelAbandoned : N!ServeLate(a))
  BY <1>4, OthersAreServed
<1>5. ASSUME NEW c \in Client,
             N!ServeOnce(c) \/ N!ServeAgain(c) \/ N!ServeVersion(c) \/ N!ServeDraw(c) \/ N!ServeAny(c)
      PROVE  PanelInv'
  BY <1>5, CallIsServed
<1>6. ASSUME NEW c \in Client, N!Patch(c) \/ N!Refused(c) \/ N!GiveUp(c)
      PROVE  PanelInv'
  BY <1>6, PanelPatches, CallIsOver
<1>7. ASSUME NEW c \in Client, N!AskList(c) \/ N!ReadList(c) \/ N!ShowList(c) \/ N!LoseList(c)
      PROVE  PanelInv'
  BY <1>7, BoardAsks, BoardReads, BoardEnds
<1>8. ASSUME NEW c \in Client, NEW i \in Item, N!ClickOn(c, i) PROVE PanelInv'
  BY <1>8, PanelClicks
<1>. HIDE DEF PanelInv
<1>. QED BY <1>1, <1>2, <1>3, <1>4, <1>5, <1>6, <1>7, <1>8 DEF N!Next

LEMMA PanelStutters == PanelInv /\ UNCHANGED panelVars => PanelInv'
BY DEF panelVars, PanelInv, PanelShape, StepsBelong, RowsHold, MarkerHolds, HelpHolds, DrawHolds, OptionsHold, OptionHolds,
   ReviewsHold, PatchesHold, BoardsHold, UpToDate

----------------------------------------------------------------------------
(* The connector's log.  A reader's cursor is behind all he has not read.   *)

SendingCall == [pc : {"idle", "sent"}, batch : Z!Batch, tries : Nat, posts : Nat]

EventShape ==
  /\ eventLog \in [Event -> Z!Row \union {Z!NoRow}]
  /\ eventCall \in [Connector -> SendingCall]
  /\ eventWire \subseteq [by : Connector, batch : Z!Batch]
  /\ eventPage \in [pc : {"idle", "back"}, events : SUBSET Event]
  /\ eventReads \in [Event -> Nat] /\ eventLate \subseteq Event
  /\ eventCursor \in {Nobody} \union Z!Own(EventReader)

(* One identifier, one row: the log is in one order. *)
OneRowPerId == \A e, f \in Z!Recorded : eventLog[e].id = eventLog[f].id => e = f

(* The page on its way is the first of what lies behind the cursor, and of  *)
(* that nothing has been read.                                              *)
PageIsNext ==
  /\ eventPage.events \subseteq Z!Behind
  /\ eventPage.pc = "back" =>
       \A e \in Z!Behind \ (eventLate \union eventPage.events) :
         \A f \in eventPage.events : Z!Before(f, e)
  /\ eventPage.pc = "idle" => eventPage.events = {}
  /\ \A e \in Event : eventReads[e] <= 1
  /\ \A e \in Event : e \in Z!Behind \/ e \notin Z!Own(EventReader) => eventReads[e] = 0

EventInv == EventShape /\ OneRowPerId /\ PageIsNext /\ Z!EventsReadOnce

LEMMA RowsAreRows ==
  ASSUME eventLog \in [Event -> Z!Row \union {Z!NoRow}]
  PROVE  /\ Z!NoRow \notin Z!Row
         /\ \A e \in Z!Recorded : eventLog[e] \in Z!Row /\ eventLog[e].at \in Nat /\ eventLog[e].id \in Nat
         /\ \A e \in Event : eventLog[e] \in Z!Row => e \in Z!Recorded
         /\ \A c \in Connector, t \in Time, i \in Id : [by |-> c, at |-> t, id |-> i] \in Z!Row
         /\ Nobody \notin Z!Recorded
<1>1. Z!NoRow \notin Z!Row
  BY ReadersAssumption DEF Z!NoRow, Z!Row
<1>2. ASSUME NEW e \in Z!Recorded PROVE eventLog[e] \in Z!Row /\ eventLog[e].at \in Nat /\ eventLog[e].id \in Nat
  <2>1. eventLog[e] \in Z!Row
    BY DEF Z!Recorded
  <2>. QED BY <2>1, ReadersAssumption DEF Z!Row
<1>3. \A c \in Connector, t \in Time, i \in Id : [by |-> c, at |-> t, id |-> i] \in Z!Row
  BY DEF Z!Row
<1>. QED BY <1>1, <1>2, <1>3, ReadersAssumption DEF Z!Recorded

(* Rows of the log are in one order. *)
LEMMA LogIsOrdered ==
  ASSUME EventShape, OneRowPerId,
         NEW e \in Z!Recorded, NEW f \in Z!Recorded, NEW g \in Z!Recorded
  PROVE  /\ ~Z!Before(e, e) /\ (e # f => Z!Before(e, f) \/ Z!Before(f, e))
         /\ Z!Before(e, f) => ~Z!Before(f, e)
         /\ Z!Before(e, f) /\ Z!Before(f, g) => Z!Before(e, g)
<1>1. /\ eventLog[e].at \in Nat /\ eventLog[e].id \in Nat
      /\ eventLog[f].at \in Nat /\ eventLog[f].id \in Nat
      /\ eventLog[g].at \in Nat /\ eventLog[g].id \in Nat
  BY RowsAreRows DEF EventShape
<1>2. e # f => eventLog[e].id # eventLog[f].id
  BY DEF OneRowPerId
<1>. QED BY <1>1, <1>2 DEF Z!Before

LEMMA CursorParts ==
  ASSUME EventShape
  PROVE  /\ Z!Behind \subseteq Z!Own(EventReader) /\ Z!Own(EventReader) \subseteq Z!Recorded
         /\ Z!Recorded \subseteq Event
         /\ \A e \in Z!Own(EventReader) : e \in Z!Behind <=> eventCursor = Nobody \/ Z!Before(eventCursor, e)
         /\ eventCursor # Nobody => eventCursor \in Z!Own(EventReader)
<1>1. Z!Own(EventReader) \subseteq Z!Recorded /\ Z!Recorded \subseteq Event
  BY DEF Z!Own, Z!Recorded
<1>2. eventCursor # Nobody => eventCursor \in Z!Own(EventReader)
  BY DEF EventShape
<1>3. ASSUME NEW e \in Z!Own(EventReader), eventCursor # Nobody
      PROVE  Z!BeyondCursor(e) <=> Z!Before(eventCursor, e)
  <2>1. /\ eventLog[e].at \in Nat /\ eventLog[e].id \in Nat
        /\ eventLog[eventCursor].at \in Nat /\ eventLog[eventCursor].id \in Nat
    BY <1>1, <1>2, <1>3, RowsAreRows DEF EventShape
  <2>. QED BY <2>1 DEF Z!BeyondCursor, Z!Before
<1>. QED BY <1>1, <1>2, <1>3 DEF Z!Behind

LEMMA FirstAreFirst ==
  ASSUME EventShape, OneRowPerId, NEW W \in SUBSET Z!Recorded,
         NEW e \in W, e \notin Z!FirstOf(W), NEW f \in Z!FirstOf(W)
  PROVE  Z!Before(f, e)
<1>. DEFINE ahead(x) == {g \in W : Z!Before(g, x)}
<1>1. IsFiniteSet(W)
  BY ReadersAssumption, FS_Subset DEF Z!Recorded
<1>2. \A x : /\ IsFiniteSet(ahead(x)) /\ Cardinality(ahead(x)) \in Nat
             /\ Z!Cardinality(ahead(x)) = Cardinality(ahead(x))
  <2>. TAKE x
  <2>1. IsFiniteSet(ahead(x))
    BY <1>1, FS_Subset
  <2>2. Z!Cardinality(ahead(x)) = Cardinality(ahead(x))
    BY DEF Z!Cardinality, Z!IsFiniteSet, Cardinality, IsFiniteSet
  <2>. QED BY <2>1, <2>2, FS_CardinalityType
<1>3. Z!FirstOf(W) = {x \in W : Cardinality(ahead(x)) < Limit}
  BY <1>2 DEF Z!FirstOf
<1>4. SUFFICES ASSUME ~Z!Before(f, e) PROVE FALSE
  OBVIOUS
<1>5. f \in W /\ f # e
  BY <1>3
<1>6. Z!Before(e, f)
  BY <1>4, <1>5, LogIsOrdered
<1>7. ahead(e) \subseteq ahead(f)
  BY <1>5, <1>6, LogIsOrdered
<1>8. Cardinality(ahead(f)) < Limit /\ ~(Cardinality(ahead(e)) < Limit)
  <2>. HIDE DEF ahead
  <2>. QED BY <1>3, <1>5
<1>. HIDE DEF ahead
<1>9. Cardinality(ahead(e)) <= Cardinality(ahead(f))
  BY <1>2, <1>7, FS_Subset
<1>. QED BY <1>2, <1>8, <1>9, ReadersAssumption

LEMMA EventInit == Z!Init => EventInv
<1>. SUFFICES ASSUME Z!Init PROVE EventInv
  OBVIOUS
<1>1. Z!Recorded = {} /\ Z!Own(EventReader) = {} /\ Z!Behind = {}
  BY DEF Z!Init, Z!Recorded, Z!Own, Z!Behind
<1>2. EventShape
  <2>1. Z!Empty \in Z!Batch
    <3>1. Z!Empty \in [{} -> Time] /\ {} \in SUBSET Event
      BY DEF Z!Empty
    <3>. QED BY <3>1 DEF Z!Batch
  <2>2. eventPage \in [pc : {"idle", "back"}, events : SUBSET Event]
    BY DEF Z!Init, Z!NoPage
  <2>. QED BY <2>1, <2>2, <1>1 DEF Z!Init, EventShape, SendingCall, Z!NoCall
<1>. QED BY <1>1, <1>2 DEF Z!Init, EventInv, OneRowPerId, PageIsNext, Z!EventsReadOnce, Z!NoPage

(* Where log, cursor, page, reads and late stay, so does everything else.   *)
LEMMA EventCarries ==
  ASSUME EventInv, UNCHANGED <<eventLog, eventCursor, eventPage, eventReads, eventLate, eventAcked>>,
         eventCall' \in [Connector -> SendingCall],
         eventWire' \subseteq [by : Connector, batch : Z!Batch]
  PROVE  EventInv'
<1>1. /\ Z!Recorded' = Z!Recorded /\ Z!Behind' = Z!Behind /\ \A c : Z!Own(c)' = Z!Own(c)
      /\ \A e, f : Z!Before(e, f)' = Z!Before(e, f)
  BY DEF Z!Recorded, Z!Behind, Z!Own, Z!Before, Z!BeyondCursor
<1>2. EventShape'
  BY <1>1 DEF EventInv, EventShape
<1>. QED BY <1>1, <1>2 DEF EventInv, OneRowPerId, PageIsNext, Z!EventsReadOnce

LEMMA EventStops ==
  ASSUME EventShape, NEW c \in Connector, Z!Stops(c)
  PROVE  eventCall' \in [Connector -> SendingCall]
<1>1. Z!Empty \in Z!Batch
  <2>1. Z!Empty \in [{} -> Time] /\ {} \in SUBSET Event
    BY DEF Z!Empty
  <2>. QED BY <2>1 DEF Z!Batch
<1>2. [Z!NoCall EXCEPT !.posts = eventCall[c].posts] \in SendingCall
  BY <1>1 DEF Z!NoCall, EventShape, SendingCall
<1>. QED BY <1>2 DEF Z!Stops, EventShape

LEMMA EventSends ==
  ASSUME EventInv, NEW c \in Connector,
         Z!GiveUp(c) \/ Z!SendAgain(c) \/ \E b \in Z!Batch : Z!RecordEvents(c, b)
  PROVE  EventInv'
<1>1. CASE Z!GiveUp(c)
  BY <1>1, EventStops, EventCarries DEF Z!GiveUp, EventInv, EventShape
<1>2. CASE Z!SendAgain(c)
  <2>. DEFINE k == [eventCall[c] EXCEPT !.tries = @ + 1]
  <2>1. eventCall[c] \in SendingCall /\ k \in SendingCall
    BY DEF EventInv, EventShape, SendingCall
  <2>2. eventCall' = [eventCall EXCEPT ![c] = k]
    BY <1>2 DEF Z!SendAgain
  <2>3. Z!Sent(c, eventCall[c].batch) \in [by : Connector, batch : Z!Batch]
    BY <2>1 DEF Z!Sent, SendingCall
  <2>. HIDE DEF k
  <2>4. eventCall' \in [Connector -> SendingCall] /\ eventWire' \subseteq [by : Connector, batch : Z!Batch]
    BY <1>2, <2>1, <2>2, <2>3 DEF Z!SendAgain, EventInv, EventShape
  <2>. QED BY <1>2, <2>4, EventCarries DEF Z!SendAgain
<1>3. ASSUME NEW b \in Z!Batch, Z!RecordEvents(c, b) PROVE EventInv'
  <2>. DEFINE k == [pc |-> "sent", batch |-> b, tries |-> 1, posts |-> eventCall[c].posts + 1]
  <2>1. eventCall[c] \in SendingCall /\ k \in SendingCall
    BY DEF EventInv, EventShape, SendingCall
  <2>2. eventCall' = [eventCall EXCEPT ![c] = k]
    BY <1>3 DEF Z!RecordEvents
  <2>3. Z!Sent(c, b) \in [by : Connector, batch : Z!Batch]
    BY DEF Z!Sent
  <2>. HIDE DEF k
  <2>4. eventCall' \in [Connector -> SendingCall] /\ eventWire' \subseteq [by : Connector, batch : Z!Batch]
    BY <1>3, <2>1, <2>2, <2>3 DEF Z!RecordEvents, EventInv, EventShape
  <2>. QED BY <1>3, <2>4, EventCarries DEF Z!RecordEvents
<1>. QED BY <1>1, <1>2, <1>3

LEMMA EventRefuse ==
  ASSUME EventInv, NEW q \in eventWire, Z!Refuse(q)
  PROVE  EventInv'
<1>1. q.by \in Connector
  BY DEF EventInv, EventShape
<1>2. eventCall' \in [Connector -> SendingCall]
  BY <1>1, EventStops DEF Z!Refuse, Z!Answered, EventInv, EventShape
<1>. QED BY <1>2, EventCarries DEF Z!Refuse, EventInv, EventShape

LEMMA RowNumbers ==
  ASSUME NEW log \in [Event -> Z!Row \union {Z!NoRow}], NEW e \in Event
  PROVE  log[e].at \in Nat /\ log[e].id \in Nat
<1>1. CASE log[e] \in Z!Row
  BY <1>1, ReadersAssumption DEF Z!Row
<1>2. CASE log[e] = Z!NoRow
  BY <1>2 DEF Z!NoRow
<1>. QED BY <1>1, <1>2

(* The two lemmas above of the state after a step. *)
LEMMA CursorPartsNext ==
  ASSUME EventShape', NEW e \in Z!Own(EventReader)'
  PROVE  e \in Z!Behind' <=> eventCursor' = Nobody \/ Z!Before(eventCursor, e)'
<1>1. e \in Event /\ (eventCursor' # Nobody => eventCursor' \in Event)
  BY DEF EventShape, Z!Own, Z!Recorded
<1>2. /\ eventLog'[e].at \in Nat /\ eventLog'[e].id \in Nat
      /\ eventCursor' # Nobody => eventLog'[eventCursor'].at \in Nat /\ eventLog'[eventCursor'].id \in Nat
  BY <1>1, RowNumbers DEF EventShape
<1>. QED BY <1>2 DEF Z!Behind, Z!BeyondCursor, Z!Before

LEMMA LogIsOrderedNext ==
  ASSUME EventShape', OneRowPerId', NEW e \in Z!Recorded', NEW f \in Z!Recorded', e # f
  PROVE  Z!Before(e, f)' \/ Z!Before(f, e)'
<1>1. e \in Event /\ f \in Event
  BY DEF Z!Recorded
<1>2. /\ eventLog'[e].at \in Nat /\ eventLog'[e].id \in Nat
      /\ eventLog'[f].at \in Nat /\ eventLog'[f].id \in Nat
  BY <1>1, RowNumbers DEF EventShape
<1>3. eventLog'[e].id # eventLog'[f].id
  BY DEF OneRowPerId
<1>. QED BY <1>2, <1>3 DEF Z!Before

(* A batch is recorded: rows are added and none is changed.                 *)
LEMMA RowsAreAdded ==
  ASSUME EventInv, NEW q \in eventWire, NEW ids \in [Event -> Id], Z!Persist(q, ids)
  PROVE  /\ q.by \in Connector /\ DOMAIN q.batch \subseteq Event
         /\ \A e \in Z!Recorded : e \in Z!Recorded' /\ eventLog'[e] = eventLog[e]
         /\ \A e \in Event \ Z!Recorded :
              IF e \in DOMAIN q.batch
              THEN eventLog'[e] = [by |-> q.by, at |-> q.batch[e], id |-> ids[e]] /\ e \in Z!Recorded'
              ELSE eventLog'[e] = eventLog[e] /\ e \notin Z!Recorded'
         /\ eventLog' \in [Event -> Z!Row \union {Z!NoRow}]
         /\ \A e \in Z!Recorded \intersect DOMAIN q.batch : eventLog[e].by = q.by
<1>1. q.by \in Connector /\ q.batch \in Z!Batch
  BY DEF EventInv, EventShape
<1>2. PICK W \in SUBSET Event : q.batch \in [W -> Time]
  BY <1>1 DEF Z!Batch
<1>3. ~Z!Taken(q) /\ eventLog' = Z!Upsert(q, ids)
  BY DEF Z!Persist
<1>4. \A e \in Event : eventLog'[e] =
        IF e \in DOMAIN q.batch /\ eventLog[e] = Z!NoRow
        THEN [by |-> q.by, at |-> q.batch[e], id |-> ids[e]] ELSE eventLog[e]
  BY <1>3 DEF Z!Upsert
<1>5. \A e \in DOMAIN q.batch : [by |-> q.by, at |-> q.batch[e], id |-> ids[e]] \in Z!Row
  BY <1>1, <1>2 DEF Z!Row
<1>6. eventLog' \in [Event -> Z!Row \union {Z!NoRow}]
  <2>1. \A e \in Event : eventLog'[e] \in Z!Row \union {Z!NoRow}
    BY <1>4, <1>5 DEF EventInv, EventShape
  <2>. QED BY <2>1, <1>3 DEF Z!Upsert
<1>7. Z!NoRow \notin Z!Row
  BY RowsAreRows DEF EventInv, EventShape
<1>8. Z!Recorded = {e \in Event : eventLog[e] # Z!NoRow} /\ Z!Recorded' = {e \in Event : eventLog'[e] # Z!NoRow}
  BY DEF Z!Recorded, Z!NoRow
<1>9. \A e \in Z!Recorded \intersect DOMAIN q.batch : eventLog[e].by = q.by
  BY <1>3, <1>8 DEF Z!Taken
<1>. QED BY <1>1, <1>2, <1>4, <1>5, <1>6, <1>7, <1>8, <1>9

LEMMA EventPersists ==
  ASSUME EventInv, NEW q \in eventWire, NEW ids \in [Event -> Id], Z!Persist(q, ids)
  PROVE  EventInv'
<1>. DEFINE new == (DOMAIN q.batch) \ Z!Recorded
<1>1. /\ q.by \in Connector /\ DOMAIN q.batch \subseteq Event
      /\ \A e \in Z!Recorded : e \in Z!Recorded' /\ eventLog'[e] = eventLog[e]
      /\ \A e \in Event \ Z!Recorded :
           IF e \in DOMAIN q.batch
           THEN eventLog'[e] = [by |-> q.by, at |-> q.batch[e], id |-> ids[e]] /\ e \in Z!Recorded'
           ELSE eventLog'[e] = eventLog[e] /\ e \notin Z!Recorded'
      /\ eventLog' \in [Event -> Z!Row \union {Z!NoRow}]
      /\ \A e \in Z!Recorded \intersect DOMAIN q.batch : eventLog[e].by = q.by
  BY RowsAreAdded
<1>2. /\ eventLate' = eventLate \union {e \in DOMAIN q.batch : eventLog[e] = Z!NoRow /\ Z!Passed(eventLog', e)}
      /\ eventWire' = eventWire \ {q} /\ Z!FreshIds(q, ids)
      /\ UNCHANGED <<eventCursor, eventPage, eventReads>>
  BY DEF Z!Persist
<1>3. Z!Recorded = {e \in Event : eventLog[e] # Z!NoRow} /\ Z!Recorded' \subseteq Event
      /\ Z!Recorded \subseteq Event
  BY DEF Z!Recorded
<1>4. Z!Recorded' = Z!Recorded \union new
  BY <1>1, <1>3
<1>5. OneRowPerId'
  <2>. SUFFICES ASSUME NEW e \in Z!Recorded', NEW f \in Z!Recorded', eventLog'[e].id = eventLog'[f].id
                PROVE  e = f
    BY DEF OneRowPerId
  <2>1. \A x \in new : eventLog'[x].id = ids[x]
    BY <1>1
  <2>2. \A x \in new, y \in Z!Recorded : ids[x] # eventLog[y].id
    BY <1>2 DEF Z!FreshIds
  <2>3. \A x, y \in new : ids[x] = ids[y] => x = y
    BY <1>2 DEF Z!FreshIds
  <2>4. \A x \in Z!Recorded : eventLog'[x].id = eventLog[x].id
    BY <1>1
  <2>5. \A x, y \in Z!Recorded : eventLog[x].id = eventLog[y].id => x = y
    BY DEF EventInv, OneRowPerId
  <2>. HIDE DEF new
  <2>. QED BY <2>1, <2>2, <2>3, <2>4, <2>5, <1>4
<1>6. eventCall' \in [Connector -> SendingCall]
  BY <1>1, EventStops DEF Z!Persist, Z!Answered, EventInv, EventShape
<1>7. \A c : \A e \in Z!Recorded : e \in Z!Own(c)' <=> e \in Z!Own(c)
  BY <1>1 DEF Z!Own
<1>8. \A c : \A e \in new : e \in Z!Own(c)' <=> c = q.by
  BY <1>1 DEF Z!Own
<1>9. EventShape'
  <2>1. eventCursor' \in {Nobody} \union Z!Own(EventReader)'
    BY <1>2, <1>7, CursorParts DEF EventInv, EventShape
  <2>2. eventLate' \subseteq Event
    BY <1>1, <1>2 DEF EventInv, EventShape
  <2>. QED BY <2>1, <2>2, <1>1, <1>2, <1>6 DEF EventInv, EventShape
<1>10. /\ Z!Own(EventReader) \subseteq Z!Recorded
       /\ eventCursor # Nobody => eventCursor \in Z!Own(EventReader)
       /\ eventPage.events \subseteq Z!Behind /\ Z!Behind \subseteq Z!Own(EventReader)
  BY CursorParts DEF EventInv, PageIsNext
<1>11. \A e, f \in Z!Recorded : Z!Before(e, f)' <=> Z!Before(e, f)
  BY <1>1 DEF Z!Before
<1>12. \A e \in Z!Own(EventReader) : e \in Z!Behind' <=> e \in Z!Behind
  <2>. SUFFICES ASSUME NEW e \in Z!Own(EventReader) PROVE e \in Z!Behind' <=> e \in Z!Behind
    OBVIOUS
  <2>1. e \in Z!Behind <=> eventCursor = Nobody \/ Z!Before(eventCursor, e)
    BY CursorParts DEF EventInv
  <2>2. e \in Z!Own(EventReader)'
    BY <1>7, <1>10
  <2>3. e \in Z!Behind' <=> eventCursor' = Nobody \/ Z!Before(eventCursor, e)'
    BY <1>9, <2>2, CursorPartsNext
  <2>. QED BY <2>1, <2>3, <1>2, <1>10, <1>11
<1>13. Z!Behind' \subseteq Z!Own(EventReader)'
  BY DEF Z!Behind
<1>14. \A e \in new \ eventLate', f \in eventPage.events \union ({eventCursor} \ {Nobody}) : Z!Before(f, e)'
  <2>. SUFFICES ASSUME NEW e \in new \ eventLate', NEW f \in eventPage.events \union ({eventCursor} \ {Nobody})
                PROVE  Z!Before(f, e)'
    OBVIOUS
  <2>1. f \in Z!Recorded /\ f \in Event /\ f # e
    BY <1>3, <1>10
  <2>2. ~Z!Passed(eventLog', e)
    BY <1>2, <1>3, <1>1
  <2>3. ~(\/ eventLog'[e].at < eventLog'[f].at
          \/ eventLog'[e].at = eventLog'[f].at /\ eventLog'[e].id < eventLog'[f].id)
    BY <2>1, <2>2 DEF Z!Passed
  <2>4. f \in Z!Recorded' /\ e \in Z!Recorded'
    BY <2>1, <1>4
  <2>5. Z!Before(e, f)' \/ Z!Before(f, e)'
    BY <1>5, <1>9, <2>1, <2>4, LogIsOrderedNext
  <2>. QED BY <2>1, <2>3, <2>5 DEF Z!Before
<1>15. \A e \in new : eventReads[e] = 0
  BY <1>1, <1>10 DEF EventInv, PageIsNext
<1>16. PageIsNext'
  <2>1. eventPage'.events \subseteq Z!Behind'
    BY <1>2, <1>10, <1>12
  <2>2. ASSUME eventPage.pc = "back", NEW e \in Z!Behind' \ (eventLate' \union eventPage.events),
               NEW f \in eventPage.events
        PROVE  Z!Before(f, e)'
    <3>1. CASE e \in new
      BY <3>1, <1>14, <2>2
    <3>2. CASE e \notin new
      <4>1. e \in Z!Recorded'
        BY <1>13, <2>2 DEF Z!Own
      <4>2. e \in Z!Own(EventReader) /\ e \in Z!Recorded
        BY <4>1, <3>2, <1>4, <1>7, <1>13, <2>2
      <4>3. Z!Before(f, e)
        BY <4>2, <2>2, <1>2, <1>12 DEF EventInv, PageIsNext
      <4>. QED BY <4>2, <4>3, <1>10, <1>11, <2>2
    <3>. QED BY <3>1, <3>2
  <2>3. ASSUME NEW e \in Event, e \in Z!Behind' \/ e \notin Z!Own(EventReader)'
        PROVE  eventReads[e] = 0
    <3>1. CASE e \in new
      BY <3>1, <1>15
    <3>2. CASE e \in Z!Recorded
      <4>1. e \in Z!Behind \/ e \notin Z!Own(EventReader)
        BY <3>2, <2>3, <1>7, <1>12, <1>13
      <4>. QED BY <4>1 DEF EventInv, PageIsNext
    <3>3. CASE e \notin Z!Recorded \union new
      BY <3>3, <1>10 DEF EventInv, PageIsNext
    <3>. QED BY <3>1, <3>2, <3>3
  <2>. QED BY <2>1, <2>2, <2>3, <1>2 DEF EventInv, PageIsNext
<1>17. Z!EventsReadOnce'
  <2>1. \A x \in eventAcked' : x[2] \in Z!Own(x[1])'
    <3>1. \A x \in eventAcked : x[2] \in Z!Own(x[1])'
      <4>1. \A x \in eventAcked : x[2] \in Z!Own(x[1])
        BY DEF EventInv, Z!EventsReadOnce
      <4>2. \A c : Z!Own(c) \subseteq Z!Recorded
        BY DEF Z!Own
      <4>. QED BY <4>1, <4>2, <1>7
    <3>2. \A e \in DOMAIN q.batch : e \in Z!Own(q.by)'
      <4>1. \A e \in new : e \in Z!Own(q.by)'
        BY <1>8
      <4>2. \A e \in Z!Recorded \intersect DOMAIN q.batch : e \in Z!Own(q.by)
        BY <1>1 DEF Z!Own
      <4>. QED BY <4>1, <4>2, <1>7
    <3>3. eventAcked' \subseteq eventAcked \union {<<q.by, e>> : e \in DOMAIN q.batch}
      BY DEF Z!Persist
    <3>. QED BY <3>1, <3>2, <3>3
  <2>2. ASSUME NEW e \in Z!Own(EventReader)' \ eventLate'
        PROVE  eventReads[e] = IF e \in Z!Behind' THEN 0 ELSE 1
    <3>0. e \in Z!Recorded'
      BY DEF Z!Own
    <3>1. CASE e \in new
      <4>1. e \in Z!Behind'
        <5>1. e \in Z!Behind' <=> eventCursor' = Nobody \/ Z!Before(eventCursor, e)'
          BY <1>9, <2>2, CursorPartsNext
        <5>. QED BY <5>1, <3>1, <2>2, <1>2, <1>14
      <4>. QED BY <4>1, <3>1, <1>15
    <3>2. CASE e \notin new
      <4>1. e \in Z!Own(EventReader) \ eventLate /\ (e \in Z!Behind' <=> e \in Z!Behind)
        BY <3>0, <3>2, <2>2, <1>2, <1>4, <1>7, <1>12
      <4>. QED BY <4>1 DEF EventInv, Z!EventsReadOnce
    <3>. QED BY <3>1, <3>2
  <2>3. \A e \in eventLate' : eventReads[e] <= 1
    BY <1>9 DEF EventShape, EventInv, PageIsNext
  <2>. QED BY <2>1, <2>2, <2>3, <1>2 DEF Z!EventsReadOnce
<1>. QED BY <1>5, <1>9, <1>16, <1>17 DEF EventInv

LEMMA EventLists == ASSUME EventInv, Z!ListConnectorEvents PROVE EventInv'
<1>1. /\ eventPage' = [pc |-> "back", events |-> Z!FirstOf(Z!Behind)]
      /\ UNCHANGED <<eventLog, eventCall, eventWire, eventAcked, eventCursor, eventReads, eventLate>>
  BY DEF Z!ListConnectorEvents
<1>2. /\ Z!Recorded' = Z!Recorded /\ Z!Behind' = Z!Behind /\ \A c : Z!Own(c)' = Z!Own(c)
      /\ \A e, f : Z!Before(e, f)' = Z!Before(e, f)
  BY <1>1 DEF Z!Recorded, Z!Behind, Z!Own, Z!Before, Z!BeyondCursor
<1>3. Z!FirstOf(Z!Behind) \subseteq Z!Behind /\ Z!Behind \subseteq Z!Recorded /\ Z!Recorded \subseteq Event
  BY CursorParts DEF Z!FirstOf, EventInv
<1>4. \A e \in Z!Behind \ Z!FirstOf(Z!Behind), f \in Z!FirstOf(Z!Behind) : Z!Before(f, e)
  BY <1>3, FirstAreFirst DEF EventInv
<1>5. EventShape'
  <2>1. eventPage' \in [pc : {"idle", "back"}, events : SUBSET Event]
    BY <1>1, <1>3
  <2>. QED BY <2>1, <1>1, <1>2 DEF EventInv, EventShape
<1>. QED BY <1>1, <1>2, <1>3, <1>4, <1>5 DEF EventInv, OneRowPerId, PageIsNext, Z!EventsReadOnce

LEMMA EventLosesPage == ASSUME EventInv, Z!LosePage PROVE EventInv'
<1>1. /\ eventPage' = Z!NoPage
      /\ UNCHANGED <<eventLog, eventCall, eventWire, eventAcked, eventCursor, eventReads, eventLate>>
  BY DEF Z!LosePage
<1>2. /\ Z!Recorded' = Z!Recorded /\ Z!Behind' = Z!Behind /\ \A c : Z!Own(c)' = Z!Own(c)
      /\ \A e, f : Z!Before(e, f)' = Z!Before(e, f)
  BY <1>1 DEF Z!Recorded, Z!Behind, Z!Own, Z!Before, Z!BeyondCursor
<1>. QED BY <1>1, <1>2 DEF EventInv, EventShape, OneRowPerId, PageIsNext, Z!EventsReadOnce, Z!NoPage

LEMMA EventReadsPage ==
  ASSUME EventInv, NEW e \in Event \union {Nobody}, Z!ReadPage(e)
  PROVE  EventInv'
<1>. DEFINE got == eventPage.events
<1>1. /\ eventPage.pc = "back" /\ Z!NextCursor(e) /\ eventCursor' = e /\ eventPage' = Z!NoPage
      /\ eventReads' = [f \in Event |-> IF f \in got THEN eventReads[f] + 1 ELSE eventReads[f]]
      /\ UNCHANGED <<eventLog, eventCall, eventWire, eventAcked, eventLate>>
  BY DEF Z!ReadPage
<1>2. /\ Z!Recorded' = Z!Recorded /\ \A c : Z!Own(c)' = Z!Own(c)
      /\ \A f, g : Z!Before(f, g)' = Z!Before(f, g)
  BY <1>1 DEF Z!Recorded, Z!Own, Z!Before
<1>3. /\ Z!Own(EventReader) \subseteq Z!Recorded /\ Z!Recorded \subseteq Event
      /\ eventCursor # Nobody => eventCursor \in Z!Own(EventReader)
      /\ got \subseteq Z!Behind /\ Z!Behind \subseteq Z!Own(EventReader)
      /\ \A f \in Z!Own(EventReader) : f \in Z!Behind <=> eventCursor = Nobody \/ Z!Before(eventCursor, f)
  BY CursorParts DEF EventInv, PageIsNext
<1>4. /\ got = {} => e = eventCursor
      /\ got # {} => e \in got /\ \A f \in got \ {e} : Z!Before(f, e)
  BY <1>1 DEF Z!NextCursor
<1>5. Nobody \notin Z!Recorded
  BY ReadersAssumption, <1>3
<1>6. EventShape'
  <2>1. \A f \in Event : eventReads[f] \in Nat /\ eventReads[f] + 1 \in Nat
    BY DEF EventInv, EventShape
  <2>2. eventReads' \in [Event -> Nat]
    BY <2>1, <1>1
  <2>3. eventCursor' \in {Nobody} \union Z!Own(EventReader)'
    BY <1>1, <1>2, <1>3, <1>4
  <2>. QED BY <2>2, <2>3, <1>1 DEF EventInv, EventShape, Z!NoPage
<1>7. \A f \in Z!Own(EventReader) : f \in Z!Behind' <=> e = Nobody \/ Z!Before(e, f)
  <2>1. \A f \in Z!Own(EventReader)' : f \in Z!Behind' <=> eventCursor' = Nobody \/ Z!Before(eventCursor, f)'
    BY <1>6, CursorPartsNext
  <2>. QED BY <2>1, <1>1, <1>2
<1>8. Z!Behind' \subseteq Z!Own(EventReader)
  BY <1>2 DEF Z!Behind
<1>9. \A f \in got : eventReads[f] = 0 /\ eventReads'[f] = 1 /\ f \notin Z!Behind'
  <2>. SUFFICES ASSUME NEW f \in got PROVE eventReads[f] = 0 /\ eventReads'[f] = 1 /\ f \notin Z!Behind'
    OBVIOUS
  <2>1. f \in Event /\ f \in Z!Own(EventReader) /\ f \in Z!Recorded /\ e \in Z!Recorded /\ e # Nobody
    BY <1>3, <1>4, <1>5
  <2>2. eventReads[f] = 0
    BY <2>1, <1>3 DEF EventInv, PageIsNext
  <2>3. ~Z!Before(e, f)
    <3>1. CASE f = e
      BY <3>1, <2>1, LogIsOrdered DEF EventInv
    <3>2. CASE f # e
      BY <3>2, <2>1, <1>4, LogIsOrdered DEF EventInv
    <3>. QED BY <3>1, <3>2
  <2>. QED BY <2>1, <2>2, <2>3, <1>1, <1>7
<1>10. \A f \in Event \ got : eventReads'[f] = eventReads[f]
  BY <1>1
<1>11. Z!Behind' \subseteq Z!Behind
  <2>. SUFFICES ASSUME NEW f \in Z!Behind', f \notin Z!Behind PROVE FALSE
    OBVIOUS
  <2>1. f \in Z!Own(EventReader) /\ eventCursor # Nobody /\ ~Z!Before(eventCursor, f)
    BY <1>3, <1>8
  <2>2. CASE got = {}
    BY <2>1, <2>2, <1>4, <1>7
  <2>3. CASE got # {}
    <3>1. e \in got /\ e # Nobody /\ e \in Z!Recorded /\ f \in Z!Recorded /\ eventCursor \in Z!Recorded
      BY <2>1, <2>3, <1>3, <1>4, <1>5
    <3>2. Z!Before(eventCursor, e) /\ Z!Before(e, f)
      BY <3>1, <2>1, <1>3, <1>7
    <3>. QED BY <3>1, <3>2, <2>1, LogIsOrdered DEF EventInv
  <2>. QED BY <2>2, <2>3
<1>12. PageIsNext'
  <2>1. \A f \in Event : eventReads'[f] <= 1
    BY <1>9, <1>10 DEF EventInv, PageIsNext
  <2>2. \A f \in Event : f \in Z!Behind' \/ f \notin Z!Own(EventReader)' => eventReads'[f] = 0
    <3>. SUFFICES ASSUME NEW f \in Event, f \in Z!Behind' \/ f \notin Z!Own(EventReader)'
                  PROVE  eventReads'[f] = 0
      OBVIOUS
    <3>1. f \notin got
      BY <1>2, <1>3, <1>9
    <3>2. f \in Z!Behind \/ f \notin Z!Own(EventReader)
      BY <1>2, <1>11
    <3>. QED BY <3>1, <3>2, <1>10 DEF EventInv, PageIsNext
  <2>. QED BY <2>1, <2>2, <1>1 DEF PageIsNext, Z!NoPage
<1>13. Z!EventsReadOnce'
  <2>1. ASSUME NEW f \in Z!Own(EventReader) \ eventLate
        PROVE  eventReads'[f] = IF f \in Z!Behind' THEN 0 ELSE 1
    <3>0. f \in Event
      BY <1>3
    <3>1. CASE f \in got
      BY <3>1, <1>9
    <3>2. CASE f \in Z!Behind \ got
      <4>1. f \in Z!Behind'
        <5>1. CASE got = {}
          BY <5>1, <3>2, <1>3, <1>4, <1>7
        <5>2. CASE got # {}
          <6>1. e \in got
            BY <5>2, <1>4
          <6>2. Z!Before(e, f)
            BY <6>1, <3>2, <2>1, <1>1 DEF EventInv, PageIsNext
          <6>. QED BY <6>2, <1>7
        <5>. QED BY <5>1, <5>2
      <4>. QED BY <4>1, <3>0, <3>2, <2>1, <1>10 DEF EventInv, Z!EventsReadOnce
    <3>3. CASE f \notin Z!Behind
      <4>1. f \notin got /\ f \notin Z!Behind'
        BY <3>3, <1>3, <1>11
      <4>. QED BY <4>1, <3>0, <3>3, <2>1, <1>10 DEF EventInv, Z!EventsReadOnce
    <3>. QED BY <3>1, <3>2, <3>3
  <2>2. \A f \in eventLate : eventReads'[f] <= 1
    BY <1>12 DEF PageIsNext, EventInv, EventShape
  <2>3. \A x \in eventAcked : x[2] \in Z!Own(x[1])'
    BY <1>2 DEF EventInv, Z!EventsReadOnce
  <2>. QED BY <2>1, <2>2, <2>3, <1>1, <1>2 DEF Z!EventsReadOnce
<1>14. OneRowPerId'
  BY <1>1, <1>2 DEF EventInv, OneRowPerId
<1>. QED BY <1>6, <1>12, <1>13, <1>14 DEF EventInv

LEMMA EventNext == EventInv /\ [Z!Next]_eventVars => EventInv'
<1>. SUFFICES ASSUME EventInv, [Z!Next]_eventVars PROVE EventInv'
  OBVIOUS
<1>1. CASE UNCHANGED eventVars
  <2>1. eventCall' \in [Connector -> SendingCall] /\ eventWire' \subseteq [by : Connector, batch : Z!Batch]
    BY <1>1 DEF eventVars, EventInv, EventShape
  <2>. QED BY <1>1, <2>1, EventCarries DEF eventVars
<1>. QED BY <1>1, EventSends, EventPersists, EventRefuse, EventLists, EventLosesPage, EventReadsPage DEF Z!Next

----------------------------------------------------------------------------
(* A room's history.  It is read backwards, from the newest message on.     *)

(* What the page on its way has left out lies behind it, and the reader has *)
(* read nothing that lies behind his cursor.                                *)
HistoryShape ==
  /\ historyAt \in [Message -> 0..MostTime]
  /\ historyBefore \in 1..(MostTime + 1)
  /\ historyPage \in [pc : {"idle", "back"}, messages : SUBSET Message, hasMore : BOOLEAN]
  /\ historyReads \in [Message -> Nat] /\ historyEnded \in BOOLEAN
  /\ IsFiniteSet(F!Posted)

PageIsAhead ==
  historyPage.pc = "back" =>
    /\ ~historyEnded /\ historyPage.messages \subseteq F!Older
    /\ \A m \in F!Older \ (historyLate \union historyPage.messages) :
         historyPage.hasMore /\ \A n \in historyPage.messages : F!Newer(n, m)

ReadIsBehind ==
  /\ \A m \in Message : historyAt[m] < historyBefore => historyReads[m] = 0
  /\ historyPage.pc = "idle" => historyPage.messages = {}

HistoryInv == HistoryShape /\ PageIsAhead /\ ReadIsBehind /\ F!HistoryReadOnce

LEMMA FirstOfIsAhead ==
  ASSUME NEW W, IsFiniteSet(W), W \in SUBSET Message, historyAt \in [Message -> 0..MostTime],
         NEW m \in W, m \notin F!FirstOf(W)
  PROVE  Cardinality(W) > PageSize /\ \A n \in F!FirstOf(W) : F!Newer(n, m)
<1>. DEFINE ahead(x) == {n \in W : F!Newer(n, x)}
<1>1. \A x : /\ ahead(x) \subseteq W /\ IsFiniteSet(ahead(x)) /\ Cardinality(ahead(x)) \in Nat
             /\ F!Cardinality(ahead(x)) = Cardinality(ahead(x))
  <2>. TAKE x
  <2>1. ahead(x) \subseteq W /\ IsFiniteSet(ahead(x))
    BY FS_Subset
  <2>2. F!Cardinality(ahead(x)) = Cardinality(ahead(x))
    BY DEF F!Cardinality, F!IsFiniteSet, Cardinality, IsFiniteSet
  <2>. QED BY <2>1, <2>2, FS_CardinalityType
<1>2. F!FirstOf(W) = {x \in W : Cardinality(ahead(x)) < PageSize}
  BY <1>1 DEF F!FirstOf
<1>3. Cardinality(ahead(m)) \in Nat /\ Cardinality(ahead(m)) >= PageSize
  <2>. HIDE DEF ahead
  <2>. QED BY <1>1, <1>2, ReadersAssumption
<1>4. m \notin ahead(m)
  BY ReadersAssumption DEF F!Newer
<1>5. Cardinality(ahead(m)) < Cardinality(W)
  <2>. HIDE DEF ahead
  <2>1. ahead(m) \subseteq W /\ ahead(m) # W
    BY <1>1, <1>4
  <2>2. Cardinality(ahead(m)) <= Cardinality(W) /\ (Cardinality(W) = Cardinality(ahead(m)) => W = ahead(m))
    BY <2>1, FS_Subset
  <2>. QED BY <2>1, <2>2, <1>1, FS_CardinalityType
<1>6. ASSUME NEW n \in F!FirstOf(W)
      PROVE  F!Newer(n, m)
  <2>0. n \in W /\ Cardinality(ahead(n)) < PageSize
    BY <1>2
  <2>1. SUFFICES ASSUME ~F!Newer(n, m) PROVE FALSE
    OBVIOUS
  <2>2. F!Newer(m, n)
    BY <2>0, <2>1, ReadersAssumption DEF F!Newer, F!FirstOf
  <2>3. ahead(m) \subseteq ahead(n)
    <3>1. SUFFICES ASSUME NEW x \in W, F!Newer(x, m) PROVE F!Newer(x, n)
      OBVIOUS
    <3>2. x \in Nat /\ m \in Nat /\ n \in Nat
      BY <2>0, ReadersAssumption
    <3>3. historyAt[x] \in Nat /\ historyAt[m] \in Nat /\ historyAt[n] \in Nat
      BY <2>0, ReadersAssumption
    <3>. QED BY <3>1, <3>2, <3>3, <2>2 DEF F!Newer
  <2>. HIDE DEF ahead
  <2>4. Cardinality(ahead(m)) <= Cardinality(ahead(n))
    BY <2>3, <1>1, FS_Subset
  <2>. QED BY <2>4, <2>0, <1>3, <1>1, ReadersAssumption
<1>7. Cardinality(W) \in Nat
  BY FS_CardinalityType
<1>. QED BY <1>3, <1>5, <1>6, <1>7, ReadersAssumption

LEMMA HistoryInit == F!Init => HistoryInv
<1>. SUFFICES ASSUME F!Init PROVE HistoryInv
  OBVIOUS
<1>1. F!Posted = {}
  BY DEF F!Init, F!Posted
<1>2. HistoryShape
  <2>1. historyPage \in [pc : {"idle", "back"}, messages : SUBSET Message, hasMore : BOOLEAN]
    BY DEF F!Init, F!NoPage
  <2>2. historyBefore \in 1..(MostTime + 1) /\ historyAt \in [Message -> 0..MostTime]
    BY ReadersAssumption DEF F!Init, F!Newest
  <2>. QED BY <2>1, <2>2, <1>1, FS_EmptySet DEF F!Init, HistoryShape
<1>. QED BY <1>1, <1>2, ReadersAssumption DEF F!Init, HistoryInv, PageIsAhead, ReadIsBehind, F!HistoryReadOnce, F!NoPage

LEMMA HistoryCreate ==
  ASSUME HistoryInv, NEW m \in Message, NEW t \in 1..MostTime, F!CreateMessage(m, t)
  PROVE  HistoryInv'
<1>1. /\ historyAt' = [historyAt EXCEPT ![m] = t] /\ historyAt[m] = 0
      /\ historyLate' = IF F!Reached(t) THEN historyLate \union {m} ELSE historyLate
      /\ UNCHANGED <<historyBefore, historyPage, historyReads, historyEnded>>
  BY DEF F!CreateMessage
<1>2. \A n \in Message : historyAt'[n] = IF n = m THEN t ELSE historyAt[n]
  BY <1>1 DEF HistoryInv, HistoryShape
<1>3. F!Posted' = F!Posted \union {m} /\ m \notin F!Posted
  BY <1>1, <1>2 DEF F!Posted
<1>4. F!Older' = IF t < historyBefore THEN F!Older \union {m} ELSE F!Older
  BY <1>1, <1>2, <1>3, ReadersAssumption DEF F!Older, F!Posted, HistoryInv, HistoryShape
<1>5. HistoryShape'
  <2>1. IsFiniteSet(F!Posted')
    BY <1>3, FS_AddElement DEF HistoryInv, HistoryShape
  <2>. QED BY <2>1, <1>1, ReadersAssumption DEF HistoryInv, HistoryShape
<1>6. m \notin historyPage.messages
  BY <1>3 DEF HistoryInv, PageIsAhead, ReadIsBehind, HistoryShape, F!Older
<1>7. PageIsAhead'
  <2>1. SUFFICES ASSUME historyPage.pc = "back" PROVE PageIsAhead'
    BY <1>1 DEF PageIsAhead
  <2>2. ~historyEnded' /\ historyPage'.messages \subseteq F!Older'
    BY <2>1, <1>1, <1>4 DEF HistoryInv, PageIsAhead
  <2>3. ASSUME NEW x \in F!Older' \ (historyLate' \union historyPage'.messages)
        PROVE  historyPage'.hasMore /\ \A n \in historyPage'.messages : F!Newer(n, x)'
    <3>1. CASE x = m
      <4>1. ~F!Reached(t)
        BY <2>3, <3>1, <1>1
      <4>2. historyPage.hasMore /\ \A n \in historyPage.messages : ~(historyAt[n] <= t)
        BY <4>1, <2>1 DEF F!Reached
      <4>. QED BY <4>2, <3>1, <1>1, <1>2, <1>6 DEF F!Newer, HistoryInv, HistoryShape
    <3>2. CASE x # m
      <4>1. x \in F!Older \ (historyLate \union historyPage.messages)
        BY <3>2, <2>3, <1>1, <1>4
      <4>2. historyPage.hasMore /\ \A n \in historyPage.messages : F!Newer(n, x)
        BY <4>1, <2>1 DEF HistoryInv, PageIsAhead
      <4>. QED BY <4>1, <4>2, <3>2, <1>1, <1>2, <1>6 DEF F!Newer, HistoryInv, HistoryShape, F!Older, F!Posted
    <3>. QED BY <3>1, <3>2
  <2>. QED BY <2>2, <2>3 DEF PageIsAhead
<1>8. ReadIsBehind'
  BY <1>1, <1>2, ReadersAssumption DEF HistoryInv, ReadIsBehind, HistoryShape
<1>9. F!HistoryReadOnce'
  <2>1. ASSUME NEW x \in F!Posted' \ historyLate'
        PROVE  IF x \in F!Older' /\ ~historyEnded' THEN historyReads'[x] = 0
               ELSE historyReads'[x] = 1 \/ F!Shadowed(x)'
    <3>1. CASE x = m
      <4>1. ~F!Reached(t)
        BY <2>1, <3>1, <1>1
      <4>2. t < historyBefore /\ ~historyEnded
        BY <4>1 DEF F!Reached, HistoryInv, HistoryShape
      <4>. QED BY <4>2, <3>1, <1>1, <1>4 DEF HistoryInv, ReadIsBehind, HistoryShape
    <3>2. CASE x # m
      <4>1. x \in F!Posted \ historyLate /\ (x \in F!Older' <=> x \in F!Older)
        BY <3>2, <2>1, <1>1, <1>3, <1>4
      <4>2. F!Shadowed(x) => F!Shadowed(x)'
        BY <4>1, <3>2, <1>1, <1>2, <1>3 DEF F!Shadowed, F!Posted
      <4>. QED BY <4>1, <4>2, <1>1 DEF HistoryInv, F!HistoryReadOnce
    <3>. QED BY <3>1, <3>2
  <2>. QED BY <2>1, <1>1 DEF F!HistoryReadOnce, HistoryInv
<1>. QED BY <1>5, <1>7, <1>8, <1>9 DEF HistoryInv

LEMMA HistoryDetail == ASSUME HistoryInv, F!RoomDetail PROVE HistoryInv'
<1>1. /\ historyPage' = [pc |-> "back", messages |-> F!FirstOf(F!Older),
                         hasMore |-> F!Cardinality(F!Older) > PageSize]
      /\ ~historyEnded /\ UNCHANGED <<historyAt, historyBefore, historyReads, historyLate, historyEnded>>
  BY DEF F!RoomDetail
<1>2. IsFiniteSet(F!Older) /\ F!Older \in SUBSET Message
  BY FS_Subset DEF HistoryInv, HistoryShape, F!Older, F!Posted
<1>3. F!Cardinality(F!Older) = Cardinality(F!Older) /\ F!FirstOf(F!Older) \subseteq F!Older
  BY DEF F!Cardinality, F!IsFiniteSet, Cardinality, IsFiniteSet, F!FirstOf
<1>4. \A m \in F!Older \ F!FirstOf(F!Older) :
        Cardinality(F!Older) > PageSize /\ \A n \in F!FirstOf(F!Older) : F!Newer(n, m)
  BY <1>2, FirstOfIsAhead DEF HistoryInv, HistoryShape
<1>5. F!Older' = F!Older /\ F!Posted' = F!Posted /\ \A m : F!Shadowed(m)' = F!Shadowed(m)
  BY <1>1 DEF F!Older, F!Posted, F!Shadowed
<1>6. \A n, m : F!Newer(n, m)' = F!Newer(n, m)
  BY <1>1 DEF F!Newer
<1>7. HistoryShape'
  <2>1. historyPage' \in [pc : {"idle", "back"}, messages : SUBSET Message, hasMore : BOOLEAN]
    BY <1>1, <1>2, <1>3
  <2>. QED BY <2>1, <1>1, <1>5 DEF HistoryInv, HistoryShape
<1>8. PageIsAhead'
  BY <1>1, <1>3, <1>4, <1>5, <1>6 DEF PageIsAhead
<1>. QED BY <1>1, <1>5, <1>7, <1>8 DEF HistoryInv, ReadIsBehind, F!HistoryReadOnce

LEMMA HistoryShow == ASSUME HistoryInv, F!ShowPage PROVE HistoryInv'
<1>. DEFINE page == historyPage.messages
<1>1. /\ historyPage.pc = "back" /\ historyPage' = F!NoPage
      /\ historyReads' = [m \in Message |-> IF m \in page THEN historyReads[m] + 1 ELSE historyReads[m]]
      /\ historyEnded' = ~historyPage.hasMore
      /\ UNCHANGED <<historyAt, historyLate>>
  BY DEF F!ShowPage
<1>2. /\ ~historyEnded /\ page \subseteq F!Older
      /\ \A m \in F!Older \ (historyLate \union page) :
           historyPage.hasMore /\ \A n \in page : F!Newer(n, m)
  BY <1>1 DEF HistoryInv, PageIsAhead
<1>3. /\ historyBefore' \in 1..(MostTime + 1) /\ historyBefore' <= historyBefore
      /\ \A m \in page : historyBefore' <= historyAt[m]
      /\ page # {} => \E m \in page : historyBefore' = historyAt[m]
      /\ page = {} => historyBefore' = historyBefore
  <2>1. CASE page = {}
    BY <2>1 DEF F!ShowPage, HistoryInv, HistoryShape
  <2>2. CASE page # {}
    <3>1. PICK o \in page : F!Oldest(o) /\ historyBefore' = historyAt[o]
      BY <2>2 DEF F!ShowPage
    <3>2. o \in Message /\ historyAt[o] \in 1..MostTime /\ historyAt[o] < historyBefore
      BY <3>1, <1>2, ReadersAssumption DEF F!Older, F!Posted, HistoryInv, HistoryShape
    <3>3. \A m \in page : historyAt[o] <= historyAt[m]
      BY <3>1, <3>2, <1>2 DEF F!Oldest, F!Newer, F!Older, F!Posted, HistoryInv, HistoryShape
    <3>. QED BY <3>1, <3>2, <3>3, <2>2, ReadersAssumption DEF HistoryInv, HistoryShape
  <2>. QED BY <2>1, <2>2
<1>4. F!Posted' = F!Posted /\ F!Older = {m \in F!Posted : historyAt[m] < historyBefore}
      /\ F!Older' = {m \in F!Posted : historyAt[m] < historyBefore'} /\ F!Posted \subseteq Message
  BY <1>1 DEF F!Posted, F!Older
<1>5. \A m \in page : historyReads[m] = 0 /\ historyReads'[m] = 1
  BY <1>1, <1>2, <1>4 DEF HistoryInv, ReadIsBehind, HistoryShape
<1>6. \A m \in Message \ page : historyReads'[m] = historyReads[m]
  BY <1>1
<1>7. HistoryShape'
  <2>1. historyReads' \in [Message -> Nat]
    BY <1>1 DEF HistoryInv, HistoryShape
  <2>2. historyPage' \in [pc : {"idle", "back"}, messages : SUBSET Message, hasMore : BOOLEAN]
    BY <1>1 DEF F!NoPage
  <2>3. historyEnded' \in BOOLEAN
    BY <1>1 DEF HistoryInv, HistoryShape
  <2>. QED BY <2>1, <2>2, <2>3, <1>1, <1>3, <1>4 DEF HistoryInv, HistoryShape
<1>8. PageIsAhead'
  BY <1>1 DEF PageIsAhead, F!NoPage
<1>9. ReadIsBehind'
  <2>1. ASSUME NEW m \in Message, historyAt'[m] < historyBefore' PROVE historyReads'[m] = 0
    <3>1. m \notin page /\ historyAt[m] < historyBefore
      BY <2>1, <1>1, <1>3, ReadersAssumption DEF HistoryInv, HistoryShape
    <3>. QED BY <3>1, <1>6 DEF HistoryInv, ReadIsBehind
  <2>. QED BY <2>1, <1>1 DEF ReadIsBehind, F!NoPage
<1>10. F!HistoryReadOnce'
  <2>1. \A m \in Message : historyReads'[m] <= 1
    BY <1>5, <1>6 DEF HistoryInv, F!HistoryReadOnce
  <2>2. ASSUME NEW m \in F!Posted \ historyLate
        PROVE  IF m \in F!Older' /\ ~historyEnded' THEN historyReads'[m] = 0
               ELSE historyReads'[m] = 1 \/ F!Shadowed(m)'
    <3>0. m \in Message
      BY <1>4
    <3>1. CASE m \in page
      <4>1. m \notin F!Older'
        BY <3>1, <3>0, <1>3, <1>4, ReadersAssumption DEF HistoryInv, HistoryShape
      <4>. QED BY <4>1, <3>1, <1>5
    <3>2. CASE m \in F!Older \ page
      <4>1. historyPage.hasMore /\ \A n \in page : F!Newer(n, m)
        BY <3>2, <2>2, <1>2
      <4>2. historyReads'[m] = 0 /\ ~historyEnded'
        BY <3>2, <3>0, <4>1, <1>1, <1>4, <1>6 DEF HistoryInv, ReadIsBehind
      <4>3. CASE m \in F!Older'
        BY <4>2, <4>3
      <4>4. CASE m \notin F!Older'
        <5>1. page # {}
          BY <4>4, <3>2, <1>3, <1>4
        <5>2. PICK o \in page : historyBefore' = historyAt[o]
          BY <5>1, <1>3
        <5>3. o \in F!Posted \ {m} /\ F!Newer(o, m) /\ historyReads'[o] = 1
          BY <5>2, <4>1, <3>2, <1>2, <1>4, <1>5
        <5>4. historyAt[o] = historyAt[m]
          BY <5>2, <5>3, <4>4, <3>0, <2>2, <1>4, ReadersAssumption DEF F!Newer, HistoryInv, HistoryShape
        <5>5. F!Shadowed(m)'
          BY <5>3, <5>4, <1>1, <1>4 DEF F!Shadowed
        <5>. QED BY <5>5, <4>4
      <4>. QED BY <4>3, <4>4
    <3>3. CASE m \notin F!Older
      <4>1. m \notin page /\ m \notin F!Older'
        BY <3>3, <3>0, <1>2, <1>3, <1>4, ReadersAssumption DEF HistoryInv, HistoryShape
      <4>2. historyReads[m] = 1 \/ F!Shadowed(m)
        BY <3>3, <2>2 DEF HistoryInv, F!HistoryReadOnce
      <4>3. F!Shadowed(m) => F!Shadowed(m)'
        <5>1. SUFFICES ASSUME NEW n \in F!Posted \ {m}, historyAt[n] = historyAt[m], historyReads[n] = 1
                       PROVE  F!Shadowed(m)'
          BY DEF F!Shadowed
        <5>2. historyReads'[n] = 1
          BY <5>1, <1>4, <1>5, <1>6
        <5>. QED BY <5>1, <5>2, <1>1, <1>4 DEF F!Shadowed
      <4>. QED BY <4>1, <4>2, <4>3, <3>0, <1>6
    <3>. QED BY <3>1, <3>2, <3>3
  <2>. QED BY <2>1, <2>2, <1>1, <1>4 DEF F!HistoryReadOnce
<1>. QED BY <1>7, <1>8, <1>9, <1>10 DEF HistoryInv


LEMMA HistoryNext == HistoryInv /\ [F!Next]_historyVars => HistoryInv'
<1>. SUFFICES ASSUME HistoryInv, [F!Next]_historyVars PROVE HistoryInv'
  OBVIOUS
<1>1. CASE F!Tick \/ UNCHANGED historyVars
  <2>1. UNCHANGED <<historyAt, historyBefore, historyPage, historyReads, historyLate, historyEnded>>
    BY <1>1 DEF F!Tick, historyVars
  <2>2. F!Posted' = F!Posted /\ F!Older' = F!Older
    BY <2>1 DEF F!Posted, F!Older
  <2>3. HistoryShape'
    BY <2>1, <2>2 DEF HistoryInv, HistoryShape
  <2>4. PageIsAhead'
    BY <2>1, <2>2 DEF HistoryInv, PageIsAhead, F!Newer
  <2>5. ReadIsBehind'
    BY <2>1 DEF HistoryInv, ReadIsBehind
  <2>6. F!HistoryReadOnce'
    BY <2>1, <2>2 DEF HistoryInv, F!HistoryReadOnce, F!Shadowed
  <2>. QED BY <2>3, <2>4, <2>5, <2>6 DEF HistoryInv
<1>2. CASE F!LosePage
  <2>1. /\ historyPage' = F!NoPage
        /\ UNCHANGED <<historyAt, historyBefore, historyReads, historyLate, historyEnded>>
    BY <1>2 DEF F!LosePage
  <2>. QED BY <2>1 DEF F!NoPage, HistoryInv, HistoryShape, PageIsAhead, ReadIsBehind, F!HistoryReadOnce,
       F!Older, F!Posted, F!Newer, F!Shadowed
<1>. QED BY <1>1, <1>2, HistoryCreate, HistoryDetail, HistoryShow DEF F!Next

(* A panel at rest shows nothing older than an answer has told it, unless   *)
(* its page says so; the team's page at rest shows the stored identity; and *)
(* who reads the connector's log or a room's history page by page gets      *)
(* nothing twice and misses nothing he has passed: for any number of rows,  *)
(* clicks, requests, lost answers, events and messages (the panels of the   *)
(* web client, listConnectorEvents, fetchRoomHistory).                      *)
THEOREM PanelsTellWhatIsStored == CourseSpec => []PanelsAgree
<1>. DEFINE Inv == /\ part = "panels" => PanelInv
                   /\ part = "team" => TeamInv
                   /\ part = "events" => EventInv
                   /\ part = "history" => HistoryInv
<1>1. CourseInit => Inv
  BY PanelInit, TeamInit, EventInit, HistoryInit DEF CourseInit
<1>2. Inv /\ [CourseNext]_courseVars => Inv'
  <2>1. [CourseNext]_courseVars => /\ UNCHANGED part
                                   /\ part = "panels" => [N!Next]_panelVars
                                   /\ part = "team" => [T!Next]_teamVars
                                   /\ part = "events" => [Z!Next]_eventVars
                                   /\ part = "history" => [F!Next]_historyVars
    BY DEF CourseNext, courseVars
  <2>2. part = "panels" /\ PanelInv /\ [CourseNext]_courseVars => PanelInv'
    BY <2>1, PanelNext, PanelStutters
  <2>. QED BY <2>1, <2>2, TeamNext, EventNext, HistoryNext
<1>3. Inv => PanelsAgree
  BY PanelsSay, TeamSays DEF PanelsAgree, EventInv, HistoryInv
<1>. QED BY <1>1, <1>2, <1>3, PTL DEF CourseSpec

----------------------------------------------------------------------------
(* The types of the panels, the log and the history: what is typed beside   *)
(* their invariants.                                                        *)

(* The panels. *)
Costs == [clicks : 0..MostClicks, others : 0..MostOthers, troubles : 0..PanelTroubles]

PanelTyped ==
  /\ PanelInv
  /\ panelBusy \in Item \union {"all", N!Nothing}
  /\ panelPage \in {"good", "behind", "degraded"}
  /\ panelCrossed \subseteq Item /\ panelSpent \in Costs

LEMMA PanelStartsTyped == N!Init => PanelTyped
<1>1. 0 \in 0..MostClicks /\ 0 \in 0..MostOthers /\ 0 \in 0..PanelTroubles
  BY BoundsAssumption
<1>. QED BY <1>1, PanelInit DEF PanelTyped, N!Init, Costs

LEMMA PanelStaysTyped == PanelTyped /\ [N!Next]_panelVars => PanelTyped'
<1>. SUFFICES ASSUME PanelTyped, [N!Next]_panelVars PROVE PanelTyped'
  OBVIOUS
<1>. DEFINE Typed == /\ panelBusy \in Item \union {"all", N!Nothing}
                     /\ panelPage \in {"good", "behind", "degraded"}
                     /\ panelCrossed \subseteq Item /\ panelSpent \in Costs
<1>1. Typed /\ PanelInv'
  BY PanelNext, PanelStutters DEF PanelTyped
<1>. SUFFICES Typed'
  BY <1>1 DEF PanelTyped, N!Nothing, Costs
<1>2. MostClicks \in Nat /\ MostOthers \in Nat /\ PanelTroubles \in Nat
  BY BoundsAssumption
<1>3. ASSUME N!Trouble PROVE panelSpent' \in Costs
  <2>1. panelSpent.troubles + 1 \in 0..PanelTroubles
    BY <1>1, <1>2, <1>3 DEF N!Trouble, Costs
  <2>. QED BY <1>1, <1>3, <2>1 DEF N!Trouble, Costs
<1>4. ASSUME NEW i \in Item, N!OtherUser(i) PROVE Typed'
  <2>1. panelSpent.others + 1 \in 0..MostOthers
    BY <1>1, <1>2, <1>4 DEF N!OtherUser, Costs
  <2>2. panelSpent' \in Costs
    BY <1>1, <1>4, <2>1 DEF N!OtherUser, Costs
  <2>. QED BY <1>1, <1>4, <2>2 DEF N!OtherUser
<1>5. ASSUME NEW c \in Client, NEW i \in Item, N!ClickOn(c, i) PROVE Typed'
  <2>1. panelSpent.clicks + 1 \in 0..MostClicks
    BY <1>1, <1>2, <1>5 DEF N!ClickOn, Costs
  <2>2. panelSpent' \in Costs
    BY <1>1, <1>5, <2>1 DEF N!ClickOn, Costs
  <2>3. panelBusy' \in {i, "all", panelBusy}
    BY <1>5, Zenon DEF N!ClickOn
  <2>4. panelCrossed' \subseteq Item /\ panelPage' = panelPage
    BY <1>1, <1>5 DEF N!ClickOn
  <2>. QED BY <1>1, <2>2, <2>3, <2>4
<1>6. ASSUME NEW p, N!Open(p) \/ N!FirstRead \/ N!FirstLands PROVE Typed'
  BY <1>1, <1>6 DEF N!Open, N!FirstRead, N!FirstLands
<1>7. CASE N!FirstFails \/ N!RefreshFails
  BY <1>1, <1>3, <1>7 DEF N!FirstFails, N!RefreshFails
<1>8. CASE N!RefreshReads \/ N!RefreshLands
  BY <1>1, <1>8 DEF N!RefreshReads, N!RefreshLands
<1>9. ASSUME NEW a, N!ServeLate(a) PROVE Typed'
  BY <1>1, <1>9 DEF N!ServeLate
<1>10. ASSUME NEW c \in Client,
              \/ N!ServeOnce(c) \/ N!ServeAgain(c) \/ N!ServeVersion(c)
              \/ N!ServeDraw(c) \/ N!ServeAny(c)
       PROVE  Typed'
  <2>1. \E what, version : N!Answers(c, what, version)
    BY <1>10 DEF N!ServeOnce, N!ServeAgain, N!ServeVersion, N!ServeDraw, N!ServeAny,
                 N!Writes, N!Refuses, N!Repeats
  <2>. QED BY <1>1, <2>1 DEF N!Answers
<1>11. ASSUME NEW c \in Client, N!Patch(c) \/ N!Refused(c) \/ N!AskList(c) \/ N!ReadList(c) \/ N!ShowList(c)
       PROVE  Typed'
  BY <1>1, <1>11 DEF N!Patch, N!Refused, N!AskList, N!ReadList, N!ShowList, N!Ends
<1>12. ASSUME NEW c \in Client, N!GiveUp(c) \/ N!LoseList(c) PROVE Typed'
  BY <1>1, <1>3, <1>12 DEF N!GiveUp, N!LoseList, N!Ends
<1>13. CASE UNCHANGED panelVars
  BY <1>1, <1>13 DEF panelVars
<1>. QED BY <1>4, <1>5, <1>6, <1>7, <1>8, <1>9, <1>10, <1>11, <1>12, <1>13 DEF N!Next

LEMMA PanelTypes == PanelTyped => N!TypeOK
<1>1. PanelName = DOMAIN N!Panel
  BY DEF PanelName, N!Panel
<1>. QED BY <1>1 DEF PanelTyped, PanelInv, PanelShape, PanelCall, CallStepName, Counts, Costs,
                     N!TypeOK, N!List

(* The connector's log. *)
TypedSending ==
  [pc : {"idle", "sent"}, batch : Z!Batch, tries : 0..MostTries, posts : 0..MostPosts]

EventTyped ==
  /\ EventInv /\ eventCall \in [Connector -> TypedSending]
  /\ eventAcked \subseteq Connector \X Event

LEMMA NoSendingTyped == Z!NoCall \in TypedSending
<1>1. Z!Empty \in [{} -> Time] /\ {} \in SUBSET Event
  BY DEF Z!Empty
<1>2. [{} -> Time] \subseteq Z!Batch
  BY <1>1 DEF Z!Batch
<1>3. 0 \in 0..MostTries /\ 0 \in 0..MostPosts
  BY BoundsAssumption
<1>. QED BY <1>1, <1>2, <1>3 DEF Z!NoCall, TypedSending

LEMMA EventStartsTyped == Z!Init => EventTyped
BY EventInit, NoSendingTyped DEF EventTyped, Z!Init

LEMMA EventStaysTyped == EventTyped /\ [Z!Next]_eventVars => EventTyped'
<1>. SUFFICES ASSUME EventTyped, [Z!Next]_eventVars PROVE EventTyped'
  OBVIOUS
<1>. DEFINE Typed == /\ eventCall \in [Connector -> TypedSending]
                     /\ eventAcked \subseteq Connector \X Event
<1>1. Typed /\ EventInv /\ EventInv'
  BY EventNext DEF EventTyped
<1>. SUFFICES Typed'
  BY <1>1 DEF EventTyped, TypedSending, Z!Batch
<1>2. MostTries \in Nat \ {0} /\ MostPosts \in Nat
  BY BoundsAssumption
<1>3. ASSUME NEW c \in Connector, Z!Stops(c) PROVE eventCall' \in [Connector -> TypedSending]
  <2>1. eventCall[c].posts \in 0..MostPosts
    BY <1>1 DEF TypedSending
  <2>2. [Z!NoCall EXCEPT !.posts = eventCall[c].posts] \in TypedSending
    BY <2>1, NoSendingTyped DEF TypedSending
  <2>. QED BY <1>1, <1>3, <2>2 DEF Z!Stops
<1>4. ASSUME NEW c \in Connector, NEW b \in Z!Batch, Z!RecordEvents(c, b) PROVE Typed'
  <2>. DEFINE k == [pc |-> "sent", batch |-> b, tries |-> 1, posts |-> eventCall[c].posts + 1]
  <2>1. eventCall[c].posts \in 0..MostPosts /\ eventCall[c].posts < MostPosts
    BY <1>1, <1>4 DEF TypedSending, Z!RecordEvents
  <2>2. eventCall[c].posts + 1 \in 0..MostPosts /\ 1 \in 0..MostTries
    BY <1>2, <2>1
  <2>3. k \in TypedSending
    BY <2>2 DEF TypedSending
  <2>4. eventCall' = [eventCall EXCEPT ![c] = k] /\ eventAcked' = eventAcked
    BY <1>4 DEF Z!RecordEvents
  <2>. HIDE DEF k
  <2>. QED BY <1>1, <2>3, <2>4
<1>5. ASSUME NEW c \in Connector, Z!SendAgain(c) PROVE Typed'
  <2>. DEFINE k == [eventCall[c] EXCEPT !.tries = eventCall[c].tries + 1]
  <2>1. eventCall[c].tries \in 0..MostTries /\ eventCall[c].tries < MostTries
    BY <1>1, <1>5 DEF TypedSending, Z!SendAgain
  <2>2. eventCall[c].tries + 1 \in 0..MostTries
    BY <1>2, <2>1
  <2>3. k \in TypedSending
    BY <1>1, <2>2 DEF TypedSending
  <2>4. eventCall' = [eventCall EXCEPT ![c] = k] /\ eventAcked' = eventAcked
    BY <1>1, <1>5 DEF Z!SendAgain
  <2>. HIDE DEF k
  <2>. QED BY <1>1, <2>3, <2>4
<1>6. ASSUME NEW c \in Connector, Z!GiveUp(c) PROVE Typed'
  BY <1>1, <1>3, <1>6 DEF Z!GiveUp
<1>7. ASSUME NEW q \in eventWire PROVE q.by \in Connector /\ DOMAIN q.batch \subseteq Event
  BY <1>1, <1>7 DEF EventInv, EventShape, Z!Batch
<1>8. ASSUME NEW q \in eventWire, NEW ids, Z!Persist(q, ids) PROVE Typed'
  BY <1>1, <1>3, <1>7, <1>8 DEF Z!Persist, Z!Answered
<1>9. ASSUME NEW q \in eventWire, Z!Refuse(q) PROVE Typed'
  BY <1>1, <1>3, <1>7, <1>9 DEF Z!Refuse, Z!Answered
<1>10. ASSUME NEW e, Z!ListConnectorEvents \/ Z!ReadPage(e) \/ Z!LosePage PROVE Typed'
  BY <1>1, <1>10 DEF Z!ListConnectorEvents, Z!ReadPage, Z!LosePage
<1>11. CASE UNCHANGED eventVars
  BY <1>1, <1>11 DEF eventVars
<1>. QED BY <1>4, <1>5, <1>6, <1>8, <1>9, <1>10, <1>11 DEF Z!Next

LEMMA EventTypes == EventTyped => Z!TypeOK
<1>1. EventShape => eventCursor \in Event \union {Nobody}
  BY DEF EventShape, Z!Own, Z!Recorded
<1>. QED BY <1>1 DEF EventTyped, EventInv, EventShape, TypedSending, Z!TypeOK

(* A room's history. *)
HistoryTyped == HistoryInv /\ historyNow \in 1..MostTime /\ historyLate \subseteq Message

LEMMA HistoryStartsTyped == F!Init => HistoryTyped
<1>. SUFFICES ASSUME F!Init PROVE HistoryTyped
  OBVIOUS
<1>1. 1 \in 1..MostTime
  BY ReadersAssumption, BoundsAssumption
<1>. QED BY <1>1, HistoryInit DEF HistoryTyped, F!Init

LEMMA HistoryStaysTyped == HistoryTyped /\ [F!Next]_historyVars => HistoryTyped'
<1>. SUFFICES ASSUME HistoryTyped, [F!Next]_historyVars
              PROVE  historyNow' \in 1..MostTime /\ historyLate' \subseteq Message
  BY HistoryNext DEF HistoryTyped
<1>1. historyNow \in 1..MostTime /\ historyLate \subseteq Message /\ MostTime \in Nat
  BY ReadersAssumption DEF HistoryTyped
<1>2. CASE F!Tick
  BY <1>1, <1>2 DEF F!Tick
<1>3. ASSUME NEW m \in Message, NEW t \in 1..MostTime, F!CreateMessage(m, t)
      PROVE  historyNow' \in 1..MostTime /\ historyLate' \subseteq Message
  BY <1>1, <1>3 DEF F!CreateMessage
<1>4. CASE F!RoomDetail \/ F!ShowPage \/ F!LosePage \/ UNCHANGED historyVars
  BY <1>1, <1>4 DEF F!RoomDetail, F!ShowPage, F!LosePage, historyVars
<1>. QED BY <1>2, <1>3, <1>4 DEF F!Next

LEMMA HistoryTypes == HistoryTyped => F!TypeOK
BY DEF HistoryTyped, HistoryInv, HistoryShape, F!TypeOK, F!Newest

=============================================================================
