------------------------------ MODULE Answers ------------------------------
(***************************************************************************)
(* Answers that the language model may write: the three procedures of the  *)
(* teaching agents, their discussion, the insights, and the talk with an   *)
(* NPC in the dialog of the world.  A piece of an answer is the model's or  *)
(* the rules'; what it says is left out.                                   *)
(***************************************************************************)
EXTENDS Naturals, Sequences, FiniteSets

CONSTANTS
  Call,
  Npc,
  MostMessages,  \* bound: what the student says in one dialog
  MostOpenings   \* bound: NPCs clicked

VARIABLES
  key,       \* ARK_API_KEY, for the life of the process; "unread" before
  call,
  said,      \* what each call has written: <<step, "model" or "rules">>
  dialog,
  crossed,   \* another NPC was clicked while an answer was under way
  opened

vars == <<key, call, said, dialog, crossed, opened>>

----------------------------------------------------------------------------
(* The steps of an answer: each with the earlier ones its prompt quotes.    *)
SubmissionReview == <<{}, {1}, {1, 2}>>
StudentQuestion  == <<{}, {1}, {1, 2}>>
QuestCompletion  == <<{}, {1}, {1, 2}>>

Procedure ==
  [review |-> SubmissionReview, question |-> StudentQuestion,
   quest |-> QuestCompletion]

(* Up to three agents hear those before them, and a summary hears all.      *)
Discussion == <<{}, {1}, {1, 2}, {1, 2, 3}>>

StudentInsight == <<{}>>
ClassInsight   == <<{}>>
Insights == {"student", "class"}

(* The memories an NPC's prompt quotes are data; a failed look-up is none.  *)
NpcTalk == <<{}>>

Kind == DOMAIN Procedure \union {"discussion", "npc"} \union Insights

Steps(kind) ==
  CASE kind \in DOMAIN Procedure -> Procedure[kind]
    [] kind = "discussion" -> Discussion
    [] kind = "student" -> StudentInsight
    [] kind = "class" -> ClassInsight
    [] kind = "npc" -> NpcTalk

NoNpc == "nobody"
Greeting == 0

Idle == [at |-> "idle", kind |-> "npc", npc |-> NoNpc, to |-> Greeting,
         step |-> 1, used |-> FALSE, degraded |-> FALSE, here |-> FALSE]

Closed == [npc |-> NoNpc, loading |-> FALSE, history |-> <<>>, sent |-> 0]

Line == [by : Npc \union {"student"}, to : 0..MostMessages]

TypeOK ==
  /\ key \in {"set", "none", "unread"}
  /\ call \in
       [Call -> [at : {"idle", "asked", "writing", "answered", "failed"},
                 kind : Kind, npc : Npc \union {NoNpc}, to : 0..MostMessages,
                 step : 1..5, used : BOOLEAN, degraded : BOOLEAN,
                 here : BOOLEAN]]
  /\ \A c \in Call : said[c] \in Seq((1..4) \X {"model", "rules"})
  /\ dialog.npc \in Npc \union {NoNpc} /\ dialog.loading \in BOOLEAN
  /\ dialog.history \in Seq(Line) /\ dialog.sent \in 0..MostMessages
  /\ crossed \in BOOLEAN /\ opened \in 0..MostOpenings

Init ==
  /\ key = "unread"
  /\ call = [c \in Call |-> Idle] /\ said = [c \in Call |-> <<>>]
  /\ dialog = Closed /\ crossed = FALSE /\ opened = 0

StartApi(k) ==
  /\ key = "unread" /\ key' = k
  /\ UNCHANGED <<call, said, dialog, crossed, opened>>

----------------------------------------------------------------------------
Asks(c, kind, npc, to) ==
  /\ key # "unread" /\ call[c].at = "idle"
  /\ call' = [call EXCEPT ![c] =
       [Idle EXCEPT !.at = "asked", !.kind = kind, !.npc = npc, !.to = to,
                    !.here = TRUE]]
  /\ said' = [said EXCEPT ![c] = <<>>]

(* A panel waits for its answer, and nothing outlives that.                 *)
AskPanel(c, kind) ==
  /\ dialog = Closed /\ \A d \in Call : call[d].at = "idle"
  /\ opened < MostOpenings /\ opened' = opened + 1
  /\ Asks(c, kind, NoNpc, Greeting) /\ UNCHANGED <<key, dialog, crossed>>

SopPanel(c) == AskPanel(c, "question")
InsightPanel(c) == AskPanel(c, "student")
ClassInsightPanel(c) == AskPanel(c, "class")
OtherClient(c) == \E kind \in {"review", "quest", "discussion"} : AskPanel(c, kind)

UnderWay == \E c \in Call : call[c].at # "idle" /\ call[c].here

(* A click on an NPC: the dialog opens, or the open one changes hands.      *)
OpenDialog(c, n) ==
  /\ opened < MostOpenings /\ dialog.npc # n
  /\ Asks(c, "npc", n, Greeting)
  /\ opened' = opened + 1 /\ crossed' = (crossed \/ UnderWay)
  /\ dialog' = [dialog EXCEPT !.npc = n, !.loading = TRUE, !.sent = 0]
  /\ UNCHANGED key

(* The mutant: a message may be sent before the last one is answered.       *)
MaySendAlways == TRUE

MaySend == ~dialog.loading

Send(c) ==
  /\ dialog.npc # NoNpc /\ dialog.sent < MostMessages /\ MaySend
  /\ Asks(c, "npc", dialog.npc, dialog.sent + 1)
  /\ dialog' =
       [dialog EXCEPT !.loading = TRUE, !.sent = @ + 1,
         !.history = Append(@, [by |-> "student", to |-> dialog.sent + 1])]
  /\ UNCHANGED <<key, crossed, opened>>

(* Nobody waits for the answer: what it would have answered is no matter.   *)
Unheard(k) == [k EXCEPT !.here = FALSE, !.npc = NoNpc, !.to = Greeting]

(* Unmounted, the dialog hears no answer any more; the API goes on.         *)
CloseDialog ==
  /\ dialog.npc # NoNpc /\ dialog' = Closed /\ crossed' = FALSE
  /\ call' = [c \in Call |-> Unheard(call[c])]
  /\ UNCHANGED <<key, said, opened>>

----------------------------------------------------------------------------
(* The API: not everybody may ask, and the reads may fail.                  *)
Refuse(c) ==
  /\ call[c].at = "asked" /\ call' = [call EXCEPT ![c].at = "failed"]
  /\ UNCHANGED <<key, said, dialog, crossed, opened>>

(* A review of a submission that does not exist is an answer with no steps. *)
NoSubmission(c) ==
  /\ call[c].at = "asked" /\ call[c].kind = "review"
  /\ call' = [call EXCEPT ![c].at = "answered", ![c].degraded = TRUE]
  /\ UNCHANGED <<key, said, dialog, crossed, opened>>

(* What the prompt is about is read.                                        *)
Collect(c) ==
  /\ call[c].at = "asked" /\ call' = [call EXCEPT ![c].at = "writing"]
  /\ UNCHANGED <<key, said, dialog, crossed, opened>>

Left(c) == call[c].at = "writing" /\ call[c].step <= Len(Steps(call[c].kind))

Writes(c, by, used) ==
  /\ Left(c)
  /\ said' = [said EXCEPT ![c] = Append(@, <<call[c].step, by>>)]
  /\ call' = [call EXCEPT ![c].step = @ + 1, ![c].used = used]
  /\ UNCHANGED <<key, dialog, crossed, opened>>

ByRules(c) == key = "none" /\ Writes(c, "rules", FALSE)
ByModel(c) == key = "set" /\ Writes(c, "model", TRUE)

(* chat throws or says nothing (or, to an NPC, the fallback's own words);   *)
(* what earlier steps had of the model stays.                               *)
ModelFails(c) == key = "set" /\ Writes(c, "rules", call[c].used)

(* The model's insight is no JSON: the rules write it, and llmUsed is set.  *)
NoJson(c) ==
  key = "set" /\ call[c].kind \in Insights /\ Writes(c, "rules", TRUE)

Answer(c) ==
  /\ call[c].at = "writing" /\ ~Left(c)
  /\ call' = [call EXCEPT ![c].at = "answered",
                          ![c].degraded = (key = "none")]
  /\ UNCHANGED <<key, said, dialog, crossed, opened>>

----------------------------------------------------------------------------
(* The answer, or the client's fallback for one that failed or took longer  *)
(* than five seconds.  A greeting starts the history anew, a reply goes on  *)
(* with it, and either says that nothing is loading.                        *)
Hear(c) ==
  LET line == [by |-> call[c].npc, to |-> call[c].to] IN
  IF call[c].kind = "npc" /\ call[c].here
  THEN dialog' = [dialog EXCEPT !.loading = FALSE,
         !.history = IF call[c].to = Greeting THEN <<line>> ELSE Append(@, line)]
  ELSE UNCHANGED dialog

Land(c) ==
  /\ call[c].at \in {"answered", "failed"} /\ Hear(c)
  /\ call' = [call EXCEPT ![c] = Idle] /\ said' = [said EXCEPT ![c] = <<>>]
  /\ UNCHANGED <<key, crossed, opened>>

GiveUp(c) ==
  /\ call[c].at \in {"asked", "writing"} /\ call[c].here /\ Hear(c)
  /\ call' = [call EXCEPT ![c] = Unheard(@)]
  /\ UNCHANGED <<key, said, crossed, opened>>

Next ==
  \/ \E k \in {"set", "none"} : StartApi(k)
  \/ CloseDialog
  \/ \E c \in Call :
       \/ Send(c) \/ Refuse(c) \/ NoSubmission(c) \/ Collect(c)
       \/ ByRules(c) \/ ByModel(c) \/ ModelFails(c) \/ NoJson(c)
       \/ Answer(c) \/ Land(c) \/ GiveUp(c)
       \/ SopPanel(c) \/ InsightPanel(c) \/ ClassInsightPanel(c)
       \/ OtherClient(c)
       \/ \E n \in Npc : OpenDialog(c, n)

Spec == Init /\ [][Next]_vars

----------------------------------------------------------------------------
ByTheModel(c) == \E i \in 1..Len(said[c]) : said[c][i][2] = "model"

(* A procedure or an NPC's answer has llmUsed set exactly if the model wrote*)
(* a step.  An insight never hides the model's part, but has it set too for *)
(* what the rules wrote in its place, when the answer was no JSON; a        *)
(* discussion has no label.                                                 *)
LabelIsTrue ==
  \A c \in Call : call[c].at = "answered" /\ call[c].kind # "discussion" =>
    /\ ByTheModel(c) => call[c].used /\ ~call[c].degraded
    /\ call[c].used /\ call[c].kind \notin Insights => ByTheModel(c)

(* Whoever writes a step, the next prompts find it where they quote it.     *)
QuotesExist ==
  \A c \in Call : Left(c) =>
    \A k \in Steps(call[c].kind)[call[c].step] :
      k <= Len(said[c]) /\ said[c][k][1] = k

Greets ==
  \E c \in Call : call[c].at # "idle" /\ call[c].here /\ call[c].to = Greeting

(* A dialog in which no other NPC was clicked over a pending answer shows,  *)
(* once greeted, its own NPC alone: a greeting, then question and reply in  *)
(* turn, however answers are late, fail or outlive the dialog that asked.   *)
RepliesFollow ==
  dialog.npc # NoNpc /\ ~crossed /\ ~Greets =>
    /\ dialog.history # <<>>
    /\ \A i \in DOMAIN dialog.history :
         dialog.history[i] =
           [by |-> IF i % 2 = 1 THEN dialog.npc ELSE "student",
            to |-> i \div 2]
    /\ dialog.loading = (Len(dialog.history) % 2 = 0)

(* Labels, quotations and dialogs: what the answers of ARK and of the rules *)
(* promise to whoever reads them.                                           *)
AnswersHold == LabelIsTrue /\ QuotesExist /\ RepliesFollow

=============================================================================
