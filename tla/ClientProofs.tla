----------------------------- MODULE ClientProofs -----------------------------
(***************************************************************************)
(* Proofs about what a client shows: the answers of the language model and *)
(* of the rules, in a dialog with any number of messages and requests, and *)
(* the page of the agent team.                                             *)
(***************************************************************************)
EXTENDS Course, SequenceTheorems, TLAPS

----------------------------------------------------------------------------
(* Answers.  Whoever writes a step, what has been written is the steps     *)
(* before; a dialog in which nobody crossed a pending answer has one       *)
(* request of its own at most, which asks what was said last.              *)

Piece == (1..4) \X {"model", "rules"}

AnswerCall ==
  [at : {"idle", "asked", "writing", "answered", "failed"}, kind : Q!Kind,
   npc : Npc \union {Q!NoNpc}, to : 0..MostMessages, step : 1..5, used : BOOLEAN,
   degraded : BOOLEAN, here : BOOLEAN]

AnswerShape ==
  /\ answerKey \in {"set", "none", "unread"}
  /\ answerCall \in [Client -> AnswerCall] /\ answerSaid \in [Client -> Seq(Piece)]
  /\ answerDialog \in [npc : Npc \union {Q!NoNpc}, loading : BOOLEAN, history : Seq(Q!Line),
                       sent : 0..MostMessages]
  /\ answerCrossed \in BOOLEAN /\ answerOpened \in 0..MostOpenings

(* What a call has written, and who wrote it. *)
CallWrites(k, said) ==
  /\ k.at \in {"idle", "asked"} => said = <<>> /\ ~k.used
  /\ k.at = "idle" => ~k.here
  /\ k.at \in {"asked", "writing"} => k.step = Len(said) + 1
  /\ \A i \in 1..Len(said) : said[i][1] = i
  /\ answerKey = "unread" => k.at = "idle"
  /\ (\E i \in 1..Len(said) : said[i][2] = "model") => k.used /\ answerKey = "set"
  /\ k.used /\ k.kind \notin Q!Insights => \E i \in 1..Len(said) : said[i][2] = "model"
  /\ k.at = "answered" /\ k.degraded => answerKey = "none" \/ said = <<>>
  /\ k.here /\ k.kind = "npc" => k.npc \in Npc

WritingHolds == \A c \in Client : CallWrites(answerCall[c], answerSaid[c])

(* A greeting, and question and reply in turn. *)
Follows(history, n, npc) ==
  /\ Len(history) = n
  /\ \A i \in 1..n : history[i] = [by |-> IF i % 2 = 1 THEN npc ELSE "student", to |-> i \div 2]

DialogHolds ==
  answerDialog.npc # Q!NoNpc /\ ~answerCrossed =>
    /\ \A c \in Client : answerCall[c].here =>
         /\ answerCall[c].kind = "npc" /\ answerCall[c].npc = answerDialog.npc
         /\ answerDialog.loading /\ answerCall[c].to = answerDialog.sent
    /\ \A c, d \in Client : answerCall[c].here /\ answerCall[d].here => c = d
    /\ answerDialog.loading => \E c \in Client : answerCall[c].here
    /\ answerDialog.loading /\ answerDialog.sent > 0 =>
         Follows(answerDialog.history, 2 * answerDialog.sent, answerDialog.npc)
    /\ ~answerDialog.loading =>
         Follows(answerDialog.history, 2 * answerDialog.sent + 1, answerDialog.npc)

AnswerInv == AnswerShape /\ WritingHolds /\ DialogHolds

LEMMA StepsAre ==
  ASSUME NEW kind \in Q!Kind
  PROVE  Q!Steps(kind) \in {<<{}, {1}, {1, 2}>>, <<{}, {1}, {1, 2}, {1, 2, 3}>>, <<{}>>}
<1>1. DOMAIN Q!Procedure = {"review", "question", "quest"}
  BY DEF Q!Procedure
<1>2. CASE kind \in DOMAIN Q!Procedure
  <2>1. Q!Steps(kind) = Q!Procedure[kind]
    BY <1>1, <1>2 DEF Q!Steps
  <2>2. \A k \in {"review", "question", "quest"} : Q!Procedure[k] = <<{}, {1}, {1, 2}>>
    BY DEF Q!Procedure, Q!SubmissionReview, Q!StudentQuestion, Q!QuestCompletion
  <2>. QED BY <1>1, <1>2, <2>1, <2>2
<1>3. CASE kind \in {"discussion", "npc", "student", "class"}
  BY <1>1, <1>3 DEF Q!Steps, Q!Discussion, Q!StudentInsight, Q!ClassInsight, Q!NpcTalk
<1>. QED BY <1>2, <1>3 DEF Q!Kind, Q!Insights

LEMMA StepsQuoteWritten ==
  ASSUME NEW kind \in Q!Kind, NEW n \in Nat \ {0}, n <= Len(Q!Steps(kind))
  PROVE  n \in 1..4 /\ \A k \in Q!Steps(kind)[n] : k \in 1..(n - 1)
<1>1. CASE Q!Steps(kind) = <<{}, {1}, {1, 2}>>
  <2>1. n \in {1, 2, 3}
    BY <1>1
  <2>. QED BY <1>1, <2>1
<1>2. CASE Q!Steps(kind) = <<{}, {1}, {1, 2}, {1, 2, 3}>>
  <2>1. n \in {1, 2, 3, 4}
    BY <1>2
  <2>. QED BY <1>2, <2>1
<1>3. CASE Q!Steps(kind) = <<{}>>
  <2>1. n = 1
    BY <1>3
  <2>. QED BY <1>3, <2>1
<1>. QED BY <1>1, <1>2, <1>3, StepsAre

LEMMA AnswerInit == Q!Init => AnswerInv
<1>1. Q!Idle \in AnswerCall
  BY CourseAssumption DEF Q!Idle, AnswerCall, Q!Greeting, Q!Kind
<1>2. Q!Init => AnswerShape
  <2>. SUFFICES ASSUME Q!Init PROVE AnswerShape
    OBVIOUS
  <2>1. <<>> \in Seq(Piece) /\ <<>> \in Seq(Q!Line) /\ 0 \in 0..MostMessages /\ 0 \in 0..MostOpenings
    BY CourseAssumption
  <2>2. answerCall \in [Client -> AnswerCall]
    BY <1>1 DEF Q!Init
  <2>3. answerSaid \in [Client -> Seq(Piece)]
    BY <2>1 DEF Q!Init
  <2>4. answerDialog \in [npc : Npc \union {Q!NoNpc}, loading : BOOLEAN, history : Seq(Q!Line), sent : 0..MostMessages]
    BY <2>1 DEF Q!Init, Q!Closed
  <2>. QED BY <2>1, <2>2, <2>3, <2>4 DEF Q!Init, AnswerShape
<1>3. Q!Init => WritingHolds
  BY DEF Q!Init, WritingHolds, CallWrites, Q!Idle
<1>4. Q!Init => DialogHolds
  BY DEF Q!Init, DialogHolds, Q!Closed
<1>. QED BY <1>2, <1>3, <1>4 DEF AnswerInv

LEMMA AnswersSay == AnswerInv => Q!AnswersHold
<1>. SUFFICES ASSUME AnswerInv PROVE Q!AnswersHold
  OBVIOUS
<1>1. Q!LabelIsTrue
  BY DEF AnswerInv, WritingHolds, CallWrites, Q!LabelIsTrue, Q!ByTheModel
<1>2. Q!QuotesExist
  <2>. SUFFICES ASSUME NEW c \in Client, Q!Left(c), NEW k \in Q!Steps(answerCall[c].kind)[answerCall[c].step]
                PROVE  k <= Len(answerSaid[c]) /\ answerSaid[c][k][1] = k
    BY DEF Q!QuotesExist
  <2>1. /\ answerCall[c].kind \in Q!Kind /\ answerCall[c].step \in 1..5
        /\ answerCall[c].at = "writing" /\ answerCall[c].step <= Len(Q!Steps(answerCall[c].kind))
    BY DEF AnswerInv, AnswerShape, AnswerCall, Q!Left
  <2>2. Len(answerSaid[c]) \in Nat /\ answerCall[c].step = Len(answerSaid[c]) + 1
    BY <2>1, LenProperties DEF AnswerInv, AnswerShape, WritingHolds, CallWrites
  <2>3. answerCall[c].step \in Nat \ {0}
    BY <2>1
  <2>4. k \in 1..(answerCall[c].step - 1)
    BY <2>1, <2>3, StepsQuoteWritten
  <2>. QED BY <2>2, <2>4 DEF AnswerInv, WritingHolds, CallWrites
<1>3. Q!RepliesFollow
  <2>. SUFFICES ASSUME answerDialog.npc # Q!NoNpc, ~answerCrossed, ~Q!Greets
                PROVE  /\ answerDialog.history # <<>>
                       /\ \A i \in DOMAIN answerDialog.history : answerDialog.history[i] =
                            [by |-> IF i % 2 = 1 THEN answerDialog.npc ELSE "student", to |-> i \div 2]
                       /\ answerDialog.loading = (Len(answerDialog.history) % 2 = 0)
    BY DEF Q!RepliesFollow
  <2>1. /\ answerDialog.history \in Seq(Q!Line) /\ answerDialog.sent \in Nat /\ answerDialog.loading \in BOOLEAN
    BY CourseAssumption DEF AnswerInv, AnswerShape
  <2>2. DOMAIN answerDialog.history = 1..Len(answerDialog.history) /\ (answerDialog.history = <<>> => Len(answerDialog.history) = 0)
    BY <2>1, LenProperties, EmptySeq
  <2>3. CASE answerDialog.loading
    <3>1. answerDialog.sent > 0
      BY <2>1, <2>3 DEF AnswerInv, DialogHolds, WritingHolds, CallWrites, Q!Greets, Q!Greeting
    <3>2. Follows(answerDialog.history, 2 * answerDialog.sent, answerDialog.npc)
      BY <2>3, <3>1 DEF AnswerInv, DialogHolds
    <3>3. (2 * answerDialog.sent) % 2 = 0
      BY <2>1
    <3>4. Len(answerDialog.history) = 2 * answerDialog.sent /\ answerDialog.history # <<>>
      BY <2>1, <2>2, <3>1, <3>2 DEF Follows
    <3>. QED BY <2>1, <2>2, <2>3, <3>2, <3>3, <3>4 DEF Follows
  <2>4. CASE ~answerDialog.loading
    <3>1. Follows(answerDialog.history, 2 * answerDialog.sent + 1, answerDialog.npc)
      BY <2>4 DEF AnswerInv, DialogHolds
    <3>2. (2 * answerDialog.sent + 1) % 2 = 1
      BY <2>1
    <3>. QED BY <2>1, <2>2, <2>4, <3>1, <3>2 DEF Follows
  <2>. QED BY <2>3, <2>4
<1>. QED BY <1>1, <1>2, <1>3 DEF Q!AnswersHold

(* A step of one call, nobody hearing of it. *)
CallStep(c, k, said) ==
  /\ answerCall' = [answerCall EXCEPT ![c] = k] /\ answerSaid' = [answerSaid EXCEPT ![c] = said]
  /\ UNCHANGED <<answerKey, answerDialog, answerCrossed, answerOpened>>

LEMMA CallSteps ==
  ASSUME AnswerInv, NEW c \in Client, NEW k \in AnswerCall, NEW said \in Seq(Piece), CallStep(c, k, said),
         CallWrites(k, said), k.here = answerCall[c].here, k.kind = answerCall[c].kind,
         k.npc = answerCall[c].npc, k.to = answerCall[c].to
  PROVE  AnswerInv'
<1>. USE DEF AnswerInv, CallStep
<1>1. AnswerShape'
  BY DEF AnswerShape
<1>2. \A d \in Client : /\ answerCall'[d] = IF d = c THEN k ELSE answerCall[d]
                        /\ answerSaid'[d] = IF d = c THEN said ELSE answerSaid[d]
  BY DEF AnswerShape
<1>3. WritingHolds'
  BY <1>2 DEF WritingHolds, CallWrites
<1>4. \A d \in Client : /\ answerCall'[d].here = answerCall[d].here /\ answerCall'[d].kind = answerCall[d].kind
                        /\ answerCall'[d].npc = answerCall[d].npc /\ answerCall'[d].to = answerCall[d].to
  BY <1>2
<1>5. DialogHolds'
  BY <1>4 DEF DialogHolds
<1>. QED BY <1>1, <1>3, <1>5

LEMMA CallFields ==
  ASSUME AnswerInv, NEW c \in Client
  PROVE  /\ answerCall[c] \in AnswerCall /\ answerSaid[c] \in Seq(Piece) /\ CallWrites(answerCall[c], answerSaid[c])
         /\ Len(answerSaid[c]) \in Nat
BY LenProperties DEF AnswerInv, AnswerShape, WritingHolds

(* Refuse and Collect. *)
LEMMA CallMovesOn ==
  ASSUME AnswerInv, NEW c \in Client, Q!Refuse(c) \/ Q!Collect(c)
  PROVE  AnswerInv'
<1>1. PICK at \in {"failed", "writing"} :
         /\ answerCall[c].at = "asked" /\ answerCall' = [answerCall EXCEPT ![c].at = at]
         /\ UNCHANGED <<answerKey, answerSaid, answerDialog, answerCrossed, answerOpened>>
  BY DEF Q!Refuse, Q!Collect
<1>. DEFINE k == [answerCall[c] EXCEPT !.at = at]
<1>2. /\ k \in AnswerCall /\ k.at = at /\ k.here = answerCall[c].here /\ k.kind = answerCall[c].kind
      /\ k.npc = answerCall[c].npc /\ k.to = answerCall[c].to /\ k.used = answerCall[c].used
      /\ k.step = answerCall[c].step
  BY CallFields DEF AnswerCall
<1>3. CallStep(c, k, answerSaid[c])
  BY <1>1 DEF CallStep, AnswerInv, AnswerShape
<1>. HIDE DEF k
<1>4. CallWrites(k, answerSaid[c])
  BY <1>1, <1>2, CallFields DEF CallWrites
<1>. QED BY <1>2, <1>3, <1>4, CallFields, CallSteps

LEMMA CallHasNoSubmission ==
  ASSUME AnswerInv, NEW c \in Client, Q!NoSubmission(c)
  PROVE  AnswerInv'
<1>. DEFINE x == [answerCall[c] EXCEPT !.at = "answered"]
            k == [x EXCEPT !.degraded = TRUE]
<1>1. /\ answerCall[c].at = "asked" /\ answerCall' = [answerCall EXCEPT ![c] = k]
      /\ UNCHANGED <<answerKey, answerSaid, answerDialog, answerCrossed, answerOpened>>
  BY DEF Q!NoSubmission, AnswerInv, AnswerShape
<1>2. /\ x \in AnswerCall /\ x.at = "answered" /\ x.here = answerCall[c].here /\ x.kind = answerCall[c].kind
      /\ x.npc = answerCall[c].npc /\ x.to = answerCall[c].to /\ x.used = answerCall[c].used
  BY CallFields DEF AnswerCall
<1>. HIDE DEF x
<1>3. /\ k \in AnswerCall /\ k.at = "answered" /\ k.here = answerCall[c].here /\ k.kind = answerCall[c].kind
      /\ k.npc = answerCall[c].npc /\ k.to = answerCall[c].to /\ k.used = answerCall[c].used
  BY <1>2 DEF AnswerCall
<1>4. CallStep(c, k, answerSaid[c])
  BY <1>1 DEF CallStep, AnswerInv, AnswerShape
<1>. HIDE DEF k
<1>5. CallWrites(k, answerSaid[c])
  BY <1>1, <1>3, CallFields DEF CallWrites
<1>. QED BY <1>3, <1>4, <1>5, CallFields, CallSteps

(* ByRules, ByModel, ModelFails and NoJson. *)
LEMMA CallWritesStep ==
  ASSUME AnswerInv, NEW c \in Client, Q!ByRules(c) \/ Q!ByModel(c) \/ Q!ModelFails(c) \/ Q!NoJson(c)
  PROVE  AnswerInv'
<1>1. PICK by \in {"model", "rules"}, used \in BOOLEAN :
         /\ Q!Writes(c, by, used) /\ answerKey # "unread"
         /\ by = "model" => used /\ answerKey = "set"
         /\ by = "rules" /\ answerKey = "set" => used = answerCall[c].used \/ (used /\ answerCall[c].kind \in Q!Insights)
         /\ answerKey = "none" => ~used
  BY CallFields DEF Q!ByRules, Q!ByModel, Q!ModelFails, Q!NoJson, AnswerCall
<1>. DEFINE x == [answerCall[c] EXCEPT !.step = answerCall[c].step + 1]
            k == [x EXCEPT !.used = used]
            e == <<answerCall[c].step, by>>
            said == Append(answerSaid[c], e)
<1>2. /\ answerCall[c].at = "writing" /\ answerCall[c].step <= Len(Q!Steps(answerCall[c].kind))
      /\ answerSaid' = [answerSaid EXCEPT ![c] = said] /\ answerCall' = [answerCall EXCEPT ![c] = k]
      /\ UNCHANGED <<answerKey, answerDialog, answerCrossed, answerOpened>>
  BY <1>1 DEF Q!Writes, Q!Left, AnswerInv, AnswerShape
<1>3. answerCall[c].step \in 1..4 /\ answerCall[c].step + 1 \in 1..5 /\ answerCall[c].step = Len(answerSaid[c]) + 1
  <2>1. answerCall[c].kind \in Q!Kind /\ answerCall[c].step \in Nat \ {0}
    BY CallFields DEF AnswerCall
  <2>2. answerCall[c].step \in 1..4
    BY <1>2, <2>1, StepsQuoteWritten
  <2>. QED BY <1>2, <2>2, CallFields DEF CallWrites
<1>4. /\ x \in AnswerCall /\ x.at = "writing" /\ x.step = answerCall[c].step + 1 /\ x.here = answerCall[c].here
      /\ x.kind = answerCall[c].kind /\ x.npc = answerCall[c].npc /\ x.to = answerCall[c].to
  BY <1>2, <1>3, CallFields DEF AnswerCall
<1>. HIDE DEF x
<1>5. /\ k \in AnswerCall /\ k.at = "writing" /\ k.step = answerCall[c].step + 1 /\ k.here = answerCall[c].here
      /\ k.kind = answerCall[c].kind /\ k.npc = answerCall[c].npc /\ k.to = answerCall[c].to /\ k.used = used
  BY <1>4 DEF AnswerCall
<1>. HIDE DEF k
<1>6. e \in Piece /\ e[1] = Len(answerSaid[c]) + 1 /\ e[2] = by
  BY <1>3 DEF Piece
<1>. HIDE DEF e
<1>7. /\ said \in Seq(Piece) /\ Len(said) = Len(answerSaid[c]) + 1 /\ said[Len(answerSaid[c]) + 1] = e
      /\ \A i \in 1..Len(answerSaid[c]) : said[i] = answerSaid[c][i]
  BY <1>6, CallFields, AppendProperties
<1>8. \A i \in 1..Len(said) : i \in 1..Len(answerSaid[c]) \/ i = Len(answerSaid[c]) + 1
  BY <1>7, CallFields
<1>9. CallStep(c, k, said)
  BY <1>2 DEF CallStep
<1>. HIDE DEF said
<1>10. Len(answerSaid[c]) + 1 \in 1..Len(said) /\ \A i \in 1..Len(answerSaid[c]) : i \in 1..Len(said)
  BY <1>7, CallFields
<1>11. CallWrites(k, said)
  <2>1. \A i \in 1..Len(said) : said[i][1] = i
    BY <1>2, <1>6, <1>7, <1>8, CallFields DEF CallWrites
  <2>2. (\E i \in 1..Len(said) : said[i][2] = "model") => used /\ answerKey = "set"
    <3>. SUFFICES ASSUME NEW i \in 1..Len(said), said[i][2] = "model" PROVE used /\ answerKey = "set"
      OBVIOUS
    <3>1. CASE i \in 1..Len(answerSaid[c])
      <4>1. answerSaid[c][i][2] = "model"
        BY <1>7, <3>1
      <4>2. answerCall[c].used /\ answerKey = "set"
        BY <3>1, <4>1, CallFields DEF CallWrites
      <4>. QED BY <1>1, <4>2
    <3>2. CASE i = Len(answerSaid[c]) + 1
      BY <1>1, <1>6, <1>7, <3>2
    <3>. QED BY <1>8, <3>1, <3>2
  <2>3. used /\ answerCall[c].kind \notin Q!Insights => \E i \in 1..Len(said) : said[i][2] = "model"
    <3>. SUFFICES ASSUME used, answerCall[c].kind \notin Q!Insights PROVE \E i \in 1..Len(said) : said[i][2] = "model"
      OBVIOUS
    <3>1. CASE by = "model"
      BY <1>6, <1>7, <1>10, <3>1
    <3>2. CASE by = "rules"
      <4>0. answerKey = "set"
        BY <1>1 DEF AnswerInv, AnswerShape
      <4>1. answerCall[c].used
        BY <1>1, <3>2, <4>0
      <4>2. PICK i \in 1..Len(answerSaid[c]) : answerSaid[c][i][2] = "model"
        BY <4>1, CallFields DEF CallWrites
      <4>. QED BY <1>7, <1>10, <4>2
    <3>. QED BY <3>1, <3>2
  <2>. QED BY <1>1, <1>2, <1>3, <1>5, <1>7, <2>1, <2>2, <2>3, CallFields DEF CallWrites
<1>. QED BY <1>5, <1>7, <1>9, <1>11, CallSteps

LEMMA CallAnswers ==
  ASSUME AnswerInv, NEW c \in Client, Q!Answer(c)
  PROVE  AnswerInv'
<1>. DEFINE x == [answerCall[c] EXCEPT !.at = "answered"]
            b == answerKey = "none"
            k == [x EXCEPT !.degraded = b]
<1>1. /\ answerCall[c].at = "writing" /\ answerCall' = [answerCall EXCEPT ![c] = k]
      /\ UNCHANGED <<answerKey, answerSaid, answerDialog, answerCrossed, answerOpened>>
  BY DEF Q!Answer, AnswerInv, AnswerShape
<1>2. /\ x \in AnswerCall /\ x.at = "answered" /\ x.here = answerCall[c].here /\ x.kind = answerCall[c].kind
      /\ x.npc = answerCall[c].npc /\ x.to = answerCall[c].to /\ x.used = answerCall[c].used
  BY CallFields DEF AnswerCall
<1>3. b \in BOOLEAN
  OBVIOUS
<1>. HIDE DEF x, b
<1>4. /\ k \in AnswerCall /\ k.at = "answered" /\ k.here = answerCall[c].here /\ k.kind = answerCall[c].kind
      /\ k.npc = answerCall[c].npc /\ k.to = answerCall[c].to /\ k.used = answerCall[c].used /\ k.degraded = b
  BY <1>2, <1>3 DEF AnswerCall
<1>5. CallStep(c, k, answerSaid[c])
  BY <1>1 DEF CallStep, AnswerInv, AnswerShape
<1>. HIDE DEF k
<1>6. CallWrites(k, answerSaid[c])
  BY <1>1, <1>4, CallFields DEF CallWrites, b
<1>. QED BY <1>4, <1>5, <1>6, CallFields, CallSteps

LEMMA KeyIsRead ==
  ASSUME AnswerInv, NEW k \in {"set", "none"}, Q!StartApi(k)
  PROVE  AnswerInv'
<1>. USE DEF AnswerInv, Q!StartApi
<1>1. AnswerShape'
  BY DEF AnswerShape
<1>2. WritingHolds'
  <2>. SUFFICES ASSUME NEW c \in Client PROVE CallWrites(answerCall[c], answerSaid[c])'
    BY DEF WritingHolds
  <2>1. answerCall[c].at = "idle" /\ answerSaid[c] = <<>> /\ CallWrites(answerCall[c], answerSaid[c])
    BY DEF WritingHolds, CallWrites
  <2>2. Len(answerSaid[c]) = 0
    BY <2>1, EmptySeq
  <2>. QED BY <2>1, <2>2 DEF CallWrites
<1>3. DialogHolds'
  BY DEF DialogHolds
<1>. QED BY <1>1, <1>2, <1>3

AskedCall(kind, npc, to) ==
  [Q!Idle EXCEPT !.at = "asked", !.kind = kind, !.npc = npc, !.to = to, !.here = TRUE]

LEMMA AskedIs ==
  ASSUME NEW kind \in Q!Kind, NEW npc \in Npc \union {Q!NoNpc}, NEW to \in 0..MostMessages
  PROVE  /\ AskedCall(kind, npc, to) \in AnswerCall /\ AskedCall(kind, npc, to).at = "asked"
         /\ AskedCall(kind, npc, to).kind = kind /\ AskedCall(kind, npc, to).npc = npc
         /\ AskedCall(kind, npc, to).to = to /\ AskedCall(kind, npc, to).here
         /\ AskedCall(kind, npc, to).step = 1 /\ ~AskedCall(kind, npc, to).used
<1>. DEFINE v == [Q!Idle EXCEPT !.at = "asked"]
            w == [v EXCEPT !.kind = kind]
            x == [w EXCEPT !.npc = npc]
            y == [x EXCEPT !.to = to]
            z == [y EXCEPT !.here = TRUE]
<1>1. Q!Idle \in AnswerCall /\ Q!Idle.step = 1 /\ ~Q!Idle.used
  BY CourseAssumption DEF Q!Idle, AnswerCall, Q!Greeting, Q!Kind
<1>2. v \in AnswerCall /\ v.step = 1 /\ ~v.used /\ v.at = "asked"
  BY <1>1 DEF AnswerCall
<1>3. w \in AnswerCall /\ w.step = 1 /\ ~w.used /\ w.at = "asked" /\ w.kind = kind
  BY <1>2 DEF AnswerCall
<1>4. x \in AnswerCall /\ x.step = 1 /\ ~x.used /\ x.at = "asked" /\ x.kind = kind /\ x.npc = npc
  BY <1>3 DEF AnswerCall
<1>5. y \in AnswerCall /\ y.step = 1 /\ ~y.used /\ y.at = "asked" /\ y.kind = kind /\ y.npc = npc /\ y.to = to
  BY <1>4 DEF AnswerCall
<1>6. /\ z \in AnswerCall /\ z.step = 1 /\ ~z.used /\ z.at = "asked" /\ z.kind = kind /\ z.npc = npc /\ z.to = to
      /\ z.here
  BY <1>5 DEF AnswerCall
<1>7. AskedCall(kind, npc, to) = z
  BY DEF AskedCall
<1>. HIDE DEF z
<1>. QED BY <1>6, <1>7

LEMMA AskedWrites ==
  ASSUME AnswerInv, NEW c \in Client, NEW kind \in Q!Kind, NEW npc \in Npc \union {Q!NoNpc},
         NEW to \in 0..MostMessages, Q!Asks(c, kind, npc, to), UNCHANGED answerKey, kind = "npc" => npc \in Npc
  PROVE  /\ answerCall' \in [Client -> AnswerCall] /\ answerSaid' \in [Client -> Seq(Piece)] /\ WritingHolds'
         /\ ~answerCall[c].here /\ answerCall'[c].here
         /\ answerCall'[c].kind = kind /\ answerCall'[c].npc = npc /\ answerCall'[c].to = to
         /\ \A d \in Client \ {c} : answerCall'[d] = answerCall[d]
<1>1. PICK k \in AnswerCall :
         /\ k.at = "asked" /\ k.kind = kind /\ k.npc = npc /\ k.to = to /\ k.here /\ k.step = 1 /\ ~k.used
         /\ answerCall' = [answerCall EXCEPT ![c] = k]
  <2>. DEFINE k == AskedCall(kind, npc, to)
  <2>1. answerCall' = [answerCall EXCEPT ![c] = k]
    BY DEF Q!Asks, AskedCall
  <2>2. /\ k \in AnswerCall /\ k.at = "asked" /\ k.kind = kind /\ k.npc = npc /\ k.to = to
        /\ k.here /\ k.step = 1 /\ ~k.used
    BY AskedIs
  <2>. HIDE DEF k
  <2>. QED BY <2>1, <2>2
<1>2. /\ answerSaid' = [answerSaid EXCEPT ![c] = <<>>] /\ answerCall[c].at = "idle" /\ answerKey # "unread"
  BY DEF Q!Asks
<1>3. \A d \in Client : /\ answerCall'[d] = IF d = c THEN k ELSE answerCall[d]
                        /\ answerSaid'[d] = IF d = c THEN <<>> ELSE answerSaid[d]
  BY <1>1, <1>2 DEF AnswerInv, AnswerShape
<1>4. Len(<<>>) = 0 /\ <<>> \in Seq(Piece)
  BY EmptySeq
<1>5. CallWrites(k, <<>>)
  BY <1>1, <1>2, <1>4 DEF CallWrites
<1>6. WritingHolds'
  <2>. SUFFICES ASSUME NEW d \in Client PROVE CallWrites(answerCall[d], answerSaid[d])'
    BY DEF WritingHolds
  <2>1. CASE d = c
    BY <1>3, <1>5, <2>1 DEF CallWrites
  <2>2. CASE d # c
    <3>1. answerCall'[d] = answerCall[d] /\ answerSaid'[d] = answerSaid[d] /\ CallWrites(answerCall[d], answerSaid[d])
      BY <1>3, <2>2, CallFields
    <3>. QED BY <3>1 DEF CallWrites
  <2>. QED BY <2>1, <2>2
<1>7. ~answerCall[c].here
  BY <1>2, CallFields DEF CallWrites
<1>. QED BY <1>1, <1>2, <1>3, <1>4, <1>6, <1>7 DEF AnswerInv, AnswerShape

LEMMA PanelAsks ==
  ASSUME AnswerInv, NEW c \in Client, NEW kind \in Q!Kind \ {"npc"}, Q!AskPanel(c, kind)
  PROVE  AnswerInv'
<1>1. /\ Q!Asks(c, kind, Q!NoNpc, 0) /\ answerDialog = Q!Closed /\ answerOpened < MostOpenings
      /\ answerOpened' = answerOpened + 1 /\ UNCHANGED <<answerKey, answerDialog, answerCrossed>>
  BY DEF Q!AskPanel, Q!Greeting
<1>2. 0 \in 0..MostMessages
  BY CourseAssumption
<1>3. answerCall' \in [Client -> AnswerCall] /\ answerSaid' \in [Client -> Seq(Piece)] /\ WritingHolds'
  BY <1>1, <1>2, AskedWrites
<1>4. AnswerShape'
  BY <1>1, <1>3, CourseAssumption DEF AnswerInv, AnswerShape
<1>5. DialogHolds'
  BY <1>1 DEF DialogHolds, Q!Closed
<1>. QED BY <1>3, <1>4, <1>5 DEF AnswerInv

LEMMA DialogOpens ==
  ASSUME AnswerInv, NEW c \in Client, NEW n \in Npc, Q!OpenDialog(c, n)
  PROVE  AnswerInv'
<1>1. /\ Q!Asks(c, "npc", n, 0) /\ answerOpened < MostOpenings /\ answerOpened' = answerOpened + 1
      /\ answerCrossed' = (answerCrossed \/ Q!UnderWay) /\ UNCHANGED answerKey
      /\ answerDialog' = [answerDialog EXCEPT !.npc = n, !.loading = TRUE, !.sent = 0]
  BY DEF Q!OpenDialog, Q!Greeting
<1>2. 0 \in 0..MostMessages /\ "npc" \in Q!Kind
  BY CourseAssumption DEF Q!Kind
<1>3. /\ answerCall' \in [Client -> AnswerCall] /\ answerSaid' \in [Client -> Seq(Piece)] /\ WritingHolds'
      /\ answerCall'[c].here /\ answerCall'[c].kind = "npc" /\ answerCall'[c].npc = n /\ answerCall'[c].to = 0
      /\ \A d \in Client \ {c} : answerCall'[d] = answerCall[d]
  BY <1>1, <1>2, AskedWrites
<1>. DEFINE Dialog == [npc : Npc \union {Q!NoNpc}, loading : BOOLEAN, history : Seq(Q!Line), sent : 0..MostMessages]
            x == [answerDialog EXCEPT !.npc = n]
            y == [x EXCEPT !.loading = TRUE]
            z == [y EXCEPT !.sent = 0]
<1>4. x \in Dialog /\ x.npc = n
  BY DEF AnswerInv, AnswerShape
<1>5. y \in Dialog /\ y.npc = n /\ y.loading
  BY <1>4
<1>6. z \in Dialog /\ z.npc = n /\ z.loading /\ z.sent = 0
  BY <1>2, <1>5
<1>7. answerDialog' \in Dialog /\ answerDialog'.npc = n /\ answerDialog'.loading /\ answerDialog'.sent = 0
  <2>1. answerDialog' = z
    BY <1>1 DEF AnswerInv, AnswerShape
  <2>. HIDE DEF z
  <2>. QED BY <1>6, <2>1
<1>. HIDE DEF x, y, z
<1>8. AnswerShape'
  <2>1. answerCrossed' \in BOOLEAN
    BY <1>1 DEF Q!UnderWay
  <2>2. answerOpened' \in 0..MostOpenings
    <3>1. answerOpened \in 0..MostOpenings /\ answerOpened < MostOpenings
      BY <1>1 DEF AnswerInv, AnswerShape
    <3>2. answerOpened' = answerOpened + 1
      BY <1>1
    <3>. QED BY <3>1, <3>2, CourseAssumption
  <2>. QED BY <1>1, <1>3, <1>7, <2>1, <2>2 DEF AnswerInv, AnswerShape
<1>9. DialogHolds'
  <2>. SUFFICES ASSUME ~answerCrossed' PROVE DialogHolds'
    BY DEF DialogHolds
  <2>1. ASSUME NEW d \in Client PROVE ~answerCall[d].here
    <3>1. answerCall[d].at = "idle" \/ ~answerCall[d].here
      BY <1>1 DEF Q!UnderWay
    <3>. QED BY <3>1, CallFields DEF CallWrites
  <2>2. \A d \in Client : answerCall'[d].here => d = c
    BY <1>3, <2>1
  <2>3. ~ (answerDialog'.sent > 0)
    BY <1>7
  <2>. QED BY <1>3, <1>7, <2>2, <2>3 DEF DialogHolds
<1>. QED BY <1>3, <1>8, <1>9 DEF AnswerInv

LEMMA FollowsOn ==
  ASSUME NEW h \in Seq(Q!Line), NEW n \in Nat, NEW npc, Follows(h, n, npc), NEW line \in Q!Line,
         line = [by |-> IF (n + 1) % 2 = 1 THEN npc ELSE "student", to |-> (n + 1) \div 2]
  PROVE  Append(h, line) \in Seq(Q!Line) /\ Follows(Append(h, line), n + 1, npc)
<1>1. /\ Append(h, line) \in Seq(Q!Line) /\ Len(Append(h, line)) = n + 1 /\ Append(h, line)[n + 1] = line
      /\ \A i \in 1..n : Append(h, line)[i] = h[i]
  <2>1. Len(h) = n
    BY DEF Follows
  <2>. QED BY <2>1, AppendProperties
<1>2. \A i \in 1..(n + 1) : i \in 1..n \/ i = n + 1
  OBVIOUS
<1>. QED BY <1>1, <1>2 DEF Follows

LEMMA DialogSends ==
  ASSUME AnswerInv, NEW c \in Client, Q!Send(c)
  PROVE  AnswerInv'
<1>. DEFINE s == answerDialog.sent
            npc == answerDialog.npc
            line == [by |-> "student", to |-> s + 1]
            h == Append(answerDialog.history, line)
<1>1. /\ npc # Q!NoNpc /\ s < MostMessages /\ ~answerDialog.loading /\ Q!Asks(c, "npc", npc, s + 1)
      /\ answerDialog' = [answerDialog EXCEPT !.loading = TRUE, !.sent = s + 1, !.history = h]
      /\ UNCHANGED <<answerKey, answerCrossed, answerOpened>>
  BY DEF Q!Send, Q!MaySend, AnswerInv, AnswerShape
<1>2. /\ s \in Nat /\ s + 1 \in 0..MostMessages /\ "npc" \in Q!Kind /\ npc \in Npc
      /\ answerDialog.history \in Seq(Q!Line) /\ npc \in Npc \union {Q!NoNpc}
  <2>1. npc \in Npc \union {Q!NoNpc} /\ answerDialog.history \in Seq(Q!Line) /\ s \in 0..MostMessages
    BY DEF AnswerInv, AnswerShape
  <2>2. "npc" \in Q!Kind
    BY DEF Q!Kind
  <2>. HIDE DEF s, npc
  <2>3. s \in Nat /\ s + 1 \in 0..MostMessages
    BY <1>1, <2>1, CourseAssumption
  <2>. QED BY <1>1, <2>1, <2>2, <2>3
<1>3. /\ answerCall' \in [Client -> AnswerCall] /\ answerSaid' \in [Client -> Seq(Piece)] /\ WritingHolds'
      /\ answerCall'[c].here /\ answerCall'[c].kind = "npc" /\ answerCall'[c].npc = npc /\ answerCall'[c].to = s + 1
      /\ \A d \in Client \ {c} : answerCall'[d] = answerCall[d]
  BY <1>1, <1>2, AskedWrites
<1>4. line \in Q!Line /\ h \in Seq(Q!Line)
  BY <1>2, AppendProperties DEF Q!Line
<1>. DEFINE Dialog == [npc : Npc \union {Q!NoNpc}, loading : BOOLEAN, history : Seq(Q!Line), sent : 0..MostMessages]
            x == [answerDialog EXCEPT !.loading = TRUE]
            y == [x EXCEPT !.sent = s + 1]
            z == [y EXCEPT !.history = h]
<1>5. x \in Dialog /\ x.npc = npc /\ x.loading
  BY DEF AnswerInv, AnswerShape
<1>6. y \in Dialog /\ y.npc = npc /\ y.loading /\ y.sent = s + 1
  BY <1>2, <1>5
<1>. HIDE DEF h
<1>7. z \in Dialog /\ z.npc = npc /\ z.loading /\ z.sent = s + 1 /\ z.history = h
  BY <1>4, <1>6
<1>8. /\ answerDialog' \in Dialog /\ answerDialog'.npc = npc /\ answerDialog'.loading
      /\ answerDialog'.sent = s + 1 /\ answerDialog'.history = h
  <2>1. answerDialog' = z
    BY <1>1 DEF AnswerInv, AnswerShape
  <2>. HIDE DEF z
  <2>. QED BY <1>7, <2>1
<1>. HIDE DEF x, y, z
<1>9. AnswerShape'
  BY <1>1, <1>3, <1>8 DEF AnswerInv, AnswerShape
<1>10. DialogHolds'
  <2>. SUFFICES ASSUME ~answerCrossed' PROVE DialogHolds'
    BY DEF DialogHolds
  <2>1. \A d \in Client : ~answerCall[d].here
    BY <1>1 DEF AnswerInv, DialogHolds
  <2>2. Follows(answerDialog.history, 2 * s + 1, npc)
    BY <1>1 DEF AnswerInv, DialogHolds
  <2>3. line = [by |-> IF (2 * s + 1 + 1) % 2 = 1 THEN npc ELSE "student", to |-> (2 * s + 1 + 1) \div 2]
    <3>1. (2 * s + 1 + 1) % 2 = 0 /\ (2 * s + 1 + 1) \div 2 = s + 1
      BY <1>2
    <3>. QED BY <3>1
  <2>4. Follows(h, 2 * s + 1 + 1, npc)
    <3>. HIDE DEF line, s, npc
    <3>1. 2 * s + 1 \in Nat
      BY <1>2
    <3>. QED BY <1>2, <1>4, <2>2, <2>3, <3>1, FollowsOn DEF h
  <2>5. 2 * s + 1 + 1 = 2 * (s + 1)
    BY <1>2
  <2>6. Follows(answerDialog'.history, 2 * answerDialog'.sent, answerDialog'.npc)
    BY <1>8, <2>4, <2>5
  <2>. QED BY <1>3, <1>8, <2>1, <2>6 DEF DialogHolds
<1>. QED BY <1>3, <1>9, <1>10 DEF AnswerInv

LEMMA UnheardIs ==
  ASSUME NEW k \in AnswerCall
  PROVE  /\ Q!Unheard(k) \in AnswerCall /\ ~Q!Unheard(k).here
         /\ \A said : CallWrites(k, said) => CallWrites(Q!Unheard(k), said)
<1>. DEFINE x == [k EXCEPT !.here = FALSE]
            y == [x EXCEPT !.npc = Q!NoNpc]
            z == [y EXCEPT !.to = 0]
<1>1. /\ x \in AnswerCall /\ ~x.here /\ x.at = k.at /\ x.kind = k.kind /\ x.step = k.step /\ x.used = k.used
      /\ x.degraded = k.degraded
  BY DEF AnswerCall
<1>2. /\ y \in AnswerCall /\ ~y.here /\ y.at = k.at /\ y.kind = k.kind /\ y.step = k.step /\ y.used = k.used
      /\ y.degraded = k.degraded
  BY <1>1 DEF AnswerCall
<1>3. /\ z \in AnswerCall /\ ~z.here /\ z.at = k.at /\ z.kind = k.kind /\ z.step = k.step /\ z.used = k.used
      /\ z.degraded = k.degraded
  <2>1. 0 \in 0..MostMessages
    BY CourseAssumption
  <2>. HIDE DEF y
  <2>. QED BY <1>2, <2>1 DEF AnswerCall
<1>4. Q!Unheard(k) = z
  BY DEF Q!Unheard, Q!Greeting, AnswerCall
<1>. HIDE DEF z
<1>. QED BY <1>3, <1>4 DEF CallWrites

LEMMA DialogCloses ==
  ASSUME AnswerInv, Q!CloseDialog
  PROVE  AnswerInv'
<1>1. /\ answerDialog' = Q!Closed /\ answerCrossed' = FALSE
      /\ answerCall' = [c \in Client |-> Q!Unheard(answerCall[c])]
      /\ UNCHANGED <<answerKey, answerSaid, answerOpened>>
  BY DEF Q!CloseDialog
<1>2. \A c \in Client : Q!Unheard(answerCall[c]) \in AnswerCall /\ CallWrites(Q!Unheard(answerCall[c]), answerSaid[c])
  BY CallFields, UnheardIs
<1>3. WritingHolds'
  BY <1>1, <1>2 DEF WritingHolds, CallWrites
<1>4. 0 \in 0..MostMessages /\ <<>> \in Seq(Q!Line)
  BY CourseAssumption
<1>5. answerDialog' \in [npc : Npc \union {Q!NoNpc}, loading : BOOLEAN, history : Seq(Q!Line), sent : 0..MostMessages]
  BY <1>1, <1>4 DEF Q!Closed
<1>6. AnswerShape'
  BY <1>1, <1>2, <1>5 DEF AnswerInv, AnswerShape
<1>7. DialogHolds'
  BY <1>1 DEF DialogHolds, Q!Closed
<1>. QED BY <1>3, <1>6, <1>7 DEF AnswerInv

LEMMA Halves ==
  ASSUME NEW n \in Nat
  PROVE  (2 * n + 1) % 2 = 1 /\ (2 * n + 1) \div 2 = n
OBVIOUS

(* An answer, a failure or the client's own fallback reaches the dialog. *)
LEMMA DialogHears ==
  ASSUME AnswerInv, NEW c \in Client, Q!Hear(c), NEW k \in AnswerCall, ~k.here, answerCall[c].at # "idle",
         answerCall' = [answerCall EXCEPT ![c] = k], UNCHANGED answerCrossed
  PROVE  /\ answerDialog' \in [npc : Npc \union {Q!NoNpc}, loading : BOOLEAN, history : Seq(Q!Line), sent : 0..MostMessages]
         /\ DialogHolds'
<1>. DEFINE Dialog == [npc : Npc \union {Q!NoNpc}, loading : BOOLEAN, history : Seq(Q!Line), sent : 0..MostMessages]
<1>0. answerDialog \in Dialog /\ answerCall[c] \in AnswerCall
  BY CallFields DEF AnswerInv, AnswerShape
<1>1. \A d \in Client : answerCall'[d] = IF d = c THEN k ELSE answerCall[d]
  BY DEF AnswerInv, AnswerShape
<1>2. CASE ~ (answerCall[c].kind = "npc" /\ answerCall[c].here)
  <2>1. answerDialog' = answerDialog
    BY <1>2 DEF Q!Hear
  <2>2. DialogHolds'
    <3>. SUFFICES ASSUME answerDialog.npc # Q!NoNpc, ~answerCrossed PROVE DialogHolds'
      BY <2>1 DEF DialogHolds
    <3>1. ~answerCall[c].here
      BY <1>2 DEF AnswerInv, DialogHolds
    <3>2. \A d \in Client : /\ answerCall'[d].here <=> answerCall[d].here
                            /\ answerCall'[d].here => answerCall'[d] = answerCall[d]
      BY <1>1, <3>1
    <3>. QED BY <2>1, <3>2 DEF AnswerInv, DialogHolds
  <2>. QED BY <1>0, <2>1, <2>2
<1>3. CASE answerCall[c].kind = "npc" /\ answerCall[c].here
  <2>. DEFINE line == [by |-> answerCall[c].npc, to |-> answerCall[c].to]
              h == IF answerCall[c].to = 0 THEN <<line>> ELSE Append(answerDialog.history, line)
              x == [answerDialog EXCEPT !.loading = FALSE]
              z == [x EXCEPT !.history = h]
  <2>1. answerDialog' = [answerDialog EXCEPT !.loading = FALSE, !.history = h]
    BY <1>3 DEF Q!Hear, Q!Greeting, AnswerInv, AnswerShape
  <2>2. answerCall[c].npc \in Npc /\ answerCall[c].to \in 0..MostMessages
    BY <1>0, <1>3, CallFields DEF CallWrites, AnswerCall
  <2>3. line \in Q!Line
    BY <2>2 DEF Q!Line
  <2>4. h \in Seq(Q!Line)
    <3>1. answerDialog.history \in Seq(Q!Line)
      BY <1>0
    <3>. HIDE DEF line
    <3>2. <<line>> \in Seq(Q!Line)
      BY <2>3
    <3>3. Append(answerDialog.history, line) \in Seq(Q!Line)
      BY <2>3, <3>1, AppendProperties
    <3>. QED BY <3>2, <3>3
  <2>. HIDE DEF h
  <2>5. x \in Dialog /\ x.npc = answerDialog.npc /\ ~x.loading /\ x.sent = answerDialog.sent
    BY <1>0
  <2>6. z \in Dialog /\ z.npc = answerDialog.npc /\ ~z.loading /\ z.sent = answerDialog.sent /\ z.history = h
    BY <2>4, <2>5
  <2>7. /\ answerDialog' \in Dialog /\ answerDialog'.npc = answerDialog.npc /\ ~answerDialog'.loading
        /\ answerDialog'.sent = answerDialog.sent /\ answerDialog'.history = h
    <3>1. answerDialog' = z
      BY <1>0, <2>1
    <3>. HIDE DEF z
    <3>. QED BY <2>6, <3>1
  <2>. HIDE DEF x, z
  <2>8. DialogHolds'
    <3>. SUFFICES ASSUME answerDialog.npc # Q!NoNpc, ~answerCrossed PROVE DialogHolds'
      BY <2>7 DEF DialogHolds
    <3>1. /\ answerCall[c].npc = answerDialog.npc /\ answerCall[c].to = answerDialog.sent /\ answerDialog.loading
          /\ \A d \in Client \ {c} : ~answerCall[d].here
      BY <1>3 DEF AnswerInv, DialogHolds
    <3>2. \A d \in Client : ~answerCall'[d].here
      BY <1>1, <3>1
    <3>3. answerDialog.sent \in Nat /\ answerDialog.history \in Seq(Q!Line)
      BY <1>0, CourseAssumption
    <3>4. Follows(h, 2 * answerDialog.sent + 1, answerDialog.npc)
      <4>1. (2 * answerDialog.sent + 1) % 2 = 1 /\ (2 * answerDialog.sent + 1) \div 2 = answerDialog.sent
        BY <3>3, Halves
      <4>2. line = [by |-> IF (2 * answerDialog.sent + 1) % 2 = 1 THEN answerDialog.npc ELSE "student",
                    to |-> (2 * answerDialog.sent + 1) \div 2]
        BY <3>1, <4>1
      <4>3. CASE answerDialog.sent = 0
        <5>1. h = <<line>>
          BY <3>1, <4>3 DEF h
        <5>. HIDE DEF line
        <5>2. Len(h) = 1 /\ h[1] = line
          BY <5>1
        <5>. QED BY <4>2, <4>3, <5>2 DEF Follows
      <4>4. CASE answerDialog.sent > 0
        <5>1. h = Append(answerDialog.history, line)
          BY <3>1, <4>4 DEF h
        <5>2. Follows(answerDialog.history, 2 * answerDialog.sent, answerDialog.npc) /\ 2 * answerDialog.sent \in Nat
          BY <3>1, <3>3, <4>4 DEF AnswerInv, DialogHolds
        <5>. HIDE DEF line
        <5>. QED BY <2>3, <3>3, <4>2, <5>1, <5>2, FollowsOn
      <4>. QED BY <3>3, <4>3, <4>4
    <3>. QED BY <2>7, <3>2, <3>4 DEF DialogHolds
  <2>. QED BY <2>7, <2>8
<1>. QED BY <1>2, <1>3

LEMMA CallLands ==
  ASSUME AnswerInv, NEW c \in Client, Q!Land(c)
  PROVE  AnswerInv'
<1>1. /\ Q!Hear(c) /\ answerCall[c].at # "idle" /\ answerCall' = [answerCall EXCEPT ![c] = Q!Idle]
      /\ answerSaid' = [answerSaid EXCEPT ![c] = <<>>] /\ UNCHANGED <<answerKey, answerCrossed, answerOpened>>
  BY DEF Q!Land
<1>2. Q!Idle \in AnswerCall /\ ~Q!Idle.here
  BY CourseAssumption DEF Q!Idle, AnswerCall, Q!Greeting, Q!Kind
<1>3. /\ answerDialog' \in [npc : Npc \union {Q!NoNpc}, loading : BOOLEAN, history : Seq(Q!Line), sent : 0..MostMessages]
      /\ DialogHolds'
  BY <1>1, <1>2, DialogHears
<1>4. <<>> \in Seq(Piece) /\ Len(<<>>) = 0
  BY EmptySeq
<1>5. AnswerShape'
  BY <1>1, <1>2, <1>3, <1>4 DEF AnswerInv, AnswerShape
<1>6. CallWrites(Q!Idle, <<>>)
  BY <1>4 DEF CallWrites, Q!Idle
<1>7. WritingHolds'
  <2>. SUFFICES ASSUME NEW d \in Client PROVE CallWrites(answerCall[d], answerSaid[d])'
    BY DEF WritingHolds
  <2>1. /\ answerCall'[d] = IF d = c THEN Q!Idle ELSE answerCall[d]
        /\ answerSaid'[d] = IF d = c THEN <<>> ELSE answerSaid[d]
    BY <1>1 DEF AnswerInv, AnswerShape
  <2>2. CASE d = c
    BY <1>1, <1>6, <2>1, <2>2 DEF CallWrites
  <2>3. CASE d # c
    BY <1>1, <2>1, <2>3, CallFields DEF CallWrites
  <2>. QED BY <2>2, <2>3
<1>. QED BY <1>3, <1>5, <1>7 DEF AnswerInv

LEMMA CallIsGivenUp ==
  ASSUME AnswerInv, NEW c \in Client, Q!GiveUp(c)
  PROVE  AnswerInv'
<1>. DEFINE k == Q!Unheard(answerCall[c])
<1>1. /\ Q!Hear(c) /\ answerCall[c].at # "idle" /\ answerCall' = [answerCall EXCEPT ![c] = k]
      /\ UNCHANGED <<answerKey, answerSaid, answerCrossed, answerOpened>>
  BY DEF Q!GiveUp, AnswerInv, AnswerShape
<1>2. k \in AnswerCall /\ ~k.here /\ CallWrites(k, answerSaid[c])
  BY CallFields, UnheardIs
<1>. HIDE DEF k
<1>3. /\ answerDialog' \in [npc : Npc \union {Q!NoNpc}, loading : BOOLEAN, history : Seq(Q!Line), sent : 0..MostMessages]
      /\ DialogHolds'
  BY <1>1, <1>2, DialogHears
<1>4. AnswerShape'
  BY <1>1, <1>2, <1>3 DEF AnswerInv, AnswerShape
<1>5. WritingHolds'
  <2>. SUFFICES ASSUME NEW d \in Client PROVE CallWrites(answerCall[d], answerSaid[d])'
    BY DEF WritingHolds
  <2>1. answerCall'[d] = IF d = c THEN k ELSE answerCall[d]
    BY <1>1 DEF AnswerInv, AnswerShape
  <2>2. CASE d = c
    BY <1>1, <1>2, <2>1, <2>2 DEF CallWrites
  <2>3. CASE d # c
    BY <1>1, <2>1, <2>3, CallFields DEF CallWrites
  <2>. QED BY <2>2, <2>3
<1>. QED BY <1>3, <1>4, <1>5 DEF AnswerInv

LEMMA AnswerStep ==
  ASSUME AnswerInv, [Q!Next]_Q!vars
  PROVE  AnswerInv'
<1>1. CASE UNCHANGED Q!vars
  BY <1>1 DEF Q!vars, AnswerInv, AnswerShape, WritingHolds, CallWrites, DialogHolds
<1>2. ASSUME NEW c \in Client, Q!SopPanel(c) \/ Q!InsightPanel(c) \/ Q!ClassInsightPanel(c) \/ Q!OtherClient(c)
      PROVE  AnswerInv'
  <2>1. {"question", "student", "class", "review", "quest", "discussion"} \subseteq Q!Kind \ {"npc"}
    BY DEF Q!Kind, Q!Insights, Q!Procedure
  <2>. QED BY <1>2, <2>1, PanelAsks DEF Q!SopPanel, Q!InsightPanel, Q!ClassInsightPanel, Q!OtherClient
<1>3. ASSUME NEW c \in Client, \/ Q!Refuse(c) \/ Q!NoSubmission(c) \/ Q!Collect(c) \/ Q!ByRules(c) \/ Q!ByModel(c)
                               \/ Q!ModelFails(c) \/ Q!NoJson(c) \/ Q!Answer(c)
      PROVE  AnswerInv'
  BY <1>3, CallMovesOn, CallHasNoSubmission, CallWritesStep, CallAnswers
<1>4. ASSUME NEW c \in Client, Q!Send(c) \/ Q!Land(c) \/ Q!GiveUp(c) \/ \E n \in Npc : Q!OpenDialog(c, n)
      PROVE  AnswerInv'
  BY <1>4, DialogSends, CallLands, CallIsGivenUp, DialogOpens
<1>. QED BY <1>1, <1>2, <1>3, <1>4, KeyIsRead, DialogCloses DEF Q!Next

(* An answer is labelled with the model exactly if the model wrote of it,   *)
(* quotes what is written, and a dialog in which nobody crossed a pending   *)
(* answer shows question and reply in turn, for any number of requests and  *)
(* messages (agent-procedures, insights, npc-dialog).                       *)
THEOREM AnswersAreTrue == CourseSpec => []AnswersHold
<1>. DEFINE Inv == part = "answers" => AnswerInv
<1>1. CourseInit => Inv
  BY AnswerInit DEF CourseInit
<1>2. Inv /\ [CourseNext]_courseVars => Inv'
  <2>1. [CourseNext]_courseVars => UNCHANGED part /\ (part = "answers" => [Q!Next]_Q!vars)
    BY DEF CourseNext, courseVars, answerVars, Q!vars
  <2>. QED BY <2>1, AnswerStep
<1>3. Inv => AnswersHold
  BY AnswersSay DEF AnswersHold
<1>. QED BY <1>1, <1>2, <1>3, PTL DEF CourseSpec

----------------------------------------------------------------------------
(* The agent team.  The page knows the stored identity, or a request of its *)
(* own is still on the way.                                                 *)

TeamPc == {"idle", "sent", "read", "write", "done", "refused", "failed"}
TeamCall ==
  [pc : TeamPc, op : {"none", "set", "clear"}, role : Role \union {NoBinding},
   previous : Role \union {NoBinding}, waits : BOOLEAN, alone : BOOLEAN]

TeamShape ==
  /\ teamCall \in [Client -> TeamCall] /\ teamSelected \in Role \union {NoBinding}
  /\ teamBinding \in Role \union {NoBinding}
  /\ teamStale \in BOOLEAN /\ teamAway \in BOOLEAN /\ teamUnsure \in BOOLEAN /\ teamError \in BOOLEAN

(* Who does not wait is still being served, clearing is one write, and a    *)
(* second request leaves the page or the desk unsure.                       *)
RequestsHold ==
  /\ \A c \in Client :
       /\ teamCall[c].pc # "idle" => teamCall[c].op \in {"set", "clear"}
       /\ teamCall[c].pc # "idle" /\ ~teamCall[c].waits => teamCall[c].pc \in T!Underway
       /\ teamCall[c].op = "clear" => teamCall[c].pc \notin {"read", "write", "failed"}
  /\ \A c, d \in Client :
       teamCall[c].pc # "idle" /\ teamCall[d].pc # "idle" /\ (~teamStale \/ ~teamAway \/ teamCall[c].alone) =>
         c = d

(* What a page that is not stale shows beside its request. *)
ChoiceOf(k) ==
  /\ ~k.waits => teamError /\ teamUnsure
  /\ k.waits /\ k.op = "set" /\ k.pc \in {"sent", "refused"} =>
       teamSelected = k.role /\ (k.previous = teamBinding \/ teamUnsure)
  /\ k.waits /\ k.op = "set" /\ k.pc \in {"read", "write", "done"} =>
       teamSelected = k.role /\ teamBinding = k.role
  /\ k.waits /\ k.op = "clear" /\ k.pc \in {"sent", "refused"} => teamSelected = teamBinding \/ teamUnsure
  /\ k.waits /\ k.op = "clear" /\ k.pc = "done" => teamBinding = NoBinding

ChoiceHolds ==
  ~teamStale =>
    /\ \A c \in Client : teamCall[c].pc # "idle" => ChoiceOf(teamCall[c])
    /\ ~T!Busy => teamSelected = teamBinding \/ (teamError /\ teamUnsure)

AtDesk == teamBinding = NoBinding \/ teamDesk = Home[teamBinding]
Seating(k) == k.pc \in {"read", "write"}

(* The avatar is at its desk, or about to be set there. *)
DeskHolds ==
  /\ \A c \in Client : Seating(teamCall[c]) /\ (teamCall[c].alone \/ ~teamAway) =>
       teamBinding = teamCall[c].role
  /\ ~teamAway /\ (\A c \in Client : ~Seating(teamCall[c])) => AtDesk

TeamInv == TeamShape /\ RequestsHold /\ ChoiceHolds /\ DeskHolds

LEMMA TeamSays == TeamInv => T!TeamPanelHolds
  BY DEF TeamInv, ChoiceHolds, DeskHolds, T!TeamPanelHolds, T!Busy, Seating, AtDesk

LEMMA IdleIsCall ==
  T!Idle \in TeamCall /\ T!Idle.pc = "idle" /\ T!Idle.op = "none" /\ ~T!Idle.alone
  BY DEF T!Idle, TeamCall, TeamPc

LEMMA TeamInit == T!Init => TeamInv
<1>. SUFFICES ASSUME T!Init PROVE TeamInv
  OBVIOUS
<1>1. \A c \in Client : teamCall[c] = T!Idle
  BY DEF T!Init
<1>2. TeamShape
  BY IdleIsCall DEF T!Init, TeamShape
<1>. QED BY <1>1, <1>2, IdleIsCall DEF T!Init, TeamInv, RequestsHold, ChoiceHolds, DeskHolds, Seating, AtDesk, T!Busy

(* A handler goes on; what it was asked stays. *)
Same(k, l) == l.op = k.op /\ l.role = k.role /\ l.previous = k.previous /\ l.waits = k.waits /\ l.alone = k.alone

LEMMA GoesOn ==
  ASSUME TeamShape, NEW c \in Client, NEW pc \in TeamPc, T!Goes(c, pc)
  PROVE  /\ teamCall' \in [Client -> TeamCall]
         /\ \A d \in Client \ {c} : teamCall'[d] = teamCall[d]
         /\ IF pc \in {"done", "refused", "failed"} /\ ~teamCall[c].waits
            THEN teamCall'[c] = T!Idle
            ELSE teamCall'[c].pc = pc /\ Same(teamCall[c], teamCall'[c])
<1>. DEFINE k == IF pc \in {"done", "refused", "failed"} /\ ~teamCall[c].waits
                 THEN T!Idle ELSE [teamCall[c] EXCEPT !.pc = pc]
<1>1. teamCall[c] \in TeamCall /\ teamCall' = [teamCall EXCEPT ![c] = k]
  BY DEF T!Goes, TeamShape
<1>2. /\ k \in TeamCall
      /\ IF pc \in {"done", "refused", "failed"} /\ ~teamCall[c].waits
         THEN k = T!Idle ELSE k.pc = pc /\ Same(teamCall[c], k)
  <2>1. CASE pc \in {"done", "refused", "failed"} /\ ~teamCall[c].waits
    BY <2>1, IdleIsCall
  <2>2. CASE ~(pc \in {"done", "refused", "failed"} /\ ~teamCall[c].waits)
    BY <2>2, <1>1 DEF TeamCall, Same
  <2>. QED BY <2>1, <2>2
<1>. HIDE DEF k
<1>. QED BY <1>1, <1>2 DEF TeamShape

LEMMA TeamSetWrites == ASSUME TeamInv, NEW c \in Client, T!SetWrites(c) PROVE TeamInv'
<1>1. /\ teamCall[c].pc = "sent" /\ teamCall[c].op = "set" /\ teamBinding' = teamCall[c].role /\ T!Goes(c, "read")
      /\ UNCHANGED <<teamDesk, teamSelected, teamSaving, teamError, teamStale, teamUnsure, teamAway>>
  BY DEF T!SetWrites, T!panel
<1>2. /\ teamCall' \in [Client -> TeamCall] /\ \A d \in Client \ {c} : teamCall'[d] = teamCall[d]
      /\ teamCall'[c].pc = "read" /\ Same(teamCall[c], teamCall'[c])
  BY <1>1, GoesOn DEF TeamInv, TeamPc
<1>3. TeamShape'
  BY <1>1, <1>2 DEF TeamInv, TeamShape, TeamCall
<1>4. RequestsHold'
  BY <1>1, <1>2 DEF TeamInv, RequestsHold, Same, T!Underway
<1>5. ChoiceHolds'
  <2>. SUFFICES ASSUME ~teamStale PROVE ChoiceHolds'
    BY <1>1 DEF ChoiceHolds
  <2>1. \A d \in Client : teamCall'[d].pc # "idle" => d = c
    BY <1>1, <1>2 DEF TeamInv, RequestsHold
  <2>2. ChoiceOf(teamCall[c])
    BY <1>1 DEF TeamInv, ChoiceHolds
  <2>3. ChoiceOf(teamCall[c])'
    BY <1>1, <1>2, <2>2 DEF ChoiceOf, Same
  <2>. QED BY <1>2, <2>1, <2>3 DEF ChoiceHolds, T!Busy
<1>6. DeskHolds'
  <2>1. Seating(teamCall[c])'
    BY <1>2 DEF Seating
  <2>2. ASSUME NEW d \in Client, Seating(teamCall[d])', (teamCall[d].alone \/ ~teamAway)'
        PROVE  (teamBinding = teamCall[d].role)'
    <3>1. d = c
      BY <2>2, <1>1, <1>2 DEF TeamInv, RequestsHold, Seating
    <3>. QED BY <3>1, <1>1, <1>2 DEF Same
  <2>. QED BY <2>1, <2>2 DEF DeskHolds
<1>. QED BY <1>3, <1>4, <1>5, <1>6 DEF TeamInv

LEMMA TeamResets == ASSUME TeamInv, NEW c \in Client, T!ResetReads(c) \/ T!ResetWrites(c) PROVE TeamInv'
<1>1. /\ Seating(teamCall[c])
      /\ UNCHANGED <<teamBinding, teamSelected, teamSaving, teamError, teamStale, teamUnsure>>
  BY DEF T!ResetReads, T!ResetWrites, T!panel, T!server, Seating
<1>2. \/ T!Goes(c, "done") /\ teamDesk' = Home[teamCall[c].role] /\ teamAway' = (teamAway /\ ~teamCall[c].alone)
      \/ T!Goes(c, "write") /\ teamDesk' = teamDesk /\ teamAway' = teamAway
  BY DEF T!ResetReads, T!ResetWrites, T!panel, T!server
<1>3. /\ teamCall' \in [Client -> TeamCall] /\ \A d \in Client \ {c} : teamCall'[d] = teamCall[d]
      /\ \/ teamCall'[c].pc \in {"write", "done"} /\ Same(teamCall[c], teamCall'[c])
         \/ ~teamCall[c].waits /\ teamCall'[c] = T!Idle /\ ~T!Goes(c, "write")
  <2>1. CASE T!Goes(c, "write")
    BY <2>1, GoesOn DEF TeamInv, TeamPc
  <2>2. CASE T!Goes(c, "done") /\ ~T!Goes(c, "write")
    BY <2>2, GoesOn DEF TeamInv, TeamPc
  <2>. QED BY <2>1, <2>2, <1>2
<1>4. teamAway' \in BOOLEAN /\ (~teamAway' => ~teamAway \/ teamCall[c].alone)
  BY <1>2 DEF TeamInv, TeamShape
<1>5. TeamShape'
  BY <1>1, <1>3, <1>4 DEF TeamInv, TeamShape
<1>6. \A d, e \in Client : teamCall'[d].pc # "idle" => teamCall[d].pc # "idle" /\ (teamCall'[d].alone => teamCall[d].alone)
  BY <1>1, <1>3, IdleIsCall DEF Seating, Same
<1>7. RequestsHold'
  <2>1. \A d \in Client :
          /\ teamCall'[d].pc # "idle" => teamCall'[d].op \in {"set", "clear"}
          /\ teamCall'[d].pc # "idle" /\ ~teamCall'[d].waits => teamCall'[d].pc \in T!Underway
          /\ teamCall'[d].op = "clear" => teamCall'[d].pc \notin {"read", "write", "failed"}
    <3>. SUFFICES ASSUME NEW d \in Client
                  PROVE  /\ teamCall'[d].pc # "idle" => teamCall'[d].op \in {"set", "clear"}
                         /\ teamCall'[d].pc # "idle" /\ ~teamCall'[d].waits => teamCall'[d].pc \in T!Underway
                         /\ teamCall'[d].op = "clear" => teamCall'[d].pc \notin {"read", "write", "failed"}
      OBVIOUS
    <3>1. CASE d # c
      BY <3>1, <1>3 DEF TeamInv, RequestsHold
    <3>2. CASE d = c /\ teamCall'[c] = T!Idle
      BY <3>2, IdleIsCall
    <3>3. CASE d = c /\ T!Goes(c, "write")
      BY <3>3, <1>1, <1>3, GoesOn DEF TeamInv, RequestsHold, Same, Seating, T!Underway, TeamPc
    <3>4. CASE d = c /\ T!Goes(c, "done") /\ teamCall'[c] # T!Idle
      BY <3>4, <1>1, <1>3, GoesOn DEF TeamInv, RequestsHold, Same, Seating, TeamPc
    <3>. QED BY <3>1, <3>2, <3>3, <3>4, <1>2
  <2>2. \A d, e \in Client :
          teamCall'[d].pc # "idle" /\ teamCall'[e].pc # "idle" /\ (~teamStale' \/ ~teamAway' \/ teamCall'[d].alone) =>
            d = e
    <3>. SUFFICES ASSUME NEW d \in Client, NEW e \in Client, teamCall'[d].pc # "idle", teamCall'[e].pc # "idle",
                         ~teamStale' \/ ~teamAway' \/ teamCall'[d].alone
                  PROVE  d = e
      OBVIOUS
    <3>1. /\ teamCall[d].pc # "idle" /\ teamCall[e].pc # "idle" /\ (teamCall'[d].alone => teamCall[d].alone)
          /\ teamCall[c].pc # "idle"
      BY <1>1, <1>6 DEF Seating
    <3>2. \A x, y \in Client :
            teamCall[x].pc # "idle" /\ teamCall[y].pc # "idle" /\ (~teamStale \/ ~teamAway \/ teamCall[x].alone) =>
              x = y
      BY DEF TeamInv, RequestsHold
    <3>. QED BY <3>1, <3>2, <1>1, <1>4
  <2>. QED BY <2>1, <2>2 DEF RequestsHold
<1>8. ChoiceHolds'
  <2>. SUFFICES ASSUME ~teamStale PROVE ChoiceHolds'
    BY <1>1 DEF ChoiceHolds
  <2>1. \A d \in Client : teamCall'[d].pc # "idle" => d = c
    BY <1>1, <1>3, <1>6 DEF TeamInv, RequestsHold, Seating
  <2>2. ChoiceOf(teamCall[c]) /\ teamCall[c].op = "set"
    BY <1>1 DEF TeamInv, ChoiceHolds, RequestsHold, Seating
  <2>3. teamCall'[c] # T!Idle => ChoiceOf(teamCall[c])'
    BY <1>1, <1>3, <2>2 DEF ChoiceOf, Same, Seating
  <2>4. teamCall'[c] = T!Idle => teamError' /\ teamUnsure'
    BY <1>1, <1>3, <2>2, IdleIsCall DEF ChoiceOf, Same, Seating
  <2>. QED BY <1>1, <2>1, <2>3, <2>4, <1>3, IdleIsCall DEF ChoiceHolds, T!Busy
<1>9. DeskHolds'
  <2>1. teamCall[c].alone \/ ~teamAway => teamBinding = teamCall[c].role
    BY <1>1 DEF TeamInv, DeskHolds
  <2>2. \A d \in Client : Seating(teamCall'[d]) => Seating(teamCall[d]) /\ teamCall'[d].role = teamCall[d].role
                            /\ teamCall'[d].alone = teamCall[d].alone
    BY <1>1, <1>3, IdleIsCall DEF Seating, Same
  <2>3. ASSUME NEW d \in Client, Seating(teamCall'[d]), teamCall'[d].alone \/ ~teamAway'
        PROVE  teamBinding' = teamCall'[d].role
    <3>1. CASE d = c
      BY <3>1, <2>1, <2>2, <2>3, <1>1, <1>4
    <3>2. CASE d # c
      <4>1. teamCall[d].pc # "idle" /\ teamCall[c].pc # "idle" /\ (teamCall[d].alone \/ ~teamAway \/ teamCall[c].alone)
        BY <2>2, <2>3, <1>1, <1>4 DEF Seating
      <4>2. d = c
        BY <4>1 DEF TeamInv, RequestsHold
      <4>. QED BY <4>2, <3>2
    <3>. QED BY <3>1, <3>2
  <2>4. ASSUME ~teamAway', \A d \in Client : ~Seating(teamCall'[d]) PROVE AtDesk'
    <3>1. ~T!Goes(c, "write")
      BY <2>4, GoesOn DEF TeamInv, TeamPc, Seating
    <3>2. teamDesk' = Home[teamCall[c].role]
      BY <3>1, <1>2
    <3>. QED BY <3>2, <2>1, <2>4, <1>1, <1>4 DEF AtDesk
  <2>. QED BY <2>3, <2>4 DEF DeskHolds
<1>. QED BY <1>5, <1>7, <1>8, <1>9 DEF TeamInv

LEMMA TeamClearWrites == ASSUME TeamInv, NEW c \in Client, T!ClearWrites(c) PROVE TeamInv'
<1>1. /\ teamCall[c].pc = "sent" /\ teamCall[c].op = "clear" /\ teamBinding' = NoBinding /\ T!Goes(c, "done")
      /\ UNCHANGED <<teamDesk, teamSelected, teamSaving, teamError, teamStale, teamUnsure, teamAway>>
  BY DEF T!ClearWrites, T!panel
<1>2. /\ teamCall' \in [Client -> TeamCall] /\ \A d \in Client \ {c} : teamCall'[d] = teamCall[d]
      /\ \/ teamCall'[c].pc = "done" /\ Same(teamCall[c], teamCall'[c]) /\ teamCall[c].waits
         \/ ~teamCall[c].waits /\ teamCall'[c] = T!Idle
  BY <1>1, GoesOn DEF TeamInv, TeamPc
<1>3. TeamShape'
  BY <1>1, <1>2 DEF TeamInv, TeamShape
<1>4. RequestsHold'
  BY <1>1, <1>2, IdleIsCall DEF TeamInv, RequestsHold, Same
<1>5. ChoiceHolds'
  <2>. SUFFICES ASSUME ~teamStale PROVE ChoiceHolds'
    BY <1>1 DEF ChoiceHolds
  <2>1. \A d \in Client : teamCall'[d].pc # "idle" => d = c
    BY <1>1, <1>2 DEF TeamInv, RequestsHold
  <2>2. ChoiceOf(teamCall[c])
    BY <1>1 DEF TeamInv, ChoiceHolds
  <2>3. teamCall'[c] # T!Idle => teamCall'[c].pc # "idle" /\ ChoiceOf(teamCall[c])'
    BY <1>1, <1>2, <2>2 DEF ChoiceOf, Same
  <2>4. teamCall'[c] = T!Idle => teamError' /\ teamUnsure'
    BY <1>1, <1>2, <2>2, IdleIsCall DEF ChoiceOf, Same
  <2>. QED BY <1>2, <2>1, <2>3, <2>4, IdleIsCall DEF ChoiceHolds, T!Busy
<1>6. DeskHolds'
  <2>1. \A d \in Client : Seating(teamCall'[d]) => d # c /\ Seating(teamCall[d])
    BY <1>2, IdleIsCall DEF Seating
  <2>2. ASSUME NEW d \in Client, Seating(teamCall'[d]), teamCall'[d].alone \/ ~teamAway'
        PROVE  FALSE
    <3>1. teamCall[d].pc # "idle" /\ teamCall[c].pc # "idle" /\ (teamCall[d].alone \/ ~teamAway) /\ d # c
      BY <2>1, <2>2, <1>1, <1>2 DEF Seating
    <3>. QED BY <3>1 DEF TeamInv, RequestsHold
  <2>. QED BY <2>2, <1>1 DEF DeskHolds, AtDesk
<1>. QED BY <1>3, <1>4, <1>5, <1>6 DEF TeamInv

LEMMA TeamServerFails == ASSUME TeamInv, NEW c \in Client, T!ServerFails(c) PROVE TeamInv'
<1>1. /\ teamCall[c].pc \in T!Underway /\ teamAway' = (teamAway \/ teamCall[c].pc # "sent")
      /\ UNCHANGED <<teamBinding, teamDesk, teamSelected, teamSaving, teamError, teamStale, teamUnsure>>
      /\ T!Goes(c, IF teamCall[c].pc = "sent" THEN "refused" ELSE "failed")
  BY DEF T!ServerFails, T!panel, T!server
<1>2. /\ teamCall' \in [Client -> TeamCall] /\ \A d \in Client \ {c} : teamCall'[d] = teamCall[d]
      /\ \/ /\ teamCall'[c].pc = (IF teamCall[c].pc = "sent" THEN "refused" ELSE "failed")
            /\ Same(teamCall[c], teamCall'[c]) /\ teamCall[c].waits
         \/ ~teamCall[c].waits /\ teamCall'[c] = T!Idle
  <2>1. CASE teamCall[c].pc = "sent"
    BY <2>1, <1>1, GoesOn DEF TeamInv, TeamPc
  <2>2. CASE teamCall[c].pc # "sent"
    BY <2>2, <1>1, GoesOn DEF TeamInv, TeamPc
  <2>. QED BY <2>1, <2>2
<1>3. TeamShape'
  <2>1. teamAway' \in BOOLEAN
    BY <1>1
  <2>. QED BY <1>1, <1>2, <2>1 DEF TeamInv, TeamShape
<1>4. teamCall[c].op = "clear" => teamCall[c].pc = "sent"
  BY <1>1 DEF TeamInv, RequestsHold, T!Underway
<1>5. RequestsHold'
  <2>1. \A d \in Client :
          /\ teamCall'[d].pc # "idle" => teamCall'[d].op \in {"set", "clear"}
          /\ teamCall'[d].pc # "idle" /\ ~teamCall'[d].waits => teamCall'[d].pc \in T!Underway
          /\ teamCall'[d].op = "clear" => teamCall'[d].pc \notin {"read", "write", "failed"}
    BY <1>1, <1>2, <1>4, IdleIsCall DEF TeamInv, RequestsHold, Same, T!Underway
  <2>2. \A d \in Client : (teamCall'[d].pc # "idle" => teamCall[d].pc # "idle" /\ teamCall'[d].alone = teamCall[d].alone)
    BY <1>1, <1>2, IdleIsCall DEF Same, T!Underway
  <2>3. ~teamAway' => ~teamAway
    BY <1>1
  <2>. QED BY <2>1, <2>2, <2>3, <1>1 DEF TeamInv, RequestsHold
<1>6. ChoiceHolds'
  <2>. SUFFICES ASSUME ~teamStale PROVE ChoiceHolds'
    BY <1>1 DEF ChoiceHolds
  <2>1. \A d \in Client : teamCall'[d].pc # "idle" => d = c
    BY <1>1, <1>2 DEF TeamInv, RequestsHold, T!Underway
  <2>2. ChoiceOf(teamCall[c])
    BY <1>1 DEF TeamInv, ChoiceHolds, T!Underway
  <2>3. teamCall'[c] # T!Idle => teamCall'[c].pc # "idle" /\ ChoiceOf(teamCall[c])'
    BY <1>1, <1>2, <1>4, <2>2 DEF ChoiceOf, Same
  <2>4. teamCall'[c] = T!Idle => teamError' /\ teamUnsure'
    BY <1>1, <1>2, <2>2, IdleIsCall DEF ChoiceOf, Same
  <2>. QED BY <1>2, <2>1, <2>3, <2>4, IdleIsCall DEF ChoiceHolds, T!Busy
<1>7. DeskHolds'
  <2>1. \A d \in Client : Seating(teamCall'[d]) => d # c /\ teamCall'[d] = teamCall[d]
    BY <1>2, IdleIsCall DEF Seating
  <2>2. ASSUME NEW d \in Client, Seating(teamCall'[d]), teamCall'[d].alone \/ ~teamAway'
        PROVE  teamBinding' = teamCall'[d].role
    BY <2>1, <2>2, <1>1 DEF TeamInv, DeskHolds
  <2>3. ASSUME ~teamAway', \A d \in Client : ~Seating(teamCall'[d]) PROVE AtDesk'
    <3>1. teamCall[c].pc = "sent" /\ ~teamAway
      BY <2>3, <1>1
    <3>2. \A d \in Client : ~Seating(teamCall[d])
      BY <3>1, <2>3, <1>2 DEF Seating
    <3>. QED BY <3>1, <3>2, <1>1 DEF TeamInv, DeskHolds, AtDesk
  <2>. QED BY <2>2, <2>3 DEF DeskHolds
<1>. QED BY <1>3, <1>5, <1>6, <1>7 DEF TeamInv

(* The page hears of its request, or no longer waits for it. *)
LEMMA TeamHears ==
  ASSUME TeamInv, NEW c \in Client, T!Succeeds(c) \/ T!Fails(c) \/ T!GiveUp(c)
  PROVE  TeamInv'
<1>1. /\ teamCall[c].pc # "idle"
      /\ UNCHANGED <<teamBinding, teamDesk, teamStale, teamAway>>
  BY DEF T!Succeeds, T!Fails, T!GiveUp, T!server
<1>. DEFINE k == IF teamCall[c].pc \in {"done", "refused", "failed"} THEN T!Idle ELSE T!Unheard(teamCall[c])
<1>2. /\ k \in TeamCall
      /\ IF teamCall[c].pc \in {"done", "refused", "failed"} THEN k = T!Idle
         ELSE k.pc = teamCall[c].pc /\ k.op = teamCall[c].op /\ k.role = teamCall[c].role
              /\ k.alone = teamCall[c].alone /\ ~k.waits
  <2>. DEFINE x == [teamCall[c] EXCEPT !.waits = FALSE]
              y == [x EXCEPT !.previous = NoBinding]
  <2>0. teamCall[c] \in TeamCall
    BY DEF TeamInv, TeamShape
  <2>1. x \in TeamCall /\ x.pc = teamCall[c].pc /\ x.op = teamCall[c].op /\ x.role = teamCall[c].role
        /\ x.alone = teamCall[c].alone /\ ~x.waits
    BY <2>0 DEF TeamCall
  <2>2. y \in TeamCall /\ y.pc = teamCall[c].pc /\ y.op = teamCall[c].op /\ y.role = teamCall[c].role
        /\ y.alone = teamCall[c].alone /\ ~y.waits
    BY <2>1 DEF TeamCall
  <2>3. T!Unheard(teamCall[c]) = y
    BY DEF T!Unheard
  <2>. HIDE DEF y
  <2>. QED BY <2>2, <2>3, IdleIsCall
<1>3. teamCall' = [teamCall EXCEPT ![c] = k]
  BY DEF T!Succeeds, T!Fails, T!GiveUp
<1>. HIDE DEF k
<1>4. teamCall' \in [Client -> TeamCall] /\ teamCall'[c] = k /\ \A d \in Client \ {c} : teamCall'[d] = teamCall[d]
  BY <1>2, <1>3 DEF TeamInv, TeamShape
<1>5. TeamShape'
  <2>1. teamUnsure' \in BOOLEAN /\ teamError' \in BOOLEAN
    BY DEF T!Succeeds, T!Fails, T!GiveUp, TeamInv, TeamShape
  <2>2. teamCall[c] \in TeamCall /\ teamSelected \in Role \union {NoBinding}
    BY DEF TeamInv, TeamShape
  <2>3. teamSelected' \in Role \union {NoBinding}
    BY <2>2 DEF T!Succeeds, T!Fails, T!GiveUp, T!Rollback, TeamCall
  <2>. QED BY <1>1, <1>4, <2>1, <2>3 DEF TeamInv, TeamShape
<1>6. \A d \in Client : /\ teamCall'[d].pc # "idle" => teamCall'[d].pc = teamCall[d].pc
                        /\ teamCall'[d].pc # "idle" =>
                             teamCall'[d].op = teamCall[d].op /\ teamCall'[d].alone = teamCall[d].alone
                             /\ teamCall'[d].role = teamCall[d].role
  BY <1>2, <1>4, IdleIsCall
<1>7. RequestsHold'
  <2>1. /\ teamCall'[c].pc # "idle" => teamCall'[c].op \in {"set", "clear"}
        /\ teamCall'[c].pc # "idle" => teamCall'[c].pc \in T!Underway
        /\ teamCall'[c].op = "clear" => teamCall'[c].pc \notin {"read", "write", "failed"}
    <3>1. teamCall[c].pc \in TeamPc
      BY DEF TeamInv, TeamShape, TeamCall
    <3>. QED BY <3>1, <1>2, <1>4, IdleIsCall DEF TeamInv, RequestsHold, T!Underway, TeamPc
  <2>. QED BY <2>1, <1>1, <1>4, <1>6 DEF TeamInv, RequestsHold
<1>8. ChoiceHolds'
  <2>. SUFFICES ASSUME ~teamStale PROVE ChoiceHolds'
    BY <1>1 DEF ChoiceHolds
  <2>1. \A d \in Client : teamCall'[d].pc # "idle" => d = c
    BY <1>1, <1>4 DEF TeamInv, RequestsHold
  <2>2. ChoiceOf(teamCall[c])
    BY <1>1 DEF TeamInv, ChoiceHolds
  <2>3. CASE T!GiveUp(c)
    <3>1. teamError' /\ teamUnsure'
      BY <2>3 DEF T!GiveUp
    <3>2. teamCall'[c].pc # "idle" => ~teamCall'[c].waits
      BY <1>2, <1>4, IdleIsCall
    <3>. QED BY <2>1, <3>1, <3>2, <1>4 DEF ChoiceHolds, ChoiceOf
  <2>4. CASE T!Fails(c)
    <3>1. /\ teamCall[c].pc \in {"refused", "failed"} /\ teamError' /\ teamSelected' = T!Rollback(c)
          /\ teamUnsure' = (teamUnsure \/ teamCall[c].pc = "failed")
      BY <2>4 DEF T!Fails
    <3>2. teamCall[c].waits /\ teamCall[c].op \in {"set", "clear"}
      BY <3>1 DEF TeamInv, RequestsHold, T!Underway
    <3>3. teamUnsure' \/ teamSelected' = teamBinding
      BY <3>1, <3>2, <2>2 DEF ChoiceOf, T!Rollback
    <3>4. \A d \in Client : teamCall'[d].pc = "idle"
      BY <3>1, <2>1, <1>2, <1>4, IdleIsCall
    <3>. QED BY <3>1, <3>3, <3>4, <1>1 DEF ChoiceHolds
  <2>5. CASE T!Succeeds(c)
    <3>1. /\ teamCall[c].pc = "done"
          /\ teamSelected' = IF teamCall[c].op = "clear" THEN NoBinding ELSE teamSelected
      BY <2>5 DEF T!Succeeds
    <3>2. teamCall[c].waits /\ teamCall[c].op \in {"set", "clear"}
      BY <3>1 DEF TeamInv, RequestsHold, T!Underway
    <3>3. teamSelected' = teamBinding
      BY <3>1, <3>2, <2>2 DEF ChoiceOf
    <3>4. \A d \in Client : teamCall'[d].pc = "idle"
      BY <3>1, <2>1, <1>2, <1>4, IdleIsCall
    <3>. QED BY <3>3, <3>4, <1>1 DEF ChoiceHolds
  <2>. QED BY <2>3, <2>4, <2>5
<1>9. DeskHolds'
  <2>1. \A d \in Client : Seating(teamCall'[d]) <=> Seating(teamCall[d])
    BY <1>2, <1>4, IdleIsCall DEF Seating
  <2>. QED BY <2>1, <1>1, <1>6 DEF TeamInv, DeskHolds, AtDesk, Seating
<1>. QED BY <1>5, <1>7, <1>8, <1>9 DEF TeamInv

(* Another request, or a connector: no call counts as alone any more. *)
LEMMA DisturbedIs ==
  ASSUME TeamShape
  PROVE  /\ T!Disturbed \in [Client -> TeamCall]
         /\ \A d \in Client :
              /\ T!Disturbed[d].pc = teamCall[d].pc /\ T!Disturbed[d].op = teamCall[d].op
              /\ T!Disturbed[d].role = teamCall[d].role /\ T!Disturbed[d].previous = teamCall[d].previous
              /\ T!Disturbed[d].waits = teamCall[d].waits /\ ~T!Disturbed[d].alone
<1>1. \A d \in Client : teamCall[d] \in TeamCall
  BY DEF TeamShape
<1>2. \A k \in TeamCall :
        /\ [k EXCEPT !.alone = FALSE] \in TeamCall
        /\ [k EXCEPT !.alone = FALSE].pc = k.pc /\ [k EXCEPT !.alone = FALSE].op = k.op
        /\ [k EXCEPT !.alone = FALSE].role = k.role /\ [k EXCEPT !.alone = FALSE].previous = k.previous
        /\ [k EXCEPT !.alone = FALSE].waits = k.waits /\ ~[k EXCEPT !.alone = FALSE].alone
  BY DEF TeamCall
<1>. QED BY <1>1, <1>2 DEF T!Disturbed

LEMMA TeamSends ==
  ASSUME TeamInv, NEW c \in Client, NEW op \in {"set", "clear"}, NEW r \in Role \union {NoBinding},
         T!Send(c, op, r), op = "set" => teamSelected' = r, op = "clear" => teamSelected' = teamSelected,
         teamSelected' \in Role \union {NoBinding}
  PROVE  TeamInv'
<1>. DEFINE k == [pc |-> "sent", op |-> op, role |-> r, waits |-> TRUE,
                  previous |-> IF op = "set" THEN teamSelected ELSE NoBinding,
                  alone |-> op = "set" /\ ~T!Busy]
<1>1. /\ teamCall[c].pc = "idle" /\ teamCall' = [T!Disturbed EXCEPT ![c] = k]
      /\ teamStale' = (teamStale \/ T!Busy) /\ teamAway' = (teamAway \/ T!Busy) /\ teamError' = FALSE
      /\ UNCHANGED <<teamBinding, teamDesk, teamUnsure>>
  BY DEF T!Send, T!server
<1>2. /\ k \in TeamCall /\ k.pc = "sent" /\ k.op = op /\ k.role = r /\ k.waits /\ (k.alone => ~T!Busy)
      /\ op = "set" => k.previous = teamSelected
  <2>1. (op = "set" /\ ~T!Busy) \in BOOLEAN
    OBVIOUS
  <2>2. (IF op = "set" THEN teamSelected ELSE NoBinding) \in Role \union {NoBinding}
    BY DEF TeamInv, TeamShape
  <2>. QED BY <2>1, <2>2 DEF TeamCall, TeamPc
<1>. HIDE DEF k
<1>3. /\ teamCall' \in [Client -> TeamCall] /\ teamCall'[c] = k
      /\ \A d \in Client \ {c} :
           /\ teamCall'[d].pc = teamCall[d].pc /\ teamCall'[d].op = teamCall[d].op
           /\ teamCall'[d].role = teamCall[d].role /\ teamCall'[d].previous = teamCall[d].previous
           /\ teamCall'[d].waits = teamCall[d].waits /\ ~teamCall'[d].alone
  BY <1>1, <1>2, DisturbedIs DEF TeamInv
<1>4. ~T!Busy <=> \A d \in Client : teamCall[d].pc = "idle"
  BY DEF T!Busy
<1>5. TeamShape'
  <2>1. teamStale' \in BOOLEAN /\ teamAway' \in BOOLEAN /\ teamError' \in BOOLEAN
    BY <1>1
  <2>. QED BY <2>1, <1>1, <1>3 DEF TeamInv, TeamShape
<1>6. RequestsHold'
  <2>1. \A d \in Client :
          /\ teamCall'[d].pc # "idle" => teamCall'[d].op \in {"set", "clear"}
          /\ teamCall'[d].pc # "idle" /\ ~teamCall'[d].waits => teamCall'[d].pc \in T!Underway
          /\ teamCall'[d].op = "clear" => teamCall'[d].pc \notin {"read", "write", "failed"}
    BY <1>2, <1>3 DEF TeamInv, RequestsHold
  <2>2. ASSUME NEW d \in Client, NEW e \in Client, teamCall'[d].pc # "idle", teamCall'[e].pc # "idle",
               ~teamStale' \/ ~teamAway' \/ teamCall'[d].alone
        PROVE  d = e
    <3>1. ~T!Busy
      BY <2>2, <1>1, <1>2, <1>3
    <3>. QED BY <3>1, <2>2, <1>3, <1>4
  <2>. QED BY <2>1, <2>2 DEF RequestsHold
<1>7. ChoiceHolds'
  <2>. SUFFICES ASSUME ~teamStale' PROVE ChoiceHolds'
    BY DEF ChoiceHolds
  <2>1. ~teamStale /\ ~T!Busy /\ \A d \in Client : teamCall'[d].pc # "idle" => d = c
    BY <1>1, <1>3, <1>4
  <2>2. teamSelected = teamBinding \/ teamUnsure
    BY <2>1 DEF TeamInv, ChoiceHolds
  <2>3. ChoiceOf(teamCall[c])'
    BY <2>2, <1>1, <1>2, <1>3 DEF ChoiceOf
  <2>4. T!Busy'
    BY <1>2, <1>3 DEF T!Busy
  <2>. QED BY <2>1, <2>3, <2>4 DEF ChoiceHolds
<1>8. DeskHolds'
  <2>1. \A d \in Client : Seating(teamCall'[d]) =>
          d # c /\ Seating(teamCall[d]) /\ T!Busy /\ ~teamCall'[d].alone
    BY <1>2, <1>3, <1>4 DEF Seating
  <2>2. ~teamAway' => ~T!Busy /\ ~teamAway
    BY <1>1
  <2>3. ~teamAway' => \A d \in Client : ~Seating(teamCall[d])
    BY <2>2, <1>4 DEF Seating
  <2>. QED BY <2>1, <2>2, <2>3, <1>1 DEF TeamInv, DeskHolds, AtDesk
<1>. QED BY <1>5, <1>6, <1>7, <1>8 DEF TeamInv

LEMMA TeamClicks ==
  ASSUME TeamInv, NEW c \in Client, T!ClearBinding(c) \/ \E r \in Role : T!SelectAgent(c, r)
  PROVE  TeamInv'
<1>1. ASSUME NEW r \in Role, T!SelectAgent(c, r) PROVE TeamInv'
  BY <1>1, TeamSends DEF T!SelectAgent
<1>2. CASE T!ClearBinding(c)
  <2>1. teamSelected \in Role \union {NoBinding}
    BY DEF TeamInv, TeamShape
  <2>. QED BY <1>2, <2>1, TeamSends DEF T!ClearBinding
<1>. QED BY <1>1, <1>2

LEMMA TeamConnects == ASSUME TeamInv, NEW r \in Role, T!Connect(r) PROVE TeamInv'
<1>1. /\ teamBinding' = r /\ teamStale' = TRUE /\ teamCall' = T!Disturbed
      /\ \/ teamBinding # r /\ teamDesk' = Home[r] /\ teamAway' = T!Busy
         \/ teamBinding = r /\ teamDesk' = teamDesk /\ teamAway' = teamAway
      /\ UNCHANGED <<teamSelected, teamError, teamUnsure>>
  BY DEF T!Connect, T!panel
<1>2. /\ teamCall' \in [Client -> TeamCall]
      /\ \A d \in Client :
           /\ teamCall'[d].pc = teamCall[d].pc /\ teamCall'[d].op = teamCall[d].op
           /\ teamCall'[d].role = teamCall[d].role
           /\ teamCall'[d].waits = teamCall[d].waits /\ ~teamCall'[d].alone
  BY <1>1, DisturbedIs DEF TeamInv
<1>3. TeamShape'
  <2>1. teamAway' \in BOOLEAN
    BY <1>1 DEF TeamInv, TeamShape, T!Busy
  <2>. QED BY <2>1, <1>1, <1>2 DEF TeamInv, TeamShape
<1>4. RequestsHold'
  <2>1. \A d \in Client :
          /\ teamCall'[d].pc # "idle" => teamCall'[d].op \in {"set", "clear"}
          /\ teamCall'[d].pc # "idle" /\ ~teamCall'[d].waits => teamCall'[d].pc \in T!Underway
          /\ teamCall'[d].op = "clear" => teamCall'[d].pc \notin {"read", "write", "failed"}
    BY <1>2 DEF TeamInv, RequestsHold
  <2>2. ASSUME NEW d \in Client, NEW e \in Client, teamCall'[d].pc # "idle", teamCall'[e].pc # "idle", ~teamAway'
        PROVE  d = e
    <3>1. ~teamAway \/ ~T!Busy
      BY <2>2, <1>1
    <3>. QED BY <3>1, <2>2, <1>2 DEF TeamInv, RequestsHold, T!Busy
  <2>. QED BY <2>1, <2>2, <1>1, <1>2 DEF RequestsHold
<1>5. ChoiceHolds'
  BY <1>1 DEF ChoiceHolds
<1>6. DeskHolds'
  <2>1. \A d \in Client : Seating(teamCall'[d]) <=> Seating(teamCall[d])
    BY <1>2 DEF Seating
  <2>2. CASE teamBinding # r
    BY <2>1, <2>2, <1>1, <1>2 DEF DeskHolds, AtDesk, Seating, T!Busy
  <2>3. CASE teamBinding = r
    <3>1. teamDesk' = teamDesk /\ teamAway' = teamAway /\ teamBinding' = teamBinding
      BY <2>3, <1>1
    <3>. QED BY <3>1, <2>1, <1>2 DEF TeamInv, DeskHolds, AtDesk
  <2>. QED BY <2>2, <2>3
<1>. QED BY <1>3, <1>4, <1>5, <1>6 DEF TeamInv

LEMMA TeamWalks == ASSUME TeamInv, T!Walk PROVE TeamInv'
<1>1. /\ teamAway' = TRUE
      /\ UNCHANGED <<teamBinding, teamCall, teamSelected, teamError, teamStale, teamUnsure>>
  BY DEF T!Walk, T!panel
<1>2. TeamShape' /\ RequestsHold' /\ ChoiceHolds'
  BY <1>1 DEF TeamInv, TeamShape, RequestsHold, ChoiceHolds, ChoiceOf, T!Busy
<1>3. DeskHolds'
  BY <1>1 DEF TeamInv, DeskHolds, Seating
<1>. QED BY <1>2, <1>3 DEF TeamInv

LEMMA TeamReloads == ASSUME TeamInv, T!Reload PROVE TeamInv'
<1>1. /\ \/ teamSelected' = teamBinding /\ teamStale' = T!Working
         \/ teamSelected' = NoBinding /\ teamStale' = TRUE
      /\ teamError' = FALSE /\ teamUnsure' = FALSE
      /\ teamCall' = [c \in Client |-> IF teamCall[c].pc \in T!Underway THEN T!Unheard(teamCall[c]) ELSE T!Idle]
      /\ UNCHANGED <<teamBinding, teamDesk, teamAway>>
  BY DEF T!Reload, T!server
<1>2. \A k \in TeamCall :
        /\ T!Unheard(k) \in TeamCall /\ T!Unheard(k).pc = k.pc /\ T!Unheard(k).op = k.op
        /\ T!Unheard(k).role = k.role /\ T!Unheard(k).alone = k.alone
  <2>. TAKE k \in TeamCall
  <2>. DEFINE x == [k EXCEPT !.waits = FALSE]
              y == [x EXCEPT !.previous = NoBinding]
  <2>1. x \in TeamCall /\ x.pc = k.pc /\ x.op = k.op /\ x.role = k.role /\ x.alone = k.alone
    BY DEF TeamCall
  <2>2. y \in TeamCall /\ y.pc = k.pc /\ y.op = k.op /\ y.role = k.role /\ y.alone = k.alone
    BY <2>1 DEF TeamCall
  <2>3. T!Unheard(k) = y
    BY DEF T!Unheard
  <2>. HIDE DEF y
  <2>. QED BY <2>2, <2>3
<1>3. /\ teamCall' \in [Client -> TeamCall]
      /\ \A c \in Client : IF teamCall[c].pc \in T!Underway
                           THEN /\ teamCall'[c].pc = teamCall[c].pc /\ teamCall'[c].op = teamCall[c].op
                                /\ teamCall'[c].role = teamCall[c].role /\ teamCall'[c].alone = teamCall[c].alone
                           ELSE teamCall'[c] = T!Idle
  BY <1>1, <1>2, IdleIsCall DEF TeamInv, TeamShape
<1>4. TeamShape'
  <2>1. teamStale' \in BOOLEAN /\ teamUnsure' \in BOOLEAN /\ teamError' \in BOOLEAN
    BY <1>1 DEF T!Working
  <2>2. teamSelected' \in Role \union {NoBinding}
    BY <1>1 DEF TeamInv, TeamShape
  <2>. QED BY <2>1, <2>2, <1>1, <1>3 DEF TeamInv, TeamShape
<1>5. \A c \in Client : teamCall'[c].pc # "idle" =>
        /\ teamCall[c].pc \in T!Underway /\ teamCall[c].pc # "idle" /\ teamCall'[c].pc = teamCall[c].pc
        /\ teamCall'[c].op = teamCall[c].op /\ teamCall'[c].alone = teamCall[c].alone
        /\ teamCall'[c].role = teamCall[c].role
  BY <1>3, IdleIsCall DEF T!Underway
<1>6. ~teamStale' => \A c \in Client : teamCall'[c].pc = "idle"
  BY <1>1, <1>5 DEF T!Working
<1>7. RequestsHold'
  <2>1. \A d \in Client :
          /\ teamCall'[d].pc # "idle" => teamCall'[d].op \in {"set", "clear"}
          /\ teamCall'[d].pc # "idle" /\ ~teamCall'[d].waits => teamCall'[d].pc \in T!Underway
          /\ teamCall'[d].op = "clear" => teamCall'[d].pc \notin {"read", "write", "failed"}
    BY <1>3, <1>5, IdleIsCall DEF TeamInv, RequestsHold
  <2>2. ASSUME NEW d \in Client, NEW e \in Client, teamCall'[d].pc # "idle", teamCall'[e].pc # "idle",
               ~teamAway' \/ teamCall'[d].alone
        PROVE  d = e
    BY <2>2, <1>1, <1>5 DEF TeamInv, RequestsHold
  <2>. QED BY <2>1, <2>2, <1>6 DEF RequestsHold
<1>8. ChoiceHolds'
  BY <1>1, <1>6 DEF ChoiceHolds
<1>9. DeskHolds'
  <2>1. \A d \in Client : Seating(teamCall'[d]) <=> Seating(teamCall[d])
    BY <1>3, IdleIsCall DEF Seating, T!Underway
  <2>2. \A d \in Client : Seating(teamCall'[d]) => teamCall'[d].pc # "idle"
    BY DEF Seating
  <2>. QED BY <2>1, <2>2, <1>1, <1>5 DEF TeamInv, DeskHolds, AtDesk
<1>. QED BY <1>4, <1>7, <1>8, <1>9 DEF TeamInv

LEMMA TeamNext == TeamInv /\ [T!Next]_teamVars => TeamInv'
<1>. SUFFICES ASSUME TeamInv, [T!Next]_teamVars PROVE TeamInv'
  OBVIOUS
<1>1. CASE UNCHANGED teamVars
  BY <1>1 DEF teamVars, TeamInv, TeamShape, RequestsHold, ChoiceHolds, ChoiceOf, DeskHolds, AtDesk, T!Busy
<1>. QED BY <1>1, TeamSetWrites, TeamResets, TeamClearWrites, TeamServerFails, TeamHears, TeamClicks, TeamConnects,
     TeamWalks, TeamReloads DEF T!Next

----------------------------------------------------------------------------
(* The types of the agent team.  A request that sets has a role to set. *)
TeamTyped ==
  /\ TeamInv
  /\ teamDesk \in T!Desk \union {NoBinding} /\ teamSaving \in Role \union {NoBinding}
  /\ \A c \in Client : teamCall[c].op = "set" => teamCall[c].role \in Role

LEMMA TeamStartsTyped == T!Init => TeamTyped
BY TeamInit DEF TeamTyped, T!Init, T!Idle

LEMMA TeamStaysTyped == TeamTyped /\ [T!Next]_teamVars => TeamTyped'
<1>. DEFINE Typed == /\ teamDesk \in T!Desk \union {NoBinding}
                     /\ teamSaving \in Role \union {NoBinding}
            Sets(k) == k.op = "set" => k.role \in Role
<1>. SUFFICES ASSUME TeamTyped, [T!Next]_teamVars
              PROVE  Typed' /\ \A c \in Client : Sets(teamCall'[c])
  BY TeamNext DEF TeamTyped, T!Desk
<1>1. /\ Typed
      /\ teamSelected \in Role \union {NoBinding}
      /\ \A r \in Role : Home[r] \in T!Desk
  BY DEF TeamTyped, TeamInv, TeamShape, T!Desk
<1>2. teamCall \in [Client -> TeamCall] /\ \A c \in Client : Sets(teamCall[c])
  BY DEF TeamTyped, TeamInv, TeamShape
<1>3. Sets(T!Idle)
  BY DEF T!Idle
<1>4. ASSUME NEW k \in TeamCall, NEW pc, Sets(k)
      PROVE  /\ Sets([k EXCEPT !.pc = pc]) /\ Sets([k EXCEPT !.alone = FALSE])
             /\ Sets([k EXCEPT !.waits = FALSE, !.previous = NoBinding])
  BY <1>4 DEF TeamCall
<1>5. ASSUME NEW c \in Client, NEW k, Sets(k), teamCall' = [teamCall EXCEPT ![c] = k]
      PROVE  \A d \in Client : Sets(teamCall'[d])
  BY <1>2, <1>5
<1>6. \A c \in Client : T!Disturbed[c] = [teamCall[c] EXCEPT !.alone = FALSE] /\ Sets(T!Disturbed[c])
  BY <1>2, <1>4 DEF T!Disturbed
<1>. HIDE DEF Sets
<1>7. ASSUME NEW c \in Client, NEW op, NEW r, T!Send(c, op, r), op = "set" => r \in Role
      PROVE  \A d \in Client : Sets(teamCall'[d])
  <2>. DEFINE k == [pc |-> "sent", op |-> op, role |-> r, waits |-> TRUE,
                    previous |-> IF op = "set" THEN teamSelected ELSE NoBinding,
                    alone |-> op = "set" /\ ~T!Busy]
  <2>1. Sets(k)
    BY <1>7 DEF Sets
  <2>2. teamCall' = [T!Disturbed EXCEPT ![c] = k]
    BY <1>7 DEF T!Send
  <2>. HIDE DEF k
  <2>. QED BY <1>6, <2>1, <2>2 DEF T!Disturbed
<1>8. ASSUME NEW c \in Client, NEW pc, T!Goes(c, pc) PROVE \A d \in Client : Sets(teamCall'[d])
  <2>1. \/ teamCall' = [teamCall EXCEPT ![c] = T!Idle]
        \/ teamCall' = [teamCall EXCEPT ![c] = [teamCall[c] EXCEPT !.pc = pc]]
    BY <1>2, <1>8 DEF T!Goes
  <2>2. Sets([teamCall[c] EXCEPT !.pc = pc])
    BY <1>2, <1>4
  <2>. QED BY <1>3, <1>5, <2>1, <2>2
<1>9. ASSUME NEW c \in Client, NEW r \in Role, T!SelectAgent(c, r)
      PROVE  Typed' /\ \A d \in Client : Sets(teamCall'[d])
  <2>1. T!Send(c, "set", r)
    BY <1>9 DEF T!SelectAgent
  <2>2. \A d \in Client : Sets(teamCall'[d])
    BY <1>7, <2>1
  <2>. QED BY <1>1, <1>9, <2>2 DEF T!SelectAgent, T!Send, T!server, T!Desk
<1>10. ASSUME NEW c \in Client, T!ClearBinding(c)
       PROVE  Typed' /\ \A d \in Client : Sets(teamCall'[d])
  <2>1. T!Send(c, "clear", NoBinding)
    BY <1>10 DEF T!ClearBinding
  <2>2. \A d \in Client : Sets(teamCall'[d])
    BY <1>7, <2>1
  <2>. QED BY <1>1, <1>10, <2>2 DEF T!ClearBinding, T!Send, T!server, T!Desk
<1>11. ASSUME NEW c \in Client,
              T!SetWrites(c) \/ T!ResetReads(c) \/ T!ClearWrites(c) \/ T!ServerFails(c)
       PROVE  Typed' /\ \A d \in Client : Sets(teamCall'[d])
  <2>1. \E pc : T!Goes(c, pc)
    BY <1>11 DEF T!SetWrites, T!ResetReads, T!ClearWrites, T!ServerFails
  <2>2. \A d \in Client : Sets(teamCall'[d])
    BY <1>8, <2>1
  <2>. QED BY <1>1, <1>11, <2>2 DEF T!SetWrites, T!ResetReads, T!ClearWrites, T!ServerFails,
                                    T!server, T!panel, T!Desk
<1>12. ASSUME NEW c \in Client, T!ResetWrites(c)
       PROVE  Typed' /\ \A d \in Client : Sets(teamCall'[d])
  <2>1. teamCall[c].op \in {"set", "clear"} /\ teamCall[c].op # "clear"
    BY <1>12 DEF T!ResetWrites, TeamTyped, TeamInv, RequestsHold
  <2>2. teamCall[c].role \in Role
    BY <1>2, <2>1 DEF Sets
  <2>3. \A d \in Client : Sets(teamCall'[d])
    BY <1>8, <1>12 DEF T!ResetWrites
  <2>. QED BY <1>1, <1>12, <2>2, <2>3 DEF T!ResetWrites, T!panel, T!Desk
<1>13. ASSUME NEW c \in Client, T!Succeeds(c) \/ T!Fails(c)
       PROVE  Typed' /\ \A d \in Client : Sets(teamCall'[d])
  <2>1. \A d \in Client : Sets(teamCall'[d])
    BY <1>3, <1>5, <1>13 DEF T!Succeeds, T!Fails
  <2>. QED BY <1>1, <1>13, <2>1 DEF T!Succeeds, T!Fails, T!server, T!Desk
<1>14. ASSUME NEW c \in Client, T!GiveUp(c)
       PROVE  Typed' /\ \A d \in Client : Sets(teamCall'[d])
  <2>1. Sets(T!Unheard(teamCall[c]))
    BY <1>2, <1>4 DEF T!Unheard
  <2>2. \/ teamCall' = [teamCall EXCEPT ![c] = T!Idle]
        \/ teamCall' = [teamCall EXCEPT ![c] = T!Unheard(teamCall[c])]
    BY <1>2, <1>14 DEF T!GiveUp
  <2>3. \A d \in Client : Sets(teamCall'[d])
    BY <1>3, <1>5, <2>1, <2>2
  <2>. QED BY <1>1, <1>14, <2>3 DEF T!GiveUp, T!server, T!Desk
<1>15. ASSUME NEW r \in Role, T!Connect(r)
       PROVE  Typed' /\ \A d \in Client : Sets(teamCall'[d])
  <2>1. \A d \in Client : Sets(teamCall'[d])
    BY <1>6, <1>15 DEF T!Connect
  <2>. QED BY <1>1, <1>15, <2>1 DEF T!Connect, T!panel, T!Desk
<1>16. CASE T!Walk \/ UNCHANGED teamVars
  BY <1>1, <1>2, <1>16 DEF T!Walk, T!panel, T!server, teamVars, T!Desk
<1>17. CASE T!Reload
  <2>1. \A d \in Client : Sets(T!Unheard(teamCall[d]))
    BY <1>2, <1>4 DEF T!Unheard
  <2>2. \A d \in Client : Sets(teamCall'[d])
    BY <1>3, <1>17, <2>1 DEF T!Reload
  <2>3. Typed'
    BY <1>1, <1>17 DEF T!Reload, T!server, T!Desk
  <2>. QED BY <2>2, <2>3
<1>. QED BY <1>9, <1>10, <1>11, <1>12, <1>13, <1>14, <1>15, <1>16, <1>17 DEF T!Next

LEMMA TeamTypes == TeamTyped => T!TypeOK
BY DEF TeamTyped, TeamInv, TeamShape, TeamCall, TeamPc, T!TypeOK

=============================================================================
