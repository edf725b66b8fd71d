----------------------------- MODULE ViewsProofs -----------------------------
(***************************************************************************)
(* Proofs about a submission's way to the teacher, for any number of       *)
(* submissions, handlers, worker slots and troubles, and about what is     *)
(* pushed to browsers: the presence of a user with any number of tabs, and *)
(* the revisions of an avatar's movements; and the types of all of it.     *)
(***************************************************************************)
EXTENDS Views, SequenceTheorems, TLAPS

----------------------------------------------------------------------------
(* Reviews. *)

(* What a slot and a job are. *)
Slots == [pc : {"free", "start", "assess", "done", "mark", "throw"},
          req : Request \union {Nobody}, made : Nat, lock : {"held", "lost"}]

Jobs == [state : {"none", "waiting", "active", "delayed", "failed"},
         made : Nat, stalls : Nat]

LEMMA PipelineStartsTyped == Init => TypeOK
BY PipelineAssumption DEF Init, TypeOK, NoJob, Status, Free

LEMMA PipelineStaysTyped == TypeOK /\ [Next]_vars => TypeOK'
<1> SUFFICES ASSUME TypeOK, [Next]_vars PROVE TypeOK'
  OBVIOUS
<1> USE PipelineAssumption DEF TypeOK
<1>1. ASSUME NEW c \in Client, NEW r \in Request, Submit(c, r) PROVE TypeOK'
  BY <1>1 DEF Submit, Goes, rows
<1>2. ASSUME NEW c \in Client, Insert(c) PROVE TypeOK'
  <2>1. client[c].req \in Request
    BY <1>2 DEF Insert
  <2>. QED BY <1>2, <2>1 DEF Insert, Goes, Status
<1>3. ASSUME NEW c \in Client, Duplicate(c) PROVE TypeOK'
  <2>1. client[c].req \in Request
    BY <1>3 DEF Duplicate
  <2>. QED BY SMTT(30), <1>3, <2>1 DEF Duplicate, Goes, rows
<1>4. ASSUME NEW c \in Client, EnqueueOrWait(c) PROVE TypeOK'
  <2>1. client[c].req \in Request
    BY <1>4 DEF EnqueueOrWait
  <2>. QED BY <1>4, <2>1 DEF EnqueueOrWait, Goes, rows
<1>5. ASSUME NEW r \in Request, Add(r)
      PROVE  job' \in [Request -> [state : {"none", "waiting", "active", "delayed", "failed"},
                                   made : Nat, stalls : Nat]]
  BY <1>5 DEF Add, NewJob, NoJob
<1>6. ASSUME NEW r \in Request, AddLands(r) PROVE TypeOK'
  BY <1>5, <1>6 DEF AddLands, rows
<1>7. ASSUME NEW r \in Request, AddFails(r) PROVE TypeOK'
  BY <1>7 DEF AddFails, rows, Trouble
<1>8. CASE ApiCrash
  BY <1>8 DEF ApiCrash, rows, Trouble
<1>9. CASE SweepRead
  BY <1>9 DEF SweepRead, rows, api
<1>10. ASSUME NEW r \in Request, SweepAdd(r) PROVE TypeOK'
  BY <1>5, <1>10 DEF SweepAdd, rows, api
<1>11. CASE SweepFails
  BY <1>11 DEF SweepFails, rows, api, Trouble
<1>12. ASSUME NEW r \in Request, StartJob(r) PROVE TypeOK'
  BY <1>12 DEF StartJob, rows, api
<1>13. ASSUME NEW w \in Runner, RunReads(w) PROVE TypeOK'
  BY <1>13 DEF RunReads, rows, api, Free
<1>14. ASSUME NEW w \in Runner, RunAssesses(w) PROVE TypeOK'
  BY SMTT(30), <1>14 DEF RunAssesses, SetIfQueued, api, Free, Status
<1>15. ASSUME NEW w \in Runner, RunThrows(w) PROVE TypeOK'
  BY SMTT(30), <1>15 DEF RunThrows, rows, api, Free
<1>16. ASSUME NEW w \in Runner, MarkNeedsTeacher(w) PROVE TypeOK'
  BY SMTT(30), <1>16 DEF MarkNeedsTeacher, SetIfQueued, api, Free, Status
<1>17. ASSUME NEW w \in Runner, MarkThrows(w) PROVE TypeOK'
  <2>1. runner' \in [Runner -> Slots]
    BY SMTT(30), <1>17 DEF MarkThrows, Free, Slots
  <2>. QED BY <1>17, <2>1 DEF MarkThrows, rows, api, Trouble, Slots
<1>18. ASSUME NEW w \in Runner, JobCompletes(w) PROVE TypeOK'
  BY <1>18 DEF JobCompletes, rows, api, NoJob, Free
<1>19. ASSUME NEW w \in Runner, JobFails(w) PROVE TypeOK'
  <2>1. runner[w].req \in Request
    BY <1>19 DEF JobFails, Free
  <2>2. ASSUME runner[w].lock = "held" PROVE job' \in [Request -> Jobs]
    BY <1>19, <2>1, <2>2 DEF JobFails, Jobs
  <2>3. runner' \in [Runner -> Slots]
    BY <1>19 DEF JobFails, Slots, Free
  <2>. QED BY <1>19, <2>2, <2>3 DEF JobFails, rows, api, Jobs, Slots, Free
<1>20. ASSUME NEW r \in Request, BackoffOver(r) PROVE TypeOK'
  BY <1>20 DEF BackoffOver, rows, api
<1>21. ASSUME NEW r \in Request, Forget(r) PROVE TypeOK'
  BY <1>21 DEF Forget, rows, api, NoJob
<1>22. ASSUME NEW w \in Runner, LockLost(w) PROVE TypeOK'
  <2>1. runner' \in [Runner -> Slots]
    BY <1>22 DEF LockLost, Free, Slots
  <2>. QED BY <1>22, <2>1 DEF LockLost, rows, api, Trouble, Slots
<1>23. ASSUME NEW r \in Request, Stalled(r) PROVE TypeOK'
  BY <1>23 DEF Stalled, rows, api
<1>24. CASE WorkerCrash
  BY <1>24 DEF WorkerCrash, rows, api, Trouble, Free
<1>25. ASSUME NEW r \in Request, JobLost(r) PROVE TypeOK'
  <2>1. runner' \in [Runner -> Slots]
    BY SMTT(30), <1>25 DEF JobLost, Free, Slots
  <2>2. job' \in [Request -> Jobs]
    BY <1>25 DEF JobLost, NoJob, Jobs
  <2>. QED BY <1>25, <2>1, <2>2 DEF JobLost, rows, api, Trouble, Slots, Jobs
<1>26. ASSUME NEW r \in Request, NEW t \in Teacher, Decide(r, t) PROVE TypeOK'
  BY <1>26 DEF Decide, api, Status
<1>27. CASE UNCHANGED vars
  BY <1>27 DEF vars
<1>. QED
  BY <1>1, <1>2, <1>3, <1>4, <1>6, <1>7, <1>8, <1>9, <1>10, <1>11, <1>12, <1>13,
     <1>14, <1>15, <1>16, <1>17, <1>18, <1>19, <1>20, <1>21, <1>22, <1>23, <1>24,
     <1>25, <1>26, <1>27 DEF Next, ClientStep, JobStep, RunnerStep

(* Every row, handler, job and slot stays well-formed, so no handler meets  *)
(* a state the code has no case for.                                        *)
THEOREM PipelineTypes == Spec => []TypeOK
BY PipelineStartsTyped, PipelineStaysTyped, PTL DEF Spec

----------------------------------------------------------------------------
(* What a step does to the rows. *)
RowStep ==
  \/ UNCHANGED rows
  \/ \E c \in Client : Insert(c)
  \/ \E r \in Request, s \in Decidable :
       SetIfQueued(r, s) /\ UNCHANGED <<pending, reviewer>>
  \/ \E r \in Request, t \in Teacher : Decide(r, t)

LEMMA RowSteps ==
  ASSUME TypeOK, [Next]_vars
  PROVE  RowStep
<1>1. ASSUME NEW w \in Runner, RunAssesses(w) \/ MarkNeedsTeacher(w) PROVE RowStep
  <2>1. runner[w].req \in Request
    BY <1>1 DEF TypeOK, RunAssesses, MarkNeedsTeacher
  <2>2. \E s \in Decidable :
          SetIfQueued(runner[w].req, s) /\ UNCHANGED <<pending, reviewer>>
    BY <1>1 DEF RunAssesses, MarkNeedsTeacher, Decidable
  <2>. QED BY <2>1, <2>2 DEF RowStep
<1>2. ASSUME NEW w \in Runner, RunnerStep(w) PROVE RowStep
  BY <1>1, <1>2 DEF RunnerStep, RowStep, RunReads, RunThrows, MarkThrows,
     JobCompletes, JobFails, LockLost
<1>3. ASSUME NEW c \in Client, ClientStep(c) PROVE RowStep
  BY <1>3 DEF ClientStep, RowStep, Submit, Duplicate, EnqueueOrWait
<1>4. ASSUME NEW r \in Request, JobStep(r) PROVE RowStep
  BY <1>4 DEF JobStep, RowStep, AddLands, AddFails, SweepAdd, StartJob, BackoffOver,
     Forget, Stalled, JobLost
<1>5. ASSUME SweepRead \/ SweepFails \/ ApiCrash \/ WorkerCrash PROVE RowStep
  BY <1>5 DEF RowStep, SweepRead, SweepFails, ApiCrash, WorkerCrash
<1>6. ASSUME UNCHANGED vars PROVE RowStep
  BY <1>6 DEF RowStep, vars, rows
<1>. QED BY <1>2, <1>3, <1>4, <1>5, <1>6 DEF Next

(* A student has at most one undecided submission a day, and exactly the    *)
(* undecided ones hold their key: the two unique indices, the conditional   *)
(* updates of the worker and the transaction of decide together.            *)
THEOREM OneOpenReviewHolds == Spec => []OneOpenReview
<1>1. Init => OneOpenReview
  BY DEF Init, OneOpenReview, Undecided, Decidable
<1>2. TypeOK /\ OneOpenReview /\ [Next]_vars => OneOpenReview'
  <2> SUFFICES ASSUME TypeOK, OneOpenReview, [Next]_vars PROVE OneOpenReview'
    OBVIOUS
  <2> USE DEF OneOpenReview, Undecided, Decidable
  <2>1. CASE UNCHANGED rows
    BY <2>1 DEF rows
  <2>2. ASSUME NEW c \in Client, Insert(c) PROVE OneOpenReview'
    <3>1. client[c].req \in Request
      BY <2>2 DEF Insert, TypeOK
    <3>. QED BY <2>2, <3>1 DEF Insert, KeyTaken, TypeOK
  <2>3. ASSUME NEW r \in Request, NEW s \in Decidable,
               SetIfQueued(r, s), UNCHANGED <<pending, reviewer>>
        PROVE  OneOpenReview'
    BY <2>3 DEF SetIfQueued, TypeOK
  <2>4. ASSUME NEW r \in Request, NEW t \in Teacher, Decide(r, t) PROVE OneOpenReview'
    BY <2>4 DEF Decide, TypeOK
  <2>. QED BY <2>1, <2>2, <2>3, <2>4, RowSteps DEF RowStep
<1>. QED BY <1>1, <1>2, PipelineTypes, PTL DEF Spec

----------------------------------------------------------------------------
(* The refinement of the review desk. *)

LEMMA HolderIs ==
  ASSUME OneOpenReview, NEW r \in Request, pending[r]
  PROVE  Holder(KeyOf[r]) = r
<1> DEFINE P(q) == pending[q] /\ KeyOf[q] = KeyOf[r]
<1>1. \E q \in Request : P(q)
  OBVIOUS
<1>2. (CHOOSE q \in Request : P(q)) \in Request /\ P(CHOOSE q \in Request : P(q))
  BY <1>1
<1>. QED BY <1>1, <1>2 DEF Holder, OneOpenReview

LEMMA DeskSubmits ==
  ASSUME TypeOK, OneOpenReview, OneOpenReview', NEW c \in Client, Insert(c)
  PROVE  Desk!Next
<1>. PICK r \in Request : r = client[c].req
  BY DEF TypeOK, Insert
<1>1. KeyOf[r] \in Key
  BY PipelineAssumption
<1>2. Holder(KeyOf[r]) = Nobody
  BY DEF Insert, KeyTaken, Holder
<1>3. pending'[r] /\ \A q \in Request \ {r} : pending'[q] = pending[q]
  BY <1>1 DEF Insert, TypeOK
<1>4. Holder(KeyOf[r])' = r
  <2> DEFINE P(q) == pending'[q] /\ KeyOf[q] = KeyOf[r]
  <2>1. \E q \in Request : P(q)
    BY <1>1, <1>3
  <2>2. (CHOOSE q \in Request : P(q)) \in Request /\ P(CHOOSE q \in Request : P(q))
    BY <2>1
  <2>. QED BY <1>1, <1>3, <2>1, <2>2 DEF Holder, OneOpenReview
<1>5. ASSUME NEW k \in Key, k # KeyOf[r] PROVE Holder(k)' = Holder(k)
  <2>1. \A q \in Request : (pending'[q] /\ KeyOf[q] = k) <=> (pending[q] /\ KeyOf[q] = k)
    BY <1>3, <1>5
  <2>. QED BY <2>1 DEF Holder
<1>6. [k \in Key |-> Holder(k)]' = [[k \in Key |-> Holder(k)] EXCEPT ![KeyOf[r]] = r]
  BY <1>1, <1>4, <1>5
<1>7. Desk!Submit(r)
  BY <1>1, <1>2, <1>6 DEF Desk!Submit, Insert
<1>. QED BY <1>1, <1>7 DEF Desk!Next

LEMMA DeskDecides ==
  ASSUME TypeOK, OneOpenReview, NEW r \in Request, NEW t \in Teacher, Decide(r, t)
  PROVE  Desk!Next
<1>1. KeyOf[r] \in Key
  BY PipelineAssumption
<1>2. pending[r]
  BY DEF Decide, OneOpenReview, Undecided
<1>3. Holder(KeyOf[r]) = r
  BY <1>2, HolderIs
<1>4. ~pending'[r] /\ \A q \in Request \ {r} : pending'[q] = pending[q]
  BY DEF Decide, TypeOK
<1>5. Holder(KeyOf[r])' = Nobody
  BY <1>2, <1>4 DEF Holder, OneOpenReview
<1>6. ASSUME NEW k \in Key, k # KeyOf[r] PROVE Holder(k)' = Holder(k)
  <2>1. \A q \in Request : (pending'[q] /\ KeyOf[q] = k) <=> (pending[q] /\ KeyOf[q] = k)
    BY <1>4, <1>6
  <2>. QED BY <2>1 DEF Holder
<1>7. [k \in Key |-> Holder(k)]' = [[k \in Key |-> Holder(k)] EXCEPT ![KeyOf[r]] = Nobody]
  BY <1>1, <1>5, <1>6
<1>8. Desk!Judge(r, t)
  BY <1>1, <1>3, <1>7 DEF Desk!Judge, Decide, Decidable
<1>. QED BY <1>8 DEF Desk!Next

LEMMA DeskAssesses ==
  ASSUME TypeOK, NEW r \in Request, NEW s \in Decidable,
         SetIfQueued(r, s), UNCHANGED <<pending, reviewer>>
  PROVE  Desk!Next \/ UNCHANGED Desk!dvars
<1>1. [k \in Key |-> Holder(k)]' = [k \in Key |-> Holder(k)]
  BY DEF Holder
<1>2. CASE review[r] = "queued"
  <2>1. Desk!Assess(r)
    BY <1>1, <1>2 DEF Desk!Assess, SetIfQueued, Decidable
  <2>. QED BY <2>1 DEF Desk!Next
<1>3. CASE review[r] # "queued"
  <2>1. review' = review
    BY <1>3 DEF SetIfQueued, TypeOK
  <2>. QED BY <1>1, <2>1 DEF Desk!dvars
<1>. QED BY <1>2, <1>3

(* The review desk: reviews only move forward, are assessed once, decided   *)
(* once and by one teacher, and a day has one open review, whatever is      *)
(* repeated, executed twice, lost or crashes.                               *)
THEOREM DeskRefinement == Spec => ImplementsDesk
<1>1. Init => Desk!Init
  <2>1. ASSUME Init PROVE [k \in Key |-> Holder(k)] = [k \in Key |-> Nobody]
    BY <2>1 DEF Init, Holder
  <2>. QED BY <2>1 DEF Init, Desk!Init
<1>2. TypeOK /\ OneOpenReview /\ OneOpenReview' /\ [Next]_vars => [Desk!Next]_Desk!dvars
  <2> SUFFICES ASSUME TypeOK, OneOpenReview, OneOpenReview', [Next]_vars
               PROVE  Desk!Next \/ UNCHANGED Desk!dvars
    OBVIOUS
  <2>1. CASE UNCHANGED rows
    BY <2>1 DEF rows, Desk!dvars, Holder
  <2>. QED BY <2>1, RowSteps, DeskSubmits, DeskAssesses, DeskDecides DEF RowStep
<1>. QED
  BY <1>1, <1>2, PipelineTypes, OneOpenReviewHolds, PTL DEF Spec, ImplementsDesk, Desk!Spec

----------------------------------------------------------------------------
(* The executions.  A job that may run again has attempts and stalls left;  *)
(* an execution's number is at most the number of executions that threw.    *)

Owners ==
  /\ \A v, w \in Runner :
       /\ runner[v].lock = "held" /\ runner[w].lock = "held"
       /\ runner[v].req = runner[w].req
       => v = w
  /\ \A w \in Runner : runner[w].lock = "held" =>
       /\ job[runner[w].req].state = "active"
       /\ job[runner[w].req].made = runner[w].made

Spare ==
  \A r \in Request :
    /\ job[r].state # "failed" => job[r].made < MaxTries /\ job[r].stalls <= MaxStalls
    /\ job[r].made <= MaxTries /\ job[r].stalls <= MaxStalls + 1

Counted ==
  /\ \A r \in Request : job[r].made <= tries[r]
  /\ \A w \in Runner : runner[w].pc # "free" =>
       /\ runner[w].made < MaxTries /\ runner[w].made <= tries[runner[w].req]
       /\ runner[w].pc \in {"mark", "throw"} =>
            runner[w].made + 1 <= tries[runner[w].req]
       /\ runner[w].pc = "mark" => runner[w].made + 1 >= MaxTries

ExecInv == TypeOK /\ Owners /\ Spare /\ Counted /\ TriedBeforeTeacher

LEMMA AddKeeps ==
  ASSUME ExecInv, NEW r \in Request, Add(r), UNCHANGED <<review, runner, tries>>
  PROVE  Owners' /\ Spare' /\ Counted' /\ TriedBeforeTeacher'
<1> USE PipelineAssumption DEF ExecInv
<1>1. /\ \A q \in Request : job[q].state # "none" => job'[q] = job[q]
      /\ \A q \in Request : job'[q] = job[q]
           \/ (job'[q].state = "waiting" /\ job'[q].made = 0 /\ job'[q].stalls = 0)
  BY DEF Add, NewJob, NoJob, TypeOK
<1>2. \A w \in Runner : runner[w].lock = "held" => runner[w].req \in Request
  BY DEF TypeOK
<1>3. Owners'
  BY <1>1, <1>2 DEF Owners
<1>4. Spare'
  BY <1>1 DEF Spare, TypeOK
<1>5. Counted'
  BY <1>1 DEF Counted, TypeOK
<1>. QED BY <1>3, <1>4, <1>5 DEF TriedBeforeTeacher

(* One slot changes its program counter and nothing else.                   *)
LEMMA MoveKeepsOwners ==
  ASSUME ExecInv, NEW w \in Runner, UNCHANGED job,
         NEW p \in {"start", "assess", "done", "mark", "throw"},
         runner' = [runner EXCEPT ![w].pc = p]
  PROVE  Owners' /\ Spare'
<1>1. \A v \in Runner : /\ runner'[v].lock = runner[v].lock
                        /\ runner'[v].req = runner[v].req /\ runner'[v].made = runner[v].made
  BY DEF ExecInv, TypeOK
<1>. QED BY <1>1 DEF ExecInv, Owners, Spare

LEMMA ExecKept ==
  ASSUME ExecInv, TypeOK', [Next]_vars
  PROVE  ExecInv'
<1> SUFFICES Owners' /\ Spare' /\ Counted' /\ TriedBeforeTeacher'
  BY DEF ExecInv
<1> DEFINE Goal == Owners' /\ Spare' /\ Counted' /\ TriedBeforeTeacher'
<1> USE PipelineAssumption
<1>1. ASSUME UNCHANGED <<job, runner, tries>>,
             \A r \in Request : review'[r] = "needs_teacher" => review[r] = "needs_teacher"
      PROVE  Goal
  BY <1>1 DEF ExecInv, Owners, Spare, Counted, TriedBeforeTeacher
<1>2. ASSUME NEW c \in Client, ClientStep(c) PROVE Goal
  <2>1. client[c].pc = "insert" => client[c].req \in Request
    BY DEF ExecInv, TypeOK
  <2>. QED BY <1>1, <1>2, <2>1 DEF ClientStep, Submit, Insert, Duplicate, EnqueueOrWait,
              rows, ExecInv, TypeOK
<1>3. ASSUME NEW r \in Request, AddLands(r) \/ SweepAdd(r) PROVE Goal
  BY <1>3, AddKeeps DEF AddLands, SweepAdd, rows
<1>4. ASSUME NEW r \in Request, AddFails(r) PROVE Goal
  BY <1>1, <1>4 DEF AddFails, rows
<1>5. ASSUME SweepRead \/ SweepFails \/ ApiCrash PROVE Goal
  BY <1>1, <1>5 DEF SweepRead, SweepFails, ApiCrash, rows
<1>6. ASSUME NEW r \in Request, NEW t \in Teacher, Decide(r, t) PROVE Goal
  BY <1>1, <1>6 DEF Decide, ExecInv, TypeOK
<1>7. ASSUME NEW r \in Request, StartJob(r) PROVE Goal
  <2>1. PICK w \in Runner :
          /\ runner[w].pc = "free"
          /\ runner' = [runner EXCEPT ![w] =
               [pc |-> "start", req |-> r, made |-> job[r].made, lock |-> "held"]]
    BY <1>7 DEF StartJob
  <2>2. /\ job[r].state = "waiting" /\ job'[r].state = "active"
        /\ job'[r].made = job[r].made /\ job'[r].stalls = job[r].stalls
        /\ \A q \in Request \ {r} : job'[q] = job[q]
    BY <1>7 DEF StartJob, ExecInv, TypeOK
  <2>3. /\ runner'[w] = [pc |-> "start", req |-> r, made |-> job[r].made, lock |-> "held"]
        /\ \A v \in Runner \ {w} : runner'[v] = runner[v]
    BY <2>1 DEF ExecInv, TypeOK
  <2>4. \A v \in Runner : runner[v].lock = "held" => runner[v].req \in Request \ {r}
    BY <2>2 DEF ExecInv, Owners, TypeOK
  <2>5. Owners'
    BY <2>2, <2>3, <2>4 DEF ExecInv, Owners
  <2>6. Spare'
    BY <2>2 DEF ExecInv, Spare
  <2>7. UNCHANGED <<review, tries>>
    BY <1>7 DEF StartJob, rows
  <2>8. Counted'
    BY <2>2, <2>3, <2>7 DEF ExecInv, Counted, Spare
  <2>. QED BY <2>5, <2>6, <2>7, <2>8 DEF ExecInv, TriedBeforeTeacher
<1>8. ASSUME NEW w \in Runner, RunReads(w) PROVE Goal
  <2>1. PICK p \in {"assess", "done"} : runner' = [runner EXCEPT ![w].pc = p]
    BY <1>8 DEF RunReads
  <2>2. UNCHANGED <<review, job, tries>> /\ runner[w].pc = "start"
    BY <1>8 DEF RunReads, rows
  <2>3. Owners' /\ Spare'
    BY <2>1, <2>2, MoveKeepsOwners
  <2>4. Counted'
    BY <2>1, <2>2 DEF ExecInv, Counted, TypeOK
  <2>. QED BY <2>2, <2>3, <2>4 DEF ExecInv, TriedBeforeTeacher
<1>9. ASSUME NEW w \in Runner, RunAssesses(w) PROVE Goal
  <2>1. /\ runner' = [runner EXCEPT ![w].pc = "done"]
        /\ UNCHANGED <<job, tries>> /\ runner[w].pc = "assess"
    BY <1>9 DEF RunAssesses
  <2>2. Owners' /\ Spare'
    BY <2>1, MoveKeepsOwners
  <2>3. Counted'
    BY <2>1 DEF ExecInv, Counted, TypeOK
  <2>4. TriedBeforeTeacher'
    BY <1>9, <2>1 DEF RunAssesses, SetIfQueued, ExecInv, TriedBeforeTeacher, TypeOK
  <2>. QED BY <2>2, <2>3, <2>4
<1>10. ASSUME NEW w \in Runner, RunThrows(w) PROVE Goal
  <2>1. PICK p \in {"mark", "throw"} :
          /\ runner' = [runner EXCEPT ![w].pc = p]
          /\ p = "mark" => LastTry(w)
    BY <1>10 DEF RunThrows
  <2>2. /\ UNCHANGED <<review, job>> /\ runner[w].pc # "free"
        /\ runner[w].req \in Request
    BY <1>10 DEF RunThrows, rows, ExecInv, TypeOK
  <2>3. /\ tries'[runner[w].req] = IF tries[runner[w].req] < MaxTries
                                   THEN tries[runner[w].req] + 1 ELSE tries[runner[w].req]
        /\ \A q \in Request : q # runner[w].req => tries'[q] = tries[q]
        /\ \A q \in Request : tries[q] \in 0 .. MaxTries
    BY <1>10, <2>2 DEF RunThrows, ExecInv, TypeOK
  <2>4. Owners' /\ Spare'
    BY <2>1, <2>2, MoveKeepsOwners
  <2>5. \A v \in Runner : /\ runner'[v].req = runner[v].req
                          /\ runner'[v].made = runner[v].made
                          /\ v # w => runner'[v].pc = runner[v].pc
    BY <2>1 DEF ExecInv, TypeOK
  <2>6. runner'[w].pc = p /\ runner[w].made \in Nat /\ MaxTries \in Nat
    BY <2>1 DEF ExecInv, TypeOK
  <2>7. \A q \in Request : tries'[q] >= tries[q]
    BY <2>3
  <2>8. \A q \in Request : job[q].made \in Nat /\ tries'[q] \in Nat
    BY DEF ExecInv, TypeOK
  <2>9. \A q \in Request : job'[q].made <= tries'[q]
    BY <2>2, <2>3, <2>7, <2>8 DEF ExecInv, Counted
  <2>10. ASSUME NEW v \in Runner, runner'[v].pc # "free"
         PROVE  /\ runner'[v].made < MaxTries /\ runner'[v].made <= tries'[runner'[v].req]
                /\ runner'[v].pc \in {"mark", "throw"} =>
                     runner'[v].made + 1 <= tries'[runner'[v].req]
                /\ runner'[v].pc = "mark" => runner'[v].made + 1 >= MaxTries
    <3>1. CASE v = w
      <4>1. runner[w].made < MaxTries /\ runner[w].made <= tries[runner[w].req]
        BY <2>2 DEF ExecInv, Counted
      <4>2. runner[w].made + 1 <= tries'[runner[w].req]
        BY <2>2, <2>3, <2>6, <4>1
      <4>3. runner[w].made <= tries'[runner[w].req]
        BY <2>2, <2>6, <2>8, <4>2
      <4>4. p = "mark" => runner[w].made + 1 >= MaxTries
        BY <2>1 DEF LastTry
      <4>. QED BY <2>5, <2>6, <3>1, <4>1, <4>2, <4>3, <4>4
    <3>2. CASE v # w
      <4>1. runner[v].pc # "free" /\ runner[v].req \in Request /\ runner[v].made \in Nat
        BY <2>5, <2>10, <3>2 DEF ExecInv, TypeOK
      <4>2. tries'[runner[v].req] >= tries[runner[v].req]
            /\ tries[runner[v].req] \in Nat /\ tries'[runner[v].req] \in Nat
        BY <2>3, <2>7, <2>8, <4>1
      <4>3. /\ runner[v].made < MaxTries /\ runner[v].made <= tries[runner[v].req]
            /\ runner[v].pc \in {"mark", "throw"} =>
                 runner[v].made + 1 <= tries[runner[v].req]
            /\ runner[v].pc = "mark" => runner[v].made + 1 >= MaxTries
        BY <4>1 DEF ExecInv, Counted
      <4>. QED BY <2>5, <3>2, <4>1, <4>2, <4>3
    <3>. QED BY <3>1, <3>2
  <2>11. Counted'
    BY <2>9, <2>10 DEF Counted
  <2>12. TriedBeforeTeacher'
    BY <2>2, <2>3, <2>7, <2>8 DEF ExecInv, TriedBeforeTeacher
  <2>. QED BY <2>4, <2>11, <2>12
<1>11. ASSUME NEW w \in Runner, MarkNeedsTeacher(w) PROVE Goal
  <2>1. /\ runner' = [runner EXCEPT ![w].pc = "throw"]
        /\ UNCHANGED <<job, tries>> /\ runner[w].pc = "mark"
        /\ runner[w].req \in Request
    BY <1>11 DEF MarkNeedsTeacher, ExecInv, TypeOK
  <2>2. Owners' /\ Spare'
    BY <2>1, MoveKeepsOwners
  <2>3. Counted'
    BY <2>1 DEF ExecInv, Counted, TypeOK
  <2>4. tries[runner[w].req] = MaxTries
    <3>1. runner[w].made + 1 <= tries[runner[w].req] /\ runner[w].made + 1 >= MaxTries
      BY <2>1 DEF ExecInv, Counted
    <3>2. tries[runner[w].req] \in 0 .. MaxTries /\ runner[w].made \in Nat
      BY <2>1 DEF ExecInv, TypeOK
    <3>. QED BY <3>1, <3>2
  <2>5. TriedBeforeTeacher'
    BY <1>11, <2>1, <2>4
    DEF MarkNeedsTeacher, SetIfQueued, ExecInv, TriedBeforeTeacher, TypeOK
  <2>. QED BY <2>2, <2>3, <2>5
<1>12. ASSUME NEW w \in Runner, MarkThrows(w) PROVE Goal
  <2>1. /\ runner' = [runner EXCEPT ![w].pc = "throw"]
        /\ UNCHANGED <<review, job, tries>> /\ runner[w].pc = "mark"
    BY <1>12 DEF MarkThrows, rows
  <2>2. Owners' /\ Spare'
    BY <2>1, MoveKeepsOwners
  <2>3. Counted'
    BY <2>1 DEF ExecInv, Counted, TypeOK
  <2>. QED BY <2>1, <2>2, <2>3 DEF ExecInv, TriedBeforeTeacher
(* A slot is freed, and the job it owned goes on.                            *)
<1>13. ASSUME NEW w \in Runner, runner[w].pc # "free", runner' = [runner EXCEPT ![w] = Free],
              UNCHANGED <<review, tries>>,
              \/ job' = job
              \/ /\ runner[w].lock = "held"
                 /\ job'[runner[w].req].made <= tries[runner[w].req]
                 /\ job'[runner[w].req].made <= MaxTries
                 /\ job'[runner[w].req].state # "failed" => job'[runner[w].req].made < MaxTries
                 /\ job'[runner[w].req].stalls <= job[runner[w].req].stalls
                 /\ \A q \in Request : q # runner[w].req => job'[q] = job[q]
       PROVE  Goal
  <2>1. /\ runner'[w] = Free /\ \A v \in Runner \ {w} : runner'[v] = runner[v]
        /\ runner[w].req \in Request
    BY <1>13 DEF ExecInv, TypeOK
  <2>2. ASSUME NEW v \in Runner, runner'[v].lock = "held"
        PROVE  /\ v # w /\ runner'[v] = runner[v] /\ runner[v].req \in Request
               /\ job'[runner[v].req] = job[runner[v].req]
    BY <1>13, <2>1, <2>2 DEF Free, ExecInv, Owners, TypeOK
  <2>3. Owners'
    BY <2>2 DEF ExecInv, Owners
  <2>4. Spare'
    <3>1. runner[w].lock = "held" => job[runner[w].req].stalls <= MaxStalls
      BY <2>1 DEF ExecInv, Owners, Spare
    <3>2. /\ job[runner[w].req].stalls \in Nat /\ job'[runner[w].req].stalls \in Nat
          /\ MaxStalls \in Nat
      BY <2>1 DEF ExecInv, TypeOK
    <3>. QED BY <1>13, <2>1, <3>1, <3>2 DEF ExecInv, Spare
  <2>5. Counted'
    BY <1>13, <2>1 DEF ExecInv, Counted, Free
  <2>. QED BY <1>13, <2>3, <2>4, <2>5 DEF ExecInv, TriedBeforeTeacher
<1>14. ASSUME NEW w \in Runner, JobCompletes(w) PROVE Goal
  <2>1. runner[w].pc # "free" /\ runner[w].req \in Request
    BY <1>14 DEF JobCompletes, ExecInv, TypeOK
  <2>2. /\ runner' = [runner EXCEPT ![w] = Free] /\ UNCHANGED <<review, tries>>
        /\ runner[w].lock # "held" => job' = job
        /\ runner[w].lock = "held" => job' = [job EXCEPT ![runner[w].req] = NoJob]
    BY <1>14 DEF JobCompletes, rows
  <2>3. tries[runner[w].req] \in Nat /\ job[runner[w].req].stalls \in Nat
        /\ MaxTries \in Nat \ {0}
    BY <2>1 DEF ExecInv, TypeOK
  <2>4. CASE runner[w].lock = "held"
    <3>1. /\ job'[runner[w].req] = NoJob
          /\ \A q \in Request : q # runner[w].req => job'[q] = job[q]
      BY <2>1, <2>2, <2>4 DEF ExecInv, TypeOK
    <3>2. /\ job'[runner[w].req].made <= tries[runner[w].req]
          /\ job'[runner[w].req].made < MaxTries /\ job'[runner[w].req].made <= MaxTries
          /\ job'[runner[w].req].stalls <= job[runner[w].req].stalls
      BY <2>3, <3>1 DEF NoJob
    <3>. QED BY <1>13, <2>1, <2>2, <2>4, <3>1, <3>2
  <2>. QED BY <1>13, <2>1, <2>2, <2>4
<1>15. ASSUME NEW w \in Runner, JobFails(w) PROVE Goal
  <2>1. runner[w].pc = "throw" /\ runner[w].req \in Request
    BY <1>15 DEF JobFails, ExecInv, TypeOK
  <2>2. runner' = [runner EXCEPT ![w] = Free] /\ UNCHANGED <<review, tries>>
        /\ (runner[w].lock # "held" => job' = job)
    BY <1>15 DEF JobFails, rows
  <2>3. CASE runner[w].lock = "held"
    <3>1. /\ job'[runner[w].req].made = job[runner[w].req].made + 1
          /\ job'[runner[w].req].stalls = job[runner[w].req].stalls
          /\ job'[runner[w].req].state = IF job[runner[w].req].made + 1 >= MaxTries
                                         THEN "failed" ELSE "delayed"
          /\ \A q \in Request : q # runner[w].req => job'[q] = job[q]
      BY <1>15, <2>1, <2>3 DEF JobFails, ExecInv, TypeOK
    <3>2. /\ job[runner[w].req].made = runner[w].made
          /\ runner[w].made + 1 <= tries[runner[w].req] /\ runner[w].made < MaxTries
      BY <2>1, <2>3 DEF ExecInv, Owners, Counted
    <3>3. runner[w].made \in Nat /\ job[runner[w].req].stalls \in Nat /\ MaxTries \in Nat
      BY <2>1 DEF ExecInv, TypeOK
    <3>4. /\ job'[runner[w].req].made <= tries[runner[w].req]
          /\ job'[runner[w].req].made <= MaxTries
          /\ job'[runner[w].req].state # "failed" => job'[runner[w].req].made < MaxTries
          /\ job'[runner[w].req].stalls <= job[runner[w].req].stalls
      BY <3>1, <3>2, <3>3
    <3>5. runner[w].pc # "free"
      BY <2>1
    <3>. QED BY <1>13, <2>2, <2>3, <3>1, <3>4, <3>5
  <2>. QED BY <1>13, <2>1, <2>2, <2>3
<1>16. ASSUME NEW r \in Request, BackoffOver(r) PROVE Goal
  <2>1. /\ job[r].state = "delayed" /\ job'[r].state = "waiting"
        /\ job'[r].made = job[r].made /\ job'[r].stalls = job[r].stalls
        /\ \A q \in Request \ {r} : job'[q] = job[q]
        /\ UNCHANGED <<review, runner, tries>>
    BY <1>16 DEF BackoffOver, rows, ExecInv, TypeOK
  <2>2. Owners'
    <3>1. \A w \in Runner : runner[w].lock = "held" => runner[w].req \in Request \ {r}
      BY <2>1 DEF ExecInv, Owners, TypeOK
    <3>. QED BY <2>1, <3>1 DEF ExecInv, Owners
  <2>3. Spare' /\ Counted'
    BY <2>1 DEF ExecInv, Spare, Counted
  <2>. QED BY <2>1, <2>2, <2>3 DEF ExecInv, TriedBeforeTeacher
<1>17. ASSUME NEW r \in Request, Forget(r) PROVE Goal
  <2>1. /\ job[r].state = "failed" /\ job'[r] = NoJob
        /\ \A q \in Request \ {r} : job'[q] = job[q]
        /\ UNCHANGED <<review, runner, tries>>
    BY <1>17 DEF Forget, rows, ExecInv, TypeOK
  <2>2. Owners'
    <3>1. \A w \in Runner : runner[w].lock = "held" => runner[w].req \in Request \ {r}
      BY <2>1 DEF ExecInv, Owners, TypeOK
    <3>. QED BY <2>1, <3>1 DEF ExecInv, Owners
  <2>3. Spare'
    BY <2>1 DEF ExecInv, Spare, NoJob
  <2>4. Counted'
    BY <2>1 DEF ExecInv, Counted, NoJob, TypeOK
  <2>. QED BY <2>1, <2>2, <2>3, <2>4 DEF ExecInv, TriedBeforeTeacher
(* Slots lose locks and nothing else, or are freed.                          *)
<1>18. ASSUME UNCHANGED <<review, tries>>,
              \A v \in Runner : runner'[v] = Free \/
                /\ runner'[v].pc = runner[v].pc /\ runner'[v].req = runner[v].req
                /\ runner'[v].made = runner[v].made
       PROVE  job' = job => Counted' /\ Spare' /\ TriedBeforeTeacher'
  BY <1>18 DEF ExecInv, Counted, Spare, TriedBeforeTeacher, Free
<1>19. ASSUME NEW w \in Runner, LockLost(w) PROVE Goal
  <2>1. /\ UNCHANGED <<review, tries, job>>
        /\ \A v \in Runner : /\ runner'[v].pc = runner[v].pc /\ runner'[v].req = runner[v].req
                             /\ runner'[v].made = runner[v].made
                             /\ runner'[v].lock = "held" => runner[v].lock = "held"
    BY <1>19 DEF LockLost, rows, ExecInv, TypeOK
  <2>2. Owners'
    BY <2>1 DEF ExecInv, Owners
  <2>. QED BY <1>18, <2>1, <2>2
<1>20. ASSUME NEW r \in Request, Stalled(r) PROVE Goal
  <2>1. /\ job[r].state = "active" /\ ~Owned(r)
        /\ job'[r] = [state |-> IF job[r].stalls >= MaxStalls THEN "failed" ELSE "waiting",
                      made |-> job[r].made, stalls |-> job[r].stalls + 1]
        /\ \A q \in Request \ {r} : job'[q] = job[q]
        /\ UNCHANGED <<review, runner, tries>>
    BY <1>20 DEF Stalled, rows, ExecInv, TypeOK
  <2>2. Owners'
    BY <2>1 DEF ExecInv, Owners, TypeOK, Owned
  <2>3. Counted'
    BY <2>1 DEF ExecInv, Counted
  <2>4. job[r].made < MaxTries /\ job[r].stalls <= MaxStalls /\ job[r].stalls \in Nat
        /\ MaxStalls \in Nat /\ job[r].made \in Nat
    BY <2>1 DEF ExecInv, Spare, TypeOK
  <2>5. Spare'
    BY <2>1, <2>4 DEF ExecInv, Spare
  <2>. QED BY <2>1, <2>2, <2>3, <2>5 DEF ExecInv, TriedBeforeTeacher
<1>21. ASSUME WorkerCrash PROVE Goal
  <2>1. UNCHANGED <<review, tries, job>> /\ \A v \in Runner : runner'[v] = Free
    BY <1>21 DEF WorkerCrash, rows
  <2>2. Owners'
    BY <2>1 DEF Owners, Free
  <2>. QED BY <1>18, <2>1, <2>2
<1>22. ASSUME NEW r \in Request, JobLost(r) PROVE Goal
  <2>1. /\ job'[r] = NoJob /\ \A q \in Request \ {r} : job'[q] = job[q]
        /\ UNCHANGED <<review, tries>>
    BY <1>22 DEF JobLost, rows, ExecInv, TypeOK
  <2>2. \A v \in Runner : /\ runner'[v].pc = runner[v].pc /\ runner'[v].req = runner[v].req
                          /\ runner'[v].made = runner[v].made
                          /\ runner'[v].lock = "held" =>
                               runner[v].lock = "held" /\ runner[v].req # r
    BY <1>22 DEF JobLost, ExecInv, TypeOK
  <2>3. Owners'
    BY <2>1, <2>2 DEF ExecInv, Owners, TypeOK
  <2>4. Spare'
    BY <2>1 DEF ExecInv, Spare, NoJob
  <2>5. Counted'
    BY <2>1, <2>2 DEF ExecInv, Counted, NoJob, TypeOK
  <2>. QED BY <2>1, <2>3, <2>4, <2>5 DEF ExecInv, TriedBeforeTeacher
<1>23. CASE UNCHANGED vars
  BY <1>1, <1>23 DEF vars
<1>. QED
  BY <1>2, <1>3, <1>4, <1>5, <1>6, <1>7, <1>8, <1>9, <1>10, <1>11, <1>12, <1>14, <1>15,
     <1>16, <1>17, <1>19, <1>20, <1>21, <1>22, <1>23 DEF Next, JobStep, RunnerStep

THEOREM ExecInvariant == Spec => []ExecInv
<1>1. Init => ExecInv
  <2> SUFFICES ASSUME Init PROVE Owners /\ Spare /\ Counted /\ TriedBeforeTeacher /\ TypeOK
    BY DEF ExecInv
  <2>1. TypeOK
    BY PipelineAssumption DEF Init, TypeOK, NoJob, Status, Free
  <2>. QED BY <2>1, PipelineAssumption
    DEF Init, Owners, Spare, Counted, TriedBeforeTeacher, NoJob, Free
<1>2. ExecInv /\ TypeOK' /\ [Next]_vars => ExecInv'
  BY ExecKept
<1>. QED BY <1>1, <1>2, PipelineTypes, PTL DEF Spec

(* A job's lock has one owner, which is its current attempt, whatever        *)
(* stalls, crashes and is lost.                                              *)
THEOREM OneOwnerHolds == Spec => []OneOwner
<1>1. ExecInv => OneOwner
  BY DEF ExecInv, Owners, Spare, OneOwner
<1>. QED BY <1>1, ExecInvariant, PTL

(* The teacher is given a review as failed only when as many executions have *)
(* thrown as a job has attempts: the count in createReviewJobProcessor.      *)
THEOREM TriedBeforeTeacherHolds == Spec => []TriedBeforeTeacher
<1>1. ExecInv => TriedBeforeTeacher
  BY DEF ExecInv
<1>. QED BY <1>1, ExecInvariant, PTL

----------------------------------------------------------------------------
(* Recovery.  A job fails for good only after its review was handed over,   *)
(* when the catch of the last attempt reaches the database and there is not *)
(* more trouble than BullMQ makes good.                                     *)

Settled(r) == review[r] \notin {"none", "queued"}

(* Nothing is done for a submission that does not exist yet.                *)
Known ==
  /\ \A c \in Client : client[c].pc = "enqueue" => review[client[c].req] # "none"
  /\ \A r \in adds \union sweep : review[r] # "none"
  /\ \A r \in Request : job[r].state # "none" => review[r] # "none"
  /\ \A w \in Runner : runner[w].pc # "free" => review[runner[w].req] # "none"

Handed ==
  \A w \in Runner : runner[w].pc = "throw" /\ runner[w].made + 1 >= MaxTries =>
    Settled(runner[w].req)

Buried == \A r \in Request : job[r].state = "failed" => Settled(r)

(* Each stall is paid for by a trouble.                                     *)
Strained ==
  \A r \in Request :
    /\ job[r].stalls <= trouble
    /\ job[r].state = "active" /\ ~Owned(r) => job[r].stalls + 1 <= trouble

RecoveryInv == ExecInv /\ Known /\ Handed /\ Buried /\ Strained

LEMMA ReviewForward ==
  ASSUME TypeOK, [Next]_vars
  PROVE  \A r \in Request : /\ review[r] # "none" => review'[r] # "none"
                            /\ Settled(r) => Settled(r)'
<1>1. CASE UNCHANGED rows
  BY <1>1 DEF rows, Settled
<1>2. ASSUME NEW c \in Client, Insert(c)
      PROVE  \A r \in Request : /\ review[r] # "none" => review'[r] # "none"
                                /\ Settled(r) => Settled(r)'
  BY <1>2 DEF Insert, TypeOK, Settled
<1>3. ASSUME NEW q \in Request, NEW s \in Decidable, SetIfQueued(q, s)
      PROVE  \A r \in Request : /\ review[r] # "none" => review'[r] # "none"
                                /\ Settled(r) => Settled(r)'
  BY <1>3 DEF SetIfQueued, TypeOK, Settled, Decidable
<1>4. ASSUME NEW q \in Request, NEW t \in Teacher, Decide(q, t)
      PROVE  \A r \in Request : /\ review[r] # "none" => review'[r] # "none"
                                /\ Settled(r) => Settled(r)'
  BY <1>4 DEF Decide, TypeOK, Settled
<1>. QED BY <1>1, <1>2, <1>3, <1>4, RowSteps DEF RowStep

(* What a step does to the jobs: which may appear, fail or be started.      *)
LEMMA JobsKnown ==
  ASSUME TypeOK, TypeOK', Known, [Next]_vars
  PROVE  \A r \in Request : job'[r].state # "none" => review[r] # "none"
<1> DEFINE Goal == \A r \in Request : job'[r].state # "none" => review[r] # "none"
<1>1. CASE UNCHANGED job
  BY <1>1 DEF Known
<1>2. ASSUME NEW r \in Request, review[r] # "none",
             \A q \in Request \ {r} : job'[q] = job[q] \/ job'[q].state = "none"
      PROVE  Goal
  BY <1>2 DEF Known
<1>3. ASSUME NEW r \in Request, JobStep(r) PROVE Goal
  <2>1. CASE AddLands(r) \/ SweepAdd(r)
    BY <1>2, <2>1 DEF AddLands, SweepAdd, Add, Known, TypeOK
  <2>2. CASE StartJob(r) \/ BackoffOver(r) \/ Forget(r) \/ Stalled(r) \/ JobLost(r)
    <3>1. job[r].state # "none" /\ \A q \in Request \ {r} : job'[q] = job[q]
      BY <2>2 DEF StartJob, BackoffOver, Forget, Stalled, JobLost, TypeOK
    <3>. QED BY <1>2, <3>1 DEF Known
  <2>3. CASE AddFails(r) \/ \E t \in Teacher : Decide(r, t)
    BY <1>1, <2>3 DEF AddFails, Decide
  <2>. QED BY <1>3, <2>1, <2>2, <2>3 DEF JobStep
<1>4. ASSUME NEW w \in Runner, JobCompletes(w) \/ JobFails(w) PROVE Goal
  <2>1. runner[w].req \in Request /\ review[runner[w].req] # "none"
    BY <1>4 DEF JobCompletes, JobFails, TypeOK, Known
  <2>2. \A q \in Request \ {runner[w].req} : job'[q] = job[q]
    BY <1>4, <2>1 DEF JobCompletes, JobFails, TypeOK
  <2>. QED BY <1>2, <2>1, <2>2
<1>5. ASSUME NEW w \in Runner, RunnerStep(w) PROVE Goal
  BY <1>1, <1>4, <1>5 DEF RunnerStep, RunReads, RunAssesses, RunThrows,
     MarkNeedsTeacher, MarkThrows, LockLost
<1>6. ASSUME NEW c \in Client, ClientStep(c) PROVE Goal
  BY <1>1, <1>6 DEF ClientStep, Submit, Insert, Duplicate, EnqueueOrWait
<1>7. CASE SweepRead \/ SweepFails \/ ApiCrash \/ WorkerCrash \/ UNCHANGED vars
  BY <1>1, <1>7 DEF SweepRead, SweepFails, ApiCrash, WorkerCrash, vars
<1>. QED BY <1>3, <1>5, <1>6, <1>7 DEF Next

LEMMA RunnersKnown ==
  ASSUME TypeOK, Known, [Next]_vars
  PROVE  \A w \in Runner : runner'[w].pc # "free" => review[runner'[w].req] # "none"
<1> DEFINE Goal == \A w \in Runner : runner'[w].pc # "free" => review[runner'[w].req] # "none"
<1>1. ASSUME \A w \in Runner : runner'[w].pc = "free" \/
               (runner[w].pc # "free" /\ runner'[w].req = runner[w].req)
      PROVE  Goal
  BY <1>1 DEF Known
<1>2. CASE UNCHANGED runner
  BY <1>2 DEF Known
<1>3. ASSUME NEW r \in Request, JobStep(r) PROVE Goal
  <2>1. CASE StartJob(r)
    <3>1. review[r] # "none"
      BY <2>1 DEF StartJob, Known
    <3>. QED BY <2>1, <3>1 DEF StartJob, TypeOK, Known
  <2>2. CASE JobLost(r)
    <3>1. \A w \in Runner : runner'[w].pc = runner[w].pc /\ runner'[w].req = runner[w].req
      BY <2>2 DEF JobLost, TypeOK
    <3>. QED BY <3>1 DEF Known
  <2>. QED BY <1>2, <1>3, <2>1, <2>2 DEF JobStep, AddLands, SweepAdd, AddFails,
              BackoffOver, Forget, Stalled, Decide
<1>4. ASSUME NEW w \in Runner, RunnerStep(w) PROVE Goal
  <2>1. CASE JobCompletes(w) \/ JobFails(w)
    <3>1. runner'[w].pc = "free" /\ \A v \in Runner \ {w} : runner'[v] = runner[v]
      BY <2>1 DEF JobCompletes, JobFails, Free, TypeOK
    <3>. QED BY <3>1 DEF Known
  <2>2. CASE ~(JobCompletes(w) \/ JobFails(w))
    <3>1. /\ runner[w].pc # "free" /\ runner'[w].req = runner[w].req
          /\ \A v \in Runner \ {w} : runner'[v] = runner[v]
      BY <1>4, <2>2 DEF RunnerStep, RunReads, RunAssesses, RunThrows,
         MarkNeedsTeacher, MarkThrows, LockLost, TypeOK
    <3>. QED BY <3>1 DEF Known
  <2>. QED BY <2>1, <2>2
<1>5. ASSUME NEW c \in Client, ClientStep(c) PROVE Goal
  BY <1>2, <1>5 DEF ClientStep, Submit, Insert, Duplicate, EnqueueOrWait
<1>6. CASE WorkerCrash
  BY <1>1, <1>6 DEF WorkerCrash, Free
<1>7. CASE SweepRead \/ SweepFails \/ ApiCrash \/ UNCHANGED vars
  BY <1>2, <1>7 DEF SweepRead, SweepFails, ApiCrash, vars
<1>. QED BY <1>3, <1>4, <1>5, <1>6, <1>7 DEF Next

LEMMA KnownKept ==
  ASSUME TypeOK, TypeOK', Known, [Next]_vars
  PROVE  Known'
<1>1. \A r \in Request : review[r] # "none" => review'[r] # "none"
  BY ReviewForward
<1>2. \A r \in Request : job'[r].state # "none" => review'[r] # "none"
  BY <1>1, JobsKnown
<1>3. \A w \in Runner : runner'[w].pc # "free" => review'[runner'[w].req] # "none"
  BY <1>1, RunnersKnown DEF TypeOK
<1>4. \A r \in adds' \union sweep' : review[r] # "none"
  <2> DEFINE Goal == \A r \in adds' \union sweep' : review[r] # "none"
  <2>1. CASE adds' \subseteq adds /\ sweep' \subseteq sweep
    BY <2>1 DEF Known
  <2>2. CASE SweepRead
    BY <2>2 DEF SweepRead, api, Known
  <2>3. ASSUME NEW c \in Client, ClientStep(c) PROVE Goal
    BY <2>1, <2>3 DEF ClientStep, Submit, Insert, Duplicate, EnqueueOrWait, Known
  <2>4. ASSUME NEW r \in Request, JobStep(r) PROVE Goal
    BY <2>1, <2>4 DEF JobStep, AddLands, AddFails, SweepAdd, StartJob, BackoffOver,
       Forget, Stalled, JobLost, Decide, api
  <2>5. ASSUME NEW w \in Runner, RunnerStep(w) PROVE Goal
    BY <2>1, <2>5 DEF RunnerStep, RunReads, RunAssesses, RunThrows, MarkNeedsTeacher,
       MarkThrows, JobCompletes, JobFails, LockLost, api
  <2>6. CASE SweepFails \/ ApiCrash \/ WorkerCrash \/ UNCHANGED vars
    BY <2>1, <2>6 DEF SweepFails, ApiCrash, WorkerCrash, vars, api
  <2>. QED BY <2>2, <2>3, <2>4, <2>5, <2>6 DEF Next
<1>5. \A c \in Client : client'[c].pc = "enqueue" => review'[client'[c].req] # "none"
  <2> DEFINE Goal == \A c \in Client : client'[c].pc = "enqueue" =>
                       review'[client'[c].req] # "none"
  <2>1. CASE UNCHANGED client
    BY <1>1, <2>1 DEF Known, TypeOK
  <2>2. ASSUME NEW c \in Client, ClientStep(c) PROVE Goal
    <3>1. \A b \in Client \ {c} : client'[b] = client[b]
      BY <2>2 DEF ClientStep, Submit, Insert, Duplicate, EnqueueOrWait, Goes, TypeOK
    <3>2. client'[c].pc = "enqueue" => review'[client'[c].req] # "none"
      BY <2>2 DEF ClientStep, Submit, Insert, Duplicate, EnqueueOrWait, Goes, TypeOK, rows
    <3>. QED BY <1>1, <3>1, <3>2 DEF Known, TypeOK
  <2>3. ASSUME NEW r \in Request, JobStep(r) PROVE Goal
    BY <2>1, <2>3 DEF JobStep, AddLands, AddFails, SweepAdd, StartJob, BackoffOver,
       Forget, Stalled, JobLost, Decide, api
  <2>4. ASSUME NEW w \in Runner, RunnerStep(w) PROVE Goal
    BY <2>1, <2>4 DEF RunnerStep, RunReads, RunAssesses, RunThrows, MarkNeedsTeacher,
       MarkThrows, JobCompletes, JobFails, LockLost, api
  <2>5. CASE ApiCrash
    BY <2>5 DEF ApiCrash
  <2>6. CASE SweepRead \/ SweepFails \/ WorkerCrash \/ UNCHANGED vars
    BY <2>1, <2>6 DEF SweepRead, SweepFails, WorkerCrash, vars, api
  <2>. QED BY <2>2, <2>3, <2>4, <2>5, <2>6 DEF Next
<1>6. \A r \in adds' \union sweep' : review'[r] # "none"
  BY <1>1, <1>4 DEF TypeOK
<1>. QED BY <1>2, <1>3, <1>5, <1>6 DEF Known

LEMMA HandedKept ==
  ASSUME RecoveryInv, MildTrouble, [Next]_vars
  PROVE  Handed'
<1>1. \A r \in Request : Settled(r) => Settled(r)'
  BY ReviewForward DEF RecoveryInv, ExecInv
<1>2. ASSUME \A w \in Runner : runner'[w].pc = "throw" =>
               /\ runner[w].pc = "throw" /\ runner'[w].req = runner[w].req
               /\ runner'[w].made = runner[w].made
      PROVE  Handed'
  <2>1. ASSUME NEW w \in Runner, runner'[w].pc = "throw", runner'[w].made + 1 >= MaxTries
        PROVE  review'[runner'[w].req] \notin {"none", "queued"}
    <3>1. Settled(runner[w].req) /\ runner[w].req \in Request
      BY <1>2, <2>1 DEF RecoveryInv, Handed, ExecInv, TypeOK
    <3>2. review'[runner[w].req] \notin {"none", "queued"}
      BY <1>1, <3>1 DEF Settled
    <3>. QED BY <1>2, <2>1, <3>2
  <2>. QED BY <2>1 DEF Handed, Settled
<1>3. CASE UNCHANGED runner
  BY <1>2, <1>3
<1>4. ASSUME NEW w \in Runner, RunnerStep(w) PROVE Handed'
  <2>1. runner[w].req \in Request \/ runner[w].pc = "free"
    BY DEF RecoveryInv, ExecInv, TypeOK
  <2>2. CASE RunThrows(w)
    <3>1. \A v \in Runner \ {w} : runner'[v] = runner[v]
      BY <2>2 DEF RunThrows, RecoveryInv, ExecInv, TypeOK
    <3>2. runner'[w].pc = "throw" => ~(runner'[w].made + 1 >= MaxTries)
      BY <2>2 DEF RunThrows, LastTry, RecoveryInv, ExecInv, TypeOK
    <3>3. UNCHANGED review
      BY <2>2 DEF RunThrows, rows
    <3>. QED BY <3>1, <3>2, <3>3 DEF RecoveryInv, Handed, Settled
  <2>3. CASE MarkNeedsTeacher(w)
    <3>1. /\ \A v \in Runner \ {w} : runner'[v] = runner[v]
          /\ runner'[w].req = runner[w].req /\ runner[w].req \in Request
      BY <2>3 DEF MarkNeedsTeacher, RecoveryInv, ExecInv, TypeOK
    <3>2. review'[runner[w].req] \notin {"none", "queued"}
      BY <2>3, <3>1 DEF MarkNeedsTeacher, SetIfQueued, RecoveryInv, Known, ExecInv, TypeOK
    <3>3. ASSUME NEW v \in Runner, v # w, runner'[v].pc = "throw",
                 runner'[v].made + 1 >= MaxTries
          PROVE  review'[runner'[v].req] \notin {"none", "queued"}
      <4>1. Settled(runner[v].req) /\ runner[v].req \in Request
        BY <3>1, <3>3 DEF RecoveryInv, Handed, ExecInv, TypeOK
      <4>. QED BY <1>1, <3>1, <3>3, <4>1 DEF Settled
    <3>. QED BY <3>1, <3>2, <3>3 DEF Handed, Settled
  <2>4. CASE MarkThrows(w)
    BY <2>4 DEF MarkThrows, Trouble, MildTrouble
  <2>5. CASE JobCompletes(w) \/ JobFails(w)
    <3>1. runner'[w].pc = "free" /\ \A v \in Runner \ {w} : runner'[v] = runner[v]
      BY <2>5 DEF JobCompletes, JobFails, Free, RecoveryInv, ExecInv, TypeOK
    <3>. QED BY <1>2, <3>1
  <2>6. CASE RunReads(w) \/ RunAssesses(w)
    <3>1. runner'[w].pc # "throw" /\ \A v \in Runner \ {w} : runner'[v] = runner[v]
      BY <2>6 DEF RunReads, RunAssesses, RecoveryInv, ExecInv, TypeOK
    <3>. QED BY <1>2, <3>1
  <2>7. CASE LockLost(w)
    <3>1. \A v \in Runner : /\ runner'[v].pc = runner[v].pc /\ runner'[v].req = runner[v].req
                            /\ runner'[v].made = runner[v].made
      BY <2>7 DEF LockLost, RecoveryInv, ExecInv, TypeOK
    <3>. QED BY <1>2, <3>1
  <2>. QED BY <1>4, <2>2, <2>3, <2>4, <2>5, <2>6, <2>7 DEF RunnerStep
<1>5. ASSUME NEW r \in Request, JobStep(r) PROVE Handed'
  <2>1. CASE StartJob(r)
    <3>1. \A w \in Runner : runner'[w].pc = "throw" => runner'[w] = runner[w]
      BY <2>1 DEF StartJob, RecoveryInv, ExecInv, TypeOK
    <3>. QED BY <1>2, <3>1
  <2>2. CASE JobLost(r)
    <3>1. \A v \in Runner : /\ runner'[v].pc = runner[v].pc /\ runner'[v].req = runner[v].req
                            /\ runner'[v].made = runner[v].made
      BY <2>2 DEF JobLost, RecoveryInv, ExecInv, TypeOK
    <3>. QED BY <1>2, <3>1
  <2>. QED BY <1>3, <1>5, <2>1, <2>2 DEF JobStep, AddLands, SweepAdd, AddFails,
              BackoffOver, Forget, Stalled, Decide
<1>6. ASSUME NEW c \in Client, ClientStep(c) PROVE Handed'
  BY <1>3, <1>6 DEF ClientStep, Submit, Insert, Duplicate, EnqueueOrWait
<1>7. CASE WorkerCrash
  BY <1>2, <1>7 DEF WorkerCrash, Free
<1>8. CASE SweepRead \/ SweepFails \/ ApiCrash \/ UNCHANGED vars
  BY <1>3, <1>8 DEF SweepRead, SweepFails, ApiCrash, vars
<1>. QED BY <1>4, <1>5, <1>6, <1>7, <1>8 DEF Next

LEMMA StallsSpared ==
  ASSUME RecoveryInv, MildTrouble, NEW r \in Request, Stalled(r)
  PROVE  job[r].stalls < MaxStalls
<1>1. job[r].stalls + 1 <= trouble
  BY DEF Stalled, RecoveryInv, Strained
<1>2. job[r].stalls \in Nat /\ trouble \in 0 .. TroubleCap
  BY DEF RecoveryInv, ExecInv, TypeOK
<1>. QED BY <1>1, <1>2, PipelineAssumption DEF MildTrouble

LEMMA BuriedKept ==
  ASSUME RecoveryInv, MildTrouble, [Next]_vars
  PROVE  Buried'
<1>1. \A r \in Request : Settled(r) => Settled(r)'
  BY ReviewForward DEF RecoveryInv, ExecInv
<1>2. ASSUME \A r \in Request : job'[r].state = "failed" => job[r].state = "failed"
      PROVE  Buried'
  BY <1>1, <1>2 DEF RecoveryInv, Buried, Settled
<1>3. CASE UNCHANGED job
  BY <1>2, <1>3
<1>4. ASSUME NEW r \in Request, JobStep(r) PROVE Buried'
  <2>1. CASE Stalled(r)
    <3>1. ~(job[r].stalls >= MaxStalls)
      <4>1. job[r].stalls < MaxStalls /\ job[r].stalls \in Nat /\ MaxStalls \in Nat
        BY <2>1, StallsSpared, PipelineAssumption DEF RecoveryInv, ExecInv, TypeOK
      <4>. QED BY <4>1
    <3>2. job'[r].state = "waiting" /\ \A q \in Request \ {r} : job'[q] = job[q]
      BY <2>1, <3>1 DEF Stalled, RecoveryInv, ExecInv, TypeOK
    <3>. QED BY <1>2, <3>2
  <2>2. CASE AddLands(r) \/ SweepAdd(r)
    BY <1>2, <2>2 DEF AddLands, SweepAdd, Add, NewJob, NoJob, RecoveryInv, ExecInv, TypeOK
  <2>3. CASE StartJob(r) \/ BackoffOver(r) \/ Forget(r) \/ JobLost(r)
    <3>1. job'[r].state # "failed" /\ \A q \in Request \ {r} : job'[q] = job[q]
      BY <2>3 DEF StartJob, BackoffOver, Forget, JobLost, NoJob, RecoveryInv, ExecInv, TypeOK
    <3>. QED BY <1>2, <3>1
  <2>. QED BY <1>3, <1>4, <2>1, <2>2, <2>3 DEF JobStep, AddFails, Decide
<1>5. ASSUME NEW w \in Runner, RunnerStep(w) PROVE Buried'
  <2>1. CASE JobCompletes(w)
    <3>1. \A q \in Request : job'[q] = job[q] \/ job'[q].state = "none"
      BY <2>1 DEF JobCompletes, NoJob, RecoveryInv, ExecInv, TypeOK
    <3>. QED BY <1>2, <3>1
  <2>2. CASE JobFails(w)
    <3>1. runner[w].pc = "throw" /\ runner[w].req \in Request /\ UNCHANGED review
      BY <2>2 DEF JobFails, rows, RecoveryInv, ExecInv, TypeOK
    <3>2. CASE runner[w].lock = "held"
      <4>1. /\ job'[runner[w].req].state = "failed" => job[runner[w].req].made + 1 >= MaxTries
            /\ \A q \in Request : q # runner[w].req => job'[q] = job[q]
        BY <2>2, <3>1, <3>2 DEF JobFails, RecoveryInv, ExecInv, TypeOK
      <4>2. job[runner[w].req].made = runner[w].made
        BY <3>2 DEF RecoveryInv, ExecInv, Owners
      <4>3. job'[runner[w].req].state = "failed" => Settled(runner[w].req)
        BY <3>1, <4>1, <4>2 DEF RecoveryInv, Handed
      <4>. QED BY <3>1, <4>1, <4>3 DEF RecoveryInv, Buried, Settled
    <3>3. CASE runner[w].lock # "held"
      BY <1>3, <2>2, <3>3 DEF JobFails
    <3>. QED BY <3>2, <3>3
  <2>. QED BY <1>3, <1>5, <2>1, <2>2 DEF RunnerStep, RunReads, RunAssesses, RunThrows,
              MarkNeedsTeacher, MarkThrows, LockLost
<1>6. ASSUME NEW c \in Client, ClientStep(c) PROVE Buried'
  BY <1>3, <1>6 DEF ClientStep, Submit, Insert, Duplicate, EnqueueOrWait
<1>7. CASE SweepRead \/ SweepFails \/ ApiCrash \/ WorkerCrash \/ UNCHANGED vars
  BY <1>3, <1>7 DEF SweepRead, SweepFails, ApiCrash, WorkerCrash, vars
<1>. QED BY <1>4, <1>5, <1>6, <1>7 DEF Next

LEMMA StrainedKept ==
  ASSUME RecoveryInv, [Next]_vars
  PROVE  Strained'
<1> USE DEF RecoveryInv, ExecInv
<1>0. /\ trouble \in Nat /\ \A r \in Request : job[r].stalls \in Nat
      /\ \A r \in Request : job[r].stalls <= trouble
  BY DEF TypeOK, Strained
<1>2. CASE UNCHANGED <<job, runner>> /\ trouble' \in {trouble, trouble + 1}
  BY <1>0, <1>2 DEF Owned, Strained
<1>3. ASSUME NEW q \in Request, UNCHANGED <<runner, trouble>>,
             \A r \in Request \ {q} : job'[r] = job[r],
             job'[q].state # "active", job'[q].stalls <= trouble
      PROVE  Strained'
  BY <1>3 DEF Owned, Strained
<1>4. ASSUME NEW q \in Request, JobStep(q) PROVE Strained'
  <2>1. CASE AddLands(q) \/ SweepAdd(q)
    <3>1. UNCHANGED <<runner, trouble>>
      BY <2>1 DEF AddLands, SweepAdd
    <3>2. CASE job[q].state = "none"
      <4>1. /\ \A r \in Request \ {q} : job'[r] = job[r]
            /\ job'[q].state = "waiting" /\ job'[q].stalls = 0
        BY <2>1, <3>2 DEF AddLands, SweepAdd, Add, NewJob, NoJob, TypeOK
      <4>. QED BY <1>0, <1>3, <3>1, <4>1
    <3>3. CASE job[q].state # "none"
      <4>1. job' = job
        BY <2>1, <3>3 DEF AddLands, SweepAdd, Add, TypeOK
      <4>. QED BY <1>2, <3>1, <4>1
    <3>. QED BY <3>2, <3>3
  <2>2. CASE AddFails(q)
    BY <1>2, <2>2 DEF AddFails, Trouble
  <2>3. CASE StartJob(q)
    <3>1. PICK w \in Runner :
            /\ runner[w].pc = "free"
            /\ runner' = [runner EXCEPT ![w] =
                 [pc |-> "start", req |-> q, made |-> job[q].made, lock |-> "held"]]
      BY <2>3 DEF StartJob
    <3>2. /\ runner'[w].lock = "held" /\ runner'[w].req = q
          /\ \A v \in Runner \ {w} : runner'[v] = runner[v]
          /\ runner[w].lock # "held"
      BY <3>1 DEF TypeOK
    <3>3. UNCHANGED trouble /\ job'[q].stalls = job[q].stalls
          /\ \A r \in Request \ {q} : job'[r] = job[r]
      BY <2>3 DEF StartJob, TypeOK
    <3>4. Owned(q)' /\ \A r \in Request : Owned(r) => Owned(r)'
      BY <3>2 DEF Owned
    <3>. QED BY <1>0, <3>3, <3>4 DEF Strained
  <2>4. CASE BackoffOver(q) \/ Forget(q)
    <3>1. /\ UNCHANGED <<runner, trouble>> /\ job'[q].state # "active"
          /\ job'[q].stalls \in {job[q].stalls, 0}
          /\ \A r \in Request \ {q} : job'[r] = job[r]
      BY <2>4 DEF BackoffOver, Forget, NoJob, TypeOK
    <3>. QED BY <1>0, <1>3, <3>1
  <2>5. CASE Stalled(q)
    <3>1. /\ UNCHANGED <<runner, trouble>> /\ job'[q].state # "active"
          /\ job'[q].stalls = job[q].stalls + 1 /\ job[q].stalls + 1 <= trouble
          /\ \A r \in Request \ {q} : job'[r] = job[r]
      BY <2>5 DEF Stalled, Strained, TypeOK
    <3>. QED BY <1>3, <3>1
  <2>6. CASE JobLost(q)
    <3>1. /\ trouble' = trouble + 1 /\ job'[q] = NoJob
          /\ \A r \in Request \ {q} : job'[r] = job[r]
      BY <2>6 DEF JobLost, Trouble, TypeOK
    <3>. QED BY <1>0, <3>1 DEF Strained, NoJob
  <2>7. ASSUME NEW t \in Teacher, Decide(q, t) PROVE Strained'
    BY <1>2, <2>7 DEF Decide
  <2>. QED BY <1>4, <2>1, <2>2, <2>3, <2>4, <2>5, <2>6, <2>7 DEF JobStep
<1>5. ASSUME NEW w \in Runner, RunnerStep(w) PROVE Strained'
  <2>1. CASE JobCompletes(w) \/ JobFails(w)
    <3>1. /\ runner[w].req \in Request /\ UNCHANGED trouble
          /\ \A v \in Runner \ {w} : runner'[v] = runner[v]
      BY <2>1 DEF JobCompletes, JobFails, TypeOK
    <3>2. CASE runner[w].lock = "held"
      <4>1. /\ job'[runner[w].req].state # "active"
            /\ job'[runner[w].req].stalls \in {0, job[runner[w].req].stalls}
            /\ \A r \in Request : r # runner[w].req => job'[r] = job[r]
        BY <2>1, <3>1, <3>2 DEF JobCompletes, JobFails, NoJob, TypeOK
      <4>2. \A r \in Request : r # runner[w].req => (Owned(r) => Owned(r)')
        BY <3>1 DEF Owned
      <4>. QED BY <1>0, <3>1, <4>1, <4>2 DEF Strained
    <3>3. CASE runner[w].lock # "held"
      <4>1. job' = job
        BY <2>1, <3>3 DEF JobCompletes, JobFails
      <4>2. \A r \in Request : Owned(r) => Owned(r)'
        BY <3>1, <3>3 DEF Owned
      <4>. QED BY <3>1, <4>1, <4>2 DEF Strained
    <3>. QED BY <3>2, <3>3
  <2>2. CASE LockLost(w)
    <3>1. trouble' = trouble + 1 /\ UNCHANGED job
      BY <2>2 DEF LockLost, Trouble
    <3>. QED BY <1>0, <3>1 DEF Strained
  <2>3. CASE ~(JobCompletes(w) \/ JobFails(w) \/ LockLost(w))
    <3>1. /\ UNCHANGED job /\ trouble' \in {trouble, trouble + 1}
          /\ \A v \in Runner : runner'[v].lock = runner[v].lock /\ runner'[v].req = runner[v].req
      <4>1. /\ UNCHANGED job /\ trouble' \in {trouble, trouble + 1}
            /\ \E p \in {"assess", "done", "mark", "throw"} :
                 runner' = [runner EXCEPT ![w].pc = p]
        BY <1>5, <2>3 DEF RunnerStep, RunReads, RunAssesses, RunThrows,
           MarkNeedsTeacher, MarkThrows, Trouble
      <4>. QED BY <4>1 DEF TypeOK
    <3>2. \A r \in Request : Owned(r) => Owned(r)'
      BY <3>1 DEF Owned
    <3>. QED BY <1>0, <3>1, <3>2 DEF Strained
  <2>. QED BY <2>1, <2>2, <2>3
<1>6. ASSUME NEW c \in Client, ClientStep(c) PROVE Strained'
  BY <1>2, <1>6 DEF ClientStep, Submit, Insert, Duplicate, EnqueueOrWait
<1>7. CASE WorkerCrash
  <2>1. trouble' = trouble + 1 /\ UNCHANGED job
    BY <1>7 DEF WorkerCrash, Trouble
  <2>. QED BY <1>0, <2>1 DEF Strained
<1>8. CASE SweepRead \/ SweepFails \/ ApiCrash \/ UNCHANGED vars
  BY <1>2, <1>8 DEF SweepRead, SweepFails, ApiCrash, Trouble, vars
<1>. QED BY <1>4, <1>5, <1>6, <1>7, <1>8 DEF Next

(* While the catch of the last attempt reaches the database and jobs stall   *)
(* no more often than BullMQ makes good, no review is left queued behind a   *)
(* failed job, where the recovery sweep could not help it.                   *)
THEOREM RecoveryCanAlwaysWork ==
  ASSUME MildTrouble
  PROVE  Spec => []RecoveryCanWork
<1>1. Init => Known /\ Handed /\ Buried /\ Strained
  BY PipelineAssumption DEF Init, Known, Handed, Buried, Strained, NoJob, Free, Owned
<1>2. RecoveryInv /\ TypeOK' /\ [Next]_vars => Known' /\ Handed' /\ Buried' /\ Strained'
  BY KnownKept, HandedKept, BuriedKept, StrainedKept DEF RecoveryInv, ExecInv
<1>3. Buried => RecoveryCanWork
  BY DEF Buried, RecoveryCanWork, Settled
<1>. QED
  BY <1>1, <1>2, <1>3, ExecInvariant, PipelineTypes, PTL DEF Spec, RecoveryInv

----------------------------------------------------------------------------
(* Presence. *)

(* A tab that is connected and authenticated is counted, and the lobby      *)
(* knows of a user who is.                                                  *)
PresenceCounts ==
  /\ socketsKnown \subseteq Sock /\ socketsPresence \subseteq Sock
  /\ socketsLink \in [Sock -> {"never", "up", "gone"}] /\ socketsHello \in [Sock -> {"none", "auth", "join", "done"}]
  /\ \A s \in Sock : socketsHello[s] # "none" \/ s \in socketsKnown => socketsLink[s] # "never"
  /\ \A s \in socketsKnown : socketsLink[s] = "up" => s \in socketsPresence
  /\ socketsPresence # {} => socketsShown = "online"

LEMMA PresenceCloses ==
  ASSUME PresenceCounts, NEW s \in Sock, G!Close(s), UNCHANGED socketsKnown,
         socketsHello' = socketsHello \/ socketsHello' = [socketsHello EXCEPT ![s] = "done"]
  PROVE  PresenceCounts'
BY DEF PresenceCounts, G!Close, G!LastSocket

LEMMA PresenceInit == G!Init => PresenceCounts
BY DEF G!Init, PresenceCounts

LEMMA PresenceStep ==
  ASSUME PresenceCounts, [G!Next]_G!vars
  PROVE  PresenceCounts'
<1>1. CASE UNCHANGED G!vars
  BY <1>1 DEF G!vars, PresenceCounts
<1>2. CASE G!EndSession
  BY <1>2 DEF G!EndSession, PresenceCounts
<1>3. ASSUME NEW s \in Sock, G!Connect(s) PROVE PresenceCounts'
  BY <1>3 DEF G!Connect, PresenceCounts
<1>4. ASSUME NEW s \in Sock, G!RefuseSession(s) PROVE PresenceCounts'
  <2>1. UNCHANGED socketsKnown /\ socketsHello[s] = "auth" /\ socketsHello' = [socketsHello EXCEPT ![s] = "done"]
    BY <1>4 DEF G!RefuseSession
  <2>2. CASE G!Close(s)
    BY <2>1, <2>2, PresenceCloses
  <2>3. CASE UNCHANGED <<socketsLink, socketsTimers, socketsPresence, socketsShown>>
    BY <2>1, <2>3 DEF PresenceCounts
  <2>. QED BY <1>4, <2>2, <2>3 DEF G!RefuseSession
<1>5. ASSUME NEW s \in Sock, G!AcceptSession(s) PROVE PresenceCounts'
  BY <1>5 DEF G!AcceptSession, PresenceCounts
<1>6. ASSUME NEW s \in Sock, G!Joined(s) PROVE PresenceCounts'
  BY <1>6 DEF G!Joined, PresenceCounts
<1>7. ASSUME NEW s \in Sock, G!Disconnect(s) \/ G!CheckSession(s) \/ G!CheckFails(s)
      PROVE  PresenceCounts'
  <2>1. G!Close(s) /\ UNCHANGED <<socketsHello, socketsKnown>>
    BY <1>7 DEF G!Disconnect, G!CheckSession, G!CheckFails
  <2>. QED BY <2>1, PresenceCloses DEF PresenceCounts
<1>. QED BY <1>1, <1>2, <1>3, <1>4, <1>5, <1>6, <1>7 DEF G!Next

(* While one authenticated tab of the user is connected the lobby shows the *)
(* user online, for any number of tabs and in whatever order handshakes,    *)
(* joins and closings run (RealtimeGateway, PresenceService).               *)
THEOREM TabsKeepUserOnline == ViewsSpec => []TabKeepsOnline
<1>1. ViewsInit => PresenceCounts
  BY PresenceInit DEF ViewsInit
<1>2. PresenceCounts /\ [ViewsNext]_viewsVars => PresenceCounts'
  <2>1. [ViewsNext]_viewsVars => [G!Next]_G!vars
    BY DEF ViewsNext, viewsVars, socketsVars, G!vars
  <2>. QED BY <2>1, PresenceStep
<1>3. PresenceCounts => TabKeepsOnline
  BY DEF PresenceCounts, TabKeepsOnline, G!TabKeepsOnline
<1>. QED BY <1>1, <1>2, <1>3, PTL DEF ViewsSpec

----------------------------------------------------------------------------
(* Movements.  One queue gives identifiers and revisions the same order.    *)

Movement == [id : Nat, to : Place]
Moved == [id : Nat, rev : Nat]

MoveShape ==
  /\ worldQueue \in Seq(Movement) /\ worldMoved \in Seq(Moved)
  /\ worldSent \in Nat /\ worldRow.rev \in Nat
  /\ worldMoving = "write" => worldQueue # <<>>

QueueInOrder ==
  /\ \A i, j \in 1..Len(worldQueue) : i < j => worldQueue[i].id < worldQueue[j].id
  /\ \A i \in 1..Len(worldQueue) : worldQueue[i].id <= worldSent
  /\ \A i \in 1..Len(worldMoved), j \in 1..Len(worldQueue) : worldMoved[i].id < worldQueue[j].id

MovedInOrder ==
  /\ \A i, j \in 1..Len(worldMoved) : i < j => worldMoved[i].id < worldMoved[j].id /\ worldMoved[i].rev < worldMoved[j].rev
  /\ \A i \in 1..Len(worldMoved) : worldMoved[i].id <= worldSent /\ worldMoved[i].rev <= worldRow.rev

MoveInv == MoveShape /\ QueueInOrder /\ MovedInOrder

LEMMA MoveTypes ==
  ASSUME MoveInv
  PROVE  /\ Len(worldQueue) \in Nat /\ Len(worldMoved) \in Nat /\ DOMAIN worldMoved = 1..Len(worldMoved)
         /\ \A i \in 1..Len(worldQueue) : worldQueue[i] \in Movement /\ worldQueue[i].id \in Nat
         /\ \A i \in 1..Len(worldMoved) : worldMoved[i].id \in Nat /\ worldMoved[i].rev \in Nat
<1>1. \A i \in 1..Len(worldQueue) : worldQueue[i] \in Movement
  BY ElementOfSeq DEF MoveInv, MoveShape
<1>2. \A i \in 1..Len(worldMoved) : worldMoved[i] \in Moved
  BY ElementOfSeq DEF MoveInv, MoveShape
<1>3. \A i \in 1..Len(worldQueue) : worldQueue[i].id \in Nat
  BY <1>1 DEF Movement
<1>4. \A i \in 1..Len(worldMoved) : worldMoved[i].id \in Nat /\ worldMoved[i].rev \in Nat
  BY <1>2 DEF Moved
<1>. QED BY <1>1, <1>3, <1>4, LenProperties DEF MoveInv, MoveShape

LEMMA WorldInit == W!Init => MoveInv
BY DEF W!Init, MoveInv, MoveShape, QueueInOrder, MovedInOrder

(* A command goes to the end of the queue. *)
LEMMA WorldClicks ==
  ASSUME MoveInv, NEW p \in Place, W!PointAndClick(p)
  PROVE  MoveInv'
<1>. DEFINE e == [id |-> worldSent + 1, to |-> p]
<1>1. e \in Movement /\ e.id = worldSent + 1
  BY DEF MoveInv, MoveShape, Movement
<1>2. worldQueue' = Append(worldQueue, e) /\ worldSent' = worldSent + 1 /\ UNCHANGED <<worldMoved, worldRow, worldMoving>>
  BY DEF W!PointAndClick, W!Receive
<1>. HIDE DEF e
<1>3. /\ worldQueue' \in Seq(Movement) /\ Len(worldQueue') = Len(worldQueue) + 1 /\ worldQueue' # <<>>
      /\ \A i \in 1..Len(worldQueue) : worldQueue'[i] = worldQueue[i]
      /\ worldQueue'[Len(worldQueue) + 1] = e
  BY <1>1, <1>2, AppendProperties DEF MoveInv, MoveShape
<1>4. MoveShape'
  BY <1>2, <1>3 DEF MoveInv, MoveShape
<1>5. \A i \in 1..Len(worldQueue') : i \in 1..Len(worldQueue) \/ i = Len(worldQueue) + 1
  BY <1>3 DEF MoveInv, MoveShape
<1>6. QueueInOrder'
  <2>. USE MoveTypes DEF MoveInv, MoveShape, QueueInOrder, MovedInOrder
  <2>1. \A i \in 1..Len(worldQueue') : worldQueue'[i].id <= worldSent'
    BY <1>1, <1>2, <1>3, <1>5
  <2>2. \A i, j \in 1..Len(worldQueue') : i < j => worldQueue'[i].id < worldQueue'[j].id
    <3>1. TAKE i, j \in 1..Len(worldQueue')
    <3>2. HAVE i < j
    <3>3. i \in 1..Len(worldQueue) /\ worldQueue'[i] = worldQueue[i] /\ worldQueue[i].id <= worldSent
      BY <1>3, <1>5, <3>2
    <3>4. CASE j \in 1..Len(worldQueue)
      BY <1>3, <3>2, <3>3, <3>4
    <3>5. CASE j = Len(worldQueue) + 1
      BY <1>1, <1>3, <3>3, <3>5
    <3>. QED BY <1>5, <3>4, <3>5
  <2>3. \A i \in 1..Len(worldMoved), j \in 1..Len(worldQueue') : worldMoved[i].id < worldQueue'[j].id
    BY <1>1, <1>3, <1>5
  <2>. QED BY <1>2, <2>1, <2>2, <2>3
<1>7. MovedInOrder'
  <2>1. \A i \in 1..Len(worldMoved) : worldMoved[i].id <= worldSent'
    <3>. TAKE i \in 1..Len(worldMoved)
    <3>1. worldMoved[i].id \in Nat /\ worldMoved[i].id <= worldSent
      BY MoveTypes DEF MoveInv, MovedInOrder
    <3>. QED BY <1>2, <3>1 DEF MoveInv, MoveShape
  <2>. QED BY <1>2, <2>1 DEF MoveInv, MovedInOrder
<1>. QED BY <1>4, <1>6, <1>7 DEF MoveInv

(* What leaves the queue is its head. *)
LEMMA QueueShrinks ==
  ASSUME MoveInv, worldQueue # <<>>
  PROVE  /\ Tail(worldQueue) \in Seq(Movement) /\ Head(worldQueue) = worldQueue[1] /\ Head(worldQueue) \in Movement
         /\ Len(Tail(worldQueue)) = Len(worldQueue) - 1 /\ Len(worldQueue) \in Nat \ {0}
         /\ \A i \in 1..Len(Tail(worldQueue)) : Tail(worldQueue)[i] = worldQueue[i + 1]
BY HeadTailProperties DEF MoveInv, MoveShape

LEMMA TailInOrder ==
  ASSUME MoveInv, worldQueue # <<>>, worldQueue' = Tail(worldQueue), UNCHANGED <<worldMoved, worldSent>>
  PROVE  QueueInOrder'
<1>. DEFINE t == Tail(worldQueue)
<1>1. /\ \A i \in 1..Len(t) : i + 1 \in 1..Len(worldQueue) /\ t[i] = worldQueue[i + 1]
      /\ \A i \in 1..Len(t) : i \in Int
  BY QueueShrinks
<1>. HIDE DEF t
<1>2. \A i, j \in 1..Len(t) : i < j => t[i].id < t[j].id
  <2>. SUFFICES ASSUME NEW i \in 1..Len(t), NEW j \in 1..Len(t), i < j PROVE t[i].id < t[j].id
    OBVIOUS
  <2>1. i + 1 < j + 1
    BY <1>1
  <2>. QED BY <1>1, <2>1 DEF MoveInv, QueueInOrder
<1>3. /\ \A i \in 1..Len(t) : t[i].id <= worldSent
      /\ \A i \in 1..Len(worldMoved), j \in 1..Len(t) : worldMoved[i].id < t[j].id
  BY <1>1 DEF MoveInv, QueueInOrder
<1>. QED BY <1>2, <1>3 DEF QueueInOrder, t

LEMMA WorldChecks ==
  ASSUME MoveInv, NEW i \in 1..Command, W!MoveChecksLock(i)
  PROVE  MoveInv'
<1>1. i = 1 /\ worldQueue # <<>> /\ UNCHANGED <<worldRow, worldMoved, worldSent>>
  BY DEF W!MoveChecksLock, W!Turn
<1>2. CASE worldLocked
  <2>1. worldQueue' = Tail(worldQueue) /\ worldMoving' = "idle"
    BY <1>2 DEF W!MoveChecksLock
  <2>2. MoveShape' /\ MovedInOrder'
    BY <1>1, <2>1, QueueShrinks DEF MoveInv, MoveShape, MovedInOrder
  <2>3. QueueInOrder'
    BY <1>1, <2>1, TailInOrder
  <2>. QED BY <2>2, <2>3 DEF MoveInv
<1>3. CASE ~worldLocked
  <2>1. worldQueue' = <<worldQueue[1]>> \o W!RemoveAt(worldQueue, 1) /\ worldMoving' = "write"
    BY <1>1, <1>3 DEF W!MoveChecksLock
  <2>2. worldQueue' = worldQueue
    <3>1. SubSeq(worldQueue, 1, 0) = <<>>
      BY SubSeqEmpty
    <3>2. Tail(worldQueue) = SubSeq(worldQueue, 2, Len(worldQueue))
      BY <1>1, TailIsSubSeq DEF MoveInv, MoveShape
    <3>3. W!RemoveAt(worldQueue, 1) = <<>> \o Tail(worldQueue)
      BY <3>1, <3>2 DEF W!RemoveAt
    <3>4. W!RemoveAt(worldQueue, 1) = Tail(worldQueue)
      BY <1>1, <3>3, QueueShrinks, ConcatEmptySeq
    <3>5. <<worldQueue[1]>> \in Seq(Movement) /\ Len(<<worldQueue[1]>>) = 1 /\ <<worldQueue[1]>>[1] = worldQueue[1]
      BY <1>1, QueueShrinks
    <3>6. /\ worldQueue' \in Seq(Movement) /\ Len(worldQueue') = 1 + Len(Tail(worldQueue))
          /\ \A j \in 1..(1 + Len(Tail(worldQueue))) :
               worldQueue'[j] = IF j <= 1 THEN <<worldQueue[1]>>[j] ELSE Tail(worldQueue)[j - 1]
      <4>. DEFINE first == <<worldQueue[1]>>
                  rest == Tail(worldQueue)
      <4>1. worldQueue' = first \o rest /\ first \in Seq(Movement) /\ rest \in Seq(Movement) /\ Len(first) = 1
        BY <1>1, <2>1, <3>4, <3>5, QueueShrinks
      <4>. HIDE DEF first, rest
      <4>2. /\ first \o rest \in Seq(Movement) /\ Len(first \o rest) = Len(first) + Len(rest)
            /\ \A k \in 1..(Len(first) + Len(rest)) : (first \o rest)[k] =
                 IF k <= Len(first) THEN first[k] ELSE rest[k - Len(first)]
        BY <4>1, ConcatProperties
      <4>3. /\ worldQueue' \in Seq(Movement) /\ Len(worldQueue') = 1 + Len(rest)
            /\ \A j \in 1..(1 + Len(rest)) : worldQueue'[j] = IF j <= 1 THEN first[j] ELSE rest[j - 1]
        BY <4>1, <4>2
      <4>. QED BY <4>3 DEF first, rest
    <3>7. Len(worldQueue') = Len(worldQueue) /\ \A j \in 1..Len(worldQueue) : worldQueue'[j] = worldQueue[j]
      BY <1>1, <3>5, <3>6, QueueShrinks
    <3>. QED BY <3>6, <3>7, SeqEqual DEF MoveInv, MoveShape
  <2>. QED BY <1>1, <2>1, <2>2 DEF MoveInv, MoveShape, QueueInOrder, MovedInOrder
<1>. QED BY <1>2, <1>3

LEMMA WorldMoves ==
  ASSUME MoveInv, W!MoveWrites
  PROVE  MoveInv'
<1>. DEFINE next == [at |-> Head(worldQueue).to, rev |-> worldRow.rev + 1]
            e == [id |-> Head(worldQueue).id, rev |-> worldRow.rev + 1]
<1>1. /\ worldMoving' = "idle" /\ worldQueue # <<>> /\ worldQueue' = Tail(worldQueue) /\ worldSent' = worldSent
      /\ worldRow' = next /\ worldMoved' = Append(worldMoved, [id |-> Head(worldQueue).id, rev |-> next.rev])
  BY DEF W!MoveWrites, MoveInv, MoveShape
<1>2. worldRow'.rev = worldRow.rev + 1 /\ worldMoved' = Append(worldMoved, e)
  BY <1>1
<1>3. e \in Moved /\ e.id = worldQueue[1].id /\ e.rev = worldRow.rev + 1
  BY <1>1, QueueShrinks DEF MoveInv, MoveShape, Movement, Moved
<1>. HIDE DEF e, next
<1>4. /\ worldMoved' \in Seq(Moved) /\ Len(worldMoved') = Len(worldMoved) + 1
      /\ \A i \in 1..Len(worldMoved) : worldMoved'[i] = worldMoved[i]
      /\ worldMoved'[Len(worldMoved) + 1] = e
  BY <1>2, <1>3, AppendProperties DEF MoveInv, MoveShape
<1>5. \A i \in 1..Len(worldMoved') : i \in 1..Len(worldMoved) \/ i = Len(worldMoved) + 1
  BY <1>4 DEF MoveInv, MoveShape
<1>6. MoveShape'
  BY <1>1, <1>2, <1>4, QueueShrinks DEF MoveInv, MoveShape
<1>7. 1 \in 1..Len(worldQueue) /\ worldQueue[1] \in Movement
  BY <1>1, QueueShrinks
<1>8. MovedInOrder'
  <2>. USE MoveTypes DEF MoveInv, MoveShape, QueueInOrder, MovedInOrder
  <2>1. \A i \in 1..Len(worldMoved) : worldMoved[i].id < e.id /\ worldMoved[i].rev < e.rev
    <3>. TAKE i \in 1..Len(worldMoved)
    <3>1. worldMoved[i].id < e.id
      BY <1>3, <1>7
    <3>2. worldMoved[i].rev \in Nat /\ worldRow.rev \in Nat /\ worldMoved[i].rev <= worldRow.rev
      OBVIOUS
    <3>. QED BY <1>3, <3>1, <3>2
  <2>2. e.id <= worldSent /\ e.rev <= worldRow'.rev
    BY <1>2, <1>3, <1>7
  <2>3. \A i, j \in 1..Len(worldMoved') : i < j =>
          worldMoved'[i].id < worldMoved'[j].id /\ worldMoved'[i].rev < worldMoved'[j].rev
    <3>. SUFFICES ASSUME NEW i \in 1..Len(worldMoved'), NEW j \in 1..Len(worldMoved'), i < j
                  PROVE  worldMoved'[i].id < worldMoved'[j].id /\ worldMoved'[i].rev < worldMoved'[j].rev
      OBVIOUS
    <3>1. i \in 1..Len(worldMoved) /\ worldMoved'[i] = worldMoved[i]
      BY <1>4, <1>5
    <3>2. CASE j \in 1..Len(worldMoved)
      <4>1. worldMoved'[j] = worldMoved[j]
        BY <3>2, <1>4
      <4>2. worldMoved[i].id < worldMoved[j].id /\ worldMoved[i].rev < worldMoved[j].rev
        BY <3>1, <3>2
      <4>. QED BY <3>1, <4>1, <4>2
    <3>3. CASE j = Len(worldMoved) + 1
      BY <3>1, <3>3, <1>4, <2>1
    <3>. QED BY <3>2, <3>3, <1>5
  <2>4. \A i \in 1..Len(worldMoved') : worldMoved'[i].id <= worldSent /\ worldMoved'[i].rev <= worldRow'.rev
    BY <1>2, <1>4, <1>5, <2>2
  <2>. QED BY <1>1, <2>3, <2>4
<1>9. QueueInOrder'
  <2>. USE MoveTypes DEF MoveInv, MoveShape, QueueInOrder, MovedInOrder
  <2>1. \A i \in 1..Len(Tail(worldQueue)) : i + 1 \in 1..Len(worldQueue) /\ Tail(worldQueue)[i] = worldQueue[i + 1]
    BY <1>1, QueueShrinks
  <2>2. \A i \in 1..Len(worldMoved'), j \in 1..Len(Tail(worldQueue)) : worldMoved'[i].id < Tail(worldQueue)[j].id
    <3>. TAKE i \in 1..Len(worldMoved'), j \in 1..Len(Tail(worldQueue))
    <3>1. j + 1 \in 1..Len(worldQueue) /\ Tail(worldQueue)[j] = worldQueue[j + 1] /\ 1 < j + 1
      BY <2>1
    <3>2. CASE i \in 1..Len(worldMoved)
      <4>1. worldMoved'[i] = worldMoved[i] /\ worldMoved[i].id < worldQueue[j + 1].id
        BY <1>4, <3>1, <3>2
      <4>. QED BY <3>1, <4>1
    <3>3. CASE i = Len(worldMoved) + 1
      <4>1. worldMoved'[i].id = worldQueue[1].id
        BY <1>3, <1>4, <3>3
      <4>2. worldQueue[1].id < worldQueue[j + 1].id
        BY <1>7, <3>1
      <4>. QED BY <3>1, <4>1, <4>2
    <3>. QED BY <1>5, <3>2, <3>3
  <2>3. \A i, j \in 1..Len(Tail(worldQueue)) : i < j => Tail(worldQueue)[i].id < Tail(worldQueue)[j].id
    BY <2>1
  <2>. QED BY <1>1, <2>1, <2>2, <2>3
<1>. QED BY <1>6, <1>8, <1>9 DEF MoveInv

LEMMA WorldStep ==
  ASSUME MoveInv, [W!Next]_W!vars
  PROVE  MoveInv'
<1>1. ASSUME UNCHANGED <<worldQueue, worldMoving, worldMoved, worldSent>>, worldRow' = worldRow \/ worldRow'.rev = worldRow.rev + 1
      PROVE  MoveInv'
  <2>1. worldRow'.rev \in Nat /\ worldRow.rev <= worldRow'.rev
    BY <1>1 DEF MoveInv, MoveShape
  <2>2. MoveShape' /\ QueueInOrder'
    BY <1>1, <2>1 DEF MoveInv, MoveShape, QueueInOrder
  <2>3. MovedInOrder'
    BY <1>1, <2>1, MoveTypes DEF MoveInv, MoveShape, MovedInOrder
  <2>. QED BY <2>2, <2>3 DEF MoveInv
<1>2. CASE UNCHANGED W!vars
  BY <1>1, <1>2 DEF W!vars
<1>3. CASE W!OpenWorld \/ W!LockAvatar \/ W!Unlock \/ W!ResetReads \/ W!ResetWrites
  BY <1>1, <1>3 DEF W!OpenWorld, W!LockAvatar, W!Unlock, W!ResetReads, W!ResetWrites, W!server
<1>4. ASSUME NEW e \in worldNews, W!AvatarMovement(e) \/ W!LoseMovement(e)
      PROVE  MoveInv'
  BY <1>1, <1>4 DEF W!AvatarMovement, W!LoseMovement, W!server
<1>5. CASE W!AgentStatus \/ W!LoadAvatars \/ W!ApplyAvatars
  BY <1>1, <1>5 DEF W!AgentStatus, W!LoadAvatars, W!ApplyAvatars, W!server
<1>. QED BY <1>2, <1>3, <1>4, <1>5, WorldClicks, WorldChecks, WorldMoves DEF W!Next

LEMMA RevisionsOrdered ==
  ASSUME MoveInv
  PROVE  W!NewestCommandWins
<1>1. \A i \in DOMAIN worldMoved : i \in 1..Len(worldMoved) /\ worldMoved[i].id \in Nat
  BY MoveTypes
<1>. SUFFICES ASSUME NEW i \in 1..Len(worldMoved), NEW j \in 1..Len(worldMoved), worldMoved[i].id < worldMoved[j].id
              PROVE  worldMoved[i].rev < worldMoved[j].rev
  BY <1>1 DEF W!NewestCommandWins
<1>2. CASE i < j
  BY <1>2 DEF MoveInv, MovedInOrder
<1>3. CASE i = j
  BY <1>3, MoveTypes
<1>4. CASE j < i
  BY <1>4, MoveTypes DEF MoveInv, MovedInOrder
<1>. QED BY <1>2, <1>3, <1>4 DEF MoveInv, MoveShape

(* Whatever the order of clicks, locks, resets and events, the revisions of *)
(* the movements accepted have the order in which their commands were       *)
(* received, for any number of each (moveAvatar, resetToRoleHome).          *)
THEOREM MovementsKeepTheirOrder == ViewsSpec => []NewestCommandWins
<1>1. ViewsInit => MoveInv
  BY WorldInit DEF ViewsInit
<1>2. MoveInv /\ [ViewsNext]_viewsVars => MoveInv'
  <2>1. [ViewsNext]_viewsVars => [W!Next]_W!vars
    BY DEF ViewsNext, viewsVars, worldVars, W!vars
  <2>. QED BY <2>1, WorldStep
<1>3. MoveInv => NewestCommandWins
  BY RevisionsOrdered DEF NewestCommandWins
<1>. QED BY <1>1, <1>2, <1>3, PTL DEF ViewsSpec

----------------------------------------------------------------------------
(* Types.  The world: the browser, its poll and the reset. *)

WorldTyped ==
  /\ W!TypeOK /\ worldLocked \in BOOLEAN
  /\ worldReset \in [pc : {"idle", "read", "write"}, at : Place]
  /\ worldPoll \in [pc : {"closed", "idle", "back"}, at : Place, rev : Nat, locked : BOOLEAN]

LEMMA WorldStartsTyped == W!Init => WorldTyped
<1>. SUFFICES ASSUME W!Init PROVE WorldTyped
  OBVIOUS
<1>1. worldPoll = [pc |-> "closed", at |-> Home, rev |-> 0, locked |-> FALSE]
  BY DEF W!Init, W!NoAnswer
<1>2. W!TypeOK /\ worldReset = [pc |-> "idle", at |-> Home] /\ worldLocked = FALSE
  BY ViewsAssumption DEF W!Init, W!TypeOK, W!Spot, W!Quiet
<1>. QED BY <1>1, <1>2, ViewsAssumption DEF WorldTyped

LEMMA WorldStaysTyped ==
  ASSUME MoveInv, WorldTyped, [W!Next]_W!vars
  PROVE  WorldTyped'
<1>. DEFINE Spots == [at : Place, rev : Nat]
            Resets == [pc : {"idle", "read", "write"}, at : Place]
            Polls == [pc : {"closed", "idle", "back"}, at : Place, rev : Nat, locked : BOOLEAN]
            Typed == /\ worldRow \in Spots /\ worldScene \in Spots /\ worldNews \subseteq Spots
                     /\ worldMoving \in {"idle", "write"}
                     /\ worldSent \in 0..Command /\ worldRuns \in 0..MostAgentRuns
                     /\ worldReset \in Resets /\ worldPoll \in Polls /\ worldLocked \in BOOLEAN
<1>1. Typed /\ Home \in Place /\ Command \in Nat /\ MostAgentRuns \in Nat
  BY ViewsAssumption DEF WorldTyped, W!TypeOK, W!Spot
<1>2. SUFFICES Typed'
  BY DEF WorldTyped, W!TypeOK, W!Spot
<1>3. worldRow.at \in Place /\ worldRow.rev \in Nat
  BY <1>1
<1>4. CASE UNCHANGED W!vars
  BY <1>1, <1>4 DEF W!vars
<1>5. CASE W!OpenWorld
  BY <1>1, <1>5 DEF W!OpenWorld, W!server, W!NoAnswer
<1>6. ASSUME NEW p \in Place, W!PointAndClick(p) PROVE Typed'
  BY <1>1, <1>6 DEF W!PointAndClick
<1>7. ASSUME NEW i \in 1..Command, W!MoveChecksLock(i) PROVE Typed'
  BY <1>1, <1>7 DEF W!MoveChecksLock
<1>8. CASE W!MoveWrites
  <2>1. Head(worldQueue) \in Movement
    BY <1>8, HeadTailProperties DEF W!MoveWrites, MoveInv, MoveShape
  <2>2. [at |-> Head(worldQueue).to, rev |-> worldRow.rev + 1] \in Spots
    BY <1>3, <2>1 DEF Movement
  <2>. QED BY <1>1, <1>8, <2>2 DEF W!MoveWrites, W!Broadcast
<1>9. CASE W!LockAvatar
  BY <1>1, <1>9 DEF W!LockAvatar
<1>10. CASE W!Unlock
  BY <1>1, <1>10 DEF W!Unlock
<1>11. CASE W!ResetReads
  BY <1>1, <1>11 DEF W!ResetReads, W!Quiet
<1>12. CASE W!ResetWrites
  BY <1>1, <1>3, <1>12 DEF W!ResetWrites, W!Quiet, W!Broadcast
<1>13. ASSUME NEW e \in worldNews, W!AvatarMovement(e) \/ W!LoseMovement(e)
       PROVE  Typed'
  BY <1>1, <1>13 DEF W!AvatarMovement, W!LoseMovement, W!server
<1>14. CASE W!AgentStatus
  BY <1>1, <1>14 DEF W!AgentStatus, W!server
<1>15. CASE W!LoadAvatars
  BY <1>1, <1>3, <1>15 DEF W!LoadAvatars, W!server
<1>16. CASE W!ApplyAvatars
  BY <1>1, <1>16 DEF W!ApplyAvatars, W!server, W!FromPoll, W!NoAnswer
<1>. HIDE DEF Typed
<1>. QED BY <1>4, <1>5, <1>6, <1>7, <1>8, <1>9, <1>10, <1>11, <1>12, <1>13, <1>14, <1>15, <1>16 DEF W!Next

----------------------------------------------------------------------------
LEMMA SocketsStartTyped == G!Init => G!TypeOK
BY DEF G!Init, G!TypeOK

LEMMA SocketsStayTyped ==
  ASSUME G!TypeOK, [G!Next]_G!vars
  PROVE  G!TypeOK'
<1>1. ASSUME NEW s \in Sock, G!Close(s),
             socketsHello' = socketsHello \/ socketsHello' = [socketsHello EXCEPT ![s] = "done"],
             UNCHANGED <<socketsKnown, socketsSession>>
      PROVE  G!TypeOK'
  BY <1>1 DEF G!Close, G!TypeOK
<1>2. CASE UNCHANGED G!vars
  BY <1>2 DEF G!vars, G!TypeOK
<1>3. CASE G!EndSession
  BY <1>3 DEF G!EndSession, G!TypeOK
<1>4. ASSUME NEW s \in Sock, G!Connect(s) \/ G!AcceptSession(s) \/ G!Joined(s)
      PROVE  G!TypeOK'
  BY <1>4 DEF G!Connect, G!AcceptSession, G!Joined, G!Timers, G!TypeOK
<1>5. ASSUME NEW s \in Sock, G!RefuseSession(s) PROVE G!TypeOK'
  <2>1. UNCHANGED <<socketsKnown, socketsSession>> /\ socketsHello' = [socketsHello EXCEPT ![s] = "done"]
    BY <1>5 DEF G!RefuseSession
  <2>2. CASE G!Close(s)
    BY <1>1, <2>1, <2>2
  <2>3. CASE UNCHANGED <<socketsLink, socketsTimers, socketsPresence, socketsShown>>
    BY <2>1, <2>3 DEF G!TypeOK
  <2>. QED BY <1>5, <2>2, <2>3 DEF G!RefuseSession
<1>6. ASSUME NEW s \in Sock, G!Disconnect(s) \/ G!CheckSession(s) \/ G!CheckFails(s)
      PROVE  G!TypeOK'
  BY <1>1, <1>6 DEF G!Disconnect, G!CheckSession, G!CheckFails
<1>. QED BY <1>2, <1>3, <1>4, <1>5, <1>6 DEF G!Next

----------------------------------------------------------------------------
(* What a message event, a send on its way and a page hold are messages. *)
RoomTyped ==
  /\ M!TypeOK
  /\ roomOwn \in 0..roomRows
  /\ roomPoll \in [pc : {"closed", "idle", "back"}, page : SUBSET (1..roomRows)]

LEMMA RoomStartsTyped == M!Init => RoomTyped
<1>. SUFFICES ASSUME M!Init PROVE RoomTyped
  OBVIOUS
<1>1. roomPoll = [pc |-> "closed", page |-> {}]
  BY DEF M!Init, M!NoAnswer
<1>2. /\ roomRows = 0 /\ roomShown = {} /\ roomSocket = "closed" /\ roomWire = {}
      /\ roomOwn = 0 /\ roomFails = 0 /\ roomRevoke = 0
      /\ roomGrants \in [M!Grant -> {"none", "approved", "expired", "revoked"}]
  BY DEF M!Init, M!NoMessage, M!None
<1>3. 0 \in 0..MostRows /\ 0 \in 0..Degraded /\ 0 \in 0..0
  BY ViewsAssumption
<1>. QED BY <1>1, <1>2, <1>3 DEF M!TypeOK, RoomTyped, M!None

LEMMA RoomStaysTyped ==
  ASSUME RoomTyped, [M!Next]_M!vars
  PROVE  RoomTyped'
<1>. DEFINE Typed(m, shown, wire, own, poll) ==
              /\ m \in 0..MostRows /\ shown \subseteq 1..m /\ wire \subseteq 1..m /\ own \in 0..m
              /\ poll \in [pc : {"closed", "idle", "back"}, page : SUBSET (1..m)]
            Access == /\ roomRevoke \in M!Grant \union {0}
                      /\ roomGrants \in [M!Grant -> {"none", "approved", "expired", "revoked"}]
            Rest == roomSocket \in {"closed", "connected", "asked", "joined"} /\ roomFails \in 0..Degraded
<1>1. /\ Typed(roomRows, roomShown, roomWire, roomOwn, roomPoll) /\ Access /\ Rest
      /\ MostRows \in Nat /\ Degraded \in Nat /\ roomRows \in Nat
  BY ViewsAssumption DEF RoomTyped, M!TypeOK, M!None
<1>2. SUFFICES Typed(roomRows', roomShown', roomWire', roomOwn', roomPoll') /\ Access' /\ Rest'
  BY DEF RoomTyped, M!TypeOK, M!None, M!Grant
<1>3. CASE UNCHANGED M!vars
  BY <1>1, <1>3 DEF M!vars
<1>4. CASE M!OpenRoom \/ M!PollFails
  <2>1. UNCHANGED <<roomRows, roomShown, roomSocket, roomWire, roomOwn, roomGrants, roomRevoke>>
        /\ roomPoll' = [pc |-> "idle", page |-> {}]
        /\ (roomFails' = roomFails \/ (roomFails < Degraded /\ roomFails' = roomFails + 1))
    BY <1>4 DEF M!OpenRoom, M!PollFails, M!NoAnswer
  <2>. QED BY <1>1, <2>1
<1>5. CASE M!CreateMessage \/ M!SendMessage
  <2>1. /\ roomRows < MostRows /\ roomRows' = roomRows + 1
        /\ roomWire' \subseteq roomWire \union {roomRows + 1}
        /\ roomOwn' \in {roomOwn, roomRows + 1}
        /\ UNCHANGED <<roomShown, roomSocket, roomPoll, roomGrants, roomRevoke, roomFails>>
    BY <1>5 DEF M!CreateMessage, M!SendMessage
  <2>2. 1..roomRows \subseteq 1..(roomRows + 1) /\ roomRows + 1 \in 1..(roomRows + 1)
        /\ roomRows + 1 \in 0..MostRows
    BY <1>1, <2>1
  <2>3. roomPoll.pc \in {"closed", "idle", "back"} /\ roomPoll.page \subseteq 1..(roomRows + 1)
        /\ roomPoll = [pc |-> roomPoll.pc, page |-> roomPoll.page]
    BY <1>1, <2>2
  <2>. QED BY <1>1, <2>1, <2>2, <2>3
<1>6. CASE M!MessageSent
  BY <1>1, <1>6 DEF M!MessageSent, M!Merge, M!NoMessage
<1>7. CASE M!SocketConnects \/ M!ChatSubscribe \/ M!ChatJoin \/ M!SocketCloses
  BY <1>1, <1>7 DEF M!SocketConnects, M!ChatSubscribe, M!ChatJoin, M!SocketCloses
<1>8. ASSUME NEW k \in M!Grant, M!CreateGrant(k) \/ M!RevokeReads(k) \/ M!GrantExpires(k)
      PROVE  Typed(roomRows', roomShown', roomWire', roomOwn', roomPoll') /\ Access' /\ Rest'
  <2>1. UNCHANGED <<roomRows, roomShown, roomSocket, roomWire, roomPoll, roomOwn, roomFails>>
    BY <1>8 DEF M!CreateGrant, M!RevokeReads, M!GrantExpires
  <2>2. Access'
    BY <1>1, <1>8 DEF M!CreateGrant, M!RevokeReads, M!GrantExpires, M!Grant
  <2>. QED BY <1>1, <2>1, <2>2
<1>9. CASE M!RevokeWrites
  <2>1. Access' /\ UNCHANGED <<roomRows, roomShown, roomSocket, roomWire, roomPoll, roomOwn, roomFails>>
    BY <1>1, <1>9 DEF M!RevokeWrites, M!None, M!Grant
  <2>. QED BY <1>1, <2>1
<1>10. ASSUME NEW m \in roomWire, M!ChatMessage(m)
       PROVE  Typed(roomRows', roomShown', roomWire', roomOwn', roomPoll') /\ Access' /\ Rest'
  BY <1>1, <1>10 DEF M!ChatMessage, M!Merge
<1>11. CASE M!PollRoom
  <2>1. M!LatestPage \subseteq 1..roomRows
    BY DEF M!LatestPage
  <2>. QED BY <1>1, <1>11, <2>1 DEF M!PollRoom
<1>12. CASE M!PollAnswer
  <2>1. roomPoll.page \subseteq 1..roomRows
    BY <1>1
  <2>2. /\ roomShown' = roomShown \union roomPoll.page /\ roomPoll' = [pc |-> "idle", page |-> {}]
        /\ roomFails' = 0
        /\ UNCHANGED <<roomRows, roomSocket, roomWire, roomOwn, roomGrants, roomRevoke>>
    BY <1>12 DEF M!PollAnswer, M!Merge, M!NoAnswer
  <2>3. [pc |-> "idle", page |-> {}] \in [pc : {"closed", "idle", "back"}, page : SUBSET (1..roomRows)]
        /\ 0 \in 0..Degraded
    BY <1>1
  <2>. QED BY <1>1, <2>1, <2>2, <2>3
<1>. HIDE DEF Typed, Access, Rest
<1>. QED BY <1>3, <1>4, <1>5, <1>6, <1>7, <1>8, <1>9, <1>10, <1>11, <1>12 DEF M!Next

CliState == [pc : {"off", "connect", "commit", "up", "stopping", "gone"},
             cred : K!Cred \union {0}, beat : {"idle", "sent"}]

(* The connectors seen are those of commands. *)
ConnectorTyped ==
  /\ K!TypeOK
  /\ connectorCli \in [Cli -> CliState] /\ connectorContact \in Seq(Cli)

LEMMA ConnectorStartsTyped == K!Init => ConnectorTyped
<1>. SUFFICES ASSUME K!Init PROVE ConnectorTyped
  OBVIOUS
<1>1. MostPairings \in Nat /\ MostCopies \in Nat
  BY ViewsAssumption
<1>2. K!TypeOK
  BY <1>1 DEF K!Init, K!TypeOK, K!None, K!Kind
<1>3. connectorCli \in [Cli -> CliState] /\ connectorContact \in Seq(Cli)
  BY DEF K!Init, K!None, CliState
<1>. QED BY <1>2, <1>3 DEF ConnectorTyped

(* A contact moves its connector to the end. *)
LEMMA SeenIsTyped ==
  ASSUME ConnectorTyped, NEW k \in Cli, K!Seen(k)
  PROVE  connectorContact' \in Seq(Cli) /\ connectorFresh' \subseteq Cli
<1>. DEFINE c == connectorContact
            i == CHOOSE j \in DOMAIN c : c[j] = k
            a == SubSeq(c, 1, i - 1)
            b == SubSeq(c, i + 1, Len(c))
<1>1. c \in Seq(Cli) /\ connectorFresh \subseteq Cli
  BY DEF ConnectorTyped, K!TypeOK
<1>2. /\ connectorFresh' = connectorFresh \union {k}
      /\ connectorContact' = Append(IF k \in K!Range(c) THEN K!RemoveAt(c, i) ELSE c, k)
  BY DEF K!Seen
<1>3. ASSUME k \in K!Range(c) PROVE K!RemoveAt(c, i) \in Seq(Cli)
  <2>1. \E j \in DOMAIN c : c[j] = k
    BY <1>3 DEF K!Range
  <2>2. i \in 1..Len(c) /\ Len(c) \in Nat
    BY <1>1, <2>1
  <2>. HIDE DEF i
  <2>3. \A n \in 1..Len(c) : c[n] \in Cli
    BY <1>1, ElementOfSeq
  <2>4. a \in Seq(Cli)
    BY <2>2, <2>3, SubSeqProperties
  <2>5. b \in Seq(Cli)
    BY <2>2, <2>3, SubSeqProperties
  <2>6. K!RemoveAt(c, i) = a \o b
    BY DEF K!RemoveAt
  <2>. HIDE DEF a, b
  <2>. QED BY <2>4, <2>5, <2>6, ConcatProperties
<1>. HIDE DEF c, i
<1>4. (IF k \in K!Range(c) THEN K!RemoveAt(c, i) ELSE c) \in Seq(Cli)
  BY <1>1, <1>3
<1>. QED BY <1>1, <1>2, <1>4, AppendProperties

LEMMA ConnectorStaysTyped ==
  ASSUME ConnectorTyped, [K!Next]_K!vars
  PROVE  ConnectorTyped'
<1>. DEFINE Cards == /\ connectorPairing \in [K!Cred -> {"none", "live", "used", "expired"}]
                     /\ connectorCard \in K!Cred \union {0} /\ connectorMaking \in 0..MostPairings
            Clis == connectorCli \in [Cli -> CliState]
            Rows == /\ connectorRow \in [Cli -> {"none", "online", "offline"}]
                    /\ connectorFresh \subseteq Cli /\ connectorContact \in Seq(Cli)
            Wire == connectorWire \in [Cli -> [K!Kind -> 0..MostCopies]]
            Panel == connectorProfile \in {"none", "online", "offline"}
<1>. DEFINE Typed == Cards /\ Clis /\ Rows /\ Wire /\ Panel
<1>1. Cards /\ Clis /\ Rows /\ Wire /\ Panel /\ MostPairings \in Nat /\ MostCopies \in Nat
  BY ViewsAssumption DEF ConnectorTyped, K!TypeOK, K!None
<1>2. SUFFICES Typed'
  BY DEF ConnectorTyped, K!TypeOK, K!None, K!Cred, K!Kind, CliState
<1>3. CASE UNCHANGED K!vars
  BY <1>1, <1>3 DEF K!vars
<1>4. CASE K!ReplacePairings \/ \E c \in K!Cred : K!CreatePairing(c) \/ K!ExpirePairing(c)
  <2>1. Cards'
    BY <1>1, <1>4 DEF K!ReplacePairings, K!CreatePairing, K!ExpirePairing, K!Cred
  <2>2. UNCHANGED <<connectorCli, connectorRow, connectorFresh, connectorContact, connectorWire, connectorProfile>>
    BY <1>4 DEF K!ReplacePairings, K!CreatePairing, K!ExpirePairing, K!rows
  <2>. QED BY <1>1, <2>1, <2>2
<1>5. CASE K!RefreshProfile
  <2>1. Rows'
    BY <1>1, <1>5 DEF K!RefreshProfile
  <2>2. Panel'
    <3>1. connectorContact # <<>> => connectorContact[Len(connectorContact)] \in Cli
      BY <1>1
    <3>. QED BY <1>5, <2>1, <3>1 DEF K!RefreshProfile, K!Last
  <2>3. UNCHANGED <<connectorPairing, connectorCard, connectorMaking, connectorCli, connectorWire>>
    BY <1>5 DEF K!RefreshProfile, K!cards
  <2>. QED BY <1>1, <2>1, <2>2, <2>3
<1>8. ASSUME NEW k \in Cli, NEW n \in K!Kind, K!Post(k, n) PROVE Wire'
  BY <1>1, <1>8 DEF K!Post, K!Kind
<1>9. ASSUME NEW k \in Cli,
             K!StartCli(k) \/ K!ConnectReads(k) \/ K!CrashCli(k)
      PROVE  Typed'
  <2>1. Clis'
    <3>1. CASE K!StartCli(k)
      <4>. DEFINE f == [connectorCli EXCEPT ![k].pc = "connect"]
      <4>1. f \in [Cli -> CliState]
        BY <1>1 DEF CliState
      <4>2. connectorCli' = [f EXCEPT ![k].cred = connectorCard]
        BY <3>1 DEF K!StartCli
      <4>. HIDE DEF f
      <4>. QED BY <1>1, <4>1, <4>2 DEF CliState
    <3>2. CASE K!ConnectReads(k)
      BY <1>1, <3>2 DEF K!ConnectReads, CliState
    <3>3. CASE K!CrashCli(k)
      BY <1>1, <3>3 DEF K!CrashCli, CliState
    <3>. QED BY <1>9, <3>1, <3>2, <3>3
  <2>2. UNCHANGED <<connectorPairing, connectorCard, connectorMaking, connectorRow, connectorFresh,
                    connectorContact, connectorWire, connectorProfile>>
    BY <1>9 DEF K!StartCli, K!ConnectReads, K!CrashCli, K!cards, K!rows
  <2>. QED BY <1>1, <2>1, <2>2
<1>10. ASSUME NEW k \in Cli, K!ConnectCommits(k) PROVE Typed'
  <2>1. connectorContact' \in Seq(Cli) /\ connectorFresh' \subseteq Cli
    BY <1>10, SeenIsTyped DEF K!ConnectCommits
  <2>2. Rows'
    BY <1>1, <1>10, <2>1 DEF K!ConnectCommits
  <2>3. Cards'
    BY <1>1, <1>10 DEF K!ConnectCommits
  <2>4. Clis'
    BY <1>1, <1>10 DEF K!ConnectCommits, CliState
  <2>. QED BY <1>1, <1>10, <2>2, <2>3, <2>4 DEF K!ConnectCommits
<1>11. ASSUME NEW k \in Cli,
              K!SendHeartbeat(k) \/ K!RetryHeartbeat(k) \/ K!EndHeartbeat(k) \/ K!ReportEvent(k) \/ K!Stop(k)
       PROVE  Typed'
  <2>1. Clis'
    <3>1. CASE K!SendHeartbeat(k)
      BY <1>1, <3>1 DEF K!SendHeartbeat, CliState
    <3>2. CASE K!RetryHeartbeat(k) \/ K!ReportEvent(k)
      BY <1>1, <3>2 DEF K!RetryHeartbeat, K!ReportEvent
    <3>3. CASE K!EndHeartbeat(k)
      <4>. DEFINE f == [connectorCli EXCEPT ![k].beat = "idle"]
      <4>1. f \in [Cli -> CliState]
        BY <1>1 DEF CliState
      <4>2. connectorCli' = [f EXCEPT ![k].pc = IF @ = "up" THEN "up" ELSE "gone"]
        BY <3>3 DEF K!EndHeartbeat
      <4>. HIDE DEF f
      <4>3. connectorCli' = [f EXCEPT ![k].pc = "up"] \/ connectorCli' = [f EXCEPT ![k].pc = "gone"]
        BY <4>2
      <4>. QED BY <4>1, <4>3 DEF CliState
    <3>4. CASE K!Stop(k)
      <4>. DEFINE f == [connectorCli EXCEPT ![k].pc = "stopping"]
      <4>1. f \in [Cli -> CliState]
        BY <1>1 DEF CliState
      <4>2. connectorCli' = [f EXCEPT ![k].beat = "sent"]
        BY <3>4 DEF K!Stop
      <4>. HIDE DEF f
      <4>. QED BY <1>1, <4>1, <4>2 DEF CliState
    <3>. QED BY <1>11, <3>1, <3>2, <3>3, <3>4
  <2>2. Wire'
    <3>1. (\E n \in K!Kind : K!Post(k, n)) \/ UNCHANGED connectorWire
      BY <1>11 DEF K!SendHeartbeat, K!RetryHeartbeat, K!EndHeartbeat, K!ReportEvent, K!Stop, K!Kind
    <3>. QED BY <1>1, <1>8, <3>1
  <2>3. UNCHANGED <<connectorPairing, connectorCard, connectorMaking, connectorRow, connectorFresh,
                    connectorContact, connectorProfile>>
    BY <1>11 DEF K!SendHeartbeat, K!RetryHeartbeat, K!EndHeartbeat, K!ReportEvent, K!Stop, K!cards, K!rows
  <2>. QED BY <1>1, <2>1, <2>2, <2>3
<1>12. ASSUME NEW k \in Cli, K!Age(k) PROVE Typed'
  BY <1>1, <1>12 DEF K!Age, K!cards
<1>13. ASSUME NEW k \in Cli, NEW n \in K!Kind, K!Handle(k, n) \/ K!LoseRequest(k, n) PROVE Typed'
  <2>1. Wire'
    <3>1. /\ connectorWire' = [connectorWire EXCEPT ![k][n] = @ - 1]
          /\ connectorWire[k][n] > 0 /\ connectorWire[k][n] \in 0..MostCopies
      BY <1>1, <1>13 DEF K!Handle, K!LoseRequest
    <3>2. connectorWire[k][n] - 1 \in 0..MostCopies
      BY <1>1, <3>1
    <3>. QED BY <1>1, <3>1, <3>2 DEF K!Kind
  <2>2. CASE K!Handle(k, n)
    <3>1. connectorContact' \in Seq(Cli) /\ connectorFresh' \subseteq Cli
      BY <2>2, SeenIsTyped DEF K!Handle
    <3>2. Rows'
      BY <1>1, <2>2, <3>1 DEF K!Handle, K!Kind
    <3>. QED BY <1>1, <2>1, <2>2, <3>2 DEF K!Handle, K!cards
  <2>3. CASE K!LoseRequest(k, n)
    BY <1>1, <2>1, <2>3 DEF K!LoseRequest, K!cards, K!rows
  <2>. QED BY <1>13, <2>2, <2>3
<1>. HIDE DEF Typed
<1>. QED BY <1>3, <1>4, <1>5, <1>9, <1>10, <1>11, <1>12, <1>13 DEF K!Next

----------------------------------------------------------------------------
LEMMA BannerStartsTyped == B!Init => B!TypeOK
BY ViewsAssumption DEF B!Init, B!TypeOK, B!Version

LEMMA BannerStaysTyped ==
  ASSUME B!TypeOK, [B!Next]_B!vars
  PROVE  B!TypeOK'
<1>. DEFINE D == 0..MostVersions
            Typed == /\ bannerVersion \in D /\ bannerSeen \in D /\ bannerView \in D
                     /\ bannerCall \in [BannerCall -> [pc : {"idle", "read", "send"}, v : D]]
                     /\ bannerSocket \in {"none", "down", "asked", "joined"}
                     /\ bannerWire \in Seq(D) /\ bannerPolls \subseteq D
<1>1. Typed /\ MostVersions \in Nat
  BY ViewsAssumption DEF B!TypeOK, B!Version
<1>2. SUFFICES Typed'
  BY DEF B!TypeOK, B!Version
<1>3. CASE UNCHANGED B!vars
  BY <1>1, <1>3 DEF B!vars
<1>4. ASSUME NEW c \in BannerCall, B!Commit(c) \/ B!ReadSnapshot(c) PROVE Typed'
  BY <1>1, <1>4 DEF B!Commit, B!ReadSnapshot
<1>5. ASSUME NEW c \in BannerCall, B!Broadcast(c) PROVE Typed'
  <2>1. bannerCall[c].v \in D
    BY <1>1
  <2>2. Append(bannerWire, bannerCall[c].v) \in Seq(D)
    BY <1>1, <2>1, AppendProperties
  <2>3. bannerWire' \in Seq(D)
    BY <1>1, <1>5, <2>2 DEF B!Broadcast
  <2>4. bannerCall' \in [BannerCall -> [pc : {"idle", "read", "send"}, v : D]]
    BY <1>1, <1>5 DEF B!Broadcast
  <2>. QED BY <1>1, <1>5, <2>3, <2>4 DEF B!Broadcast
<1>6. CASE B!OpenPage \/ B!SocketConnects \/ B!ClassroomJoin \/ B!SocketDrops
  <2>1. /\ bannerSocket' \in {"none", "down", "asked", "joined"}
        /\ bannerWire' \in {bannerWire, <<>>} /\ bannerSeen' \in D /\ bannerView' \in D
        /\ UNCHANGED <<bannerVersion, bannerCall, bannerPolls>>
    BY <1>1, <1>6 DEF B!OpenPage, B!SocketConnects, B!ClassroomJoin, B!SocketDrops, B!server
  <2>2. <<>> \in Seq(D)
    OBVIOUS
  <2>. QED BY <1>1, <2>1, <2>2
<1>7. CASE B!StageUpdate
  <2>1. Head(bannerWire) \in D /\ Tail(bannerWire) \in Seq(D)
    BY <1>1, <1>7, HeadTailProperties DEF B!StageUpdate
  <2>. QED BY <1>1, <1>7, <2>1 DEF B!StageUpdate, B!server
<1>8. CASE B!Poll
  BY <1>1, <1>8 DEF B!Poll, B!server
<1>9. ASSUME NEW v \in B!Version, B!PollAnswer(v) \/ B!PollFails(v) PROVE Typed'
  BY <1>1, <1>9 DEF B!PollAnswer, B!PollFails, B!server, B!Version
<1>. HIDE DEF Typed
<1>. QED BY <1>3, <1>4, <1>5, <1>6, <1>7, <1>8, <1>9 DEF B!Next

----------------------------------------------------------------------------
Steps == {"idle", "asked", "deleting", "clear", "cleared", "unreached",
          "ok", "401", "500", "lost"}
Syncs == [step : Steps, token : V!Token \union {0}]
Banners == {"closed", "login", "guest", "loaded", "network"}
Exits == {"idle", "asked", "answered", "lost"}
RowStates == {"unused", "there", "gone"}

LEMMA SessionsStartTyped == V!Init => V!TypeOK
<1>. SUFFICES ASSUME V!Init PROVE V!TypeOK
  OBVIOUS
<1>1. 0 \in 0..Ttl /\ 0 \in 0..WebTroubles
  BY ViewsAssumption
<1>. QED BY <1>1 DEF V!Init, V!TypeOK, V!None, V!Quiet, V!Answers

LEMMA SessionsStayTyped ==
  ASSUME V!TypeOK, [V!Next]_V!vars
  PROVE  V!TypeOK'
<1>. DEFINE R == webRow \in [V!Token -> RowStates]
            C == webCookie \in V!Token \union {0} /\ webSnapshot \in V!Token \union {0}
            D == webBanner \in [Tab -> Banners]
            Sy == webSync \in [Tab -> Syncs]
            Le == webLeave \in [Tab -> Exits]
            Tr == webTroubles \in 0..WebTroubles
            Ag == webAge \in [V!Token -> 0..Ttl]
            Du == webDue \in [Tab -> BOOLEAN]
            Typed == R /\ C /\ D /\ Sy /\ Le /\ Tr /\ Ag
<1>1. R /\ C /\ D /\ Sy /\ Le /\ Tr /\ Ag /\ Du /\ Ttl \in Nat /\ WebTroubles \in Nat
  BY ViewsAssumption DEF V!TypeOK, V!None, V!Answers, Syncs, Steps, Banners, Exits, RowStates
<1>2. SUFFICES Typed' /\ Du'
  BY DEF V!TypeOK, V!None, V!Answers, Syncs, Steps, Banners, Exits, RowStates, V!Token
<1>19. Du'
  <2>1. ASSUME NEW b \in Tab, NEW q \in BOOLEAN, webDue' = [webDue EXCEPT ![b] = q] PROVE Du'
    BY <1>1, <2>1
  <2>2. ASSUME NEW b \in Tab, V!Open(b) PROVE Du'
    <3>1. (webSnapshot # V!None /\ webCookie # V!None /\ V!Over(webCookie)) \in BOOLEAN
      OBVIOUS
    <3>. QED BY <2>1, <2>2, <3>1 DEF V!Open
  <2>3. ASSUME NEW b \in Tab, NEW t \in V!Token, V!Login(b, t) PROVE Du'
    BY <2>1, <2>3 DEF V!Login
  <2>4. ASSUME NEW b \in Tab, V!LoseAnswer(b) PROVE Du'
    BY <2>1, <2>4 DEF V!LoseAnswer
  <2>5. ASSUME NEW b \in Tab, V!DeleteExpired(b) PROVE Du'
    <3>1. (webDue[b] /\ V!There(webSync[b].token)) \in BOOLEAN
      OBVIOUS
    <3>2. webDue' = [webDue EXCEPT ![b] = webDue[b] /\ V!There(webSync[b].token)]
      BY <1>1, <2>5 DEF V!DeleteExpired
    <3>. QED BY <2>1, <3>1, <3>2
  <2>6. \/ webDue' = webDue
        \/ \E b \in Tab : V!Open(b) \/ V!LoseAnswer(b) \/ V!DeleteExpired(b)
                             \/ \E t \in V!Token : V!Login(b, t)
    BY DEF V!Next, V!Works, V!vars, V!Tick, V!CleanUp, V!CookieEnds, V!GetSession, V!SessionOver, V!ClearAsks,
           V!SaveSession, V!NetworkError, V!ClearSession, V!ClearLost, V!LogoutAsks, V!LogoutEnds,
           V!LogoutLost, V!Logout
  <2>. QED BY <1>1, <2>2, <2>3, <2>4, <2>5, <2>6
<1>3. CASE UNCHANGED V!vars
  BY <1>1, <1>3 DEF V!vars
<1>4. CASE V!Tick
  <2>1. ASSUME NEW t \in V!Token, webAge[t] # Ttl PROVE webAge[t] + 1 \in 0..Ttl
    BY <1>1, <2>1
  <2>2. Ag'
    BY <1>1, <1>4, <2>1 DEF V!Tick, V!Expired
  <2>. QED BY <1>1, <1>4, <2>2 DEF V!Tick
<1>5. CASE V!CleanUp
  BY <1>1, <1>5 DEF V!CleanUp, RowStates
<1>6. CASE V!CookieEnds
  BY <1>1, <1>6 DEF V!CookieEnds, V!None
<1>7. ASSUME NEW t, V!Delete(t) PROVE R'
  BY <1>1, <1>7 DEF V!Delete, V!There, RowStates
<1>8. ASSUME NEW b \in Tab, NEW step \in Steps, V!Step(b, step) PROVE Sy'
  BY <1>1, <1>8 DEF V!Step, Syncs
<1>9. ASSUME NEW b \in Tab, NEW what \in Banners, V!Show(b, what) PROVE D'
  BY <1>1, <1>9 DEF V!Show
<1>10. V!Quiet \in Syncs
  BY DEF V!Quiet, V!None, Syncs, Steps
<1>11. ASSUME NEW b \in Tab, webSync' = [webSync EXCEPT ![b] = V!Quiet] PROVE Sy'
  BY <1>1, <1>10, <1>11
<1>12. ASSUME NEW b \in Tab, V!Open(b) PROVE Typed'
  <2>1. D'
    <3>1. \E what \in Banners : V!Show(b, what)
      <4>1. "login" \in Banners /\ "guest" \in Banners /\ "loaded" \in Banners
        BY DEF Banners
      <4>2. (CASE webCookie = V!None -> "login"
               [] webCookie # V!None /\ webSnapshot = V!None -> "guest"
               [] OTHER -> "loaded") \in Banners
        BY <4>1
      <4>. QED BY <1>12, <4>2 DEF V!Open
    <3>. QED BY <1>9, <3>1
  <2>2. Sy'
    <3>1. [step |-> "asked", token |-> webCookie] \in Syncs
      BY <1>1 DEF Syncs, Steps
    <3>2. \E q \in Syncs : webSync' = [webSync EXCEPT ![b] = q]
      BY <1>10, <1>12, <3>1 DEF V!Open
    <3>. QED BY <1>1, <3>2
  <2>. QED BY <1>1, <1>12, <2>1, <2>2 DEF V!Open
<1>13. ASSUME NEW b \in Tab, NEW t \in V!Token, V!Login(b, t) PROVE Typed'
  <2>1. D'
    BY <1>9, <1>13 DEF V!Login, Banners
  <2>2. R' /\ C'
    BY <1>1, <1>13 DEF V!Login, RowStates
  <2>. QED BY <1>1, <1>13, <2>1, <2>2 DEF V!Login
<1>14. ASSUME NEW b \in Tab,
              V!GetSession(b) \/ V!DeleteExpired(b) \/ V!SessionOver(b) \/ V!ClearAsks(b)
       PROVE  Typed'
  <2>1. Sy'
    <3>1. CASE V!GetSession(b)
      <4>1. "401" \in Steps /\ "ok" \in Steps /\ "deleting" \in Steps
        BY DEF Steps
      <4>2. \A t : (CASE ~V!There(t) -> "401" [] V!There(t) /\ ~V!Expired(t) -> "ok"
                      [] OTHER -> "deleting") \in Steps
        BY <4>1
      <4>3. \E step \in Steps : V!Step(b, step)
        BY <3>1, <4>2 DEF V!GetSession
      <4>. QED BY <1>8, <4>3
    <3>2. CASE V!DeleteExpired(b) \/ V!SessionOver(b) \/ V!ClearAsks(b)
      <4>1. \E step \in Steps : V!Step(b, step)
        BY <3>2 DEF V!DeleteExpired, V!SessionOver, V!ClearAsks, Steps
      <4>. QED BY <1>8, <4>1
    <3>. QED BY <1>14, <3>1, <3>2
  <2>2. R'
    <3>1. UNCHANGED webRow \/ \E t \in V!Token \union {0} \union {webSync[b].token} : V!Delete(t)
      BY <1>1, <1>14 DEF V!GetSession, V!DeleteExpired, V!SessionOver, V!ClearAsks
    <3>. QED BY <1>1, <1>7, <3>1
  <2>3. UNCHANGED <<webAge, webCookie, webSnapshot, webBanner, webLeave, webTroubles>>
    BY <1>14 DEF V!GetSession, V!DeleteExpired, V!SessionOver, V!ClearAsks
  <2>. QED BY <1>1, <2>1, <2>2, <2>3
<1>15. ASSUME NEW b \in Tab, V!SaveSession(b) \/ V!NetworkError(b) \/ V!ClearSession(b) PROVE Typed'
  <2>1. Sy'
    BY <1>11, <1>15 DEF V!SaveSession, V!NetworkError, V!ClearSession
  <2>2. D'
    <3>1. \E what \in Banners : V!Show(b, what)
      BY <1>15 DEF V!SaveSession, V!NetworkError, V!ClearSession, Banners
    <3>. QED BY <1>9, <3>1
  <2>3. C'
    <3>1. webSync[b].token \in V!Token \union {0}
      BY <1>1 DEF Syncs
    <3>. QED BY <1>1, <1>15, <3>1 DEF V!SaveSession, V!NetworkError, V!ClearSession, V!None
  <2>4. UNCHANGED <<webRow, webAge, webLeave, webTroubles>>
    BY <1>15 DEF V!SaveSession, V!NetworkError, V!ClearSession
  <2>. QED BY <1>1, <2>1, <2>2, <2>3, <2>4
<1>16. ASSUME NEW b \in Tab, V!LoseAnswer(b) \/ V!ClearLost(b) PROVE Typed'
  <2>1. Sy'
    <3>1. \E step \in Steps : V!Step(b, step)
      BY <1>16 DEF V!LoseAnswer, V!ClearLost, Steps
    <3>. QED BY <1>8, <3>1
  <2>2. Tr'
    BY <1>1, <1>16 DEF V!LoseAnswer, V!ClearLost
  <2>. QED BY <1>1, <1>16, <2>1, <2>2 DEF V!LoseAnswer, V!ClearLost
<1>17. ASSUME NEW b \in Tab, V!LogoutAsks(b) \/ V!LogoutEnds(b) \/ V!LogoutLost(b) PROVE Typed'
  <2>1. Le' /\ Tr'
    BY <1>1, <1>17 DEF V!LogoutAsks, V!LogoutEnds, V!LogoutLost, Exits
  <2>2. R'
    <3>1. UNCHANGED webRow \/ V!Delete(webCookie)
      BY <1>17 DEF V!LogoutAsks, V!LogoutEnds, V!LogoutLost
    <3>. QED BY <1>1, <1>7, <3>1
  <2>. QED BY <1>1, <1>17, <2>1, <2>2 DEF V!LogoutAsks, V!LogoutEnds, V!LogoutLost
<1>18. ASSUME NEW b \in Tab, V!Logout(b) PROVE Typed'
  <2>1. D'
    BY <1>9, <1>18 DEF V!Logout, Banners
  <2>2. C' /\ Le'
    BY <1>1, <1>18 DEF V!Logout, V!None, Exits
  <2>. QED BY <1>1, <1>18, <2>1, <2>2 DEF V!Logout
<1>. HIDE DEF Typed
<1>. QED BY <1>3, <1>4, <1>5, <1>6, <1>12, <1>13, <1>14, <1>15, <1>16, <1>17, <1>18, <1>19 DEF V!Next, V!Works

----------------------------------------------------------------------------
(* Every publication is of a change that was counted. *)
AvatarsTyped == A!TypeOK /\ avatarsDue <= avatarsChanges

LEMMA Derives == ASSUME NEW fs \in SUBSET Fact PROVE A!Derive(fs) \in A!Status
BY DEF A!Status

LEMMA AvatarKinds ==
  /\ A!Told = A!Status \union {"offline"} /\ A!Zone = {"lobby", "workstations"}
  /\ A!Absent \in A!Avatar /\ A!Absent = [status |-> "none", zone |-> "workstations"]
  /\ A!Avatar = [status : A!Told, zone : A!Zone] \union {A!Absent}
  /\ \A v \in A!Avatar : v.status \in A!Status \union {"offline", "none"} /\ v.zone \in A!Zone
<1>1. A!Told = A!Status \union {"offline"} /\ A!Zone = {"lobby", "workstations"}
      /\ A!Absent = [status |-> "none", zone |-> "workstations"]
      /\ A!Avatar = [status : A!Told, zone : A!Zone] \union {A!Absent}
  BY DEF A!Told, A!Zone, A!Here, A!Absent, A!Avatar
<1>. QED BY <1>1

LEMMA AvatarsStartTyped == A!Init => AvatarsTyped
<1>. SUFFICES ASSUME A!Init PROVE AvatarsTyped
  OBVIOUS
<1>1. 0 \in 0..MostChanges /\ MostEvents \in Nat
  BY ViewsAssumption
<1>2. /\ avatarsWire = <<>> /\ avatarsWire \in Seq(A!Told \union {"gone", "here"}) /\ Len(avatarsWire) = 0
  BY DEF A!Init
<1>3. avatarsLoads \in [A!Load -> [pc : {"idle", "read", "end"}, value : A!Avatar]]
  BY AvatarKinds DEF A!Init
<1>4. avatarsCache \in [live : BOOLEAN, value : A!Avatar]
  BY AvatarKinds DEF A!Init
<1>5. /\ avatarsOnline \in BOOLEAN /\ avatarsFacts \subseteq Fact /\ avatarsZone \in A!Zone
      /\ avatarsChanges = 0 /\ avatarsDue = 0 /\ avatarsShared = 0 /\ avatarsWaits = {} /\ avatarsLists = {}
      /\ avatarsNews = {} /\ avatarsFetched = {} /\ avatarsPage = "closed" /\ avatarsShown \in A!Avatar
      /\ avatarsDrawn = "none"
  BY AvatarKinds DEF A!Init
<1>. QED BY <1>1, <1>2, <1>3, <1>4, <1>5 DEF A!TypeOK, AvatarsTyped

LEMMA AvatarsStayTyped ==
  ASSUME AvatarsTyped, [A!Next]_A!vars
  PROVE  AvatarsTyped'
<1>. DEFINE Events == A!Told \union {"gone", "here"}
            Rows == avatarsOnline \in BOOLEAN /\ avatarsFacts \subseteq Fact /\ avatarsZone \in A!Zone
            Count == avatarsChanges \in 0..MostChanges /\ avatarsDue \in 0..MostChanges /\ avatarsDue <= avatarsChanges
            Cache == avatarsCache \in [live : BOOLEAN, value : A!Avatar]
            Loads == avatarsLoads \in [A!Load -> [pc : {"idle", "read", "end"}, value : A!Avatar]]
            Waits == avatarsShared \in A!Load \union {0} /\ avatarsWaits \subseteq A!Load /\ avatarsLists \subseteq A!Avatar
            Wire == avatarsWire \in Seq(Events) /\ Len(avatarsWire) <= MostEvents
            News == avatarsNews \subseteq A!Told /\ avatarsFetched \subseteq A!Avatar
            Page == avatarsPage \in {"closed", "open"} /\ avatarsShown \in A!Avatar
                    /\ avatarsDrawn \in A!Status \union {"none", "hidden"}
            Typed == Rows /\ Count /\ Cache /\ Loads /\ Waits /\ Wire /\ News /\ Page
<1>. USE DEF A!world, A!service, A!socket, A!browser
<1>1. /\ Rows /\ Count /\ Cache /\ Loads /\ Waits /\ Wire /\ News /\ Page
      /\ MostChanges \in Nat /\ MostEvents \in Nat
  BY ViewsAssumption DEF AvatarsTyped, A!TypeOK
<1>2. SUFFICES Typed'
  BY DEF AvatarsTyped, A!TypeOK, A!Told, A!Status, A!Avatar, A!Load, A!Zone
<1>. HIDE DEF Events
<1>3. CASE UNCHANGED A!vars
  BY <1>1, <1>3 DEF A!vars
<1>4. ASSUME NEW e \in Events, A!Emit(e) PROVE Wire'
  <2>1. Append(avatarsWire, e) \in Seq(Events) /\ Len(Append(avatarsWire, e)) = Len(avatarsWire) + 1
    BY <1>1, AppendProperties
  <2>2. Len(avatarsWire) \in Nat
    BY <1>1
  <2>. QED BY <1>1, <1>4, <2>1, <2>2 DEF A!Emit, Events
<1>5. A!Changes => Count' \/ avatarsDue' # avatarsDue
  BY <1>1 DEF A!Changes
<1>6. A!Single \in A!Avatar /\ A!Single.status \in A!Told /\ A!Entry \in A!Avatar
  <2>1. A!Derive(avatarsFacts) \in A!Status
    BY <1>1, Derives
  <2>. QED BY <1>1, <2>1, AvatarKinds DEF A!Single, A!Entry
<1>7. A!Invalidate => Cache' /\ avatarsShared' = 0
  BY <1>1 DEF A!Invalidate
<1>8. "gone" \in Events /\ "here" \in Events /\ A!Told \subseteq Events
  BY DEF Events
<1>9. CASE A!PresenceChanges
  <2>1. Wire'
    BY <1>4, <1>8, <1>9 DEF A!PresenceChanges
  <2>. QED BY <1>1, <1>5, <1>9, <2>1 DEF A!PresenceChanges
<1>10. ASSUME NEW fs \in SUBSET Fact, A!FactsChange(fs) PROVE Typed'
  <2>1. Count'
    BY <1>1, <1>10 DEF A!FactsChange, A!Changes
  <2>. QED BY <1>1, <1>10, <2>1 DEF A!FactsChange
<1>11. ASSUME NEW z \in A!Zone, A!EnterZone(z) PROVE Typed'
  BY <1>1, <1>5, <1>7, <1>11 DEF A!EnterZone
<1>12. CASE A!PublishReads
  <2>1. Count' /\ News'
    BY <1>1, <1>6, <1>12 DEF A!PublishReads
  <2>. QED BY <1>1, <1>7, <1>12, <2>1 DEF A!PublishReads
<1>13. ASSUME NEW s \in A!Told, A!PublishSends(s) PROVE Typed'
  <2>1. Wire'
    BY <1>4, <1>8, <1>13 DEF A!PublishSends
  <2>. QED BY <1>1, <1>13, <2>1 DEF A!PublishSends
<1>14. CASE A!CacheExpires
  BY <1>1, <1>14 DEF A!CacheExpires
<1>15. ASSUME A!GetAvatars PROVE Loads' /\ Waits'
  <2>1. CASE A!FromCache \/ A!FromShared
    BY <1>1, <2>1 DEF A!FromCache, A!FromShared
  <2>2. ASSUME NEW l \in A!Load, A!FromNew(l) PROVE Loads' /\ Waits'
    <3>1. [pc |-> "read", value |-> A!Absent] \in [pc : {"idle", "read", "end"}, value : A!Avatar]
      BY AvatarKinds
    <3>. QED BY <1>1, <2>2, <3>1 DEF A!FromNew
  <2>. QED BY <1>15, <2>1, <2>2 DEF A!GetAvatars
<1>16. CASE A!OpenPage \/ A!Poll \/ A!SocketConnects
  <2>1. Loads' /\ Waits'
    BY <1>15, <1>16 DEF A!OpenPage, A!Poll, A!SocketConnects
  <2>2. Page' /\ Count'
    BY <1>1, <1>16 DEF A!OpenPage, A!Poll, A!SocketConnects, A!GetAvatars, A!Changes
  <2>. QED BY <1>1, <1>16, <2>1, <2>2 DEF A!OpenPage, A!Poll, A!SocketConnects, A!GetAvatars
<1>17. ASSUME NEW l \in A!Load, A!LoadReads(l) PROVE Typed'
  <2>1. [pc |-> "end", value |-> IF avatarsOnline THEN A!Entry ELSE A!Absent]
          \in [pc : {"idle", "read", "end"}, value : A!Avatar]
    BY <1>6, AvatarKinds
  <2>. QED BY <1>1, <1>17, <2>1 DEF A!LoadReads
<1>18. ASSUME NEW l \in A!Load, NEW v \in A!Avatar, A!Finish(l, v) PROVE Loads' /\ Waits'
  <2>1. [pc |-> "idle", value |-> A!Absent] \in [pc : {"idle", "read", "end"}, value : A!Avatar]
    BY AvatarKinds
  <2>. QED BY <1>1, <1>18, <2>1 DEF A!Finish, A!Forget
<1>19. ASSUME NEW l \in A!Load, A!LoadEnds(l) PROVE Typed'
  <2>1. avatarsLoads[l].value \in A!Avatar
    BY <1>1
  <2>2. Loads' /\ Waits' /\ Cache'
    BY <1>18, <1>19, <2>1 DEF A!LoadEnds
  <2>. QED BY <1>1, <1>19, <2>2 DEF A!LoadEnds
<1>20. ASSUME NEW l \in A!Load, A!LoadFails(l) PROVE Typed'
  <2>1. Loads' /\ Waits'
    BY <1>18, <1>20, AvatarKinds DEF A!LoadFails
  <2>. QED BY <1>1, <1>5, <1>20, <2>1 DEF A!LoadFails
<1>21. ASSUME A!Refresh, avatarsShown' \in A!Avatar, UNCHANGED avatarsPage PROVE Page'
  BY <1>1, <1>21 DEF A!Refresh, A!Figure
<1>22. ASSUME NEW s \in A!Status \union {"offline", "none"}, A!Restyle(s),
              avatarsShown' \in A!Avatar, UNCHANGED avatarsPage
       PROVE  Page'
  BY <1>1, <1>22 DEF A!Restyle
<1>23. ASSUME NEW v \in A!Avatar, A!TakeList(v) PROVE Typed'
  <2>1. Page'
    BY <1>21, <1>23 DEF A!TakeList
  <2>. QED BY <1>1, <1>23, <2>1 DEF A!TakeList
<1>24. ASSUME NEW l \in A!Load, A!ListTimesOut(l) PROVE Typed'
  <2>1. Page'
    BY <1>21, <1>24, AvatarKinds DEF A!ListTimesOut
  <2>. QED BY <1>1, <1>5, <1>24, <2>1 DEF A!ListTimesOut
<1>25. ASSUME A!Received PROVE Wire' /\ Head(avatarsWire) \in Events
  BY <1>1, <1>25, HeadTailProperties DEF A!Received
<1>26. CASE A!PresenceOffline
  <2>1. Page'
    BY <1>22, <1>26, AvatarKinds DEF A!PresenceOffline
  <2>. QED BY <1>1, <1>25, <1>26, <2>1 DEF A!PresenceOffline
<1>27. CASE A!PresenceOnline
  BY <1>1, <1>6, <1>25, <1>27 DEF A!PresenceOnline
<1>28. ASSUME NEW v \in A!Avatar, A!TakeAvatar(v) PROVE Typed'
  <2>1. Page'
    BY <1>21, <1>22, <1>28, AvatarKinds DEF A!TakeAvatar
  <2>. QED BY <1>1, <1>28, <2>1 DEF A!TakeAvatar
<1>29. CASE A!StatusUpdate
  <2>1. avatarsShown' \in A!Avatar
    BY <1>1, <1>29, AvatarKinds DEF A!StatusUpdate
  <2>2. Page'
    BY <1>22, <1>29, <2>1, AvatarKinds DEF A!StatusUpdate
  <2>. QED BY <1>1, <1>25, <1>29, <2>2 DEF A!StatusUpdate
<1>. HIDE DEF Typed
<1>. QED BY <1>3, <1>9, <1>10, <1>11, <1>12, <1>13, <1>14, <1>16, <1>17, <1>19, <1>20, <1>23, <1>24,
             <1>26, <1>27, <1>28, <1>29 DEF A!Next

----------------------------------------------------------------------------
ViewsTyped ==
  /\ part \in Part /\ TypeOK /\ MoveInv /\ WorldTyped /\ G!TypeOK /\ RoomTyped
  /\ ConnectorTyped /\ B!TypeOK /\ V!TypeOK /\ AvatarsTyped

(* What browsers, sockets, gateway, registry and caches hold stays          *)
(* well-formed: no message beyond the room's, no event but those the        *)
(* browser has a case for, no more publications pending than changes made,  *)
(* no connector seen but a command's, for any number of each.               *)
THEOREM ViewsTypes == ViewsSpec => []ViewsTypeOK
<1>1. ViewsInit => ViewsTyped /\ Init
  BY WorldInit, WorldStartsTyped, SocketsStartTyped, RoomStartsTyped, ConnectorStartsTyped,
     BannerStartsTyped, SessionsStartTyped, AvatarsStartTyped, PipelineStartsTyped
     DEF ViewsInit, ViewsTyped
<1>2. ViewsTyped /\ [ViewsNext]_viewsVars => ViewsTyped'
  <2>. SUFFICES ASSUME ViewsTyped, [ViewsNext]_viewsVars PROVE ViewsTyped'
    OBVIOUS
  <2>1. /\ UNCHANGED part /\ [Next]_vars /\ [W!Next]_W!vars /\ [G!Next]_G!vars
        /\ [M!Next]_M!vars /\ [K!Next]_K!vars /\ [V!Next]_V!vars /\ [B!Next]_B!vars
        /\ [A!Next]_A!vars
    <3>1. UNCHANGED part /\ [Next]_vars
      BY DEF ViewsNext, viewsVars
    <3>2. [W!Next]_W!vars /\ [G!Next]_G!vars
      BY DEF ViewsNext, viewsVars, worldVars, W!vars, socketsVars, G!vars
    <3>3. [M!Next]_M!vars /\ [K!Next]_K!vars
      BY DEF ViewsNext, viewsVars, roomVars, M!vars, connectorVars, K!vars
    <3>4. [V!Next]_V!vars /\ [B!Next]_B!vars
      BY DEF ViewsNext, viewsVars, webVars, V!vars, bannerVars, B!vars
    <3>5. [A!Next]_A!vars
      BY DEF ViewsNext, viewsVars, avatarsVars, A!vars, A!world, A!service, A!socket, A!browser
    <3>. QED BY <3>1, <3>2, <3>3, <3>4, <3>5
  <2>2. TypeOK' /\ MoveInv' /\ WorldTyped' /\ G!TypeOK'
    BY <2>1, PipelineStaysTyped, WorldStep, WorldStaysTyped, SocketsStayTyped DEF ViewsTyped
  <2>3. RoomTyped' /\ ConnectorTyped' /\ B!TypeOK'
    BY <2>1, RoomStaysTyped, ConnectorStaysTyped, BannerStaysTyped DEF ViewsTyped
  <2>4. V!TypeOK' /\ AvatarsTyped'
    BY <2>1, SessionsStayTyped, AvatarsStayTyped DEF ViewsTyped
  <2>. QED BY <2>1, <2>2, <2>3, <2>4 DEF ViewsTyped
<1>3. ViewsTyped => ViewsTypeOK
  BY DEF ViewsTyped, ViewsTypeOK, WorldTyped, RoomTyped, ConnectorTyped, AvatarsTyped
<1>. QED BY <1>1, <1>2, <1>3, PTL DEF ViewsSpec

=============================================================================
