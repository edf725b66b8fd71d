----------------------------- MODULE ReviewDesk -----------------------------
(***************************************************************************)
(* What the review of submissions promises to students and teachers: a     *)
(* student has one open submission per day, a review only moves forward,   *)
(* assessed at most once and decided by one teacher, and the decision      *)
(* frees the day for the next submission.  ReviewPipeline implements it.   *)
(***************************************************************************)
CONSTANTS Request, Key, KeyOf, Teacher, Nobody

VARIABLES
  stage,  \* how far the review of each submission is
  desk,   \* the open submission of each student and day
  judge   \* who decided

dvars == <<stage, desk, judge>>

Init ==
  /\ stage = [r \in Request |-> "none"]
  /\ desk = [k \in Key |-> Nobody]
  /\ judge = [r \in Request |-> Nobody]

Submit(r) ==
  /\ stage[r] = "none" /\ desk[KeyOf[r]] = Nobody
  /\ stage' = [stage EXCEPT ![r] = "queued"]
  /\ desk' = [desk EXCEPT ![KeyOf[r]] = r]
  /\ UNCHANGED judge

Assess(r) ==
  /\ stage[r] = "queued"
  /\ \E s \in {"ai_reviewed", "needs_teacher"} : stage' = [stage EXCEPT ![r] = s]
  /\ UNCHANGED <<desk, judge>>

Judge(r, t) ==
  /\ stage[r] \in {"ai_reviewed", "needs_teacher"} /\ desk[KeyOf[r]] = r
  /\ stage' = [stage EXCEPT ![r] = "teacher_decided"]
  /\ desk' = [desk EXCEPT ![KeyOf[r]] = Nobody]
  /\ judge' = [judge EXCEPT ![r] = t]

Next == \E r \in Request : Submit(r) \/ Assess(r) \/ \E t \in Teacher : Judge(r, t)

Spec == Init /\ [][Next]_dvars

=============================================================================
