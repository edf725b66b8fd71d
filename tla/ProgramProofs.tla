---------------------------- MODULE ProgramProofs ----------------------------
(***************************************************************************)
(* Proofs about what runs programs: the schedule() of the in-memory        *)
(* orchestrator, for any number of runs, any graph of dependencies and any *)
(* number of workers, the connector's command, for any number of tasks,    *)
(* signals and pieces of output, and the seed's run over the schema, for   *)
(* any number of rows written beside it and of crashes.                    *)
(***************************************************************************)
EXTENDS Integers, Sequences, Course, FiniteSetTheorems, WellFoundedInduction, TLAPS

----------------------------------------------------------------------------
(* A finite set of numbers has a least and a greatest member. *)

LEMMA LeastMember ==
  ASSUME NEW W \in SUBSET Int, IsFiniteSet(W), W # {}
  PROVE  \E x \in W : \A y \in W : x <= y
<1>. DEFINE Upto(x) == {q \in W : q <= x}
            Family == {Upto(x) : x \in W}
<1>1. Family \subseteq FiniteSubsetsOf(W) /\ Family # {}
  <2>1. \A x \in W : Upto(x) \in SUBSET W
    OBVIOUS
  <2>2. \A x \in W : IsFiniteSet(Upto(x))
    BY <2>1, FS_Subset
  <2>. QED BY <2>1, <2>2 DEF FiniteSubsetsOf
<1>2. PICK M \in Family : \A G \in Family : ~ (<<G, M>> \in StrictSubsetOrdering(W))
  <2>. HIDE DEF Family
  <2>. QED BY <1>1, FS_StrictSubsetOrderingWellFounded, WFMin
<1>3. PICK x \in W : M = Upto(x)
  OBVIOUS
<1>4. ASSUME NEW y \in W, ~ (x <= y) PROVE FALSE
  <2>0. x \in Int /\ y \in Int /\ y < x
    BY <1>4
  <2>1. /\ Upto(y) \subseteq Upto(x) /\ Upto(x) \subseteq W
        /\ x \in Upto(x) /\ x \notin Upto(y)
    <3>1. \A q \in Upto(y) : q \in Upto(x)
      <4>. TAKE q \in Upto(y)
      <4>1. q \in W /\ q \in Int
        OBVIOUS
      <4>. QED BY <2>0, <4>1
    <3>2. x \in Upto(x) /\ x \notin Upto(y)
      BY <2>0
    <3>. QED BY <3>1, <3>2
  <2>3. Upto(y) \in Family
    OBVIOUS
  <2>2. <<Upto(y), Upto(x)>> \in StrictSubsetOrdering(W)
    BY <2>1 DEF StrictSubsetOrdering
  <2>. QED BY <1>2, <1>3, <2>2, <2>3
<1>. QED BY <1>4

LEMMA GreatestMember ==
  ASSUME NEW W \in SUBSET Int, IsFiniteSet(W), W # {}
  PROVE  \E x \in W : \A y \in W : y <= x
<1>. DEFINE From(x) == {q \in W : x <= q}
            Family == {From(x) : x \in W}
<1>1. Family \subseteq FiniteSubsetsOf(W) /\ Family # {}
  <2>1. \A x \in W : From(x) \in SUBSET W
    OBVIOUS
  <2>2. \A x \in W : IsFiniteSet(From(x))
    BY <2>1, FS_Subset
  <2>. QED BY <2>1, <2>2 DEF FiniteSubsetsOf
<1>2. PICK M \in Family : \A G \in Family : ~ (<<G, M>> \in StrictSubsetOrdering(W))
  <2>. HIDE DEF Family
  <2>. QED BY <1>1, FS_StrictSubsetOrderingWellFounded, WFMin
<1>3. PICK x \in W : M = From(x)
  OBVIOUS
<1>4. ASSUME NEW y \in W, ~ (y <= x) PROVE FALSE
  <2>0. x \in Int /\ y \in Int /\ x < y
    BY <1>4
  <2>1. /\ From(y) \subseteq From(x) /\ From(x) \subseteq W
        /\ x \in From(x) /\ x \notin From(y)
    <3>1. \A q \in From(y) : q \in From(x)
      <4>. TAKE q \in From(y)
      <4>1. q \in W /\ q \in Int
        OBVIOUS
      <4>. QED BY <2>0, <4>1
    <3>2. x \in From(x) /\ x \notin From(y)
      BY <2>0
    <3>. QED BY <3>1, <3>2
  <2>3. From(y) \in Family
    OBVIOUS
  <2>2. <<From(y), From(x)>> \in StrictSubsetOrdering(W)
    BY <2>1 DEF StrictSubsetOrdering
  <2>. QED BY <1>2, <1>3, <2>2, <2>3
<1>. QED BY <1>4

(* The oldest k members of a set of runs: as many as there are, up to k. *)
LEMMA OldestTaken ==
  ASSUME NEW W \in SUBSET Int, IsFiniteSet(W), NEW k \in Nat,
         NEW D, D = {r \in W : Cardinality({q \in W : q < r}) < k}
  PROVE  /\ IsFiniteSet(D) /\ Cardinality(D) \in Nat /\ Cardinality(D) <= k
         /\ D = W \/ Cardinality(D) = k
<1>. DEFINE Older(r) == {q \in W : q < r}
<1>1. \A r : IsFiniteSet(Older(r)) /\ Cardinality(Older(r)) \in Nat
  <2>. TAKE r
  <2>1. Older(r) \in SUBSET W
    OBVIOUS
  <2>. HIDE DEF Older
  <2>. QED BY <2>1, FS_Subset, FS_CardinalityType
<1>2. D \subseteq W /\ \A r \in W : r \in D <=> Cardinality(Older(r)) < k
  OBVIOUS
<1>3. IsFiniteSet(D) /\ Cardinality(D) \in Nat
  BY <1>2, FS_Subset, FS_CardinalityType
<1>4. \A q, r \in W : q \in Older(r) <=> q < r
  OBVIOUS
<1>5. \A r : Older(r) \subseteq W
  OBVIOUS
<1>. HIDE DEF Older
<1>6. Cardinality(D) <= k
  <2>1. CASE D = {}
    <3>1. Cardinality(D) = 0
      BY <2>1, FS_EmptySet
    <3>. QED BY <3>1
  <2>2. CASE D # {}
    <3>1. PICK m \in D : \A y \in D : y <= m
      <4>1. D \in SUBSET Int
        BY <1>2
      <4>. QED BY <1>3, <2>2, <4>1, GreatestMember
    <3>2. D \subseteq Older(m) \union {m}
      <4>. SUFFICES ASSUME NEW y \in D, y # m PROVE y \in Older(m)
        OBVIOUS
      <4>1. y \in W /\ m \in W /\ y \in Int /\ m \in Int /\ y <= m
        BY <1>2, <3>1
      <4>. QED BY <1>4, <4>1
    <3>3. Cardinality(Older(m)) < k
      BY <1>2, <3>1
    <3>4. m \notin Older(m)
      BY <1>2, <1>4, <3>1
    <3>5. /\ IsFiniteSet(Older(m) \union {m})
          /\ Cardinality(Older(m) \union {m}) = Cardinality(Older(m)) + 1
      BY <1>1, <3>4, FS_AddElement
    <3>6. Cardinality(D) <= Cardinality(Older(m) \union {m})
      BY <3>2, <3>5, FS_Subset
    <3>7. Cardinality(Older(m)) \in Nat
      BY <1>1
    <3>. QED BY <1>3, <3>3, <3>5, <3>6, <3>7
  <2>. QED BY <2>1, <2>2
<1>7. ASSUME D # W PROVE Cardinality(D) >= k
  <2>1. PICK x \in W \ D : \A y \in W \ D : x <= y
    <3>1. W \ D # {} /\ W \ D \in SUBSET W /\ W \ D \in SUBSET Int
      BY <1>2, <1>7
    <3>2. IsFiniteSet(W \ D)
      BY <3>1, FS_Subset
    <3>. QED BY <3>1, <3>2, LeastMember
  <2>2. Older(x) \subseteq D
    <3>. SUFFICES ASSUME NEW q \in Older(x), q \notin D PROVE FALSE
      OBVIOUS
    <3>1. q \in W /\ x \in W /\ q < x /\ q \in Int /\ x \in Int
      BY <1>4, <1>5
    <3>2. x <= q
      BY <2>1, <3>1
    <3>. QED BY <3>1, <3>2
  <2>3. Cardinality(Older(x)) \in Nat /\ ~ (Cardinality(Older(x)) < k)
    BY <1>1, <1>2, <2>1
  <2>4. Cardinality(Older(x)) <= Cardinality(D)
    BY <1>3, <2>2, FS_Subset
  <2>. QED BY <1>3, <2>3, <2>4
<1>. QED BY <1>3, <1>6, <1>7

----------------------------------------------------------------------------
(* What schedule() finds.  Its first loop stops at the least set that has   *)
(* every queued run with a dependency that cannot complete.                 *)

Statuses == O!AgentRunStatus \union {"absent"}
Bad == {"failed", "cancelled"}

OrchShape ==
  /\ orchStatus \in [O!Run -> Statuses] /\ orchDeps \in [O!Run -> SUBSET O!Run]
  /\ orchWaiting \subseteq orchActive /\ orchActive \subseteq O!Run

LEMMA CascadeIsClosed ==
  ASSUME NEW st, NEW r \in O!Run, st[r] = "queued",
         NEW d \in orchDeps[r], st[d] \in Bad \/ d \in O!Failed(st)
  PROVE  r \in O!Failed(st)
BY DEF O!Failed, Bad

LEMMA CascadeIsQueued ==
  ASSUME NEW st, NEW r \in O!Failed(st)
  PROVE  r \in O!Run /\ st[r] = "queued"
<1>. DEFINE Queued == {q \in O!Run : st[q] = "queued"}
<1>1. Queued \in SUBSET O!Run
  OBVIOUS
<1>. QED BY <1>1 DEF O!Failed

LEMMA NothingToFail ==
  ASSUME NEW st, \A r \in O!Run : st[r] = "queued" => \A d \in orchDeps[r] : st[d] \notin Bad
  PROVE  O!Failed(st) = {}
<1>. DEFINE hit(M) == {r \in O!Run : st[r] = "queued" /\ \E d \in orchDeps[r] :
                                      d \in M \/ st[d] \in {"failed", "cancelled"}}
<1>1. hit({}) = {}
  BY DEF Bad
<1>2. {} \in SUBSET O!Run
  OBVIOUS
<1>3. \A r \in O!Failed(st) : \A M \in SUBSET O!Run : hit(M) \subseteq M => r \in M
  BY DEF O!Failed
<1>. HIDE DEF hit
<1>. QED BY <1>1, <1>2, <1>3

(* schedule() leaves nothing it could still do, and no more workers than    *)
(* allowed: it keeps up with what the operation before it changed.          *)
SchedulerInv ==
  /\ OrchShape
  /\ \A r \in orchActive : orchStatus[r] \in {"running", "paused", "cancelled"}
  /\ O!SchedulerKeepsUp

LEMMA RunsFinite ==
  ASSUME NEW W \in SUBSET O!Run
  PROVE  /\ IsFiniteSet(W) /\ Cardinality(W) \in Nat /\ O!Cardinality(W) = Cardinality(W)
         /\ W \in SUBSET Int
<1>1. IsFiniteSet(O!Run)
  BY CourseAssumption, FS_Interval DEF O!Run
<1>2. IsFiniteSet(W)
  BY <1>1, FS_Subset
<1>3. O!Cardinality(W) = Cardinality(W)
  BY DEF O!Cardinality, O!IsFiniteSet, Cardinality, IsFiniteSet
<1>. QED BY <1>2, <1>3, FS_CardinalityType DEF O!Run

LEMMA ScheduleKeepsUp ==
  ASSUME NEW st \in [O!Run -> Statuses], NEW act \in SUBSET O!Run,
         orchDeps \in [O!Run -> SUBSET O!Run], UNCHANGED orchDeps,
         \A r \in act : st[r] \in {"running", "paused", "cancelled"},
         Cardinality(act) <= maxConcurrency,
         orchWaiting' \subseteq act, \A r \in orchWaiting' : st[r] = "paused",
         O!Schedule(st, act)
  PROVE  SchedulerInv'
<1>. DEFINE failed == [r \in O!Run |-> IF r \in O!Failed(st) THEN "failed" ELSE st[r]]
            ready == O!Startable(failed)
            free == maxConcurrency - Cardinality(act)
            start == O!Started(failed, act)
<1>1. /\ orchStatus' = [r \in O!Run |-> IF r \in start THEN "running" ELSE failed[r]]
      /\ orchActive' = act \union start
      /\ orchSettled' = TRUE
  BY DEF O!Schedule
<1>2. failed \in [O!Run -> Statuses]
  BY DEF Statuses, O!AgentRunStatus
<1>3. /\ ready \in SUBSET O!Run
      /\ \A r \in ready : failed[r] = "queued"
  BY DEF O!Startable
<1>4. \A r \in O!Run : failed[r] = "queued" => r \notin O!Failed(st) /\ st[r] = "queued"
  OBVIOUS
<1>5. /\ IsFiniteSet(start) /\ Cardinality(start) \in Nat /\ Cardinality(start) <= free
      /\ start = ready \/ Cardinality(start) = free
  <2>1. free \in Nat
    BY RunsFinite, CourseAssumption
  <2>2. start = {r \in ready : Cardinality({q \in ready : q < r}) < free}
    <3>1. \A r : {q \in ready : q < r} \in SUBSET O!Run
      BY <1>3
    <3>2. \A r : O!Cardinality({q \in ready : q < r}) = Cardinality({q \in ready : q < r})
      BY <3>1, RunsFinite
    <3>3. O!Cardinality(act) = Cardinality(act)
      BY RunsFinite
    <3>. QED BY <3>2, <3>3 DEF O!Started
  <2>3. IsFiniteSet(ready) /\ ready \in SUBSET Int
    BY <1>3, RunsFinite
  <2>. HIDE DEF ready, free, start
  <2>. QED BY <2>1, <2>2, <2>3, OldestTaken
<1>6. start \subseteq ready
  BY DEF O!Started
<1>. HIDE DEF failed, ready, start
<1>7. start \intersect act = {}
  BY <1>3, <1>4, <1>6
<1>8. /\ IsFiniteSet(orchActive') /\ orchActive' \in SUBSET O!Run
      /\ Cardinality(orchActive') = Cardinality(act) + Cardinality(start)
  <2>1. IsFiniteSet(act) /\ Cardinality(act) \in Nat
    BY RunsFinite
  <2>2. Cardinality(act \intersect start) = 0
    BY <1>7, FS_EmptySet
  <2>3. /\ IsFiniteSet(act \union start)
        /\ Cardinality(act \union start) = Cardinality(act) + Cardinality(start) - 0
    BY <1>5, <2>1, <2>2, FS_Union
  <2>. QED BY <1>1, <1>3, <1>5, <1>6, <2>1, <2>3
<1>9. OrchShape'
  BY <1>1, <1>2, <1>8 DEF OrchShape, Statuses, O!AgentRunStatus
<1>10. \A r \in orchActive' : orchStatus'[r] \in {"running", "paused", "cancelled"}
  <2>. SUFFICES ASSUME NEW r \in act, r \notin start
                PROVE  orchStatus'[r] \in {"running", "paused", "cancelled"}
    BY <1>1, <1>3, <1>6
  <2>1. r \notin O!Failed(st)
    BY CascadeIsQueued
  <2>. QED BY <1>1, <2>1 DEF failed
<1>11. \A r \in orchWaiting' : orchStatus'[r] = "paused"
  <2>. TAKE r \in orchWaiting'
  <2>1. r \in act /\ st[r] = "paused" /\ r \notin start /\ r \notin O!Failed(st)
    BY <1>7, CascadeIsQueued
  <2>. QED BY <1>1, <2>1 DEF failed
<1>12. O!Failed(orchStatus)' = {}
  <2>1. ASSUME NEW r \in O!Run, orchStatus'[r] = "queued", NEW d \in orchDeps[r],
               orchStatus'[d] \in Bad
        PROVE  FALSE
    <3>1. failed[r] = "queued" /\ r \notin O!Failed(st) /\ st[r] = "queued"
      BY <1>1, <1>4, <2>1
    <3>2. d \in O!Run /\ failed[d] \in Bad
      BY <1>1, <2>1 DEF Bad
    <3>3. d \in O!Failed(st) \/ st[d] \in Bad
      BY <3>2 DEF failed
    <3>. QED BY <3>1, <3>3, CascadeIsClosed
  <2>2. O!Failed(orchStatus') = {}
    BY <2>1, NothingToFail
  <2>. QED BY <2>2 DEF O!Failed
<1>13. ASSUME O!Startable(orchStatus)' # {} PROVE Cardinality(orchActive') = maxConcurrency
  <2>1. PICK r \in O!Run : /\ orchStatus'[r] = "queued"
                           /\ \A d \in orchDeps[r] : orchStatus'[d] = "completed"
    BY <1>13 DEF O!Startable
  <2>2. r \notin start /\ failed[r] = "queued" /\ \A d \in orchDeps[r] : failed[d] = "completed"
    BY <1>1, <2>1
  <2>3. r \in ready
    BY <2>2 DEF ready, O!Startable
  <2>4. Cardinality(start) = maxConcurrency - Cardinality(act)
    BY <1>5, <2>2, <2>3
  <2>5. Cardinality(act) \in Nat /\ maxConcurrency \in Nat
    BY RunsFinite, CourseAssumption
  <2>. QED BY <1>5, <1>8, <2>4, <2>5
<1>14. Cardinality(orchActive') <= maxConcurrency
  BY <1>5, <1>8, RunsFinite, CourseAssumption
<1>15. O!Cardinality(orchActive') = Cardinality(orchActive')
  BY <1>8, RunsFinite
<1>16. O!SchedulerKeepsUp'
  BY <1>1, <1>11, <1>12, <1>13, <1>14, <1>15 DEF O!SchedulerKeepsUp
<1>. QED BY <1>9, <1>10, <1>16 DEF SchedulerInv

(* A step that queues nothing, completes nothing and gives nothing up leaves *)
(* what schedule() left.                                                     *)
LEMMA QuietStepKeepsUp ==
  ASSUME SchedulerInv, UNCHANGED <<orchDeps, orchActive, orchSettled>>,
         orchStatus' \in [O!Run -> Statuses],
         \A r \in O!Run : orchStatus'[r] \in {"queued", "completed"} \union Bad =>
                            orchStatus[r] = orchStatus'[r],
         \A r \in orchActive : orchStatus'[r] \in {"running", "paused", "cancelled"},
         orchWaiting' \subseteq orchActive, \A r \in orchWaiting' : orchStatus'[r] = "paused"
  PROVE  SchedulerInv'
<1>1. OrchShape'
  BY DEF SchedulerInv, OrchShape
<1>2. ASSUME O!Failed(orchStatus) = {} PROVE O!Failed(orchStatus)' = {}
  <2>1. ASSUME NEW r \in O!Run, orchStatus'[r] = "queued", NEW d \in orchDeps[r],
               orchStatus'[d] \in Bad
        PROVE  FALSE
    <3>1. d \in O!Run
      BY DEF SchedulerInv, OrchShape
    <3>2. orchStatus[r] = "queued" /\ orchStatus[d] \in Bad
      BY <2>1, <3>1
    <3>. QED BY <1>2, <3>2, CascadeIsClosed
  <2>2. O!Failed(orchStatus') = {}
    BY <2>1, NothingToFail
  <2>. QED BY <2>2 DEF O!Failed
<1>3. O!Startable(orchStatus)' \subseteq O!Startable(orchStatus)
  BY DEF SchedulerInv, OrchShape, O!Startable
<1>4. O!SchedulerKeepsUp'
  BY <1>2, <1>3 DEF SchedulerInv, O!SchedulerKeepsUp
<1>. QED BY <1>1, <1>4 DEF SchedulerInv

LEMMA SchedulerInit == O!Init => SchedulerInv
<1>. SUFFICES ASSUME O!Init PROVE SchedulerInv
  OBVIOUS
<1>1. OrchShape
  BY DEF O!Init, OrchShape, Statuses
<1>2. O!Cardinality(orchActive) = 0
  <2>1. orchActive \in SUBSET O!Run /\ orchActive = {}
    BY DEF O!Init
  <2>. QED BY <2>1, RunsFinite, FS_EmptySet
<1>3. O!Failed(orchStatus) = {}
  <2>1. \A r \in O!Run : orchStatus[r] # "queued"
    BY DEF O!Init
  <2>. QED BY <2>1, NothingToFail
<1>4. O!Startable(orchStatus) = {}
  BY DEF O!Init, O!Startable
<1>. QED BY <1>1, <1>2, <1>3, <1>4, CourseAssumption DEF SchedulerInv, O!SchedulerKeepsUp, O!Init

(* Before the next schedule() only the workers have to be as they should.   *)
LEMMA UnsettledKeepsUp ==
  ASSUME OrchShape', ~orchSettled', Cardinality(orchActive') <= maxConcurrency,
         \A r \in orchActive' : orchStatus'[r] \in {"running", "paused", "cancelled"},
         \A r \in orchWaiting' : orchStatus'[r] = "paused"
  PROVE  SchedulerInv'
<1>1. orchActive' \in SUBSET O!Run
  BY DEF OrchShape
<1>2. O!Cardinality(orchActive') = Cardinality(orchActive')
  BY <1>1, RunsFinite
<1>. QED BY <1>2 DEF SchedulerInv, O!SchedulerKeepsUp

LEMMA WorkersCounted ==
  ASSUME SchedulerInv
  PROVE  /\ orchActive \in SUBSET O!Run /\ Cardinality(orchActive) <= maxConcurrency
         /\ \A r : Cardinality(orchActive \ {r}) <= maxConcurrency
<1>1. orchActive \in SUBSET O!Run
  BY DEF SchedulerInv, OrchShape
<1>2. IsFiniteSet(orchActive) /\ Cardinality(orchActive) \in Nat
  BY <1>1, RunsFinite
<1>3. Cardinality(orchActive) <= maxConcurrency
  BY <1>1, RunsFinite DEF SchedulerInv, O!SchedulerKeepsUp
<1>4. ASSUME NEW r PROVE Cardinality(orchActive \ {r}) <= maxConcurrency
  <2>1. /\ IsFiniteSet(orchActive \ {r}) /\ Cardinality(orchActive \ {r}) \in Nat
        /\ Cardinality(orchActive \ {r}) <= Cardinality(orchActive)
    BY <1>1, <1>2, FS_Subset, FS_CardinalityType
  <2>. QED BY <1>2, <1>3, <2>1, CourseAssumption
<1>. QED BY <1>1, <1>3, <1>4

LEMMA CreateKeepsUp ==
  ASSUME SchedulerInv, NEW r \in O!Run, O!Create(r)
  PROVE  SchedulerInv'
<1>1. PICK ds \in SUBSET {q \in O!Run : q < r} : orchDeps' = [orchDeps EXCEPT ![r] = ds]
  BY DEF O!Create
<1>2. r \notin orchActive
  BY DEF SchedulerInv, O!Create, O!Known
<1>3. OrchShape'
  BY <1>1 DEF SchedulerInv, OrchShape, O!Create, Statuses, O!AgentRunStatus
<1>4. \A q \in orchActive' : orchStatus'[q] \in {"running", "paused", "cancelled"}
  BY <1>2 DEF SchedulerInv, OrchShape, O!Create
<1>5. \A q \in orchWaiting' : orchStatus'[q] = "paused"
  BY <1>2 DEF SchedulerInv, OrchShape, O!Create, O!SchedulerKeepsUp
<1>6. Cardinality(orchActive') <= maxConcurrency
  BY WorkersCounted DEF O!Create
<1>. QED BY <1>3, <1>4, <1>5, <1>6, UnsettledKeepsUp DEF O!Create

LEMMA RestoreKeepsUp ==
  ASSUME SchedulerInv, O!Restore
  PROVE  SchedulerInv'
<1>1. OrchShape'
  BY DEF SchedulerInv, OrchShape, O!Restore, Statuses, O!AgentRunStatus
<1>2. Cardinality(orchActive') <= maxConcurrency
  BY FS_EmptySet, CourseAssumption DEF O!Restore
<1>. QED BY <1>1, <1>2, UnsettledKeepsUp DEF O!Restore

LEMMA PauseKeepsUp ==
  ASSUME SchedulerInv, NEW r \in O!Run, O!Pause(r)
  PROVE  SchedulerInv'
<1>1. /\ orchStatus' \in [O!Run -> Statuses]
      /\ \A q \in O!Run : orchStatus'[q] = IF q = r THEN "paused" ELSE orchStatus[q]
  BY DEF SchedulerInv, OrchShape, O!Pause, Statuses, O!AgentRunStatus
<1>2. /\ orchWaiting' \subseteq orchActive /\ orchActive \subseteq O!Run
      /\ \A q \in orchWaiting' : orchStatus[q] = "paused"
  BY DEF SchedulerInv, OrchShape, O!SchedulerKeepsUp, O!Pause
<1>3. \A q \in orchActive : orchStatus'[q] \in {"running", "paused", "cancelled"}
  BY <1>1, <1>2 DEF SchedulerInv
<1>4. \A q \in O!Run : orchStatus'[q] \in {"queued", "completed"} \union Bad =>
                         orchStatus[q] = orchStatus'[q]
  BY <1>1 DEF Bad
<1>5. \A q \in orchWaiting' : orchStatus'[q] = "paused"
  BY <1>1, <1>2
<1>. QED BY <1>1, <1>2, <1>3, <1>4, <1>5, QuietStepKeepsUp DEF O!Pause

LEMMA WaitKeepsUp ==
  ASSUME SchedulerInv, NEW r \in O!Run, O!WaitIfPaused(r)
  PROVE  SchedulerInv'
<1>1. /\ orchWaiting' \subseteq orchActive /\ \A q \in orchWaiting' : orchStatus'[q] = "paused"
  BY DEF SchedulerInv, OrchShape, O!SchedulerKeepsUp, O!WaitIfPaused
<1>2. /\ orchStatus' \in [O!Run -> Statuses]
      /\ \A q \in orchActive : orchStatus'[q] \in {"running", "paused", "cancelled"}
  BY DEF SchedulerInv, OrchShape, O!WaitIfPaused
<1>. QED BY <1>1, <1>2, QuietStepKeepsUp DEF O!WaitIfPaused

LEMMA ResumeKeepsUp ==
  ASSUME SchedulerInv, NEW r \in O!Run, O!Resume(r)
  PROVE  SchedulerInv'
<1>1. /\ orchStatus \in [O!Run -> Statuses] /\ orchDeps \in [O!Run -> SUBSET O!Run]
      /\ orchWaiting' \subseteq orchActive /\ orchActive \in SUBSET O!Run
      /\ r \notin orchWaiting' /\ \A q \in orchWaiting' : orchStatus[q] = "paused"
  BY DEF SchedulerInv, OrchShape, O!SchedulerKeepsUp, O!Resume
<1>2. CASE r \in orchActive
  <2>1. /\ orchStatus' \in [O!Run -> Statuses]
        /\ \A q \in O!Run : orchStatus'[q] = IF q = r THEN "running" ELSE orchStatus[q]
    BY <1>1, <1>2 DEF O!Resume, Statuses, O!AgentRunStatus
  <2>2. \A q \in orchActive : orchStatus'[q] \in {"running", "paused", "cancelled"}
    BY <1>1, <2>1 DEF SchedulerInv
  <2>3. \A q \in O!Run : orchStatus'[q] \in {"queued", "completed"} \union Bad =>
                           orchStatus[q] = orchStatus'[q]
    BY <2>1 DEF Bad
  <2>4. \A q \in orchWaiting' : orchStatus'[q] = "paused"
    BY <1>1, <2>1
  <2>. QED BY <1>1, <1>2, <2>1, <2>2, <2>3, <2>4, QuietStepKeepsUp DEF O!Resume
<1>3. CASE r \notin orchActive
  <2>. DEFINE st == [orchStatus EXCEPT ![r] = "queued"]
  <2>1. /\ st \in [O!Run -> Statuses]
        /\ \A q \in O!Run : st[q] = IF q = r THEN "queued" ELSE orchStatus[q]
    BY <1>1 DEF Statuses, O!AgentRunStatus
  <2>2. O!Schedule(st, orchActive) /\ UNCHANGED orchDeps
    BY <1>3 DEF O!Resume
  <2>. HIDE DEF st
  <2>3. \A q \in orchActive : st[q] \in {"running", "paused", "cancelled"}
    BY <1>1, <1>3, <2>1 DEF SchedulerInv
  <2>4. \A q \in orchWaiting' : st[q] = "paused"
    BY <1>1, <2>1
  <2>. QED BY <1>1, <2>1, <2>2, <2>3, <2>4, WorkersCounted, ScheduleKeepsUp
<1>. QED BY <1>2, <1>3

LEMMA CancelKeepsUp ==
  ASSUME SchedulerInv, NEW r \in O!Run, O!Cancel(r)
  PROVE  SchedulerInv'
<1>1. /\ orchStatus \in [O!Run -> Statuses] /\ orchDeps \in [O!Run -> SUBSET O!Run]
      /\ orchWaiting' \subseteq orchActive /\ orchActive \in SUBSET O!Run
      /\ r \notin orchWaiting' /\ \A q \in orchWaiting' : orchStatus[q] = "paused"
  BY DEF SchedulerInv, OrchShape, O!SchedulerKeepsUp, O!Cancel
<1>. DEFINE st == [orchStatus EXCEPT ![r] = "cancelled"]
<1>2. /\ st \in [O!Run -> Statuses]
      /\ \A q \in O!Run : st[q] = IF q = r THEN "cancelled" ELSE orchStatus[q]
  BY <1>1 DEF Statuses, O!AgentRunStatus
<1>3. O!Schedule(st, orchActive) /\ UNCHANGED orchDeps
  BY DEF O!Cancel, O!Reschedule
<1>. HIDE DEF st
<1>4. \A q \in orchActive : st[q] \in {"running", "paused", "cancelled"}
  BY <1>1, <1>2 DEF SchedulerInv
<1>5. \A q \in orchWaiting' : st[q] = "paused"
  BY <1>1, <1>2
<1>. QED BY <1>1, <1>2, <1>3, <1>4, <1>5, WorkersCounted, ScheduleKeepsUp

LEMMA SettleKeepsUp ==
  ASSUME SchedulerInv, NEW r \in O!Run, NEW end \in {"completed", "failed"}, O!Settle(r, end)
  PROVE  SchedulerInv'
<1>1. /\ orchStatus \in [O!Run -> Statuses] /\ orchDeps \in [O!Run -> SUBSET O!Run]
      /\ orchActive \in SUBSET O!Run /\ orchWaiting' \subseteq orchActive \ {r}
      /\ \A q \in orchWaiting' : orchStatus[q] = "paused"
  BY DEF SchedulerInv, OrchShape, O!SchedulerKeepsUp, O!Settle
<1>. DEFINE st == IF orchStatus[r] = "cancelled" THEN orchStatus ELSE [orchStatus EXCEPT ![r] = end]
            act == orchActive \ {r}
<1>2. st \in [O!Run -> Statuses] /\ \A q \in O!Run : q # r => st[q] = orchStatus[q]
  BY <1>1 DEF Statuses, O!AgentRunStatus
<1>3. O!Schedule(st, act) /\ UNCHANGED orchDeps
  BY DEF O!Settle, O!Reschedule
<1>4. act \in SUBSET O!Run /\ orchWaiting' \subseteq act /\ r \notin act
  BY <1>1
<1>5. Cardinality(act) <= maxConcurrency
  BY WorkersCounted
<1>6. \A q \in act : q \in orchActive
  OBVIOUS
<1>. HIDE DEF st, act
<1>7. \A q \in act : st[q] \in {"running", "paused", "cancelled"}
  BY <1>1, <1>2, <1>4, <1>6 DEF SchedulerInv
<1>8. \A q \in orchWaiting' : st[q] = "paused"
  BY <1>1, <1>2, <1>4
<1>. QED BY <1>1, <1>2, <1>3, <1>4, <1>5, <1>7, <1>8, ScheduleKeepsUp

LEMMA SchedulerNext == SchedulerInv /\ [O!Next]_orchVars => SchedulerInv'
<1>. SUFFICES ASSUME SchedulerInv, [O!Next]_orchVars PROVE SchedulerInv'
  OBVIOUS
<1>1. CASE O!CallSchedule
  <2>1. /\ orchStatus \in [O!Run -> Statuses] /\ orchDeps \in [O!Run -> SUBSET O!Run]
        /\ orchActive \in SUBSET O!Run /\ orchWaiting' \subseteq orchActive
        /\ \A q \in orchWaiting' : orchStatus[q] = "paused"
        /\ \A q \in orchActive : orchStatus[q] \in {"running", "paused", "cancelled"}
    BY <1>1 DEF SchedulerInv, OrchShape, O!SchedulerKeepsUp, O!CallSchedule
  <2>. QED BY <1>1, <2>1, WorkersCounted, ScheduleKeepsUp DEF O!CallSchedule
<1>2. CASE O!Restore
  BY <1>2, RestoreKeepsUp
<1>3. ASSUME NEW r \in O!Run,
             \/ O!Create(r) \/ O!Pause(r) \/ O!Resume(r) \/ O!Cancel(r) \/ O!WaitIfPaused(r)
             \/ O!Settle(r, "completed") \/ O!Settle(r, "failed")
      PROVE  SchedulerInv'
  BY <1>3, CreateKeepsUp, PauseKeepsUp, ResumeKeepsUp, CancelKeepsUp, WaitKeepsUp, SettleKeepsUp
<1>4. CASE UNCHANGED orchVars
  BY <1>4 DEF orchVars, SchedulerInv, OrchShape, O!SchedulerKeepsUp, O!Failed, O!Startable
<1>. QED BY <1>1, <1>2, <1>3, <1>4 DEF O!Next

(* The orchestrator keeps up with its runs: once schedule() has seen them,  *)
(* whatever is paused, resumed, cancelled, settled or restored, no worker   *)
(* is idle while a run could start, none sleeps for a run that is not       *)
(* paused, no run waits for a dependency that cannot complete, and there    *)
(* are never more workers than maxConcurrency.                              *)
THEOREM OrchestratorKeepsUp == CourseSpec => []SchedulerKeepsUp
<1>. DEFINE Inv == part = "orchestrator" => SchedulerInv
<1>1. CourseInit => Inv
  BY SchedulerInit DEF CourseInit
<1>2. Inv /\ [CourseNext]_courseVars => Inv'
  BY SchedulerNext DEF CourseNext, courseVars, orchVars
<1>3. Inv => SchedulerKeepsUp
  BY DEF SchedulerInv, SchedulerKeepsUp
<1>. QED BY <1>1, <1>2, <1>3, PTL DEF CourseSpec

----------------------------------------------------------------------------
(* The connector's command: the run of an adapter with its two timers, the  *)
(* process with its signals, and the heartbeat with its reports.            *)

AdapterRun == [pc : {"idle", "announcing", "announced", "going", "reporting"},
               limit : BOOLEAN, grace : BOOLEAN, abortable : BOOLEAN,
               by : SUBSET {"timeout", "abort"}, out : 0..MaxOutput, cut : BOOLEAN]
Spawned == [life : {"none", "alive", "dead"}, killed : BOOLEAN,
            code : {"none", "zero", "nonzero", "null"}, held : BOOLEAN]

CliShape ==
  /\ cliMode \in {"none", "test", "instruction", "worker"}
  /\ cliAt \in {"new", "selecting", "connecting", "start", "running", "leaving", "over", "dead"}
  /\ cliRun \in AdapterRun /\ cliProgram \in Spawned
  /\ cliBeat \in {"off", "timer", "sent"} /\ cliMail \subseteq {"online", "offline"}
  /\ cliServer \in {"none", "online", "offline"} /\ cliHears \subseteq X!Signal
  /\ cliExitCode \in {0, 1, 130, 143}

(* Only where the command runs something is there a run, and only while it  *)
(* is going on a program; a command that has been killed may leave one.     *)
RunStays ==
  /\ cliAt \notin {"selecting", "running"} => cliRun = X!Idle
  /\ cliRun.pc \in {"announcing", "announced"} =>
       cliRun.by = {} /\ ~cliRun.grace /\ cliProgram = X!NoProgram
  /\ cliRun.pc = "going" => cliProgram.life # "none"
  /\ cliRun.pc = "reporting" => /\ ~cliRun.limit /\ ~cliRun.grace /\ ~cliRun.abortable
                                /\ cliResult = "ok" => cliProgram.code = "zero"
  /\ cliProgram.life = "alive" => cliRun.pc = "going" \/ cliAt = "dead"
  /\ X!KillFollows

(* The heartbeat and the listeners belong to the two modes that have them.  *)
BeatStays ==
  /\ cliMode = "test" \/ cliAt \in {"new", "selecting", "connecting", "start", "dead"} =>
       cliBeat = "off" /\ cliHears = {}
  /\ cliAt \in {"leaving", "over"} =>
       /\ cliHears = {} /\ cliBeat # "timer" /\ (cliBeat = "sent" => cliStopped)
       /\ cliExitCode = 0 => cliMode # "worker" /\ cliProgram.code = "zero"
  /\ cliAt = "leaving" => cliStopped
  /\ cliStopped => cliAt \in {"leaving", "over", "dead"}

(* What follows the last report is the report, unless a heartbeat was sent. *)
OfflineComes ==
  cliStopped /\ ~cliCrossed =>
    cliBeat = "off" /\ "online" \notin cliMail /\ ("offline" \in cliMail \/ cliServer = "offline")

CliInv == CliShape /\ RunStays /\ BeatStays /\ OfflineComes

(* Output is cut off, and a cause is written down: nothing else changes.    *)
LEMMA OutputGrows ==
  ASSUME NEW r \in AdapterRun, NEW n \in 1..2
  PROVE  /\ X!Append(r, n) \in AdapterRun
         /\ \A f \in DOMAIN r \ {"out", "cut"} : X!Append(r, n)[f] = r[f]
<1>. DEFINE a == [r EXCEPT !.out = r.out + n]
            b == [r EXCEPT !.out = MaxOutput]
            c == [b EXCEPT !.cut = TRUE]
<1>1. r.out \in Nat /\ r.out <= MaxOutput /\ n \in Nat /\ MaxOutput \in Nat
  BY CourseAssumption DEF AdapterRun
<1>2. CASE r.out + n <= MaxOutput
  <2>1. X!Append(r, n) = a
    BY <1>2 DEF X!Append
  <2>2. r.out + n \in 0..MaxOutput
    BY <1>1, <1>2
  <2>. QED BY <2>1, <2>2 DEF AdapterRun
<1>3. CASE ~ (r.out + n <= MaxOutput)
  <2>1. X!Append(r, n) = c
    BY <1>3 DEF X!Append, AdapterRun
  <2>2. b \in AdapterRun /\ \A f \in DOMAIN r \ {"out"} : b[f] = r[f]
    BY <1>1 DEF AdapterRun
  <2>. HIDE DEF b
  <2>3. c \in AdapterRun /\ \A f \in DOMAIN b \ {"cut"} : c[f] = b[f]
    BY <2>2 DEF AdapterRun
  <2>4. DOMAIN b = DOMAIN r
    BY <2>2 DEF AdapterRun
  <2>. QED BY <2>1, <2>2, <2>3, <2>4
<1>. QED BY <1>2, <1>3

LEMMA RunTerminates ==
  ASSUME NEW r \in AdapterRun, NEW cause \in {"timeout", "abort"},
         NEW t, t = X!Terminate(r, cause)
  PROVE  /\ t \in AdapterRun /\ t.pc = r.pc /\ t.limit = r.limit /\ t.abortable = r.abortable
         /\ t.by = r.by \union {cause} /\ t.grace = IF r.by = {} THEN TRUE ELSE r.grace
<1>. DEFINE a == X!Append(r, 1)
            g == IF r.by = {} THEN TRUE ELSE r.grace
            b == [a EXCEPT !.by = r.by \union {cause}]
            c == [b EXCEPT !.grace = g]
<1>1. /\ a \in AdapterRun /\ a.pc = r.pc /\ a.limit = r.limit /\ a.abortable = r.abortable
      /\ a.by = r.by /\ a.grace = r.grace
  <2>1. {"pc", "limit", "abortable", "by", "grace"} \subseteq DOMAIN r \ {"out", "cut"}
    BY DEF AdapterRun
  <2>. QED BY <2>1, OutputGrows
<1>. HIDE DEF a
<1>2. t = c
  BY <1>1 DEF X!Terminate, a, AdapterRun
<1>3. /\ b \in AdapterRun /\ b.pc = a.pc /\ b.limit = a.limit /\ b.abortable = a.abortable
      /\ b.by = r.by \union {cause}
  BY <1>1 DEF AdapterRun
<1>. HIDE DEF b
<1>4. g \in BOOLEAN
  BY DEF AdapterRun
<1>. HIDE DEF g
<1>5. /\ c \in AdapterRun /\ c.pc = b.pc /\ c.limit = b.limit /\ c.abortable = b.abortable
      /\ c.by = b.by /\ c.grace = g
  BY <1>3, <1>4 DEF AdapterRun
<1>. QED BY <1>1, <1>2, <1>3, <1>5 DEF g

LEMMA CliInit == X!Init => CliInv
BY CourseAssumption
   DEF X!Init, CliInv, CliShape, AdapterRun, Spawned, RunStays, BeatStays, OfflineComes, X!Idle, X!NoProgram, X!KillFollows, X!Going

(* A fresh run, and none. *)
LEMMA RunsBegin ==
  /\ X!Idle \in AdapterRun /\ X!Idle.pc = "idle"
  /\ X!NoProgram \in Spawned /\ X!NoProgram.life = "none" /\ X!NoProgram.code = "none"
  /\ \E a \in AdapterRun : /\ a = [X!Idle EXCEPT !.pc = "announcing"] /\ a.pc = "announcing"
                           /\ a.by = {} /\ ~a.grace
<1>1. X!Idle \in AdapterRun /\ X!Idle.pc = "idle" /\ X!Idle.by = {} /\ ~X!Idle.grace
  BY CourseAssumption DEF X!Idle, AdapterRun
<1>2. X!NoProgram \in Spawned /\ X!NoProgram.life = "none" /\ X!NoProgram.code = "none"
  BY DEF X!NoProgram, Spawned
<1>. DEFINE a == [X!Idle EXCEPT !.pc = "announcing"]
<1>3. a \in AdapterRun /\ a.pc = "announcing" /\ a.by = {} /\ ~a.grace
  BY <1>1 DEF AdapterRun
<1>. QED BY <1>1, <1>2, <1>3

LEMMA ShapeIsType == CliShape <=> X!TypeOK
BY DEF CliShape, X!TypeOK, AdapterRun, Spawned

LEMMA CliMisconfigured ==
  ASSUME CliInv, X!Misconfigured
  PROVE  CliInv'
<1>. USE RunsBegin DEF CliInv, X!Misconfigured, X!Announce, X!Over, X!Leave, X!Listen, X!command, X!adapter, X!process, X!heartbeat
<1>1. CliShape'
  BY DEF CliShape, X!Signal, X!Succeeds
<1>2. RunStays'
  BY SMTT(30) DEF CliShape, RunStays, BeatStays, X!KillFollows, X!Going, X!Testing
<1>3. BeatStays' /\ OfflineComes'
  BY DEF CliShape, RunStays, BeatStays, OfflineComes
<1>. QED BY <1>1, <1>2, <1>3

LEMMA AnnouncedStays ==
  ASSUME cliRun' = [X!Idle EXCEPT !.pc = "announcing"], cliProgram' = X!NoProgram, cliAt' \in {"selecting", "running"}
  PROVE  RunStays'
<1>1. cliRun'.pc = "announcing" /\ cliRun'.by = {} /\ ~cliRun'.grace
  BY RunsBegin
<1>2. cliProgram'.life = "none"
  BY RunsBegin
<1>. QED BY <1>1, <1>2 DEF RunStays, X!KillFollows, X!Going

LEMMA IdleStays ==
  ASSUME cliRun' = X!Idle, cliProgram'.life # "alive"
  PROVE  RunStays'
<1>1. cliRun'.pc = "idle"
  BY RunsBegin
<1>. QED BY <1>1 DEF RunStays, X!KillFollows, X!Going

LEMMA CliTestRefused ==
  ASSUME CliInv, X!TestRefused
  PROVE  CliInv'
<1>. USE RunsBegin DEF CliInv, X!TestRefused, X!Announce, X!Over, X!Leave, X!Listen, X!command, X!adapter, X!process, X!heartbeat
<1>1. CliShape'
  BY DEF CliShape, X!Signal, X!Succeeds
<1>2. RunStays'
  BY SMTT(30) DEF CliShape, RunStays, BeatStays, X!KillFollows, X!Going, X!Testing
<1>3. BeatStays' /\ OfflineComes'
  BY DEF CliShape, RunStays, BeatStays, OfflineComes
<1>. QED BY <1>1, <1>2, <1>3

LEMMA CliStartCli ==
  ASSUME CliInv, NEW m \in {"test", "instruction", "worker"}, X!StartCli(m)
  PROVE  CliInv'
<1>. USE RunsBegin DEF CliInv, X!StartCli, X!Announce, X!Over, X!Leave, X!Listen, X!command, X!adapter, X!process, X!heartbeat
<1>1. CliShape'
  BY DEF CliShape, X!Signal, X!Succeeds
<1>2. RunStays'
  <2>1. cliAt = "new" /\ cliRun = X!Idle /\ cliProgram.life # "alive"
    BY RunsBegin DEF RunStays
  <2>. QED BY <2>1, AnnouncedStays, IdleStays
<1>3. BeatStays' /\ OfflineComes'
  BY DEF CliShape, RunStays, BeatStays, OfflineComes
<1>. QED BY <1>1, <1>2, <1>3

LEMMA CliRoleChosen ==
  ASSUME CliInv, X!RoleChosen
  PROVE  CliInv'
<1>. USE RunsBegin DEF CliInv, X!RoleChosen, X!Announce, X!Over, X!Leave, X!Listen, X!command, X!adapter, X!process, X!heartbeat
<1>1. CliShape'
  BY DEF CliShape, X!Signal, X!Succeeds
<1>2. RunStays'
  BY SMTT(30) DEF CliShape, RunStays, BeatStays, X!KillFollows, X!Going, X!Testing
<1>3. BeatStays' /\ OfflineComes'
  BY DEF CliShape, RunStays, BeatStays, OfflineComes
<1>. QED BY <1>1, <1>2, <1>3

LEMMA CliNoRole ==
  ASSUME CliInv, X!NoRole
  PROVE  CliInv'
<1>. USE RunsBegin DEF CliInv, X!NoRole, X!Announce, X!Over, X!Leave, X!Listen, X!command, X!adapter, X!process, X!heartbeat
<1>1. CliShape'
  BY DEF CliShape, X!Signal, X!Succeeds
<1>2. RunStays'
  <2>1. cliAt = "selecting" /\ cliProgram.life # "alive"
    BY DEF RunStays
  <2>. QED BY <2>1, AnnouncedStays, IdleStays
<1>3. BeatStays' /\ OfflineComes'
  BY DEF CliShape, RunStays, BeatStays, OfflineComes
<1>. QED BY <1>1, <1>2, <1>3

LEMMA CliConnect ==
  ASSUME CliInv, X!Connect
  PROVE  CliInv'
<1>. USE RunsBegin DEF CliInv, X!Connect, X!Announce, X!Over, X!Leave, X!Listen, X!command, X!adapter, X!process, X!heartbeat
<1>1. CliShape'
  BY DEF CliShape, X!Signal, X!Succeeds
<1>2. RunStays'
  BY SMTT(30) DEF CliShape, RunStays, BeatStays, X!KillFollows, X!Going, X!Testing
<1>3. BeatStays' /\ OfflineComes'
  BY DEF CliShape, RunStays, BeatStays, OfflineComes
<1>. QED BY <1>1, <1>2, <1>3

LEMMA CliConnectFails ==
  ASSUME CliInv, X!ConnectFails
  PROVE  CliInv'
<1>. USE RunsBegin DEF CliInv, X!ConnectFails, X!Announce, X!Over, X!Leave, X!Listen, X!command, X!adapter, X!process, X!heartbeat
<1>1. CliShape'
  BY DEF CliShape, X!Signal, X!Succeeds
<1>2. RunStays'
  BY SMTT(30) DEF CliShape, RunStays, BeatStays, X!KillFollows, X!Going, X!Testing
<1>3. BeatStays' /\ OfflineComes'
  BY DEF CliShape, RunStays, BeatStays, OfflineComes
<1>. QED BY <1>1, <1>2, <1>3

LEMMA CliTest ==
  ASSUME CliInv, X!Test
  PROVE  CliInv'
<1>. USE RunsBegin DEF CliInv, X!Test, X!Announce, X!Over, X!Leave, X!Listen, X!command, X!adapter, X!process, X!heartbeat
<1>1. CliShape'
  BY DEF CliShape, X!Signal, X!Succeeds
<1>2. RunStays'
  BY SMTT(30) DEF CliShape, RunStays, BeatStays, X!KillFollows, X!Going, X!Testing
<1>3. BeatStays' /\ OfflineComes'
  BY DEF CliShape, RunStays, BeatStays, OfflineComes
<1>. QED BY <1>1, <1>2, <1>3

LEMMA CliInstruction ==
  ASSUME CliInv, X!Instruction
  PROVE  CliInv'
<1>. USE RunsBegin DEF CliInv, X!Instruction, X!Announce, X!Over, X!Leave, X!Listen, X!command, X!adapter, X!process, X!heartbeat
<1>1. CliShape'
  BY DEF CliShape, X!Signal, X!Succeeds
<1>2. RunStays'
  BY SMTT(30) DEF CliShape, RunStays, BeatStays, X!KillFollows, X!Going, X!Testing
<1>3. BeatStays' /\ OfflineComes'
  BY DEF CliShape, RunStays, BeatStays, OfflineComes
<1>. QED BY <1>1, <1>2, <1>3

LEMMA CliWorker ==
  ASSUME CliInv, X!Worker
  PROVE  CliInv'
<1>. USE RunsBegin DEF CliInv, X!Worker, X!Announce, X!Over, X!Leave, X!Listen, X!command, X!adapter, X!process, X!heartbeat
<1>1. CliShape'
  BY DEF CliShape, X!Signal, X!Succeeds
<1>2. RunStays'
  BY SMTT(30) DEF CliShape, RunStays, BeatStays, X!KillFollows, X!Going, X!Testing
<1>3. BeatStays' /\ OfflineComes'
  BY DEF CliShape, RunStays, BeatStays, OfflineComes
<1>. QED BY <1>1, <1>2, <1>3

LEMMA CliExecuteLease ==
  ASSUME CliInv, X!ExecuteLease
  PROVE  CliInv'
<1>. USE RunsBegin DEF CliInv, X!ExecuteLease, X!Announce, X!Over, X!Leave, X!Listen, X!command, X!adapter, X!process, X!heartbeat
<1>1. CliShape'
  BY DEF CliShape, X!Signal, X!Succeeds
<1>2. RunStays'
  BY SMTT(30) DEF CliShape, RunStays, BeatStays, X!KillFollows, X!Going, X!Testing
<1>3. BeatStays' /\ OfflineComes'
  BY DEF CliShape, RunStays, BeatStays, OfflineComes
<1>. QED BY <1>1, <1>2, <1>3

LEMMA CliLeaseEnds ==
  ASSUME CliInv, X!LeaseEnds
  PROVE  CliInv'
<1>. USE RunsBegin DEF CliInv, X!LeaseEnds, X!Announce, X!Over, X!Leave, X!Listen, X!command, X!adapter, X!process, X!heartbeat
<1>1. CliShape'
  BY DEF CliShape, X!Signal, X!Succeeds
<1>2. RunStays'
  BY SMTT(30) DEF CliShape, RunStays, BeatStays, X!KillFollows, X!Going, X!Testing
<1>3. BeatStays' /\ OfflineComes'
  BY DEF CliShape, RunStays, BeatStays, OfflineComes
<1>. QED BY <1>1, <1>2, <1>3

(* The last report follows what is still on its way, or crosses it. *)
LEMMA CliLeaves ==
  ASSUME CliInv, NEW code \in {0, 1, 130, 143}, X!Leave(code), cliAt = "running", X!Idle = cliRun',
         code = 0 => cliMode # "worker" /\ cliProgram.code = "zero"
  PROVE  BeatStays' /\ OfflineComes'
<1>1. /\ cliAt' = "leaving" /\ cliHears' = {} /\ cliStopped' = TRUE /\ cliExitCode' = code
      /\ cliBeat' = IF cliBeat = "timer" THEN "off" ELSE cliBeat
      /\ cliMail' = cliMail \union {"offline"}
      /\ UNCHANGED <<cliMode, cliProgram>>
      /\ ~cliCrossed' => cliBeat # "sent" /\ "online" \notin cliMail
  BY DEF X!Leave
<1>2. cliBeat \in {"off", "timer", "sent"}
  BY DEF CliInv, CliShape
<1>3. cliMode = "test" => cliBeat = "off"
  BY DEF CliInv, BeatStays
<1>4. BeatStays'
  BY <1>1, <1>2, <1>3 DEF BeatStays
<1>5. OfflineComes'
  BY <1>1, <1>2 DEF OfflineComes
<1>. QED BY <1>4, <1>5

LEMMA CliRunEnds ==
  ASSUME CliInv, X!RunEnds
  PROVE  CliInv'
<1>. USE RunsBegin DEF CliInv, X!RunEnds, X!Announce, X!Over, X!Leave, X!Listen, X!command, X!adapter, X!process, X!heartbeat
<1>1. CliShape'
  BY DEF CliShape, X!Signal, X!Succeeds
<1>2. RunStays'
  BY SMTT(30) DEF CliShape, RunStays, BeatStays, X!KillFollows, X!Going, X!Testing
<1>3. BeatStays' /\ OfflineComes'
  <2>1. PICK code \in {0, 1, 130, 143} :
            /\ X!Leave(code) /\ cliAt = "running" /\ X!Idle = cliRun'
            /\ code = 0 => cliMode # "worker" /\ cliProgram.code = "zero"
    BY DEF RunStays
  <2>. HIDE DEF X!Leave, CliInv
  <2>. QED BY <2>1, CliLeaves
<1>. QED BY <1>1, <1>2, <1>3

LEMMA CliRunThrows ==
  ASSUME CliInv, X!RunThrows
  PROVE  CliInv'
<1>. USE RunsBegin DEF CliInv, X!RunThrows, X!Announce, X!Over, X!Leave, X!Listen, X!command, X!adapter, X!process, X!heartbeat
<1>1. CliShape'
  BY DEF CliShape, X!Signal, X!Succeeds
<1>2. RunStays'
  BY SMTT(30) DEF CliShape, RunStays, BeatStays, X!KillFollows, X!Going, X!Testing
<1>3. BeatStays' /\ OfflineComes'
  <2>1. PICK code \in {0, 1, 130, 143} :
            /\ X!Leave(code) /\ cliAt = "running" /\ X!Idle = cliRun'
            /\ code = 0 => cliMode # "worker" /\ cliProgram.code = "zero"
    BY DEF RunStays
  <2>. HIDE DEF X!Leave, CliInv
  <2>. QED BY <2>1, CliLeaves
<1>. QED BY <1>1, <1>2, <1>3

LEMMA CliWorkerStops ==
  ASSUME CliInv, X!WorkerStops
  PROVE  CliInv'
<1>. USE RunsBegin DEF CliInv, X!WorkerStops, X!Announce, X!Over, X!Leave, X!Listen, X!command, X!adapter, X!process, X!heartbeat
<1>1. CliShape'
  BY DEF CliShape, X!Signal, X!Succeeds
<1>2. RunStays'
  BY SMTT(30) DEF CliShape, RunStays, BeatStays, X!KillFollows, X!Going, X!Testing
<1>3. BeatStays' /\ OfflineComes'
  <2>1. PICK code \in {0, 1, 130, 143} :
            /\ X!Leave(code) /\ cliAt = "running" /\ X!Idle = cliRun'
            /\ code = 0 => cliMode # "worker" /\ cliProgram.code = "zero"
    BY DEF RunStays
  <2>. HIDE DEF X!Leave, CliInv
  <2>. QED BY <2>1, CliLeaves
<1>. QED BY <1>1, <1>2, <1>3

LEMMA CliOfflineAnswered ==
  ASSUME CliInv, X!OfflineAnswered
  PROVE  CliInv'
<1>. USE RunsBegin DEF CliInv, X!OfflineAnswered, X!Announce, X!Over, X!Leave, X!Listen, X!command, X!adapter, X!process, X!heartbeat
<1>1. CliShape'
  BY DEF CliShape, X!Signal, X!Succeeds
<1>2. RunStays'
  BY SMTT(30) DEF CliShape, RunStays, BeatStays, X!KillFollows, X!Going, X!Testing
<1>3. BeatStays' /\ OfflineComes'
  BY DEF CliShape, RunStays, BeatStays, OfflineComes
<1>. QED BY <1>1, <1>2, <1>3

LEMMA CliOfflineFails ==
  ASSUME CliInv, X!OfflineFails
  PROVE  CliInv'
<1>. USE RunsBegin DEF CliInv, X!OfflineFails, X!Announce, X!Over, X!Leave, X!Listen, X!command, X!adapter, X!process, X!heartbeat
<1>1. CliShape'
  BY DEF CliShape, X!Signal, X!Succeeds
<1>2. RunStays'
  BY SMTT(30) DEF CliShape, RunStays, BeatStays, X!KillFollows, X!Going, X!Testing
<1>3. BeatStays' /\ OfflineComes'
  BY DEF CliShape, RunStays, BeatStays, OfflineComes
<1>. QED BY <1>1, <1>2, <1>3

(* The adapters: their run changes field by field. *)
LEMMA RunGoes ==
  ASSUME NEW r \in AdapterRun, NEW b \in BOOLEAN,
         NEW t, t = [r EXCEPT !.pc = "going", !.limit = TRUE, !.abortable = b]
  PROVE  /\ t \in AdapterRun /\ t.pc = "going" /\ t.limit /\ t.grace = r.grace /\ t.by = r.by
<1>. DEFINE x == [r EXCEPT !.pc = "going"]
            y == [x EXCEPT !.limit = TRUE]
            z == [y EXCEPT !.abortable = b]
<1>1. x \in AdapterRun /\ x.pc = "going" /\ x.grace = r.grace /\ x.by = r.by
  BY DEF AdapterRun
<1>2. y \in AdapterRun /\ y.pc = "going" /\ y.limit /\ y.grace = r.grace /\ y.by = r.by
  BY <1>1 DEF AdapterRun
<1>3. z \in AdapterRun /\ z.pc = "going" /\ z.limit /\ z.grace = r.grace /\ z.by = r.by
  BY <1>2 DEF AdapterRun
<1>4. t = z
  BY DEF AdapterRun
<1>. QED BY <1>3, <1>4

LEMMA RunSettles ==
  ASSUME NEW r \in AdapterRun,
         NEW t, t = [r EXCEPT !.pc = "reporting", !.limit = FALSE, !.grace = FALSE, !.abortable = FALSE]
  PROVE  /\ t \in AdapterRun /\ t.pc = "reporting" /\ ~t.limit /\ ~t.grace /\ ~t.abortable
<1>. DEFINE x == [r EXCEPT !.pc = "reporting"]
            y == [x EXCEPT !.limit = FALSE]
            z == [y EXCEPT !.grace = FALSE]
            w == [z EXCEPT !.abortable = FALSE]
<1>1. x \in AdapterRun /\ x.pc = "reporting"
  BY DEF AdapterRun
<1>2. y \in AdapterRun /\ y.pc = "reporting" /\ ~y.limit
  BY <1>1 DEF AdapterRun
<1>3. z \in AdapterRun /\ z.pc = "reporting" /\ ~z.limit /\ ~z.grace
  BY <1>2 DEF AdapterRun
<1>4. w \in AdapterRun /\ w.pc = "reporting" /\ ~w.limit /\ ~w.grace /\ ~w.abortable
  BY <1>3 DEF AdapterRun
<1>5. t = w
  BY DEF AdapterRun
<1>. QED BY <1>4, <1>5

(* A step of an adapter touches neither the signals nor the heartbeat; it   *)
(* may report an event of its run.                                          *)
LEMMA CliReports ==
  ASSUME CliInv, UNCHANGED <<X!command, X!process, cliBeat, cliStopped, cliServer, cliCrossed>>,
         cliMail' = cliMail \/ (cliAt = "running" /\ cliMail' = cliMail \union {"online"}),
         cliRun' \in AdapterRun, cliProgram' \in Spawned, RunStays',
         cliAt \in {"leaving", "over"} => cliProgram'.code = cliProgram.code
  PROVE  CliInv'
<1>. USE DEF CliInv, X!command, X!process
<1>1. CliShape'
  <2>1. cliMail' \subseteq {"online", "offline"}
    BY DEF CliShape
  <2>. QED BY <2>1 DEF CliShape
<1>2. BeatStays' /\ OfflineComes'
  BY DEF BeatStays, OfflineComes
<1>. QED BY <1>1, <1>2

LEMMA CliAdapts ==
  ASSUME CliInv, UNCHANGED <<X!command, X!process, X!heartbeat>>,
         cliRun' \in AdapterRun, cliProgram' \in Spawned, RunStays',
         cliAt \in {"leaving", "over"} => cliProgram'.code = cliProgram.code
  PROVE  CliInv'
BY CliReports DEF X!heartbeat

(* run.started *)
LEMMA CliReportStarted ==
  ASSUME CliInv, X!ReportStarted
  PROVE  CliInv'
<1>1. /\ cliRun' = [cliRun EXCEPT !.pc = "announced"] /\ cliMail' = cliMail \union {"online"}
      /\ UNCHANGED <<X!command, cliProgram, X!process, cliBeat, cliStopped, cliServer, cliCrossed>>
      /\ cliAt = "running" /\ cliRun.pc = "announcing" /\ cliRun \in AdapterRun /\ cliProgram \in Spawned
  BY DEF X!ReportStarted, CliInv, CliShape
<1>2. /\ cliRun' \in AdapterRun /\ cliRun'.pc = "announced"
      /\ cliRun'.by = cliRun.by /\ cliRun'.grace = cliRun.grace
  BY <1>1 DEF AdapterRun
<1>3. RunStays'
  BY <1>1, <1>2 DEF CliInv, RunStays, X!command, X!KillFollows, X!Going, X!Testing
<1>. QED BY <1>1, <1>2, <1>3, CliReports

(* A claim. *)
LEMMA CliClaim ==
  ASSUME CliInv, X!Claim
  PROVE  CliInv'
<1>1. /\ cliMail' = cliMail \union {"online"} /\ cliAt = "running"
      /\ UNCHANGED <<X!command, cliRun, cliProgram, cliResult, X!process, cliBeat, cliStopped, cliServer, cliCrossed>>
      /\ cliRun \in AdapterRun /\ cliProgram \in Spawned
  BY DEF X!Claim, X!adapter, CliInv, CliShape
<1>2. RunStays'
  BY <1>1 DEF CliInv, RunStays, X!command, X!KillFollows, X!Going, X!Testing
<1>. QED BY <1>1, <1>2, CliReports

LEMMA CliSpawn ==
  ASSUME CliInv, X!Spawn
  PROVE  CliInv'
<1>. DEFINE b == cliAt = "running"
            r == [cliRun EXCEPT !.pc = "going", !.limit = TRUE, !.abortable = b]
<1>1. /\ cliRun' = IF r.abortable /\ cliStop # "none" THEN X!Terminate(r, "abort") ELSE r
      /\ cliProgram' = [X!NoProgram EXCEPT !.life = "alive"]
      /\ UNCHANGED <<X!command, X!process, X!heartbeat>>
      /\ cliRun.pc \in {"announcing", "announced"} /\ cliRun \in AdapterRun
  BY DEF X!Spawn, X!Announced, CliInv, CliShape
<1>2. cliProgram' \in Spawned /\ cliProgram'.life = "alive"
  BY <1>1 DEF X!NoProgram, Spawned
<1>3. b \in BOOLEAN /\ cliRun.by = {} /\ ~cliRun.grace /\ cliAt \in {"selecting", "running"}
  BY <1>1 DEF CliInv, RunStays, X!Idle
<1>4. r \in AdapterRun /\ r.pc = "going" /\ r.limit /\ r.grace = cliRun.grace /\ r.by = cliRun.by
  <2>. HIDE DEF b, r
  <2>. QED BY <1>1, <1>3, RunGoes DEF r
<1>. HIDE DEF b, r
<1>5. /\ cliRun' \in AdapterRun /\ cliRun'.pc = "going"
      /\ cliRun'.grace \/ (cliRun'.limit /\ cliRun'.by = {})
  <2>1. CASE cliRun' = r
    BY <1>3, <1>4, <2>1
  <2>2. CASE cliRun' = X!Terminate(r, "abort")
    BY <1>3, <1>4, <2>2, RunTerminates
  <2>. QED BY <1>1, <2>1, <2>2
<1>6. RunStays'
  BY <1>1, <1>2, <1>3, <1>5 DEF RunStays, X!command, X!KillFollows, X!Going, X!Testing
<1>. QED BY <1>1, <1>2, <1>3, <1>5, <1>6, CliAdapts

LEMMA CliSpawnTest ==
  ASSUME CliInv, X!SpawnTest
  PROVE  CliInv'
<1>1. /\ cliRun' = [cliRun EXCEPT !.pc = "going", !.limit = TRUE]
      /\ cliProgram' = [X!NoProgram EXCEPT !.life = "alive"]
      /\ UNCHANGED <<X!command, X!process, X!heartbeat>>
      /\ cliAt = "running" /\ cliMode = "test" /\ cliRun \in AdapterRun
  BY DEF X!SpawnTest, X!Testing, CliInv, CliShape
<1>2. cliProgram' \in Spawned /\ cliProgram'.life = "alive"
  BY <1>1 DEF X!NoProgram, Spawned
<1>3. cliRun' \in AdapterRun /\ cliRun'.pc = "going"
  BY <1>1 DEF AdapterRun
<1>4. RunStays'
  BY <1>1, <1>2, <1>3 DEF RunStays, X!command, X!KillFollows, X!Going, X!Testing
<1>. QED BY <1>1, <1>2, <1>3, <1>4, CliAdapts

(* finish, of whichever program it is. *)
LEMMA CliSettles ==
  ASSUME CliInv, NEW code, X!Settle(code), cliRun.pc \in {"announcing", "announced", "going"},
         UNCHANGED <<X!command, cliProgram, X!process>>,
         cliProgram.life # "alive", code = "zero" => cliProgram.code = "zero"
  PROVE  CliInv'
<1>1. cliRun \in AdapterRun /\ cliProgram \in Spawned
  BY DEF CliInv, CliShape
<1>2. cliRun' \in AdapterRun /\ cliRun'.pc = "reporting" /\ ~cliRun'.limit /\ ~cliRun'.grace /\ ~cliRun'.abortable
  BY <1>1, RunSettles DEF X!Settle
<1>3. cliResult' = "ok" => cliProgram.code = "zero"
  BY DEF X!Settle, X!Succeeds
<1>4. cliAt \in {"selecting", "running"}
  BY DEF CliInv, RunStays, X!Idle
<1>5. RunStays'
  BY <1>2, <1>3, <1>4 DEF RunStays, X!command, X!KillFollows, X!Going, X!Testing
<1>6. /\ UNCHANGED <<cliBeat, cliStopped, cliServer, cliCrossed>>
      /\ cliMail' = cliMail \/ (cliAt = "running" /\ cliMail' = cliMail \union {"online"})
  BY DEF X!Settle
<1>. QED BY <1>1, <1>2, <1>5, <1>6, CliReports

LEMMA CliCloses ==
  ASSUME CliInv, X!SpawnFails \/ X!Close \/ X!TestCloses
  PROVE  CliInv'
<1>1. CASE X!SpawnFails
  <2>1. /\ cliProgram = X!NoProgram /\ cliProgram.life = "none"
        /\ cliRun.pc \in {"announcing", "announced"}
    BY <1>1, RunsBegin DEF X!SpawnFails, X!Announced, CliInv, RunStays
  <2>. QED BY <1>1, <2>1, CliSettles DEF X!SpawnFails
<1>2. CASE X!Close \/ X!TestCloses
  BY <1>2, CliSettles DEF X!Close, X!TestCloses, X!Going
<1>. QED BY <1>1, <1>2

LEMMA CliWrite ==
  ASSUME CliInv, NEW n \in 1..2, X!Write(n)
  PROVE  CliInv'
<1>1. /\ cliRun' = X!Append(cliRun, n) \/ cliRun' = [X!Append(cliRun, n) EXCEPT !.cut = FALSE]
      /\ cliRun.pc = "going" /\ cliRun \in AdapterRun /\ cliProgram \in Spawned
      /\ UNCHANGED <<X!command, cliProgram, cliResult, X!process, X!heartbeat>>
  BY DEF X!Write, X!AppendTest, X!Going, CliInv, CliShape, X!adapter
<1>2. PICK a \in AdapterRun : /\ a = X!Append(cliRun, n) /\ a.pc = cliRun.pc /\ a.limit = cliRun.limit
                              /\ a.grace = cliRun.grace /\ a.by = cliRun.by
  <2>1. {"pc", "limit", "by", "grace"} \subseteq DOMAIN cliRun \ {"out", "cut"}
    BY <1>1 DEF AdapterRun
  <2>. QED BY <1>1, <2>1, OutputGrows
<1>3. /\ cliRun' \in AdapterRun /\ cliRun'.pc = "going" /\ cliRun'.limit = cliRun.limit
      /\ cliRun'.grace = cliRun.grace /\ cliRun'.by = cliRun.by
  BY <1>1, <1>2 DEF AdapterRun
<1>4. cliAt \in {"selecting", "running"}
  BY <1>1 DEF CliInv, RunStays, X!Idle
<1>5. RunStays'
  BY <1>1, <1>3, <1>4 DEF CliInv, RunStays, X!command, X!KillFollows, X!Going, X!Testing
<1>. QED BY <1>1, <1>3, <1>5, CliAdapts

(* The program's own steps. *)
LEMMA CliProgramEnds ==
  ASSUME CliInv, NEW code \in {"zero", "nonzero", "null"}, X!ProgramEnds(code)
  PROVE  CliInv'
<1>1. PICK held \in BOOLEAN : cliProgram' = [cliProgram EXCEPT !.life = "dead", !.code = code, !.held = held]
  BY DEF X!ProgramEnds
<1>. DEFINE x == [cliProgram EXCEPT !.life = "dead"]
            y == [x EXCEPT !.code = code]
            z == [y EXCEPT !.held = held]
<1>2. cliProgram \in Spawned /\ cliRun \in AdapterRun
  BY DEF CliInv, CliShape
<1>3. x \in Spawned /\ x.life = "dead"
  BY <1>2 DEF Spawned
<1>4. y \in Spawned /\ y.life = "dead"
  BY <1>3 DEF Spawned
<1>5. z \in Spawned /\ z.life = "dead"
  BY <1>4 DEF Spawned
<1>6. cliProgram' \in Spawned /\ cliProgram'.life = "dead"
  BY <1>1, <1>2, <1>5 DEF Spawned
<1>7. /\ cliProgram.life = "alive" /\ (cliRun.pc = "going" \/ cliAt = "dead")
      /\ UNCHANGED <<X!command, cliRun, cliResult, X!process, X!heartbeat>>
  BY DEF X!ProgramEnds, CliInv, RunStays
<1>8. cliAt \notin {"leaving", "over"} /\ cliRun.pc \in {"going", "idle"}
  BY <1>7 DEF CliInv, RunStays, X!Idle
<1>9. RunStays'
  BY <1>6, <1>7, <1>8 DEF CliInv, RunStays, X!command, X!KillFollows, X!Going, X!Testing
<1>. QED BY <1>2, <1>6, <1>7, <1>8, <1>9, CliAdapts

LEMMA CliPipesAreDropped ==
  ASSUME CliInv, X!PipesAreDropped
  PROVE  CliInv'
<1>1. cliProgram \in Spawned /\ cliRun \in AdapterRun
  BY DEF CliInv, CliShape
<1>2. /\ cliProgram' \in Spawned /\ cliProgram'.life = cliProgram.life /\ cliProgram'.code = cliProgram.code
      /\ cliProgram'.killed = cliProgram.killed
  BY <1>1 DEF X!PipesAreDropped, Spawned
<1>3. cliProgram # X!NoProgram /\ UNCHANGED <<X!command, cliRun, cliResult, X!process, X!heartbeat>>
  BY DEF X!PipesAreDropped, X!NoProgram
<1>4. RunStays'
  BY <1>2, <1>3 DEF CliInv, RunStays, X!command, X!KillFollows, X!Going, X!Testing
<1>. QED BY <1>1, <1>2, <1>3, <1>4, CliAdapts

(* The timers. *)
LEMMA CliTestTimesOut ==
  ASSUME CliInv, X!TestTimesOut
  PROVE  CliInv'
<1>. DEFINE a == X!Append(cliRun, 1)
            x == [a EXCEPT !.cut = FALSE]
            y == [x EXCEPT !.limit = FALSE]
            z == [y EXCEPT !.by = {"timeout"}]
<1>1. /\ cliRun' = [x EXCEPT !.limit = FALSE, !.by = {"timeout"}]
      /\ cliRun.pc = "going" /\ cliAt = "running" /\ cliMode = "test"
      /\ UNCHANGED <<X!command, cliProgram, cliResult, X!process, X!heartbeat>>
  BY DEF X!TestTimesOut, X!AppendTest, X!Going, X!Testing
<1>2. cliRun \in AdapterRun /\ cliProgram \in Spawned
  BY DEF CliInv, CliShape
<1>3. a \in AdapterRun /\ a.pc = "going"
  <2>1. "pc" \in DOMAIN cliRun \ {"out", "cut"}
    BY <1>2 DEF AdapterRun
  <2>. QED BY <1>1, <1>2, <2>1, OutputGrows
<1>. HIDE DEF a
<1>4. x \in AdapterRun /\ x.pc = "going"
  BY <1>3 DEF AdapterRun
<1>. HIDE DEF x
<1>5. y \in AdapterRun /\ y.pc = "going"
  BY <1>4 DEF AdapterRun
<1>6. z \in AdapterRun /\ z.pc = "going"
  BY <1>5 DEF AdapterRun
<1>7. cliRun' \in AdapterRun /\ cliRun'.pc = "going"
  BY <1>1, <1>4, <1>6 DEF AdapterRun
<1>8. RunStays'
  BY <1>1, <1>7 DEF CliInv, RunStays, X!command, X!KillFollows, X!Going, X!Testing
<1>. QED BY <1>1, <1>2, <1>7, <1>8, CliAdapts

LEMMA CliTimeoutFires ==
  ASSUME CliInv, X!TimeoutFires
  PROVE  CliInv'
<1>. DEFINE t == X!Terminate(cliRun, "timeout")
<1>1. /\ cliRun' = [t EXCEPT !.limit = FALSE] /\ cliRun.pc = "going"
      /\ ~ (cliAt = "running" /\ cliMode = "test") /\ cliRun.limit
      /\ UNCHANGED <<X!command, cliProgram, cliResult, X!process, X!heartbeat>>
  BY DEF X!TimeoutFires, X!Going, X!Testing
<1>2. cliRun \in AdapterRun /\ cliProgram \in Spawned
  BY DEF CliInv, CliShape
<1>3. t \in AdapterRun /\ t.pc = "going" /\ t.grace = IF cliRun.by = {} THEN TRUE ELSE cliRun.grace
  BY <1>1, <1>2, RunTerminates
<1>. HIDE DEF t
<1>4. cliRun' \in AdapterRun /\ cliRun'.pc = "going" /\ cliRun'.grace = t.grace
  BY <1>1, <1>3 DEF AdapterRun
<1>5. cliAt \in {"selecting", "running"}
  BY <1>1 DEF CliInv, RunStays, X!Idle
<1>6. RunStays'
  BY <1>1, <1>3, <1>4, <1>5 DEF CliInv, RunStays, X!command, X!KillFollows, X!Going, X!Testing
<1>. QED BY <1>1, <1>2, <1>4, <1>6, CliAdapts

LEMMA CliGraceEnds ==
  ASSUME CliInv, X!GraceEnds
  PROVE  CliInv'
<1>1. /\ cliRun' = [cliRun EXCEPT !.grace = FALSE] /\ cliRun.pc = "going"
      /\ cliProgram' = [cliProgram EXCEPT !.killed = cliProgram.killed \/ cliProgram.life = "alive"]
      /\ UNCHANGED <<X!command, cliResult, X!process, X!heartbeat>>
  BY DEF X!GraceEnds, X!Going
<1>2. cliRun \in AdapterRun /\ cliProgram \in Spawned
  BY DEF CliInv, CliShape
<1>3. cliRun' \in AdapterRun /\ cliRun'.pc = "going"
  BY <1>1, <1>2 DEF AdapterRun
<1>4. cliProgram' \in Spawned /\ cliProgram'.life = cliProgram.life /\ (cliProgram.life = "alive" => cliProgram'.killed)
  BY <1>1, <1>2 DEF Spawned
<1>5. cliAt \in {"selecting", "running"} /\ cliProgram.life \in {"alive", "dead"}
  BY <1>1, <1>2 DEF CliInv, RunStays, X!Idle, Spawned
<1>6. RunStays'
  BY <1>1, <1>3, <1>4, <1>5 DEF RunStays, X!command, X!KillFollows, X!Going, X!Testing
<1>. QED BY <1>1, <1>3, <1>4, <1>5, <1>6, CliAdapts

(* requestStop, and a signal that nobody listens to. *)
LEMMA CliReceive ==
  ASSUME CliInv, NEW s \in X!Signal, X!Receive(s)
  PROVE  CliInv'
<1>1. /\ cliRun \in AdapterRun /\ cliProgram \in Spawned
      /\ UNCHANGED <<cliMode, cliExitCode, cliProgram, cliResult, cliStopped, cliMail, cliServer, cliCrossed>>
      /\ cliAt \notin {"new", "over", "dead"} /\ (X!Stop(s) \/ X!Die(s))
  BY DEF X!Receive, CliInv, CliShape
<1>2. CASE X!Stop(s)
  <2>1. /\ cliHears' = cliHears \ {s} /\ s \in cliHears /\ UNCHANGED <<cliAt, cliBeat>>
        /\ \/ cliRun' = cliRun
           \/ cliRun' = X!Terminate(cliRun, "abort") /\ cliRun.pc = "going"
    BY <1>2 DEF X!Stop, X!Going
  <2>2. cliRun' \in AdapterRun /\ RunStays'
    <3>1. CASE cliRun' = cliRun
      BY <1>1, <2>1, <3>1 DEF CliInv, RunStays, X!KillFollows, X!Going, X!Testing
    <3>2. CASE cliRun' = X!Terminate(cliRun, "abort") /\ cliRun.pc = "going"
      <4>1. /\ cliRun' \in AdapterRun /\ cliRun'.pc = "going"
            /\ cliRun'.grace = IF cliRun.by = {} THEN TRUE ELSE cliRun.grace
        BY <1>1, <3>2, RunTerminates
      <4>2. cliAt \in {"selecting", "running"}
        BY <3>2 DEF CliInv, RunStays, X!Idle
      <4>. QED BY <1>1, <2>1, <3>2, <4>1, <4>2 DEF CliInv, RunStays, X!KillFollows, X!Going, X!Testing
    <3>. QED BY <2>1, <3>1, <3>2
  <2>3. CliShape'
    BY <1>1, <2>1, <2>2 DEF CliInv, CliShape
  <2>4. BeatStays' /\ OfflineComes'
    BY <1>1, <2>1 DEF CliInv, BeatStays, OfflineComes
  <2>. QED BY <2>2, <2>3, <2>4 DEF CliInv
<1>3. CASE X!Die(s)
  <2>1. cliAt' = "dead" /\ cliRun' = X!Idle /\ cliBeat' = "off" /\ cliHears' = {}
    BY <1>3 DEF X!Die
  <2>2. CliShape'
    BY <1>1, <2>1, RunsBegin DEF CliInv, CliShape
  <2>3. RunStays'
    BY <1>1, <2>1, RunsBegin DEF CliInv, RunStays, X!KillFollows, X!Going, X!Testing
  <2>4. BeatStays' /\ OfflineComes'
    BY <1>1, <2>1 DEF CliInv, BeatStays, OfflineComes
  <2>. QED BY <2>2, <2>3, <2>4 DEF CliInv
<1>. QED BY <1>1, <1>2, <1>3

LEMMA CliBeatIsDue ==
  ASSUME CliInv, X!BeatIsDue
  PROVE  CliInv'
<1>. USE DEF CliInv, X!BeatIsDue, X!command, X!adapter, X!process, X!heartbeat, X!Testing, X!Going
<1>1. CliShape'
  BY DEF CliShape, X!Reschedule
<1>2. RunStays'
  BY DEF RunStays, X!KillFollows
<1>3. BeatStays' /\ OfflineComes'
  BY DEF CliShape, BeatStays, OfflineComes, X!Reschedule
<1>. QED BY <1>1, <1>2, <1>3

LEMMA CliBeatAgain ==
  ASSUME CliInv, X!BeatAgain
  PROVE  CliInv'
<1>. USE DEF CliInv, X!BeatAgain, X!command, X!adapter, X!process, X!heartbeat, X!Testing, X!Going
<1>1. CliShape'
  BY DEF CliShape, X!Reschedule
<1>2. RunStays'
  BY DEF RunStays, X!KillFollows
<1>3. BeatStays' /\ OfflineComes'
  BY DEF CliShape, BeatStays, OfflineComes, X!Reschedule
<1>. QED BY <1>1, <1>2, <1>3

LEMMA CliBeatEnds ==
  ASSUME CliInv, X!BeatEnds
  PROVE  CliInv'
<1>. USE DEF CliInv, X!BeatEnds, X!command, X!adapter, X!process, X!heartbeat, X!Testing, X!Going
<1>1. CliShape'
  BY DEF CliShape, X!Reschedule
<1>2. RunStays'
  BY DEF RunStays, X!KillFollows
<1>3. BeatStays' /\ OfflineComes'
  BY DEF CliShape, BeatStays, OfflineComes, X!Reschedule
<1>. QED BY <1>1, <1>2, <1>3

LEMMA CliServe ==
  ASSUME CliInv, NEW m \in cliMail, X!Serve(m)
  PROVE  CliInv'
<1>1. /\ cliMail' \in {cliMail, cliMail \ {m}} /\ cliServer' = m /\ m \in {"online", "offline"}
      /\ UNCHANGED <<X!command, X!adapter, X!process, cliBeat, cliStopped, cliCrossed>>
  BY DEF X!Serve, CliInv, CliShape
<1>2. CliShape'
  BY <1>1 DEF CliInv, CliShape, X!command, X!adapter, X!process
<1>3. RunStays'
  BY <1>1 DEF CliInv, RunStays, X!KillFollows, X!Going, X!Testing, X!command, X!adapter
<1>4. BeatStays'
  BY <1>1 DEF CliInv, BeatStays, X!command, X!adapter, X!process
<1>5. OfflineComes'
  BY <1>1 DEF CliInv, OfflineComes
<1>. QED BY <1>2, <1>3, <1>4, <1>5 DEF CliInv

LEMMA CliStep ==
  ASSUME CliInv, [X!Next]_X!vars
  PROVE  CliInv'
<1>1. CASE UNCHANGED X!vars
  BY <1>1 DEF X!vars, X!command, X!adapter, X!process, X!heartbeat, CliInv, CliShape, RunStays, BeatStays,
              OfflineComes, X!KillFollows, X!Going, X!Testing
<1>. QED BY <1>1, CliMisconfigured, CliTestRefused, CliStartCli, CliRoleChosen, CliNoRole, CliConnect, CliConnectFails, CliTest, CliInstruction, CliWorker, CliClaim, CliExecuteLease, CliLeaseEnds, CliRunEnds, CliRunThrows, CliWorkerStops, CliOfflineAnswered, CliOfflineFails, CliReportStarted, CliSpawn, CliSpawnTest, CliWrite, CliProgramEnds, CliPipesAreDropped, CliCloses, CliTestTimesOut, CliTimeoutFires, CliGraceEnds, CliReceive, CliBeatIsDue, CliBeatAgain, CliBeatEnds, CliServe DEF X!Next

(* A command that ends by itself ends with no timer, no heartbeat and no    *)
(* program, with an exit code that tells the truth, and its offline report  *)
(* is the last word of a connector that had nothing else on its way; a      *)
(* provider that ignores SIGTERM is killed.  For any number of signals,     *)
(* runs and pieces of output, in whatever order timeouts, signals, reports  *)
(* and the ends of its programs come (cli.ts and its two adapters).  The    *)
(* test command is never killed, and a signal without a listener ends the   *)
(* process before its programs: of these two it promises nothing.           *)
THEOREM CommandsEndClean == CourseSpec => []CommandEndsClean
<1>. DEFINE Inv == part = "command" => CliInv
<1>1. CourseInit => Inv
  BY CliInit DEF CourseInit
<1>2. Inv /\ [CourseNext]_courseVars => Inv'
  <2>1. [CourseNext]_courseVars => UNCHANGED part /\ (part = "command" => [X!Next]_X!vars)
    BY DEF CourseNext, courseVars, cliVars, X!vars, X!command, X!adapter, X!process, X!heartbeat
  <2>. QED BY <2>1, CliStep
<1>3. Inv => CommandEndsClean
  <2>1. CliInv => X!NothingStays
    BY RunsBegin DEF CliInv, CliShape, RunStays, BeatStays, X!NothingStays
  <2>2. CliInv => X!ExitCodeTells /\ X!OfflineIsLast /\ X!KillFollows
    BY DEF CliInv, RunStays, BeatStays, OfflineComes, X!ExitCodeTells, X!OfflineIsLast
  <2>. QED BY <2>1, <2>2 DEF CommandEndsClean, X!CommandEndsClean
<1>. QED BY <1>1, <1>2, <1>3, PTL DEF CourseSpec

----------------------------------------------------------------------------
(* The seed.  The statement that empties a table, itself or, of the last    *)
(* two, with the users.                                                     *)
Turn ==
  [ClassroomEvent |-> 1, WebsiteLotteryDraw |-> 2, WebsiteLotteryOption |-> 3,
   HelpRequest |-> 4, ClassroomStaffAssignment |-> 5, ClassroomStage |-> 6,
   ClassroomSession |-> 7, AgentMemory |-> 8, AgentEvent |-> 9,
   AgentTaskAttempt |-> 10, AgentTaskDependency |-> 11, AgentTask |-> 12,
   AgentRunSnapshot |-> 13, AgentConnector |-> 14, AgentPairing |-> 15,
   UserSession |-> 16, ChatMessage |-> 17, ReviewResult |-> 18,
   AgentSubmission |-> 19, AgentSession |-> 20, ContributionLog |-> 21,
   RoomAccessGrant |-> 22, GuildMembership |-> 23, Guild |-> 24, Room |-> 25,
   Homestead |-> 26, QuestDay |-> 27, CourseWorld |-> 28, User |-> 29,
   StudentCohort |-> 30, AgentTeamBinding |-> 29, AgentWorldState |-> 29]

(* The tables of the schema, every one with its turn. *)
LEMMA TablesHaveTurns == S!Table = DOMAIN Turn
  BY DEF Turn, S!Table, S!PeopleKeys, S!CourseKeys, S!AgentKeys, S!TaskKeys, S!LessonKeys

(* A table belongs to one group of foreign keys. *)
LEMMA KeysOfTable ==
  ASSUME NEW u
  PROVE  /\ u \in DOMAIN S!PeopleKeys => S!ForeignKeys[u] = S!PeopleKeys[u]
         /\ u \in DOMAIN S!CourseKeys => S!ForeignKeys[u] = S!CourseKeys[u]
         /\ u \in DOMAIN S!AgentKeys => S!ForeignKeys[u] = S!AgentKeys[u]
         /\ u \in DOMAIN S!TaskKeys => S!ForeignKeys[u] = S!TaskKeys[u]
         /\ u \in DOMAIN S!LessonKeys => S!ForeignKeys[u] = S!LessonKeys[u]
<1>. DEFINE A == DOMAIN S!PeopleKeys
            B == DOMAIN S!CourseKeys
            C == DOMAIN S!AgentKeys
            D == DOMAIN S!TaskKeys
            G == DOMAIN S!LessonKeys
            keys == CASE u \in A -> S!PeopleKeys[u]
                      [] u \in B -> S!CourseKeys[u]
                      [] u \in C -> S!AgentKeys[u]
                      [] u \in D -> S!TaskKeys[u]
                      [] u \in G -> S!LessonKeys[u]
<1>1. /\ u \in B => u \notin A
      /\ u \in C => u \notin A /\ u \notin B
      /\ u \in D => u \notin A /\ u \notin B /\ u \notin C
      /\ u \in G => u \notin A /\ u \notin B /\ u \notin C /\ u \notin D
  BY DEF S!PeopleKeys, S!CourseKeys, S!AgentKeys, S!TaskKeys, S!LessonKeys
<1>2. u \in A \/ u \in B \/ u \in C \/ u \in D \/ u \in G => u \in S!Table
  BY DEF S!Table
<1>3. u \in S!Table => S!ForeignKeys[u] = keys
  BY Zenon DEF S!ForeignKeys
<1>. HIDE DEF A, B, C, D, G, keys
<1>4. CASE u \in A
  <2>1. S!ForeignKeys[u] = keys
    BY <1>2, <1>3, <1>4
  <2>2. keys = S!PeopleKeys[u]
    BY <1>1, <1>4 DEF keys
  <2>. QED BY <1>1, <1>4, <2>1, <2>2 DEF A, B, C, D, G
<1>5. CASE u \in B
  <2>1. S!ForeignKeys[u] = keys
    BY <1>2, <1>3, <1>5
  <2>2. keys = S!CourseKeys[u]
    BY <1>1, <1>5 DEF keys
  <2>. QED BY <1>1, <1>5, <2>1, <2>2 DEF A, B, C, D, G
<1>6. CASE u \in C
  <2>1. S!ForeignKeys[u] = keys
    BY <1>2, <1>3, <1>6
  <2>2. keys = S!AgentKeys[u]
    BY <1>1, <1>6 DEF keys
  <2>. QED BY <1>1, <1>6, <2>1, <2>2 DEF A, B, C, D, G
<1>7. CASE u \in D
  <2>1. S!ForeignKeys[u] = keys
    BY <1>2, <1>3, <1>7
  <2>2. keys = S!TaskKeys[u]
    BY <1>1, <1>7 DEF keys
  <2>. QED BY <1>1, <1>7, <2>1, <2>2 DEF A, B, C, D, G
<1>8. CASE u \in G
  <2>1. S!ForeignKeys[u] = keys
    BY <1>2, <1>3, <1>8
  <2>2. keys = S!LessonKeys[u]
    BY <1>1, <1>8 DEF keys
  <2>. QED BY <1>1, <1>8, <2>1, <2>2 DEF A, B, C, D, G
<1>. QED BY <1>4, <1>5, <1>6, <1>7, <1>8 DEF A, B, C, D, G

(* A table others need is emptied after them. *)
LEMMA NeededLater ==
  ASSUME NEW u \in S!Table, NEW k \in S!ForeignKeys[u], k.onDelete = "restrict"
  PROVE  Turn[k.to] > Turn[u]
<1>1. CASE u \in DOMAIN S!PeopleKeys
  <2>1. k \in S!PeopleKeys[u]
    BY <1>1, KeysOfTable
  <2>. QED BY <1>1, <2>1 DEF S!PeopleKeys, S!Optional, S!Required, S!Owned, S!ForeignKey, Turn
<1>2. CASE u \in DOMAIN S!CourseKeys
  <2>1. k \in S!CourseKeys[u]
    BY <1>2, KeysOfTable
  <2>. QED BY <1>2, <2>1 DEF S!CourseKeys, S!Optional, S!Required, S!Owned, S!ForeignKey, Turn
<1>3. CASE u \in DOMAIN S!AgentKeys
  <2>1. k \in S!AgentKeys[u]
    BY <1>3, KeysOfTable
  <2>. QED BY <1>3, <2>1 DEF S!AgentKeys, S!Optional, S!Required, S!Owned, S!ForeignKey, Turn
<1>4. CASE u \in DOMAIN S!TaskKeys
  <2>1. k \in S!TaskKeys[u]
    BY <1>4, KeysOfTable
  <2>. QED BY <1>4, <2>1 DEF S!TaskKeys, S!Optional, S!Required, S!Owned, S!ForeignKey, Turn
<1>5. CASE u \in DOMAIN S!LessonKeys
  <2>1. k \in S!LessonKeys[u]
    BY <1>5, KeysOfTable
  <2>. QED BY <1>5, <2>1 DEF S!LessonKeys, S!Optional, S!Required, S!Owned, S!ForeignKey, Turn
<1>. QED BY <1>1, <1>2, <1>3, <1>4, <1>5 DEF S!Table

LEMMA EmptiedInTurn ==
  /\ DOMAIN S!Emptied = 1..30 /\ Len(S!Emptied) = 30
  /\ \A i \in 1..30 : S!Emptied[i] \in S!Table /\ Turn[S!Emptied[i]] = i
<1>1. \A i \in 1..30 : Turn[S!Emptied[i]] = i /\ S!Emptied[i] \in DOMAIN Turn
  BY DEF S!Emptied, S!EmptiedFirst, Turn
<1>2. DOMAIN S!Emptied = 1..30 /\ Len(S!Emptied) = 30
  BY DEF S!Emptied, S!EmptiedFirst
<1>. QED BY <1>1, <1>2, TablesHaveTurns

(* Every table is emptied in its turn, two of them with the users. *)
LEMMA GoneInTurn ==
  ASSUME NEW u \in S!Table
  PROVE  Turn[u] \in 1..30 /\ S!Gone(S!Emptied[Turn[u]], u)
<1>1. CASE u \in {"AgentTeamBinding", "AgentWorldState"}
  <2>1. S!Emptied[29] = "User" /\ Turn[u] = 29
    BY <1>1 DEF S!Emptied, S!EmptiedFirst, Turn
  <2>2. u \in DOMAIN S!AgentKeys
    BY <1>1 DEF S!AgentKeys
  <2>3. [to |-> "User", onDelete |-> "cascade"] \in S!AgentKeys[u]
    BY <1>1 DEF S!AgentKeys, S!Owned, S!ForeignKey
  <2>4. S!PointsAt(u, "User", "cascade")
    BY <2>2, <2>3, KeysOfTable DEF S!PointsAt, S!ForeignKey
  <2>. QED BY <2>1, <2>4 DEF S!Gone
<1>2. CASE u \notin {"AgentTeamBinding", "AgentWorldState"}
  <2>1. Turn[u] \in 1..30 /\ S!Emptied[Turn[u]] = u
    BY <1>2, TablesHaveTurns DEF S!Emptied, S!EmptiedFirst, Turn
  <2>. QED BY <2>1 DEF S!Gone
<1>. QED BY <1>1, <1>2

LEMMA FilledInTurn ==
  /\ DOMAIN S!Filled = 1..17 /\ Len(S!Filled) = 17
  /\ \A j \in 1..17 : /\ S!Filled[j].into \in S!Table
                      /\ S!Filled[j].count \in 1..5
  BY TablesHaveTurns DEF S!Filled, S!PeopleFilled, S!LessonFilled, S!WorkFilled, S!Filling, Turn

(* The statement that fills a table. *)
Place ==
  [StudentCohort |-> 1, CourseWorld |-> 2, User |-> 3, Homestead |-> 4,
   Guild |-> 5, GuildMembership |-> 6, QuestDay |-> 7, ClassroomSession |-> 8,
   ClassroomStage |-> 9, ClassroomStaffAssignment |-> 10, AgentSession |-> 11,
   Room |-> 12, WebsiteLotteryOption |-> 13, AgentSubmission |-> 14,
   ReviewResult |-> 15, ChatMessage |-> 16, RoomAccessGrant |-> 17]

LEMMA FilledOnce ==
  \A j \in 1..17 : Place[S!Filled[j].into] = j
BY DEF S!Filled, S!PeopleFilled, S!LessonFilled, S!WorkFilled, S!Filling, Place

LEMMA NamedBefore ==
  ASSUME NEW j \in 1..17, NEW n \in S!Filled[j].names
  PROVE  /\ n[1] \in S!Table /\ Place[n[1]] \in 1..(j - 1)
         /\ S!Filled[Place[n[1]]].into = n[1]
         /\ n[2] \in 1..S!Filled[Place[n[1]]].count
BY TablesHaveTurns DEF S!Filled, S!PeopleFilled, S!LessonFilled, S!WorkFilled, S!Filling, Place, Turn

(* What a run has filled, or emptied if nobody writes beside. *)
Sofar(u) ==
  UNION {1..S!Filled[j].count : j \in {k \in 1..17 : S!Filled[k].into = u /\ 30 + k < seedPc}}

SeedInv ==
  /\ S!TypeOK
  /\ seedOutcome = "running" => seedPc <= 47
  /\ seedOutcome = "done" => seedPc = 48
  /\ seedOutcome = "failed" => seedTouched
  /\ \A j \in 1..17 : 30 + j < seedPc =>
       1..S!Filled[j].count \subseteq seedRows[S!Filled[j].into]
  /\ ~ seedTouched => \A u \in S!Table : Turn[u] < seedPc => seedRows[u] \subseteq Sofar(u)

LEMMA Statements == S!LastStatement = 47
BY EmptiedInTurn, FilledInTurn DEF S!LastStatement

LEMMA SeedStarts == S!Init => SeedInv
<1>. SUFFICES ASSUME S!Init PROVE SeedInv
  OBVIOUS
<1>1. S!TypeOK
  <2>1. seedRows \in [S!Table -> SUBSET (0..5)]
    BY DEF S!Init
  <2>2. /\ seedPc = 1 /\ seedOutcome = "running" /\ seedTouched = FALSE
        /\ seedInserts = 0 /\ seedCrashes = 0
    BY DEF S!Init
  <2>3. seedPc \in 1..(S!LastStatement + 1)
    BY <2>2, Statements
  <2>4. seedTouched \in BOOLEAN
    BY <2>2
  <2>5. seedInserts \in 0..MostInserts /\ seedCrashes \in 0..MostCrashes
    BY <2>2, SeedAssumption
  <2>6. seedOutcome \in {"running", "done", "failed"}
    BY <2>2
  <2>. QED BY <2>1, <2>3, <2>4, <2>5, <2>6 DEF S!TypeOK
<1>2. \A u \in S!Table : ~ (Turn[u] < seedPc)
  BY GoneInTurn DEF S!Init
<1>. QED BY <1>1, <1>2 DEF S!Init, SeedInv

LEMMA EmptyKeepsTurns ==
  ASSUME SeedInv, S!Empty
  PROVE  SeedInv'
<1>. DEFINE t == S!Emptied[seedPc]
<1>1. /\ seedOutcome = "running" /\ seedPc \in 1..30
      /\ UNCHANGED <<seedInserts, seedCrashes, seedTouched>>
      /\ S!TypeOK /\ t \in S!Table /\ Turn[t] = seedPc
  BY EmptiedInTurn DEF S!Empty, SeedInv, S!TypeOK
<1>2. \A u \in S!Table : Sofar(u) = {} /\ Sofar(u)' = {}
  <2>1. seedPc' <= 31
    BY <1>1 DEF S!Empty, S!Fails
  <2>2. \A k \in 1..17 : ~ (30 + k < seedPc) /\ ~ (30 + k < seedPc')
    <3>1. seedPc' \in Int
      BY <1>1 DEF S!Empty, S!Fails
    <3>. QED BY <1>1, <2>1, <3>1
  <2>3. ASSUME NEW u
        PROVE  /\ {k \in 1..17 : S!Filled[k].into = u /\ 30 + k < seedPc} = {}
               /\ {k \in 1..17 : S!Filled[k].into = u /\ 30 + k < seedPc'} = {}
    BY <2>2
  <2>. QED BY <2>3 DEF Sofar
<1>3. CASE S!CanEmpty(t)
  <2>1. /\ seedRows' = [u \in S!Table |-> IF S!Gone(t, u) THEN {} ELSE seedRows[u]]
        /\ seedPc' = seedPc + 1 /\ seedOutcome' = "running"
    BY <1>1, <1>3 DEF S!Empty
  <2>2. S!TypeOK'
    <3>1. seedRows' \in [S!Table -> SUBSET (0..5)]
      BY <1>1, <2>1 DEF S!TypeOK
    <3>. QED BY <1>1, <2>1, <3>1, Statements DEF S!TypeOK
  <2>3. ASSUME ~ seedTouched, NEW u \in S!Table, Turn[u] < seedPc'
        PROVE  seedRows'[u] = {}
    <3>1. CASE Turn[u] = seedPc
      BY <2>1, <3>1, GoneInTurn
    <3>2. CASE Turn[u] # seedPc
      <4>1. Turn[u] < seedPc
        BY <1>1, <2>1, <2>3, <3>2, GoneInTurn
      <4>2. seedRows[u] = {}
        BY <1>2, <2>3, <4>1 DEF SeedInv
      <4>. QED BY <2>1, <4>2
    <3>. QED BY <3>1, <3>2
  <2>4. \A j \in 1..17 : ~ (30 + j < seedPc')
    BY <1>1, <2>1
  <2>5. /\ seedTouched' = seedTouched /\ seedPc' <= 47
        /\ seedOutcome' = "running"
    BY <1>1, <2>1
  <2>6. (~ seedTouched => \A u \in S!Table : Turn[u] < seedPc => seedRows[u] \subseteq Sofar(u))'
    BY <2>3, <2>5
  <2>. HIDE DEF t
  <2>. QED BY <2>2, <2>4, <2>5, <2>6 DEF SeedInv
<1>4. CASE ~ S!CanEmpty(t)
  <2>1. seedOutcome' = "failed" /\ UNCHANGED <<seedRows, seedPc>>
    BY <1>1, <1>4 DEF S!Empty, S!Fails
  <2>2. seedTouched
    <3>1. PICK u \in S!Table : S!PointsAt(u, t, "restrict") /\ seedRows[u] # {}
      BY <1>4 DEF S!CanEmpty
    <3>2. Turn[u] < seedPc
      <4>1. S!ForeignKey(t, "restrict") \in S!ForeignKeys[u]
        BY <3>1 DEF S!PointsAt
      <4>2. /\ S!ForeignKey(t, "restrict").to = t
            /\ S!ForeignKey(t, "restrict").onDelete = "restrict"
        BY DEF S!ForeignKey
      <4>. HIDE DEF t
      <4>3. Turn[t] > Turn[u]
        BY <4>1, <4>2, NeededLater
      <4>. QED BY <1>1, <4>3, GoneInTurn
    <3>3. ~ (seedRows[u] \subseteq Sofar(u))
      BY <1>2, <3>1
    <3>. QED BY <3>2, <3>3 DEF SeedInv
  <2>3. S!TypeOK'
    BY <1>1, <2>1 DEF S!TypeOK
  <2>. QED BY <1>1, <2>1, <2>2, <2>3 DEF SeedInv
<1>. QED BY <1>3, <1>4

LEMMA FillKeepsTurns ==
  ASSUME SeedInv, S!Fill
  PROVE  SeedInv'
<1>. DEFINE j == seedPc - 30
            f == S!Filled[j]
<1>1. /\ seedOutcome = "running" /\ seedPc \in 31..47
      /\ UNCHANGED <<seedInserts, seedCrashes, seedTouched>>
      /\ S!TypeOK /\ j \in 1..17
  BY EmptiedInTurn, Statements DEF S!Fill, SeedInv, S!TypeOK
<1>2. f.into \in S!Table /\ f.count \in 1..5 /\ Place[f.into] = j
  BY <1>1, FilledInTurn, FilledOnce
<1>3. S!Fill = S!Fill /\ S!Filled[seedPc - Len(S!Emptied)] = f
  BY EmptiedInTurn
<1>4. CASE S!CanFill(f)
  <2>1. /\ seedRows' = [seedRows EXCEPT ![f.into] = @ \union 1..f.count]
        /\ seedPc' = seedPc + 1
        /\ seedOutcome' = IF seedPc = 47 THEN "done" ELSE "running"
    BY <1>1, <1>3, <1>4, Statements DEF S!Fill
  <2>. HIDE DEF f
  <2>2. /\ seedRows \in [S!Table -> SUBSET (0..5)]
        /\ seedRows'[f.into] = seedRows[f.into] \union 1..f.count
        /\ \A u \in S!Table : u # f.into => seedRows'[u] = seedRows[u]
    BY <1>1, <1>2, <2>1 DEF S!TypeOK
  <2>3. S!TypeOK'
    <3>1. 1..f.count \subseteq 0..5
      BY <1>2
    <3>2. seedRows' \in [S!Table -> SUBSET (0..5)]
      BY <1>2, <2>1, <2>2, <3>1
    <3>3. seedPc' \in 1..48
      BY <1>1, <2>1
    <3>. QED BY <1>1, <2>1, <3>2, <3>3, Statements DEF S!TypeOK
  <2>4. ASSUME NEW k \in 1..17, 30 + k < seedPc'
        PROVE  1..S!Filled[k].count \subseteq seedRows'[S!Filled[k].into]
    <3>1. CASE k = j
      BY <2>2, <3>1 DEF f
    <3>2. CASE k # j
      <4>1. 30 + k < seedPc
        BY <1>1, <2>1, <2>4, <3>2
      <4>2. 1..S!Filled[k].count \subseteq seedRows[S!Filled[k].into]
        BY <4>1 DEF SeedInv
      <4>3. S!Filled[k].into # f.into
        BY <1>2, <3>2, FilledOnce
      <4>. QED BY <2>2, <4>2, <4>3, FilledInTurn
    <3>. QED BY <3>1, <3>2
  <2>5. ASSUME ~ seedTouched, NEW u \in S!Table, Turn[u] < seedPc'
        PROVE  seedRows'[u] \subseteq Sofar(u)'
    <3>1. seedRows[u] \subseteq Sofar(u)
      <4>1. Turn[u] < seedPc
        BY <1>1, GoneInTurn
      <4>. QED BY <2>5, <4>1 DEF SeedInv
    <3>2. Sofar(u) \subseteq Sofar(u)'
      <4>1. \A k \in 1..17 : 30 + k < seedPc => 30 + k < seedPc'
        BY <1>1, <2>1
      <4>. QED BY <4>1 DEF Sofar
    <3>3. u = f.into => 1..f.count \subseteq Sofar(u)'
      <4>1. 30 + j < seedPc'
        BY <1>1, <2>1
      <4>. QED BY <1>1, <4>1 DEF Sofar, f
    <3>. QED BY <2>2, <3>1, <3>2, <3>3
  <2>6. /\ seedTouched' = seedTouched /\ seedOutcome' # "failed"
        /\ seedOutcome' = "running" => seedPc' <= 47
        /\ seedOutcome' = "done" => seedPc' = 48
    BY <1>1, <2>1
  <2>7. (~ seedTouched => \A u \in S!Table : Turn[u] < seedPc => seedRows[u] \subseteq Sofar(u))'
    BY <2>5, <2>6
  <2>. QED BY <2>3, <2>4, <2>6, <2>7 DEF SeedInv
<1>5. CASE ~ S!CanFill(f)
  <2>1. seedOutcome' = "failed" /\ UNCHANGED <<seedRows, seedPc>>
    BY <1>1, <1>3, <1>5 DEF S!Fill, S!Fails
  <2>2. ASSUME ~ seedTouched PROVE S!CanFill(f)
    <3>1. \A k \in 1..17 : S!Filled[k].into = f.into => k = j
      BY <1>2, FilledOnce
    <3>2. seedRows[f.into] = {}
      <4>1. Turn[f.into] < seedPc
        <5>. HIDE DEF f
        <5>. QED BY <1>1, <1>2, GoneInTurn
      <4>2. seedRows[f.into] \subseteq Sofar(f.into)
        BY <1>2, <2>2, <4>1 DEF SeedInv
      <4>3. Sofar(f.into) = {}
        <5>. HIDE DEF f
        <5>1. \A k \in 1..17 : S!Filled[k].into = f.into => ~ (30 + k < seedPc)
          BY <1>1, <3>1
        <5>. QED BY <5>1 DEF Sofar
      <4>. QED BY <4>2, <4>3
    <3>3. ASSUME NEW n \in f.names PROVE n[2] \in seedRows[n[1]]
      <4>1. /\ Place[n[1]] \in 1..(j - 1) /\ S!Filled[Place[n[1]]].into = n[1]
            /\ n[2] \in 1..S!Filled[Place[n[1]]].count
        BY <1>1, <3>3, NamedBefore
      <4>. DEFINE k == Place[n[1]]
      <4>. HIDE DEF k
      <4>2. k \in 1..17 /\ 30 + k < seedPc /\ S!Filled[k].into = n[1] /\ n[2] \in 1..S!Filled[k].count
        BY <1>1, <4>1 DEF k
      <4>3. 1..S!Filled[k].count \subseteq seedRows[S!Filled[k].into]
        BY <4>2 DEF SeedInv
      <4>. QED BY <4>2, <4>3
    <3>. QED BY <3>2, <3>3 DEF S!CanFill
  <2>3. S!TypeOK'
    BY <1>1, <2>1 DEF S!TypeOK
  <2>. HIDE DEF f
  <2>4. seedTouched /\ seedTouched'
    BY <1>1, <1>5, <2>2
  <2>5. \A k \in 1..17 : 30 + k < seedPc' =>
          1..S!Filled[k].count \subseteq seedRows'[S!Filled[k].into]
    BY <2>1 DEF SeedInv
  <2>. QED BY <2>1, <2>3, <2>4, <2>5 DEF SeedInv
<1>. QED BY <1>4, <1>5

LEMMA RerunKeepsTurns ==
  ASSUME SeedInv, S!Rerun
  PROVE  SeedInv'
<1>1. /\ seedPc' = 1 /\ seedOutcome' = "running" /\ seedTouched' = FALSE
      /\ UNCHANGED <<seedRows, seedInserts>>
  BY DEF S!Rerun
<1>2. S!TypeOK'
  <2>1. seedCrashes' \in 0..MostCrashes
    BY SeedAssumption DEF S!Rerun, SeedInv, S!TypeOK
  <2>2. seedPc' \in 1..(S!LastStatement + 1)
    BY <1>1, Statements
  <2>. QED BY <1>1, <2>1, <2>2 DEF SeedInv, S!TypeOK
<1>3. \A u \in S!Table : ~ (Turn[u] < seedPc')
  BY <1>1, GoneInTurn
<1>4. \A j \in 1..17 : ~ (30 + j < seedPc')
  BY <1>1
<1>. QED BY <1>1, <1>2, <1>3, <1>4 DEF SeedInv

LEMMA BesideKeepsTurns ==
  ASSUME SeedInv, NEW new \in [S!Table -> SUBSET (0..1)], S!Beside(new)
  PROVE  SeedInv'
<1>1. /\ seedRows' = [t \in S!Table |-> seedRows[t] \union new[t]]
      /\ seedTouched' /\ UNCHANGED <<seedPc, seedOutcome, seedCrashes>>
      /\ seedInserts < MostInserts /\ seedInserts' = seedInserts + 1
  BY DEF S!Beside
<1>2. S!TypeOK'
  <2>1. seedRows' \in [S!Table -> SUBSET (0..5)]
    BY <1>1 DEF SeedInv, S!TypeOK
  <2>2. seedInserts' \in 0..MostInserts
    BY <1>1, SeedAssumption DEF SeedInv, S!TypeOK
  <2>3. seedTouched' \in BOOLEAN
    BY DEF S!Beside
  <2>. QED BY <1>1, <2>1, <2>2, <2>3 DEF SeedInv, S!TypeOK
<1>3. ASSUME NEW j \in 1..17, 30 + j < seedPc'
      PROVE  1..S!Filled[j].count \subseteq seedRows'[S!Filled[j].into]
  <2>1. 1..S!Filled[j].count \subseteq seedRows[S!Filled[j].into]
    BY <1>1, <1>3 DEF SeedInv
  <2>. QED BY <1>1, <2>1, FilledInTurn
<1>. QED BY <1>1, <1>2, <1>3 DEF SeedInv

LEMMA SeedNext == SeedInv /\ [S!Next]_seedVars => SeedInv'
<1>. SUFFICES ASSUME SeedInv, [S!Next]_seedVars PROVE SeedInv'
  OBVIOUS
<1>1. CASE S!Register
  <2>. DEFINE new == [u \in S!Table |->
                CASE u = "StudentCohort" -> {1}
                  [] u \in {"User", "Homestead", "Room"} -> {0}
                  [] OTHER -> {}]
  <2>1. new \in [S!Table -> SUBSET (0..1)]
    OBVIOUS
  <2>2. S!Beside(new)
    BY <1>1, Zenon DEF S!Register
  <2>. HIDE DEF new
  <2>. QED BY <2>1, <2>2, BesideKeepsTurns
<1>2. ASSUME NEW t \in SeedReader, S!Insert(t) PROVE SeedInv'
  <2>. DEFINE new == [u \in S!Table |-> IF u = t THEN {0} ELSE {}]
  <2>1. new \in [S!Table -> SUBSET (0..1)]
    OBVIOUS
  <2>2. S!Beside(new)
    BY <1>2 DEF S!Insert
  <2>. HIDE DEF new
  <2>. QED BY <2>1, <2>2, BesideKeepsTurns
<1>3. CASE UNCHANGED seedVars
  <2>1. /\ UNCHANGED <<seedRows, seedPc, seedOutcome>>
        /\ UNCHANGED <<seedInserts, seedCrashes, seedTouched>>
    BY <1>3 DEF seedVars
  <2>2. S!TypeOK'
    BY <2>1 DEF SeedInv, S!TypeOK
  <2>. QED BY <2>1, <2>2 DEF SeedInv, Sofar
<1>. QED BY <1>1, <1>2, <1>3, EmptyKeepsTurns, FillKeepsTurns, RerunKeepsTurns DEF S!Next

LEMMA SeedEndsRight == SeedInv => S!SeedLeavesScenario
<1>. SUFFICES ASSUME SeedInv, seedOutcome = "done", NEW t \in S!Table
              PROVE  /\ S!Scenario(t) \subseteq seedRows[t]
                     /\ ~ seedTouched => seedRows[t] = S!Scenario(t)
  BY DEF S!SeedLeavesScenario, SeedInv
<1>1. seedPc = 48
  BY DEF SeedInv
<1>2. S!Scenario(t) = Sofar(t)
  BY <1>1, FilledInTurn DEF S!Scenario, Sofar
<1>3. Sofar(t) \subseteq seedRows[t]
  BY <1>1 DEF Sofar, SeedInv
<1>4. ~ seedTouched => seedRows[t] \subseteq Sofar(t)
  BY <1>1, GoneInTurn DEF SeedInv
<1>. QED BY <1>2, <1>3, <1>4

(* A seed that nobody writes beside runs through from any database and      *)
(* leaves the scenario alone: the order it empties the tables in keeps the  *)
(* schema's keys, and so does the order it fills them in.                   *)
THEOREM SeedIsComplete == CourseSpec => []SeedLeavesScenario
<1>. DEFINE Inv == part = "seed" => SeedInv
<1>1. CourseInit => Inv
  BY SeedStarts DEF CourseInit
<1>2. Inv /\ [CourseNext]_courseVars => Inv'
  <2>1. part = "seed" /\ [CourseNext]_courseVars => [S!Next]_seedVars
    BY DEF CourseNext, courseVars
  <2>2. [CourseNext]_courseVars => UNCHANGED part
    BY DEF CourseNext, courseVars
  <2>. QED BY <2>1, <2>2, SeedNext
<1>3. Inv => SeedLeavesScenario
  BY SeedEndsRight DEF SeedLeavesScenario
<1>. QED BY <1>1, <1>2, <1>3, PTL DEF CourseSpec

----------------------------------------------------------------------------
(* The types of the orchestrator.  A run depends on older ones only. *)
OrchTyped == SchedulerInv /\ \A r \in O!Run : orchDeps[r] \subseteq 1..(r - 1)

LEMMA OrchStartsTyped == O!Init => OrchTyped
BY SchedulerInit DEF OrchTyped, O!Init

LEMMA OrchStaysTyped == OrchTyped /\ [O!Next]_orchVars => OrchTyped'
<1>. SUFFICES ASSUME OrchTyped, [O!Next]_orchVars
              PROVE  \A r \in O!Run : orchDeps'[r] \subseteq 1..(r - 1)
  BY SchedulerNext DEF OrchTyped, O!Run
<1>1. orchDeps \in [O!Run -> SUBSET O!Run] /\ \A r \in O!Run : orchDeps[r] \subseteq 1..(r - 1)
  BY DEF OrchTyped, SchedulerInv, OrchShape
<1>2. ASSUME NEW r \in O!Run, O!Create(r) PROVE \A q \in O!Run : orchDeps'[q] \subseteq 1..(q - 1)
  <2>1. MostRuns \in Nat
    BY CourseAssumption
  <2>2. {q \in O!Run : q < r} \subseteq 1..(r - 1)
    BY <2>1 DEF O!Run
  <2>. QED BY <1>1, <1>2, <2>2 DEF O!Create
<1>3. ASSUME NEW r \in O!Run,
             \/ O!Pause(r) \/ O!Resume(r) \/ O!Cancel(r) \/ O!WaitIfPaused(r)
             \/ O!Settle(r, "completed") \/ O!Settle(r, "failed")
      PROVE  orchDeps' = orchDeps
  BY <1>3 DEF O!Pause, O!Resume, O!Cancel, O!WaitIfPaused, O!Settle
<1>4. O!CallSchedule \/ O!Restore \/ UNCHANGED orchVars => orchDeps' = orchDeps
  BY DEF O!CallSchedule, O!Restore, orchVars
<1>. QED BY <1>1, <1>2, <1>3, <1>4 DEF O!Next

LEMMA OrchTypes == OrchTyped => O!TypeOK
BY DEF OrchTyped, SchedulerInv, OrchShape, Statuses, O!TypeOK

=============================================================================
