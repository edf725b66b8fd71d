----------------------------- MODULE ClaimQueue -----------------------------
(***************************************************************************)
(* Which task a claim gets (claim, tryClaim and reserveProviderQuota in    *)
(* agent-task.service.ts): the page of candidates, their order with aging, *)
(* the connector's capacity and the provider's bucket of requests and      *)
(* model tokens, which the students share.  AgentTask has the lease and    *)
(* the heavy tasks; here all tasks are light.  Time goes by ticks of half  *)
(* a minute.                                                               *)
(***************************************************************************)
EXTENDS Integers, FiniteSets, SequencesExt

CONSTANTS
  Task,
  Priority,    \* Task -> priority
  Estimate,    \* Task -> estimatedTokens of the payload, or its length / 4
  Able,        \* the tasks whose capabilities the student's connector has
  Renewed,     \* the tasks that are followed by another one like them
  Stored,      \* the tasks created before the behaviour starts
  Poll,        \* model bound: claims in flight
  TasksOf,     \* Poll -> the tasks of its student and provider
  Asked,       \* Poll -> the light capacity the connector asks for
  Maximum,     \* Poll -> what AGENT_TASK_LIGHT_CAPACITY_ALLOWLIST allows it
  Page,        \* take: candidates of one query
  Rpm, Tpm,    \* AGENT_PROVIDER_RATE_LIMITS, whole numbers also for a tick
  MaxAttempts,
  MostWait,    \* the ticks within which a task must be served
  MostHold     \* bound: ticks a lease lasts

Minute == 2  \* ticks
MostDelay == 30  \* seconds: retryDelayMs

VARIABLES
  row,      \* AgentTask: status, attemptCount, the ticks since createdAt, and the
            \* ticks to availableAt or, of a lease, those it may still last
  poll,     \* the claims: what they have read and not used yet
  bucket,   \* providerBuckets: ticks since updatedAt, up to a minute
  recent    \* history: what was reserved in each tick of the last minute

vars == <<row, poll, bucket, recent>>

Absent == [st |-> "absent", age |-> 0, wait |-> 0, tries |-> 0]
Queued == [Absent EXCEPT !.st = "queued"]
Sleeps == [pc |-> "sleeps", list |-> <<>>]
Refused == [pc |-> "refused", list |-> <<>>]
FullBucket == [requests |-> Rpm, tokens |-> Tpm, age |-> Minute]
Quiet == [i \in 1..Minute |-> [requests |-> 0, tokens |-> 0]]

Init ==
  /\ row = [t \in Task |-> IF t \in Stored THEN Queued ELSE Absent]
  /\ poll = [p \in Poll |-> Sleeps]
  /\ bucket = FullBucket /\ recent = Quiet

Lower(a, b) == IF a < b THEN a ELSE b
Higher(a, b) == IF a > b THEN a ELSE b

----------------------------------------------------------------------------
(* clampClaimCapacity *)
Capacity(p) == Lower(Maximum[p], Higher(0, Asked[p]))

Held(p) == {t \in TasksOf[p] : row[t].st = "leased"}

(* tryClaim: queued, of this student and provider, and available. *)
Ready(p) == {t \in TasksOf[p] : row[t].st = "queued" /\ row[t].wait = 0}

(* The query knows the priority only, and stops after a page. *)
Candidates(p) ==
  {s \in SUBSET Ready(p) :
     /\ Cardinality(s) = Lower(Page, Cardinality(Ready(p)))
     /\ \A t \in s, u \in Ready(p) \ s : Priority[t] >= Priority[u]}

(* A point for every minute of waiting (AGING_INTERVAL_MS). *)
Score(t) == Priority[t] + row[t].age \div Minute

(* Ties are broken by times the model does not tell apart. *)
Ranked(s) ==
  {q \in SetToSeqs(s) : \A i, j \in DOMAIN q : i < j => Score(q[i]) >= Score(q[j])}

(* Mutant: what has elapsed is added whatever the bucket holds. *)
Overfull ==
  [requests |-> bucket.requests + bucket.age * (Rpm \div Minute),
   tokens |-> bucket.tokens + bucket.age * (Tpm \div Minute), age |-> 0]

(* reserveProviderQuota refills the bucket by what has elapsed. *)
Refilled ==
  [requests |-> Lower(Rpm, bucket.requests + bucket.age * (Rpm \div Minute)),
   tokens |-> Lower(Tpm, bucket.tokens + bucket.age * (Tpm \div Minute)),
   age |-> 0]

(* estimateTaskTokens *)
Cost(t) == Higher(1, Estimate[t])

Enough(t) == Refilled.requests >= 1 /\ Refilled.tokens >= Cost(t)

(* getProviderRateLimit: without both numbers there is no bucket. *)
Limited == Rpm > 0 /\ Tpm > 0

(* retryDelayMs, in ticks begun *)
Doubled(n) == LET power[i \in 0..n] == IF i = 0 THEN 1 ELSE 2 * power[i - 1] IN power[n]
RetryDelay(n) == (Lower(Doubled(n - 1), MostDelay) + 29) \div 30

----------------------------------------------------------------------------
(* create, of a task without dependencies *)
Create(t) ==
  /\ row[t].st = "absent" \/ (row[t].st = "ended" /\ t \in Renewed)
  /\ row' = [row EXCEPT ![t] = Queued]
  /\ UNCHANGED <<poll, bucket, recent>>

(* claim, at once and again every second: nothing is read while the         *)
(* capacity is used up, and after a refusal it is asked again in the next   *)
(* tick, when something has flown into the bucket.  Candidates whose        *)
(* capabilities the connector lacks are passed over.                        *)
CanClaim(p) == Ready(p) # {} /\ Cardinality(Held(p)) < Capacity(p)

BeginClaim(p) ==
  /\ poll[p].pc = "sleeps" /\ CanClaim(p)
  /\ \E s \in Candidates(p) : \E q \in Ranked(s \intersect Able) :
       poll' = [poll EXCEPT ![p] =
         [pc |-> "chooses",
          list |-> [i \in DOMAIN q |-> [task |-> q[i], tries |-> row[q[i]].tries]]]]
  /\ UNCHANGED <<row, bucket, recent>>

(* The next candidate is paid for, or the claim returns without a task.     *)
Reserve(p) ==
  /\ poll[p].pc = "chooses"
  /\ IF poll[p].list = <<>>
     THEN poll' = [poll EXCEPT ![p] = Refused] /\ UNCHANGED <<bucket, recent>>
     ELSE LET t == Head(poll[p].list).task IN
          IF ~Limited \/ Enough(t)
          THEN /\ poll' = [poll EXCEPT ![p].pc = "commits"]
               /\ IF Limited
                  THEN /\ bucket' = [Refilled EXCEPT !.requests = @ - 1,
                                                     !.tokens = @ - Cost(t)]
                       /\ recent' = [recent EXCEPT ![1].requests = @ + 1,
                                                   ![1].tokens = @ + Cost(t)]
                  ELSE UNCHANGED <<bucket, recent>>
          ELSE /\ bucket' = Refilled /\ UNCHANGED recent
               /\ poll' = [poll EXCEPT ![p] = Refused]
  /\ UNCHANGED row

(* The transaction counts the leases again and takes the row as it was      *)
(* read; otherwise the next candidate is tried, and what was paid is lost.  *)
Commit(p) ==
  LET c == Head(poll[p].list) IN
  /\ poll[p].pc = "commits"
  /\ IF /\ Cardinality(Held(p)) < Capacity(p)
        /\ row[c.task].st = "queued" /\ row[c.task].tries = c.tries
        /\ row[c.task].wait = 0
     THEN /\ row' = [row EXCEPT ![c.task].st = "leased", ![c.task].tries = @ + 1,
                                ![c.task].wait = MostHold]
          /\ poll' = [poll EXCEPT ![p] = Sleeps]
     ELSE /\ poll' = [poll EXCEPT ![p] =
                        [pc |-> "chooses", list |-> Tail(poll[p].list)]]
          /\ UNCHANGED row
  /\ UNCHANGED <<bucket, recent>>

(* complete, cancel, or a failure that is not tried again *)
EndTask(t) ==
  /\ row[t].st = "leased"
  /\ row' = [row EXCEPT ![t] = [Absent EXCEPT !.st = "ended"]]
  /\ UNCHANGED <<poll, bucket, recent>>

(* fail or an expired lease, with attempts left *)
RetryTask(t) ==
  /\ row[t].st = "leased" /\ row[t].tries < MaxAttempts
  /\ row' = [row EXCEPT ![t].st = "queued", ![t].wait = RetryDelay(row[t].tries)]
  /\ UNCHANGED <<poll, bucket, recent>>

(* Claims are asked and answered within seconds: half a minute does not go  *)
(* by while one is in flight or could still be made.  The age of a task     *)
(* that is always passed over decides nothing and is not counted.           *)
Tick ==
  /\ \A p \in Poll : poll[p].pc = "refused" \/ (poll[p].pc = "sleeps" /\ ~CanClaim(p))
  /\ \A t \in Task : row[t].st = "leased" => row[t].wait > 0
  /\ poll' = [p \in Poll |-> Sleeps]
  /\ row' = [t \in Task |->
       [row[t] EXCEPT !.wait = Higher(0, @ - 1),
                      !.age = IF t \in Able /\ row[t].st \in {"queued", "leased"}
                              THEN Lower(MostWait + 1, @ + 1) ELSE @]]
  /\ bucket' = [bucket EXCEPT !.age = Lower(Minute, @ + 1)]
  /\ recent' = [i \in 1..Minute |-> IF i = 1 THEN Quiet[1] ELSE recent[i - 1]]

(* The buckets live in the memory of the process. *)
Restart ==
  /\ poll' = [p \in Poll |-> Sleeps] /\ bucket' = FullBucket /\ recent' = Quiet
  /\ UNCHANGED row

Next ==
  \/ \E t \in Task : Create(t) \/ EndTask(t) \/ RetryTask(t)
  \/ \E p \in Poll : BeginClaim(p) \/ Reserve(p) \/ Commit(p)
  \/ Tick \/ Restart

Spec == Init /\ [][Next]_vars

----------------------------------------------------------------------------
Status == {"absent", "queued", "leased", "ended"}

TypeOK ==
  /\ row \in [Task -> [st: Status, age: 0..(MostWait + 1),
                       wait: 0..Higher(1, MostHold), tries: 0..MaxAttempts]]
  /\ \A p \in Poll : poll[p].pc \in {"sleeps", "refused", "chooses", "commits"}
  /\ bucket \in [requests: 0..Rpm, tokens: 0..Tpm, age: 0..Minute]

(* What the last k ticks have reserved. *)
Spent(what, k) ==
  LET sum[i \in 0..Minute] ==
        IF i = 0 THEN 0 ELSE sum[i - 1] + recent[i][what]
  IN  sum[k]

(* However polls overlap and fail, one process reserves no more in any span *)
(* of time than a full bucket and what flows into it meanwhile.             *)
WithinQuota ==
  Limited => \A k \in 1..Minute :
    /\ Spent("requests", k) <= Rpm + (k - 1) * (Rpm \div Minute)
    /\ Spent("tokens", k) <= Tpm + (k - 1) * (Tpm \div Minute)

(* A task the connector can do and the provider's limit can pay for, that   *)
(* no page full of higher priorities hides and whose bucket no other        *)
(* student draws from without end.                                          *)
Servable(t) ==
  /\ t \in Able
  /\ \A p \in Poll : IF t \in TasksOf[p]
       THEN /\ Capacity(p) > 0
            /\ Cardinality({u \in TasksOf[p] : Priority[u] >= Priority[t]}) <= Page
            /\ \A u \in TasksOf[p] \cap Able : Cost(u) <= Tpm
       ELSE TasksOf[p] \cap Renewed = {}

(* Such a task does not wait longer than MostWait, although tasks of higher *)
(* priority keep coming and the quota refuses claims: a point for every     *)
(* minute puts it first, and nothing behind it is paid for before it.       *)
NoTaskStarves ==
  \A t \in Task : Servable(t) /\ row[t].st = "queued" => row[t].age <= MostWait

(* The provider's quota is kept, and still every task has its turn. *)
QuotaServes == WithinQuota /\ NoTaskStarves

=============================================================================
