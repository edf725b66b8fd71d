---------------------------- MODULE FencedLease ----------------------------
(***************************************************************************)
(* What the task control plane promises about the execution of tasks: each *)
(* task is held by at most one attempt, attempts are numbered upwards and  *)
(* a number is never granted twice, the exclusive tasks of one owner are   *)
(* held one at a time, and a result is accepted only from the attempt that *)
(* holds the task, which ends its hold.  AgentTask implements it.          *)
(***************************************************************************)
EXTENDS Naturals

CONSTANTS Task, Exclusive, OwnerOf

VARIABLES
  holder,    \* the attempt that holds the task, 0 if none does
  granted,   \* how many attempts were granted
  accepted   \* the attempts whose result was accepted

avars == <<holder, granted, accepted>>

Init ==
  /\ holder = [t \in Task |-> 0]
  /\ granted = [t \in Task |-> 0]
  /\ accepted = [t \in Task |-> {}]

Grant(t) ==
  /\ holder[t] = 0
  /\ t \in Exclusive =>
       \A u \in Exclusive : OwnerOf[u] = OwnerOf[t] => holder[u] = 0
  /\ granted' = [granted EXCEPT ![t] = @ + 1]
  /\ holder' = [holder EXCEPT ![t] = granted[t] + 1]
  /\ UNCHANGED accepted

Accept(t) ==
  /\ holder[t] # 0
  /\ accepted' = [accepted EXCEPT ![t] = @ \union {holder[t]}]
  /\ holder' = [holder EXCEPT ![t] = 0]
  /\ UNCHANGED granted

(* A hold that ends without a result: failed, expired or cancelled.        *)
Release(t) ==
  /\ holder[t] # 0
  /\ holder' = [holder EXCEPT ![t] = 0]
  /\ UNCHANGED <<granted, accepted>>

Next == \E t \in Task : Grant(t) \/ Accept(t) \/ Release(t)

Spec == Init /\ [][Next]_avars

============================================================================
