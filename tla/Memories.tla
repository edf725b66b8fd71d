------------------------------ MODULE Memories ------------------------------
(***************************************************************************)
(* The memory stream and its reflections (MemoryService).  A scope is one  *)
(* student with what narrows the memories down.  An observation answers    *)
(* before its automatic reflection, which reads, asks the model and writes *)
(* on its own; what the memories say and how much they weigh is left open. *)
(***************************************************************************)
EXTENDS Integers, FiniteSets, Sequences, SequencesExt

CONSTANTS
  Scope,
  Observe,       \* calls of observe in flight
  Cooldown,      \* REFLECT_COOLDOWN_MS
  MaxSize,       \* of lastReflectTime
  Horizon        \* bound: how long the clock runs

VARIABLES
  lastReflect,   \* lastReflectTime: scopes and times, the next to go first
  call,
  kept,          \* when each scope was last put into lastReflectTime
  used,          \* scopes in the order it was last asked for them with success
  now

vars == <<lastReflect, call, kept, used, now>>

Idle == [step |-> "idle", of |-> "none"]

TypeOK ==
  /\ lastReflect \in Seq([of : Scope, at : 0..Horizon])
  /\ Len(lastReflect) <= MaxSize
  /\ call \in
       [Observe -> {Idle} \union
          [step : {"check", "reflect", "set"}, of : Scope]]
  /\ kept \in [Scope -> -Cooldown..Horizon]
  /\ used \in Seq(Scope) /\ now \in 0..Horizon

Init ==
  /\ lastReflect = <<>> /\ used = <<>>
  /\ call = [o \in Observe |-> Idle]
  /\ kept = [s \in Scope |-> -Cooldown]
  /\ now = 0

----------------------------------------------------------------------------
Has(s) == \E i \in DOMAIN lastReflect : lastReflect[i].of = s
Place(s) == CHOOSE i \in DOMAIN lastReflect : lastReflect[i].of = s
Entry(s) == lastReflect[Place(s)]
Without(s) == IF Has(s) THEN RemoveAt(lastReflect, Place(s)) ELSE lastReflect

(* The mutant: an entry that is read stays where it was written.            *)
GetInPlace(s) == lastReflect

(* SimpleLRU.get moves what it finds to the end.                            *)
Get(s) == IF Has(s) THEN Append(Without(s), Entry(s)) ELSE lastReflect

(* SimpleLRU.set: a new key pushes the first one out of a full map.         *)
Set(s, t) ==
  LET others == IF ~Has(s) /\ Len(lastReflect) >= MaxSize
                THEN Tail(lastReflect) ELSE Without(s) IN
  Append(others, [of |-> s, at |-> t])

MovedLast(s) ==
  LET i == CHOOSE i \in DOMAIN used : used[i] = s
  IN  Append(IF s \in Range(used) THEN RemoveAt(used, i) ELSE used, s)

Step(o, step) == call' = [call EXCEPT ![o].step = step]
Ends(o) == call' = [call EXCEPT ![o] = Idle]

(* observe: a plan is only stored; for an observation the caller has its    *)
(* answer and an automatic reflection starts.                               *)
ObserveMemory(o, s) ==
  /\ call[o] = Idle
  /\ call' = [call EXCEPT ![o] = [step |-> "check", of |-> s]]
  /\ UNCHANGED <<lastReflect, kept, used, now>>

(* maybeAutoReflect: nothing within the cooldown of the last one.           *)
CheckCooldown(o) ==
  LET s == call[o].of IN
  /\ call[o].step = "check"
  /\ lastReflect' = Get(s)
  /\ used' = IF Has(s) THEN MovedLast(s) ELSE used
  /\ IF Has(s) /\ now - Entry(s).at < Cooldown
     THEN Ends(o) ELSE Step(o, "reflect")
  /\ UNCHANGED <<kept, now>>

(* The recent observations are weighed and, if they weigh enough, the model *)
(* is asked.  That it has no insights is all the same to the cooldown; if   *)
(* the observations are too light or the database fails no time is kept.    *)
Reflect(o, reflects) ==
  /\ call[o].step = "reflect"
  /\ IF reflects THEN Step(o, "set") ELSE Ends(o)
  /\ UNCHANGED <<lastReflect, kept, used, now>>

KeepTime(o) ==
  LET s == call[o].of IN
  /\ call[o].step = "set"
  /\ lastReflect' = Set(s, now) /\ used' = MovedLast(s)
  /\ kept' = [kept EXCEPT ![s] = now]
  /\ Ends(o)
  /\ UNCHANGED now

Tick ==
  /\ now < Horizon /\ now' = now + 1
  /\ UNCHANGED <<lastReflect, call, kept, used>>

Next ==
  \/ Tick
  \/ \E o \in Observe :
       \/ \E s \in Scope : ObserveMemory(o, s)
       \/ CheckCooldown(o) \/ KeepTime(o)
       \/ \E reflects \in BOOLEAN : Reflect(o, reflects)

Spec == Init /\ [][Next]_vars

----------------------------------------------------------------------------
(* The scopes used last, as many as lastReflectTime may hold.               *)
Newest == {used[i] : i \in {j \in DOMAIN used : j > Len(used) - MaxSize}}

(* An observation that finds its scope among those used last reflects on it *)
(* only if no reflection has ended within the cooldown, whichever scopes    *)
(* others have pushed out of lastReflectTime meanwhile (maybeAutoReflect).  *)
CooldownHolds ==
  [][\A o \in Observe :
       call[o].step = "check" /\ call'[o].step = "reflect" =>
         LET s == call[o].of IN
           s \in Newest => now - kept[s] >= Cooldown]_vars
=============================================================================
