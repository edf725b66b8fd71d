---------------------------- MODULE MCAgentTask ----------------------------
(* Instances of AgentTask for TLC.                                         *)
EXTENDS AgentTask, TLC

CONSTANTS a, b, c, k1, k2, h1, h2, h3

NoDeps == [t \in Task |-> {}]

(* One student, a chain a <- b.                                            *)
ChainDeps == [t \in Task |-> IF t = b THEN {a} ELSE {}]

(* One student, c waits for both a and b.                                  *)
JoinDeps == [t \in Task |-> IF t = c THEN {a, b} ELSE {}]

OneStudent == [t \in Task |-> "student-1"]

AllEligible == [k \in Connector |-> Task]

(* The connector that may stop takes only a. *)
OneOnlyA == [k \in Connector |-> IF k = k1 THEN {a} ELSE Task]

OneEach == [k \in Connector |-> 1]

TwoEach == [k \in Connector |-> 2]

HandlerSymmetry == Permutations(Handler)

(* Without dependencies nothing tells the tasks apart.                     *)
SlotSymmetry ==
  Permutations(Handler) \union Permutations(Task) \union Permutations(Connector)

============================================================================
