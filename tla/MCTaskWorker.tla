--------------------------- MODULE MCTaskWorker ---------------------------
(* Instances of TaskWorker for TLC; one unit of time is 5 seconds.         *)
EXTENDS TaskWorker, TLC

CONSTANTS k1, k2

ConnectorSymmetry == Permutations(Connector)

============================================================================
