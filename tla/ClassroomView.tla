---------------------------- MODULE ClassroomView ----------------------------
(***************************************************************************)
(* How the stage of a lesson reaches a student's banner: the broadcasts of *)
(* ClassroomsService through the gateway's room, and the polls that are to *)
(* make up for what the socket loses.  A stage is told by the version of   *)
(* its session.                                                            *)
(***************************************************************************)
EXTENDS Integers, Sequences, FiniteSets

CONSTANTS
  MostVersions,  \* bound: stage actions
  Call           \* stage requests in flight

VARIABLES
  version,  \* ClassroomSession.version
  call,     \* stage requests after their commit, and the snapshot they read
  socket,   \* the banner's socket: down, up, asking, or in the room
  wire,     \* classroom:stage:update events, in the order they were sent
  seen,     \* stageVersion of createClassroomSocket
  view,     \* localSnapshot.session.version
  polls     \* answers to getActiveClassroom on their way

vars == <<version, call, socket, wire, seen, view, polls>>
server == <<version, call>>

Version == 0..MostVersions

Init ==
  /\ version = 0 /\ call = [c \in Call |-> [pc |-> "idle", v |-> 0]]
  /\ socket = "none" /\ wire = <<>>
  /\ seen = 0 /\ view = 0 /\ polls = {}

Open == socket # "none"

----------------------------------------------------------------------------
(* applyStageAction commits, ... *)
Commit(c) ==
  /\ call[c].pc = "idle" /\ version < MostVersions
  /\ version' = version + 1
  /\ call' = [call EXCEPT ![c].pc = "read"]
  /\ UNCHANGED <<socket, wire, seen, view, polls>>

(* ... reads the snapshot, which may show a later action, ... *)
ReadSnapshot(c) ==
  /\ call[c].pc = "read"
  /\ call' = [call EXCEPT ![c] = [pc |-> "send", v |-> version]]
  /\ UNCHANGED <<version, socket, wire, seen, view, polls>>

(* ... and broadcasts it to the room, or fails to and goes on. *)
Broadcast(c) ==
  /\ call[c].pc = "send"
  /\ call' = [call EXCEPT ![c].pc = "idle"]
  /\ wire' \in {wire} \union (IF socket = "joined" THEN {Append(wire, call[c].v)} ELSE {})
  /\ UNCHANGED <<version, socket, seen, view, polls>>

----------------------------------------------------------------------------
(* The page is opened with a snapshot, from which the socket starts. *)
OpenPage ==
  /\ ~Open /\ socket' = "down"
  /\ view' = version /\ seen' = version
  /\ UNCHANGED <<server, wire, polls>>

SocketConnects ==
  /\ socket = "down" /\ socket' = "asked"
  /\ UNCHANGED <<server, wire, seen, view, polls>>

(* handleClassroomSubscribe: the session's lookup, then the join. *)
ClassroomJoin ==
  /\ socket = "asked" /\ socket' = "joined"
  /\ UNCHANGED <<server, wire, seen, view, polls>>

SocketDrops ==
  /\ socket \in {"asked", "joined"}
  /\ socket' = "down" /\ wire' = <<>>
  /\ UNCHANGED <<server, seen, view, polls>>

(* An event older than the last one is dropped. *)
StageUpdate ==
  LET v == Head(wire) IN
  /\ wire # <<>> /\ wire' = Tail(wire)
  /\ IF v < seen THEN UNCHANGED <<seen, view>> ELSE seen' = v /\ view' = v
  /\ UNCHANGED <<server, socket, polls>>

(* The interval does not wait for the answer before.  (A help event leaves  *)
(* the stage alone.)                                                        *)
Poll ==
  /\ Open
  /\ polls' = polls \union {version}
  /\ UNCHANGED <<server, socket, wire, seen, view>>

(* Mutant: the socket is trusted while it is connected. *)
OnlyOffline == socket = "down"

(* getActiveClassroomSafe's answer is taken in any state of the socket. *)
Always == TRUE

PollAnswer(v) ==
  /\ v \in polls
  /\ polls' = polls \ {v}
  /\ view' = IF Always THEN v ELSE view
  /\ UNCHANGED <<server, socket, wire, seen>>

(* degraded *)
PollFails(v) ==
  /\ v \in polls
  /\ polls' = polls \ {v}
  /\ UNCHANGED <<server, socket, wire, seen, view>>

----------------------------------------------------------------------------
Next ==
  \/ \E c \in Call : Commit(c) \/ ReadSnapshot(c) \/ Broadcast(c)
  \/ OpenPage \/ SocketConnects \/ ClassroomJoin \/ SocketDrops \/ StageUpdate
  \/ Poll
  \/ \E v \in Version : PollAnswer(v) \/ PollFails(v)

(* The interval goes on, events in the socket arrive unless it drops, and a *)
(* request that is repeated is answered at last.                            *)
Fairness ==
  /\ WF_vars(Poll) /\ WF_vars(StageUpdate)
  /\ \A v \in Version : SF_vars(PollAnswer(v))

Spec == Init /\ [][Next]_vars /\ Fairness

----------------------------------------------------------------------------
TypeOK ==
  /\ version \in Version /\ seen \in Version /\ view \in Version
  /\ call \in [Call -> [pc : {"idle", "read", "send"}, v : Version]]
  /\ socket \in {"none", "down", "asked", "joined"}
  /\ wire \in Seq(Version) /\ polls \subseteq Version

(* Whatever broadcasts are lost, missed before the join or overtaken by     *)
(* another, and in whatever order poll answers and events arrive, the open  *)
(* banner ends with the stage the lesson is in.                             *)
ViewCatchesUp ==
  <>[](Open => view = version)

============================================================================
