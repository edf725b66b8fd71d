----------------------------- MODULE AgentWorld -----------------------------
(***************************************************************************)
(* A student's avatar on the workstation floor: the server's row and its   *)
(* movement queue (AgentWorldService), and the student's browser, which    *)
(* walks the avatar (WorldShell and the zone's Phaser scene).              *)
(***************************************************************************)
EXTENDS Integers, Sequences, SequencesExt

CONSTANTS
  Place,     \* points of the floor
  Home,      \* the desk of the student's role
  Command,   \* bound: clicks the browser sends
  MostRuns,  \* bound: how often a task or a review takes the agent
  MostPolls  \* bound: REST polls answered while events are still on their way

VARIABLES
  row,     \* AgentWorldState: position and revision
  locked,  \* the student has a leased or running task, or a review under way
  runs,    \* how often that has happened
  queue,   \* movementQueues: the commands received, in order
  moving,  \* what moveAvatarUnlocked is doing with its head
  reset,   \* resetToRoleHome, called when the lock was taken
  moved,   \* accepted commands with the revision they were given
  sent,    \* commands sent
  news,    \* avatar:movement events on their way to the browser
  poll,    \* the REST poll: the answer on its way
  polls,   \* answers read while events were on their way
  scene,   \* the browser's avatar: position and lastRevision
  badge    \* what the browser knows of the lock

vars == <<row, locked, runs, queue, moving, reset, moved, sent, news, poll, polls, scene, badge>>

Spot == [at : Place, rev : Nat]
Quiet == [pc |-> "idle", at |-> Home]
NoAnswer == [pc |-> "idle", at |-> Home, rev |-> 0, locked |-> FALSE]

Init ==
  /\ row = [at |-> Home, rev |-> 0]
  /\ locked = FALSE /\ runs = 0 /\ badge = FALSE
  /\ queue = <<>> /\ moved = <<>>
  /\ moving = "idle" /\ reset = Quiet
  /\ sent = 0 /\ news = {} /\ polls = 0
  /\ poll = [NoAnswer EXCEPT !.pc = "closed"]
  /\ scene = [at |-> Home, rev |-> 0]

server == <<row, locked, runs, queue, moving, reset, moved>>

----------------------------------------------------------------------------
(* The student opens the world; the first load finds it as it was left. *)
OpenWorld ==
  /\ poll.pc = "closed" /\ poll' = NoAnswer
  /\ UNCHANGED <<server, sent, news, polls, scene, badge>>

(* handleAvatarMove, moveAvatar: the command goes behind those before it. *)
Receive(p) == queue' = Append(queue, [id |-> sent + 1, to |-> p])

(* A click: not while the browser knows of the lock, and not on the spot    *)
(* where the avatar already stands.                                         *)
PointAndClick(p) ==
  /\ poll.pc # "closed" /\ sent < Command /\ ~badge /\ p # scene.at
  /\ sent' = sent + 1
  /\ Receive(p)
  /\ UNCHANGED <<row, locked, runs, moving, reset, moved, news, poll, polls, scene, badge>>

(* Mutant: overlapping handlers run as they come. *)
AnyTurn(i) == i \in DOMAIN queue

(* A command runs when its predecessors have settled. *)
Turn(i) == i = 1 /\ queue # <<>>

(* getMovementLock *)
MoveChecksLock(i) ==
  /\ moving = "idle" /\ Turn(i)
  /\ IF locked THEN moving' = "idle" /\ queue' = Tail(queue)
     ELSE moving' = "write" /\ queue' = <<queue[i]>> \o RemoveAt(queue, i)
  /\ UNCHANGED <<row, locked, runs, reset, moved, sent, news, poll, polls, scene, badge>>

(* broadcastAvatarMovement *)
Broadcast(e) == news' = news \union {e}

(* The upsert, and the acknowledgement and broadcast of its result. *)
MoveWrites ==
  LET next == [at |-> Head(queue).to, rev |-> row.rev + 1] IN
  /\ moving = "write"
  /\ row' = next
  /\ moved' = Append(moved, [id |-> Head(queue).id, rev |-> next.rev])
  /\ Broadcast(next)
  /\ moving' = "idle" /\ queue' = Tail(queue)
  /\ UNCHANGED <<locked, runs, reset, sent, poll, polls, scene, badge>>

(* A task is claimed, or a submission or a retry opens a review. *)
LockAvatar ==
  /\ ~locked /\ runs < MostRuns /\ reset.pc = "idle"
  /\ locked' = TRUE /\ runs' = runs + 1
  /\ reset' = [reset EXCEPT !.pc = "read"]
  /\ UNCHANGED <<row, queue, moving, moved, sent, news, poll, polls, scene, badge>>

Unlock ==
  /\ locked /\ locked' = FALSE
  /\ UNCHANGED <<row, runs, queue, moving, reset, moved, sent, news, poll, polls, scene, badge>>

(* resetToRoleHome reads: an avatar that is at home stays. *)
ResetReads ==
  /\ reset.pc = "read"
  /\ reset' = IF row.at = Home THEN Quiet ELSE [reset EXCEPT !.pc = "write"]
  /\ UNCHANGED <<row, locked, runs, queue, moving, moved, sent, news, poll, polls, scene, badge>>

ResetWrites ==
  LET next == [at |-> Home, rev |-> row.rev + 1] IN
  /\ reset.pc = "write"
  /\ row' = next /\ Broadcast(next)
  /\ reset' = Quiet
  /\ UNCHANGED <<locked, runs, queue, moving, moved, sent, poll, polls, scene, badge>>

----------------------------------------------------------------------------
(* applyAvatarMovement: a revision that is not newer is dropped. *)
Newer(e) == e.rev > scene.rev

AvatarMovement(e) ==
  /\ e \in news
  /\ news' = news \ {e}
  /\ scene' = IF Newer(e) THEN e ELSE scene
  /\ UNCHANGED <<server, sent, poll, polls, badge>>

(* The connection was down: the event is lost. *)
LoseMovement(e) ==
  /\ e \in news
  /\ news' = news \ {e}
  /\ UNCHANGED <<server, sent, poll, polls, scene, badge>>

(* agent-status:update, sent with the claim and the end of a run. *)
AgentStatus ==
  /\ badge # locked
  /\ badge' = locked
  /\ UNCHANGED <<server, sent, news, poll, polls, scene>>

(* loadAvatars: every 30 to 60 seconds, and after each connect. *)
LoadAvatars ==
  /\ poll.pc = "idle"
  /\ news = {} \/ polls < MostPolls
  /\ polls' = IF news = {} THEN polls ELSE polls + 1
  /\ poll' = [pc |-> "back", at |-> row.at, rev |-> row.rev, locked |-> locked]
  /\ UNCHANGED <<server, sent, news, scene, badge>>

(* Mutant: the answer is compared with what the scene last drew. *)
OnlyNewer == IF poll.rev > scene.rev + 1 THEN [at |-> poll.at, rev |-> poll.rev] ELSE scene

(* The answer replaces the avatars and the scene is restarted from it. *)
FromPoll == [at |-> poll.at, rev |-> poll.rev]

ApplyAvatars ==
  /\ poll.pc = "back"
  /\ scene' = FromPoll
  /\ badge' = poll.locked
  /\ poll' = NoAnswer
  /\ UNCHANGED <<server, sent, news, polls>>

----------------------------------------------------------------------------
Next ==
  \/ OpenWorld
  \/ \E p \in Place : PointAndClick(p)
  \/ \E i \in 1..Command : MoveChecksLock(i)
  \/ MoveWrites \/ LockAvatar \/ Unlock \/ ResetReads \/ ResetWrites
  \/ \E e \in news : AvatarMovement(e) \/ LoseMovement(e)
  \/ AgentStatus \/ LoadAvatars \/ ApplyAvatars

(* The server finishes what it has begun; the browser keeps polling. *)
Fairness ==
  /\ WF_vars(\E i \in 1..Command : MoveChecksLock(i)) /\ WF_vars(MoveWrites)
  /\ WF_vars(ResetReads) /\ WF_vars(ResetWrites)
  /\ WF_vars(\E e \in news : AvatarMovement(e) \/ LoseMovement(e))
  /\ WF_vars(LoadAvatars) /\ WF_vars(ApplyAvatars)

Spec == Init /\ [][Next]_vars /\ Fairness

----------------------------------------------------------------------------
TypeOK ==
  /\ row \in Spot /\ scene \in Spot /\ news \subseteq Spot
  /\ moving \in {"idle", "write"} /\ reset.pc \in {"idle", "read", "write"}
  /\ sent \in 0..Command /\ runs \in 0..MostRuns

(* Clicks that overlap are given revisions in the order they were received, *)
(* so that the newest command received cancels the older routes.            *)
NewestCommandWins ==
  \A i, j \in DOMAIN moved : moved[i].id < moved[j].id => moved[i].rev < moved[j].rev

(* Whatever events were lost or late, the browser ends with the avatar      *)
(* where the server has it.                                                 *)
BrowserCatchesUp == <>[](scene = row)

============================================================================
