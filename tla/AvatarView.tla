----------------------------- MODULE AvatarView -----------------------------
(***************************************************************************)
(* How a user's agent comes to be drawn in somebody else's world: the      *)
(* facts AgentAvatarService derives an avatar from, its cache and the load *)
(* its callers share, the presence and status events of the gateway, and   *)
(* the browser's list, scene and calibrating poll (world-shell.tsx,        *)
(* phaser-scene.ts).                                                       *)
(***************************************************************************)
EXTENDS Integers, Sequences, FiniteSets

CONSTANTS
  Fact,          \* the rows an avatar may have: "task", "review", "memory"
  MostChanges,   \* bound: changes of the facts, reconnections, failed loads
                 \* and lists that time out, once the page is open
  MostEvents     \* bound: events in the socket

VARIABLES
  online,    \* a socket of the user, or a connector seen lately
  facts,     \* the user's rows among Fact
  zone,      \* PresenceService.zoneByUser
  changes,
  cache,     \* avatarCache["*"], and whether it is still live
  loads,     \* executions of loadAvatars
  shared,    \* avatarLoads["*"]: the execution it holds, or 0
  waits,     \* the executions the browser's list requests wait for
  lists,     \* answers to fetchAgentAvatarsSafe on their way
  due,       \* publishAvatarState calls before their read ...
  news,      \* ... and the statuses others have read
  wire,      \* presence:update and agent-status:update in the socket
  fetched,   \* answers to fetchAgentAvatar on their way
  page,      \* the browser's world: closed, or open
  shown,     \* avatarsRef: the user's entry
  drawn      \* the scene of Here: nothing, a hidden figure, or its status

world == <<online, facts, zone, changes>>
service == <<cache, loads, shared>>
socket == <<due, news, wire>>
browser == <<page, shown, drawn>>
vars == <<world, service, waits, lists, socket, fetched, browser>>

Load == {1, 2}
Here == "lobby"
Zone == {Here, "workstations"}
(* deriveAvatarState: a task counts before a review, a review before recent *)
(* activity.                                                                *)
Derive(fs) ==
  CASE "task" \in fs -> "working"
    [] "task" \notin fs /\ "review" \in fs -> "reviewing"
    [] fs = {"memory"} -> "online"
    [] fs = {} -> "idle"

Status == {Derive(fs) : fs \in SUBSET Fact}
Told == Status \union {"offline"}  \* what an agent-status:update may say
Absent == [status |-> "none", zone |-> "workstations"]
Avatar == [status : Told, zone : Zone] \union {Absent}

(* getAvatarState answers for an offline user, getAvatars leaves it out.    *)
Single == [status |-> IF online THEN Derive(facts) ELSE "offline", zone |-> zone]
Entry == [status |-> Derive(facts), zone |-> zone]

(* buildZoneAgentRoster, for the watched zone *)
Figure(a) ==
  IF a.status \in Status /\ a.zone = Here THEN a.status ELSE "none"

Init ==
  /\ online = FALSE /\ facts = {} /\ zone = "workstations"
  /\ changes = 0
  /\ cache = [live |-> FALSE, value |-> Absent]
  /\ loads = [l \in Load |-> [pc |-> "idle", value |-> Absent]]
  /\ shared = 0 /\ waits = {} /\ lists = {}
  /\ due = 0 /\ news = {} /\ wire = <<>> /\ fetched = {}
  /\ page = "closed" /\ shown = Absent /\ drawn = "none"

Open == page = "open"

(* An event reaches the browser's socket or is lost. *)
Emit(e) ==
  wire' \in {wire} \union
            (IF Open /\ Len(wire) < MostEvents THEN {Append(wire, e)} ELSE {})

(* invalidateCache also forgets the load in flight, which goes on. *)
Invalidate ==
  cache' = [cache EXCEPT !.live = FALSE] /\ shared' = 0

Changes ==
  IF Open THEN changes < MostChanges /\ changes' = changes + 1
  ELSE UNCHANGED changes

----------------------------------------------------------------------------
(* The first socket of the user opens or the last one closes, or a connector *)
(* comes or is not seen any more, of which nobody is told.                   *)
PresenceChanges ==
  /\ Changes /\ online' = ~online
  /\ Emit(IF online THEN "gone" ELSE "here")
  /\ UNCHANGED <<facts, zone, service, waits, lists, due, news, fetched, browser>>

(* Rows of the user change, by a request that publishes the new status or   *)
(* by the passing of time.                                                  *)
FactsChange(fs) ==
  /\ Changes /\ fs # facts /\ facts' = fs
  /\ due' \in {due} \union (IF Open THEN {due + 1} ELSE {})
  /\ UNCHANGED <<online, zone, service, waits, lists, news, wire, fetched, browser>>

(* moveAvatar *)
EnterZone(z) ==
  /\ Changes /\ z # zone /\ zone' = z /\ Invalidate
  /\ UNCHANGED <<online, facts, loads, waits, lists, socket, fetched, browser>>

(* publishAvatarState of tasks and reviews empties the cache and reads the   *)
(* avatar; broadcastAgentStatus of the controllers only reads it, ...        *)
PublishReads ==
  /\ due > 0 /\ due' = due - 1
  /\ Invalidate \/ UNCHANGED <<cache, shared>>
  /\ news' = news \union {Single.status}
  /\ UNCHANGED <<world, loads, waits, lists, wire, fetched, browser>>

(* ... sends it home if it is locked, and broadcasts what it read. *)
PublishSends(s) ==
  /\ s \in news /\ news' = news \ {s} /\ Emit(s)
  /\ UNCHANGED <<world, service, waits, lists, due, fetched, browser>>

----------------------------------------------------------------------------
(* AVATAR_CACHE_TTL_MS *)
CacheExpires ==
  /\ cache.live /\ cache' = [cache EXCEPT !.live = FALSE]
  /\ UNCHANGED <<world, loads, shared, waits, lists, socket, fetched, browser>>

Idle == {l \in Load : loads[l].pc = "idle"}

(* getAvatars answers from the cache, ... *)
FromCache ==
  /\ cache.live /\ lists' = lists \union {cache.value}
  /\ UNCHANGED <<loads, shared, waits>>

(* ... by the load that is under way already, ... *)
FromShared ==
  /\ ~cache.live /\ shared # 0 /\ waits' = waits \union {shared}
  /\ UNCHANGED <<loads, shared, lists>>

(* ... or by a new one. *)
FromNew(l) ==
  /\ ~cache.live /\ shared = 0 /\ l \in Idle
  /\ loads' = [loads EXCEPT ![l] = [pc |-> "read", value |-> Absent]]
  /\ shared' = l /\ waits' = waits \union {l}
  /\ UNCHANGED lists

GetAvatars ==
  /\ FromCache \/ FromShared \/ \E l \in Load : FromNew(l)
  /\ UNCHANGED <<facts, online, zone, cache, socket, fetched>>

OpenPage ==
  /\ ~Open /\ page' = "open" /\ GetAvatars
  /\ UNCHANGED <<changes, shown, drawn>>

(* The next poll is set when the one before has been answered; ... *)
Poll ==
  /\ Open /\ waits = {} /\ lists = {} /\ GetAvatars
  /\ UNCHANGED <<changes, browser>>

(* ... the socket asks whenever it connects. *)
SocketConnects ==
  /\ Open /\ Changes /\ GetAvatars
  /\ UNCHANGED browser

(* loadAvatars reads who is online, their rows and their zones; *)
LoadReads(l) ==
  /\ loads[l].pc = "read"
  /\ loads' = [loads EXCEPT ![l] =
                 [pc |-> "end", value |-> IF online THEN Entry ELSE Absent]]
  /\ UNCHANGED <<world, cache, shared, waits, lists, socket, fetched, browser>>

(* Mutant: without the finally, the map keeps a load that is over. *)
KeepsLoad(l) == shared

(* finally: whichever load the map holds by now. *)
Forget(l) == 0

Finish(l, v) ==
  /\ loads' = [loads EXCEPT ![l] = [pc |-> "idle", value |-> Absent]]
  /\ waits' = waits \ {l}
  /\ lists' = IF l \in waits THEN lists \union {v} ELSE lists
  /\ shared' = Forget(l)

(* its result is cached, also when it was invalidated on the way. *)
LoadEnds(l) ==
  /\ loads[l].pc = "end" /\ Finish(l, loads[l].value)
  /\ cache' = [live |-> TRUE, value |-> loads[l].value]
  /\ UNCHANGED <<world, socket, fetched, browser>>

(* The callers of a load that fails see nobody (EMPTY_AGENT_AVATARS). *)
LoadFails(l) ==
  /\ Changes /\ loads[l].pc # "idle" /\ Finish(l, Absent)
  /\ UNCHANGED <<online, facts, zone, cache, socket, fetched, browser>>

----------------------------------------------------------------------------
(* The scene is drawn again from the list. *)
Refresh == drawn' = Figure(shown')

(* updateAgentVisuals: a figure the scene has takes the status, whether the *)
(* list still has its user or not.                                          *)
Restyle(s) ==
  drawn' = IF drawn = "none" THEN "none"
           ELSE IF s = "offline" \/ shown'.status = "offline" THEN "hidden" ELSE s

(* loadAvatars in world-shell.tsx: the list is replaced. *)
TakeList(v) ==
  /\ v \in lists /\ lists' = lists \ {v}
  /\ shown' = v /\ Refresh /\ UNCHANGED page
  /\ UNCHANGED <<world, service, waits, socket, fetched>>

(* API_TIMEOUT_MS: the list is replaced by an empty one. *)
ListTimesOut(l) ==
  /\ Changes /\ l \in waits /\ waits' = waits \ {l}
  /\ shown' = Absent /\ Refresh /\ UNCHANGED page
  /\ UNCHANGED <<online, facts, zone, service, lists, socket, fetched>>

Received == wire # <<>> /\ wire' = Tail(wire)

PresenceOffline ==
  /\ Received /\ Head(wire) = "gone"
  /\ shown' = Absent /\ Restyle("offline") /\ UNCHANGED page
  /\ UNCHANGED <<world, service, waits, lists, due, news, fetched>>

(* The user's avatar is fetched, if the session holds a token. *)
PresenceOnline ==
  /\ Received /\ Head(wire) = "here"
  /\ fetched' \in {fetched, fetched \union {Single}}
  /\ UNCHANGED <<world, service, waits, lists, due, news, browser>>

TakeAvatar(v) ==
  /\ v \in fetched /\ fetched' = fetched \ {v}
  /\ shown' = v /\ UNCHANGED page
  /\ IF shown = Absent THEN Refresh ELSE Restyle(v.status)
  /\ UNCHANGED <<world, service, waits, lists, socket>>

StatusUpdate ==
  /\ Received /\ Head(wire) \in Told
  /\ shown' = IF shown = Absent THEN Absent ELSE [shown EXCEPT !.status = Head(wire)]
  /\ Restyle(Head(wire)) /\ UNCHANGED page
  /\ UNCHANGED <<world, service, waits, lists, due, news, fetched>>

----------------------------------------------------------------------------
Next ==
  \/ PresenceChanges
  \/ \E fs \in SUBSET Fact : FactsChange(fs)
  \/ \E z \in Zone : EnterZone(z)
  \/ PublishReads \/ \E s \in Told : PublishSends(s)
  \/ CacheExpires \/ OpenPage \/ Poll \/ SocketConnects
  \/ \E l \in Load : \/ LoadReads(l) \/ LoadEnds(l)
                     \/ LoadFails(l) \/ ListTimesOut(l)
  \/ \E v \in Avatar : TakeList(v) \/ TakeAvatar(v)
  \/ PresenceOffline \/ PresenceOnline \/ StatusUpdate

(* The poll goes on; reads, calls, answers and events that are under way    *)
(* arrive; time passes.                                                     *)
Fairness ==
  /\ WF_vars(Poll) /\ WF_vars(CacheExpires)
  /\ WF_vars(PublishReads \/ \E s \in news : PublishSends(s))
  /\ WF_vars(PresenceOffline \/ PresenceOnline \/ StatusUpdate)
  /\ \A l \in Load : WF_vars(LoadReads(l) \/ LoadEnds(l))
  /\ WF_vars(\E v \in lists : TakeList(v)) /\ WF_vars(\E v \in fetched : TakeAvatar(v))

Spec == Init /\ [][Next]_vars /\ Fairness

----------------------------------------------------------------------------
TypeOK ==
  /\ online \in BOOLEAN /\ facts \subseteq Fact /\ zone \in Zone
  /\ changes \in 0..MostChanges
  /\ cache \in [live : BOOLEAN, value : Avatar]
  /\ loads \in [Load -> [pc : {"idle", "read", "end"}, value : Avatar]]
  /\ shared \in Load \union {0} /\ waits \subseteq Load /\ lists \subseteq Avatar
  /\ due \in 0..MostChanges /\ news \subseteq Told
  /\ wire \in Seq(Told \union {"gone", "here"}) /\ Len(wire) <= MostEvents
  /\ fetched \subseteq Avatar /\ page \in {"closed", "open"} /\ shown \in Avatar
  /\ drawn \in Status \union {"none", "hidden"}

Visible == IF drawn = "hidden" THEN "none" ELSE drawn

(* Whatever events are lost or late, whichever load answers whom and        *)
(* whatever the cache held, the scene comes to draw the user as the server  *)
(* has him: the poll repairs a missed delta.                                *)
AvatarsCatchUp ==
  <>[](Open => Visible = IF online THEN Figure(Entry) ELSE "none")

============================================================================
