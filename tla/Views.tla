-------------------------------- MODULE Views --------------------------------
(***************************************************************************)
(* What has to reach somebody in the end: the views of the browsers, the   *)
(* sockets behind them, the connector's status and a review's way to the   *)
(* teacher.  The components share neither rows nor memory, so a behaviour  *)
(* looks at one part at a time; the others keep their initial states, in   *)
(* which their fairness asks for nothing.  The parameters are those of the *)
(* components, where they are explained.                                   *)
(***************************************************************************)
EXTENDS ReviewPipeline

CONSTANTS
  Place, Home, Command, MostAgentRuns, MostPolls,
  Sock,
  MostRows, PageSize, MostGrants, Degraded,
  Cli, MostPairings, MostCopies,
  Tab, MostSessions, Ttl, WebTroubles,
  MostVersions, BannerCall,
  Fact, MostChanges, MostEvents

(* Bounds and settings are numbers, and the desk is a point of the floor.   *)
ASSUME ViewsAssumption ==
  /\ Home \in Place /\ Command \in Nat /\ MostAgentRuns \in Nat
  /\ MostRows \in Nat /\ MostGrants \in Nat /\ Degraded \in Nat
  /\ MostPairings \in Nat /\ MostCopies \in Nat
  /\ MostSessions \in Nat /\ Ttl \in Nat /\ WebTroubles \in Nat
  /\ MostVersions \in Nat /\ MostChanges \in Nat /\ MostEvents \in Nat

VARIABLES
  part,
  worldRow, worldLocked, worldRuns, worldQueue, worldMoving, worldReset,
  worldMoved, worldSent, worldNews, worldPoll, worldPolls, worldScene,
  worldBadge,
  socketsLink, socketsHello, socketsKnown, socketsPresence, socketsShown,
  socketsTimers, socketsSession,
  roomRows, roomShown, roomSocket, roomWire, roomPoll, roomOwn, roomGrants,
  roomRevoke, roomFails,
  connectorPairing, connectorMaking, connectorCard, connectorCli,
  connectorRow, connectorFresh, connectorContact, connectorWire,
  connectorProfile,
  webRow, webAge, webCookie, webSnapshot, webBanner, webSync, webLeave,
  webTroubles, webDue,
  bannerVersion, bannerCall, bannerSocket, bannerWire, bannerSeen,
  bannerView, bannerPolls,
  avatarsOnline, avatarsFacts, avatarsZone, avatarsChanges, avatarsCache,
  avatarsLoads, avatarsShared, avatarsWaits, avatarsLists, avatarsDue,
  avatarsNews, avatarsWire, avatarsFetched, avatarsPage, avatarsShown,
  avatarsDrawn

W == INSTANCE AgentWorld WITH
  MostRuns <- MostAgentRuns, row <- worldRow, locked <- worldLocked,
  runs <- worldRuns, queue <- worldQueue, moving <- worldMoving,
  reset <- worldReset, moved <- worldMoved, sent <- worldSent,
  news <- worldNews, poll <- worldPoll, polls <- worldPolls,
  scene <- worldScene, badge <- worldBadge

G == INSTANCE Gateway WITH
  link <- socketsLink, hello <- socketsHello, known <- socketsKnown,
  presence <- socketsPresence, shown <- socketsShown,
  timers <- socketsTimers, session <- socketsSession

M == INSTANCE RoomMessages WITH
  rows <- roomRows, shown <- roomShown, socket <- roomSocket,
  wire <- roomWire, poll <- roomPoll, own <- roomOwn, grants <- roomGrants,
  revoke <- roomRevoke, fails <- roomFails

K == INSTANCE ConnectorRegistry WITH
  pairing <- connectorPairing, making <- connectorMaking,
  card <- connectorCard, cli <- connectorCli, row <- connectorRow,
  fresh <- connectorFresh, contact <- connectorContact,
  wire <- connectorWire, profile <- connectorProfile

V == INSTANCE Sessions WITH
  MostTroubles <- WebTroubles, row <- webRow, age <- webAge,
  cookie <- webCookie, snapshot <- webSnapshot, banner <- webBanner,
  sync <- webSync, leave <- webLeave, troubles <- webTroubles,
  due <- webDue

B == INSTANCE ClassroomView WITH
  Call <- BannerCall, version <- bannerVersion, call <- bannerCall,
  socket <- bannerSocket, wire <- bannerWire, seen <- bannerSeen,
  view <- bannerView, polls <- bannerPolls

A == INSTANCE AvatarView WITH
  online <- avatarsOnline, facts <- avatarsFacts, zone <- avatarsZone,
  changes <- avatarsChanges, cache <- avatarsCache, loads <- avatarsLoads,
  shared <- avatarsShared, waits <- avatarsWaits, lists <- avatarsLists,
  due <- avatarsDue, news <- avatarsNews, wire <- avatarsWire,
  fetched <- avatarsFetched, page <- avatarsPage, shown <- avatarsShown,
  drawn <- avatarsDrawn

worldVars == <<worldRow, worldLocked, worldRuns, worldQueue, worldMoving,
               worldReset, worldMoved, worldSent, worldNews, worldPoll,
               worldPolls, worldScene, worldBadge>>

socketsVars == <<socketsLink, socketsHello, socketsKnown, socketsPresence,
                 socketsShown, socketsTimers, socketsSession>>

roomVars == <<roomRows, roomShown, roomSocket, roomWire, roomPoll, roomOwn,
              roomGrants, roomRevoke, roomFails>>

connectorVars == <<connectorPairing, connectorMaking, connectorCard,
                   connectorCli, connectorRow, connectorFresh,
                   connectorContact, connectorWire, connectorProfile>>

webVars == <<webRow, webAge, webCookie, webSnapshot, webBanner, webSync,
             webLeave, webTroubles, webDue>>

bannerVars == <<bannerVersion, bannerCall, bannerSocket, bannerWire,
                bannerSeen, bannerView, bannerPolls>>

avatarsVars == <<avatarsOnline, avatarsFacts, avatarsZone, avatarsChanges,
                 avatarsCache, avatarsLoads, avatarsShared, avatarsWaits,
                 avatarsLists, avatarsDue, avatarsNews, avatarsWire,
                 avatarsFetched, avatarsPage, avatarsShown, avatarsDrawn>>

viewsVars ==
  <<part, vars, worldVars, socketsVars, roomVars, connectorVars, webVars,
  bannerVars, avatarsVars>>

Part ==
  {"review", "world", "sockets", "room", "connector", "sessions", "banner",
  "avatars"}

ViewsInit ==
  /\ part \in Part
  /\ Init
  /\ W!Init /\ G!Init /\ M!Init /\ K!Init /\ V!Init /\ B!Init /\ A!Init

ViewsNext ==
  /\ UNCHANGED part
  /\ IF part = "review" THEN Next ELSE UNCHANGED vars
  /\ IF part = "world" THEN W!Next ELSE UNCHANGED worldVars
  /\ IF part = "sockets" THEN G!Next ELSE UNCHANGED socketsVars
  /\ IF part = "room" THEN M!Next ELSE UNCHANGED roomVars
  /\ IF part = "connector" THEN K!Next ELSE UNCHANGED connectorVars
  /\ IF part = "sessions" THEN V!Next ELSE UNCHANGED webVars
  /\ IF part = "banner" THEN B!Next ELSE UNCHANGED bannerVars
  /\ IF part = "avatars" THEN A!Next ELSE UNCHANGED avatarsVars

ViewsSpec ==
  /\ ViewsInit /\ [][ViewsNext]_viewsVars
  /\ Fairness
  /\ W!Fairness /\ G!Fairness /\ M!Fairness /\ K!Fairness /\ B!Fairness
  /\ A!Fairness /\ V!Fairness

----------------------------------------------------------------------------
(* Type correctness, like the invariants below, is asked of the part that   *)
(* moves: the others rest in the initial state it started in as well.       *)
ViewsTypeOK ==
  /\ part \in Part
  /\ part = "review" => TypeOK
  /\ part = "world" => W!TypeOK
  /\ part = "sockets" => G!TypeOK
  /\ part = "room" => M!TypeOK
  /\ part = "connector" => K!TypeOK
  /\ part = "banner" => B!TypeOK
  /\ part = "avatars" => A!TypeOK
  /\ part = "sessions" => V!TypeOK

(* Clicks whose handlers overlap are numbered in the order they came in     *)
(* (movementQueues), so a browser that keeps the newest keeps the last click.*)
NewestCommandWins == part = "world" => W!NewestCommandWins

(* Whatever movement events were lost or late, the browser ends with the    *)
(* avatar where the server has it.                                          *)
BrowserCatchesUp == W!BrowserCatchesUp

(* PresenceService shows the lobby a user online while one authenticated    *)
(* tab is connected, in whatever order tabs come and go.                    *)
TabKeepsOnline == part = "sockets" => G!TabKeepsOnline

(* A session that expires or is logged out ends every socket opened with    *)
(* it, also one whose handshake it overtakes.                               *)
ExpiredSocketCloses == G!ExpiredSocketCloses

(* A guest who has access in the end sees the chat's newest page in the     *)
(* end, even if the socket never works.                                     *)
NewestPageShown == M!NewestPageShown

(* When no connector command runs any more the panel comes to show the      *)
(* agent offline for good, whatever was lost or overtaken on the way.       *)
EndedShowsOffline == K!EndedShowsOffline

(* Whatever broadcasts are lost, missed before the join or overtaken, an    *)
(* open banner ends with the stage the lesson is in.                        *)
ViewCatchesUp == B!ViewCatchesUp

(* Whatever presence and status events are lost or late, whichever load of  *)
(* the avatars answers whom and whatever the cache held, the scene comes to *)
(* draw a user as the server has him: the poll repairs a missed delta.      *)
AvatarsCatchUp == A!AvatarsCatchUp

(* A tab whose page is loaded when its session is over comes to say so and  *)
(* goes on, unless its request is lost or crosses another deletion of the   *)
(* row.  A tab left open asks no more and says nothing.                     *)
EndedSessionIsShown == V!EndedSessionIsShown

=============================================================================
