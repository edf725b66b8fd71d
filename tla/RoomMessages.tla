---------------------------- MODULE RoomMessages ----------------------------
(***************************************************************************)
(* One guest's copy of a chat room (RoomMessages, createChatSocket), kept  *)
(* by the room's events (RealtimeGateway) and by polls of its latest page  *)
(* (ChatService), while the owner gives and takes access (RoomsService).   *)
(* Messages are numbered by their createdAt.                               *)
(***************************************************************************)
EXTENDS Integers

CONSTANTS
  MostRows,    \* bound: messages of the room
  PageSize,    \* messages of one page
  MostGrants,  \* bound: grants the owner makes
  Degraded     \* DEGRADED_THRESHOLD: the page says so after that many failed polls

VARIABLES
  rows,    \* messages of the room: 1..rows
  shown,   \* currentMessages
  socket,  \* closed, connected, asked (grant found), or joined to the room
  wire,    \* chat:message events on their way
  poll,    \* getChatRoom: the answer on its way
  own,     \* handleSendMessage: the message created, on its way back
  grants,  \* RoomAccessGrant: the rows that name the guest
  revoke,  \* revokeGrant: the row it has read
  fails    \* pollFailCount, counted up to the threshold

vars == <<rows, shown, socket, wire, poll, own, grants, revoke, fails>>

NoAnswer == [pc |-> "idle", page |-> {}]
NoMessage == 0
Grant == 1..MostGrants
None == 0

Init ==
  /\ rows = 0 /\ shown = {} /\ socket = "closed" /\ wire = {}
  /\ poll = [NoAnswer EXCEPT !.pc = "closed"]
  /\ own = NoMessage /\ fails = 0
  /\ grants = [g \in Grant |-> "none"] /\ revoke = None

(* Mutant: ordered by createdAt without desc. *)
OldestPage == {m \in 1..rows : m <= PageSize}

(* Mutant: messages counted from zero. *)
PageFromZero == {m \in 0..rows : m >= rows - PageSize}

(* getRoomPayload without a cursor: the newest messages. *)
LatestPage == {m \in 1..rows : m > rows - PageSize}

(* mergeMessages *)
Merge(existing, incoming) == existing \union incoming

----------------------------------------------------------------------------
(* createGrant: a new row, also beside one that still holds. *)
CreateGrant(g) ==
  /\ grants[g] = "none" /\ \A h \in Grant : h < g => grants[h] # "none"
  /\ grants' = [grants EXCEPT ![g] = "approved"]
  /\ UNCHANGED <<rows, shown, socket, wire, poll, own, revoke, fails>>

(* revokeGrant reads the row, and writes it by its id. *)
RevokeReads(g) ==
  /\ revoke = None /\ grants[g] \in {"approved", "expired"} /\ revoke' = g
  /\ UNCHANGED <<rows, shown, socket, wire, poll, own, grants, fails>>

RevokeWrites ==
  /\ revoke # None /\ revoke' = None
  /\ grants' = [grants EXCEPT ![revoke] = "revoked"]
  /\ UNCHANGED <<rows, shown, socket, wire, poll, own, fails>>

GrantExpires(g) ==
  /\ grants[g] = "approved"
  /\ grants' = [grants EXCEPT ![g] = "expired"]
  /\ UNCHANGED <<rows, shown, socket, wire, poll, own, revoke, fails>>

(* listAccessibleRooms *)
Accessible == \E g \in Grant : grants[g] = "approved"

(* resolveViewerRole, of every request for the room's messages *)
Admitted == \E g \in Grant : grants[g] = "approved"

----------------------------------------------------------------------------
(* The room's page: the first poll is made at once. *)
OpenRoom ==
  /\ poll.pc = "closed" /\ Accessible /\ poll' = NoAnswer
  /\ UNCHANGED <<rows, shown, socket, wire, own, grants, revoke, fails>>

(* createMessage by somebody else: the row, then broadcastNewMessage. *)
CreateMessage ==
  /\ rows < MostRows
  /\ rows' = rows + 1
  /\ wire' = IF socket = "joined" THEN wire \union {rows + 1} ELSE wire
  /\ UNCHANGED <<shown, socket, poll, own, grants, revoke, fails>>

(* handleSendMessage: one at a time, and not without access. *)
SendMessage ==
  /\ poll.pc # "closed" /\ own = NoMessage /\ Admitted /\ rows < MostRows
  /\ rows' = rows + 1 /\ own' = rows + 1
  /\ wire' = IF socket = "joined" THEN wire \union {rows + 1} ELSE wire
  /\ UNCHANGED <<shown, socket, poll, grants, revoke, fails>>

MessageSent ==
  /\ own # NoMessage
  /\ shown' = Merge(shown, {own}) /\ own' = NoMessage
  /\ UNCHANGED <<rows, socket, wire, poll, grants, revoke, fails>>

SocketConnects ==
  /\ poll.pc # "closed" /\ socket = "closed" /\ socket' = "connected"
  /\ UNCHANGED <<rows, shown, wire, poll, own, grants, revoke, fails>>

(* handleChatSubscribe looks the grant up, and joins after that. *)
ChatSubscribe ==
  /\ socket = "connected" /\ Admitted /\ socket' = "asked"
  /\ UNCHANGED <<rows, shown, wire, poll, own, grants, revoke, fails>>

ChatJoin ==
  /\ socket = "asked" /\ socket' = "joined"
  /\ UNCHANGED <<rows, shown, wire, poll, own, grants, revoke, fails>>

ChatMessage(m) ==
  /\ m \in wire /\ wire' = wire \ {m}
  /\ shown' = Merge(shown, {m})
  /\ UNCHANGED <<rows, socket, poll, own, grants, revoke, fails>>

(* What was on its way is lost, and so is what is posted until the socket   *)
(* is back in the room.                                                     *)
SocketCloses ==
  /\ socket # "closed" /\ socket' = "closed" /\ wire' = {}
  /\ UNCHANGED <<rows, shown, poll, own, grants, revoke, fails>>

----------------------------------------------------------------------------
PollRoom ==
  /\ poll.pc = "idle" /\ Admitted
  /\ poll' = [pc |-> "back", page |-> LatestPage]
  /\ UNCHANGED <<rows, shown, socket, wire, own, grants, revoke, fails>>

PollAnswer ==
  /\ poll.pc = "back"
  /\ shown' = Merge(shown, poll.page) /\ poll' = NoAnswer /\ fails' = 0
  /\ UNCHANGED <<rows, socket, wire, own, grants, revoke>>

(* 403 while no grant holds, or the API is down for a while. *)
PollFails ==
  /\ poll.pc \in {"idle", "back"}
  /\ poll' = NoAnswer /\ fails' = IF fails < Degraded THEN fails + 1 ELSE fails
  /\ UNCHANGED <<rows, shown, socket, wire, own, grants, revoke>>

Next ==
  \/ OpenRoom \/ CreateMessage \/ SendMessage \/ MessageSent
  \/ SocketConnects \/ ChatSubscribe \/ ChatJoin \/ SocketCloses
  \/ \E g \in Grant : CreateGrant(g) \/ RevokeReads(g) \/ GrantExpires(g)
  \/ RevokeWrites
  \/ \E m \in wire : ChatMessage(m)
  \/ PollRoom \/ PollAnswer \/ PollFails

(* The poll's timer goes on whatever becomes of the socket, and a request   *)
(* that is sent again and again is answered at last.                        *)
Fairness == WF_vars(PollRoom) /\ SF_vars(PollAnswer)

Spec == Init /\ [][Next]_vars /\ Fairness

----------------------------------------------------------------------------
TypeOK ==
  /\ rows \in 0..MostRows /\ shown \subseteq 1..rows /\ wire \subseteq 1..rows
  /\ socket \in {"closed", "connected", "asked", "joined"}
  /\ poll.pc \in {"closed", "idle", "back"} /\ fails \in 0..Degraded
  /\ revoke \in Grant \union {None}
  /\ grants \in [Grant -> {"none", "approved", "expired", "revoked"}]

(* A guest who has access in the end sees the newest page in the end, even  *)
(* if the socket never works; what left the page during an outage may be    *)
(* missing, since the client asks for no older page.                        *)
NewestPageShown ==
  <>[](\/ poll.pc = "closed" \/ ~Admitted
       \/ \A m \in 1..rows : m > rows - PageSize => m \in shown)

============================================================================
