------------------------------ MODULE Gateway ------------------------------
(***************************************************************************)
(* The WebSocket gateway (RealtimeGateway, PresenceService): the sockets   *)
(* of one user, from the handshake to their end.  handleConnection awaits  *)
(* the database and the joins, and the socket may go away at every await.  *)
(***************************************************************************)
EXTENDS Integers, FiniteSets

CONSTANT Sock  \* sockets the user's browser tabs open

VARIABLES
  link,      \* the transport: never opened, up, or gone
  hello,     \* where handleConnection is
  known,     \* sockets with client.data.userId
  presence,  \* socketIdsByUser of the user
  shown,     \* what the lobby was last told of the user
  timers,    \* sessionTimers
  session    \* the user's session: valid, or expired or logged out

vars == <<link, hello, known, presence, shown, timers, session>>

Init ==
  /\ link = [s \in Sock |-> "never"] /\ hello = [s \in Sock |-> "none"]
  /\ known = {} /\ presence = {} /\ timers = {}
  /\ shown = "offline" /\ session = "valid"

----------------------------------------------------------------------------
(* Mutant: every socket that closes takes the user offline. *)
AnySocket(s) == s \in presence

(* PresenceService.disconnect: the last socket of the user. *)
LastSocket(s) == presence \subseteq {s}

(* The transport closes and handleDisconnect runs; a closed socket cannot   *)
(* close again.                                                             *)
Close(s) ==
  /\ link' = [link EXCEPT ![s] = "gone"]
  /\ timers' = timers \ {s}
  /\ presence' = IF s \in known THEN presence \ {s} ELSE presence
  /\ shown' = IF s \in known /\ presence # {} /\ LastSocket(s) THEN "offline" ELSE shown

Connect(s) ==
  /\ link[s] = "never"
  /\ link' = [link EXCEPT ![s] = "up"]
  /\ hello' = [hello EXCEPT ![s] = "auth"]
  /\ UNCHANGED <<known, presence, shown, timers, session>>

(* The session row has been read: no session, or an expired one. *)
RefuseSession(s) ==
  /\ hello[s] = "auth" /\ session = "over"
  /\ hello' = [hello EXCEPT ![s] = "done"]
  /\ IF link[s] = "up" THEN Close(s) ELSE UNCHANGED <<link, timers, presence, shown>>
  /\ UNCHANGED <<known, session>>

(* PresenceService.connect, and the broadcast of a user who was offline. *)
AcceptSession(s) ==
  /\ hello[s] = "auth" /\ session = "valid"
  /\ hello' = [hello EXCEPT ![s] = "join"]
  /\ known' = known \union {s}
  /\ presence' = presence \union {s}
  /\ shown' = IF presence = {} THEN "online" ELSE shown
  /\ UNCHANGED <<link, timers, session>>

(* Mutant: the timer of the user's other socket is enough. *)
OneTimer(s) == IF timers = {} THEN {s} ELSE timers

Timers(s) == timers \union {s}

(* The joins are over: the session check of the socket is started. *)
Joined(s) ==
  /\ hello[s] = "join"
  /\ hello' = [hello EXCEPT ![s] = "done"]
  /\ timers' = Timers(s)
  /\ UNCHANGED <<link, known, presence, shown, session>>

(* The tab is closed, or the network is. *)
Disconnect(s) ==
  /\ link[s] = "up" /\ Close(s)
  /\ UNCHANGED <<hello, known, session>>

EndSession ==
  /\ session = "valid" /\ session' = "over"
  /\ UNCHANGED <<link, hello, known, presence, shown, timers>>

(* The interval of a socket finds the session over, or the query fails.  A  *)
(* timer that was set after its socket closed goes on and does nothing.     *)
CheckSession(s) ==
  /\ s \in timers /\ link[s] = "up"
  /\ session = "over"
  /\ Close(s)
  /\ UNCHANGED <<hello, known, session>>

CheckFails(s) ==
  /\ s \in timers /\ link[s] = "up"
  /\ Close(s)
  /\ UNCHANGED <<hello, known, session>>

----------------------------------------------------------------------------
Next ==
  \/ EndSession
  \/ \E s \in Sock :
       \/ Connect(s) \/ RefuseSession(s) \/ AcceptSession(s) \/ Joined(s) \/ Disconnect(s)
       \/ CheckSession(s) \/ CheckFails(s)

(* Queries are answered and intervals come round. *)
Fairness ==
  \A s \in Sock :
    /\ WF_vars(RefuseSession(s) \/ AcceptSession(s)) /\ WF_vars(Joined(s))
    /\ WF_vars(CheckSession(s))

Spec == Init /\ [][Next]_vars /\ Fairness

----------------------------------------------------------------------------
TypeOK ==
  /\ link \in [Sock -> {"never", "up", "gone"}]
  /\ hello \in [Sock -> {"none", "auth", "join", "done"}]
  /\ known \subseteq Sock /\ presence \subseteq Sock /\ timers \subseteq Sock
  /\ shown \in {"online", "offline"} /\ session \in {"valid", "over"}

(* While one authenticated tab of the user is connected the lobby shows the *)
(* user online, in whatever order the other tabs come and go.               *)
TabKeepsOnline ==
  (\E s \in known : link[s] = "up") => shown = "online"

(* A session that has expired or was logged out ends every socket that was  *)
(* opened with it, also one whose handshake it overtakes.                   *)
ExpiredSocketCloses ==
  <>[](session = "over" => \A s \in Sock : link[s] # "up")

============================================================================
