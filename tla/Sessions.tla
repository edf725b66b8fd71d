------------------------------ MODULE Sessions ------------------------------
(***************************************************************************)
(* One browser and its sessions: the UserSession rows with their end       *)
(* (AuthService), the cookie and the snapshot of the identity that all     *)
(* tabs share (session.ts), and in each tab the banner that compares the   *)
(* snapshot with the server (session-banner.tsx).  This is the production  *)
(* build, whose cookie no script can read or remove.                       *)
(***************************************************************************)
EXTENDS Integers, FiniteSets

CONSTANTS
  Tab,
  MostSessions,  \* bound: logins
  Ttl,           \* SESSION_TTL_MS, in ticks of the clock
  MostTroubles   \* bound: requests the network loses

Token == 1..MostSessions
None == 0

VARIABLES
  row,       \* UserSession of each token: "unused", "there", "gone"
  age,       \* time since the token was issued
  cookie,    \* what the cookie holds
  snapshot,  \* whose login the stored identity is of
  banner,    \* in each tab: what it shows
  sync,      \* in each tab: syncSession's request
  leave,     \* in each tab: a click on the way out
  troubles,
  due        \* history: the page has asked for a session that was over, and
             \* its request has not failed for another reason

vars == <<row, age, cookie, snapshot, banner, sync, leave, troubles, due>>

Answers == {"ok", "401", "500", "lost"}
Quiet == [step |-> "idle", token |-> None]

TypeOK ==
  /\ row \in [Token -> {"unused", "there", "gone"}]
  /\ age \in [Token -> 0..Ttl]
  /\ cookie \in Token \union {None} /\ snapshot \in Token \union {None}
  /\ banner \in [Tab -> {"closed", "login", "guest", "loaded", "network"}]
  /\ sync \in
       [Tab -> [step : {"idle", "asked", "deleting", "clear", "cleared",
                            "unreached"} \union Answers,
                token : Token \union {None}]]
  /\ leave \in [Tab -> {"idle", "asked", "answered", "lost"}]
  /\ troubles \in 0..MostTroubles /\ due \in [Tab -> BOOLEAN]

(* Nobody is logged in and every tab is on the login page. *)
Init ==
  /\ row = [t \in Token |-> "unused"]
  /\ age = [t \in Token |-> 0]
  /\ cookie = None /\ snapshot = None
  /\ banner = [b \in Tab |-> "login"]
  /\ sync = [b \in Tab |-> Quiet]
  /\ leave = [b \in Tab |-> "idle"]
  /\ troubles = 0 /\ due = [b \in Tab |-> FALSE]

----------------------------------------------------------------------------
There(t) == t # None /\ row[t] = "there"
Expired(t) == age[t] = Ttl
Over(t) == ~There(t) \/ Expired(t)

Delete(t) == row' = IF There(t) THEN [row EXCEPT ![t] = "gone"] ELSE row

Step(b, step) == sync' = [sync EXCEPT ![b].step = step]
Show(b, what) == banner' = [banner EXCEPT ![b] = what]

(* The mutant and the code: which failures say that the session is over.    *)
OnlyForbidden(answer) == answer = "403"

AuthError(answer) == answer \in {"401", "403"}

----------------------------------------------------------------------------
(* A page is opened or loaded again: the middleware sends a browser without *)
(* a cookie to the login page; else the banner mounts.  What an earlier     *)
(* page of the tab still had under way has ended.                           *)
Open(b) ==
  /\ sync[b] = Quiet /\ leave[b] = "idle"
  /\ Show(b, CASE cookie = None -> "login"
               [] cookie # None /\ snapshot = None -> "guest"
               [] OTHER -> "loaded")
  /\ sync' = [sync EXCEPT ![b] =
       IF cookie # None /\ snapshot # None
       THEN [step |-> "asked", token |-> cookie] ELSE Quiet]
  /\ due' = [due EXCEPT ![b] = snapshot # None /\ cookie # None /\ Over(cookie)]
  /\ UNCHANGED <<row, age, cookie, snapshot, leave, troubles>>

(* The login page: a new row, its token in the cookie, the identity stored. *)
Login(b, t) ==
  /\ banner[b] = "login" /\ row[t] = "unused"
  /\ \A s \in Token : s < t => row[s] # "unused"
  /\ row' = [row EXCEPT ![t] = "there"]
  /\ cookie' = t /\ snapshot' = t
  /\ Show(b, "closed") /\ due' = [due EXCEPT ![b] = FALSE]
  /\ UNCHANGED <<age, sync, leave, troubles>>

(* getSession: the row is looked up; one that has expired is deleted by its *)
(* id, which fails if somebody else has deleted it meanwhile.               *)
GetSession(b) ==
  LET t == sync[b].token IN
  /\ sync[b].step = "asked"
  /\ Step(b, CASE ~There(t) -> "401" [] There(t) /\ ~Expired(t) -> "ok"
               [] OTHER -> "deleting")
  /\ UNCHANGED <<row, age, cookie, snapshot, banner, leave, troubles, due>>

DeleteExpired(b) ==
  LET t == sync[b].token IN
  /\ sync[b].step = "deleting"
  /\ Step(b, IF There(t) THEN "401" ELSE "500")
  /\ Delete(t) /\ due' = [due EXCEPT ![b] = @ /\ There(t)]
  /\ UNCHANGED <<age, cookie, snapshot, banner, leave, troubles>>

LoseAnswer(b) ==
  /\ sync[b].step = "asked" /\ troubles < MostTroubles
  /\ Step(b, "lost") /\ troubles' = troubles + 1
  /\ due' = [due EXCEPT ![b] = FALSE]
  /\ UNCHANGED <<row, age, cookie, snapshot, banner, leave>>

(* syncSession goes on: the confirmed identity is stored again, a session   *)
(* that is over is taken down, and any other failure keeps what is shown.   *)
SaveSession(b) ==
  /\ sync[b].step = "ok"
  /\ snapshot' = sync[b].token
  /\ Show(b, "loaded") /\ sync' = [sync EXCEPT ![b] = Quiet]
  /\ UNCHANGED <<row, age, cookie, leave, troubles, due>>

SessionOver(b) ==
  /\ sync[b].step \in Answers /\ AuthError(sync[b].step)
  /\ Step(b, "clear")
  /\ UNCHANGED <<row, age, cookie, snapshot, banner, leave, troubles, due>>

NetworkError(b) ==
  /\ sync[b].step \in Answers \ {"ok"} /\ ~AuthError(sync[b].step)
  /\ Show(b, "network") /\ sync' = [sync EXCEPT ![b] = Quiet]
  /\ UNCHANGED <<row, age, cookie, snapshot, leave, troubles, due>>

(* The logout route ends whatever session the cookie holds when it is asked *)
(* and its answer removes whatever cookie there is when it arrives.         *)
ClearAsks(b) ==
  /\ sync[b].step = "clear"
  /\ Step(b, "cleared") /\ Delete(cookie)
  /\ UNCHANGED <<age, cookie, snapshot, banner, leave, troubles, due>>

ClearLost(b) ==
  /\ sync[b].step = "clear" /\ troubles < MostTroubles
  /\ Step(b, "unreached") /\ troubles' = troubles + 1
  /\ UNCHANGED <<row, age, cookie, snapshot, banner, leave, due>>

(* No script can remove the cookie itself (clearSession).                   *)
ClearSession(b) ==
  /\ sync[b].step \in {"cleared", "unreached"}
  /\ cookie' = IF sync[b].step = "cleared" THEN None ELSE cookie
  /\ snapshot' = None
  /\ Show(b, "guest") /\ sync' = [sync EXCEPT ![b] = Quiet]
  /\ UNCHANGED <<row, age, leave, troubles, due>>

LogoutAsks(b) ==
  /\ banner[b] \in {"loaded", "network"} /\ leave[b] = "idle"
  /\ leave' = [leave EXCEPT ![b] = "asked"]
  /\ UNCHANGED <<row, age, cookie, snapshot, banner, sync, troubles, due>>

LogoutEnds(b) ==
  /\ leave[b] = "asked"
  /\ leave' = [leave EXCEPT ![b] = "answered"] /\ Delete(cookie)
  /\ UNCHANGED <<age, cookie, snapshot, banner, sync, troubles, due>>

LogoutLost(b) ==
  /\ leave[b] = "asked" /\ troubles < MostTroubles
  /\ leave' = [leave EXCEPT ![b] = "lost"] /\ troubles' = troubles + 1
  /\ UNCHANGED <<row, age, cookie, snapshot, banner, sync, due>>

Logout(b) ==
  /\ leave[b] \in {"answered", "lost"}
  /\ cookie' = IF leave[b] = "answered" THEN None ELSE cookie
  /\ snapshot' = None
  /\ leave' = [leave EXCEPT ![b] = "idle"] /\ Show(b, "login")
  /\ UNCHANGED <<row, age, sync, troubles, due>>

----------------------------------------------------------------------------
Tick ==
  /\ \E t \in Token : row[t] # "unused" /\ ~Expired(t)
  /\ age' = [t \in Token |->
       IF row[t] = "unused" \/ Expired(t) THEN age[t] ELSE age[t] + 1]
  /\ UNCHANGED <<row, cookie, snapshot, banner, sync, leave, troubles, due>>

(* cleanupExpiredSessions, at the start of the API and every hour.          *)
CleanUp ==
  /\ \E t \in Token : There(t) /\ Expired(t)
  /\ row' = [t \in Token |->
               IF There(t) /\ Expired(t) THEN "gone" ELSE row[t]]
  /\ UNCHANGED <<age, cookie, snapshot, banner, sync, leave, troubles, due>>

(* The cookie has the same length of life; the browser drops it then.       *)
CookieEnds ==
  /\ cookie # None /\ Expired(cookie) /\ cookie' = None
  /\ UNCHANGED <<row, age, snapshot, banner, sync, leave, troubles, due>>

Works(b) ==
  \/ GetSession(b) \/ DeleteExpired(b) \/ SaveSession(b) \/ SessionOver(b)
  \/ NetworkError(b) \/ ClearAsks(b) \/ ClearSession(b)
  \/ LogoutEnds(b) \/ Logout(b)

Next ==
  \/ Tick \/ CleanUp \/ CookieEnds
  \/ \E b \in Tab :
       \/ Open(b) \/ Works(b) \/ LogoutAsks(b)
       \/ LoseAnswer(b) \/ ClearLost(b) \/ LogoutLost(b)
       \/ \E t \in Token : Login(b, t)

(* Time passes, requests and their handlers go on.  Nobody has to load a    *)
(* page again.                                                              *)
Fairness == WF_vars(Tick) /\ \A b \in Tab : WF_vars(Works(b))

Spec == Init /\ [][Next]_vars /\ Fairness

----------------------------------------------------------------------------
(* A tab whose page was loaded when its session was over comes to say so and*)
(* goes on saying so, without a further load, unless its request was lost or*)
(* another deleted the row between its two statements: no late answer and no*)
(* clearing that another tab's answer undoes leaves it under the name of    *)
(* somebody who is not logged in.                                           *)
(*                                                                          *)
(* It is the load of a page that tells.  The banner asks when it is mounted *)
(* and not again, and a tab left open goes on showing the name; so does one *)
(* whose request was lost, with the note that there is no network.          *)
EndedSessionIsShown ==
  <>[](\A b \in Tab : due[b] => banner[b] \in {"guest", "login"})
=============================================================================
