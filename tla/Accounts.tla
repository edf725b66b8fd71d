------------------------------ MODULE Accounts ------------------------------
(***************************************************************************)
(* Registration and login (AuthService, the login page and the proxy       *)
(* routes between them).  A password is as good as the person who chose    *)
(* it: a row remembers whose hash it holds.                                *)
(***************************************************************************)
EXTENDS Integers, FiniteSets

CONSTANTS
  Person,
  Email,    \* normalised: trimmed, in lower case
  Request,  \* requests to register or to log in
  Nobody

VARIABLES
  user,       \* whose password the User row of each address holds
  homestead,  \* addresses whose user has a homestead with its chat room
  session,    \* UserSession rows: the user's address and who has the token
  request,
  page        \* what the login page has told each person last

vars == <<user, homestead, session, request, page>>

Idle == [step |-> "idle", of |-> Nobody, email |-> Nobody]

TypeOK ==
  /\ user \in [Email -> Person \union {Nobody}]
  /\ homestead \subseteq Email
  /\ session \subseteq [email : Email, by : Person]
  /\ request \in
       [Request -> [step : {"idle", "hash", "session", "over"},
                    of : Person \union {Nobody}, email : Email \union {Nobody}]]
  /\ page \in
       [Person -> {"form", "network", "code", "taken", "credentials", "in"}]

Init ==
  /\ user = [e \in Email |-> Nobody]
  /\ homestead = {} /\ session = {}
  /\ request = [r \in Request |-> Idle]
  /\ page = [p \in Person |-> "form"]

----------------------------------------------------------------------------
(* The mutant: the row is written without asking for a unique address.      *)
Unchecked(e) == TRUE

(* User.email is unique: the insert of a second row fails (P2002).          *)
Unique(e) == user[e] = Nobody

(* What the page makes of the answer (handleSubmit).                        *)
Told(p, answer) == page' = [page EXCEPT ![p] = answer]

At(r, step) == request' = [request EXCEPT ![r].step = step]

Refused(r, answer) ==
  At(r, "over") /\ Told(request[r].of, answer) /\ UNCHANGED <<user, homestead, session>>

(* register: the code, the name and an address not seen before, or an error.*)
Register(r, p, e, code) ==
  LET answer ==
        IF ~code THEN "code" ELSE IF user[e] # Nobody THEN "taken" ELSE "form"
  IN
  /\ request[r] = Idle
  /\ request' = [request EXCEPT ![r] =
       [step |-> IF answer = "form" THEN "hash" ELSE "over",
        of |-> p, email |-> e]]
  /\ Told(p, answer)
  /\ UNCHANGED <<user, homestead, session>>

(* After the hash, one transaction: user, homestead and chat room, or none. *)
CreateUser(r) ==
  LET e == request[r].email IN
  /\ request[r].step = "hash"
  /\ IF Unique(e)
     THEN /\ user' = [user EXCEPT ![e] = request[r].of]
          /\ homestead' = homestead \union {e}
          /\ At(r, "session") /\ UNCHANGED <<session, page>>
     ELSE Refused(r, "taken")

(* login: the row's hash is the hash of this person's password.             *)
Login(r, p, e) ==
  /\ request[r] = Idle
  /\ request' = [request EXCEPT ![r] =
       [step |-> IF user[e] = p THEN "session" ELSE "over",
        of |-> p, email |-> e]]
  /\ Told(p, IF user[e] = p THEN "form" ELSE "credentials")
  /\ UNCHANGED <<user, homestead, session>>

(* createSession, after the transaction of register has committed.          *)
CreateSession(r) ==
  LET q == request[r] IN
  /\ q.step = "session"
  /\ session' = session \union {[email |-> q.email, by |-> q.of]}
  /\ At(r, "over") /\ Told(q.of, "in")
  /\ UNCHANGED <<user, homestead>>

(* The API ends or the proxy gives up between two statements.               *)
Lost(r) == request[r].step \in {"hash", "session"} /\ Refused(r, "network")

Next ==
  \E r \in Request :
    \/ CreateUser(r) \/ CreateSession(r) \/ Lost(r)
    \/ \E p \in Person, e \in Email :
         \/ Login(r, p, e)
         \/ \E code \in BOOLEAN : Register(r, p, e, code)

Spec == Init /\ [][Next]_vars

----------------------------------------------------------------------------
(* Of the people who register one address at once one gets the account, no  *)
(* other a session for it, and its password never changes hands; and every  *)
(* account has its homestead and its room, also if the request that founded *)
(* it was lost before it had a session (register).                          *)
AccountHasOneOwner ==
  /\ \A s \in session : user[s.email] = s.by
  /\ \A r \in Request :
       request[r].step = "session" => user[request[r].email] = request[r].of
  /\ \A e \in Email : e \in homestead <=> user[e] # Nobody
=============================================================================
