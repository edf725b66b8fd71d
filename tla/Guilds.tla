------------------------------- MODULE Guilds -------------------------------
(***************************************************************************)
(* Guilds, their invitations and their members (GuildsService).  Under     *)
(* READ COMMITTED a transaction that reads and then writes by id is two    *)
(* steps; what it writes is committed as one.                              *)
(***************************************************************************)
EXTENDS Integers, FiniteSets

CONSTANTS
  Student,
  MostGuilds,  \* bound: guilds founded
  Call,        \* requests in flight
  Nobody

Guild == 1..MostGuilds
None == 0

VARIABLES
  owner,   \* Guild.ownerId
  member,  \* GuildMembership.status of each guild and student
  call     \* the requests, after what they have read

vars == <<owner, member, call>>

MembershipStatus == {"none", "invited", "active", "declined", "removed"}

Free == [kind |-> "free", guild |-> None, of |-> Nobody, found |-> FALSE]

Init ==
  /\ owner = [g \in Guild |-> Nobody]
  /\ member = [g \in Guild |-> [s \in Student |-> "none"]]
  /\ call = [c \in Call |-> Free]

----------------------------------------------------------------------------
Active(s) == {g \in Guild : member[g][s] = "active"}

(* assertLeader: the owner's own row is the leader's. *)
IsLeader(g, s) == owner[g] = s /\ member[g][s] = "active"

(* Mutant: the database does without the partial index. *)
NoIndex(g, s) == TRUE

(* GuildMembership_one_active_guild_per_student_key *)
IndexAllows(g, s) == Active(s) \subseteq {g}

Read(c, r) == call[c] = Free /\ call' = [call EXCEPT ![c] = r] /\ UNCHANGED <<owner, member>>
Done(c) == call' = [call EXCEPT ![c] = Free]

(* A call whose write meets a unique key fails with a conflict. *)
Conflict(c) == Done(c) /\ UNCHANGED <<owner, member>>

----------------------------------------------------------------------------
(* create: a student without an active guild founds one and leads it. *)
CreateReads(c, s) ==
  /\ Active(s) = {}
  /\ Read(c, [Free EXCEPT !.kind = "create", !.of = s])

CreateWrites(c, g) ==
  LET s == call[c].of IN
  /\ call[c].kind = "create"
  /\ owner[g] = Nobody /\ \A h \in Guild : h < g => owner[h] # Nobody
  /\ IF IndexAllows(g, s)
     THEN /\ owner' = [owner EXCEPT ![g] = s]
          /\ member' = [member EXCEPT ![g][s] = "active"]
          /\ Done(c)
     ELSE Conflict(c)

(* invite: by the leader, of another student without an active guild. *)
InviteReads(c, g, s) ==
  /\ owner[g] # Nobody /\ IsLeader(g, owner[g]) /\ s # owner[g]
  /\ Active(s) = {} /\ member[g][s] \notin {"invited", "active"}
  /\ Read(c, [Free EXCEPT !.kind = "invite", !.guild = g, !.of = s,
                          !.found = member[g][s] # "none"])

(* A row that was found is updated by its id, whatever it has become; a new *)
(* one meets the key of guild and student.                                  *)
InviteWrites(c) ==
  LET g == call[c].guild
      s == call[c].of
  IN
  /\ call[c].kind = "invite"
  /\ IF call[c].found \/ member[g][s] = "none"
     THEN member' = [member EXCEPT ![g][s] = "invited"] /\ Done(c) /\ UNCHANGED owner
     ELSE Conflict(c)

(* acceptInvitation and declineInvitation, by the invitee. *)
AcceptReads(c, g, s) ==
  /\ member[g][s] = "invited" /\ Active(s) = {}
  /\ Read(c, [Free EXCEPT !.kind = "accept", !.guild = g, !.of = s])

(* The student's other open invitations are declined with it. *)
AcceptWrites(c) ==
  LET g == call[c].guild
      s == call[c].of
      answered == [h \in Guild |-> IF member[h][s] = "invited" THEN "declined" ELSE member[h][s]]
  IN
  /\ call[c].kind = "accept"
  /\ IF IndexAllows(g, s)
     THEN /\ member' = [h \in Guild |-> [member[h] EXCEPT ![s] =
                                           IF h = g THEN "active" ELSE answered[h]]]
          /\ Done(c) /\ UNCHANGED owner
     ELSE Conflict(c)

DeclineReads(c, g, s) ==
  /\ member[g][s] = "invited"
  /\ Read(c, [Free EXCEPT !.kind = "decline", !.guild = g, !.of = s])

DeclineWrites(c) ==
  /\ call[c].kind = "decline"
  /\ member' = [member EXCEPT ![call[c].guild][call[c].of] = "declined"]
  /\ Done(c) /\ UNCHANGED owner

(* removeMember: by the leader, of a member who is not the leader. *)
RemoveReads(c, g, s) ==
  /\ owner[g] # Nobody /\ IsLeader(g, owner[g]) /\ s # owner[g]
  /\ member[g][s] = "active"
  /\ Read(c, [Free EXCEPT !.kind = "remove", !.guild = g, !.of = s])

RemoveWrites(c) ==
  /\ call[c].kind = "remove"
  /\ member' = [member EXCEPT ![call[c].guild][call[c].of] = "removed"]
  /\ Done(c) /\ UNCHANGED owner

----------------------------------------------------------------------------
Next ==
  \E c \in Call :
    \/ \E s \in Student : CreateReads(c, s)
    \/ \E g \in Guild : CreateWrites(c, g)
    \/ \E g \in Guild, s \in Student :
         InviteReads(c, g, s) \/ AcceptReads(c, g, s) \/ DeclineReads(c, g, s) \/ RemoveReads(c, g, s)
    \/ InviteWrites(c) \/ AcceptWrites(c) \/ DeclineWrites(c) \/ RemoveWrites(c)

Spec == Init /\ [][Next]_vars

----------------------------------------------------------------------------
TypeOK ==
  /\ owner \in [Guild -> Student \union {Nobody}]
  /\ member \in [Guild -> [Student -> MembershipStatus]]
  /\ \A c \in Call : call[c].kind \in {"free", "create", "invite", "accept", "decline", "remove"}

(* A student is an active member of one guild at most and every guild keeps *)
(* its leader, however founding, inviting, accepting and removing overlap.  *)
OneGuildWithALeader ==
  /\ \A s \in Student : Cardinality(Active(s)) <= 1
  /\ \A g \in Guild : owner[g] # Nobody => member[g][owner[g]] = "active"

============================================================================
