---------------------------- MODULE CourseProofs ----------------------------
(***************************************************************************)
(* Proofs about what several people change at once: help requests, guilds, *)
(* draws, accounts, the stages of a lesson and what is remembered of       *)
(* reflections, for any number of people, rows, stages and requests; and   *)
(* that every part of a course keeps its types.                            *)
(***************************************************************************)
EXTENDS ProgramProofs, PanelProofs, RouteProofs

----------------------------------------------------------------------------
(* Help requests.  The version is what the compare-and-set relies on.       *)

HelpRequest == [pc : {"idle", "write", "support", "grant"},
                op : {"none", "claim", "resolve", "cancel"},
                by : H!Person \union {H!NoOne}, on : Help \union {"none"}, version : 0..2]

HelpShape ==
  /\ helpHelp \in [Help -> H!HelpRow] /\ helpTook \in [Help -> SUBSET H!Person]
  /\ helpGrant \in [Help -> {"none", "approved", "over"}]
  /\ helpCall \in [Client -> HelpRequest]
  /\ \A c \in Client : helpCall[c].pc # "idle" => helpCall[c].on \in Help /\ helpCall[c].by \in H!Person

(* Every change of the status moves the version on. *)
VersionTellsStatus ==
  \A h \in Help :
    /\ helpHelp[h].status \in {"none", "open"} <=> helpHelp[h].version = 0
    /\ helpHelp[h].status \in {"claimed", "cancelled"} <=> helpHelp[h].version = 1

(* What a request has read is still so if the version is. *)
ReadIsKept ==
  \A c \in Client :
    /\ helpCall[c].pc = "write" => helpHelp[helpCall[c].on].status # "none"
    /\ helpCall[c].pc = "write" /\ helpCall[c].op \in {"claim", "cancel"} => helpCall[c].version = 0
    /\ helpCall[c].pc = "write" /\ helpCall[c].op = "resolve" =>
         helpCall[c].version = 1 /\ helpTook[helpCall[c].on] # {}
    /\ helpCall[c].pc \in {"support", "grant"} => helpTook[helpCall[c].on] # {}

HelpInv == HelpShape /\ VersionTellsStatus /\ ReadIsKept /\ H!HelpHasOneOwner

LEMMA HelpInit == H!Init => HelpInv
BY DEF H!Init, HelpInv, HelpShape, VersionTellsStatus, ReadIsKept, H!HelpHasOneOwner,
       H!HelpRow, HelpRequest, H!Blank, H!NoCall, H!NoOne

LEMMA HelpCreates ==
  ASSUME HelpInv, NEW p \in H!Person, NEW h \in Help, H!CreateHelpRequest(p, h)
  PROVE  HelpInv'
<1> USE DEF HelpInv
<1>1. HelpShape'
  BY DEF HelpShape, H!HelpRow, H!CreateHelpRequest
<1>2. VersionTellsStatus'
  BY DEF HelpShape, H!HelpRow, H!CreateHelpRequest, VersionTellsStatus
<1>3. ReadIsKept'
  BY DEF HelpShape, H!HelpRow, H!CreateHelpRequest, ReadIsKept
<1>4. H!HelpHasOneOwner'
  BY DEF HelpShape, H!HelpRow, H!CreateHelpRequest, H!HelpHasOneOwner
<1>. QED BY <1>1, <1>2, <1>3, <1>4

LEMMA HelpReads ==
  ASSUME HelpInv, NEW c \in Client, NEW op \in {"claim", "resolve", "cancel"},
         NEW p \in H!Person, NEW h \in Help, H!ReadHelp(c, op, p, h)
  PROVE  HelpInv'
<1> USE DEF HelpInv
<1>1. HelpShape'
  BY DEF HelpShape, H!HelpRow, HelpRequest, H!ReadHelp
<1>2. VersionTellsStatus' /\ H!HelpHasOneOwner'
  BY DEF HelpShape, H!HelpRow, HelpRequest, H!ReadHelp, VersionTellsStatus, H!HelpHasOneOwner
<1>3. ReadIsKept'
  BY DEF HelpShape, H!HelpRow, HelpRequest, H!ReadHelp, ReadIsKept, H!Allowed, VersionTellsStatus, H!HelpHasOneOwner
<1>. QED BY <1>1, <1>2, <1>3

(* A write moves one row and one request, and leaves the rest. *)
HelpStep(c, h, status, who, version, pc, told) ==
  /\ helpHelp' \in [Help -> H!HelpRow] /\ helpCall' \in [Client -> HelpRequest]
  /\ helpHelp'[h].status = status /\ helpHelp'[h].assignee = who /\ helpHelp'[h].version = version
  /\ \A g \in Help \ {h} : helpHelp'[g] = helpHelp[g]
  /\ helpCall'[c].pc = pc /\ helpCall'[c].on = (IF pc = "idle" THEN "none" ELSE h)
  /\ helpCall'[c].by \in H!Person \/ pc = "idle"
  /\ \A d \in Client \ {c} : helpCall'[d] = helpCall[d]
  /\ helpTook' = [helpTook EXCEPT ![h] = told] /\ helpGrant' = helpGrant

LEMMA HelpStepKeeps ==
  ASSUME HelpInv, NEW c \in Client, NEW h \in Help, NEW p \in H!Person,
         \/ helpHelp[h].status = "open" /\ HelpStep(c, h, "claimed", p, 1, "support", {p})
         \/ helpHelp[h].status = "open" /\ HelpStep(c, h, "cancelled", helpHelp[h].assignee, 1, "idle", helpTook[h])
         \/ helpHelp[h].status = "claimed"
               /\ HelpStep(c, h, "resolved", helpHelp[h].assignee, 2, "idle", helpTook[h])
  PROVE  HelpInv'
<1> USE DEF HelpInv, HelpStep
<1>1. HelpShape'
  BY DEF HelpShape
<1>2. VersionTellsStatus'
  BY DEF HelpShape, VersionTellsStatus
<1>3. /\ helpHelp'[h].status # "none" /\ helpTook[h] # {} => helpTook'[h] # {}
      /\ helpCall'[c].pc \in {"idle", "support"}
      /\ helpCall'[c].pc = "support" => helpCall'[c].on = h /\ helpTook'[h] # {}
      /\ \A g \in Help \ {h} : helpHelp'[g] = helpHelp[g] /\ helpTook'[g] = helpTook[g]
  <2>1. \A g \in Help \ {h} : helpHelp'[g] = helpHelp[g] /\ helpTook'[g] = helpTook[g]
    BY DEF HelpShape
  <2>2. \E told : helpTook'[h] = told /\ (helpTook[h] # {} => told # {}) /\ helpHelp'[h].status # "none"
    BY DEF HelpShape
  <2>3. /\ helpCall'[c].pc \in {"idle", "support"}
        /\ helpCall'[c].pc = "support" => helpCall'[c].on = h /\ helpTook'[h] # {}
    BY DEF HelpShape
  <2>. QED BY <2>1, <2>2, <2>3
<1>4. ReadIsKept'
  <2> SUFFICES ASSUME NEW d \in Client
               PROVE  /\ helpCall'[d].pc = "write" => helpHelp'[helpCall'[d].on].status # "none"
                      /\ helpCall'[d].pc = "write" /\ helpCall'[d].op \in {"claim", "cancel"} =>
                           helpCall'[d].version = 0
                      /\ helpCall'[d].pc = "write" /\ helpCall'[d].op = "resolve" =>
                           helpCall'[d].version = 1 /\ helpTook'[helpCall'[d].on] # {}
                      /\ helpCall'[d].pc \in {"support", "grant"} => helpTook'[helpCall'[d].on] # {}
    BY DEF ReadIsKept
  <2>1. CASE d = c
    BY <1>3, <2>1
  <2>2. CASE d # c
    <3>1. helpCall'[d] = helpCall[d]
      BY <2>2
    <3>2. CASE helpCall[d].pc # "idle"
      BY <1>3, <3>1, <3>2 DEF HelpShape, ReadIsKept
    <3>3. CASE helpCall[d].pc = "idle"
      BY <3>1, <3>3
    <3>. QED BY <3>2, <3>3
  <2>. QED BY <2>1, <2>2
<1>5. H!HelpHasOneOwner'
  <2>1. /\ helpTook'[h] = {} \/ helpTook'[h] = {helpHelp'[h].assignee}
        /\ helpHelp'[h].status \in {"claimed", "resolved"} <=> helpTook'[h] # {}
        /\ helpGrant[h] # "none" => helpTook'[h] # {}
    <3>1. helpTook'[h] = IF helpHelp'[h].status = "claimed" THEN {p} ELSE helpTook[h]
      BY DEF HelpShape
    <3>. QED BY <3>1 DEF HelpShape, H!HelpHasOneOwner
  <2>2. ASSUME NEW g \in Help, g # h
        PROVE  /\ helpTook'[g] = {} \/ helpTook'[g] = {helpHelp'[g].assignee}
               /\ helpHelp'[g].status \in {"claimed", "resolved"} <=> helpTook'[g] # {}
               /\ helpGrant[g] # "none" => helpTook'[g] # {}
    BY <1>3, <2>2 DEF H!HelpHasOneOwner
  <2>. QED BY <2>1, <2>2 DEF H!HelpHasOneOwner
<1>. QED BY <1>1, <1>2, <1>4, <1>5

LEMMA RowMoves ==
  ASSUME NEW row \in H!HelpRow, NEW p \in H!Person
  PROVE  /\ [row EXCEPT !.status = "claimed", !.assignee = p, !.version = 1] \in H!HelpRow
         /\ [row EXCEPT !.status = "resolved", !.version = 2] \in H!HelpRow
         /\ [row EXCEPT !.status = "cancelled", !.version = 1] \in H!HelpRow
<1>. DEFINE v == [row EXCEPT !.version = 1]
            w == [row EXCEPT !.version = 2]
            x == [v EXCEPT !.assignee = p]
<1>1. v \in H!HelpRow
  BY DEF H!HelpRow
<1>2. w \in H!HelpRow
  BY DEF H!HelpRow
<1>3. x \in H!HelpRow
  BY <1>1 DEF H!HelpRow
<1>4. /\ [x EXCEPT !.status = "claimed"] \in H!HelpRow
      /\ [v EXCEPT !.status = "cancelled"] \in H!HelpRow
      /\ [w EXCEPT !.status = "resolved"] \in H!HelpRow
  BY <1>1, <1>2, <1>3 DEF H!HelpRow
<1>5. /\ [row EXCEPT !.status = "claimed", !.assignee = p, !.version = 1]
            = [x EXCEPT !.status = "claimed"]
      /\ [row EXCEPT !.status = "resolved", !.version = 2] = [w EXCEPT !.status = "resolved"]
      /\ [row EXCEPT !.status = "cancelled", !.version = 1] = [v EXCEPT !.status = "cancelled"]
  BY DEF H!HelpRow
<1>. QED BY ONLY <1>4, <1>5

LEMMA HelpWrites ==
  ASSUME HelpInv, NEW c \in Client,
         H!ClaimHelp(c) \/ H!ResolveHelp(c) \/ H!CancelHelp(c)
  PROVE  HelpInv'
<1> USE DEF HelpInv, H!Unmoved, H!Done, H!NoCall, H!NoOne
<1>1. PICK h \in Help, p \in H!Person : h = helpCall[c].on /\ p = helpCall[c].by
  BY DEF HelpShape, H!ClaimHelp, H!ResolveHelp, H!CancelHelp
<1>2. CASE H!ClaimHelp(c)
  <2>1. helpHelp[h].status = "open" /\ helpTook[h] = {} /\ helpCall[c].version = 0
    BY <1>1, <1>2 DEF HelpShape, H!HelpRow, HelpRequest, H!ClaimHelp, VersionTellsStatus, ReadIsKept, H!HelpHasOneOwner
  <2>2. HelpStep(c, h, "claimed", p, 1, "support", {p})
    <3>. USE <1>1, <1>2, <2>1 DEF HelpShape, H!ClaimHelp
    <3>0. helpHelp' = [helpHelp EXCEPT ![h] = [helpHelp[h] EXCEPT !.status = "claimed", !.assignee = p, !.version = 1]]
      OBVIOUS
    <3>1. helpHelp' \in [Help -> H!HelpRow]
      BY ONLY <3>0, RowMoves, <1>1, helpHelp \in [Help -> H!HelpRow]
    <3>2. helpCall' \in [Client -> HelpRequest]
      BY DEF HelpRequest
    <3>3. /\ helpHelp'[h].status = "claimed" /\ helpHelp'[h].assignee = p /\ helpHelp'[h].version = 1
          /\ \A g \in Help \ {h} : helpHelp'[g] = helpHelp[g]
      BY DEF H!HelpRow
    <3>4. /\ helpCall'[c].pc = "support" /\ helpCall'[c].on = (IF "support" = "idle" THEN "none" ELSE h)
          /\ helpCall'[c].by \in H!Person \/ "support" = "idle"
          /\ \A d \in Client \ {c} : helpCall'[d] = helpCall[d]
      BY DEF HelpRequest
    <3>5. helpTook' = [helpTook EXCEPT ![h] = {p}] /\ helpGrant' = helpGrant
      OBVIOUS
    <3>. QED BY <3>1, <3>2, <3>3, <3>4, <3>5 DEF HelpStep
  <2>. QED BY <1>1, <2>1, <2>2, HelpStepKeeps
<1>3. CASE H!ResolveHelp(c)
  <2>1. helpHelp[h].status = "claimed" /\ helpCall[c].version = 1
    BY <1>1, <1>3 DEF HelpShape, H!HelpRow, HelpRequest, H!ResolveHelp, VersionTellsStatus, ReadIsKept, H!HelpHasOneOwner
  <2>2. HelpStep(c, h, "resolved", helpHelp[h].assignee, 2, "idle", helpTook[h])
    <3>. USE <1>1, <1>3, <2>1 DEF HelpShape, H!ResolveHelp
    <3>0. helpHelp' = [helpHelp EXCEPT ![h] = [helpHelp[h] EXCEPT !.status = "resolved", !.version = 2]]
      OBVIOUS
    <3>1. helpHelp' \in [Help -> H!HelpRow]
      BY ONLY <3>0, RowMoves, <1>1, helpHelp \in [Help -> H!HelpRow]
    <3>2. helpCall' \in [Client -> HelpRequest]
      BY DEF HelpRequest
    <3>3. /\ helpHelp'[h].status = "resolved" /\ helpHelp'[h].assignee = helpHelp[h].assignee /\ helpHelp'[h].version = 2
          /\ \A g \in Help \ {h} : helpHelp'[g] = helpHelp[g]
      BY DEF H!HelpRow
    <3>4. /\ helpCall'[c].pc = "idle" /\ helpCall'[c].on = (IF "idle" = "idle" THEN "none" ELSE h)
          /\ helpCall'[c].by \in H!Person \/ "idle" = "idle"
          /\ \A d \in Client \ {c} : helpCall'[d] = helpCall[d]
      BY DEF HelpRequest
    <3>5. helpTook' = [helpTook EXCEPT ![h] = helpTook[h]] /\ helpGrant' = helpGrant
      OBVIOUS
    <3>. QED BY <3>1, <3>2, <3>3, <3>4, <3>5 DEF HelpStep
  <2>. QED BY <1>1, <2>1, <2>2, HelpStepKeeps
<1>4. CASE H!CancelHelp(c)
  <2>1. helpHelp[h].status = "open" /\ helpCall[c].version = 0
    BY <1>1, <1>4 DEF HelpShape, H!HelpRow, HelpRequest, H!CancelHelp, VersionTellsStatus, ReadIsKept
  <2>2. HelpStep(c, h, "cancelled", helpHelp[h].assignee, 1, "idle", helpTook[h])
    <3>. USE <1>1, <1>4, <2>1 DEF HelpShape, H!CancelHelp
    <3>0. helpHelp' = [helpHelp EXCEPT ![h] = [helpHelp[h] EXCEPT !.status = "cancelled", !.version = 1]]
      OBVIOUS
    <3>1. helpHelp' \in [Help -> H!HelpRow]
      BY ONLY <3>0, RowMoves, <1>1, helpHelp \in [Help -> H!HelpRow]
    <3>2. helpCall' \in [Client -> HelpRequest]
      BY DEF HelpRequest
    <3>3. /\ helpHelp'[h].status = "cancelled" /\ helpHelp'[h].assignee = helpHelp[h].assignee /\ helpHelp'[h].version = 1
          /\ \A g \in Help \ {h} : helpHelp'[g] = helpHelp[g]
      BY DEF H!HelpRow
    <3>4. /\ helpCall'[c].pc = "idle" /\ helpCall'[c].on = (IF "idle" = "idle" THEN "none" ELSE h)
          /\ helpCall'[c].by \in H!Person \/ "idle" = "idle"
          /\ \A d \in Client \ {c} : helpCall'[d] = helpCall[d]
      BY DEF HelpRequest
    <3>5. helpTook' = [helpTook EXCEPT ![h] = helpTook[h]] /\ helpGrant' = helpGrant
      OBVIOUS
    <3>. QED BY <3>1, <3>2, <3>3, <3>4, <3>5 DEF HelpStep
  <2>. QED BY <1>1, <2>1, <2>2, HelpStepKeeps
<1>. QED BY <1>2, <1>3, <1>4

LEMMA HelpSupports ==
  ASSUME HelpInv, NEW c \in Client,
         H!HelpConflict(c) \/ H!SupportLook(c) \/ H!SupportGrant(c) \/ H!SupportFails(c)
  PROVE  HelpInv'
<1> USE DEF HelpInv
<1>0. /\ UNCHANGED <<helpHelp, helpTook>> /\ helpCall' \in [Client -> HelpRequest]
      /\ \A d \in Client \ {c} : helpCall'[d] = helpCall[d]
      /\ \/ helpCall'[c].pc = "idle"
         \/ helpCall[c].pc = "support" /\ helpCall'[c].pc = "grant"
              /\ helpCall'[c].on = helpCall[c].on /\ helpCall'[c].by = helpCall[c].by
      /\ \/ helpGrant' = helpGrant
         \/ helpCall[c].pc = "grant" /\ helpGrant' = [helpGrant EXCEPT ![helpCall[c].on] = "approved"]
  BY DEF HelpShape, HelpRequest, H!HelpConflict, H!SupportLook, H!SupportGrant, H!SupportFails,
         H!Done, H!NoCall, H!NoOne
<1>1. HelpShape'
  BY <1>0 DEF HelpShape
<1>2. VersionTellsStatus'
  BY <1>0 DEF VersionTellsStatus
<1>3. ReadIsKept'
  BY <1>0 DEF HelpShape, ReadIsKept
<1>4. H!HelpHasOneOwner'
  BY <1>0 DEF HelpShape, ReadIsKept, H!HelpHasOneOwner
<1>. QED BY <1>1, <1>2, <1>3, <1>4

LEMMA HelpGrantEnds ==
  ASSUME HelpInv, NEW h \in Help, H!GrantEnds(h)
  PROVE  HelpInv'
BY DEF HelpInv, HelpShape, VersionTellsStatus, ReadIsKept, H!HelpHasOneOwner, H!GrantEnds

LEMMA HelpKept ==
  ASSUME HelpInv, [H!Next]_H!vars
  PROVE  HelpInv'
<1>1. CASE UNCHANGED H!vars
  BY <1>1 DEF H!vars, HelpInv, HelpShape, VersionTellsStatus, ReadIsKept, H!HelpHasOneOwner
<1>2. CASE H!Next
  BY <1>2, HelpCreates, HelpReads, HelpWrites, HelpSupports, HelpGrantEnds
  DEF H!Next, H!HelpCall
<1>. QED BY <1>1, <1>2

(* Whoever is told that a help request is theirs is its assignee, it is     *)
(* told to one person only and not after a cancellation, and nobody else is *)
(* let into the room: claimHelpRequest's compare-and-set on the version.    *)
THEOREM HelpOwner == CourseSpec => []HelpHasOneOwner
<1>. DEFINE Inv == part = "help" => HelpInv
<1>1. CourseInit => Inv
  BY HelpInit DEF CourseInit
<1>2. Inv /\ [CourseNext]_courseVars => Inv'
  <2>1. [CourseNext]_courseVars => UNCHANGED part /\ (part = "help" => [H!Next]_H!vars)
    BY DEF CourseNext, courseVars, helpVars, H!vars
  <2>. QED BY <2>1, HelpKept
<1>3. Inv => HelpHasOneOwner
  BY DEF HelpInv, HelpHasOneOwner
<1>. QED BY <1>1, <1>2, <1>3, PTL DEF CourseSpec

----------------------------------------------------------------------------
(* Guilds.  A request in flight never stands to touch the leader's row.     *)

GuildRequest == [kind : {"free", "create", "invite", "accept", "decline", "remove"},
                 guild : 0..MostGuilds, of : GuildStudent \union {Nobody}, found : BOOLEAN]

GuildShape ==
  /\ guildOwner \in [U!Guild -> GuildStudent \union {Nobody}]
  /\ guildMember \in [U!Guild -> [GuildStudent -> U!MembershipStatus]]
  /\ guildCall \in [Client -> GuildRequest]
  /\ \A c \in Client : guildCall[c].kind # "free" => guildCall[c].of \in GuildStudent

(* The partial unique index. *)
OneActiveRow ==
  \A s \in GuildStudent, g, h \in U!Guild :
    guildMember[g][s] = "active" /\ guildMember[h][s] = "active" => g = h

(* A guild is founded with its leader's row and nobody has one before. *)
FoundedWithLeader ==
  \A g \in U!Guild :
    /\ guildOwner[g] # Nobody => guildMember[g][guildOwner[g]] = "active"
    /\ \A s \in GuildStudent : guildOwner[g] = Nobody => guildMember[g][s] = "none"

SparesTheLeader ==
  \A c \in Client : guildCall[c].kind \notin {"free", "create"} =>
    /\ guildCall[c].guild \in U!Guild /\ guildOwner[guildCall[c].guild] # Nobody
    /\ guildCall[c].of # guildOwner[guildCall[c].guild]

GuildInv == GuildShape /\ OneActiveRow /\ FoundedWithLeader /\ SparesTheLeader

LEMMA GuildInit ==
  ASSUME MostGuilds \in Nat
  PROVE  U!Init => GuildInv
BY DEF U!Init, GuildInv, GuildShape, OneActiveRow, FoundedWithLeader, SparesTheLeader,
       GuildRequest, U!Free, U!None, U!Guild, U!MembershipStatus

(* What the first half of a request leaves behind. *)
LEMMA GuildReads ==
  ASSUME MostGuilds \in Nat, GuildInv, NEW c \in Client, NEW r \in GuildRequest, U!Read(c, r),
         r.kind # "free" => r.of \in GuildStudent,
         r.kind \notin {"free", "create"} =>
           r.guild \in U!Guild /\ guildOwner[r.guild] # Nobody /\ r.of # guildOwner[r.guild]
  PROVE  GuildInv'
<1>1. UNCHANGED <<guildOwner, guildMember>> /\ guildCall' = [guildCall EXCEPT ![c] = r]
  BY DEF U!Read
<1>2. GuildShape'
  BY <1>1 DEF GuildInv, GuildShape
<1>3. OneActiveRow' /\ FoundedWithLeader'
  BY <1>1 DEF GuildInv, OneActiveRow, FoundedWithLeader
<1>4. SparesTheLeader'
  BY <1>1 DEF GuildInv, GuildShape, SparesTheLeader
<1>. QED BY <1>2, <1>3, <1>4 DEF GuildInv

(* The request that Read is given, field by field. *)
GuildAsked(kind, g, s) == [[[U!Free EXCEPT !.guild = g] EXCEPT !.kind = kind] EXCEPT !.of = s]

LEMMA GuildAsks ==
  ASSUME MostGuilds \in Nat, NEW kind \in {"invite", "accept", "decline", "remove"},
         NEW g \in 0..MostGuilds, NEW s \in GuildStudent
  PROVE  LET r == GuildAsked(kind, g, s) IN
         r \in GuildRequest /\ r.kind = kind /\ r.guild = g /\ r.of = s
<1>1. U!Free \in GuildRequest
  BY DEF U!Free, U!None, GuildRequest
<1>2. [U!Free EXCEPT !.guild = g] \in GuildRequest
  BY <1>1 DEF GuildRequest
<1>3. [[U!Free EXCEPT !.guild = g] EXCEPT !.kind = kind] \in GuildRequest
  BY <1>2 DEF GuildRequest
<1>4. GuildAsked(kind, g, s) \in GuildRequest
  BY <1>3 DEF GuildRequest, GuildAsked
<1>. QED BY <1>4 DEF GuildAsked, U!Free

LEMMA GuildFirstHalf ==
  ASSUME MostGuilds \in Nat, GuildInv, NEW c \in Client, NEW g \in U!Guild, NEW s \in GuildStudent,
         \/ U!InviteReads(c, g, s) \/ U!AcceptReads(c, g, s)
         \/ U!DeclineReads(c, g, s) \/ U!RemoveReads(c, g, s)
  PROVE  GuildInv'
<1>1. ASSUME NEW r \in GuildRequest, U!Read(c, r), r.kind \in {"invite", "accept", "decline", "remove"},
             r.guild = g, r.of = s, guildOwner[g] # Nobody, s # guildOwner[g]
      PROVE  GuildInv'
  BY <1>1, GuildReads
<1>2. guildMember[g][s] = "invited" => guildOwner[g] # Nobody /\ s # guildOwner[g]
  BY DEF GuildInv, FoundedWithLeader
<1>3. CASE U!InviteReads(c, g, s)
  <2>. DEFINE asked == GuildAsked("invite", g, s)
              r == [asked EXCEPT !.found = guildMember[g][s] # "none"]
  <2>1. [U!Free EXCEPT !.kind = "invite", !.guild = g, !.of = s, !.found = guildMember[g][s] # "none"] = r
    BY DEF U!Free, GuildAsked
  <2>2. asked \in GuildRequest /\ asked.kind = "invite" /\ asked.guild = g /\ asked.of = s
    BY GuildAsks DEF U!Guild
  <2>. HIDE DEF asked
  <2>3. r \in GuildRequest /\ r.kind = "invite" /\ r.guild = g /\ r.of = s
    BY <2>2 DEF GuildRequest
  <2>4. U!Read(c, r) /\ guildOwner[g] # Nobody /\ s # guildOwner[g]
    BY <1>3, <2>1 DEF U!InviteReads
  <2>. HIDE DEF r
  <2>. QED BY <1>1, <2>3, <2>4
<1>4. ASSUME NEW kind \in {"accept", "decline", "remove"},
             U!Read(c, [U!Free EXCEPT !.kind = kind, !.guild = g, !.of = s]),
             guildOwner[g] # Nobody, s # guildOwner[g]
      PROVE  GuildInv'
  <2>. DEFINE r == GuildAsked(kind, g, s)
  <2>1. [U!Free EXCEPT !.kind = kind, !.guild = g, !.of = s] = r
    BY DEF U!Free, GuildAsked
  <2>2. r \in GuildRequest /\ r.kind = kind /\ r.guild = g /\ r.of = s
    BY GuildAsks DEF U!Guild
  <2>3. U!Read(c, r)
    BY <1>4, <2>1
  <2>. HIDE DEF r
  <2>. QED BY <1>1, <1>4, <2>2, <2>3
<1>. QED BY <1>2, <1>3, <1>4 DEF U!AcceptReads, U!DeclineReads, U!RemoveReads

LEMMA GuildFounding ==
  ASSUME MostGuilds \in Nat, GuildInv, NEW c \in Client, NEW s \in GuildStudent, U!CreateReads(c, s)
  PROVE  GuildInv'
<1>. DEFINE asked == [U!Free EXCEPT !.kind = "create"]
            r == [asked EXCEPT !.of = s]
<1>1. [U!Free EXCEPT !.kind = "create", !.of = s] = r
  BY DEF U!Free
<1>2. U!Free \in GuildRequest
  BY DEF U!Free, U!None, GuildRequest
<1>3. asked \in GuildRequest /\ asked.kind = "create"
  BY <1>2 DEF GuildRequest
<1>. HIDE DEF asked
<1>4. r \in GuildRequest /\ r.kind = "create" /\ r.of = s
  BY <1>3 DEF GuildRequest
<1>5. U!Read(c, r)
  BY <1>1 DEF U!CreateReads
<1>. HIDE DEF r
<1>. QED BY <1>4, <1>5, GuildReads

(* A row that is not the leader's may take any status; "active" must be the *)
(* only one of its student.                                                 *)
LEMMA GuildRowMoves ==
  ASSUME MostGuilds \in Nat, GuildInv, NEW g \in U!Guild, NEW s \in GuildStudent, guildOwner[g] # Nobody, s # guildOwner[g],
         guildOwner' = guildOwner, guildMember' \in [U!Guild -> [GuildStudent -> U!MembershipStatus]],
         \A h \in U!Guild, t \in GuildStudent : t # s => guildMember'[h][t] = guildMember[h][t],
         \A h \in U!Guild : h # g =>
           \/ guildMember'[h][s] = guildMember[h][s]
           \/ guildMember[h][s] = "invited" /\ guildMember'[h][s] = "declined",
         guildMember'[g][s] = "active" => U!IndexAllows(g, s),
         guildCall' \in [Client -> GuildRequest],
         \A c \in Client : guildCall'[c] = guildCall[c] \/ guildCall'[c].kind = "free"
  PROVE  GuildInv'
<1>1. GuildShape'
  BY DEF GuildInv, GuildShape
<1>2. OneActiveRow'
  <2>1. \A h, k \in U!Guild : guildMember'[h][s] = "active" /\ guildMember'[k][s] = "active" => h = k
    BY DEF GuildInv, OneActiveRow, U!IndexAllows, U!Active
  <2>2. \A t \in GuildStudent, h, k \in U!Guild :
          t # s /\ guildMember'[h][t] = "active" /\ guildMember'[k][t] = "active" => h = k
    BY DEF GuildInv, OneActiveRow
  <2>. QED BY <2>1, <2>2 DEF OneActiveRow
<1>3. FoundedWithLeader'
  <2>1. \A h \in U!Guild : guildOwner[h] # Nobody => guildMember'[h][guildOwner[h]] = "active"
    BY DEF GuildInv, GuildShape, FoundedWithLeader
  <2>2. \A h \in U!Guild, t \in GuildStudent : guildOwner[h] = Nobody => guildMember'[h][t] = "none"
    BY DEF GuildInv, FoundedWithLeader
  <2>. QED BY <2>1, <2>2 DEF FoundedWithLeader
<1>4. SparesTheLeader'
  BY DEF GuildInv, SparesTheLeader
<1>. QED BY <1>1, <1>2, <1>3, <1>4 DEF GuildInv

LEMMA GuildDone ==
  ASSUME MostGuilds \in Nat, GuildInv, NEW c \in Client, U!Done(c)
  PROVE  /\ guildCall' \in [Client -> GuildRequest] /\ guildCall'[c].kind = "free"
         /\ \A d \in Client : guildCall'[d] = guildCall[d] \/ guildCall'[d].kind = "free"
BY DEF GuildInv, GuildShape, GuildRequest, U!Done, U!Free, U!None

LEMMA GuildConflict ==
  ASSUME MostGuilds \in Nat, GuildInv, NEW c \in Client, U!Conflict(c)
  PROVE  GuildInv'
BY GuildDone DEF U!Conflict, GuildInv, GuildShape, OneActiveRow, FoundedWithLeader, SparesTheLeader

LEMMA GuildCreates ==
  ASSUME MostGuilds \in Nat, Nobody \notin GuildStudent, GuildInv,
         NEW c \in Client, NEW g \in U!Guild, U!CreateWrites(c, g)
  PROVE  GuildInv'
<1>. DEFINE s == guildCall[c].of
<1>1. s \in GuildStudent /\ guildOwner[g] = Nobody
  BY DEF U!CreateWrites, GuildInv, GuildShape
<1>2. CASE ~U!IndexAllows(g, s)
  BY <1>2, GuildConflict DEF U!CreateWrites
<1>3. CASE U!IndexAllows(g, s)
  <2>1. guildOwner' = [guildOwner EXCEPT ![g] = s] /\ guildMember' = [guildMember EXCEPT ![g][s] = "active"] /\ U!Done(c)
    BY <1>3 DEF U!CreateWrites
  <2>. HIDE DEF s
  <2>2. guildMember' \in [U!Guild -> [GuildStudent -> U!MembershipStatus]] /\ guildOwner' \in [U!Guild -> GuildStudent \union {Nobody}]
    BY <1>1, <2>1 DEF GuildInv, GuildShape, U!MembershipStatus
  <2>3. /\ guildMember'[g][s] = "active" /\ guildOwner'[g] = s
        /\ \A h \in U!Guild, t \in GuildStudent : h # g \/ t # s => guildMember'[h][t] = guildMember[h][t]
        /\ \A h \in U!Guild : h # g => guildOwner'[h] = guildOwner[h]
    BY <1>1, <2>1 DEF GuildInv, GuildShape
  <2>4. GuildShape'
    BY <2>1, <2>2, GuildDone DEF GuildInv, GuildShape
  <2>5. OneActiveRow'
    BY <1>1, <1>3, <2>3 DEF GuildInv, OneActiveRow, U!IndexAllows, U!Active
  <2>6. FoundedWithLeader'
    BY <1>1, <2>3 DEF GuildInv, GuildShape, FoundedWithLeader
  <2>7. SparesTheLeader'
    BY <1>1, <2>1, <2>3, GuildDone DEF GuildInv, SparesTheLeader
  <2>. QED BY <2>4, <2>5, <2>6, <2>7 DEF GuildInv
<1>. QED BY <1>2, <1>3

LEMMA GuildSecondHalf ==
  ASSUME MostGuilds \in Nat, GuildInv, NEW c \in Client,
         U!InviteWrites(c) \/ U!AcceptWrites(c) \/ U!DeclineWrites(c) \/ U!RemoveWrites(c)
  PROVE  GuildInv'
<1>. DEFINE g == guildCall[c].guild
            s == guildCall[c].of
<1>1. g \in U!Guild /\ s \in GuildStudent /\ guildOwner[g] # Nobody /\ s # guildOwner[g]
  BY DEF U!InviteWrites, U!AcceptWrites, U!DeclineWrites, U!RemoveWrites,
         GuildInv, GuildShape, SparesTheLeader
<1>2. ASSUME NEW status \in {"invited", "declined", "removed"},
             guildMember' = [guildMember EXCEPT ![g][s] = status], U!Done(c), UNCHANGED guildOwner
      PROVE  GuildInv'
  <2>. HIDE DEF g, s
  <2>1. /\ guildMember' \in [U!Guild -> [GuildStudent -> U!MembershipStatus]] /\ guildMember'[g][s] = status
        /\ \A h \in U!Guild, t \in GuildStudent : h # g \/ t # s => guildMember'[h][t] = guildMember[h][t]
    BY <1>1, <1>2 DEF GuildInv, GuildShape, U!MembershipStatus
  <2>. QED BY <1>1, <1>2, <2>1, GuildDone, GuildRowMoves
<1>3. CASE U!InviteWrites(c)
  BY <1>2, <1>3, GuildConflict DEF U!InviteWrites
<1>4. CASE U!DeclineWrites(c) \/ U!RemoveWrites(c)
  BY <1>2, <1>4 DEF U!DeclineWrites, U!RemoveWrites
<1>5. CASE U!AcceptWrites(c) /\ ~U!IndexAllows(g, s)
  BY <1>5, GuildConflict DEF U!AcceptWrites
<1>6. CASE U!AcceptWrites(c) /\ U!IndexAllows(g, s)
  <2>. DEFINE answered == [h \in U!Guild |-> IF guildMember[h][s] = "invited" THEN "declined" ELSE guildMember[h][s]]
  <2>1. /\ guildMember' = [h \in U!Guild |-> [guildMember[h] EXCEPT ![s] = IF h = g THEN "active" ELSE answered[h]]]
        /\ U!Done(c) /\ UNCHANGED guildOwner
    BY <1>6 DEF U!AcceptWrites
  <2>. HIDE DEF g, s
  <2>2. /\ guildMember' \in [U!Guild -> [GuildStudent -> U!MembershipStatus]]
        /\ \A h \in U!Guild, t \in GuildStudent : t # s => guildMember'[h][t] = guildMember[h][t]
        /\ \A h \in U!Guild : h # g =>
             \/ guildMember'[h][s] = guildMember[h][s]
             \/ guildMember[h][s] = "invited" /\ guildMember'[h][s] = "declined"
    BY <1>1, <2>1 DEF GuildInv, GuildShape, U!MembershipStatus
  <2>. QED BY <1>1, <1>6, <2>1, <2>2, GuildDone, GuildRowMoves
<1>. QED BY <1>3, <1>4, <1>5, <1>6

LEMMA GuildStep ==
  ASSUME MostGuilds \in Nat, Nobody \notin GuildStudent, GuildInv, [U!Next]_U!vars
  PROVE  GuildInv'
<1>1. CASE UNCHANGED U!vars
  BY <1>1 DEF U!vars, GuildInv, GuildShape, OneActiveRow, FoundedWithLeader, SparesTheLeader
<1>2. CASE U!Next
  <2>1. PICK c \in Client :
          \/ \E s \in GuildStudent : U!CreateReads(c, s)
          \/ \E g \in U!Guild : U!CreateWrites(c, g)
          \/ \E g \in U!Guild, s \in GuildStudent :
               \/ U!InviteReads(c, g, s) \/ U!AcceptReads(c, g, s)
               \/ U!DeclineReads(c, g, s) \/ U!RemoveReads(c, g, s)
          \/ U!InviteWrites(c) \/ U!AcceptWrites(c) \/ U!DeclineWrites(c) \/ U!RemoveWrites(c)
    BY <1>2 DEF U!Next
  <2>2. CASE \E s \in GuildStudent : U!CreateReads(c, s)
    BY <2>2, GuildFounding
  <2>3. CASE \E g \in U!Guild : U!CreateWrites(c, g)
    BY <2>3, GuildCreates
  <2>4. CASE \E g \in U!Guild, s \in GuildStudent :
               \/ U!InviteReads(c, g, s) \/ U!AcceptReads(c, g, s)
               \/ U!DeclineReads(c, g, s) \/ U!RemoveReads(c, g, s)
    BY <2>4, GuildFirstHalf
  <2>. QED BY <2>1, <2>2, <2>3, <2>4, GuildSecondHalf
<1>. QED BY <1>1, <1>2

LEMMA GuildInvSays ==
  ASSUME GuildInv
  PROVE  U!OneGuildWithALeader
<1>1. \A s \in GuildStudent : U!Cardinality(U!Active(s)) <= 1
  <2>. TAKE s \in GuildStudent
  <2>0. U!Cardinality(U!Active(s)) = Cardinality(U!Active(s))
    BY DEF U!Cardinality, U!IsFiniteSet, Cardinality, IsFiniteSet
  <2>1. CASE U!Active(s) = {}
    BY <2>0, <2>1, FS_EmptySet
  <2>2. CASE U!Active(s) # {}
    <3>1. PICK g \in U!Guild : U!Active(s) = {g}
      BY <2>2 DEF U!Active, GuildInv, OneActiveRow
    <3>2. Cardinality({g}) = 1
      BY FS_Singleton
    <3>. QED BY <2>0, <3>1, <3>2
  <2>. QED BY <2>1, <2>2
<1>2. \A g \in U!Guild : guildOwner[g] # Nobody => guildMember[g][guildOwner[g]] = "active"
  BY <1>1 DEF GuildInv, FoundedWithLeader
<1>. QED BY <1>1, <1>2 DEF U!OneGuildWithALeader

(* A student is an active member of one guild at most and every guild keeps *)
(* its leader, for any number of students, guilds and requests in flight,   *)
(* though every request decides on what it read earlier (GuildsService).    *)
THEOREM GuildsKeepTheirLeader == CourseSpec => []OneGuildWithALeader
<1>. DEFINE Inv == part = "guild" => GuildInv
<1>1. CourseInit => Inv
  BY GuildInit, CourseAssumption DEF CourseInit
<1>2. Inv /\ [CourseNext]_courseVars => Inv'
  <2>1. [CourseNext]_courseVars => UNCHANGED part /\ (part = "guild" => [U!Next]_U!vars)
    BY DEF CourseNext, courseVars, guildVars, U!vars
  <2>. QED BY <2>1, GuildStep, CourseAssumption
<1>3. Inv => OneGuildWithALeader
  BY GuildInvSays DEF GuildInv, OneGuildWithALeader
<1>. QED BY <1>1, <1>2, <1>3, PTL DEF CourseSpec

----------------------------------------------------------------------------
(* Draws. *)

LotteryRequest == [pc : {"free", "own", "draws", "options", "try"},
                   of : LotteryStudent \union {Nobody}, kind : {"draw", "redraw"},
                   old : Option \union {Nobody}, left : SUBSET Option]

LotteryShape ==
  /\ lotteryOption \in [Option -> {"absent", "active", "inactive", "deleted"}]
  /\ lotteryDraw \in [LotteryStudent -> Option \union {Nobody}]
  /\ lotteryDelete \in Option \union {Nobody}
  /\ lotteryCall \in [Client -> LotteryRequest]
  /\ \A c \in Client : lotteryCall[c].pc # "free" => lotteryCall[c].of \in LotteryStudent

(* The foreign key from the draw to its option, and the unique key of it. *)
DrawsStand ==
  \A s \in LotteryStudent : lotteryDraw[s] # Nobody =>
    /\ lotteryDraw[s] \in Y!Exists
    /\ \A t \in LotteryStudent \ {s} : lotteryDraw[t] # lotteryDraw[s]

LotteryInv == LotteryShape /\ DrawsStand

LEMMA LotteryInit == Y!Init => LotteryInv
BY DEF Y!Init, Y!Free, LotteryInv, LotteryShape, LotteryRequest, DrawsStand

(* What leaves the draws and the options that exist alone. *)
LEMMA LotteryWaits ==
  ASSUME LotteryInv, UNCHANGED lotteryDraw, Y!Exists \subseteq Y!Exists', LotteryShape'
  PROVE  LotteryInv'
BY DEF LotteryInv, DrawsStand

(* The teacher takes an option away only while nobody has drawn it. *)
LEMMA LotteryTeacher ==
  ASSUME Nobody \notin Option, LotteryInv,
         Y!DeleteWrites \/ \E o \in Option : Y!CreateOption(o) \/ Y!UpdateOption(o) \/ Y!DeleteCounts(o)
  PROVE  LotteryInv' /\ lotteryDraw' = lotteryDraw
<1>1. CASE Y!DeleteWrites
  <2>1. /\ lotteryDelete \in Option /\ UNCHANGED <<lotteryDraw, lotteryCall>> /\ lotteryDelete' = Nobody
        /\ lotteryOption' = IF lotteryDelete \in Y!Drawn THEN lotteryOption ELSE [lotteryOption EXCEPT ![lotteryDelete] = "deleted"]
    BY <1>1 DEF Y!DeleteWrites, LotteryInv, LotteryShape
  <2>2. LotteryShape'
    BY <2>1 DEF LotteryInv, LotteryShape
  <2>3. \A o \in Option : lotteryOption'[o] # lotteryOption[o] => o = lotteryDelete /\ lotteryDelete \notin Y!Drawn
    BY <2>1 DEF LotteryInv, LotteryShape
  <2>4. DrawsStand'
    BY <2>1, <2>3 DEF LotteryInv, LotteryShape, DrawsStand, Y!Exists, Y!Drawn
  <2>. QED BY <2>1, <2>2, <2>4 DEF LotteryInv
<1>2. ASSUME NEW o \in Option, Y!CreateOption(o) PROVE LotteryInv' /\ lotteryDraw' = lotteryDraw
  BY <1>2, LotteryWaits DEF Y!CreateOption, LotteryInv, LotteryShape, Y!Exists
<1>3. ASSUME NEW o \in Option, Y!UpdateOption(o) PROVE LotteryInv' /\ lotteryDraw' = lotteryDraw
  BY <1>3, LotteryWaits DEF Y!UpdateOption, LotteryInv, LotteryShape, Y!Exists
<1>4. ASSUME NEW o \in Option, Y!DeleteCounts(o) PROVE LotteryInv' /\ lotteryDraw' = lotteryDraw
  BY <1>4, LotteryWaits DEF Y!DeleteCounts, LotteryInv, LotteryShape, Y!Exists
<1>. QED BY <1>1, <1>2, <1>3, <1>4

LEMMA LotterySets ==
  ASSUME LotteryInv, NEW c \in Client, NEW r \in LotteryRequest, Y!Set(c, r),
         r.pc # "free" => r.of \in LotteryStudent, UNCHANGED <<lotteryOption, lotteryDraw, lotteryDelete>>
  PROVE  LotteryInv'
BY DEF Y!Set, LotteryInv, LotteryShape, DrawsStand, Y!Exists

LEMMA LotteryEnds ==
  ASSUME LotteryInv, NEW c \in Client, Y!End(c)
  PROVE  /\ lotteryCall' \in [Client -> LotteryRequest]
         /\ \A d \in Client : lotteryCall'[d] = lotteryCall[d] \/ lotteryCall'[d].pc = "free"
BY DEF Y!End, Y!Set, Y!Free, LotteryInv, LotteryShape, LotteryRequest

LEMMA LotteryGivesUp ==
  ASSUME LotteryInv, NEW c \in Client, Y!End(c), UNCHANGED <<lotteryOption, lotteryDraw, lotteryDelete>>
  PROVE  LotteryInv'
BY LotteryEnds DEF LotteryInv, LotteryShape, DrawsStand, Y!Exists

LEMMA LotteryReads ==
  ASSUME LotteryInv, NEW c \in Client,
         \/ \E s \in LotteryStudent, kind \in {"draw", "redraw"} : Y!Ask(c, s, kind)
         \/ Y!ReadOwn(c) \/ Y!ReadDraws(c) \/ Y!ReadOptions(c) \/ Y!CallFails(c)
  PROVE  LotteryInv' /\ lotteryDraw' = lotteryDraw
<1>0. lotteryCall[c] \in LotteryRequest /\ lotteryDraw \in [LotteryStudent -> Option \union {Nobody}]
  BY DEF LotteryInv, LotteryShape
<1>1. ASSUME NEW s \in LotteryStudent, NEW kind \in {"draw", "redraw"}, Y!Ask(c, s, kind)
      PROVE  LotteryInv' /\ lotteryDraw' = lotteryDraw
  <2>. DEFINE r == [Y!Free EXCEPT !.pc = "own", !.of = s, !.kind = kind]
  <2>1. r \in LotteryRequest /\ r.of = s
    BY DEF Y!Free, LotteryRequest
  <2>2. Y!Set(c, r) /\ UNCHANGED <<lotteryOption, lotteryDraw, lotteryDelete>>
    BY <1>1 DEF Y!Ask
  <2>. HIDE DEF r
  <2>. QED BY <2>1, <2>2, LotterySets
<1>2. CASE Y!ReadOwn(c)
  <2>. DEFINE q == lotteryCall[c]
              kind == IF lotteryDraw[q.of] = Nobody THEN "draw" ELSE "redraw"
              r == [q EXCEPT !.pc = "draws", !.old = lotteryDraw[q.of], !.kind = kind]
  <2>1. q.of \in LotteryStudent /\ lotteryDraw[q.of] \in Option \union {Nobody} /\ kind \in {"draw", "redraw"}
    BY <1>2 DEF Y!ReadOwn, LotteryInv, LotteryShape
  <2>2. r \in LotteryRequest /\ r.of = q.of
    BY <1>0, <2>1 DEF LotteryRequest
  <2>3. /\ Y!End(c) \/ Y!Set(c, r)
        /\ UNCHANGED <<lotteryOption, lotteryDraw, lotteryDelete>>
    BY <1>2 DEF Y!ReadOwn
  <2>. HIDE DEF r
  <2>. QED BY <2>1, <2>2, <2>3, LotterySets, LotteryGivesUp
<1>3. CASE Y!ReadDraws(c)
  <2>. DEFINE left == Option \ (Y!Drawn \union {lotteryCall[c].old})
              r == [lotteryCall[c] EXCEPT !.pc = "options", !.left = left]
  <2>1. left \in SUBSET Option /\ lotteryCall[c].of \in LotteryStudent
    BY <1>3 DEF Y!ReadDraws, LotteryInv, LotteryShape
  <2>2. Y!Set(c, r) /\ UNCHANGED <<lotteryOption, lotteryDraw, lotteryDelete>>
    BY <1>3 DEF Y!ReadDraws
  <2>. HIDE DEF left
  <2>3. r \in LotteryRequest /\ r.of = lotteryCall[c].of
    BY <1>0, <2>1 DEF LotteryRequest
  <2>. HIDE DEF r
  <2>. QED BY <2>1, <2>2, <2>3, LotterySets
<1>4. CASE Y!ReadOptions(c)
  <2>. DEFINE left == {o \in lotteryCall[c].left : lotteryOption[o] = "active"}
              r == [lotteryCall[c] EXCEPT !.pc = "try", !.left = left]
  <2>1. left \in SUBSET Option /\ lotteryCall[c].of \in LotteryStudent
    BY <1>0, <1>4 DEF Y!ReadOptions, LotteryInv, LotteryShape, LotteryRequest
  <2>2. (Y!End(c) \/ Y!Set(c, r)) /\ UNCHANGED <<lotteryOption, lotteryDraw, lotteryDelete>>
    BY <1>4 DEF Y!ReadOptions
  <2>. HIDE DEF left
  <2>3. r \in LotteryRequest /\ r.of = lotteryCall[c].of
    BY <1>0, <2>1 DEF LotteryRequest
  <2>. HIDE DEF r
  <2>. QED BY <2>1, <2>2, <2>3, LotterySets, LotteryGivesUp
<1>5. CASE Y!CallFails(c)
  BY <1>5, LotteryGivesUp DEF Y!CallFails
<1>. QED BY <1>1, <1>2, <1>3, <1>4, <1>5 DEF Y!Ask, Y!ReadOwn, Y!ReadDraws, Y!ReadOptions, Y!CallFails

(* A draw is written over an option that exists and that nobody else has. *)
LEMMA LotteryTries ==
  ASSUME Nobody \notin Option, LotteryInv, NEW c \in Client, NEW o \in Option, Y!TryOption(c, o)
  PROVE  LotteryInv' /\ \A s \in LotteryStudent : lotteryDraw[s] # Nobody => lotteryDraw'[s] # Nobody
<1>. DEFINE q == lotteryCall[c]
            s == q.of
            left == q.left \ {o}
<1>1. q \in LotteryRequest /\ s \in LotteryStudent /\ left \in SUBSET Option /\ UNCHANGED <<lotteryOption, lotteryDelete>>
  BY DEF Y!TryOption, LotteryInv, LotteryShape, LotteryRequest
<1>2. CASE lotteryDraw' = lotteryDraw
  <2>. DEFINE r == [q EXCEPT !.left = left]
  <2>1. r \in LotteryRequest /\ r.of = s
    <3>. HIDE DEF left, q
    <3>. QED BY <1>1 DEF LotteryRequest
  <2>2. Y!End(c) \/ Y!Set(c, r)
    BY DEF Y!TryOption
  <2>. HIDE DEF r
  <2>. QED BY <1>1, <1>2, <2>1, <2>2, LotterySets, LotteryGivesUp
<1>3. CASE lotteryDraw' # lotteryDraw
  <2>1. o \in Y!Exists /\ ~Y!Taken(s, o) /\ lotteryDraw' = [lotteryDraw EXCEPT ![s] = o] /\ Y!End(c)
    BY <1>3 DEF Y!TryOption, Y!RolledBack
  <2>. HIDE DEF s
  <2>2. LotteryShape'
    BY <1>1, <2>1, LotteryEnds DEF LotteryInv, LotteryShape
  <2>3. lotteryDraw'[s] = o /\ \A t \in LotteryStudent \ {s} : lotteryDraw'[t] = lotteryDraw[t] /\ lotteryDraw[t] # o
    BY <1>1, <2>1 DEF LotteryInv, LotteryShape, Y!Taken
  <2>4. DrawsStand'
    BY <1>1, <2>1, <2>3 DEF LotteryInv, DrawsStand, Y!Exists
  <2>. QED BY <2>2, <2>3, <2>4 DEF LotteryInv
<1>. QED BY <1>2, <1>3

LEMMA LotteryStep ==
  ASSUME Nobody \notin Option, LotteryInv, [Y!Next]_Y!vars
  PROVE  LotteryInv' /\ \A s \in LotteryStudent : lotteryDraw[s] # Nobody => lotteryDraw'[s] # Nobody
<1>1. CASE UNCHANGED Y!vars
  BY <1>1 DEF Y!vars, LotteryInv, LotteryShape, DrawsStand, Y!Exists
<1>2. CASE Y!Next
  BY <1>2, LotteryTeacher, LotteryReads, LotteryTries DEF Y!Next
<1>. QED BY <1>1, <1>2

(* Whatever requests, deletions and failures meet, a student who has drawn  *)
(* keeps a draw of an option that exists, and one of his own: for any       *)
(* number of students, options and requests (WebsiteLotteryService).        *)
THEOREM DrawsAreKept == CourseSpec => NobodyLosesTheirDraw
<1>1. CourseInit => LotteryInv
  BY LotteryInit DEF CourseInit
<1>2. ASSUME LotteryInv, [CourseNext]_courseVars
      PROVE  /\ LotteryInv'
             /\ \A s \in LotteryStudent : lotteryDraw[s] # Nobody => lotteryDraw'[s] # Nobody
  <2>1. [Y!Next]_Y!vars
    BY <1>2 DEF CourseNext, courseVars, lotteryVars, Y!vars
  <2>. QED BY <1>2, <2>1, LotteryStep, CourseAssumption
<1>3. ASSUME LotteryInv, [CourseNext]_courseVars
      PROVE  [\A s \in LotteryStudent : lotteryDraw[s] # Nobody =>
                /\ lotteryDraw'[s] \in Y!Exists'
                /\ \A t \in LotteryStudent \ {s} : lotteryDraw'[t] # lotteryDraw'[s]]_Y!vars
  BY <1>2, <1>3 DEF LotteryInv, DrawsStand
<1>. QED BY <1>1, <1>2, <1>3, PTL DEF CourseSpec, NobodyLosesTheirDraw, Y!NobodyLosesTheirDraw

----------------------------------------------------------------------------
(* Accounts. *)

AccountRequest == [step : {"idle", "hash", "session", "over"},
                   of : Registrant \union {Nobody}, email : Email \union {Nobody}]

AccountShape ==
  /\ accountUser \in [Email -> Registrant \union {Nobody}]
  /\ accountHomestead \subseteq Email
  /\ accountSession \subseteq [email : Email, by : Registrant]
  /\ accountRequest \in [Registration -> AccountRequest]
  /\ \A r \in Registration :
       accountRequest[r].step # "idle" => accountRequest[r].of \in Registrant /\ accountRequest[r].email \in Email

AccountInv == AccountShape /\ I!AccountHasOneOwner

LEMMA AccountInit == I!Init => AccountInv
BY DEF I!Init, I!Idle, AccountInv, AccountShape, AccountRequest, I!AccountHasOneOwner

(* A request moves and the rows stay. *)
LEMMA AccountMoves ==
  ASSUME AccountInv, NEW r \in Registration, UNCHANGED <<accountUser, accountHomestead>>,
         NEW q \in AccountRequest, accountRequest' = [accountRequest EXCEPT ![r] = q],
         q.step # "idle" => q.of \in Registrant /\ q.email \in Email,
         q.step = "session" => accountUser[q.email] = q.of,
         \/ accountSession' = accountSession
         \/ \E s \in [email : Email, by : Registrant] :
              accountSession' = accountSession \union {s} /\ accountUser[s.email] = s.by
  PROVE  AccountInv'
<1>1. AccountShape'
  BY DEF AccountInv, AccountShape
<1>2. \A s \in accountSession' : accountUser'[s.email] = s.by
  BY DEF AccountInv, I!AccountHasOneOwner
<1>3. \A d \in Registration : accountRequest'[d].step = "session" => accountUser'[accountRequest'[d].email] = accountRequest'[d].of
  BY DEF AccountInv, AccountShape, I!AccountHasOneOwner
<1>4. \A e \in Email : e \in accountHomestead' <=> accountUser'[e] # Nobody
  BY DEF AccountInv, I!AccountHasOneOwner
<1>. QED BY <1>1, <1>2, <1>3, <1>4 DEF AccountInv, I!AccountHasOneOwner

LEMMA AccountAsks ==
  ASSUME AccountInv, NEW r \in Registration, NEW p \in Registrant, NEW e \in Email,
         I!Login(r, p, e) \/ \E code \in BOOLEAN : I!Register(r, p, e, code)
  PROVE  AccountInv'
<1>1. ASSUME NEW step \in {"hash", "session", "over"}, step = "session" => accountUser[e] = p,
             accountRequest' = [accountRequest EXCEPT ![r] = [step |-> step, of |-> p, email |-> e]],
             UNCHANGED <<accountUser, accountHomestead, accountSession>>
      PROVE  AccountInv'
  BY <1>1, AccountMoves DEF AccountRequest
<1>2. CASE I!Login(r, p, e)
  BY <1>1, <1>2 DEF I!Login
<1>3. ASSUME NEW code \in BOOLEAN, I!Register(r, p, e, code) PROVE AccountInv'
  BY <1>1, <1>3 DEF I!Register
<1>. QED BY <1>2, <1>3

LEMMA AccountStepsOn ==
  ASSUME AccountInv, NEW r \in Registration, accountRequest[r].step \in {"hash", "session"},
         NEW step \in {"session", "over"}, I!At(r, step),
         step = "session" => accountUser[accountRequest[r].email] = accountRequest[r].of,
         UNCHANGED <<accountUser, accountHomestead>>,
         \/ accountSession' = accountSession
         \/ \E s \in [email : Email, by : Registrant] :
              accountSession' = accountSession \union {s} /\ accountUser[s.email] = s.by
  PROVE  AccountInv'
<1>. DEFINE q == [accountRequest[r] EXCEPT !.step = step]
<1>1. /\ q \in AccountRequest /\ q.step = step /\ q.of \in Registrant /\ q.email \in Email
      /\ q.of = accountRequest[r].of /\ q.email = accountRequest[r].email
  BY DEF AccountInv, AccountShape, AccountRequest
<1>2. accountRequest' = [accountRequest EXCEPT ![r] = q]
  BY DEF I!At
<1>. HIDE DEF q
<1>. QED BY <1>1, <1>2, AccountMoves

LEMMA AccountCreates ==
  ASSUME Nobody \notin Registrant, AccountInv, NEW r \in Registration, I!CreateUser(r)
  PROVE  AccountInv'
<1>. DEFINE e == accountRequest[r].email
            p == accountRequest[r].of
<1>1. accountRequest[r].step = "hash" /\ e \in Email /\ p \in Registrant
  BY DEF I!CreateUser, AccountInv, AccountShape
<1>2. CASE ~I!Unique(e)
  BY <1>2, AccountStepsOn DEF I!CreateUser, I!Refused
<1>3. CASE I!Unique(e)
  <2>1. /\ accountUser[e] = Nobody /\ accountUser' = [accountUser EXCEPT ![e] = p] /\ accountHomestead' = accountHomestead \union {e}
        /\ I!At(r, "session") /\ accountSession' = accountSession
    BY <1>3 DEF I!CreateUser, I!Unique
  <2>2. /\ accountRequest' \in [Registration -> AccountRequest]
        /\ accountRequest'[r].step = "session" /\ accountRequest'[r].of = p /\ accountRequest'[r].email = e
        /\ \A d \in Registration \ {r} : accountRequest'[d] = accountRequest[d]
    BY <2>1 DEF I!At, AccountInv, AccountShape, AccountRequest
  <2>. HIDE DEF e, p
  <2>3. AccountShape'
    BY <1>1, <2>1, <2>2 DEF AccountInv, AccountShape
  <2>4. \A f \in Email : f # e => accountUser'[f] = accountUser[f]
    BY <2>1 DEF AccountInv, AccountShape
  <2>5. accountUser'[e] = p
    BY <1>1, <2>1 DEF AccountInv, AccountShape
  <2>6. \A s \in accountSession' : accountUser'[s.email] = s.by
    BY <2>1, <2>4 DEF AccountInv, AccountShape, I!AccountHasOneOwner
  <2>7. \A d \in Registration : accountRequest'[d].step = "session" => accountUser'[accountRequest'[d].email] = accountRequest'[d].of
    BY <2>1, <2>2, <2>4, <2>5 DEF AccountInv, AccountShape, I!AccountHasOneOwner
  <2>8. \A f \in Email : f \in accountHomestead' <=> accountUser'[f] # Nobody
    BY <1>1, <2>1, <2>4, <2>5 DEF AccountInv, I!AccountHasOneOwner
  <2>. QED BY <2>3, <2>6, <2>7, <2>8 DEF AccountInv, I!AccountHasOneOwner
<1>. QED BY <1>2, <1>3

LEMMA AccountLogsIn ==
  ASSUME AccountInv, NEW r \in Registration, I!CreateSession(r)
  PROVE  AccountInv'
<1>. DEFINE s == [email |-> accountRequest[r].email, by |-> accountRequest[r].of]
<1>1. s \in [email : Email, by : Registrant] /\ accountUser[s.email] = s.by
  BY DEF I!CreateSession, AccountInv, AccountShape, I!AccountHasOneOwner
<1>2. /\ accountRequest[r].step = "session" /\ accountSession' = accountSession \union {s} /\ I!At(r, "over")
      /\ UNCHANGED <<accountUser, accountHomestead>>
  BY DEF I!CreateSession
<1>. HIDE DEF s
<1>. QED BY <1>1, <1>2, AccountStepsOn

LEMMA AccountStep ==
  ASSUME Nobody \notin Registrant, AccountInv, [I!Next]_I!vars
  PROVE  AccountInv'
<1>1. CASE UNCHANGED I!vars
  BY <1>1 DEF I!vars, AccountInv, AccountShape, I!AccountHasOneOwner
<1>2. ASSUME NEW r \in Registration, I!Lost(r) PROVE AccountInv'
  BY <1>2, AccountStepsOn DEF I!Lost, I!Refused
<1>3. CASE I!Next
  BY <1>2, <1>3, AccountAsks, AccountCreates, AccountLogsIn DEF I!Next
<1>. QED BY <1>1, <1>3

(* Of the people who register one address at once one gets the account, no  *)
(* other a session for it, its password never changes hands and it has its  *)
(* homestead, for any number of people, addresses and requests (register).  *)
THEOREM AccountsKeepTheirOwner == CourseSpec => []AccountHasOneOwner
<1>. DEFINE Inv == part = "accounts" => AccountInv
<1>1. CourseInit => Inv
  BY AccountInit, CourseAssumption DEF CourseInit
<1>2. Inv /\ [CourseNext]_courseVars => Inv'
  <2>1. [CourseNext]_courseVars => UNCHANGED part /\ (part = "accounts" => [I!Next]_I!vars)
    BY DEF CourseNext, courseVars, accountVars, I!vars
  <2>. QED BY <2>1, AccountStep, CourseAssumption
<1>3. Inv => AccountHasOneOwner
  BY DEF AccountInv, AccountHasOneOwner
<1>. QED BY <1>1, <1>2, <1>3, PTL DEF CourseSpec

----------------------------------------------------------------------------
(* Lessons.  A stage is told by its row and by the time it really ran.      *)

(* Whole seconds. *)
LEMMA Times ==
  ASSUME NEW n \in Int, NEW a \in Int, NEW b \in Int
  PROVE  n * (a + b) = n * a + n * b
OBVIOUS

LEMMA Quotient ==
  ASSUME NEW n \in Nat \ {0}, NEW d \in Int
  PROVE  d \div n \in Int /\ n * (d \div n) <= d /\ d < n * (d \div n) + n
OBVIOUS

LEMMA TimesOne ==
  ASSUME NEW n \in Int, NEW a \in Int
  PROVE  n * a \in Int /\ n * (a + 1) = n * a + n
OBVIOUS

LEMMA TimesGrows ==
  ASSUME NEW n \in Nat, NEW a \in Int, NEW b \in Int, a <= b
  PROVE  n * a <= n * b
<1>1. PICK k \in Nat : b = a + k
  <2>1. b - a \in Nat /\ b = a + (b - a)
    OBVIOUS
  <2>. QED BY <2>1
<1>2. n * b = n * a + n * k
  BY <1>1, Times
<1>3. n * k >= 0
  BY <1>1
<1>4. n * a \in Int /\ n * k \in Int
  BY <1>1
<1>. QED BY <1>2, <1>3, <1>4

LEMMA QuotientGrows ==
  ASSUME NEW n \in Nat \ {0}, NEW a \in Int, NEW b \in Int, a <= b
  PROVE  a \div n <= b \div n
<1>. DEFINE p == a \div n  q == b \div n
<1>1. /\ p \in Int /\ n * p <= a /\ q \in Int /\ b < n * q + n
  BY Quotient
<1>2. SUFFICES ASSUME q + 1 <= p PROVE FALSE
  BY <1>1
<1>. HIDE DEF p, q
<1>3. n * (q + 1) <= n * p /\ n * (q + 1) = n * q + n /\ n * p \in Int /\ n * q \in Int
  BY <1>1, <1>2, TimesGrows, TimesOne
<1>. QED BY <1>1, <1>3

LEMMA QuotientLess ==
  ASSUME NEW n \in Nat \ {0}, NEW d \in Int, NEW p \in Int
  PROVE  d \div n - p = (d - n * p) \div n
<1>. DEFINE q == d \div n  x == d - n * p  r == x \div n
<1>1. n * p \in Int /\ x \in Int /\ x = d - n * p
  BY TimesOne
<1>2. q \in Int /\ n * q <= d /\ d < n * q + n
  BY Quotient
<1>. HIDE DEF x, q
<1>3. r \in Int /\ n * r <= x /\ x < n * r + n
  BY <1>1, Quotient
<1>. HIDE DEF r
<1>4. n * (r + p) = n * r + n * p /\ n * (r + p) \in Int /\ n * r \in Int /\ n * q \in Int /\ r + p \in Int
  BY <1>1, <1>2, <1>3, Times, TimesOne
<1>5. ~ (q < r + p)
  <2>. SUFFICES ASSUME q + 1 <= r + p PROVE FALSE
    BY <1>2, <1>3
  <2>1. n * (q + 1) <= n * (r + p) /\ n * (q + 1) = n * q + n
    BY <1>2, <1>4, TimesGrows, TimesOne
  <2>. QED BY <1>1, <1>2, <1>3, <1>4, <2>1
<1>6. ~ (q > r + p)
  <2>. SUFFICES ASSUME r + p + 1 <= q PROVE FALSE
    BY <1>2, <1>3
  <2>1. n * (r + p + 1) <= n * q /\ n * (r + p + 1) = n * (r + p) + n
    BY <1>2, <1>4, TimesGrows, TimesOne
  <2>. QED BY <1>1, <1>2, <1>3, <1>4, <2>1
<1>. QED BY <1>2, <1>3, <1>5, <1>6 DEF q, r, x

Bounds ==
  /\ StageCount \in Nat /\ Duration \in Nat /\ Second \in Nat \ {0}
  /\ LessonHorizon \in Nat /\ MostExtra \in Nat /\ MostActions \in Nat

LEMMA BoundsHold == Bounds
BY CourseAssumption DEF Bounds

(* The teacher's requests do not overlap. *)
OneRequest == \A c, d \in LessonCall : c = d

StageRecord == [status : L!StageStatus, started : Int, pausedAt : Int, paused : Int, extra : Int,
                version : Int]

Act == {"none", "start", "pause", "extend", "complete", "end_early", "unlock_next"}

StageRequest ==
  [pc : {"idle", "peek", "write"}, act : Act, on : 0..StageCount, seen : StageRecord,
   cur : 0..StageCount]

LessonShape ==
  /\ lessonSession \in [status : {"absent", "draft", "live"}, current : 0..StageCount, version : Int]
  /\ lessonStage \in [L!Stage -> StageRecord]
  /\ lessonRan \in [L!Stage -> Nat] /\ lessonNow \in Nat
  /\ lessonResumed \in [L!Stage -> Nat]
  /\ lessonCall \in [LessonCall -> StageRequest]
  /\ lessonShown \in [LessonTab -> [on : 0..StageCount, status : L!StageStatus, version : Int]]

(* What a stage was not running, of the time since it began, is its pauses: *)
(* the whole seconds that were counted, and less than one for each resume.  *)
Accounted(idle, paused, resumed) ==
  Second * paused <= idle /\ idle <= Second * paused + (Second - 1) * resumed

(* The rows account for the time a stage has run. *)
RowTellsTime(s) ==
  /\ lessonStage[s].status = "draft" =>
       lessonStage[s] = L!Draft /\ lessonRan[s] = 0 /\ lessonResumed[s] = 0
  /\ lessonStage[s].status = "running" =>
       /\ lessonStage[s].started >= 0 /\ lessonStage[s].paused >= 0
       /\ Accounted(lessonNow - lessonStage[s].started - lessonRan[s],
                    lessonStage[s].paused, lessonResumed[s])
  /\ lessonStage[s].status = "paused" =>
       /\ lessonStage[s].started >= 0 /\ lessonStage[s].paused >= 0
       /\ lessonStage[s].pausedAt <= lessonNow
       /\ Accounted(lessonStage[s].pausedAt - lessonStage[s].started - lessonRan[s],
                    lessonStage[s].paused, lessonResumed[s])

TimeTold == \A s \in L!Stage : RowTellsTime(s)

(* What a request has read is still there when it writes. *)
ReadHolds ==
  \A c \in LessonCall : lessonCall[c].pc # "idle" =>
    /\ lessonSession.status # "absent" /\ lessonCall[c].on \in L!Stage
    /\ lessonCall[c].seen = lessonStage[lessonCall[c].on] /\ lessonCall[c].cur = lessonSession.current
    /\ L!Legal(lessonCall[c].act, lessonStage[lessonCall[c].on].status) /\ lessonCall[c].act # "none"
    /\ lessonClient = "panel" => L!Passed(lessonCall[c].on)
    /\ lessonCall[c].act = "unlock_next" => lessonCall[c].on < StageCount

NotStarted ==
  lessonSession.status = "absent" =>
    /\ lessonSession.current = 0 /\ lessonClient = "none"
    /\ \A s \in L!Stage : lessonStage[s] = L!Draft
    /\ \A b \in LessonTab : lessonShown[b].on = 0

(* A stage ends for good: what a panel has shown, however long ago, is a    *)
(* stage whose predecessors have ended.                                     *)
StagesFollow ==
  /\ \A s \in L!Stage : lessonStage[s].status # "draft" => L!Passed(s)
  /\ lessonSession.current # 0 => L!Passed(lessonSession.current)
  /\ lessonSession.current = 0 => \A s \in L!Stage : lessonStage[s].status = "draft"
  /\ \A b \in LessonTab : lessonShown[b].on # 0 => L!Passed(lessonShown[b].on)

LessonInv ==
  /\ LessonShape /\ TimeTold /\ ReadHolds /\ NotStarted
  /\ lessonClient = "panel" => StagesFollow

LEMMA DraftIsRecord == L!Draft \in StageRecord /\ L!Draft.status = "draft"
BY DEF L!Draft, StageRecord, L!StageStatus

LEMMA LessonInit ==
  ASSUME Bounds
  PROVE  L!Init => LessonInv
<1>. SUFFICES ASSUME L!Init PROVE LessonInv
  OBVIOUS
<1>1. LessonShape
  BY DraftIsRecord DEF L!Init, LessonShape, L!NoCall, L!None, L!Nothing, L!StageStatus, StageRequest, Act, Bounds
<1>2. TimeTold /\ NotStarted /\ lessonClient # "panel"
  BY DraftIsRecord DEF L!Init, TimeTold, RowTellsTime, NotStarted, L!Stage, L!None, L!Nothing
<1>3. ReadHolds
  BY DEF L!Init, ReadHolds, L!NoCall
<1>. QED BY <1>1, <1>2, <1>3 DEF LessonInv

LEMMA LessonBegins ==
  ASSUME Bounds, LessonInv, L!CreateSession
  PROVE  LessonInv'
<1>1. /\ lessonSession.status = "absent" /\ UNCHANGED <<lessonStage, lessonCall, lessonRan, lessonResumed, lessonNow, lessonShown>>
      /\ lessonSession' = [lessonSession EXCEPT !.status = "draft"]
  BY DEF L!CreateSession
<1>2. lessonSession'.status = "draft" /\ lessonSession'.current = lessonSession.current
  BY <1>1 DEF LessonInv, LessonShape
<1>3. LessonShape'
  BY <1>1 DEF LessonInv, LessonShape
<1>4. TimeTold' /\ NotStarted'
  BY <1>1, <1>2 DEF LessonInv, TimeTold, RowTellsTime, NotStarted
<1>5. ReadHolds'
  <2>1. \A c \in LessonCall : lessonCall[c].pc = "idle"
    BY <1>1 DEF LessonInv, ReadHolds
  <2>. QED BY <1>1, <2>1 DEF ReadHolds
<1>6. StagesFollow'
  <2>1. lessonSession.current = 0 /\ \A b \in LessonTab : lessonShown[b].on = 0
    BY <1>1 DEF LessonInv, NotStarted
  <2>2. \A s \in L!Stage : lessonStage[s].status = "draft"
    BY <1>1, DraftIsRecord DEF LessonInv, NotStarted
  <2>. QED BY <1>1, <1>2, <2>1, <2>2 DEF StagesFollow
<1>. QED BY <1>3, <1>4, <1>5, <1>6 DEF LessonInv

LEMMA LessonTicks ==
  ASSUME Bounds, LessonInv, L!Tick
  PROVE  LessonInv'
<1>1. /\ lessonNow' = lessonNow + 1
      /\ UNCHANGED <<lessonSession, lessonStage, lessonCall, lessonClient, lessonResumed, lessonShown>>
      /\ lessonRan' = [s \in L!Stage |-> lessonRan[s] + (IF lessonStage[s].status = "running" THEN 1 ELSE 0)]
  BY DEF L!Tick
<1>2. \A s \in L!Stage : lessonRan[s] \in Nat /\ lessonStage[s] \in StageRecord
  BY DEF LessonInv, LessonShape
<1>3. LessonShape'
  BY <1>1, <1>2 DEF LessonInv, LessonShape
<1>4. TimeTold'
  <2>. SUFFICES ASSUME NEW s \in L!Stage PROVE RowTellsTime(s)'
    BY DEF TimeTold
  <2>1. RowTellsTime(s) /\ lessonRan'[s] = lessonRan[s] + (IF lessonStage[s].status = "running" THEN 1 ELSE 0)
    BY <1>1 DEF LessonInv, TimeTold
  <2>2. lessonNow' = lessonNow + 1 /\ lessonStage'[s] = lessonStage[s] /\ lessonNow \in Nat
    BY <1>1 DEF LessonInv, LessonShape
  <2>3. /\ lessonRan[s] \in Nat /\ lessonStage[s].started \in Int
        /\ lessonStage[s].pausedAt \in Int /\ lessonStage[s].paused \in Int
    BY <1>2 DEF StageRecord
  <2>4. lessonResumed'[s] = lessonResumed[s]
    BY <1>1
  <2>5. lessonStage[s].status = "running" =>
          lessonNow' - lessonStage[s].started - lessonRan'[s] = lessonNow - lessonStage[s].started - lessonRan[s]
    BY <2>1, <2>2, <2>3
  <2>6. lessonStage[s].status # "running" => lessonRan'[s] = lessonRan[s]
    BY <2>1, <2>3
  <2>. QED BY <2>1, <2>2, <2>3, <2>4, <2>5, <2>6 DEF RowTellsTime, Accounted
<1>5. ReadHolds' /\ NotStarted'
  BY <1>1 DEF LessonInv, ReadHolds, NotStarted, L!Passed
<1>6. lessonClient' = "panel" => StagesFollow'
  BY <1>1 DEF LessonInv, StagesFollow, L!Passed
<1>. QED BY <1>3, <1>4, <1>5, <1>6 DEF LessonInv

(* What a panel is shown is a stage whose predecessors have ended. *)
LEMMA LessonShows ==
  ASSUME Bounds, LessonInv, NEW b \in LessonTab, L!Refresh(b)
  PROVE  LessonInv'
<1>1. PICK s \in L!Stage : L!Leading(s) /\ lessonShown' = [lessonShown EXCEPT ![b] =
               [on |-> s, status |-> lessonStage[s].status, version |-> lessonStage[s].version]]
  BY DEF L!Refresh
<1>2. /\ UNCHANGED <<lessonSession, lessonStage, lessonRan, lessonResumed, lessonNow, lessonCall, lessonClient>>
      /\ lessonClient = "panel"
  BY DEF L!Refresh
<1>3. lessonStage[s] \in StageRecord /\ s \in 1..StageCount
  BY DEF LessonInv, LessonShape, L!Stage
<1>4. LessonShape'
  BY <1>1, <1>2, <1>3 DEF LessonInv, LessonShape, StageRecord
<1>5. TimeTold' /\ ReadHolds'
  BY <1>2 DEF LessonInv, TimeTold, RowTellsTime, ReadHolds, L!Passed
<1>6. L!Passed(s)
  <2>1. CASE lessonSession.current # 0
    BY <1>1, <1>2, <2>1 DEF L!Leading, L!None, LessonInv, StagesFollow
  <2>2. CASE lessonSession.current = 0
    <3>1. \A t \in L!Stage : s <= t
      BY <1>1, <1>2, <2>2 DEF L!Leading, L!None, LessonInv, StagesFollow
    <3>2. \A t \in L!Stage : t \in Int
      BY DEF L!Stage, Bounds
    <3>. QED BY <1>3, <3>1, <3>2 DEF L!Passed
  <2>. QED BY <2>1, <2>2
<1>7. StagesFollow'
  <2>1. \A a \in LessonTab : lessonShown'[a].on = IF a = b THEN s ELSE lessonShown[a].on
    BY <1>1 DEF LessonInv, LessonShape
  <2>. QED BY <1>2, <1>6, <2>1 DEF LessonInv, StagesFollow, L!Passed
<1>8. NotStarted'
  <2>. SUFFICES ASSUME lessonSession.status = "absent" PROVE FALSE
    BY <1>2 DEF NotStarted
  <2>. QED BY <1>2 DEF LessonInv, NotStarted
<1>. QED BY <1>4, <1>5, <1>7, <1>8 DEF LessonInv

(* Only the request moves. *)
LEMMA LessonReads ==
  ASSUME Bounds, OneRequest, LessonInv, NEW c \in LessonCall, L!Peek(c)
           \/ \E act \in Act \ {"none"}, s \in L!Stage : L!Look(c, act, s)
  PROVE  LessonInv'
<1>1. UNCHANGED <<lessonSession, lessonStage, lessonRan, lessonResumed, lessonNow, lessonClient, lessonShown>>
  BY DEF L!Peek, L!Look
<1>2. lessonCall' \in [LessonCall -> StageRequest] /\ ReadHolds'
  <2>1. CASE L!Peek(c)
    <3>. DEFINE r == [lessonCall[c] EXCEPT !.pc = "write"]
    <3>1. lessonCall[c] \in StageRequest /\ lessonCall[c].pc = "peek"
      BY <2>1 DEF L!Peek, LessonInv, LessonShape
    <3>2. /\ r \in StageRequest /\ r.act = lessonCall[c].act /\ r.on = lessonCall[c].on
          /\ r.seen = lessonCall[c].seen /\ r.cur = lessonCall[c].cur
      BY <3>1 DEF StageRequest
    <3>3. lessonCall' = [lessonCall EXCEPT ![c] = L!NoCall] \/ lessonCall' = [lessonCall EXCEPT ![c] = r]
      BY <2>1 DEF L!Peek
    <3>4. L!NoCall \in StageRequest /\ L!NoCall.pc = "idle"
      BY DraftIsRecord DEF L!NoCall, L!None, StageRequest, Act, Bounds
    <3>. HIDE DEF r
    <3>5. lessonCall' \in [LessonCall -> StageRequest]
      BY <3>2, <3>3, <3>4 DEF LessonInv, LessonShape
    <3>6. \A d \in LessonCall : d = c
      BY DEF OneRequest
    <3>7. lessonCall'[c] = L!NoCall \/ lessonCall'[c] = r
      BY <3>3 DEF LessonInv, LessonShape
    <3>. QED BY <1>1, <3>1, <3>2, <3>4, <3>5, <3>6, <3>7 DEF LessonInv, ReadHolds, L!Passed
  <2>2. ASSUME NEW act \in Act \ {"none"}, NEW s \in L!Stage, L!Look(c, act, s)
        PROVE  lessonCall' \in [LessonCall -> StageRequest] /\ ReadHolds'
    <3>1. PICK pc \in {"peek", "write"} :
            lessonCall' = [lessonCall EXCEPT ![c] = [pc |-> pc, act |-> act, on |-> s, seen |-> lessonStage[s],
                                         cur |-> lessonSession.current]]
      BY <2>2 DEF L!Look
    <3>2. /\ lessonStage[s] \in StageRecord /\ lessonSession.current \in 0..StageCount /\ s \in 0..StageCount
      BY DEF LessonInv, LessonShape, L!Stage
    <3>3. lessonCall' \in [LessonCall -> StageRequest]
      BY <3>1, <3>2 DEF LessonInv, LessonShape, StageRequest
    <3>4. /\ lessonSession.status # "absent" /\ L!Legal(act, lessonStage[s].status)
          /\ lessonClient = "panel" => \E b \in LessonTab : L!Offered(b, act, s)
          /\ act = "unlock_next" => s < StageCount
      BY <2>2 DEF L!Look
    <3>7. lessonClient = "panel" => L!Passed(s)
      <4>1. s # 0
        BY DEF L!Stage
      <4>. QED BY <3>4, <4>1 DEF L!Offered, LessonInv, StagesFollow
    <3>5. \A d \in LessonCall : d = c
      BY DEF OneRequest
    <3>6. lessonCall'[c] = [pc |-> pc, act |-> act, on |-> s, seen |-> lessonStage[s], cur |-> lessonSession.current]
      BY <3>1 DEF LessonInv, LessonShape
    <3>. QED BY <1>1, <3>3, <3>4, <3>5, <3>6, <3>7 DEF ReadHolds, L!Passed
  <2>. QED BY <2>1, <2>2
<1>3. LessonShape'
  BY <1>1, <1>2 DEF LessonInv, LessonShape
<1>4. TimeTold' /\ NotStarted'
  BY <1>1 DEF LessonInv, TimeTold, RowTellsTime, NotStarted
<1>5. lessonClient' = "panel" => StagesFollow'
  BY <1>1 DEF LessonInv, StagesFollow, L!Passed
<1>. QED BY <1>2, <1>3, <1>4, <1>5 DEF LessonInv

(* The rows a stage may become. *)
LEMMA RowsWritten ==
  ASSUME NEW row \in StageRecord, NEW n \in Int, NEW m \in Int, NEW k \in Int, NEW st \in L!StageStatus
  PROVE  /\ [row EXCEPT !.status = "running", !.pausedAt = -1, !.started = n, !.paused = m,
                        !.version = k] \in StageRecord
         /\ [row EXCEPT !.status = "paused", !.pausedAt = n, !.version = k] \in StageRecord
         /\ [row EXCEPT !.extra = n, !.version = k] \in StageRecord
         /\ [row EXCEPT !.status = st, !.pausedAt = -1, !.version = k] \in StageRecord
<1>. DEFINE v == [row EXCEPT !.version = k]
            w == [v EXCEPT !.pausedAt = -1]
            x == [w EXCEPT !.started = n]
            y == [x EXCEPT !.paused = m]
            z == [v EXCEPT !.pausedAt = n]
<1>1. v \in StageRecord
  BY DEF StageRecord
<1>2. w \in StageRecord /\ z \in StageRecord /\ [v EXCEPT !.extra = n] \in StageRecord
  <2>. HIDE DEF v
  <2>1. w \in StageRecord
    BY <1>1 DEF StageRecord
  <2>2. z \in StageRecord
    BY <1>1 DEF StageRecord
  <2>3. [v EXCEPT !.extra = n] \in StageRecord
    BY <1>1 DEF StageRecord
  <2>. QED BY <2>1, <2>2, <2>3
<1>3. x \in StageRecord
  BY <1>2 DEF StageRecord
<1>4. y \in StageRecord
  BY <1>3 DEF StageRecord
<1>5. /\ [y EXCEPT !.status = "running"] \in StageRecord
      /\ [z EXCEPT !.status = "paused"] \in StageRecord
      /\ [w EXCEPT !.status = st] \in StageRecord
  BY <1>2, <1>4 DEF StageRecord, L!StageStatus
<1>6. /\ [row EXCEPT !.status = "running", !.pausedAt = -1, !.started = n, !.paused = m, !.version = k]
            = [y EXCEPT !.status = "running"]
      /\ [row EXCEPT !.status = "paused", !.pausedAt = n, !.version = k] = [z EXCEPT !.status = "paused"]
      /\ [row EXCEPT !.extra = n, !.version = k] = [v EXCEPT !.extra = n]
      /\ [row EXCEPT !.status = st, !.pausedAt = -1, !.version = k] = [w EXCEPT !.status = st]
  BY DEF StageRecord
<1>. QED BY ONLY <1>2, <1>5, <1>6

LEMMA LegalActs ==
  ASSUME NEW status
  PROVE  /\ L!Legal("start", status) <=> status \in {"draft", "paused"}
         /\ L!Legal("pause", status) <=> status = "running"
         /\ \A act \in {"extend", "complete", "end_early"} : L!Legal(act, status) <=> status \in L!Active
         /\ L!Legal("unlock_next", status) <=> status \in L!Ended
BY DEF L!Legal

(* A pause that is over counts for its whole seconds. *)
LEMMA PauseCounted ==
  ASSUME Bounds, NEW from \in Int, NEW to \in Nat, from <= to, NEW idle \in Int, NEW paused \in Int,
         NEW resumed \in Nat, paused >= 0, Accounted(from - idle, paused, resumed)
  PROVE  LET more == L!Minus(to, from) \div Second IN
           more \in Nat /\ Accounted(to - idle, paused + more, resumed + 1)
<1>. DEFINE more == L!Minus(to, from) \div Second
<1>1. L!Minus(to, from) = to - from /\ to - from \in Nat
  BY DEF L!Minus
<1>2. /\ more \in Int /\ Second * more <= to - from /\ to - from < Second * more + Second
  BY <1>1, Quotient DEF Bounds
<1>3. Second \in Nat \ {0}
  BY DEF Bounds
<1>. HIDE DEF more
<1>4. /\ Second * (paused + more) = Second * paused + Second * more
      /\ (Second - 1) * (resumed + 1) = (Second - 1) * resumed + (Second - 1)
      /\ Second * paused \in Int /\ Second * more \in Int /\ (Second - 1) * resumed \in Int
  BY <1>2, <1>3, Times, TimesOne
<1>5. more \in Nat
  <2>. SUFFICES ASSUME more + 1 <= 0 PROVE FALSE
    BY <1>2
  <2>1. Second * (more + 1) <= Second * 0 /\ Second * (more + 1) = Second * more + Second /\ Second * 0 = 0
    BY <1>2, <1>3, TimesGrows, TimesOne
  <2>. QED BY <1>1, <1>2, <1>3, <1>4, <2>1
<1>6. Accounted(to - idle, paused + more, resumed + 1)
  BY <1>2, <1>3, <1>4 DEF Accounted
<1>. QED BY <1>5, <1>6 DEF more

(* A write: the row of one stage and the session's; the request is over.    *)
LEMMA LessonWrites ==
  ASSUME Bounds, OneRequest, LessonInv, NEW c \in LessonCall, NEW s \in L!Stage, NEW next \in StageRecord,
         lessonCall' = [lessonCall EXCEPT ![c] = L!NoCall],
         UNCHANGED <<lessonRan, lessonNow, lessonClient, lessonShown>>,
         lessonResumed' \in [L!Stage -> Nat], \A t \in L!Stage \ {s} : lessonResumed'[t] = lessonResumed[t],
         lessonStage' = [lessonStage EXCEPT ![s] = next],
         lessonSession.status # "absent",
         lessonSession' \in [status : {"draft", "live"}, current : 0..StageCount, version : Int],
         next.status # "draft",
         RowTellsTime(s)',
         lessonClient = "panel" =>
           /\ L!Passed(s)
           /\ lessonStage[s].status \in L!Ended => next.status \in L!Ended
           /\ \/ lessonSession'.current = s
              \/ lessonSession'.current = lessonSession.current /\ lessonSession.current # 0
              \/ lessonSession'.current = s + 1 /\ next.status \in L!Ended
  PROVE  LessonInv'
<1>1. lessonStage'[s] = next /\ \A t \in L!Stage \ {s} : lessonStage'[t] = lessonStage[t]
  BY DEF LessonInv, LessonShape
<1>2. lessonCall' \in [LessonCall -> StageRequest] /\ \A d \in LessonCall : lessonCall'[d].pc = "idle"
  BY DraftIsRecord DEF LessonInv, LessonShape, OneRequest, L!NoCall, L!None, StageRequest, Act, Bounds
<1>3. LessonShape'
  BY <1>2 DEF LessonInv, LessonShape
<1>4. TimeTold'
  <2>1. ASSUME NEW t \in L!Stage, t # s PROVE RowTellsTime(t)'
    BY <1>1, <2>1 DEF LessonInv, TimeTold, RowTellsTime
  <2>. QED BY <2>1 DEF TimeTold
<1>5. ReadHolds'
  BY <1>2 DEF ReadHolds
<1>6. lessonSession'.status # "absent" /\ NotStarted'
  BY DEF NotStarted
<1>7. ASSUME lessonClient = "panel" PROVE StagesFollow'
  <2>1. \A t \in L!Stage : lessonStage[t].status \in L!Ended => lessonStage'[t].status \in L!Ended
    BY <1>1, <1>7
  <2>2. \A t \in L!Stage : t \in 1..StageCount
    BY DEF L!Stage
  <2>3. ASSUME NEW t \in Int, L!Passed(t) PROVE L!Passed(t)'
    BY <2>1, <2>3 DEF L!Passed, L!Ended, L!Stage
  <2>4. L!Passed(s)'
    BY <1>7, <2>2, <2>3 DEF Bounds
  <2>5. next.status \in L!Ended => L!Passed(s + 1)'
    <3>. SUFFICES ASSUME next.status \in L!Ended, NEW t \in L!Stage, t < s + 1
                  PROVE  lessonStage'[t].status \in L!Ended
      BY DEF L!Passed, L!Ended, L!Stage
    <3>1. t < s \/ t = s
      BY <2>2 DEF Bounds
    <3>. QED BY <1>1, <2>4, <3>1 DEF L!Passed, L!Ended, L!Stage
  <2>6. \A t \in L!Stage : lessonStage'[t].status # "draft" => L!Passed(t)'
    <3>1. ASSUME NEW t \in L!Stage, t # s, lessonStage'[t].status # "draft" PROVE L!Passed(t)'
      BY <1>1, <1>7, <2>2, <2>3, <3>1 DEF LessonInv, StagesFollow, Bounds
    <3>. QED BY <2>4, <3>1
  <2>7. lessonSession'.current # 0 /\ L!Passed(lessonSession.current)'
    <3>1. CASE lessonSession'.current = s
      BY <2>2, <2>4, <3>1 DEF L!Passed, Bounds
    <3>2. CASE lessonSession'.current = lessonSession.current /\ lessonSession.current # 0
      <4>1. L!Passed(lessonSession.current) /\ lessonSession.current \in Int
        BY <1>7, <3>2 DEF LessonInv, LessonShape, StagesFollow, Bounds
      <4>2. \A t \in L!Stage : t < lessonSession.current => lessonStage[t].status \in L!Ended
        BY <4>1 DEF L!Passed
      <4>. QED BY <2>1, <3>2, <4>2 DEF L!Passed, L!Ended, L!Stage
    <3>3. CASE lessonSession'.current = s + 1 /\ next.status \in L!Ended
      BY <2>2, <2>5, <3>3 DEF L!Passed, Bounds
    <3>. QED BY <1>7, <3>1, <3>2, <3>3
  <2>8. \A b \in LessonTab : lessonShown'[b].on # 0 => L!Passed(lessonShown[b].on)'
    <3>. SUFFICES ASSUME NEW b \in LessonTab, lessonShown[b].on # 0 PROVE L!Passed(lessonShown[b].on)'
      OBVIOUS
    <3>1. L!Passed(lessonShown[b].on) /\ lessonShown' = lessonShown
      BY <1>7 DEF LessonInv, StagesFollow
    <3>. QED BY <2>1, <3>1 DEF L!Passed, L!Ended, L!Stage
  <2>. QED BY <2>6, <2>7, <2>8 DEF StagesFollow
<1>. QED BY <1>3, <1>4, <1>5, <1>6, <1>7 DEF LessonInv

LEMMA LessonActs ==
  ASSUME Bounds, OneRequest, LessonInv, NEW c \in LessonCall, L!Write(c)
  PROVE  LessonInv'
<1>0. PICK s \in L!Stage, row \in StageRecord : s = lessonCall[c].on /\ row = lessonStage[s]
  BY DEF L!Write, LessonInv, LessonShape, ReadHolds
<1>1. /\ lessonSession.status # "absent" /\ lessonCall[c].seen = row
      /\ L!Legal(lessonCall[c].act, row.status)
      /\ lessonClient = "panel" => L!Passed(s)
      /\ lessonCall[c].act = "unlock_next" => s < StageCount
  BY <1>0 DEF L!Write, LessonInv, ReadHolds
<1>2. /\ lessonSession.current \in 0..StageCount /\ lessonSession.version \in Int
      /\ lessonNow \in Nat /\ lessonRan[s] \in Nat /\ RowTellsTime(s)
      /\ row.started \in Int /\ row.pausedAt \in Int /\ row.paused \in Int
  BY <1>0 DEF LessonInv, LessonShape, TimeTold, StageRecord
<1>3. UNCHANGED <<lessonRan, lessonNow, lessonClient, lessonShown>> /\ lessonCall' = [lessonCall EXCEPT ![c] = L!NoCall]
  BY DEF L!Write
<1>4. lessonResumed \in [L!Stage -> Nat] /\ row.version + 1 \in Int /\ row.status \in L!StageStatus
  BY <1>0 DEF LessonInv, LessonShape, StageRecord
<1>5. /\ [lessonSession EXCEPT !.version = @ + 1] \in
            [status : {"draft", "live"}, current : 0..StageCount, version : Int]
      /\ [lessonSession EXCEPT !.version = @ + 1].current = lessonSession.current
  BY <1>0, <1>1 DEF LessonInv, LessonShape
<1>6. lessonClient = "panel" /\ row.status # "draft" => lessonSession.current # 0
  BY <1>0 DEF LessonInv, StagesFollow
<1>7. ASSUME NEW next \in StageRecord, lessonStage' = [lessonStage EXCEPT ![s] = next], next.status # "draft"
      PROVE  RowTellsTime(s)' <=>
               /\ next.status = "running" =>
                    /\ next.started >= 0 /\ next.paused >= 0
                    /\ Accounted(lessonNow - next.started - lessonRan[s], next.paused, lessonResumed'[s])
               /\ next.status = "paused" =>
                    /\ next.started >= 0 /\ next.paused >= 0 /\ next.pausedAt <= lessonNow
                    /\ Accounted(next.pausedAt - next.started - lessonRan[s], next.paused, lessonResumed'[s])
  BY <1>0, <1>1, <1>3, <1>7 DEF RowTellsTime, LessonInv, LessonShape
<1>8. CASE L!StartStage(c)
  <2>. DEFINE started == IF row.started = -1 THEN lessonNow ELSE row.started
              paused == row.paused + L!PauseSeconds(row)
              more == IF row.status = "paused" THEN 1 ELSE 0
              next == [row EXCEPT !.status = "running", !.pausedAt = -1, !.started = started, !.paused = paused,
                                  !.version = row.version + 1]
  <2>1. lessonCall[c].act = "start" /\ row.status \in {"draft", "paused"}
    BY <1>0, <1>1, <1>8, LegalActs DEF L!StartStage
  <2>2. /\ started \in Int /\ paused \in Int /\ started >= 0 /\ paused >= 0
        /\ Accounted(lessonNow - started - lessonRan[s], paused, lessonResumed[s] + more)
    <3>1. CASE row.status = "draft"
      <4>1. started = lessonNow /\ paused = 0 /\ lessonRan[s] = 0 /\ lessonResumed[s] + more = 0
        BY <1>0, <1>2, <3>1 DEF RowTellsTime, L!Draft, L!PauseSeconds, StageRecord
      <4>. QED BY <1>2, <4>1 DEF Accounted, Bounds
    <3>2. CASE row.status = "paused"
      <4>1. /\ row.started >= 0 /\ row.paused >= 0 /\ row.pausedAt <= lessonNow
            /\ Accounted(row.pausedAt - row.started - lessonRan[s], row.paused, lessonResumed[s])
            /\ lessonResumed[s] \in Nat
        BY <1>0, <1>2, <1>4, <3>2 DEF RowTellsTime
      <4>2. started = row.started /\ more = 1
        BY <1>2, <3>2, <4>1
      <4>3. L!PauseSeconds(row) = L!Minus(lessonNow, row.pausedAt) \div Second
        BY <3>2 DEF L!PauseSeconds
      <4>. DEFINE idle == row.started + lessonRan[s]
                  whole == L!Minus(lessonNow, row.pausedAt) \div Second
      <4>4. /\ idle \in Int
            /\ row.pausedAt - row.started - lessonRan[s] = row.pausedAt - idle
            /\ lessonNow - started - lessonRan[s] = lessonNow - idle
        BY <1>2, <4>2
      <4>5. paused = row.paused + whole
        BY <4>3
      <4>. HIDE DEF idle, started, paused, more
      <4>6. Accounted(row.pausedAt - idle, row.paused, lessonResumed[s])
        BY <4>1, <4>4
      <4>7. whole \in Nat /\ Accounted(lessonNow - idle, row.paused + whole, lessonResumed[s] + 1)
        BY <1>2, <4>1, <4>4, <4>6, PauseCounted
      <4>. HIDE DEF whole
      <4>8. paused \in Int /\ paused >= 0
        BY <1>2, <4>1, <4>5, <4>7
      <4>9. Accounted(lessonNow - started - lessonRan[s], paused, lessonResumed[s] + more)
        BY <4>2, <4>4, <4>5, <4>7
      <4>. QED BY <1>2, <4>1, <4>2, <4>8, <4>9
    <3>. QED BY <1>0, <2>1, <3>1, <3>2
  <2>3. /\ lessonStage' = [lessonStage EXCEPT ![s] = next]
        /\ lessonSession' = [status |-> "live", current |-> s, version |-> lessonSession.version + 1]
    <3>. DEFINE a == IF lessonCall[c].seen.started = -1 THEN lessonNow ELSE lessonCall[c].seen.started
                b == lessonStage[lessonCall[c].on].paused + L!PauseSeconds(lessonCall[c].seen)
    <3>0. lessonStage' = [lessonStage EXCEPT ![lessonCall[c].on] = [lessonStage[lessonCall[c].on] EXCEPT !.status = "running",
                                    !.pausedAt = -1, !.started = a, !.paused = b,
                                    !.version = lessonStage[lessonCall[c].on].version + 1]]
      BY <1>8 DEF L!StartStage
    <3>1. a = started /\ b = paused
      BY <1>0, <1>1
    <3>. HIDE DEF a, b, started, paused
    <3>2. lessonSession' = [status |-> "live", current |-> s, version |-> lessonSession.version + 1]
      BY <1>0, <1>8 DEF L!StartStage
    <3>. QED BY <1>0, <1>1, <3>0, <3>1, <3>2
  <2>8. lessonResumed' = [lessonResumed EXCEPT ![s] = @ + more] /\ more \in Nat
    BY <1>0, <1>1, <1>8 DEF L!StartStage
  <2>. HIDE DEF started, paused, more
  <2>9. /\ lessonResumed' \in [L!Stage -> Nat] /\ lessonResumed'[s] = lessonResumed[s] + more
        /\ \A t \in L!Stage \ {s} : lessonResumed'[t] = lessonResumed[t]
    BY <1>0, <1>4, <2>8
  <2>4. next \in StageRecord
    BY <1>0, <1>4, <2>2, RowsWritten
  <2>5. /\ next.status = "running" /\ next.pausedAt = -1 /\ next.started = started
        /\ next.paused = paused
    BY <1>0, <1>2 DEF StageRecord
  <2>. HIDE DEF next
  <2>6. RowTellsTime(s)'
    BY <1>0, <1>7, <2>2, <2>3, <2>4, <2>5, <2>9
  <2>7. lessonSession' \in [status : {"draft", "live"}, current : 0..StageCount, version : Int] /\ lessonSession'.current = s
    BY <1>0, <1>1, <1>2, <2>3 DEF L!Stage
  <2>. QED BY <1>0, <1>1, <1>3, <2>1, <2>3, <2>4, <2>5, <2>6, <2>7, <2>9, LessonWrites DEF L!Ended
<1>9. CASE L!PauseStage(c)
  <2>. DEFINE next == [row EXCEPT !.status = "paused", !.pausedAt = lessonNow, !.version = row.version + 1]
  <2>1. row.status = "running"
    BY <1>0, <1>1, <1>9, LegalActs DEF L!PauseStage
  <2>2. /\ lessonStage' = [lessonStage EXCEPT ![s] = next] /\ lessonResumed' = lessonResumed
        /\ lessonSession' = [lessonSession EXCEPT !.version = @ + 1]
    BY <1>0, <1>9 DEF L!PauseStage
  <2>3. next \in StageRecord
    <3>1. lessonNow \in Int /\ row.status \in L!StageStatus
      BY <1>0, <1>2 DEF StageRecord
    <3>. QED BY <1>0, <1>4, <3>1, RowsWritten
  <2>4. /\ next.status = "paused" /\ next.pausedAt = lessonNow /\ next.started = row.started
        /\ next.paused = row.paused
    BY <1>0, <1>2 DEF StageRecord
  <2>. HIDE DEF next
  <2>5. RowTellsTime(s)'
    <3>1. /\ next.started >= 0 /\ next.paused >= 0 /\ next.pausedAt <= lessonNow
          /\ Accounted(next.pausedAt - next.started - lessonRan[s], next.paused, lessonResumed[s])
      BY <1>0, <1>2, <2>1, <2>4 DEF RowTellsTime
    <3>. QED BY <1>7, <2>2, <2>3, <2>4, <3>1
  <2>. QED BY <1>0, <1>1, <1>3, <1>4, <1>5, <1>6, <2>1, <2>2, <2>3, <2>4, <2>5, LessonWrites DEF L!Ended
<1>10. CASE L!ExtendStage(c)
  <2>. DEFINE next == [row EXCEPT !.extra = row.extra + 1, !.version = row.version + 1]
  <2>1. row.status \in L!Active
    BY <1>0, <1>1, <1>10, LegalActs DEF L!ExtendStage
  <2>2. /\ lessonStage' = [lessonStage EXCEPT ![s] = next] /\ lessonResumed' = lessonResumed
        /\ lessonSession' = [lessonSession EXCEPT !.version = @ + 1]
    BY <1>0, <1>1, <1>10 DEF L!ExtendStage
  <2>3. next \in StageRecord
    <3>1. row.extra + 1 \in Int
      BY <1>0, <1>2 DEF StageRecord
    <3>. QED BY <1>0, <1>4, <3>1, RowsWritten
  <2>4. /\ next.status = row.status /\ next.pausedAt = row.pausedAt /\ next.started = row.started
        /\ next.paused = row.paused
    BY <1>0, <1>2 DEF StageRecord
  <2>. HIDE DEF next
  <2>5. RowTellsTime(s)'
    BY <1>0, <1>2, <1>7, <2>1, <2>2, <2>3, <2>4 DEF RowTellsTime, L!Active
  <2>. QED BY <1>0, <1>1, <1>3, <1>4, <1>5, <1>6, <2>1, <2>2, <2>3, <2>4, <2>5, LessonWrites DEF L!Active, L!Ended
<1>11. CASE L!EndStage(c)
  <2>. DEFINE st == IF lessonCall[c].act = "complete" THEN "completed" ELSE "ended_early"
              next == [row EXCEPT !.status = st, !.pausedAt = -1, !.version = row.version + 1]
  <2>1. st \in L!StageStatus /\ st \in {"completed", "ended_early"}
    BY DEF L!StageStatus
  <2>2. /\ lessonStage' = [lessonStage EXCEPT ![s] = next] /\ lessonResumed' = lessonResumed
        /\ lessonSession' = [lessonSession EXCEPT !.version = @ + 1]
    BY <1>0, <1>11 DEF L!EndStage
  <2>5. row.status # "draft"
    BY <1>0, <1>1, <1>11, LegalActs DEF L!EndStage, L!Active
  <2>. HIDE DEF st
  <2>3. next \in StageRecord /\ next.status = st
    <3>1. next \in StageRecord
      BY <1>0, <1>2, <1>4, <2>1, RowsWritten
    <3>. QED BY <1>0, <1>2, <3>1 DEF StageRecord
  <2>. HIDE DEF next
  <2>4. RowTellsTime(s)'
    BY <1>0, <1>7, <2>1, <2>2, <2>3
  <2>. QED BY <1>0, <1>1, <1>3, <1>4, <1>5, <1>6, <2>1, <2>2, <2>3, <2>4, <2>5, LessonWrites DEF L!Ended
<1>12. CASE L!UnlockNext(c)
  <2>1. /\ row.status \in L!Ended /\ s < StageCount
        /\ UNCHANGED <<lessonStage, lessonResumed>> /\ lessonSession' = [lessonSession EXCEPT !.current = s + 1, !.version = @ + 1]
    BY <1>0, <1>1, <1>12, LegalActs DEF L!UnlockNext
  <2>2. lessonStage' = [lessonStage EXCEPT ![s] = row]
    BY <1>0, <2>1 DEF LessonInv, LessonShape
  <2>3. s + 1 \in 0..StageCount
    BY <1>0, <1>1, <2>1 DEF L!Stage, Bounds
  <2>4. lessonSession' \in [status : {"draft", "live"}, current : 0..StageCount, version : Int]
    <3>. DEFINE w == [lessonSession EXCEPT !.version = @ + 1]
    <3>1. w \in [status : {"draft", "live"}, current : 0..StageCount, version : Int]
      BY <1>5
    <3>. HIDE DEF w
    <3>2. [w EXCEPT !.current = s + 1] \in [status : {"draft", "live"}, current : 0..StageCount, version : Int]
      BY <2>3, <3>1
    <3>3. lessonSession' = [w EXCEPT !.current = s + 1]
      BY <2>1 DEF w, LessonInv, LessonShape
    <3>. QED BY <3>2, <3>3
  <2>5. RowTellsTime(s)'
    BY <1>0, <1>2, <1>3, <2>1 DEF RowTellsTime
  <2>6. lessonSession'.current = s + 1
    BY <2>1 DEF LessonInv, LessonShape
  <2>. QED BY <1>0, <1>1, <1>2, <1>3, <1>4, <2>1, <2>2, <2>4, <2>5, <2>6, LessonWrites DEF L!Ended
<1>. QED BY <1>0, <1>8, <1>9, <1>10, <1>11, <1>12 DEF L!Write

LEMMA LessonStep ==
  ASSUME Bounds, OneRequest, LessonInv, [L!Next]_L!vars
  PROVE  LessonInv'
<1>1. CASE UNCHANGED L!vars
  BY <1>1 DEF L!vars, LessonInv, LessonShape, TimeTold, RowTellsTime, ReadHolds, NotStarted,
              StagesFollow, L!Passed
<1>2. ASSUME NEW c \in LessonCall, L!StageCall(c) PROVE LessonInv'
  BY <1>2, LessonReads, LessonActs DEF L!StageCall, Act
<1>. QED BY <1>1, <1>2, LessonBegins, LessonTicks, LessonShows DEF L!Next

LEMMA StagesInOrder ==
  ASSUME Bounds, LessonInv
  PROVE  L!PanelKeepsOneStage
<1>. SUFFICES ASSUME StagesFollow PROVE L!InOrder
  BY DEF LessonInv, L!PanelKeepsOneStage
<1>1. ASSUME NEW s \in L!Stage, lessonStage[s].status \in L!Active
      PROVE  L!Passed(s) /\ \A t \in L!Stage : t > s => lessonStage[t].status = "draft"
  <2>1. L!Passed(s)
    BY <1>1 DEF StagesFollow, L!Active
  <2>2. ASSUME NEW t \in L!Stage, t > s, lessonStage[t].status # "draft" PROVE FALSE
    <3>1. L!Passed(t) /\ s < t
      BY <2>2 DEF StagesFollow, L!Stage, Bounds
    <3>. QED BY <1>1, <3>1 DEF L!Passed, L!Active, L!Ended
  <2>. QED BY <2>1, <2>2
<1>. QED BY <1>1 DEF L!InOrder, StagesFollow, L!None

LEMMA RemainingTold ==
  ASSUME Bounds, LessonInv
  PROVE  L!RemainingExcludesPauses
<1>. SUFFICES ASSUME NEW s \in L!Stage, lessonStage[s].status \in L!Active
              PROVE  LET length == Duration + lessonStage[s].extra IN
                /\ L!Remaining(s, lessonNow) <= L!Minus(length, lessonRan[s] \div Second)
                /\ L!Remaining(s, lessonNow) >=
                     L!Minus(length, (lessonRan[s] + (Second - 1) * lessonResumed[s]) \div Second)
  BY DEF L!RemainingExcludesPauses
<1>. DEFINE frozen == IF lessonStage[s].status = "paused" THEN lessonStage[s].pausedAt ELSE lessonNow
            since == frozen - lessonStage[s].started
            paused == lessonStage[s].paused
            short == (Second - 1) * lessonResumed[s]
            net == since - Second * paused
            length == Duration + lessonStage[s].extra
<1>1. /\ lessonStage[s] \in StageRecord /\ lessonRan[s] \in Nat /\ lessonNow \in Nat /\ RowTellsTime(s)
      /\ lessonResumed[s] \in Nat
  BY DEF LessonInv, LessonShape, TimeTold
<1>2. frozen \in Int /\ lessonStage[s].started \in Int /\ paused \in Int /\ length \in Int /\ since \in Int
  BY <1>1 DEF StageRecord, Bounds
<1>3. Accounted(since - lessonRan[s], paused, lessonResumed[s])
  BY <1>1 DEF RowTellsTime, L!Active
<1>4. Second \in Nat \ {0}
  BY DEF Bounds
<1>5. L!Remaining(s, lessonNow) = L!Minus(length, L!Minus(since \div Second, paused))
  BY DEF L!Remaining
<1>. HIDE DEF frozen, since, paused, length
<1>6. Second * paused \in Int /\ short \in Int /\ net \in Int
  BY <1>1, <1>2, <1>4, TimesOne
<1>7. lessonRan[s] <= net /\ net <= lessonRan[s] + short
  BY <1>1, <1>2, <1>3, <1>6 DEF Accounted
<1>8. since \div Second - paused = net \div Second
  BY <1>2, <1>4, QuotientLess
<1>. HIDE DEF net, short
<1>9. /\ lessonRan[s] \div Second <= net \div Second
      /\ net \div Second <= (lessonRan[s] + short) \div Second
      /\ 0 \div Second <= lessonRan[s] \div Second
  <2>1. lessonRan[s] \in Int /\ lessonRan[s] + short \in Int /\ 0 <= lessonRan[s]
    BY <1>1, <1>6
  <2>2. lessonRan[s] \div Second <= net \div Second
    BY <1>4, <1>6, <1>7, <2>1, QuotientGrows
  <2>3. net \div Second <= (lessonRan[s] + short) \div Second
    BY <1>4, <1>6, <1>7, <2>1, QuotientGrows
  <2>4. 0 \div Second <= lessonRan[s] \div Second
    BY <1>4, <2>1, QuotientGrows
  <2>. QED BY <2>2, <2>3, <2>4
<1>10. /\ since \div Second \in Int /\ net \div Second \in Int /\ 0 \div Second = 0
       /\ lessonRan[s] \div Second \in Int /\ (lessonRan[s] + short) \div Second \in Int
  BY <1>1, <1>2, <1>4, <1>6, Quotient
<1>11. L!Minus(since \div Second, paused) = net \div Second
  BY <1>2, <1>8, <1>9, <1>10 DEF L!Minus
<1>12. /\ L!Minus(length, net \div Second) <= L!Minus(length, lessonRan[s] \div Second)
       /\ L!Minus(length, net \div Second) >= L!Minus(length, (lessonRan[s] + short) \div Second)
  BY <1>2, <1>9, <1>10 DEF L!Minus
<1>. QED BY <1>5, <1>11, <1>12 DEF short, length

(* The stages of a lesson follow one another, as long as the teacher keeps  *)
(* to the control panel's buttons and one request at a time: for any number *)
(* of stages, actions and tabs, however old what a tab shows                *)
(* (applyStageAction, ClassroomControlPanel).                               *)
THEOREM LessonHasOneStage ==
  ASSUME OneRequest
  PROVE  CourseSpec => []PanelKeepsOneStage
<1>. DEFINE Inv == part = "lesson" => LessonInv
<1>1. CourseInit => Inv
  BY LessonInit, BoundsHold DEF CourseInit
<1>2. Inv /\ [CourseNext]_courseVars => Inv'
  <2>1. [CourseNext]_courseVars => UNCHANGED part /\ (part = "lesson" => [L!Next]_L!vars)
    BY DEF CourseNext, courseVars, lessonVars, L!vars
  <2>. QED BY <2>1, LessonStep, BoundsHold
<1>3. Inv => PanelKeepsOneStage
  BY StagesInOrder, BoundsHold DEF PanelKeepsOneStage
<1>. QED BY <1>1, <1>2, <1>3, PTL DEF CourseSpec

(* The seconds a stage has left are at most its duration and extensions     *)
(* less the time it has really run, and fall short of that by less than one *)
(* second for each time it was resumed, for any durations, any number of    *)
(* pauses and a clock of any resolution (getRemainingSeconds).              *)
THEOREM PauseCostsUnderASecond ==
  ASSUME OneRequest
  PROVE  CourseSpec => []RemainingExcludesPauses
<1>. DEFINE Inv == part = "lesson" => LessonInv
<1>1. CourseInit => Inv
  BY LessonInit, BoundsHold DEF CourseInit
<1>2. Inv /\ [CourseNext]_courseVars => Inv'
  <2>1. [CourseNext]_courseVars => UNCHANGED part /\ (part = "lesson" => [L!Next]_L!vars)
    BY DEF CourseNext, courseVars, lessonVars, L!vars
  <2>. QED BY <2>1, LessonStep, BoundsHold
<1>3. Inv => RemainingExcludesPauses
  BY RemainingTold, BoundsHold DEF RemainingExcludesPauses
<1>. QED BY <1>1, <1>2, <1>3, PTL DEF CourseSpec

----------------------------------------------------------------------------
(* Reflections. *)

LEMMA RemovedAt ==
  ASSUME NEW D, NEW s \in Seq(D), NEW i \in 1..Len(s), NEW x \in D
  PROVE  LET r == Append(E!RemoveAt(s, i), x) IN
         /\ r \in Seq(D) /\ Len(r) = Len(s) /\ r[Len(s)] = x
         /\ \A k \in 1..(Len(s) - 1) : r[k] = IF k < i THEN s[k] ELSE s[k + 1]
<1>. DEFINE a == SubSeq(s, 1, i - 1)
            b == SubSeq(s, i + 1, Len(s))
            c == a \o b
            r == Append(c, x)
<1>1. Len(s) \in Nat /\ i \in Nat /\ i >= 1 /\ i <= Len(s)
  OBVIOUS
<1>2. a \in Seq(D) /\ Len(a) = i - 1 /\ \A k \in 1..(i - 1) : a[k] = s[k]
  BY <1>1
<1>3. b \in Seq(D) /\ Len(b) = Len(s) - i /\ \A k \in 1..(Len(s) - i) : b[k] = s[i + k]
  BY <1>1
<1>. HIDE DEF a, b
<1>4. c \in Seq(D) /\ Len(c) = Len(s) - 1
  <2>1. a \in Seq(D) /\ b \in Seq(D)
    BY <1>2, <1>3
  <2>2. c \in Seq(D) /\ Len(c) = Len(a) + Len(b)
    BY <2>1
  <2>. HIDE DEF c
  <2>. QED BY <1>1, <1>2, <1>3, <2>2
<1>5. ASSUME NEW k \in 1..(Len(s) - 1)
      PROVE  c[k] = IF k < i THEN s[k] ELSE s[k + 1]
  <2>1. CASE k < i
    <3>1. k \in 1..Len(a)
      BY <1>1, <1>2, <2>1
    <3>2. c[k] = a[k]
      BY <1>2, <1>3, <3>1
    <3>. QED BY <1>2, <2>1, <3>1, <3>2
  <2>2. CASE k >= i
    <3>1. k - (i - 1) \in 1..(Len(s) - i) /\ i + (k - (i - 1)) = k + 1
      BY <1>1, <2>2
    <3>2. k > Len(a) /\ k <= Len(a) + Len(b)
      BY <1>1, <1>2, <1>3, <2>2
    <3>3. c[k] = b[k - Len(a)]
      BY <1>2, <1>3, <3>2
    <3>4. b[k - (i - 1)] = s[k + 1]
      BY <1>3, <3>1
    <3>5. k - Len(a) = k - (i - 1) /\ ~ (k < i)
      BY <1>1, <1>2, <2>2
    <3>. HIDE DEF c
    <3>. QED BY <3>3, <3>4, <3>5
  <2>3. k < i \/ k >= i
    BY <1>1
  <2>. HIDE DEF c
  <2>. QED BY <2>1, <2>2, <2>3
<1>. HIDE DEF c
<1>6. r \in Seq(D) /\ Len(r) = Len(s) /\ r[Len(s)] = x /\ \A k \in 1..(Len(s) - 1) : r[k] = c[k]
  BY <1>1, <1>4
<1>7. E!RemoveAt(s, i) = c
  BY DEF E!RemoveAt, a, b, c
<1>. HIDE DEF r
<1>8. /\ r \in Seq(D) /\ Len(r) = Len(s) /\ r[Len(s)] = x
      /\ \A k \in 1..(Len(s) - 1) : r[k] = IF k < i THEN s[k] ELSE s[k + 1]
  BY <1>5, <1>6
<1>. QED BY <1>7, <1>8 DEF r

Entries == [of : Scope, at : 0..MemoryHorizon]

(* The entries of lastReflectTime are those of the scopes used last, in the *)
(* order of their use, and say when each was kept.                          *)
Matches(es, us, ks) ==
  /\ es \in Seq(Entries) /\ us \in Seq(Scope)
  /\ Len(es) <= MaxSize /\ Len(es) <= Len(us)
  /\ Len(es) < MaxSize => Len(es) = Len(us)
  /\ \A i, j \in 1..Len(us) : us[i] = us[j] => i = j
  /\ \A k \in 1..Len(es) : /\ es[k].of = us[(Len(us) - Len(es)) + k]
                           /\ es[k].at = ks[es[k].of]

MemoryInv ==
  /\ E!TypeOK
  /\ Matches(memoryLastReflect, memoryUsed, memoryKept)

Es == memoryLastReflect
Us == memoryUsed
Ks == memoryKept

(* What is asked of again moves to the end of those used. *)
LEMMA MovesLast ==
  ASSUME MemoryInv, NEW s \in Scope
  PROVE  /\ s \in E!Range(Us) => \E i \in 1..Len(Us) :
              /\ Us[i] = s /\ E!MovedLast(s) = Append(E!RemoveAt(Us, i), s)
         /\ s \notin E!Range(Us) => E!MovedLast(s) = Append(Us, s)
<1>. DEFINE i == CHOOSE j \in DOMAIN Us : Us[j] = s
<1>1. E!MovedLast(s) = Append(IF s \in E!Range(Us) THEN E!RemoveAt(Us, i) ELSE Us, s)
  BY DEF E!MovedLast, Us
<1>2. DOMAIN Us = 1..Len(Us)
  BY DEF MemoryInv, Matches, Us
<1>3. s \in E!Range(Us) => i \in 1..Len(Us) /\ Us[i] = s
  BY <1>2 DEF E!Range
<1>. QED BY <1>1, <1>3

LEMMA MovedDiffer ==
  ASSUME NEW s \in Seq(Scope), NEW i \in 1..Len(s), NEW r \in Seq(Scope),
         \A k, l \in 1..Len(s) : s[k] = s[l] => k = l,
         Len(r) = Len(s), r[Len(s)] = s[i],
         \A k \in 1..(Len(s) - 1) : r[k] = IF k < i THEN s[k] ELSE s[k + 1]
  PROVE  \A k, l \in 1..Len(r) : r[k] = r[l] => k = l
<1>1. Len(s) \in Nat
  OBVIOUS
<1>. TAKE k, l \in 1..Len(r)
<1>. HAVE r[k] = r[l]
<1>. DEFINE at(m) == IF m = Len(s) THEN i ELSE IF m < i THEN m ELSE m + 1
<1>2. \A m \in 1..Len(r) : at(m) \in 1..Len(s) /\ r[m] = s[at(m)]
  BY <1>1
<1>3. at(k) = at(l)
  <2>1. at(k) \in 1..Len(s) /\ at(l) \in 1..Len(s) /\ s[at(k)] = s[at(l)]
    <3>. HIDE DEF at
    <3>. QED BY <1>2
  <2>. HIDE DEF at
  <2>. QED BY <2>1
<1>. QED BY <1>1, <1>3

(* What is known of the two, with few words for the provers. *)
LEMMA Lists ==
  ASSUME MemoryInv
  PROVE  \E n, m, d \in Nat :
           /\ n = Len(Es) /\ m = Len(Us) /\ n + d = m
           /\ n <= MaxSize /\ (n < MaxSize => d = 0) /\ MaxSize \in Nat /\ MaxSize > 0
           /\ Es \in Seq(Entries) /\ Us \in Seq(Scope)
           /\ DOMAIN Es = 1..n /\ DOMAIN Us = 1..m
           /\ \A i, j \in 1..m : Us[i] = Us[j] => i = j
           /\ \A k \in 1..n : /\ Es[k] \in Entries /\ d + k \in 1..m
                              /\ Es[k].of = Us[d + k] /\ Es[k].at = Ks[Es[k].of]
           /\ Ks \in [Scope -> Int]
<1>. DEFINE n == Len(Es)
            m == Len(Us)
            d == m - n
<1>1. /\ Es \in Seq(Entries) /\ Us \in Seq(Scope) /\ n <= m
      /\ n <= MaxSize /\ (n < MaxSize => n = m)
      /\ \A i, j \in 1..m : Us[i] = Us[j] => i = j
      /\ \A k \in 1..n : Es[k].of = Us[d + k] /\ Es[k].at = Ks[Es[k].of]
  BY DEF MemoryInv, Matches, Es, Us, Ks
<1>2. n \in Nat /\ m \in Nat /\ DOMAIN Es = 1..n /\ DOMAIN Us = 1..m
  BY <1>1
<1>3. d \in Nat /\ n + d = m /\ (n < MaxSize => d = 0)
  <2>1. n \in Nat /\ m \in Nat /\ n <= m /\ (n < MaxSize => n = m) /\ d = m - n
    BY <1>1, <1>2
  <2>. HIDE DEF n, m, d
  <2>. QED BY <2>1
<1>4. MaxSize \in Nat /\ MaxSize > 0 /\ Ks \in [Scope -> Int]
  BY MemoryAssumption DEF MemoryInv, E!TypeOK, Ks
<1>5. \A k \in 1..n : Es[k] \in Entries
  <2>1. Es \in Seq(Entries)
    BY <1>1
  <2>2. \A k \in 1..Len(Es) : Es[k] \in Entries
    BY <2>1
  <2>. QED BY <2>2
<1>. HIDE DEF d, n, m
<1>6. \A k \in 1..n : d + k \in 1..m
  BY <1>2, <1>3
<1>. QED BY <1>1, <1>2, <1>3, <1>4, <1>5, <1>6 DEF n, m

(* Two lists of one length differ by what the last has said. *)
LEMMA MatchesIf ==
  ASSUME NEW es \in Seq(Entries), NEW us \in Seq(Scope), NEW ks,
         NEW n \in Nat, NEW d \in Nat, Len(es) = n, Len(us) = n + d,
         n <= MaxSize, n < MaxSize => d = 0, MaxSize \in Nat,
         \A i, j \in 1..Len(us) : us[i] = us[j] => i = j,
         \A k \in 1..n : es[k].of = us[d + k] /\ es[k].at = ks[es[k].of]
  PROVE  Matches(es, us, ks)
<1>1. Len(us) - Len(es) = d /\ Len(es) <= Len(us) /\ (Len(es) < MaxSize => Len(es) = Len(us))
  OBVIOUS
<1>. QED BY <1>1 DEF Matches

(* A scope that is in the map, found or set again. *)
LEMMA KnownMatches ==
  ASSUME MemoryInv, NEW s \in Scope, E!Has(s), NEW t \in 0..MemoryHorizon
  PROVE  LET e == [of |-> s, at |-> t] IN
         /\ Matches(Append(E!Without(s), e), E!MovedLast(s), [Ks EXCEPT ![s] = t])
         /\ E!Entry(s) = [of |-> s, at |-> Ks[s]] /\ Ks[s] \in 0..MemoryHorizon
<1>. DEFINE p == E!Place(s)
            e == [of |-> s, at |-> t]
            es == Append(E!Without(s), e)
            us == E!MovedLast(s)
            ks == [Ks EXCEPT ![s] = t]
<1>0. PICK n, m, d \in Nat :
           /\ n = Len(Es) /\ m = Len(Us) /\ n + d = m
           /\ n <= MaxSize /\ (n < MaxSize => d = 0) /\ MaxSize \in Nat /\ MaxSize > 0
           /\ Es \in Seq(Entries) /\ Us \in Seq(Scope)
           /\ DOMAIN Es = 1..n /\ DOMAIN Us = 1..m
           /\ \A i, j \in 1..m : Us[i] = Us[j] => i = j
           /\ \A k \in 1..n : /\ Es[k] \in Entries /\ d + k \in 1..m
                              /\ Es[k].of = Us[d + k] /\ Es[k].at = Ks[Es[k].of]
           /\ Ks \in [Scope -> Int]
  BY Lists
<1>1. n + d = m /\ n <= MaxSize /\ (n < MaxSize => d = 0) /\ MaxSize \in Nat
  BY <1>0
<1>2. p \in 1..n /\ Es[p].of = s
  <2>1. DOMAIN Es = 1..n
    BY <1>0
  <2>. QED BY <2>1 DEF E!Has, E!Place, Es
<1>3. es = Append(E!RemoveAt(Es, p), e) /\ e \in Entries /\ E!Entry(s) = Es[p]
  BY DEF E!Without, E!Entry, Es, Entries
<1>4. d + p \in 1..m /\ Us[d + p] = s /\ Es[p].at = Ks[s] /\ Es[p] \in Entries
  BY <1>0, <1>2
<1>5. ks \in [Scope -> Int] /\ ks[s] = t /\ \A z \in Scope : z # s => ks[z] = Ks[z]
  BY <1>0
<1>. HIDE DEF e, p, ks
<1>6. /\ es \in Seq(Entries) /\ Len(es) = n /\ es[n] = e
      /\ \A k \in 1..(n - 1) : es[k] = IF k < p THEN Es[k] ELSE Es[k + 1]
  <2>1. Es \in Seq(Entries) /\ p \in 1..Len(Es) /\ n = Len(Es)
    BY <1>0, <1>2
  <2>. QED BY <1>3, <2>1, RemovedAt
<1>. HIDE DEF es, us
<1>7. PICK i \in 1..m : Us[i] = s /\ us = Append(E!RemoveAt(Us, i), s)
  <2>1. s \in E!Range(Us)
    BY <1>0, <1>4 DEF E!Range
  <2>2. m = Len(Us)
    BY <1>0
  <2>. QED BY <2>1, <2>2, MovesLast DEF us
<1>8. i = d + p
  <2>1. \A j, k \in 1..m : Us[j] = Us[k] => j = k
    BY <1>0
  <2>. QED BY <1>4, <1>7, <2>1
<1>9. /\ us \in Seq(Scope) /\ Len(us) = m /\ us[m] = s
      /\ \A k \in 1..(m - 1) : us[k] = IF k < i THEN Us[k] ELSE Us[k + 1]
  <2>. DEFINE r == Append(E!RemoveAt(Us, i), s)
  <2>1. Us \in Seq(Scope) /\ i \in 1..Len(Us) /\ m = Len(Us)
    BY <1>0, <1>7
  <2>2. /\ r \in Seq(Scope) /\ Len(r) = Len(Us) /\ r[Len(Us)] = s
        /\ \A k \in 1..(Len(Us) - 1) : r[k] = IF k < i THEN Us[k] ELSE Us[k + 1]
    BY <2>1, RemovedAt
  <2>3. us = r
    BY <1>7
  <2>. HIDE DEF r
  <2>. QED BY <2>1, <2>2, <2>3
<1>10. \A j, l \in 1..m : us[j] = us[l] => j = l
  <2>1. /\ Len(us) = Len(Us) /\ i \in 1..Len(Us) /\ us[Len(Us)] = Us[i]
        /\ Us \in Seq(Scope) /\ us \in Seq(Scope)
        /\ \A k, l \in 1..Len(Us) : Us[k] = Us[l] => k = l
        /\ \A k \in 1..(Len(Us) - 1) : us[k] = IF k < i THEN Us[k] ELSE Us[k + 1]
    BY <1>0, <1>7, <1>9
  <2>. QED BY <1>9, <2>1, MovedDiffer
<1>11. ASSUME NEW k \in 1..n
       PROVE  es[k].of = us[d + k] /\ es[k].at = ks[es[k].of]
  <2>1. CASE k = n
    <3>1. d + k = m
      BY <1>1, <2>1
    <3>2. es[k] = e /\ us[d + k] = s /\ e.of = s /\ e.at = t
      BY <1>6, <1>9, <2>1, <3>1 DEF e
    <3>. QED BY <1>5, <3>2
  <2>2. CASE k # n
    <3>1. PICK l \in 1..n : l = IF k < p THEN k ELSE k + 1
      BY <1>2, <2>2
    <3>2. l # p /\ k \in 1..(n - 1) /\ d + k \in 1..(m - 1)
      BY <1>1, <1>2, <2>2, <3>1
    <3>3. es[k] = Es[l]
      BY <1>6, <3>1, <3>2
    <3>4. us[d + k] = Us[d + l]
      <4>1. us[d + k] = IF d + k < i THEN Us[d + k] ELSE Us[(d + k) + 1]
        BY <1>9, <3>2
      <4>2. (d + k < i <=> k < p) /\ (d + k) + 1 = d + (k + 1)
        BY <1>2, <1>8
      <4>. QED BY <3>1, <4>1, <4>2
    <3>5. Es[l].of = Us[d + l] /\ Es[l].at = Ks[Es[l].of] /\ Es[l] \in Entries /\ d + l \in 1..m
      BY <1>0
    <3>6. Us[d + l] # s
      <4>1. d + l # d + p
        BY <1>2, <3>2
      <4>2. \A j, r \in 1..m : Us[j] = Us[r] => j = r
        BY <1>0
      <4>. QED BY <1>4, <3>5, <4>1, <4>2
    <3>7. Es[l].of \in Scope
      BY <3>5 DEF Entries
    <3>. QED BY <1>5, <3>3, <3>4, <3>5, <3>6, <3>7
  <2>. QED BY <2>1, <2>2
<1>12. Matches(es, us, ks)
  <2>1. Len(us) = n + d /\ \A j, l \in 1..Len(us) : us[j] = us[l] => j = l
    BY <1>1, <1>9, <1>10
  <2>. QED BY <1>1, <1>6, <1>9, <1>11, <2>1, MatchesIf
<1>13. E!Entry(s) = [of |-> s, at |-> Ks[s]] /\ Ks[s] \in 0..MemoryHorizon
  BY <1>2, <1>3, <1>4 DEF Entries
<1>. QED BY <1>12, <1>13 DEF es, us, e, ks

(* A new scope pushes out the one whose use is longest ago. *)
LEMMA NewMatches ==
  ASSUME MemoryInv, NEW s \in Scope, ~ E!Has(s), NEW t \in 0..MemoryHorizon
  PROVE  Matches(E!Set(s, t), E!MovedLast(s), [Ks EXCEPT ![s] = t])
<1>. DEFINE e == [of |-> s, at |-> t]
            es == E!Set(s, t)
            us == E!MovedLast(s)
            ks == [Ks EXCEPT ![s] = t]
<1>0. PICK n, m, d \in Nat :
           /\ n = Len(Es) /\ m = Len(Us) /\ n + d = m
           /\ n <= MaxSize /\ (n < MaxSize => d = 0) /\ MaxSize \in Nat /\ MaxSize > 0
           /\ Es \in Seq(Entries) /\ Us \in Seq(Scope)
           /\ DOMAIN Es = 1..n /\ DOMAIN Us = 1..m
           /\ \A i, j \in 1..m : Us[i] = Us[j] => i = j
           /\ \A k \in 1..n : /\ Es[k] \in Entries /\ d + k \in 1..m
                              /\ Es[k].of = Us[d + k] /\ Es[k].at = Ks[Es[k].of]
           /\ Ks \in [Scope -> Int]
  BY Lists
<1>1. /\ n + d = m /\ n <= MaxSize /\ (n < MaxSize => d = 0)
      /\ MaxSize \in Nat /\ MaxSize > 0
  BY <1>0
<1>2. \A k \in 1..n : /\ Es[k].of # s /\ Es[k].of \in Scope /\ Es[k] \in Entries
                      /\ Es[k].of = Us[d + k] /\ Es[k].at = Ks[Es[k].of]
  <2>1. DOMAIN Es = 1..n /\ \A k \in 1..n : Es[k] \in Entries
    BY <1>0
  <2>2. \A k \in 1..n : Es[k].of # s
    BY <2>1 DEF E!Has, Es
  <2>3. \A k \in 1..n : Es[k].of \in Scope
    BY <2>1 DEF Entries
  <2>. QED BY <1>0, <2>1, <2>2, <2>3
<1>3. e \in Entries /\ e.of = s /\ e.at = t
  BY DEF Entries
<1>4. ASSUME NEW k \in 1..m, Us[k] = s PROVE k <= d
  <2>. SUFFICES ASSUME k > d PROVE FALSE
    OBVIOUS
  <2>1. PICK j \in 1..n : d + j = k
    <3>1. k - d \in 1..n /\ d + (k - d) = k
      BY <1>1
    <3>. QED BY <3>1
  <2>. QED BY <1>2, <1>4, <2>1
<1>5. ks[s] = t /\ \A z \in Scope : z # s => ks[z] = Ks[z]
  BY <1>0
<1>. HIDE DEF us, ks, e, es
(* The used ones: one more, or s has moved from before those in the map. *)
<1>6. PICK w \in Nat :
        /\ us \in Seq(Scope) /\ Len(us) = w + (n + 1) /\ us[w + (n + 1)] = s
        /\ \A j, l \in 1..Len(us) : us[j] = us[l] => j = l
        /\ n < MaxSize => w = 0
        /\ \A k \in 1..n : us[w + k] = Us[d + k]
  <2>1. CASE s \in E!Range(Us)
    <3>1. PICK i \in 1..m : Us[i] = s /\ us = Append(E!RemoveAt(Us, i), s)
      <4>1. m = Len(Us)
        BY <1>0
      <4>. QED BY <2>1, <4>1, MovesLast DEF us
    <3>2. i <= d /\ i \in Nat /\ i >= 1
      BY <1>4, <3>1
    <3>3. /\ us \in Seq(Scope) /\ Len(us) = m /\ us[m] = s
          /\ \A k \in 1..(m - 1) : us[k] = IF k < i THEN Us[k] ELSE Us[k + 1]
      <4>1. Us \in Seq(Scope) /\ i \in 1..Len(Us) /\ m = Len(Us)
        BY <1>0, <3>1
      <4>. QED BY <3>1, <4>1, RemovedAt
    <3>4. \A j, l \in 1..Len(us) : us[j] = us[l] => j = l
      <4>1. /\ Len(us) = Len(Us) /\ i \in 1..Len(Us) /\ us[Len(Us)] = Us[i]
            /\ Us \in Seq(Scope) /\ us \in Seq(Scope)
            /\ \A k, l \in 1..Len(Us) : Us[k] = Us[l] => k = l
            /\ \A k \in 1..(Len(Us) - 1) : us[k] = IF k < i THEN Us[k] ELSE Us[k + 1]
        BY <1>0, <3>1, <3>3
      <4>2. \A k, l \in 1..Len(us) : us[k] = us[l] => k = l
        <5>. HIDE DEF us
        <5>. QED BY <3>3, <4>1, MovedDiffer, SMTT(60)
      <4>. QED BY <4>2
    <3>5. PICK w \in Nat : w + 1 = d
      <4>1. d - 1 \in Nat /\ (d - 1) + 1 = d
        BY <3>2
      <4>. QED BY <4>1
    <3>6. ASSUME NEW k \in 1..n PROVE us[w + k] = Us[d + k]
      <4>1. w + k \in 1..(m - 1) /\ ~ (w + k < i) /\ (w + k) + 1 = d + k
        BY <1>1, <3>2, <3>5
      <4>. QED BY <3>3, <4>1
    <3>7. w + (n + 1) = m /\ ~ (n < MaxSize)
      BY <1>1, <3>2, <3>5
    <3>. QED BY <3>3, <3>4, <3>6, <3>7
  <2>2. CASE s \notin E!Range(Us)
    <3>1. us = Append(Us, s)
      BY <2>2, MovesLast DEF us
    <3>2. us \in Seq(Scope) /\ Len(us) = m + 1 /\ us[m + 1] = s /\ \A k \in 1..m : us[k] = Us[k]
      <4>1. Us \in Seq(Scope) /\ m = Len(Us)
        BY <1>0
      <4>. QED BY <3>1, <4>1
    <3>3. \A k \in 1..m : Us[k] # s
      BY <1>0, <2>2 DEF E!Range
    <3>4. \A j, l \in 1..Len(us) : us[j] = us[l] => j = l
      <4>. SUFFICES ASSUME NEW j \in 1..(m + 1), NEW l \in 1..(m + 1), us[j] = us[l] PROVE j = l
        BY <3>2
      <4>1. (j \in 1..m \/ j = m + 1) /\ (l \in 1..m \/ l = m + 1)
        OBVIOUS
      <4>2. \A i, k \in 1..m : Us[i] = Us[k] => i = k
        BY <1>0
      <4>. QED BY <3>2, <3>3, <4>1, <4>2
    <3>5. \A k \in 1..n : us[d + k] = Us[d + k]
      BY <1>0, <3>2
    <3>6. d + (n + 1) = m + 1
      BY <1>1
    <3>. QED BY <1>1, <3>2, <3>4, <3>5, <3>6
  <2>. QED BY <2>1, <2>2
<1>8. CASE n >= MaxSize
  <2>1. n = MaxSize /\ n > 0
    BY <1>1, <1>8
  <2>2. es = Append(Tail(Es), e)
    <3>1. Len(Es) >= MaxSize
      BY <1>0, <1>8
    <3>2. Es = memoryLastReflect
      BY DEF Es
    <3>. QED BY <3>1, <3>2 DEF E!Set, es, e
  <2>3. /\ es \in Seq(Entries) /\ Len(es) = n /\ es[n] = e
        /\ \A k \in 1..(n - 1) : es[k] = Es[k + 1]
    <3>1. Es \in Seq(Entries) /\ Len(Es) = n
      BY <1>0
    <3>2. Tail(Es) \in Seq(Entries) /\ Len(Tail(Es)) = n - 1
      BY <2>1, <3>1
    <3>3. \A k \in 1..(n - 1) : Tail(Es)[k] = Es[k + 1]
      BY <2>1, <3>1
    <3>. DEFINE r == Tail(Es)
    <3>. HIDE DEF r
    <3>4. r \in Seq(Entries) /\ Len(r) = n - 1 /\ \A k \in 1..(n - 1) : r[k] = Es[k + 1]
      BY <3>2, <3>3 DEF r
    <3>5. es = Append(r, e)
      BY <2>2 DEF r
    <3>. QED BY <1>3, <2>1, <3>4, <3>5
  <2>4. ASSUME NEW k \in 1..n
        PROVE  es[k].of = us[(w + 1) + k] /\ es[k].at = ks[es[k].of]
    <3>1. CASE k = n
      <4>1. (w + 1) + k = w + (n + 1)
        BY <3>1
      <4>. QED BY <1>3, <1>5, <1>6, <2>3, <3>1, <4>1
    <3>2. CASE k # n
      <4>1. k \in 1..(n - 1) /\ k + 1 \in 1..n /\ w + (k + 1) = (w + 1) + k
        BY <3>2
      <4>2. es[k] = Es[k + 1] /\ us[(w + 1) + k] = Us[d + (k + 1)]
        BY <1>6, <2>3, <4>1
      <4>. QED BY <1>2, <1>5, <4>1, <4>2
    <3>. QED BY <3>1, <3>2
  <2>5. w + 1 \in Nat /\ Len(us) = n + (w + 1) /\ ~ (n < MaxSize)
    BY <1>6, <2>1
  <2>6. Matches(es, us, ks)
    BY <1>1, <1>6, <2>3, <2>4, <2>5, MatchesIf
  <2>. QED BY <2>6 DEF us, ks, es
<1>9. CASE n < MaxSize
  <2>1. d = 0 /\ w = 0
    BY <1>1, <1>6, <1>9
  <2>2. es = Append(Es, e)
    <3>1. ~ (Len(Es) >= MaxSize)
      BY <1>0, <1>9
    <3>2. Es = memoryLastReflect
      BY DEF Es
    <3>. QED BY <3>1, <3>2 DEF E!Set, E!Without, es, e
  <2>3. /\ es \in Seq(Entries) /\ Len(es) = n + 1 /\ es[n + 1] = e
        /\ \A k \in 1..n : es[k] = Es[k]
    <3>1. Es \in Seq(Entries) /\ Len(Es) = n
      BY <1>0
    <3>. QED BY <1>3, <2>2, <3>1
  <2>4. ASSUME NEW k \in 1..(n + 1)
        PROVE  es[k].of = us[0 + k] /\ es[k].at = ks[es[k].of]
    <3>1. CASE k = n + 1
      <4>1. 0 + k = w + (n + 1)
        BY <2>1, <3>1
      <4>. QED BY <1>3, <1>5, <1>6, <2>3, <3>1, <4>1
    <3>2. CASE k # n + 1
      <4>1. k \in 1..n /\ w + k = 0 + k
        BY <2>1, <3>2
      <4>2. es[k] = Es[k] /\ us[0 + k] = Us[d + k]
        BY <1>6, <2>3, <4>1
      <4>. QED BY <1>2, <1>5, <4>1, <4>2
    <3>. QED BY <3>1, <3>2
  <2>5. /\ Len(us) = (n + 1) + 0 /\ n + 1 \in Nat /\ n + 1 <= MaxSize
        /\ n + 1 < MaxSize => 0 = 0
    BY <1>1, <1>6, <1>9, <2>1
  <2>6. Matches(es, us, ks)
    BY <1>1, <1>6, <2>3, <2>4, <2>5, MatchesIf
  <2>. QED BY <2>6 DEF us, ks, es
<1>. QED BY <1>1, <1>8, <1>9

----------------------------------------------------------------------------
LEMMA MemoryStarts == E!Init => MemoryInv
<1>. SUFFICES ASSUME E!Init PROVE MemoryInv
  OBVIOUS
<1>1. /\ memoryLastReflect = <<>> /\ memoryUsed = <<>> /\ memoryNow = 0
      /\ memoryCall = [o \in Observe |-> E!Idle]
      /\ memoryKept = [s \in Scope |-> -Cooldown]
  BY DEF E!Init
<1>2. Matches(memoryLastReflect, memoryUsed, memoryKept)
  BY <1>1, MemoryAssumption DEF Matches
<1>3. memoryKept \in [Scope -> -Cooldown..MemoryHorizon] /\ memoryNow \in 0..MemoryHorizon
  BY <1>1, MemoryAssumption
<1>4. memoryCall \in [Observe -> {E!Idle} \union
        [step : {"check", "reflect", "set"}, of : Scope]]
  BY <1>1
<1>5. memoryLastReflect \in Seq([of : Scope, at : 0..MemoryHorizon]) /\ memoryUsed \in Seq(Scope)
      /\ Len(memoryLastReflect) <= MaxSize
  BY <1>1, MemoryAssumption
<1>. QED BY <1>2, <1>3, <1>4, <1>5 DEF MemoryInv, E!TypeOK

(* The invariant of a step that is told what it does to each variable.      *)
LEMMA MemoryMoves ==
  ASSUME MemoryInv, Matches(memoryLastReflect', memoryUsed', memoryKept'),
         memoryCall' \in [Observe -> {E!Idle} \union
            [step : {"check", "reflect", "set"}, of : Scope]],
         memoryKept' \in [Scope -> -Cooldown..MemoryHorizon],
         memoryNow' \in 0..MemoryHorizon
  PROVE  MemoryInv'
<1>1. E!TypeOK'
  BY DEF Matches, E!TypeOK, E!Idle, Entries
<1>. QED BY <1>1 DEF MemoryInv

LEMMA CallMoves ==
  ASSUME MemoryInv, NEW o \in Observe, memoryCall[o].step # "idle"
  PROVE  /\ memoryCall[o].of \in Scope
         /\ \A step \in {"check", "reflect", "set"} :
              [memoryCall EXCEPT ![o].step = step] \in
                [Observe -> {E!Idle} \union [step : {"check", "reflect", "set"}, of : Scope]]
         /\ [memoryCall EXCEPT ![o] = E!Idle] \in
                [Observe -> {E!Idle} \union [step : {"check", "reflect", "set"}, of : Scope]]
<1>. DEFINE C == [step : {"check", "reflect", "set"}, of : Scope]
<1>1. memoryCall \in [Observe -> {E!Idle} \union C]
  BY DEF MemoryInv, E!TypeOK
<1>2. memoryCall[o] \in C
  BY <1>1 DEF E!Idle
<1>3. \A step \in {"check", "reflect", "set"} : [memoryCall[o] EXCEPT !.step = step] \in C
  BY <1>2
<1>. HIDE DEF C
<1>4. \A step \in {"check", "reflect", "set"} :
        [memoryCall EXCEPT ![o].step = step] \in [Observe -> {E!Idle} \union C]
  BY <1>1, <1>3
<1>5. [memoryCall EXCEPT ![o] = E!Idle] \in [Observe -> {E!Idle} \union C]
  BY <1>1
<1>6. memoryCall[o].of \in Scope
  BY <1>2 DEF C
<1>. QED BY <1>4, <1>5, <1>6 DEF C

LEMMA CheckKeeps ==
  ASSUME MemoryInv, NEW o \in Observe, E!CheckCooldown(o)
  PROVE  MemoryInv'
<1>. DEFINE s == memoryCall[o].of
<1>1. memoryCall[o].step = "check" /\ s \in Scope
  BY CallMoves DEF E!CheckCooldown
<1>2. UNCHANGED <<memoryKept, memoryNow>>
  BY DEF E!CheckCooldown
<1>3. memoryCall' \in [Observe -> {E!Idle} \union
        [step : {"check", "reflect", "set"}, of : Scope]]
  <2>1. memoryCall' = [memoryCall EXCEPT ![o] = E!Idle] \/ memoryCall' = [memoryCall EXCEPT ![o].step = "reflect"]
    BY DEF E!CheckCooldown, E!Ends, E!Step
  <2>2. memoryCall[o].step # "idle"
    BY <1>1
  <2>3. /\ [memoryCall EXCEPT ![o].step = "reflect"] \in [Observe -> {E!Idle} \union
              [step : {"check", "reflect", "set"}, of : Scope]]
        /\ [memoryCall EXCEPT ![o].step = "set"] \in [Observe -> {E!Idle} \union
              [step : {"check", "reflect", "set"}, of : Scope]]
        /\ [memoryCall EXCEPT ![o] = E!Idle] \in [Observe -> {E!Idle} \union
              [step : {"check", "reflect", "set"}, of : Scope]]
    BY <2>2, CallMoves
  <2>. QED BY <2>1, <2>3
<1>4. memoryLastReflect' = E!Get(s) /\ memoryUsed' = IF E!Has(s) THEN E!MovedLast(s) ELSE memoryUsed
  BY DEF E!CheckCooldown
<1>. HIDE DEF s
<1>5. Matches(memoryLastReflect', memoryUsed', memoryKept')
  <2>1. CASE E!Has(s)
    <3>1. /\ E!Entry(s) = [of |-> s, at |-> Ks[s]] /\ Ks[s] \in 0..MemoryHorizon
      <4>1. 0 \in 0..MemoryHorizon
        BY MemoryAssumption
      <4>. QED BY <1>1, <2>1, <4>1, KnownMatches
    <3>. DEFINE t == Ks[s]
                e == [of |-> s, at |-> t]
    <3>. HIDE DEF t
    <3>2. Matches(Append(E!Without(s), e), E!MovedLast(s), [Ks EXCEPT ![s] = t])
      <4>1. t \in 0..MemoryHorizon
        BY <3>1 DEF t
      <4>. QED BY <1>1, <2>1, <4>1, KnownMatches
    <3>3. memoryLastReflect' = Append(E!Without(s), e) /\ memoryUsed' = E!MovedLast(s)
      BY <1>4, <2>1, <3>1 DEF E!Get, t
    <3>4. [Ks EXCEPT ![s] = t] = memoryKept'
      <4>1. Ks \in [Scope -> -Cooldown..MemoryHorizon]
        BY DEF MemoryInv, E!TypeOK, Ks
      <4>. QED BY <1>1, <1>2, <4>1 DEF t, Ks
    <3>. QED BY <3>2, <3>3, <3>4
  <2>2. CASE ~ E!Has(s)
    <3>1. memoryLastReflect' = memoryLastReflect /\ memoryUsed' = memoryUsed
      BY <1>4, <2>2 DEF E!Get
    <3>. QED BY <1>2, <3>1 DEF MemoryInv
  <2>. QED BY <2>1, <2>2
<1>6. memoryKept' \in [Scope -> -Cooldown..MemoryHorizon] /\ memoryNow' \in 0..MemoryHorizon
  BY <1>2 DEF MemoryInv, E!TypeOK
<1>. QED BY <1>3, <1>5, <1>6, MemoryMoves

LEMMA TimeKeeps ==
  ASSUME MemoryInv, NEW o \in Observe, E!KeepTime(o)
  PROVE  MemoryInv'
<1>. DEFINE s == memoryCall[o].of
<1>1. s \in Scope
  BY CallMoves DEF E!KeepTime
<1>2. /\ memoryLastReflect' = E!Set(s, memoryNow) /\ memoryUsed' = E!MovedLast(s)
      /\ memoryKept' = [memoryKept EXCEPT ![s] = memoryNow]
      /\ memoryNow' = memoryNow
  BY DEF E!KeepTime
<1>3. memoryCall' \in [Observe -> {E!Idle} \union
        [step : {"check", "reflect", "set"}, of : Scope]]
  BY CallMoves DEF E!KeepTime, E!Ends
<1>4. memoryNow \in 0..MemoryHorizon /\ memoryKept \in [Scope -> -Cooldown..MemoryHorizon]
  BY DEF MemoryInv, E!TypeOK
<1>. HIDE DEF s
<1>5. Matches(memoryLastReflect', memoryUsed', memoryKept')
  <2>. DEFINE t == memoryNow
  <2>1. t \in 0..MemoryHorizon
    BY <1>4
  <2>2. CASE E!Has(s)
    <3>1. E!Set(s, t) = Append(E!Without(s), [of |-> s, at |-> t])
      BY <2>2 DEF E!Set
    <3>2. Matches(E!Set(s, t), E!MovedLast(s), [Ks EXCEPT ![s] = t])
      <4>. HIDE DEF t
      <4>. QED BY <1>1, <2>1, <2>2, <3>1, KnownMatches
    <3>. QED BY <1>2, <3>2 DEF Ks
  <2>3. CASE ~ E!Has(s)
    <3>1. Matches(E!Set(s, t), E!MovedLast(s), [Ks EXCEPT ![s] = t])
      <4>. HIDE DEF t
      <4>. QED BY <1>1, <2>1, <2>3, NewMatches
    <3>. QED BY <1>2, <3>1 DEF Ks
  <2>. QED BY <2>2, <2>3
<1>6. memoryKept' \in [Scope -> -Cooldown..MemoryHorizon] /\ memoryNow' \in 0..MemoryHorizon
  <2>1. memoryNow \in -Cooldown..MemoryHorizon
    BY <1>4, MemoryAssumption
  <2>. QED BY <1>1, <1>2, <1>4, <2>1
<1>. QED BY <1>3, <1>5, <1>6, MemoryMoves

LEMMA MemoryNext == MemoryInv /\ [E!Next]_memoryVars => MemoryInv'
<1>. SUFFICES ASSUME MemoryInv, [E!Next]_memoryVars PROVE MemoryInv'
  OBVIOUS
<1>. DEFINE C == {E!Idle} \union [step : {"check", "reflect", "set"}, of : Scope]
<1>0. /\ memoryCall \in [Observe -> C] /\ memoryNow \in 0..MemoryHorizon
      /\ memoryKept \in [Scope -> -Cooldown..MemoryHorizon]
      /\ Matches(memoryLastReflect, memoryUsed, memoryKept)
  BY DEF MemoryInv, E!TypeOK
<1>. HIDE DEF C
<1>1. CASE UNCHANGED memoryVars
  <2>1. UNCHANGED <<memoryLastReflect, memoryUsed, memoryKept, memoryCall, memoryNow>>
    BY <1>1 DEF memoryVars
  <2>. QED BY <1>0, <2>1, MemoryMoves DEF C
<1>2. CASE E!Tick
  <2>1. UNCHANGED <<memoryLastReflect, memoryUsed, memoryKept, memoryCall>>
    BY <1>2 DEF E!Tick
  <2>2. memoryNow' \in 0..MemoryHorizon
    BY <1>0, <1>2, MemoryAssumption DEF E!Tick
  <2>. QED BY <1>0, <2>1, <2>2, MemoryMoves DEF C
<1>3. ASSUME NEW o \in Observe, NEW s \in Scope, E!ObserveMemory(o, s)
      PROVE  MemoryInv'
  <2>1. UNCHANGED <<memoryLastReflect, memoryUsed, memoryKept, memoryNow>>
    BY <1>3 DEF E!ObserveMemory
  <2>2. memoryCall' \in [Observe -> C]
    <3>1. memoryCall' = [memoryCall EXCEPT ![o] = [step |-> "check", of |-> s]]
      BY <1>3 DEF E!ObserveMemory
    <3>2. [step |-> "check", of |-> s] \in C
      BY DEF C
    <3>. QED BY <1>0, <3>1, <3>2
  <2>. QED BY <1>0, <2>1, <2>2, MemoryMoves DEF C
<1>4. ASSUME NEW o \in Observe, NEW reflects \in BOOLEAN, E!Reflect(o, reflects)
      PROVE  MemoryInv'
  <2>1. UNCHANGED <<memoryLastReflect, memoryUsed, memoryKept, memoryNow>>
    BY <1>4 DEF E!Reflect
  <2>2. memoryCall' \in [Observe -> C]
    <3>1. \/ memoryCall' = [memoryCall EXCEPT ![o] = E!Idle]
          \/ memoryCall' = [memoryCall EXCEPT ![o].step = "set"]
      BY <1>4 DEF E!Reflect, E!Step, E!Ends
    <3>2. memoryCall[o].step # "idle"
      BY <1>4 DEF E!Reflect
    <3>3. /\ [memoryCall EXCEPT ![o].step = "reflect"] \in [Observe -> {E!Idle} \union
                [step : {"check", "reflect", "set"}, of : Scope]]
          /\ [memoryCall EXCEPT ![o].step = "set"] \in [Observe -> {E!Idle} \union
                [step : {"check", "reflect", "set"}, of : Scope]]
          /\ [memoryCall EXCEPT ![o] = E!Idle] \in [Observe -> {E!Idle} \union
                [step : {"check", "reflect", "set"}, of : Scope]]
      BY <3>2, CallMoves
    <3>. QED BY <3>1, <3>3 DEF C
  <2>. QED BY <1>0, <2>1, <2>2, MemoryMoves DEF C
<1>. QED BY <1>1, <1>2, <1>3, <1>4, CheckKeeps, TimeKeeps DEF E!Next

(* A scope among those used last is still in the map. *)
LEMMA NewestKnown ==
  ASSUME MemoryInv, NEW s \in E!Newest
  PROVE  E!Has(s)
<1>1. PICK n, m, d \in Nat :
           /\ n = Len(Es) /\ m = Len(Us) /\ n + d = m
           /\ n <= MaxSize /\ (n < MaxSize => d = 0) /\ MaxSize \in Nat /\ MaxSize > 0
           /\ Es \in Seq(Entries) /\ Us \in Seq(Scope)
           /\ DOMAIN Es = 1..n /\ DOMAIN Us = 1..m
           /\ \A i, j \in 1..m : Us[i] = Us[j] => i = j
           /\ \A k \in 1..n : /\ Es[k] \in Entries /\ d + k \in 1..m
                              /\ Es[k].of = Us[d + k] /\ Es[k].at = Ks[Es[k].of]
           /\ Ks \in [Scope -> Int]
  BY Lists
<1>2. PICK j \in 1..m : j > m - MaxSize /\ Us[j] = s
  <2>1. PICK j \in DOMAIN Us : j > Len(Us) - MaxSize /\ Us[j] = s
    BY DEF E!Newest, Us
  <2>. QED BY <1>1, <2>1
<1>3. PICK k \in 1..n : d + k = j
  <2>1. n + d = m /\ (n < MaxSize => d = 0) /\ n <= MaxSize /\ MaxSize \in Nat
    BY <1>1
  <2>2. j - d \in 1..n /\ d + (j - d) = j
    BY <1>2, <2>1
  <2>. QED BY <2>2
<1>4. Es[k].of = s /\ k \in DOMAIN Es
  BY <1>1, <1>2, <1>3
<1>. QED BY <1>4 DEF E!Has, Es

LEMMA ReflectsRested ==
  ASSUME MemoryInv, [E!Next]_memoryVars, NEW o \in Observe,
         memoryCall[o].step = "check", memoryCall'[o].step = "reflect",
         memoryCall[o].of \in E!Newest
  PROVE  memoryNow - memoryKept[memoryCall[o].of] >= Cooldown
<1>. DEFINE s == memoryCall[o].of
<1>1. memoryCall \in [Observe -> {E!Idle} \union
        [step : {"check", "reflect", "set"}, of : Scope]]
  BY DEF MemoryInv, E!TypeOK
<1>2. E!CheckCooldown(o)
  <2>1. memoryCall' # memoryCall
    OBVIOUS
  <2>2. E!Next /\ ~ E!Tick
    BY <2>1 DEF memoryVars, E!Tick
  <2>3. PICK c \in Observe :
          \/ \E z \in Scope : E!ObserveMemory(c, z)
          \/ E!CheckCooldown(c) \/ E!KeepTime(c)
          \/ \E reflects \in BOOLEAN : E!Reflect(c, reflects)
    BY <2>2 DEF E!Next
  <2>4. memoryCall'[o] # memoryCall[o]
    OBVIOUS
  <2>5. \E x : memoryCall' = [memoryCall EXCEPT ![c] = x]
    BY <2>3 DEF E!ObserveMemory, E!CheckCooldown, E!KeepTime, E!Reflect, E!Step, E!Ends
  <2>6. c = o
    BY <1>1, <2>4, <2>5
  <2>7. /\ ~ \E z \in Scope : E!ObserveMemory(o, z)
        /\ ~ E!KeepTime(o) /\ ~ \E reflects \in BOOLEAN : E!Reflect(o, reflects)
    BY DEF E!ObserveMemory, E!Idle, E!KeepTime, E!Reflect
  <2>. QED BY <2>3, <2>6, <2>7
<1>3. s \in Scope
  BY CallMoves
<1>4. E!Has(s)
  BY NewestKnown
<1>5. ~ (memoryNow - E!Entry(s).at < Cooldown)
  <2>. SUFFICES ASSUME memoryNow - E!Entry(s).at < Cooldown PROVE FALSE
    OBVIOUS
  <2>1. memoryCall' = [memoryCall EXCEPT ![o] = E!Idle]
    BY <1>2, <1>4 DEF E!CheckCooldown, E!Ends
  <2>. QED BY <1>1, <2>1 DEF E!Idle
<1>6. E!Entry(s).at = memoryKept[s] /\ memoryKept[s] \in 0..MemoryHorizon
  <2>. HIDE DEF s
  <2>1. 0 \in 0..MemoryHorizon
    BY MemoryAssumption
  <2>2. E!Entry(s) = [of |-> s, at |-> Ks[s]] /\ Ks[s] \in 0..MemoryHorizon
    BY <1>3, <1>4, <2>1, KnownMatches
  <2>. QED BY <2>2 DEF Ks
<1>7. memoryNow \in 0..MemoryHorizon
  BY DEF MemoryInv, E!TypeOK
<1>. QED BY <1>5, <1>6, <1>7, MemoryAssumption

(* An observation that finds its scope among those used last reflects on it *)
(* only when the cooldown since its last reflection is over, whichever      *)
(* scopes others have pushed out of lastReflectTime (maybeAutoReflect).     *)
THEOREM ReflectionsRest == CourseSpec => CooldownHolds
<1>1. CourseInit => MemoryInv
  BY MemoryStarts DEF CourseInit
<1>2. ASSUME MemoryInv, [CourseNext]_courseVars
      PROVE  [E!Next]_memoryVars
  BY <1>2 DEF CourseNext, courseVars
<1>3. ASSUME MemoryInv, [CourseNext]_courseVars
      PROVE  MemoryInv'
  BY <1>2, <1>3, MemoryNext
<1>4. ASSUME MemoryInv, [CourseNext]_courseVars
      PROVE  [\A o \in Observe :
                memoryCall[o].step = "check" /\ memoryCall'[o].step = "reflect" =>
                  LET s == memoryCall[o].of IN
                    s \in E!Newest => memoryNow - memoryKept[s] >= Cooldown]_E!vars
  BY <1>2, <1>4, ReflectsRested
<1>. QED BY <1>1, <1>3, <1>4, PTL DEF CourseSpec, CooldownHolds, E!CooldownHolds

----------------------------------------------------------------------------
(* Types.  Each part's invariant says most of what its TypeOK asks; what is *)
(* left is typed beside it.                                                 *)

(* Lessons.  A request keeps the row that it has read. *)
TypedRequest ==
  [pc : {"idle", "peek", "write"}, act : Act, on : 0..StageCount, seen : L!StageRow,
   cur : 0..StageCount]

LessonTyped ==
  /\ L!TypeOK
  /\ \A s \in L!Stage : lessonRan[s] <= lessonNow
  /\ lessonCall \in [LessonCall -> TypedRequest]
  /\ \A c \in LessonCall : lessonCall[c].pc # "idle" =>
       /\ lessonCall[c].on \in L!Stage
       /\ lessonCall[c].act = "unlock_next" => lessonCall[c].on < StageCount

LEMMA DraftTyped == L!Draft \in L!StageRow
BY BoundsHold DEF L!Draft, L!StageRow, L!StageStatus, Bounds

LEMMA NoCallTyped == L!NoCall \in TypedRequest /\ L!NoCall.pc = "idle"
BY DraftTyped, BoundsHold DEF L!NoCall, L!None, TypedRequest, Act, Bounds

LEMMA LessonStartsTyped == L!Init => LessonTyped
<1>. SUFFICES ASSUME L!Init PROVE LessonTyped
  OBVIOUS
<1>1. L!TypeOK
  BY DraftTyped, BoundsHold DEF L!Init, L!TypeOK, L!None, L!Nothing, L!StageStatus, Bounds
<1>2. \A s \in L!Stage : lessonRan[s] <= lessonNow
  BY DEF L!Init
<1>3. lessonCall \in [LessonCall -> TypedRequest] /\ \A c \in LessonCall : lessonCall[c].pc = "idle"
  BY NoCallTyped DEF L!Init
<1>. QED BY <1>1, <1>2, <1>3 DEF LessonTyped

LEMMA WholeSeconds ==
  ASSUME NEW d \in Nat, NEW n \in Nat \ {0}
  PROVE  d \div n \in Nat
<1>1. d \div n \in Int /\ 0 \div n <= d \div n /\ 0 \div n = 0
  BY Quotient, QuotientGrows
<1>. QED BY <1>1

LEMMA SecondsTyped ==
  ASSUME NEW a \in Int, NEW b \in Int
  PROVE  L!Minus(a, b) \in Nat
BY DEF L!Minus

(* What a write leaves of a row. *)
LEMMA WriteTyped ==
  ASSUME LessonTyped, NEW c \in LessonCall, lessonCall[c].pc = "write",
         L!StartStage(c) \/ L!PauseStage(c) \/ L!ExtendStage(c) \/ L!EndStage(c) \/ L!UnlockNext(c)
  PROVE  /\ lessonStage' \in [L!Stage -> L!StageRow]
         /\ lessonSession' \in [status : {"absent", "draft", "live"}, current : L!Stage \union {L!None},
                                version : Nat]
         /\ lessonResumed' \in [L!Stage -> Nat]
<1>. DEFINE k == lessonCall[c]  s == k.on  r == lessonStage[s]  q == k.seen
<1>1. /\ k \in TypedRequest /\ s \in L!Stage /\ r \in L!StageRow /\ q \in L!StageRow
      /\ lessonStage \in [L!Stage -> L!StageRow]
      /\ lessonSession \in [status : {"absent", "draft", "live"}, current : L!Stage \union {L!None}, version : Nat]
      /\ lessonNow \in 0..LessonHorizon /\ lessonResumed \in [L!Stage -> Nat]
      /\ r.version + 1 \in Nat
  BY DEF LessonTyped, L!TypeOK, TypedRequest, L!StageRow
<1>2. StageCount \in Nat /\ LessonHorizon \in Nat
  BY BoundsHold DEF Bounds
<1>3. L!Stage = 1..StageCount
  BY DEF L!Stage
<1>9. -1 \in -1..LessonHorizon /\ lessonNow \in -1..LessonHorizon
  BY <1>1, <1>2
<1>10. lessonResumed' \in [L!Stage -> Nat]
  BY <1>1 DEF L!StartStage, L!PauseStage, L!ExtendStage, L!EndStage, L!UnlockNext
<1>11. [lessonSession EXCEPT !.version = @ + 1] \in
         [status : {"absent", "draft", "live"}, current : L!Stage \union {L!None}, version : Nat]
  BY <1>1
<1>4. CASE L!StartStage(c)
  <2>1. L!PauseSeconds(q) \in Nat
    <3>1. q.pausedAt \in Int /\ lessonNow \in Int
      BY <1>1, <1>2 DEF L!StageRow
    <3>. HIDE DEF q
    <3>2. L!Minus(lessonNow, q.pausedAt) \in Nat
      BY <3>1, SecondsTyped
    <3>3. L!Minus(lessonNow, q.pausedAt) \div Second \in Nat
      BY <3>2, BoundsHold, WholeSeconds DEF Bounds
    <3>. QED BY <3>3 DEF L!PauseSeconds
  <2>2. r.paused + L!PauseSeconds(q) \in Nat
    BY <1>1, <2>1 DEF L!StageRow
  <2>. DEFINE w == [r EXCEPT !.status = "running", !.pausedAt = -1,
                             !.started = IF q.started = -1 THEN lessonNow ELSE q.started,
                             !.paused = r.paused + L!PauseSeconds(q),
                             !.version = r.version + 1]
  <2>3. (IF q.started = -1 THEN lessonNow ELSE q.started) \in -1..LessonHorizon
    BY <1>1, <1>2 DEF L!StageRow
  <2>4. w \in L!StageRow
    <3>. DEFINE st == IF q.started = -1 THEN lessonNow ELSE q.started
                pa == r.paused + L!PauseSeconds(q)
    <3>1. st \in -1..LessonHorizon /\ pa \in Nat
      BY <2>2, <2>3
    <3>2. w = [r EXCEPT !.status = "running", !.pausedAt = -1, !.started = st, !.paused = pa,
                    !.version = r.version + 1]
      OBVIOUS
    <3>. HIDE DEF st, pa, w, r
    <3>. QED BY <1>1, <1>9, <3>1, <3>2 DEF L!StageRow, L!StageStatus
  <2>5. lessonStage' = [lessonStage EXCEPT ![s] = w]
    BY <1>4 DEF L!StartStage
  <2>. HIDE DEF w
  <2>6. lessonSession' = [status |-> "live", current |-> s, version |-> lessonSession.version + 1]
    BY <1>4 DEF L!StartStage
  <2>7. lessonSession.version + 1 \in Nat
    BY <1>1
  <2>8. lessonSession' \in [status : {"absent", "draft", "live"}, current : L!Stage \union {L!None}, version : Nat]
    BY <1>1, <2>6, <2>7
  <2>9. lessonStage' \in [L!Stage -> L!StageRow]
    BY <1>1, <2>4, <2>5
  <2>. QED BY <1>10, <2>8, <2>9
<1>5. CASE L!PauseStage(c)
  <2>. DEFINE w == [r EXCEPT !.status = "paused", !.pausedAt = lessonNow, !.version = r.version + 1]
  <2>1. w \in L!StageRow
    <3>. HIDE DEF r
    <3>. QED BY <1>1, <1>9 DEF L!StageRow, L!StageStatus
  <2>2. lessonStage' = [lessonStage EXCEPT ![s] = w]
    BY <1>1, <1>5 DEF L!PauseStage
  <2>. HIDE DEF w
  <2>. QED BY <1>1, <1>5, <1>10, <1>11, <2>1, <2>2 DEF L!PauseStage
<1>6. CASE L!ExtendStage(c)
  <2>. DEFINE w == [r EXCEPT !.extra = r.extra + 1, !.version = r.version + 1]
  <2>1. w \in L!StageRow
    <3>1. r.extra + 1 \in Nat
      BY <1>1 DEF L!StageRow
    <3>. HIDE DEF r
    <3>. QED BY <1>1, <3>1 DEF L!StageRow
  <2>2. lessonStage' = [lessonStage EXCEPT ![s] = w]
    BY <1>1, <1>6 DEF L!ExtendStage
  <2>. HIDE DEF w
  <2>. QED BY <1>1, <1>6, <1>10, <1>11, <2>1, <2>2 DEF L!ExtendStage
<1>7. CASE L!EndStage(c)
  <2>. DEFINE st == IF k.act = "complete" THEN "completed" ELSE "ended_early"
              w == [r EXCEPT !.status = st, !.pausedAt = -1, !.version = r.version + 1]
  <2>1. w \in L!StageRow
    <3>. HIDE DEF r
    <3>. QED BY <1>1, <1>9 DEF L!StageRow, L!StageStatus
  <2>2. lessonStage' = [lessonStage EXCEPT ![s] = w]
    BY <1>1, <1>7 DEF L!EndStage
  <2>. HIDE DEF w
  <2>. QED BY <1>1, <1>7, <1>10, <1>11, <2>1, <2>2 DEF L!EndStage
<1>8. CASE L!UnlockNext(c)
  <2>1. s + 1 \in L!Stage
    BY <1>1, <1>2, <1>3, <1>8 DEF L!UnlockNext, LessonTyped
  <2>. DEFINE f == [lessonSession EXCEPT !.current = s + 1]
  <2>2. f \in [status : {"absent", "draft", "live"}, current : L!Stage \union {L!None}, version : Nat]
    BY <1>1, <2>1
  <2>3. lessonSession' = [f EXCEPT !.version = @ + 1] /\ lessonStage' = lessonStage
    BY <1>1, <1>8 DEF L!UnlockNext
  <2>. HIDE DEF f
  <2>4. f.version + 1 \in Nat
    BY <2>2
  <2>5. [f EXCEPT !.version = @ + 1] \in
          [status : {"absent", "draft", "live"}, current : L!Stage \union {L!None}, version : Nat]
    BY <2>2, <2>4
  <2>. QED BY <1>1, <1>10, <2>3, <2>5
<1>. QED BY <1>4, <1>5, <1>6, <1>7, <1>8, <1>10

LEMMA LessonStaysTyped == LessonTyped /\ [L!Next]_lessonVars => LessonTyped'
<1>. SUFFICES ASSUME LessonTyped, [L!Next]_lessonVars PROVE LessonTyped'
  OBVIOUS
<1>. DEFINE Fine(call) == /\ call \in [LessonCall -> TypedRequest]
                          /\ \A c \in LessonCall : call[c].pc # "idle" =>
                               /\ call[c].on \in L!Stage
                               /\ call[c].act = "unlock_next" => call[c].on < StageCount
<1>1. /\ lessonStage \in [L!Stage -> L!StageRow] /\ lessonNow \in 0..LessonHorizon
      /\ lessonSession \in [status : {"absent", "draft", "live"}, current : L!Stage \union {L!None}, version : Nat]
      /\ lessonRan \in [L!Stage -> 0..LessonHorizon] /\ lessonClient \in {"none", "panel", "api"}
      /\ \A s \in L!Stage : lessonRan[s] <= lessonNow
      /\ Fine(lessonCall)
      /\ lessonResumed \in [L!Stage -> Nat]
      /\ lessonShown \in [LessonTab -> [on : L!Stage \union {L!None}, status : L!StageStatus, version : Nat]]
  BY DEF LessonTyped, L!TypeOK
<1>2. StageCount \in Nat /\ LessonHorizon \in Nat
  BY BoundsHold DEF Bounds
<1>. SUFFICES /\ lessonStage' \in [L!Stage -> L!StageRow] /\ lessonNow' \in 0..LessonHorizon
              /\ lessonSession' \in [status : {"absent", "draft", "live"}, current : L!Stage \union {L!None},
                                     version : Nat]
              /\ lessonRan' \in [L!Stage -> 0..LessonHorizon] /\ lessonClient' \in {"none", "panel", "api"}
              /\ \A s \in L!Stage : lessonRan'[s] <= lessonNow'
              /\ Fine(lessonCall')
              /\ lessonResumed' \in [L!Stage -> Nat]
              /\ lessonShown' \in [LessonTab -> [on : L!Stage \union {L!None}, status : L!StageStatus,
                                                 version : Nat]]
  BY DEF LessonTyped, L!TypeOK, L!Stage, L!StageRow, L!StageStatus, L!None, TypedRequest, Act
<1>3. ASSUME NEW c \in LessonCall, NEW k \in TypedRequest,
             k.pc # "idle" => k.on \in L!Stage /\ (k.act = "unlock_next" => k.on < StageCount)
      PROVE  Fine([lessonCall EXCEPT ![c] = k])
  BY <1>1, <1>3
<1>. HIDE DEF Fine
<1>4. CASE L!CreateSession
  BY <1>1, <1>4 DEF L!CreateSession
<1>5. CASE L!Tick
  BY <1>1, <1>2, <1>5 DEF L!Tick
<1>6. ASSUME NEW c \in LessonCall, L!Peek(c)
      PROVE  lessonCall' = [lessonCall EXCEPT ![c] = L!NoCall]
               \/ lessonCall' = [lessonCall EXCEPT ![c] = [lessonCall[c] EXCEPT !.pc = "write"]]
  BY <1>1, <1>6 DEF L!Peek, Fine
<1>7. ASSUME NEW c \in LessonCall, L!Peek(c) PROVE Fine(lessonCall')
  <2>1. lessonCall[c] \in TypedRequest /\ lessonCall[c].pc # "idle"
    BY <1>1, <1>7 DEF Fine, L!Peek
  <2>2. lessonCall[c].on \in L!Stage /\ (lessonCall[c].act = "unlock_next" => lessonCall[c].on < StageCount)
    BY <1>1, <2>1 DEF Fine
  <2>3. [lessonCall[c] EXCEPT !.pc = "write"] \in TypedRequest
    BY <2>1 DEF TypedRequest
  <2>4. /\ [lessonCall[c] EXCEPT !.pc = "write"].on = lessonCall[c].on
        /\ [lessonCall[c] EXCEPT !.pc = "write"].act = lessonCall[c].act
    BY <2>1 DEF TypedRequest
  <2>. DEFINE k == [lessonCall[c] EXCEPT !.pc = "write"]
  <2>5. Fine([lessonCall EXCEPT ![c] = k])
    <3>. HIDE DEF k
    <3>. QED BY <1>3, <2>2, <2>3, <2>4 DEF k
  <2>. QED BY <1>3, <1>6, <1>7, <2>5, NoCallTyped
<1>8. ASSUME NEW c \in LessonCall, L!Peek(c) PROVE LessonTyped'
  BY <1>1, <1>7, <1>8 DEF L!Peek, LessonTyped, L!TypeOK, Fine, L!Stage, L!StageRow, L!StageStatus, L!None, TypedRequest, Act
<1>9. ASSUME NEW c \in LessonCall, L!Write(c) PROVE LessonTyped'
  <2>1. /\ lessonStage' \in [L!Stage -> L!StageRow]
        /\ lessonSession' \in [status : {"absent", "draft", "live"}, current : L!Stage \union {L!None},
                               version : Nat]
        /\ lessonResumed' \in [L!Stage -> Nat]
    BY <1>9, WriteTyped DEF L!Write
  <2>2. Fine(lessonCall')
    BY <1>3, <1>9, NoCallTyped DEF L!Write
  <2>. QED BY <1>1, <1>9, <2>1, <2>2 DEF L!Write, LessonTyped, L!TypeOK, Fine, L!Stage, L!StageRow, L!StageStatus, L!None, TypedRequest, Act
<1>10. ASSUME NEW c \in LessonCall, NEW act \in Act \ {"none"}, NEW s \in L!Stage, L!Look(c, act, s)
       PROVE  LessonTyped'
  <2>. DEFINE k == [pc |-> IF act = "start" /\ lessonSession.current \notin {L!None, s}
                           THEN "peek" ELSE "write",
                    act |-> act, on |-> s, seen |-> lessonStage[s], cur |-> lessonSession.current]
  <2>1. k \in TypedRequest /\ k.on = s /\ k.act = act
    BY <1>1, <1>2 DEF TypedRequest, L!Stage, L!None
  <2>2. act = "unlock_next" => s < StageCount
    BY <1>10 DEF L!Look
  <2>3. lessonCall' = [lessonCall EXCEPT ![c] = k]
    BY <1>10 DEF L!Look
  <2>. HIDE DEF k
  <2>4. Fine(lessonCall')
    BY <1>3, <2>1, <2>2, <2>3
  <2>. QED BY <1>1, <1>10, <2>4 DEF L!Look, LessonTyped, L!TypeOK, Fine, L!Stage, L!StageRow, L!StageStatus, L!None, TypedRequest, Act
<1>11. CASE UNCHANGED lessonVars
  BY <1>1, <1>11 DEF lessonVars
<1>12. ASSUME LessonTyped'
       PROVE  /\ lessonStage' \in [L!Stage -> L!StageRow] /\ lessonNow' \in 0..LessonHorizon
              /\ lessonSession' \in [status : {"absent", "draft", "live"}, current : L!Stage \union {L!None},
                                     version : Nat]
              /\ lessonRan' \in [L!Stage -> 0..LessonHorizon] /\ lessonClient' \in {"none", "panel", "api"}
              /\ \A s \in L!Stage : lessonRan'[s] <= lessonNow'
              /\ Fine(lessonCall')
              /\ lessonResumed' \in [L!Stage -> Nat]
              /\ lessonShown' \in [LessonTab -> [on : L!Stage \union {L!None}, status : L!StageStatus,
                                                 version : Nat]]
  BY <1>12 DEF LessonTyped, L!TypeOK, Fine, L!Stage, L!StageRow, L!StageStatus, L!None, TypedRequest, Act
<1>13. ASSUME NEW b \in LessonTab, L!Refresh(b) PROVE LessonTyped'
  <2>1. PICK s \in L!Stage : lessonShown' = [lessonShown EXCEPT ![b] =
                 [on |-> s, status |-> lessonStage[s].status, version |-> lessonStage[s].version]]
    BY <1>13 DEF L!Refresh
  <2>2. [on |-> s, status |-> lessonStage[s].status, version |-> lessonStage[s].version]
          \in [on : L!Stage \union {L!None}, status : L!StageStatus, version : Nat]
    BY <1>1 DEF L!StageRow
  <2>3. lessonShown' \in [LessonTab -> [on : L!Stage \union {L!None}, status : L!StageStatus, version : Nat]]
    BY <1>1, <2>1, <2>2
  <2>. QED BY <1>1, <1>13, <2>3 DEF L!Refresh, LessonTyped, L!TypeOK, Fine, L!Stage, L!StageRow, L!StageStatus,
                                    L!None, TypedRequest, Act
<1>. QED BY <1>4, <1>5, <1>8, <1>9, <1>10, <1>11, <1>12, <1>13 DEF L!Next, L!StageCall, Act

(* Accounts. *)
PageAnswer == {"form", "network", "code", "taken", "credentials", "in"}

AccountTyped == AccountInv /\ accountPage \in [Registrant -> PageAnswer]

LEMMA AccountStartsTyped == I!Init => AccountTyped
BY AccountInit DEF AccountTyped, I!Init, PageAnswer

LEMMA AccountStaysTyped == AccountTyped /\ [I!Next]_accountVars => AccountTyped'
<1>. SUFFICES ASSUME AccountTyped, [I!Next]_accountVars PROVE AccountTyped'
  OBVIOUS
<1>7. AccountInv'
  BY CourseAssumption, AccountStep DEF AccountTyped, I!vars, accountVars
<1>. SUFFICES accountPage' \in [Registrant -> PageAnswer]
  BY <1>7 DEF AccountTyped, PageAnswer
<1>1. accountPage \in [Registrant -> PageAnswer]
  BY DEF AccountTyped
<1>2. ASSUME NEW p \in Registrant, NEW answer \in PageAnswer, I!Told(p, answer)
      PROVE  accountPage' \in [Registrant -> PageAnswer]
  BY <1>1, <1>2 DEF I!Told
<1>3. ASSUME NEW r \in Registration, accountRequest[r].step # "idle"
      PROVE  accountRequest[r].of \in Registrant
  BY <1>3 DEF AccountTyped, AccountInv, AccountShape
<1>4. ASSUME NEW r \in Registration, I!CreateUser(r) \/ I!CreateSession(r) \/ I!Lost(r)
      PROVE  accountPage' \in [Registrant -> PageAnswer]
  <2>1. accountRequest[r].of \in Registrant
    BY <1>3, <1>4 DEF I!CreateUser, I!CreateSession, I!Lost
  <2>2. {"taken", "in", "network"} \subseteq PageAnswer
    BY DEF PageAnswer
  <2>. QED BY <1>1, <1>2, <1>4, <2>1, <2>2 DEF I!CreateUser, I!CreateSession, I!Lost, I!Refused
<1>5. ASSUME NEW r \in Registration, NEW p \in Registrant, NEW e \in Email, NEW code \in BOOLEAN,
             I!Login(r, p, e) \/ I!Register(r, p, e, code)
      PROVE  accountPage' \in [Registrant -> PageAnswer]
  <2>1. \E answer \in PageAnswer : I!Told(p, answer)
    BY <1>5 DEF I!Login, I!Register, PageAnswer
  <2>. QED BY <1>2, <2>1
<1>6. CASE UNCHANGED accountVars
  BY <1>1, <1>6 DEF accountVars
<1>. QED BY <1>4, <1>5, <1>6 DEF I!Next

LEMMA AccountTypes == AccountTyped => I!TypeOK
BY DEF AccountTyped, AccountInv, AccountShape, AccountRequest, PageAnswer, I!TypeOK

(* The parts together. *)
LEMMA RouteTypes == RouteInv => P!TypeOK
<1>. SUFFICES ASSUME RouteInv PROVE P!TypeOK
  OBVIOUS
<1>1. CASE routePc = "idle"
  BY <1>1 DEF RouteInv, P!TypeOK, P!Range
<1>2. CASE routePc # "idle"
  <2>1. routeOpen \in Seq(routeGrid) /\ routeGrid \subseteq P!Cell /\ routeStart \in routeGrid /\ routeGoal \in routeGrid
    BY <1>2 DEF RouteInv, RouteShape
  <2>2. P!Range(routeOpen) \subseteq routeGrid
    BY <2>1 DEF P!Range
  <2>. QED BY <1>2, <2>1, <2>2 DEF RouteInv, P!TypeOK
<1>. QED BY <1>1, <1>2

LEMMA AnswerTypes == AnswerInv => Q!TypeOK
BY DEF AnswerInv, AnswerShape, AnswerCall, Piece, Q!TypeOK

LEMMA QueueTypes == QueueInv => J!TypeOK
BY DEF QueueInv, QueueShape, QueueRow, PollRecord, J!TypeOK, J!Minute

LEMMA RequestTypes ==
  /\ HelpInv => H!TypeOK
  /\ LotteryInv => Y!TypeOK
  /\ GuildInv => U!TypeOK
BY DEF HelpInv, HelpShape, LotteryInv, LotteryShape, LotteryRequest, GuildInv, GuildShape, GuildRequest,
       H!TypeOK, Y!TypeOK, U!TypeOK

PartsTyped ==
  /\ part \in Part
  /\ part = "lesson" => LessonTyped
  /\ part = "help" => HelpInv
  /\ part = "lottery" => LotteryInv
  /\ part = "guild" => GuildInv
  /\ part = "route" => RouteInv
  /\ part = "orchestrator" => OrchTyped
  /\ part = "seed" => SeedInv
  /\ part = "accounts" => AccountTyped
  /\ part = "memories" => MemoryInv
  /\ part = "panels" => PanelTyped
  /\ part = "answers" => AnswerInv
  /\ part = "command" => CliInv
  /\ part = "queue" => QueueInv
  /\ part = "events" => EventTyped
  /\ part = "history" => HistoryTyped
  /\ part = "team" => TeamTyped

LEMMA PartsStartTyped == CourseInit => PartsTyped
<1>. SUFFICES ASSUME CourseInit PROVE PartsTyped
  OBVIOUS
<1>1. part = "lesson" => LessonTyped
  BY LessonStartsTyped DEF CourseInit
<1>2. part = "help" => HelpInv
  BY HelpInit DEF CourseInit
<1>3. part = "lottery" => LotteryInv
  BY LotteryInit DEF CourseInit
<1>4. part = "guild" => GuildInv
  BY GuildInit, CourseAssumption DEF CourseInit
<1>5. part = "route" => RouteInv
  BY RouteInit DEF CourseInit
<1>6. part = "orchestrator" => OrchTyped
  BY OrchStartsTyped DEF CourseInit
<1>7. part = "seed" => SeedInv
  BY SeedStarts DEF CourseInit
<1>8. part = "accounts" => AccountTyped
  BY AccountStartsTyped, CourseAssumption DEF CourseInit
<1>9. part = "memories" => MemoryInv
  BY MemoryStarts DEF CourseInit
<1>10. part = "panels" => PanelTyped
  BY PanelStartsTyped DEF CourseInit
<1>11. part = "answers" => AnswerInv
  BY AnswerInit DEF CourseInit
<1>12. part = "command" => CliInv
  BY CliInit DEF CourseInit
<1>13. part = "queue" => QueueInv
  BY QueueStarts DEF CourseInit
<1>14. part = "events" => EventTyped
  BY EventStartsTyped DEF CourseInit
<1>15. part = "history" => HistoryTyped
  BY HistoryStartsTyped DEF CourseInit
<1>16. part = "team" => TeamTyped
  BY TeamStartsTyped DEF CourseInit
<1>17. part \in Part
  BY DEF CourseInit
<1>. QED BY <1>1, <1>2, <1>3, <1>4, <1>5, <1>6, <1>7, <1>8, <1>9, <1>10, <1>11, <1>12, <1>13, <1>14, <1>15, <1>16, <1>17 DEF PartsTyped

LEMMA PartsStayTyped == PartsTyped /\ [CourseNext]_courseVars => PartsTyped'
<1>. SUFFICES ASSUME PartsTyped, [CourseNext]_courseVars PROVE PartsTyped'
  OBVIOUS
<1>0. part' = part /\ part \in Part
  BY DEF CourseNext, courseVars, PartsTyped
<1>1. CASE part = "lesson"
  <2>1. LessonTyped /\ [L!Next]_lessonVars
    BY <1>1 DEF CourseNext, courseVars, PartsTyped
  <2>2. LessonTyped'
    BY <2>1, LessonStaysTyped
  <2>. QED BY <1>0, <1>1, <2>2 DEF PartsTyped
<1>2. CASE part = "help"
  <2>1. HelpInv /\ [H!Next]_H!vars
    BY <1>2 DEF CourseNext, courseVars, PartsTyped, helpVars, H!vars
  <2>2. HelpInv'
    BY <2>1, HelpKept
  <2>. QED BY <1>0, <1>2, <2>2 DEF PartsTyped
<1>3. CASE part = "lottery"
  <2>1. LotteryInv /\ [Y!Next]_Y!vars
    BY <1>3 DEF CourseNext, courseVars, PartsTyped, lotteryVars, Y!vars
  <2>2. LotteryInv'
    BY <2>1, LotteryStep, CourseAssumption
  <2>. QED BY <1>0, <1>3, <2>2 DEF PartsTyped
<1>4. CASE part = "guild"
  <2>1. GuildInv /\ [U!Next]_U!vars
    BY <1>4 DEF CourseNext, courseVars, PartsTyped, guildVars, U!vars
  <2>2. GuildInv'
    BY <2>1, GuildStep, CourseAssumption
  <2>. QED BY <1>0, <1>4, <2>2 DEF PartsTyped
<1>5. CASE part = "route"
  <2>1. RouteInv /\ [P!Next]_routeVars
    BY <1>5 DEF CourseNext, courseVars, PartsTyped
  <2>2. RouteInv'
    BY <2>1, RouteNext
  <2>. QED BY <1>0, <1>5, <2>2 DEF PartsTyped
<1>6. CASE part = "orchestrator"
  <2>1. OrchTyped /\ [O!Next]_orchVars
    BY <1>6 DEF CourseNext, courseVars, PartsTyped
  <2>2. OrchTyped'
    BY <2>1, OrchStaysTyped
  <2>. QED BY <1>0, <1>6, <2>2 DEF PartsTyped
<1>7. CASE part = "seed"
  <2>1. SeedInv /\ [S!Next]_seedVars
    BY <1>7 DEF CourseNext, courseVars, PartsTyped
  <2>2. SeedInv'
    BY <2>1, SeedNext
  <2>. QED BY <1>0, <1>7, <2>2 DEF PartsTyped
<1>8. CASE part = "accounts"
  <2>1. AccountTyped /\ [I!Next]_accountVars
    BY <1>8 DEF CourseNext, courseVars, PartsTyped
  <2>2. AccountTyped'
    BY <2>1, AccountStaysTyped
  <2>. QED BY <1>0, <1>8, <2>2 DEF PartsTyped
<1>9. CASE part = "memories"
  <2>1. MemoryInv /\ [E!Next]_memoryVars
    BY <1>9 DEF CourseNext, courseVars, PartsTyped
  <2>2. MemoryInv'
    BY <2>1, MemoryNext
  <2>. QED BY <1>0, <1>9, <2>2 DEF PartsTyped
<1>10. CASE part = "panels"
  <2>1. PanelTyped /\ [N!Next]_panelVars
    BY <1>10 DEF CourseNext, courseVars, PartsTyped
  <2>2. PanelTyped'
    BY <2>1, PanelStaysTyped
  <2>. QED BY <1>0, <1>10, <2>2 DEF PartsTyped
<1>11. CASE part = "answers"
  <2>1. AnswerInv /\ [Q!Next]_Q!vars
    BY <1>11 DEF CourseNext, courseVars, PartsTyped, answerVars, Q!vars
  <2>2. AnswerInv'
    BY <2>1, AnswerStep
  <2>. QED BY <1>0, <1>11, <2>2 DEF PartsTyped
<1>12. CASE part = "command"
  <2>1. CliInv /\ [X!Next]_X!vars
    BY <1>12 DEF CourseNext, courseVars, PartsTyped, cliVars, X!vars, X!command, X!adapter, X!process, X!heartbeat
  <2>2. CliInv'
    BY <2>1, CliStep
  <2>. QED BY <1>0, <1>12, <2>2 DEF PartsTyped
<1>13. CASE part = "queue"
  <2>1. QueueInv /\ [J!Next]_queueVars
    BY <1>13 DEF CourseNext, courseVars, PartsTyped
  <2>2. QueueInv'
    BY <2>1, QueueNext
  <2>. QED BY <1>0, <1>13, <2>2 DEF PartsTyped
<1>14. CASE part = "events"
  <2>1. EventTyped /\ [Z!Next]_eventVars
    BY <1>14 DEF CourseNext, courseVars, PartsTyped
  <2>2. EventTyped'
    BY <2>1, EventStaysTyped
  <2>. QED BY <1>0, <1>14, <2>2 DEF PartsTyped
<1>15. CASE part = "history"
  <2>1. HistoryTyped /\ [F!Next]_historyVars
    BY <1>15 DEF CourseNext, courseVars, PartsTyped
  <2>2. HistoryTyped'
    BY <2>1, HistoryStaysTyped
  <2>. QED BY <1>0, <1>15, <2>2 DEF PartsTyped
<1>16. CASE part = "team"
  <2>1. TeamTyped /\ [T!Next]_teamVars
    BY <1>16 DEF CourseNext, courseVars, PartsTyped
  <2>2. TeamTyped'
    BY <2>1, TeamStaysTyped
  <2>. QED BY <1>0, <1>16, <2>2 DEF PartsTyped
<1>17. CASE part = "review"
  BY <1>0, <1>17 DEF PartsTyped
<1>. QED BY <1>0, <1>1, <1>2, <1>3, <1>4, <1>5, <1>6, <1>7, <1>8, <1>9, <1>10, <1>11, <1>12, <1>13, <1>14, <1>15, <1>16, <1>17 DEF Part

(* Every row, request and page of every part of a course keeps its type,    *)
(* whatever requests, crashes and clients meet, for every value of the      *)
(* constants.                                                               *)
THEOREM CourseTypes == CourseSpec => []CourseTypeOK
<1>1. CourseInit => PartsTyped
  BY PartsStartTyped
<1>2. PartsTyped /\ [CourseNext]_courseVars => PartsTyped'
  BY PartsStayTyped
<1>3. PartsTyped => CourseTypeOK
  <2>1. /\ LessonTyped => L!TypeOK
        /\ SeedInv => S!TypeOK
        /\ MemoryInv => E!TypeOK
        /\ CliInv => X!TypeOK
    BY ShapeIsType DEF LessonTyped, SeedInv, MemoryInv, CliInv
  <2>. QED BY <2>1, RequestTypes, RouteTypes, OrchTypes, AccountTypes, PanelTypes, AnswerTypes,
              QueueTypes, EventTypes, HistoryTypes, TeamTypes DEF PartsTyped, CourseTypeOK
<1>. QED BY <1>1, <1>2, <1>3, PTL DEF CourseSpec

=============================================================================
