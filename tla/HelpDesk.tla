------------------------------ MODULE HelpDesk ------------------------------
(***************************************************************************)
(* Help requests of a lesson (ClassroomsService) and the room access they  *)
(* and a room's owner give away (RoomsService).                            *)
(*                                                                         *)
(* A help request is moved by compare-and-set on its version; the grant of *)
(* a claim is made outside that transaction, in two statements, and its    *)
(* failure is swallowed.                                                   *)
(***************************************************************************)
EXTENDS Integers, FiniteSets

CONSTANTS
  Teacher,    \* the session's teacher
  Assistant,  \* students assigned to the session as assistants
  Student,    \* the other students
  Help,       \* help requests that may be made
  Call        \* requests in flight

Person == {Teacher} \union Assistant \union Student
Staff == {Teacher} \union Assistant
NoOne == "nobody"

VARIABLES
  help,   \* the help rows
  grant,  \* the support grant made for each help request, to its claimer
  call,   \* the requests in flight
  took    \* who has been told that a help request is theirs

vars == <<help, grant, call, took>>

HelpRow == [status : {"none", "open", "claimed", "resolved", "cancelled"},
            student : Person \union {NoOne}, assignee : Person \union {NoOne},
            version : 0..2]

Blank == [status |-> "none", student |-> NoOne, assignee |-> NoOne, version |-> 0]

NoCall == [pc |-> "idle", op |-> "none", by |-> NoOne, on |-> "none", version |-> 0]

Init ==
  /\ help = [h \in Help |-> Blank]
  /\ grant = [h \in Help |-> "none"]
  /\ call = [c \in Call |-> NoCall]
  /\ took = [h \in Help |-> {}]

CreateHelpRequest(p, h) ==
  /\ help[h].status = "none" /\ p # Teacher
  /\ help' = [help EXCEPT ![h] = [@ EXCEPT !.status = "open", !.student = p]]
  /\ UNCHANGED <<grant, call, took>>

(* Mutant: the status is left to the version's check. *)
AllowedAnyTime(op, p, h) ==
  \/ op \in {"claim", "resolve"} /\ p \in Staff
  \/ op = "cancel" /\ p = help[h].student

(* What each request asks of the row and of the person. *)
Allowed(op, p, h) ==
  \/ op = "claim" /\ p \in Staff /\ help[h].status = "open"
  \/ op = "resolve" /\ p \in Staff /\ help[h].status = "claimed"
       /\ p \in {help[h].assignee, Teacher}
  \/ op = "cancel" /\ help[h].status = "open" /\ p = help[h].student

(* The transaction reads the row; a client with another version is refused. *)
ReadHelp(c, op, p, h) ==
  /\ call[c].pc = "idle" /\ Allowed(op, p, h)
  /\ call' = [call EXCEPT ![c] = [pc |-> "write", op |-> op, by |-> p, on |-> h,
                                  version |-> help[h].version]]
  /\ UNCHANGED <<help, grant, took>>

Done(c) == call' = [call EXCEPT ![c] = NoCall]

(* Mutant: an update by id. *)
Anyway(c) == TRUE

(* updateMany where status and version are those that were read. *)
Unmoved(c) == help[call[c].on].version = call[c].version

ClaimHelp(c) ==
  LET h == call[c].on IN
  /\ call[c].pc = "write" /\ call[c].op = "claim" /\ Unmoved(c)
  /\ help' = [help EXCEPT ![h] = [@ EXCEPT !.status = "claimed", !.assignee = call[c].by,
                                           !.version = call[c].version + 1]]
  /\ took' = [took EXCEPT ![h] = @ \union {call[c].by}]
  /\ call' = [call EXCEPT ![c].pc = "support"]
  /\ UNCHANGED grant

ResolveHelp(c) ==
  /\ call[c].pc = "write" /\ call[c].op = "resolve" /\ Unmoved(c)
  /\ help' = [help EXCEPT ![call[c].on] =
                [@ EXCEPT !.status = "resolved", !.version = call[c].version + 1]]
  /\ Done(c)
  /\ UNCHANGED <<grant, took>>

CancelHelp(c) ==
  /\ call[c].pc = "write" /\ call[c].op = "cancel" /\ Unmoved(c)
  /\ help' = [help EXCEPT ![call[c].on] =
                [@ EXCEPT !.status = "cancelled", !.version = call[c].version + 1]]
  /\ Done(c)
  /\ UNCHANGED <<grant, took>>

(* "Help request is stale": the transaction is rolled back. *)
HelpConflict(c) ==
  /\ call[c].pc = "write" /\ ~Unmoved(c)
  /\ Done(c)
  /\ UNCHANGED <<help, grant, took>>

----------------------------------------------------------------------------
(* The help requests whose grant lets p into the room of s. *)
Support(p, s) ==
  {h \in Help : grant[h] = "approved" /\ help[h].assignee = p /\ help[h].student = s}

(* createSupportGrant: an approved grant that has not expired is reused. *)
SupportLook(c) ==
  LET h == call[c].on IN
  /\ call[c].pc = "support"
  /\ IF Support(call[c].by, help[h].student) # {} THEN Done(c)
     ELSE call' = [call EXCEPT ![c].pc = "grant"]
  /\ UNCHANGED <<help, grant, took>>

SupportGrant(c) ==
  /\ call[c].pc = "grant"
  /\ grant' = [grant EXCEPT ![call[c].on] = "approved"]
  /\ Done(c)
  /\ UNCHANGED <<help, took>>

(* The catch of claimHelpRequest. *)
SupportFails(c) ==
  /\ call[c].pc \in {"support", "grant"}
  /\ Done(c)
  /\ UNCHANGED <<help, grant, took>>

(* revokeGrant by the room's owner or a teacher; the two hours are over. *)
GrantEnds(h) ==
  /\ grant[h] = "approved"
  /\ grant' = [grant EXCEPT ![h] = "over"]
  /\ UNCHANGED <<help, call, took>>

----------------------------------------------------------------------------
HelpCall(c) ==
  \/ ClaimHelp(c) \/ ResolveHelp(c) \/ CancelHelp(c) \/ HelpConflict(c)
  \/ SupportLook(c) \/ SupportGrant(c) \/ SupportFails(c)
  \/ \E op \in {"claim", "resolve", "cancel"}, p \in Person, h \in Help : ReadHelp(c, op, p, h)

Next ==
  \/ \E p \in Person, h \in Help : CreateHelpRequest(p, h)
  \/ \E c \in Call : HelpCall(c)
  \/ \E h \in Help : GrantEnds(h)

Spec == Init /\ [][Next]_vars

----------------------------------------------------------------------------
TypeOK ==
  /\ help \in [Help -> HelpRow]
  /\ grant \in [Help -> {"none", "approved", "over"}]
  /\ took \in [Help -> SUBSET Person]

(* Of all who claim a help request at the same time one is told that it is  *)
(* theirs, and nobody once the student has cancelled it; the support grant  *)
(* opens the student's room to that person alone.                           *)
HelpHasOneOwner ==
  \A h \in Help :
    /\ took[h] = {} \/ took[h] = {help[h].assignee}
    /\ help[h].status \in {"claimed", "resolved"} <=> took[h] # {}
    /\ grant[h] # "none" => took[h] # {}

============================================================================
