----------------------------- MODULE AgentTeam -----------------------------
(***************************************************************************)
(* The identity a student's agent takes in the team: the binding and the   *)
(* desk of its avatar (AgentTeamService, resetToRoleHome), which the panel *)
(* of the page changes (agent-team-panel.tsx) and a connector that names a *)
(* role changes too (AgentConnectorsService.connect).                      *)
(***************************************************************************)
EXTENDS Naturals

CONSTANTS
  Role,
  Home,  \* the desk of each role: some share one
  Call,  \* requests of the page that may be under way at once
  None   \* no role, or a place that is no role's desk

VARIABLES
  binding,   \* AgentTeamBinding.roleKey, or None
  desk,      \* AgentWorldState: the desk the avatar stands at, or None
  call,      \* setMyBinding and clearMyBinding
  selected,  \* selectedId
  saving,    \* savingId
  error,     \* actionError is shown
  stale,     \* the page may not know the row: requests overlapped, a connector
             \* has changed it, or the page could not read it
  unsure,    \* a request failed when something may have been written
  away       \* the avatar may be elsewhere for a reason of its own

server == <<binding, desk>>
panel == <<selected, saving, error>>
vars == <<server, call, panel, stale, unsure, away>>

Desk == {Home[r] : r \in Role}

Idle == [pc |-> "idle", op |-> "none", role |-> None, previous |-> None,
         waits |-> FALSE, alone |-> FALSE]

Init ==
  /\ binding = None /\ desk = None
  /\ call = [c \in Call |-> Idle]
  /\ selected = None /\ saving = None /\ error = FALSE
  /\ stale = FALSE /\ unsure = FALSE /\ away = FALSE

Underway == {"sent", "read", "write"}
Working == \E c \in Call : call[c].pc \in Underway
Busy == \E c \in Call : call[c].pc # "idle"
Unheard(k) == [k EXCEPT !.waits = FALSE, !.previous = None]
Disturbed == [c \in Call |-> [call[c] EXCEPT !.alone = FALSE]]

----------------------------------------------------------------------------
(* A click sends a request; the one before need not have been answered.     *)
Send(c, op, r) ==
  /\ call[c].pc = "idle"
  /\ call' = [Disturbed EXCEPT ![c] =
                [pc |-> "sent", op |-> op, role |-> r, waits |-> TRUE,
                 previous |-> IF op = "set" THEN selected ELSE None,
                 alone |-> op = "set" /\ ~Busy]]
  /\ stale' = (stale \/ Busy) /\ away' = (away \/ Busy)
  /\ error' = FALSE
  /\ UNCHANGED <<server, unsure>>

(* selectAgent: the choice is shown before it is saved. *)
SelectAgent(c, r) ==
  /\ saving # r
  /\ Send(c, "set", r) /\ saving' = r /\ selected' = r

ClearBinding(c) ==
  /\ selected # None /\ saving # selected
  /\ Send(c, "clear", None) /\ saving' = selected /\ UNCHANGED selected

----------------------------------------------------------------------------
(* What the service does; nobody hears of it when the page has given up.    *)
Goes(c, pc) ==
  call' = [call EXCEPT ![c] = IF pc \in {"done", "refused", "failed"} /\ ~@.waits
                              THEN Idle ELSE [@ EXCEPT !.pc = pc]]

(* setMyBinding: the upsert. *)
SetWrites(c) ==
  /\ call[c].pc = "sent" /\ call[c].op = "set"
  /\ binding' = call[c].role
  /\ Goes(c, "read")
  /\ UNCHANGED <<desk, panel, stale, unsure, away>>

(* resetToRoleHome: an avatar that is at home stays. *)
ResetReads(c) ==
  /\ call[c].pc = "read"
  /\ IF desk = Home[call[c].role]
     THEN Goes(c, "done") /\ away' = (away /\ ~call[c].alone)
     ELSE Goes(c, "write") /\ UNCHANGED away
  /\ UNCHANGED <<server, panel, stale, unsure>>

ResetWrites(c) ==
  /\ call[c].pc = "write"
  /\ desk' = Home[call[c].role] /\ away' = (away /\ ~call[c].alone)
  /\ Goes(c, "done")
  /\ UNCHANGED <<binding, panel, stale, unsure>>

(* clearMyBinding *)
ClearWrites(c) ==
  /\ call[c].pc = "sent" /\ call[c].op = "clear"
  /\ binding' = None
  /\ Goes(c, "done")
  /\ UNCHANGED <<desk, panel, stale, unsure, away>>

(* The database is out of reach: before the upsert or after it. *)
ServerFails(c) ==
  /\ call[c].pc \in Underway
  /\ Goes(c, IF call[c].pc = "sent" THEN "refused" ELSE "failed")
  /\ away' = (away \/ call[c].pc # "sent")
  /\ UNCHANGED <<server, panel, stale, unsure>>

----------------------------------------------------------------------------
(* The catch of selectAgent and of clearBinding. *)
Rollback(c) == IF call[c].op = "set" THEN call[c].previous ELSE selected

Succeeds(c) ==
  /\ call[c].pc = "done"
  /\ selected' = IF call[c].op = "clear" THEN None ELSE selected
  /\ saving' = None
  /\ call' = [call EXCEPT ![c] = Idle]
  /\ unsure' = FALSE
  /\ UNCHANGED <<server, error, stale, away>>

Fails(c) ==
  /\ call[c].pc \in {"refused", "failed"}
  /\ selected' = Rollback(c) /\ error' = TRUE /\ saving' = None
  /\ call' = [call EXCEPT ![c] = Idle]
  /\ unsure' = (unsure \/ call[c].pc = "failed")
  /\ UNCHANGED <<server, stale, away>>

(* API_TIMEOUT_MS, or a lost answer: the service goes on all the same. *)
GiveUp(c) ==
  /\ call[c].pc # "idle" /\ call[c].waits
  /\ selected' = Rollback(c) /\ error' = TRUE /\ saving' = None
  /\ call' = [call EXCEPT ![c] = IF @.pc \in {"done", "refused", "failed"} THEN Idle
                                 ELSE Unheard(@)]
  /\ unsure' = TRUE
  /\ UNCHANGED <<server, stale, away>>

----------------------------------------------------------------------------
(* connect: one transaction; the desk moves if the role is another one. *)
Connect(r) ==
  /\ binding' = r
  /\ IF binding # r THEN desk' = Home[r] /\ away' = Busy ELSE UNCHANGED <<desk, away>>
  /\ stale' = TRUE
  /\ call' = Disturbed
  /\ UNCHANGED <<panel, unsure>>

Walk ==
  /\ desk' = None /\ away' = TRUE
  /\ UNCHANGED <<binding, call, panel, stale, unsure>>

(* The page is loaded anew; a read that fails shows no identity. *)
Reload ==
  /\ \/ selected' = binding /\ stale' = Working
     \/ selected' = None /\ stale' = TRUE
  /\ saving' = None /\ error' = FALSE
  /\ call' = [c \in Call |-> IF call[c].pc \in Underway THEN Unheard(call[c]) ELSE Idle]
  /\ unsure' = FALSE
  /\ UNCHANGED <<server, away>>

----------------------------------------------------------------------------
Next ==
  \/ \E c \in Call :
       \/ \E r \in Role : SelectAgent(c, r)
       \/ ClearBinding(c)
       \/ SetWrites(c) \/ ResetReads(c) \/ ResetWrites(c) \/ ClearWrites(c)
       \/ ServerFails(c) \/ Succeeds(c) \/ Fails(c) \/ GiveUp(c)
  \/ \E r \in Role : Connect(r)
  \/ Walk \/ Reload

Spec == Init /\ [][Next]_vars

----------------------------------------------------------------------------
TypeOK ==
  /\ binding \in Role \union {None} /\ desk \in Desk \union {None}
  /\ selected \in Role \union {None} /\ saving \in Role \union {None}
  /\ call \in [Call -> [pc : {"idle", "sent", "read", "write", "done", "refused", "failed"},
                        op : {"none", "set", "clear"}, role : Role \union {None},
                        previous : Role \union {None}, waits : BOOLEAN, alone : BOOLEAN]]
  /\ {error, stale, unsure, away} \subseteq BOOLEAN

(* When nothing is under way, the page shows the identity that is stored,   *)
(* if it could read it, its clicks did not overlap and no connector has     *)
(* changed it since; or it shows an error after a request of which it does  *)
(* not know how far it got.  And an avatar that has not left stands at the  *)
(* desk of its role.  Clicks that overlap may leave both wrong.             *)
TeamPanelHolds ==
  ~Busy =>
    /\ stale \/ selected = binding \/ (error /\ unsure)
    /\ away \/ binding = None \/ desk = Home[binding]

============================================================================
