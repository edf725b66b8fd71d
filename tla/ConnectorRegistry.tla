-------------------------- MODULE ConnectorRegistry --------------------------
(***************************************************************************)
(* The connectors of one student: pairing credentials, the command line    *)
(* that connects with one and keeps a heartbeat, and the connector rows    *)
(* (AgentConnectorsService, agent-connector/src/cli.ts, the Agent panel).  *)
(*                                                                         *)
(* Time is abstract: a row is fresh for CONNECTOR_STALE_AFTER_MS (75 s)    *)
(* after its last contact.                                                 *)
(***************************************************************************)
EXTENDS Integers, Sequences, SequencesExt

CONSTANTS
  Cli,          \* runs of the connector command
  MostPairings, \* bound: credentials created
  MostCopies    \* bound: copies of one request on their way

Cred == 1..MostPairings
None == 0
Kind == {"online", "offline"}  \* the status a request gives its row

VARIABLES
  pairing,  \* AgentPairing rows; a replaced row has usedAt set like a used one
  making,   \* createPairing calls between their two statements
  card,     \* the credential the panel shows
  cli,      \* the command: its phase, its credential and its heartbeat request
  row,      \* AgentConnector.status
  fresh,    \* rows with lastSeenAt in the last 75 seconds
  contact,  \* connectors in the order of their lastSeenAt
  wire,     \* requests the server has not handled yet
  profile   \* the status the panel shows

vars == <<pairing, making, card, cli, row, fresh, contact, wire, profile>>

Init ==
  /\ pairing = [c \in Cred |-> "none"] /\ making = 0 /\ card = None
  /\ cli = [k \in Cli |-> [pc |-> "off", cred |-> None, beat |-> "idle"]]
  /\ row = [k \in Cli |-> "none"] /\ fresh = {} /\ contact = <<>>
  /\ wire = [k \in Cli |-> [n \in Kind |-> 0]]
  /\ profile = "none"

rows == <<row, fresh, contact>>
cards == <<pairing, making, card>>

Goes(k, pcs) == cli[k].pc \in pcs

----------------------------------------------------------------------------
(* createPairing invalidates the credentials it finds ... *)
ReplacePairings ==
  /\ \E c \in Cred : pairing[c] = "none"
  /\ making < MostPairings
  /\ pairing' = [c \in Cred |-> IF pairing[c] = "live" THEN "used" ELSE pairing[c]]
  /\ making' = making + 1
  /\ UNCHANGED <<card, cli, rows, wire, profile>>

(* ... and then creates its own. *)
CreatePairing(c) ==
  /\ making > 0
  /\ pairing[c] = "none" /\ \A d \in Cred : d < c => pairing[d] # "none"
  /\ pairing' = [pairing EXCEPT ![c] = "live"]
  /\ making' = making - 1 /\ card' = c
  /\ UNCHANGED <<cli, rows, wire, profile>>

(* PAIRING_TTL_MS *)
ExpirePairing(c) ==
  /\ pairing[c] = "live"
  /\ pairing' = [pairing EXCEPT ![c] = "expired"]
  /\ UNCHANGED <<making, card, cli, rows, wire, profile>>

(* The student starts the command with the credential shown. *)
StartCli(k) ==
  /\ cli[k].pc = "off" /\ card # None
  /\ cli' = [cli EXCEPT ![k].pc = "connect", ![k].cred = card]
  /\ UNCHANGED <<cards, rows, wire, profile>>

(* connect reads the pairing; a refused command ends. *)
ConnectReads(k) ==
  /\ cli[k].pc = "connect"
  /\ cli' = [cli EXCEPT ![k].pc = IF pairing[cli[k].cred] = "live" THEN "commit" ELSE "gone"]
  /\ UNCHANGED <<cards, rows, wire, profile>>

(* A contact: lastSeenAt is now. *)
Seen(k) ==
  LET place == CHOOSE i \in DOMAIN contact : contact[i] = k IN
  /\ fresh' = fresh \union {k}
  /\ contact' =
       Append(IF k \in Range(contact) THEN RemoveAt(contact, place) ELSE contact, k)

(* The transaction: session and connector are created, the pairing is used. *)
(* The command may not live to see the answer.                              *)
ConnectCommits(k) ==
  /\ cli[k].pc = "commit"
  /\ pairing' = [pairing EXCEPT ![cli[k].cred] = "used"]
  /\ row' = [row EXCEPT ![k] = "online"] /\ Seen(k)
  /\ \E pc \in {"up", "gone"} : cli' = [cli EXCEPT ![k].pc = pc]
  /\ UNCHANGED <<making, card, wire, profile>>

----------------------------------------------------------------------------
Post(k, n) ==
  /\ wire[k][n] < MostCopies
  /\ wire' = [wire EXCEPT ![k][n] = @ + 1]

(* startHeartbeat: a heartbeat follows the end of the one before. *)
SendHeartbeat(k) ==
  /\ Goes(k, {"up"}) /\ cli[k].beat = "idle"
  /\ cli' = [cli EXCEPT ![k].beat = "sent"]
  /\ Post(k, "online")
  /\ UNCHANGED <<cards, rows, profile>>

(* A request that timed out or failed is sent again, or given up; its first *)
(* copy may still reach the server.  A command that stops may still repeat  *)
(* an online heartbeat beside the offline one (whether one was under way    *)
(* then is not kept), and is over when both have ended.                     *)
RetryHeartbeat(k) ==
  /\ Goes(k, {"up", "stopping"}) /\ cli[k].beat = "sent"
  /\ \E n \in Kind : (cli[k].pc = "up" => n = "online") /\ Post(k, n)
  /\ UNCHANGED <<cards, cli, rows, profile>>

(* The heartbeat is answered or given up.  The last one ends the command.   *)
EndHeartbeat(k) ==
  /\ Goes(k, {"up", "stopping"}) /\ cli[k].beat = "sent"
  /\ cli' = [cli EXCEPT ![k].beat = "idle",
                        ![k].pc = IF @ = "up" THEN "up" ELSE "gone"]
  /\ UNCHANGED <<cards, rows, wire, profile>>

(* recordEvent: an event the adapter reports, which makes its row online. *)
ReportEvent(k) ==
  /\ Goes(k, {"up"}) /\ Post(k, "online")
  /\ UNCHANGED <<cards, cli, rows, profile>>

(* SIGINT or SIGTERM: the timer is cleared, a heartbeat in flight goes on,  *)
(* and the worker's end sends the offline heartbeat.                        *)
Stop(k) ==
  /\ Goes(k, {"up"})
  /\ cli' = [cli EXCEPT ![k].pc = "stopping", ![k].beat = "sent"]
  /\ Post(k, "offline")
  /\ UNCHANGED <<cards, rows, profile>>

(* The machine goes down, or the network does for good. *)
CrashCli(k) ==
  /\ Goes(k, {"up", "stopping"})
  /\ cli' = [cli EXCEPT ![k].pc = "gone"]
  /\ UNCHANGED <<cards, rows, wire, profile>>

----------------------------------------------------------------------------
(* heartbeat and persistEvents: the row takes the status the request gives, *)
(* whatever it was.                                                         *)
Handle(k, n) ==
  /\ wire[k][n] > 0
  /\ wire' = [wire EXCEPT ![k][n] = @ - 1]
  /\ row' = [row EXCEPT ![k] = n]
  /\ Seen(k)
  /\ UNCHANGED <<cards, cli, profile>>

(* The request never arrives. *)
LoseRequest(k, n) ==
  /\ wire[k][n] > 0
  /\ wire' = [wire EXCEPT ![k][n] = @ - 1]
  /\ UNCHANGED <<cards, cli, rows, profile>>

(* 75 seconds without contact. *)
Age(k) ==
  /\ k \in fresh /\ fresh' = fresh \ {k}
  /\ UNCHANGED <<cards, cli, row, contact, wire, profile>>

(* Mutant: a stale row is only found when its own connector calls. *)
NoneStale == {}

(* markStaleConnectorsOffline *)
Stale == {k \in Cli : row[k] = "online" /\ k \notin fresh}

(* getStudentProfile, every 15 seconds: the connector seen last. *)
RefreshProfile ==
  /\ row' = [k \in Cli |-> IF k \in Stale THEN "offline" ELSE row[k]]
  /\ profile' = IF contact = <<>> THEN "none" ELSE row'[Last(contact)]
  /\ UNCHANGED <<cards, cli, fresh, contact, wire>>

----------------------------------------------------------------------------
Next ==
  \/ ReplacePairings \/ RefreshProfile
  \/ \E c \in Cred : CreatePairing(c) \/ ExpirePairing(c)
  \/ \E k \in Cli :
       \/ StartCli(k) \/ ConnectReads(k) \/ ConnectCommits(k)
       \/ SendHeartbeat(k) \/ RetryHeartbeat(k) \/ EndHeartbeat(k) \/ ReportEvent(k)
       \/ Stop(k) \/ CrashCli(k) \/ Age(k)
       \/ \E n \in Kind : Handle(k, n) \/ LoseRequest(k, n)

(* Requests arrive or are lost, time passes without contact, and the panel  *)
(* of a student with a connector polls.                                     *)
Fairness ==
  /\ WF_vars(RefreshProfile)
  /\ \A k \in Cli :
       /\ WF_vars(\E n \in Kind : Handle(k, n) \/ LoseRequest(k, n))
       /\ WF_vars(cli[k].pc = "gone" /\ Age(k))

Spec == Init /\ [][Next]_vars /\ Fairness

----------------------------------------------------------------------------
TypeOK ==
  /\ pairing \in [Cred -> {"none", "live", "used", "expired"}]
  /\ card \in Cred \union {None} /\ making \in 0..MostPairings
  /\ \A k \in Cli : cli[k].pc \in {"off", "connect", "commit", "up", "stopping", "gone"}
  /\ row \in [Cli -> {"none", "online", "offline"}]
  /\ fresh \subseteq Cli /\ wire \in [Cli -> [Kind -> 0..MostCopies]]
  /\ profile \in {"none", "online", "offline"}

(* When no command runs any more, stopped or crashed, the panel comes to    *)
(* show the agent offline for good: also when the offline heartbeat is lost *)
(* or is overtaken by an online one or an event.                            *)
EndedShowsOffline ==
  <>[](\A k \in Cli : cli[k].pc \in {"off", "gone"}) => <>[](profile # "online")

============================================================================
