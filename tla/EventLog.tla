------------------------------ MODULE EventLog ------------------------------
(***************************************************************************)
(* The events a connector sends (AgentConnectorClient) and the log that    *)
(* keeps them (AgentConnectorsService), read page by page along a cursor.  *)
(* A batch is sent again when its answer is lost, an event keeps the       *)
(* identifier and the time its sender gave it, and the log is ordered by   *)
(* that time.                                                              *)
(***************************************************************************)
EXTENDS Integers, FiniteSets

CONSTANTS
  Event,      \* eventId: given by the senders
  Connector,
  Reader,     \* the connector that reads its log
  Time,       \* occurredAt
  Id,         \* AgentEvent.id
  Limit,      \* events of one page
  MostBatch,  \* events of one batch
  MostTries,  \* requests for one batch
  MostPosts,  \* bound: batches a connector sends
  Nobody      \* no event

VARIABLES
  log,     \* AgentEvent: who recorded the event, its time and its id
  call,    \* recordEvents: the batch each connector is sending
  wire,    \* its requests on their way, also those given up; a lost one stays
  acked,   \* events whose recording has been acknowledged, by sender
  cursor,  \* the reader's cursor: the event it stands on
  page,    \* readEventCursor: the answer on its way
  reads,   \* how often the reader has been given each event
  late     \* events recorded where a page had been read before

vars == <<log, call, wire, acked, cursor, page, reads, late>>

Batch == UNION {[S -> Time] : S \in SUBSET Event}
NoRow == [by |-> Nobody, at |-> 0, id |-> 0]
Empty == [e \in {} |-> 0]
NoCall == [pc |-> "idle", batch |-> Empty, tries |-> 0, posts |-> 0]
NoPage == [pc |-> "idle", events |-> {}]

Init ==
  /\ log = [e \in Event |-> NoRow]
  /\ call = [c \in Connector |-> NoCall]
  /\ wire = {} /\ acked = {}
  /\ cursor = Nobody /\ page = NoPage
  /\ reads = [e \in Event |-> 0] /\ late = {}

Recorded == {e \in Event : log[e] # NoRow}
Own(c) == {e \in Recorded : log[e].by = c}

(* The order of the log: by occurredAt, and by id at the same time. *)
Before(e, f) ==
  \/ log[e].at < log[f].at
  \/ log[e].at = log[f].at /\ log[e].id < log[f].id

----------------------------------------------------------------------------
(* AgentEventBatchDto: one event at least, and no more than the limit. *)
ValidBatch(b) ==
  /\ b \in Batch /\ DOMAIN b # {} /\ Cardinality(DOMAIN b) <= MostBatch

Sent(c, b) == [by |-> c, batch |-> b]

(* recordEvents: every event has its identifier and its time by now. *)
RecordEvents(c, b) ==
  /\ call[c].pc = "idle" /\ ValidBatch(b) /\ call[c].posts < MostPosts
  /\ call' = [call EXCEPT ![c] = [pc |-> "sent", batch |-> b, tries |-> 1,
                                  posts |-> call[c].posts + 1]]
  /\ wire' = wire \union {Sent(c, b)}
  /\ UNCHANGED <<log, acked, cursor, page, reads, late>>

(* The connection broke, the time was up, or the server said 5xx. *)
SendAgain(c) ==
  /\ call[c].pc = "sent" /\ call[c].tries < MostTries
  /\ call' = [call EXCEPT ![c].tries = @ + 1]
  /\ wire' = wire \union {Sent(c, call[c].batch)}
  /\ UNCHANGED <<log, acked, cursor, page, reads, late>>

Stops(c) == call' = [call EXCEPT ![c] = [NoCall EXCEPT !.posts = call[c].posts]]

GiveUp(c) ==
  /\ call[c].pc = "sent"
  /\ Stops(c)
  /\ UNCHANGED <<log, wire, acked, cursor, page, reads, late>>

----------------------------------------------------------------------------
(* An identifier that another connector has taken. *)
Taken(q) == \E e \in DOMAIN q.batch : log[e] # NoRow /\ log[e].by # q.by

(* persistEvents: what is there already stays as it is (update: {}). *)
Upsert(q, ids) ==
  [e \in Event |->
     IF e \in DOMAIN q.batch /\ log[e] = NoRow
     THEN [by |-> q.by, at |-> q.batch[e], id |-> ids[e]] ELSE log[e]]

FreshIds(q, ids) ==
  /\ ids \in [Event -> Id]
  /\ \A e \in DOMAIN q.batch :
       /\ \A f \in Recorded : ids[e] # log[f].id
       /\ \A f \in DOMAIN q.batch : ids[e] = ids[f] => e = f

(* The reader has got, or is about to get, an event behind e. *)
Passed(row, e) ==
  \E f \in {g \in Event : g = cursor \/ g \in page.events} :
    \/ row[e].at < row[f].at
    \/ row[e].at = row[f].at /\ row[e].id < row[f].id

(* The transaction, and its answer if the sender still waits for it. *)
Answered(q) ==
  /\ call[q.by].pc = "sent" /\ call[q.by].batch = q.batch
  /\ Stops(q.by)

Persist(q, ids) ==
  /\ q \in wire /\ ~Taken(q) /\ FreshIds(q, ids)
  /\ log' = Upsert(q, ids)
  /\ late' = late \union {e \in DOMAIN q.batch : log[e] = NoRow /\ Passed(log', e)}
  /\ wire' = wire \ {q}
  /\ \/ /\ Answered(q)
        /\ acked' = acked \union {<<q.by, e>> : e \in DOMAIN q.batch}
     \/ UNCHANGED <<call, acked>>
  /\ UNCHANGED <<cursor, page, reads>>

(* An eventId of another connector, a day that does not exist, a token that  *)
(* holds no more: nothing is recorded, whatever came before it in the batch. *)
Refuse(q) ==
  /\ q \in wire
  /\ wire' = wire \ {q}
  /\ Answered(q) \/ UNCHANGED call
  /\ UNCHANGED <<log, acked, cursor, page, reads, late>>

----------------------------------------------------------------------------
(* The query's OR: a later time, or a greater id at the same time. *)
BeyondCursor(e) ==
  \/ log[e].at > log[cursor].at
  \/ log[e].at = log[cursor].at /\ log[e].id > log[cursor].id

(* The events behind the cursor ... *)
Behind == {e \in Own(Reader) : cursor = Nobody \/ BeyondCursor(e)}

(* ... in order, no more than the limit. *)
FirstOf(S) == {e \in S : Cardinality({f \in S : Before(f, e)}) < Limit}

ListConnectorEvents ==
  /\ page.pc = "idle"
  /\ page' = [pc |-> "back", events |-> FirstOf(Behind)]
  /\ UNCHANGED <<log, call, wire, acked, cursor, reads, late>>

(* nextCursor: the last of the page; an empty page moves nothing. *)
NextCursor(e) ==
  IF page.events = {} THEN e = cursor
  ELSE e \in page.events /\ \A f \in page.events \ {e} : Before(f, e)

ReadPage(e) ==
  /\ page.pc = "back" /\ NextCursor(e)
  /\ cursor' = e
  /\ reads' = [f \in Event |-> IF f \in page.events THEN reads[f] + 1 ELSE reads[f]]
  /\ page' = NoPage
  /\ UNCHANGED <<log, call, wire, acked, late>>

(* The answer is lost: the next request asks from the same place. *)
LosePage ==
  /\ page.pc = "back" /\ page' = NoPage
  /\ UNCHANGED <<log, call, wire, acked, cursor, reads, late>>

----------------------------------------------------------------------------
Next ==
  \/ \E c \in Connector :
       (\E b \in Batch : RecordEvents(c, b)) \/ SendAgain(c) \/ GiveUp(c)
  \/ \E q \in wire :
       (\E ids \in [Event -> Id] : Persist(q, ids)) \/ Refuse(q)
  \/ ListConnectorEvents \/ LosePage
  \/ \E e \in Event \union {Nobody} : ReadPage(e)

Spec == Init /\ [][Next]_vars

----------------------------------------------------------------------------
Row == [by : Connector, at : Time, id : Id]

TypeOK ==
  /\ log \in [Event -> Row \union {NoRow}]
  /\ call \in [Connector -> [pc : {"idle", "sent"}, batch : Batch,
                             tries : 0..MostTries, posts : 0..MostPosts]]
  /\ wire \subseteq [by : Connector, batch : Batch]
  /\ acked \subseteq Connector \X Event
  /\ cursor \in Event \union {Nobody}
  /\ page \in [pc : {"idle", "back"}, events : SUBSET Event]
  /\ reads \in [Event -> Nat] /\ late \subseteq Event

(* An acknowledged event is in the log under its sender, and a reader who   *)
(* follows the cursor is given no event twice and misses none: one that was *)
(* not recorded where he had been already is either given or still ahead.   *)
EventsReadOnce ==
  /\ \A x \in acked : x[2] \in Own(x[1])
  /\ \A e \in Own(Reader) \ late : reads[e] = IF e \in Behind THEN 0 ELSE 1
  /\ \A e \in late : reads[e] <= 1

============================================================================
