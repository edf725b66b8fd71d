---------------------------- MODULE RoomHistory ----------------------------
(***************************************************************************)
(* A room's messages read backwards, page by page (ChatService), while     *)
(* others post: the cursor is the createdAt of the oldest message that has *)
(* been shown.                                                             *)
(***************************************************************************)
EXTENDS Integers, FiniteSets

CONSTANTS
  Message,   \* ChatMessage.id, in the order of the index
  MostTime,  \* bound: milliseconds in which messages are posted
  PageSize   \* messages of one page

VARIABLES
  at,      \* createdAt of each message, 0 if there is none
  now,     \* the server's clock
  before,  \* the reader's cursor, or Newest
  page,    \* getRoomPayload: the answer on its way
  reads,   \* how often each message has been shown to the reader
  late,    \* messages that appeared where the reader had been
  ended    \* the reader has been told that there are no more

vars == <<at, now, before, page, reads, late, ended>>

Newest == MostTime + 1
NoPage == [pc |-> "idle", messages |-> {}, hasMore |-> FALSE]

Init ==
  /\ at = [m \in Message |-> 0] /\ now = 1
  /\ before = Newest /\ page = NoPage
  /\ reads = [m \in Message |-> 0] /\ late = {}
  /\ ended = FALSE

Posted == {m \in Message : at[m] # 0}

(* orderBy createdAt and id, both descending. *)
Newer(m, n) ==
  \/ at[m] > at[n]
  \/ at[m] = at[n] /\ m > n

----------------------------------------------------------------------------
Tick == now < MostTime /\ now' = now + 1 /\ UNCHANGED <<at, before, page, reads, late, ended>>

(* Where the reader has been, or is about to be: at t and after it. *)
Reached(t) ==
  \/ ended \/ before <= t
  \/ \E n \in page.messages : at[n] <= t
  \/ page.pc = "back" /\ ~page.hasMore

(* createMessage: a row appears a little after its time was taken. *)
CreateMessage(m, t) ==
  /\ at[m] = 0 /\ t \in {now - 1, now} \ {0}
  /\ at' = [at EXCEPT ![m] = t]
  /\ late' = IF Reached(t) THEN late \union {m} ELSE late
  /\ UNCHANGED <<now, before, page, reads, ended>>

----------------------------------------------------------------------------
(* createdAt: { lt: before } *)
Older == {m \in Posted : at[m] < before}

FirstOf(S) == {m \in S : Cardinality({n \in S : Newer(n, m)}) < PageSize}

(* One row more than a page is read, to know whether there are more. *)
RoomDetail ==
  /\ page.pc = "idle" /\ ~ended
  /\ page' = [pc |-> "back", messages |-> FirstOf(Older),
              hasMore |-> Cardinality(Older) > PageSize]
  /\ UNCHANGED <<at, now, before, reads, late, ended>>

(* The oldest of the page is the next cursor. *)
Oldest(m) == m \in page.messages /\ \A n \in page.messages \ {m} : Newer(n, m)

ShowPage ==
  /\ page.pc = "back"
  /\ IF page.messages = {} THEN before' = before
     ELSE \E m \in page.messages : Oldest(m) /\ before' = at[m]
  /\ reads' = [m \in Message |-> IF m \in page.messages THEN reads[m] + 1 ELSE reads[m]]
  /\ ended' = ~page.hasMore
  /\ page' = NoPage
  /\ UNCHANGED <<at, now, late>>

LosePage ==
  /\ page.pc = "back" /\ page' = NoPage
  /\ UNCHANGED <<at, now, before, reads, late, ended>>

----------------------------------------------------------------------------
Next ==
  \/ Tick
  \/ \E m \in Message, t \in 1..MostTime : CreateMessage(m, t)
  \/ RoomDetail \/ ShowPage \/ LosePage

Spec == Init /\ [][Next]_vars

----------------------------------------------------------------------------
TypeOK ==
  /\ at \in [Message -> 0..MostTime] /\ now \in 1..MostTime
  /\ before \in 1..Newest
  /\ page \in [pc : {"idle", "back"}, messages : SUBSET Message, hasMore : BOOLEAN]
  /\ reads \in [Message -> Nat] /\ late \subseteq Message /\ ended \in BOOLEAN

(* A message that shares its millisecond with one that has been shown. *)
Shadowed(m) == \E n \in Posted \ {m} : at[n] = at[m] /\ reads[n] = 1

(* A reader who goes back page by page is shown no message twice.  Of those *)
(* there when their place was read he misses some, and only such as were    *)
(* posted in the same millisecond as one shown: the cursor is the time      *)
(* alone, so a page that ends within a millisecond loses its rest.          *)
HistoryReadOnce ==
  /\ \A m \in Message : reads[m] <= 1
  /\ \A m \in Posted \ late :
       IF m \in Older /\ ~ended THEN reads[m] = 0 ELSE reads[m] = 1 \/ Shadowed(m)

============================================================================
