------------------------------- MODULE Panels -------------------------------
(***************************************************************************)
(* The panels of the web client that change rows and show them: one open   *)
(* panel, the rows it is about, and its requests with their answers, lost  *)
(* answers and the lists that come after.  A row is the number of times it *)
(* was written, since what is written is all the same here.                *)
(***************************************************************************)
EXTENDS Integers, FiniteSets

CONSTANTS
  Item,
  Call,         \* requests of the panel that may be under way at once
  MostClicks,   \* bound: clicks
  MostOthers,   \* bound: writes of other users
  MostTroubles  \* bound: requests and answers the network loses

VARIABLES
  panel,      \* the panel that is open, or "none"
  row,        \* in the database
  shown,      \* in the panel's list
  learnt,     \* the newest of each row that an answer has told the panel
  call,
  busy,       \* what the panel disables its buttons by
  abandoned,  \* requests given up that the server may still serve
  first,      \* the list a panel fetches by itself
  refresh,    \* router.refresh: how many are wanted, and what was read
  page,       \* what the page says of the list: "good", "behind", "degraded"
  crossed,    \* rows with two requests, or one beside the first list
  spent       \* clicks, writes of others, troubles

vars == <<panel, row, shown, learnt, call, busy, abandoned, first, refresh,
          page, crossed, spent>>

----------------------------------------------------------------------------
(* What each panel is made of.  button: which buttons a click disables;     *)
(* server: when a write is accepted; answer: what the panel does with it;   *)
(* refreshed: what router.refresh does to it; list: where the first list    *)
(* comes from, and whether a click waits for it.                            *)
ReviewQueue ==
  [button |-> "own", server |-> "once", answer |-> "patch",
   refreshed |-> "copied", list |-> "given"]

TeacherTaskBoard ==
  [button |-> "all", server |-> "once", answer |-> "list",
   refreshed |-> "never", list |-> "given"]

AgentAssignmentBoard ==
  [button |-> "all", server |-> "once", answer |-> "list or row",
   refreshed |-> "never", list |-> "given"]

StudentAgentAssignments ==
  [button |-> "own", server |-> "again", answer |-> "patch",
   refreshed |-> "never", list |-> "given"]

HelpQueue ==
  [button |-> "own", server |-> "version", answer |-> "patch",
   refreshed |-> "never", list |-> "given"]

AccessGrantList ==
  [button |-> "all", server |-> "once", answer |-> "patch",
   refreshed |-> "never", list |-> "given"]

GuildWorkspace ==
  [button |-> "all", server |-> "once", answer |-> "patch",
   refreshed |-> "ignored", list |-> "given"]

WebsiteLotteryPanel ==
  [button |-> "all", server |-> "redraw", answer |-> "patch",
   refreshed |-> "never", list |-> "awaited"]

WebsiteLotteryManager ==
  [button |-> "none", server |-> "any", answer |-> "patch",
   refreshed |-> "never", list |-> "fetched"]

Panel ==
  [reviews |-> ReviewQueue, tasks |-> TeacherTaskBoard,
   runs |-> AgentAssignmentBoard, mine |-> StudentAgentAssignments,
   help |-> HelpQueue, grants |-> AccessGrantList, guild |-> GuildWorkspace,
   draw |-> WebsiteLotteryPanel, options |-> WebsiteLotteryManager]

Is(part, what) == panel # "none" /\ Panel[panel][part] = what

----------------------------------------------------------------------------
List == [Item -> Nat]
Fresh == [i \in Item |-> 0]
Nothing == "nothing"

Idle ==
  [step |-> "idle", of |-> Nothing, seen |-> 0, got |-> 0, list |-> Fresh]

TypeOK ==
  /\ panel \in DOMAIN Panel \union {"none"}
  /\ row \in List /\ shown \in List /\ learnt \in List
  /\ call \in
       [Call -> [step : {"idle", "sent", "answered", "refused", "asking",
                         "listed"},
                 of : Item \union {Nothing}, seen : Nat, got : Nat,
                 list : List]]
  /\ busy \in Item \union {"all", Nothing}
  /\ abandoned \subseteq [of : Item, seen : Nat]
  /\ first \in
       [at : {"given", "asked", "read", "here", "failed"}, list : List]
  /\ refresh \in [wanted : Nat, read : BOOLEAN, list : List]
  /\ page \in {"good", "behind", "degraded"}
  /\ crossed \subseteq Item
  /\ spent \in [clicks : 0..MostClicks, others : 0..MostOthers,
                troubles : 0..MostTroubles]

Init ==
  /\ panel = "none"
  /\ row = Fresh /\ shown = Fresh /\ learnt = Fresh
  /\ call = [c \in Call |-> Idle]
  /\ busy = Nothing /\ abandoned = {}
  /\ first = [at |-> "given", list |-> Fresh]
  /\ refresh = [wanted |-> 0, read |-> FALSE, list |-> Fresh]
  /\ page = "good" /\ crossed = {}
  /\ spent = [clicks |-> 0, others |-> 0, troubles |-> 0]

Trouble ==
  /\ spent.troubles < MostTroubles
  /\ spent' = [spent EXCEPT !.troubles = @ + 1]

----------------------------------------------------------------------------
(* The page is opened: the server has rendered the list, or the panel asks. *)
Open(p) ==
  /\ panel = "none" /\ panel' = p
  /\ first' = IF Panel[p].list = "given" THEN first
              ELSE [first EXCEPT !.at = "asked"]
  /\ UNCHANGED <<row, shown, learnt, call, busy, abandoned, refresh, page,
                 crossed, spent>>

FirstRead ==
  /\ first.at = "asked" /\ first' = [at |-> "read", list |-> row]
  /\ UNCHANGED <<panel, row, shown, learnt, call, busy, abandoned, refresh,
                 page, crossed, spent>>

FirstLands ==
  /\ first.at = "read" /\ shown' = first.list
  /\ first' = [at |-> "here", list |-> Fresh]
  /\ UNCHANGED <<panel, row, learnt, call, busy, abandoned, refresh, page,
                 crossed, spent>>

FirstFails ==
  /\ first.at = "asked" /\ first' = [first EXCEPT !.at = "failed"] /\ Trouble
  /\ UNCHANGED <<panel, row, shown, learnt, call, busy, abandoned, refresh,
                 page, crossed>>

----------------------------------------------------------------------------
(* Whether the button of a row is there and enabled. *)
Offered(i) ==
  CASE Is("server", "any") -> TRUE
    [] Is("server", "version") \/ Is("server", "redraw") -> shown[i] < 2
    [] OTHER -> shown[i] = 0

Enabled(i) ==
  /\ busy \notin {"all", i}
  /\ Is("list", "awaited") => first.at = "here"

UnderWay(i) == \E c \in Call : call[c].of = i

ClickOn(c, i) ==
  /\ panel # "none" /\ spent.clicks < MostClicks
  /\ call[c] = Idle /\ Offered(i) /\ Enabled(i)
  /\ call' = [call EXCEPT ![c] =
       [step |-> "sent", of |-> i, seen |-> shown[i], got |-> 0,
        list |-> shown]]
  /\ busy' = CASE Is("button", "own") -> i
               [] Is("button", "all") -> "all"
               [] OTHER -> busy
  /\ crossed' =
       IF UnderWay(i) \/ first.at \in {"asked", "read"}
       THEN crossed \union {i} ELSE crossed
  /\ spent' = [spent EXCEPT !.clicks = @ + 1]
  /\ UNCHANGED <<panel, row, shown, learnt, abandoned, first, refresh, page>>

(* The handlers of the API: what a row must be for them to write, and what  *)
(* they answer if it is not.                                                *)
Accepts(i, seen) ==
  CASE Is("server", "any") -> TRUE
    [] Is("server", "version") \/ Is("server", "redraw") ->
         row[i] = seen /\ row[i] < 2
    [] OTHER -> row[i] = 0

Written(i) == row' = [row EXCEPT ![i] = @ + 1]

Answers(c, what, version) ==
  /\ call' = [call EXCEPT ![c].step = what, ![c].got = version]
  /\ UNCHANGED <<panel, shown, learnt, busy, abandoned, first, refresh, page,
                 crossed, spent>>

Writes(c) ==
  LET i == call[c].of IN
  Accepts(i, call[c].seen) /\ Written(i) /\ Answers(c, "answered", row[i] + 1)

Refuses(c) ==
  /\ ~Accepts(call[c].of, call[c].seen)
  /\ Answers(c, "refused", 0) /\ UNCHANGED row

Repeats(c) ==
  /\ ~Accepts(call[c].of, call[c].seen)
  /\ Answers(c, "answered", row[call[c].of]) /\ UNCHANGED row

ServeOnce(c) ==
  Is("server", "once") /\ call[c].step = "sent" /\ (Writes(c) \/ Refuses(c))

ServeAgain(c) ==
  Is("server", "again") /\ call[c].step = "sent" /\ (Writes(c) \/ Repeats(c))

ServeVersion(c) ==
  Is("server", "version") /\ call[c].step = "sent" /\ (Writes(c) \/ Refuses(c))

ServeDraw(c) ==
  /\ Is("server", "redraw") /\ call[c].step = "sent"
  /\ Writes(c) \/ IF call[c].seen = 0 THEN Repeats(c) ELSE Refuses(c)

ServeAny(c) ==
  Is("server", "any") /\ call[c].step = "sent" /\ Writes(c)

(* A handler whose client has given up goes on. *)
ServeLate(a) ==
  /\ a \in abandoned /\ abandoned' = abandoned \ {a}
  /\ IF Accepts(a.of, a.seen) THEN Written(a.of) ELSE UNCHANGED row
  /\ UNCHANGED <<panel, shown, learnt, call, busy, first, refresh, page,
                 crossed, spent>>

OtherUser(i) ==
  /\ panel # "none" /\ spent.others < MostOthers
  /\ Accepts(i, row[i]) /\ Written(i)
  /\ spent' = [spent EXCEPT !.others = @ + 1]
  /\ UNCHANGED <<panel, shown, learnt, call, busy, abandoned, first, refresh,
                 page, crossed>>

----------------------------------------------------------------------------
(* finally: the call is over and the marker is gone, whoever set it.        *)
Ends(c) == call' = [call EXCEPT ![c] = Idle] /\ busy' = Nothing

Learns(c) ==
  LET q == call[c] IN
  learnt' = [learnt EXCEPT ![q.of] = IF q.got > @ THEN q.got ELSE @]

(* The mutant: the list is the one the handler was made with.               *)
PatchedOld(c) == [call[c].list EXCEPT ![call[c].of] = call[c].got]

Patched(c) == [shown EXCEPT ![call[c].of] = call[c].got]

Patch(c) ==
  /\ call[c].step = "answered" /\ Is("answer", "patch")
  /\ shown' = Patched(c) /\ Learns(c) /\ Ends(c)
  /\ refresh' = IF Is("refreshed", "never") THEN refresh
                ELSE [refresh EXCEPT !.wanted = @ + 1]
  /\ UNCHANGED <<panel, row, abandoned, first, page, crossed, spent>>

Refused(c) ==
  /\ call[c].step = "refused" /\ Ends(c)
  /\ UNCHANGED <<panel, row, shown, learnt, abandoned, first, refresh, page,
                 crossed, spent>>

(* The timeout of five seconds, or the network: the panel says it failed.   *)
GiveUp(c) ==
  LET q == call[c] IN
  /\ q.step \in {"sent", "answered", "refused"} /\ Trouble /\ Ends(c)
  /\ abandoned' = IF q.step = "sent"
                  THEN abandoned \union {[of |-> q.of, seen |-> q.seen]}
                  ELSE abandoned
  /\ UNCHANGED <<panel, row, shown, learnt, first, refresh, page, crossed>>

(* The boards fetch their list again, still under the same marker.          *)
AskList(c) ==
  /\ call[c].step = "answered" /\ ~Is("answer", "patch")
  /\ call' = [call EXCEPT ![c].step = "asking"] /\ Learns(c)
  /\ UNCHANGED <<panel, row, shown, busy, abandoned, first, refresh, page,
                 crossed, spent>>

ReadList(c) ==
  /\ call[c].step = "asking"
  /\ call' = [call EXCEPT ![c].step = "listed", ![c].list = row]
  /\ UNCHANGED <<panel, row, shown, learnt, busy, abandoned, first, refresh,
                 page, crossed, spent>>

ShowList(c) ==
  /\ call[c].step = "listed"
  /\ shown' = call[c].list /\ page' = "good" /\ Ends(c)
  /\ UNCHANGED <<panel, row, learnt, abandoned, first, refresh, crossed, spent>>

(* One board adds the row it created, the other says that it is behind.     *)
LoseList(c) ==
  /\ call[c].step \in {"asking", "listed"} /\ Trouble /\ Ends(c)
  /\ IF Is("answer", "list")
     THEN page' = "behind" /\ UNCHANGED shown
     ELSE shown' = Patched(c) /\ UNCHANGED page
  /\ UNCHANGED <<panel, row, learnt, abandoned, first, refresh, crossed>>

----------------------------------------------------------------------------
(* router.refresh renders the page again on the server, one at a time; a    *)
(* list that cannot be had is empty there, and the page says so.            *)
RefreshReads ==
  /\ refresh.wanted > 0 /\ ~refresh.read
  /\ refresh' = [refresh EXCEPT !.read = TRUE, !.list = row]
  /\ UNCHANGED <<panel, row, shown, learnt, call, busy, abandoned, first,
                 page, crossed, spent>>

RefreshDone ==
  refresh' = [wanted |-> refresh.wanted - 1, read |-> FALSE, list |-> Fresh]

RefreshLands ==
  /\ refresh.read /\ RefreshDone /\ page' = "good"
  /\ shown' = IF Is("refreshed", "copied") THEN refresh.list ELSE shown
  /\ UNCHANGED <<panel, row, learnt, call, busy, abandoned, first, crossed,
                 spent>>

RefreshFails ==
  /\ refresh.wanted > 0 /\ Trouble /\ RefreshDone /\ page' = "degraded"
  /\ shown' = IF Is("refreshed", "copied") THEN Fresh ELSE shown
  /\ UNCHANGED <<panel, row, learnt, call, busy, abandoned, first, crossed>>

Next ==
  \/ \E p \in DOMAIN Panel : Open(p)
  \/ FirstRead \/ FirstLands \/ FirstFails
  \/ RefreshReads \/ RefreshLands \/ RefreshFails
  \/ \E i \in Item : OtherUser(i)
  \/ \E a \in abandoned : ServeLate(a)
  \/ \E c \in Call :
       \/ ServeOnce(c) \/ ServeAgain(c) \/ ServeVersion(c)
       \/ ServeDraw(c) \/ ServeAny(c)
       \/ Patch(c) \/ Refused(c) \/ GiveUp(c)
       \/ AskList(c) \/ ReadList(c) \/ ShowList(c) \/ LoseList(c)
       \/ \E i \in Item : ClickOn(c, i)

Spec == Init /\ [][Next]_vars

----------------------------------------------------------------------------
AtRest ==
  /\ \A c \in Call : call[c] = Idle
  /\ refresh.wanted = 0 /\ first.at \notin {"asked", "read"}

(* A panel at rest whose page does not say that its list is behind shows no *)
(* row older than an answer has told it: neither answers to two rows that   *)
(* cross, nor a list that was read before the last answer, nor a click      *)
(* that a marker should have kept away take anything back.  The lottery's   *)
(* manager disables nothing and promises this only of rows whose requests   *)
(* have not crossed.                                                        *)
PanelsAgree ==
  AtRest /\ page = "good" =>
    \A i \in Item :
      shown[i] >= learnt[i] \/ (Is("button", "none") /\ i \in crossed)
=============================================================================
