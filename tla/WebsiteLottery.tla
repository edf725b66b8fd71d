---------------------------- MODULE WebsiteLottery ----------------------------
(***************************************************************************)
(* The website topics of one day (WebsiteLotteryService): students draw    *)
(* and redraw while the teacher edits the options.  Every statement of a   *)
(* request is a step; redraw's delete and create are one transaction.      *)
(***************************************************************************)
EXTENDS Integers, FiniteSets

CONSTANTS
  Student,
  Option,  \* options the teacher may create
  Call,    \* student requests in flight
  Nobody   \* no student, no option

VARIABLES
  option,  \* the option rows
  draw,    \* the draw rows: unique by student, and by option
  call,    \* the student requests
  delete   \* the teacher's deletion, after its count

vars == <<option, draw, call, delete>>

Free == [pc |-> "free", of |-> Nobody, kind |-> "draw", old |-> Nobody, left |-> {}]

Init ==
  /\ option = [o \in Option |-> "absent"]
  /\ draw = [s \in Student |-> Nobody]
  /\ call = [c \in Call |-> Free]
  /\ delete = Nobody

Exists == {o \in Option : option[o] \in {"active", "inactive"}}
Drawn == {draw[s] : s \in Student} \ {Nobody}

----------------------------------------------------------------------------
(* The teacher. *)
CreateOption(o) ==
  /\ option[o] = "absent"
  /\ \E active \in {"active", "inactive"} : option' = [option EXCEPT ![o] = active]
  /\ UNCHANGED <<draw, call, delete>>

UpdateOption(o) ==
  /\ o \in Exists
  /\ option' = [option EXCEPT ![o] = IF @ = "active" THEN "inactive" ELSE "active"]
  /\ UNCHANGED <<draw, call, delete>>

(* deleteOption counts the draws of the option ... *)
DeleteCounts(o) ==
  /\ delete = Nobody /\ o \in Exists /\ o \notin Drawn
  /\ delete' = o
  /\ UNCHANGED <<option, draw, call>>

(* ... and then deletes it: the foreign key refuses while it has one. *)
DeleteWrites ==
  /\ delete # Nobody
  /\ option' = IF delete \in Drawn THEN option ELSE [option EXCEPT ![delete] = "deleted"]
  /\ delete' = Nobody
  /\ UNCHANGED <<draw, call>>

----------------------------------------------------------------------------
Set(c, r) == call' = [call EXCEPT ![c] = r]
End(c) == Set(c, Free)

(* A student with an online connector at this moment: requireOnlineAgent. *)
Ask(c, s, kind) ==
  /\ call[c].pc = "free"
  /\ Set(c, [Free EXCEPT !.pc = "own", !.of = s, !.kind = kind])
  /\ UNCHANGED <<option, draw, delete>>

(* The student's draw is read: draw ends with it, redraw wants another one, *)
(* and a redraw without one is a draw.                                      *)
ReadOwn(c) ==
  LET q == call[c] IN
  /\ q.pc = "own"
  /\ IF q.kind = "draw" /\ draw[q.of] # Nobody THEN End(c)
     ELSE Set(c, [q EXCEPT !.pc = "draws", !.old = draw[q.of],
                           !.kind = IF draw[q.of] = Nobody THEN "draw" ELSE "redraw"])
  /\ UNCHANGED <<option, draw, delete>>

(* getAvailableOptions: the day's draws, and then the active options.       *)
ReadDraws(c) ==
  /\ call[c].pc = "draws"
  /\ Set(c, [call[c] EXCEPT !.pc = "options", !.left = Option \ (Drawn \union {call[c].old})])
  /\ UNCHANGED <<option, draw, delete>>

ReadOptions(c) ==
  LET left == {o \in call[c].left : option[o] = "active"} IN
  /\ call[c].pc = "options"
  /\ IF left = {} THEN End(c) ELSE Set(c, [call[c] EXCEPT !.pc = "try", !.left = left])
  /\ UNCHANGED <<option, draw, delete>>

(* The unique key of the draw's option. *)
Taken(s, o) == \E t \in Student \ {s} : draw[t] = o

(* Mutant: the old draw goes first, in a statement of its own. *)
DeletedFirst(s, o) == [draw EXCEPT ![s] = Nobody]

(* A transaction that meets a taken option is rolled back. *)
RolledBack(s, o) == draw

(* Draws the option picked; on a collision the next turn picks another one. *)
(* A draw that finds the student has one by now ends with that one.         *)
TryOption(c, o) ==
  LET q == call[c]
      left == q.left \ {o}
  IN
  /\ q.pc = "try" /\ o \in q.left
  /\ IF o \notin Exists THEN End(c) /\ UNCHANGED draw
     ELSE IF q.kind = "draw" /\ draw[q.of] # Nobody THEN End(c) /\ UNCHANGED draw
     ELSE IF Taken(q.of, o)
     THEN /\ draw' = IF q.kind = "redraw" THEN RolledBack(q.of, o) ELSE draw
          /\ IF left = {} THEN End(c) ELSE Set(c, [q EXCEPT !.left = left])
     ELSE draw' = [draw EXCEPT ![q.of] = o] /\ End(c)
  /\ UNCHANGED <<option, delete>>

(* The connection to the database breaks, or the API stops. *)
CallFails(c) ==
  /\ call[c].pc # "free" /\ End(c)
  /\ UNCHANGED <<option, draw, delete>>

----------------------------------------------------------------------------
Next ==
  \/ DeleteWrites
  \/ \E o \in Option : CreateOption(o) \/ UpdateOption(o) \/ DeleteCounts(o)
  \/ \E c \in Call :
       \/ \E s \in Student, kind \in {"draw", "redraw"} : Ask(c, s, kind)
       \/ ReadOwn(c) \/ ReadDraws(c) \/ ReadOptions(c) \/ CallFails(c)
       \/ \E o \in Option : TryOption(c, o)

Spec == Init /\ [][Next]_vars

----------------------------------------------------------------------------
TypeOK ==
  /\ option \in [Option -> {"absent", "active", "inactive", "deleted"}]
  /\ draw \in [Student -> Option \union {Nobody}]
  /\ delete \in Option \union {Nobody}
  /\ \A c \in Call : call[c].pc \in {"free", "own", "draws", "options", "try"}

(* Whatever requests, deletions and failures meet, a student who has drawn  *)
(* keeps a draw of an option that exists, and one of his own: a redraw that *)
(* loses its options to others gives nothing up, and no two students build  *)
(* the same site.                                                           *)
NobodyLosesTheirDraw ==
  [][\A s \in Student : draw[s] # Nobody =>
       /\ draw'[s] \in Exists'
       /\ \A t \in Student \ {s} : draw'[t] # draw'[s]]_vars

============================================================================
