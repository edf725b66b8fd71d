------------------------------ MODULE MCCourse ------------------------------
(* A small instance of every part of a course.                             *)
EXTENDS Course, MCReviewPipeline

(* A trap, a desk with its chair, a gap between two corners, and a wall. *)
MCLayouts ==
  { {<<3, 1>>, <<3, 2>>, <<3, 3>>},
    {<<2, 2>>, <<3, 2>>, <<4, 2>>, <<4, 3>>},
    {<<2, 2>>, <<3, 3>>},
    {<<3, 1>>, <<3, 2>>, <<3, 3>>, <<3, 4>>} }

MCPriority == [t \in QueueTask |-> IF t = "large" THEN 0 ELSE 1]
MCEstimate == [t \in QueueTask |-> IF t = "large" THEN 4 ELSE 1]
MCTasksOf == [p \in Poll |-> QueueTask]
MCAsked == [p \in Poll |-> 2]
MCMaximum == [p \in Poll |-> 1]

(* Also the tabs of the teacher may trade places. *)
CourseSymmetry == DeskSymmetry \union Permutations(LessonTab)

MCHome == ("ta" :> "browser") @@ ("qa" :> "files")

=============================================================================
