----------------------------- MODULE Pathfinding -----------------------------
(***************************************************************************)
(* The route an avatar takes on a click (workstation-pathfinding.ts): A*   *)
(* on the grid points that are free of furniture.  A state is a turn of    *)
(* the search's loop.                                                      *)
(*                                                                         *)
(* Lengths are in hundredths of a grid step: a diagonal is rounded up and  *)
(* a distance down, which keeps every distance within the way it bounds.   *)
(***************************************************************************)
EXTENDS Integers, Sequences, FiniteSets, SequencesExt, FiniteSetsExt

CONSTANTS
  Columns, Rows,  \* the grid
  SquareRoot,     \* n |-> 100 * sqrt(n), rounded down
  Layouts         \* bound: the sets of grid points that furniture may take

Cell == (1..Columns) \X (1..Rows)
NoCell == <<0, 0>>

(* More than any way without a loop is long. *)
Infinity == 142 * Columns * Rows

VARIABLES
  grid,   \* GRID: the free points
  start,  \* the free points nearest to the avatar ...
  goal,   \* ... and to the click
  pc,     \* what the call is doing
  open,   \* the open set, in insertion order
  came,   \* cameFrom
  g,      \* gScore
  route,  \* the answer
  least   \* reference: least lengths from start found by relaxing all edges

vars == <<grid, start, goal, pc, open, came, g, route, least>>
choice == <<grid, start, goal>>

----------------------------------------------------------------------------
(* The members of s that are in S, in their order. *)
Filtered(s, S) ==
  LET kept[i \in 0..Len(s)] ==
        IF i = 0 THEN <<>>
        ELSE IF s[i] \in S THEN Append(kept[i - 1], s[i]) ELSE kept[i - 1]
  IN  kept[Len(s)]

Square(n) == n * n
Apart(a, b) == Square(a[1] - b[1]) + Square(a[2] - b[2])

(* Mutant: pixels for grid steps. *)
PixelDistance(a, b) == 12 * SquareRoot[Apart(a, b)]

(* distance / GRID_SIZE *)
Distance(a, b) == SquareRoot[Apart(a, b)]

(* The first of the grid's points, row by row, that is nearest. *)
Before(a, b) == a[2] < b[2] \/ (a[2] = b[2] /\ a[1] < b[1])
NearestWalkable(point, free) ==
  CHOOSE n \in free : \A m \in free \ {n} :
    \/ Apart(point, n) < Apart(point, m)
    \/ Apart(point, n) = Apart(point, m) /\ Before(n, m)

DIRECTIONS ==
  <<<<-1, 0>>, <<1, 0>>, <<0, -1>>, <<0, 1>>, <<-1, -1>>, <<1, -1>>, <<-1, 1>>, <<1, 1>>>>

Diagonal(d) == d[1] # 0 /\ d[2] # 0
Cost(d) == IF Diagonal(d) THEN 142 ELSE 100
Moved(n, d) == <<n[1] + d[1], n[2] + d[2]>>

(* canTraverseDiagonal: no corner is cut. *)
CanTraverse(n, d) ==
  /\ Moved(n, d) \in grid
  /\ Diagonal(d) => Moved(n, <<d[1], 0>>) \in grid /\ Moved(n, <<0, d[2]>>) \in grid

----------------------------------------------------------------------------
Init ==
  /\ grid = Cell /\ start = NoCell /\ goal = NoCell
  /\ pc = "idle" /\ open = <<>> /\ came = <<>> /\ g = <<>> /\ route = <<>> /\ least = <<>>

(* findWorkstationPath from a point to another, which may be on a desk: the *)
(* way on the grid, from the node nearest the one to the node nearest the   *)
(* other.  The last step from there to the very point, and the points left  *)
(* out of a straight piece of the way, are not modelled.                    *)
FindPath(from, to) ==
  /\ pc = "idle" /\ pc' = "measure"
  /\ \E walls \in Layouts :
       /\ grid' = Cell \ walls
       /\ start' = NearestWalkable(from, Cell \ walls)
       /\ goal' = NearestWalkable(to, Cell \ walls)
  /\ open' = <<start'>>
  /\ came' = [n \in grid' |-> NoCell]
  /\ g' = [n \in grid' |-> IF n = start' THEN 0 ELSE Infinity]
  /\ least' = g'
  /\ UNCHANGED route

(* The reference: every edge is relaxed until nothing changes. *)
Relaxed ==
  [n \in grid |-> Min({least[n]} \union
     {least[Moved(n, d)] + Cost(d) : d \in {e \in Range(DIRECTIONS) : CanTraverse(n, e)}})]

Measure ==
  /\ pc = "measure"
  /\ least' = Relaxed
  /\ pc' = IF Relaxed = least THEN "search" ELSE "measure"
  /\ UNCHANGED <<choice, open, came, g, route>>

(* The open point with the least score, the one added first of several. *)
Score(n) == g[n] + Distance(n, goal)
Current ==
  LET best == Min({Score(n) : n \in Range(open)})
  IN  open[Min({i \in DOMAIN open : Score(open[i]) = best})]

(* reconstructPath: at most all points are on the way back. *)
Reconstructed(end) ==
  LET path[i \in 0..Cardinality(grid)] ==
        IF i = 0 THEN <<end>>
        ELSE LET way == path[i - 1] IN
             IF came[Head(way)] = NoCell THEN way ELSE <<came[Head(way)]>> \o way
  IN  path[Cardinality(grid)]

GoalReached ==
  /\ pc = "search" /\ open # <<>> /\ Current = goal
  /\ route' = Reconstructed(goal) /\ pc' = "done"
  /\ UNCHANGED <<choice, open, came, g, least>>

(* Mutant: a neighbour keeps the way it was found by first. *)
Unseen(n) ==
  Filtered(DIRECTIONS,
    {d \in Range(DIRECTIONS) : CanTraverse(n, d) /\ g[Moved(n, d)] = Infinity})

(* The neighbours that are reached better by way of the current point. *)
Better(n) ==
  Filtered(DIRECTIONS,
    {d \in Range(DIRECTIONS) : CanTraverse(n, d) /\ g[n] + Cost(d) < g[Moved(n, d)]})

Expand ==
  LET n == Current
      better == Better(n)
      next == [i \in DOMAIN better |-> Moved(n, better[i])]
      rest == Filtered(open, grid \ {n})
  IN
  /\ pc = "search" /\ open # <<>> /\ n # goal
  /\ came' = [m \in grid |-> IF m \in Range(next) THEN n ELSE came[m]]
  /\ g' = [m \in grid |->
             IF m \in Range(next)
             THEN g[n] + Cost(CHOOSE d \in Range(better) : Moved(n, d) = m) ELSE g[m]]
  /\ open' = rest \o Filtered(next, grid \ Range(rest))
  /\ UNCHANGED <<choice, pc, route, least>>

(* The open set ran empty: there is no way. *)
NoRoute ==
  /\ pc = "search" /\ open = <<>> /\ pc' = "done"
  /\ UNCHANGED <<choice, open, came, g, route, least>>

Next ==
  \/ \E from, to \in Cell : FindPath(from, to)
  \/ Measure \/ GoalReached \/ Expand \/ NoRoute

Spec == Init /\ [][Next]_vars

----------------------------------------------------------------------------
TypeOK ==
  /\ grid \subseteq Cell /\ pc \in {"idle", "measure", "search", "done"}
  /\ Range(open) \subseteq grid
  /\ pc # "idle" => start \in grid /\ goal \in grid

(* The route on the grid goes from the free node nearest the avatar to the  *)
(* free node nearest the click by steps that cut no corner, and no route is *)
(* shorter; it is empty only if there is none.                              *)
RouteIsShortest ==
  pc = "done" =>
    \/ route = <<>> /\ least[goal] = Infinity
    \/ /\ route # <<>> /\ Head(route) = start /\ Last(route) = goal
       /\ g[goal] = least[goal]
       /\ \A i \in 1..(Len(route) - 1) :
            \E d \in Range(DIRECTIONS) :
              /\ CanTraverse(route[i], d) /\ Moved(route[i], d) = route[i + 1]
              /\ least[route[i]] + Cost(d) = least[route[i + 1]]

============================================================================
