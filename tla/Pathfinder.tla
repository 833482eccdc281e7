------------------------------ MODULE Pathfinder ------------------------------
(***************************************************************************)
(* drones/iarc_pathfinder.py: the corridor through the mine field that the      *)
(* manager hands in at the end.  The mines that were found become cells of a     *)
(* grid; one breadth first search grows the clearance map from the mines, then    *)
(* one for each half width G looks for the shortest corridor from the bottom row  *)
(* to the top row, and the candidate of the best score, width over length, wins.  *)
(* An iteration of a search's loop is one step.                                *)
(*                                                                         *)
(* A candidate has missed no mine and its scan time is that of all, so scores      *)
(* compare as W / L does; lengths and widths are in cells, not in feet.          *)
(***************************************************************************)
EXTENDS Integers, Sequences, FiniteSets

CONSTANTS
  Cols, Rows,     \* COLS, ROWS
  CellSize,       \* delta_lat, delta_lon
  Surveys         \* bound: the sets of mine locations that may be handed in

VARIABLES
  stage,       \* "clearance", "widths", "search" or "done"
  mines,       \* cells with a mine
  clearance,   \* distance to the nearest mine, of the cells reached so far
  queue,       \* the running search
  G, camefrom, \* half width tried, and the tree of its search
  best         \* best_path, best_G, best_clearance

vars == <<stage, mines, clearance, queue, G, camefrom, best>>

Cells == {<<x, y>> : x \in 0 .. Cols - 1, y \in 0 .. Rows - 1}
Start == <<-1, -1>>
NoPath == [path |-> <<>>, G |-> 0, clearance |-> 0]
Smaller(m, n) == IF m <= n THEN m ELSE n
Larger(m, n) == IF m >= n THEN m ELSE n

-------------------------------------------------------------------------------
(* generate_minefield.  int() cuts off toward zero.                             *)
Truncated(v) == IF v >= 0 THEN v \div CellSize ELSE -((-v) \div CellSize)
GridIndex(v, count) == Smaller(Larger(Truncated(v), 0), count - 1)
Minefield(locations) == {<<GridIndex(at[1], Cols), GridIndex(at[2], Rows)>> : at \in locations}

(* The mines enter the queue in any order a set may be read in.                  *)
Orders(S) == {s \in [1 .. Cardinality(S) -> S] : \A i, j \in DOMAIN s : s[i] = s[j] => i = j}

Init ==
  /\ \E locations \in Surveys : mines = Minefield(locations)
  /\ queue \in Orders(mines)
  /\ stage = (IF mines = {} THEN "widths" ELSE "clearance")
  /\ clearance = (IF mines = {} THEN [c \in Cells |-> Larger(Cols, Rows) + 1]
                  ELSE [c \in mines |-> 0])
  /\ G = 0 /\ camefrom = <<>> /\ best = NoPath

-------------------------------------------------------------------------------
Beside(c, deltas) == [i \in DOMAIN deltas |-> <<c[1] + deltas[i][1], c[2] + deltas[i][2]>>]

Entered(f, fresh, value) ==
  [d \in DOMAIN f \cup {fresh[i] : i \in DOMAIN fresh} |-> IF d \in DOMAIN f THEN f[d] ELSE value]

(* compute_clearance_map: all eight neighbours are one away.                     *)
Around == <<<<-1, -1>>, <<-1, 0>>, <<-1, 1>>, <<0, -1>>, <<0, 1>>, <<1, -1>>, <<1, 0>>, <<1, 1>>>>
(* A slip: corners are two away.                                             *)
Spread_Cross(c) == SelectSeq(Beside(c, <<<<-1, 0>>, <<0, -1>>, <<0, 1>>, <<1, 0>>>>),
                             LAMBDA n : n \in Cells /\ n \notin DOMAIN clearance)
Spread(c) == SelectSeq(Beside(c, Around), LAMBDA n : n \in Cells /\ n \notin DOMAIN clearance)

ClearanceStep ==
  /\ stage = "clearance" /\ queue # <<>>
  /\ clearance' = Entered(clearance, Spread(Head(queue)), clearance[Head(queue)] + 1)
  /\ queue' = Tail(queue) \o Spread(Head(queue))
  /\ UNCHANGED <<stage, mines, G, camefrom, best>>

ClearanceDone ==
  /\ stage = "clearance" /\ queue = <<>>
  /\ stage' = "widths"
  /\ UNCHANGED <<mines, clearance, queue, G, camefrom, best>>

-------------------------------------------------------------------------------
(* shortest_safe_path.                                                       *)
Inside(c) == c \in Cells /\ G <= c[1] /\ c[1] <= Cols - G - 1
Safe(c) == clearance[c] > G

Starts == SelectSeq([i \in 1 .. Cols |-> <<i - 1, 0>>], LAMBDA c : Inside(c) /\ Safe(c))

BeginWidth ==
  /\ stage = "widths" /\ G <= (Cols - 1) \div 2
  /\ IF Starts = <<>>
     THEN G' = G + 1 /\ UNCHANGED <<stage, queue, camefrom>>
     ELSE /\ stage' = "search" /\ queue' = Starts
          /\ camefrom' = [c \in {Starts[i] : i \in DOMAIN Starts} |-> Start]
          /\ G' = G
  /\ UNCHANGED <<mines, clearance, best>>

Steps(c) == SelectSeq(Beside(c, <<<<0, 1>>, <<-1, 0>>, <<1, 0>>, <<0, -1>>>>),
                      LAMBDA n : Inside(n) /\ n \notin DOMAIN camefrom /\ Safe(n))
Waiting(c) == Tail(queue) \o Steps(c)

SearchStep ==
  /\ stage = "search" /\ queue # <<>>
  /\ LET c == Head(queue)
     IN /\ c[2] # Rows - 1
        /\ camefrom' = Entered(camefrom, Steps(c), c)
        /\ queue' = Waiting(c)
  /\ UNCHANGED <<stage, mines, clearance, G, best>>

NothingFound ==
  /\ stage = "search" /\ queue = <<>>
  /\ stage' = "widths" /\ G' = G + 1 /\ camefrom' = <<>>
  /\ UNCHANGED <<mines, clearance, queue, best>>

PathTo(c) ==
  LET path[d \in DOMAIN camefrom] ==
        IF camefrom[d] = Start THEN <<d>> ELSE Append(path[camefrom[d]], d)
  IN path[c]

(* find_best_path: the strictly better of width over length is kept.             *)
Width(g) == 1 + 2 * g
Beats(g, n) == best.path = <<>> \/ Width(g) * Len(best.path) > Width(best.G) * n
Least(S) == CHOOSE n \in S : \A m \in S : n <= m

PathFound ==
  /\ stage = "search" /\ queue # <<>> /\ Head(queue)[2] = Rows - 1
  /\ \E path \in {PathTo(Head(queue))} :
       best' = IF Beats(G, Len(path))
               THEN [path |-> path, G |-> G,
                     clearance |-> Least({clearance[path[i]] : i \in DOMAIN path})]
               ELSE best
  /\ stage' = "widths" /\ G' = G + 1 /\ queue' = <<>> /\ camefrom' = <<>>
  /\ UNCHANGED <<mines, clearance>>

Done ==
  /\ stage = "widths" /\ G > (Cols - 1) \div 2
  /\ stage' = "done"
  /\ UNCHANGED <<mines, clearance, queue, G, camefrom, best>>

Next == \/ ClearanceStep \/ ClearanceDone \/ BeginWidth \/ SearchStep \/ NothingFound
        \/ PathFound \/ Done

-------------------------------------------------------------------------------
(* score_path and grid_path_to_commands, what is handed in.                     *)
OnPath(path) == {path[i] : i \in DOMAIN path}
Away(c, d) == Larger(IF c[1] > d[1] THEN c[1] - d[1] ELSE d[1] - c[1],
                     IF c[2] > d[2] THEN c[2] - d[2] ELSE d[2] - c[2])
GreenZone(path, g) ==
  IF g = 0 THEN {} ELSE {c \in Cells \ OnPath(path) : \E d \in OnPath(path) : Away(c, d) <= g}

Direction(c, d) ==
  CASE d = <<c[1], c[2] + 1>> -> "U" [] d = <<c[1], c[2] - 1>> -> "D"
    [] d = <<c[1] + 1, c[2]>> -> "R" [] d = <<c[1] - 1, c[2]>> -> "L" [] OTHER -> "raise"
Directions(path) == [i \in 1 .. Len(path) - 1 |-> Direction(path[i], path[i + 1])]
Accepts(path) ==
  /\ Len(path) > 1 /\ "raise" \notin {Directions(path)[i] : i \in DOMAIN Directions(path)}
  /\ Directions(path)[1] = "U" /\ Directions(path)[Len(path) - 1] = "U"

-------------------------------------------------------------------------------
Nearest(c) == Least({Away(c, m) : m \in mines})
Corridor(g) == {c \in Cells : /\ g <= c[1] /\ c[1] <= Cols - g - 1
                              /\ \A m \in mines : Away(c, m) > g}
Touches(c, d) == Direction(c, d) # "raise"
(* The length of the shortest path of the corridor, grown cell by cell, or none.      *)
Grown(S, g) == {c \in Corridor(g) : c \in S \/ \E d \in S : Touches(d, c)}
Lengths(g) ==
  LET reached[n \in 1 .. Cardinality(Cells)] ==
        IF n = 1 THEN {c \in Corridor(g) : c[2] = 0}
        ELSE UNION {Grown(S, g) : S \in {reached[n - 1]}}
  IN {n \in 1 .. Cardinality(Cells) : \E c \in reached[n] : c[2] = Rows - 1}

TypeOK ==
  /\ stage \in {"clearance", "widths", "search", "done"}
  /\ mines \subseteq Cells /\ DOMAIN clearance \subseteq Cells
  /\ DOMAIN camefrom \subseteq Cells /\ G \in 0 .. (Cols - 1) \div 2 + 1

(* The clearance map covers the field, and of each cell it says how far the         *)
(* nearest mine is, whatever the order the mines entered the search in.          *)
ClearanceIsDistance ==
  stage # "clearance" => /\ DOMAIN clearance = Cells
                         /\ mines # {} => \A c \in Cells : clearance[c] = Nearest(c)

(* What is handed in crosses the whole field without a mine within its width,        *)
(* official scoring counts none in its zones, and the commands can be written: the    *)
(* moves are of one cell, the first and the last are up.                          *)
CorridorIsClear ==
  best.path # <<>> =>
    /\ \A i \in DOMAIN best.path : best.path[i] \in Corridor(best.G)
    /\ OnPath(best.path) \cap mines = {} /\ GreenZone(best.path, best.G) \cap mines = {}
    /\ best.clearance > best.G
    /\ Accepts(best.path)

(* No corridor of any width has a better score, and if there is one, one is found.   *)
BestIsBest ==
  stage = "done" =>
    \A g \in 0 .. (Cols - 1) \div 2 :
      \A n \in Lengths(g) : /\ best.path # <<>>
                            /\ Width(g) * Len(best.path) <= Width(best.G) * n
=============================================================================
