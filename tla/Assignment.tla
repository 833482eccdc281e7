------------------------------ MODULE Assignment ------------------------------
(***************************************************************************)
(* associate.py's hungarian: the minimum-cost perfect matching of a square     *)
(* matrix by shortest augmenting paths, row by row, with the potentials u and   *)
(* v.  Column 0 stands for the row that is being placed.                       *)
(***************************************************************************)
EXTENDS Integers, Sequences

(* The value itself; TLC evaluates a function once when it has compared it.      *)
Kept(value) == IF value = value THEN value ELSE value

Infinite == 1000000000   \* math.inf; every cost is far below it

Start(n, i, s) ==
  [s EXCEPT !.p[0] = i, !.minv = [j \in 0 .. n |-> Infinite], !.used = {}, !.j0 = 0]

(* One turn of the inner loop: the tree takes in column j0, and the cheapest   *)
(* column outside it is next.                                                *)
Turn(cost, s) ==
  LET n == Len(cost)
      used == s.used \cup {s.j0}
      i0 == s.p[s.j0]
      outside == (1 .. n) \ used
      cur == [j \in outside |-> cost[i0][j] - s.u[i0] - s.v[j]]
      minv == [j \in 0 .. n |-> IF j \in outside /\ cur[j] < s.minv[j] THEN cur[j] ELSE s.minv[j]]
      j1 == CHOOSE j \in outside :
              \A k \in outside : minv[j] < minv[k] \/ (minv[j] = minv[k] /\ j <= k)
      delta == minv[j1]
  IN [p |-> s.p, used |-> used, j0 |-> j1,
      u |-> [i \in 0 .. n |-> IF \E j \in used : s.p[j] = i THEN s.u[i] + delta ELSE s.u[i]],
      v |-> [j \in 0 .. n |-> IF j \in used THEN s.v[j] - delta ELSE s.v[j]],
      minv |-> [j \in 0 .. n |-> IF j \in used THEN minv[j] ELSE minv[j] - delta],
      way |-> [j \in 0 .. n |-> IF j \in outside /\ cur[j] < s.minv[j] THEN s.j0 ELSE s.way[j]]]

RECURSIVE Grow(_, _)
Grow(cost, s) == LET t == Kept(Turn(cost, s)) IN IF t.p[t.j0] = 0 THEN t ELSE Grow(cost, t)

(* A slip: only the end of the path changes hands.                            *)
Flip_End(s) == [s EXCEPT !.p[s.j0] = s.p[0]]
(* The columns on the path change hands, back to the row that came in.         *)
RECURSIVE Flip(_)
Flip(s) ==
  IF s.j0 = 0 THEN s
  ELSE LET j1 == s.way[s.j0] IN Flip([s EXCEPT !.p[s.j0] = s.p[j1], !.j0 = j1])

RECURSIVE Place(_, _, _)
Place(cost, i, s) ==
  IF i > Len(cost) THEN s ELSE Place(cost, i + 1, Flip(Grow(cost, Start(Len(cost), i, s))))

(* hungarian: the column of each row.                                        *)
Hungarian(matrix) ==
  LET cost == Kept(matrix)
      n == Len(cost)
      zero == [j \in 0 .. n |-> 0]
      s == Place(cost, 1, [u |-> zero, v |-> zero, p |-> zero, way |-> zero,
                           minv |-> zero, used |-> {}, j0 |-> 0])
  IN Kept([i \in 1 .. n |-> CHOOSE j \in 1 .. n : s.p[j] = i])

-------------------------------------------------------------------------------
(* What it promises: each row a column of its own, and no matching is cheaper.   *)
Matchings(n) == {m \in [1 .. n -> 1 .. n] : \A i, k \in 1 .. n : m[i] = m[k] => i = k}
RECURSIVE CostOf(_, _, _)
CostOf(cost, m, i) == IF i = 0 THEN 0 ELSE cost[i][m[i]] + CostOf(cost, m, i - 1)
IsCheapest(cost, m) ==
  LET n == Len(cost)
  IN m \in Matchings(n) /\ \A k \in Matchings(n) : CostOf(cost, m, n) <= CostOf(cost, k, n)
=============================================================================
