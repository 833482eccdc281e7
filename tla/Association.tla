------------------------------ MODULE Association ------------------------------
(***************************************************************************)
(* core/associate.py, Associator: what a pass over the ground saw is lined up  *)
(* with the map of tracks (blind_align) and assigned to it one to one, with     *)
(* dummies for a birth and a miss.                                           *)
(*                                                                         *)
(* The ground is one axis, so the pass->map transform is a shift; every        *)
(* observation weighs the same, and a track lies at the mean of its centers.    *)
(***************************************************************************)
EXTENDS Assignment, FiniteSets

CONSTANTS
  Objects, Spot, Kind,   \* what lies on the ground, where, and its class_id
  Shifts,                \* common error of a pass
  Gate, CoarseGate,      \* gate_m, coarse_gate_m
  MaxPasses              \* bound

VARIABLES
  tracks,    \* Associator.tracks; of remembers what object founded a track
  pass,      \* the last PassResult, and what it was computed from
  passes

assocVars == <<tracks, pass, passes>>

Verdicts == {"observed", "edge", "unseen"}
NoPass == [seen |-> <<>>, shift |-> 0, verdict |-> <<>>, known |-> 0,
           fits |-> <<>>, matches |-> {}, born |-> {}, missed |-> {}, out_of_view |-> {}]

Init == tracks = <<>> /\ pass = NoPass /\ passes = 0

Total[s \in Seq(Int)] == IF s = <<>> THEN 0 ELSE Head(s) + Total[Tail(s)]
Mean(s) == Total[s] \div Len(s)
Sqr(n) == n * n
Big == 100000

-------------------------------------------------------------------------------
(* blind_align: Hungarian pairing at the coarse gate, and a fit of the pairs,    *)
(* until a fixed point.                                                     *)
Larger(m, n) == IF m >= n THEN m ELSE n
CoarseCost(obs, ref) ==
  LET n == Larger(Len(obs), Len(ref))
  IN [i \in 1 .. n |-> [j \in 1 .. n |->
       IF i <= Len(obs) /\ j <= Len(ref) THEN Sqr(obs[i] - ref[j]) ELSE Sqr(CoarseGate)]]
CoarsePairs(obs, ref) ==
  LET cost == Kept(CoarseCost(obs, ref))
      assign == Hungarian(cost)
  IN SelectSeq([i \in 1 .. Len(obs) |-> <<i, assign[i]>>],
               LAMBDA pair : pair[2] <= Len(ref) /\ cost[pair[1]][pair[2]] <= Sqr(CoarseGate))

Moved(obs, trans) == Kept([i \in DOMAIN obs |-> obs[i] + trans])
RECURSIVE Refine(_, _, _, _)
Refine(obs, ref, trans, iterations) ==
  LET pairs == CoarsePairs(Moved(obs, trans), ref)
      residuals == [k \in DOMAIN pairs |-> ref[pairs[k][2]] - obs[pairs[k][1]]]
  IN IF iterations = 0 \/ Len(pairs) < 2 \/ Mean(residuals) = trans THEN trans
     ELSE Refine(obs, ref, Mean(residuals), iterations - 1)

(* A slip: the pass is taken where it was measured.                            *)
BlindAlign_None(obs, ref) == 0
BlindAlign(obs, ref) == IF obs = <<>> \/ ref = <<>> THEN 0 ELSE Refine(obs, ref, 0, 8)

-------------------------------------------------------------------------------
(* ingest_pass.                                                             *)
Center(track) == Mean(track.centers)
Founds(o, at) == [kind |-> Kind[o], of |-> o, centers |-> <<at>>, hit |-> 1, missed |-> 0]
Hit(track, at) == [track EXCEPT !.centers = Append(@, at), !.hit = @ + 1]

BirthCost == Sqr(Gate) \div 2
(* A slip: a track that was out of view competes like any other.               *)
MissCost_Flat(verdict) == Sqr(Gate) \div 2
MissCost(verdict) ==
  CASE verdict = "observed" -> Sqr(Gate) \div 2
    [] verdict = "edge" -> Sqr(Gate) \div 4
    [] verdict = "unseen" -> 0

(* Rows: the tracklets, then the miss dummies; columns: the tracks, then the     *)
(* birth dummies.                                                          *)
Costs(seen, at, verdict) ==
  LET o == Len(seen)
      t == Len(tracks)
  IN [i \in 1 .. (o + t) |-> [j \in 1 .. (o + t) |->
       CASE i <= o /\ j <= t ->
              IF /\ Kind[seen[i]] = tracks[j].kind
                 /\ Sqr(at[i] - Center(tracks[j])) <= Sqr(Gate)
              THEN Sqr(at[i] - Center(tracks[j])) ELSE Big
         [] i <= o /\ j > t -> IF j = t + i THEN BirthCost ELSE Big
         [] i > o /\ j <= t -> IF j = i - o THEN MissCost(verdict[j]) ELSE Big
         [] i > o /\ j > t -> 0]]

RECURSIVE InOrder(_)
InOrder(S) ==
  IF S = {} THEN <<>>
  ELSE LET o == CHOOSE o \in S : \A q \in S : Spot[o] <= Spot[q] IN <<o>> \o InOrder(S \ {o})

Unmatched(assign, match) == DOMAIN tracks \ {assign[i] : i \in match}

Reference == [j \in DOMAIN tracks |-> Center(tracks[j])]
(* visibility(ne): whether this pass looked at a point of the map.                *)
Visibilities == [{Reference[j] : j \in DOMAIN tracks} -> Verdicts]
Observed(seen, shift) == [i \in DOMAIN seen |-> Spot[seen[i]] + shift]

IngestPass(seen, shift, visibility) ==
  \E verdict \in {[j \in DOMAIN tracks |-> visibility[Reference[j]]]} :
  \E trans \in {BlindAlign(Observed(seen, shift), Reference)} :
  \E at \in {Moved(Observed(seen, shift), trans)} :
  \E cost \in {Costs(seen, at, verdict)} : \E assign \in {Hungarian(cost)} :
    LET t == Len(tracks)
        match == {i \in DOMAIN seen : assign[i] <= t /\ cost[i][assign[i]] < Big}
        births == SelectSeq([i \in DOMAIN seen |-> i], LAMBDA i : i \notin match)
        taken == {assign[i] : i \in match}
        left == Unmatched(assign, match)
        unseen == {j \in DOMAIN tracks : verdict[j] = "unseen"}
    IN /\ tracks' = [j \in 1 .. t |->
            IF j \in taken THEN Hit(tracks[j], at[CHOOSE i \in match : assign[i] = j])
            ELSE [tracks[j] EXCEPT !.missed = IF j \in unseen THEN @ ELSE @ + 1]]
            \o [k \in DOMAIN births |-> Founds(seen[births[k]], at[births[k]])]
       /\ pass' = [seen |-> seen, shift |-> shift, verdict |-> verdict, known |-> t,
                   fits |-> [i \in DOMAIN seen |-> [j \in 1 .. t |-> cost[i][j]]],
                   matches |-> {<<assign[i], i>> : i \in match},
                   born |-> {births[k] : k \in DOMAIN births},
                   missed |-> left \ unseen, out_of_view |-> left \cap unseen]
       /\ passes' = passes + 1

Next ==
  /\ passes < MaxPasses
  /\ \E S \in SUBSET Objects, shift \in Shifts, visibility \in Visibilities :
       IngestPass(InOrder(S), shift, visibility)

-------------------------------------------------------------------------------
TypeOK ==
  /\ passes \in 0 .. MaxPasses
  /\ \A j \in DOMAIN tracks :
       /\ tracks[j].of \in Objects /\ tracks[j].kind = Kind[tracks[j].of]
       /\ tracks[j].hit = Len(tracks[j].centers) /\ tracks[j].hit + tracks[j].missed <= passes

(* Of a pass each tracklet ends in one match or one birth, each track it met in   *)
(* one match, one miss or out of view.                                        *)
OneToOne ==
  /\ \A i \in DOMAIN pass.seen :
       Cardinality({m \in pass.matches : m[2] = i}) + (IF i \in pass.born THEN 1 ELSE 0) = 1
  /\ \A j \in 1 .. pass.known :
       Cardinality({m \in pass.matches : m[1] = j})
         + Cardinality({S \in {pass.missed, pass.out_of_view} : j \in S}) = 1

(* A match costs no more than the birth and the miss it saves, and a birth is     *)
(* never dearer than the free track beside it: out of view a track gives way to   *)
(* all but a close fit, beside tracks in view that do not.                        *)
Apart(verdict) == Sqr(Gate) \div 2
  + (CASE verdict = "observed" -> Sqr(Gate) \div 2
       [] verdict = "edge" -> Sqr(Gate) \div 4 [] OTHER -> 0)
MatchIsWorthIt ==
  /\ \A m \in pass.matches : pass.fits[m[2]][m[1]] <= Apart(pass.verdict[m[1]])
  /\ \A i \in pass.born, j \in pass.missed \cup pass.out_of_view :
       pass.fits[i][j] >= Apart(pass.verdict[j])

(* Two known objects in a pass are enough: whatever its common error, all it sees *)
(* again goes to the tracks it founded, and nothing is born beside them.          *)
Known(seen) == \A i \in DOMAIN seen : \E j \in DOMAIN tracks : tracks[j].of = seen[i]
KnownAreRecognised ==
  [][Len(pass'.seen) >= 2 /\ Known(pass'.seen)
     => /\ pass'.born = {}
        /\ \A m \in pass'.matches : tracks[m[1]].of = pass'.seen[m[2]]]_passes
=============================================================================
