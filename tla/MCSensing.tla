------------------------------- MODULE MCSensing -------------------------------
(***************************************************************************)
(* What a drone senses and what is made of it.  Each behaviour runs one part:    *)
(* the pool the frames travel in (FramePool), the tags that measure the drift of   *)
(* the local frame (TagAnchor) or give PX4 its position (TagEv), the log of what    *)
(* lies on the ground (GroundLog), the association of one pass with the map        *)
(* (Association), or the way through the mines (Pathfinder); the others rest.     *)
(***************************************************************************)
EXTENDS FramePool, TLC

VARIABLES
  part,
  corrects, offset, poses, refs, fixes, breach, correction, engine, moved,    \* TagAnchor
  now, view, clusters, visits, dip, payload, frames, hits,                  \* GroundLog
  tracks, pass, passes,                                                 \* Association
  matrix, assigned,                                                    \* Assignment
  at, armed, armed_since, registration, references, ev, shot, pictures, moves,  \* TagEv
  stage, mines, clearance, cells, G, camefrom, best                      \* Pathfinder

anchorVars == <<corrects, offset, poses, refs, fixes, breach, correction, engine, moved>>
groundVars == <<now, view, clusters, visits, dip, payload, frames, hits>>
assocVars == <<tracks, pass, passes>>
matrixVars == <<matrix, assigned>>
evVars == <<at, armed, armed_since, registration, references, ev, shot, pictures, moves>>
pathVars == <<stage, mines, clearance, cells, G, camefrom, best>>

MCShifts == {-5, 0, 3}
MCErrors == {-1, 1}

Anchor == INSTANCE TagAnchor WITH
  Tags <- {"t6", "t7"}, TagAt <- [t6 |-> 0, t7 |-> 8], SettleObs <- 2, SettleSpread <- 1,
  Gate <- 2, PairError <- 1, MaxCorrection <- 6, Step <- 2, AnchorResets <- {12}, Drifts <- {4},
  MaxFixes <- 2, MaxPoses <- 2, MaxMoves <- 2

Ground == INSTANCE GroundLog WITH
  Mines <- {1, 6}, Tagged <- {6}, Cells <- {0, 1}, CellSize <- 4, Errors <- MCErrors,
  Confidences <- {1}, GateM <- 2, RevisitGap <- 1, ConfirmObs <- 2, ConfirmPasses <- 2,
  MaxTime <- 4, MaxHits <- 3

(* Two mines and between their tracks and the next a tag of another class.      *)
Map == INSTANCE Association WITH
  Objects <- {"a", "b", "c"}, Spot <- [a |-> 0, b |-> 20, c |-> 24],
  Kind <- [a |-> "mine", b |-> "mine", c |-> "tag"],
  Shifts <- MCShifts, Gate <- 4, CoarseGate <- 12, MaxPasses <- 2

(* The matrices of three rows, the first in order.                             *)
Matrices == {c \in [1 .. 3 -> [1 .. 3 -> {0, 1, 3}]] : c[1][1] <= c[1][2] /\ c[1][2] <= c[1][3]}
Assign == INSTANCE Assignment

Bridge == INSTANCE TagEv WITH
  Tags <- {6, 7}, TagAt <- [t \in {6, 7} |-> IF t = 6 THEN 2 ELSE 7], Samples <- 3,
  Scatter <- 2, Disagree <- 1, Timeout <- 1, PublishEv <- TRUE, Stride <- 1,
  Noise <- MCErrors, Places <- {0, 4}, MaxPictures <- 6, MaxMoves <- 2

(* A field of five by four cells with up to two mines, some off the field, and     *)
(* three with walls: closed, with a gap, and with a step.                        *)
MCSpots == {<<x, y>> : x \in {1, 3, 5, 7, 9}, y \in {1, 3, 5}} \cup {<<-3, 2>>, <<13, 9>>}
MCSurveys ==
  {{m, n} : m \in MCSpots, n \in MCSpots}
    \cup {{}, {<<1, 3>>, <<3, 3>>, <<5, 3>>, <<7, 3>>, <<9, 3>>},
          {<<1, 3>>, <<3, 3>>, <<7, 3>>, <<9, 3>>}, {<<1, 1>>, <<3, 1>>, <<5, 3>>, <<7, 3>>}}
Field == INSTANCE Pathfinder WITH
  Cols <- 5, Rows <- 4, CellSize <- 2, Surveys <- MCSurveys, queue <- cells

-------------------------------------------------------------------------------
(* The parts that do not run stay as they begin.                              *)
MCInit ==
  /\ part \in {"pool", "anchor", "ground", "map", "matrix", "ev", "field"}
  /\ Init /\ Anchor!Init /\ Ground!Init /\ Map!Init /\ Bridge!Init
  /\ IF part = "field" THEN Field!Init
     ELSE /\ stage = "done" /\ mines = {} /\ clearance = <<>> /\ cells = <<>>
          /\ G = 0 /\ camefrom = <<>> /\ best = Field!NoPath
  /\ part # "anchor" => corrects
  /\ assigned = <<>>
  /\ IF part = "matrix" THEN matrix \in Matrices ELSE matrix = <<>>

others == <<anchorVars, groundVars, assocVars, matrixVars, evVars, pathVars>>
Alone(name, rest) == part = name /\ UNCHANGED <<part, rest>>
MCNext ==
  \/ Alone("pool", others) /\ Next
  \/ Alone("anchor", <<vars, groundVars, assocVars, matrixVars, evVars, pathVars>>) /\ Anchor!Next
  \/ Alone("ground", <<vars, anchorVars, assocVars, matrixVars, evVars, pathVars>>) /\ Ground!Next
  \/ Alone("map", <<vars, anchorVars, groundVars, matrixVars, evVars, pathVars>>) /\ Map!Next
  \/ /\ Alone("matrix", <<vars, anchorVars, groundVars, assocVars, matrix, evVars, pathVars>>)
     /\ assigned = <<>> /\ assigned' = Assign!Hungarian(matrix)
  \/ Alone("ev", <<vars, anchorVars, groundVars, assocVars, matrixVars, pathVars>>) /\ Bridge!Next
  \/ Alone("field", <<vars, anchorVars, groundVars, assocVars, matrixVars, evVars>>) /\ Field!Next

MCSpec == MCInit /\ [][MCNext]_<<part, vars, others>>

-------------------------------------------------------------------------------
(* The drift that is measured is one there was, whatever was reset, and a survey  *)
(* is aborted for a drift only, under correction a great one (TagAnchor); the     *)
(* tags agree on the pad and a position reported is that of the drone (TagEv).    *)
TagsInv ==
  /\ part = "anchor" => Anchor!TypeOK /\ Anchor!MeasuresDriftOnly /\ Anchor!AbortNeedsDrift
  /\ part = "ev" => Bridge!TypeOK /\ Bridge!TagsAgree /\ Bridge!FixIsTrue
(* The correction keeps what it was told, within its limit (TagAnchor), and what    *)
(* PX4 is sent does not jump when the tags take over (TagEv).                   *)
TagsHoldStill == Anchor!CorrectionIsKept /\ Bridge!HandoffIsSmall

(* What is made of the frames.  One cluster for each mine, with a pass for every     *)
(* visit the ledger holds apart and a fix of each in the payload; the verdicts of the  *)
(* ledger are true of the frames (GroundLog).  Of a pass every tracklet and track is   *)
(* accounted for once, and no match, birth or miss is one the costs do not ask for      *)
(* (Association): the matching costs no more than any other (Assignment).  The        *)
(* clearance is the distance to the nearest mine, and the corridor handed in is clear,   *)
(* whole and of the best score there is (Pathfinder).                            *)
MapInv ==
  /\ part = "ground" => /\ Ground!TypeOK /\ Ground!OneClusterPerMine
                        /\ Ground!EveryVisitIsAPass /\ Ground!PayloadIsWhole
                        /\ Ground!VerdictIsTrue
  /\ part = "map" => Map!TypeOK /\ Map!OneToOne /\ Map!MatchIsWorthIt
  /\ part = "matrix" /\ assigned # <<>> => Assign!IsCheapest(matrix, assigned)
  /\ part = "field" => /\ Field!TypeOK /\ Field!ClearanceIsDistance
                       /\ Field!CorridorIsClear /\ Field!BestIsBest
(* Known objects are recognised under a common error.                           *)
KnownAreRecognised == Map!KnownAreRecognised

=============================================================================
