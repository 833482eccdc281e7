---------------------------- MODULE MissionEngine ----------------------------
(***************************************************************************)
(* The pure mission sequencer of core/mission.py: one MissionEngine object  *)
(* is a record, every method is an operator from the record before the call *)
(* to the record after it.  Who calls the methods, and when, is the         *)
(* business of the modules that extend this one: MissionCore (any rim) and  *)
(* EngineNode (the ROS rim of this repository).                             *)
(*                                                                         *)
(* Abstractions.  A horizontal position is a point of an integer grid whose *)
(* unit is larger than reach_tol_m, so "reached" is equality; altitude is   *)
(* the pad or the survey altitude.  A timer is the fact that it runs; the   *)
(* sample of a tick says whether the running timers have expired.           *)
(***************************************************************************)
EXTENDS Integers, FiniteSets

CONSTANTS
  Pattern,           \* cfg.pattern: "serpentine" or "center_return_rosette"
  NLanes, Rows,      \* lanes, and their length in grid steps
  Petals,            \* cfg.rosette_petals
  Clusters,          \* ids of the clusters the log may found, in founding order
  ClusterSpot,       \* where each of them lies
  Anchor,            \* cfg.egress_ne: the spot frozen by /begin_survey
  MaxDips,           \* cfg.max_dips
  FieldPolygon,      \* spots inside fence_polygon_ne; {} when not configured
  FenceRadius,       \* cfg.fence_radius_m in grid steps; 0 disables
  TimeoutOn,         \* cfg.mission_timeout_s > 0
  SilenceOn,         \* cfg.detector_silence_s > 0
  ResetStormCount,   \* cfg.reset_storm_count
  CounterMod,        \* PX4's xy_reset_counter counts modulo this (256)
  DumpRetryLimit,    \* cfg.dump_retry_limit
  NoSpot, NoCluster, NoSetpoint, NoCounter   \* Python's None

Spot == Int \X Int
Lanes == 0 .. NLanes - 1
Levels == {"hold", "survey", "pad"}     \* altitude of a setpoint

Setpoint == [spot : Spot, level : Levels]

ASSUME EngineConstants ==
  /\ Pattern \in {"serpentine", "center_return_rosette"}
  /\ NLanes \in Nat \ {0} /\ Rows \in Nat \ {0}
  /\ Petals \in 1 .. 8
  /\ Clusters \subseteq Nat
  /\ ClusterSpot \in [Clusters -> Spot]
  /\ Anchor \in Spot
  /\ MaxDips \in Nat
  /\ FieldPolygon \subseteq Spot
  /\ FenceRadius \in Nat
  /\ TimeoutOn \in BOOLEAN /\ SilenceOn \in BOOLEAN
  /\ ResetStormCount \in Nat \ {0}
  /\ CounterMod \in Nat \ {0}
  /\ DumpRetryLimit \in Nat \ {0}
  /\ NoSpot \notin Spot /\ NoCluster \notin Clusters /\ NoSetpoint \notin Setpoint

Phases == {"PREFLIGHT", "OFFBOARD_SYNC", "TAKEOFF", "LANE", "VERIFY_DIP",
           "EGRESS", "SETTLE", "DUMP", "LAND", "ABORT", "DONE"}
Statuses == {"absent", "candidate", "confirmed", "dipped", "verified"}
PetalStages == {"center", "outbound", "outer_hold", "inbound"}

(* The flight sample a tick is given: pos, vel, the two validity flags, and *)
(* how the clock stands against the running timers and the guards' limits.  *)
Sample == [spot : Spot, level : {"survey", "pad"}, slow : BOOLEAN,
           hvalid : BOOLEAN, ready : BOOLEAN, elapsed : BOOLEAN,
           silent : BOOLEAN, late : BOOLEAN]

EngineState ==
  [phase : Phases,
   aborted : BOOLEAN,                       \* abort_reason is not None
   home : Spot \cup {NoSpot},               \* _home_ne (set with _sync_t0)
   took_off : BOOLEAN,                      \* t_takeoff is not None
   lane : Lanes, along : 0 .. Rows,         \* _lane_i, _lane_s
   entered : BOOLEAN,                       \* _lane_entered
   covered : SUBSET (Lanes \X (0 .. Rows - 1)), \* unit steps in `covered`
   log : [Clusters -> Statuses],            \* status of every cluster of the log
   target : Clusters \cup {NoCluster},      \* _dip_target
   dip_t0 : BOOLEAN, dips : Nat,
   petal : Nat, stage : PetalStages, petal_t0 : BOOLEAN,
   settle_t0 : BOOLEAN, settle_next : {"DUMP", "LAND"}, settle_strict : BOOLEAN,
   engaged : BOOLEAN,                       \* _polygon_fence_engaged
   resets : Nat, counter : (0 .. CounterMod - 1) \cup {NoCounter},
   detector_seen : BOOLEAN,                 \* _last_detector_t is not None
   attempts : Nat, acked : BOOLEAN,
   sp : Setpoint \cup {NoSetpoint}]         \* what the last tick returned

NewEngine ==
  [phase |-> "PREFLIGHT", aborted |-> FALSE, home |-> NoSpot, took_off |-> FALSE,
   lane |-> 0, along |-> 0, entered |-> FALSE, covered |-> {},
   log |-> [c \in Clusters |-> "absent"],
   target |-> NoCluster, dip_t0 |-> FALSE, dips |-> 0,
   petal |-> 0, stage |-> "center", petal_t0 |-> FALSE,
   settle_t0 |-> FALSE, settle_next |-> "DUMP", settle_strict |-> FALSE,
   engaged |-> FALSE, resets |-> 0, counter |-> NoCounter,
   detector_seen |-> FALSE, attempts |-> 0, acked |-> FALSE,
   sp |-> NoSetpoint]

-----------------------------------------------------------------------------
(* Geometry on the grid.                                                    *)

Clamp(s) == IF s < 0 THEN 0 ELSE IF s > Rows THEN Rows ELSE s
AbsDiff(a, b) == IF a < b THEN b - a ELSE a - b

(* Boustrophedon lanes: lane i lies in column i, odd lanes run back.        *)
PointAt(i, s) == <<IF i % 2 = 0 THEN s ELSE Rows - s, i>>
AlongLane(i, spot) == Clamp(IF i % 2 = 0 THEN spot[1] ELSE Rows - spot[1])

(* The eight 45 degree headings are the unit circle of the grid.            *)
HeadingStep(k) ==
  <<IF k \in {7, 0, 1} THEN 1 ELSE IF k \in {3, 4, 5} THEN -1 ELSE 0,
    IF k \in {1, 2, 3} THEN 1 ELSE IF k \in {5, 6, 7} THEN -1 ELSE 0>>
Outer(e) == <<e.home[1] + HeadingStep(e.petal)[1],
              e.home[2] + HeadingStep(e.petal)[2]>>

Reached(in, spot, level) == in.spot = spot /\ in.level = level

Egress(e) == IF Pattern = "center_return_rosette" /\ e.home # NoSpot
             THEN e.home ELSE Anchor

(* point_in_polygon, of the inset perimeter.                                *)
Inside(spot) == spot \in FieldPolygon

(* _fence_violation: the polygon is authoritative, the radius otherwise.     *)
(* The distance on the grid is the larger of the two differences, by which   *)
(* the eight outer points of a rosette are equally far from its center.      *)
OutsideFence(e, spot) ==
  IF FieldPolygon # {} THEN ~Inside(spot)
  ELSE /\ FenceRadius > 0 /\ e.home # NoSpot
       /\ \/ AbsDiff(spot[1], e.home[1]) > FenceRadius
          \/ AbsDiff(spot[2], e.home[2]) > FenceRadius

-----------------------------------------------------------------------------
(* Inputs.                                                                  *)

Start(e) == IF e.phase = "PREFLIGHT" THEN [e EXCEPT !.phase = "OFFBOARD_SYNC"] ELSE e

Abort(e) == IF e.phase \in {"ABORT", "DONE"} THEN e
            ELSE [e EXCEPT !.phase = "ABORT", !.aborted = TRUE]

NoteDetectorAlive(e) == [e EXCEPT !.detector_seen = TRUE]

(* abs() of the difference of two modular counters, as the code computes it *)
NoteResetCounter(e, c) ==
  [e EXCEPT !.counter = c,
            !.resets = IF e.counter = NoCounter THEN @ ELSE @ + AbsDiff(c, e.counter)]

NotifyDumpResult(e, ok) ==
  IF e.phase # "DUMP" THEN e
  ELSE IF ok THEN [e EXCEPT !.acked = TRUE]
  ELSE LET f == [e EXCEPT !.attempts = @ + 1]
       IN  IF f.attempts >= DumpRetryLimit THEN Abort(f) ELSE f

(* MineLog.ingest as far as the dip policy can tell: a first sighting founds *)
(* the cluster, a tag verifies it, enough observations over enough passes    *)
(* confirm a candidate; the input says whether they are.                     *)
Ingest(e, c, tagged, enough) ==
  [e EXCEPT !.log[c] = CASE tagged -> "verified"
                         [] ~tagged /\ @ = "absent" -> "candidate"
                         [] ~tagged /\ @ = "candidate" /\ enough -> "confirmed"
                         [] OTHER -> @]

(* Oldest confirmed cluster of the log.                                     *)
Confirmed(e) == {c \in Clusters : e.log[c] = "confirmed"}
NextDipTarget(e) == CHOOSE c \in Confirmed(e) : \A d \in Confirmed(e) : c <= d

-----------------------------------------------------------------------------
(* Tick: the abort guards, then the handler of the phase, then the command  *)
(* fence, which aborts and flies the first step of the way home at once.    *)

SurveyPhases == {"TAKEOFF", "LANE", "VERIFY_DIP"}
UnguardedPhases == {"PREFLIGHT", "OFFBOARD_SYNC", "ABORT", "SETTLE", "DUMP", "LAND", "DONE"}

GuardTrips(e, in) ==
  \/ e.phase \in SurveyPhases /\ SilenceOn /\ e.detector_seen /\ in.silent
  \/ e.resets >= ResetStormCount
  \/ TimeoutOn /\ e.took_off /\ in.late

EstimateViolation(e, in) ==
  /\ FieldPolygon # {} => e.phase \in {"LANE", "VERIFY_DIP"} /\ e.engaged
  /\ OutsideFence(e, in.spot)

EntersPolygon(e, in) ==
  FieldPolygon # {} /\ e.phase \in {"LANE", "VERIFY_DIP"} /\ Inside(in.spot)

CheckAborts(e, in) ==
  IF e.phase \in UnguardedPhases THEN e
  ELSE IF GuardTrips(e, in) THEN Abort(e)
  ELSE IF EntersPolygon(e, in) THEN [e EXCEPT !.engaged = TRUE]
  ELSE IF EstimateViolation(e, in) THEN Abort(e) ELSE e

Fly(e, spot) == [e EXCEPT !.sp = [spot |-> spot, level |-> "survey"]]

SyncTick(e, in) ==
  LET home == IF e.home = NoSpot THEN in.spot ELSE e.home
      done == e.home # NoSpot /\ in.elapsed
  IN  [e EXCEPT !.home = home,
                !.phase = IF done THEN "TAKEOFF" ELSE @,
                !.took_off = @ \/ done,
                !.sp = [spot |-> home, level |-> "hold"]]

(* Enter the lane: be stopped at the recorded progress point first.         *)
AtEntry(e, in) ==
  e.entered \/ (Reached(in, PointAt(e.lane, e.along), "survey") /\ in.slow)

BeginDip(e) ==
  Fly([e EXCEPT !.target = NextDipTarget(e), !.dip_t0 = FALSE, !.phase = "VERIFY_DIP",
                !.entered = TRUE],
      PointAt(e.lane, e.along))

(* Progress along the lane never goes back; what it passes is covered.      *)
Advance(e, in) ==
  LET s == AlongLane(e.lane, in.spot)
  IN  [e EXCEPT !.entered = TRUE,
                !.along = IF s > @ THEN s ELSE @,
                !.covered = @ \cup {<<e.lane, k>> : k \in e.along .. s - 1}]

(* Slips of FinishLane: a lane too few, progress carried over.                *)
FinishLane_EndsEarly(e) ==
  LET f == [e EXCEPT !.covered = @ \cup {<<e.lane, k>> : k \in e.along .. Rows - 1}]
  IN  IF e.lane + 2 < NLanes
      THEN Fly([f EXCEPT !.lane = @ + 1, !.along = 0, !.entered = FALSE],
               PointAt(e.lane + 1, 0))
      ELSE Fly([f EXCEPT !.phase = "EGRESS"], PointAt(e.lane, Rows))
FinishLane_KeepsProgress(e) ==
  LET f == [e EXCEPT !.covered = @ \cup {<<e.lane, k>> : k \in e.along .. Rows - 1}]
  IN  IF e.lane + 1 < NLanes
      THEN Fly([f EXCEPT !.lane = @ + 1, !.entered = FALSE], PointAt(e.lane + 1, 0))
      ELSE Fly([f EXCEPT !.phase = "EGRESS"], PointAt(e.lane, Rows))

FinishLane(e) ==
  LET f == [e EXCEPT !.covered = @ \cup {<<e.lane, k>> : k \in e.along .. Rows - 1}]
  IN  IF e.lane + 1 < NLanes
      THEN Fly([f EXCEPT !.lane = @ + 1, !.along = 0, !.entered = FALSE],
               PointAt(e.lane + 1, 0))
      ELSE Fly([f EXCEPT !.phase = "EGRESS"], PointAt(e.lane, Rows))

LaneTick(e, in) ==
  IF ~AtEntry(e, in) THEN Fly(e, PointAt(e.lane, e.along))
  ELSE IF e.dips < MaxDips /\ Confirmed(e) # {} THEN BeginDip(e)
  ELSE IF Reached(in, PointAt(e.lane, Rows), "survey") /\ in.slow
       THEN FinishLane(Advance(e, in))
       ELSE Fly(Advance(e, in), PointAt(e.lane, Rows))

(* A slip: the dipped cluster stays confirmed.                               *)
DipTick_Forgets(e, in) ==
  LET spot == ClusterSpot[e.target]
      over == Reached(in, spot, "survey")
      f == Fly([e EXCEPT !.dip_t0 = @ \/ over], spot)
  IN  IF over /\ e.dip_t0 /\ in.elapsed
      THEN [f EXCEPT !.dips = @ + 1, !.target = NoCluster, !.entered = FALSE,
                     !.phase = "LANE"]
      ELSE f

DipTick(e, in) ==
  LET spot == ClusterSpot[e.target]
      over == Reached(in, spot, "survey")
      f == Fly([e EXCEPT !.dip_t0 = @ \/ over], spot)
  IN  IF over /\ e.dip_t0 /\ in.elapsed
      THEN [f EXCEPT !.log[e.target] = "dipped", !.dips = @ + 1, !.target = NoCluster,
                     !.entered = FALSE, !.phase = "LANE"]
      ELSE f

(* A slip: one petal short.                                                 *)
CenterTick_OnePetalShort(e, in) ==
  LET stable == in.hvalid /\ in.ready /\ Reached(in, e.home, "survey") /\ in.slow
      held == stable /\ e.petal_t0 /\ in.elapsed
  IN  Fly([e EXCEPT !.petal_t0 = stable /\ ~held,
                    !.phase = IF held /\ e.petal + 1 >= Petals THEN "DUMP" ELSE @,
                    !.stage = IF held /\ e.petal + 1 < Petals THEN "outbound" ELSE @],
          e.home)

CenterTick(e, in) ==
  LET stable == in.hvalid /\ in.ready /\ Reached(in, e.home, "survey") /\ in.slow
      held == stable /\ e.petal_t0 /\ in.elapsed
  IN  Fly([e EXCEPT !.petal_t0 = stable /\ ~held,
                    !.phase = IF held /\ e.petal >= Petals THEN "DUMP" ELSE @,
                    !.stage = IF held /\ e.petal < Petals THEN "outbound" ELSE @],
          e.home)

OutboundTick(e, in) ==
  Fly(IF Reached(in, Outer(e), "survey")
      THEN [e EXCEPT !.stage = "outer_hold", !.petal_t0 = FALSE] ELSE e,
      Outer(e))

OuterHoldTick(e, in) ==
  LET stable == Reached(in, Outer(e), "survey") /\ in.slow
      held == stable /\ e.petal_t0 /\ in.elapsed
  IN  Fly([e EXCEPT !.petal_t0 = stable /\ ~held,
                    !.stage = IF held THEN "inbound" ELSE @],
          Outer(e))

InboundTick(e, in) ==
  Fly(IF Reached(in, e.home, "survey")
      THEN [e EXCEPT !.petal = @ + 1, !.stage = "center", !.petal_t0 = FALSE] ELSE e,
      e.home)

RosetteTick(e, in) ==
  CASE e.stage = "center" -> CenterTick(e, in)
    [] e.stage = "outbound" -> OutboundTick(e, in)
    [] e.stage = "outer_hold" -> OuterHoldTick(e, in)
    [] e.stage = "inbound" -> InboundTick(e, in)

SurveyTick(e, in) ==
  IF Pattern = "center_return_rosette" THEN RosetteTick(e, in) ELSE LaneTick(e, in)

TakeoffTick(e, in) ==
  IF Reached(in, e.home, "survey") THEN SurveyTick([e EXCEPT !.phase = "LANE"], in)
  ELSE Fly(e, e.home)

BeginSettle(e, next, strict) ==
  [e EXCEPT !.phase = "SETTLE", !.settle_t0 = FALSE, !.settle_next = next,
            !.settle_strict = strict]

(* A slip: an aborted survey is delivered too.                               *)
ReturnTick_Delivers(e, in) ==
  Fly(IF ~Reached(in, Egress(e), "survey") THEN e
      ELSE [e EXCEPT !.phase = "DUMP"],
      Egress(e))

(* EGRESS and ABORT fly the same leg; only EGRESS goes on to deliver.       *)
ReturnTick(e, in) ==
  Fly(IF ~Reached(in, Egress(e), "survey") THEN e
      ELSE IF e.phase = "EGRESS" THEN [e EXCEPT !.phase = "DUMP"]
      ELSE BeginSettle(e, "LAND", FALSE),
      Egress(e))

(* Slips of SettleTick: motion does not restart the hold; the hold is never   *)
(* started.                                                                 *)
SettleTick_Sticky(e, in) ==
  LET steady == /\ in.hvalid /\ in.slow
                /\ Reached(in, Egress(e), "survey")
                /\ in.ready \/ ~e.settle_strict
  IN  Fly([e EXCEPT !.settle_t0 = @ \/ steady,
                    !.phase = IF steady /\ e.settle_t0 /\ in.elapsed
                              THEN e.settle_next ELSE @],
          Egress(e))
SettleTick_Unstarted(e, in) ==
  LET steady == in.hvalid /\ in.slow /\ Reached(in, Egress(e), "survey")
  IN  Fly([e EXCEPT !.phase = IF steady /\ e.settle_t0 /\ in.elapsed
                              THEN e.settle_next ELSE @],
          Egress(e))

SettleTick(e, in) ==
  LET steady == /\ in.hvalid /\ in.slow
                /\ Reached(in, Egress(e), "survey")
                /\ in.ready \/ ~e.settle_strict
  IN  Fly([e EXCEPT !.settle_t0 = steady,
                    !.phase = IF steady /\ e.settle_t0 /\ in.elapsed
                              THEN e.settle_next ELSE @],
          Egress(e))

(* A slip: home before the log is acknowledged.                              *)
DumpTick_Unacked(e) == Fly(BeginSettle(e, "LAND", TRUE), Egress(e))

DumpTick(e) == Fly(IF e.acked THEN BeginSettle(e, "LAND", TRUE) ELSE e, Egress(e))

LandTick(e, in) ==
  IF Reached(in, Egress(e), "pad")
  THEN [e EXCEPT !.phase = "DONE", !.sp = NoSetpoint]
  ELSE [e EXCEPT !.sp = [spot |-> Egress(e), level |-> "pad"]]

PhaseTick(e, in) ==
  CASE e.phase \in {"PREFLIGHT", "DONE"} -> [e EXCEPT !.sp = NoSetpoint]
    [] e.phase = "OFFBOARD_SYNC" -> SyncTick(e, in)
    [] e.phase = "TAKEOFF" -> TakeoffTick(e, in)
    [] e.phase = "LANE" -> SurveyTick(e, in)
    [] e.phase = "VERIFY_DIP" -> DipTick(e, in)
    [] e.phase \in {"EGRESS", "ABORT"} -> ReturnTick(e, in)
    [] e.phase = "SETTLE" -> SettleTick(e, in)
    [] e.phase = "DUMP" -> DumpTick(e)
    [] e.phase = "LAND" -> LandTick(e, in)

(* A slip: the fence forgets the dips.                                       *)
CommandFenced_NotDips(e) ==
  e.phase \in (IF FieldPolygon # {} THEN {"LANE"} ELSE {"TAKEOFF", "LANE"})

CommandFenced(e) ==
  e.phase \in (IF FieldPolygon # {} THEN {"LANE", "VERIFY_DIP"} ELSE SurveyPhases)

CommandViolation(e) ==
  e.sp # NoSetpoint /\ CommandFenced(e) /\ OutsideFence(e, e.sp.spot)

Tick(e, in) ==
  LET f == PhaseTick(CheckAborts(e, in), in)
  IN  IF CommandViolation(f) THEN PhaseTick(Abort(f), in) ELSE f

=============================================================================
