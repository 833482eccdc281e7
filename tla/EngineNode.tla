----------------------------- MODULE EngineNode -----------------------------
(***************************************************************************)
(* rim/engine_node.py: the survey mission as one ROS node.  It subclasses    *)
(* the controller (OffboardController.tla), owns a mission engine            *)
(* (MissionEngine.tla) from /begin_survey on, feeds it detections and        *)
(* positions, ticks it in the ACTIVE state only, delivers its dump and       *)
(* hands its landing over to PX4.  All callbacks run on one thread, so each  *)
(* is one action.                                                           *)
(*                                                                         *)
(* Abstractions.  Whether the tag anchor disagrees, and whether its          *)
(* correction has settled, is an input of the callback that asks.  Samples   *)
(* are on the commanded setpoint and at rest, except for the disturbed ones, *)
(* which draw on a budget.                                                   *)
(***************************************************************************)
EXTENDS OffboardController, MissionEngine

CONSTANTS
  NoEngine,       \* self.engine is None
  AnchorGuard,    \* anchor_aborts, or anchor_corrects with a saturated correction
  DumpReplies,    \* what _send_dump may come to: [ok, stalls]
  Spots,          \* positions of a disturbed sample
  MaxGusts,       \* bound on the disturbed samples of a behaviour
  MaxResets       \* bound on the frame resets of a behaviour

ASSUME NodeConstants ==
  /\ NoEngine \notin EngineState
  /\ AnchorGuard \in BOOLEAN
  /\ DumpReplies \subseteq [ok : BOOLEAN, stalls : BOOLEAN] /\ DumpReplies # {}
  /\ Spots \subseteq Spot /\ MaxGusts \in Nat /\ MaxResets \in Nat

VARIABLES
  engine,             \* self.engine
  begun,              \* _begun
  dumped,             \* _dumped
  land_requested,     \* _land_requested
  gusts, resets       \* how much of the bounds is used

rim == <<begun, dumped, land_requested>>
vars == <<controllerVars, engine, rim, gusts, resets>>

Init ==
  /\ ControllerInit
  /\ engine = NoEngine
  /\ begun = FALSE /\ dumped = FALSE /\ land_requested = FALSE
  /\ gusts = 0 /\ resets = 0

-----------------------------------------------------------------------------
(* The tick.                                                                *)

(* The vehicle is where the last setpoint sent it, hovering.  Horizontal     *)
(* validity was checked earlier in the same tick (TickActiveYields).         *)
OnTarget(e, elapsed) ==
  [spot |-> IF e.sp = NoSetpoint THEN Anchor ELSE e.sp.spot,
   level |-> IF e.sp # NoSetpoint /\ e.sp.level = "survey" THEN "survey" ELSE "pad",
   slow |-> TRUE, hvalid |-> TRUE, ready |-> TRUE, elapsed |-> elapsed,
   silent |-> FALSE, late |-> FALSE]

Disturbed ==
  [spot : Spots, level : {"survey", "pad"}, slow : BOOLEAN, hvalid : {TRUE},
   ready : BOOLEAN, elapsed : {FALSE}, silent : BOOLEAN, late : BOOLEAN]

(* compute_setpoint and _on_phase with one sample.                           *)
Flies(in) ==
  LET f == Tick(engine, in)
      dumps == f.phase = "DUMP" /\ ~dumped
      lands == f.phase \in {"LAND", "DONE"} /\ ~land_requested /\ in.hvalid
  IN  /\ in.level = "survey" => px4.airborne
      /\ IF dumps
         THEN \E reply \in DumpReplies :
                engine' = NotifyDumpResult(f, reply.ok) /\ stream' = ~reply.stalls
         ELSE engine' = f /\ Heartbeat
      /\ dumped' = (dumped \/ dumps)
      /\ land_requested' = (land_requested \/ lands)
      /\ abort_requested' = (abort_requested \/ lands)

FliesUndisturbed(elapsed) ==
  /\ AsksMission /\ engine # NoEngine
  /\ Flies(OnTarget(engine, elapsed))
  /\ UNCHANGED <<process, state, status, px4, gates, bounds, begun, gusts, resets>>

FliesDisturbed ==
  /\ AsksMission /\ engine # NoEngine /\ gusts < MaxGusts
  /\ \E in \in Disturbed : Flies(in)
  /\ gusts' = gusts + 1
  /\ UNCHANGED <<process, state, status, px4, gates, bounds, begun, resets>>

(* No engine yet: hold.                                                     *)
Waits ==
  /\ AsksMission /\ engine = NoEngine /\ Heartbeat
  /\ UNCHANGED <<process, state, abort_requested, status, px4, gates, bounds,
                 engine, rim, gusts, resets>>

rimUnchanged == UNCHANGED <<engine, rim, gusts, resets>>

(* The ticks the timer owes, and those that meet a gust or a lost estimate.  *)
CalmTick ==
  \/ Waits
  \/ \E elapsed \in BOOLEAN : FliesUndisturbed(elapsed)
  \/ ControllerTick /\ rimUnchanged

NodeTick ==
  \/ CalmTick
  \/ FliesDisturbed
  \/ TickActiveYields(FALSE) /\ rimUnchanged

-----------------------------------------------------------------------------
(* The callbacks.                                                           *)

(* A slip: a repeated /begin_survey starts over.                             *)
BeginCb_Again ==
  /\ Arrives("begin")
  /\ IF state # "active" THEN UNCHANGED <<engine, begun>>
     ELSE engine' = Start(NewEngine) /\ begun' = TRUE
  /\ UNCHANGED <<process, state, abort_requested, status, stream, px4, bounds,
                 dumped, land_requested, gusts, resets>>

BeginCb ==
  /\ Arrives("begin")
  /\ IF begun \/ state # "active" THEN UNCHANGED <<engine, begun>>
     ELSE engine' = Start(NewEngine) /\ begun' = TRUE
  /\ UNCHANGED <<process, state, abort_requested, status, stream, px4, bounds,
                 dumped, land_requested, gusts, resets>>

EndCb ==
  /\ EndArrives
  /\ engine' = IF home_requested \/ engine = NoEngine THEN engine ELSE Abort(engine)
  /\ UNCHANGED <<state, abort_requested, px4, rim, gusts, resets>>

(* _observe_anchor, after the log has taken the observation.                 *)
ObserveAnchor(e, disagrees) ==
  IF disagrees /\ AnchorGuard /\ e.phase \notin {"ABORT", "LAND", "DONE"}
  THEN Abort(e) ELSE e

DetectionsCb ==
  /\ alive /\ engine # NoEngine
  /\ LET seen == NoteDetectorAlive(engine)
     IN  \/ engine' = seen
         \/ \E c \in Clusters, tagged, enough, disagrees \in BOOLEAN :
              engine' = ObserveAnchor(Ingest(seen, c, tagged, enough), tagged /\ disagrees)
  /\ UNCHANGED <<controllerVars, rim, gusts, resets>>

(* _pos_cb; PX4 counts its resets from zero.                                 *)
PositionCb ==
  /\ alive /\ engine # NoEngine
  /\ \E n \in {0, 1} :
       /\ resets + n <= MaxResets
       /\ resets' = resets + n
       /\ engine' = NoteResetCounter(engine, (resets + n) % CounterMod)
  /\ UNCHANGED <<controllerVars, rim, gusts>>

Restart ==
  /\ NodeRestarts
  /\ engine' = NoEngine
  /\ begun' = FALSE /\ dumped' = FALSE /\ land_requested' = FALSE
  /\ UNCHANGED <<gusts, resets>>

Next ==
  \/ NodeTick
  \/ StartCb /\ rimUnchanged
  \/ AbortCb /\ rimUnchanged
  \/ BeginCb \/ EndCb \/ DetectionsCb \/ PositionCb
  \/ Restart
  \/ Environment /\ rimUnchanged

(* The timer fires, PX4 publishes its status and flies what it is sent, a    *)
(* running timer of the engine expires, a repeated NAV_LAND is accepted.     *)
Fairness ==
  /\ WF_vars(CalmTick)
  /\ WF_vars(StatusArrives /\ rimUnchanged)
  /\ WF_vars(Px4Climbs /\ rimUnchanged)
  /\ SF_vars(FliesUndisturbed(TRUE))
  /\ SF_vars(TickLandRequested /\ px4'.nav = "land" /\ rimUnchanged)

Spec == Init /\ [][Next]_vars
FairSpec == Spec /\ Fairness

-----------------------------------------------------------------------------
(* The node, its engine and the vehicle keep their types.                    *)
TypeOK ==
  /\ ControllerTypeOK
  /\ engine \in EngineState \cup {NoEngine}
  /\ begun \in BOOLEAN /\ dumped \in BOOLEAN /\ land_requested \in BOOLEAN
  /\ gusts \in 0 .. MaxGusts /\ resets \in 0 .. MaxResets

(* The node lands without an operator's abort only with the log delivered or *)
(* the survey given up, whatever else the callbacks do in between.           *)
LandsWhenDue ==
  abort_requested /\ "abort" \notin latched
    => engine # NoEngine /\ (engine.acked \/ engine.aborted)

(* The node keeps its types and lands when it is due.                          *)
NodeInv == TypeOK /\ LandsWhenDue

(* What is dumped is a whole survey, and it is dumped once.                  *)
DumpsAWholeSurvey ==
  [][dumped' /\ ~dumped =>
       IF Pattern = "serpentine" THEN engine'.covered = Lanes \X (0 .. Rows - 1)
       ELSE engine'.petal = Petals]_vars

(* Off the ACTIVE state the engine only hears: its phase moves to ABORT at    *)
(* most, and nothing is dumped or handed over behind PX4's back.             *)
FrozenOffActive ==
  [][alive /\ state # "active" /\ engine # NoEngine =>
       /\ engine'.phase \in {engine.phase, "ABORT"}
       /\ dumped' = dumped /\ land_requested' = land_requested]_vars

(* The node goes through the stages of the mission in their order, and only  *)
(* a restart begins them anew.                                              *)
Stage(e) ==
  CASE e.phase = "PREFLIGHT" -> "waiting"
    [] e.phase \in {"OFFBOARD_SYNC", "TAKEOFF", "LANE", "VERIFY_DIP"} -> "surveying"
    [] e.phase \in {"EGRESS", "ABORT"} -> "homing"
    [] e.phase = "DUMP" -> "delivering"
    [] e.phase = "SETTLE" -> "settling"
    [] e.phase = "LAND" -> "landing"
    [] e.phase = "DONE" -> "ended"

Lifecycle == INSTANCE MissionLifecycle
  WITH Restarts <- MaxRestarts > 0,
       stage <- IF engine = NoEngine THEN "waiting" ELSE Stage(engine),
       aborted <- engine # NoEngine /\ engine.aborted,
       delivered <- engine # NoEngine /\ engine.acked

ImplementsLifecycle == Lifecycle!Spec

(* The anchor guard aborts a survey that was not on its abort leg: it does so  *)
(* in every phase but ABORT, LAND and DONE, the settle over the pad included. *)
AnchorAborts == DetectionsCb /\ engine'.phase # engine.phase

(* A survey that begins comes to an accepted landing, a yield to PX4 or the    *)
(* end, unless the process dies: no phase, guard or gate leaves an armed       *)
(* vehicle hanging, but for a tag anchor that disagrees again and again: it    *)
(* takes the vehicle back from each settle (engine_node.py:495).             *)
SurveyEnds ==
  \/ []<><<AnchorAborts>>_vars
  \/ begun ~> state \in {"landing", "failsafe", "done"} \/ ~px4.armed \/ ~alive

(* test_mission.py, test_guard_abort_lands_without_dump: "The rim's guards    *)
(* (tag anchor, link health) reach the same exit", the landing.              *)
AbortedSurveyLands ==
  engine # NoEngine /\ engine.aborted ~> state # "active"

(* "OFFBOARD drops without an OffboardControlMode stream at >=2 Hz".  While   *)
(* the node flies an armed vehicle under OFFBOARD, PX4 misses the stream only   *)
(* from the tick that waits for the dump to be answered, of which a process    *)
(* has one, to the tick after it.                                           *)
Stale ==
  /\ alive /\ px4.armed /\ px4.nav = "offboard"
  /\ state \in {"engage", "active", "land_requested"}
  /\ ~stream

StreamsWhileOffboard ==
  [][Stale' => \/ dumped' /\ ~dumped
               \/ Stale /\ ~NodeTick]_vars

(* The hand-off to PX4 is never taken back by the process that made it,      *)
(* whatever the engine, the gates and late statuses ask for.                 *)
HandoffIsFinal ==
  [][alive /\ alive' =>
       /\ state = "land_requested" => state' \in {"land_requested", "landing", "done"}
       /\ state \in {"landing", "failsafe", "done"} => state' \in {state, "done"}]_vars

=============================================================================
