----------------------------- MODULE AnyMission -----------------------------
(***************************************************************************)
(* The controller under any mission that subclasses it: compute_setpoint     *)
(* may ask for a landing at any tick, and on_return_home does any of the     *)
(* things the class offers (controller.py, docstring and hooks).             *)
(***************************************************************************)
EXTENDS OffboardController

AnyTick ==
  /\ AsksMission /\ Heartbeat
  /\ abort_requested' \in BOOLEAN
  /\ UNCHANGED <<process, state, status, px4, gates, bounds>>

(* begin_return() from the states it accepts.                               *)
ReturnIfAllowed ==
  IF state \in {"returning", "land_requested", "landing", "done"}
  THEN UNCHANGED <<state, px4>>
  ELSE \E global, accepted \in BOOLEAN : BeginReturn(global, accepted)

(* /end_mission: on_return_home does nothing, request_land() or begin_return().  *)
AnyEndCb ==
  /\ EndArrives
  /\ \/ UNCHANGED <<state, abort_requested, px4>>
     \/ ~home_requested /\ abort_requested' = TRUE /\ UNCHANGED <<state, px4>>
     \/ ~home_requested /\ ReturnIfAllowed /\ UNCHANGED abort_requested

AnyNext ==
  \/ ControllerTick \/ AnyTick \/ TickActiveYields(FALSE)
  \/ StartCb \/ AbortCb \/ AnyEndCb \/ NodeRestarts \/ Environment

(* The timer fires, PX4 publishes its status, and a landing asked for again  *)
(* and again is accepted some day.                                          *)
AnyFairness ==
  /\ WF_controllerVars(ControllerTick)
  /\ WF_controllerVars(StatusArrives)
  /\ SF_controllerVars(TickLandRequested /\ px4'.nav = "land")

AnySpec == ControllerInit /\ [][AnyNext]_controllerVars
FairAnySpec == AnySpec /\ AnyFairness

-----------------------------------------------------------------------------
(* A latched abort brings every flying state to a landing PX4 has accepted   *)
(* or to the end, rejected NAV_LANDs, pilot and failsafe in between, unless   *)
(* the process dies.                                                        *)
AbortLands ==
  (/\ alive /\ abort_requested
   /\ state \in {"engage", "active", "returning", "land_requested"})
  ~> state \in {"landing", "done"} \/ ~alive

(* controller.py:743, "A fresh process and operator start are required after *)
(* any in-flight estimator or mode failure".                                *)
FliesOnOperatorStart ==
  alive /\ state \in {"engage", "active"} /\ px4.airborne => operator_start

=============================================================================
