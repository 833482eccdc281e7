-------------------------- MODULE OffboardController --------------------------
(***************************************************************************)
(* px4_offboard/controller.py: the offboard handshake, the operator gates    *)
(* and the hand-off to PX4, as the handlers of one single-threaded ROS node; *)
(* and the autopilot as far as this node can tell (external).  The missions  *)
(* that subclass the controller compose these handlers with their hooks:     *)
(* AnyMission.tla for the class as written, EngineNode.tla for the survey.   *)
(*                                                                         *)
(* What the node knows of PX4 is `status`, the last VehicleStatus it has     *)
(* heard; `px4` is what is true.  A command takes effect at once or, when    *)
(* PX4 rejects or loses it, not at all.                                     *)
(***************************************************************************)
EXTENDS Naturals

CONSTANTS
  MaxUpsets,     \* bound on pilot takeovers and PX4 failsafes of a behaviour
  MaxRestarts    \* bound on exits of the node that are followed by a restart

ASSUME ControllerConstants == MaxUpsets \in Nat /\ MaxRestarts \in Nat

VARIABLES
  alive,             \* the process runs
  state,             \* OffboardController.state
  start_ok, abort_requested, home_requested,     \* the latched gates
  datum,             \* _launch_reference_latched
  status,            \* nav_state, arm_state and failsafe as last heard
  stream,            \* the OffboardControlMode stream PX4 sees is fresh
  px4,               \* the autopilot and the vehicle
  latched,           \* gates whose last message a publisher still holds
  pending,           \* of those, the ones DDS has yet to replay to this process
  upsets, restarts,  \* how much of the bounds is used
  (* history, for the properties only *)
  operator_start     \* the operator has published /start_mission to this process

process == <<alive, start_ok, home_requested, datum, operator_start>>
gates == <<latched, pending>>
bounds == <<upsets, restarts>>
controllerVars == <<process, state, abort_requested, status, stream, px4, gates, bounds>>

States == {"wait_link", "wait_start", "prestream", "engage", "active", "returning",
           "land_requested", "landing", "failsafe", "done"}
(* TAKEOFF is left out: no assignment of the code enters it.                 *)
Modes == {"other", "offboard", "land", "rtl"}
Gates == {"start", "begin", "end", "abort"}

NothingHeard == [nav |-> "none", armed |-> FALSE, failsafe |-> FALSE]
Vehicle == [nav : Modes, armed : BOOLEAN, failsafe : BOOLEAN, airborne : BOOLEAN]

ControllerTypeOK ==
  /\ alive \in BOOLEAN
  /\ state \in States
  /\ start_ok \in BOOLEAN /\ abort_requested \in BOOLEAN /\ home_requested \in BOOLEAN
  /\ datum \in BOOLEAN
  /\ status \in [nav : Modes \cup {"none"}, armed : BOOLEAN, failsafe : BOOLEAN]
  /\ stream \in BOOLEAN
  /\ px4 \in Vehicle
  /\ latched \subseteq Gates /\ pending \subseteq Gates
  /\ upsets \in 0 .. MaxUpsets /\ restarts \in 0 .. MaxRestarts
  /\ operator_start \in BOOLEAN

(* A fresh process: __init__ with wait_for_start.                            *)
ControllerInit ==
  /\ alive = TRUE /\ state = "wait_link"
  /\ start_ok = FALSE /\ abort_requested = FALSE /\ home_requested = FALSE
  /\ datum = FALSE /\ status = NothingHeard /\ stream = FALSE
  /\ operator_start = FALSE
  /\ px4 = [nav |-> "other", armed |-> FALSE, failsafe |-> FALSE, airborne |-> FALSE]
  /\ latched = {} /\ pending = {}
  /\ upsets = 0 /\ restarts = 0

-----------------------------------------------------------------------------
(* The tick, one operator per state.  Every tick first publishes the         *)
(* heartbeat in the states that stream.                                     *)

(* A slip: no stream while NAV_LAND waits to be accepted.                    *)
Heartbeat_UntilLanding ==
  stream' = \/ state \in {"prestream", "engage", "active"}
            \/ state = "returning" /\ status.nav = "offboard"

Heartbeat ==
  stream' = \/ state \in {"prestream", "engage", "active", "land_requested"}
            \/ state = "returning" /\ status.nav = "offboard"

Commanded(p, mode, accepted) == IF accepted THEN [p EXCEPT !.nav = mode] ELSE p

In(s) == alive /\ state = s

(* A slip: the gate is not asked for.                                       *)
TickWaitLink_Ungated ==
  /\ In("wait_link") /\ Heartbeat
  /\ status # NothingHeard
  /\ state' = "prestream"
  /\ UNCHANGED <<process, abort_requested, status, px4, gates, bounds>>

TickWaitLink ==
  /\ In("wait_link") /\ Heartbeat
  /\ status # NothingHeard           \* _link_alive, with a fresh status
  /\ state' = IF start_ok THEN "prestream" ELSE "wait_start"
  /\ UNCHANGED <<process, abort_requested, status, px4, gates, bounds>>

TickWaitStart ==
  /\ In("wait_start") /\ start_ok /\ Heartbeat
  /\ state' = "prestream"
  /\ UNCHANGED <<process, abort_requested, status, px4, gates, bounds>>

(* Stream until the cycles are up and the launch reference is stable, then   *)
(* ask for OFFBOARD.  (When it never becomes stable the tick raises, which   *)
(* is NodeExits.)                                                           *)
TickPrestream ==
  /\ In("prestream") /\ Heartbeat
  /\ \/ /\ state' = "prestream"
        /\ UNCHANGED <<process, px4>>
     \/ /\ state' = "engage" /\ datum' = TRUE
        /\ \E accepted \in BOOLEAN : px4' = Commanded(px4, "offboard", accepted)
        /\ UNCHANGED <<alive, start_ok, home_requested, operator_start>>
  /\ UNCHANGED <<abort_requested, status, gates, bounds>>

(* _begin_landing and _begin_return.                                        *)
BeginLanding(accepted) ==
  /\ state' = "land_requested"
  /\ px4' = Commanded(px4, "land", accepted)

BeginReturn(global, accepted) ==
  IF ~global THEN BeginLanding(accepted)
  ELSE state' = "returning" /\ px4' = Commanded(px4, "rtl", accepted)

Engaged == status.armed /\ status.nav = "offboard"

TickEngage ==
  /\ In("engage") /\ Heartbeat
  /\ \/ /\ abort_requested
        /\ \E accepted \in BOOLEAN : BeginLanding(accepted)
     \/ /\ ~abort_requested
        /\ \E offboard \in BOOLEAN, arm \in BOOLEAN :
             px4' = [Commanded(px4, "offboard", offboard) EXCEPT !.armed = @ \/ arm]
        /\ state' = IF Engaged THEN "active" ELSE "engage"
  /\ UNCHANGED <<process, abort_requested, status, gates, bounds>>

Interlock(valid) == status.failsafe \/ status.nav # "offboard" \/ ~valid

(* The two ways an ACTIVE tick ends before it asks the mission.              *)
TickActiveAborts ==
  /\ In("active") /\ abort_requested /\ Heartbeat
  /\ \E accepted \in BOOLEAN : BeginLanding(accepted)
  /\ UNCHANGED <<process, abort_requested, status, gates, bounds>>

TickActiveYields(valid) ==
  /\ In("active") /\ ~abort_requested /\ Heartbeat
  /\ Interlock(valid)
  /\ state' = "failsafe"
  /\ UNCHANGED <<process, abort_requested, status, px4, gates, bounds>>

(* An ACTIVE tick that reaches compute_setpoint.                             *)
AsksMission == In("active") /\ ~abort_requested /\ ~Interlock(TRUE)

TickReturning ==
  /\ In("returning") /\ Heartbeat
  /\ \E accepted \in BOOLEAN :
       IF abort_requested THEN BeginLanding(accepted)
       ELSE /\ px4' = Commanded(px4, "rtl", accepted)
            /\ state' = IF status.armed THEN "returning" ELSE "done"
  /\ UNCHANGED <<process, abort_requested, status, gates, bounds>>

(* A slip: NAV_LAND is not asked for again.                                  *)
TickLandRequested_Once ==
  /\ In("land_requested") /\ Heartbeat
  /\ state' = IF ~status.armed THEN "done"
              ELSE IF status.nav = "land" THEN "landing" ELSE state
  /\ UNCHANGED <<process, abort_requested, status, px4, gates, bounds>>

TickLandRequested ==
  /\ In("land_requested") /\ Heartbeat
  /\ IF ~status.armed THEN state' = "done" /\ UNCHANGED px4
     ELSE IF status.nav = "land" THEN state' = "landing" /\ UNCHANGED px4
     ELSE /\ \E accepted \in BOOLEAN : px4' = Commanded(px4, "land", accepted)
          /\ UNCHANGED state
  /\ UNCHANGED <<process, abort_requested, status, gates, bounds>>

(* A slip: the abort gate is honoured after the hand-off.                    *)
TickWatching_Aborts ==
  /\ In("landing") \/ In("failsafe")
  /\ Heartbeat
  /\ IF abort_requested THEN \E accepted \in BOOLEAN : BeginLanding(accepted)
     ELSE state' = (IF status.armed THEN state ELSE "done") /\ UNCHANGED px4
  /\ UNCHANGED <<process, abort_requested, status, gates, bounds>>

(* LANDING and FAILSAFE only watch for the disarm.                           *)
TickWatching ==
  /\ In("landing") \/ In("failsafe")
  /\ Heartbeat
  /\ state' = IF status.armed THEN state ELSE "done"
  /\ UNCHANGED <<process, abort_requested, status, px4, gates, bounds>>

TickDone ==
  /\ In("done") /\ Heartbeat
  /\ UNCHANGED <<process, state, abort_requested, status, px4, gates, bounds>>

(* Every tick that needs no mission, but for one that finds the estimate     *)
(* invalid, TickActiveYields(FALSE): that one is no step anybody owes.       *)
ControllerTick ==
  \/ TickWaitLink \/ TickWaitStart \/ TickPrestream \/ TickEngage
  \/ TickActiveAborts \/ TickActiveYields(TRUE)
  \/ TickReturning \/ TickLandRequested \/ TickWatching \/ TickDone

-----------------------------------------------------------------------------
(* The gates.  A gate arrives because the operator publishes it, or because  *)
(* its publisher still holds it when a fresh process subscribes              *)
(* (gate_qos.py: RELIABLE, TRANSIENT_LOCAL, depth one).                      *)

Arrives(g) ==
  /\ alive
  /\ \/ latched' = latched \cup {g} /\ UNCHANGED pending
     \/ g \in pending /\ pending' = pending \ {g} /\ UNCHANGED latched

ByOperator(g) == pending' = pending

StartCb ==
  /\ Arrives("start")
  /\ start_ok' = TRUE
  /\ operator_start' = (operator_start \/ ByOperator("start"))
  /\ UNCHANGED <<alive, home_requested, datum, state, abort_requested,
                 status, stream, px4, bounds>>

AbortCb ==
  /\ Arrives("abort")
  /\ abort_requested' = TRUE
  /\ UNCHANGED <<process, state, status, stream, px4, bounds>>

(* _end_cb up to the hook: latched, the hook runs the first time only.       *)
EndArrives ==
  /\ Arrives("end")
  /\ home_requested' = TRUE
  /\ UNCHANGED <<alive, start_ok, datum, operator_start, status, stream, bounds>>

-----------------------------------------------------------------------------
(* The process and its environment.                                         *)

(* An exception leaves rclpy.spin, or the operator kills the node.           *)
NodeExits ==
  /\ alive /\ restarts < MaxRestarts
  /\ alive' = FALSE /\ stream' = FALSE
  /\ UNCHANGED <<start_ok, home_requested, datum, operator_start, state, abort_requested,
                 status, px4, gates, bounds>>

NodeRestarts ==
  /\ ~alive /\ restarts < MaxRestarts
  /\ alive' = TRUE /\ state' = "wait_link"
  /\ start_ok' = FALSE /\ abort_requested' = FALSE /\ home_requested' = FALSE
  /\ datum' = FALSE /\ status' = NothingHeard /\ stream' = FALSE
  /\ operator_start' = FALSE
  /\ restarts' = restarts + 1
  /\ pending' = latched
  /\ UNCHANGED <<latched, px4, upsets>>

(* _status_cb.                                                              *)
StatusArrives ==
  /\ alive
  /\ status' = [nav |-> px4.nav, armed |-> px4.armed, failsafe |-> px4.failsafe]
  /\ UNCHANGED <<process, state, abort_requested, stream, px4, gates, bounds>>

ControllerUnchanged == UNCHANGED <<process, state, abort_requested, status, stream, gates>>

(* PX4: climbs on an armed vehicle's setpoints, lands and disarms itself in   *)
(* its own modes, disarms a vehicle left idle on the ground, and drops       *)
(* OFFBOARD when the stream goes stale.                                     *)
Px4Climbs ==
  /\ px4.armed /\ px4.nav = "offboard" /\ ~px4.airborne
  /\ px4' = [px4 EXCEPT !.airborne = TRUE]
  /\ ControllerUnchanged /\ UNCHANGED bounds

Px4Lands ==
  /\ px4.armed
  /\ px4.nav \in (IF px4.airborne THEN {"land", "rtl"} ELSE {"land", "rtl", "other"})
  /\ px4' = [px4 EXCEPT !.airborne = FALSE, !.armed = FALSE, !.failsafe = FALSE]
  /\ ControllerUnchanged /\ UNCHANGED bounds

Px4DropsOffboard ==
  /\ px4.nav = "offboard" /\ ~stream
  /\ px4' = IF px4.armed THEN [px4 EXCEPT !.nav = "land", !.failsafe = TRUE]
            ELSE [px4 EXCEPT !.nav = "other"]
  /\ ControllerUnchanged /\ UNCHANGED bounds

Px4Failsafe ==
  /\ px4.armed /\ upsets < MaxUpsets
  /\ px4' = [px4 EXCEPT !.nav = "land", !.failsafe = TRUE]
  /\ upsets' = upsets + 1
  /\ ControllerUnchanged /\ UNCHANGED restarts

PilotTakesOver ==
  /\ px4.armed /\ upsets < MaxUpsets
  /\ px4' = [px4 EXCEPT !.nav = "other"]
  /\ upsets' = upsets + 1
  /\ ControllerUnchanged /\ UNCHANGED restarts

PilotLands ==
  /\ px4.armed /\ px4.nav = "other"
  /\ px4' = [px4 EXCEPT !.airborne = FALSE, !.armed = FALSE, !.failsafe = FALSE]
  /\ ControllerUnchanged /\ UNCHANGED bounds

(* Everything but the restart, which also resets what a subclass keeps.      *)
Environment ==
  \/ NodeExits \/ StatusArrives
  \/ Px4Climbs \/ Px4Lands \/ Px4DropsOffboard \/ Px4Failsafe
  \/ PilotTakesOver \/ PilotLands

-----------------------------------------------------------------------------
(* Whatever mission is flown, a disarmed vehicle is armed only after this     *)
(* process was released by the start gate and has latched its launch datum,   *)
(* restarts included ("Never arm without a valid pad-relative altitude datum"). *)
ArmsOnlyWhenReleased ==
  [][px4'.armed /\ ~px4.armed => alive /\ start_ok /\ datum]_controllerVars

=============================================================================
