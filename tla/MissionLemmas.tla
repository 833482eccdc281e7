----------------------------- MODULE MissionLemmas -----------------------------
(***************************************************************************)
(* What the handlers of the offboard controller do, whatever mission runs on *)
(* it, and what the methods of the mission engine do, whoever calls them:    *)
(* the lemmas that the proofs about MissionCore and EngineNode share, and     *)
(* what they say of the controller under any mission: its types, and that a   *)
(* vehicle is armed only by a process that was released.                     *)
(***************************************************************************)
EXTENDS AnyMission, MissionEngine, WellFoundedInduction, TLAPS

-----------------------------------------------------------------------------
(* The controller.                                                          *)

(* What every state of the handshake implies: a process that streams was     *)
(* released by /start_mission, and one that arms has its datum as well.      *)
Released ==
  /\ state \in {"prestream", "engage"} => start_ok
  /\ state = "engage" => datum

ControllerInv == ControllerTypeOK /\ Released

(* Only the ENGAGE tick arms the vehicle.                                   *)
ArmsStep == px4'.armed /\ ~px4.armed => alive /\ state = "engage"

(* Setting the mode of a vehicle keeps it a vehicle, and no more armed.      *)
LEMMA CommandedVehicle ==
  ASSUME NEW p \in Vehicle, NEW mode \in Modes, NEW accepted \in BOOLEAN
  PROVE  Commanded(p, mode, accepted) \in Vehicle /\ Commanded(p, mode, accepted).armed = p.armed
BY DEF Commanded, Vehicle, Modes

(* So of every command the node sends.                                       *)
LEMMA CommandsDoNotArm ==
  ASSUME px4 \in Vehicle, NEW mode \in Modes, NEW accepted \in BOOLEAN,
         px4' = Commanded(px4, mode, accepted)
  PROVE  px4' \in Vehicle /\ px4'.armed = px4.armed
BY CommandedVehicle

(* The two hand-offs lead to a hand-off state and never arm.                 *)
LEMMA HandsOff ==
  ASSUME px4 \in Vehicle, NEW global \in BOOLEAN, NEW accepted \in BOOLEAN,
         BeginLanding(accepted) \/ BeginReturn(global, accepted)
  PROVE  /\ state' \in {"land_requested", "returning"}
         /\ px4' \in Vehicle /\ px4'.armed = px4.armed
<1>1. "land" \in Modes /\ "rtl" \in Modes
  BY DEF Modes
<1> QED
  BY <1>1, CommandedVehicle DEF BeginLanding, BeginReturn

(* A fresh process: nothing is released, nothing is armed.                   *)
LEMMA FreshProcess ==
  ControllerInit => ControllerInv
<1> SUFFICES ASSUME ControllerInit
             PROVE  ControllerInv
  OBVIOUS
<1>1. MaxUpsets \in Nat /\ MaxRestarts \in Nat
  BY ControllerConstants
<1>2. ControllerTypeOK
  <2>1. px4 \in Vehicle
    BY DEF ControllerInit, Vehicle, Modes
  <2>2. status \in [nav : Modes \cup {"none"}, armed : BOOLEAN, failsafe : BOOLEAN]
    BY DEF ControllerInit, NothingHeard
  <2>3. upsets \in 0 .. MaxUpsets /\ restarts \in 0 .. MaxRestarts
    BY <1>1 DEF ControllerInit
  <2> QED
    BY <2>1, <2>2, <2>3 DEF ControllerInit, ControllerTypeOK, States
<1>3. Released
  BY DEF ControllerInit, Released
<1> QED
  BY <1>2, <1>3 DEF ControllerInv

(* The ticks of the handshake, where the gates are asked for.                *)
LEMMA HandshakeTicks ==
  ASSUME ControllerInv, TickWaitLink \/ TickWaitStart \/ TickPrestream \/ TickEngage
  PROVE  ControllerInv' /\ ArmsStep
<1> USE DEF ControllerInv, ControllerTypeOK, Released, ArmsStep, process, gates, bounds,
            Heartbeat, In, States
<1>1. CASE TickWaitLink
  BY <1>1 DEF TickWaitLink
<1>2. CASE TickWaitStart
  BY <1>2 DEF TickWaitStart
<1>3. CASE TickPrestream
  <2>1. px4' \in Vehicle /\ px4'.armed = px4.armed
    <3>1. "offboard" \in Modes
      BY DEF Modes
    <3>2. \/ px4' = px4
          \/ \E accepted \in BOOLEAN : px4' = Commanded(px4, "offboard", accepted)
      BY <1>3 DEF TickPrestream
    <3>3. px4 \in Vehicle
      OBVIOUS
    <3> QED
      BY <3>1, <3>2, <3>3, CommandsDoNotArm
  <2>2. state' \in {"prestream", "engage"} /\ (state' = "engage" => datum')
    BY <1>3 DEF TickPrestream
  <2>3. start_ok' = start_ok /\ start_ok /\ datum' \in BOOLEAN
    BY <1>3 DEF TickPrestream
  <2> QED
    BY <1>3, <2>1, <2>2, <2>3 DEF TickPrestream
<1>4. CASE TickEngage
  <2>1. CASE abort_requested
    <3>1. PICK accepted \in BOOLEAN : BeginLanding(accepted)
      BY <1>4, <2>1 DEF TickEngage
    <3>2. /\ state' \in {"land_requested", "returning"}
          /\ px4' \in Vehicle /\ px4'.armed = px4.armed
      BY <3>1, HandsOff
    <3> QED
      BY <1>4, <3>2 DEF TickEngage
  <2>2. CASE ~abort_requested
    <3>1. PICK offboard \in BOOLEAN, arm \in BOOLEAN :
            px4' = [Commanded(px4, "offboard", offboard) EXCEPT !.armed = @ \/ arm]
      BY <1>4, <2>2 DEF TickEngage
    <3>2. Commanded(px4, "offboard", offboard) \in Vehicle
      BY CommandedVehicle DEF Modes
    <3>3. px4' \in Vehicle
      BY <3>1, <3>2 DEF Vehicle
    <3> QED
      BY <1>4, <2>2, <3>3 DEF TickEngage
  <2> QED
    BY <2>1, <2>2
<1> QED
  BY <1>1, <1>2, <1>3, <1>4

(* The ticks in flight and after it.                                        *)
LEMMA FlightTicks ==
  ASSUME ControllerInv, NEW valid \in BOOLEAN,
         \/ TickActiveAborts \/ TickActiveYields(valid)
         \/ TickReturning \/ TickLandRequested \/ TickWatching \/ TickDone
  PROVE  ControllerInv' /\ ArmsStep
<1> USE DEF ControllerInv, ControllerTypeOK, Released, ArmsStep, process, gates, bounds,
            Heartbeat, In, States
<1>1. CASE TickActiveAborts
  <2>1. PICK accepted \in BOOLEAN : BeginLanding(accepted)
    BY <1>1 DEF TickActiveAborts
  <2>2. /\ state' \in {"land_requested", "returning"}
        /\ px4' \in Vehicle /\ px4'.armed = px4.armed
    BY <2>1, HandsOff
  <2> QED
    BY <1>1, <2>2 DEF TickActiveAborts
<1>2. CASE TickActiveYields(valid)
  BY <1>2 DEF TickActiveYields
<1>3. CASE TickReturning
  <2>1. PICK accepted \in BOOLEAN :
          IF abort_requested THEN BeginLanding(accepted)
          ELSE /\ px4' = Commanded(px4, "rtl", accepted)
               /\ state' = IF status.armed THEN "returning" ELSE "done"
    BY <1>3 DEF TickReturning
  <2>2. /\ state' \in {"land_requested", "returning", "done"}
        /\ px4' \in Vehicle /\ px4'.armed = px4.armed
    <3>1. "rtl" \in Modes
      BY DEF Modes
    <3>2. CASE abort_requested
      BY <2>1, <3>2, HandsOff
    <3>3. CASE ~abort_requested
      <4>1. px4' = Commanded(px4, "rtl", accepted) /\ px4 \in Vehicle
        BY <2>1, <3>3
      <4>2. px4' \in Vehicle /\ px4'.armed = px4.armed
        BY <3>1, <4>1, CommandsDoNotArm
      <4> QED
        BY <2>1, <3>3, <4>2
    <3> QED
      BY <3>2, <3>3
  <2> QED
    BY <1>3, <2>2 DEF TickReturning
<1>4. CASE TickLandRequested
  <2>1. /\ state' \in {"land_requested", "landing", "done"}
        /\ px4' \in Vehicle /\ px4'.armed = px4.armed
    <3>1. "land" \in Modes
      BY DEF Modes
    <3>2. \/ px4' = px4
          \/ \E accepted \in BOOLEAN : px4' = Commanded(px4, "land", accepted)
      BY <1>4 DEF TickLandRequested
    <3>3. px4 \in Vehicle
      OBVIOUS
    <3>4. px4' \in Vehicle /\ px4'.armed = px4.armed
      BY <3>1, <3>2, <3>3, CommandsDoNotArm
    <3>5. state' \in {"land_requested", "landing", "done"}
      BY <1>4 DEF TickLandRequested
    <3> QED
      BY <3>4, <3>5
  <2> QED
    BY <1>4, <2>1 DEF TickLandRequested
<1>5. CASE TickWatching
  BY <1>5 DEF TickWatching
<1>6. CASE TickDone
  BY <1>6 DEF TickDone
<1> QED
  BY <1>1, <1>2, <1>3, <1>4, <1>5, <1>6

(* A tick that asks the mission: it streams or not, and may ask to land.      *)
LEMMA MissionTick ==
  ASSUME ControllerInv, AsksMission, stream' \in BOOLEAN, abort_requested' \in BOOLEAN,
         UNCHANGED <<process, state, status, px4, gates, bounds>>
  PROVE  ControllerInv' /\ ArmsStep
BY DEF ControllerInv, ControllerTypeOK, Released, ArmsStep, process, gates, bounds

(* A gate that arrives stays one.                                           *)
LEMMA GatesStay ==
  ASSUME ControllerInv, NEW g \in Gates, Arrives(g)
  PROVE  latched' \subseteq Gates /\ pending' \subseteq Gates
BY DEF ControllerInv, ControllerTypeOK, Arrives

(* The gates latch, and change nothing else.                                 *)
LEMMA GateCallbacks ==
  ASSUME ControllerInv, StartCb \/ AbortCb
  PROVE  ControllerInv' /\ ArmsStep
<1> USE DEF ControllerInv, ControllerTypeOK, Released, ArmsStep, process, bounds, States
<1>1. CASE StartCb
  <2>1. latched' \subseteq Gates /\ pending' \subseteq Gates
    BY <1>1, GatesStay DEF StartCb, Gates
  <2>2. operator_start' \in BOOLEAN
    BY <1>1 DEF StartCb, ByOperator
  <2> QED
    BY <1>1, <2>1, <2>2 DEF StartCb
<1>2. CASE AbortCb
  <2>1. latched' \subseteq Gates /\ pending' \subseteq Gates
    BY <1>2, GatesStay DEF AbortCb, Gates
  <2> QED
    BY <1>2, <2>1 DEF AbortCb
<1> QED
  BY <1>1, <1>2

(* The end gate with a hook that at most hands off.                          *)
LEMMA EndCallback ==
  ASSUME ControllerInv, EndArrives, abort_requested' \in BOOLEAN,
         state' \in {state, "land_requested", "returning"},
         px4' \in Vehicle, px4'.armed = px4.armed
  PROVE  ControllerInv' /\ ArmsStep
<1>1. latched' \subseteq Gates /\ pending' \subseteq Gates
  BY GatesStay DEF EndArrives, Gates
<1> QED
  BY <1>1 DEF EndArrives, ControllerInv, ControllerTypeOK, Released, ArmsStep, bounds, States

(* Landed, disarmed, dropped or overridden: a vehicle stays one, and no more *)
(* armed, when its fields are set to values of their types.                 *)
LEMMA VehicleUpdates ==
  ASSUME NEW p \in Vehicle
  PROVE  /\ [p EXCEPT !.airborne = TRUE] \in Vehicle
         /\ [p EXCEPT !.airborne = TRUE].armed = p.armed
         /\ [p EXCEPT !.airborne = FALSE, !.armed = FALSE, !.failsafe = FALSE] \in Vehicle
         /\ [p EXCEPT !.airborne = FALSE, !.armed = FALSE, !.failsafe = FALSE].armed = FALSE
         /\ [p EXCEPT !.nav = "land", !.failsafe = TRUE] \in Vehicle
         /\ [p EXCEPT !.nav = "land", !.failsafe = TRUE].armed = p.armed
         /\ [p EXCEPT !.nav = "other"] \in Vehicle
         /\ [p EXCEPT !.nav = "other"].armed = p.armed
<1>1. [p EXCEPT !.airborne = TRUE] \in Vehicle /\ [p EXCEPT !.airborne = TRUE].armed = p.armed
  BY DEF Vehicle
<1>2. /\ [p EXCEPT !.airborne = FALSE, !.armed = FALSE, !.failsafe = FALSE] \in Vehicle
      /\ [p EXCEPT !.airborne = FALSE, !.armed = FALSE, !.failsafe = FALSE].armed = FALSE
  BY DEF Vehicle
<1>3. /\ [p EXCEPT !.nav = "land", !.failsafe = TRUE] \in Vehicle
      /\ [p EXCEPT !.nav = "land", !.failsafe = TRUE].armed = p.armed
  BY DEF Vehicle, Modes
<1>4. [p EXCEPT !.nav = "other"] \in Vehicle /\ [p EXCEPT !.nav = "other"].armed = p.armed
  BY DEF Vehicle, Modes
<1> QED
  BY <1>1, <1>2, <1>3, <1>4

(* A step of the vehicle that does not arm it and leaves the node alone.     *)
LEMMA QuietStep ==
  ASSUME ControllerInv, ControllerUnchanged,
         px4' \in Vehicle, px4'.armed => px4.armed,
         upsets' \in 0 .. MaxUpsets, restarts' \in 0 .. MaxRestarts
  PROVE  ControllerInv' /\ ArmsStep
<1>1. ArmsStep
  BY DEF ArmsStep
<1>2. Released'
  BY DEF ControllerInv, Released, ControllerUnchanged, process
<1>3. /\ (alive \in BOOLEAN)' /\ (state \in States)'
      /\ (start_ok \in BOOLEAN /\ abort_requested \in BOOLEAN /\ home_requested \in BOOLEAN)'
      /\ (datum \in BOOLEAN /\ stream \in BOOLEAN /\ operator_start \in BOOLEAN)'
  BY DEF ControllerInv, ControllerTypeOK, ControllerUnchanged, process
<1>4. /\ (latched \subseteq Gates /\ pending \subseteq Gates)'
      /\ (status \in [nav : Modes \cup {"none"}, armed : BOOLEAN, failsafe : BOOLEAN])'
  BY DEF ControllerInv, ControllerTypeOK, ControllerUnchanged, gates
<1>5. ControllerTypeOK'
  BY <1>3, <1>4 DEF ControllerTypeOK
<1> QED
  BY <1>1, <1>2, <1>5 DEF ControllerInv

(* Restarts, PX4 and the pilot: nobody arms.                                 *)
LEMMA Surroundings ==
  ASSUME ControllerInv, NodeRestarts \/ Environment
  PROVE  ControllerInv' /\ ArmsStep
<1>0. MaxUpsets \in Nat /\ MaxRestarts \in Nat
  BY ControllerConstants
<1>p. /\ px4 \in Vehicle
      /\ upsets \in 0 .. MaxUpsets /\ restarts \in 0 .. MaxRestarts
  BY DEF ControllerInv, ControllerTypeOK
<1>b. ASSUME UNCHANGED bounds
      PROVE  upsets' \in 0 .. MaxUpsets /\ restarts' \in 0 .. MaxRestarts
  BY <1>b, <1>p DEF bounds
<1>u. ASSUME upsets < MaxUpsets, upsets' = upsets + 1, UNCHANGED restarts
      PROVE  upsets' \in 0 .. MaxUpsets /\ restarts' \in 0 .. MaxRestarts
  BY <1>0, <1>p, <1>u
<1>1. CASE NodeRestarts
  <2> USE DEF ControllerInv, ControllerTypeOK, Released, ArmsStep
  <2>1. status' \in [nav : Modes \cup {"none"}, armed : BOOLEAN, failsafe : BOOLEAN]
    BY <1>1 DEF NodeRestarts, NothingHeard
  <2>2. restarts' \in 0 .. MaxRestarts
    BY <1>0, <1>1 DEF NodeRestarts
  <2> QED
    BY <1>1, <2>1, <2>2 DEF NodeRestarts, States
<1>2. CASE NodeExits
  BY <1>2 DEF NodeExits, ControllerInv, ControllerTypeOK, Released, ArmsStep, gates, bounds
<1>3. CASE StatusArrives
  <2>1. status' \in [nav : Modes \cup {"none"}, armed : BOOLEAN, failsafe : BOOLEAN]
    BY <1>3, <1>p DEF StatusArrives, Vehicle
  <2> QED
    BY <1>3, <2>1 DEF StatusArrives, ControllerInv, ControllerTypeOK, Released, ArmsStep,
                      process, gates, bounds
<1>4. CASE Px4Climbs
  <2>1. px4' = [px4 EXCEPT !.airborne = TRUE] /\ ControllerUnchanged /\ UNCHANGED bounds
    BY <1>4 DEF Px4Climbs
  <2> QED
    BY <1>b, <1>p, <2>1, VehicleUpdates, QuietStep
<1>5. CASE Px4Lands
  <2>1. /\ px4' = [px4 EXCEPT !.airborne = FALSE, !.armed = FALSE, !.failsafe = FALSE]
        /\ ControllerUnchanged /\ UNCHANGED bounds
    BY <1>5 DEF Px4Lands
  <2> QED
    BY <1>b, <1>p, <2>1, VehicleUpdates, QuietStep
<1>6. CASE Px4DropsOffboard
  <2>1. /\ \/ px4' = [px4 EXCEPT !.nav = "land", !.failsafe = TRUE]
           \/ px4' = [px4 EXCEPT !.nav = "other"]
        /\ ControllerUnchanged /\ UNCHANGED bounds
    BY <1>6 DEF Px4DropsOffboard
  <2>2. px4' \in Vehicle /\ px4'.armed = px4.armed
    BY <1>p, <2>1, VehicleUpdates
  <2> QED
    BY <1>b, <2>1, <2>2, QuietStep
<1>7. CASE Px4Failsafe
  <2>1. /\ px4' = [px4 EXCEPT !.nav = "land", !.failsafe = TRUE] /\ ControllerUnchanged
        /\ upsets < MaxUpsets /\ upsets' = upsets + 1 /\ UNCHANGED restarts
    BY <1>7 DEF Px4Failsafe
  <2>2. upsets' \in 0 .. MaxUpsets /\ restarts' \in 0 .. MaxRestarts
    BY <1>u, <2>1
  <2> QED
    BY <1>p, <2>1, <2>2, VehicleUpdates, QuietStep
<1>8. CASE PilotTakesOver
  <2>1. /\ px4' = [px4 EXCEPT !.nav = "other"] /\ ControllerUnchanged
        /\ upsets < MaxUpsets /\ upsets' = upsets + 1 /\ UNCHANGED restarts
    BY <1>8 DEF PilotTakesOver
  <2>2. upsets' \in 0 .. MaxUpsets /\ restarts' \in 0 .. MaxRestarts
    BY <1>u, <2>1
  <2> QED
    BY <1>p, <2>1, <2>2, VehicleUpdates, QuietStep
<1>9. CASE PilotLands
  <2>1. /\ px4' = [px4 EXCEPT !.airborne = FALSE, !.armed = FALSE, !.failsafe = FALSE]
        /\ ControllerUnchanged /\ UNCHANGED bounds
    BY <1>9 DEF PilotLands
  <2> QED
    BY <1>b, <1>p, <2>1, VehicleUpdates, QuietStep
<1> QED
  BY <1>1, <1>2, <1>3, <1>4, <1>5, <1>6, <1>7, <1>8, <1>9 DEF Environment

-----------------------------------------------------------------------------
(* The controller under any mission.                                        *)

(* The hook of /end_mission latches, or hands off.                           *)
LEMMA AnyEndCbHolds ==
  ASSUME ControllerInv, AnyEndCb
  PROVE  ControllerInv' /\ ArmsStep
<1>1. /\ state' \in {state, "land_requested", "returning"}
      /\ px4' \in Vehicle /\ px4'.armed = px4.armed
  <2>1. px4 \in Vehicle
    BY DEF ControllerInv, ControllerTypeOK
  <2> QED
    BY <2>1, HandsOff DEF AnyEndCb, ReturnIfAllowed
<1>2. EndArrives /\ abort_requested' \in BOOLEAN
  BY DEF AnyEndCb, ControllerInv, ControllerTypeOK
<1> QED
  BY <1>1, <1>2, EndCallback

(* Every step of the specification.                                         *)
LEMMA AnyNextInv ==
  ASSUME ControllerInv, [AnyNext]_controllerVars
  PROVE  ControllerInv' /\ ArmsStep
<1>1. CASE ControllerTick
  BY <1>1, HandshakeTicks, FlightTicks DEF ControllerTick
<1>2. CASE TickActiveYields(FALSE)
  BY <1>2, FlightTicks
<1>3. CASE AnyTick
  BY <1>3, MissionTick DEF AnyTick, Heartbeat
<1>4. CASE StartCb \/ AbortCb
  BY <1>4, GateCallbacks
<1>5. CASE AnyEndCb
  BY <1>5, AnyEndCbHolds
<1>6. CASE NodeRestarts \/ Environment
  BY <1>6, Surroundings
<1>7. CASE UNCHANGED controllerVars
  BY <1>7 DEF controllerVars, process, gates, bounds, ControllerInv, ControllerTypeOK,
              Released, ArmsStep
<1> QED
  BY <1>1, <1>2, <1>3, <1>4, <1>5, <1>6, <1>7 DEF AnyNext

(* The types of the controller's variables (controller.py, __init__ and the  *)
(* assignments of every handler).                                           *)
THEOREM ControllerTypesHold == AnySpec => []ControllerTypeOK
<1>1. ControllerInv => ControllerTypeOK
  BY DEF ControllerInv
<1>2. ControllerInit => ControllerInv
  BY FreshProcess
<1> QED
  BY <1>1, <1>2, AnyNextInv, PTL DEF AnySpec

(* "Never arm without a valid pad-relative altitude datum", and never before  *)
(* /start_mission: with any number of restarts, upsets and replayed gates,   *)
(* and whatever mission runs on the controller.                             *)
THEOREM ArmsWhenReleased == AnySpec => ArmsOnlyWhenReleased
<1>1. ControllerInv /\ [AnyNext]_controllerVars => ControllerInv'
  BY AnyNextInv
<1>2. ASSUME ControllerInv, [AnyNext]_controllerVars
      PROVE  [px4'.armed /\ ~px4.armed => alive /\ start_ok /\ datum]_controllerVars
  <2>1. ArmsStep
    BY <1>2, AnyNextInv
  <2> QED
    BY <1>2, <2>1 DEF ArmsStep, ControllerInv, Released
<1>3. ControllerInit => ControllerInv
  BY FreshProcess
<1> QED
  BY <1>1, <1>2, <1>3, PTL DEF AnySpec, ArmsOnlyWhenReleased

-----------------------------------------------------------------------------
(* The geometry.                                                            *)

(* Points of the lanes and of the petals are points of the grid.             *)
LEMMA SpotsOfThePatterns ==
  /\ \A i \in Lanes, s \in 0 .. Rows : PointAt(i, s) \in Spot
  /\ \A i \in Lanes, spot \in Spot : AlongLane(i, spot) \in 0 .. Rows
  /\ \A e \in EngineState : e.home \in Spot => Outer(e) \in Spot
  /\ \A e \in EngineState : Egress(e) \in Spot
<1>0. NLanes \in Nat /\ Rows \in Nat /\ Anchor \in Spot
  BY EngineConstants
<1>1. \A i \in Lanes, s \in 0 .. Rows : PointAt(i, s) \in Spot
  BY <1>0 DEF PointAt, Spot, Lanes
<1>2. \A i \in Lanes, spot \in Spot : AlongLane(i, spot) \in 0 .. Rows
  BY <1>0 DEF AlongLane, Spot, Clamp
<1>3. ASSUME NEW e \in EngineState, e.home \in Spot PROVE Outer(e) \in Spot
  <2>1. HeadingStep(e.petal)[1] \in Int /\ HeadingStep(e.petal)[2] \in Int
    BY DEF HeadingStep
  <2> QED
    BY <1>3, <2>1 DEF Outer, Spot
<1>4. ASSUME NEW e \in EngineState PROVE Egress(e) \in Spot
  BY <1>0, <1>4 DEF Egress, EngineState
<1> QED
  BY <1>1, <1>2, <1>3, <1>4

-----------------------------------------------------------------------------
(* What the pieces of a tick do to the engine.                               *)

(* The flags the life cycle is about.                                       *)
Same(e, f) == f.aborted = e.aborted /\ f.acked = e.acked

(* Flying somewhere commands it and changes nothing else.                    *)
LEMMA Flying ==
  ASSUME NEW e \in EngineState, NEW spot \in Spot
  PROVE  /\ Fly(e, spot) \in EngineState
         /\ Fly(e, spot).sp \in Setpoint /\ Fly(e, spot).phase = e.phase
         /\ Fly(e, spot).home = e.home /\ Fly(e, spot).target = e.target
         /\ Fly(e, spot).settle_next = e.settle_next /\ Same(e, Fly(e, spot))
<1>1. [spot |-> spot, level |-> "survey"] \in Setpoint
  BY DEF Setpoint, Levels
<1> QED
  BY <1>1, ZenonT(120) DEF Fly, EngineState, Same

(* An abort changes the phase and its flag, the end of the mission nothing.   *)
LEMMA Aborting ==
  ASSUME NEW e \in EngineState
  PROVE  /\ Abort(e) \in EngineState
         /\ Abort(e).home = e.home /\ Abort(e).sp = e.sp /\ Abort(e).acked = e.acked
         /\ e.phase \in {"ABORT", "DONE"} => Abort(e) = e
         /\ e.phase \notin {"ABORT", "DONE"} => Abort(e).phase = "ABORT" /\ Abort(e).aborted
<1>1. "ABORT" \in Phases
  BY DEF Phases
<1>2. [e EXCEPT !.phase = "ABORT", !.aborted = TRUE] \in EngineState
  BY <1>1, ZenonT(120) DEF EngineState
<1>3. LET f == [e EXCEPT !.phase = "ABORT", !.aborted = TRUE]
      IN  f.phase = "ABORT" /\ f.aborted /\ f.home = e.home /\ f.sp = e.sp /\ f.acked = e.acked
  BY ZenonT(120) DEF EngineState
<1> QED
  BY <1>2, <1>3 DEF Abort

(* To settle is to be landing next.                                         *)
LEMMA Settling ==
  ASSUME NEW e \in EngineState, NEW strict \in BOOLEAN
  PROVE  LET f == BeginSettle(e, "LAND", strict)
         IN  /\ f \in EngineState /\ f.phase = "SETTLE" /\ f.settle_next = "LAND"
             /\ Same(e, f)
<1>1. "SETTLE" \in Phases
  BY DEF Phases
<1> QED
  BY <1>1, ZenonT(120) DEF BeginSettle, EngineState, Same

(* The oldest confirmed cluster is a confirmed one.                          *)
LEMMA NextTarget ==
  ASSUME NEW e \in EngineState, Confirmed(e) # {}
  PROVE  NextDipTarget(e) \in Clusters /\ NextDipTarget(e) \in Confirmed(e)
<1>1. Confirmed(e) \subseteq Nat /\ Confirmed(e) \subseteq Clusters
  BY EngineConstants DEF Confirmed
<1>2. PICK m \in Confirmed(e) : \A d \in Confirmed(e) : ~(<<d, m>> \in OpToRel(<, Nat))
  BY <1>1, WFMin, NatLessThanWellFounded, Zenon
<1>3. ASSUME NEW d \in Confirmed(e)
      PROVE  m <= d
  <2>1. m \in Nat /\ d \in Nat
    BY <1>1
  <2>2. ~(<<d, m>> \in {ss \in Nat \X Nat : ss[1] < ss[2]})
    BY <1>2 DEF OpToRel
  <2> QED
    BY <2>1, <2>2
<1>4. NextDipTarget(e) \in Confirmed(e)
  BY <1>3 DEF NextDipTarget
<1> QED
  BY <1>1, <1>4

(* The sync: home is where the first tick finds the vehicle.                 *)
LEMMA Syncing ==
  ASSUME NEW e \in EngineState, NEW in \in Sample
  PROVE  LET f == SyncTick(e, in)
         IN  /\ f \in EngineState /\ f.phase \in {e.phase, "TAKEOFF"}
             /\ f.home \in Spot /\ Same(e, f)
<1> DEFINE home == IF e.home = NoSpot THEN in.spot ELSE e.home
           phase == IF e.home # NoSpot /\ in.elapsed THEN "TAKEOFF" ELSE e.phase
           off == e.took_off \/ (e.home # NoSpot /\ in.elapsed)
           sp == [spot |-> home, level |-> "hold"]
           f == [e EXCEPT !.home = home, !.phase = phase, !.took_off = off, !.sp = sp]
<1>1. home \in Spot
  BY DEF EngineState, Sample
<1>2. phase \in {e.phase, "TAKEOFF"} /\ phase \in Phases
  BY DEF EngineState, Phases
<1>3. off \in BOOLEAN
  BY DEF EngineState, Sample
<1>4. sp \in Setpoint
  BY <1>1 DEF Setpoint, Levels
<1>5. SyncTick(e, in) = f
  BY DEF SyncTick
<1> HIDE DEF home, phase, off, sp
<1>6. f \in EngineState /\ f.phase = phase /\ f.home = home /\ Same(e, f)
  BY <1>1, <1>2, <1>3, <1>4, ZenonT(120) DEF EngineState, Same
<1> QED
  BY <1>1, <1>2, <1>5, <1>6

(* What the handlers of the survey phases have in common.                    *)
Surveys(e, f, phases) ==
  /\ f \in EngineState /\ f.phase \in phases
  /\ f.home = e.home /\ Same(e, f) /\ f.sp \in Setpoint
  /\ f.phase = "VERIFY_DIP" => f.target \in Clusters

(* Progress along a lane.                                                   *)
LEMMA Advancing ==
  ASSUME NEW e \in EngineState, NEW in \in Sample
  PROVE  LET f == Advance(e, in)
         IN  /\ f \in EngineState /\ f.phase = e.phase /\ f.home = e.home /\ f.lane = e.lane
             /\ Same(e, f)
<1> DEFINE s == AlongLane(e.lane, in.spot)
           along == IF s > e.along THEN s ELSE e.along
           covered == e.covered \cup {<<e.lane, k>> : k \in e.along .. s - 1}
           f == [e EXCEPT !.entered = TRUE, !.along = along, !.covered = covered]
<1>1. s \in 0 .. Rows /\ e.along \in 0 .. Rows /\ e.lane \in Lanes /\ Rows \in Nat
      /\ e.covered \in SUBSET (Lanes \X (0 .. Rows - 1))
  BY SpotsOfThePatterns, EngineConstants DEF EngineState, Sample
<1>2. Advance(e, in) = f
  BY DEF Advance
<1> HIDE DEF s
<1>3. along \in 0 .. Rows
  BY <1>1
<1>4. covered \in SUBSET (Lanes \X (0 .. Rows - 1))
  <2>1. \A k \in e.along .. s - 1 : k \in 0 .. Rows - 1
    BY <1>1
  <2> QED
    BY <1>1, <2>1
<1> HIDE DEF along, covered
<1>5. f \in EngineState /\ f.phase = e.phase /\ f.home = e.home /\ f.lane = e.lane /\ Same(e, f)
  BY <1>3, <1>4, ZenonT(120) DEF EngineState, Same
<1> QED
  BY <1>2, <1>5

(* A lane is started from its beginning.                                     *)
LEMMA StartingALane ==
  ASSUME NEW e \in EngineState, NEW lane \in Lanes, NEW along \in 0 .. Rows
  PROVE  LET f == [e EXCEPT !.lane = lane, !.along = along, !.entered = FALSE]
         IN  f \in EngineState /\ f.phase = e.phase /\ f.home = e.home /\ Same(e, f)
BY ZenonT(120) DEF EngineState, Same

(* The end of a lane: the next one, or the way home.                         *)
LEMMA Finishing ==
  ASSUME NEW e \in EngineState, e.phase = "LANE"
  PROVE  Surveys(e, FinishLane(e), {"LANE", "EGRESS"})
<1> DEFINE covered == e.covered \cup {<<e.lane, k>> : k \in e.along .. Rows - 1}
           f == [e EXCEPT !.covered = covered]
           next == e.lane + 1
           g == [f EXCEPT !.lane = next, !.along = 0, !.entered = FALSE]
           h == [f EXCEPT !.phase = "EGRESS"]
<1>0. /\ e.along \in 0 .. Rows /\ e.lane \in Lanes /\ Rows \in Nat /\ NLanes \in Nat
      /\ e.covered \in SUBSET (Lanes \X (0 .. Rows - 1))
  BY EngineConstants DEF EngineState
<1>1. covered \in SUBSET (Lanes \X (0 .. Rows - 1))
  <2>1. \A k \in e.along .. Rows - 1 : k \in 0 .. Rows - 1
    BY <1>0
  <2> QED
    BY <1>0, <2>1
<1> HIDE DEF covered
<1>2. /\ f \in EngineState /\ f.phase = "LANE" /\ f.home = e.home /\ f.lane = e.lane
      /\ Same(e, f)
  BY <1>1, ZenonT(120) DEF EngineState, Same
<1>3. CASE e.lane + 1 < NLanes
  <2>1. next \in Lanes /\ 0 \in 0 .. Rows
    BY <1>0, <1>3 DEF Lanes
  <2>2. PointAt(next, 0) \in Spot
    BY <2>1, SpotsOfThePatterns
  <2>3. FinishLane(e) = Fly(g, PointAt(next, 0))
    BY <1>2, <1>3 DEF FinishLane, covered
  <2> HIDE DEF f, next
  <2>4. g \in EngineState /\ g.phase = "LANE" /\ g.home = e.home /\ Same(e, g)
    <3>1. g \in EngineState /\ g.phase = f.phase /\ g.home = f.home /\ Same(f, g)
      BY <1>2, <2>1, StartingALane
    <3> QED
      BY <1>2, <3>1 DEF Same
  <2> HIDE DEF g
  <2> QED
    BY <2>2, <2>3, <2>4, Flying DEF Surveys, Same
<1>4. CASE ~(e.lane + 1 < NLanes)
  <2>1. PointAt(e.lane, Rows) \in Spot
    BY <1>0, SpotsOfThePatterns
  <2>2. FinishLane(e) = Fly(h, PointAt(e.lane, Rows))
    BY <1>4 DEF FinishLane, covered
  <2>3. "EGRESS" \in Phases
    BY DEF Phases
  <2> HIDE DEF f
  <2>4. h \in EngineState /\ h.phase = "EGRESS" /\ h.home = e.home /\ Same(e, h)
    BY <1>2, <2>3, ZenonT(120) DEF EngineState, Same
  <2> HIDE DEF h
  <2> QED
    BY <2>1, <2>2, <2>4, Flying DEF Surveys, Same
<1> QED
  BY <1>3, <1>4

(* A tick on a lane.                                                        *)
LEMMA OnALane ==
  ASSUME NEW e \in EngineState, NEW in \in Sample, e.phase = "LANE"
  PROVE  Surveys(e, LaneTick(e, in), {"LANE", "VERIFY_DIP", "EGRESS"})
<1>0. e.lane \in Lanes /\ e.along \in 0 .. Rows /\ Rows \in 0 .. Rows
  BY EngineConstants DEF EngineState
<1>1. PointAt(e.lane, e.along) \in Spot /\ PointAt(e.lane, Rows) \in Spot
  BY <1>0, SpotsOfThePatterns
<1>2. Surveys(e, Fly(e, PointAt(e.lane, e.along)), {"LANE", "VERIFY_DIP", "EGRESS"})
  BY <1>1, Flying DEF Surveys, Same
<1>3. ASSUME Confirmed(e) # {}
      PROVE  Surveys(e, BeginDip(e), {"LANE", "VERIFY_DIP", "EGRESS"})
  <2> DEFINE t == NextDipTarget(e)
             f == [e EXCEPT !.target = t, !.dip_t0 = FALSE, !.phase = "VERIFY_DIP",
                            !.entered = TRUE]
  <2>1. t \in Clusters /\ "VERIFY_DIP" \in Phases
    BY <1>3, NextTarget DEF Phases
  <2>2. BeginDip(e) = Fly(f, PointAt(e.lane, e.along))
    BY DEF BeginDip
  <2> HIDE DEF t
  <2>3. f \in EngineState /\ f.phase = "VERIFY_DIP" /\ f.home = e.home /\ f.target = t
        /\ Same(e, f)
    BY <2>1, ZenonT(120) DEF EngineState, Same
  <2> HIDE DEF f
  <2> QED
    BY <1>1, <2>1, <2>2, <2>3, Flying DEF Surveys, Same
<1>4. /\ Advance(e, in) \in EngineState /\ Advance(e, in).phase = "LANE"
      /\ Advance(e, in).home = e.home /\ Same(e, Advance(e, in))
  BY Advancing
<1>5. Surveys(e, FinishLane(Advance(e, in)), {"LANE", "VERIFY_DIP", "EGRESS"})
  BY <1>4, Finishing DEF Surveys, Same
<1>6. Surveys(e, Fly(Advance(e, in), PointAt(e.lane, Rows)), {"LANE", "VERIFY_DIP", "EGRESS"})
  BY <1>1, <1>4, Flying DEF Surveys, Same
<1> QED
  BY <1>2, <1>3, <1>5, <1>6 DEF LaneTick

(* A tick over a dip.                                                       *)
LEMMA Dipping ==
  ASSUME NEW e \in EngineState, NEW in \in Sample, e.phase = "VERIFY_DIP",
         e.target \in Clusters
  PROVE  Surveys(e, DipTick(e, in), {"VERIFY_DIP", "LANE"})
<1> DEFINE spot == ClusterSpot[e.target]
           t0 == e.dip_t0 \/ Reached(in, spot, "survey")
           g == [e EXCEPT !.dip_t0 = t0]
           f == Fly(g, spot)
           log == [f.log EXCEPT ![e.target] = "dipped"]
           dips == f.dips + 1
           h == [f EXCEPT !.log[e.target] = "dipped", !.dips = @ + 1, !.target = NoCluster,
                          !.entered = FALSE, !.phase = "LANE"]
<1>1. spot \in Spot
  BY EngineConstants
<1>2. t0 \in BOOLEAN
  BY DEF EngineState
<1>3. DipTick(e, in) = f \/ DipTick(e, in) = h
  BY DEF DipTick
<1> HIDE DEF spot, t0
<1>4. g \in EngineState /\ g.phase = e.phase /\ g.home = e.home /\ g.target = e.target
      /\ Same(e, g)
  BY <1>2, ZenonT(120) DEF EngineState, Same
<1> HIDE DEF g
<1>5. /\ f \in EngineState /\ f.phase = e.phase /\ f.home = e.home /\ f.target = e.target
      /\ Same(e, f) /\ f.sp \in Setpoint
  BY <1>1, <1>4, Flying DEF Same
<1> HIDE DEF f
<1>6. "LANE" \in Phases /\ "dipped" \in Statuses
  BY DEF Phases, Statuses
<1>7. f.log \in [Clusters -> Statuses] /\ f.dips \in Nat
  BY <1>5, ZenonT(120) DEF EngineState
<1>8. log \in [Clusters -> Statuses] /\ dips \in Nat
  BY <1>6, <1>7
<1>9. h = [f EXCEPT !.log = log, !.dips = dips, !.target = NoCluster, !.entered = FALSE,
                    !.phase = "LANE"]
  BY DEF log, dips
<1> HIDE DEF log, dips, h
<1>10. /\ h \in EngineState /\ h.phase = "LANE" /\ h.home = f.home /\ h.sp = f.sp
       /\ Same(f, h)
  BY <1>5, <1>6, <1>8, <1>9, ZenonT(120) DEF EngineState, Same
<1> QED
  BY <1>3, <1>5, <1>10 DEF Surveys, Same

(* A tick of the rosette.                                                   *)
LEMMA OnAPetal ==
  ASSUME NEW e \in EngineState, NEW in \in Sample, e.phase = "LANE", e.home \in Spot
  PROVE  Surveys(e, RosetteTick(e, in), {"LANE", "DUMP"})
<1>0. Outer(e) \in Spot /\ "DUMP" \in Phases /\ e.phase \in Phases
  BY SpotsOfThePatterns DEF EngineState, Phases
<1>1. /\ in.hvalid \in BOOLEAN /\ in.ready \in BOOLEAN /\ in.slow \in BOOLEAN
      /\ in.elapsed \in BOOLEAN
  BY DEF Sample
<1>2. e.petal_t0 \in BOOLEAN /\ e.stage \in PetalStages /\ e.petal \in Nat
  BY DEF EngineState
<1>3. ASSUME NEW f, NEW spot \in Spot,
             f \in EngineState, f.phase \in {"LANE", "DUMP"}, f.home = e.home, Same(e, f)
      PROVE  Surveys(e, Fly(f, spot), {"LANE", "DUMP"})
  BY <1>3, Flying DEF Surveys, Same
<1>4. ASSUME NEW t0 \in BOOLEAN, NEW stage \in PetalStages, NEW petal \in Nat
      PROVE  LET g == [e EXCEPT !.petal_t0 = t0, !.stage = stage]
                 h == [e EXCEPT !.stage = stage, !.petal_t0 = t0]
                 p == [e EXCEPT !.petal = petal, !.stage = stage, !.petal_t0 = t0]
             IN  /\ g \in EngineState /\ g.phase = e.phase /\ g.home = e.home /\ Same(e, g)
                 /\ h \in EngineState /\ h.phase = e.phase /\ h.home = e.home /\ Same(e, h)
                 /\ p \in EngineState /\ p.phase = e.phase /\ p.home = e.home /\ Same(e, p)
  BY ZenonT(120) DEF EngineState, Same
<1>5. CASE e.stage = "center"
  <2> DEFINE stable == /\ in.hvalid /\ in.ready /\ Reached(in, e.home, "survey") /\ in.slow
             held == stable /\ e.petal_t0 /\ in.elapsed
             t0 == stable /\ ~held
             phase == IF held /\ e.petal >= Petals THEN "DUMP" ELSE e.phase
             stage == IF held /\ e.petal < Petals THEN "outbound" ELSE e.stage
             f == [e EXCEPT !.petal_t0 = t0, !.phase = phase, !.stage = stage]
  <2>1. t0 \in BOOLEAN /\ phase \in {"LANE", "DUMP"} /\ stage \in PetalStages
    BY <1>1, <1>2 DEF PetalStages
  <2>2. CenterTick(e, in) = Fly(f, e.home)
    BY DEF CenterTick
  <2> HIDE DEF t0, phase, stage
  <2>3. f \in EngineState /\ f.phase = phase /\ f.home = e.home /\ Same(e, f)
    <3>1. phase \in Phases
      BY <1>0, <2>1
    <3> QED
      BY <2>1, <3>1, ZenonT(120) DEF EngineState, Same
  <2> HIDE DEF f
  <2> QED
    BY <1>3, <1>5, <2>1, <2>2, <2>3 DEF RosetteTick
<1>6. CASE e.stage = "outbound"
  <2> DEFINE f == [e EXCEPT !.stage = "outer_hold", !.petal_t0 = FALSE]
  <2>1. f \in EngineState /\ f.phase = e.phase /\ f.home = e.home /\ Same(e, f)
    BY <1>2, <1>4 DEF PetalStages
  <2>2. OutboundTick(e, in) = Fly(f, Outer(e)) \/ OutboundTick(e, in) = Fly(e, Outer(e))
    BY DEF OutboundTick
  <2> HIDE DEF f
  <2> QED
    BY <1>0, <1>3, <1>6, <2>1, <2>2 DEF RosetteTick, Same
<1>7. CASE e.stage = "outer_hold"
  <2> DEFINE stable == Reached(in, Outer(e), "survey") /\ in.slow
             held == stable /\ e.petal_t0 /\ in.elapsed
             t0 == stable /\ ~held
             stage == IF held THEN "inbound" ELSE e.stage
             f == [e EXCEPT !.petal_t0 = t0, !.stage = stage]
  <2>1. t0 \in BOOLEAN /\ stage \in PetalStages
    BY <1>1, <1>2 DEF PetalStages
  <2>2. OuterHoldTick(e, in) = Fly(f, Outer(e))
    BY DEF OuterHoldTick
  <2> HIDE DEF t0, stage
  <2>3. f \in EngineState /\ f.phase = e.phase /\ f.home = e.home /\ Same(e, f)
    BY <1>2, <1>4, <2>1
  <2> HIDE DEF f
  <2> QED
    BY <1>0, <1>3, <1>7, <2>2, <2>3 DEF RosetteTick
<1>8. CASE e.stage = "inbound"
  <2> DEFINE petal == e.petal + 1
             f == [e EXCEPT !.petal = petal, !.stage = "center", !.petal_t0 = FALSE]
  <2>1. petal \in Nat
    BY <1>2
  <2>2. InboundTick(e, in) = Fly(f, e.home) \/ InboundTick(e, in) = Fly(e, e.home)
    BY DEF InboundTick
  <2> HIDE DEF petal
  <2>3. f \in EngineState /\ f.phase = e.phase /\ f.home = e.home /\ Same(e, f)
    BY <1>4, <2>1 DEF PetalStages
  <2> HIDE DEF f
  <2> QED
    BY <1>3, <1>8, <2>2, <2>3 DEF RosetteTick, Same
<1> QED
  BY <1>2, <1>5, <1>6, <1>7, <1>8 DEF PetalStages

(* A tick of the climb, which the first tick of the survey may end.          *)
LEMMA Climbing ==
  ASSUME NEW e \in EngineState, NEW in \in Sample, e.phase = "TAKEOFF", e.home \in Spot
  PROVE  Surveys(e, TakeoffTick(e, in), {"TAKEOFF", "LANE", "VERIFY_DIP", "EGRESS", "DUMP"})
<1> DEFINE f == [e EXCEPT !.phase = "LANE"]
<1>1. "LANE" \in Phases
  BY DEF Phases
<1>2. f \in EngineState /\ f.phase = "LANE" /\ f.home = e.home /\ Same(e, f)
  BY <1>1, ZenonT(120) DEF EngineState, Same
<1>3. TakeoffTick(e, in) = SurveyTick(f, in) \/ TakeoffTick(e, in) = Fly(e, e.home)
  BY DEF TakeoffTick
<1> HIDE DEF f
<1>4. Surveys(f, SurveyTick(f, in), {"LANE", "VERIFY_DIP", "EGRESS", "DUMP"})
  BY <1>2, OnALane, OnAPetal DEF SurveyTick, Surveys
<1>5. Surveys(e, Fly(e, e.home), {"TAKEOFF"})
  BY Flying DEF Surveys, Same
<1> QED
  BY <1>2, <1>3, <1>4, <1>5 DEF Surveys, Same

(* The last legs: home, the delivery, the settling and the landing.          *)
Returns(e, f, phases) ==
  f \in EngineState /\ f.phase \in phases /\ f.home = e.home /\ Same(e, f)

(* The way home arrives: to deliver, or, aborted, to settle.                *)
LEMMA Returning ==
  ASSUME NEW e \in EngineState, NEW in \in Sample
  PROVE  LET f == ReturnTick(e, in)
         IN  /\ e.phase = "EGRESS" => Returns(e, f, {"EGRESS", "DUMP"})
             /\ e.phase = "ABORT" => Returns(e, f, {"ABORT", "SETTLE"})
             /\ f.phase = "SETTLE" /\ e.phase = "ABORT" => f.settle_next = "LAND"
<1> DEFINE d == [e EXCEPT !.phase = "DUMP"]
           b == BeginSettle(e, "LAND", FALSE)
<1>1. Egress(e) \in Spot /\ "DUMP" \in Phases
  BY SpotsOfThePatterns DEF Phases
<1>2. d \in EngineState /\ d.phase = "DUMP" /\ d.home = e.home /\ Same(e, d)
  BY <1>1, ZenonT(120) DEF EngineState, Same
<1>3. b \in EngineState /\ b.phase = "SETTLE" /\ b.settle_next = "LAND" /\ Same(e, b)
  BY Settling
<1>4. b.home = e.home
  BY ZenonT(120) DEF BeginSettle, EngineState
<1>5. \/ ReturnTick(e, in) = Fly(e, Egress(e))
      \/ e.phase = "EGRESS" /\ ReturnTick(e, in) = Fly(d, Egress(e))
      \/ e.phase # "EGRESS" /\ ReturnTick(e, in) = Fly(b, Egress(e))
  BY DEF ReturnTick
<1> HIDE DEF d, b
<1> QED
  BY <1>1, <1>2, <1>3, <1>4, <1>5, Flying DEF Returns, Same

(* The log is acknowledged, the vehicle at rest, on the ground.              *)
LEMMA Ending ==
  ASSUME NEW e \in EngineState, NEW in \in Sample
  PROVE  /\ LET f == DumpTick(e)
            IN  /\ e.phase = "DUMP" => Returns(e, f, {"DUMP", "SETTLE"})
                /\ f.phase = "SETTLE" /\ e.phase = "DUMP" => e.acked /\ f.settle_next = "LAND"
         /\ LET f == SettleTick(e, in)
            IN  e.phase = "SETTLE" /\ e.settle_next = "LAND" =>
                  Returns(e, f, {"SETTLE", "LAND"}) /\ f.settle_next = "LAND"
         /\ LET f == LandTick(e, in)
            IN  e.phase = "LAND" => Returns(e, f, {"LAND", "DONE"})
<1>0. Egress(e) \in Spot
  BY SpotsOfThePatterns
<1>1. LET f == DumpTick(e)
      IN  /\ e.phase = "DUMP" => Returns(e, f, {"DUMP", "SETTLE"})
          /\ f.phase = "SETTLE" /\ e.phase = "DUMP" => e.acked /\ f.settle_next = "LAND"
  <2> DEFINE b == BeginSettle(e, "LAND", TRUE)
  <2>1. b \in EngineState /\ b.phase = "SETTLE" /\ b.settle_next = "LAND" /\ Same(e, b)
    BY Settling
  <2>2. b.home = e.home
    BY ZenonT(120) DEF BeginSettle, EngineState
  <2>3. \/ e.acked /\ DumpTick(e) = Fly(b, Egress(e))
        \/ DumpTick(e) = Fly(e, Egress(e))
    BY DEF DumpTick
  <2> HIDE DEF b
  <2> QED
    BY <1>0, <2>1, <2>2, <2>3, Flying DEF Returns, Same
<1>2. ASSUME e.phase = "SETTLE", e.settle_next = "LAND"
      PROVE  LET f == SettleTick(e, in)
             IN  Returns(e, f, {"SETTLE", "LAND"}) /\ f.settle_next = "LAND"
  <2> DEFINE steady == /\ in.hvalid /\ in.slow
                       /\ Reached(in, Egress(e), "survey")
                       /\ in.ready \/ ~e.settle_strict
             phase == IF steady /\ e.settle_t0 /\ in.elapsed THEN e.settle_next ELSE e.phase
             f == [e EXCEPT !.settle_t0 = steady, !.phase = phase]
  <2>1. steady \in BOOLEAN /\ phase \in {"SETTLE", "LAND"} /\ phase \in Phases
    BY <1>2 DEF Phases
  <2>2. SettleTick(e, in) = Fly(f, Egress(e))
    BY DEF SettleTick
  <2> HIDE DEF steady, phase
  <2>3. /\ f \in EngineState /\ f.phase = phase /\ f.home = e.home
        /\ f.settle_next = e.settle_next /\ Same(e, f)
    BY <2>1, ZenonT(120) DEF EngineState, Same
  <2> HIDE DEF f
  <2> QED
    BY <1>0, <1>2, <2>1, <2>2, <2>3, Flying DEF Returns, Same
<1>3. ASSUME e.phase = "LAND"
      PROVE  Returns(e, LandTick(e, in), {"LAND", "DONE"})
  <2> DEFINE sp == [spot |-> Egress(e), level |-> "pad"]
             d == [e EXCEPT !.phase = "DONE", !.sp = NoSetpoint]
             l == [e EXCEPT !.sp = sp]
  <2>1. sp \in Setpoint /\ "DONE" \in Phases
    BY <1>0 DEF Setpoint, Levels, Phases
  <2>2. LandTick(e, in) = d \/ LandTick(e, in) = l
    BY DEF LandTick
  <2> HIDE DEF sp
  <2>3. d \in EngineState /\ d.phase = "DONE" /\ d.home = e.home /\ Same(e, d)
    BY <2>1, ZenonT(120) DEF EngineState, Same
  <2>4. l \in EngineState /\ l.phase = e.phase /\ l.home = e.home /\ Same(e, l)
    BY <2>1, ZenonT(120) DEF EngineState, Same
  <2> HIDE DEF d, l
  <2> QED
    BY <1>3, <2>2, <2>3, <2>4 DEF Returns
<1> QED
  BY <1>1, <1>2, <1>3

-----------------------------------------------------------------------------
(* The inductive invariant: what the phase says of the other fields.         *)
UnabortedPhases ==
  {"PREFLIGHT", "OFFBOARD_SYNC", "TAKEOFF", "LANE", "VERIFY_DIP", "EGRESS", "DUMP"}

Good(e) ==
  /\ e \in EngineState
  /\ e.phase \in SurveyPhases => e.home \in Spot
  /\ e.phase = "VERIFY_DIP" => e.target \in Clusters
  /\ e.phase = "SETTLE" => e.settle_next = "LAND"
  /\ e.phase \in UnabortedPhases => ~e.aborted
  /\ e.phase = "ABORT" => e.aborted
  /\ e.phase \in {"SETTLE", "LAND", "DONE"} => e.acked \/ e.aborted

(* The moves between two phases that leave the flags alone.                  *)
Moves(e, f) ==
  /\ Same(e, f)
  /\ \/ f.phase = e.phase
     \/ /\ e.phase \in {"OFFBOARD_SYNC"} \cup SurveyPhases
        /\ f.phase \in SurveyPhases \cup {"EGRESS", "DUMP"}
     \/ e.phase = "EGRESS" /\ f.phase = "DUMP"
     \/ e.phase = "ABORT" /\ f.phase = "SETTLE"
     \/ e.phase = "DUMP" /\ f.phase = "SETTLE" /\ e.acked
     \/ e.phase = "SETTLE" /\ f.phase = "LAND"
     \/ e.phase = "LAND" /\ f.phase = "DONE"

(* The handler of the phase keeps the invariant, makes a legal move, and a   *)
(* survey it goes on with has a setpoint.                                   *)
LEMMA Handling ==
  ASSUME NEW e, Good(e), NEW in \in Sample
  PROVE  LET f == PhaseTick(e, in)
         IN  /\ Good(f) /\ Moves(e, f)
             /\ f.phase \in {"LANE", "VERIFY_DIP"} => f.sp \in Setpoint
<1> SUFFICES ASSUME NEW f, f = PhaseTick(e, in)
             PROVE  /\ Good(f) /\ Moves(e, f)
                    /\ f.phase \in {"LANE", "VERIFY_DIP"} => f.sp \in Setpoint
  OBVIOUS
<1>0. e \in EngineState /\ e.phase \in Phases
  BY DEF Good, EngineState
<1>1. CASE e.phase \in {"PREFLIGHT", "DONE"}
  <2> DEFINE g == [e EXCEPT !.sp = NoSetpoint]
  <2>1. f = g
    BY <1>1 DEF PhaseTick
  <2>2. g \in EngineState /\ g.phase = e.phase /\ g.home = e.home /\ Same(e, g)
    BY <1>0, ZenonT(120) DEF EngineState, Same
  <2> HIDE DEF g
  <2> QED
    BY <1>1, <2>1, <2>2 DEF Good, Moves, Same, SurveyPhases, UnabortedPhases
<1>2. CASE e.phase = "OFFBOARD_SYNC"
  <2>1. f = SyncTick(e, in)
    BY <1>2 DEF PhaseTick
  <2>2. f \in EngineState /\ f.phase \in {e.phase, "TAKEOFF"} /\ f.home \in Spot /\ Same(e, f)
    BY <1>0, <2>1, Syncing
  <2> QED
    BY <1>2, <2>2 DEF Good, Moves, Same, SurveyPhases, UnabortedPhases
<1>3. CASE e.phase \in SurveyPhases
  <2>1. Surveys(e, f, SurveyPhases \cup {"EGRESS", "DUMP"})
    <3>1. CASE e.phase = "TAKEOFF"
      <4>1. f = TakeoffTick(e, in)
        BY <3>1 DEF PhaseTick
      <4> QED
        BY <1>0, <1>3, <3>1, <4>1, Climbing DEF Good, Surveys, SurveyPhases
    <3>2. CASE e.phase = "LANE"
      <4>1. f = SurveyTick(e, in)
        BY <3>2 DEF PhaseTick
      <4>2. e.home \in Spot
        BY <1>3 DEF Good
      <4>3. Surveys(e, LaneTick(e, in), {"LANE", "VERIFY_DIP", "EGRESS"})
        BY <1>0, <3>2, OnALane
      <4>4. Surveys(e, RosetteTick(e, in), {"LANE", "DUMP"})
        BY <1>0, <3>2, <4>2, OnAPetal
      <4> QED
        BY <4>1, <4>3, <4>4 DEF SurveyTick, Surveys, SurveyPhases
    <3>3. CASE e.phase = "VERIFY_DIP"
      <4>1. f = DipTick(e, in)
        BY <3>3 DEF PhaseTick
      <4> QED
        BY <1>0, <3>3, <4>1, Dipping DEF Good, Surveys, SurveyPhases
    <3> QED
      BY <1>3, <3>1, <3>2, <3>3 DEF SurveyPhases
  <2> QED
    BY <1>3, <2>1 DEF Surveys, Good, Moves, Same, SurveyPhases, UnabortedPhases
<1>4. CASE e.phase \in {"EGRESS", "ABORT"}
  <2>1. f = ReturnTick(e, in)
    BY <1>4 DEF PhaseTick
  <2> QED
    BY <1>0, <1>4, <2>1, Returning DEF Returns, Good, Moves, Same, SurveyPhases, UnabortedPhases
<1>5. CASE e.phase = "SETTLE"
  <2>1. f = SettleTick(e, in)
    BY <1>5 DEF PhaseTick
  <2> QED
    BY <1>0, <1>5, <2>1, Ending DEF Returns, Good, Moves, Same, SurveyPhases, UnabortedPhases
<1>6. CASE e.phase = "DUMP"
  <2>1. f = DumpTick(e)
    BY <1>6 DEF PhaseTick
  <2> QED
    BY <1>0, <1>6, <2>1, Ending DEF Returns, Good, Moves, Same, SurveyPhases, UnabortedPhases
<1>7. CASE e.phase = "LAND"
  <2>1. f = LandTick(e, in)
    BY <1>7 DEF PhaseTick
  <2> QED
    BY <1>0, <1>7, <2>1, Ending DEF Returns, Good, Moves, Same, SurveyPhases, UnabortedPhases
<1> QED
  BY <1>0, <1>1, <1>2, <1>3, <1>4, <1>5, <1>6, <1>7 DEF Phases, SurveyPhases

(* An abort makes the mission an aborted one, unless it is over.             *)
LEMMA AbortIsGood ==
  ASSUME NEW e, Good(e)
  PROVE  Good(Abort(e))
<1>1. e \in EngineState
  BY DEF Good
<1>2. CASE e.phase \in {"ABORT", "DONE"}
  BY <1>2 DEF Abort
<1>3. CASE e.phase \notin {"ABORT", "DONE"}
  BY <1>1, <1>3, Aborting DEF Good, SurveyPhases, UnabortedPhases
<1> QED
  BY <1>2, <1>3

(* The guards let the engine be, note that it is inside, or abort.           *)
LEMMA Guarding ==
  ASSUME NEW e, Good(e), NEW in \in Sample
  PROVE  LET g == CheckAborts(e, in)
         IN  /\ Good(g)
             /\ \/ g.phase = e.phase /\ Same(e, g)
                \/ e.phase # "DONE" /\ g = Abort(e) /\ g.phase = "ABORT"
<1> DEFINE n == [e EXCEPT !.engaged = TRUE]
<1>1. e \in EngineState
  BY DEF Good
<1>2. /\ n \in EngineState /\ n.phase = e.phase /\ n.home = e.home /\ n.target = e.target
      /\ n.settle_next = e.settle_next /\ Same(e, n)
  BY <1>1, ZenonT(120) DEF EngineState, Same
<1>3. \/ CheckAborts(e, in) = e \/ CheckAborts(e, in) = n
      \/ e.phase \notin {"ABORT", "DONE"} /\ CheckAborts(e, in) = Abort(e)
  BY DEF CheckAborts, UnguardedPhases
<1> HIDE DEF n
<1>4. Good(n)
  BY <1>2 DEF Good, Same
<1> QED
  BY <1>1, <1>2, <1>3, <1>4, AbortIsGood, Aborting DEF Same

-----------------------------------------------------------------------------
(* A whole tick.                                                            *)

(* An abort and the first leg of the way home.                               *)
Aborts(e, f) ==
  /\ e.phase # "DONE"
  /\ f.aborted /\ f.acked = e.acked /\ f.phase \in {"ABORT", "SETTLE"}

(* A tick keeps the invariant, moves on or aborts, and what is surveyed next  *)
(* is inside the fence.                                                     *)
LEMMA Ticking ==
  ASSUME NEW e, Good(e), NEW in \in Sample
  PROVE  LET f == Tick(e, in)
         IN  /\ Good(f) /\ (Moves(e, f) \/ Aborts(e, f))
             /\ f.phase \in {"LANE", "VERIFY_DIP"} => ~OutsideFence(f, f.sp.spot)
<1>1. PICK g : g = CheckAborts(e, in)
  OBVIOUS
<1>2. /\ Good(g)
      /\ \/ g.phase = e.phase /\ Same(e, g)
         \/ e.phase # "DONE" /\ g = Abort(e) /\ g.phase = "ABORT"
  BY <1>1, Guarding
<1>3. PICK f : f = PhaseTick(g, in)
  OBVIOUS
<1>4. /\ Good(f) /\ Moves(g, f)
      /\ f.phase \in {"LANE", "VERIFY_DIP"} => f.sp \in Setpoint
  BY <1>2, <1>3, Handling
<1>5. Moves(e, f) \/ Aborts(e, f)
  <2>1. CASE g.phase = e.phase /\ Same(e, g)
    BY <1>4, <2>1 DEF Moves, Same
  <2>2. CASE e.phase # "DONE" /\ g = Abort(e) /\ g.phase = "ABORT"
    <3>1. g.aborted /\ g.acked = e.acked
      BY <1>2, <2>2, Aborting DEF Good
    <3> QED
      BY <1>4, <2>2, <3>1 DEF Moves, Same, Aborts, SurveyPhases
  <2> QED
    BY <1>2, <2>1, <2>2
<1>6. CASE ~CommandViolation(f)
  <2>1. Tick(e, in) = f
    BY <1>1, <1>3, <1>6 DEF Tick
  <2>2. ASSUME f.phase \in {"LANE", "VERIFY_DIP"}
        PROVE  ~OutsideFence(f, f.sp.spot)
    <3>1. f.sp # NoSetpoint /\ CommandFenced(f)
      BY <1>4, <2>2, EngineConstants DEF CommandFenced, SurveyPhases
    <3> QED
      BY <1>6, <3>1 DEF CommandViolation
  <2> QED
    BY <1>4, <1>5, <2>1, <2>2
<1>7. CASE CommandViolation(f)
  <2>1. PICK h : h = PhaseTick(Abort(f), in)
    OBVIOUS
  <2>2. Tick(e, in) = h
    BY <1>1, <1>3, <1>7, <2>1 DEF Tick
  <2>3. f.phase \in SurveyPhases
    BY <1>7 DEF CommandViolation, CommandFenced, SurveyPhases
  <2>4. /\ Good(Abort(f)) /\ Abort(f).phase = "ABORT" /\ Abort(f).aborted
        /\ Abort(f).acked = f.acked
    BY <1>4, <2>3, AbortIsGood, Aborting DEF Good, SurveyPhases
  <2>5. Good(h) /\ Moves(Abort(f), h)
    BY <2>1, <2>4, Handling
  <2>6. f.acked = e.acked /\ e.phase # "DONE"
    BY <1>5, <2>3 DEF Moves, Same, Aborts, SurveyPhases
  <2>7. Aborts(e, h) /\ h.phase \notin {"LANE", "VERIFY_DIP"}
    BY <2>4, <2>5, <2>6 DEF Moves, Same, Aborts, SurveyPhases
  <2> QED
    BY <2>2, <2>5, <2>7
<1> QED
  BY <1>6, <1>7

-----------------------------------------------------------------------------
(* The other methods.                                                       *)

(* What a method that is not about the phase leaves alone.                   *)
Kept(e, f) ==
  /\ f \in EngineState /\ f.phase = e.phase /\ f.home = e.home /\ f.target = e.target
  /\ f.settle_next = e.settle_next /\ f.aborted = e.aborted /\ f.sp = e.sp
  /\ e.acked => f.acked

(* A detector message, a reset counter and an observation keep the phase.    *)
LEMMA Noting ==
  ASSUME NEW e \in EngineState
  PROVE  /\ Kept(e, NoteDetectorAlive(e)) /\ NoteDetectorAlive(e).acked = e.acked
         /\ \A c \in 0 .. CounterMod - 1 :
              Kept(e, NoteResetCounter(e, c)) /\ NoteResetCounter(e, c).acked = e.acked
         /\ \A c \in Clusters, tagged \in BOOLEAN, enough \in BOOLEAN :
              Kept(e, Ingest(e, c, tagged, enough)) /\ Ingest(e, c, tagged, enough).acked = e.acked
<1>1. Kept(e, NoteDetectorAlive(e)) /\ NoteDetectorAlive(e).acked = e.acked
  BY ZenonT(120) DEF NoteDetectorAlive, Kept, EngineState
<1>2. ASSUME NEW c \in 0 .. CounterMod - 1
      PROVE  Kept(e, NoteResetCounter(e, c)) /\ NoteResetCounter(e, c).acked = e.acked
  <2> DEFINE n == IF e.counter = NoCounter THEN e.resets ELSE e.resets + AbsDiff(c, e.counter)
             f == [e EXCEPT !.counter = c, !.resets = n]
  <2>1. n \in Nat /\ c \in (0 .. CounterMod - 1) \cup {NoCounter}
    BY EngineConstants DEF EngineState, AbsDiff
  <2>2. NoteResetCounter(e, c) = f
    BY DEF NoteResetCounter
  <2> HIDE DEF n
  <2>3. Kept(e, f) /\ f.acked = e.acked
    BY <2>1, ZenonT(120) DEF Kept, EngineState
  <2> HIDE DEF f
  <2> QED
    BY <2>2, <2>3
<1>3. ASSUME NEW c \in Clusters, NEW tagged \in BOOLEAN, NEW enough \in BOOLEAN
      PROVE  /\ Kept(e, Ingest(e, c, tagged, enough))
             /\ Ingest(e, c, tagged, enough).acked = e.acked
  <2> DEFINE standing == CASE tagged -> "verified"
                         [] ~tagged /\ e.log[c] = "absent" -> "candidate"
                         [] ~tagged /\ e.log[c] = "candidate" /\ enough -> "confirmed"
                         [] OTHER -> e.log[c]
             log == [e.log EXCEPT ![c] = standing]
             f == [e EXCEPT !.log = log]
  <2>1. e.log \in [Clusters -> Statuses] /\ e.log[c] \in Statuses
    BY DEF EngineState
  <2>2. standing \in Statuses
    BY <2>1 DEF Statuses
  <2>3. Ingest(e, c, tagged, enough) = f
    BY DEF Ingest
  <2> HIDE DEF standing
  <2>4. log \in [Clusters -> Statuses]
    BY <2>1, <2>2
  <2> HIDE DEF log
  <2>5. Kept(e, f) /\ f.acked = e.acked
    BY <2>4, ZenonT(120) DEF Kept, EngineState
  <2> HIDE DEF f
  <2> QED
    BY <2>3, <2>5
<1> QED
  BY <1>1, <1>2, <1>3

(* The reply to a dump acknowledges it, counts a failure, or gives it up.    *)
LEMMA Replying ==
  ASSUME NEW e, Good(e), NEW ok \in BOOLEAN
  PROVE  LET f == NotifyDumpResult(e, ok)
         IN  /\ Good(f)
             /\ \/ f = e \/ Aborts(e, f)
                \/ Kept(e, f) /\ f.acked = e.acked
                \/ Kept(e, f) /\ f.acked = TRUE /\ e.phase = "DUMP"
<1> DEFINE a == [e EXCEPT !.acked = TRUE]
           n == e.attempts + 1
           b == [e EXCEPT !.attempts = n]
<1>1. e \in EngineState
  BY DEF Good
<1>2. n \in Nat
  BY <1>1 DEF EngineState
<1>3. \/ NotifyDumpResult(e, ok) = e
      \/ e.phase = "DUMP" /\ NotifyDumpResult(e, ok) = a
      \/ e.phase = "DUMP" /\ NotifyDumpResult(e, ok) = b
      \/ e.phase = "DUMP" /\ NotifyDumpResult(e, ok) = Abort(b)
  BY DEF NotifyDumpResult
<1> HIDE DEF n
<1>4. Kept(e, a) /\ a.acked = TRUE
  BY <1>1, ZenonT(120) DEF Kept, EngineState
<1>5. Kept(e, b) /\ b.acked = e.acked
  BY <1>1, <1>2, ZenonT(120) DEF Kept, EngineState
<1> HIDE DEF a, b
<1>6. Good(a) /\ Good(b)
  BY <1>4, <1>5 DEF Good, Kept
<1>7. e.phase = "DUMP" => Good(Abort(b)) /\ Aborts(e, Abort(b))
  BY <1>5, <1>6, AbortIsGood, Aborting DEF Kept, Aborts
<1> QED
  BY <1>3, <1>4, <1>5, <1>6, <1>7

(* All that a method may do to what the life cycle sees.                     *)
Changes(e, f) ==
  \/ Moves(e, f) \/ Aborts(e, f)
  \/ e.phase = "PREFLIGHT" /\ f.phase = "OFFBOARD_SYNC" /\ Same(e, f)
  \/ e.phase = "DUMP" /\ f.phase = "DUMP" /\ f.aborted = e.aborted /\ f.acked = TRUE

(* An engine that keeps its phase, home and setpoint stays inside the fence.  *)
LEMMA KeepsInside ==
  ASSUME NEW e, NEW f, Kept(e, f), Good(e),
         e.phase \in {"LANE", "VERIFY_DIP"} => ~OutsideFence(e, e.sp.spot)
  PROVE  /\ Good(f)
         /\ f.phase \in {"LANE", "VERIFY_DIP"} => ~OutsideFence(f, f.sp.spot)
<1>1. Good(f)
  BY DEF Good, Kept
<1>2. OutsideFence(f, f.sp.spot) = OutsideFence(e, e.sp.spot)
  BY DEF Kept, OutsideFence
<1> QED
  BY <1>1, <1>2 DEF Kept

-----------------------------------------------------------------------------
(* The record of a survey: its coverage and its dips.  First the handlers that *)
(* leave it alone.                                                          *)

(* The fields the survey is recorded in, and those the dips are.             *)
Track(e, f) ==
  /\ f.covered = e.covered /\ f.lane = e.lane /\ f.along = e.along
  /\ f.petal = e.petal /\ f.stage = e.stage
Dips(e, f) == f.log = e.log /\ f.dips = e.dips /\ f.target = e.target
Rests(e, f) == Track(e, f) /\ Dips(e, f)

LEMMA RestsOn ==
  ASSUME NEW e, NEW f, NEW g, Rests(e, f), Rests(f, g)
  PROVE  Rests(e, g)
BY DEF Rests, Track, Dips

(* A setpoint, an abort, the end of a leg: nothing of the survey changes.    *)
LEMMA Resting ==
  ASSUME NEW e \in EngineState
  PROVE  /\ \A spot : Rests(e, Fly(e, spot))
         /\ Rests(e, Abort(e))
         /\ \A strict : Rests(e, BeginSettle(e, "LAND", strict))
         /\ Rests(e, [e EXCEPT !.engaged = TRUE])
         /\ Rests(e, [e EXCEPT !.sp = NoSetpoint])
         /\ \A p : Rests(e, [e EXCEPT !.phase = p]) /\ [e EXCEPT !.phase = p].phase = p
         /\ \A t, p : Rests(e, [e EXCEPT !.settle_t0 = t, !.phase = p])
         /\ \A p, sp : Rests(e, [e EXCEPT !.phase = p, !.sp = sp])
         /\ \A h, p, o, sp : Rests(e, [e EXCEPT !.home = h, !.phase = p, !.took_off = o, !.sp = sp])
<1>1. ASSUME NEW spot PROVE Rests(e, Fly(e, spot))
  BY ZenonT(120) DEF Fly, EngineState, Rests, Track, Dips
<1>2. Rests(e, [e EXCEPT !.phase = "ABORT", !.aborted = TRUE])
  BY ZenonT(120) DEF EngineState, Rests, Track, Dips
<1>3. Rests(e, Abort(e))
  BY <1>2 DEF Abort, Rests, Track, Dips
<1>4. ASSUME NEW strict PROVE Rests(e, BeginSettle(e, "LAND", strict))
  BY ZenonT(120) DEF BeginSettle, EngineState, Rests, Track, Dips
<1>5. Rests(e, [e EXCEPT !.engaged = TRUE]) /\ Rests(e, [e EXCEPT !.sp = NoSetpoint])
  BY ZenonT(120) DEF EngineState, Rests, Track, Dips
<1>6. ASSUME NEW p PROVE Rests(e, [e EXCEPT !.phase = p]) /\ [e EXCEPT !.phase = p].phase = p
  BY ZenonT(120) DEF EngineState, Rests, Track, Dips
<1>7. ASSUME NEW t, NEW p PROVE Rests(e, [e EXCEPT !.settle_t0 = t, !.phase = p])
  BY ZenonT(120) DEF EngineState, Rests, Track, Dips
<1>8. ASSUME NEW p, NEW sp PROVE Rests(e, [e EXCEPT !.phase = p, !.sp = sp])
  BY ZenonT(120) DEF EngineState, Rests, Track, Dips
<1>9. ASSUME NEW h, NEW p, NEW o, NEW sp
      PROVE  Rests(e, [e EXCEPT !.home = h, !.phase = p, !.took_off = o, !.sp = sp])
  BY ZenonT(120) DEF EngineState, Rests, Track, Dips
<1> QED
  BY <1>1, <1>3, <1>4, <1>5, <1>6, <1>7, <1>8, <1>9

(* Flying on from there neither.                                             *)
LEMMA FlyingOn ==
  ASSUME NEW e, NEW f \in EngineState, Rests(e, f), NEW spot
  PROVE  Rests(e, Fly(f, spot))
<1>1. Rests(f, Fly(f, spot))
  BY Resting
<1> QED
  BY <1>1, RestsOn

(* Outside the survey phases the handlers leave its record alone.            *)
LEMMA LegsRest ==
  ASSUME NEW e \in EngineState, NEW in \in Sample, e.phase \notin SurveyPhases
  PROVE  Rests(e, PhaseTick(e, in))
<1>1. Egress(e) \in Spot /\ e.phase \in Phases
  BY SpotsOfThePatterns DEF EngineState
<1>2. Rests(e, SyncTick(e, in))
  BY Resting DEF SyncTick
<1>3. Rests(e, ReturnTick(e, in))
  <2> DEFINE d == [e EXCEPT !.phase = "DUMP"]
             b == BeginSettle(e, "LAND", FALSE)
  <2>1. \/ ReturnTick(e, in) = Fly(e, Egress(e))
        \/ ReturnTick(e, in) = Fly(d, Egress(e))
        \/ ReturnTick(e, in) = Fly(b, Egress(e))
    BY DEF ReturnTick
  <2>2. d \in EngineState /\ b \in EngineState /\ Rests(e, d) /\ Rests(e, b)
    <3>1. "DUMP" \in Phases
      BY DEF Phases
    <3>2. d \in EngineState
      BY <3>1, ZenonT(120) DEF EngineState
    <3> QED
      BY <3>2, Resting, Settling
  <2> HIDE DEF d, b
  <2> QED
    BY <2>1, <2>2, FlyingOn DEF Rests, Track, Dips
<1>4. Rests(e, DumpTick(e))
  <2> DEFINE b == BeginSettle(e, "LAND", TRUE)
  <2>1. DumpTick(e) = Fly(e, Egress(e)) \/ DumpTick(e) = Fly(b, Egress(e))
    BY DEF DumpTick
  <2>2. b \in EngineState /\ Rests(e, b)
    BY Resting, Settling
  <2> HIDE DEF b
  <2> QED
    BY <2>1, <2>2, FlyingOn DEF Rests, Track, Dips
<1>5. Rests(e, SettleTick(e, in))
  <2> DEFINE steady == /\ in.hvalid /\ in.slow
                       /\ Reached(in, Egress(e), "survey")
                       /\ in.ready \/ ~e.settle_strict
             phase == IF steady /\ e.settle_t0 /\ in.elapsed THEN e.settle_next ELSE e.phase
             f == [e EXCEPT !.settle_t0 = steady, !.phase = phase]
  <2>1. steady \in BOOLEAN /\ phase \in Phases
    <3>1. e.settle_next \in {"DUMP", "LAND"}
      BY DEF EngineState
    <3> QED
      BY <1>1, <3>1 DEF Phases
  <2>2. SettleTick(e, in) = Fly(f, Egress(e))
    BY DEF SettleTick
  <2>3. Rests(e, f)
    BY Resting
  <2> HIDE DEF steady, phase
  <2>4. f \in EngineState
    BY <2>1, ZenonT(120) DEF EngineState
  <2> HIDE DEF f
  <2> QED
    BY <2>2, <2>3, <2>4, FlyingOn
<1>6. Rests(e, LandTick(e, in)) 
  <2>1. ASSUME NEW sp PROVE Rests(e, [e EXCEPT !.sp = sp])
    BY ZenonT(120) DEF EngineState, Rests, Track, Dips
  <2> QED
    BY <2>1, Resting DEF LandTick
<1> QED
  BY <1>1, <1>2, <1>3, <1>4, <1>5, <1>6, Resting DEF PhaseTick, Phases, SurveyPhases

-----------------------------------------------------------------------------
(* What is surveyed.                                                        *)

Steps == Lanes \X (0 .. Rows - 1)
(* The lanes before lane i, and the first k steps on it.                     *)
Prefix(i, k) == {s \in Steps : s[1] < i \/ (s[1] = i /\ s[2] < k)}

LEMMA PrefixGrows ==
  ASSUME NEW i \in Lanes, NEW a \in 0 .. Rows, NEW s \in 0 .. Rows
  PROVE  Prefix(i, a) \cup {<<i, k>> : k \in a .. s - 1} = Prefix(i, IF s > a THEN s ELSE a)
<1> DEFINE m == IF s > a THEN s ELSE a
           new == {<<i, k>> : k \in a .. s - 1}
<1>0. Rows \in Nat /\ NLanes \in Nat
  BY EngineConstants
<1>1. ASSUME NEW x \in Prefix(i, a) \cup new PROVE x \in Prefix(i, m)
  <2>1. CASE x \in Prefix(i, a)
    BY <1>0, <2>1 DEF Prefix, Steps, Lanes
  <2>2. CASE x \in new
    <3>1. PICK k \in a .. s - 1 : x = <<i, k>>
      BY <2>2
    <3>2. k \in 0 .. Rows - 1 /\ k < m
      BY <1>0, <3>1
    <3>3. x \in Steps /\ x[1] = i /\ x[2] = k
      BY <3>1, <3>2 DEF Steps
    <3> QED
      BY <3>2, <3>3 DEF Prefix
  <2> QED
    BY <1>1, <2>1, <2>2
<1>2. ASSUME NEW x \in Prefix(i, m) PROVE x \in Prefix(i, a) \cup new
  <2>1. x \in Steps /\ x[1] \in Lanes /\ x[2] \in 0 .. Rows - 1 /\ x = <<x[1], x[2]>>
    BY <1>2 DEF Prefix, Steps
  <2>2. CASE x[1] < i \/ (x[1] = i /\ x[2] < a)
    BY <2>1, <2>2 DEF Prefix
  <2>3. CASE x[1] = i /\ ~(x[2] < a)
    <3>1. x[2] < m
      BY <1>0, <1>2, <2>1, <2>3 DEF Prefix, Lanes
    <3>2. x[2] \in a .. s - 1
      BY <1>0, <2>1, <2>3, <3>1
    <3> QED
      BY <2>1, <2>3, <3>2
  <2> QED
    BY <1>0, <1>2, <2>1, <2>2, <2>3 DEF Prefix
<1> QED
  BY <1>1, <1>2

(* A lane flown to its end is a lane before the next one.                    *)
LEMMA PrefixTurns ==
  ASSUME NEW i \in Lanes
  PROVE  /\ Prefix(i, Rows) = Prefix(i + 1, 0)
         /\ ~(i + 1 < NLanes) => Prefix(i, Rows) = Steps
<1>0. Rows \in Nat /\ NLanes \in Nat
  BY EngineConstants
<1>1. \A x \in Steps : x[1] \in 0 .. NLanes - 1 /\ x[2] \in 0 .. Rows - 1
  BY DEF Steps, Lanes
<1>2. i \in 0 .. NLanes - 1
  BY DEF Lanes
<1>3. \A x \in Steps : (x[1] < i \/ (x[1] = i /\ x[2] < Rows)) <=> (x[1] < i + 1 \/ (x[1] = i + 1 /\ x[2] < 0))
  BY <1>0, <1>1, <1>2
<1>4. ~(i + 1 < NLanes) => \A x \in Steps : x[1] < i \/ (x[1] = i /\ x[2] < Rows)
  BY <1>0, <1>1, <1>2
<1> QED
  BY <1>3, <1>4 DEF Prefix

Homeward == {"EGRESS", "DUMP", "SETTLE", "LAND", "DONE"}
Whole(e) == IF Pattern = "serpentine" THEN e.covered = Steps ELSE e.petal = Petals

(* The record of the survey: exactly what lies behind, and all of it on the  *)
(* way home.                                                                *)
Surveyed(e) ==
  /\ Pattern = "serpentine" => e.covered = Prefix(e.lane, e.along)
  /\ Pattern # "serpentine" => /\ e.petal <= Petals
                               /\ e.stage # "center" => e.petal < Petals
                               /\ e.phase \notin {"VERIFY_DIP", "EGRESS"}
  /\ ~e.aborted /\ e.phase \in Homeward => Whole(e)

(* The dips: within the budget, over clusters no dip is completed over yet.  *)
Spends(e, D) ==
  /\ e.dips <= MaxDips
  /\ e.phase = "VERIFY_DIP" => e.dips < MaxDips /\ e.target \notin D
  /\ \A c \in D : e.log[c] \in {"dipped", "verified"}

(* The legs keep both.                                                      *)
LEMMA LegsSurvey ==
  ASSUME NEW e, NEW f, NEW D, Good(e), Surveyed(e), Spends(e, D), Rests(e, f), Moves(e, f),
         e.phase \notin SurveyPhases,
         e.phase = "OFFBOARD_SYNC" => f.phase \in {"OFFBOARD_SYNC", "TAKEOFF"}
  PROVE  Surveyed(f) /\ Spends(f, D) /\ f.dips = e.dips
<1>1. Track(e, f) /\ Dips(e, f) /\ f.aborted = e.aborted
  BY DEF Rests, Moves, Same
<1>2. /\ f.phase \in {"VERIFY_DIP", "EGRESS"} => f.phase = e.phase
      /\ f.phase # "VERIFY_DIP"
  BY DEF Moves, SurveyPhases
<1>3. ~f.aborted /\ f.phase \in Homeward => Whole(f)
  <2>1. ~f.aborted /\ f.phase \in Homeward => e.phase \in Homeward
    BY <1>1 DEF Moves, SurveyPhases, Homeward, Good
  <2> QED
    BY <1>1, <2>1 DEF Surveyed, Whole, Track
<1>4. Surveyed(f)
  BY <1>1, <1>2, <1>3 DEF Surveyed, Track
<1>5. Spends(f, D)
  BY <1>1, <1>2 DEF Spends, Dips
<1> QED
  BY <1>1, <1>4, <1>5 DEF Dips

(* So does an abort, and what changes neither the record nor the phase.      *)
LEMMA AbortSurveys ==
  ASSUME NEW e, NEW D, Good(e), Surveyed(e), Spends(e, D)
  PROVE  Surveyed(Abort(e)) /\ Spends(Abort(e), D) /\ Abort(e).dips = e.dips
<1>1. e \in EngineState
  BY DEF Good
<1>2. CASE e.phase \in {"ABORT", "DONE"}
  BY <1>1, <1>2, Aborting
<1>3. CASE e.phase \notin {"ABORT", "DONE"}
  <2>1. Abort(e).phase = "ABORT" /\ Track(e, Abort(e)) /\ Dips(e, Abort(e))
    BY <1>1, <1>3, Aborting, Resting DEF Rests
  <2> QED
    BY <2>1 DEF Surveyed, Spends, Track, Dips, Homeward
<1> QED
  BY <1>2, <1>3

(* The steps on a lane.                                                     *)
LEMMA AdvanceTracks ==
  ASSUME NEW e \in EngineState, NEW in \in Sample
  PROVE  LET f == Advance(e, in)
             s == AlongLane(e.lane, in.spot)
         IN  /\ f.covered = e.covered \cup {<<e.lane, k>> : k \in e.along .. s - 1}
             /\ f.along = IF s > e.along THEN s ELSE e.along
             /\ f.lane = e.lane /\ f.petal = e.petal /\ f.stage = e.stage /\ Dips(e, f)
<1> DEFINE s == AlongLane(e.lane, in.spot)
           along == IF s > e.along THEN s ELSE e.along
           covered == e.covered \cup {<<e.lane, k>> : k \in e.along .. s - 1}
           f == [e EXCEPT !.entered = TRUE, !.along = along, !.covered = covered]
<1>1. Advance(e, in) = f
  BY DEF Advance
<1> HIDE DEF along, covered
<1>2. /\ f.covered = covered /\ f.along = along
      /\ f.lane = e.lane /\ f.petal = e.petal /\ f.stage = e.stage /\ Dips(e, f)
  BY ZenonT(120) DEF EngineState, Dips
<1> QED
  BY <1>1, <1>2 DEF along, covered

LEMMA AdvanceSurveys ==
  ASSUME NEW e \in EngineState, NEW in \in Sample, Pattern = "serpentine",
         e.covered = Prefix(e.lane, e.along)
  PROVE  LET f == Advance(e, in)
         IN  f.covered = Prefix(f.lane, f.along)
<1> DEFINE s == AlongLane(e.lane, in.spot)
           f == Advance(e, in)
<1>1. e.lane \in Lanes /\ e.along \in 0 .. Rows /\ s \in 0 .. Rows
  BY SpotsOfThePatterns DEF EngineState, Sample
<1>2. /\ f.covered = Prefix(e.lane, e.along) \cup {<<e.lane, k>> : k \in e.along .. s - 1}
      /\ f.along = (IF s > e.along THEN s ELSE e.along) /\ f.lane = e.lane
  BY AdvanceTracks
<1> HIDE DEF f, s
<1>3. Prefix(e.lane, e.along) \cup {<<e.lane, k>> : k \in e.along .. s - 1}
      = Prefix(e.lane, IF s > e.along THEN s ELSE e.along)
  BY <1>1, PrefixGrows
<1>4. f.covered = Prefix(f.lane, f.along)
  BY <1>2, <1>3
<1> QED
  BY <1>4 DEF f

(* The end of a lane is where its last step is flown.                        *)
LEMMA EndOfLane ==
  ASSUME NEW e \in EngineState, NEW in \in Sample, Reached(in, PointAt(e.lane, Rows), "survey")
  PROVE  Advance(e, in).along = Rows
<1>0. Rows \in Nat \ {0} /\ e.lane \in Lanes /\ e.along \in 0 .. Rows
  BY EngineConstants DEF EngineState
<1>1. in.spot = IF e.lane % 2 = 0 THEN <<Rows, e.lane>> ELSE <<0, e.lane>>
  BY <1>0 DEF Reached, PointAt
<1>2. AlongLane(e.lane, in.spot) = Rows
  BY <1>0, <1>1 DEF AlongLane, Clamp
<1> QED
  BY <1>0, <1>2, AdvanceTracks

(* What a tick does to the record: the survey goes on, and a dip completed    *)
(* is the next one of the budget, over a cluster that had none.              *)
Carries(e, f, D) ==
  /\ Surveyed(f)
  /\ \/ f.dips = e.dips /\ Spends(f, D)
     \/ /\ e.phase = "VERIFY_DIP" /\ f.dips > e.dips
        /\ e.target \in Clusters \ D /\ Spends(f, D \cup {e.target})

(* A setpoint changes nothing of it.                                        *)
LEMMA FlyCarries ==
  ASSUME NEW e, NEW f \in EngineState, NEW D, NEW spot \in Spot, Carries(e, f, D)
  PROVE  Carries(e, Fly(f, spot), D)
<1>1. PICK g : g = Fly(f, spot)
  OBVIOUS
<1>2. Track(f, g) /\ Dips(f, g) /\ g.phase = f.phase /\ g.aborted = f.aborted
  BY <1>1, Resting, Flying DEF Rests, Same
<1>3. Surveyed(g)
  BY <1>2 DEF Carries, Surveyed, Track, Whole
<1>4. \A E : Spends(f, E) => Spends(g, E)
  BY <1>2 DEF Spends, Dips
<1>5. g.dips = f.dips
  BY <1>2 DEF Dips
<1> QED
  BY <1>1, <1>3, <1>4, <1>5 DEF Carries

(* The end of a lane, with the lane flown to its end.                        *)
LEMMA FinishCarries ==
  ASSUME NEW e, NEW D, Good(e), e.phase = "LANE", Spends(e, D), Pattern = "serpentine",
         e.along = Rows, e.covered = Prefix(e.lane, Rows)
  PROVE  Surveyed(FinishLane(e)) /\ Spends(FinishLane(e), D) /\ FinishLane(e).dips = e.dips
<1> DEFINE covered == e.covered \cup {<<e.lane, k>> : k \in e.along .. Rows - 1}
           c == [e EXCEPT !.covered = covered]
           next == e.lane + 1
           g == [c EXCEPT !.lane = next, !.along = 0, !.entered = FALSE]
           h == [c EXCEPT !.phase = "EGRESS"]
<1>0. /\ e \in EngineState /\ ~e.aborted /\ e.lane \in Lanes /\ Rows \in Nat \ {0} /\ NLanes \in Nat
      /\ e.covered \in SUBSET (Lanes \X (0 .. Rows - 1)) /\ Rows \in 0 .. Rows
  BY EngineConstants DEF Good, EngineState, UnabortedPhases
<1>1. covered = e.covered
  <2>1. \A k \in Rows .. Rows - 1 : FALSE
    BY <1>0
  <2> QED
    BY <2>1
<1>2. /\ Prefix(e.lane, Rows) = Prefix(next, 0)
      /\ ~(next < NLanes) => Prefix(e.lane, Rows) = Steps
  BY <1>0, PrefixTurns
<1>3. covered = Prefix(e.lane, Rows)
  BY <1>1
<1> HIDE DEF covered
<1>4. /\ c \in EngineState /\ c.phase = "LANE" /\ c.aborted = e.aborted
      /\ c.covered = covered /\ c.lane = e.lane /\ c.along = Rows /\ Dips(e, c)
  BY <1>0, <1>1, ZenonT(120) DEF EngineState, Dips
<1>5. CASE next < NLanes
  <2>1. next \in Lanes /\ 0 \in 0 .. Rows
    BY <1>0, <1>5 DEF Lanes
  <2>2. PointAt(next, 0) \in Spot
    BY <2>1, SpotsOfThePatterns
  <2>3. FinishLane(e) = Fly(g, PointAt(next, 0))
    BY <1>4, <1>5 DEF FinishLane, covered
  <2> HIDE DEF c, next
  <2>4. /\ g \in EngineState /\ g.phase = "LANE" /\ g.covered = covered
        /\ g.lane = next /\ g.along = 0 /\ Dips(e, g)
    BY <1>4, <2>1, ZenonT(120) DEF EngineState, Dips
  <2> HIDE DEF g
  <2>5. Surveyed(g)
    BY <1>2, <1>3, <2>4 DEF Surveyed, Homeward
  <2>6. Spends(g, D) /\ g.dips = e.dips
    BY <2>4 DEF Spends, Dips
  <2>7. Carries(e, g, D)
    BY <2>5, <2>6 DEF Carries
  <2>8. Carries(e, Fly(g, PointAt(next, 0)), D)
    BY <2>2, <2>4, <2>7, FlyCarries
  <2> QED
    BY <2>3, <2>8 DEF Carries
<1>6. CASE ~(next < NLanes)
  <2>1. PointAt(e.lane, Rows) \in Spot
    BY <1>0, SpotsOfThePatterns
  <2>2. FinishLane(e) = Fly(h, PointAt(e.lane, Rows))
    BY <1>6 DEF FinishLane, covered
  <2>3. "EGRESS" \in Phases
    BY DEF Phases
  <2> HIDE DEF c, next
  <2>4. /\ h \in EngineState /\ h.phase = "EGRESS" /\ h.covered = covered
        /\ h.lane = e.lane /\ h.along = Rows /\ Dips(e, h)
    BY <1>4, <2>3, ZenonT(120) DEF EngineState, Dips
  <2> HIDE DEF h
  <2>5. Surveyed(h)
    BY <1>2, <1>3, <1>6, <2>4 DEF Surveyed, Homeward, Whole
  <2>6. Spends(h, D) /\ h.dips = e.dips
    BY <2>4 DEF Spends, Dips
  <2>7. Carries(e, h, D)
    BY <2>5, <2>6 DEF Carries
  <2>8. Carries(e, Fly(h, PointAt(e.lane, Rows)), D)
    BY <2>1, <2>4, <2>7, FlyCarries
  <2> QED
    BY <1>0, <2>2, <2>8 DEF Carries
<1> QED
  BY <1>5, <1>6

-----------------------------------------------------------------------------
(* What the handlers of the survey do to the record.                         *)

(* A tick on a lane.                                                        *)
LEMMA LaneCarries ==
  ASSUME NEW e, NEW D, Good(e), e.phase = "LANE", Surveyed(e), Spends(e, D),
         NEW in \in Sample, Pattern = "serpentine"
  PROVE  Carries(e, LaneTick(e, in), D)
<1>0. /\ e \in EngineState /\ ~e.aborted /\ e.lane \in Lanes /\ e.along \in 0 .. Rows
      /\ Rows \in 0 .. Rows
  BY EngineConstants DEF Good, EngineState, UnabortedPhases
<1>1. PointAt(e.lane, e.along) \in Spot /\ PointAt(e.lane, Rows) \in Spot
  BY <1>0, SpotsOfThePatterns
<1>2. Carries(e, e, D)
  BY DEF Carries
<1>3. Carries(e, Fly(e, PointAt(e.lane, e.along)), D)
  BY <1>0, <1>1, <1>2, FlyCarries
<1>4. ASSUME e.dips < MaxDips, Confirmed(e) # {}
      PROVE  Carries(e, BeginDip(e), D)
  <2> DEFINE t == NextDipTarget(e)
             f == [e EXCEPT !.target = t, !.dip_t0 = FALSE, !.phase = "VERIFY_DIP",
                            !.entered = TRUE]
  <2>1. t \in Clusters /\ e.log[t] = "confirmed" /\ "VERIFY_DIP" \in Phases
    BY <1>0, <1>4, NextTarget DEF Confirmed, Phases
  <2>2. BeginDip(e) = Fly(f, PointAt(e.lane, e.along))
    BY DEF BeginDip
  <2> HIDE DEF t
  <2>3. f \in EngineState /\ f.phase = "VERIFY_DIP" /\ f.target = t /\ Track(e, f)
        /\ f.log = e.log /\ f.dips = e.dips
    BY <1>0, <2>1, ZenonT(120) DEF EngineState, Track
  <2> HIDE DEF f
  <2>4. t \notin D
    BY <2>1 DEF Spends
  <2>5. Surveyed(f)
    BY <2>3 DEF Surveyed, Track, Homeward
  <2>6. Spends(f, D)
    BY <1>4, <2>3, <2>4 DEF Spends
  <2>7. Carries(e, f, D)
    BY <2>3, <2>5, <2>6 DEF Carries
  <2> QED
    BY <1>1, <2>2, <2>3, <2>7, FlyCarries
<1>5. PICK g : g = Advance(e, in)
  OBVIOUS
<1>6. /\ g \in EngineState /\ g.phase = "LANE" /\ g.lane = e.lane /\ g.aborted = e.aborted
      /\ g.home = e.home /\ Dips(e, g) /\ g.covered = Prefix(g.lane, g.along)
  <2>1. Same(e, g) /\ g \in EngineState /\ g.phase = e.phase /\ g.lane = e.lane /\ g.home = e.home
    BY <1>0, <1>5, Advancing
  <2>2. Dips(e, g)
    BY <1>0, <1>5, AdvanceTracks
  <2>3. g.covered = Prefix(g.lane, g.along)
    BY <1>0, <1>5, AdvanceSurveys DEF Surveyed
  <2> QED
    BY <2>1, <2>2, <2>3 DEF Same
<1>7. Good(g) /\ Surveyed(g) /\ Spends(g, D) /\ g.dips = e.dips
  BY <1>0, <1>6 DEF Good, Surveyed, Spends, Dips, Homeward, SurveyPhases, UnabortedPhases
<1>8. Carries(e, Fly(g, PointAt(e.lane, Rows)), D)
  <2>1. Carries(e, g, D)
    BY <1>7 DEF Carries
  <2> QED
    BY <1>1, <1>6, <2>1, FlyCarries
<1>9. ASSUME Reached(in, PointAt(e.lane, Rows), "survey")
      PROVE  Carries(e, FinishLane(g), D)
  <2>1. g.along = Rows
    BY <1>0, <1>5, <1>9, EndOfLane
  <2>2. Surveyed(FinishLane(g)) /\ Spends(FinishLane(g), D) /\ FinishLane(g).dips = g.dips
    BY <1>6, <1>7, <2>1, FinishCarries
  <2> QED
    BY <1>7, <2>2 DEF Carries
<1> QED
  BY <1>3, <1>4, <1>5, <1>8, <1>9 DEF LaneTick

(* A tick of the rosette: the last petal is flown before the log goes home.   *)
LEMMA PetalCarries ==
  ASSUME NEW e, NEW D, Good(e), e.phase = "LANE", Surveyed(e), Spends(e, D),
         NEW in \in Sample, Pattern # "serpentine"
  PROVE  Carries(e, RosetteTick(e, in), D)
<1>0. /\ e \in EngineState /\ ~e.aborted /\ e.home \in Spot /\ e.petal \in Nat
      /\ e.stage \in PetalStages /\ e.petal_t0 \in BOOLEAN /\ Petals \in Nat
      /\ e.petal <= Petals /\ (e.stage # "center" => e.petal < Petals)
  BY EngineConstants DEF Good, EngineState, UnabortedPhases, SurveyPhases, Surveyed
<1>1. Outer(e) \in Spot /\ "DUMP" \in Phases
  BY <1>0, SpotsOfThePatterns DEF Phases
<1>2. /\ in.hvalid \in BOOLEAN /\ in.ready \in BOOLEAN /\ in.slow \in BOOLEAN
      /\ in.elapsed \in BOOLEAN
  BY DEF Sample
<1>3. ASSUME NEW f \in EngineState, NEW spot \in Spot, Dips(e, f), f.aborted = e.aborted,
             f.phase \in {"LANE", "DUMP"}, f.petal <= Petals,
             f.stage # "center" => f.petal < Petals, f.phase = "DUMP" => f.petal = Petals
      PROVE  Carries(e, Fly(f, spot), D)
  <2>1. Surveyed(f)
    BY <1>3 DEF Surveyed, Homeward, Whole
  <2>2. Spends(f, D) /\ f.dips = e.dips
    BY <1>3 DEF Spends, Dips
  <2>3. Carries(e, f, D)
    BY <2>1, <2>2 DEF Carries
  <2> QED
    BY <2>3, FlyCarries
<1>4. CASE e.stage = "center"
  <2> DEFINE stable == /\ in.hvalid /\ in.ready /\ Reached(in, e.home, "survey") /\ in.slow
             held == stable /\ e.petal_t0 /\ in.elapsed
             t0 == stable /\ ~held
             phase == IF held /\ e.petal >= Petals THEN "DUMP" ELSE e.phase
             stage == IF held /\ e.petal < Petals THEN "outbound" ELSE e.stage
             f == [e EXCEPT !.petal_t0 = t0, !.phase = phase, !.stage = stage]
  <2>1. t0 \in BOOLEAN /\ phase \in {"LANE", "DUMP"} /\ stage \in PetalStages
        /\ phase \in Phases
    BY <1>0, <1>1, <1>2 DEF PetalStages, EngineState
  <2>2. /\ phase = "DUMP" => e.petal = Petals
        /\ stage # "center" => e.petal < Petals
    BY <1>0, <1>4
  <2>3. RosetteTick(e, in) = Fly(f, e.home)
    BY <1>4 DEF RosetteTick, CenterTick
  <2> HIDE DEF t0, phase, stage
  <2>4. /\ f \in EngineState /\ f.phase = phase /\ f.stage = stage
        /\ f.petal = e.petal /\ f.aborted = e.aborted /\ Dips(e, f)
    BY <1>0, <2>1, ZenonT(120) DEF EngineState, Dips
  <2> HIDE DEF f
  <2> QED
    BY <1>0, <1>3, <2>1, <2>2, <2>3, <2>4
<1>5. CASE e.stage = "outbound"
  <2> DEFINE h == [e EXCEPT !.stage = "outer_hold", !.petal_t0 = FALSE]
  <2>1. RosetteTick(e, in) = Fly(h, Outer(e)) \/ RosetteTick(e, in) = Fly(e, Outer(e))
    BY <1>5 DEF RosetteTick, OutboundTick
  <2>2. "outer_hold" \in PetalStages
    BY DEF PetalStages
  <2>3. /\ h \in EngineState /\ h.phase = e.phase /\ h.stage = "outer_hold"
        /\ h.petal = e.petal /\ h.aborted = e.aborted /\ Dips(e, h)
    BY <1>0, <2>2, ZenonT(120) DEF EngineState, Dips
  <2> HIDE DEF h
  <2>4. Carries(e, Fly(h, Outer(e)), D)
    BY <1>0, <1>1, <1>3, <1>5, <2>3
  <2>5. Carries(e, Fly(e, Outer(e)), D)
    BY <1>0, <1>1, <1>3, <1>5 DEF Dips
  <2> QED
    BY <2>1, <2>4, <2>5
<1>6. CASE e.stage = "outer_hold"
  <2> DEFINE stable == Reached(in, Outer(e), "survey") /\ in.slow
             held == stable /\ e.petal_t0 /\ in.elapsed
             t0 == stable /\ ~held
             stage == IF held THEN "inbound" ELSE e.stage
             g == [e EXCEPT !.petal_t0 = t0, !.stage = stage]
  <2>1. t0 \in BOOLEAN /\ stage \in PetalStages
    BY <1>0, <1>2 DEF PetalStages
  <2>2. RosetteTick(e, in) = Fly(g, Outer(e))
    BY <1>6 DEF RosetteTick, OuterHoldTick
  <2> HIDE DEF t0, stage
  <2>3. /\ g \in EngineState /\ g.phase = e.phase /\ g.stage = stage
        /\ g.petal = e.petal /\ g.aborted = e.aborted /\ Dips(e, g)
    BY <1>0, <2>1, ZenonT(120) DEF EngineState, Dips
  <2> HIDE DEF g
  <2> QED
    BY <1>0, <1>1, <1>3, <1>6, <2>2, <2>3
<1>7. CASE e.stage = "inbound"
  <2> DEFINE next == e.petal + 1
             p == [e EXCEPT !.petal = next, !.stage = "center", !.petal_t0 = FALSE]
  <2>1. RosetteTick(e, in) = Fly(p, e.home) \/ RosetteTick(e, in) = Fly(e, e.home)
    BY <1>7 DEF RosetteTick, InboundTick
  <2>2. "center" \in PetalStages /\ next \in Nat /\ next <= Petals
    BY <1>0, <1>7 DEF PetalStages
  <2> HIDE DEF next
  <2>3. /\ p \in EngineState /\ p.phase = e.phase /\ p.stage = "center"
        /\ p.petal = next /\ p.aborted = e.aborted /\ Dips(e, p)
    BY <1>0, <2>2, ZenonT(120) DEF EngineState, Dips
  <2> HIDE DEF p
  <2>4. Carries(e, Fly(p, e.home), D)
    BY <1>0, <1>3, <2>2, <2>3
  <2>5. Carries(e, Fly(e, e.home), D)
    BY <1>0, <1>3, <1>7 DEF Dips
  <2> QED
    BY <2>1, <2>4, <2>5
<1> QED
  BY <1>0, <1>4, <1>5, <1>6, <1>7 DEF PetalStages

(* The climb hands over to the pattern in the same tick.                     *)
LEMMA ClimbCarries ==
  ASSUME NEW e, NEW D, Good(e), e.phase = "TAKEOFF", Surveyed(e), Spends(e, D),
         NEW in \in Sample
  PROVE  Carries(e, TakeoffTick(e, in), D)
<1> DEFINE g == [e EXCEPT !.phase = "LANE"]
<1>0. e \in EngineState /\ e.home \in Spot /\ ~e.aborted
  BY DEF Good, SurveyPhases, UnabortedPhases
<1>1. "LANE" \in Phases
  BY DEF Phases
<1>2. /\ g \in EngineState /\ g.phase = "LANE" /\ Track(e, g) /\ Dips(e, g)
      /\ g.aborted = e.aborted /\ g.home = e.home
  BY <1>0, <1>1, ZenonT(120) DEF EngineState, Track, Dips
<1>3. \/ TakeoffTick(e, in) = Fly(e, e.home)
      \/ TakeoffTick(e, in) = LaneTick(g, in) /\ Pattern = "serpentine"
      \/ TakeoffTick(e, in) = RosetteTick(g, in) /\ Pattern # "serpentine"
  BY EngineConstants DEF TakeoffTick, SurveyTick
<1> HIDE DEF g
<1>4. Good(g) /\ Surveyed(g) /\ Spends(g, D)
  BY <1>0, <1>2 DEF Good, Surveyed, Spends, Track, Dips, Homeward, SurveyPhases, UnabortedPhases
<1>5. Carries(e, Fly(e, e.home), D)
  BY <1>0, FlyCarries DEF Carries
<1>6. ASSUME NEW f, Carries(g, f, D)
      PROVE  Carries(e, f, D)
  BY <1>2, <1>6 DEF Carries, Dips
<1>7. Pattern = "serpentine" => Carries(g, LaneTick(g, in), D)
  BY <1>2, <1>4, LaneCarries
<1>8. Pattern # "serpentine" => Carries(g, RosetteTick(g, in), D)
  BY <1>2, <1>4, PetalCarries
<1> QED
  BY <1>3, <1>5, <1>6, <1>7, <1>8

(* A tick over a dip: the hold completed, the cluster is dipped and the dip    *)
(* is spent.                                                                *)
LEMMA DipCarries ==
  ASSUME NEW e, NEW D, Good(e), e.phase = "VERIFY_DIP", Surveyed(e), Spends(e, D),
         NEW in \in Sample, D \subseteq Clusters
  PROVE  Carries(e, DipTick(e, in), D)
<1> DEFINE spot == ClusterSpot[e.target]
           t0 == e.dip_t0 \/ Reached(in, spot, "survey")
           g == [e EXCEPT !.dip_t0 = t0]
           f == Fly(g, spot)
           log == [f.log EXCEPT ![e.target] = "dipped"]
           dips == f.dips + 1
           h == [f EXCEPT !.log[e.target] = "dipped", !.dips = @ + 1, !.target = NoCluster,
                          !.entered = FALSE, !.phase = "LANE"]
<1>0. /\ e \in EngineState /\ e.target \in Clusters /\ ~e.aborted /\ e.dips < MaxDips
      /\ e.target \notin D /\ MaxDips \in Nat /\ Pattern = "serpentine"
  BY EngineConstants DEF Good, UnabortedPhases, Spends, Surveyed
<1>1. spot \in Spot
  BY <1>0, EngineConstants
<1>2. t0 \in BOOLEAN
  BY <1>0 DEF EngineState
<1>3. DipTick(e, in) = f \/ DipTick(e, in) = h
  BY DEF DipTick
<1> HIDE DEF spot, t0
<1>4. /\ g \in EngineState /\ g.phase = e.phase /\ Track(e, g) /\ Dips(e, g)
      /\ g.aborted = e.aborted
  BY <1>0, <1>2, ZenonT(120) DEF EngineState, Track, Dips
<1> HIDE DEF g
<1>5. /\ f \in EngineState /\ f.phase = e.phase /\ f.aborted = e.aborted
      /\ Track(e, f) /\ Dips(e, f)
  <2>1. /\ f \in EngineState /\ f.phase = g.phase /\ f.aborted = g.aborted
    BY <1>1, <1>4, Flying DEF Same
  <2>2. Rests(g, f)
    BY <1>4, Resting
  <2> QED
    BY <1>4, <2>1, <2>2 DEF Rests, Track, Dips
<1> HIDE DEF f
<1>6. "LANE" \in Phases /\ "dipped" \in Statuses
  BY DEF Phases, Statuses
<1>7. f.log \in [Clusters -> Statuses] /\ f.dips \in Nat
  BY <1>5, ZenonT(120) DEF EngineState
<1>8. /\ log \in [Clusters -> Statuses] /\ dips \in Nat
      /\ log[e.target] = "dipped" /\ \A c \in Clusters \ {e.target} : log[c] = f.log[c]
      /\ dips = e.dips + 1 /\ e.dips \in Nat
  BY <1>0, <1>5, <1>6, <1>7 DEF Dips
<1>9. h = [f EXCEPT !.log = log, !.dips = dips, !.target = NoCluster, !.entered = FALSE,
                    !.phase = "LANE"]
  BY DEF log, dips
<1> HIDE DEF log, dips, h
<1>10. /\ h \in EngineState /\ h.phase = "LANE" /\ h.log = log /\ h.dips = dips
       /\ Track(f, h) /\ h.aborted = f.aborted
  BY <1>5, <1>6, <1>8, <1>9, ZenonT(120) DEF EngineState, Track
<1>11. Surveyed(f) /\ Surveyed(h)
  BY <1>0, <1>5, <1>10 DEF Surveyed, Track, Homeward
<1>12. Spends(f, D) /\ f.dips = e.dips
  BY <1>5 DEF Spends, Dips
<1>13. Spends(h, D \cup {e.target})
  BY <1>0, <1>8, <1>10, <1>12 DEF Spends
<1> QED
  BY <1>0, <1>3, <1>8, <1>10, <1>11, <1>12, <1>13 DEF Carries

(* The handler of any phase.                                                *)
LEMMA HandlingCarries ==
  ASSUME NEW e, NEW D, Good(e), Surveyed(e), Spends(e, D), NEW in \in Sample,
         D \subseteq Clusters
  PROVE  Carries(e, PhaseTick(e, in), D)
<1>1. CASE e.phase \notin SurveyPhases
  <2>1. PICK f : f = PhaseTick(e, in)
    OBVIOUS
  <2>2. Rests(e, f) /\ Moves(e, f)
    BY <1>1, <2>1, LegsRest, Handling DEF Good
  <2>3. e.phase = "OFFBOARD_SYNC" => f.phase \in {"OFFBOARD_SYNC", "TAKEOFF"}
    <3>1. SUFFICES ASSUME e.phase = "OFFBOARD_SYNC"
                   PROVE  f.phase \in {"OFFBOARD_SYNC", "TAKEOFF"}
      OBVIOUS
    <3>2. f = SyncTick(e, in)
      BY <2>1, <3>1 DEF PhaseTick
    <3> QED
      BY <3>1, <3>2, Syncing DEF Good
  <2> QED
    BY <1>1, <2>1, <2>2, <2>3, LegsSurvey DEF Carries
<1>2. CASE e.phase = "TAKEOFF"
  <2>1. PhaseTick(e, in) = TakeoffTick(e, in)
    BY <1>2 DEF PhaseTick
  <2> QED
    BY <1>2, <2>1, ClimbCarries
<1>3. CASE e.phase = "LANE"
  <2>1. PhaseTick(e, in) = SurveyTick(e, in)
    BY <1>3 DEF PhaseTick
  <2>2. \/ SurveyTick(e, in) = LaneTick(e, in) /\ Pattern = "serpentine"
        \/ SurveyTick(e, in) = RosetteTick(e, in) /\ Pattern # "serpentine"
    BY EngineConstants DEF SurveyTick
  <2> QED
    BY <1>3, <2>1, <2>2, LaneCarries, PetalCarries
<1>4. CASE e.phase = "VERIFY_DIP"
  <2>1. PhaseTick(e, in) = DipTick(e, in)
    BY <1>4 DEF PhaseTick
  <2> QED
    BY <1>4, <2>1, DipCarries
<1> QED
  BY <1>1, <1>2, <1>3, <1>4 DEF SurveyPhases

(* The guards leave the record alone, in whichever way they decide.          *)
LEMMA GuardCarries ==
  ASSUME NEW e, NEW D, Good(e), Surveyed(e), Spends(e, D), NEW in \in Sample
  PROVE  LET g == CheckAborts(e, in)
         IN  /\ Surveyed(g) /\ Spends(g, D) /\ g.dips = e.dips
             /\ g.phase = "VERIFY_DIP" => e.phase = "VERIFY_DIP" /\ g.target = e.target
<1> DEFINE n == [e EXCEPT !.engaged = TRUE]
<1>1. e \in EngineState
  BY DEF Good
<1>2. n.phase = e.phase /\ n.aborted = e.aborted /\ Track(e, n) /\ Dips(e, n)
  BY <1>1, ZenonT(120) DEF EngineState, Track, Dips
<1>3. \/ CheckAborts(e, in) = e \/ CheckAborts(e, in) = n
      \/ e.phase \notin {"ABORT", "DONE"} /\ CheckAborts(e, in) = Abort(e)
  BY DEF CheckAborts, UnguardedPhases
<1> HIDE DEF n
<1>4. Surveyed(n) /\ Spends(n, D) /\ n.dips = e.dips /\ n.target = e.target
  BY <1>2 DEF Surveyed, Spends, Track, Dips, Whole
<1>5. e.phase \notin {"ABORT", "DONE"} => Abort(e).phase # "VERIFY_DIP"
  BY <1>1, Aborting
<1> QED
  BY <1>2, <1>3, <1>4, <1>5, AbortSurveys

(* A whole tick.                                                            *)
LEMMA TickCarries ==
  ASSUME NEW e, NEW D, Good(e), Surveyed(e), Spends(e, D), NEW in \in Sample,
         D \subseteq Clusters
  PROVE  Carries(e, Tick(e, in), D)
<1>1. PICK g : g = CheckAborts(e, in)
  OBVIOUS
<1>2. /\ Good(g) /\ Surveyed(g) /\ Spends(g, D) /\ g.dips = e.dips
      /\ g.phase = "VERIFY_DIP" => e.phase = "VERIFY_DIP" /\ g.target = e.target
  BY <1>1, Guarding, GuardCarries
<1>3. PICK f : f = PhaseTick(g, in)
  OBVIOUS
<1>4. Good(f) /\ Carries(g, f, D)
  BY <1>2, <1>3, Handling, HandlingCarries
<1>5. Carries(e, f, D)
  BY <1>2, <1>4 DEF Carries
<1>6. CASE ~CommandViolation(f)
  BY <1>1, <1>3, <1>5, <1>6 DEF Tick
<1>7. CASE CommandViolation(f)
  <2>1. PICK a : a = Abort(f)
    OBVIOUS
  <2>2. PICK h : h = PhaseTick(a, in)
    OBVIOUS
  <2>3. Tick(e, in) = h
    BY <1>1, <1>3, <1>7, <2>1, <2>2 DEF Tick
  <2>4. Good(a) /\ a.phase # "VERIFY_DIP"
    <3>1. f \in EngineState
      BY <1>4 DEF Good
    <3>2. Good(a)
      BY <1>4, <2>1, AbortIsGood
    <3> QED
      BY <2>1, <3>1, <3>2, Aborting
  <2>5. \A E : Spends(f, E) => Surveyed(a) /\ Spends(a, E) /\ a.dips = f.dips
    BY <1>4, <2>1, AbortSurveys DEF Carries
  <2>6. \A E \in SUBSET Clusters : Spends(f, E) => Surveyed(h) /\ Spends(h, E) /\ h.dips = f.dips
    BY <2>2, <2>4, <2>5, HandlingCarries DEF Carries
  <2>7. Carries(e, h, D)
    <3>1. CASE f.dips = e.dips /\ Spends(f, D)
      BY <2>6, <3>1 DEF Carries
    <3>2. CASE /\ e.phase = "VERIFY_DIP" /\ f.dips > e.dips
               /\ e.target \in Clusters \ D /\ Spends(f, D \cup {e.target})
      <4>1. D \cup {e.target} \in SUBSET Clusters
        BY <3>2
      <4> QED
        BY <2>6, <3>2, <4>1 DEF Carries
    <3> QED
      BY <1>5, <3>1, <3>2 DEF Carries
  <2> QED
    BY <2>3, <2>7
<1> QED
  BY <1>6, <1>7

(* The other methods that are not about the phase.                           *)
LEMMA NotesSurvey ==
  ASSUME NEW e, NEW D, Good(e), Surveyed(e), Spends(e, D), D \subseteq Clusters
  PROVE  /\ Surveyed(NoteDetectorAlive(e)) /\ Spends(NoteDetectorAlive(e), D)
         /\ NoteDetectorAlive(e).dips = e.dips
         /\ \A c : /\ Surveyed(NoteResetCounter(e, c)) /\ Spends(NoteResetCounter(e, c), D)
                   /\ NoteResetCounter(e, c).dips = e.dips
         /\ \A c \in Clusters, tagged \in BOOLEAN, enough \in BOOLEAN :
              LET f == Ingest(e, c, tagged, enough)
              IN  Surveyed(f) /\ Spends(f, D) /\ f.dips = e.dips
<1>0. e \in EngineState
  BY DEF Good
<1>1. ASSUME NEW f, Track(e, f), Dips(e, f), f.phase = e.phase, f.aborted = e.aborted
      PROVE  Surveyed(f) /\ Spends(f, D) /\ f.dips = e.dips
  BY <1>1 DEF Surveyed, Spends, Track, Dips, Whole
<1>2. LET f == NoteDetectorAlive(e)
      IN  Track(e, f) /\ Dips(e, f) /\ f.phase = e.phase /\ f.aborted = e.aborted
  BY <1>0, ZenonT(120) DEF NoteDetectorAlive, EngineState, Track, Dips
<1>3. ASSUME NEW c
      PROVE  LET f == NoteResetCounter(e, c)
             IN  Track(e, f) /\ Dips(e, f) /\ f.phase = e.phase /\ f.aborted = e.aborted
  <2>1. ASSUME NEW n
        PROVE  LET f == [e EXCEPT !.counter = c, !.resets = n]
               IN  Track(e, f) /\ Dips(e, f) /\ f.phase = e.phase /\ f.aborted = e.aborted
    BY <1>0, ZenonT(120) DEF EngineState, Track, Dips
  <2> QED
    BY <2>1 DEF NoteResetCounter
<1>4. ASSUME NEW c \in Clusters, NEW tagged \in BOOLEAN, NEW enough \in BOOLEAN
      PROVE  LET f == Ingest(e, c, tagged, enough)
             IN  Surveyed(f) /\ Spends(f, D) /\ f.dips = e.dips
  <2> DEFINE standing == CASE tagged -> "verified"
                         [] ~tagged /\ e.log[c] = "absent" -> "candidate"
                         [] ~tagged /\ e.log[c] = "candidate" /\ enough -> "confirmed"
                         [] OTHER -> e.log[c]
             log == [e.log EXCEPT ![c] = standing]
             f == [e EXCEPT !.log = log]
  <2>1. e.log \in [Clusters -> Statuses]
    BY <1>0 DEF EngineState
  <2>2. Ingest(e, c, tagged, enough) = f
    BY DEF Ingest
  <2>3. \A d \in Clusters : e.log[d] \in {"dipped", "verified"} => log[d] \in {"dipped", "verified"}
    BY <2>1
  <2> HIDE DEF log
  <2>4. /\ Track(e, f) /\ f.dips = e.dips /\ f.target = e.target /\ f.log = log
        /\ f.phase = e.phase /\ f.aborted = e.aborted
    BY <1>0, ZenonT(120) DEF EngineState, Track
  <2> HIDE DEF f
  <2>5. Surveyed(f)
    BY <2>4 DEF Surveyed, Track, Whole
  <2>6. Spends(f, D)
    BY <2>3, <2>4 DEF Spends
  <2> QED
    BY <2>2, <2>4, <2>5, <2>6
<1> QED
  BY <1>1, <1>2, <1>3, <1>4

(* The reply to a dump.                                                     *)
LEMMA ReplySurveys ==
  ASSUME NEW e, NEW D, Good(e), Surveyed(e), Spends(e, D), NEW ok \in BOOLEAN
  PROVE  LET f == NotifyDumpResult(e, ok)
         IN  Surveyed(f) /\ Spends(f, D) /\ f.dips = e.dips /\ Track(e, f)
<1> DEFINE a == [e EXCEPT !.acked = TRUE]
           n == e.attempts + 1
           b == [e EXCEPT !.attempts = n]
<1>1. e \in EngineState
  BY DEF Good
<1>2. n \in Nat
  BY <1>1 DEF EngineState
<1>3. \/ NotifyDumpResult(e, ok) = e
      \/ NotifyDumpResult(e, ok) = a
      \/ NotifyDumpResult(e, ok) = b
      \/ e.phase = "DUMP" /\ NotifyDumpResult(e, ok) = Abort(b)
  BY DEF NotifyDumpResult
<1> HIDE DEF n
<1>4. /\ Track(e, a) /\ Dips(e, a) /\ a.phase = e.phase /\ a.aborted = e.aborted
      /\ Track(e, b) /\ Dips(e, b) /\ b.phase = e.phase /\ b.aborted = e.aborted
  BY <1>1, ZenonT(120) DEF EngineState, Track, Dips
<1>5. Kept(e, b)
  BY <1>1, <1>2, ZenonT(120) DEF Kept, EngineState
<1> HIDE DEF a, b
<1>6. Good(b) /\ b \in EngineState
  BY <1>5, <1>4 DEF Good, Kept
<1>7. /\ Surveyed(a) /\ Spends(a, D) /\ a.dips = e.dips
      /\ Surveyed(b) /\ Spends(b, D) /\ b.dips = e.dips
  BY <1>4 DEF Surveyed, Spends, Track, Dips, Whole
<1>8. Surveyed(Abort(b)) /\ Spends(Abort(b), D) /\ Abort(b).dips = e.dips
  BY <1>6, <1>7, AbortSurveys
<1>9. Track(e, e) /\ Track(e, Abort(b))
  BY <1>4, <1>6, Resting DEF Rests, Track
<1> QED
  BY <1>3, <1>4, <1>7, <1>8, <1>9

(* The start.                                                               *)
LEMMA StartSurveys ==
  ASSUME NEW e, NEW D, Good(e), Surveyed(e), Spends(e, D)
  PROVE  Surveyed(Start(e)) /\ Spends(Start(e), D) /\ Start(e).dips = e.dips
<1> DEFINE f == [e EXCEPT !.phase = "OFFBOARD_SYNC"]
<1>1. f.phase = "OFFBOARD_SYNC" /\ Track(e, f) /\ Dips(e, f)
  BY ZenonT(120) DEF Good, EngineState, Track, Dips
<1>2. Start(e) = e \/ Start(e) = f
  BY DEF Start
<1> HIDE DEF f
<1> QED
  BY <1>1, <1>2 DEF Surveyed, Spends, Track, Dips, Homeward

(* Where nobody records the dips, the budget remains.                        *)
LEMMA TickSurveys ==
  ASSUME NEW e, Good(e), Surveyed(e), Spends(e, {}), NEW in \in Sample
  PROVE  Surveyed(Tick(e, in)) /\ Spends(Tick(e, in), {})
<1>1. PICK f : f = Tick(e, in)
  OBVIOUS
<1>2. Carries(e, f, {})
  BY <1>1, TickCarries
<1>3. \A D : Spends(f, D) => Spends(f, {})
  BY DEF Spends
<1> QED
  BY <1>1, <1>2, <1>3 DEF Carries

(* A new engine has surveyed nothing and spent nothing.                       *)
LEMMA NewSurveys ==
  Surveyed(NewEngine) /\ Spends(NewEngine, {})
<1>0. MaxDips \in Nat /\ Petals \in 1 .. 8
  BY EngineConstants
<1>1. /\ NewEngine.covered = {} /\ NewEngine.lane = 0 /\ NewEngine.along = 0
      /\ NewEngine.petal = 0 /\ NewEngine.stage = "center" /\ NewEngine.phase = "PREFLIGHT"
      /\ NewEngine.dips = 0
  BY DEF NewEngine
<1>2. Prefix(0, 0) = {}
  <2>1. \A x \in Steps : x[1] \in Nat /\ x[2] \in Nat
    BY DEF Steps, Lanes
  <2> QED
    BY <2>1 DEF Prefix
<1> QED
  BY <1>0, <1>1, <1>2 DEF Surveyed, Spends, Homeward

=============================================================================
