---------------------------- MODULE SurveyMission ----------------------------
(***************************************************************************)
(* survey_mission.py: one drone climbs, turns to its heading, waits for       *)
(* /begin_survey, flies the schedule of flight_lib/survey.py and settles      *)
(* over its launch anchor; /end_mission brings it back from anywhere.         *)
(*                                                                         *)
(* The controller around it is idle, asks for a setpoint every tick, or is    *)
(* gone, as in PhasedOrbits.  Time counts coarse units in each of which the   *)
(* node ticks; the ground is one axis in PX4's local frame.                   *)
(***************************************************************************)
EXTENDS Integers, Sequences

CONSTANTS
  Schedule,      \* segments [to, time], in anchor coordinates, from and back to 0
  ToHomeTime,
  ClimbDrift,    \* where the climb may leave the drone
  FrameShifts,
  MaxFrameResets, MaxGusts     \* bounds

VARIABLES
  profile,     \* post_takeoff_yaw_alignment, survey_auto_start
  flight,     \* what the node keeps
  frame,      \* launch point, _anchor, where the climb ended, in PX4's frame
  target,     \* the last setpoint, in anchor coordinates
  inbox,      \* operator commands on their way
  now_ticked, \* it has ticked in this unit of time
  spent

vars == <<profile, flight, frame, target, inbox, now_ticked, spent>>

NotYet == -1
Flight ==
  [life : {"idle", "active", "gone"}, climbed : BOOLEAN, aligned : BOOLEAN, turning : BOOLEAN,
   gate : Int, homing : BOOLEAN, home : Int, home_from : Int, settling : BOOLEAN,
   land : BOOLEAN]

Init ==
  /\ profile \in [align : BOOLEAN, auto_start : BOOLEAN]
  /\ flight = [life |-> "idle", climbed |-> FALSE, aligned |-> ~profile.align, turning |-> FALSE,
               gate |-> NotYet, homing |-> FALSE, home |-> NotYet, home_from |-> 0,
               settling |-> FALSE, land |-> FALSE]
  /\ frame = [launch |-> 0, anchor |-> 0, climbed_at |-> 0]
  /\ target = 0 /\ inbox = {} /\ now_ticked = FALSE
  /\ spent = [resets |-> 0, gusts |-> 0]

-------------------------------------------------------------------------------
(* flight_lib/survey.py.                                                     *)
Ends[k \in 0 .. Len(Schedule)] == IF k = 0 THEN 0 ELSE Ends[k - 1] + Schedule[k].time
ScheduleDuration == Ends[Len(Schedule)]

From(k) == IF k = 1 THEN 0 ELSE Schedule[k - 1].to

(* schedule_setpoint: inside the first segment that is not over at t; past    *)
(* the last, its end.                                                       *)
Segment(t) == CHOOSE k \in 1 .. Len(Schedule) : t <= Ends[k] /\ (k = 1 \/ t > Ends[k - 1])
SchedulePoint(t) ==
  IF t > ScheduleDuration THEN Schedule[Len(Schedule)].to
  ELSE LET k == Segment(t)
       IN IF Schedule[k].time = 0 THEN Schedule[k].to
          ELSE From(k) + ((Schedule[k].to - From(k)) * (t - Ends[k - 1])) \div Schedule[k].time

(* _current_nominal: the clock of a survey that has not begun reads the time   *)
(* since the epoch, so the schedule is over.                                 *)
CurrentNominal(f) ==
  IF f.gate = NotYet THEN SchedulePoint(ScheduleDuration + 1) ELSE SchedulePoint(f.gate)

-------------------------------------------------------------------------------
(* Callbacks.                                                              *)
Publish(command) ==
  /\ command \notin inbox /\ inbox' = inbox \cup {command}
  /\ UNCHANGED <<profile, flight, frame, target, now_ticked, spent>>
Operator == Publish("begin") \/ Publish("end")

GateCb_Climbed(f) == IF f.gate = NotYet /\ ~f.homing /\ f.climbed THEN [f EXCEPT !.gate = 0] ELSE f
(* _gate_cb.                                                               *)
GateCb(f) ==
  IF f.gate = NotYet /\ ~f.homing /\ f.climbed /\ f.aligned THEN [f EXCEPT !.gate = 0] ELSE f

BeginArrives ==
  /\ "begin" \in inbox /\ inbox' = inbox \ {"begin"} /\ flight' = GateCb(flight)
  /\ UNCHANGED <<profile, frame, target, now_ticked, spent>>

(* on_return_home.                                                         *)
OnReturnHome(f) ==
  IF ~f.climbed THEN [f EXCEPT !.land = TRUE]
  ELSE [f EXCEPT !.home = 0, !.home_from = CurrentNominal(f)]

(* _end_cb of the controller.                                               *)
EndArrives ==
  /\ "end" \in inbox /\ inbox' = inbox \ {"end"}
  /\ flight' = IF flight.homing THEN flight ELSE OnReturnHome([flight EXCEPT !.homing = TRUE])
  /\ UNCHANGED <<profile, frame, target, now_ticked, spent>>

(* on_active_start, or the landing of an abort that was already there.        *)
Activates ==
  /\ flight.life = "idle" /\ flight' = [flight EXCEPT !.life = IF flight.land THEN "gone" ELSE "active"]
  /\ UNCHANGED <<profile, frame, target, inbox, now_ticked, spent>>
(* The controller finds the abort of request_land, and NAV_LAND takes over;    *)
(* or an abort, a pilot or a failsafe ends the flight.                        *)
HandsOver ==
  /\ flight.life = "active" /\ flight.land /\ flight' = [flight EXCEPT !.life = "gone"]
  /\ UNCHANGED <<profile, frame, target, inbox, now_ticked, spent>>

(* _handle_local_frame_reset: the base class moves its launch point; the       *)
(* mission does not override on_local_frame_reset, so the anchor stays.        *)
FrameResets ==
  /\ flight.life = "active" /\ spent.resets < MaxFrameResets
  /\ spent' = [spent EXCEPT !.resets = @ + 1]
  /\ \E shift \in FrameShifts :
       frame' = [frame EXCEPT !.launch = @ + shift, !.climbed_at = @ + shift]
  /\ UNCHANGED <<profile, flight, target, inbox, now_ticked>>

-------------------------------------------------------------------------------
(* compute_setpoint.                                                       *)
Asks == flight.life = "active" /\ ~flight.land

(* Blown off: it was settled, or turned to its heading, and is no more.        *)
Gust(f) == (flight.settling /\ ~f.settling) \/ (flight.turning /\ ~f.turning)
Emit(f, point) ==
  /\ Gust(f) => spent.gusts < MaxGusts
  /\ spent' = IF Gust(f) THEN [spent EXCEPT !.gusts = @ + 1] ELSE spent
  /\ flight' = f /\ target' = point /\ now_ticked' = TRUE
  /\ UNCHANGED <<profile, inbox>>

AutoStarts(f) == IF profile.auto_start /\ f.aligned /\ f.gate = NotYet THEN [f EXCEPT !.gate = 0] ELSE f

(* The climb latches the anchor on every tick.                               *)
Climb ==
  /\ Asks /\ ~flight.climbed
  /\ \E o \in ClimbDrift : LET here == frame.launch + o
                           IN frame' = [frame EXCEPT !.anchor = here, !.climbed_at = here]
  /\ \E up \in BOOLEAN : Emit(IF up THEN AutoStarts([flight EXCEPT !.climbed = TRUE]) ELSE flight, 0)

(* _post_takeoff_alignment_setpoint: turned, for long enough, goes before the  *)
(* way home.                                                              *)
Turns ==
  /\ Asks /\ flight.climbed /\ ~flight.aligned
  /\ \E turned \in BOOLEAN, through \in BOOLEAN :
       Emit(IF turned /\ flight.turning /\ through
              THEN AutoStarts([flight EXCEPT !.aligned = TRUE])
              ELSE [flight EXCEPT !.turning = turned], 0)
  /\ UNCHANGED frame

(* A slip: the dwell is not remembered.                                      *)
SettleAndLand_Restarts(f, settled, through) == [f EXCEPT !.settling = settled /\ ~f.settling]
(* _settle_and_land: the land request once the dwell is through.              *)
SettleAndLand(f, settled, through) ==
  [f EXCEPT !.settling = settled, !.land = @ \/ (settled /\ f.settling /\ through)]

(* _home_setpoint: the blend, and then the settling.                          *)
HomePoint(f) == IF f.home >= ToHomeTime THEN 0 ELSE (f.home_from * (ToHomeTime - f.home)) \div ToHomeTime
FliesHome ==
  /\ Asks /\ flight.climbed /\ flight.aligned /\ flight.home # NotYet
  /\ \E settled \in BOOLEAN, through \in BOOLEAN :
       Emit(IF flight.home >= ToHomeTime THEN SettleAndLand(flight, settled, through) ELSE flight,
            HomePoint(flight))
  /\ UNCHANGED frame

Holds ==
  /\ Asks /\ flight.climbed /\ flight.aligned /\ flight.home = NotYet /\ flight.gate = NotYet
  /\ Emit(flight, 0) /\ UNCHANGED frame

FliesSchedule ==
  /\ Asks /\ flight.climbed /\ flight.aligned /\ flight.home = NotYet /\ flight.gate # NotYet
  /\ \E settled \in BOOLEAN, through \in BOOLEAN :
       Emit(IF flight.gate > ScheduleDuration THEN SettleAndLand(flight, settled, through)
            ELSE flight, SchedulePoint(flight.gate))
  /\ UNCHANGED frame

(* Of the time only what compute_setpoint can tell apart.                     *)
Min2(a, b) == IF a <= b THEN a ELSE b
Timed == flight.life = "active" /\ (flight.gate # NotYet \/ flight.home # NotYet)
Clock ==
  /\ Timed /\ now_ticked /\ now_ticked' = FALSE
  /\ flight' = [flight EXCEPT
       !.gate = IF @ = NotYet THEN @ ELSE Min2(@ + 1, ScheduleDuration + 1),
       !.home = IF @ = NotYet THEN @ ELSE Min2(@ + 1, ToHomeTime)]
  /\ UNCHANGED <<profile, frame, target, inbox, spent>>

Next ==
  \/ Operator \/ BeginArrives \/ EndArrives \/ Activates \/ HandsOver \/ FrameResets
  \/ Climb \/ Turns \/ Holds \/ FliesSchedule \/ FliesHome \/ Clock

(* The executor runs, time passes, and a vehicle that is given the chance      *)
(* gets on with the phase it is in: it climbs, turns, settles in the end.       *)
ClimbsAway == Climb /\ flight'.climbed
TurnsThere == Turns /\ (flight'.aligned \/ (flight'.turning /\ ~flight.turning))
Lands == (FliesHome \/ FliesSchedule) /\ (flight'.land \/ (flight'.settling /\ ~flight.settling))
Fairness ==
  /\ WF_vars(EndArrives) /\ WF_vars(Activates) /\ WF_vars(HandsOver) /\ WF_vars(Clock)
  /\ SF_vars(ClimbsAway \/ TurnsThere \/ Lands)
  /\ WF_vars((FliesHome \/ FliesSchedule) /\ ~now_ticked)

Spec == Init /\ [][Next]_vars /\ Fairness

-------------------------------------------------------------------------------
TypeOK ==
  /\ profile \in [align : BOOLEAN, auto_start : BOOLEAN] /\ flight \in Flight
  /\ flight.gate \in NotYet .. ScheduleDuration + 1 /\ flight.home \in NotYet .. ToHomeTime
  /\ frame \in [launch : Int, anchor : Int, climbed_at : Int] /\ target \in Int
  /\ inbox \subseteq {"begin", "end"} /\ now_ticked \in BOOLEAN
  /\ spent.resets \in 0 .. MaxFrameResets /\ spent.gusts \in 0 .. MaxGusts

(* No setpoint of the schedule before the drone is up and turned.              *)
StartsReady == flight.gate # NotYet \/ target # 0 => flight.climbed /\ flight.aligned

(* The way home starts where the schedule was left: no step of the setpoint,    *)
(* in the schedule, between the schedule and the way home or on it, is longer  *)
(* than the fastest step of either.                                          *)
Distance(a, b) == IF a <= b THEN b - a ELSE a - b
Fastest ==
  LET Steps == {Distance(SchedulePoint(t), SchedulePoint(t + 1)) : t \in 0 .. ScheduleDuration}
  IN CHOOSE s \in Steps : \A d \in Steps : d <= s
NoJump == [][Distance(target, target') <= Fastest]_vars

(* A survey that began ends, and /end_mission ends it from the climb, the turn, *)
(* the hold, the schedule and the settling.                                  *)
SurveyEnds ==
  flight.gate # NotYet \/ (flight.homing /\ flight.life = "active") ~> flight.life = "gone"

(* What the module says of its frame: the geometry rides on the point where    *)
(* the climb ended.                                                        *)
RidesOnTheAnchor == flight.climbed => frame.anchor = frame.climbed_at
=============================================================================
