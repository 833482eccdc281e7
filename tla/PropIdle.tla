------------------------------- MODULE PropIdle -------------------------------
(***************************************************************************)
(* prop_idle_dummy_mission.py: the bench test that arms once, holds the      *)
(* motors at minimum output and disarms.  The node's callbacks and its timer *)
(* run on one executor.  PX4 is external: it takes the commands in the order *)
(* of their publication, and its status reaches the node later, or not.      *)
(* Deadlines are a flag: the state has lasted as long as its next deadline.  *)
(***************************************************************************)
EXTENDS Sequences, Naturals

CONSTANTS
  MaxCommands,   \* bound: commands PX4 has not taken (the queue keeps 10)
  MaxSurprises   \* bound: stale statuses, refusals, mode changes, failsafes

VARIABLES
  mission,   \* state, start_requested, attempted; held: it has been in HOLD_MINIMUM
  seen,      \* the last status, and whether it is fresh
  due,       \* the state has reached its deadline; a forced disarm may be sent again
  autopilot, \* PX4: armed, in OFFBOARD, failsafe
  queued,    \* vehicle commands on their way to PX4
  motors,    \* the last actuator setpoint: nothing, minimum output, stopped
  arms,      \* arm commands published
  surprises

vars == <<mission, seen, due, autopilot, queued, motors, arms, surprises>>

States == {"wait_link", "wait_start", "prestream", "wait_offboard", "wait_arm",
           "hold_minimum", "normal_disarm", "force_disarm", "done"}
Cleanup == {"normal_disarm", "force_disarm"}
Running == {"prestream", "wait_offboard", "wait_arm", "hold_minimum"}
Statuses == [armed : BOOLEAN, offboard : BOOLEAN, failsafe : BOOLEAN]
OnThePad == [armed |-> FALSE, offboard |-> FALSE, failsafe |-> FALSE]

Init ==
  /\ mission = [state |-> "wait_link", start |-> FALSE, attempted |-> FALSE, held |-> FALSE]
  /\ seen = [status |-> OnThePad, known |-> FALSE, fresh |-> FALSE]
  /\ due = [state |-> FALSE, again |-> TRUE]
  /\ autopilot \in {OnThePad, [OnThePad EXCEPT !.armed = TRUE], [OnThePad EXCEPT !.failsafe = TRUE]}
  /\ queued = <<>> /\ motors = "nothing" /\ arms = 0 /\ surprises = 0

Surprise == surprises < MaxSurprises /\ surprises' = surprises + 1

(* is_armed, of the last status however old.                                *)
IsArmed == seen.known /\ seen.status.armed
Offboard == seen.status.offboard

SetState(state) ==
  /\ mission' = [mission EXCEPT !.state = state, !.held = @ \/ state = "hold_minimum"]
  /\ due' = [state |-> FALSE, again |-> due.again \/ state = "force_disarm"]

Command(c) == queued' = Append(queued, c)

-------------------------------------------------------------------------------
(* Callbacks.  _start_cb.                                                   *)
StartCb ==
  /\ mission.state # "done" /\ ~mission.attempted /\ ~mission.start
  /\ mission' = [mission EXCEPT !.start = TRUE]
  /\ UNCHANGED <<seen, due, autopilot, queued, motors, arms, surprises>>

(* _begin_cleanup: a status that says disarmed ends the mission at once.      *)
BeginCleanup ==
  /\ motors' = "stopped"
  /\ IF IsArmed THEN Command("disarm") /\ SetState("normal_disarm")
                ELSE SetState("done") /\ UNCHANGED queued

(* _end_cb and _abort_cb, _end_or_abort.                                     *)
EndOrAbort ==
  /\ mission.state \notin Cleanup \cup {"done"}
  /\ IF mission.state \in {"wait_link", "wait_start"}
     THEN /\ mission' = [mission EXCEPT !.attempted = TRUE, !.state = "done"]
          /\ due' = [due EXCEPT !.state = FALSE] /\ UNCHANGED <<queued, motors>>
     ELSE BeginCleanup
  /\ UNCHANGED <<seen, autopilot, arms, surprises>>

(* _status_cb.                                                             *)
StatusCb ==
  /\ mission.state # "done"
  /\ seen' = [status |-> autopilot, known |-> TRUE, fresh |-> TRUE]
  /\ UNCHANGED <<mission, due, autopilot, queued, motors, arms, surprises>>

-------------------------------------------------------------------------------
(* _tick.  Without a link, or once it is lost before the start, it waits.      *)
LinkTick ==
  /\ mission.state \in {"wait_link", "wait_start"}
  /\ \/ mission.state = "wait_start" /\ ~seen.fresh /\ SetState("wait_link")
     \/ seen.fresh /\ ~mission.start /\ mission.state = "wait_link" /\ SetState("wait_start")
  /\ UNCHANGED <<seen, autopilot, queued, motors, arms, surprises>>

(* _begin_attempt refuses a vehicle that is armed or in failsafe.             *)
BeginAttempt(s) == IF s.armed \/ s.failsafe THEN "done" ELSE "prestream"

StartTick ==
  /\ mission.state \in {"wait_link", "wait_start"} /\ seen.fresh /\ mission.start
  /\ mission' = [mission EXCEPT !.attempted = TRUE, !.state = BeginAttempt(seen.status)]
  /\ due' = [due EXCEPT !.state = FALSE]
  /\ UNCHANGED <<seen, autopilot, queued, motors, arms, surprises>>

(* A stale status: forced disarms until a status says otherwise.              *)
StaleTick ==
  /\ mission.state \in Running \cup Cleanup /\ ~seen.fresh
  /\ motors' = IF mission.state \in Running THEN "minimum" ELSE "stopped"
  /\ IF mission.state # "force_disarm" THEN SetState("force_disarm") /\ UNCHANGED queued
     ELSE /\ due.again /\ Command("force") /\ due' = [due EXCEPT !.again = FALSE]
          /\ UNCHANGED mission
  /\ UNCHANGED <<seen, autopilot, arms, surprises>>

(* The ticks with a fresh status publish first, then look at the state.       *)
Fresh(state) == mission.state = state /\ seen.fresh

PrestreamTick ==
  /\ Fresh("prestream") /\ motors' = "minimum"
  /\ IF due.state THEN Command("offboard") /\ SetState("wait_offboard")
                  ELSE UNCHANGED <<mission, due, queued>>
  /\ UNCHANGED <<seen, autopilot, arms, surprises>>

OffboardTick ==
  /\ Fresh("wait_offboard")
  /\ \/ /\ Offboard /\ Command("arm") /\ arms' = arms + 1 /\ SetState("wait_arm")
        /\ motors' = "minimum"
     \/ ~Offboard /\ due.state /\ BeginCleanup /\ UNCHANGED arms
  /\ UNCHANGED <<seen, autopilot, surprises>>

(* A slip: an unanswered arm is asked for again.                             *)
ArmTick_Repeats ==
  /\ Fresh("wait_arm")
  /\ \/ Offboard /\ IsArmed /\ SetState("hold_minimum") /\ motors' = "minimum"
        /\ UNCHANGED <<queued, arms>>
     \/ ~Offboard /\ BeginCleanup /\ UNCHANGED arms
     \/ Offboard /\ ~IsArmed /\ due.state /\ Command("arm") /\ arms' = arms + 1
        /\ SetState("wait_arm") /\ UNCHANGED motors
  /\ UNCHANGED <<seen, autopilot, surprises>>
ArmTick ==
  /\ Fresh("wait_arm") /\ UNCHANGED arms
  /\ \/ Offboard /\ IsArmed /\ SetState("hold_minimum") /\ motors' = "minimum" /\ UNCHANGED queued
     \/ (~Offboard \/ (~IsArmed /\ due.state)) /\ BeginCleanup
  /\ UNCHANGED <<seen, autopilot, surprises>>

HoldTick ==
  /\ Fresh("hold_minimum")
  /\ \/ ~IsArmed /\ SetState("done") /\ motors' = "minimum" /\ UNCHANGED queued
     \/ IsArmed /\ (~Offboard \/ due.state) /\ BeginCleanup
  /\ UNCHANGED <<seen, autopilot, arms, surprises>>

(* A slip: the normal disarm is taken for granted when its time is up.        *)
NormalTick_GivesUp ==
  /\ Fresh("normal_disarm") /\ (~IsArmed \/ due.state) /\ SetState("done")
  /\ motors' = "stopped" /\ UNCHANGED <<seen, autopilot, queued, arms, surprises>>
NormalTick ==
  /\ Fresh("normal_disarm") /\ motors' = "stopped"
  /\ \/ ~IsArmed /\ SetState("done")
     \/ IsArmed /\ due.state /\ SetState("force_disarm")
  /\ UNCHANGED <<seen, autopilot, queued, arms, surprises>>

ForceTick ==
  /\ Fresh("force_disarm") /\ motors' = "stopped"
  /\ \/ ~IsArmed /\ SetState("done") /\ UNCHANGED queued
     \/ IsArmed /\ due.again /\ Command("force") /\ due' = [due EXCEPT !.again = FALSE]
        /\ UNCHANGED mission
  /\ UNCHANGED <<seen, autopilot, arms, surprises>>

Tick ==
  /\ Len(queued) < MaxCommands
  /\ \/ LinkTick \/ StartTick \/ StaleTick \/ PrestreamTick \/ OffboardTick
     \/ ArmTick \/ HoldTick \/ NormalTick \/ ForceTick

-------------------------------------------------------------------------------
(* Time and PX4.                                                           *)
Elapses ==
  /\ mission.state \in Running \cup Cleanup
  /\ due' = [state |-> TRUE, again |-> TRUE] /\ due' # due
  /\ UNCHANGED <<mission, seen, autopilot, queued, motors, arms, surprises>>

GoesStale ==
  /\ mission.state # "done" /\ seen.fresh /\ Surprise /\ seen' = [seen EXCEPT !.fresh = FALSE]
  /\ UNCHANGED <<mission, due, autopilot, queued, motors, arms>>

(* PX4 takes a command.  It arms in OFFBOARD only; a forced disarm it never    *)
(* refuses.                                                               *)
Takes ==
  /\ queued # <<>> /\ queued' = Tail(queued)
  /\ autopilot' = CASE Head(queued) = "offboard" -> [autopilot EXCEPT !.offboard = TRUE]
                    [] Head(queued) = "arm" -> [autopilot EXCEPT !.armed = @ \/ autopilot.offboard]
                    [] OTHER -> [autopilot EXCEPT !.armed = FALSE]
  /\ UNCHANGED <<mission, seen, due, motors, arms, surprises>>
Refuses ==
  /\ queued # <<>> /\ Head(queued) # "force" /\ queued' = Tail(queued) /\ Surprise
  /\ UNCHANGED <<mission, seen, due, autopilot, motors, arms>>
Interferes ==
  /\ Surprise /\ mission.state # "done"
  /\ autopilot' \in {[autopilot EXCEPT !.offboard = FALSE], [autopilot EXCEPT !.armed = FALSE],
                     [autopilot EXCEPT !.failsafe = TRUE, !.offboard = FALSE]} \ {autopilot}
  /\ UNCHANGED <<mission, seen, due, queued, motors, arms>>

Next ==
  \/ StartCb \/ EndOrAbort \/ StatusCb \/ Tick
  \/ Elapses \/ GoesStale \/ Takes \/ Refuses \/ Interferes

(* The timer fires, deadlines come, PX4 takes commands and reports.           *)
Fairness ==
  /\ WF_vars(Tick) /\ WF_vars(Elapses) /\ WF_vars(Takes \/ Refuses) /\ WF_vars(StatusCb)

Spec == Init /\ [][Next]_vars /\ Fairness

-------------------------------------------------------------------------------
TypeOK ==
  /\ mission \in [state : States, start : BOOLEAN, attempted : BOOLEAN, held : BOOLEAN]
  /\ seen \in [status : Statuses, known : BOOLEAN, fresh : BOOLEAN]
  /\ due \in [state : BOOLEAN, again : BOOLEAN] /\ autopilot \in Statuses
  /\ queued \in Seq({"offboard", "arm", "disarm", "force"}) /\ Len(queued) <= MaxCommands + 1
  /\ motors \in {"nothing", "minimum", "stopped"}
  /\ arms \in Nat /\ surprises \in 0 .. MaxSurprises

(* One process arms at most once, after a start, and never a vehicle it had   *)
(* not seen disarmed ("one-shot").                                          *)
ArmsOnce == arms <= 1 /\ (arms = 1 => mission.start /\ mission.attempted)

(* Once it has held the motors armed, it ends only when PX4 has disarmed.      *)
ExitsDisarmed == mission.held /\ mission.state = "done" => ~autopilot.armed

(* What the module says: it exits after disarm, however it came to its end.    *)
ExitsAfterDisarm ==
  mission.state = "done" /\ arms = 1 /\ queued = <<>> => ~autopilot.armed

(* A hold ends, through refusals, stale statuses and a mode taken away.        *)
HoldEnds == mission.state = "hold_minimum" ~> mission.state = "done"
=============================================================================
