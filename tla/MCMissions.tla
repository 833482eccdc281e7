------------------------------ MODULE MCMissions ------------------------------
(***************************************************************************)
(* A vehicle is launched with one mission executable.  Each behaviour runs    *)
(* one: the mission core with one of its patterns, any mission on the         *)
(* controller (AnyMission), the survey from a schedule, or the bench test; the   *)
(* variables of the others rest.  (The phased orbits, the flights of   *)
(* a fleet, and core and controller together have runs of their own.)            *)
(***************************************************************************)
EXTENDS MissionCore, AnyMission, Sequences

CONSTANTS
  Schedule, ToHomeTime, ClimbDrift, FrameShifts, MaxFrameResets, MaxGusts,   \* SurveyMission
  MaxCommands, MaxSurprises                                                 \* PropIdle

(* build_survey_schedule has a segment at least, and a hover of no time may be one.  *)
ASSUME SurveyConstants ==
  /\ Schedule \in Seq([to : Int, time : Nat]) /\ Schedule # <<>> /\ ToHomeTime \in Nat
  /\ ClimbDrift \subseteq Int /\ FrameShifts \subseteq Int
  /\ {MaxFrameResets, MaxGusts} \subseteq Nat
ASSUME BenchConstants == {MaxCommands, MaxSurprises} \subseteq Nat

(* The mission core flies one of its patterns: the serpentine, whose constants    *)
(* the .cfg gives, or the rosette; the engine of the other is built and never     *)
(* called.                                                                      *)
VARIABLES
  pattern,                                \* the one flown
  petals, moves, rested, settled, visited  \* engine and history of the rosette

rosetteVars == <<petals, moves, rested, settled, visited>>

Grid(rows, columns) == {<<n, e>> : n \in rows, e \in columns}

(* Two lanes of two steps; launch from behind the field.                    *)
MCLaneField == Grid(0 .. 2, 0 .. 1)
MCLaunchLine == <<-1, 0>>
MCLaneHome == {MCLaunchLine}
MCLaneSpots == MCLaneField \cup {MCLaunchLine, <<1, 3>>}
(* The first cluster lies on a lane, the second beyond the polygon.          *)
MCClusterSpot == [c \in {1, 2} |-> IF c = 1 THEN <<1, 1>> ELSE <<1, 3>>]
MCClusterOnLane == [c \in {1} |-> <<1, 1>>]

(* A rosette about the pad; the second petal leaves a one step fence about a  *)
(* home off the pad.                                                        *)
Rosette == INSTANCE MissionCore WITH
  Pattern <- "center_return_rosette", NLanes <- 1, Rows <- 1, Petals <- 2,
  Clusters <- {}, ClusterSpot <- [c \in {} |-> <<0, 0>>], Anchor <- <<0, 0>>, MaxDips <- 0,
  FieldPolygon <- {}, FenceRadius <- 1, TimeoutOn <- TRUE, SilenceOn <- TRUE,
  CounterMod <- 8, MaxResets <- 2,
  Spots <- {<<0, 0>>, <<1, 0>>, <<1, 1>>, <<3, 0>>}, HomeSpots <- {<<0, 0>>, <<1, 0>>},
  engine <- petals, resets <- moves, calm <- rested, anchored <- settled, dipped <- visited

coreVars == <<pattern, vars, rosetteVars>>
CoreInit == pattern \in {"serpentine", "rosette"} /\ Init /\ Rosette!Init
CoreNext ==
  \/ pattern = "serpentine" /\ UNCHANGED <<pattern, rosetteVars>> /\ Next
  \/ pattern = "rosette" /\ UNCHANGED <<pattern, vars>> /\ Rosette!Next

VARIABLES
  executable,
  profile, flight, frame, target, inbox, now_ticked, spent,              \* SurveyMission
  mission, seen, due, autopilot, queued, motors, arms, surprises         \* PropIdle

surveyVars == <<profile, flight, frame, target, inbox, now_ticked, spent>>
benchVars == <<mission, seen, due, autopilot, queued, motors, arms, surprises>>

Survey == INSTANCE SurveyMission
Bench == INSTANCE PropIdle

(* A lane out, a hover, a cube edge and the way back.                          *)
MCSchedule == <<[to |-> 2, time |-> 1], [to |-> 2, time |-> 1],
                [to |-> 4, time |-> 1], [to |-> 0, time |-> 2]>>

(* At rest: no handler of it is enabled.                                      *)
CoreRests == CoreInit /\ pattern = "serpentine"
ControllerRests ==
  /\ alive = FALSE /\ state = "wait_link" /\ start_ok = FALSE /\ abort_requested = FALSE
  /\ home_requested = FALSE /\ datum = FALSE /\ status = NothingHeard /\ stream = FALSE
  /\ operator_start = FALSE
  /\ px4 = [nav |-> "other", armed |-> FALSE, failsafe |-> FALSE, airborne |-> FALSE]
  /\ latched = {} /\ pending = {} /\ upsets = 0 /\ restarts = 0
SurveyRests ==
  /\ profile = [align |-> FALSE, auto_start |-> FALSE]
  /\ flight = [life |-> "gone", climbed |-> FALSE, aligned |-> FALSE, turning |-> FALSE,
               gate |-> -1, homing |-> FALSE, home |-> -1, home_from |-> 0,
               settling |-> FALSE, land |-> FALSE]
  /\ frame = [launch |-> 0, anchor |-> 0, climbed_at |-> 0]
  /\ target = 0 /\ inbox = {} /\ now_ticked = FALSE /\ spent = [resets |-> 0, gusts |-> 0]
BenchRests ==
  /\ mission = [state |-> "done", start |-> FALSE, attempted |-> FALSE, held |-> FALSE]
  /\ seen = [status |-> Bench!OnThePad, known |-> FALSE, fresh |-> FALSE]
  /\ due = [state |-> FALSE, again |-> TRUE] /\ autopilot = Bench!OnThePad
  /\ queued = <<>> /\ motors = "nothing" /\ arms = 0 /\ surprises = 0

MCInit ==
  \/ executable = "core" /\ CoreInit /\ ControllerRests /\ SurveyRests /\ BenchRests
  \/ executable = "any" /\ CoreRests /\ ControllerInit /\ SurveyRests /\ BenchRests
  \/ executable = "survey" /\ CoreRests /\ ControllerRests /\ Survey!Init /\ BenchRests
  \/ executable = "bench" /\ CoreRests /\ ControllerRests /\ SurveyRests /\ Bench!Init

CoreAlone == executable = "core" /\ UNCHANGED <<executable, controllerVars, surveyVars, benchVars>>
AnyAlone == executable = "any" /\ UNCHANGED <<executable, coreVars, surveyVars, benchVars>>
SurveyAlone == executable = "survey" /\ UNCHANGED <<executable, coreVars, controllerVars, benchVars>>
BenchAlone == executable = "bench" /\ UNCHANGED <<executable, coreVars, controllerVars, surveyVars>>
MCNext ==
  \/ CoreAlone /\ CoreNext
  \/ AnyAlone /\ AnyNext
  \/ SurveyAlone /\ Survey!Next
  \/ BenchAlone /\ Bench!Next

(* The fairness of the three specifications.  A behaviour runs one of them, so  *)
(* one strong fairness serves the controller and the survey.                  *)
allVars == <<executable, coreVars, controllerVars, surveyVars, benchVars>>
MCFairness ==
  /\ SF_allVars(\/ AnyAlone /\ TickLandRequested /\ px4'.nav = "land"
                \/ SurveyAlone /\ (Survey!ClimbsAway \/ Survey!TurnsThere \/ Survey!Lands))
  /\ WF_allVars(\/ AnyAlone /\ ControllerTick
                \/ SurveyAlone /\ Survey!EndArrives
                \/ BenchAlone /\ Bench!Tick)
  /\ WF_allVars(\/ AnyAlone /\ StatusArrives
                \/ SurveyAlone /\ Survey!Clock
                \/ BenchAlone /\ Bench!Elapses)
  /\ WF_allVars(\/ SurveyAlone /\ (Survey!Activates \/ Survey!HandsOver)
                \/ BenchAlone /\ (Bench!Takes \/ Bench!Refuses))
  /\ WF_allVars(\/ SurveyAlone /\ (Survey!FliesHome \/ Survey!FliesSchedule) /\ ~now_ticked
                \/ BenchAlone /\ Bench!StatusCb)

MCSpec == MCInit /\ [][MCNext]_allVars /\ MCFairness

(* No schedule is flown before the drone has climbed and turned (SurveyMission);      *)
(* one process of the bench test arms at most once, and a test that held the        *)
(* motors armed ends disarmed (PropIdle).                                      *)
MissionsInv ==
  /\ Survey!TypeOK /\ Survey!StartsReady
  /\ Bench!TypeOK /\ Bench!ArmsOnce /\ Bench!ExitsDisarmed

(* The rosette comes home with every petal flown out and back (_tick_center and      *)
(* the stages after it), and begins a petal, and the landing, only from rest over the  *)
(* center with the anchor settled (the two hold timers).                          *)
PetalsAreFlown == []Rosette!CoverageInv /\ Rosette!DepartsFromRest

(* A survey that began ends, and /end_mission ends it from every phase             *)
(* (SurveyMission); the latched abort of any mission on the controller ends in a     *)
(* landing PX4 has accepted (AnyMission).                                      *)
MissionsEnd == Survey!SurveyEnds /\ AbortLands
=============================================================================
