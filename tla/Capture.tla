-------------------------------- MODULE Capture --------------------------------
(***************************************************************************)
(* The camera and the processes about it.  Each behaviour runs one part: the    *)
(* owner of the camera (SensingNode), owners and readers at the name of its      *)
(* pool (PoolSessions), or the flight recorder (Recorder); the others rest.      *)
(***************************************************************************)
EXTENDS Integers

CONSTANTS
  Backends, QueueDepth, PoolSlots, FrameGaps, WallSteps, MaxDt, NodeStopsOnDisarm,
  MaxTaken, MaxSteps, MaxNotes,                                           \* SensingNode
  Owners, MaxStarts, MaxPublished,                                        \* PoolSessions
  Period, OvPeriod, PoolGaps, TapeStopsOnDisarm,
  MaxRecorded, MaxShots, MaxFlights                                       \* Recorder

VARIABLES
  part,
  stage, stop, errors, sync, armed_seen, clock, frames, sinks, lending, leaked,
  flow, notes, steps,                                                     \* SensingNode
  path, file, lock, owners, pollers, seen, starts, count, lost,           \* PoolSessions
  main, halt, signalled, faults, px4, seen_armed, newest, cm2, ov, bag,
  recorded, shots, flights                                                \* Recorder

cameraVars == <<stage, stop, errors, sync, armed_seen, clock, frames, sinks, lending, leaked,
                flow, notes, steps>>
sessionVars == <<path, file, lock, owners, pollers, seen, starts, count, lost>>
recorderVars == <<main, halt, signalled, faults, px4, seen_armed, newest, cm2, ov, bag,
                  recorded, shots, flights>>
allVars == <<part, cameraVars, sessionVars, recorderVars>>

Camera == INSTANCE SensingNode WITH
  Depth <- QueueDepth, SlotCount <- PoolSlots, Gaps <- FrameGaps, Steps <- WallSteps,
  StopOnDisarm <- NodeStopsOnDisarm, MaxFrames <- MaxTaken

Sessions == INSTANCE PoolSessions WITH MaxFrames <- MaxPublished

Tape == INSTANCE Recorder WITH
  Gaps <- PoolGaps, StopOnDisarm <- TapeStopsOnDisarm, MaxFrames <- MaxRecorded,
  stop <- halt, errors <- faults, frames <- recorded

(* Queues hold a frame at least, clocks count in whole numbers, and processes have     *)
(* names of their own.                                                        *)
ASSUME CaptureConstants ==
  /\ QueueDepth \in Nat \ {0} /\ FrameGaps \subseteq Int /\ WallSteps \subseteq Int
  /\ MaxDt \in Nat
  /\ Owners \cap (Sessions!Readers \cup {Sessions!Nobody}) = {}
  /\ MaxStarts \in Nat /\ MaxPublished \in Nat
  /\ Period \in Nat /\ PoolGaps \subseteq Int

(* The wall clock set forth and back, of the instance.                           *)
MCSteps == {-4, 4}

-------------------------------------------------------------------------------
(* The parts that do not run stay as they begin.                              *)
CaptureInit ==
  /\ part \in {"camera", "sessions", "recorder"}
  /\ Camera!Init /\ Sessions!Init /\ Tape!Init
  /\ part # "camera" => flow.backend = CHOOSE b \in Backends : TRUE

CameraAlone == part = "camera" /\ UNCHANGED <<part, sessionVars, recorderVars>>
SessionsAlone == part = "sessions" /\ UNCHANGED <<part, cameraVars, recorderVars>>
TapeAlone == part = "recorder" /\ UNCHANGED <<part, cameraVars, sessionVars>>

CaptureNext ==
  \/ CameraAlone /\ Camera!Next
  \/ SessionsAlone /\ Sessions!Next
  \/ TapeAlone /\ Tape!Next

(* The fairness of the three specifications, of which a behaviour runs one.      *)
Polls(r) == SessionsAlone /\ (Sessions!Probe(r) \/ Sessions!LetGo(r) \/ Sessions!Poll(r))
CaptureFairness ==
  /\ WF_allVars(\/ CameraAlone /\ Camera!Main
                \/ Polls("detector")
                \/ TapeAlone /\ Tape!Main)
  /\ WF_allVars(\/ CameraAlone /\ Camera!Worker("flow")
                \/ Polls("recorder")
                \/ TapeAlone /\ Tape!Cm2Works)
  /\ WF_allVars(\/ CameraAlone /\ Camera!Worker("detector")
                \/ SessionsAlone /\ Sessions!GoesStale
                \/ TapeAlone /\ Tape!OnStatus)
  /\ \A r \in Sessions!Readers : SF_allVars(SessionsAlone /\ Sessions!Worked(r))

CaptureSpec == CaptureInit /\ [][CaptureNext]_allVars /\ CaptureFairness

-------------------------------------------------------------------------------
(* Stamps rise, capture waits for the clocks, sinks serve the newest frame in      *)
(* order and give every frame back (SensingNode); one owner writes a pool and keeps   *)
(* its sequence (PoolSessions); the recorder writes one frame in a period and ends     *)
(* for a reason (Recorder).                                                   *)
CaptureInv == Camera!CameraInv /\ Sessions!SessionsInv /\ Tape!RecorderInv
(* No stretch of time is in two flow messages (SensingNode).                    *)
FlowCountsOnce == Camera!FlowCountsOnce
(* The owner of the camera ends when told, and the recorder closes its bag, though  *)
(* a sink hangs or the second camera never answers, unless its take-down raises     *)
(* before the bag (SensingNode, Recorder).                                       *)
EndsWhenTold == Camera!SensingEnds /\ Tape!BagIsFinalized

(* The detector gets to the newest frame over any restart of the owner, the recorder *)
(* over a crash (PoolSessions).                                               *)
ReadersFollow == Sessions!DetectorCatchesUp /\ Sessions!RecorderFollowsACrash
=============================================================================
