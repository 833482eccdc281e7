----------------------------- MODULE MissionCore -----------------------------
(***************************************************************************)
(* The mission engine driven by an arbitrary rim, the way core/mission.py   *)
(* offers itself to one: any public method at any moment, any flight sample *)
(* at any tick.                                                             *)
(***************************************************************************)
EXTENDS MissionEngine

CONSTANTS
  Spots,        \* the horizontal positions a sample may report
  HomeSpots,    \* and those it may report while the vehicle waits for the sync
  MaxResets     \* bound on the frame resets of a run

ASSUME CoreConstants == Spots \subseteq Spot /\ HomeSpots \subseteq Spot /\ MaxResets \in Nat

VARIABLES
  engine,
  (* history, for the properties only *)
  resets,       \* frame resets PX4 has made since the engine was built
  calm,         \* consecutive ticks at rest over the landing point (at most 2)
  anchored,     \* consecutive ticks with survey_ready (at most 2)
  dipped        \* clusters a dip has been completed over

history == <<resets, calm, anchored, dipped>>
vars == <<engine, history>>

Init ==
  /\ engine = NewEngine
  /\ resets = 0 /\ calm = 0 /\ anchored = 0 /\ dipped = {}

Free(relevant) == IF relevant THEN BOOLEAN ELSE {FALSE}

(* The samples that differ for the phase; a field no handler of the phase    *)
(* reads has one value.                                                     *)
Holding(e) == \/ e.phase = "SETTLE"
              \/ e.phase \in {"TAKEOFF", "LANE"} /\ Pattern = "center_return_rosette"
Guarded(e) == e.phase \notin UnguardedPhases

Samples(e) ==
  [spot : IF e.phase \in {"PREFLIGHT", "DUMP", "DONE"} THEN {Anchor}
          ELSE IF e.phase = "OFFBOARD_SYNC" THEN HomeSpots ELSE Spots,
   level : IF e.phase \in {"PREFLIGHT", "OFFBOARD_SYNC", "DUMP", "DONE"}
           THEN {"pad"} ELSE {"survey", "pad"},
   slow : Free(e.phase \in {"TAKEOFF", "LANE", "SETTLE"}),
   hvalid : Free(Holding(e)),
   ready : Free(Holding(e)),
   elapsed : Free(Holding(e) \/ e.phase \in {"OFFBOARD_SYNC", "VERIFY_DIP"}),
   silent : Free(e.phase \in SurveyPhases /\ SilenceOn /\ e.detector_seen),
   late : Free(Guarded(e) /\ TimeoutOn)]

Saturate(n) == IF n < 2 THEN n + 1 ELSE 2

DoTick ==
  \E in \in Samples(engine) :
    /\ engine' = Tick(engine, in)
    /\ calm' = IF in.hvalid /\ in.slow /\ Reached(in, Egress(engine), "survey")
               THEN Saturate(calm) ELSE 0
    /\ anchored' = IF in.ready THEN Saturate(anchored) ELSE 0
    /\ dipped' = IF engine'.dips > engine.dips THEN dipped \cup {engine.target} ELSE dipped
    /\ UNCHANGED resets

DoStart == engine' = Start(engine) /\ UNCHANGED history

DoDetectorAlive == SilenceOn /\ engine' = NoteDetectorAlive(engine) /\ UNCHANGED history

(* A position message: PX4 has reset its frame n times since the last one.   *)
DoResetCounter ==
  /\ engine.phase # "PREFLIGHT"
  /\ \E n \in {0, 1} :
       /\ resets + n <= MaxResets
       /\ resets' = IF engine.counter = NoCounter THEN resets ELSE resets + n
       /\ \E c \in 0 .. CounterMod - 1 :
            /\ engine.counter # NoCounter => c = (engine.counter + n) % CounterMod
            /\ engine' = NoteResetCounter(engine, c)
  /\ UNCHANGED <<calm, anchored, dipped>>

DoAbort == engine' = Abort(engine) /\ UNCHANGED history

DoIngest ==
  /\ engine.phase # "PREFLIGHT"
  /\ \E c \in Clusters, tagged \in BOOLEAN, enough \in BOOLEAN :
       engine' = Ingest(engine, c, tagged, enough)
  /\ UNCHANGED history

DoDumpResult ==
  \E ok \in BOOLEAN : engine' = NotifyDumpResult(engine, ok) /\ UNCHANGED history

Next == \/ DoStart \/ DoDetectorAlive \/ DoResetCounter \/ DoAbort
        \/ DoIngest \/ DoDumpResult \/ DoTick

Spec == Init /\ [][Next]_vars

-----------------------------------------------------------------------------
(* Every field of the engine keeps its type.                                *)
TypeOK ==
  /\ engine \in EngineState
  /\ resets \in Nat /\ calm \in 0 .. 2 /\ anchored \in 0 .. 2
  /\ dipped \subseteq Clusters \cup {NoCluster}

AllSteps == Lanes \X (0 .. Rows - 1)

(* The coverage a dump reports: everything on the lanes already flown, the   *)
(* stretch up to the recorded progress point on this one, nothing beyond.    *)
(* Dips and detours leave it so (tick_lane, _record_coverage, _tick_dip).    *)
CoverageIsPrefix ==
  Pattern = "serpentine" =>
    engine.covered = {s \in AllSteps : \/ s[1] < engine.lane
                                       \/ s[1] = engine.lane /\ s[2] < engine.along}

(* A mission on its way home without an abort has flown every lane to its    *)
(* end, or every petal out and back.                                        *)
SurveyIsComplete ==
  ~engine.aborted /\ engine.phase \in {"EGRESS", "DUMP", "SETTLE", "LAND", "DONE"} =>
    IF Pattern = "serpentine" THEN engine.covered = AllSteps
    ELSE engine.petal = Petals

(* Nothing is reported covered that was not flown, and nothing is left out.      *)
CoverageInv == CoverageIsPrefix /\ SurveyIsComplete

(* While the survey is flown no setpoint stands outside the fence, whatever a *)
(* lane, a petal or a dip over a cluster asks for.                          *)
CommandStaysInside ==
  engine.phase \in {"LANE", "VERIFY_DIP"} => ~OutsideFence(engine, engine.sp.spot)

(* No cluster is dipped over twice, and the budget holds.                   *)
DipsAreSpentOnce ==
  /\ [][engine'.dips # engine.dips => engine.target \in Clusters \ dipped]_vars
  /\ [](engine.dips <= MaxDips)

(* LAND, and the departure to a petal, follow two ticks in a row at rest over *)
(* the point, and two with the anchor settled where the code asks for it.    *)
DepartsFromRest ==
  [][/\ engine.phase = "SETTLE" /\ engine'.phase = "LAND" =>
          calm' = 2 /\ (engine.settle_strict => anchored' = 2)
     /\ engine.stage = "center" /\ engine'.stage = "outbound" =>
          calm' = 2 /\ anchored' = 2]_vars

(* The engine goes through the stages of the mission in their order.         *)
Stage(e) ==
  CASE e.phase = "PREFLIGHT" -> "waiting"
    [] e.phase \in {"OFFBOARD_SYNC", "TAKEOFF", "LANE", "VERIFY_DIP"} -> "surveying"
    [] e.phase \in {"EGRESS", "ABORT"} -> "homing"
    [] e.phase = "DUMP" -> "delivering"
    [] e.phase = "SETTLE" -> "settling"
    [] e.phase = "LAND" -> "landing"
    [] e.phase = "DONE" -> "ended"

Lifecycle == INSTANCE MissionLifecycle
  WITH Restarts <- FALSE, stage <- Stage(engine), aborted <- engine.aborted, delivered <- engine.acked

ImplementsLifecycle == Lifecycle!Spec

=============================================================================
