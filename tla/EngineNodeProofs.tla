--------------------------- MODULE EngineNodeProofs ---------------------------
(***************************************************************************)
(* Proofs about the engine node: its types, that it arms, dumps and lands    *)
(* only when due, that a hand-off to PX4 is final, that the stream never     *)
(* stops under OFFBOARD when no delivery stalls, and that the node, restarts *)
(* included, implements the life cycle of a mission.                        *)
(***************************************************************************)
EXTENDS EngineNode, MissionLemmas, TLAPS

-----------------------------------------------------------------------------
(* The invariant.                                                           *)

(* A running engine satisfies its own invariant.                             *)
EngineFits == engine # NoEngine => Good(engine) /\ Surveyed(engine) /\ Spends(engine, {})

(* What the node keeps of its own, next to the controller's variables.       *)
RimOK ==
  /\ begun \in BOOLEAN /\ dumped \in BOOLEAN /\ land_requested \in BOOLEAN
  /\ gusts \in 0 .. MaxGusts /\ resets \in 0 .. MaxResets
  /\ engine # NoEngine => begun

(* The survey never returns by PX4's own mode; what DDS has yet to replay is  *)
(* still held by its publisher.                                             *)
GatesOK == state # "returning" /\ pending \subseteq latched

NodeOK == ControllerInv /\ EngineFits /\ RimOK /\ GatesOK /\ LandsWhenDue

(* A running engine is an engine.                                            *)
LEMMA Running ==
  ASSUME EngineFits, engine # NoEngine
  PROVE  Good(engine) /\ Surveyed(engine) /\ Spends(engine, {}) /\ engine \in EngineState
BY DEF EngineFits, Good

(* A new engine is as good as any.                                           *)
LEMMA NewEngineGood ==
  Good(NewEngine) /\ Good(Start(NewEngine))
<1>0. NLanes \in Nat \ {0} /\ Rows \in Nat
  BY EngineConstants
<1>1. 0 \in Lanes /\ 0 \in 0 .. Rows
  BY <1>0 DEF Lanes
<1>2. "PREFLIGHT" \in Phases /\ "absent" \in Statuses /\ "center" \in PetalStages
      /\ "OFFBOARD_SYNC" \in Phases
  BY DEF Phases, Statuses, PetalStages
<1>3. NewEngine \in EngineState
  BY <1>1, <1>2 DEF NewEngine, EngineState
<1>4. NewEngine.phase = "PREFLIGHT" /\ ~NewEngine.aborted
  BY DEF NewEngine
<1> HIDE DEF NewEngine
<1>5. Good(NewEngine)
  BY <1>3, <1>4 DEF Good, SurveyPhases, UnabortedPhases
<1> DEFINE f == [NewEngine EXCEPT !.phase = "OFFBOARD_SYNC"]
<1>6. f \in EngineState /\ f.phase = "OFFBOARD_SYNC" /\ f.aborted = NewEngine.aborted
  BY <1>2, <1>3, ZenonT(120) DEF EngineState
<1>7. Start(NewEngine) = f
  BY <1>4 DEF Start
<1> HIDE DEF f
<1> QED
  BY <1>4, <1>5, <1>6, <1>7 DEF Good, SurveyPhases, UnabortedPhases

(* What an engine that runs on may change for the landing that is due: once   *)
(* acknowledged or aborted, it stays so.                                    *)
Settled(e) == e.acked \/ e.aborted

(* A step of the engine that keeps the invariants.                           *)
RunsOn(e, f) ==
  /\ Good(f) /\ Surveyed(f) /\ Spends(f, {})
  /\ Changes(e, f) /\ (Settled(e) => Settled(f))

(* A new engine never is settled before it has been delivered or aborted.     *)
LEMMA BeginsUnsettled ==
  LET f == Start(NewEngine)
  IN  Good(f) /\ Surveyed(f) /\ Spends(f, {}) /\ f.phase = "OFFBOARD_SYNC"
      /\ f.aborted = FALSE /\ f.acked = FALSE
<1> DEFINE f == [NewEngine EXCEPT !.phase = "OFFBOARD_SYNC"]
<1>1. NewEngine \in EngineState /\ NewEngine.phase = "PREFLIGHT"
  BY NewEngineGood DEF Good, NewEngine
<1>2. NewEngine.aborted = FALSE /\ NewEngine.acked = FALSE
  BY DEF NewEngine
<1>3. Start(NewEngine) = f
  BY <1>1 DEF Start
<1>4. Surveyed(Start(NewEngine)) /\ Spends(Start(NewEngine), {})
  BY NewEngineGood, NewSurveys, StartSurveys
<1> HIDE DEF NewEngine
<1>5. f.phase = "OFFBOARD_SYNC" /\ f.aborted = NewEngine.aborted /\ f.acked = NewEngine.acked
  BY <1>1, ZenonT(120) DEF EngineState
<1> QED
  BY <1>2, <1>3, <1>4, <1>5, NewEngineGood

(* The methods of the engine run it on.                                      *)
LEMMA AbortRunsOn ==
  ASSUME NEW e, Good(e), Surveyed(e), Spends(e, {})
  PROVE  RunsOn(e, Abort(e))
<1>1. e \in EngineState
  BY DEF Good
<1>2. Good(Abort(e)) /\ Surveyed(Abort(e)) /\ Spends(Abort(e), {})
  BY AbortIsGood, AbortSurveys
<1>3. CASE e.phase \in {"ABORT", "DONE"}
  <2>1. Abort(e) = e
    BY <1>1, <1>3, Aborting
  <2> QED
    BY <1>2, <2>1 DEF RunsOn, Changes, Moves, Same
<1>4. CASE e.phase \notin {"ABORT", "DONE"}
  <2>1. Abort(e).phase = "ABORT" /\ Abort(e).aborted /\ Abort(e).acked = e.acked
    BY <1>1, <1>4, Aborting
  <2> QED
    BY <1>2, <1>4, <2>1 DEF RunsOn, Changes, Aborts, Settled
<1> QED
  BY <1>3, <1>4

LEMMA TickRunsOn ==
  ASSUME NEW e, Good(e), Surveyed(e), Spends(e, {}), NEW in \in Sample
  PROVE  LET f == Tick(e, in) IN RunsOn(e, f) /\ (Moves(e, f) \/ Aborts(e, f))
<1>1. PICK f : f = Tick(e, in)
  OBVIOUS
<1>2. Good(f) /\ (Moves(e, f) \/ Aborts(e, f)) /\ Surveyed(f) /\ Spends(f, {})
  BY <1>1, Ticking, TickSurveys
<1> QED
  BY <1>1, <1>2 DEF RunsOn, Changes, Moves, Aborts, Same, Settled

(* A detection message and a reset counter change nothing the life cycle sees. *)
LEMMA NotesRunOn ==
  ASSUME NEW e, Good(e), Surveyed(e), Spends(e, {})
  PROVE  /\ RunsOn(e, NoteDetectorAlive(e)) /\ Same(e, NoteDetectorAlive(e))
         /\ NoteDetectorAlive(e).phase = e.phase
         /\ \A c \in 0 .. CounterMod - 1 : RunsOn(e, NoteResetCounter(e, c))
         /\ \A c \in Clusters, tagged \in BOOLEAN, enough \in BOOLEAN :
              LET f == Ingest(e, c, tagged, enough)
              IN  RunsOn(e, f) /\ Same(e, f) /\ f.phase = e.phase
<1>1. e \in EngineState /\ {} \subseteq Clusters
  BY DEF Good
<1>2. ASSUME NEW f, Kept(e, f), f.acked = e.acked, Surveyed(f), Spends(f, {})
      PROVE  RunsOn(e, f) /\ Same(e, f) /\ f.phase = e.phase
  <2>1. Good(f)
    BY <1>2 DEF Good, Kept
  <2> QED
    BY <1>2, <2>1 DEF RunsOn, Changes, Moves, Same, Kept, Settled
<1>3. RunsOn(e, NoteDetectorAlive(e)) /\ Same(e, NoteDetectorAlive(e))
      /\ NoteDetectorAlive(e).phase = e.phase
  <2> DEFINE f == NoteDetectorAlive(e)
  <2>1. Kept(e, f) /\ f.acked = e.acked
    BY <1>1, Noting
  <2>2. Surveyed(f) /\ Spends(f, {})
    BY <1>1, NotesSurvey
  <2> QED
    BY <1>2, <2>1, <2>2
<1>4. ASSUME NEW c \in 0 .. CounterMod - 1
      PROVE  RunsOn(e, NoteResetCounter(e, c))
  BY <1>1, <1>2, Noting, NotesSurvey
<1>5. ASSUME NEW c \in Clusters, NEW tagged \in BOOLEAN, NEW enough \in BOOLEAN
      PROVE  LET f == Ingest(e, c, tagged, enough)
             IN  RunsOn(e, f) /\ Same(e, f) /\ f.phase = e.phase
  <2> DEFINE f == Ingest(e, c, tagged, enough)
  <2>1. Kept(e, f) /\ f.acked = e.acked
    BY <1>1, Noting
  <2>2. Surveyed(f) /\ Spends(f, {})
    BY <1>1, NotesSurvey
  <2> QED
    BY <1>2, <2>1, <2>2
<1> QED
  BY <1>3, <1>4, <1>5

(* The reply to the one dump a survey makes, in the tick that comes to it.    *)
LEMMA DumpRunsOn ==
  ASSUME NEW e, NEW f, RunsOn(e, f), Moves(e, f) \/ Aborts(e, f), f.phase = "DUMP",
         NEW ok \in BOOLEAN
  PROVE  LET g == NotifyDumpResult(f, ok)
         IN  /\ Good(g) /\ Surveyed(g) /\ Spends(g, {}) /\ Track(f, g)
             /\ Settled(e) => Settled(g)
             /\ ~f.aborted
             /\ \/ Aborts(e, g)
                \/ /\ g.phase = "DUMP" /\ g.aborted = e.aborted
                   /\ e.phase \in {"OFFBOARD_SYNC", "EGRESS", "DUMP"} \cup SurveyPhases
                   /\ e.acked => g.acked
<1> DEFINE g == NotifyDumpResult(f, ok)
<1>1. Good(f) /\ Surveyed(f) /\ Spends(f, {}) /\ Moves(e, f) /\ ~f.aborted
  BY DEF RunsOn, Aborts, Good, UnabortedPhases
<1>2. /\ Good(g)
      /\ \/ g = f \/ Aborts(f, g)
         \/ Kept(f, g) /\ g.acked = f.acked
         \/ Kept(f, g) /\ g.acked = TRUE /\ f.phase = "DUMP"
  BY <1>1, Replying
<1>3. Surveyed(g) /\ Spends(g, {}) /\ Track(f, g)
  BY <1>1, ReplySurveys
<1> HIDE DEF g
<1>4. e.phase \in {"OFFBOARD_SYNC", "EGRESS", "DUMP"} \cup SurveyPhases /\ Same(e, f)
  BY <1>1 DEF Moves
<1>5. CASE Aborts(f, g)
  <2>1. Aborts(e, g)
    BY <1>4, <1>5 DEF Aborts, Same, SurveyPhases
  <2> QED
    BY <1>1, <1>2, <1>3, <2>1 DEF g, Aborts, Settled
<1>6. CASE ~Aborts(f, g)
  <2>1. /\ g.phase = "DUMP" /\ g.aborted = e.aborted
        /\ e.acked => g.acked
    BY <1>2, <1>4, <1>6 DEF Kept, Same
  <2> QED
    BY <1>1, <1>2, <1>3, <1>4, <2>1 DEF g, Settled
<1> QED
  BY <1>5, <1>6

-----------------------------------------------------------------------------
(* What a step of the node may do.                                          *)

(* The hand-off is final; what is dumped is whole; the stream is lost to the   *)
(* delivery only.                                                           *)
Final ==
  alive /\ alive' =>
    /\ state = "land_requested" => state' \in {"land_requested", "landing", "done"}
    /\ state \in {"landing", "failsafe", "done"} => state' \in {state, "done"}
WholeDump ==
  dumped' /\ ~dumped =>
    IF Pattern = "serpentine" THEN engine'.covered = Lanes \X (0 .. Rows - 1)
    ELSE engine'.petal = Petals
StreamsOn == Stale' => Stale \/ (dumped' /\ ~dumped)

(* A delivery within the tick that comes to it.                              *)
Delivers(e, f) ==
  /\ f.phase = "DUMP" /\ f.aborted = e.aborted
  /\ e.phase \in {"OFFBOARD_SYNC", "EGRESS", "DUMP"} \cup SurveyPhases
  /\ e.acked => f.acked

EngineGoes ==
  \/ engine' = engine
  \/ /\ engine # NoEngine /\ engine' # NoEngine
     /\ Good(engine) /\ Good(engine')
     /\ Changes(engine, engine') \/ Delivers(engine, engine')
  \/ /\ engine = NoEngine /\ engine' # NoEngine
     /\ engine'.phase = "OFFBOARD_SYNC" /\ engine'.aborted = FALSE /\ engine'.acked = FALSE
  \/ engine' = NoEngine /\ MaxRestarts > 0

StepOK == NodeOK' /\ ArmsStep /\ Final /\ WholeDump /\ StreamsOn /\ EngineGoes

(* A step that neither touches the stream nor puts PX4 under OFFBOARD.         *)
LEMMA StreamRests ==
  ASSUME alive' => alive /\ stream' = stream, state' = state,
         px4' = px4 \/ ~px4'.armed \/ px4'.nav # "offboard"
                    \/ (px4.armed /\ px4.nav = "offboard")
  PROVE  StreamsOn
<1> SUFFICES ASSUME Stale'
             PROVE  Stale
  BY DEF StreamsOn
<1>1. px4.armed /\ px4.nav = "offboard"
  BY DEF Stale
<1> QED
  BY <1>1 DEF Stale

(* A step that leaves the rim and the engine alone.                          *)
LEMMA RimRests ==
  ASSUME NodeOK, rimUnchanged, ControllerInv', ArmsStep, Final, StreamsOn, GatesOK',
         abort_requested' /\ "abort" \notin latched'
           => abort_requested /\ "abort" \notin latched
  PROVE  StepOK
<1>1. /\ engine' = engine /\ begun' = begun /\ dumped' = dumped
      /\ land_requested' = land_requested /\ gusts' = gusts /\ resets' = resets
  BY DEF rimUnchanged, rim
<1>2. EngineFits' /\ RimOK' /\ LandsWhenDue'
  BY <1>1 DEF NodeOK, EngineFits, RimOK, LandsWhenDue
<1>3. WholeDump /\ EngineGoes
  BY <1>1 DEF WholeDump, EngineGoes
<1> QED
  BY <1>2, <1>3 DEF StepOK, NodeOK

(* The ticks of the controller that need no mission.                         *)
LEMMA ControllerTickOK ==
  ASSUME NodeOK, ControllerTick \/ TickActiveYields(FALSE), rimUnchanged
  PROVE  StepOK
<1>1. ControllerInv' /\ ArmsStep
  BY HandshakeTicks, FlightTicks DEF ControllerTick, NodeOK
<1>2. /\ UNCHANGED <<alive, abort_requested, latched, pending>>
      /\ state \notin {"returning"} => state' # "returning"
      /\ Final /\ StreamsOn
  <2> USE DEF process, gates, In, Heartbeat, Final, StreamsOn, Stale
  <2>0. state # "returning"
    BY DEF NodeOK, GatesOK
  <2>1. CASE TickWaitLink
    BY <2>1 DEF TickWaitLink
  <2>2. CASE TickWaitStart
    BY <2>2 DEF TickWaitStart
  <2>3. CASE TickPrestream
    BY <2>3 DEF TickPrestream
  <2>4. CASE TickEngage
    BY <2>4 DEF TickEngage, BeginLanding
  <2>5. CASE TickActiveAborts
    BY <2>5 DEF TickActiveAborts, BeginLanding
  <2>6. CASE TickActiveYields(TRUE) \/ TickActiveYields(FALSE)
    BY <2>6 DEF TickActiveYields
  <2>7. CASE TickReturning
    BY <2>0, <2>7 DEF TickReturning
  <2>8. CASE TickLandRequested
    BY <2>8 DEF TickLandRequested
  <2>9. CASE TickWatching
    BY <2>9 DEF TickWatching
  <2>10. CASE TickDone
    BY <2>10 DEF TickDone
  <2> QED
    BY <2>1, <2>2, <2>3, <2>4, <2>5, <2>6, <2>7, <2>8, <2>9, <2>10 DEF ControllerTick
<1>3. GatesOK'
  BY <1>2 DEF NodeOK, GatesOK
<1> QED
  BY <1>1, <1>2, <1>3, RimRests

(* The gates that only latch.                                               *)
LEMMA GateCallbacksOK ==
  ASSUME NodeOK, StartCb \/ AbortCb, rimUnchanged
  PROVE  StepOK
<1>1. ControllerInv' /\ ArmsStep
  BY GateCallbacks DEF NodeOK
<1>2. UNCHANGED <<state, stream, px4>> /\ alive' = alive
  BY DEF StartCb, AbortCb, process
<1>3. GatesOK'
  BY <1>2 DEF NodeOK, GatesOK, StartCb, AbortCb, Arrives
<1>4. Final /\ StreamsOn
  BY <1>2, StreamRests DEF Final
<1>5. abort_requested' /\ "abort" \notin latched' => abort_requested /\ "abort" \notin latched
  <2>1. CASE StartCb
    BY <2>1 DEF StartCb, Arrives
  <2>2. CASE AbortCb
    BY <2>2 DEF AbortCb, Arrives, NodeOK, GatesOK
  <2> QED
    BY <2>1, <2>2
<1> QED
  BY <1>1, <1>3, <1>4, <1>5, RimRests

(* PX4, the pilot, a status, an exit.                                       *)
LEMMA EnvironmentOK ==
  ASSUME NodeOK, Environment, rimUnchanged
  PROVE  StepOK
<1>1. ControllerInv' /\ ArmsStep
  BY Surroundings DEF NodeOK
<1>2. /\ UNCHANGED <<state, abort_requested, latched, pending>>
      /\ alive' => alive /\ stream' = stream
  BY DEF Environment, NodeExits, StatusArrives, Px4Climbs, Px4Lands, Px4DropsOffboard,
     Px4Failsafe, PilotTakesOver, PilotLands, ControllerUnchanged, process, gates
<1>3. px4' = px4 \/ ~px4'.armed \/ px4'.nav # "offboard" \/ (px4.armed /\ px4.nav = "offboard")
  <2>1. px4 \in Vehicle
    BY DEF NodeOK, ControllerInv, ControllerTypeOK
  <2>2. CASE NodeExits \/ StatusArrives
    BY <2>2 DEF NodeExits, StatusArrives
  <2>3. CASE Px4Climbs \/ Px4Lands
    BY <2>1, <2>3 DEF Px4Climbs, Px4Lands, Vehicle
  <2>4. CASE Px4DropsOffboard \/ Px4Failsafe \/ PilotTakesOver \/ PilotLands
    BY <2>1, <2>4 DEF Px4DropsOffboard, Px4Failsafe, PilotTakesOver, PilotLands, Vehicle
  <2> QED
    BY <2>2, <2>3, <2>4 DEF Environment
<1>4. GatesOK' /\ Final /\ StreamsOn
  BY <1>2, <1>3, StreamRests DEF NodeOK, GatesOK, Final
<1> QED
  BY <1>1, <1>2, <1>4, RimRests

(* A restart.                                                               *)
LEMMA RestartOK ==
  ASSUME NodeOK, Restart
  PROVE  StepOK
<1>1. ControllerInv' /\ ArmsStep
  BY Surroundings DEF NodeOK, Restart
<1>2. MaxRestarts > 0
  BY ControllerConstants DEF Restart, NodeRestarts, NodeOK, ControllerInv, ControllerTypeOK
<1>3. EngineFits' /\ RimOK' /\ GatesOK' /\ LandsWhenDue'
  BY DEF Restart, NodeRestarts, NodeOK, EngineFits, RimOK, GatesOK, LandsWhenDue
<1>4. Final /\ StreamsOn /\ WholeDump
  BY DEF Restart, NodeRestarts, Final, StreamsOn, Stale, WholeDump
<1> QED
  BY <1>1, <1>2, <1>3, <1>4 DEF StepOK, NodeOK, EngineGoes, Restart

(* A tick of a mission that waits for its engine.                            *)
LEMMA WaitsOK ==
  ASSUME NodeOK, Waits
  PROVE  StepOK
<1>1. ControllerInv' /\ ArmsStep
  BY MissionTick DEF NodeOK, Waits, Heartbeat, ControllerInv, ControllerTypeOK
<1>2. /\ UNCHANGED <<state, abort_requested, latched, pending, alive>>
      /\ stream' = TRUE /\ rimUnchanged
  BY DEF Waits, AsksMission, In, Heartbeat, process, gates, rim, rimUnchanged
<1>3. GatesOK' /\ Final /\ StreamsOn
  BY <1>2 DEF NodeOK, GatesOK, Final, StreamsOn, Stale
<1> QED
  BY <1>1, <1>2, <1>3, RimRests

(* A tick that flies the survey: the engine runs on, its dump is delivered,   *)
(* its landing is asked for.                                                *)
LEMMA FliesOK ==
  ASSUME NodeOK, AsksMission, engine # NoEngine, NEW in \in Sample, Flies(in),
         gusts' \in 0 .. MaxGusts,
         UNCHANGED <<process, state, status, px4, gates, bounds, begun, resets>>
  PROVE  StepOK
<1>0. Good(engine) /\ Surveyed(engine) /\ Spends(engine, {})
  BY Running DEF NodeOK
<1>1. PICK f : f = Tick(engine, in)
  OBVIOUS
<1>2. RunsOn(engine, f) /\ (Moves(engine, f) \/ Aborts(engine, f))
  BY <1>0, <1>1, TickRunsOn
<1>3. in.hvalid \in BOOLEAN /\ f.phase \in Phases
  BY <1>2 DEF Sample, RunsOn, Good, EngineState
<1> DEFINE dumps == f.phase = "DUMP" /\ ~dumped
           lands == f.phase \in {"LAND", "DONE"} /\ ~land_requested /\ in.hvalid
<1>4. /\ IF dumps
         THEN \E reply \in DumpReplies :
                engine' = NotifyDumpResult(f, reply.ok) /\ stream' = ~reply.stalls
         ELSE engine' = f /\ Heartbeat
      /\ dumped' = (dumped \/ dumps)
      /\ land_requested' = (land_requested \/ lands)
      /\ abort_requested' = (abort_requested \/ lands)
  BY <1>1 DEF Flies
<1>5. /\ Good(engine') /\ Surveyed(engine') /\ Spends(engine', {})
      /\ Settled(engine) => Settled(engine')
      /\ Changes(engine, engine') \/ Delivers(engine, engine')
      /\ dumps => ~f.aborted /\ Track(f, engine')
      /\ ~dumps => engine' = f
      /\ stream' \in BOOLEAN /\ (~dumps => stream')
  <2>1. CASE ~dumps
    <3>1. engine' = f /\ Heartbeat
      BY <1>4, <2>1
    <3>2. stream' = TRUE
      BY <3>1 DEF Heartbeat, AsksMission, In
    <3> QED
      BY <1>2, <2>1, <3>1, <3>2 DEF RunsOn
  <2>2. CASE dumps
    <3>1. PICK reply \in DumpReplies :
            engine' = NotifyDumpResult(f, reply.ok) /\ stream' = ~reply.stalls
      BY <1>4, <2>2
    <3>2. reply.ok \in BOOLEAN
      BY <3>1, NodeConstants
    <3>3. /\ Good(engine') /\ Surveyed(engine') /\ Spends(engine', {}) /\ Track(f, engine')
          /\ Settled(engine) => Settled(engine')
          /\ ~f.aborted
          /\ Aborts(engine, engine') \/ Delivers(engine, engine')
      BY <1>2, <2>2, <3>1, <3>2, DumpRunsOn DEF Delivers
    <3>4. stream' \in BOOLEAN
      BY <3>1
    <3> QED
      BY <2>2, <3>3, <3>4 DEF Changes
  <2> QED
    BY <2>1, <2>2
<1>6. engine' # NoEngine
  BY <1>5, NodeConstants DEF Good
<1>7. lands => Settled(engine')
  <2>1. SUFFICES ASSUME lands PROVE Settled(engine')
    OBVIOUS
  <2>2. ~dumps /\ engine' = f
    BY <1>5, <2>1
  <2> QED
    BY <1>5, <2>1, <2>2 DEF Good, Settled
<1>8. abort_requested \in BOOLEAN /\ dumped \in BOOLEAN /\ land_requested \in BOOLEAN
  BY DEF NodeOK, RimOK, ControllerInv, ControllerTypeOK
<1>9. /\ abort_requested' \in BOOLEAN /\ dumped' \in BOOLEAN /\ land_requested' \in BOOLEAN
      /\ abort_requested' => abort_requested \/ lands
  BY <1>3, <1>4, <1>8
<1>10. WholeDump
  <2>1. SUFFICES ASSUME dumps
                 PROVE  IF Pattern = "serpentine"
                        THEN engine'.covered = Lanes \X (0 .. Rows - 1)
                        ELSE engine'.petal = Petals
    BY <1>4 DEF WholeDump
  <2>2. Surveyed(f) /\ ~f.aborted /\ f.phase \in Homeward
    BY <1>2, <1>5, <2>1 DEF RunsOn, Homeward
  <2>3. Whole(f) /\ Track(f, engine')
    BY <1>5, <2>1, <2>2 DEF Surveyed
  <2> QED
    BY <2>3 DEF Whole, Steps, Track
<1>11. dumps => dumped' /\ ~dumped
  BY <1>4
<1> HIDE DEF dumps, lands
<1>12. ControllerInv' /\ ArmsStep
  <2>1. UNCHANGED <<process, state, status, px4, gates, bounds>>
    OBVIOUS
  <2> QED
    BY <1>5, <1>9, <2>1, MissionTick DEF NodeOK
<1>13. UNCHANGED <<state, alive, latched, pending>> /\ state = "active"
  BY DEF process, gates, AsksMission, In
<1>14. EngineFits' /\ RimOK' /\ GatesOK'
  BY <1>5, <1>6, <1>9, <1>13 DEF NodeOK, EngineFits, RimOK, GatesOK
<1>15. LandsWhenDue'
  BY <1>5, <1>6, <1>7, <1>9, <1>13 DEF NodeOK, LandsWhenDue, Settled
<1>16. Final /\ StreamsOn
  BY <1>5, <1>11, <1>13 DEF Final, StreamsOn, Stale
<1>17. EngineGoes
  BY <1>0, <1>5, <1>6 DEF EngineGoes
<1> QED
  BY <1>10, <1>12, <1>14, <1>15, <1>16, <1>17 DEF StepOK, NodeOK

(* The samples of the two kinds of flying tick.                              *)
LEMMA FlyingTicksOK ==
  ASSUME NodeOK, FliesDisturbed \/ \E elapsed \in BOOLEAN : FliesUndisturbed(elapsed)
  PROVE  StepOK
<1>0. gusts \in 0 .. MaxGusts /\ MaxGusts \in Nat
  BY NodeConstants DEF NodeOK, RimOK
<1>1. CASE FliesDisturbed
  <2>1. PICK in \in Disturbed : Flies(in)
    BY <1>1 DEF FliesDisturbed
  <2>2. in \in Sample
    BY NodeConstants DEF Disturbed, Sample
  <2>3. gusts' \in 0 .. MaxGusts
    BY <1>0, <1>1 DEF FliesDisturbed
  <2> QED
    BY <1>1, <2>1, <2>2, <2>3, FliesOK DEF FliesDisturbed
<1>2. ASSUME NEW elapsed \in BOOLEAN, FliesUndisturbed(elapsed)
      PROVE  StepOK
  <2>1. engine \in EngineState /\ engine # NoEngine
    BY <1>2, Running DEF FliesUndisturbed, NodeOK
  <2>2. engine.sp \in Setpoint \cup {NoSetpoint} /\ Anchor \in Spot
    BY <2>1, EngineConstants DEF EngineState
  <2>3. OnTarget(engine, elapsed) \in Sample
    BY <2>2 DEF OnTarget, Sample, Setpoint
  <2>4. gusts' \in 0 .. MaxGusts
    BY <1>0, <1>2 DEF FliesUndisturbed
  <2> QED
    BY <1>2, <2>3, <2>4, FliesOK DEF FliesUndisturbed
<1> QED
  BY <1>1, <1>2

(* A callback that runs the engine on and leaves the node's flags alone.     *)
LEMMA CallbackOK ==
  ASSUME NodeOK, engine # NoEngine, RunsOn(engine, engine'),
         ControllerInv', ArmsStep, GatesOK', resets' \in 0 .. MaxResets,
         UNCHANGED <<alive, state, stream, px4, abort_requested, rim, gusts>>,
         "abort" \in latched => "abort" \in latched'
  PROVE  StepOK
<1>1. engine' # NoEngine /\ Good(engine)
  BY NodeConstants, Running DEF RunsOn, Good, NodeOK
<1>2. EngineFits' /\ RimOK' /\ LandsWhenDue'
  BY <1>1 DEF NodeOK, EngineFits, RimOK, LandsWhenDue, RunsOn, Settled, rim
<1>3. Final /\ StreamsOn /\ WholeDump /\ EngineGoes
  BY <1>1, StreamRests DEF Final, WholeDump, EngineGoes, RunsOn, rim
<1> QED
  BY <1>2, <1>3 DEF StepOK, NodeOK

(* /begin_survey builds the one engine of the process.                       *)
LEMMA BeginCbOK ==
  ASSUME NodeOK, BeginCb
  PROVE  StepOK
<1>0. UNCHANGED <<alive, start_ok, home_requested, datum, operator_start, state,
                  abort_requested, status, stream, px4, upsets, restarts,
                  dumped, land_requested, gusts, resets>>
  BY DEF BeginCb, process, bounds
<1>1. ControllerInv' /\ ArmsStep
  <2>1. latched' \subseteq Gates /\ pending' \subseteq Gates
    BY GatesStay DEF BeginCb, Gates, NodeOK
  <2> QED
    BY <1>0, <2>1 DEF NodeOK, ControllerInv, ControllerTypeOK, Released, ArmsStep
<1>2. GatesOK' /\ ("abort" \notin latched' => "abort" \notin latched)
  BY <1>0 DEF NodeOK, GatesOK, BeginCb, Arrives
<1>3. CASE begun \/ state # "active"
  <2>1. rimUnchanged
    BY <1>0, <1>3 DEF BeginCb, rimUnchanged, rim
  <2>2. Final /\ StreamsOn
    BY <1>0, StreamRests DEF Final
  <2> QED
    BY <1>0, <1>1, <1>2, <2>1, <2>2, RimRests
<1>4. CASE ~(begun \/ state # "active")
  <2>1. engine' = Start(NewEngine) /\ begun' = TRUE /\ engine = NoEngine
    BY <1>4 DEF BeginCb, NodeOK, RimOK
  <2>2. /\ Good(engine') /\ Surveyed(engine') /\ Spends(engine', {})
        /\ engine'.phase = "OFFBOARD_SYNC" /\ engine'.aborted = FALSE /\ engine'.acked = FALSE
    BY <2>1, BeginsUnsettled
  <2>3. engine' # NoEngine
    BY <2>2, NodeConstants DEF Good
  <2>4. EngineFits' /\ RimOK' /\ LandsWhenDue'
    BY <1>0, <1>2, <2>1, <2>2 DEF NodeOK, EngineFits, RimOK, LandsWhenDue
  <2>5. Final /\ StreamsOn /\ WholeDump /\ EngineGoes
    BY <1>0, <2>1, <2>2, <2>3, StreamRests DEF Final, WholeDump, EngineGoes
  <2> QED
    BY <1>1, <1>2, <2>4, <2>5 DEF StepOK, NodeOK
<1> QED
  BY <1>3, <1>4

(* /end_mission gives the survey up.                                        *)
LEMMA EndCbOK ==
  ASSUME NodeOK, EndCb
  PROVE  StepOK
<1>0. UNCHANGED <<alive, state, stream, abort_requested, px4, rim, gusts, resets>>
  BY DEF EndCb, EndArrives
<1>1. ControllerInv' /\ ArmsStep
  <2>1. /\ abort_requested' \in BOOLEAN
        /\ state' \in {state, "land_requested", "returning"}
        /\ px4' \in Vehicle /\ px4'.armed = px4.armed
    BY <1>0 DEF NodeOK, ControllerInv, ControllerTypeOK
  <2> QED
    BY <2>1, EndCallback DEF NodeOK, EndCb
<1>2. GatesOK' /\ ("abort" \in latched => "abort" \in latched')
  BY <1>0 DEF NodeOK, GatesOK, EndCb, EndArrives, Arrives
<1>3. resets' \in 0 .. MaxResets
  BY <1>0 DEF NodeOK, RimOK
<1>4. CASE home_requested \/ engine = NoEngine
  <2>1. rimUnchanged /\ Final /\ StreamsOn
    BY <1>0, <1>4, StreamRests DEF EndCb, rimUnchanged, Final
  <2> QED
    BY <1>0, <1>1, <1>2, <2>1, RimRests
<1>5. CASE ~(home_requested \/ engine = NoEngine)
  <2>1. engine' = Abort(engine) /\ engine # NoEngine
    BY <1>5 DEF EndCb
  <2>2. RunsOn(engine, engine')
    BY <2>1, Running, AbortRunsOn DEF NodeOK
  <2> QED
    BY <1>0, <1>1, <1>2, <1>3, <2>1, <2>2, CallbackOK
<1> QED
  BY <1>4, <1>5

(* The controller's variables rest.                                         *)
LEMMA ControllerRests ==
  ASSUME NodeOK, UNCHANGED controllerVars
  PROVE  ControllerInv' /\ ArmsStep /\ GatesOK'
BY DEF NodeOK, controllerVars, process, gates, bounds, ControllerInv, ControllerTypeOK,
   Released, ArmsStep, GatesOK

(* A detection: alive, perhaps an observation, perhaps the anchor's abort.     *)
LEMMA DetectionsCbOK ==
  ASSUME NodeOK, DetectionsCb
  PROVE  StepOK
<1>0. /\ engine # NoEngine
      /\ UNCHANGED <<alive, state, stream, px4, abort_requested, latched, rim, gusts, resets>>
      /\ UNCHANGED controllerVars
  BY DEF DetectionsCb, controllerVars, process, gates
<1>1. Good(engine) /\ Surveyed(engine) /\ Spends(engine, {})
  BY <1>0, Running DEF NodeOK
<1>2. PICK seen : seen = NoteDetectorAlive(engine)
  OBVIOUS
<1>3. RunsOn(engine, seen) /\ Same(engine, seen) /\ seen.phase = engine.phase
  BY <1>1, <1>2, NotesRunOn
<1>4. ASSUME NEW c \in Clusters, NEW tagged \in BOOLEAN, NEW enough \in BOOLEAN,
             NEW disagrees \in BOOLEAN,
             engine' = ObserveAnchor(Ingest(seen, c, tagged, enough), disagrees)
      PROVE  RunsOn(engine, engine')
  <2>1. PICK log : log = Ingest(seen, c, tagged, enough)
    OBVIOUS
  <2>2. RunsOn(seen, log) /\ Same(seen, log) /\ log.phase = seen.phase
    BY <1>3, <2>1, NotesRunOn DEF RunsOn
  <2>3. engine' = log \/ engine' = Abort(log)
    BY <1>4, <2>1 DEF ObserveAnchor
  <2>4. RunsOn(log, Abort(log)) /\ RunsOn(engine, log)
    BY <1>3, <2>2, AbortRunsOn DEF RunsOn, Same, Changes, Moves, Settled
  <2>5. RunsOn(engine, Abort(log))
    BY <1>3, <2>2, <2>4 DEF RunsOn, Same, Changes, Moves, Aborts, Settled
  <2> QED
    BY <2>3, <2>4, <2>5
<1>5. RunsOn(engine, engine')
  <2>1. \/ engine' = seen
        \/ \E c \in Clusters, tagged, enough, disagrees \in BOOLEAN :
             engine' = ObserveAnchor(Ingest(seen, c, tagged, enough), tagged /\ disagrees)
    BY <1>2 DEF DetectionsCb
  <2>2. CASE engine' = seen
    BY <1>3, <2>2
  <2>3. ASSUME NEW c \in Clusters, NEW tagged \in BOOLEAN, NEW enough \in BOOLEAN,
               NEW disagrees \in BOOLEAN,
               engine' = ObserveAnchor(Ingest(seen, c, tagged, enough), tagged /\ disagrees)
        PROVE  RunsOn(engine, engine')
    <3>1. PICK d \in BOOLEAN : d = (tagged /\ disagrees)
      OBVIOUS
    <3>2. engine' = ObserveAnchor(Ingest(seen, c, tagged, enough), d)
      BY <2>3, <3>1
    <3> QED
      BY <1>4, <3>2
  <2> QED
    BY <2>1, <2>2, <2>3
<1>6. resets' \in 0 .. MaxResets
  BY <1>0 DEF NodeOK, RimOK
<1> QED
  BY <1>0, <1>5, <1>6, ControllerRests, CallbackOK

(* A position: the engine counts PX4's resets.                               *)
LEMMA PositionCbOK ==
  ASSUME NodeOK, PositionCb
  PROVE  StepOK
<1>0. /\ engine # NoEngine
      /\ UNCHANGED <<alive, state, stream, px4, abort_requested, latched, rim, gusts>>
      /\ UNCHANGED controllerVars
  BY DEF PositionCb, controllerVars, process, gates
<1>1. PICK n \in {0, 1} : /\ resets + n <= MaxResets /\ resets' = resets + n
                          /\ engine' = NoteResetCounter(engine, (resets + n) % CounterMod)
  BY DEF PositionCb
<1>2. resets' \in 0 .. MaxResets /\ (resets + n) % CounterMod \in 0 .. CounterMod - 1
  <2>1. resets \in Nat /\ MaxResets \in Nat /\ CounterMod \in Nat \ {0}
    BY NodeConstants, EngineConstants DEF NodeOK, RimOK
  <2> QED
    BY <1>1, <2>1
<1>3. RunsOn(engine, engine')
  BY <1>0, <1>1, <1>2, Running, NotesRunOn DEF NodeOK
<1> QED
  BY <1>0, <1>2, <1>3, ControllerRests, CallbackOK

-----------------------------------------------------------------------------
(* The specification.                                                       *)

(* A fresh node.                                                            *)
LEMMA InitOK ==
  Init => NodeOK
<1> SUFFICES ASSUME Init
             PROVE  NodeOK
  OBVIOUS
<1>1. ControllerInv
  BY FreshProcess DEF Init
<1>2. 0 \in 0 .. MaxGusts /\ 0 \in 0 .. MaxResets
  BY NodeConstants
<1>3. EngineFits /\ RimOK /\ GatesOK /\ LandsWhenDue
  BY <1>2 DEF Init, ControllerInit, EngineFits, RimOK, GatesOK, LandsWhenDue
<1> QED
  BY <1>1, <1>3 DEF NodeOK

(* Every step.                                                              *)
LEMMA NextOK ==
  ASSUME NodeOK, [Next]_vars
  PROVE  StepOK
<1>1. CASE NodeTick
  BY <1>1, WaitsOK, FlyingTicksOK, ControllerTickOK DEF NodeTick, CalmTick
<1>2. CASE (StartCb \/ AbortCb) /\ rimUnchanged
  BY <1>2, GateCallbacksOK
<1>3. CASE BeginCb \/ EndCb \/ DetectionsCb \/ PositionCb
  BY <1>3, BeginCbOK, EndCbOK, DetectionsCbOK, PositionCbOK
<1>4. CASE Restart \/ (Environment /\ rimUnchanged)
  BY <1>4, RestartOK, EnvironmentOK
<1>5. CASE UNCHANGED vars
  <2>1. UNCHANGED controllerVars /\ rimUnchanged
    BY <1>5 DEF vars, rimUnchanged
  <2>2. UNCHANGED <<alive, state, stream, px4, abort_requested, latched>>
    BY <2>1 DEF controllerVars, process, gates
  <2>3. Final /\ StreamsOn
    BY <2>2, StreamRests DEF Final
  <2> QED
    BY <2>1, <2>2, <2>3, ControllerRests, RimRests
<1> QED
  BY <1>1, <1>2, <1>3, <1>4, <1>5 DEF Next

(* The invariant, and every step's part in what follows.                      *)
LEMMA NodeHolds ==
  Spec => [](NodeOK) /\ [][StepOK]_vars
<1>1. NodeOK /\ [Next]_vars => NodeOK' /\ [StepOK]_vars
  BY NextOK DEF StepOK
<1> QED
  BY <1>1, InitOK, PTL DEF Spec

(* The node keeps its types, and lands without an operator's abort only with  *)
(* the log delivered or the survey given up (engine_node.py, _on_phase).      *)
THEOREM NodeInvHolds == Spec => []NodeInv
<1>1. NodeOK => NodeInv
  <2>1. EngineFits => engine \in EngineState \cup {NoEngine}
    BY DEF EngineFits, Good
  <2> QED
    BY <2>1 DEF NodeOK, ControllerInv, RimOK, NodeInv, TypeOK
<1> QED
  BY <1>1, NodeHolds, PTL

(* What _send_dump hands to the host is a whole survey: every lane, or every   *)
(* petal, whatever aborts, dips and restarts came before.                    *)
THEOREM DumpIsWhole == Spec => DumpsAWholeSurvey
<1>1. [StepOK]_vars => [dumped' /\ ~dumped =>
         IF Pattern = "serpentine" THEN engine'.covered = Lanes \X (0 .. Rows - 1)
         ELSE engine'.petal = Petals]_vars
  BY DEF StepOK, WholeDump
<1> QED
  BY <1>1, NodeHolds, PTL DEF DumpsAWholeSurvey

(* A hand-off to PX4 is never taken back by the process that made it: the     *)
(* state machine of tick() once it is in land_requested, landing or failsafe. *)
THEOREM HandoffHolds == Spec => HandoffIsFinal
<1>1. [StepOK]_vars => [alive /\ alive' =>
         /\ state = "land_requested" => state' \in {"land_requested", "landing", "done"}
         /\ state \in {"landing", "failsafe", "done"} => state' \in {state, "done"}]_vars
  BY DEF StepOK, Final
<1> QED
  BY <1>1, NodeHolds, PTL DEF HandoffIsFinal

(* "Never arm without a valid pad-relative altitude datum", and never before   *)
(* /start_mission, with the survey mission on the controller.                *)
THEOREM NodeArmsWhenReleased == Spec => ArmsOnlyWhenReleased
<1>1. ASSUME NodeOK, [Next]_vars
      PROVE  [px4'.armed /\ ~px4.armed => alive /\ start_ok /\ datum]_controllerVars
  <2>1. ArmsStep
    BY <1>1, NextOK DEF StepOK
  <2> QED
    BY <1>1, <2>1 DEF ArmsStep, NodeOK, ControllerInv, Released
<1>2. NodeOK /\ [Next]_vars => NodeOK'
  BY NextOK DEF StepOK
<1> QED
  BY <1>1, <1>2, InitOK, PTL DEF Spec, ArmsOnlyWhenReleased

(* Every tick but the delivery streams in the states that hold OFFBOARD.       *)
LEMMA TickStreams ==
  ASSUME NodeOK, NodeTick, Stale'
  PROVE  dumped' /\ ~dumped
<1>0. state # "returning" /\ stream' = FALSE /\ state' \in {"engage", "active", "land_requested"}
  BY DEF NodeOK, GatesOK, Stale
<1>1. CASE Waits
  BY <1>0, <1>1 DEF Waits, AsksMission, In, Heartbeat
<1>2. CASE ControllerTick \/ TickActiveYields(FALSE)
  BY <1>0, <1>2 DEF ControllerTick, TickWaitLink, TickWaitStart, TickPrestream, TickEngage,
     TickActiveAborts, TickActiveYields, TickReturning, TickLandRequested, TickWatching,
     TickDone, In, Heartbeat
<1>3. ASSUME AsksMission, NEW in, Flies(in)
      PROVE  dumped' /\ ~dumped
  <2>1. Heartbeat => stream' = TRUE
    BY <1>3 DEF AsksMission, In, Heartbeat
  <2> QED
    BY <1>0, <1>3, <2>1 DEF Flies
<1>4. CASE FliesDisturbed \/ \E elapsed \in BOOLEAN : FliesUndisturbed(elapsed)
  BY <1>3, <1>4 DEF FliesDisturbed, FliesUndisturbed
<1> QED
  BY <1>1, <1>2, <1>4 DEF NodeTick, CalmTick

(* A vehicle held under OFFBOARD misses the stream only from the delivery of   *)
(* the dump, which blocks the executor, to the next tick: heartbeat().       *)
THEOREM StreamHolds == Spec => StreamsWhileOffboard
<1>1. ASSUME NodeOK, [Next]_vars
      PROVE  [Stale' => \/ dumped' /\ ~dumped
                        \/ Stale /\ ~NodeTick]_vars
  <2>1. StreamsOn
    BY <1>1, NextOK DEF StepOK
  <2> QED
    BY <1>1, <2>1, TickStreams DEF StreamsOn
<1> QED
  BY <1>1, NodeHolds, PTL DEF Spec, StreamsWhileOffboard

(* The node implements the life cycle of a mission, restarts, replayed gates   *)
(* and the delivery within the tick included.                               *)
THEOREM NodeLifecycleHolds == Spec => ImplementsLifecycle
<1>1. Init => Lifecycle!Init
  BY DEF Init, Lifecycle!Init
<1>2. NodeOK /\ [Next]_vars => [Lifecycle!Next]_(Lifecycle!lifecycle)
  <2> SUFFICES ASSUME NodeOK, [Next]_vars
               PROVE  [Lifecycle!Next]_(Lifecycle!lifecycle)
    OBVIOUS
  <2>1. EngineGoes
    BY NextOK DEF StepOK
  <2>2. CASE engine' = engine
    BY <2>2 DEF Lifecycle!lifecycle, Stage
  <2>3. CASE /\ engine # NoEngine /\ engine' # NoEngine
             /\ Good(engine) /\ Good(engine')
             /\ Changes(engine, engine') \/ Delivers(engine, engine')
    <3>0. /\ engine.acked \in BOOLEAN /\ engine'.acked \in BOOLEAN
          /\ engine.aborted \in BOOLEAN /\ engine'.aborted \in BOOLEAN
      BY <2>3 DEF Good, EngineState
    <3>1. CASE Moves(engine, engine')
      <4>1. CASE engine'.phase = engine.phase
        <5>1. engine.phase \in Phases
          BY <2>3 DEF Good, EngineState
        <5>2. Stage(engine') = Stage(engine)
          BY <4>1, <5>1 DEF Stage, Phases
        <5> QED
          <6>1. UNCHANGED Lifecycle!lifecycle
            <7>1. (IF engine = NoEngine THEN "waiting" ELSE Stage(engine))'
                  = IF engine = NoEngine THEN "waiting" ELSE Stage(engine)
              BY <2>3, <5>2
            <7>2. (engine # NoEngine /\ engine.aborted)' = (engine # NoEngine /\ engine.aborted)
              BY <2>3, <3>0, <3>1 DEF Moves, Same
            <7>3. (engine # NoEngine /\ engine.acked)' = (engine # NoEngine /\ engine.acked)
              BY <2>3, <3>0, <3>1 DEF Moves, Same
            <7> QED
              BY <7>1, <7>2, <7>3 DEF Lifecycle!lifecycle
          <6> QED
            BY <6>1
      <4>2. CASE engine'.phase # engine.phase
        BY <2>3, <3>0, <3>1, <4>2 DEF Moves, Same, Good, UnabortedPhases, SurveyPhases, Stage,
           Lifecycle!lifecycle, Lifecycle!Next, Lifecycle!FinishSurvey,
           Lifecycle!ArriveAndDeliver, Lifecycle!Settle, Lifecycle!Land
      <4> QED
        BY <4>1, <4>2
    <3>2. CASE Aborts(engine, engine')
      BY <2>3, <3>0, <3>2 DEF Aborts, Good, EngineState, Phases, Stage, Lifecycle!Next,
         Lifecycle!Abort
    <3>3. CASE /\ engine.phase = "PREFLIGHT" /\ engine'.phase = "OFFBOARD_SYNC"
               /\ Same(engine, engine')
      BY <2>3, <3>3 DEF Same, Stage, Lifecycle!Next, Lifecycle!Begin
    <3>4. CASE /\ engine.phase = "DUMP" /\ engine'.phase = "DUMP"
               /\ engine'.aborted = engine.aborted /\ engine'.acked = TRUE
      BY <2>3, <3>4 DEF Stage, Lifecycle!Next, Lifecycle!Acknowledge
    <3>5. CASE Delivers(engine, engine')
      BY <2>3, <3>0, <3>5 DEF Delivers, Good, UnabortedPhases, SurveyPhases, Stage,
         Lifecycle!lifecycle, Lifecycle!Next, Lifecycle!ArriveAndDeliver, Lifecycle!Acknowledge
    <3> QED
      BY <2>3, <3>1, <3>2, <3>3, <3>4, <3>5 DEF Changes
  <2>4. CASE /\ engine = NoEngine /\ engine' # NoEngine
             /\ engine'.phase = "OFFBOARD_SYNC" /\ engine'.aborted = FALSE
             /\ engine'.acked = FALSE
    BY <2>4 DEF Stage, Lifecycle!Next, Lifecycle!Begin
  <2>5. CASE engine' = NoEngine /\ MaxRestarts > 0
    BY <2>5 DEF Lifecycle!Next, Lifecycle!StartOver
  <2> QED
    BY <2>1, <2>2, <2>3, <2>4, <2>5 DEF EngineGoes
<1> QED
  BY <1>1, <1>2, NodeHolds, PTL DEF Spec, ImplementsLifecycle, Lifecycle!Spec

=============================================================================
