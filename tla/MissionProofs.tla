----------------------------- MODULE MissionProofs -----------------------------
(***************************************************************************)
(* Proofs about the missions a vehicle is launched with.  The mission engine    *)
(* under any rim: its types, the command fence, that it implements the life    *)
(* cycle of a mission, what the reported coverage is worth, and that no cluster  *)
(* is dipped over twice; for any field, pattern, fence and set of clusters.  The  *)
(* bench test, which arms once and ends disarmed, and the survey from a         *)
(* schedule, which it flies from the hold only; for any schedule, drift and       *)
(* number of surprises.                                                     *)
(***************************************************************************)
EXTENDS MCMissions, MissionLemmas, TLAPS

(* The samples a tick may be given are samples.                               *)
LEMMA SampleOfTheSamples ==
  ASSUME NEW e, NEW in \in Samples(e)
  PROVE  in \in Sample
BY EngineConstants, CoreConstants DEF Samples, Sample, Free

-----------------------------------------------------------------------------
(* The specification.                                                       *)

Inv ==
  /\ Good(engine) /\ CommandStaysInside
  /\ resets \in Nat /\ calm \in 0 .. 2 /\ anchored \in 0 .. 2
  /\ dipped \subseteq Clusters \cup {NoCluster}

(* The first state satisfies the invariant.                                  *)
LEMMA InitHolds ==
  Init => Inv
<1> SUFFICES ASSUME Init
             PROVE  Inv
  OBVIOUS
<1>0. NLanes \in Nat \ {0} /\ Rows \in Nat
  BY EngineConstants
<1>1. 0 \in Lanes /\ 0 \in 0 .. Rows
  BY <1>0 DEF Lanes
<1>2. "PREFLIGHT" \in Phases /\ "absent" \in Statuses /\ "center" \in PetalStages
  BY DEF Phases, Statuses, PetalStages
<1>3. NewEngine \in EngineState
  BY <1>1, <1>2 DEF NewEngine, EngineState
<1>4. NewEngine.phase = "PREFLIGHT" /\ ~NewEngine.aborted
  BY DEF NewEngine
<1> HIDE DEF NewEngine
<1> QED
  BY <1>3, <1>4 DEF Init, Inv, Good, CommandStaysInside, SurveyPhases, UnabortedPhases

(* Every step keeps the invariant and makes a change of those above.         *)
LEMMA StepHolds ==
  ASSUME Inv, Next
  PROVE  Inv' /\ Changes(engine, engine')
<1>0. /\ Good(engine) /\ engine \in EngineState
      /\ engine.phase \in {"LANE", "VERIFY_DIP"} => ~OutsideFence(engine, engine.sp.spot)
  BY DEF Inv, Good, CommandStaysInside
<1>1. CASE DoStart
  <2> DEFINE f == [engine EXCEPT !.phase = "OFFBOARD_SYNC"]
  <2>1. "OFFBOARD_SYNC" \in Phases
    BY DEF Phases
  <2>2. f \in EngineState /\ f.phase = "OFFBOARD_SYNC" /\ Same(engine, f)
    BY <1>0, <2>1, ZenonT(120) DEF EngineState, Same
  <2>3. engine' = engine \/ (engine.phase = "PREFLIGHT" /\ engine' = f)
    BY <1>1 DEF DoStart, Start
  <2> HIDE DEF f
  <2>4. Good(engine') /\ Changes(engine, engine')
    BY <1>0, <2>2, <2>3 DEF Good, Changes, Moves, Same, SurveyPhases, UnabortedPhases
  <2>5. CommandStaysInside'
    BY <1>0, <2>2, <2>3 DEF CommandStaysInside
  <2> QED
    BY <1>1, <2>4, <2>5 DEF Inv, DoStart, history
<1>2. CASE DoDetectorAlive
  <2>1. Kept(engine, engine') /\ engine'.acked = engine.acked
    BY <1>0, <1>2, Noting DEF DoDetectorAlive
  <2>2. Good(engine') /\ CommandStaysInside'
    BY <1>0, <2>1, KeepsInside DEF CommandStaysInside
  <2> QED
    BY <1>2, <2>1, <2>2 DEF Inv, DoDetectorAlive, history, Changes, Moves, Same, Kept
<1>3. CASE DoResetCounter
  <2>1. PICK n \in {0, 1}, c \in 0 .. CounterMod - 1 :
          /\ engine' = NoteResetCounter(engine, c)
          /\ resets' = IF engine.counter = NoCounter THEN resets ELSE resets + n
    BY <1>3 DEF DoResetCounter
  <2>2. Kept(engine, engine') /\ engine'.acked = engine.acked
    BY <1>0, <2>1, Noting
  <2>3. Good(engine') /\ CommandStaysInside'
    BY <1>0, <2>2, KeepsInside DEF CommandStaysInside
  <2>4. resets' \in Nat
    BY <2>1 DEF Inv
  <2> QED
    BY <1>3, <2>2, <2>3, <2>4 DEF Inv, DoResetCounter, Changes, Moves, Same, Kept
<1>4. CASE DoAbort
  <2>1. engine' = Abort(engine)
    BY <1>4 DEF DoAbort
  <2>2. Good(engine')
    BY <1>0, <2>1, AbortIsGood
  <2>3. engine' = engine \/ (Aborts(engine, engine') /\ engine'.phase = "ABORT")
    BY <1>0, <2>1, Aborting DEF Aborts
  <2>4. CommandStaysInside' /\ Changes(engine, engine')
    BY <1>0, <2>3 DEF CommandStaysInside, Changes, Moves, Same
  <2> QED
    BY <1>4, <2>2, <2>4 DEF Inv, DoAbort, history
<1>5. CASE DoIngest
  <2>1. Kept(engine, engine') /\ engine'.acked = engine.acked
    BY <1>0, <1>5, Noting DEF DoIngest
  <2>2. Good(engine') /\ CommandStaysInside'
    BY <1>0, <2>1, KeepsInside DEF CommandStaysInside
  <2> QED
    BY <1>5, <2>1, <2>2 DEF Inv, DoIngest, history, Changes, Moves, Same, Kept
<1>6. CASE DoDumpResult
  <2>1. PICK ok \in BOOLEAN : engine' = NotifyDumpResult(engine, ok)
    BY <1>6 DEF DoDumpResult
  <2>2. /\ Good(engine')
        /\ \/ engine' = engine \/ Aborts(engine, engine')
           \/ Kept(engine, engine') /\ engine'.acked = engine.acked
           \/ Kept(engine, engine') /\ engine'.acked = TRUE /\ engine.phase = "DUMP"
    BY <1>0, <2>1, Replying
  <2>3. CommandStaysInside'
    BY <1>0, <2>2, KeepsInside DEF CommandStaysInside, Aborts
  <2>4. Changes(engine, engine')
    BY <2>2 DEF Changes, Moves, Same, Kept
  <2> QED
    BY <1>6, <2>2, <2>3, <2>4 DEF Inv, DoDumpResult, history
<1>7. CASE DoTick
  <2>1. PICK in \in Samples(engine) :
          /\ engine' = Tick(engine, in)
          /\ calm' = IF in.hvalid /\ in.slow /\ Reached(in, Egress(engine), "survey")
                     THEN Saturate(calm) ELSE 0
          /\ anchored' = IF in.ready THEN Saturate(anchored) ELSE 0
          /\ dipped' = IF engine'.dips > engine.dips THEN dipped \cup {engine.target}
                       ELSE dipped
          /\ UNCHANGED resets
    BY <1>7 DEF DoTick
  <2>2. in \in Sample
    BY SampleOfTheSamples
  <2>3. /\ Good(engine') /\ (Moves(engine, engine') \/ Aborts(engine, engine'))
        /\ engine'.phase \in {"LANE", "VERIFY_DIP"} => ~OutsideFence(engine', engine'.sp.spot)
    BY <1>0, <2>1, <2>2, Ticking
  <2>4. calm' \in 0 .. 2 /\ anchored' \in 0 .. 2
    BY <2>1 DEF Inv, Saturate
  <2>5. dipped' \subseteq Clusters \cup {NoCluster}
    BY <1>0, <2>1 DEF Inv, EngineState
  <2>6. resets' \in Nat
    BY <2>1 DEF Inv
  <2> QED
    BY <2>3, <2>4, <2>5, <2>6 DEF Inv, CommandStaysInside, Changes
<1> QED
  BY <1>1, <1>2, <1>3, <1>4, <1>5, <1>6, <1>7 DEF Next

(* The invariant holds in every run.                                         *)
LEMMA InvHolds ==
  Spec => []Inv
<1>1. Inv /\ [Next]_vars => Inv'
  <2> SUFFICES ASSUME Inv, [Next]_vars
               PROVE  Inv'
    OBVIOUS
  <2>1. CASE Next
    BY <2>1, StepHolds
  <2>2. CASE UNCHANGED vars
    BY <2>2 DEF vars, history, Inv, CommandStaysInside
  <2> QED
    BY <2>1, <2>2
<1> QED
  BY <1>1, InitHolds, PTL DEF Spec

(* The mission engine keeps its types under any rim, for any field, pattern,  *)
(* fence and set of clusters.                                               *)
THEOREM TypesHold == Spec => []TypeOK
<1>1. Inv => TypeOK
  BY DEF Inv, Good, TypeOK
<1> QED
  BY <1>1, InvHolds, PTL

(* The setpoint of a survey tick stands inside the polygon, or within the     *)
(* radius of home, whatever lane, petal or dip the engine is at: the command *)
(* fence at the end of tick().                                              *)
THEOREM InsideHolds == Spec => []CommandStaysInside
<1>1. Inv => CommandStaysInside
  BY DEF Inv
<1> QED
  BY <1>1, InvHolds, PTL

(* The engine implements the life cycle its docstring promises: the stages in *)
(* their order, a landing only after a delivery or an abort, an abort from    *)
(* anywhere and never taken back.                                           *)
THEOREM LifecycleHolds == Spec => ImplementsLifecycle
<1>1. Init => Lifecycle!Init
  BY DEF Init, NewEngine, Stage, Lifecycle!Init
<1>2. Inv /\ [Next]_vars => [Lifecycle!Next]_(Lifecycle!lifecycle)
  <2> SUFFICES ASSUME Inv, [Next]_vars
               PROVE  \/ Lifecycle!Next
                      \/ /\ Stage(engine') = Stage(engine)
                         /\ engine'.aborted = engine.aborted
                         /\ engine'.acked = engine.acked
    BY DEF Lifecycle!lifecycle, Stage
  <2>1. CASE UNCHANGED vars
    BY <2>1 DEF vars
  <2>2. CASE Next
    <3>1. /\ Good(engine) /\ Good(engine') /\ Changes(engine, engine')
          /\ engine.acked \in BOOLEAN /\ engine'.acked \in BOOLEAN
          /\ engine.aborted \in BOOLEAN /\ engine'.aborted \in BOOLEAN
      BY <2>2, StepHolds DEF Inv, Good, EngineState
    <3>2. CASE Moves(engine, engine')
      BY <3>1, <3>2 DEF Moves, Same, Good, UnabortedPhases, SurveyPhases, Stage,
         Lifecycle!Next, Lifecycle!FinishSurvey, Lifecycle!ArriveAndDeliver,
         Lifecycle!Settle, Lifecycle!Land
    <3>3. CASE Aborts(engine, engine')
      BY <3>1, <3>3 DEF Aborts, Good, EngineState, Phases, Stage, Lifecycle!Next, Lifecycle!Abort
    <3>4. CASE /\ engine.phase = "PREFLIGHT" /\ engine'.phase = "OFFBOARD_SYNC"
               /\ Same(engine, engine')
      BY <3>4 DEF Same, Stage, Lifecycle!Next, Lifecycle!Begin
    <3>5. CASE /\ engine.phase = "DUMP" /\ engine'.phase = "DUMP"
               /\ engine'.aborted = engine.aborted /\ engine'.acked = TRUE
      BY <3>5 DEF Stage, Lifecycle!Next, Lifecycle!Acknowledge
    <3> QED
      BY <3>1, <3>2, <3>3, <3>4, <3>5 DEF Changes
  <2> QED
    BY <2>1, <2>2
<1> QED
  BY <1>1, <1>2, InvHolds, PTL DEF Spec, ImplementsLifecycle, Lifecycle!Spec

-----------------------------------------------------------------------------
(* Coverage and dips.                                                       *)

(* The survey's record: what it has covered, and which dips it has spent.    *)
Recorded ==
  /\ Surveyed(engine) /\ Spends(engine, dipped)
  /\ dipped \subseteq Clusters

(* A dip that a step completes is one over a cluster that had none.          *)
SpendsOne == engine'.dips # engine.dips => engine.target \in Clusters \ dipped

(* Every step keeps the record.                                              *)
LEMMA StepRecords ==
  ASSUME Inv, Recorded, Next
  PROVE  Recorded' /\ SpendsOne
<1>0. /\ Good(engine) /\ Surveyed(engine) /\ Spends(engine, dipped)
      /\ dipped \subseteq Clusters
  BY DEF Inv, Recorded
<1>1. ASSUME Surveyed(engine'), Spends(engine', dipped), engine'.dips = engine.dips,
             dipped' = dipped
      PROVE  Recorded' /\ SpendsOne
  BY <1>0, <1>1 DEF Recorded, SpendsOne
<1>2. CASE DoStart
  BY <1>0, <1>1, <1>2, StartSurveys DEF DoStart, history
<1>3. CASE DoDetectorAlive
  BY <1>0, <1>1, <1>3, NotesSurvey DEF DoDetectorAlive, history
<1>4. CASE DoResetCounter
  <2>1. PICK c : engine' = NoteResetCounter(engine, c)
    BY <1>4 DEF DoResetCounter
  <2> QED
    BY <1>0, <1>1, <1>4, <2>1, NotesSurvey DEF DoResetCounter
<1>5. CASE DoAbort
  BY <1>0, <1>1, <1>5, AbortSurveys DEF DoAbort, history
<1>6. CASE DoIngest
  <2>1. PICK c \in Clusters, tagged \in BOOLEAN, enough \in BOOLEAN :
          engine' = Ingest(engine, c, tagged, enough)
    BY <1>6 DEF DoIngest
  <2> QED
    BY <1>0, <1>1, <1>6, <2>1, NotesSurvey DEF DoIngest, history
<1>7. CASE DoDumpResult
  <2>1. PICK ok \in BOOLEAN : engine' = NotifyDumpResult(engine, ok)
    BY <1>7 DEF DoDumpResult
  <2> QED
    BY <1>0, <1>1, <1>7, <2>1, ReplySurveys DEF DoDumpResult, history
<1>8. CASE DoTick
  <2>1. PICK in \in Samples(engine) :
          /\ engine' = Tick(engine, in)
          /\ dipped' = IF engine'.dips > engine.dips THEN dipped \cup {engine.target}
                       ELSE dipped
    BY <1>8 DEF DoTick
  <2>2. Carries(engine, engine', dipped)
    BY <1>0, <2>1, SampleOfTheSamples, TickCarries
  <2>3. engine.dips \in Nat
    BY <1>0 DEF Good, EngineState
  <2>4. CASE engine'.dips = engine.dips /\ Spends(engine', dipped)
    <3>1. dipped' = dipped
      BY <2>1, <2>3, <2>4
    <3> QED
      BY <1>1, <2>2, <2>4, <3>1 DEF Carries
  <2>5. CASE /\ engine'.dips > engine.dips /\ engine.target \in Clusters \ dipped
             /\ Spends(engine', dipped \cup {engine.target})
    <3>1. dipped' = dipped \cup {engine.target}
      BY <2>1, <2>5
    <3> QED
      BY <1>0, <2>2, <2>5, <3>1 DEF Carries, Recorded, SpendsOne
  <2> QED
    BY <2>2, <2>4, <2>5 DEF Carries
<1> QED
  BY <1>2, <1>3, <1>4, <1>5, <1>6, <1>7, <1>8 DEF Next

(* The record is kept in every run.                                          *)
LEMMA RecordHolds ==
  Spec => [](Inv /\ Recorded) /\ [][SpendsOne]_vars
<1>1. Init => Recorded
  BY NewSurveys DEF Init, Recorded
<1>2. Inv /\ Recorded /\ [Next]_vars => (Inv /\ Recorded)' /\ [SpendsOne]_vars
  <2> SUFFICES ASSUME Inv, Recorded, [Next]_vars
               PROVE  (Inv /\ Recorded)' /\ [SpendsOne]_vars
    OBVIOUS
  <2>1. CASE Next
    BY <2>1, StepHolds, StepRecords
  <2>2. CASE UNCHANGED vars
    BY <2>2 DEF vars, history, Inv, CommandStaysInside, Recorded
  <2> QED
    BY <2>1, <2>2
<1> QED
  BY <1>1, <1>2, InitHolds, PTL DEF Spec

(* The coverage the dump reports is exactly what lies behind the engine, and  *)
(* a survey that goes home without an abort has flown every lane to its end,  *)
(* or every petal: _record_coverage, _tick_lane, _tick_dip and the rosette.   *)
THEOREM CoverageHolds == Spec => []CoverageInv
<1>1. Inv /\ Recorded => CoverageInv
  BY DEF Inv, Recorded, Surveyed, CoverageInv, CoverageIsPrefix, SurveyIsComplete,
     AllSteps, Steps, Prefix, Whole, Homeward
<1> QED
  BY <1>1, RecordHolds, PTL

(* No cluster is dipped over twice, and the budget of max_dips holds, however  *)
(* sightings, tags, aborts and frame resets fall between the ticks.          *)
THEOREM DipsHold == Spec => DipsAreSpentOnce
<1>1. Inv /\ Recorded => engine.dips <= MaxDips
  BY DEF Recorded, Spends
<1> QED
  BY <1>1, RecordHolds, PTL DEF DipsAreSpentOnce, SpendsOne

-----------------------------------------------------------------------------
(* The timers of the holds.                                                 *)

(* The fields that tell how long a hold has lasted, and what it is for.      *)
Timed(e, f) ==
  /\ f.stage = e.stage /\ f.petal_t0 = e.petal_t0
  /\ f.settle_t0 = e.settle_t0 /\ f.settle_strict = e.settle_strict

(* A setpoint, an abort, a phase, a note: the timers stay as they are.       *)
LEMMA TimersStay ==
  ASSUME NEW e \in EngineState
  PROVE  /\ \A spot : Timed(e, Fly(e, spot))
         /\ Timed(e, Abort(e))
         /\ Timed(e, [e EXCEPT !.engaged = TRUE])
         /\ Timed(e, [e EXCEPT !.sp = NoSetpoint])
         /\ \A p : Timed(e, [e EXCEPT !.phase = p])
         /\ \A p, sp : Timed(e, [e EXCEPT !.phase = p, !.sp = sp])
         /\ \A sp : Timed(e, [e EXCEPT !.sp = sp])
         /\ \A h, p, o, sp : Timed(e, [e EXCEPT !.home = h, !.phase = p, !.took_off = o, !.sp = sp])
<1>1. ASSUME NEW spot PROVE Timed(e, Fly(e, spot))
  BY ZenonT(120) DEF Fly, EngineState, Timed
<1>2. Timed(e, [e EXCEPT !.phase = "ABORT", !.aborted = TRUE])
  BY ZenonT(120) DEF EngineState, Timed
<1>3. Timed(e, Abort(e))
  BY <1>2 DEF Abort, Timed
<1>4. Timed(e, [e EXCEPT !.engaged = TRUE]) /\ Timed(e, [e EXCEPT !.sp = NoSetpoint])
  BY ZenonT(120) DEF EngineState, Timed
<1>5. ASSUME NEW p PROVE Timed(e, [e EXCEPT !.phase = p])
  BY ZenonT(120) DEF EngineState, Timed
<1>6. ASSUME NEW p, NEW sp PROVE Timed(e, [e EXCEPT !.phase = p, !.sp = sp])
  BY ZenonT(120) DEF EngineState, Timed
<1>7. ASSUME NEW sp PROVE Timed(e, [e EXCEPT !.sp = sp])
  BY ZenonT(120) DEF EngineState, Timed
<1>8. ASSUME NEW h, NEW p, NEW o, NEW sp
      PROVE  Timed(e, [e EXCEPT !.home = h, !.phase = p, !.took_off = o, !.sp = sp])
  BY ZenonT(120) DEF EngineState, Timed
<1> QED
  BY <1>1, <1>3, <1>4, <1>5, <1>6, <1>7, <1>8

(* So they do on a lane and over a dip.                                      *)
LEMMA LanesAreUntimed ==
  ASSUME NEW e \in EngineState, NEW in \in Sample, e.phase = "LANE"
  PROVE  Timed(e, LaneTick(e, in))
<1>1. Timed(e, Fly(e, PointAt(e.lane, e.along)))
  BY TimersStay
<1>2. ASSUME Confirmed(e) # {} PROVE Timed(e, BeginDip(e))
  <2> DEFINE t == NextDipTarget(e)
             f == [e EXCEPT !.target = t, !.dip_t0 = FALSE, !.phase = "VERIFY_DIP",
                            !.entered = TRUE]
  <2>1. t \in Clusters /\ "VERIFY_DIP" \in Phases
    BY <1>2, NextTarget DEF Phases
  <2>2. BeginDip(e) = Fly(f, PointAt(e.lane, e.along))
    BY DEF BeginDip
  <2> HIDE DEF t
  <2>3. f \in EngineState /\ Timed(e, f)
    BY <2>1, ZenonT(120) DEF EngineState, Timed
  <2> HIDE DEF f
  <2> QED
    BY <2>2, <2>3, TimersStay DEF Timed
<1>3. ASSUME NEW a, NEW l, NEW s, NEW n, NEW c
      PROVE  /\ Timed(e, [e EXCEPT !.entered = a, !.along = s, !.covered = c])
             /\ Timed(e, [e EXCEPT !.covered = c])
             /\ Timed(e, [e EXCEPT !.lane = l, !.along = s, !.entered = n])
  BY ZenonT(120) DEF EngineState, Timed
<1>4. Advance(e, in) \in EngineState /\ Advance(e, in).phase = "LANE" /\ Timed(e, Advance(e, in))
  BY <1>3, Advancing DEF Advance
<1>5. ASSUME NEW g \in EngineState, g.phase = "LANE" PROVE Timed(g, FinishLane(g))
  <2> DEFINE covered == g.covered \cup {<<g.lane, k>> : k \in g.along .. Rows - 1}
             f == [g EXCEPT !.covered = covered]
             next == g.lane + 1
             n == [f EXCEPT !.lane = next, !.along = 0, !.entered = FALSE]
             h == [f EXCEPT !.phase = "EGRESS"]
  <2>0. /\ g.along \in 0 .. Rows /\ g.lane \in Lanes /\ Rows \in Nat /\ NLanes \in Nat
        /\ g.covered \in SUBSET (Lanes \X (0 .. Rows - 1))
    BY EngineConstants DEF EngineState
  <2>1. covered \in SUBSET (Lanes \X (0 .. Rows - 1))
    <3>1. \A k \in g.along .. Rows - 1 : k \in 0 .. Rows - 1
      BY <2>0
    <3> QED
      BY <2>0, <3>1
  <2>2. f.lane = g.lane
    BY ZenonT(120) DEF EngineState
  <2>3. \/ g.lane + 1 < NLanes /\ FinishLane(g) = Fly(n, PointAt(next, 0))
        \/ FinishLane(g) = Fly(h, PointAt(g.lane, Rows))
    BY <2>2 DEF FinishLane
  <2> HIDE DEF covered
  <2>4. f \in EngineState /\ Timed(g, f)
    BY <2>1, ZenonT(120) DEF EngineState, Timed
  <2> HIDE DEF f, next
  <2>5. "EGRESS" \in Phases
    BY DEF Phases
  <2>6. h \in EngineState /\ Timed(f, h)
    BY <2>4, <2>5, ZenonT(120) DEF EngineState, Timed
  <2>7. CASE g.lane + 1 < NLanes /\ FinishLane(g) = Fly(n, PointAt(next, 0))
    <3>1. next \in Lanes /\ 0 \in 0 .. Rows
      BY <2>0, <2>7 DEF Lanes, next
    <3>2. n \in EngineState
      BY <2>4, <3>1, StartingALane
    <3>3. Timed(f, n)
      BY <2>4, ZenonT(120) DEF EngineState, Timed
    <3> HIDE DEF n
    <3> QED
      BY <2>4, <2>7, <3>2, <3>3, TimersStay DEF Timed
  <2>8. CASE FinishLane(g) = Fly(h, PointAt(g.lane, Rows))
    <3> HIDE DEF h
    <3> QED
      BY <2>4, <2>6, <2>8, TimersStay DEF Timed
  <2> QED
    BY <2>3, <2>7, <2>8
<1>6. /\ Timed(e, FinishLane(Advance(e, in)))
      /\ Timed(e, Fly(Advance(e, in), PointAt(e.lane, Rows)))
  BY <1>4, <1>5, TimersStay DEF Timed
<1> QED
  BY <1>1, <1>2, <1>6 DEF LaneTick

LEMMA DipsAreUntimed ==
  ASSUME NEW e \in EngineState, NEW in \in Sample
  PROVE  Timed(e, DipTick(e, in))
<1> DEFINE spot == ClusterSpot[e.target]
           t0 == e.dip_t0 \/ Reached(in, spot, "survey")
           g == [e EXCEPT !.dip_t0 = t0]
           f == Fly(g, spot)
           sp == [spot |-> spot, level |-> "survey"]
           d == [e EXCEPT !.dip_t0 = t0, !.sp = sp]
           log == [f.log EXCEPT ![e.target] = "dipped"]
           dips == f.dips + 1
           h == [f EXCEPT !.log = log, !.dips = dips, !.target = NoCluster,
                          !.entered = FALSE, !.phase = "LANE"]
<1>1. DipTick(e, in) = f \/ DipTick(e, in) = h
  BY DEF DipTick
<1> HIDE DEF spot, t0, log, dips
<1>2. f = d
  BY ZenonT(120) DEF EngineState, Fly
<1> HIDE DEF f, sp
<1>3. Timed(e, d)
  BY ZenonT(120) DEF EngineState, Timed
<1>4. Timed(e, [d EXCEPT !.log = log, !.dips = dips, !.target = NoCluster,
                         !.entered = FALSE, !.phase = "LANE"])
  BY ZenonT(120) DEF EngineState, Timed
<1> QED
  BY <1>1, <1>2, <1>3, <1>4 DEF Timed

(* At rest over the landing point.                                          *)
AtRest(e, in) == in.hvalid /\ in.slow /\ Reached(in, Egress(e), "survey")

(* A petal is begun, and the timer at the center runs, only at rest there      *)
(* with the anchor ready.                                                   *)
LEMMA PetalsAreTimed ==
  ASSUME NEW e \in EngineState, NEW in \in Sample, e.home \in Spot,
         Pattern = "center_return_rosette"
  PROVE  LET f == RosetteTick(e, in)
         IN  /\ f.settle_t0 = e.settle_t0 /\ f.settle_strict = e.settle_strict
             /\ f.stage = "center" /\ f.petal_t0 =>
                  e.stage = "center" /\ AtRest(e, in) /\ in.ready
             /\ e.stage = "center" /\ f.stage = "outbound" =>
                  e.petal_t0 /\ AtRest(e, in) /\ in.ready
<1>1. Egress(e) = e.home
  BY EngineConstants DEF Egress
<1>2. ASSUME NEW t, NEW s, NEW n, NEW p, NEW sp
      PROVE  /\ LET g == [e EXCEPT !.petal_t0 = t, !.phase = p, !.stage = s, !.sp = sp]
                IN  g.stage = s /\ g.petal_t0 = t /\ g.settle_t0 = e.settle_t0
                    /\ g.settle_strict = e.settle_strict
             /\ LET g == [e EXCEPT !.petal_t0 = t, !.stage = s, !.sp = sp]
                IN  g.stage = s /\ g.petal_t0 = t /\ g.settle_t0 = e.settle_t0
                    /\ g.settle_strict = e.settle_strict
             /\ LET g == [e EXCEPT !.petal = n, !.stage = s, !.petal_t0 = t, !.sp = sp]
                IN  g.stage = s /\ g.petal_t0 = t /\ g.settle_t0 = e.settle_t0
                    /\ g.settle_strict = e.settle_strict
  BY ZenonT(120) DEF EngineState
<1>3. e.petal_t0 \in BOOLEAN /\ e.stage \in PetalStages
  BY DEF EngineState
<1>4. CASE e.stage = "center"
  <2> DEFINE stable == /\ in.hvalid /\ in.ready /\ Reached(in, e.home, "survey") /\ in.slow
             held == stable /\ e.petal_t0 /\ in.elapsed
             t0 == stable /\ ~held
             phase == IF held /\ e.petal >= Petals THEN "DUMP" ELSE e.phase
             stage == IF held /\ e.petal < Petals THEN "outbound" ELSE e.stage
             sp == [spot |-> e.home, level |-> "survey"]
             f == [e EXCEPT !.petal_t0 = t0, !.phase = phase, !.stage = stage]
             g == [e EXCEPT !.petal_t0 = t0, !.phase = phase, !.stage = stage, !.sp = sp]
  <2>1. RosetteTick(e, in) = Fly(f, e.home)
    BY <1>4 DEF RosetteTick, CenterTick
  <2>2. t0 => stable
    OBVIOUS
  <2>3. stage = "outbound" => stable /\ e.petal_t0
    BY <1>4
  <2>4. stable => AtRest(e, in) /\ in.ready
    BY <1>1 DEF AtRest
  <2> HIDE DEF stable, t0, phase, stage, sp
  <2>5. Fly(f, e.home) = g
    BY ZenonT(120) DEF EngineState, Fly, sp
  <2>6. /\ g.stage = stage /\ g.petal_t0 = t0 /\ g.settle_t0 = e.settle_t0
        /\ g.settle_strict = e.settle_strict
    BY <1>2
  <2> HIDE DEF f, g
  <2> QED
    BY <1>4, <2>1, <2>2, <2>3, <2>4, <2>5, <2>6
<1>5. CASE e.stage = "outbound"
  <2> DEFINE sp == [spot |-> Outer(e), level |-> "survey"]
             f == [e EXCEPT !.stage = "outer_hold", !.petal_t0 = FALSE]
             g == [e EXCEPT !.petal_t0 = FALSE, !.stage = "outer_hold", !.sp = sp]
  <2>1. RosetteTick(e, in) \in {Fly(f, Outer(e)), Fly(e, Outer(e))}
    BY <1>5 DEF RosetteTick, OutboundTick
  <2> HIDE DEF sp
  <2>2. Fly(f, Outer(e)) = g
    BY ZenonT(120) DEF EngineState, Fly, sp
  <2>3. /\ g.stage = "outer_hold" /\ g.settle_t0 = e.settle_t0
        /\ g.settle_strict = e.settle_strict
    BY <1>2
  <2>4. Timed(e, Fly(e, Outer(e)))
    BY TimersStay
  <2> HIDE DEF f, g
  <2> QED
    BY <1>5, <2>1, <2>2, <2>3, <2>4 DEF Timed
<1>6. CASE e.stage = "outer_hold"
  <2> DEFINE stable == Reached(in, Outer(e), "survey") /\ in.slow
             held == stable /\ e.petal_t0 /\ in.elapsed
             t0 == stable /\ ~held
             stage == IF held THEN "inbound" ELSE e.stage
             sp == [spot |-> Outer(e), level |-> "survey"]
             f == [e EXCEPT !.petal_t0 = t0, !.stage = stage]
             g == [e EXCEPT !.petal_t0 = t0, !.stage = stage, !.sp = sp]
  <2>1. RosetteTick(e, in) = Fly(f, Outer(e))
    BY <1>6 DEF RosetteTick, OuterHoldTick
  <2>2. stage \in {"inbound", "outer_hold"}
    BY <1>6
  <2> HIDE DEF t0, stage, sp
  <2>3. Fly(f, Outer(e)) = g
    BY ZenonT(120) DEF EngineState, Fly, sp
  <2>4. /\ g.stage = stage /\ g.settle_t0 = e.settle_t0
        /\ g.settle_strict = e.settle_strict
    BY <1>2
  <2> HIDE DEF f, g
  <2> QED
    BY <1>6, <2>1, <2>2, <2>3, <2>4
<1>7. CASE e.stage = "inbound"
  <2> DEFINE petal == e.petal + 1
             sp == [spot |-> e.home, level |-> "survey"]
             f == [e EXCEPT !.petal = petal, !.stage = "center", !.petal_t0 = FALSE]
             g == [e EXCEPT !.petal = petal, !.stage = "center", !.petal_t0 = FALSE, !.sp = sp]
  <2>1. RosetteTick(e, in) \in {Fly(f, e.home), Fly(e, e.home)}
    BY <1>7 DEF RosetteTick, InboundTick
  <2> HIDE DEF sp, petal
  <2>2. Fly(f, e.home) = g
    BY ZenonT(120) DEF EngineState, Fly, sp
  <2>3. /\ g.stage = "center" /\ g.petal_t0 = FALSE /\ g.settle_t0 = e.settle_t0
        /\ g.settle_strict = e.settle_strict
    BY <1>2
  <2>4. Timed(e, Fly(e, e.home))
    BY TimersStay
  <2> HIDE DEF f, g
  <2> QED
    BY <1>7, <2>1, <2>2, <2>3, <2>4 DEF Timed
<1> QED
  BY <1>3, <1>4, <1>5, <1>6, <1>7 DEF PetalStages

(* What a running timer says of the ticks before this one.                   *)
Clocks(e, still, ready) ==
  /\ e.phase = "SETTLE" /\ e.settle_t0 =>
       still >= 1 /\ (e.settle_strict => ready >= 1)
  /\ e.phase = "LANE" /\ e.stage = "center" /\ e.petal_t0 => still >= 1 /\ ready >= 1
  /\ e.phase \in {"PREFLIGHT", "OFFBOARD_SYNC", "TAKEOFF"} => ~e.petal_t0
  /\ Pattern = "serpentine" => e.stage = "center" /\ ~e.petal_t0
  /\ Pattern = "center_return_rosette" => e.phase # "VERIFY_DIP"

(* A departure of a step: two ticks have been at rest.                       *)
Departs(e, f, still, ready) ==
  /\ e.phase = "SETTLE" /\ f.phase = "LAND" =>
       still = 2 /\ (e.settle_strict => ready = 2)
  /\ e.stage = "center" /\ f.stage = "outbound" => still = 2 /\ ready = 2

(* An engine whose timers are left alone outside the holds.                   *)
LEMMA UntimedClocks ==
  ASSUME NEW e, NEW f, NEW c, NEW a, NEW c2, NEW a2,
         Clocks(e, c, a), Timed(e, f), f.phase \notin {"SETTLE", "LAND"},
         \/ Pattern = "serpentine"
         \/ f.phase \notin {"LANE", "VERIFY_DIP"}
            /\ (f.phase \in {"PREFLIGHT", "OFFBOARD_SYNC", "TAKEOFF"} =>
                  e.phase \in {"PREFLIGHT", "OFFBOARD_SYNC", "TAKEOFF"})
  PROVE  Clocks(f, c2, a2) /\ Departs(e, f, c2, a2)
BY EngineConstants DEF Clocks, Departs, Timed

(* The handler of the phase counts its ticks at rest.                        *)
LEMMA HandlingIsTimed ==
  ASSUME NEW e, Good(e), NEW in \in Sample, NEW c \in 0 .. 2, NEW a \in 0 .. 2,
         Clocks(e, c, a),
         NEW c2, c2 = IF AtRest(e, in) THEN Saturate(c) ELSE 0,
         NEW a2, a2 = IF in.ready THEN Saturate(a) ELSE 0
  PROVE  Clocks(PhaseTick(e, in), c2, a2) /\ Departs(e, PhaseTick(e, in), c2, a2)
<1> SUFFICES ASSUME NEW f, f = PhaseTick(e, in)
             PROVE  Clocks(f, c2, a2) /\ Departs(e, f, c2, a2)
  OBVIOUS
<1>0. /\ e \in EngineState /\ e.phase \in Phases
      /\ Pattern \in {"serpentine", "center_return_rosette"}
      /\ e.phase \in SurveyPhases => e.home \in Spot
  BY EngineConstants DEF Good, EngineState
<1>1. /\ AtRest(e, in) => c2 >= 1 /\ (c >= 1 => c2 = 2)
      /\ in.ready => a2 >= 1 /\ (a >= 1 => a2 = 2)
  BY DEF Saturate
<1>2. Good(f) /\ Moves(e, f)
  BY Handling
<1>3. CASE e.phase \in {"PREFLIGHT", "DONE"}
  <2>1. Timed(e, f) /\ f.phase = e.phase
    <3>1. f = [e EXCEPT !.sp = NoSetpoint]
      BY <1>3 DEF PhaseTick
    <3>2. [e EXCEPT !.sp = NoSetpoint].phase = e.phase
      BY <1>0, ZenonT(120) DEF EngineState
    <3> QED
      BY <1>0, <3>1, <3>2, TimersStay
  <2> QED
    BY <1>3, <2>1, UntimedClocks
<1>4. CASE e.phase = "OFFBOARD_SYNC"
  <2>1. f = SyncTick(e, in)
    BY <1>4 DEF PhaseTick
  <2>2. Timed(e, SyncTick(e, in))
    BY <1>0, TimersStay DEF SyncTick
  <2>3. f.phase \in {"OFFBOARD_SYNC", "TAKEOFF"}
    BY <1>0, <1>4, <2>1, Syncing
  <2> QED
    BY <1>4, <2>1, <2>2, <2>3, UntimedClocks
<1>5. CASE e.phase = "TAKEOFF"
  <2> DEFINE g == [e EXCEPT !.phase = "LANE"]
  <2>1. f = SurveyTick(g, in) \/ f = Fly(e, e.home)
    BY <1>5 DEF PhaseTick, TakeoffTick
  <2>2. "LANE" \in Phases
    BY DEF Phases
  <2>3. g \in EngineState /\ g.phase = "LANE" /\ g.home = e.home /\ Timed(e, g)
    BY <1>0, <2>2, ZenonT(120) DEF EngineState, Timed
  <2>4. ~e.petal_t0 /\ e.home \in Spot
    BY <1>0, <1>5 DEF Clocks, SurveyPhases
  <2> HIDE DEF g
  <2>5. CASE f = Fly(e, e.home)
    <3>1. Timed(e, f) /\ f.phase = "TAKEOFF"
      BY <1>0, <1>5, <2>4, <2>5, TimersStay, Flying
    <3> QED
      BY <1>5, <3>1, UntimedClocks
  <2>6. CASE f = SurveyTick(g, in) /\ Pattern = "serpentine"
    <3>1. f = LaneTick(g, in)
      BY <2>6 DEF SurveyTick
    <3>2. Timed(e, f)
      BY <2>3, <3>1, LanesAreUntimed DEF Timed
    <3>3. f.phase \notin {"SETTLE", "LAND"}
      BY <2>3, <3>1, OnALane DEF Surveys
    <3> QED
      BY <2>6, <3>2, <3>3, UntimedClocks
  <2>7. CASE f = SurveyTick(g, in) /\ Pattern = "center_return_rosette"
    <3>1. f = RosetteTick(g, in)
      BY <2>7 DEF SurveyTick
    <3>2. /\ f.stage = "center" /\ f.petal_t0 => AtRest(g, in) /\ in.ready
          /\ g.stage = "center" /\ f.stage = "outbound" => g.petal_t0
      BY <2>3, <2>4, <2>7, <3>1, PetalsAreTimed
    <3>3. f.phase \in {"LANE", "DUMP"}
      BY <2>3, <2>4, <3>1, OnAPetal DEF Surveys
    <3>4. AtRest(g, in) = AtRest(e, in)
      BY <2>3 DEF AtRest, Egress
    <3> QED
      BY <1>1, <1>5, <2>3, <2>4, <2>7, <3>2, <3>3, <3>4 DEF Clocks, Departs, Timed
  <2> QED
    BY <1>0, <2>1, <2>5, <2>6, <2>7
<1>6. CASE e.phase = "LANE"
  <2>1. f = SurveyTick(e, in) /\ e.home \in Spot
    BY <1>0, <1>6 DEF PhaseTick, SurveyPhases
  <2>2. CASE Pattern = "serpentine"
    <3>1. f = LaneTick(e, in)
      BY <2>1, <2>2 DEF SurveyTick
    <3>2. Timed(e, f)
      BY <1>0, <1>6, <3>1, LanesAreUntimed
    <3>3. f.phase \notin {"SETTLE", "LAND"}
      BY <1>0, <1>6, <3>1, OnALane DEF Surveys
    <3> QED
      BY <2>2, <3>2, <3>3, UntimedClocks
  <2>3. CASE Pattern = "center_return_rosette"
    <3>1. f = RosetteTick(e, in)
      BY <2>1, <2>3 DEF SurveyTick
    <3>2. /\ f.stage = "center" /\ f.petal_t0 => AtRest(e, in) /\ in.ready
          /\ e.stage = "center" /\ f.stage = "outbound" =>
               e.petal_t0 /\ AtRest(e, in) /\ in.ready
      BY <1>0, <2>1, <2>3, <3>1, PetalsAreTimed
    <3>3. f.phase \in {"LANE", "DUMP"}
      BY <1>0, <1>6, <2>1, <3>1, OnAPetal DEF Surveys
    <3>4. e.stage = "center" /\ e.petal_t0 => c >= 1 /\ a >= 1
      BY <1>6 DEF Clocks
    <3>5. Clocks(f, c2, a2)
      BY <1>1, <2>3, <3>2, <3>3 DEF Clocks
    <3>6. Departs(e, f, c2, a2)
      BY <1>1, <1>6, <3>2, <3>4 DEF Departs
    <3> QED
      BY <3>5, <3>6
  <2> QED
    BY <1>0, <2>2, <2>3
<1>7. CASE e.phase = "VERIFY_DIP"
  <2>1. f = DipTick(e, in) /\ Pattern = "serpentine"
    BY <1>0, <1>7 DEF PhaseTick, Clocks
  <2>2. Timed(e, f)
    BY <1>0, <2>1, DipsAreUntimed
  <2>3. f.phase \notin {"SETTLE", "LAND"}
    BY <1>2, <1>7 DEF Moves, SurveyPhases
  <2> QED
    BY <2>1, <2>2, <2>3, UntimedClocks
<1>8. CASE e.phase \in {"EGRESS", "ABORT"}
  <2> DEFINE b == BeginSettle(e, "LAND", FALSE)
             d == [e EXCEPT !.phase = "DUMP"]
  <2>0. "DUMP" \in Phases
    BY DEF Phases
  <2>1. f \in {Fly(e, Egress(e)), Fly(d, Egress(e)), Fly(b, Egress(e))}
    BY <1>8 DEF PhaseTick, ReturnTick
  <2>2. d \in EngineState /\ d.phase = "DUMP" /\ Timed(e, d)
    BY <1>0, <2>0, ZenonT(120) DEF EngineState, Timed
  <2>3. /\ b \in EngineState /\ b.phase = "SETTLE" /\ ~b.settle_t0
        /\ b.stage = e.stage /\ b.petal_t0 = e.petal_t0
    BY <1>0, Settling, ZenonT(120) DEF BeginSettle, EngineState
  <2> HIDE DEF b, d
  <2>4. Egress(e) \in Spot
    BY <1>0, SpotsOfThePatterns
  <2>5. CASE f \in {Fly(e, Egress(e)), Fly(d, Egress(e))}
    <3>1. Timed(e, f) /\ f.phase \in {"EGRESS", "ABORT", "DUMP"}
      BY <1>0, <1>8, <2>2, <2>4, <2>5, TimersStay, Flying DEF Timed
    <3> QED
      BY <3>1, UntimedClocks
  <2>6. CASE f = Fly(b, Egress(e))
    <3>1. Timed(b, f) /\ f.phase = "SETTLE"
      BY <2>3, <2>4, <2>6, TimersStay, Flying
    <3> QED
      BY <1>8, <2>3, <3>1 DEF Clocks, Departs, Timed
  <2> QED
    BY <2>1, <2>5, <2>6
<1>9. CASE e.phase = "SETTLE"
  <2> DEFINE steady == /\ in.hvalid /\ in.slow
                       /\ Reached(in, Egress(e), "survey")
                       /\ in.ready \/ ~e.settle_strict
             phase == IF steady /\ e.settle_t0 /\ in.elapsed THEN e.settle_next ELSE e.phase
             sp == [spot |-> Egress(e), level |-> "survey"]
             g == [e EXCEPT !.settle_t0 = steady, !.phase = phase]
             h == [e EXCEPT !.settle_t0 = steady, !.phase = phase, !.sp = sp]
  <2>1. f = Fly(g, Egress(e))
    BY <1>9 DEF PhaseTick, SettleTick
  <2>2. /\ steady => AtRest(e, in) /\ (e.settle_strict => in.ready)
        /\ phase = "LAND" => steady /\ e.settle_t0
        /\ phase \in {"SETTLE", "LAND"}
    BY <1>9 DEF AtRest, Good
  <2> HIDE DEF steady, phase, sp
  <2>3. Fly(g, Egress(e)) = h
    BY <1>0, ZenonT(120) DEF EngineState, Fly, sp
  <2>4. /\ h.stage = e.stage /\ h.petal_t0 = e.petal_t0 /\ h.settle_t0 = steady
        /\ h.settle_strict = e.settle_strict /\ h.phase = phase
    BY <1>0, ZenonT(120) DEF EngineState
  <2>5. f = h
    BY <2>1, <2>3
  <2>6. e.settle_t0 => c >= 1 /\ (e.settle_strict => a >= 1)
    BY <1>9 DEF Clocks
  <2> HIDE DEF g, h
  <2>7. Clocks(f, c2, a2)
    BY <1>1, <1>9, <2>2, <2>4, <2>5 DEF Clocks
  <2>8. Departs(e, f, c2, a2)
    BY <1>1, <1>9, <2>2, <2>4, <2>5, <2>6 DEF Departs
  <2> QED
    BY <2>7, <2>8
<1>10. CASE e.phase = "DUMP"
  <2> DEFINE b == BeginSettle(e, "LAND", TRUE)
  <2>1. f \in {Fly(e, Egress(e)), Fly(b, Egress(e))}
    BY <1>10 DEF PhaseTick, DumpTick
  <2>2. /\ b \in EngineState /\ b.phase = "SETTLE" /\ ~b.settle_t0
        /\ b.stage = e.stage /\ b.petal_t0 = e.petal_t0
    BY <1>0, Settling, ZenonT(120) DEF BeginSettle, EngineState
  <2> HIDE DEF b
  <2>3. Egress(e) \in Spot
    BY <1>0, SpotsOfThePatterns
  <2>4. CASE f = Fly(e, Egress(e))
    <3>1. Timed(e, f) /\ f.phase = "DUMP"
      BY <1>0, <1>10, <2>3, <2>4, TimersStay, Flying
    <3> QED
      BY <3>1, UntimedClocks
  <2>5. CASE f = Fly(b, Egress(e))
    <3>1. Timed(b, f) /\ f.phase = "SETTLE"
      BY <2>2, <2>3, <2>5, TimersStay, Flying
    <3> QED
      BY <1>10, <2>2, <3>1 DEF Clocks, Departs, Timed
  <2> QED
    BY <2>1, <2>4, <2>5
<1>11. CASE e.phase = "LAND"
  <2>1. f = LandTick(e, in)
    BY <1>11 DEF PhaseTick
  <2>2. Timed(e, LandTick(e, in))
    BY <1>0, TimersStay DEF LandTick
  <2>3. f.phase \in {"LAND", "DONE"}
    BY <1>0, <1>11, <2>1, Ending DEF Returns
  <2> QED
    BY <1>0, <1>11, <2>1, <2>2, <2>3 DEF Clocks, Departs, Timed
<1> QED
  BY <1>0, <1>3, <1>4, <1>5, <1>6, <1>7, <1>8, <1>9, <1>10, <1>11 DEF Phases

(* A whole tick does.                                                       *)
LEMMA TickIsTimed ==
  ASSUME NEW e, Good(e), NEW in \in Sample, NEW c \in 0 .. 2, NEW a \in 0 .. 2,
         Clocks(e, c, a),
         NEW c2, c2 = IF AtRest(e, in) THEN Saturate(c) ELSE 0,
         NEW a2, a2 = IF in.ready THEN Saturate(a) ELSE 0
  PROVE  Clocks(Tick(e, in), c2, a2) /\ Departs(e, Tick(e, in), c2, a2)
<1>0. e \in EngineState
  BY DEF Good
<1>1. PICK g : g = CheckAborts(e, in)
  OBVIOUS
<1>2. PICK f : f = PhaseTick(g, in)
  OBVIOUS
<1>3. /\ Good(g)
      /\ \/ g.phase = e.phase
         \/ e.phase # "DONE" /\ g = Abort(e) /\ g.phase = "ABORT"
  BY <1>1, Guarding
<1>4. Timed(e, g) /\ g.home = e.home
  <2> DEFINE n == [e EXCEPT !.engaged = TRUE]
  <2>1. Timed(e, n) /\ n.home = e.home
    BY <1>0, ZenonT(120) DEF EngineState, Timed
  <2>2. Timed(e, Abort(e)) /\ Abort(e).home = e.home
    BY <1>0, TimersStay, Aborting
  <2>3. g = e \/ g = n \/ g = Abort(e)
    BY <1>1 DEF CheckAborts
  <2> HIDE DEF n
  <2> QED
    BY <2>1, <2>2, <2>3 DEF Timed
<1>5. Clocks(g, c, a)
  <2>1. CASE g.phase = e.phase
    BY <1>4, <2>1 DEF Clocks, Timed
  <2>2. CASE g.phase = "ABORT"
    BY <1>4, <2>2 DEF Clocks, Timed
  <2> QED
    BY <1>3, <2>1, <2>2
<1>6. AtRest(g, in) = AtRest(e, in)
  BY <1>4 DEF AtRest, Egress
<1>7. Clocks(f, c2, a2) /\ Departs(g, f, c2, a2) /\ Good(f) /\ Moves(g, f)
  BY <1>2, <1>3, <1>5, <1>6, HandlingIsTimed, Handling
<1>8. Departs(e, f, c2, a2)
  <2>1. e.phase = "SETTLE" /\ f.phase = "LAND" => g.phase = "SETTLE"
    BY <1>3, <1>7 DEF Moves, SurveyPhases
  <2> QED
    BY <1>4, <1>7, <2>1 DEF Departs, Timed
<1>9. CASE ~CommandViolation(f)
  BY <1>1, <1>2, <1>7, <1>8, <1>9 DEF Tick
<1>10. CASE CommandViolation(f)
  <2>1. PICK b : b = Abort(f)
    OBVIOUS
  <2>2. PICK h : h = PhaseTick(b, in)
    OBVIOUS
  <2>3. Tick(e, in) = h
    BY <1>1, <1>2, <1>10, <2>1, <2>2 DEF Tick
  <2>4. f.phase \in SurveyPhases /\ f \in EngineState
    BY <1>7, <1>10 DEF CommandViolation, CommandFenced, SurveyPhases, Good
  <2>5. Good(b) /\ b.phase = "ABORT" /\ Timed(f, b)
    BY <1>7, <2>1, <2>4, AbortIsGood, Aborting, TimersStay DEF SurveyPhases
  <2>6. Clocks(b, c, a)
    BY <1>7, <2>5 DEF Clocks, Timed
  <2>7. PICK c3 : c3 = IF AtRest(b, in) THEN Saturate(c) ELSE 0
    OBVIOUS
  <2>8. Clocks(h, c3, a2) /\ Departs(b, h, c3, a2) /\ Moves(b, h) /\ Good(h)
    BY <2>2, <2>5, <2>6, <2>7, HandlingIsTimed, Handling
  <2>9. h.stage = b.stage /\ h.petal_t0 = b.petal_t0 /\ (h.phase = "SETTLE" => ~h.settle_t0)
    <3> DEFINE s == BeginSettle(b, "LAND", FALSE)
    <3>1. h \in {Fly(b, Egress(b)), Fly(s, Egress(b))}
      BY <2>2, <2>5 DEF PhaseTick, ReturnTick
    <3>2. b \in EngineState /\ Egress(b) \in Spot
      BY <2>5, SpotsOfThePatterns DEF Good
    <3>3. /\ s \in EngineState /\ s.phase = "SETTLE" /\ ~s.settle_t0
          /\ s.stage = b.stage /\ s.petal_t0 = b.petal_t0
      BY <3>2, Settling, ZenonT(120) DEF BeginSettle, EngineState
    <3> HIDE DEF s
    <3> QED
      BY <2>5, <3>1, <3>2, <3>3, TimersStay, Flying DEF Timed
  <2>10. h.phase \in {"ABORT", "SETTLE"}
    BY <2>5, <2>8 DEF Moves, SurveyPhases
  <2>11. Clocks(h, c2, a2)
    BY <1>7, <2>5, <2>9, <2>10 DEF Clocks, Timed
  <2>12. Departs(e, h, c2, a2)
    BY <1>8, <2>5, <2>9, <2>10 DEF Departs, Timed
  <2> QED
    BY <2>3, <2>11, <2>12
<1> QED
  BY <1>9, <1>10

(* The other methods leave the timers alone.                                *)
LEMMA MethodsAreUntimed ==
  ASSUME NEW e \in EngineState
  PROVE  /\ Timed(e, Start(e)) /\ Timed(e, NoteDetectorAlive(e))
         /\ \A k \in 0 .. CounterMod - 1 : Timed(e, NoteResetCounter(e, k))
         /\ \A k \in Clusters, tagged \in BOOLEAN, enough \in BOOLEAN :
              Timed(e, Ingest(e, k, tagged, enough))
         /\ \A ok \in BOOLEAN : /\ Timed(e, NotifyDumpResult(e, ok))
                                /\ NotifyDumpResult(e, ok).phase \in {e.phase, "ABORT"}
<1>1. Timed(e, Start(e))
  BY TimersStay DEF Start, Timed
<1>2. Timed(e, NoteDetectorAlive(e))
  BY ZenonT(120) DEF NoteDetectorAlive, Timed, EngineState
<1>3. ASSUME NEW k \in 0 .. CounterMod - 1 PROVE Timed(e, NoteResetCounter(e, k))
  BY ZenonT(120) DEF NoteResetCounter, Timed, EngineState
<1>4. ASSUME NEW k \in Clusters, NEW tagged \in BOOLEAN, NEW enough \in BOOLEAN
      PROVE  Timed(e, Ingest(e, k, tagged, enough))
  <2>1. ASSUME NEW l PROVE Timed(e, [e EXCEPT !.log = l])
    BY ZenonT(120) DEF Timed, EngineState
  <2> QED
    BY <2>1 DEF Ingest
<1>5. ASSUME NEW ok \in BOOLEAN
      PROVE  /\ Timed(e, NotifyDumpResult(e, ok))
             /\ NotifyDumpResult(e, ok).phase \in {e.phase, "ABORT"}
  <2> DEFINE a == [e EXCEPT !.acked = TRUE]
             n == e.attempts + 1
             b == [e EXCEPT !.attempts = n]
  <2>1. n \in Nat
    BY DEF EngineState
  <2>2. \/ NotifyDumpResult(e, ok) = e \/ NotifyDumpResult(e, ok) = a
        \/ NotifyDumpResult(e, ok) = b \/ NotifyDumpResult(e, ok) = Abort(b)
    BY DEF NotifyDumpResult
  <2> HIDE DEF n
  <2>3. Timed(e, a) /\ Timed(e, b) /\ b \in EngineState
    BY <2>1, ZenonT(120) DEF Timed, EngineState
  <2>4. a.phase = e.phase /\ b.phase = e.phase
    BY ZenonT(120) DEF EngineState
  <2> HIDE DEF a, b
  <2>5. Abort(b).phase \in {b.phase, "ABORT"}
    BY <2>3, Aborting
  <2> QED
    BY <2>2, <2>3, <2>4, <2>5, TimersStay DEF Timed
<1> QED
  BY <1>1, <1>2, <1>3, <1>4, <1>5

(* Every step keeps the clocks, and departs from rest.                       *)
LEMMA StepIsTimed ==
  ASSUME Inv, Clocks(engine, calm, anchored), Next
  PROVE  /\ Clocks(engine', calm', anchored')
         /\ Departs(engine, engine', calm', anchored')
<1>0. Good(engine) /\ engine \in EngineState /\ calm \in 0 .. 2 /\ anchored \in 0 .. 2
  BY DEF Inv, Good
<1>1. ASSUME Timed(engine, engine'), UNCHANGED <<calm, anchored>>,
             \/ engine'.phase = engine.phase
             \/ engine'.phase = "ABORT"
             \/ engine.phase = "PREFLIGHT" /\ engine'.phase = "OFFBOARD_SYNC"
      PROVE  /\ Clocks(engine', calm', anchored')
             /\ Departs(engine, engine', calm', anchored')
  BY <1>1 DEF Clocks, Departs, Timed
<1>2. ASSUME engine' = Abort(engine), UNCHANGED <<calm, anchored>>
      PROVE  /\ Clocks(engine', calm', anchored')
             /\ Departs(engine, engine', calm', anchored')
  BY <1>0, <1>1, <1>2, TimersStay, Aborting
<1>3. CASE DoStart
  <2>1. engine' = Start(engine) /\ UNCHANGED <<calm, anchored>>
    BY <1>3 DEF DoStart, history
  <2>2. \/ engine'.phase = engine.phase
        \/ engine.phase = "PREFLIGHT" /\ engine'.phase = "OFFBOARD_SYNC"
    <3> DEFINE s == [engine EXCEPT !.phase = "OFFBOARD_SYNC"]
    <3>1. s.phase = "OFFBOARD_SYNC"
      BY <1>0, ZenonT(120) DEF EngineState
    <3>2. engine' = engine \/ (engine.phase = "PREFLIGHT" /\ engine' = s)
      BY <2>1 DEF Start
    <3> HIDE DEF s
    <3> QED
      BY <3>1, <3>2
  <2> QED
    BY <1>0, <1>1, <2>1, <2>2, MethodsAreUntimed
<1>4. CASE DoDetectorAlive
  BY <1>0, <1>1, <1>4, MethodsAreUntimed, Noting DEF DoDetectorAlive, history, Kept
<1>5. CASE DoResetCounter
  <2>1. PICK c \in 0 .. CounterMod - 1 : engine' = NoteResetCounter(engine, c)
    BY <1>5 DEF DoResetCounter
  <2>2. UNCHANGED <<calm, anchored>>
    BY <1>5 DEF DoResetCounter
  <2> QED
    BY <1>0, <1>1, <2>1, <2>2, MethodsAreUntimed, Noting DEF Kept
<1>6. CASE DoAbort
  BY <1>2, <1>6 DEF DoAbort, history
<1>7. CASE DoIngest
  <2>1. PICK c \in Clusters, tagged \in BOOLEAN, enough \in BOOLEAN :
          engine' = Ingest(engine, c, tagged, enough)
    BY <1>7 DEF DoIngest
  <2>2. UNCHANGED <<calm, anchored>>
    BY <1>7 DEF DoIngest, history
  <2> QED
    BY <1>0, <1>1, <2>1, <2>2, MethodsAreUntimed, Noting DEF Kept
<1>8. CASE DoDumpResult
  <2>1. PICK ok \in BOOLEAN : engine' = NotifyDumpResult(engine, ok)
    BY <1>8 DEF DoDumpResult
  <2>2. UNCHANGED <<calm, anchored>>
    BY <1>8 DEF DoDumpResult, history
  <2>3. Timed(engine, engine')
    BY <1>0, <2>1, MethodsAreUntimed
  <2>4. engine'.phase \in {engine.phase, "ABORT"}
    BY <1>0, <2>1, MethodsAreUntimed
  <2> QED
    BY <1>1, <2>2, <2>3, <2>4
<1>9. CASE DoTick
  <2>1. PICK in \in Samples(engine) :
          /\ engine' = Tick(engine, in)
          /\ calm' = IF AtRest(engine, in) THEN Saturate(calm) ELSE 0
          /\ anchored' = IF in.ready THEN Saturate(anchored) ELSE 0
    BY <1>9 DEF DoTick, AtRest
  <2>2. in \in Sample
    BY SampleOfTheSamples
  <2> QED
    BY <1>0, <2>1, <2>2, TickIsTimed
<1> QED
  BY <1>3, <1>4, <1>5, <1>6, <1>7, <1>8, <1>9 DEF Next

(* LAND, and the departure to a petal, come after two ticks in a row at rest   *)
(* over the point, and two with the anchor settled where the code asks for    *)
(* it: SETTLE and the center of the rosette, whatever guards, replies, aborts *)
(* and frame resets fall between the two ticks.                              *)
THEOREM RestHolds == Spec => DepartsFromRest
<1>1. Init => Clocks(engine, calm, anchored)
  BY DEF Init, NewEngine, Clocks
<1>2. Inv /\ Clocks(engine, calm, anchored) /\ [Next]_vars =>
        /\ Inv' /\ Clocks(engine, calm, anchored)'
        /\ [Departs(engine, engine', calm', anchored')]_vars
  <2> SUFFICES ASSUME Inv, Clocks(engine, calm, anchored), [Next]_vars
               PROVE  /\ Inv' /\ Clocks(engine, calm, anchored)'
                      /\ [Departs(engine, engine', calm', anchored')]_vars
    OBVIOUS
  <2>1. CASE Next
    BY <2>1, StepHolds, StepIsTimed
  <2>2. CASE UNCHANGED vars
    BY <2>2 DEF vars, history, Inv, CommandStaysInside, Clocks
  <2> QED
    BY <2>1, <2>2
<1> QED
  BY <1>1, <1>2, InitHolds, PTL DEF Spec, DepartsFromRest, Departs

-----------------------------------------------------------------------------
(* The bench test (PropIdle).                                               *)

Orders == {"offboard", "arm", "disarm", "force"}
NoArm(q) == \A i \in 1 .. Len(q) : q[i] # "arm"
OneArm(q) == \A i, j \in 1 .. Len(q) : q[i] = "arm" /\ q[j] = "arm" => i = j

(* Before the hand-off to a cleanup there is room for its disarm.                *)
BenchTypes ==
  /\ Bench!TypeOK
  /\ mission.state \notin Bench!Cleanup \cup {"done"} => Len(queued) <= MaxCommands

(* One attempt, and one arm command in it.                                    *)
OneShot ==
  /\ arms <= 1
  /\ mission.state \in Bench!Running \cup Bench!Cleanup \/ arms = 1
       => mission.start /\ mission.attempted /\ seen.known
  /\ mission.state \in {"wait_link", "wait_start", "prestream", "wait_offboard"} => arms = 0
  /\ mission.state \in {"wait_arm", "hold_minimum"} => arms = 1
  /\ arms = 0 => NoArm(queued)
  /\ OneArm(queued)
  /\ mission.held => arms = 1 /\ mission.state \in {"hold_minimum", "done"} \cup Bench!Cleanup

(* What it has seen of the motors is what they are, or they have been disarmed    *)
(* since: until its arm command is taken, and again once it has seen them armed.    *)
SeesTheMotors ==
  /\ seen.fresh => seen.known
  /\ arms = 0 /\ seen.known /\ ~seen.status.armed => ~autopilot.armed
  /\ mission.state \in {"prestream", "wait_offboard"} => ~seen.status.armed
  /\ ~NoArm(queued) => ~seen.status.armed /\ ~autopilot.armed
  /\ mission.held => NoArm(queued) /\ (~seen.status.armed => ~autopilot.armed)
  /\ mission.held /\ mission.state = "done" => ~seen.status.armed

BenchKeeps == BenchTypes /\ OneShot /\ SeesTheMotors

(* A command goes to the end of the queue.                                     *)
LEMMA Ordered ==
  ASSUME NEW q \in Seq(Orders), NEW c \in Orders
  PROVE  /\ Append(q, c) \in Seq(Orders) /\ Len(Append(q, c)) = Len(q) + 1
         /\ c # "arm" => (NoArm(Append(q, c)) <=> NoArm(q)) /\ (OneArm(q) => OneArm(Append(q, c)))
         /\ NoArm(q) => OneArm(Append(q, c))
<1> DEFINE r == Append(q, c)
<1>1. /\ r \in Seq(Orders) /\ Len(r) = Len(q) + 1 /\ Len(q) \in Nat
      /\ \A i \in 1 .. Len(q) : r[i] = q[i]
      /\ r[Len(q) + 1] = c
  OBVIOUS
<1> HIDE DEF r
<1>2. \A i \in 1 .. Len(r) : i \in 1 .. Len(q) \/ i = Len(q) + 1
  BY <1>1
<1>3. \A i \in 1 .. Len(q) : i \in 1 .. Len(r)
  BY <1>1
<1>4. c # "arm" => (NoArm(r) <=> NoArm(q))
  BY <1>1, <1>2, <1>3 DEF NoArm
<1>5. c # "arm" /\ OneArm(q) => OneArm(r)
  BY <1>1, <1>2 DEF OneArm
<1>6. NoArm(q) => OneArm(r)
  BY <1>1, <1>2 DEF NoArm, OneArm
<1> QED
  BY <1>1, <1>4, <1>5, <1>6 DEF r

(* The first is taken.                                                       *)
LEMMA Taken ==
  ASSUME NEW q \in Seq(Orders), q # <<>>
  PROVE  /\ Tail(q) \in Seq(Orders) /\ Len(Tail(q)) = Len(q) - 1 /\ Head(q) \in Orders
         /\ NoArm(q) => NoArm(Tail(q)) /\ Head(q) # "arm"
         /\ OneArm(q) => OneArm(Tail(q))
         /\ OneArm(q) /\ Head(q) = "arm" => NoArm(Tail(q))
<1> DEFINE r == Tail(q)
<1>1. /\ r \in Seq(Orders) /\ Len(r) = Len(q) - 1 /\ Len(q) \in Nat \ {0}
      /\ \A i \in 1 .. Len(q) - 1 : r[i] = q[i + 1]
      /\ Head(q) = q[1] /\ q[1] \in Orders
  OBVIOUS
<1> HIDE DEF r
<1>2. \A i \in 1 .. Len(r) : i + 1 \in 1 .. Len(q) /\ i + 1 # 1 /\ r[i] = q[i + 1]
  BY <1>1
<1>3. 1 \in 1 .. Len(q)
  BY <1>1
<1>4. NoArm(q) => NoArm(r) /\ Head(q) # "arm"
  BY <1>1, <1>2, <1>3 DEF NoArm
<1>5. OneArm(q) => OneArm(r)
  <2> SUFFICES ASSUME OneArm(q), NEW i \in 1 .. Len(r), NEW j \in 1 .. Len(r), r[i] = "arm", r[j] = "arm"
               PROVE  i = j
    BY DEF OneArm
  <2>1. i + 1 = j + 1
    BY <1>2 DEF OneArm
  <2> QED BY <2>1
<1>6. OneArm(q) /\ Head(q) = "arm" => NoArm(r)
  BY <1>1, <1>2, <1>3 DEF NoArm, OneArm
<1> QED
  BY <1>1, <1>4, <1>5, <1>6 DEF r

(* A state is entered.                                                       *)
LEMMA BenchEnters ==
  ASSUME BenchTypes, NEW s \in Bench!States, Bench!SetState(s)
  PROVE  /\ mission' \in [state : Bench!States, start : BOOLEAN, attempted : BOOLEAN, held : BOOLEAN]
         /\ mission'.state = s /\ mission'.start = mission.start
         /\ mission'.attempted = mission.attempted
         /\ mission'.held = (mission.held \/ s = "hold_minimum")
         /\ due' \in [state : BOOLEAN, again : BOOLEAN]
<1>1. mission \in [state : Bench!States, start : BOOLEAN, attempted : BOOLEAN, held : BOOLEAN]
      /\ due \in [state : BOOLEAN, again : BOOLEAN]
  BY DEF BenchTypes, Bench!TypeOK
<1>2. PICK h \in BOOLEAN : h = (mission.held \/ s = "hold_minimum")
  BY <1>1
<1>3. mission' = [mission EXCEPT !.state = s, !.held = h]
  BY <1>2 DEF Bench!SetState
<1>4. due' \in [state : BOOLEAN, again : BOOLEAN]
  BY <1>1 DEF Bench!SetState
<1> QED
  BY <1>1, <1>2, <1>3, <1>4

(* The cleanup: the motors are told to disarm, or known to be disarmed.            *)
LEMMA BenchCleansUp ==
  ASSUME BenchTypes, Bench!BeginCleanup
  PROVE  /\ mission' \in [state : Bench!States, start : BOOLEAN, attempted : BOOLEAN, held : BOOLEAN]
         /\ mission'.start = mission.start /\ mission'.attempted = mission.attempted
         /\ mission'.held = mission.held
         /\ due' \in [state : BOOLEAN, again : BOOLEAN] /\ motors' = "stopped"
         /\ queued' \in Seq(Orders) /\ Len(queued') <= Len(queued) + 1
         /\ (NoArm(queued') <=> NoArm(queued)) /\ (OneArm(queued) => OneArm(queued'))
         /\ \/ mission'.state = "normal_disarm" /\ seen.known /\ seen.status.armed
            \/ mission'.state = "done" /\ (seen.known => ~seen.status.armed)
<1>1. queued \in Seq(Orders) /\ Len(queued) \in Nat
      /\ mission \in [state : Bench!States, start : BOOLEAN, attempted : BOOLEAN, held : BOOLEAN]
  BY DEF BenchTypes, Bench!TypeOK, Orders
<1>2. "normal_disarm" \in Bench!States /\ "done" \in Bench!States
  BY DEF Bench!States
<1>3. CASE Bench!IsArmed
  <2>1. queued' = Append(queued, "disarm") /\ Bench!SetState("normal_disarm") /\ motors' = "stopped"
    BY <1>3 DEF Bench!BeginCleanup, Bench!Command
  <2>2. "disarm" \in Orders /\ "disarm" # "arm"
    BY DEF Orders
  <2> QED
    BY <1>1, <1>2, <1>3, <2>1, <2>2, Ordered, BenchEnters DEF Bench!IsArmed
<1>4. CASE ~Bench!IsArmed
  <2>1. queued' = queued /\ Bench!SetState("done") /\ motors' = "stopped"
    BY <1>4 DEF Bench!BeginCleanup
  <2> QED
    BY <1>1, <1>2, <1>4, <2>1, BenchEnters DEF Bench!IsArmed
<1> QED
  BY <1>3, <1>4

LEMMA BenchStarts ==
  Bench!Init => BenchKeeps
<1> SUFFICES ASSUME Bench!Init
             PROVE  BenchKeeps
  OBVIOUS
<1> USE DEF Bench!Init
<1>1. MaxCommands \in Nat /\ MaxSurprises \in Nat
  BY BenchConstants
<1>2. queued \in Seq(Orders) /\ Len(queued) = 0
  OBVIOUS
<1>3. NoArm(queued) /\ OneArm(queued)
  BY <1>2 DEF NoArm, OneArm
<1>4. Bench!TypeOK
  <2>1. Bench!OnThePad \in Bench!Statuses /\ autopilot \in Bench!Statuses
    <3>1. PICK p : p = Bench!OnThePad
      OBVIOUS
    <3>2. p \in Bench!Statuses
      BY <3>1 DEF Bench!OnThePad, Bench!Statuses
    <3>3. autopilot \in {p, [p EXCEPT !.armed = TRUE], [p EXCEPT !.failsafe = TRUE]}
      BY <3>1
    <3> QED
      BY <3>1, <3>2, <3>3 DEF Bench!Statuses
  <2>2. mission \in [state : Bench!States, start : BOOLEAN, attempted : BOOLEAN, held : BOOLEAN]
    BY DEF Bench!States
  <2>3. /\ seen \in [status : Bench!Statuses, known : BOOLEAN, fresh : BOOLEAN]
        /\ due \in [state : BOOLEAN, again : BOOLEAN]
    BY <2>1
  <2> QED
    BY <1>1, <1>2, <2>1, <2>2, <2>3 DEF Bench!TypeOK, Orders
<1> QED
  BY <1>1, <1>2, <1>3, <1>4 DEF BenchKeeps, BenchTypes, OneShot, SeesTheMotors, Bench!Running, Bench!Cleanup

(* The callbacks.                                                           *)
LEMMA StartCbKeeps ==
  ASSUME BenchKeeps, Bench!StartCb
  PROVE  BenchKeeps'
<1>1. BenchTypes'
  BY DEF BenchKeeps, BenchTypes, Bench!StartCb, Bench!TypeOK
<1>2. OneShot'
  BY DEF BenchKeeps, BenchTypes, Bench!TypeOK, OneShot, Bench!StartCb, NoArm, OneArm
<1>3. SeesTheMotors'
  BY DEF BenchKeeps, BenchTypes, Bench!TypeOK, SeesTheMotors, Bench!StartCb, NoArm
<1> QED
  BY <1>1, <1>2, <1>3 DEF BenchKeeps

LEMMA StatusCbKeeps ==
  ASSUME BenchKeeps, Bench!StatusCb
  PROVE  BenchKeeps'
<1>1. BenchTypes'
  BY DEF BenchKeeps, BenchTypes, Bench!StatusCb, Bench!TypeOK
<1>2. OneShot'
  BY DEF BenchKeeps, BenchTypes, Bench!TypeOK, OneShot, Bench!StatusCb, NoArm, OneArm
<1>3. SeesTheMotors'
  <2>1. NoArm(queued) = NoArm(queued)'
    BY DEF Bench!StatusCb, NoArm
  <2>2. mission.state \in {"prestream", "wait_offboard"} => arms = 0 /\ seen.known
    BY DEF BenchKeeps, OneShot, Bench!Running
  <2> QED
    BY <2>1, <2>2 DEF BenchKeeps, SeesTheMotors, Bench!StatusCb
<1> QED
  BY <1>1, <1>2, <1>3 DEF BenchKeeps

(* A cleanup begun while there is room.                                        *)
LEMMA CleanupKeeps ==
  ASSUME BenchKeeps, Bench!BeginCleanup, UNCHANGED <<seen, autopilot, arms, surprises>>,
         Len(queued) <= MaxCommands, mission.state \in Bench!Running
  PROVE  BenchKeeps'
<1>0. BenchTypes /\ OneShot /\ SeesTheMotors
  BY DEF BenchKeeps
<1>1. /\ mission' \in [state : Bench!States, start : BOOLEAN, attempted : BOOLEAN, held : BOOLEAN]
      /\ due' \in [state : BOOLEAN, again : BOOLEAN] /\ motors' = "stopped"
      /\ queued' \in Seq(Orders) /\ Len(queued') <= Len(queued) + 1
  BY <1>0, BenchCleansUp
<1>2. /\ mission'.start = mission.start /\ mission'.attempted = mission.attempted
      /\ mission'.held = mission.held
      /\ (NoArm(queued') <=> NoArm(queued)) /\ (OneArm(queued) => OneArm(queued'))
      /\ \/ mission'.state = "normal_disarm" /\ seen.known /\ seen.status.armed
         \/ mission'.state = "done" /\ (seen.known => ~seen.status.armed)
  BY <1>0, BenchCleansUp
<1>3. BenchTypes'
  <2>1. MaxCommands \in Nat /\ Len(queued) \in Nat
    BY <1>0, BenchConstants DEF BenchTypes, Bench!TypeOK
  <2>2. Len(queued') \in Nat /\ Len(queued') <= MaxCommands + 1
    BY <1>1, <2>1
  <2>3. Bench!TypeOK'
    BY <1>0, <1>1, <2>2 DEF BenchTypes, Bench!TypeOK, Orders
  <2>4. mission'.state \in Bench!Cleanup \cup {"done"}
    BY <1>2 DEF Bench!Cleanup
  <2> QED BY <2>3, <2>4 DEF BenchTypes
<1>4. seen.known
  BY <1>0 DEF OneShot
<1>5. OneShot'
  BY <1>0, <1>2, <1>4 DEF OneShot, Bench!Running, Bench!Cleanup
<1>6. SeesTheMotors'
  BY <1>0, <1>2, <1>4 DEF SeesTheMotors
<1> QED
  BY <1>3, <1>5, <1>6 DEF BenchKeeps

LEMMA EndOrAbortKeeps ==
  ASSUME BenchKeeps, Bench!EndOrAbort
  PROVE  BenchKeeps'
<1>0. BenchTypes /\ OneShot /\ SeesTheMotors /\ UNCHANGED <<seen, autopilot, arms, surprises>>
      /\ mission.state \notin Bench!Cleanup \cup {"done"}
  BY DEF BenchKeeps, Bench!EndOrAbort
<1>1. CASE mission.state \in {"wait_link", "wait_start"}
  <2>1. /\ mission' = [mission EXCEPT !.attempted = TRUE, !.state = "done"]
        /\ due' = [due EXCEPT !.state = FALSE] /\ UNCHANGED <<queued, motors>>
    BY <1>1 DEF Bench!EndOrAbort
  <2>2. BenchTypes'
    BY <1>0, <2>1 DEF BenchTypes, Bench!TypeOK, Bench!States
  <2>3. mission'.state = "done" /\ mission'.held = mission.held /\ ~mission.held /\ arms = 0
    BY <1>0, <1>1, <2>1 DEF BenchTypes, Bench!TypeOK, OneShot, Bench!Cleanup
  <2>4. NoArm(queued) = NoArm(queued)' /\ OneArm(queued) = OneArm(queued)'
    BY <2>1 DEF NoArm, OneArm
  <2>5. OneShot' /\ SeesTheMotors'
    BY <1>0, <2>3, <2>4 DEF OneShot, SeesTheMotors, Bench!Running, Bench!Cleanup
  <2> QED BY <2>2, <2>5 DEF BenchKeeps
<1>2. CASE mission.state \notin {"wait_link", "wait_start"}
  <2>1. Bench!BeginCleanup /\ Len(queued) <= MaxCommands /\ mission.state \in Bench!Running
    BY <1>0, <1>2 DEF Bench!EndOrAbort, BenchTypes, Bench!TypeOK, Bench!States, Bench!Running, Bench!Cleanup
  <2>2. BenchKeeps'
    BY <1>0, <2>1, CleanupKeeps
  <2> QED BY <2>2
<1> QED
  BY <1>1, <1>2

(* The ticks.                                                              *)
LEMMA LinkTickKeeps ==
  ASSUME BenchKeeps, Bench!LinkTick
  PROVE  BenchKeeps'
<1>0. BenchTypes /\ OneShot /\ SeesTheMotors
      /\ UNCHANGED <<seen, autopilot, queued, motors, arms, surprises>>
      /\ mission.state \in {"wait_link", "wait_start"}
  BY DEF BenchKeeps, Bench!LinkTick
<1>1. PICK s \in {"wait_link", "wait_start"} : Bench!SetState(s)
  BY DEF Bench!LinkTick
<1>2. s \in Bench!States
  BY DEF Bench!States
<1>3. /\ mission' \in [state : Bench!States, start : BOOLEAN, attempted : BOOLEAN, held : BOOLEAN]
      /\ mission'.state = s /\ mission'.start = mission.start
      /\ mission'.attempted = mission.attempted /\ mission'.held = mission.held
      /\ due' \in [state : BOOLEAN, again : BOOLEAN]
  BY <1>0, <1>1, <1>2, BenchEnters DEF BenchTypes, Bench!TypeOK
<1>4. BenchTypes'
  BY <1>0, <1>3 DEF BenchTypes, Bench!TypeOK, Bench!Cleanup
<1>5. NoArm(queued) = NoArm(queued)' /\ OneArm(queued) = OneArm(queued)'
  BY <1>0 DEF NoArm, OneArm
<1>6. OneShot' /\ SeesTheMotors'
  BY <1>0, <1>3, <1>5 DEF OneShot, SeesTheMotors, Bench!Running, Bench!Cleanup
<1> QED
  BY <1>4, <1>6 DEF BenchKeeps

LEMMA StartTickKeeps ==
  ASSUME BenchKeeps, Bench!StartTick
  PROVE  BenchKeeps'
<1>0. /\ BenchTypes /\ OneShot /\ SeesTheMotors
      /\ UNCHANGED <<seen, autopilot, queued, motors, arms, surprises>>
      /\ mission.state \in {"wait_link", "wait_start"} /\ seen.fresh /\ mission.start
  BY DEF BenchKeeps, Bench!StartTick
<1>1. PICK s : s = Bench!BeginAttempt(seen.status)
  OBVIOUS
<1>2. /\ s \in Bench!States /\ s \in {"done", "prestream"}
      /\ s = "prestream" => ~seen.status.armed
  BY <1>1 DEF Bench!BeginAttempt, Bench!States
<1>3. /\ mission' = [mission EXCEPT !.attempted = TRUE, !.state = s]
      /\ due' = [due EXCEPT !.state = FALSE]
  BY <1>1 DEF Bench!StartTick
<1>4. /\ mission' \in [state : Bench!States, start : BOOLEAN, attempted : BOOLEAN, held : BOOLEAN]
      /\ mission'.state = s /\ mission'.start = mission.start /\ mission'.attempted = TRUE
      /\ mission'.held = mission.held
      /\ due' \in [state : BOOLEAN, again : BOOLEAN]
  BY <1>0, <1>2, <1>3 DEF BenchTypes, Bench!TypeOK
<1>5. BenchTypes'
  BY <1>0, <1>4 DEF BenchTypes, Bench!TypeOK, Bench!Cleanup
<1>6. NoArm(queued) = NoArm(queued)' /\ OneArm(queued) = OneArm(queued)'
  BY <1>0 DEF NoArm, OneArm
<1>7. arms = 0 /\ ~mission.held /\ seen.known
  BY <1>0 DEF OneShot, SeesTheMotors, Bench!Cleanup
<1>8. OneShot' /\ SeesTheMotors'
  BY <1>0, <1>2, <1>4, <1>6, <1>7 DEF OneShot, SeesTheMotors, Bench!Running, Bench!Cleanup
<1> QED
  BY <1>5, <1>8 DEF BenchKeeps

(* A tick that sends nothing, or no arm command, and goes to a state.               *)
LEMMA BenchMoves ==
  ASSUME BenchKeeps, UNCHANGED <<seen, autopilot, arms, surprises>>,
         Len(queued) < MaxCommands, motors' \in {"minimum", "stopped"},
         NEW s \in Bench!States, Bench!SetState(s),
         queued' = queued \/ \E c \in Orders \ {"arm"} : queued' = Append(queued, c)
  PROVE  /\ BenchTypes'
         /\ mission'.state = s /\ mission'.start = mission.start
         /\ mission'.attempted = mission.attempted
         /\ mission'.held = (mission.held \/ s = "hold_minimum")
         /\ (NoArm(queued') <=> NoArm(queued)) /\ (OneArm(queued) => OneArm(queued'))
<1>0. BenchTypes
  BY DEF BenchKeeps
<1>1. /\ mission' \in [state : Bench!States, start : BOOLEAN, attempted : BOOLEAN, held : BOOLEAN]
      /\ mission'.state = s /\ mission'.start = mission.start
      /\ mission'.attempted = mission.attempted
      /\ mission'.held = (mission.held \/ s = "hold_minimum")
      /\ due' \in [state : BOOLEAN, again : BOOLEAN]
  BY <1>0, BenchEnters
<1>2. queued \in Seq(Orders)
  BY <1>0 DEF BenchTypes, Bench!TypeOK, Orders
<1>3. /\ queued' \in Seq(Orders) /\ Len(queued') <= Len(queued) + 1
      /\ (NoArm(queued') <=> NoArm(queued)) /\ (OneArm(queued) => OneArm(queued'))
  <2>1. CASE queued' = queued
    BY <1>2, <2>1 DEF NoArm, OneArm
  <2>2. CASE \E c \in Orders \ {"arm"} : queued' = Append(queued, c)
    BY <1>2, <2>2, Ordered
  <2> QED BY <2>1, <2>2
<1>4. Len(queued') \in Nat /\ Len(queued') <= MaxCommands
  <2>1. Len(queued) \in Nat /\ Len(queued') \in Nat /\ MaxCommands \in Nat
    BY <1>2, <1>3, BenchConstants
  <2> QED BY <2>1, <1>3
<1>5. Bench!TypeOK'
  <2>1. MaxCommands \in Nat
    BY BenchConstants
  <2> QED BY <1>0, <1>1, <1>3, <1>4, <2>1 DEF BenchTypes, Bench!TypeOK, Orders
<1> QED
  BY <1>1, <1>3, <1>4, <1>5 DEF BenchTypes

(* And one that sends a forced disarm and stays.                                   *)
LEMMA BenchForces ==
  ASSUME BenchKeeps, UNCHANGED <<mission, seen, autopilot, arms, surprises>>,
         Len(queued) < MaxCommands, motors' \in {"minimum", "stopped"},
         due' = [due EXCEPT !.again = FALSE], queued' = Append(queued, "force")
  PROVE  BenchKeeps'
<1>0. BenchTypes /\ OneShot /\ SeesTheMotors
  BY DEF BenchKeeps
<1>1. queued \in Seq(Orders) /\ "force" \in Orders /\ "force" # "arm"
  BY <1>0 DEF BenchTypes, Bench!TypeOK, Orders
<1>2. /\ queued' \in Seq(Orders) /\ Len(queued') = Len(queued) + 1
      /\ (NoArm(queued') <=> NoArm(queued)) /\ (OneArm(queued) => OneArm(queued'))
  BY <1>1, Ordered
<1>3. due' \in [state : BOOLEAN, again : BOOLEAN]
  BY <1>0 DEF BenchTypes, Bench!TypeOK
<1>4. Len(queued') \in Nat /\ Len(queued') <= MaxCommands /\ MaxCommands \in Nat
  <2>1. Len(queued) \in Nat /\ Len(queued') \in Nat /\ MaxCommands \in Nat
    BY <1>1, <1>2, BenchConstants
  <2> QED BY <2>1, <1>2
<1>5. BenchTypes'
  BY <1>0, <1>2, <1>3, <1>4 DEF BenchTypes, Bench!TypeOK, Orders
<1>6. OneShot' /\ SeesTheMotors'
  BY <1>0, <1>2 DEF OneShot, SeesTheMotors
<1> QED
  BY <1>5, <1>6 DEF BenchKeeps

LEMMA StaleTickKeeps ==
  ASSUME BenchKeeps, Bench!StaleTick, Len(queued) < MaxCommands
  PROVE  BenchKeeps'
<1>0. /\ OneShot /\ SeesTheMotors /\ mission.state \in Bench!Running \cup Bench!Cleanup
      /\ UNCHANGED <<seen, autopilot, arms, surprises>> /\ motors' \in {"minimum", "stopped"}
  BY DEF BenchKeeps, Bench!StaleTick
<1>1. CASE mission.state # "force_disarm"
  <2>1. Bench!SetState("force_disarm") /\ queued' = queued /\ "force_disarm" \in Bench!States
    BY <1>1 DEF Bench!StaleTick, Bench!States
  <2>2. /\ BenchTypes'
        /\ mission'.state = "force_disarm" /\ mission'.start = mission.start
        /\ mission'.attempted = mission.attempted /\ mission'.held = mission.held
        /\ (NoArm(queued') <=> NoArm(queued)) /\ (OneArm(queued) => OneArm(queued'))
    <3>1. mission.held \in BOOLEAN
      BY DEF BenchKeeps, BenchTypes, Bench!TypeOK
    <3> QED BY <1>0, <2>1, <3>1, BenchMoves
  <2>3. OneShot' /\ SeesTheMotors'
    BY <1>0, <2>2 DEF OneShot, SeesTheMotors, Bench!Running, Bench!Cleanup
  <2> QED BY <2>2, <2>3 DEF BenchKeeps
<1>2. CASE mission.state = "force_disarm"
  BY <1>0, <1>2, BenchForces DEF Bench!StaleTick, Bench!Command
<1> QED
  BY <1>1, <1>2

LEMMA PrestreamTickKeeps ==
  ASSUME BenchKeeps, Bench!PrestreamTick, Len(queued) < MaxCommands
  PROVE  BenchKeeps'
<1>0. /\ BenchTypes /\ OneShot /\ SeesTheMotors /\ mission.state = "prestream"
      /\ UNCHANGED <<seen, autopilot, arms, surprises>> /\ motors' = "minimum"
  BY DEF BenchKeeps, Bench!PrestreamTick, Bench!Fresh
<1>1. CASE ~due.state
  <2>1. UNCHANGED <<mission, due, queued>>
    BY <1>1 DEF Bench!PrestreamTick
  <2>2. BenchTypes'
    BY <1>0, <2>1 DEF BenchTypes, Bench!TypeOK
  <2>3. OneShot' /\ SeesTheMotors'
    BY <1>0, <2>1 DEF OneShot, SeesTheMotors, NoArm, OneArm
  <2> QED BY <2>2, <2>3 DEF BenchKeeps
<1>2. CASE due.state
  <2>1. /\ Bench!SetState("wait_offboard") /\ queued' = Append(queued, "offboard")
        /\ "wait_offboard" \in Bench!States /\ "offboard" \in Orders \ {"arm"}
    BY <1>2 DEF Bench!PrestreamTick, Bench!Command, Bench!States, Orders
  <2>2. /\ BenchTypes'
        /\ mission'.state = "wait_offboard" /\ mission'.start = mission.start
        /\ mission'.attempted = mission.attempted /\ mission'.held = mission.held
        /\ (NoArm(queued') <=> NoArm(queued)) /\ (OneArm(queued) => OneArm(queued'))
    <3>1. mission.held \in BOOLEAN
      BY DEF BenchKeeps, BenchTypes, Bench!TypeOK
    <3> QED BY <1>0, <2>1, <3>1, BenchMoves
  <2>3. OneShot' /\ SeesTheMotors'
    BY <1>0, <2>2 DEF OneShot, SeesTheMotors, Bench!Running, Bench!Cleanup
  <2> QED BY <2>2, <2>3 DEF BenchKeeps
<1> QED
  BY <1>1, <1>2

LEMMA OffboardTickKeeps ==
  ASSUME BenchKeeps, Bench!OffboardTick, Len(queued) < MaxCommands
  PROVE  BenchKeeps'
<1>0. /\ BenchTypes /\ OneShot /\ SeesTheMotors /\ mission.state = "wait_offboard"
      /\ UNCHANGED <<seen, autopilot, surprises>>
  BY DEF BenchKeeps, Bench!OffboardTick, Bench!Fresh
<1>1. Len(queued) \in Nat /\ MaxCommands \in Nat /\ queued \in Seq(Orders)
  BY <1>0, BenchConstants DEF BenchTypes, Bench!TypeOK, Orders
<1>2. CASE Bench!Command("arm") /\ arms' = arms + 1 /\ Bench!SetState("wait_arm") /\ motors' = "minimum"
  <2>1. queued' = Append(queued, "arm") /\ "arm" \in Orders /\ "wait_arm" \in Bench!States
    BY <1>2 DEF Bench!Command, Orders, Bench!States
  <2>2. /\ arms = 0 /\ arms' = 1 /\ NoArm(queued) /\ seen.known
        /\ ~seen.status.armed /\ ~autopilot.armed /\ ~mission.held
        /\ mission.start /\ mission.attempted
    BY <1>0, <1>2 DEF OneShot, SeesTheMotors, Bench!Running, Bench!Cleanup
  <2>3. /\ queued' \in Seq(Orders) /\ Len(queued') = Len(queued) + 1 /\ OneArm(queued')
    BY <1>1, <2>1, <2>2, Ordered
  <2>4. /\ mission' \in [state : Bench!States, start : BOOLEAN, attempted : BOOLEAN, held : BOOLEAN]
        /\ mission'.state = "wait_arm" /\ mission'.start = mission.start
        /\ mission'.attempted = mission.attempted /\ ~mission'.held
        /\ due' \in [state : BOOLEAN, again : BOOLEAN]
    BY <1>0, <1>2, <2>1, <2>2, BenchEnters
  <2>5. Len(queued') \in Nat /\ Len(queued') <= MaxCommands
    BY <1>1, <2>3
  <2>6. BenchTypes'
    BY <1>0, <1>1, <1>2, <2>2, <2>3, <2>4, <2>5 DEF BenchTypes, Bench!TypeOK, Orders
  <2>7. OneShot' /\ SeesTheMotors'
    BY <1>0, <2>2, <2>3, <2>4 DEF OneShot, SeesTheMotors, Bench!Running, Bench!Cleanup
  <2> QED BY <2>6, <2>7 DEF BenchKeeps
<1>3. CASE Bench!BeginCleanup /\ UNCHANGED arms
  <2>1. mission.state \in Bench!Running /\ Len(queued) <= MaxCommands
    BY <1>0, <1>1 DEF Bench!Running
  <2> QED BY <1>0, <1>3, <2>1, CleanupKeeps
<1> QED
  BY <1>2, <1>3 DEF Bench!OffboardTick

LEMMA ArmTickKeeps ==
  ASSUME BenchKeeps, Bench!ArmTick, Len(queued) < MaxCommands
  PROVE  BenchKeeps'
<1>0. /\ BenchTypes /\ OneShot /\ SeesTheMotors /\ mission.state = "wait_arm"
      /\ UNCHANGED <<seen, autopilot, arms, surprises>>
  BY DEF BenchKeeps, Bench!ArmTick, Bench!Fresh
<1>1. CASE Bench!IsArmed /\ Bench!SetState("hold_minimum") /\ motors' = "minimum" /\ UNCHANGED queued
  <2>1. "hold_minimum" \in Bench!States
    BY DEF Bench!States
  <2>2. /\ BenchTypes'
        /\ mission'.state = "hold_minimum" /\ mission'.start = mission.start
        /\ mission'.attempted = mission.attempted /\ mission'.held
        /\ (NoArm(queued') <=> NoArm(queued)) /\ (OneArm(queued) => OneArm(queued'))
    BY <1>0, <1>1, <2>1, BenchMoves
  <2>3. seen.known /\ seen.status.armed /\ NoArm(queued) /\ arms = 1
    BY <1>0, <1>1 DEF Bench!IsArmed, SeesTheMotors, OneShot
  <2>4. OneShot' /\ SeesTheMotors'
    BY <1>0, <2>2, <2>3 DEF OneShot, SeesTheMotors, Bench!Running, Bench!Cleanup
  <2> QED BY <2>2, <2>4 DEF BenchKeeps
<1>2. CASE Bench!BeginCleanup
  <2>1. mission.state \in Bench!Running /\ Len(queued) <= MaxCommands
    BY <1>0, BenchConstants DEF Bench!Running, BenchTypes, Bench!TypeOK
  <2> QED BY <1>0, <1>2, <2>1, CleanupKeeps
<1> QED
  BY <1>1, <1>2 DEF Bench!ArmTick

(* What has been seen disarmed is done.                                         *)
LEMMA SeenDisarmed ==
  ASSUME BenchKeeps, UNCHANGED <<seen, autopilot, queued, arms, surprises>>, ~Bench!IsArmed,
         Bench!SetState("done"), Len(queued) < MaxCommands, motors' \in {"minimum", "stopped"},
         mission.state \in Bench!Running \cup Bench!Cleanup
  PROVE  BenchKeeps'
<1>0. BenchTypes /\ OneShot /\ SeesTheMotors /\ "done" \in Bench!States /\ mission.held \in BOOLEAN
  BY DEF BenchKeeps, Bench!States, BenchTypes, Bench!TypeOK
<1>1. /\ BenchTypes'
      /\ mission'.state = "done" /\ mission'.start = mission.start
      /\ mission'.attempted = mission.attempted /\ mission'.held = mission.held
      /\ (NoArm(queued') <=> NoArm(queued)) /\ (OneArm(queued) => OneArm(queued'))
  BY <1>0, BenchMoves
<1>2. seen.known /\ ~seen.status.armed
  BY <1>0 DEF OneShot, Bench!IsArmed
<1>3. OneShot' /\ SeesTheMotors'
  BY <1>0, <1>1, <1>2 DEF OneShot, SeesTheMotors, Bench!Running, Bench!Cleanup
<1> QED
  BY <1>1, <1>3 DEF BenchKeeps

LEMMA HoldTickKeeps ==
  ASSUME BenchKeeps, Bench!HoldTick, Len(queued) < MaxCommands
  PROVE  BenchKeeps'
<1>0. /\ BenchTypes /\ OneShot /\ SeesTheMotors /\ mission.state = "hold_minimum"
      /\ UNCHANGED <<seen, autopilot, arms, surprises>>
  BY DEF BenchKeeps, Bench!HoldTick, Bench!Fresh
<1>1. CASE ~Bench!IsArmed /\ Bench!SetState("done") /\ motors' = "minimum" /\ UNCHANGED queued
  BY <1>0, <1>1, SeenDisarmed DEF Bench!Running
<1>2. CASE Bench!BeginCleanup
  <2>1. mission.state \in Bench!Running /\ Len(queued) <= MaxCommands
    BY <1>0, BenchConstants DEF Bench!Running, BenchTypes, Bench!TypeOK
  <2> QED BY <1>0, <1>2, <2>1, CleanupKeeps
<1> QED
  BY <1>1, <1>2 DEF Bench!HoldTick

LEMMA NormalTickKeeps ==
  ASSUME BenchKeeps, Bench!NormalTick, Len(queued) < MaxCommands
  PROVE  BenchKeeps'
<1>0. /\ BenchTypes /\ OneShot /\ SeesTheMotors /\ mission.state = "normal_disarm"
      /\ UNCHANGED <<seen, autopilot, queued, arms, surprises>> /\ motors' = "stopped"
  BY DEF BenchKeeps, Bench!NormalTick, Bench!Fresh
<1>1. CASE ~Bench!IsArmed /\ Bench!SetState("done")
  BY <1>0, <1>1, SeenDisarmed DEF Bench!Cleanup
<1>2. CASE Bench!SetState("force_disarm")
  <2>1. "force_disarm" \in Bench!States /\ mission.held \in BOOLEAN
    BY <1>0 DEF Bench!States, BenchTypes, Bench!TypeOK
  <2>2. /\ BenchTypes'
        /\ mission'.state = "force_disarm" /\ mission'.start = mission.start
        /\ mission'.attempted = mission.attempted /\ mission'.held = mission.held
        /\ (NoArm(queued') <=> NoArm(queued)) /\ (OneArm(queued) => OneArm(queued'))
    BY <1>0, <1>2, <2>1, BenchMoves
  <2>3. OneShot' /\ SeesTheMotors'
    BY <1>0, <2>2 DEF OneShot, SeesTheMotors, Bench!Running, Bench!Cleanup
  <2> QED BY <2>2, <2>3 DEF BenchKeeps
<1> QED
  BY <1>1, <1>2 DEF Bench!NormalTick

LEMMA ForceTickKeeps ==
  ASSUME BenchKeeps, Bench!ForceTick, Len(queued) < MaxCommands
  PROVE  BenchKeeps'
<1>0. /\ mission.state = "force_disarm"
      /\ UNCHANGED <<seen, autopilot, arms, surprises>> /\ motors' = "stopped"
  BY DEF BenchKeeps, Bench!ForceTick, Bench!Fresh
<1>1. CASE ~Bench!IsArmed /\ Bench!SetState("done") /\ UNCHANGED queued
  BY <1>0, <1>1, SeenDisarmed DEF Bench!Cleanup
<1>2. CASE Bench!Command("force") /\ due' = [due EXCEPT !.again = FALSE] /\ UNCHANGED mission
  BY <1>0, <1>2, BenchForces DEF Bench!Command
<1> QED
  BY <1>1, <1>2 DEF Bench!ForceTick

(* Time and PX4.                                                           *)
LEMMA ElapsesKeeps ==
  ASSUME BenchKeeps, Bench!Elapses \/ Bench!GoesStale
  PROVE  BenchKeeps'
<1>0. /\ BenchTypes /\ OneShot /\ SeesTheMotors
      /\ UNCHANGED <<mission, autopilot, queued, motors, arms>>
  BY DEF BenchKeeps, Bench!Elapses, Bench!GoesStale
<1>1. BenchTypes'
  <2>1. CASE Bench!Elapses
    BY <1>0, <2>1 DEF BenchTypes, Bench!TypeOK, Bench!Elapses
  <2>2. CASE Bench!GoesStale
    <3>1. seen' \in [status : Bench!Statuses, known : BOOLEAN, fresh : BOOLEAN]
      BY <1>0, <2>2 DEF BenchTypes, Bench!TypeOK, Bench!GoesStale
    <3>2. surprises' \in 0 .. MaxSurprises /\ UNCHANGED due
      BY <1>0, <2>2, BenchConstants DEF BenchTypes, Bench!TypeOK, Bench!GoesStale, Bench!Surprise
    <3> QED BY <1>0, <3>1, <3>2 DEF BenchTypes, Bench!TypeOK
  <2> QED BY <2>1, <2>2
<1>2. seen'.status = seen.status /\ seen'.known = seen.known /\ (seen'.fresh => seen.fresh)
  BY <1>0 DEF BenchTypes, Bench!TypeOK, Bench!Elapses, Bench!GoesStale
<1>3. NoArm(queued) = NoArm(queued)' /\ OneArm(queued) = OneArm(queued)'
  BY <1>0 DEF NoArm, OneArm
<1>4. OneShot' /\ SeesTheMotors'
  BY <1>0, <1>2, <1>3 DEF OneShot, SeesTheMotors
<1> QED
  BY <1>1, <1>4 DEF BenchKeeps

LEMMA TakesKeeps ==
  ASSUME BenchKeeps, Bench!Takes \/ Bench!Refuses
  PROVE  BenchKeeps'
<1>0. /\ BenchTypes /\ OneShot /\ SeesTheMotors
      /\ UNCHANGED <<mission, seen, due, motors, arms>> /\ queued # <<>> /\ queued' = Tail(queued)
  BY DEF BenchKeeps, Bench!Takes, Bench!Refuses
<1>1. queued \in Seq(Orders) /\ autopilot \in Bench!Statuses /\ Len(queued) \in Nat /\ MaxCommands \in Nat
  BY <1>0, BenchConstants DEF BenchTypes, Bench!TypeOK, Orders
<1>2. /\ queued' \in Seq(Orders) /\ Len(queued') = Len(queued) - 1
      /\ NoArm(queued) => NoArm(queued') /\ Head(queued) # "arm"
      /\ OneArm(queued')
      /\ Head(queued) = "arm" => NoArm(queued')
  BY <1>0, <1>1, Taken DEF OneShot
<1>3. autopilot' \in Bench!Statuses /\ (autopilot'.armed => autopilot.armed \/ Head(queued) = "arm")
  <2>1. CASE Bench!Refuses
    BY <1>1, <2>1 DEF Bench!Refuses
  <2>2. CASE Bench!Takes
    <3>1. \/ autopilot' = [autopilot EXCEPT !.offboard = TRUE]
          \/ Head(queued) = "arm" /\ autopilot' = [autopilot EXCEPT !.armed = @ \/ autopilot.offboard]
          \/ autopilot' = [autopilot EXCEPT !.armed = FALSE]
      BY <2>2 DEF Bench!Takes
    <3> QED BY <1>1, <3>1 DEF Bench!Statuses
  <2> QED BY <2>1, <2>2
<1>4. surprises' \in 0 .. MaxSurprises
  BY <1>0, BenchConstants DEF Bench!Takes, Bench!Refuses, Bench!Surprise, BenchTypes, Bench!TypeOK
<1>5. BenchTypes'
  <2>1. Len(queued') \in Nat /\ Len(queued') <= MaxCommands + 1
        /\ (Len(queued) <= MaxCommands => Len(queued') <= MaxCommands)
    BY <1>0, <1>1, <1>2 DEF BenchTypes, Bench!TypeOK
  <2> QED BY <1>0, <1>2, <1>3, <1>4, <2>1 DEF BenchTypes, Bench!TypeOK, Orders
<1>6. OneShot'
  BY <1>0, <1>2 DEF OneShot
<1>7. SeesTheMotors'
  <2>1. arms = 0 \/ mission.held => NoArm(queued)
    BY <1>0 DEF OneShot, SeesTheMotors
  <2>2. ~NoArm(queued') => ~NoArm(queued) /\ Head(queued) # "arm"
    BY <1>2
  <2>3. arms \in Nat
    BY <1>0 DEF BenchTypes, Bench!TypeOK
  <2> QED BY <1>0, <1>2, <1>3, <2>1, <2>2 DEF SeesTheMotors
<1> QED
  BY <1>5, <1>6, <1>7 DEF BenchKeeps

LEMMA InterferesKeeps ==
  ASSUME BenchKeeps, Bench!Interferes
  PROVE  BenchKeeps'
<1>0. /\ BenchTypes /\ OneShot /\ SeesTheMotors /\ UNCHANGED <<mission, seen, due, queued, motors, arms>>
      /\ Bench!Surprise
      /\ autopilot' \in {[autopilot EXCEPT !.offboard = FALSE], [autopilot EXCEPT !.armed = FALSE],
                         [autopilot EXCEPT !.failsafe = TRUE, !.offboard = FALSE]}
  BY DEF BenchKeeps, Bench!Interferes
<1>1. autopilot' \in Bench!Statuses /\ (autopilot'.armed => autopilot.armed)
  <2>1. autopilot \in Bench!Statuses
    BY <1>0 DEF BenchTypes, Bench!TypeOK
  <2> QED BY <1>0, <2>1 DEF Bench!Statuses
<1>2. BenchTypes'
  BY <1>0, <1>1, BenchConstants DEF BenchTypes, Bench!TypeOK, Bench!Surprise
<1>3. NoArm(queued) = NoArm(queued)' /\ OneArm(queued) = OneArm(queued)'
  BY <1>0 DEF NoArm, OneArm
<1>4. OneShot' /\ SeesTheMotors'
  BY <1>0, <1>1, <1>3 DEF OneShot, SeesTheMotors
<1> QED
  BY <1>2, <1>4 DEF BenchKeeps

(* Every step of the bench test keeps the invariant, and none is its due.          *)
LEMMA BenchStep ==
  ASSUME BenchKeeps, Bench!Next \/ UNCHANGED benchVars
  PROVE  BenchKeeps'
<1>1. CASE Bench!Tick
  BY <1>1, LinkTickKeeps, StartTickKeeps, StaleTickKeeps, PrestreamTickKeeps, OffboardTickKeeps,
     ArmTickKeeps, HoldTickKeeps, NormalTickKeeps, ForceTickKeeps DEF Bench!Tick
<1>2. CASE UNCHANGED benchVars
  <2>1. BenchTypes'
    BY <1>2 DEF BenchKeeps, BenchTypes, Bench!TypeOK, benchVars
  <2>2. OneShot' /\ SeesTheMotors'
    BY <1>2 DEF BenchKeeps, OneShot, SeesTheMotors, benchVars, NoArm, OneArm
  <2> QED BY <2>1, <2>2 DEF BenchKeeps
<1> QED
  BY <1>1, <1>2, StartCbKeeps, StatusCbKeeps, EndOrAbortKeeps, ElapsesKeeps, TakesKeeps,
     InterferesKeeps DEF Bench!Next

-----------------------------------------------------------------------------
(* The survey from a schedule (SurveyMission).                                 *)

(* A number is least among those that are like it.                              *)
LEMMA LeastOf ==
  ASSUME NEW S \in SUBSET Nat, S # {}
  PROVE  \E m \in S : \A n \in S : m <= n
<1>1. PICK m \in S : \A n \in S : ~(<<n, m>> \in OpToRel(<, Nat))
  BY WFMin, NatLessThanWellFounded, Zenon
<1>2. ASSUME NEW n \in S
      PROVE  m <= n
  <2>1. m \in Nat /\ n \in Nat
    OBVIOUS
  <2>2. ~(<<n, m>> \in {ss \in Nat \X Nat : ss[1] < ss[2]})
    BY <1>1 DEF OpToRel
  <2> QED BY <2>1, <2>2
<1> QED
  BY <1>2

(* The segments.                                                            *)
LEMMA Segments ==
  /\ Len(Schedule) \in Nat \ {0}
  /\ \A k \in 1 .. Len(Schedule) : Schedule[k].to \in Int /\ Schedule[k].time \in Nat
<1>1. Schedule \in Seq([to : Int, time : Nat]) /\ Schedule # <<>>
  BY SurveyConstants
<1>2. Len(Schedule) \in Nat /\ Len(Schedule) # 0
      /\ \A k \in 1 .. Len(Schedule) : Schedule[k] \in [to : Int, time : Nat]
  <2>1. PICK S : S = [to : Int, time : Nat]
    OBVIOUS
  <2>2. Schedule \in Seq(S) /\ Schedule # <<>>
    BY <1>1, <2>1
  <2>3. Len(Schedule) \in Nat /\ Len(Schedule) # 0 /\ \A k \in 1 .. Len(Schedule) : Schedule[k] \in S
    BY <2>2
  <2> QED BY <2>1, <2>3
<1>3. ASSUME NEW k \in 1 .. Len(Schedule)
      PROVE  Schedule[k].to \in Int /\ Schedule[k].time \in Nat
  <2>1. PICK segment \in [to : Int, time : Nat] : segment = Schedule[k]
    BY <1>2
  <2>2. segment.to \in Int /\ segment.time \in Nat
    OBVIOUS
  <2> QED BY <2>1, <2>2
<1> QED
  BY <1>2, <1>3

(* The ends of the first n segments.                                          *)
Sums(g, n) ==
  /\ g = [k \in 0 .. n |-> IF k = 0 THEN 0 ELSE g[k - 1] + Schedule[k].time]
  /\ \A k \in 0 .. n : g[k] \in Nat

LEMMA SumsExist ==
  ASSUME NEW n \in 0 .. Len(Schedule)
  PROVE  \E g : Sums(g, n)
<1> DEFINE Bad == {k \in 0 .. Len(Schedule) : ~ \E g : Sums(g, k)}
<1>1. Bad \in SUBSET Nat
  BY Segments
<1> SUFFICES ASSUME Bad # {}
             PROVE  FALSE
  OBVIOUS
<1>2. PICK m \in Bad : \A k \in Bad : m <= k
  <2> HIDE DEF Bad
  <2> QED BY <1>1, LeastOf
<1>3. m # 0
  <2> DEFINE z == [k \in 0 .. 0 |-> 0]
  <2>1. Sums(z, 0)
    BY DEF Sums
  <2> QED BY <2>1
<1>4. m \in Nat \ {0} /\ m - 1 \in 0 .. Len(Schedule) /\ m \in 1 .. Len(Schedule) /\ m - 1 \notin Bad
  <2>1. m \in 0 .. Len(Schedule) /\ Len(Schedule) \in Nat
    BY Segments
  <2>2. m \in Nat /\ m - 1 \in 0 .. Len(Schedule) /\ m \in 1 .. Len(Schedule)
    BY <1>3, <2>1
  <2>3. m - 1 \notin Bad
    <3> HIDE DEF Bad
    <3>1. ~(m <= m - 1)
      BY <2>2
    <3> QED BY <1>2, <3>1
  <2> QED BY <1>3, <2>2, <2>3
<1>5. PICK g : Sums(g, m - 1)
  BY <1>4
<1> DEFINE h == [k \in 0 .. m |-> IF k = m THEN g[m - 1] + Schedule[m].time ELSE g[k]]
<1>6. g[m - 1] \in Nat /\ Schedule[m].time \in Nat
  BY <1>4, <1>5, Segments DEF Sums
<1>7. \A k \in 0 .. m - 1 : h[k] = g[k] /\ g[k] \in Nat
                            /\ g[k] = IF k = 0 THEN 0 ELSE g[k - 1] + Schedule[k].time
  <2>1. ASSUME NEW k \in 0 .. m - 1
        PROVE  h[k] = g[k]
    BY <1>4
  <2>2. ASSUME NEW k \in 0 .. m - 1
        PROVE  g[k] \in Nat /\ g[k] = IF k = 0 THEN 0 ELSE g[k - 1] + Schedule[k].time
    <3>1. g = [j \in 0 .. m - 1 |-> IF j = 0 THEN 0 ELSE g[j - 1] + Schedule[j].time]
      BY <1>5, Zenon DEF Sums
    <3>2. g[k] = [j \in 0 .. m - 1 |-> IF j = 0 THEN 0 ELSE g[j - 1] + Schedule[j].time][k]
      BY <3>1, Zenon
    <3> QED BY <1>5, <3>2 DEF Sums
  <2> QED BY <2>1, <2>2
<1>8. h[m] = h[m - 1] + Schedule[m].time /\ h[m] \in Nat
  BY <1>4, <1>6
<1>9. \A k \in 0 .. m : h[k] \in Nat /\ h[k] = IF k = 0 THEN 0 ELSE h[k - 1] + Schedule[k].time
  <2> SUFFICES ASSUME NEW k \in 0 .. m
               PROVE  h[k] \in Nat /\ h[k] = IF k = 0 THEN 0 ELSE h[k - 1] + Schedule[k].time
    OBVIOUS
  <2>1. CASE k = m
    <3> HIDE DEF h
    <3> QED BY <1>4, <1>8, <2>1
  <2>2. CASE k # m
    <3>1. k \in 0 .. m - 1 /\ (k # 0 => k - 1 \in 0 .. m - 1)
      BY <1>4, <2>2
    <3> HIDE DEF h
    <3> QED BY <1>7, <3>1
  <2> QED BY <2>1, <2>2
<1>10. h = [k \in 0 .. m |-> h[k]]
  OBVIOUS
<1> HIDE DEF h
<1>11. [k \in 0 .. m |-> h[k]] = [k \in 0 .. m |-> IF k = 0 THEN 0 ELSE h[k - 1] + Schedule[k].time]
  BY <1>9
<1>12. Sums(h, m)
  <2>1. h = [k \in 0 .. m |-> IF k = 0 THEN 0 ELSE h[k - 1] + Schedule[k].time]
    BY <1>10, <1>11, Zenon
  <2> QED BY <1>9, <2>1 DEF Sums
<1> QED
  BY <1>2, <1>12

(* The ends of the schedule are such.                                          *)
LEMMA EndsAreSums ==
  /\ \A k \in 0 .. Len(Schedule) : Survey!Ends[k] \in Nat
  /\ Survey!Ends[0] = 0
<1>1. Len(Schedule) \in Nat
  BY Segments
<1>2. PICK g : Sums(g, Len(Schedule))
  BY <1>1, SumsExist
<1>3. g = [k \in 0 .. Len(Schedule) |-> IF k = 0 THEN 0 ELSE g[k - 1] + Schedule[k].time]
  BY <1>2, Zenon DEF Sums
<1>4. Survey!Ends = [k \in 0 .. Len(Schedule) |->
                       IF k = 0 THEN 0 ELSE Survey!Ends[k - 1] + Schedule[k].time]
  BY <1>3, Zenon DEF Survey!Ends
<1> DEFINE e == Survey!Ends
<1>5. \A k \in 0 .. Len(Schedule) : e[k] = IF k = 0 THEN 0 ELSE e[k - 1] + Schedule[k].time
  <2> SUFFICES ASSUME NEW k \in 0 .. Len(Schedule)
               PROVE  e[k] = IF k = 0 THEN 0 ELSE e[k - 1] + Schedule[k].time
    OBVIOUS
  <2>1. e[k] = [j \in 0 .. Len(Schedule) |-> IF j = 0 THEN 0 ELSE e[j - 1] + Schedule[j].time][k]
    BY <1>4, Zenon
  <2> HIDE DEF e
  <2> QED BY <2>1
<1> HIDE DEF e
<1> DEFINE Bad == {k \in 0 .. Len(Schedule) : e[k] \notin Nat}
<1>6. Bad = {}
  <2> SUFFICES ASSUME Bad # {}
               PROVE  FALSE
    OBVIOUS
  <2>1. Bad \in SUBSET Nat
    BY <1>1
  <2>2. PICK m \in Bad : \A k \in Bad : m <= k
    <3> HIDE DEF Bad
    <3> QED BY <2>1, LeastOf
  <2>3. m \in 0 .. Len(Schedule) /\ m \in Nat /\ e[m] \notin Nat
    BY <1>1
  <2>4. m # 0
    BY <1>5, <2>3
  <2>5. m - 1 \in 0 .. Len(Schedule) /\ m - 1 \notin Bad /\ m \in 1 .. Len(Schedule)
    BY <1>1, <2>2, <2>3, <2>4
  <2>6. e[m - 1] \in Nat /\ Schedule[m].time \in Nat
    BY <2>5, Segments
  <2> QED BY <1>5, <2>3, <2>4, <2>6
<1> QED
  BY <1>1, <1>5, <1>6 DEF e

(* A time of the schedule is in a segment, and the setpoint is a point.            *)
LEMMA PointIsAPoint ==
  ASSUME NEW t \in Int
  PROVE  Survey!SchedulePoint(t) \in Int
<1>1. Len(Schedule) \in Nat \ {0} /\ Survey!ScheduleDuration \in Nat
  BY Segments, EndsAreSums DEF Survey!ScheduleDuration
<1>2. CASE t > Survey!ScheduleDuration
  <2>1. Schedule[Len(Schedule)].to \in Int
    BY <1>1, Segments
  <2> QED BY <1>2, <2>1 DEF Survey!SchedulePoint
<1>3. CASE ~(t > Survey!ScheduleDuration)
  <2> DEFINE Later == {k \in 1 .. Len(Schedule) : t <= Survey!Ends[k]}
  <2>1. Len(Schedule) \in Later /\ Later \in SUBSET Nat
    BY <1>1, <1>3 DEF Survey!ScheduleDuration
  <2>2. PICK m \in Later : \A k \in Later : m <= k
    <3> HIDE DEF Later
    <3> QED BY <2>1, LeastOf
  <2>3. m \in 1 .. Len(Schedule) /\ t <= Survey!Ends[m] /\ (m = 1 \/ t > Survey!Ends[m - 1])
    <3>1. m \in 1 .. Len(Schedule) /\ m \in Nat /\ t <= Survey!Ends[m]
      BY <1>1
    <3>2. CASE m # 1
      <4>1. m - 1 \in 1 .. Len(Schedule) /\ m - 1 \notin Later /\ m - 1 \in 0 .. Len(Schedule)
        BY <1>1, <2>2, <3>1, <3>2
      <4>2. Survey!Ends[m - 1] \in Nat
        BY <4>1, EndsAreSums
      <4> QED BY <3>1, <4>1, <4>2
    <3> QED BY <3>1, <3>2
  <2> DEFINE k == Survey!Segment(t)
  <2>4. k \in 1 .. Len(Schedule)
    BY <2>3 DEF Survey!Segment
  <2> HIDE DEF k
  <2>5. k - 1 \in 0 .. Len(Schedule) /\ (k # 1 => k - 1 \in 1 .. Len(Schedule))
    BY <1>1, <2>4
  <2> DEFINE from == Survey!From(k)
             time == Schedule[k].time
             product == (Schedule[k].to - from) * (t - Survey!Ends[k - 1])
  <2>6. from \in Int /\ Schedule[k].to \in Int /\ time \in Nat /\ Survey!Ends[k - 1] \in Int
    BY <2>4, <2>5, Segments, EndsAreSums DEF Survey!From
  <2>7. product \in Int
    <3>1. Schedule[k].to - from \in Int /\ t - Survey!Ends[k - 1] \in Int
      BY <2>6
    <3> QED BY <3>1
  <2>8. Survey!SchedulePoint(t) = IF time = 0 THEN Schedule[k].to ELSE from + product \div time
    BY <1>3 DEF Survey!SchedulePoint, k
  <2> HIDE DEF product, time, from
  <2>9. time # 0 => product \div time \in Int
    BY <2>6, <2>7
  <2> QED BY <2>6, <2>8, <2>9
<1> QED
  BY <1>2, <1>3

(* What the node keeps, and its setpoint: it has a schedule or a point of it only when  *)
(* it has climbed and turned, which it never undoes.                              *)
FlightIs(f) ==
  /\ f \in Survey!Flight
  /\ f.gate \in -1 .. Survey!ScheduleDuration + 1 /\ f.home \in -1 .. ToHomeTime
  /\ f.gate # -1 => f.climbed /\ f.aligned
Onward(f) == (flight.climbed => f.climbed) /\ (flight.aligned => f.aligned)
SurveyKeeps ==
  /\ profile \in [align : BOOLEAN, auto_start : BOOLEAN]
  /\ FlightIs(flight)
  /\ frame \in [launch : Int, anchor : Int, climbed_at : Int]
  /\ target \in Int /\ (target # 0 => flight.climbed /\ flight.aligned)
  /\ inbox \subseteq {"begin", "end"} /\ now_ticked \in BOOLEAN
  /\ spent \in [resets : 0 .. MaxFrameResets, gusts : 0 .. MaxGusts]

LEMMA SurveyNumbers ==
  /\ Survey!ScheduleDuration \in Nat /\ ToHomeTime \in Nat
  /\ MaxFrameResets \in Nat /\ MaxGusts \in Nat /\ Survey!NotYet = -1
BY Segments, EndsAreSums, SurveyConstants DEF Survey!ScheduleDuration, Survey!NotYet

LEMMA SurveyStarts ==
  Survey!Init => SurveyKeeps
<1> SUFFICES ASSUME Survey!Init
             PROVE  SurveyKeeps
  OBVIOUS
<1>1. profile \in [align : BOOLEAN, auto_start : BOOLEAN] /\ target = 0 /\ inbox = {} /\ now_ticked = FALSE
  BY DEF Survey!Init
<1>2. PICK aligned \in BOOLEAN : aligned = ~profile.align
  BY <1>1
<1>3. flight = [life |-> "idle", climbed |-> FALSE, aligned |-> aligned, turning |-> FALSE,
                gate |-> -1, homing |-> FALSE, home |-> -1, home_from |-> 0,
                settling |-> FALSE, land |-> FALSE]
  BY <1>2 DEF Survey!Init, Survey!NotYet
<1>4. FlightIs(flight)
  BY <1>3, SurveyNumbers DEF FlightIs, Survey!Flight
<1>5. frame \in [launch : Int, anchor : Int, climbed_at : Int]
      /\ spent \in [resets : 0 .. MaxFrameResets, gusts : 0 .. MaxGusts]
  BY SurveyNumbers DEF Survey!Init
<1>6. target \in Int /\ (target # 0 => flight.climbed /\ flight.aligned)
      /\ inbox \subseteq {"begin", "end"}
  BY <1>1
<1>7. now_ticked \in BOOLEAN
  BY <1>1, Zenon
<1> QED
  BY <1>1, <1>4, <1>5, <1>6, <1>7 DEF SurveyKeeps

(* The operations on what it keeps.                                             *)
LEMMA GateOpens ==
  ASSUME NEW f, FlightIs(f)
  PROVE  LET g == Survey!GateCb(f)
         IN FlightIs(g) /\ g.climbed = f.climbed /\ g.aligned = f.aligned
<1>1. CASE f.gate = -1 /\ ~f.homing /\ f.climbed /\ f.aligned
  <2>1. PICK g : g = [f EXCEPT !.gate = 0]
    OBVIOUS
  <2>2. f \in Survey!Flight /\ 0 \in Int /\ 0 \in -1 .. Survey!ScheduleDuration + 1
    BY SurveyNumbers DEF FlightIs
  <2>3. g \in Survey!Flight /\ g.gate = 0 /\ g.home = f.home /\ g.climbed = f.climbed /\ g.aligned = f.aligned
    BY <2>1, <2>2 DEF Survey!Flight
  <2>4. FlightIs(g)
    BY <1>1, <2>2, <2>3 DEF FlightIs
  <2>5. Survey!GateCb(f) = g
    BY <1>1, <2>1, SurveyNumbers DEF Survey!GateCb
  <2> QED BY <2>3, <2>4, <2>5
<1>2. CASE ~(f.gate = -1 /\ ~f.homing /\ f.climbed /\ f.aligned)
  BY <1>2, SurveyNumbers DEF Survey!GateCb
<1> QED
  BY <1>1, <1>2

LEMMA AutoStartOpens ==
  ASSUME NEW f, FlightIs(f), f.climbed
  PROVE  LET g == Survey!AutoStarts(f)
         IN FlightIs(g) /\ g.climbed = f.climbed /\ g.aligned = f.aligned
<1>1. CASE profile.auto_start /\ f.aligned /\ f.gate = -1
  <2>1. PICK g : g = [f EXCEPT !.gate = 0]
    OBVIOUS
  <2>2. f \in Survey!Flight /\ 0 \in Int /\ 0 \in -1 .. Survey!ScheduleDuration + 1
    BY SurveyNumbers DEF FlightIs
  <2>3. g \in Survey!Flight /\ g.gate = 0 /\ g.home = f.home /\ g.climbed = f.climbed /\ g.aligned = f.aligned
    BY <2>1, <2>2 DEF Survey!Flight
  <2>4. FlightIs(g)
    BY <1>1, <2>2, <2>3 DEF FlightIs
  <2>5. Survey!AutoStarts(f) = g
    BY <1>1, <2>1, SurveyNumbers DEF Survey!AutoStarts
  <2> QED BY <2>3, <2>4, <2>5
<1>2. CASE ~(profile.auto_start /\ f.aligned /\ f.gate = -1)
  BY <1>2, SurveyNumbers DEF Survey!AutoStarts
<1> QED
  BY <1>1, <1>2

LEMMA FlagsChange ==
  ASSUME NEW f, FlightIs(f), NEW b \in BOOLEAN, NEW c \in BOOLEAN
  PROVE  /\ FlightIs([f EXCEPT !.homing = b]) /\ FlightIs([f EXCEPT !.land = b])
         /\ FlightIs([f EXCEPT !.turning = b]) /\ FlightIs([f EXCEPT !.settling = b, !.land = c])
         /\ \A l \in {"idle", "active", "gone"} : FlightIs([f EXCEPT !.life = l])
         /\ FlightIs([f EXCEPT !.climbed = TRUE]) /\ FlightIs([f EXCEPT !.aligned = TRUE])
BY DEF FlightIs, Survey!Flight

LEMMA NominalIsAPoint ==
  ASSUME NEW f, FlightIs(f)
  PROVE  Survey!CurrentNominal(f) \in Int
<1>1. f.gate \in Int /\ Survey!ScheduleDuration + 1 \in Int
  BY SurveyNumbers DEF FlightIs
<1> QED
  BY <1>1, PointIsAPoint DEF Survey!CurrentNominal

LEMMA ReturnsHome ==
  ASSUME NEW f, FlightIs(f)
  PROVE  LET g == Survey!OnReturnHome(f)
         IN FlightIs(g) /\ g.climbed = f.climbed /\ g.aligned = f.aligned
<1>1. CASE ~f.climbed
  <2>1. Survey!OnReturnHome(f) = [f EXCEPT !.land = TRUE]
    BY <1>1 DEF Survey!OnReturnHome
  <2>2. [f EXCEPT !.land = TRUE].climbed = f.climbed /\ [f EXCEPT !.land = TRUE].aligned = f.aligned
    BY DEF FlightIs, Survey!Flight
  <2> QED BY <2>1, <2>2, FlagsChange
<1>2. CASE f.climbed
  <2>1. PICK p \in Int : p = Survey!CurrentNominal(f)
    BY NominalIsAPoint
  <2>2. PICK g : g = [f EXCEPT !.home = 0, !.home_from = p]
    OBVIOUS
  <2>3. Survey!OnReturnHome(f) = g
    BY <1>2, <2>1, <2>2 DEF Survey!OnReturnHome
  <2>4. f \in Survey!Flight /\ 0 \in Int /\ 0 \in -1 .. ToHomeTime
    BY SurveyNumbers DEF FlightIs
  <2>5. /\ g \in Survey!Flight /\ g.gate = f.gate /\ g.home = 0
        /\ g.climbed = f.climbed /\ g.aligned = f.aligned
    BY <2>1, <2>2, <2>4 DEF Survey!Flight
  <2> QED BY <2>3, <2>4, <2>5 DEF FlightIs
<1> QED
  BY <1>1, <1>2

(* A setpoint is given.                                                       *)
LEMMA Emits ==
  ASSUME SurveyKeeps, NEW f, NEW point \in Int, Survey!Emit(f, point), FlightIs(f), Onward(f),
         point # 0 => f.climbed /\ f.aligned,
         frame' \in [launch : Int, anchor : Int, climbed_at : Int]
  PROVE  SurveyKeeps'
<1>1. /\ flight' = f /\ target' = point /\ now_ticked' = TRUE /\ UNCHANGED <<profile, inbox>>
  BY DEF Survey!Emit
<1>2. spent' \in [resets : 0 .. MaxFrameResets, gusts : 0 .. MaxGusts]
  <2>1. spent \in [resets : 0 .. MaxFrameResets, gusts : 0 .. MaxGusts] /\ MaxGusts \in Nat
    BY SurveyNumbers DEF SurveyKeeps
  <2>2. spent' = spent \/ (spent.gusts < MaxGusts /\ spent' = [spent EXCEPT !.gusts = @ + 1])
    BY DEF Survey!Emit
  <2> QED BY <2>1, <2>2
<1>3. FlightIs(flight)'
  BY <1>1 DEF FlightIs
<1>4. target' \in Int /\ (target' # 0 => flight'.climbed /\ flight'.aligned) /\ now_ticked' \in BOOLEAN
  BY <1>1
<1> QED
  BY <1>1, <1>2, <1>3, <1>4 DEF SurveyKeeps

(* What the node keeps changes, and the setpoint does not.                        *)
LEMMA Notes ==
  ASSUME SurveyKeeps, UNCHANGED <<profile, frame, target, spent>>, FlightIs(flight'), Onward(flight'),
         inbox' \subseteq {"begin", "end"}, now_ticked' \in BOOLEAN
  PROVE  SurveyKeeps'
<1>1. FlightIs(flight)'
  BY DEF FlightIs
<1> QED
  BY <1>1 DEF SurveyKeeps, Onward

LEMMA CallbacksKeep ==
  ASSUME SurveyKeeps,
         Survey!Operator \/ Survey!BeginArrives \/ Survey!EndArrives \/ Survey!Activates \/ Survey!HandsOver
  PROVE  SurveyKeeps'
<1>0. FlightIs(flight) /\ inbox \subseteq {"begin", "end"} /\ now_ticked \in BOOLEAN /\ flight \in Survey!Flight
  BY DEF SurveyKeeps, FlightIs
<1>1. CASE Survey!Operator
  <2>1. UNCHANGED <<profile, flight, frame, target, now_ticked, spent>> /\ inbox' \subseteq {"begin", "end"}
    BY <1>0, <1>1 DEF Survey!Operator, Survey!Publish
  <2> QED BY <1>0, <2>1, Notes DEF Onward
<1>2. CASE Survey!BeginArrives
  <2>1. /\ flight' = Survey!GateCb(flight) /\ inbox' \subseteq {"begin", "end"}
        /\ UNCHANGED <<profile, frame, target, now_ticked, spent>>
    BY <1>0, <1>2 DEF Survey!BeginArrives
  <2>2. FlightIs(flight') /\ Onward(flight')
    BY <1>0, <2>1, GateOpens DEF Onward
  <2> QED BY <1>0, <2>1, <2>2, Notes
<1>3. CASE Survey!EndArrives
  <2>1. /\ inbox' \subseteq {"begin", "end"} /\ UNCHANGED <<profile, frame, target, now_ticked, spent>>
        /\ flight' = flight \/ flight' = Survey!OnReturnHome([flight EXCEPT !.homing = TRUE])
    BY <1>0, <1>3 DEF Survey!EndArrives
  <2>2. PICK f : f = [flight EXCEPT !.homing = TRUE]
    OBVIOUS
  <2>3. FlightIs(f) /\ f.climbed = flight.climbed /\ f.aligned = flight.aligned
    BY <1>0, <2>2, FlagsChange DEF Survey!Flight
  <2>4. FlightIs(flight') /\ Onward(flight')
    BY <1>0, <2>1, <2>2, <2>3, ReturnsHome DEF Onward
  <2> QED BY <1>0, <2>1, <2>4, Notes
<1>4. CASE Survey!Activates \/ Survey!HandsOver
  <2>1. PICK l \in {"idle", "active", "gone"} : flight' = [flight EXCEPT !.life = l]
    BY <1>4 DEF Survey!Activates, Survey!HandsOver
  <2>2. UNCHANGED <<profile, frame, target, inbox, now_ticked, spent>>
    BY <1>4 DEF Survey!Activates, Survey!HandsOver
  <2>3. FlightIs(flight') /\ Onward(flight')
    BY <1>0, <2>1, FlagsChange DEF Onward, Survey!Flight
  <2> QED BY <1>0, <2>2, <2>3, Notes
<1> QED
  BY <1>1, <1>2, <1>3, <1>4

LEMMA FrameResetsKeep ==
  ASSUME SurveyKeeps, Survey!FrameResets
  PROVE  SurveyKeeps'
<1>1. /\ spent.resets < MaxFrameResets /\ spent' = [spent EXCEPT !.resets = @ + 1]
      /\ UNCHANGED <<profile, flight, target, inbox, now_ticked>>
  BY DEF Survey!FrameResets
<1>2. PICK shift \in FrameShifts :
        frame' = [frame EXCEPT !.launch = @ + shift, !.climbed_at = @ + shift]
  BY DEF Survey!FrameResets
<1>3. frame' \in [launch : Int, anchor : Int, climbed_at : Int]
  <2>1. frame \in [launch : Int, anchor : Int, climbed_at : Int] /\ shift \in Int
    BY SurveyConstants DEF SurveyKeeps
  <2>2. PICK l \in Int, c \in Int : l = frame.launch + shift /\ c = frame.climbed_at + shift
    BY <2>1
  <2>3. frame' = [frame EXCEPT !.launch = l, !.climbed_at = c]
    BY <1>2, <2>2
  <2> QED BY <2>1, <2>2, <2>3
<1>4. spent' \in [resets : 0 .. MaxFrameResets, gusts : 0 .. MaxGusts]
  BY <1>1, SurveyNumbers DEF SurveyKeeps
<1> QED
  BY <1>1, <1>3, <1>4 DEF SurveyKeeps, FlightIs

(* compute_setpoint.                                                        *)
LEMMA ClimbKeeps ==
  ASSUME SurveyKeeps, Survey!Climb
  PROVE  SurveyKeeps'
<1>0. FlightIs(flight) /\ ~flight.climbed /\ flight \in Survey!Flight
  BY DEF SurveyKeeps, FlightIs, Survey!Climb
<1>1. frame' \in [launch : Int, anchor : Int, climbed_at : Int]
  <2>1. PICK o \in ClimbDrift :
          frame' = [frame EXCEPT !.anchor = frame.launch + o, !.climbed_at = frame.launch + o]
    BY DEF Survey!Climb
  <2>2. frame \in [launch : Int, anchor : Int, climbed_at : Int] /\ o \in Int
    BY SurveyConstants DEF SurveyKeeps
  <2>3. PICK here \in Int : here = frame.launch + o
    BY <2>2
  <2>4. frame' = [frame EXCEPT !.anchor = here, !.climbed_at = here]
    BY <2>1, <2>3
  <2> QED BY <2>2, <2>3, <2>4
<1>2. PICK up \in BOOLEAN :
        Survey!Emit(IF up THEN Survey!AutoStarts([flight EXCEPT !.climbed = TRUE]) ELSE flight, 0)
  BY DEF Survey!Climb
<1>3. PICK f : f = [flight EXCEPT !.climbed = TRUE]
  OBVIOUS
<1>4. FlightIs(f) /\ f.climbed /\ f.aligned = flight.aligned
  BY <1>0, <1>3, FlagsChange DEF Survey!Flight
<1>5. PICK g : g = IF up THEN Survey!AutoStarts(f) ELSE flight
  OBVIOUS
<1>6. FlightIs(g) /\ Onward(g)
  BY <1>0, <1>4, <1>5, AutoStartOpens DEF Onward
<1>7. Survey!Emit(g, 0)
  BY <1>2, <1>3, <1>5
<1> QED
  BY <1>1, <1>6, <1>7, Emits

LEMMA TurnsKeeps ==
  ASSUME SurveyKeeps, Survey!Turns
  PROVE  SurveyKeeps'
<1>0. FlightIs(flight) /\ flight.climbed /\ flight \in Survey!Flight /\ frame' = frame
  BY DEF SurveyKeeps, FlightIs, Survey!Turns
<1>1. PICK turned \in BOOLEAN, through \in BOOLEAN :
        Survey!Emit(IF turned /\ flight.turning /\ through
                      THEN Survey!AutoStarts([flight EXCEPT !.aligned = TRUE])
                      ELSE [flight EXCEPT !.turning = turned], 0)
  BY DEF Survey!Turns
<1>2. PICK f : f = [flight EXCEPT !.aligned = TRUE]
  OBVIOUS
<1>3. FlightIs(f) /\ f.climbed /\ f.aligned
  BY <1>0, <1>2, FlagsChange DEF Survey!Flight
<1>4. PICK h : h = [flight EXCEPT !.turning = turned]
  OBVIOUS
<1>5. FlightIs(h) /\ h.climbed /\ h.aligned = flight.aligned
  BY <1>0, <1>4, FlagsChange DEF Survey!Flight
<1>6. PICK g : g = IF turned /\ flight.turning /\ through THEN Survey!AutoStarts(f) ELSE h
  OBVIOUS
<1>7. FlightIs(g) /\ Onward(g)
  BY <1>3, <1>5, <1>6, AutoStartOpens DEF Onward
<1>8. Survey!Emit(g, 0)
  BY <1>1, <1>2, <1>4, <1>6
<1>9. frame' \in [launch : Int, anchor : Int, climbed_at : Int]
  BY <1>0 DEF SurveyKeeps
<1> QED
  BY <1>7, <1>8, <1>9, Emits

LEMMA SettlesAndLands ==
  ASSUME FlightIs(flight), flight.climbed, flight.aligned, NEW rests \in BOOLEAN, NEW through \in BOOLEAN
  PROVE  LET g == Survey!SettleAndLand(flight, rests, through)
         IN FlightIs(g) /\ g.climbed /\ g.aligned
<1>1. PICK l \in BOOLEAN : l = (flight.land \/ (rests /\ flight.settling /\ through))
  BY DEF FlightIs, Survey!Flight
<1>2. PICK g : g = [flight EXCEPT !.settling = rests, !.land = l]
  OBVIOUS
<1>3. Survey!SettleAndLand(flight, rests, through) = g
  BY <1>1, <1>2 DEF Survey!SettleAndLand
<1>4. FlightIs(g)
  BY <1>2, FlagsChange
<1>5. g.climbed /\ g.aligned
  BY <1>2 DEF FlightIs, Survey!Flight
<1> QED
  BY <1>3, <1>4, <1>5

LEMMA FliesKeeps ==
  ASSUME SurveyKeeps, Survey!FliesHome \/ Survey!FliesSchedule \/ Survey!Holds
  PROVE  SurveyKeeps'
<1>0. FlightIs(flight) /\ flight.climbed /\ flight.aligned /\ frame' = frame
  BY DEF SurveyKeeps, Survey!FliesHome, Survey!FliesSchedule, Survey!Holds
<1>1. frame' \in [launch : Int, anchor : Int, climbed_at : Int]
  BY <1>0 DEF SurveyKeeps
<1>2. CASE Survey!Holds
  BY <1>0, <1>1, <1>2, Emits DEF Survey!Holds, Onward
<1>3. CASE Survey!FliesHome
  <2>1. PICK rests \in BOOLEAN, through \in BOOLEAN :
          Survey!Emit(IF flight.home >= ToHomeTime
                        THEN Survey!SettleAndLand(flight, rests, through) ELSE flight,
                      Survey!HomePoint(flight))
    BY <1>3 DEF Survey!FliesHome
  <2>2. PICK g : g = IF flight.home >= ToHomeTime
                       THEN Survey!SettleAndLand(flight, rests, through) ELSE flight
    OBVIOUS
  <2>3. FlightIs(g) /\ g.climbed /\ g.aligned
    BY <1>0, <2>2, SettlesAndLands
  <2>4. PICK p \in Int : p = Survey!HomePoint(flight)
    <3>1. flight.home \in Nat /\ flight.home_from \in Int /\ ToHomeTime \in Nat
      BY <1>0, <1>3, SurveyNumbers DEF Survey!FliesHome, FlightIs, Survey!Flight
    <3> DEFINE product == flight.home_from * (ToHomeTime - flight.home)
    <3>2. product \in Int
      <4>1. ToHomeTime - flight.home \in Int
        BY <3>1
      <4> QED BY <3>1, <4>1
    <3>3. Survey!HomePoint(flight) = IF flight.home >= ToHomeTime THEN 0 ELSE product \div ToHomeTime
      BY DEF Survey!HomePoint
    <3> HIDE DEF product
    <3>4. flight.home < ToHomeTime => product \div ToHomeTime \in Int
      BY <3>1, <3>2
    <3> QED BY <3>1, <3>3, <3>4
  <2>5. Survey!Emit(g, p)
    BY <2>1, <2>2, <2>4
  <2> QED BY <1>1, <2>3, <2>5, Emits DEF Onward
<1>4. CASE Survey!FliesSchedule
  <2>1. PICK rests \in BOOLEAN, through \in BOOLEAN :
          Survey!Emit(IF flight.gate > Survey!ScheduleDuration
                        THEN Survey!SettleAndLand(flight, rests, through) ELSE flight,
                      Survey!SchedulePoint(flight.gate))
    BY <1>4 DEF Survey!FliesSchedule
  <2>2. PICK g : g = IF flight.gate > Survey!ScheduleDuration
                       THEN Survey!SettleAndLand(flight, rests, through) ELSE flight
    OBVIOUS
  <2>3. FlightIs(g) /\ g.climbed /\ g.aligned
    BY <1>0, <2>2, SettlesAndLands
  <2>4. PICK p \in Int : p = Survey!SchedulePoint(flight.gate)
    <3>1. flight.gate \in Int
      BY <1>0 DEF FlightIs
    <3> QED BY <3>1, PointIsAPoint
  <2>5. Survey!Emit(g, p)
    BY <2>1, <2>2, <2>4
  <2> QED BY <1>1, <2>3, <2>5, Emits DEF Onward
<1> QED
  BY <1>2, <1>3, <1>4

LEMMA ClockKeeps ==
  ASSUME SurveyKeeps, Survey!Clock
  PROVE  SurveyKeeps'
<1>0. /\ FlightIs(flight) /\ flight \in Survey!Flight /\ inbox \subseteq {"begin", "end"}
      /\ UNCHANGED <<profile, frame, target, inbox, spent>> /\ now_ticked' \in BOOLEAN
  BY DEF SurveyKeeps, FlightIs, Survey!Clock
<1> DEFINE gate == IF flight.gate = -1 THEN -1
                   ELSE Survey!Min2(flight.gate + 1, Survey!ScheduleDuration + 1)
           home == IF flight.home = -1 THEN -1 ELSE Survey!Min2(flight.home + 1, ToHomeTime)
<1>1. gate \in -1 .. Survey!ScheduleDuration + 1 /\ (gate # -1 => flight.gate # -1)
  BY <1>0, SurveyNumbers DEF FlightIs, Survey!Min2
<1>2. home \in -1 .. ToHomeTime
  BY <1>0, SurveyNumbers DEF FlightIs, Survey!Min2
<1>3. flight' = [flight EXCEPT !.gate = gate, !.home = home]
  BY SurveyNumbers DEF Survey!Clock
<1>4. gate \in Int /\ home \in Int
  BY <1>1, <1>2, SurveyNumbers
<1> HIDE DEF gate, home
<1>5. PICK g \in Int, h \in Int : g = gate /\ h = home
  BY <1>4
<1>6. flight' = [flight EXCEPT !.gate = g, !.home = h]
  BY <1>3, <1>5
<1>7. /\ flight' \in Survey!Flight /\ flight'.gate = g /\ flight'.home = h
      /\ flight'.climbed = flight.climbed /\ flight'.aligned = flight.aligned
  BY <1>0, <1>6 DEF Survey!Flight
<1>8. FlightIs(flight') /\ Onward(flight')
  BY <1>0, <1>1, <1>2, <1>5, <1>7 DEF FlightIs, Onward
<1> QED
  BY <1>0, <1>8, Notes

(* Every step of the survey keeps the invariant, and none is its due.               *)
LEMMA SurveyStep ==
  ASSUME SurveyKeeps, Survey!Next \/ UNCHANGED surveyVars
  PROVE  SurveyKeeps'
<1>1. CASE UNCHANGED surveyVars
  BY <1>1 DEF SurveyKeeps, FlightIs, surveyVars
<1> QED
  BY <1>1, CallbacksKeep, FrameResetsKeep, ClimbKeeps, TurnsKeeps, FliesKeeps, ClockKeeps
  DEF Survey!Next

-----------------------------------------------------------------------------
(* The rest of the executables: whatever runs, these two run or rest.               *)

(* At rest the invariants hold.                                                *)
LEMMA RestingKeeps ==
  /\ SurveyRests => SurveyKeeps
  /\ BenchRests => BenchKeeps
<1>1. SurveyRests => SurveyKeeps
  <2> SUFFICES ASSUME SurveyRests
               PROVE  SurveyKeeps
    OBVIOUS
  <2>1. FlightIs(flight)
    BY SurveyNumbers DEF SurveyRests, FlightIs, Survey!Flight
  <2>2. /\ profile \in [align : BOOLEAN, auto_start : BOOLEAN]
        /\ frame \in [launch : Int, anchor : Int, climbed_at : Int]
        /\ spent \in [resets : 0 .. MaxFrameResets, gusts : 0 .. MaxGusts]
    BY SurveyNumbers DEF SurveyRests
  <2>3. target = 0 /\ inbox = {} /\ now_ticked \in BOOLEAN
    BY DEF SurveyRests
  <2> QED BY <2>1, <2>2, <2>3 DEF SurveyKeeps
<1>2. BenchRests => BenchKeeps
  <2> SUFFICES ASSUME BenchRests
               PROVE  BenchKeeps
    OBVIOUS
  <2>1. MaxCommands \in Nat /\ MaxSurprises \in Nat
    BY BenchConstants
  <2>2. queued \in Seq(Orders) /\ Len(queued) = 0
    BY DEF BenchRests
  <2>3. NoArm(queued) /\ OneArm(queued)
    BY <2>2 DEF NoArm, OneArm
  <2>4. Bench!OnThePad \in Bench!Statuses /\ ~Bench!OnThePad.armed
    BY DEF Bench!OnThePad, Bench!Statuses
  <2>5. mission \in [state : Bench!States, start : BOOLEAN, attempted : BOOLEAN, held : BOOLEAN]
        /\ due \in [state : BOOLEAN, again : BOOLEAN]
    BY DEF BenchRests, Bench!States
  <2>6. seen \in [status : Bench!Statuses, known : BOOLEAN, fresh : BOOLEAN] /\ autopilot \in Bench!Statuses
    BY <2>4 DEF BenchRests
  <2>7. motors = "nothing" /\ arms = 0 /\ surprises = 0 /\ mission.state = "done" /\ ~mission.held
        /\ ~seen.fresh /\ autopilot = Bench!OnThePad
    BY DEF BenchRests
  <2>8. BenchTypes
    BY <2>1, <2>2, <2>5, <2>6, <2>7 DEF BenchTypes, Bench!TypeOK, Orders
  <2>9. OneShot /\ SeesTheMotors
    BY <2>3, <2>4, <2>7 DEF OneShot, SeesTheMotors, Bench!Running, Bench!Cleanup
  <2> QED BY <2>8, <2>9 DEF BenchKeeps
<1> QED
  BY <1>1, <1>2

(* For any schedule, drift, gusts and resets survey_mission.py flies no point of its     *)
(* schedule before the drone has climbed and turned; for any refusals, stale statuses and   *)
(* interference prop_idle_dummy_mission.py arms at most once, after a start, and once it     *)
(* has held the motors armed it ends with them disarmed.                             *)
THEOREM MissionsHold == MCSpec => []MissionsInv
<1> DEFINE Keeps == SurveyKeeps /\ BenchKeeps
<1>1. MCInit => Keeps
  BY SurveyStarts, BenchStarts, RestingKeeps DEF MCInit
<1>2. Keeps /\ [MCNext]_allVars => Keeps'
  <2> SUFFICES ASSUME Keeps, [MCNext]_allVars
               PROVE  Keeps'
    OBVIOUS
  <2>1. /\ Survey!Next \/ UNCHANGED surveyVars
        /\ Bench!Next \/ UNCHANGED benchVars
    BY DEF MCNext, allVars, CoreAlone, AnyAlone, SurveyAlone, BenchAlone
  <2> QED BY <2>1, SurveyStep, BenchStep
<1>3. Keeps => MissionsInv
  <2> SUFFICES ASSUME Keeps
               PROVE  MissionsInv
    OBVIOUS
  <2>1. Survey!TypeOK
    <3>1. spent.resets \in 0 .. MaxFrameResets /\ spent.gusts \in 0 .. MaxGusts
      BY DEF SurveyKeeps
    <3> QED BY <3>1, SurveyNumbers DEF SurveyKeeps, FlightIs, Survey!TypeOK
  <2>2. Survey!StartsReady
    BY SurveyNumbers DEF SurveyKeeps, FlightIs, Survey!StartsReady
  <2>3. Bench!TypeOK /\ Bench!ArmsOnce
    BY DEF BenchKeeps, BenchTypes, OneShot, Bench!ArmsOnce
  <2>4. Bench!ExitsDisarmed
    BY DEF BenchKeeps, SeesTheMotors, Bench!ExitsDisarmed
  <2> QED BY <2>1, <2>2, <2>3, <2>4 DEF MissionsInv
<1> QED
  BY <1>1, <1>2, <1>3, PTL DEF MCSpec
=============================================================================
