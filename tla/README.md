# A verification development of mission10

mission10 flies a small fleet of PX4 drones over a mine field: each drone climbs, flies
a survey pattern over ground tags and mines, keeps a log of the mines, comes home,
delivers the log and lands. Around that survey the repository has other flights (a
fleet orbiting a circle, a survey from a schedule, a motor bench test), the camera and
the processes that share its frames, the UWB radios the drones range and talk with, the
roles of manager and explorers with the search of a path through the mines, and the
annotation server of the detector's training data. This directory holds TLA+ models of
that control logic, the TLC configurations that check them on small instances, and TLAPS
proofs about them for every value of the constants.

All paths are relative to `src/`; `ME` stands for `ros/mission_engine/mission_engine`, `FI` for
`ros/flight_intelligent/flight_intelligent` and `SE` for `ros/sensing/sensing`.

## 1. The system

| component | state it keeps | operations | correct when |
|---|---|---|---|
| **Offboard controller** `ros/px4_offboard/px4_offboard/controller.py`, `gate_qos.py` | state of the handshake, latched gates, last VehicleStatus, launch datum | timer tick, gate, status and position callbacks, hand-offs to AUTO.LAND and AUTO.RTL | arms only when released and with a datum; keeps the OFFBOARD stream until PX4 has left the mode; an abort ends in an accepted landing; a hand-off is final |
| **Mission engine** `ME/core/mission.py`, `geometry.py` | phase, progress on lanes and petals, coverage, dip target, timers, guards, last reset counter | `start`, `tick`, `request_abort`, `note_*`, `notify_dump_result` | stages in order; coverage without gaps; fences hold; landings and departures from rest |
| **Engine node** `ME/rim/engine_node.py` | engine, `_begun`, `_dumped`, `_land_requested`, anchor | ROS callbacks, `compute_setpoint`, the dump over TCP | it delivers and lands what the engine has decided, in any interleaving of gates, detections and restarts |
| **Survey mission** `FI/survey_mission.py`, **bench test** `FI/prop_idle_dummy_mission.py` | schedule clock, frames; state of the timer, deadlines | hooks of the controller; callbacks and a timer of its own | no schedule before climb and turn; arms once, ends disarmed |
| **Phased orbits** `FI/phased_orbits_mission.py` | per drone: phase, anchor, home offset, orbit clock; what was heard of the others | the hooks of the controller, gates, UwbState | the hover line is built in order; home stays put through every re-anchoring; orbits end on a whole revolution |
| **Tag anchor** `ME/core/anchor.py` and its feeding in `engine_node.py` | datum and recent fixes of each tag, breach, slewed correction | `observe`, `disagreement`, `update`, `apply_frame_reset` | announced resets are no drift; the correction is kept and bounded |
| **Mine log, visibility, payload** `ME/core/minelog.py`, `visibility.py`, `dumpproto.py` | clusters, visits of cells | `ingest`, `next_dip_target`, `finalize`, queries | one cluster per mine, a pass for each visit, all of it in the payload |
| **Association** `ME/core/associate.py` | map of tracks | blind alignment, assignment with dummies | the matching is a cheapest one, known objects are recognised |
| **Tag EV bridge** `ME/rim/tag_ev.py` | references of the tags, registration | a picture's rows, arming | what PX4 is given as position is the position |
| **Frame pool** `SE/shared_frame_pool.py`, `frame_sinks.py` | ring of slots with generations and leases, queues of the sinks | reserve, commit, fan out, release; copy without a lease | a borrowed frame is stable, a copied frame is whole, no lease leaks |
| **Pool sessions** same file, `SE/mine_detector.py`, `SE/depth_monitor.py` | name, files and lock of a pool | claim, create, attach, probe, poll | one owner; readers get to the newest pool |
| **Sensing node** `SE/node.py`, `timebase.py`, `cm2_flow.py`, `cm2_svo_flow.py` | clock offset, sinks, state of the flow | capture loop, sinks, stop | no time counted twice in flow; ends when told |
| **Flight recorder** `tools/flight_recorder` | threads, bag | prepare, record, stop on disarm, take down | the bag is closed unless the take-down raises, one frame per period |
| **UWB gateway** `ros/uwb_gateway/uwb_gateway/gateway.py` with `uwb/dw1000/src/host_service.rs` | requested, target and applied fleet mode | service, reader, apply threads | all drones end on the newest mode |
| **UWB ranging** `uwb/protocol/src/{scheduler,ranging,air}.rs`, `uwb/dw1000`, `uwb/dwm3001` | schedule and backoff of each pair, state of the exchange | poll, response, final, report; deadlines, resets | a range is of one exchange and known to both ends; attempts are spaced |
| **DWM3001 host link** `uwb/dwm3001/src/host.rs`, `uwb/protocol/src/host.rs` | a slot per peer, two queues, schedule | radio, transmit and receive tasks | the newest exchange is never lost, control events have their turn |
| **Host framing** `uwb/protocol` (COBS, checksum) and its three receivers | receive buffer | encode, cut, discard, synchronise | nothing is received that was not sent; a fault costs a few frames |
| **Fleet roles** `drones/roles` | tables, buffers, threads of manager and explorers | TCP and UDP servers, heartbeat, finder, main | what is found is sent; the manager ends with the last |
| **Path through the mines** `drones/iarc_pathfinder.py` | grid, clearances, best path | `find_best_path` | the corridor is clear and the best there is |
| **Annotation server** `models/yolo/audit/annotation.py`, `labels.py` | label file | save, certify, replace the file | a certified document is complete |
| not modelled: UWB encodings, projection and visibility geometry, tag and mine detection, `rel_localization`, `ros/flight_lib`, `ros/jarvis_web`, simulation and bring-up, training, localization experiments | | | arithmetic on images and floats without protocol state, operator interface, offline batch programs |

Interactions. The engine node, the survey mission and the phased orbits *are* offboard
controllers (subclasses): one timer tick runs the controller's state machine and, in
ACTIVE, `compute_setpoint`, which ticks the mission and may latch the controller's abort flag to
land. All callbacks of a node share one executor thread. Operator gates are latched
topics. PX4 is reached by commands that it may reject and by a stream it watches. The
camera owner writes a ring of shared slots, leases them to worker threads of its own
process and lets other processes copy without a lease. The gateway has three threads
around one condition variable and talks to the radio service over a socket. The radios
share nothing but the air. Explorers talk to the manager over one TCP connection at a
time and over datagrams.

Hard behaviours: status read late and acted upon; rejected commands and retries; guards
that fire during the way home; a node restarted in the air; PX4 moving its frame under a
running estimate; torn copies; lease counts under eviction; answers to abandoned
exchanges; old broadcasts behind new requests; a write that fails half way; threads that
send and empty the same list; lost frames, full queues, broken sockets. `PROJECT.json` lists
them as hazards with their lines and the properties that would catch them.

## 2. Modules

| module | models | how it corresponds |
|---|---|---|
| `MissionEngine` | `ME/core/mission.py`, `geometry.py` | the object is a record, each method an operator from record to record; `Tick` = guards, handler of the phase, command fence |
| `MissionLifecycle` | the docstring's promise "takeoff -> survey -> egress -> dump -> settle -> land, abort from anywhere" | abstract specification over stage, aborted, delivered |
| `MissionCore` | the engine under any rim: any method at any moment, any sample at any tick | implements `MissionLifecycle` |
| `OffboardController` | `controller.py`, `gate_qos.py`; PX4 and the pilot (external) | one action per branch of `_tick` and per callback; `status` is what was heard, `px4` what is true |
| `AnyMission` | the controller with an arbitrary subclass | `compute_setpoint` may ask for a landing, `on_return_home` does any of the things offered |
| `EngineNode` | `ME/rim/engine_node.py` | `OffboardController` and `MissionEngine` composed; one action per callback; implements `MissionLifecycle` between restarts |
| `SurveyMission`, `PropIdle` | the flight from a schedule; the bench test | one action per hook and callback, the setpoint followed over the frames; `PropIdle` with the commands queued to PX4 |
| `PhasedOrbits` | the orbits, one node per drone, and the radio between them | a drone is a record, each hook an operator on it; `heard` is what a drone has heard of which other |
| `TagAnchor`, `TagEv` | the anchor with its feeding in the rim; the bridge that gives PX4 its position | one action per picture, position message and tick |
| `GroundLog` | mine log, visibility ledger and payload side by side | a frame shows cells, hits go to clusters, both cut time into passes |
| `Assignment`, `Association` | the Hungarian algorithm as written (loop by loop); the association of a pass around it | `Hungarian(c)` is checked against all permutations; whether the pass looked at a track is an input of its own for each track |
| `Pathfinder` | the grid, the clearances and the two breadth first searches | an iteration of a search is a step |
| `FramePool` | writer, sinks and the recorder's copy in one life of a pool | one action per store that crosses the process border, one per section under the pool's lock |
| `PoolSessions` | the life of the pool's name and files over owners that start, close and die, and its readers | one action per system call that others can see |
| `SensingNode`, `Recorder` | owner of the camera; flight recorder | one action per turn of a loop or per await of a thread; a step of the recorder's take-down that nothing catches (`Raises`) ends it there |
| `FleetMode` | gateway, radio service and air, for the fleet mode | one action per section under `mode_cond`, per frame and per radio command; a radio that starts over forgets the repeats it had left |
| `PairMac`, `Ranging` | the pair schedule; the exchange on both radios and the air | `PairMac` gives operators on a pair's record; `Ranging` one action per event an application serves |
| `RadioHost`, `HostFraming` | the tasks of the DWM3001's host link; the byte stream in both directions, three receivers | one action from one await to the next; one per byte |
| `RoleLinks`, `ManagerDrone`, `ExploreDrone`, `FleetRoles` | sockets; manager; one explorer with four threads; all together | one action per access to what threads share, and per message |
| `LabelStore` | annotation server and label file | one action per system call of a request's thread |
| `Capture` | `SensingNode`, `PoolSessions` and `Recorder` side by side | a behaviour runs one of them, the variables of the others rest |
| `MC...` | the instances the runs check | definitions for the configurations (`MCMissions` takes its sizes as CONSTANTS, so that its theorem is about every size); `MCMissions`, `MCSensing`, `MCRadioHost`, `MCFleetMode` are unions: a behaviour runs one part, the variables of the others rest |
| `MissionLemmas`, `...Proofs` | - | lemmas and theorems |

Composition. `EngineNode` extends `OffboardController` and `MissionEngine` and shares their
variables; `AnyMission` extends the same controller, so both speak of one handshake.
`FleetRoles` composes manager and explorers over the sockets of `RoleLinks`. `Ranging` is
the composition of the radios of one fleet over `PairMac`. `MissionCore` and `EngineNode`
instantiate `MissionLifecycle` with the stage their engine's phase stands for.

Abstractions that several modules share:

* Geometry. In `MissionEngine` a horizontal position is a grid point with a unit beyond
  `reach_tol_m`, so "reached" is equality; altitude is hold, survey or pad; speed is slow or
  not; a heading of the rosette is one of the grid's eight directions. Where only shifts of
  the ground matter (`TagAnchor`, `TagEv`, `GroundLog`, `Association`, `PhasedOrbits`,
  `SurveyMission`) it is one axis of integers: `TagAnchor` counts quarters of a unit so that
  medians and means stay whole, `GroundLog` keeps weighted sums instead of quotients.
* Time. A timer of the engine is the fact that it runs, and a sample says whether running
  timers have expired; in `PropIdle` a deadline is a flag that it has passed. The missions
  with schedules count coarse units in each of which every node ticks. `Ranging` has a
  clock of ticks of a close period or finer, `SensingNode` one of tens of milliseconds.
* Data. A frame in `FramePool` is two halves, each the number of the frame its bytes come
  from, so that a torn read is visible; timestamps of an exchange are the identity of the
  poll they were taken in (`marks`), so that a range mixed from two exchanges is visible;
  an annotation is the number of the save that made it; a fleet mode is a model value.
* Inputs. Detections, samples, what a picture shows and whether a vehicle climbed or
  settled are inputs. In `EngineNode` whether the tag anchor disagrees or has settled is one
  too, and samples sit on the commanded setpoint except for disturbed ones drawn from a
  budget (`MaxGusts`).

The definitions named `X_Something` before an operator `X` are slips: plausible bugs of that
operator, kept so that each property can be seen to fail on one of them.

## 3. What is checked

An invariant called `...Inv` bundles a module's type invariant with its named safety
invariants; the names in parentheses are its parts.

| run | properties and what they show |
|---|---|
| `missions` | `CoverageInv` (`CoverageIsPrefix`, `SurveyIsComplete`): through dips, detours and fences the reported coverage is what was flown, and whoever comes home unaborted has flown all. `CommandStaysInside`, `DipsAreSpentOnce`, `ImplementsLifecycle`; `PetalsAreFlown`: the coverage of the rosette, and that departures to a petal and landings need two ticks in a row at rest, with a settled anchor where the code asks for it. `ArmsOnlyWhenReleased`. `MissionsInv` (`StartsReady`, `ArmsOnce`, `ExitsDisarmed`). `MissionsEnd` (`SurveyEnds` of the schedule, `AbortLands`) |
| `node_safety` | `NodeInv` (`LandsWhenDue`), `DumpsAWholeSurvey`, `ImplementsLifecycle` over restarts |
| `node_ends` | `StreamsWhileOffboard`: while the node flies an armed vehicle under OFFBOARD, PX4 misses the stream only from the one tick of a process that waits for its dump (`dump_host` blocks the executor, `engine_node.py:637`) to the tick after it. `HandoffIsFinal`. `SurveyEnds`: with every guard on, a begun survey comes to an accepted landing, a yield to PX4 or the ground, unless the anchor guard takes the vehicle back from its settle again and again (`AnchorAborts`; without that exception TLC finds the loop of SETTLE and ABORT, section 5) |
| `bad_dump_hangs` | `SurveyEnds` is violated when the dump is refused, see section 5 |
| `sensing` | `PoolInv` (`BorrowedFramesAreStable`, `LeasesAreHeld`), `CopyIsTheFrame`, `RefusedOnlyWhenHeld`; `TagsInv` (`MeasuresDriftOnly`, `AbortNeedsDrift`, `TagsAgree`, `FixIsTrue`), `TagsHoldStill` (`CorrectionIsKept`, `HandoffIsSmall`); `MapInv` (`OneClusterPerMine`, `EveryVisitIsAPass`, `PayloadIsWhole`, `VerdictIsTrue`, `OneToOne`, `MatchIsWorthIt`, `IsCheapest`, `ClearanceIsDistance`, `CorridorIsClear`, `BestIsBest`), `KnownAreRecognised` |
| `capture` | `CaptureInv` (`CameraInv`, `SessionsInv`, `RecorderInv`), `FlowCountsOnce`; `EndsWhenTold` (`SensingEnds`; `BagIsFinalized`: the bag is closed though threads hang, fail or outlive their join, unless `camera.close()` or `pool.close()` raises before it), `ReadersFollow` (`DetectorCatchesUp`, `RecorderFollowsACrash`) |
| `roles` | `RolesInv` (`SweptIsSent`), `EndsWithTheLast`; `RolesEnd` (`ExplorersEnd`, `ManagerEnds`) |
| `ranging` | `RangingInv` (`RangeIsOfOneExchange`, `RangeIsMutual`, `RetryIsBounded`), `AttemptsAreSpaced`; `ExchangesEnd` |
| `radio_host` | `RadioInv` (`LatestIsKept`, `ControlHasItsTurn`), `FramingInv` (`StuffingIsUndone`, `GotWasSent`, `NoFrameIsForgotten`: of what was sent each receiver misses no more frames than `Cost` allows); `ExchangesArrive` |
| `orbits` | `OrbitsInv` (`ReturnPointIsKnown`, `HomeIsWhereItClimbed`, `OrbitStartsAtCenter`, `LineIsBuiltInOrder`); `PeelsOnAWholeRevolution`: an orbit told to end at any phase of it, or in the spiral, peels off on a whole revolution, the next one, in that unit of time; `FlightsGoOn` (`ComesHome`, `LineCompletes`) |
| `fleet` | `NoStaleRequeueOfOne`; `FleetSettles` (`OnNewest` unless a radio forgot its repeats, `CaughtUp` in any case) |
| `dataset` | `LabelInv` (`CertifiedIsComplete`; without overlapping requests `LabelsAreWhole`, `SavedIsKept`, `CertifiedStays`) |

Bounds, and why they are enough:

* `missions`. Two lanes cover both directions, the first and the last lane and the step
  between them; two steps per lane give a middle progress point. One cluster on a lane and
  one outside the polygon give a legal and a fenced-off dip and use up the budget of two. The
  rosette has two petals, the second of which leaves a fence of radius one about a home off
  the pad, counters modulo 8 and two frame resets, which is the storm threshold. The
  schedule has a lane, a hover, a cube edge and the way back, with one frame reset and one
  gust. The bench test has two commands in the queue and two surprises (refused, lost,
  disarmed by somebody else). The controller under any mission has one upset and one restart:
  enough for every pair of a state and a disturbance.
* `node_*`. One lane of one step. `node_safety` has a restart and a dump that may fail; dips
  are left to `node_ends`. `node_ends` has all guards on (timeout, silence, anchor,
  resets), a gust, a dip, a frame reset and a spot beyond the fence, and a delivery that is
  acknowledged and may stall the tick. It has no takeover by the pilot and no failsafe of its own
  (`MaxUpsets` 0; they are in `missions`), but PX4 still leaves OFFBOARD when the stalled
  tick starves it.
* `sensing`. Three slots are the least the code accepts, and with two sinks of depth one every
  slot can be held; five writes go around the ring and reuse a slot twice; one owner dies.
  Two tags are a pair; a reset of 12 is beyond every gate, a drift of 4 beyond the
  disagreement gate and within the correction limit, two of them beyond it. Two mines in two
  cells over four times allow a revisit; three hits confirm one of them and meet the other. Three objects and
  shifts up to five put the common error beyond the fine and within the coarse gate. The
  matrices are all those of three rows over {0, 1, 3} up to the order of columns; a pass may have looked at one track, at the edge
  of another and not at a third. The bridge
  sees two tags in six pictures with two moves. The field is five by four cells with every
  pair of mines of a grid, some beyond its edge, and three walls.
* `capture`. Three frames, four notes and a step of the clock; two owners with three starts
  (one crash may leave files that the next meets), two frames each; a recorder with two
  frames, a shot of the second camera and two changes of arming.
* `roles`. Two explorers that find nothing (who ends first, whose datagram is late), or one that
  finds two mines, may be lost and may be sent off again; batches of one.
* `ranging`. A DW1000 and a DWM3001, either of them as the initiator, with two polls, one fault
  (a frame lost or garbled, a reset, a fleet mode) and time for a retry; and all three radios
  in each other's way, at one instant.
* `radio_host`. Two peers with three and one exchanges: an older, a newer and one more of the
  same peer; queues of depth one fill; one unplug, one configuration. Framing with codes up
  to 3 in place of 255, so that full runs happen in short bodies; six frames, one more than a
  fault costs at the most, and one fault. The sender goes on while the line holds no more than
  one byte (`MaxLine`). `Cost` is exact: with one frame less for any of the three receivers TLC
  finds it violated.
* `orbits`. Fleets of one (every setup but the line), two and three; a third drone is the first
  with a middle one in the line.
* `fleet`. Three drones, two commands, two repeats, one lost frame at each drone and a radio
  that starts over; two commanders with queues of one and one mishap. `dataset`: two photos, two requests, three
  saves, one crash.

None of these bounds restricts an invariant that section 4 proves. `CHECK_DEADLOCK FALSE`
stands only where the system may stop: a budget that is used up, a union with a part that
ends (the flight is over, the bag is closed, the path is found).

Fairness. What runs on a timer or an executor keeps running: ticks, callbacks, queued commands,
threads and tasks (weak fairness). PX4 takes what is queued, publishes its status at a fixed
rate, and climbs on an armed vehicle's setpoints. Strong fairness stands where the world may
take a chance away in between and give it back: a NAV_LAND repeated every second is accepted
at some time; a running timer of the engine is found expired though the phase may change; a
vehicle told to climb, turn or settle at some time is there though gusts move it; a reader
that serves its frames in time is not always preempted by the next. An unplugged cable is
plugged in again, the gateway's reader reconnects, the fleet script returns or fails. In the
unions a part's fairness is conjoined with the part being the one that runs. Nothing is
assumed of operators, pilots, failsafes, losses or crashes.

Timing in `Ranging`. A few durations that the code fixes stand as guards, named where they
are used: a reset radio is back 100 ms later, when no peer is in an exchange with it any more
(`Settled`), and the same is asked of a new configuration; a reply comes 2 ms after the frame it
answers while the timeout is 3.5 ms (`Answering`); an exchange with all its timeouts is shorter
than a close period (`Tick`); a radio serves the end of its transmission before the answer to it.

## 4. What is proved

Every theorem is listed in `PROJECT.json`. The assumptions are the named `ASSUME`s of the
modules: `EngineConstants` and `CoreConstants` (the field, pattern, fences and clusters of a
configuration), `ControllerConstants`, `NodeConstants`, `PoolConstants`, `MacConstants` and
`RangingConstants`, `SurveyConstants` (a schedule has a segment; of no time, perhaps),
`BenchConstants`, `OrbitConstants` (with a drone the fleet has all of smaller index),
`RadioHost!LinkConstants` (the peers fit the slots, `MAX_PEERS`), `RoleLinks!LinkConstants` (a
fleet is finite), `CaptureConstants` (a queue holds a frame at least, clocks count in whole
numbers, owners and readers are different processes), `FleetConstants` and `OneCommander` (the
mode theorem is about a fleet with one commander, as `fleet` runs it in its setup "one"), and
`LabelConstants` (there is a photo to label; the threads are finitely many).

* **`MissionProofs`**: `TypesHold`, `InsideHolds` (`CommandStaysInside`), `LifecycleHolds`
  (`MissionCore!Spec` implements `MissionLifecycle!Spec`), `CoverageHolds`, `DipsHold` and
  `RestHolds` (`DepartsFromRest`, which `missions` checks of the rosette in `PetalsAreFlown`). Types
  alone are not inductive: a tick in LANE flies to a petal around `home`, a dip flies to the
  cluster of `target`, and the step from "homing" to "settling" needs that ABORT means aborted.
  `Good` (in `MissionLemmas`) says what the phase tells of the other fields. Each handler has
  a lemma with the phases it may lead to; `Ticking` composes guards, handler, command fence and
  the second pass after a fence abort. `Recorded` adds for coverage what has been
  covered (`Surveyed`: the prefix up to the recorded progress, and all of it on an unaborted way
  home) and for dips that the log says of every cluster in `dipped` what keeps it from being
  chosen again (`Spends`). `Clocks` adds for departures that a hold's timer runs only if the
  tick before was at rest, with the anchor ready where the hold asks for it; that the timer of
  the petals does not run before the center is reached, and never on a serpentine.
* **`MissionProofs`**, then of the two flights without an engine: `MissionsHold` (`MissionsInv`).
  `SurveyKeeps` is inductive once the points of a schedule are known to be points: that the
  running sum of the segments exists, and that every time of the schedule lies in one of
  them, are two arguments from a least counterexample. `BenchKeeps` says that the arm command
  is published once and stands in the queue at most once (`OneShot`), and what the node's last status
  is worth (`SeesTheMotors`): before the command is taken, and after the motors have been seen
  armed, what has been seen disarmed is disarmed, so a test that held them armed and ends on
  such a status ends with the motors disarmed.
* **`MissionLemmas`**, of the controller with any mission: `ControllerTypesHold` and
  `ArmsWhenReleased`, from the invariant `Released`: whoever
  is past WAIT_START has been released by this process, and whoever is past PRESTREAM has
  latched the datum. A restart clears all three at once.
* **`EngineNodeProofs`**: `NodeInvHolds`, `NodeLifecycleHolds` (the node implements
  `MissionLifecycle` with restarts), `DumpIsWhole`, `HandoffHolds`, `NodeArmsWhenReleased`, and
  `StreamHolds` (`StreamsWhileOffboard`, whatever the host answers and however long it takes): a
  stale stream begins with the tick that sets `_dumped`, of which a process has one, no other
  step takes the stream away (`StreamRests`), and the next tick brings it back or leaves the
  vehicle to PX4 (`TickStreams`). The invariant joins that of the engine, that of the controller
  and what ties them: what the node has latched, dumped and begun against the engine's phase.
* **`CaptureProofs`**, first of the frame pool: `TypesHold`, `CopyHolds`, `PoolHolds`,
  `RefusalHolds`, for any number of slots, sinks, writes and crashes. The copy's argument is the seqlock's: a slot is written only
  while its generation is odd; a slot with an even one holds one frame, that of its sequence;
  as long as the generation the recorder has read is still there, what it copied is of that
  frame. The pool's argument (`OwnerInv`) counts: the lease count of a slot is the number of its
  holders, in queues and at work, so a slot without leases is in nobody's hands. The refusal
  is the pigeonhole of slots among sinks.
* **`CaptureProofs`**, then of the processes about the camera: `CaptureHolds` (`CaptureInv`) and
  `FlowHolds` (`FlowCountsOnce`), for any depth of the queues, any steps of the wall clock and
  any number of frames, starts, crashes, samples and shots. The invariant has a part for each
  of the three. `CameraKeeps`: stamps rise up to the last one mapped (`OwnerKeeps`); what a sink
  holds rises too, and the newest frame is its last once it has been offered it (`Serves`);
  whatever the flow has still to measure is younger than all it has measured (`ToMeasure`),
  which is why a published flow begins where the one before it ended, or later. `SessionsKeep`
  adds to `OneWriter` and `SequenceIsKept` that every start has touched one file at most, so that
  the next finds a fresh one. `RecorderKeeps`:
  threads end because they are told to, or fail and say so; the next frame due lies on the
  lattice of periods that the first one opened, one cell beyond the last written, so no
  period holds two frames (the step from cell to cell is division with a remainder).
* **`FleetRolesProofs`**: `RolesHold` (`RolesInv`), `EndsHold` (`EndsWithTheLast`) and `ResultHolds`
  (`ResultIsFinal`), for a fleet of any size, any finds, losses and orders. That the manager's
  types hold is an argument of its own: nothing in the code keeps finder and main thread from
  sending the same coordinate, and what bounds it is that neither takes back what it has passed:
  the times a coordinate was received, the lines on connections that hold it and the threads
  that may yet send it never come to more than two (`OnceInv`). `HeldInv` says that a
  connection has one holder, which is at its send. `Delivers` ties what an explorer's threads
  are walking to what has been sent: of what had been found when the last delivery began all is
  sent or still in a thread's stretch. `CountInv`: those the manager has counted are drones it
  knows that have ended and whose `finished` is on its way no more, so the count reaches the
  size of the table only with the last.
* **`UwbProofs`**, the radios from the air to the gateway. `RangingHolds` and `AttemptsHold`, for
  any roster, mix of radios, periods and number of faults. The invariant has these parts: `Shapes`; that exchange numbers only grow
  (`Counts`); that a radio that is down does nothing (`Silent`); that a programmed frame is the
  one of the exchange's state (`Programmed`); who initiates and who answers (`Roles`); the books of the
  scheduler against the exchange (`Books`); that one exchange number is one poll, in every
  frame, exchange and range that claims it (`Consistent`); that both ends' records agree
  (`Recorded`, `Reported`, `RangeIsMutual`).
  `RadioHolds`, for any set of peers that fits the slots, any capacities
  and any number of unplugs and configurations. `InOrder` says that with each peer the host had
  an older exchange than the one being written, and that one is older than what is in the slot:
  this is why an interrupted write may be put back only into a free slot and still no newest
  exchange is lost. `Turn` bounds what has passed a control event by what the schedule has
  counted. That a push never has to evict another peer's exchange is the pigeonhole
  of peers among slots.
  `ModesHold` (`NoStaleRequeueOfOne`), for one commander, a fleet of any size, queues of any
  length and any number of links lost, frames missed, radios started over and scripts failed. Only the commander
  speaks and nobody speaks to it (`OneSpeaks`), and all that is under way was given by an
  operator (`OnlyIssued`). `NewestBehind` is the argument: as long as the newest command was
  given for the first time, it is the last thing in every queue it has come to, and where it
  has come nothing older follows, neither in the queue behind nor in the one that feeds it.
* **`LabelStoreProofs`**: `LabelsHold` (`LabelInv`), for any set of photos, any number of server
  threads and saves. `CompleteOnly` holds whatever overlaps: a document a thread would certify has
  every photo complete, since a certification is made from the document the thread itself has loaded.
  `OneAtATime` is what the answers rest on: while requests do not overlap at most one thread has
  anything open, what it has loaded is what is on disk, and what it writes holds every save that
  was answered and replaces nothing certified. That there is always a free file is the pigeonhole of threads among files.
* **`PhasedOrbitsProofs`**: `OrbitsHold`, for a fleet of any size, any offsets, durations and number of
  resets, losses, upsets and commands. The invariant adds to the types an order of a drone's
  flags (`Sounds`), its home against its anchor (`Homes`), the place of each in the line
  (`Line`) and what every word said on the air still means when it is heard (`Words`).
Model-checked only. Out of the prover's reach: everything under fairness (`MissionsEnd`,
`SurveyEnds`, `EndsWhenTold`, `ReadersFollow`, `RolesEnd`, `ExchangesEnd`, `ExchangesArrive`,
`FlightsGoOn`, `FleetSettles`), since liveness needs ENABLED; `IsCheapest`, the correctness of
an algorithm by induction over data in a module with RECURSIVE operators (`Assignment`, and
`Association` over it). `FramingInv` and `MapInv` rest on such algorithms too: stuffing and
its undoing, the searches of a path, the sums and medians over a sequence, whose value for every
input is an induction over data; so do the medians of the anchor (`TagsInv`, `TagsHoldStill`) and
`KnownAreRecognised`.
Of all these the runs of section 3 say what they say within their bounds.

## 5. Disagreements found

`bad_dump_hangs` has a run of its own: the node sends its dump once and latches `_dumped`
(`ME/rim/engine_node.py:594`), so `dump_retry_limit` of the engine is never reached, and DUMP is
exempt from every guard. A refused dump leaves the drone hovering, against "A survey that
cannot finish must come home rather than hold its setpoint indefinitely"
(`ME/core/mission.py:84`).

The following are stated in the modules, found false of the code while modelling, and checked by
no run:

| definition | what the text says and the code does |
|---|---|
| `EngineNode!AbortedSurveyLands`, and `SurveyEnds` without its exception | a guard that aborts "reach[es] the same exit" (`test_mission.py:133`); `_observe_anchor` spares ABORT, LAND and DONE but not SETTLE (`engine_node.py:495`), so a disagreement that persists sends a settling mission back each time |
| `FleetMode!NoStaleRequeue` with two commanders | "a late repeat of an older mode cannot re-queue behind a newer request" (`gateway.py:178`); `_queue_mode` compares with the newest request only (:182) |
| `FleetMode!AcceptedIsApplied` where a drone may be set by hand | the service "sends the same mode ... and applies it locally" (`network/README.md:68`); a mode the gateway has asked for before is not applied again, though `fleet local` has changed it since (`gateway.py:182`) |
| `AnyMission!FliesOnOperatorStart` | "A fresh process and operator start are required" (`controller.py:743`); the gates are latched by their publishers (`gate_qos.py:13`) |
| `FleetRoles!WorkersAreHeard` | the servers stay open for the workers (`manager.py:45`); the manager ends on `finished` datagrams that overtake coordinates still queued on TCP (:294, :539) |
| `RadioHost!ControlArrives` | control events are sent on; a signal with nothing behind it leaves the task waiting for the next exchange alone (`uwb/dwm3001/src/host.rs:308`) |
| `PhasedOrbits!TrimsAgainstAHolder` | "line anchor holding; releasing drone 1": the first to trim does not ask whether the anchor has even climbed (`phased_orbits_mission.py:902`) |
| `SurveyMission!RidesOnTheAnchor` | the geometry rides on the anchor (`survey_mission.py:18`); a frame reset before the climb ends moves them apart (`controller.py:302`) |
| `PropIdle!ExitsAfterDisarm` | "exits after disarm" (docstring); an end between the arm command and its confirmation reads the vehicle as disarmed (`prop_idle_dummy_mission.py:281`) |
| `GroundLog!LadderUp` | the status climbs (`minelog.py:15`); a dip marks a verified cluster as dipped (`mission.py:548`) |
| `PoolSessions!LaterOwnerIsFound` | "a later owner gets fresh files" (`shared_frame_pool.py:466`); one that has opened the file before the names went, and asks for the lock after, owns a file nobody finds |
| `Recorder!BagIsAlwaysFinalized` | the recorder closes its bag in a `finally` (`recorder.py:367`); `camera.close()` (:376) and, while a thread that outlived its join has a view of a slot, `pool.close()` (:392) may raise, unguarded unlike `camera.stop()` and `forward_pool.close()` beside them, and skip `bag.close()` (:393) |
| `Recorder!ProcessExits`, `TagEv!IsHeard` | expected rather than stated: the recorder's threads are no daemons, so one that waits for a stopped camera keeps the process; a bridge that has left the pad without a registered tag reports nothing |
| `LabelStore!CertifiedLabelsAreImmutable` | "certified labels are immutable" (`annotation.py:78`); overlapping requests replace each other's file |

Others were noticed by reading and have no definition: the DW1000's service drops the newest
event at a full channel though the README of `uwb` says the latest is kept; `rclpy.ok()` is false
in the cleanup after SIGINT; the land-settle clock stays stale across `/end_mission`; random
staging never reaches its slot after a frame reset; `/begin_orbit` is refused by one drone and
taken by others; a drone that missed the last's word stays in line; medians over one or two
fixes are carried by one bad frame; clusters live in the raw local frame and dips in the plan
frame; of two resets between positions only the last delta counts; the dump blocks
the executor for seconds, in which PX4 may leave OFFBOARD (what `StreamsWhileOffboard` excepts);
`/end_mission` before `/begin_survey` is swallowed; `begin_return` leaves FAILSAFE;
the wrap of the reset counter looks like a reset storm; `fleet local` makes a repeated command
a no-op; two threads share the gateway's sequence counter; an owner may be refused by a
reader's probe of the lock; a live owner that stalls has the same frame detected every
five seconds; a radio that starts over loses the repeats of a fleet mode
(`uwb/dw1000/src/ranging.rs:303`); a delimiter as
the byte after the longest frame is swallowed; a host that only listens loses its first command
to synchronisation.

## 6. What is left

Proofs: `FrozenOffActive` of the node; `HandoffIsSmall` of the anchor as far as it needs no
medians.

Models. `NoJump`, `HoldEnds`, `ResetIsNoDrift`, `SettledStays`, `ResultIsFinal` (proved) and
`FrozenOffActive` are stated in their modules; they hold on the
instances of section 3, and no run lists them. Left out of modules that exist: the crash disarm by the
range finder and the GPS qualification of the start gate; the rate of the phase guard and the
velocities of the orbits; `orbit_auto_start` and `anchor_after_climb = false`; the rotation of
the fits and the range and radial gates of the anchor; the length prefix of the dump; the
clock probe of the DWM3001; the diagnostics of the gateway; the manager's own camera, what the
acknowledgement of a registration sets off, and iteration of its tables under the UDP thread;
the images of the flow and of the detectors, the gyro and the statistics; the ordinary
messages, the clock audit and the counts of the recorder; the generation counter of the
exchange slots, which wraps after 2^32 exchanges.

Not modelled and not planned: camera and tag geometry, optical flow and relative localization
as numerics, collision avoidance (floating point without protocol state); the web console (its
effect is the operator of these models); simulation and bring-up, training, localization
experiments, generated messages and vendored code.
