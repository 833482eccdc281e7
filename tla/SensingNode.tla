------------------------------ MODULE SensingNode ------------------------------
(***************************************************************************)
(* ros/sensing/sensing/node.py, the owner of the down camera: it waits for the    *)
(* clocks (timebase.py), then maps, publishes and lends every frame to the sinks    *)
(* (frame_sinks.py) until it is told to stop.  The flow sink keeps the state of a    *)
(* flow frontend (cm2_flow.py or cm2_svo_flow.py).                              *)
(*                                                                         *)
(* A frame is its number, and as many may be held as the pool has slots; what the    *)
(* other processes read of them is in FramePool.  The clocks count in tens of        *)
(* milliseconds.  Images are not looked at: features, fits and the gyro history      *)
(* suffice or they do not.                                                     *)
(***************************************************************************)
EXTENDS Integers, Sequences, FiniteSets

CONSTANTS
  Backends,               \* of "klt", "svo": --flow-backend
  Depth, SlotCount,       \* of the sinks and of the pool
  Gaps, Steps,            \* boot time between frames; steps of the wall clock
  MaxDt,                  \* dt_us > 100_000
  StopOnDisarm,           \* --stop-on-disarm
  MaxFrames, MaxSteps, MaxNotes  \* bounds

VARIABLES
  stage,        \* "sync", "capture", "lend", "close", "end" of main()
  stop, errors, \* threading.Event; a FATAL or a BufferError
  sync,         \* SyncMonitor: the newest samples, and whether the rest is fresh
  armed_seen,   \* of on_status
  clock,        \* boot time, wall clock offset, last_realtime_ns
  frames,       \* stamp of each published frame
  sinks,        \* of each sink: queue, frame at work, _stop, whether the thread runs
  lending,      \* sinks still to be offered the newest frame
  leaked,       \* leases that a timed out join has left behind
  flow,         \* the frontend, its previous_center_ns, the span of the last valid result
  notes, steps  \* used up bounds

main == <<stage, stop, errors>>
startup == <<sync, armed_seen, notes>>
capturing == <<clock, frames, lending, steps>>
work == <<sinks, flow, leaked>>
nodeVars == <<main, startup, capturing, work>>

Sinks == {"flow", "detector"}
NoSpan == [from |-> 0, to |-> 0]
Idle == [queue |-> <<>>, work |-> 0, stop |-> FALSE, runs |-> TRUE]

Init ==
  /\ stage = "sync" /\ stop = FALSE /\ errors = FALSE
  /\ sync = [samples |-> <<>>, heard |-> FALSE, imu |-> FALSE]
  /\ armed_seen = FALSE /\ clock = [boot |-> 0, offset |-> 10, last |-> 0]
  /\ frames = <<>> /\ sinks = [k \in Sinks |-> Idle] /\ lending = {} /\ leaked = 0
  /\ flow \in [backend : Backends, previous : {0}, span : {NoSpan}] /\ notes = 0 /\ steps = 0

-------------------------------------------------------------------------------
(* SyncMonitor: of the last five samples, three at least and all within the limits.  *)
Noted(samples, good) ==
  IF Len(samples) = 5 THEN Append(Tail(samples), good) ELSE Append(samples, good)

NoteTimesync ==
  /\ stage = "sync" /\ notes < MaxNotes /\ notes' = notes + 1
  /\ \E good \in BOOLEAN :
       sync' = [sync EXCEPT !.samples = Noted(@, good), !.heard = TRUE]
  /\ UNCHANGED <<armed_seen, capturing, work, main>>

NoteImu ==
  /\ stage = "sync" /\ ~sync.imu /\ sync' = [sync EXCEPT !.imu = TRUE]
  /\ UNCHANGED <<armed_seen, notes, capturing, work, main>>

GoesStale ==
  /\ stage = "sync" /\ (sync.heard \/ sync.imu) /\ notes < MaxNotes /\ notes' = notes + 1
  /\ sync' = [sync EXCEPT !.heard = FALSE, !.imu = FALSE]
  /\ UNCHANGED <<armed_seen, capturing, work, main>>

Ready ==
  /\ Len(sync.samples) >= 3 /\ sync.heard /\ sync.imu
  /\ \A i \in DOMAIN sync.samples : sync.samples[i]

(* wait_ready, with its timeout.                                              *)
WaitReady ==
  /\ stage = "sync"
  /\ \/ ~stop /\ Ready /\ stage' = "capture" /\ UNCHANGED errors
     \/ (stop \/ ~Ready) /\ stage' = "close" /\ errors' = TRUE
  /\ notes' = MaxNotes   \* no more of them matter
  /\ UNCHANGED <<stop, sync, armed_seen, capturing, work>>

-------------------------------------------------------------------------------
(* Signals and on_status run beside the loop.                                   *)
RequestStop ==
  /\ ~stop /\ stage # "end" /\ stop' = TRUE
  /\ UNCHANGED <<stage, errors, startup, capturing, work>>

OnStatus ==
  /\ StopOnDisarm /\ stage \in {"capture", "lend"}
  /\ \/ armed_seen' = TRUE /\ UNCHANGED stop
     \/ stop' = (stop \/ armed_seen) /\ UNCHANGED armed_seen
  /\ UNCHANGED <<stage, errors, sync, notes, capturing, work>>

(* The wall clock is set.                                                     *)
ClockSteps ==
  /\ stage = "capture" /\ steps < MaxSteps /\ steps' = steps + 1
  /\ \E d \in Steps : clock' = [clock EXCEPT !.offset = @ + d]
  /\ UNCHANGED <<frames, lending, startup, work, main>>

-------------------------------------------------------------------------------
Queued(k) == {sinks[k].queue[i] : i \in DOMAIN sinks[k].queue}
Borrowed(k) == Queued(k) \cup (IF sinks[k].work = 0 THEN {} ELSE {sinks[k].work})
PoolFull == Cardinality(UNION {Borrowed(k) : k \in Sinks}) >= SlotCount

Mapped(now) == now.boot + now.offset > now.last

(* One turn of the loop: capture, map, reserve a slot, copy, commit.  A frame whose    *)
(* stamp does not advance is dropped, and so is one that finds the pool full.       *)
Capture ==
  /\ stage = "capture" /\ ~stop /\ Len(frames) < MaxFrames
  /\ \E gap \in Gaps : \E now \in {[clock EXCEPT !.boot = @ + gap]} :
       IF ~Mapped(now)
       THEN clock' = now /\ UNCHANGED <<stage, frames, lending>>
       ELSE /\ clock' = [now EXCEPT !.last = now.boot + now.offset]
            /\ IF PoolFull THEN UNCHANGED <<stage, frames, lending>>
               ELSE /\ frames' = Append(frames, now.boot + now.offset)
                    /\ stage' = "lend" /\ lending' = Sinks
  /\ UNCHANGED <<stop, errors, steps, startup, work>>

(* A buffer of another shape: the slot is given back and the process ends.        *)
BadShape ==
  /\ stage = "capture" /\ ~stop /\ Len(frames) < MaxFrames
  /\ stage' = "close" /\ errors' = TRUE
  /\ UNCHANGED <<stop, startup, capturing, work>>

(* submit: a full queue gives its oldest frame back.                              *)
Queue(queue, f) == Append(IF Len(queue) = Depth THEN Tail(queue) ELSE queue, f)

Lend(k) ==
  /\ stage = "lend" /\ k \in lending /\ (k = "detector" => "flow" \notin lending)
  /\ sinks' = [sinks EXCEPT ![k].queue = Queue(@, Len(frames))]
  /\ lending' = lending \ {k}
  /\ stage' = IF lending' = {} THEN "capture" ELSE "lend"
  /\ UNCHANGED <<stop, errors, clock, frames, leaked, flow, steps, startup>>

(* A slip: the loop looks for its frames only.                                    *)
StopsCapture_WithoutFrames ==
  /\ stage = "capture" /\ Len(frames) = MaxFrames
  /\ stage' = "close" /\ UNCHANGED <<errors, startup, capturing, work>>
  /\ stop' = TRUE
StopsCapture ==
  /\ stage = "capture" /\ (stop \/ Len(frames) = MaxFrames)
  /\ stage' = "close" /\ UNCHANGED <<errors, startup, capturing, work>>
  /\ stop' = TRUE

-------------------------------------------------------------------------------
(* _run of a sink: frames are taken as long as there are some, also after _stop.     *)
Takes(k) ==
  /\ sinks[k].runs /\ sinks[k].work = 0 /\ sinks[k].queue # <<>>
  /\ sinks' = [sinks EXCEPT ![k].work = Head(sinks[k].queue), ![k].queue = Tail(@)]
  /\ UNCHANGED <<leaked, flow, startup, capturing, main>>

(* process of the frontends: the frame is compared with the one before, and the result   *)
(* is valid if the features, the fit and the gyro history suffice.  klt goes on from a    *)
(* frame at a bad interval, svo resets its tracker and begins anew.                   *)
BadTiming(stamp) == stamp - flow.previous \notin 1 .. MaxDt
Measured(stamp) ==
  [flow EXCEPT !.previous = stamp, !.span = [from |-> flow.previous, to |-> stamp]]

(* A slip: the frame before stays the one to compare with.                         *)
KltProcess_Rests(stamp, suffices) ==
  IF flow.previous # 0 /\ ~BadTiming(stamp) /\ suffices
  THEN [flow EXCEPT !.span = [from |-> flow.previous, to |-> stamp]]
  ELSE [flow EXCEPT !.previous = stamp]
KltProcess(stamp, suffices) ==
  IF flow.previous # 0 /\ ~BadTiming(stamp) /\ suffices
  THEN Measured(stamp)
  ELSE [flow EXCEPT !.previous = stamp]

SvoProcess(stamp, suffices) ==
  IF flow.previous # 0 /\ BadTiming(stamp) THEN [flow EXCEPT !.previous = 0]
  ELSE IF flow.previous # 0 /\ suffices THEN Measured(stamp)
  ELSE [flow EXCEPT !.previous = stamp]

Process(stamp, suffices) ==
  IF flow.backend = "svo" THEN SvoProcess(stamp, suffices) ELSE KltProcess(stamp, suffices)

(* _handle, and release whatever it did.  A fault comes before anything is kept or,    *)
(* with svo, after.                                                           *)
Handled(k) ==
  /\ sinks[k].runs /\ sinks[k].work # 0
  /\ sinks' = [sinks EXCEPT ![k].work = 0]
  /\ IF k = "flow"
     THEN \/ \E suffices \in BOOLEAN : flow' = Process(frames[sinks[k].work], suffices)
          \/ UNCHANGED flow
          \/ flow.backend = "svo" /\ flow' = Process(frames[sinks[k].work], FALSE)
     ELSE UNCHANGED flow
  /\ UNCHANGED <<leaked, startup, capturing, main>>

(* A slip: a stopped sink leaves what is pending.                                *)
MayEnd_Pending(k) == sinks[k].stop
MayEnd(k) == sinks[k].stop /\ sinks[k].queue = <<>>

SinkEnds(k) ==
  /\ sinks[k].runs /\ sinks[k].work = 0 /\ MayEnd(k)
  /\ sinks' = [sinks EXCEPT ![k].runs = FALSE]
  /\ UNCHANGED <<leaked, flow, startup, capturing, main>>

-------------------------------------------------------------------------------
(* finally: sink after sink is told to stop and joined, for a time; then the pool is    *)
(* closed, which a view that is still borrowed prevents.                          *)
CloseSink(k) ==
  /\ stage = "close" /\ ~sinks[k].stop
  /\ k = "detector" => sinks["flow"].stop /\ (~sinks["flow"].runs \/ leaked > 0)
  /\ sinks' = [sinks EXCEPT ![k].stop = TRUE] /\ stop' = TRUE
  /\ UNCHANGED <<stage, errors, leaked, flow, startup, capturing>>

JoinTimesOut(k) ==
  /\ stage = "close" /\ sinks[k].stop /\ sinks[k].runs /\ leaked < 2
  /\ k = "detector" \/ leaked = 0
  /\ leaked' = leaked + 1
  /\ UNCHANGED <<sinks, flow, startup, capturing, main>>

ClosePool ==
  /\ stage = "close" /\ \A k \in Sinks : sinks[k].stop
  /\ Cardinality({k \in Sinks : sinks[k].runs}) <= leaked
  /\ stage' = "end"
  /\ errors' = (errors \/ \E k \in Sinks : Borrowed(k) # {})
  /\ UNCHANGED <<stop, startup, capturing, work>>

Main == WaitReady \/ Capture \/ BadShape \/ StopsCapture \/ ClosePool
        \/ \E k \in Sinks : Lend(k) \/ CloseSink(k) \/ JoinTimesOut(k)
Worker(k) == Takes(k) \/ Handled(k) \/ SinkEnds(k)
Beside == NoteTimesync \/ NoteImu \/ GoesStale \/ RequestStop \/ OnStatus \/ ClockSteps

Next == Main \/ Beside \/ \E k \in Sinks : Worker(k)

(* The main thread goes on as long as the camera delivers, and so do the workers.    *)
Fairness == WF_nodeVars(Main) /\ \A k \in Sinks : WF_nodeVars(Worker(k))

-------------------------------------------------------------------------------
TypeOK ==
  /\ stage \in {"sync", "capture", "lend", "close", "end"}
  /\ Len(sync.samples) <= 5
  /\ \A k \in Sinks : Len(sinks[k].queue) <= Depth

(* Stamps only rise, whatever the wall clock does.                                *)
StampsRise == \A i \in 2 .. Len(frames) : frames[i - 1] < frames[i]

(* No frame is taken before three samples of the clocks in a row were good.          *)
CaptureIsInSync ==
  frames # <<>> => /\ Len(sync.samples) >= 3
                   /\ \A i \in DOMAIN sync.samples : sync.samples[i]

(* Each sink works through the frames in their order, and the newest is never passed    *)
(* over.                                                                    *)
SinksServeTheNewest ==
  \A k \in Sinks :
    /\ \A i \in DOMAIN sinks[k].queue : sinks[k].work < sinks[k].queue[i]
    /\ stage = "capture" /\ frames # <<>> /\ sinks[k].queue # <<>>
         => Len(frames) \in Queued(k)

(* A process that ended without a stuck sink has given every frame back, so that the    *)
(* pool could be closed.                                                       *)
NothingStaysBorrowed ==
  stage = "end" /\ leaked = 0 => \A k \in Sinks : ~sinks[k].runs /\ Borrowed(k) = {}

(* Types, and what the owner of the camera keeps true: stamps rise through steps of the  *)
(* wall clock, capture waits for the clocks, sinks serve the newest frame in order, and  *)
(* all that was lent comes back.                                                *)
CameraInv ==
  TypeOK /\ StampsRise /\ CaptureIsInSync /\ SinksServeTheNewest /\ NothingStaysBorrowed

(* No stretch of time is measured twice, none across a gap that is too long: PX4 adds    *)
(* the results of process up, whichever frames were dropped before.                    *)
FlowCountsOnce ==
  [][flow'.span # flow.span => /\ flow'.span.from >= flow.span.to
                               /\ flow'.span.to - flow'.span.from \in 1 .. MaxDt]_flow

(* Once told to stop, by a signal or a disarm, the process ends, though a sink hangs.    *)
SensingEnds == stop ~> stage = "end"
=============================================================================
