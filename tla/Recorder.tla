------------------------------- MODULE Recorder -------------------------------
(***************************************************************************)
(* tools/flight_recorder: the process that writes the bag of a flight.  Its main     *)
(* thread prepares (clock, camera, pools), starts a thread for each camera, waits      *)
(* for a stop, and takes everything down in an order that leaves a closed bag unless    *)
(* a step before the bag's raises.  The CM2 thread picks frames of the shared pool on a    *)
(* lattice of periods; the OV9281 thread waits for its camera without a time limit.    *)
(*                                                                         *)
(* Of the bag only what the camera threads write is kept, as stamps.  The messages of    *)
(* the spinning node are written like these and gone with it.  The clock audit once a    *)
(* second and the counts of the summary are left out.                              *)
(***************************************************************************)
EXTENDS Integers, Sequences

CONSTANTS
  Period, OvPeriod,     \* period_ns of the two, in units of time
  Gaps,                 \* of time between two frames of the pool
  StopOnDisarm,         \* stop_on_disarm
  MaxFrames, MaxShots, MaxFlights  \* bounds: frames of each camera, changes of arming

VARIABLES
  main,       \* what the main thread does next
  stop, signalled, errors,
  px4, seen_armed,       \* whether the drone is armed, StopOnDisarm.seen_armed
  newest,     \* stamp of the newest frame in the pool, 0 for none
  cm2,        \* its thread: at, last_seen, the frame in work, next_record_ns
  ov,         \* the other: at, the stamp in work, last_record_ns
  bag,        \* open, and the stamps written by each thread
  frames, shots, flights  \* used up bounds

recVars == <<main, stop, signalled, errors, px4, seen_armed, newest, cm2, ov, bag,
             frames, shots, flights>>
flight == <<px4, seen_armed, flights>>
source == <<newest, frames>>

Prepare == <<"sync", "camera", "attach", "start">>
TakeDown == <<"join_ov", "join_cm2", "camera_off", "node_off", "pools_off", "bag_off", "over">>
Follower(order, m) == order[(CHOOSE i \in DOMAIN order : order[i] = m) + 1]
None == -1

Init ==
  /\ main = "sync" /\ stop = FALSE /\ signalled = FALSE /\ errors = FALSE
  /\ px4 = FALSE /\ seen_armed = FALSE /\ newest = 0
  /\ cm2 = [at |-> "none", last_seen |-> 0, frame |-> 0, next |-> None]
  /\ ov = [at |-> "none", shot |-> 0, last_record |-> None]
  /\ bag = [open |-> TRUE, down |-> <<>>, forward |-> <<>>]
  /\ frames = 0 /\ shots = 0 /\ flights = 0

-------------------------------------------------------------------------------
(* The main thread.  A step that raises ends in the same take-down; before the camera    *)
(* there is nothing to join or to close.                                           *)
Prepares ==
  /\ main \in {"sync", "camera", "attach"} /\ main' = Follower(Prepare, main)
  /\ UNCHANGED <<stop, signalled, errors, flight, source, cm2, ov, bag, shots>>

Refuses ==
  /\ main \in {"sync", "camera", "attach"}
  /\ main' = (IF main = "sync" THEN "node_off" ELSE TakeDown[1])
  /\ stop' = TRUE /\ errors' = TRUE
  /\ UNCHANGED <<signalled, flight, source, cm2, ov, bag, shots>>

Starts ==
  /\ main = "start" /\ main' = "running"
  /\ cm2' = [cm2 EXCEPT !.at = "looking"] /\ ov' = [ov EXCEPT !.at = "waiting"]
  /\ UNCHANGED <<stop, signalled, errors, flight, source, bag, shots>>

Ended(t) == t.at \in {"none", "ended", "failed"}

StopsRunning ==
  /\ main = "running" /\ (stop \/ (Ended(cm2) /\ Ended(ov)))
  /\ main' = TakeDown[1] /\ stop' = TRUE
  /\ UNCHANGED <<signalled, errors, flight, source, cm2, ov, bag, shots>>

(* thread.join(timeout=2.0): the thread may not have ended.                           *)
(* A slip: no time limit.                                                       *)
Joins_Forever ==
  /\ \/ main = "join_ov" /\ Ended(ov)
     \/ main = "join_cm2" /\ Ended(cm2)
  /\ main' = Follower(TakeDown, main)
  /\ UNCHANGED <<stop, signalled, errors, flight, source, cm2, ov, bag, shots>>
Joins ==
  /\ main \in {"join_ov", "join_cm2"} /\ main' = Follower(TakeDown, main)
  /\ UNCHANGED <<stop, signalled, errors, flight, source, cm2, ov, bag, shots>>

(* The other pool, if the thread that writes it is at it, only leaves an error.        *)
TakesDown ==
  /\ main \in {"camera_off", "node_off", "pools_off", "bag_off"}
  /\ main' = Follower(TakeDown, main)
  /\ bag' = IF main = "bag_off" THEN [bag EXCEPT !.open = FALSE] ELSE bag
  /\ errors' \in {errors, errors \/ (main = "pools_off" /\ ov.at = "got")}
  /\ UNCHANGED <<stop, signalled, flight, source, cm2, ov, shots>>

(* camera.close() may raise, and pool.close() while the CM2 thread has a view of a slot:  *)
(* nothing catches them, and the rest of the take-down is skipped.                     *)
Raises ==
  /\ \/ main = "camera_off" /\ main' = "camera_raised"
     \/ main = "pools_off" /\ cm2.at = "copying" /\ main' = "pools_raised"
  /\ UNCHANGED <<stop, signalled, errors, flight, source, cm2, ov, bag, shots>>

Over == main \in {"over", "camera_raised", "pools_raised"}

(* What raised is not past.                                                         *)
Past(m) ==
  \/ main \in {TakeDown[i] : i \in {j \in DOMAIN TakeDown : \E k \in 1 .. j - 1 : TakeDown[k] = m}}
  \/ main = "camera_raised" /\ m \in {"join_ov", "join_cm2"}
  \/ main = "pools_raised" /\ m \in {"join_ov", "join_cm2", "camera_off", "node_off"}

(* request_stop, on SIGINT and SIGTERM.                                             *)
RequestStop ==
  /\ ~signalled /\ ~Over /\ signalled' = TRUE /\ stop' = TRUE
  /\ UNCHANGED <<main, errors, flight, source, cm2, ov, bag, shots>>

(* PX4 arms and disarms; the node, while it spins, hears of it or not.                 *)
Arms ==
  /\ flights < MaxFlights /\ flights' = flights + 1 /\ px4' = ~px4
  /\ UNCHANGED <<main, stop, signalled, errors, seen_armed, source, cm2, ov, bag, shots>>

OnStatus ==
  /\ StopOnDisarm /\ ~Past("node_off")
  /\ seen_armed' = (seen_armed \/ px4) /\ stop' = (stop \/ (~px4 /\ seen_armed))
  /\ UNCHANGED <<main, signalled, errors, px4, flights, source, cm2, ov, bag, shots>>

-------------------------------------------------------------------------------
(* worker: an exception stops the others.                                           *)
Failing == errors' = TRUE /\ stop' = TRUE

Written(stream, stamp) ==
  IF bag.open THEN [bag EXCEPT ![stream] = Append(@, stamp)] ELSE bag

(* record_shared_cm2.  The owner of the pool publishes frames.                         *)
Published ==
  /\ frames < MaxFrames /\ frames' = frames + 1
  /\ \E gap \in Gaps : newest' = newest + gap
  /\ UNCHANGED <<main, stop, signalled, errors, flight, cm2, ov, bag, shots>>

Due(stamp) == cm2.next = None \/ stamp >= cm2.next

Looks ==
  /\ cm2.at = "looking" /\ ~stop /\ newest > cm2.last_seen
  /\ cm2' = IF Due(newest)
            THEN [cm2 EXCEPT !.at = "copying", !.last_seen = newest, !.frame = newest]
            ELSE [cm2 EXCEPT !.last_seen = newest]
  /\ UNCHANGED <<main, stop, signalled, errors, flight, source, ov, bag, shots>>

(* The copy is whole, or torn by the owner and dropped; without its mapping it fails.   *)
Copies ==
  /\ cm2.at = "copying"
  /\ IF Past("pools_off")
     THEN cm2' = [cm2 EXCEPT !.at = "failed"] /\ Failing
     ELSE /\ \/ cm2' = [cm2 EXCEPT !.at = "writing"]
             \/ newest # cm2.frame /\ cm2' = [cm2 EXCEPT !.at = "looking", !.frame = 0]
          /\ UNCHANGED <<stop, errors>>
  /\ UNCHANGED <<main, signalled, flight, source, ov, bag, shots>>

(* The next frame is due on the lattice of periods that the first one opened.           *)
(* A slip: a period after the one written.                                         *)
NextRecord_Drifts(stamp) == stamp + Period
NextRecord(stamp) ==
  IF cm2.next = None THEN stamp + Period
  ELSE cm2.next + ((stamp - cm2.next) \div Period + 1) * Period

WritesDown ==
  /\ cm2.at = "writing" /\ bag' = Written("down", cm2.frame)
  /\ cm2' = [cm2 EXCEPT !.at = "looking", !.frame = 0,
                        !.next = IF Period = 0 THEN None ELSE NextRecord(cm2.frame)]
  /\ UNCHANGED <<main, stop, signalled, errors, flight, source, ov, shots>>

(* record_ov9281: capture_request waits for the camera without a limit.                 *)
Captures ==
  /\ ov.at = "waiting" /\ ~stop /\ ~Past("camera_off") /\ shots < MaxShots /\ shots' = shots + 1
  /\ ov' = [ov EXCEPT !.at = "got", !.shot = shots + 1]
  /\ UNCHANGED <<main, stop, signalled, errors, flight, source, cm2, bag>>

WritesForward ==
  /\ ov.at = "got"
  /\ \E due \in {ov.last_record = None \/ ov.shot - ov.last_record >= OvPeriod} :
       /\ bag' = IF due THEN Written("forward", ov.shot) ELSE bag
       /\ ov' = [ov EXCEPT !.at = "waiting", !.last_record = IF due THEN ov.shot ELSE @]
  /\ UNCHANGED <<main, stop, signalled, errors, flight, source, cm2, shots>>

(* Either thread fails in what it does, or sees the stop at its next round.             *)
Fails ==
  /\ \/ cm2.at \in {"looking", "copying", "writing"} /\ cm2' = [cm2 EXCEPT !.at = "failed"] /\ UNCHANGED ov
     \/ ov.at \in {"waiting", "got"} /\ ov' = [ov EXCEPT !.at = "failed"] /\ UNCHANGED cm2
  /\ Failing /\ UNCHANGED <<main, signalled, flight, source, bag, shots>>

Ends ==
  /\ stop
  /\ \/ cm2.at = "looking" /\ cm2' = [cm2 EXCEPT !.at = "ended"] /\ UNCHANGED ov
     \/ ov.at = "waiting" /\ ov' = [ov EXCEPT !.at = "ended"] /\ UNCHANGED cm2
  /\ UNCHANGED <<main, stop, signalled, errors, flight, source, bag, shots>>

-------------------------------------------------------------------------------
Main == Prepares \/ Refuses \/ Starts \/ StopsRunning \/ Joins \/ TakesDown \/ Raises
Cm2Works == Looks \/ Copies \/ WritesDown

Next == Main \/ RequestStop \/ Arms \/ OnStatus \/ Published \/ Cm2Works
        \/ Captures \/ WritesForward \/ Fails \/ Ends

(* The main thread goes on; a join and wait_ready end.  Of the camera threads and of     *)
(* the camera nothing is assumed, but that the CM2 thread goes round.                   *)
Fairness == WF_recVars(Main) /\ WF_recVars(Cm2Works) /\ WF_recVars(OnStatus)

-------------------------------------------------------------------------------
TypeOK ==
  /\ cm2.at \in {"none", "looking", "copying", "writing", "ended", "failed"}
  /\ ov.at \in {"none", "waiting", "got", "ended", "failed"}
  /\ main \in {Prepare[i] : i \in DOMAIN Prepare} \cup {"running"}
              \cup {TakeDown[i] : i \in DOMAIN TakeDown} \cup {"camera_raised", "pools_raised"}

(* At most one frame of a period is written, by the lattice the first one opened, and    *)
(* however frames are torn the next period's first whole frame is due.                 *)
Cell(stamp) == (stamp - bag.down[1]) \div Period
OneFrameAPeriod ==
  Period > 0 =>
    /\ \A i, j \in DOMAIN bag.down : i < j => Cell(bag.down[i]) < Cell(bag.down[j])
    /\ bag.open /\ bag.down # <<>> /\ cm2.at = "looking"
         => cm2.next = bag.down[1] + (Cell(bag.down[Len(bag.down)]) + 1) * Period

(* A recorder nobody stops and that does not fail records until a flight has ended.      *)
RecordsTheFlight ==
  stop /\ ~signalled /\ ~errors => StopOnDisarm /\ seen_armed

(* What ends with a failed thread says so.                                          *)
FailureIsReported == "failed" \in {cm2.at, ov.at} => errors

(* Types, cadence and reasons to stop.                                             *)
RecorderInv == TypeOK /\ OneFrameAPeriod /\ RecordsTheFlight /\ FailureIsReported

(* The bag of a recorder that is to stop, or one of whose threads has failed, is closed,  *)
(* though the camera may never answer again and threads outlive their join; but for a     *)
(* take-down that raises on its way there, which ends the main thread with the bag open.   *)
BagIsFinalized ==
  stop \/ "failed" \in {cm2.at, ov.at} ~> ~bag.open \/ main \in {"camera_raised", "pools_raised"}

(* Without that exception.  It does not hold: camera.close() and pool.close() are not     *)
(* guarded as camera.stop() and forward_pool.close() are.                            *)
BagIsAlwaysFinalized == stop \/ "failed" \in {cm2.at, ov.at} ~> ~bag.open

(* The process goes once the bag is closed; its threads are no daemons, so that one that  *)
(* waits for a stopped camera keeps it.                                             *)
ProcessExits == ~bag.open ~> Ended(cm2) /\ Ended(ov)
=============================================================================
