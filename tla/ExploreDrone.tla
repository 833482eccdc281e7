----------------------------- MODULE ExploreDrone -----------------------------
(***************************************************************************)
(* drones/roles/explorer.py: one explorer, its four threads (TCP server,     *)
(* heartbeat, mine finder, main) and its camera, indexed by the drone.       *)
(*                                                                         *)
(* send_buffer is a Python list that grows with `coords` and is rebound to    *)
(* [] when it has been sent, so every buffer there ever was is a stretch of   *)
(* `coords`: the present one is what was found after cut[d].  A sender walks  *)
(* the list it took, to its present end, or to where it was cut off.          *)
(***************************************************************************)
EXTENDS RoleLinks

VARIABLES
  server,      \* tcp_server: register, serve, ended
  stopping,    \* shutdown_flag
  flying,      \* the mission node exists and spins
  boxes,       \* detections in timestamp_bounding_boxes
  sentinel,    \* main has put the -1 that ends the queue
  found,       \* how many coordinates have been located
  cut,         \* where send_buffer starts
  pc,          \* pc[d][t]: where the finder and the main thread are
  next,        \* next[d][t]: the coordinate a sender puts on the wire next
  end,         \* end[d][t]: where the list it walks was cut off, 0 while it is the buffer
  lost,        \* the drone is gone: it neither runs nor answers
  beats,       \* heartbeats sent
  (* history *)
  sent,        \* coordinates put on a connection
  swept        \* what had been found when the main thread began to send

explorer == <<server, stopping, flying, boxes, sentinel, found, cut, pc, next, end, lost,
              beats, sent, swept>>

FinderAt == {"loop", "test", "wait", "locate", "connect", "send", "reset", "ended", "died"}
MainAt == {"join", "connect", "send", "reset", "finish", "ended", "died"}
Over == {"ended", "died"}

ExplorerTypeOK ==
  /\ server \in [Drones -> {"register", "serve", "ended"}]
  /\ stopping \in [Drones -> BOOLEAN] /\ flying \in [Drones -> BOOLEAN]
  /\ sentinel \in [Drones -> BOOLEAN] /\ lost \in [Drones -> BOOLEAN]
  /\ pc \in [Drones -> [Threads -> FinderAt \cup MainAt]]
  /\ \A d \in Drones :
       /\ pc[d].finder \in FinderAt /\ pc[d].main \in MainAt
       /\ boxes[d] \in 0 .. MaxFound[d] /\ found[d] \in 0 .. MaxFound[d]
       /\ cut[d] \in 0 .. found[d] /\ swept[d] \in 0 .. found[d]
       /\ beats[d] \in 0 .. MaxBeats[d]
       /\ \A t \in Threads : /\ next[d][t] \in 1 .. MaxFound[d] + 1
                             /\ end[d][t] \in 0 .. MaxFound[d] + 1
  /\ sent \subseteq Coords

ExplorerInit ==
  /\ server = [d \in Drones |-> "register"]
  /\ stopping = [d \in Drones |-> FALSE] /\ flying = [d \in Drones |-> FALSE]
  /\ boxes = [d \in Drones |-> 0] /\ sentinel = [d \in Drones |-> FALSE]
  /\ found = [d \in Drones |-> 0] /\ cut = [d \in Drones |-> 0]
  /\ pc = [d \in Drones |-> [t \in Threads |-> IF t = "main" THEN "join" ELSE "wait"]]
  /\ next = [d \in Drones |-> [t \in Threads |-> 1]]
  /\ end = [d \in Drones |-> [t \in Threads |-> 0]]
  /\ lost \in [Drones -> BOOLEAN] /\ beats = [d \in Drones |-> 0]
  /\ sent = {} /\ swept = [d \in Drones |-> 0]

Runs(d) == ~lost[d]
Goes(d, t, to) == pc' = [pc EXCEPT ![d][t] = to]

-----------------------------------------------------------------------------
(* The TCP server and the heartbeat.                                        *)

(* register(): tries until the manager listens.                              *)
Registers(d) ==
  /\ Runs(d) /\ server[d] = "register" /\ listening
  /\ server' = [server EXCEPT ![d] = "serve"]
  /\ conns' = Append(conns, Connection(<<Registration(d)>>, Closed))
  /\ UNCHANGED <<stopping, flying, boxes, sentinel, found, cut, pc, next, end, lost, beats, sent, swept>>
  /\ UNCHANGED <<orders, datagrams, listening>>

(* handle_message: an explorer knows run_drones (and the acknowledgement,     *)
(* which changes nothing any more), and no orbit_drones.                     *)
Obeys(d) ==
  /\ Runs(d) /\ server[d] = "serve" /\ ~stopping[d] /\ orders[d] # <<>>
  /\ orders' = [orders EXCEPT ![d] = Tail(@)]
  /\ flying' = [flying EXCEPT ![d] = @ \/ Head(orders[d]) = "run_drones"]
  /\ UNCHANGED <<server, stopping, boxes, sentinel, found, cut, pc, next, end, lost, beats, sent, swept>>
  /\ UNCHANGED <<conns, datagrams, listening>>

(* worker_shutoff_time is over: the next turn of the accept loop ends it.     *)
ShutsOff(d) ==
  /\ Runs(d) /\ server[d] = "serve"
  /\ stopping' = [stopping EXCEPT ![d] = TRUE]
  /\ server' = [server EXCEPT ![d] = "ended"]
  /\ UNCHANGED <<flying, boxes, sentinel, found, cut, pc, next, end, lost, beats, sent, swept,
                 links>>

(* send_heartbeat, once a second until the flag.                             *)
Beats(d) ==
  /\ Runs(d) /\ ~stopping[d]
  /\ beats[d] < MaxBeats[d]
  /\ beats' = [beats EXCEPT ![d] = @ + 1]
  /\ datagrams' = datagrams \cup {Heartbeat(d)}
  /\ UNCHANGED <<server, stopping, flying, boxes, sentinel, found, cut, pc, next, end, lost, sent,
                 swept, conns, orders, listening>>

(* The camera thread, once the first GPS message has woken it.                  *)
Detects(d) ==
  /\ Runs(d) /\ flying[d] /\ ~stopping[d]
  /\ boxes[d] + found[d] + (IF pc[d].finder = "locate" THEN 1 ELSE 0) < MaxFound[d]
  /\ boxes' = [boxes EXCEPT ![d] = @ + 1]
  /\ UNCHANGED <<server, stopping, flying, sentinel, found, cut, pc, next, end, lost, beats, sent, swept,
                 links>>

-----------------------------------------------------------------------------
(* find_mines.                                                              *)

(* The loop asks for the flag, then the condition for a detection (or the     *)
(* sentinel); with the flag seen it returns, otherwise it takes the oldest.   *)
FinderLoops(d) ==
  /\ Runs(d) /\ pc[d].finder = "loop"
  /\ Goes(d, "finder", IF stopping[d] THEN "ended" ELSE "test")
  /\ UNCHANGED <<server, stopping, flying, boxes, sentinel, found, cut, next, end, lost, beats, sent,
                 swept, links>>

FinderTests(d) ==
  /\ Runs(d) /\ pc[d].finder = "test"
  /\ \/ /\ boxes[d] = 0 /\ ~sentinel[d]
        /\ Goes(d, "finder", "wait") /\ UNCHANGED boxes
     \/ /\ boxes[d] > 0 \/ sentinel[d]
        /\ stopping[d]
        /\ Goes(d, "finder", "ended") /\ UNCHANGED boxes
     \/ /\ boxes[d] > 0 /\ ~stopping[d]
        /\ Goes(d, "finder", "locate") /\ boxes' = [boxes EXCEPT ![d] = @ - 1]
  /\ UNCHANGED <<server, stopping, flying, sentinel, found, cut, next, end, lost, beats, sent, swept,
                 links>>

(* gps_callback notifies the condition while the node spins (whichever        *)
(* thread waits for it: the camera may have it instead).                     *)
GpsNotifies(d) ==
  /\ Runs(d) /\ pc[d].finder = "wait" /\ flying[d] /\ ~stopping[d]
  /\ Goes(d, "finder", "test")
  /\ UNCHANGED <<server, stopping, flying, boxes, sentinel, found, cut, next, end, lost, beats, sent,
                 swept, links>>

(* The detection becomes a coordinate, or is not a number; a full buffer is   *)
(* sent.                                                                    *)
Locates(d) ==
  /\ Runs(d) /\ pc[d].finder = "locate"
  /\ \/ /\ found' = [found EXCEPT ![d] = @ + 1]
        /\ Goes(d, "finder", IF found[d] + 1 - cut[d] >= Batch THEN "connect" ELSE "loop")
     \/ Goes(d, "finder", "loop") /\ UNCHANGED found
  /\ UNCHANGED <<server, stopping, flying, boxes, sentinel, cut, next, end, lost, beats, sent, swept,
                 links>>

-----------------------------------------------------------------------------
(* send_coords, run by the finder and by the main thread.                    *)

(* A slip: the buffer is emptied when it is taken.                           *)
Connects_Empties(d, t) ==
  /\ Runs(d) /\ pc[d][t] = "connect" /\ listening
  /\ conns' = Append(conns, Connection(<<>>, <<d, t>>))
  /\ Goes(d, t, "send")
  /\ next' = [next EXCEPT ![d][t] = cut[d] + 1]
  /\ end' = [end EXCEPT ![d][t] = found[d] + 1]
  /\ cut' = [cut EXCEPT ![d] = found[d]]
  /\ swept' = IF t = "main" THEN [swept EXCEPT ![d] = found[d]] ELSE swept
  /\ UNCHANGED <<server, stopping, flying, boxes, sentinel, found, lost, beats, sent,
                 orders, datagrams, listening>>

(* Connects as soon as the manager listens, and takes the buffer to walk.     *)
Connects(d, t) ==
  /\ Runs(d) /\ pc[d][t] = "connect" /\ listening
  /\ conns' = Append(conns, Connection(<<>>, <<d, t>>))
  /\ Goes(d, t, "send")
  /\ next' = [next EXCEPT ![d][t] = cut[d] + 1]
  /\ end' = [end EXCEPT ![d][t] = 0]
  /\ swept' = IF t = "main" THEN [swept EXCEPT ![d] = found[d]] ELSE swept
  /\ UNCHANGED <<server, stopping, flying, boxes, sentinel, found, cut, lost, beats, sent>>
  /\ UNCHANGED <<orders, datagrams, listening>>

ForgetsList(d, t) == next' = [next EXCEPT ![d][t] = 1] /\ end' = [end EXCEPT ![d][t] = 0]
WalkEnds(d, t) == IF end[d][t] = 0 THEN found[d] + 1 ELSE end[d][t]

Sends(d, t) ==
  /\ Runs(d) /\ pc[d][t] = "send" /\ next[d][t] < WalkEnds(d, t)
  /\ conns' = Write(<<d, t>>, Coordinates(<<d, next[d][t]>>))
  /\ sent' = sent \cup {<<d, next[d][t]>>}
  /\ next' = [next EXCEPT ![d][t] = @ + 1]
  /\ UNCHANGED <<server, stopping, flying, boxes, sentinel, found, cut, pc, end, lost, beats, swept>>
  /\ UNCHANGED <<orders, datagrams, listening>>

(* The end of the list: the socket is closed ...                             *)
ClosesSocket(d, t) ==
  /\ Runs(d) /\ pc[d][t] = "send" /\ next[d][t] >= WalkEnds(d, t)
  /\ conns' = Close(<<d, t>>)
  /\ Goes(d, t, "reset") /\ ForgetsList(d, t)
  /\ UNCHANGED <<server, stopping, flying, boxes, sentinel, found, cut, lost, beats, sent, swept>>
  /\ UNCHANGED <<orders, datagrams, listening>>

(* ... and the buffer replaced by an empty one, whatever it holds by now.     *)
Resets(d, t) ==
  /\ Runs(d) /\ pc[d][t] = "reset"
  /\ cut' = [cut EXCEPT ![d] = found[d]]
  /\ end' = [end EXCEPT ![d] =
               [u \in Threads |-> IF u # t /\ pc[d][u] = "send" /\ @[u] = 0 THEN found[d] + 1
                                  ELSE @[u]]]
  /\ Goes(d, t, IF t = "main" THEN "finish" ELSE "loop")
  /\ UNCHANGED <<server, stopping, flying, boxes, sentinel, found, next, lost, beats, sent, swept,
                 links>>

(* The manager has reset the connection: sendall raises and the thread dies.  *)
SendFails(d, t) ==
  /\ Runs(d) /\ pc[d][t] = "send" /\ next[d][t] < WalkEnds(d, t) /\ IsReset(<<d, t>>)
  /\ Goes(d, t, "died") /\ ForgetsList(d, t)
  /\ UNCHANGED <<server, stopping, flying, boxes, sentinel, found, cut, lost, beats, sent, swept,
                 links>>

-----------------------------------------------------------------------------
(* run_drone after the threads are started.                                  *)

(* Both joins return: the server has ended and the flag ends the heartbeat.   *)
Joins(d) ==
  /\ Runs(d) /\ pc[d].main = "join" /\ server[d] = "ended" /\ stopping[d]
  /\ Goes(d, "main", "connect")
  /\ UNCHANGED <<server, stopping, flying, boxes, sentinel, found, cut, next, end, lost, beats, sent, swept,
                 links>>

(* send_finished, the sentinel and the notification of the finder.           *)
Finishes(d) ==
  /\ Runs(d) /\ pc[d].main = "finish"
  /\ pc' = [pc EXCEPT ![d].main = "ended",
                      ![d].finder = IF @ = "wait" THEN "test" ELSE @]
  /\ datagrams' = datagrams \cup {Finished(d)}
  /\ sentinel' = [sentinel EXCEPT ![d] = TRUE]
  /\ UNCHANGED <<server, stopping, flying, boxes, found, cut, next, end, lost, beats, sent, swept>>
  /\ UNCHANGED <<conns, orders, listening>>

(* Power or Wi-Fi is gone; what it had connected to stays open.              *)
IsLost(d) ==
  /\ ~lost[d] /\ d \in Mortal
  /\ lost' = [lost EXCEPT ![d] = TRUE]
  /\ UNCHANGED <<server, stopping, flying, boxes, sentinel, found, cut, pc, next, end, beats, sent, swept,
                 links>>

ExplorerStep(d) ==
  \/ Registers(d) \/ Obeys(d) \/ ShutsOff(d) \/ Beats(d) \/ Detects(d)
  \/ FinderLoops(d) \/ FinderTests(d) \/ GpsNotifies(d) \/ Locates(d)
  \/ \E t \in Threads : \/ Connects(d, t) \/ Sends(d, t) \/ ClosesSocket(d, t)
                        \/ Resets(d, t) \/ SendFails(d, t)
  \/ Joins(d) \/ Finishes(d) \/ IsLost(d)

=============================================================================
