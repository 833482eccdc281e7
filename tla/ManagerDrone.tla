----------------------------- MODULE ManagerDrone -----------------------------
(***************************************************************************)
(* drones/roles/manager.py: the manager's TCP and UDP servers, which call    *)
(* handle_message from two threads, and the main thread that joins them.     *)
(* An exception in a handler (or exit(1), which is one) ends its thread.     *)
(*                                                                         *)
(* Its own camera and mine finder are left out: they share no message with   *)
(* the explorers.                                                           *)
(***************************************************************************)
EXTENDS RoleLinks

VARIABLES
  tcp,             \* tcp_server: accept, read, ring (handle_run_drones), ended, died
  udp,             \* udp_server: receive, ended, died
  late,            \* manager_shutoff_time is over
  self_finished,
  exp_drones,      \* what the table holds for a drone
  finished_drones,
  ringing,         \* drones the loop of handle_run_drones has yet to come to
  ring_size,       \* and the size of the table when it began
  kind,            \* the order it passes on, or "none"
  received,        \* received[c]: how often coordinate c is in detected_mine_data
  result,          \* main has handed the data to the pathfinder
  orders_left      \* orders the operator may still give

manager == <<tcp, udp, late, self_finished, exp_drones, finished_drones, ringing, ring_size,
             kind, received, result, orders_left>>

(* An entry is a record with a status, or, after five seconds of silence,     *)
(* just the string "idle".                                                  *)
Entries == {"unknown", "idle", "working", "finished", "string"}
Known == {d \in Drones : exp_drones[d] # "unknown"}

ManagerTypeOK ==
  /\ tcp \in {"accept", "read", "ring", "ended", "died"}
  /\ udp \in {"receive", "ended", "died"}
  /\ late \in BOOLEAN /\ self_finished \in BOOLEAN /\ result \in BOOLEAN
  /\ exp_drones \in [Drones -> Entries]
  /\ finished_drones \in 0 .. Cardinality(Drones)
  /\ ringing \subseteq Drones /\ ring_size \in 0 .. Cardinality(Drones)
  /\ kind \in Orders \cup {"none"}
  /\ received \in [Coords -> 0 .. 2]
  /\ orders_left \in 0 .. MaxOrders

ManagerInit ==
  /\ tcp = "accept" /\ udp = "receive"
  /\ late = FALSE /\ self_finished = FALSE /\ result = FALSE
  /\ exp_drones = [d \in Drones |-> "unknown"] /\ finished_drones = 0
  /\ ringing = {} /\ ring_size = 0 /\ kind = "none"
  /\ received = [c \in Coords |-> 0] /\ orders_left \in 0 .. MaxOrders

-----------------------------------------------------------------------------
(* run_drone: the servers are started and joined; then the result is taken.   *)

TimeIsUp ==
  /\ ~late
  /\ late' = TRUE
  /\ UNCHANGED <<tcp, udp, self_finished, exp_drones, finished_drones, ringing, ring_size, kind,
                 received, result, orders_left, links>>

TakesResult ==
  /\ tcp \in {"ended", "died"} /\ udp \in {"ended", "died"} /\ ~result
  /\ result' = TRUE
  /\ UNCHANGED <<tcp, udp, late, self_finished, exp_drones, finished_drones, ringing, ring_size,
                 kind, received, orders_left, links>>

-----------------------------------------------------------------------------
(* tcp_server.  Leaving its socket's `with`, by the end or by an exception,   *)
(* resets every connection.                                                 *)

TcpStops(at) == tcp' = at /\ listening' = FALSE /\ conns' = <<>>

(* The next connection, unless the ten seconds are over: then the loop only   *)
(* goes round.                                                              *)
Accepts ==
  /\ tcp = "accept" /\ ~self_finished /\ ~late /\ conns # <<>>
  /\ tcp' = "read"
  /\ UNCHANGED <<udp, late, self_finished, exp_drones, finished_drones, ringing, ring_size, kind,
                 received, result, orders_left, links>>

(* A slip: the loop is left by its timeout only.                             *)
TcpEnds_Shutoff ==
  /\ tcp = "accept" /\ self_finished /\ ~late
  /\ TcpStops("ended")
  /\ UNCHANGED <<udp, late, self_finished, exp_drones, finished_drones, ringing, ring_size, kind,
                 received, result, orders_left, orders, datagrams>>

TcpEnds ==
  /\ tcp = "accept" /\ self_finished
  /\ TcpStops("ended")
  /\ UNCHANGED <<udp, late, self_finished, exp_drones, finished_drones, ringing, ring_size, kind,
                 received, result, orders_left, orders, datagrams>>

(* The client has closed and every line is handled.                          *)
ClientCloses ==
  /\ tcp = "read" /\ conns[1].lines = <<>> /\ conns[1].holder = Closed
  /\ conns' = Tail(conns)
  /\ tcp' = "accept"
  /\ UNCHANGED <<udp, late, self_finished, exp_drones, finished_drones, ringing, ring_size, kind,
                 received, result, orders_left, orders, datagrams, listening>>

(* The next line of the connection being read.                               *)
Line == Head(conns[1].lines)
Reads(type) == tcp = "read" /\ conns[1].lines # <<>> /\ Line.type = type
LineRead == conns' = [conns EXCEPT ![1].lines = Tail(@)]

(* handle_coordinates: only from a drone in the table.                       *)
HandleCoordinates ==
  /\ Reads("coordinates") /\ LineRead
  /\ received' = IF Line.coord[1] \in Known THEN [received EXCEPT ![Line.coord] = @ + 1]
                 ELSE received
  /\ UNCHANGED <<tcp, udp, late, self_finished, exp_drones, finished_drones, ringing, ring_size,
                 kind, result, orders_left, orders, datagrams, listening>>

(* handle_registration: the table, then the acknowledgement, which raises     *)
(* when the explorer does not take it.                                      *)
HandleRegistration(answers) ==
  /\ Reads("registration")
  /\ exp_drones' = [exp_drones EXCEPT ![Line.drone] = "idle"]
  /\ IF answers[Line.drone] THEN LineRead /\ UNCHANGED <<tcp, listening>> ELSE TcpStops("died")
  /\ UNCHANGED <<udp, late, self_finished, finished_drones, ringing, ring_size, kind, received,
                 result, orders_left, orders, datagrams>>

(* handle_run_drones and handle_orbit: a loop over the table, which the UDP   *)
(* thread goes on changing, with a connection to every working drone in it.   *)
HandleOrder ==
  /\ \E k \in Orders : Reads(k)
  /\ LineRead
  /\ tcp' = "ring" /\ kind' = Line.type
  /\ ringing' = Known /\ ring_size' = Cardinality(Known)
  /\ UNCHANGED <<udp, late, self_finished, exp_drones, finished_drones, received, result, orders_left,
                 orders, datagrams, listening>>

(* A table that has grown ends the loop with an exception, as does an entry   *)
(* that is a string and a drone whose connection times out; a refused one is  *)
(* skipped.                                                                 *)
RingsOn(answers, lost) ==
  /\ tcp = "ring" /\ Cardinality(Known) = ring_size
  /\ \E d \in ringing :
       /\ exp_drones[d] # "string" /\ ~(exp_drones[d] = "working" /\ lost[d])
       /\ ringing' = ringing \ {d}
       /\ orders' = IF exp_drones[d] = "working" /\ answers[d]
                    THEN [orders EXCEPT ![d] = Append(@, kind)] ELSE orders
  /\ UNCHANGED <<tcp, udp, late, self_finished, exp_drones, finished_drones, ring_size, kind,
                 received, result, orders_left, conns, datagrams, listening>>

RingsFail(lost) ==
  /\ tcp = "ring"
  /\ \/ Cardinality(Known) # ring_size
     \/ \E d \in ringing : exp_drones[d] = "string" \/ (exp_drones[d] = "working" /\ lost[d])
  /\ TcpStops("died")
  /\ ringing' = {} /\ ring_size' = 0 /\ kind' = "none"
  /\ UNCHANGED <<udp, late, self_finished, exp_drones, finished_drones, received, result, orders_left,
                 orders, datagrams>>

RingsOut ==
  /\ tcp = "ring" /\ ringing = {} /\ Cardinality(Known) = ring_size
  /\ tcp' = "read"
  /\ ring_size' = 0 /\ kind' = "none"
  /\ UNCHANGED <<udp, late, self_finished, exp_drones, finished_drones, ringing, received, result,
                 orders_left, links>>

(* The operator's client.                                                   *)
OperatorOrders ==
  /\ listening /\ orders_left > 0
  /\ \E k \in Orders : conns' = Append(conns, Connection(<<Order(k)>>, Closed))
  /\ orders_left' = orders_left - 1
  /\ UNCHANGED <<tcp, udp, late, self_finished, exp_drones, finished_drones, ringing, ring_size,
                 kind, received, result, orders, datagrams, listening>>

-----------------------------------------------------------------------------
(* udp_server.                                                              *)

(* After a datagram, every drone of the table not heard for five seconds      *)
(* loses its record; which these are is for the network to say.              *)
Silenced(table, heard) ==
  \E quiet \in SUBSET {d \in Drones \ heard : table[d] # "unknown"} :
    exp_drones' = [d \in Drones |-> IF d \in quiet THEN "string" ELSE table[d]]

UdpIs(at, m) ==
  /\ udp' = at
  /\ datagrams' = datagrams \ {m}

HandleHeartbeat ==
  /\ udp = "receive" /\ ~self_finished
  /\ \E d \in Drones :
       /\ Heartbeat(d) \in datagrams
       /\ UdpIs("receive", Heartbeat(d))
       /\ Silenced([exp_drones EXCEPT ![d] = "working"], {d})
  /\ UNCHANGED <<tcp, late, self_finished, finished_drones, ringing, ring_size, kind, received,
                 result, orders_left, conns, orders, listening>>

(* A slip: nobody is working any more.                                       *)
LastOne_OfTheWorking(d) == \A x \in Drones \ {d} : exp_drones[x] # "working"
(* finished_drones has come up to the size of the table.                      *)
LastOne(d) == finished_drones + 1 = Cardinality(Known)

(* handle_finished: once for a drone that was working; the last of the table  *)
(* ends the servers.                                                        *)
HandleFinished ==
  /\ udp = "receive" /\ ~self_finished
  /\ \E d \in Drones :
       /\ Finished(d) \in datagrams
       /\ exp_drones[d] = "working"
       /\ UdpIs("receive", Finished(d))
       /\ finished_drones' = finished_drones + 1
       /\ self_finished' = LastOne(d)
       /\ Silenced([exp_drones EXCEPT ![d] = "finished"], {})
  /\ UNCHANGED <<tcp, late, ringing, ring_size, kind, received, result, orders_left, conns, orders,
                 listening>>

(* Any other entry: no key, a string that has no status, or exit(1).          *)
FinishedOutOfTurn ==
  /\ udp = "receive" /\ ~self_finished
  /\ \E d \in Drones : /\ Finished(d) \in datagrams /\ exp_drones[d] # "working"
                       /\ UdpIs("died", Finished(d))
  /\ UNCHANGED <<tcp, late, self_finished, exp_drones, finished_drones, ringing, ring_size, kind,
                 received, result, orders_left, conns, orders, listening>>

UdpEnds ==
  /\ udp = "receive" /\ self_finished
  /\ udp' = "ended"
  /\ UNCHANGED <<tcp, late, self_finished, exp_drones, finished_drones, ringing, ring_size, kind,
                 received, result, orders_left, links>>

=============================================================================
