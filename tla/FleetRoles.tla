------------------------------ MODULE FleetRoles ------------------------------
(***************************************************************************)
(* The manager and its explorers together (drones/roles), each on its own    *)
(* clock: registration, heartbeats, orders, coordinates and the end of a     *)
(* mission, with datagrams lost or late and an explorer gone for good.       *)
(***************************************************************************)
EXTENDS ManagerDrone, ExploreDrone

vars == <<links, manager, explorer>>

Init == LinksInit /\ ManagerInit /\ ExplorerInit

(* An explorer's listener takes a connection.                                *)
Answers == [d \in Drones |-> Runs(d) /\ server[d] \in {"register", "serve"}]

TcpServer ==
  \/ Accepts \/ TcpEnds \/ ClientCloses \/ HandleCoordinates \/ HandleRegistration(Answers)
  \/ HandleOrder \/ RingsOn(Answers, lost) \/ RingsFail(lost) \/ RingsOut

UdpServer == HandleHeartbeat \/ HandleFinished \/ FinishedOutOfTurn \/ UdpEnds

ManagerStep == TimeIsUp \/ TakesResult \/ TcpServer \/ UdpServer \/ OperatorOrders

Next ==
  \/ ManagerStep /\ UNCHANGED explorer
  \/ (\E d \in Drones : ExplorerStep(d)) /\ UNCHANGED manager
  \/ LoseDatagram /\ UNCHANGED <<manager, explorer>>

(* The threads of a process run, and its time passes.  Nothing is assumed of  *)
(* the network, of the operator or of when a process is started.             *)
Sender(d, t) == Connects(d, t) \/ Sends(d, t) \/ ClosesSocket(d, t) \/ Resets(d, t)
Server(d) == Registers(d) \/ ShutsOff(d)
Finder(d) == FinderLoops(d) \/ FinderTests(d) \/ Locates(d) \/ Sender(d, "finder")
Main(d) == Joins(d) \/ Sender(d, "main") \/ Finishes(d)

Fairness ==
  /\ WF_vars(TcpServer /\ UNCHANGED explorer)
  /\ WF_vars(UdpServer /\ UNCHANGED explorer)
  /\ WF_vars(TakesResult /\ UNCHANGED explorer)
  /\ \A d \in Drones : /\ WF_vars(Server(d) /\ UNCHANGED manager)
                       /\ WF_vars(Finder(d) /\ UNCHANGED manager)
                       /\ WF_vars(Main(d) /\ UNCHANGED manager)

Spec == Init /\ [][Next]_vars /\ Fairness

-----------------------------------------------------------------------------
(* Every variable keeps its type; in particular a coordinate is written down  *)
(* at most twice, once for each thread that may send it (explorer.py:208,     *)
(* called from find_mines and from run_drone).                              *)
TypeOK == LinksTypeOK /\ ManagerTypeOK /\ ExplorerTypeOK

(* What had been found when the main thread began to send has been handed to  *)
(* a socket by the time it says `finished`, although the finder sends, and    *)
(* empties, the same list at the same time (explorer.py:208-232).            *)
SweptIsSent ==
  \A d \in Drones : pc[d].main \in {"finish", "ended"} => \A k \in 1 .. swept[d] : <<d, k>> \in sent

(* The roles keep their types, and nothing found before the last delivery is     *)
(* left behind by it.                                                       *)
RolesInv == TypeOK /\ SweptIsSent

(* The manager ends (manager.py:538) only when every drone in its table has   *)
(* said that it has finished, with datagrams lost, overtaken or answered by   *)
(* a drone it has written off.                                              *)
EndsWithTheLast ==
  [][~self_finished /\ self_finished' => \A d \in Known : pc[d].main = "ended"]_vars

(* What is handed to the pathfinder (manager.py:565-574) is not added to any   *)
(* more: both servers have been joined.                                     *)
ResultIsFinal == [][result => UNCHANGED received]_vars

(* An explorer whose time is up comes to an end with both its threads, unless *)
(* it is gone or the manager does not listen: a finder that waits for a       *)
(* detection is woken by the sentinel (explorer.py:539).                     *)
ExplorersEnd ==
  \A d \in Drones :
    stopping[d] ~> \/ pc[d].main \in Over /\ pc[d].finder \in Over
                   \/ lost[d] \/ ~listening

(* A manager that has heard the last `finished` takes its result, unless its   *)
(* TCP server reads from a lost explorer, for ever (manager.py:325).          *)
Abandoned == conns # <<>> /\ \E d \in Drones, t \in Threads : conns[1].holder = <<d, t>> /\ lost[d]
ManagerEnds == self_finished ~> result \/ Abandoned

(* Both roles end.                                                          *)
RolesEnd == ExplorersEnd /\ ManagerEnds

(* manager.py:45, "this flag is for indicating when the workers are done, and *)
(* we can close the server connections, since we may still want them open     *)
(* for drones if the master drone finishes first for example": when the       *)
(* result is taken because the workers are done, it has every coordinate that  *)
(* a worker had found when it began its last delivery.                       *)
WorkersAreHeard ==
  result /\ self_finished =>
    \A d \in Known : \A k \in 1 .. swept[d] : received[<<d, k>>] > 0

=============================================================================
