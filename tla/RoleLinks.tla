------------------------------ MODULE RoleLinks ------------------------------
(***************************************************************************)
(* The sockets between the manager and the explorers (drones/roles): TCP     *)
(* connections to the manager in the order its listener queues them, one     *)
(* message per line; the orders the manager's connections leave at an        *)
(* explorer; and the datagrams on their way to the manager, which may be     *)
(* lost or overtake one another.                                            *)
(***************************************************************************)
EXTENDS Naturals, Sequences, FiniteSets

CONSTANTS
  Drones,      \* the explorers
  MaxFound,    \* MaxFound[d]: bound on the mines explorer d locates
  Batch,       \* coordinates in the buffer that make the finder send (10 in the code)
  Mortal,      \* the explorers that may go silent: power or Wi-Fi lost
  MaxBeats,    \* MaxBeats[d]: bound on the heartbeats of explorer d
  MaxOrders    \* bound on the orders an operator gives the manager

ASSUME LinkConstants ==
  /\ IsFiniteSet(Drones)
  /\ MaxFound \in [Drones -> Nat] /\ Batch \in Nat \ {0}
  /\ MaxBeats \in [Drones -> Nat]
  /\ Mortal \subseteq Drones /\ MaxOrders \in Nat

VARIABLES
  conns,       \* connections at the manager's listener; the first is the one it reads
  orders,      \* orders[d]: orders waiting in connections at explorer d
  datagrams,   \* UDP to the manager, in flight
  listening    \* the manager's TCP socket accepts connections

links == <<conns, orders, datagrams, listening>>

Orders == {"run_drones", "orbit_drones"}
Coords == UNION {{d} \X (1 .. MaxFound[d]) : d \in Drones}   \* whose mine, and which

Registration(d) == [type |-> "registration", drone |-> d]
Coordinates(c) == [type |-> "coordinates", coord |-> c]
Order(kind) == [type |-> kind]
Heartbeat(d) == [type |-> "heartbeat", drone |-> d]
Finished(d) == [type |-> "finished", drone |-> d]

Lines == {Registration(d) : d \in Drones} \cup {Coordinates(c) : c \in Coords}
         \cup {Order(kind) : kind \in Orders}
Datagrams == {Heartbeat(d) : d \in Drones} \cup {Finished(d) : d \in Drones}

(* Who holds a connection open: a thread of an explorer, or nobody.          *)
Threads == {"finder", "main"}
Closed == <<>>
Connection(lines, holder) == [lines |-> lines, holder |-> holder]
Connections == [lines : Seq(Lines), holder : (Drones \X Threads) \cup {Closed}]

LinksTypeOK ==
  /\ conns \in Seq(Connections)
  /\ orders \in [Drones -> Seq(Orders)]
  /\ datagrams \subseteq Datagrams
  /\ listening \in BOOLEAN

LinksInit ==
  /\ conns = <<>> /\ orders = [d \in Drones |-> <<>>]
  /\ datagrams = {} /\ listening = TRUE

(* A line on the connection a thread holds; one that was reset takes nothing. *)
Write(holder, line) ==
  [i \in DOMAIN conns |->
     IF conns[i].holder = holder THEN [conns[i] EXCEPT !.lines = Append(@, line)] ELSE conns[i]]

Close(holder) ==
  [i \in DOMAIN conns |->
     IF conns[i].holder = holder THEN [conns[i] EXCEPT !.holder = Closed] ELSE conns[i]]

IsReset(holder) == \A i \in DOMAIN conns : conns[i].holder # holder

(* UDP loses a datagram.                                                    *)
LoseDatagram ==
  /\ \E m \in datagrams : datagrams' = datagrams \ {m}
  /\ UNCHANGED <<conns, orders, listening>>

=============================================================================
