---------------------------- MODULE MCFleetRoles ----------------------------
(* Two explorers that find nothing, or another one alone, with mines to find, *)
(* orders that may send it off, and the chance to be lost.                    *)
EXTENDS FleetRoles

CONSTANTS d1, d2, d3

MCFound == [d \in Drones |-> IF d = d3 THEN 2 ELSE 0]
MCBeats == [d \in Drones |-> 1]

MCInit ==
  /\ Init
  /\ \/ {d \in Drones : ~lost[d]} = {d1, d2} /\ orders_left = 0
     \/ {d \in Drones : ~lost[d]} = {d3} /\ orders_left = MaxOrders
MCSpec == MCInit /\ [][Next]_vars /\ Fairness
=============================================================================
