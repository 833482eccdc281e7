----------------------------- MODULE MCRanging -----------------------------
(* A pair with room for a retry, and three radios in each other's way.        *)
EXTENDS Ranging

Start(fleet, time, attempts, disturbances) ==
  /\ Init
  /\ present = fleet /\ now = MaxTime - time
  /\ polls = MaxPolls - attempts /\ faults = MaxFaults - disturbances

MCInit == \/ Start({1, 2}, 2, 2, 1)
          \/ Start({2, 3}, 1, 2, 1)
          \/ Start({1, 2, 3}, 0, 2, 0)
MCSpec == MCInit /\ [][Next]_vars /\ Fairness
=============================================================================
