--------------------------- MODULE MCPhasedOrbits ---------------------------
(* One drone in every setup but the line; two in line and over their orbits;   *)
(* three over the line alone.                                                *)
EXTENDS PhasedOrbits, TLC

PerFleet(one, two, three) == (0 :> one) @@ (1 :> two) @@ (2 :> three)
MCShifts == {-1, 1}
MCOffsets == PerFleet({0, 1}, {0}, {0})
MCResets == PerFleet(1, 0, 0)
MCLost == PerFleet(1, 0, 1)
MCBegins == PerFleet(2, 1, 0)
MCEnds == PerFleet(2, 1, 0)
MCUpsets == PerFleet(2, 1, 3)

MCInit ==
  /\ Init
  /\ config.trim = (count > 1) /\ (count > 1 => ~config.excite)
MCSpec == MCInit /\ [][Next]_vars /\ Fairness
=============================================================================
