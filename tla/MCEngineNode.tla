---------------------------- MODULE MCEngineNode ----------------------------
(* A one lane field, a one petal rosette, and what a dump may come to.       *)
EXTENDS EngineNode

MCPad == <<0, 0>>
MCLaneSpots == {<<0, 0>>, <<1, 0>>}
MCWideSpots == {<<0, 0>>, <<1, 0>>, <<2, 0>>}    \* the last beyond a fence of radius 1
MCClusterSpot == [c \in {1} |-> <<1, 0>>]
MCNoPolygon == {}

MCHostAcks == [ok : {TRUE}, stalls : BOOLEAN]
MCHostRefuses == [ok : {FALSE}, stalls : BOOLEAN]
MCHostMayFail == [ok : BOOLEAN, stalls : BOOLEAN]
=============================================================================
