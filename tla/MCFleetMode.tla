----------------------------- MODULE MCFleetMode -----------------------------
(* One commander, lost frames and a radio that starts over, or two commanders     *)
(* with queues of one and a mishap: the script fails, the host link drops, a      *)
(* radio starts over, or a drone is set by hand.                                 *)
EXTENDS FleetMode

CONSTANTS d1, d2, d3, m1, m2
VARIABLE setup

(* The setup of the constants has one commander.                                 *)
ASSUME OneCommander == Commanders = {d1}

Two == INSTANCE FleetMode WITH
  Drones <- {d1, d2}, Commanders <- {d1, d2}, Repeats <- 1, QueueDepth <- 1,
  MaxLost <- 0, MaxFailures <- 1, MaxDrops <- 1, MaxReinits <- 1, MaxLocal <- 1

MCInit == \/ setup = "one" /\ ModeInit
          \/ setup = "two" /\ Two!ModeInit

InOne == setup = "one" /\ UNCHANGED setup
InTwo == setup = "two" /\ UNCHANGED setup
OneMishap == failures' + drops' + reinits' + locals' <= 1
MCNext == \/ InOne /\ ModeNext
          \/ InTwo /\ Two!ModeNext /\ OneMishap

fleetVars == <<setup, modeVars>>

(* The fairness of either; the third drone is one of the first setup only.       *)
MCFairness ==
  \A d \in Drones :
    LET Both(One, Other) == \/ InOne /\ One
                            \/ d # d3 /\ InTwo /\ Other /\ OneMishap
    IN /\ \A t \in Threads : WF_fleetVars(Both(Publish(d, t), Two!Publish(d, t)))
       /\ WF_fleetVars(Both(QueueFromService(d), Two!QueueFromService(d)))
       /\ WF_fleetVars(Both(QueueFromReader(d), Two!QueueFromReader(d)))
       /\ WF_fleetVars(Both(TakeTarget(d), Two!TakeTarget(d)))
       /\ WF_fleetVars(Both(FinishApply(d) \/ FailApply(d), Two!FinishApply(d) \/ Two!FailApply(d)))
       /\ WF_fleetVars(Both(RaiseApplyError(d), Two!RaiseApplyError(d)))
       /\ WF_fleetVars(Both(Reconnect(d), Two!Reconnect(d)))
       /\ WF_fleetVars(Both(HandleCommand(d), Two!HandleCommand(d)))
       /\ WF_fleetVars(Both(SendMode(d), Two!SendMode(d)))

MCSpec == MCInit /\ [][MCNext]_fleetVars /\ MCFairness

-----------------------------------------------------------------------------
(* With one commander no drone goes back to an older mode, whatever is repeated    *)
(* when (gateway.py:178); with two the comment does not hold (FleetMode).         *)
NoStaleRequeueOfOne == [][setup = "one" => KeepsNewest]_modeVars

(* When the operators are done, a fleet with one commander ends up on its last      *)
(* mode (or, if a radio forgot its repeats, every drone on what it heard last), and *)
(* with two every drone that runs has applied what it requested last.               *)
FleetSettles ==
  <>[](IF setup = "two" THEN Two!CaughtUp ELSE CaughtUp /\ (reinits = 0 => OnNewest))
=============================================================================
