-------------------------- MODULE MissionLifecycle --------------------------
(***************************************************************************)
(* What a survey mission promises, whatever its pattern, guards and rim:    *)
(* the docstring of core/mission.py, "takeoff -> survey -> egress -> dump   *)
(* -> settle -> land, abort from anywhere".                                 *)
(***************************************************************************)
CONSTANT Restarts   \* the process may die, and a fresh one knows nothing

VARIABLES
  stage,      \* how far the mission has come
  aborted,    \* a guard or an operator has given the survey up
  delivered   \* the mine log has been acknowledged

lifecycle == <<stage, aborted, delivered>>

Stages == {"waiting", "surveying", "homing", "delivering", "settling", "landing", "ended"}

Init == stage = "waiting" /\ aborted = FALSE /\ delivered = FALSE

Begin ==
  /\ stage = "waiting"
  /\ stage' = "surveying"
  /\ UNCHANGED <<aborted, delivered>>

(* The survey is flown to its end: head home, or be there already.          *)
FinishSurvey ==
  /\ stage = "surveying"
  /\ stage' = "homing"
  /\ UNCHANGED <<aborted, delivered>>

ArriveAndDeliver ==
  /\ stage \in {"surveying", "homing"} /\ ~aborted
  /\ stage' = "delivering"
  /\ delivered' \in BOOLEAN
  /\ UNCHANGED aborted

Acknowledge ==
  /\ stage = "delivering"
  /\ delivered' = TRUE
  /\ UNCHANGED <<stage, aborted>>

(* Only a delivered log or an aborted mission goes on to the landing.       *)
Settle ==
  /\ \/ stage = "delivering" /\ delivered
     \/ stage = "homing" /\ aborted
  /\ stage' = "settling"
  /\ UNCHANGED <<aborted, delivered>>

Land ==
  /\ \/ stage = "settling" /\ stage' = "landing"
     \/ stage = "landing" /\ stage' = "ended"
  /\ UNCHANGED <<aborted, delivered>>

(* From anywhere; the way home may already be flown.                        *)
Abort ==
  /\ stage # "ended"
  /\ aborted' = TRUE
  /\ stage' \in {"homing", "settling"}
  /\ UNCHANGED delivered

(* A fresh process waits to be begun again.                                 *)
StartOver ==
  /\ Restarts
  /\ stage' = "waiting" /\ aborted' = FALSE /\ delivered' = FALSE

Next == \/ Begin \/ FinishSurvey \/ ArriveAndDeliver \/ Acknowledge
        \/ Settle \/ Land \/ Abort \/ StartOver

Spec == Init /\ [][Next]_lifecycle

=============================================================================
