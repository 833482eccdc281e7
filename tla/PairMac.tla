------------------------------- MODULE PairMac -------------------------------
(***************************************************************************)
(* The medium-access state a radio keeps for each of its pairs               *)
(* (uwb/protocol/src/scheduler.rs): when the pair is due, when it was last    *)
(* attempted, until when it counts as close, how often it failed in a row.   *)
(* Optional values are sets of at most one element, times are in ticks of    *)
(* the close period or finer.                                              *)
(***************************************************************************)
EXTENDS Naturals, FiniteSetsExt

CONSTANTS
  ClosePeriod,  \* CLOSE_PERIOD_US
  FarPeriod,    \* FAR_PERIOD_US
  CloseExpiry,  \* CLOSE_EXPIRY_US
  MaxBackoff    \* MAX_BACKOFF_US

ASSUME MacConstants ==
  /\ ClosePeriod \in Nat \ {0} /\ FarPeriod \in Nat /\ CloseExpiry \in Nat /\ MaxBackoff \in Nat
  /\ ClosePeriod <= FarPeriod /\ FarPeriod <= MaxBackoff

MaxExponent == 3
MacStates == [due : Nat, last : SUBSET Nat, close_until : SUBSET Nat, failures : 0 .. MaxExponent]

(* A pair starts at a random phase of the far period.                        *)
Initialize(now, phase) ==
  [due |-> now + phase, last |-> {}, close_until |-> {}, failures |-> 0]
Phases == 0 .. FarPeriod - 1

IsClose(m, now) == \E until \in m.close_until : now <= until
Period(m, now) == IF IsClose(m, now) THEN ClosePeriod ELSE FarPeriod
IsDue(m, now) == now >= m.due

BeginAttempt(m, now) == [m EXCEPT !.last = {now}]
Expire(m, now) == [m EXCEPT !.close_until = {until \in @ : now <= until}]

RecordSuccess(m, now, close) ==
  LET seen == [m EXCEPT !.failures = 0,
                        !.close_until = IF close THEN {now + CloseExpiry} ELSE {}]
      anchor == IF m.last = {} THEN now ELSE CHOOSE t \in m.last : TRUE
  IN [seen EXCEPT !.due = Max({anchor + Period(seen, now), now})]

(* The retry window doubles with each failure, up to the longest backoff; a  *)
(* random delay within it keeps two initiators apart.                        *)
Doubled == <<2, 4, 8>>    \* 1 << exponent
RetryWindow(m, now, failures) == Min({Period(m, now) * Doubled[failures], MaxBackoff})
RecordFailures(m, now) ==
  LET failures == Min({m.failures + 1, MaxExponent})
      extra == 0 .. RetryWindow(m, now, failures) - Period(m, now)
  IN {[m EXCEPT !.failures = failures, !.due = now + Period(m, now) + e] : e \in extra}

(* A pair is close below CLOSE_ENTER_MM and stays so below CLOSE_EXIT_MM.     *)
Distances == {"near", "between", "far"}
ClassifyRange(previously_close, distance) ==
  distance = "near" \/ (previously_close /\ distance = "between")

=============================================================================
