------------------------------- MODULE TagAnchor -------------------------------
(***************************************************************************)
(* core/anchor.py and the part of rim/engine_node.py that feeds it: ground    *)
(* tags seen again measure how PX4's local frame has moved.  Part of the      *)
(* motion PX4 announces (a reset), part it does not know of (drift).  The     *)
(* drift aborts the survey or, with anchor_corrects, is slewed into the        *)
(* setpoints.                                                              *)
(*                                                                         *)
(* The ground is one axis, so the fit of the tag pair is a shift; places are   *)
(* in quarters of a unit so that medians and means are whole.  Times are only  *)
(* compared with the four limits: fresh_s < persist_s < settle window < stale. *)
(***************************************************************************)
EXTENDS Integers, Sequences, FiniteSets

CONSTANTS
  Tags, TagAt,        \* anchor_tag_ids and where they lie
  SettleObs, SettleSpread, Gate, PairError, MaxCorrection, Step, \* AnchorConfig, CorrectionConfig
  AnchorResets, Drifts,          \* resets PX4 announces, drifts it does not
  MaxFixes, MaxPoses, MaxMoves   \* bounds: sightings and poses remembered, moves of the frame

VARIABLES
  corrects,    \* anchor_corrects; the guard is armed otherwise
  offset,      \* local frame minus ground: what PX4 announced, what it did not
  poses,       \* PoseHistory: the frames of the snapshots
  refs,        \* per tag: the sightings forming its datum, and the datum
  fixes,       \* per tag: recent settled fixes, the old ones and the fresh, oldest first
  breach,      \* _breach_t0: none, since less or more than persist_s
  correction,  \* target, applied, frame_shift, saturated
  engine,      \* "none" before /begin_survey, then "flies" or "abort"
  moved        \* how much of the bound is used

anchorVars == <<corrects, offset, poses, refs, fixes, breach, correction, engine, moved>>

Nowhere == [n |-> 0, known |-> FALSE]
At(n) == [n |-> n, known |-> TRUE]
NoFixes == [old |-> <<>>, fresh |-> <<>>]
Unseen == [pending |-> <<>>, origin |-> Nowhere]
Frame == offset.announced + offset.drift
Abs(n) == IF n < 0 THEN -n ELSE n

Init ==
  /\ corrects \in BOOLEAN
  /\ offset = [announced |-> 0, drift |-> 0] /\ poses = {0}
  /\ refs = [t \in Tags |-> Unseen]
  /\ fixes = [t \in Tags |-> NoFixes] /\ breach = "none"
  /\ correction = [target |-> 0, applied |-> 0, frame_shift |-> 0, saturated |-> FALSE]
  /\ engine = "none" /\ moved = 0

-------------------------------------------------------------------------------
(* What the tags say.                                                       *)
Total[s \in Seq(Int)] == IF s = <<>> THEN 0 ELSE Head(s) + Total[Tail(s)]
Mean(s) == Total[s] \div Len(s)
Last2(s) == SubSeq(s, (Len(s) \div 2) + 1, Len(s))

Rank(s, k) == Cardinality({j \in DOMAIN s : s[j] < s[k] \/ (s[j] = s[k] /\ j < k)})
Ordered(s, r) == s[CHOOSE k \in DOMAIN s : Rank(s, k) = r]
(* _median.                                                                *)
Median(s) ==
  LET m == Len(s) \div 2
  IN IF Len(s) % 2 = 1 THEN Ordered(s, m) ELSE (Ordered(s, m - 1) + Ordered(s, m)) \div 2

(* _correspondences and the fit: how far each tag seen recently was carried.   *)
Recent(t, fresh_only) == IF fresh_only THEN fixes[t].fresh ELSE fixes[t].old \o fixes[t].fresh
Correspondences(fresh_only) ==
  {[tag |-> t, by |-> Median(Recent(t, fresh_only)) - refs[t].origin.n] :
     t \in {t \in Tags : refs[t].origin.known /\ Recent(t, fresh_only) # <<>>}}
Sum[P \in SUBSET [tag : Tags, by : Int]] ==
  IF P = {} THEN 0 ELSE LET p == CHOOSE p \in P : TRUE IN p.by + Sum[P \ {p}]
Shift(pairs) == Sum[pairs] \div Cardinality(pairs)

(* drift, for the guard and for the correction (a fresh, consistent pair).     *)
DriftOf(pairs) == IF pairs = {} THEN Nowhere ELSE At(Shift(pairs))
Drift == DriftOf(Correspondences(FALSE))
Measurement ==
  LET pairs == Correspondences(TRUE)
  IN IF Cardinality(pairs) >= 2 /\ \A p, q \in pairs : Abs(p.by - q.by) <= PairError
     THEN At(Shift(pairs)) ELSE Nowhere

-------------------------------------------------------------------------------
(* _accumulate: the datum is the mean of a tight window; of a loose one the    *)
(* newer half is kept.                                                      *)
Accumulate(ref, at) ==
  LET window == Append(ref.pending, at)
      tight == \A k \in DOMAIN window : Abs(window[k] - Mean(window)) <= SettleSpread
  IN IF Len(window) < SettleObs THEN [ref EXCEPT !.pending = window]
     ELSE IF tight THEN [pending |-> <<>>, origin |-> At(Mean(window))]
     ELSE [ref EXCEPT !.pending = Last2(window)]

Remember(f, at) ==
  IF Len(f.old) + Len(f.fresh) < MaxFixes THEN [f EXCEPT !.fresh = Append(@, at)]
  ELSE IF f.old # <<>> THEN [old |-> Tail(f.old), fresh |-> Append(f.fresh, at)]
  ELSE [f EXCEPT !.fresh = Append(Tail(@), at)]

(* observe, of a sighting that passes the range and radial gates.             *)
Observe(t, at) ==
  IF refs[t].origin.known
  THEN fixes' = [fixes EXCEPT ![t] = Remember(@, at)] /\ UNCHANGED refs
  ELSE refs' = [refs EXCEPT ![t] = Accumulate(@, at)] /\ UNCHANGED fixes

(* disagreement, evaluated on every sighting.                               *)
Disagreement(drift) ==
  IF ~drift.known \/ Abs(drift.n) <= Gate THEN "none"
  ELSE IF breach = "none" THEN "since" ELSE breach

(* _observe_anchor: what is made of a breach that has lasted.                 *)
Guarded(verdict) ==
  IF verdict = "held" /\ engine = "flies" /\ (~corrects \/ correction.saturated)
  THEN "abort" ELSE engine

(* _detections_cb with a survey tag: back-projected from the nearest pose.     *)
SeesTag(t) ==
  /\ \E frame \in poses : Observe(t, TagAt[t] + frame)
  /\ \E drift \in {Drift'} : breach' = Disagreement(drift)
  /\ engine' = Guarded(breach')
  /\ UNCHANGED <<corrects, offset, poses, correction, moved>>

(* _begin_cb.                                                              *)
Begin ==
  /\ engine = "none" /\ engine' = "flies"
  /\ UNCHANGED <<corrects, offset, poses, refs, fixes, breach, correction, moved>>

-------------------------------------------------------------------------------
(* The frame.  A position PX4 sends is in its frame of the day.               *)
Moves == moved < MaxMoves /\ moved' = moved + 1
Drifting ==
  /\ Moves /\ \E d \in Drifts : offset' = [offset EXCEPT !.drift = @ + d]
  /\ UNCHANGED <<corrects, poses, refs, fixes, breach, correction, engine>>

PosCb ==
  /\ poses # {Frame}
  /\ poses' = {Frame} \cup (IF Cardinality(poses) < MaxPoses THEN poses ELSE {})
  /\ UNCHANGED <<corrects, offset, refs, fixes, breach, correction, engine, moved>>

MovedBy(s, d) == [k \in DOMAIN s |-> s[k] + d]
(* TagAnchorMap.apply_frame_reset.                                          *)
ApplyFrameReset(d) ==
  /\ refs' = [t \in Tags |->
       [pending |-> MovedBy(refs[t].pending, d),
        origin |-> [refs[t].origin EXCEPT !.n = IF refs[t].origin.known THEN @ + d ELSE @]]]
  /\ fixes' = [t \in Tags |-> [old |-> MovedBy(fixes[t].old, d), fresh |-> MovedBy(fixes[t].fresh, d)]]

(* A slip: old snapshots are kept.                                          *)
KeptPoses_All(d) == poses \cup {Frame + d}
(* poses.clear, and the pose of the message that announced the reset.          *)
KeptPoses(d) == {Frame + d}

(* SetpointCorrection.apply_frame_reset, once there is an engine.             *)
Rebase(c, d) == IF engine # "none" THEN [c EXCEPT !.frame_shift = @ + d] ELSE c

(* on_local_frame_reset and the rest of _pos_cb.                              *)
FrameReset ==
  /\ Moves
  /\ \E d \in AnchorResets :
       /\ offset' = [offset EXCEPT !.announced = @ + d]
       /\ ApplyFrameReset(d) /\ poses' = KeptPoses(d) /\ correction' = Rebase(correction, d)
  /\ UNCHANGED <<corrects, breach, engine>>

-------------------------------------------------------------------------------
(* Time passes: longer than a sighting is fresh and a breach is borne, than a   *)
(* settling window, than a sighting counts.                                  *)
Passes(long) ==
  /\ breach' = IF breach = "since" THEN "held" ELSE breach
  /\ fixes' = [t \in Tags |-> IF long = "stale" THEN NoFixes
                              ELSE [old |-> fixes[t].old \o fixes[t].fresh, fresh |-> <<>>]]
  /\ refs' = IF long = "persist" THEN refs ELSE [t \in Tags |-> [refs[t] EXCEPT !.pending = <<>>]]
  /\ <<breach, fixes, refs>>' # <<breach, fixes, refs>>
  /\ UNCHANGED <<corrects, offset, poses, correction, engine, moved>>

Clip(n) == IF n > MaxCorrection THEN MaxCorrection ELSE IF n < -MaxCorrection THEN -MaxCorrection ELSE n
(* A slip: a lost sight lets the correction go.                              *)
Retarget_Decays(c, m) ==
  [c EXCEPT !.saturated = m.known /\ Abs(m.n) > MaxCorrection, !.target = IF m.known THEN Clip(m.n) ELSE 0]
(* _retarget; without a measurement the target holds.                         *)
Retarget(c, m) ==
  IF ~m.known THEN c
  ELSE [c EXCEPT !.saturated = Abs(m.n) > MaxCorrection, !.target = Clip(m.n)]
(* _slew.                                                                  *)
Slewed(c) ==
  [c EXCEPT !.applied = IF Abs(c.target - @) <= Step THEN c.target
                        ELSE IF c.target > @ THEN @ + Step ELSE @ - Step]

(* compute_setpoint.                                                       *)
Tick ==
  /\ UNCHANGED <<corrects, offset, poses, refs, fixes, breach, engine, moved>>
  /\ engine # "none"
  /\ \E m \in {IF corrects /\ \E t \in Tags : refs[t] # Unseen THEN Measurement ELSE Nowhere} :
       correction' = Slewed(Retarget(correction, m))
  /\ correction' # correction

Next ==
  \/ \E t \in Tags : SeesTag(t)
  \/ Begin \/ Drifting \/ PosCb \/ FrameReset \/ Tick
  \/ \E long \in {"persist", "settle", "stale"} : Passes(long)

-------------------------------------------------------------------------------
(* to_flight; the place on the ground it means is less the frame.              *)
ToFlight(p) == p + correction.frame_shift + correction.applied

TypeOK ==
  /\ corrects \in BOOLEAN /\ offset \in [announced : Int, drift : Int]
  /\ poses \subseteq Int /\ poses # {}
  /\ refs \in [Tags -> [pending : Seq(Int), origin : [n : Int, known : BOOLEAN]]]
  /\ fixes \in [Tags -> [old : Seq(Int), fresh : Seq(Int)]]
  /\ \A t \in Tags : Len(Recent(t, FALSE)) <= MaxFixes /\ Len(refs[t].pending) < SettleObs
  /\ breach \in {"none", "since", "held"}
  /\ correction \in [target : Int, applied : Int, frame_shift : Int, saturated : BOOLEAN]
  /\ engine \in {"none", "flies", "abort"}
  /\ moved \in 0 .. MaxMoves

(* A reset PX4 announces is no drift: with the sightings and the datum moved    *)
(* together the drift that was measured stays, and the place on the ground      *)
(* that the current setpoint of a flying survey means does, too.               *)
ResetIsNoDrift ==
  [][offset'.announced # offset.announced =>
       /\ Drift' = Drift /\ Measurement' = Measurement
       /\ engine # "none" => ToFlight(0)' - Frame' = ToFlight(0) - Frame]_anchorVars

(* The drift that is measured lies within the drifts there   *)
(* have been: resets, however many and whenever in the forming of a datum, the  *)
(* pose buffer and the windows leave no trace in it.                          *)
Extent == LET most == MaxMoves * (CHOOSE n \in {Abs(d) : d \in Drifts} : \A d \in Drifts : Abs(d) <= n)
          IN -most .. most
MeasuresDriftOnly ==
  \A drift \in {Drift} : /\ drift.known => drift.n \in Extent
                        /\ offset.drift = 0 => drift.n = 0

(* A survey is aborted only when the frame has drifted, and with the correction   *)
(* on only when it has drifted further than the correction goes.                 *)
AbortNeedsDrift ==
  engine = "abort" => offset.drift # 0 /\ (corrects => Abs(offset.drift) > MaxCorrection)

(* The correction never goes past its limit, and what it has been told it       *)
(* keeps: it does not give back a known error while the tags are out of sight.  *)
CorrectionIsKept ==
  [][/\ Abs(correction'.applied) <= MaxCorrection
     /\ correction'.target # correction.target => Measurement.known]_anchorVars
=============================================================================
