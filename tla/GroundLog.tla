------------------------------ MODULE GroundLog ------------------------------
(***************************************************************************)
(* What a survey keeps of the ground: core/minelog.py (clusters of hits),      *)
(* core/visibility.py (when each cell was in view) and the payload             *)
(* core/dumpproto.py builds of them.  Both cut time into passes at the same     *)
(* gap, one by the hits, the other by the frames.                             *)
(*                                                                         *)
(* The ground is one axis; a frame shows whole cells (the projection is left    *)
(* out) and every hit has a global fix.  A place is kept as its weighted sum.   *)
(***************************************************************************)
EXTENDS Integers, Sequences, FiniteSets

CONSTANTS
  Mines, Tagged,            \* where they lie, and which bear a tag
  Cells, CellSize,          \* the cells of the ledger and their length, cell_m
  Errors, Confidences,      \* of a hit
  GateM, RevisitGap,        \* gate_m, and pass_gap_s = revisit_gap_s
  ConfirmObs, ConfirmPasses,
  MaxTime, MaxHits          \* bounds

VARIABLES
  now, view,    \* the time of the last frame and the cells it showed
  clusters,     \* MineLog.clusters
  visits,       \* VisibilityLedger.cells
  dip,          \* cluster the engine is dipping at, or 0
  payload,      \* what was delivered of each cluster, <<>> before
  frames, hits  \* history: <<t, cell>> of the frames, <<t, cluster, mine>> of the hits

groundVars == <<now, view, clusters, visits, dip, payload, frames, hits>>

Init ==
  /\ now = 0 /\ view = {} /\ clusters = <<>> /\ visits = [i \in Cells |-> <<>>]
  /\ dip = 0 /\ payload = <<>> /\ frames = {} /\ hits = {}

CellOf(p) == p \div CellSize
Abs(n) == IF n < 0 THEN -n ELSE n

-------------------------------------------------------------------------------
(* note_pose, for one cell in view.                                          *)
NoteCell(seen, t) ==
  IF seen = <<>> \/ t - seen[Len(seen)].t1 > RevisitGap
  THEN Append(seen, [t0 |-> t, t1 |-> t, n_frames |-> 1])
  ELSE [seen EXCEPT ![Len(seen)].t1 = t, ![Len(seen)].n_frames = @ + 1]

NotePose(t, shown) ==
  /\ t \in now + 1 .. MaxTime /\ now' = t /\ view' = shown
  /\ visits' = [i \in Cells |-> IF i \in shown THEN NoteCell(visits[i], t) ELSE visits[i]]
  /\ frames' = frames \cup {<<t, i>> : i \in shown}
  /\ UNCHANGED <<clusters, dip, payload, hits>>

(* _cell_seen.                                                              *)
CellSeen(i, w0, w1) ==
  \E k \in DOMAIN visits[i] : visits[i][k].t0 <= w1 /\ visits[i][k].t1 >= w0
(* query: of the cells within the margin, all, some or none were in view.       *)
Within(p, margin) == {i \in Cells : Abs(2 * i * CellSize + CellSize - 2 * p) <= 2 * margin} \cup {CellOf(p)}
Query(p, margin, w0, w1) ==
  LET seen == {i \in Within(p, margin) : CellSeen(i, w0, w1)}
  IN IF seen = {} THEN "unseen" ELSE IF seen = Within(p, margin) THEN "observed" ELSE "edge"

-------------------------------------------------------------------------------
(* MineLog.                                                                 *)
(* The distance of a hit from a centroid, times the weight of the cluster.       *)
Off(c, p) == Abs(p * c.weight - c.sum)
Nearer(c, d, p) == Off(c, p) * d.weight <= Off(d, p) * c.weight
Nearest(p) ==
  CHOOSE k \in DOMAIN clusters : \A l \in DOMAIN clusters :
    IF k <= l THEN Nearer(clusters[k], clusters[l], p) ELSE ~Nearer(clusters[l], clusters[k], p)

Founded(t) ==
  [sum |-> 0, weight |-> 0, n_obs |-> 0, n_passes |-> 1, last_seen |-> t, status |-> "candidate",
   ll_per_pass |-> 0, pass_ll_n |-> 0]

ClosePass(c) ==
  [c EXCEPT !.ll_per_pass = IF c.pass_ll_n > 0 THEN @ + 1 ELSE @, !.pass_ll_n = 0]

(* A slip: the gap is taken from the first hit of the pass.                     *)
NextPass_Merged(c, t) == ClosePass([c EXCEPT !.n_passes = IF t - c.last_seen > 2 * RevisitGap THEN @ + 1 ELSE @])
NextPass(c, t) ==
  IF t - c.last_seen > RevisitGap THEN [ClosePass(c) EXCEPT !.n_passes = @ + 1] ELSE c

Status(c, tagged) ==
  IF tagged THEN "verified"
  ELSE IF c.status = "candidate" /\ c.n_obs >= ConfirmObs /\ c.n_passes >= ConfirmPasses
  THEN "confirmed" ELSE c.status

Adds(c, p, w, t, tagged) ==
  LET d == [c EXCEPT !.sum = @ + w * p, !.weight = @ + w, !.n_obs = @ + 1,
                     !.last_seen = t, !.pass_ll_n = @ + 1]
  IN [d EXCEPT !.status = Status(d, tagged)]

Joins(p) == clusters # <<>> /\ Off(clusters[Nearest(p)], p) <= GateM * clusters[Nearest(p)].weight

(* ingest, of a hit on a mine in view.                                        *)
Ingest(m, error, w, tagged) ==
  /\ Cardinality(hits) < MaxHits /\ (tagged => m \in Tagged)
  /\ CellOf(m) \in view /\ \A h \in hits : ~(h[1] = now /\ h[3] = m)
  /\ LET p == m + error
         k == IF Joins(p) THEN Nearest(p) ELSE Len(clusters) + 1
         grown == IF Joins(p) THEN clusters ELSE Append(clusters, Founded(now))
     IN /\ clusters' = [grown EXCEPT ![k] = Adds(NextPass(@, now), p, w, now, tagged)]
        /\ hits' = hits \cup {<<now, k, m>>}
  /\ UNCHANGED <<now, view, visits, dip, payload, frames>>

-------------------------------------------------------------------------------
(* The engine: next_dip_target, and the mark it leaves.                         *)
StartDip ==
  /\ dip = 0 /\ payload = <<>>
  /\ \E k \in DOMAIN clusters :
       /\ clusters[k].status = "confirmed" /\ \A l \in 1 .. k - 1 : clusters[l].status # "confirmed"
       /\ dip' = k
  /\ UNCHANGED <<now, view, clusters, visits, payload, frames, hits>>
EndDip ==
  /\ dip # 0 /\ dip' = 0 /\ clusters' = [clusters EXCEPT ![dip].status = "dipped"]
  /\ UNCHANGED <<now, view, visits, payload, frames, hits>>

(* finalize.                                                               *)
Finalized(cs) == [k \in DOMAIN cs |-> ClosePass(cs[k])]
(* build_payload.                                                          *)
Deliver ==
  /\ payload = <<>> /\ dip = 0 /\ clusters # <<>>
  /\ clusters' = Finalized(clusters)
  /\ payload' = [k \in DOMAIN clusters |->
       [n_passes |-> clusters[k].n_passes, ll_per_pass |-> clusters'[k].ll_per_pass]]
  /\ UNCHANGED <<now, view, visits, dip, frames, hits>>

Views == {S \in SUBSET Cells : \A i, j \in S : i .. j \subseteq S}
Next ==
  \/ \E t \in 1 .. MaxTime, shown \in Views : NotePose(t, shown)
  \/ \E m \in Mines, e \in Errors, w \in Confidences, tagged \in BOOLEAN : Ingest(m, e, w, tagged)
  \/ StartDip \/ EndDip \/ Deliver

-------------------------------------------------------------------------------
TypeOK ==
  /\ now \in 0 .. MaxTime /\ view \subseteq Cells /\ dip \in 0 .. Len(clusters)
  /\ \A k \in DOMAIN clusters :
       /\ clusters[k].status \in {"candidate", "confirmed", "dipped", "verified"}
       /\ clusters[k].n_obs = Cardinality({h \in hits : h[2] = k})
       /\ clusters[k].n_passes \in 1 .. clusters[k].n_obs
  /\ \A i \in Cells : \A k \in DOMAIN visits[i] : visits[i][k].t0 <= visits[i][k].t1

(* Hits that scatter less than the gate make one cluster of each mine, however    *)
(* the centroids walk.                                                      *)
OneClusterPerMine ==
  \A g, h \in hits : (g[2] = h[2]) = (g[3] = h[3])

(* A cluster counts a pass for every visit of its mine's cell that brought a hit:  *)
(* visits that the ledger holds apart are never one pass of the log.              *)
EveryVisitIsAPass ==
  \A k \in DOMAIN clusters :
    clusters[k].n_passes >=
      Cardinality({visit \in Cells \X (1 .. MaxTime) :
        /\ visit[2] \in DOMAIN visits[visit[1]]
        /\ \E h \in hits :
             /\ h[2] = k /\ CellOf(h[3]) = visit[1]
             /\ h[1] \in visits[visit[1]][visit[2]].t0 .. visits[visit[1]][visit[2]].t1})

(* What the ledger tells of a window is true of the frames: what it calls          *)
(* observed was shown within a gap of the window, what it calls unseen was not    *)
(* shown in it at all.                                                       *)
VerdictIsTrue ==
  \A p \in Mines, margin \in {0, CellSize}, w0, w1 \in 1 .. now : w0 <= w1 =>
    LET shown(i, from, to) == \E f \in frames : f[2] = i /\ f[1] \in from .. to
        verdict == Query(p, margin, w0, w1)
    IN /\ verdict = "observed" =>
            \A i \in Within(p, margin) : shown(i, w0 - RevisitGap, w1 + RevisitGap)
       /\ verdict = "unseen" => \A i \in Within(p, margin) : ~shown(i, w0, w1)

(* A dip or a tag settles a cluster: it is never a target again.                  *)
SettledStays ==
  [][\A k \in DOMAIN clusters : clusters[k].status \in {"dipped", "verified"}
       => clusters'[k].status \in {"dipped", "verified"}]_clusters

(* The payload has a fix of every pass, the one still open included.              *)
PayloadIsWhole == \A k \in DOMAIN payload : payload[k].ll_per_pass = payload[k].n_passes

(* "the engine moves clusters up it, never down".                               *)
LadderUp ==
  [][\A k \in DOMAIN clusters : clusters[k].status = "verified" => clusters'[k].status = "verified"]_clusters
=============================================================================
