-------------------------------- MODULE TagEv --------------------------------
(***************************************************************************)
(* rim/tag_ev.py fed by rim/tag_detector.py: the horizontal position that is      *)
(* reported to PX4.  On the pad it is the pad itself, the prior; then the first    *)
(* tag is registered against the pad and owns the observation, and later tags are  *)
(* registered relative to it.                                                 *)
(*                                                                         *)
(* The ground is one axis with the pad at 0.  A row of the picture is placed by     *)
(* its attitude and its range, or not at all; what is placed is off by the noise.   *)
(* Samples is odd, so that a median of a registration is one of its rows; the       *)
(* position of two tags is their mean, so positions are held twice.               *)
(***************************************************************************)
EXTENDS Integers, Sequences, FiniteSets

CONSTANTS
  Tags, TagAt,            \* tag_ids, and where they lie
  Samples, Scatter,       \* registration_samples, registration_scatter_m
  Disagree,               \* pair_disagreement_m
  Timeout,                \* prior_timeout_after_arm_s, in ticks of the clock
  PublishEv,              \* publish_ev
  Stride,                 \* of the detector
  Noise, Places,          \* of a placed tag; where the drone flies
  MaxPictures, MaxMoves   \* bounds

VARIABLES
  at, armed,                  \* the drone: where it is, and whether it is armed
  armed_since,                \* ticks since the node heard of it, -1 for None
  registration, references,   \* rows of each tag, positions of the registered
  ev,                         \* what was last reported, and the tags it is from
  shot, pictures, moves       \* frames of the detector; used up bounds

evVars == <<at, armed, armed_since, registration, references, ev, shot, pictures, moves>>

Silent == [state |-> "silent", position |-> 0, tags |-> {}, from |-> 0, sent |-> FALSE]
Registered == DOMAIN references

Init ==
  /\ at = 0 /\ armed = FALSE /\ armed_since = -1
  /\ registration = [t \in Tags |-> <<>>] /\ references = <<>>
  /\ ev = Silent /\ shot = 0 /\ pictures = 0 /\ moves = 0

Abs(n) == IF n >= 0 THEN n ELSE -n
Most(S) == CHOOSE n \in S : \A m \in S : m <= n
Median(s) ==
  s[CHOOSE i \in DOMAIN s :
      /\ 2 * Cardinality({j \in DOMAIN s : s[j] < s[i]}) < Len(s)
      /\ 2 * Cardinality({j \in DOMAIN s : s[j] > s[i]}) < Len(s)]

-------------------------------------------------------------------------------
(* The drone, and what its status says.                                        *)
Moves ==
  /\ armed /\ moves < MaxMoves /\ moves' = moves + 1
  /\ at' \in Places \ {at}
  /\ UNCHANGED <<armed, armed_since, registration, references, ev, shot, pictures>>

Arms ==
  /\ armed' = ~armed /\ moves < MaxMoves /\ moves' = moves + 1
  /\ UNCHANGED <<at, armed_since, registration, references, ev, shot, pictures>>

StatusCb ==
  /\ armed_since' = IF ~armed THEN -1 ELSE IF armed_since = -1 THEN 0 ELSE armed_since
  /\ UNCHANGED <<at, armed, registration, references, ev, shot, pictures, moves>>

TimePasses ==
  /\ armed_since \in 0 .. Timeout /\ armed_since' = armed_since + 1
  /\ UNCHANGED <<at, armed, registration, references, ev, shot, pictures, moves>>

-------------------------------------------------------------------------------
(* _prior_allowed, _prior_tick.                                               *)
PriorAllowed == ~(Tags \subseteq Registered) /\ armed_since <= Timeout

(* A slip: the prior goes on beside the tags.                                  *)
PriorOwns_Always == PriorAllowed
PriorOwns == PriorAllowed /\ Registered = {}

PriorTick ==
  /\ PriorOwns
  /\ ev' = [Silent EXCEPT !.sent = PublishEv, !.state =
              IF \A t \in Tags : registration[t] = <<>> THEN "pad_prior" ELSE "registering"]
  /\ UNCHANGED <<at, armed, armed_since, registration, references, shot, pictures, moves>>

-------------------------------------------------------------------------------
(* A deque of maxlen registration_samples.                                      *)
Appended(rows, x) == IF Len(rows) = Samples THEN Append(Tail(rows), x) ELSE Append(rows, x)

Stable(rows) ==
  Len(rows) = Samples /\ \A i \in DOMAIN rows : Abs(rows[i] - Median(rows)) <= Scatter

WithReference(refs, t, rows) ==
  IF Stable(rows)
  THEN [u \in DOMAIN refs \cup {t} |-> IF u = t THEN Median(rows) ELSE refs[u]] ELSE refs

(* The tag with the most rows, the first of equals.                             *)
Leader(offset) ==
  CHOOSE t \in DOMAIN offset : \A u \in DOMAIN offset :
    \/ Len(registration[t]) > Len(registration[u])
    \/ Len(registration[t]) = Len(registration[u]) /\ t <= u

(* Rows and references after the bootstrap of one tag against the pad.            *)
Bootstrapped(offset) ==
  IF Registered = {} /\ PriorAllowed
  THEN LET t == Leader(offset)
           rows == Appended(registration[t], offset[t])
       IN [rows |-> [registration EXCEPT ![t] = rows],
           refs |-> WithReference(references, t, rows)]
  ELSE [rows |-> registration, refs |-> references]

(* Candidates of a picture, and twice the median of them (there are two tags).      *)
Candidates(refs, offset) == [t \in DOMAIN refs \cap DOMAIN offset |-> refs[t] - offset[t]]
TwiceMedian(cand) ==
  LET t == CHOOSE t \in DOMAIN cand : TRUE
      u == CHOOSE u \in DOMAIN cand : Cardinality(DOMAIN cand) = 1 \/ u # t
  IN cand[t] + cand[u]

Sample(offset, position) == position + offset

(* Every later tag of the picture gets a row relative to the position.             *)
Extended(boot, offset) ==
  LET later == DOMAIN offset \ DOMAIN boot.refs
      position == TwiceMedian(Candidates(boot.refs, offset)) \div 2
      rows == [t \in Tags |-> IF t \in later THEN Appended(boot.rows[t], Sample(offset[t], position))
                              ELSE boot.rows[t]]
      fresh == {t \in later : Stable(rows[t])}
  IN [rows |-> rows,
      refs |-> [t \in DOMAIN boot.refs \cup fresh |->
                  IF t \in fresh THEN Median(rows[t]) ELSE boot.refs[t]]]

Spread(cand) == Most({Abs(2 * cand[t] - TwiceMedian(cand)) : t \in DOMAIN cand})
(* A slip: tags that disagree are averaged.                                     *)
Rejected_Never(cand) == FALSE
Rejected(cand) == Spread(cand) > 2 * Disagree

Reported(cand) ==
  [state |-> IF Rejected(cand) THEN "rejected" ELSE "tag_position",
   position |-> TwiceMedian(cand), tags |-> DOMAIN cand, from |-> at,
   sent |-> PublishEv /\ ~Rejected(cand)]

(* _detections: without a candidate only the bootstrap counts.                    *)
Detections(offset) ==
  \E boot \in {Bootstrapped(offset)} :
    IF DOMAIN boot.refs \cap DOMAIN offset = {}
    THEN registration' = boot.rows /\ references' = boot.refs /\ UNCHANGED ev
    ELSE \E later \in {Extended(boot, offset)} :
           /\ registration' = later.rows /\ references' = later.refs
           /\ ev' = Reported(Candidates(later.refs, offset))

(* One frame of the camera: the detector takes every one in Stride and reports the   *)
(* tags that are large enough, and the node places those it knows.                *)
Picture ==
  /\ pictures < MaxPictures /\ pictures' = pictures + 1
  /\ shot' = (shot + 1) % Stride
  /\ \E seen \in SUBSET Tags, placed \in BOOLEAN : \E noise \in [seen -> Noise] :
       IF shot' # 0 \/ seen = {} \/ ~placed THEN UNCHANGED <<registration, references, ev>>
       ELSE Detections([t \in seen |-> TagAt[t] - at + noise[t]])
  /\ UNCHANGED <<at, armed, armed_since, moves>>

Next == Moves \/ Arms \/ StatusCb \/ TimePasses \/ PriorTick \/ Picture

-------------------------------------------------------------------------------
TypeOK ==
  /\ armed_since \in -1 .. Timeout + 1
  /\ \A t \in Tags : Len(registration[t]) <= Samples
  /\ Registered \subseteq Tags
  /\ ev.state \in {"silent", "pad_prior", "registering", "rejected", "tag_position"}

Error(t) == references[t] - TagAt[t]
Loudest == Most({Abs(n) : n \in Noise})

(* However the drone moves while they are registered, the tags agree on where the    *)
(* pad is, up to the scatter of a registration and the noise of two rows.           *)
TagsAgree ==
  \A t, u \in Registered : Abs(Error(t) - Error(u)) <= Scatter + 2 * Loudest

(* A position that is reported is where each of its tags puts the drone, up to the    *)
(* disagreement and the noise of a row.                                        *)
FixIsTrue ==
  ev.state = "tag_position" =>
    \A t \in ev.tags : Abs(ev.position - 2 * (ev.from + Error(t))) <= 2 * (Disagree + Loudest)

(* What is sent to PX4 does not jump from the prior to the tags by more than the      *)
(* scatter of a registration and the disagreement of two tags, and the prior never    *)
(* comes back.                                                               *)
HandoffIsSmall ==
  [][/\ Registered = {} /\ ev'.state = "tag_position" => Abs(ev'.position) <= 2 * (Scatter + Disagree)
     /\ Registered # {} => ev'.state \in {ev.state, "rejected", "tag_position"}]_ev

(* Someone reports: the prior, or a tag.                                          *)
IsHeard == PriorAllowed \/ Registered # {}
=============================================================================
