----------------------------- MODULE PhasedOrbits -----------------------------
(***************************************************************************)
(* phased_orbits_mission.py, one node per drone over the offboard            *)
(* controller: climb, build the hover line, transit to the circle centre,    *)
(* hold; on /begin_orbit spiral out and orbit; on /end_mission peel off or    *)
(* turn back, settle at the launch anchor and land.  The drones meet over     *)
(* the air (UwbState) while they build the line.                             *)
(*                                                                         *)
(* Of the controller only this is left: a node is idle, asks its mission for  *)
(* a setpoint every tick (ACTIVE), or has handed the vehicle to PX4.  What    *)
(* the vehicle does (has it climbed, is it settled) is a free input.  The     *)
(* ground is one axis; orbit time counts coarse units, and every drone ticks  *)
(* in every unit.                                                          *)
(***************************************************************************)
EXTENDS Integers

CONSTANTS
  Fleet,        \* drone_index of the drones there may be: 0 .. drone_count - 1
  Spiral, Revolution, Peel, Blend,   \* spiral_time, 2 pi / omega, return_duration, to_center_time
  Shifts,       \* resets of PX4's local frame
  Slot,         \* stage - spawn, the fixed line slot of random staging
  (* Bounds, each by the index of the last drone.                            *)
  Offsets,      \* how far a drone may be from its launch point when it latches an anchor
  MaxResets, MaxLost, MaxBegins, MaxEnds, MaxUpsets

ASSUME OrbitConstants ==
  /\ Fleet \subseteq Nat /\ \A n \in Fleet : 0 .. n \subseteq Fleet
  /\ Spiral \in Nat /\ Peel \in Nat /\ Blend \in Nat
  /\ Revolution \in Nat \ {0}
  /\ Offsets \in [Fleet -> SUBSET Int] /\ Shifts \subseteq Int /\ Slot \in Int
  /\ {MaxResets, MaxLost, MaxBegins, MaxEnds, MaxUpsets} \subseteq [Fleet -> Nat]

VARIABLES
  config,    \* staging_enabled, line_trim_enabled, excite_enabled
  count,     \* drone_count
  craft,     \* what each node keeps
  place,     \* its anchor, home offset and launch point
  said,      \* avoidance_mode in the last UwbState each drone published
  heard,     \* <<d, e>>: d has a fresh UwbState of e, and it says MODE_NOMINAL
  gates,     \* gates[d]: operator commands on their way to d
  ticked,    \* drones that have ticked in this unit of time
  used       \* how much of the bounds is used

vars == <<config, count, craft, place, said, heard, gates, ticked, used>>

Drones == 0 .. count - 1
Last == count - 1
Never == -1
NoEnd == -1          \* orbit_duration before /end_mission: infinite

Craft ==
  [life : {"idle", "active", "gone"}, climbed : BOOLEAN, started : BOOLEAN,
   dwelling : BOOLEAN, ready : BOOLEAN, staged : BOOLEAN,
   hovering : BOOLEAN, exciting : BOOLEAN, excited : BOOLEAN, center : BOOLEAN,
   tau : Int, duration : Int, peeled : BOOLEAN,
   nominal : BOOLEAN, homing : BOOLEAN, home : Int, settling : BOOLEAN, land : BOOLEAN,
   mode : {"nominal", "phase", "deconflict"}]

(* __init__.                                                               *)
Fresh ==
  [life |-> "idle", climbed |-> FALSE, started |-> FALSE,
   dwelling |-> FALSE, ready |-> FALSE, staged |-> ~config.staging,
   hovering |-> FALSE, exciting |-> FALSE, excited |-> ~config.excite, center |-> FALSE,
   tau |-> Never, duration |-> NoEnd, peeled |-> FALSE,
   nominal |-> FALSE, homing |-> FALSE, home |-> Never, settling |-> FALSE, land |-> FALSE,
   mode |-> "nominal"]

Init ==
  /\ config \in [staging : BOOLEAN, trim : BOOLEAN, excite : BOOLEAN]
  /\ config.trim => config.staging
  /\ \E n \in Fleet : count = n + 1
  /\ craft = [d \in Fleet |-> Fresh]
  /\ place = [d \in Fleet |-> [anchor |-> 0, home_offset |-> 0, launch |-> 0, climbed_at |-> 0]]
  /\ said = [d \in Fleet |-> "nothing"] /\ heard = {}
  /\ gates = [d \in Fleet |-> {}] /\ ticked = {}
  /\ used = [resets |-> 0, lost |-> 0, begins |-> 0, ends |-> 0, upsets |-> 0]

-------------------------------------------------------------------------------
(* The operator publishes a command once for the whole fleet; each node takes *)
(* it when its executor comes to it.                                        *)
Publishes(command) ==
  /\ gates' = [d \in Fleet |-> IF d \in Drones THEN gates[d] \cup {command} ELSE {}]
  /\ UNCHANGED <<config, count, craft, place, said, heard, ticked>>

PublishBegin ==
  /\ used.begins < MaxBegins[Last] /\ used' = [used EXCEPT !.begins = @ + 1]
  /\ Publishes("begin")
(* Published again and again (sitl.sh --times 5): the callback latches it.    *)
PublishEnd ==
  /\ used.ends < MaxEnds[Last] /\ used' = [used EXCEPT !.ends = @ + 1]
  /\ Publishes("end")

(* A node's state after a callback or tick of d.                             *)
Node(d, c) == craft' = [craft EXCEPT ![d] = c]

(* _orbit_gate_cb.                                                          *)
OrbitGate(c) ==
  IF c.tau = Never /\ ~c.homing /\ c.center THEN [c EXCEPT !.tau = 0] ELSE c

BeginArrives(d) ==
  /\ "begin" \in gates[d] /\ gates' = [gates EXCEPT ![d] = @ \ {"begin"}]
  /\ Node(d, OrbitGate(craft[d]))
  /\ UNCHANGED <<config, count, place, said, heard, ticked, used>>

CeilTo(n, m) == m * ((n + m - 1) \div m)
OrbitTime(c) == IF c.tau > Spiral THEN c.tau - Spiral ELSE 0

(* A slip: the orbit ends wherever the command landed.                         *)
ReturnHome_WhereverItLanded(c) ==
  CASE c.tau # Never -> [c EXCEPT !.duration = OrbitTime(c)]
    [] c.tau = Never /\ ~c.climbed -> [c EXCEPT !.land = TRUE]
    [] OTHER -> [c EXCEPT !.excited = TRUE, !.home = 0]
(* on_return_home: an orbit ends on its next whole revolution; a drone still  *)
(* climbing lands; any other blends back from its last setpoint.             *)
ReturnHome(c) ==
  CASE c.tau # Never -> [c EXCEPT !.duration = CeilTo(OrbitTime(c), Revolution)]
    [] c.tau = Never /\ ~c.climbed -> [c EXCEPT !.land = TRUE]
    [] OTHER -> [c EXCEPT !.excited = TRUE, !.home = 0]

(* _end_cb.                                                                *)
EndArrives(d) ==
  /\ "end" \in gates[d] /\ gates' = [gates EXCEPT ![d] = @ \ {"end"}]
  /\ Node(d, IF craft[d].homing THEN craft[d]
             ELSE ReturnHome([craft[d] EXCEPT !.homing = TRUE]))
  /\ UNCHANGED <<config, count, place, said, heard, ticked, used>>

-------------------------------------------------------------------------------
(* The controller around the mission.                                       *)
(* ENGAGE becomes ACTIVE: on_active_start.                                   *)
Activates(d) ==
  /\ craft[d].life = "idle"
  /\ Node(d, IF craft[d].land THEN [craft[d] EXCEPT !.life = "gone"]
             ELSE [craft[d] EXCEPT !.life = "active",
                     !.mode = IF config.trim /\ d > 0 THEN "deconflict" ELSE @])
  /\ UNCHANGED <<config, count, place, said, heard, gates, ticked, used>>

(* The tick that finds the abort flag request_land set: NAV_LAND.             *)
HandsOver(d) ==
  /\ craft[d].life = "active" /\ craft[d].land
  /\ Node(d, [craft[d] EXCEPT !.life = "gone"])
  /\ UNCHANGED <<config, count, place, said, heard, gates, ticked, used>>

(* An abort, a failsafe, a pilot or the end of the process.                   *)
DropsOut(d) ==
  /\ craft[d].life # "gone" /\ used.lost < MaxLost[Last]
  /\ used' = [used EXCEPT !.lost = @ + 1]
  /\ Node(d, [craft[d] EXCEPT !.life = "gone"])
  /\ UNCHANGED <<config, count, place, said, heard, gates, ticked>>

(* _handle_local_frame_reset and on_local_frame_reset.                       *)
FrameReset(p, shift) ==
  [p EXCEPT !.launch = @ + shift, !.anchor = @ + shift, !.climbed_at = @ + shift]

ResetArrives(d) ==
  /\ craft[d].life = "active" /\ used.resets < MaxResets[Last]
  /\ used' = [used EXCEPT !.resets = @ + 1]
  /\ \E shift \in Shifts : place' = [place EXCEPT ![d] = FrameReset(@, shift)]
  /\ UNCHANGED <<config, count, craft, said, heard, gates, ticked>>

(* A drone follows its predecessor and the last of the line.                  *)
Hears(d, e) ==
  /\ said[e] # "nothing" /\ e \in {d - 1, Last} \ {d}
  /\ heard' = IF said[e] = "nominal" THEN heard \cup {<<d, e>>} ELSE heard \ {<<d, e>>}
  /\ UNCHANGED <<config, count, craft, place, said, gates, ticked, used>>

(* peer_state_timeout_s without one.                                        *)
GoesStale(d, e) ==
  /\ <<d, e>> \in heard /\ heard' = heard \ {<<d, e>>}
  /\ used.upsets < MaxUpsets[Last] /\ used' = [used EXCEPT !.upsets = @ + 1]
  /\ UNCHANGED <<config, count, craft, place, said, gates, ticked>>

-------------------------------------------------------------------------------
(* A tick, compute_setpoint: publish the state as it is, then the setpoint of *)
(* the phase the drone is in.                                               *)
Asks(d) == craft[d].life = "active" /\ ~craft[d].land

(* How long it has been on its way from the centre (or wherever) home.        *)
HomeTime(c) ==
  IF c.home # Never THEN c.home
  ELSE IF c.duration = NoEnd THEN Never ELSE c.tau - Spiral - c.duration - Peel

(* Its orbit or its return runs, up to the end of the blend.                  *)
Flies(c) == c.life = "active" /\ ~c.land /\ (c.tau # Never \/ c.home # Never)
Timed(c) == Flies(c) /\ HomeTime(c) < Blend

(* A drone that was steady and is blown off.                                 *)
Upset(c, after) == (c.dwelling /\ ~after.dwelling) \/ (c.settling /\ ~after.settling)
                   \/ (c.hovering /\ ~after.hovering)

Ticks(d, c) ==
  /\ Upset(craft[d], c) => used.upsets < MaxUpsets[Last]
  /\ used' = IF Upset(craft[d], c) THEN [used EXCEPT !.upsets = @ + 1] ELSE used
  /\ Node(d, [c EXCEPT !.nominal = TRUE])
  /\ said' = [said EXCEPT ![d] = craft[d].mode]
  /\ ticked' = IF Timed(craft[d]) THEN ticked \cup {d} ELSE ticked
  /\ UNCHANGED <<config, count, heard, gates>>

PreOrbit(d) == Asks(d) /\ craft[d].tau = Never /\ craft[d].home = Never

(* The climb latches the anchor on every tick, and with it where home is.     *)
Climb(d) ==
  /\ PreOrbit(d) /\ ~craft[d].climbed
  /\ \E up \in BOOLEAN, o \in Offsets[Last] :
       /\ Ticks(d, [craft[d] EXCEPT !.climbed = up, !.started = FALSE])
       /\ LET here == place[d].launch + o
          IN place' = [place EXCEPT ![d].anchor = here, ![d].climbed_at = here]

Staging(d) == PreOrbit(d) /\ craft[d].climbed /\ ~craft[d].staged

(* A new anchor, and the way back to the old one.                            *)
Reanchored_Forgets(p, here) == [p EXCEPT !.anchor = here, !.home_offset = 0]
Reanchored(p, here) == [p EXCEPT !.anchor = here, !.home_offset = p.anchor - here]

(* _staging_setpoint: to the fixed slot, reached when the time is up and the  *)
(* reset-continuous position is at the slot, which the setpoint is only while *)
(* the frame is the one the slot was given in.                               *)
StageToSlot(d) ==
  /\ Staging(d) /\ ~config.trim
  /\ \/ /\ place[d].launch = 0
        /\ Ticks(d, [craft[d] EXCEPT !.started = TRUE, !.staged = TRUE])
        /\ place' = [place EXCEPT ![d] = Reanchored(@, Slot)]
     \/ Ticks(d, [craft[d] EXCEPT !.started = TRUE]) /\ UNCHANGED place

CanTrim(d) == craft[d].started /\ <<d, d - 1>> \in heard

(* _line_trim_setpoint.  Not started for a second, no word of the             *)
(* predecessor or no fresh range: hold, and keep the dwell as it is.          *)
TrimWaits(d) ==
  /\ Staging(d) /\ config.trim /\ d > 0 /\ ~craft[d].ready
  /\ Ticks(d, [craft[d] EXCEPT !.started = TRUE]) /\ UNCHANGED place

Trims(d) ==
  /\ Staging(d) /\ config.trim /\ d > 0 /\ ~craft[d].ready /\ CanTrim(d)
  /\ \E settled \in BOOLEAN : Ticks(d, [craft[d] EXCEPT !.dwelling = settled])
  /\ UNCHANGED place

TrimSettles(d) ==
  /\ Staging(d) /\ config.trim /\ d > 0 /\ ~craft[d].ready /\ CanTrim(d)
  /\ craft[d].dwelling
  /\ Ticks(d, [craft[d] EXCEPT !.ready = TRUE, !.mode = "nominal"])
  /\ \E o \in Offsets[Last] : place' = [place EXCEPT ![d] = Reanchored(@, @.launch + o)]

LineIsComplete(d) == d = Last \/ <<d, Last>> \in heard

(* The line anchor is ready at once; a ready drone waits for the last.        *)
HoldsLine(d) ==
  /\ Staging(d) /\ config.trim /\ (d = 0 \/ craft[d].ready)
  /\ Ticks(d, [craft[d] EXCEPT !.started = TRUE, !.ready = TRUE, !.staged = LineIsComplete(d),
                 !.mode = IF craft[d].ready THEN @ ELSE "nominal"])
  /\ UNCHANGED place

-------------------------------------------------------------------------------
Transit(d) == PreOrbit(d) /\ craft[d].climbed /\ craft[d].staged

(* On the way, or blown off the centre: the hover before the bob starts over.  *)
OffCenter(d) ==
  /\ Transit(d)
  /\ Ticks(d, IF craft[d].excited THEN craft[d] ELSE [craft[d] EXCEPT !.hovering = FALSE])
  /\ UNCHANGED place

AtCenter(d) ==
  /\ Transit(d)
  /\ \/ /\ ~craft[d].excited          \* the steady hover, then the bob
        /\ \E bob \in BOOLEAN :
             Ticks(d, [craft[d] EXCEPT !.hovering = TRUE, !.exciting = @ \/ bob])
     \/ /\ craft[d].excited \/ (craft[d].hovering /\ craft[d].exciting)
        /\ Ticks(d, [craft[d] EXCEPT !.excited = TRUE, !.center = TRUE])
  /\ UNCHANGED place

-------------------------------------------------------------------------------
(* A slip: the settle clock starts again on every tick.                       *)
Homing_Relatches(c, t, settled, through) ==
  IF t < Blend THEN [c EXCEPT !.settling = FALSE]
  ELSE [c EXCEPT !.settling = settled /\ ~c.settling]
(* _home_setpoint: blend, settle, land once the dwell is through.             *)
Homing(c, t, settled, through) ==
  IF t < Blend THEN [c EXCEPT !.settling = FALSE]
  ELSE [c EXCEPT !.settling = settled, !.land = @ \/ (settled /\ c.settling /\ through)]

(* An orbit comes home behind its peel-off.                                   *)
Peeled(c) == IF c.home = Never THEN [c EXCEPT !.mode = "nominal", !.peeled = TRUE] ELSE c

Returns(d) ==
  /\ Flies(craft[d]) /\ HomeTime(craft[d]) >= 0
  /\ \E settled \in BOOLEAN, through \in BOOLEAN :
       Ticks(d, Homing(Peeled(craft[d]), HomeTime(craft[d]), settled, through))
  /\ UNCHANGED place

Orbits(d) ==
  /\ Asks(d) /\ craft[d].home = Never /\ craft[d].tau # Never /\ HomeTime(craft[d]) < 0
  /\ LET c == craft[d]
         t == c.tau - Spiral
     IN Ticks(d, CASE t < 0 -> c
                   [] t >= 0 /\ (c.duration = NoEnd \/ t < c.duration) -> [c EXCEPT !.mode = "phase"]
                   [] OTHER -> [c EXCEPT !.mode = "nominal", !.peeled = TRUE])
  /\ UNCHANGED place

Tick(d) ==
  \/ Climb(d) \/ StageToSlot(d) \/ TrimWaits(d) \/ Trims(d) \/ TrimSettles(d) \/ HoldsLine(d)
  \/ OffCenter(d) \/ AtCenter(d) \/ Returns(d) \/ Orbits(d)

(* Time passes for the drones whose orbit or return runs.  An orbit with no   *)
(* end goes round: only its place in the revolution matters.                 *)
Later(c) ==
  IF ~Timed(c) THEN c
  ELSE IF c.home # Never THEN [c EXCEPT !.home = @ + 1]
  ELSE IF c.duration = NoEnd
    THEN [c EXCEPT !.tau = IF @ = Spiral + Revolution THEN Spiral + 1 ELSE @ + 1]
    ELSE [c EXCEPT !.tau = @ + 1]
Clock ==
  /\ \E d \in Drones : Timed(craft[d])
  /\ \A d \in Drones : Timed(craft[d]) => d \in ticked
  /\ craft' = [d \in Fleet |-> Later(craft[d])] /\ ticked' = {}
  /\ UNCHANGED <<config, count, place, said, heard, gates, used>>

Next ==
  \/ PublishBegin \/ PublishEnd \/ Clock
  \/ \E d \in Drones : \/ BeginArrives(d) \/ EndArrives(d) \/ Activates(d) \/ HandsOver(d)
                       \/ DropsOut(d) \/ ResetArrives(d) \/ Tick(d)
                       \/ \E e \in Drones : Hears(d, e) \/ GoesStale(d, e)

(* The executors run and time passes.  A tick that changes nothing is none, so *)
(* a drone that waits for its vehicle is not kept waiting for ever: it climbs, *)
(* gets there and settles, and what blows it off again is bounded.            *)
Progress(d) ==
  /\ d \in Drones
  /\ \/ BeginArrives(d) \/ EndArrives(d) \/ Activates(d) \/ HandsOver(d)
     \/ (Tick(d) /\ <<craft', said', ticked'>> # <<craft, said, ticked>>)
     \/ \E e \in Drones : Hears(d, e) /\ heard' # heard

Fairness == WF_vars(Clock) /\ \A d \in Fleet : WF_vars(Progress(d))

Spec == Init /\ [][Next]_vars /\ Fairness

-------------------------------------------------------------------------------
TypeOK ==
  /\ config \in [staging : BOOLEAN, trim : BOOLEAN, excite : BOOLEAN]
  /\ count \in Nat \ {0} /\ Last \in Fleet
  /\ craft \in [Fleet -> Craft]
  /\ \A d \in Fleet : craft[d].tau >= Never /\ craft[d].home >= Never /\ craft[d].duration >= NoEnd
  /\ place \in [Fleet -> [anchor : Int, home_offset : Int, launch : Int, climbed_at : Int]]
  /\ said \in [Fleet -> {"nothing", "nominal", "phase", "deconflict"}]
  /\ heard \subseteq Drones \X Drones
  /\ gates \in [Fleet -> SUBSET {"begin", "end"}] /\ ticked \subseteq Drones
  /\ used \in [resets : 0 .. MaxResets[Last], lost : 0 .. MaxLost[Last], begins : 0 .. MaxBegins[Last],
             ends : 0 .. MaxEnds[Last], upsets : 0 .. MaxUpsets[Last]]

(* A drone that turns back before its orbit has a setpoint to blend from:      *)
(* on_return_home unpacks _last_nominal, which is None until the first tick,   *)
(* whenever the command comes.                                              *)
ReturnPointIsKnown == \A d \in Drones : craft[d].home # Never => craft[d].nominal

(* Home stays where the drone was when its climb ended, however often it is    *)
(* re-anchored on the way (to its slot, to its place in the line) and PX4's     *)
(* frame is reset: anchor plus home offset is that point in today's frame.     *)
HomeIsWhereItClimbed ==
  \A d \in Drones : craft[d].climbed =>
    place[d].anchor + place[d].home_offset = place[d].climbed_at

(* A drone orbits from its centre and not on its way home: no drone on the     *)
(* orbit clock is on the blend home as well, and it had reached its centre.    *)
OrbitStartsAtCenter ==
  \A d \in Drones : craft[d].tau # Never =>
    craft[d].center /\ craft[d].staged /\ craft[d].home = Never

(* The line is built in the order of the indices, each drone against a         *)
(* predecessor in its place (but for the first of them, whose predecessor      *)
(* need not even have climbed), and nobody leaves it before the last is in it. *)
LineIsBuiltInOrder ==
  config.trim =>
    /\ \A d \in Drones : d > 1 /\ craft[d].dwelling => craft[d - 1].ready
    /\ \A d \in Drones : craft[d].staged => \A e \in Drones \ {0} : craft[e].ready

(* Types, the way home, the orbit and the line together.                       *)
OrbitsInv ==
  /\ TypeOK /\ ReturnPointIsKnown /\ HomeIsWhereItClimbed
  /\ OrbitStartsAtCenter /\ LineIsBuiltInOrder

(* The peel-off joins the orbit where it began: on a whole revolution, which    *)
(* is never one the drone had flown (but for the tick) when told to come home, *)
(* whether in the spiral, between two ticks or with the gate just given, and   *)
(* the tick that peels comes in that unit of time (phased_orbits_mission.py:   *)
(* 780: off the grid the commanded position jumps by up to 2R).               *)
PeelsOnAWholeRevolution ==
  [][\A d \in Drones : craft'[d].peeled /\ ~craft[d].peeled =>
       /\ craft[d].duration % Revolution = 0
       /\ craft[d].tau - Spiral - craft[d].duration \in 0 .. 1]_vars

(* Told to come home, a drone in flight ends by handing itself over to land,   *)
(* from the climb, the line, the centre, the spiral or the orbit.             *)
ComesHome ==
  \A d \in Fleet : (d \in Drones /\ craft[d].homing /\ craft[d].life = "active")
                   ~> craft[d].life = "gone"

(* Left alone, the whole fleet ends up on its way to the centres: the line is   *)
(* built whatever messages are missed and whoever is blown off. (A slot given   *)
(* in world coordinates is only reached while PX4's frame is not reset.)       *)
Undisturbed ==
  \A d \in Drones :
    /\ craft[d].life # "gone" /\ ~craft[d].homing /\ craft[d].tau = Never
    /\ (config.staging /\ ~config.trim) => place[d].launch = 0
LineCompletes == <>[]Undisturbed => <>(\A d \in Drones : craft[d].staged)

(* A flight told to end comes home, and one left alone gets under way.         *)
FlightsGoOn == ComesHome /\ LineCompletes

(* "line anchor holding; releasing drone 1": a drone trims its distance only    *)
(* against a predecessor that holds its place.                               *)
TrimsAgainstAHolder ==
  config.trim => \A d \in Drones \ {0} : craft[d].dwelling => craft[d - 1].ready
=============================================================================
