-------------------------- MODULE PhasedOrbitsProofs --------------------------
(***************************************************************************)
(* Proofs about the phased orbits: where home is, where an orbit starts and  *)
(* how the hover line is built, for fleets of any size, any durations and     *)
(* offsets, and any number of frame resets, upsets, lost drones and commands. *)
(***************************************************************************)
EXTENDS PhasedOrbits, TLAPS

CraftOK(c) == c \in Craft /\ c.tau >= Never /\ c.home >= Never /\ c.duration >= NoEnd
Place == [anchor : Int, home_offset : Int, launch : Int, climbed_at : Int]

(* A node's flags go together: a drone on its way home has been told so and    *)
(* has a setpoint to start from, an orbit starts at the centre, the centre is   *)
(* behind the line, and only a trimmed line has places.                       *)
Ordered(c) ==
  /\ c.home # Never => c.homing
  /\ c.tau # Never => c.center /\ c.home = Never
  /\ c.center => c.staged
  /\ c.ready => config.trim
Sound(c) == Ordered(c) /\ (c.home # Never \/ c.climbed => c.nominal)

(* The anchor of a drone has not moved since the climb, until it is in place.   *)
AtRest(c) == ~c.climbed \/ (~c.staged /\ ~c.ready)
HomeOK(c, p) ==
  /\ c.climbed => p.anchor + p.home_offset = p.climbed_at
  /\ AtRest(c) => p.home_offset = 0

(* A drone says NOMINAL only from its place, dwells only behind a drone in its  *)
(* place, is in its place only behind a line in place, and leaves when all are. *)
Ready(e) == e > 0 => craft[e].ready
InLine(d, c) ==
  /\ c.life = "active" /\ c.mode = "nominal" /\ d > 0 => c.ready
  /\ c.dwelling => (d > 1 => craft[d - 1].ready)
  /\ c.ready => \A e \in Drones : e < d => Ready(e)
  /\ c.staged => (d > 0 => c.ready) /\ \A e \in Drones \ {d} : Ready(e)

Sounds == (config.trim => config.staging) /\ \A d \in Drones : Sound(craft[d])
Homes == \A d \in Drones : HomeOK(craft[d], place[d])
Line == config.trim => \A d \in Drones : InLine(d, craft[d])
Words ==
  config.trim =>
    /\ \A e \in Drones : said[e] = "nominal" => Ready(e)
    /\ \A d, e \in Drones : <<d, e>> \in heard => Ready(e)

OrbitInductive == TypeOK /\ Sounds /\ Homes /\ Line /\ Words

-----------------------------------------------------------------------------
(* The drones are some of the fleet.                                         *)
LEMMA DronesOfTheFleet ==
  ASSUME TypeOK
  PROVE  /\ Drones \subseteq Fleet /\ Last \in Fleet /\ count \in Nat \ {0}
         /\ Last \in Drones
<1>1. count \in Nat \ {0} /\ count - 1 \in Fleet
  BY DEF TypeOK, Last
<1>2. 0 .. count - 1 \subseteq Fleet
  BY <1>1, OrbitConstants
<1> QED
  BY <1>1, <1>2 DEF Drones, Last

(* What is known of one node of a typed fleet.                               *)
LEMMA OneNode ==
  ASSUME TypeOK, NEW d \in Drones
  PROVE  CraftOK(craft[d]) /\ place[d] \in Place
BY DronesOfTheFleet DEF TypeOK, CraftOK, Place

(* Whole revolutions are natural numbers.                                     *)
LEMMA CeilToIsNat ==
  ASSUME NEW n \in Nat, NEW m \in Nat \ {0}
  PROVE  CeilTo(n, m) \in Nat
BY DEF CeilTo

LEMMA OrbitTimeIsNat ==
  ASSUME NEW c, CraftOK(c)
  PROVE  OrbitTime(c) \in Nat
BY OrbitConstants DEF CraftOK, Craft, OrbitTime

(* What the handlers of a command leave of a node.                            *)
LEMMA OrbitGateKeeps ==
  ASSUME NEW c, CraftOK(c), Sound(c)
  PROVE  LET g == OrbitGate(c)
         IN /\ CraftOK(g) /\ Sound(g)
            /\ g.life = c.life /\ g.mode = c.mode /\ g.dwelling = c.dwelling
            /\ g.ready = c.ready /\ g.staged = c.staged /\ g.climbed = c.climbed
BY DEF CraftOK, Craft, OrbitGate, Never, NoEnd, Sound, Ordered

LEMMA ReturnHomeKeeps ==
  ASSUME NEW c, CraftOK(c), Sound(c), c.homing
  PROVE  LET g == ReturnHome(c)
         IN /\ CraftOK(g) /\ Sound(g)
            /\ g.life = c.life /\ g.mode = c.mode /\ g.dwelling = c.dwelling
            /\ g.ready = c.ready /\ g.staged = c.staged /\ g.climbed = c.climbed
<1>1. CASE c.tau # Never
  <2> DEFINE end == CeilTo(OrbitTime(c), Revolution)
  <2>1. end \in Nat
    BY CeilToIsNat, OrbitTimeIsNat, OrbitConstants
  <2>2. ReturnHome(c) = [c EXCEPT !.duration = end]
    BY <1>1 DEF ReturnHome
  <2> HIDE DEF end
  <2> QED
    BY <1>1, <2>1, <2>2 DEF CraftOK, Craft, Never, NoEnd, Sound, Ordered
<1>2. CASE c.tau = Never /\ ~c.climbed
  <2>1. ReturnHome(c) = [c EXCEPT !.land = TRUE]
    BY <1>2 DEF ReturnHome
  <2> QED
    BY <1>2, <2>1 DEF CraftOK, Craft, Never, NoEnd, Sound, Ordered
<1>3. CASE c.tau = Never /\ c.climbed
  <2>1. PICK start \in Nat : start = 0
    OBVIOUS
  <2>2. ReturnHome(c) = [c EXCEPT !.excited = TRUE, !.home = start]
    BY <1>3, <2>1 DEF ReturnHome
  <2>3. CraftOK(ReturnHome(c))
    <3> DEFINE bobbed == [c EXCEPT !.excited = TRUE]
    <3>3. bobbed \in Craft
      BY DEF CraftOK, Craft
    <3>4. ReturnHome(c) = [bobbed EXCEPT !.home = start]
      BY <2>2 DEF CraftOK, Craft
    <3> HIDE DEF bobbed
    <3>1. ReturnHome(c) \in Craft
      BY <3>3, <3>4 DEF Craft
    <3>2. /\ ReturnHome(c).home = start /\ ReturnHome(c).tau = c.tau
          /\ ReturnHome(c).duration = c.duration
      BY <2>2 DEF CraftOK, Craft
    <3> QED
      BY <3>1, <3>2 DEF CraftOK, Never, NoEnd
  <2>4. /\ ReturnHome(c).home = start /\ ReturnHome(c).tau = c.tau
        /\ ReturnHome(c).nominal = c.nominal /\ ReturnHome(c).homing = c.homing
        /\ ReturnHome(c).life = c.life /\ ReturnHome(c).mode = c.mode
        /\ ReturnHome(c).dwelling = c.dwelling /\ ReturnHome(c).ready = c.ready
        /\ ReturnHome(c).staged = c.staged /\ ReturnHome(c).climbed = c.climbed
        /\ ReturnHome(c).center = c.center
    BY <2>2 DEF CraftOK, Craft
  <2> QED
    BY <1>3, <2>3, <2>4 DEF Sound, Ordered
<1> QED
  BY <1>1, <1>2, <1>3 DEF CraftOK, Craft

(* Time moves the clocks of a node and nothing else.                          *)
LEMMA LaterKeeps ==
  ASSUME NEW c, CraftOK(c), Sound(c)
  PROVE  LET g == Later(c)
         IN /\ CraftOK(g) /\ Sound(g)
            /\ g.life = c.life /\ g.mode = c.mode /\ g.dwelling = c.dwelling
            /\ g.ready = c.ready /\ g.staged = c.staged /\ g.climbed = c.climbed
BY OrbitConstants DEF CraftOK, Craft, Later, Never, NoEnd, Sound, Ordered, Timed, Flies

LEMMA LaterTypes ==
  ASSUME NEW c, CraftOK(c)
  PROVE  CraftOK(Later(c))
BY OrbitConstants DEF CraftOK, Craft, Later, Never, NoEnd, Timed, Flies

-----------------------------------------------------------------------------
(* A step of one drone, whose node becomes c and whose places become p.        *)
StepOf(d, c, p) ==
  /\ craft' = [craft EXCEPT ![d] = c] /\ place' = [place EXCEPT ![d] = p]
  /\ UNCHANGED <<config, count>>
Fits(d, c, p) ==
  /\ CraftOK(c) /\ Ordered(c) /\ p \in Place /\ HomeOK(c, p)
  /\ config.trim => InLine(d, c)
  /\ craft[d].ready => c.ready
Allowed(d, c, p) == Fits(d, c, p) /\ Sound(c)

LEMMA StepKeepsNodes ==
  ASSUME OrbitInductive, NEW d \in Drones, NEW c, NEW p, Allowed(d, c, p), StepOf(d, c, p)
  PROVE  /\ Sounds' /\ Homes' /\ Line'
         /\ (craft \in [Fleet -> Craft])'
         /\ (\A e \in Fleet : craft[e].tau >= Never /\ craft[e].home >= Never
                              /\ craft[e].duration >= NoEnd)'
         /\ (place \in [Fleet -> Place])'
<1> USE DEF OrbitInductive
<1>1. d \in Fleet /\ Drones \subseteq Fleet
  BY DronesOfTheFleet
<1>2. craft \in [Fleet -> Craft] /\ place \in [Fleet -> Place]
  BY DEF TypeOK, Place
<1>3. /\ craft'[d] = c /\ place'[d] = p
      /\ \A e \in Fleet \ {d} : craft'[e] = craft[e] /\ place'[e] = place[e]
  BY <1>1, <1>2 DEF StepOf
<1>4. Drones' = Drones /\ config' = config
  BY DEF StepOf, Drones
<1>5. Sounds'
  BY <1>1, <1>3, <1>4 DEF Sounds, Sound, Ordered, Allowed
<1>6. Homes'
  BY <1>1, <1>3, <1>4 DEF Homes, Allowed, Fits, HomeOK, AtRest
<1>7. Line'
  <2> SUFFICES ASSUME config.trim, NEW e \in Drones
               PROVE  InLine(e, craft[e])'
    BY <1>4 DEF Line
  <2>1. \A i \in Drones : craft[i].ready => craft'[i].ready
    BY <1>1, <1>3 DEF Allowed, Fits
  <2>2. InLine(e, craft[e]) /\ InLine(d, c)
    BY DEF Line, Allowed, Fits
  <2>3. e \in Int /\ \A i \in Drones : i \in Int
    BY DronesOfTheFleet DEF Drones
  <2>4. e > 1 => e - 1 \in Drones
    BY DronesOfTheFleet DEF Drones
  <2>5. CASE e = d
    BY <1>3, <1>4, <2>1, <2>2, <2>3, <2>4, <2>5 DEF InLine, Ready
  <2>6. CASE e # d
    BY <1>1, <1>3, <1>4, <2>1, <2>2, <2>3, <2>4, <2>6 DEF InLine, Ready
  <2> QED
    BY <2>5, <2>6
<1>8. (craft \in [Fleet -> Craft])'
  BY <1>1, <1>2 DEF StepOf, Allowed, Fits, CraftOK
<1>9. (\A e \in Fleet : craft[e].tau >= Never /\ craft[e].home >= Never
                        /\ craft[e].duration >= NoEnd)'
  BY <1>3 DEF Allowed, Fits, CraftOK, TypeOK, Never, NoEnd
<1>10. (place \in [Fleet -> Place])'
  BY <1>1, <1>2 DEF StepOf, Allowed, Fits
<1> QED
  BY <1>5, <1>6, <1>7, <1>8, <1>9, <1>10

(* The shapes a step need not disturb.                                        *)
Carried ==
  /\ config \in [staging : BOOLEAN, trim : BOOLEAN, excite : BOOLEAN]
  /\ count \in Nat \ {0} /\ Last \in Fleet
  /\ said \in [Fleet -> {"nothing", "nominal", "phase", "deconflict"}]
  /\ heard \subseteq Drones \X Drones
  /\ gates \in [Fleet -> SUBSET {"begin", "end"}] /\ ticked \subseteq Drones
  /\ used \in [resets : 0 .. MaxResets[Last], lost : 0 .. MaxLost[Last], begins : 0 .. MaxBegins[Last],
             ends : 0 .. MaxEnds[Last], upsets : 0 .. MaxUpsets[Last]]

LEMMA StepKeepsAll ==
  ASSUME OrbitInductive, NEW d \in Drones, NEW c, NEW p, Allowed(d, c, p), StepOf(d, c, p),
         Carried', Words'
  PROVE  OrbitInductive'
<1>1. /\ Sounds' /\ Homes' /\ Line'
      /\ (craft \in [Fleet -> Craft])'
      /\ (\A e \in Fleet : craft[e].tau >= Never /\ craft[e].home >= Never
                           /\ craft[e].duration >= NoEnd)'
      /\ (place \in [Fleet -> Place])'
  BY StepKeepsNodes
<1> QED
  BY <1>1 DEF OrbitInductive, Carried, TypeOK, Place

(* What the fleet has said stays true when no drone leaves its place.           *)
LEMMA WordsKept ==
  ASSUME OrbitInductive, NEW d \in Drones, NEW c, NEW p, Allowed(d, c, p), StepOf(d, c, p),
         UNCHANGED heard,
         \/ UNCHANGED said
         \/ said' = [said EXCEPT ![d] = craft[d].mode] /\ craft[d].life = "active"
  PROVE  Words'
<1>1. d \in Fleet /\ Drones \subseteq Fleet
  BY DronesOfTheFleet DEF OrbitInductive
<1>2. craft \in [Fleet -> Craft] /\ said \in [Fleet -> {"nothing", "nominal", "phase", "deconflict"}]
  BY DEF OrbitInductive, TypeOK
<1>3. \A e \in Drones : Ready(e) => Ready(e)'
  BY <1>1, <1>2 DEF Allowed, Fits, StepOf, Ready
<1>4. Drones' = Drones /\ config' = config
  BY DEF StepOf, Drones
<1> SUFFICES ASSUME config.trim PROVE Words'
  BY <1>4 DEF Words
<1>5. ASSUME NEW e \in Drones, said'[e] = "nominal" PROVE Ready(e)'
  <2>1. CASE said[e] = "nominal"
    BY <1>3, <2>1 DEF OrbitInductive, Words
  <2>2. CASE said[e] # "nominal"
    <3>1. e = d /\ craft[d].mode = "nominal" /\ craft[d].life = "active"
      BY <1>1, <1>2, <1>5, <2>2
    <3>2. Ready(d)
      BY <3>1 DEF OrbitInductive, Line, InLine, Ready
    <3> QED
      BY <1>3, <3>1, <3>2
  <2> QED
    BY <2>1, <2>2
<1>6. \A i, e \in Drones : <<i, e>> \in heard' => Ready(e)'
  BY <1>3 DEF OrbitInductive, Words
<1> QED
  BY <1>4, <1>5, <1>6 DEF Words

-----------------------------------------------------------------------------
(* Ticks: d goes on to c, with the setpoint of the tick in its hands.           *)
LEMMA TickStep ==
  ASSUME OrbitInductive, NEW d \in Drones, NEW c, NEW p,
         craft[d].life = "active", Ticks(d, c), place' = [place EXCEPT ![d] = p],
         Fits(d, c, p)
  PROVE  OrbitInductive'
<1> DEFINE after == [c EXCEPT !.nominal = TRUE]
<1>1. StepOf(d, after, p)
  BY DEF Ticks, Node, StepOf
<1>2. d \in Fleet /\ Drones \subseteq Fleet
  BY DronesOfTheFleet DEF OrbitInductive
<1>3. craft[d].mode \in {"nominal", "phase", "deconflict"}
  BY <1>2 DEF OrbitInductive, TypeOK, Craft
<1>6. Allowed(d, after, p)
  BY DEF Allowed, Fits, CraftOK, Craft, Sound, Ordered, HomeOK, AtRest, InLine
<1> HIDE DEF after
<1>4. Carried'
  <2>1. (said \in [Fleet -> {"nothing", "nominal", "phase", "deconflict"}])'
    BY <1>2, <1>3 DEF OrbitInductive, TypeOK, Ticks
  <2>2. (ticked \subseteq Drones)'
    BY DEF OrbitInductive, TypeOK, Ticks, Drones
  <2>3. used' \in [resets : 0 .. MaxResets[Last], lost : 0 .. MaxLost[Last], begins : 0 .. MaxBegins[Last],
                 ends : 0 .. MaxEnds[Last], upsets : 0 .. MaxUpsets[Last]]
    <3>1. Last \in Fleet /\ MaxUpsets[Last] \in Nat
      BY OrbitConstants DEF OrbitInductive, TypeOK
    <3>2. CASE used' = used
      BY <3>2 DEF OrbitInductive, TypeOK
    <3>3. CASE used' = [used EXCEPT !.upsets = @ + 1] /\ used.upsets < MaxUpsets[Last]
      BY <3>1, <3>3 DEF OrbitInductive, TypeOK
    <3> QED
      BY <3>2, <3>3 DEF Ticks
  <2> QED
    BY <2>1, <2>2, <2>3 DEF OrbitInductive, TypeOK, Carried, Ticks, Last, Drones
<1>5. Words'
  BY <1>1, <1>2, <1>6, WordsKept DEF Ticks
<1> QED
  BY <1>1, <1>4, <1>5, <1>6, StepKeepsAll
(* A new anchor moves the way home the other way.                             *)
LEMMA ReanchoredIs ==
  ASSUME NEW q \in Place, NEW here \in Int
  PROVE  LET p == Reanchored(q, here)
         IN /\ p \in Place /\ p.anchor = here /\ p.home_offset = q.anchor - here
            /\ p.climbed_at = q.climbed_at
<1> DEFINE back == q.anchor - here
<1>1. back \in Int
  BY DEF Place
<1>2. Reanchored(q, here) = [q EXCEPT !.anchor = here, !.home_offset = back]
  BY DEF Reanchored
<1> HIDE DEF back
<1>3. LET p == Reanchored(q, here)
      IN /\ p \in Place /\ p.anchor = here /\ p.home_offset = back
         /\ p.climbed_at = q.climbed_at
  BY <1>1, <1>2 DEF Place
<1> QED
  BY <1>3 DEF back

(* The blend and the settling at home touch only the dwell and the landing.     *)
LEMMA HomingKeeps ==
  ASSUME NEW c, CraftOK(c), NEW t, NEW settled \in BOOLEAN, NEW through \in BOOLEAN
  PROVE  LET g == Homing(c, t, settled, through)
         IN /\ CraftOK(g) /\ (Ordered(c) => Ordered(g))
            /\ g.life = c.life /\ g.mode = c.mode /\ g.dwelling = c.dwelling
            /\ g.ready = c.ready /\ g.staged = c.staged /\ g.climbed = c.climbed
<1>1. CASE t < Blend
  BY <1>1 DEF Homing, CraftOK, Craft, Ordered
<1>2. CASE ~(t < Blend)
  <2> DEFINE land == c.land \/ (settled /\ c.settling /\ through)
             g == [c EXCEPT !.settling = settled, !.land = land]
  <2>1. land \in BOOLEAN
    OBVIOUS
  <2>2. Homing(c, t, settled, through) = g
    BY <1>2 DEF Homing, CraftOK, Craft
  <2> HIDE DEF land
  <2>3. /\ CraftOK(g) /\ (Ordered(c) => Ordered(g))
        /\ g.life = c.life /\ g.mode = c.mode /\ g.dwelling = c.dwelling
        /\ g.ready = c.ready /\ g.staged = c.staged /\ g.climbed = c.climbed
    BY <2>1 DEF CraftOK, Craft, Ordered
  <2> QED
    BY <2>2, <2>3
<1> QED
  BY <1>1, <1>2

LEMMA TickKeeps ==
  ASSUME OrbitInductive, NEW d \in Drones, Tick(d)
  PROVE  OrbitInductive'
<1> DEFINE c == craft[d]
           q == place[d]
<1>1. /\ CraftOK(c) /\ Sound(c) /\ q \in Place /\ HomeOK(c, q)
      /\ config.trim => InLine(d, c)
      /\ place = [place EXCEPT ![d] = q]
      /\ d \in Fleet /\ d \in Nat
  BY OneNode, DronesOfTheFleet DEF OrbitInductive, Sounds, Homes, Line, TypeOK, Drones
<1>2. c.life = "active"
  BY DEF Tick, Climb, StageToSlot, TrimWaits, Trims, TrimSettles, HoldsLine, OffCenter, AtCenter,
         Returns, Orbits, Staging, Transit, PreOrbit, Asks, Flies
<1>3. CASE Climb(d)
  <2>1. PICK up \in BOOLEAN, o \in Offsets[Last] :
          /\ Ticks(d, [c EXCEPT !.climbed = up, !.started = FALSE])
          /\ LET here == q.launch + o
             IN place' = [place EXCEPT ![d].anchor = here, ![d].climbed_at = here]
    BY <1>3 DEF Climb
  <2>2. o \in Int
    BY OrbitConstants DEF OrbitInductive, TypeOK
  <2> DEFINE here == q.launch + o
             p == [q EXCEPT !.anchor = here, !.climbed_at = here]
  <2>3. here \in Int
    BY <1>1, <2>2 DEF Place
  <2> HIDE DEF here
  <2>4. place' = [place EXCEPT ![d] = p]
    BY <1>1, <2>1 DEF OrbitInductive, TypeOK, here
  <2>5. p \in Place /\ p.anchor = here /\ p.climbed_at = here /\ p.home_offset = q.home_offset
    BY <1>1, <2>3 DEF Place
  <2>6. q.home_offset = 0
    BY <1>1, <1>3 DEF Climb, HomeOK, AtRest
  <2> HIDE DEF p
  <2>8. c.ready = craft[d].ready /\ CraftOK([c EXCEPT !.climbed = up, !.started = FALSE])
    BY <1>1 DEF CraftOK, Craft
  <2>9. Ordered([c EXCEPT !.climbed = up, !.started = FALSE])
    BY <1>1 DEF CraftOK, Craft, Sound, Ordered
  <2>10. HomeOK([c EXCEPT !.climbed = up, !.started = FALSE], p)
    BY <1>1, <2>3, <2>5, <2>6 DEF CraftOK, Craft, HomeOK, AtRest, Place
  <2>11. config.trim => InLine(d, [c EXCEPT !.climbed = up, !.started = FALSE])
    BY <1>1 DEF CraftOK, Craft, InLine
  <2>7. Fits(d, [c EXCEPT !.climbed = up, !.started = FALSE], p)
    BY <1>1, <2>5, <2>8, <2>9, <2>10, <2>11 DEF Fits, CraftOK, Craft
  <2> QED
    BY <1>2, <2>1, <2>4, <2>7, TickStep
<1>4. CASE StageToSlot(d)
  <2>1. Fits(d, [c EXCEPT !.started = TRUE], q)
    BY <1>1 DEF Fits, CraftOK, Craft, Sound, Ordered, HomeOK, AtRest, InLine, Never, NoEnd
  <2>2. CASE Ticks(d, [c EXCEPT !.started = TRUE]) /\ UNCHANGED place
    BY <1>1, <1>2, <2>1, <2>2, TickStep
  <2>3. CASE /\ Ticks(d, [c EXCEPT !.started = TRUE, !.staged = TRUE])
             /\ place' = [place EXCEPT ![d] = Reanchored(@, Slot)]
    <3> DEFINE p == Reanchored(q, Slot)
               slotted == [c EXCEPT !.started = TRUE, !.staged = TRUE]
    <3>1. p \in Place /\ p.anchor = Slot /\ p.home_offset = q.anchor - Slot
          /\ p.climbed_at = q.climbed_at
      BY <1>1, OrbitConstants, ReanchoredIs
    <3>2. c.climbed /\ ~c.staged /\ ~c.ready /\ ~config.trim
      BY <1>1, <1>4 DEF StageToSlot, Staging, Sound, Ordered
    <3>3. place' = [place EXCEPT ![d] = p]
      BY <1>1, <2>3 DEF OrbitInductive, TypeOK
    <3> HIDE DEF p
    <3>4. q.anchor = q.climbed_at
      BY <1>1, <3>2 DEF HomeOK, AtRest, Place
    <3>5. CraftOK(slotted) /\ slotted.climbed /\ slotted.staged /\ slotted.ready = c.ready
      BY <1>1, <3>2 DEF CraftOK, Craft
    <3>6. Ordered(slotted)
      BY <1>1 DEF CraftOK, Craft, Sound, Ordered
    <3> HIDE DEF slotted
    <3>7. HomeOK(slotted, p)
      BY <1>1, <3>1, <3>4, <3>5, OrbitConstants DEF HomeOK, AtRest, Place
    <3>8. Fits(d, slotted, p)
      BY <3>1, <3>2, <3>5, <3>6, <3>7 DEF Fits
    <3> QED
      BY <1>2, <2>3, <3>3, <3>8, TickStep DEF slotted
  <2> QED
    BY <1>4, <2>2, <2>3 DEF StageToSlot
<1>5. CASE TrimWaits(d)
  <2>1. Fits(d, [c EXCEPT !.started = TRUE], q)
    BY <1>1 DEF Fits, CraftOK, Craft, Sound, Ordered, HomeOK, AtRest, InLine, Never, NoEnd
  <2> QED
    BY <1>1, <1>2, <1>5, <2>1, TickStep DEF TrimWaits
<1>6. CASE Trims(d)
  <2>1. PICK settled \in BOOLEAN : Ticks(d, [c EXCEPT !.dwelling = settled])
    BY <1>6 DEF Trims
  <2>2. config.trim /\ d > 0 /\ <<d, d - 1>> \in heard /\ d - 1 \in Drones
    BY <1>1, <1>6, DronesOfTheFleet DEF Trims, CanTrim, Drones, OrbitInductive
  <2>3. d > 1 => craft[d - 1].ready
    BY <1>1, <2>2 DEF OrbitInductive, Words, Ready
  <2>4. Fits(d, [c EXCEPT !.dwelling = settled], q)
    BY <1>1, <2>3 DEF Fits, CraftOK, Craft, Sound, Ordered, HomeOK, AtRest, InLine, Never, NoEnd
  <2> QED
    BY <1>1, <1>2, <1>6, <2>1, <2>4, TickStep DEF Trims
<1>7. CASE TrimSettles(d)
  <2> DEFINE settled == [c EXCEPT !.ready = TRUE, !.mode = "nominal"]
  <2>1. PICK o \in Offsets[Last] : place' = [place EXCEPT ![d] = Reanchored(@, @.launch + o)]
    BY <1>7 DEF TrimSettles
  <2>2. o \in Int
    BY OrbitConstants DEF OrbitInductive, TypeOK
  <2> DEFINE here == q.launch + o
             p == Reanchored(q, here)
  <2>3. here \in Int
    BY <1>1, <2>2 DEF Place
  <2>4. place' = [place EXCEPT ![d] = p]
    BY <1>1, <2>1 DEF OrbitInductive, TypeOK
  <2> HIDE DEF here
  <2>5. p \in Place /\ p.anchor = here /\ p.home_offset = q.anchor - here
        /\ p.climbed_at = q.climbed_at
    BY <1>1, <2>3, ReanchoredIs
  <2>6. c.climbed /\ ~c.staged /\ ~c.ready /\ config.trim /\ c.dwelling /\ d > 0
    BY <1>7 DEF TrimSettles, Staging
  <2>7. Ticks(d, settled)
    BY <1>7 DEF TrimSettles
  <2> HIDE DEF p
  <2>8. CraftOK(settled) /\ settled.ready /\ settled.climbed /\ settled.staged = c.staged
        /\ settled.dwelling = c.dwelling
    BY <1>1, <2>6 DEF CraftOK, Craft
  <2>9. Ordered(settled)
    BY <1>1, <2>6 DEF CraftOK, Craft, Sound, Ordered
  <2> HIDE DEF settled
  <2>10. q.anchor = q.climbed_at
    BY <1>1, <2>6 DEF HomeOK, AtRest, Place
  <2>11. HomeOK(settled, p)
    BY <1>1, <2>3, <2>5, <2>8, <2>10 DEF HomeOK, AtRest, Place
  <2>12. \A e \in Drones : e < d => Ready(e)
    <3> SUFFICES ASSUME NEW e \in Drones, e < d, e > 0 PROVE craft[e].ready
      BY DEF Ready
    <3>1. d - 1 \in Drones /\ d > 1 /\ e \in Int
      BY <1>1, DronesOfTheFleet DEF Drones, OrbitInductive
    <3>2. craft[d - 1].ready
      BY <1>1, <2>6, <3>1 DEF InLine
    <3>3. \A i \in Drones : i < d - 1 => Ready(i)
      BY <2>6, <3>1, <3>2 DEF OrbitInductive, Line, InLine
    <3>4. e = d - 1 \/ e < d - 1
      BY <1>1, <3>1
    <3> QED
      BY <3>2, <3>3, <3>4 DEF Ready
  <2>13. InLine(d, settled)
    BY <1>1, <2>6, <2>8, <2>12 DEF InLine
  <2>14. Fits(d, settled, p)
    BY <2>5, <2>8, <2>9, <2>11, <2>13 DEF Fits
  <2> QED
    BY <1>2, <2>4, <2>7, <2>14, TickStep
<1>8. CASE HoldsLine(d)
  <2> DEFINE whole == LineIsComplete(d)
             mode == IF c.ready THEN c.mode ELSE "nominal"
             held == [c EXCEPT !.started = TRUE, !.ready = TRUE, !.staged = whole, !.mode = mode]
  <2>1. config.trim /\ c.climbed /\ ~c.staged /\ (d = 0 \/ c.ready) /\ UNCHANGED place
    BY <1>8 DEF HoldsLine, Staging
  <2>2. Ticks(d, held)
    BY <1>1, <1>8 DEF HoldsLine, CraftOK, Craft
  <2>3. whole \in BOOLEAN /\ mode \in {"nominal", "phase", "deconflict"}
    BY <1>1 DEF LineIsComplete, CraftOK, Craft
  <2>4. d # Last /\ whole => Ready(Last)
    BY <2>1, DronesOfTheFleet DEF LineIsComplete, OrbitInductive, Words
  <2> HIDE DEF whole, mode
  <2>5. CraftOK(held) /\ held.ready /\ held.staged = whole /\ held.climbed
        /\ held.dwelling = c.dwelling /\ held.center = c.center /\ held.tau = c.tau
        /\ held.home = c.home /\ held.homing = c.homing
    <3> DEFINE begun == [c EXCEPT !.started = TRUE, !.ready = TRUE]
    <3>1. CraftOK(begun) /\ begun.ready /\ begun.climbed
          /\ begun.dwelling = c.dwelling /\ begun.center = c.center /\ begun.tau = c.tau
          /\ begun.home = c.home /\ begun.homing = c.homing
      BY <1>1, <2>1 DEF CraftOK, Craft
    <3>2. held = [begun EXCEPT !.staged = whole, !.mode = mode]
      BY <1>1 DEF CraftOK, Craft
    <3> HIDE DEF begun, held
    <3> QED
      BY <2>3, <3>1, <3>2 DEF CraftOK, Craft
  <2> HIDE DEF held
  <2>6. Ordered(held) /\ HomeOK(held, q)
    BY <1>1, <2>1, <2>5 DEF Sound, Ordered, HomeOK, AtRest
  <2>7. \A e \in Drones : e < d => Ready(e)
    BY <1>1, <2>1 DEF InLine, Drones
  <2>8. whole => \A e \in Drones \ {d} : Ready(e)
    <3> SUFFICES ASSUME whole, NEW e \in Drones, e # d, e > 0 PROVE craft[e].ready
      BY DEF Ready
    <3>1. Last \in Drones /\ Last \in Int /\ e \in Int /\ e <= Last
      BY DronesOfTheFleet DEF Drones, Last, OrbitInductive
    <3>2. CASE d = Last
      BY <1>1, <2>7, <3>1, <3>2 DEF Ready
    <3>3. CASE d # Last
      <4>1. craft[Last].ready
        BY <2>4, <3>1, <3>3 DEF Ready
      <4>2. \A i \in Drones : i < Last => Ready(i)
        BY <2>1, <3>1, <4>1 DEF OrbitInductive, Line, InLine
      <4> QED
        BY <3>1, <4>1, <4>2 DEF Ready
    <3> QED
      BY <3>2, <3>3
  <2>9. InLine(d, held)
    BY <1>1, <2>1, <2>5, <2>7, <2>8 DEF InLine
  <2>10. Fits(d, held, q)
    BY <1>1, <2>5, <2>6, <2>9 DEF Fits
  <2> QED
    BY <1>1, <1>2, <2>1, <2>2, <2>10, TickStep
<1>9. CASE OffCenter(d)
  <2>1. Fits(d, c, q) /\ Fits(d, [c EXCEPT !.hovering = FALSE], q)
    BY <1>1 DEF Fits, CraftOK, Craft, Sound, Ordered, HomeOK, AtRest, InLine, Never, NoEnd
  <2> QED
    BY <1>1, <1>2, <1>9, <2>1, TickStep DEF OffCenter
<1>10. CASE AtCenter(d)
  <2>1. c.staged /\ UNCHANGED place
    BY <1>10 DEF AtCenter, Transit
  <2>2. CASE \E bob \in BOOLEAN : Ticks(d, [c EXCEPT !.hovering = TRUE, !.exciting = @ \/ bob])
    <3>1. PICK bob \in BOOLEAN : Ticks(d, [c EXCEPT !.hovering = TRUE, !.exciting = @ \/ bob])
      BY <2>2
    <3> DEFINE begun == c.exciting \/ bob
    <3>2. begun \in BOOLEAN
      OBVIOUS
    <3>3. Ticks(d, [c EXCEPT !.hovering = TRUE, !.exciting = begun])
      BY <1>1, <3>1 DEF CraftOK, Craft
    <3> HIDE DEF begun
    <3>4. Fits(d, [c EXCEPT !.hovering = TRUE, !.exciting = begun], q)
      BY <1>1, <3>2 DEF Fits, CraftOK, Craft, Sound, Ordered, HomeOK, AtRest, InLine, Never, NoEnd
    <3> QED
      BY <1>1, <1>2, <2>1, <3>3, <3>4, TickStep
  <2>3. CASE Ticks(d, [c EXCEPT !.excited = TRUE, !.center = TRUE])
    <3>1. Fits(d, [c EXCEPT !.excited = TRUE, !.center = TRUE], q)
      BY <1>1, <2>1 DEF Fits, CraftOK, Craft, Sound, Ordered, HomeOK, AtRest, InLine, Never, NoEnd
    <3> QED
      BY <1>1, <1>2, <2>1, <2>3, <3>1, TickStep
  <2> QED
    BY <1>10, <2>2, <2>3 DEF AtCenter
<1>11. CASE Returns(d)
  <2> DEFINE b == Peeled(c)
  <2>1. PICK settled \in BOOLEAN, through \in BOOLEAN :
          Ticks(d, Homing(b, HomeTime(c), settled, through))
    BY <1>11 DEF Returns
  <2>2. CraftOK(b) /\ Ordered(b) /\ b.dwelling = c.dwelling
        /\ b.ready = c.ready /\ b.staged = c.staged /\ b.climbed = c.climbed
    <3> DEFINE peels == [c EXCEPT !.mode = "nominal", !.peeled = TRUE]
    <3>1. CraftOK(peels) /\ Ordered(peels) /\ peels.dwelling = c.dwelling
          /\ peels.ready = c.ready /\ peels.staged = c.staged /\ peels.climbed = c.climbed
      BY <1>1 DEF CraftOK, Craft, Sound, Ordered
    <3>2. b = peels \/ b = c
      BY DEF Peeled
    <3> HIDE DEF b, peels
    <3> QED
      BY <1>1, <3>1, <3>2 DEF Sound
  <2>3. b.mode = "nominal" /\ config.trim /\ d > 0 => c.ready
    <3>1. CASE c.home # Never
      BY <1>1, <1>2, <3>1 DEF InLine, Peeled
    <3>2. CASE c.home = Never
      <4>1. c.tau # Never
        BY <1>11, <3>2 DEF Returns, Flies
      <4> QED
        BY <1>1, <4>1 DEF Sound, Ordered, InLine
    <3> QED
      BY <3>1, <3>2
  <2> HIDE DEF b
  <2> DEFINE g == Homing(b, HomeTime(c), settled, through)
  <2>4. /\ CraftOK(g) /\ Ordered(g) /\ g.mode = b.mode
        /\ g.dwelling = c.dwelling /\ g.ready = c.ready /\ g.staged = c.staged
        /\ g.climbed = c.climbed
    BY <2>2, HomingKeeps
  <2> HIDE DEF g
  <2>5. HomeOK(g, q) /\ (config.trim => InLine(d, g))
    BY <1>1, <2>3, <2>4 DEF HomeOK, AtRest, InLine
  <2>6. Fits(d, g, q)
    BY <1>1, <2>4, <2>5 DEF Fits
  <2> QED
    BY <1>1, <1>2, <1>11, <2>1, <2>6, TickStep DEF Returns, g
<1>12. CASE Orbits(d)
  <2>1. c.tau # Never /\ UNCHANGED place
    BY <1>12 DEF Orbits
  <2>2. c.staged
    BY <1>1, <2>1 DEF Sound, Ordered
  <2>3. PICK g : /\ Ticks(d, g)
                 /\ g \in {c, [c EXCEPT !.mode = "phase"],
                            [c EXCEPT !.mode = "nominal", !.peeled = TRUE]}
    BY <1>1, <1>12 DEF Orbits, CraftOK, Craft, Never, NoEnd
  <2>4. Fits(d, c, q)
    BY <1>1 DEF Fits, Sound
  <2>5. Fits(d, [c EXCEPT !.mode = "phase"], q)
    BY <1>1 DEF Fits, CraftOK, Craft, Sound, Ordered, HomeOK, AtRest, InLine, Never, NoEnd
  <2>6. Fits(d, [c EXCEPT !.mode = "nominal", !.peeled = TRUE], q)
    BY <1>1, <2>2 DEF Fits, CraftOK, Craft, Sound, Ordered, HomeOK, AtRest, InLine, Never, NoEnd
  <2> QED
    BY <1>1, <1>2, <2>1, <2>3, <2>4, <2>5, <2>6, TickStep
<1> QED
  BY <1>3, <1>4, <1>5, <1>6, <1>7, <1>8, <1>9, <1>10, <1>11, <1>12 DEF Tick

-----------------------------------------------------------------------------
(* Steps of one node that leave its places and what is heard.                  *)
LEMMA NodeStep ==
  ASSUME OrbitInductive, NEW d \in Drones, NEW c, NEW p, Allowed(d, c, p), StepOf(d, c, p),
         UNCHANGED <<said, heard>>,
         (gates \in [Fleet -> SUBSET {"begin", "end"}])', UNCHANGED ticked,
         (used \in [resets : 0 .. MaxResets[Last], lost : 0 .. MaxLost[Last],
                    begins : 0 .. MaxBegins[Last], ends : 0 .. MaxEnds[Last],
                    upsets : 0 .. MaxUpsets[Last]])'
  PROVE  OrbitInductive'
<1>1. Words'
  BY WordsKept
<1>2. Carried'
  BY DEF OrbitInductive, TypeOK, Carried, StepOf, Last, Drones
<1> QED
  BY <1>1, <1>2, StepKeepsAll

LEMMA CommandsKeep ==
  ASSUME OrbitInductive, NEW d \in Drones,
         \/ BeginArrives(d) \/ EndArrives(d) \/ Activates(d) \/ HandsOver(d) \/ DropsOut(d)
         \/ ResetArrives(d)
  PROVE  OrbitInductive'
<1> DEFINE c == craft[d]
           q == place[d]
<1>1. /\ CraftOK(c) /\ Sound(c) /\ q \in Place /\ HomeOK(c, q)
      /\ config.trim => InLine(d, c)
      /\ place = [place EXCEPT ![d] = q] /\ craft = [craft EXCEPT ![d] = c]
      /\ d \in Fleet /\ d \in Nat
      /\ gates \in [Fleet -> SUBSET {"begin", "end"}]
      /\ used \in [resets : 0 .. MaxResets[Last], lost : 0 .. MaxLost[Last], begins : 0 .. MaxBegins[Last],
                   ends : 0 .. MaxEnds[Last], upsets : 0 .. MaxUpsets[Last]]
  BY OneNode, DronesOfTheFleet DEF OrbitInductive, Sounds, Homes, Line, TypeOK, Drones
<1>2. MaxLost[Last] \in Nat /\ MaxResets[Last] \in Nat
  BY DronesOfTheFleet, OrbitConstants DEF OrbitInductive
<1>3. CASE BeginArrives(d)
  <2>1. StepOf(d, OrbitGate(c), q)
    BY <1>1, <1>3 DEF BeginArrives, Node, StepOf
  <2>2. Allowed(d, OrbitGate(c), q)
    BY <1>1, OrbitGateKeeps DEF Allowed, Fits, Sound, HomeOK, AtRest, InLine
  <2>3. (gates \in [Fleet -> SUBSET {"begin", "end"}])'
    BY <1>1, <1>3 DEF BeginArrives
  <2> QED
    BY <1>1, <1>3, <2>1, <2>2, <2>3, NodeStep DEF BeginArrives, Last
<1>4. CASE EndArrives(d)
  <2> DEFINE told == [c EXCEPT !.homing = TRUE]
             b == IF c.homing THEN c ELSE ReturnHome(told)
  <2>1. /\ CraftOK(told) /\ Sound(told) /\ told.homing
        /\ told.life = c.life /\ told.mode = c.mode /\ told.dwelling = c.dwelling
        /\ told.ready = c.ready /\ told.staged = c.staged /\ told.climbed = c.climbed
    BY <1>1 DEF CraftOK, Craft, Sound, Ordered
  <2>2. StepOf(d, b, q)
    BY <1>1, <1>4 DEF EndArrives, Node, StepOf
  <2> HIDE DEF told
  <2>3. /\ CraftOK(b) /\ Sound(b)
        /\ b.life = c.life /\ b.mode = c.mode /\ b.dwelling = c.dwelling
        /\ b.ready = c.ready /\ b.staged = c.staged /\ b.climbed = c.climbed
    BY <1>1, <2>1, ReturnHomeKeeps
  <2> HIDE DEF b
  <2>4. Allowed(d, b, q)
    BY <1>1, <2>3 DEF Allowed, Fits, Sound, HomeOK, AtRest, InLine
  <2>5. (gates \in [Fleet -> SUBSET {"begin", "end"}])'
    BY <1>1, <1>4 DEF EndArrives
  <2> QED
    BY <1>1, <1>4, <2>2, <2>4, <2>5, NodeStep DEF EndArrives, Last
<1>5. Allowed(d, [c EXCEPT !.life = "gone"], q)
  BY <1>1 DEF Allowed, Fits, CraftOK, Craft, Sound, Ordered, HomeOK, AtRest, InLine
<1>6. CASE Activates(d)
  <2> DEFINE mode == IF config.trim /\ d > 0 THEN "deconflict" ELSE c.mode
             b == [c EXCEPT !.life = "active", !.mode = mode]
  <2>1. CASE c.land
    BY <1>1, <1>5, <1>6, <2>1, NodeStep DEF Activates, Node, StepOf, Last
  <2>2. CASE ~c.land
    <3>1. mode \in {"nominal", "phase", "deconflict"} /\ (config.trim /\ d > 0 => mode # "nominal")
      BY <1>1 DEF CraftOK, Craft
    <3>2. StepOf(d, b, q)
      BY <1>1, <1>6, <2>2 DEF Activates, Node, StepOf, CraftOK, Craft
    <3> HIDE DEF mode
    <3>3. CraftOK(b) /\ Sound(b) /\ b.life = "active" /\ b.mode = mode
          /\ b.dwelling = c.dwelling /\ b.ready = c.ready /\ b.staged = c.staged
          /\ b.climbed = c.climbed
      BY <1>1, <3>1 DEF CraftOK, Craft, Sound, Ordered
    <3> HIDE DEF b
    <3>4. Allowed(d, b, q)
      BY <1>1, <3>1, <3>3 DEF Allowed, Fits, Sound, HomeOK, AtRest, InLine
    <3> QED
      BY <1>1, <1>6, <3>2, <3>4, NodeStep DEF Activates, Last
  <2> QED
    BY <2>1, <2>2
<1>7. CASE HandsOver(d)
  BY <1>1, <1>5, <1>7, NodeStep DEF HandsOver, Node, StepOf, Last
<1>8. CASE DropsOut(d)
  <2>1. (used \in [resets : 0 .. MaxResets[Last], lost : 0 .. MaxLost[Last],
                   begins : 0 .. MaxBegins[Last], ends : 0 .. MaxEnds[Last],
                   upsets : 0 .. MaxUpsets[Last]])'
    BY <1>1, <1>2, <1>8 DEF DropsOut, Last
  <2> QED
    BY <1>1, <1>5, <1>8, <2>1, NodeStep DEF DropsOut, Node, StepOf
<1>9. CASE ResetArrives(d)
  <2>1. PICK shift \in Shifts : place' = [place EXCEPT ![d] = FrameReset(@, shift)]
    BY <1>9 DEF ResetArrives
  <2> DEFINE p == FrameReset(q, shift)
  <2>2. /\ p \in Place /\ p.anchor = q.anchor + shift /\ p.home_offset = q.home_offset
        /\ p.climbed_at = q.climbed_at + shift
    <3> DEFINE l == q.launch + shift
               a == q.anchor + shift
               k == q.climbed_at + shift
    <3>1. shift \in Int /\ l \in Int /\ a \in Int /\ k \in Int
      BY <1>1, OrbitConstants DEF Place
    <3>2. p = [q EXCEPT !.launch = l, !.anchor = a, !.climbed_at = k]
      BY <1>1 DEF FrameReset, Place
    <3> HIDE DEF p, l, a, k
    <3>3. /\ p \in Place /\ p.anchor = a /\ p.home_offset = q.home_offset /\ p.climbed_at = k
      BY <1>1, <3>1, <3>2 DEF Place
    <3> QED
      BY <3>3 DEF a, k
  <2>3. place' = [place EXCEPT ![d] = p]
    BY <1>1, <2>1 DEF OrbitInductive, TypeOK
  <2> HIDE DEF p
  <2>4. shift \in Int
    BY OrbitConstants
  <2>5. HomeOK(c, p)
    BY <1>1, <2>2, <2>4 DEF HomeOK, AtRest, Place
  <2>6. Allowed(d, c, p)
    BY <1>1, <2>2, <2>5 DEF Allowed, Fits, Sound
  <2>7. StepOf(d, c, p)
    BY <1>1, <1>9, <2>3 DEF ResetArrives, StepOf
  <2>8. (used \in [resets : 0 .. MaxResets[Last], lost : 0 .. MaxLost[Last],
                   begins : 0 .. MaxBegins[Last], ends : 0 .. MaxEnds[Last],
                   upsets : 0 .. MaxUpsets[Last]])'
    BY <1>1, <1>2, <1>9 DEF ResetArrives, Last
  <2> QED
    BY <1>1, <1>9, <2>6, <2>7, <2>8, NodeStep DEF ResetArrives
<1> QED
  BY <1>3, <1>4, <1>6, <1>7, <1>8, <1>9

-----------------------------------------------------------------------------
(* The operator and the air.                                                 *)
LEMMA PublishKeeps ==
  ASSUME OrbitInductive, PublishBegin \/ PublishEnd
  PROVE  OrbitInductive'
<1>1. MaxBegins[Last] \in Nat /\ MaxEnds[Last] \in Nat /\ Last \in Fleet
  BY DronesOfTheFleet, OrbitConstants DEF OrbitInductive
<1>2. UNCHANGED <<config, count, craft, place, said, heard, ticked>>
  BY DEF PublishBegin, PublishEnd, Publishes
<1>3. (gates \in [Fleet -> SUBSET {"begin", "end"}])'
  <2>1. gates \in [Fleet -> SUBSET {"begin", "end"}]
    BY DEF OrbitInductive, TypeOK
  <2>2. PICK g \in {"begin", "end"} : Publishes(g)
    BY DEF PublishBegin, PublishEnd
  <2> QED
    BY <2>1, <2>2 DEF Publishes
<1>4. (used \in [resets : 0 .. MaxResets[Last], lost : 0 .. MaxLost[Last],
                 begins : 0 .. MaxBegins[Last], ends : 0 .. MaxEnds[Last],
                 upsets : 0 .. MaxUpsets[Last]])'
  <2>1. used \in [resets : 0 .. MaxResets[Last], lost : 0 .. MaxLost[Last],
                 begins : 0 .. MaxBegins[Last], ends : 0 .. MaxEnds[Last],
                 upsets : 0 .. MaxUpsets[Last]]
    BY DEF OrbitInductive, TypeOK
  <2>2. CASE PublishBegin
    BY <1>1, <1>2, <2>1, <2>2 DEF PublishBegin, Last
  <2>3. CASE PublishEnd
    BY <1>1, <1>2, <2>1, <2>3 DEF PublishEnd, Last
  <2> QED
    BY <2>2, <2>3
<1>5. TypeOK'
  BY <1>2, <1>3, <1>4 DEF OrbitInductive, TypeOK, Last, Drones
<1> QED
  BY <1>2, <1>5 DEF OrbitInductive, Sounds, Sound, Ordered, Homes, HomeOK, AtRest, Line, InLine,
                    Words, Ready, Drones

LEMMA AirKeeps ==
  ASSUME OrbitInductive, NEW d \in Drones, NEW e \in Drones, Hears(d, e) \/ GoesStale(d, e)
  PROVE  OrbitInductive'
<1>1. MaxUpsets[Last] \in Nat
  BY DronesOfTheFleet, OrbitConstants DEF OrbitInductive
<1>2. UNCHANGED <<config, count, craft, place, said, gates, ticked>>
  BY DEF Hears, GoesStale
<1>3. heard' \subseteq Drones \X Drones
  BY DEF Hears, GoesStale, OrbitInductive, TypeOK
<1>4. (used \in [resets : 0 .. MaxResets[Last], lost : 0 .. MaxLost[Last],
                 begins : 0 .. MaxBegins[Last], ends : 0 .. MaxEnds[Last],
                 upsets : 0 .. MaxUpsets[Last]])'
  BY <1>1, <1>2 DEF Hears, GoesStale, OrbitInductive, TypeOK, Last
<1>5. TypeOK'
  BY <1>2, <1>3, <1>4 DEF OrbitInductive, TypeOK, Last, Drones
<1>6. Words'
  BY <1>2 DEF OrbitInductive, Words, Hears, GoesStale, Ready, Drones
<1> QED
  BY <1>2, <1>5, <1>6 DEF OrbitInductive, Sounds, Sound, Ordered, Homes, HomeOK, AtRest, Line,
                          InLine, Ready, Drones

(* Time.                                                                     *)
LEMMA ClockKeeps ==
  ASSUME OrbitInductive, Clock
  PROVE  OrbitInductive'
<1>1. UNCHANGED <<config, count, place, said, heard, gates, used>> /\ ticked' = {}
      /\ craft' = [d \in Fleet |-> Later(craft[d])]
  BY DEF Clock
<1>2. Drones \subseteq Fleet
  BY DronesOfTheFleet DEF OrbitInductive
<1>3. ASSUME NEW d \in Fleet
      PROVE  CraftOK(craft'[d])
  <2>1. CraftOK(craft[d])
    BY DEF OrbitInductive, TypeOK, CraftOK
  <2> QED
    BY <1>1, <2>1, LaterTypes
<1>4. ASSUME NEW d \in Drones
      PROVE  LET g == craft'[d]
                 c == craft[d]
             IN /\ Sound(g)
                /\ g.life = c.life /\ g.mode = c.mode /\ g.dwelling = c.dwelling
                /\ g.ready = c.ready /\ g.staged = c.staged /\ g.climbed = c.climbed
  <2>1. CraftOK(craft[d]) /\ Sound(craft[d]) /\ craft'[d] = Later(craft[d])
    BY <1>1, <1>2, OneNode DEF OrbitInductive, Sounds
  <2> QED
    BY <2>1, LaterKeeps
<1>5. TypeOK'
  BY <1>1, <1>3 DEF OrbitInductive, TypeOK, CraftOK, Last, Drones
<1>6. Sounds'
  BY <1>1, <1>4 DEF OrbitInductive, Sounds, Sound, Ordered, Drones
<1>7. Homes'
  BY <1>1, <1>4 DEF OrbitInductive, Homes, HomeOK, AtRest, Drones
<1>8. \A e \in Drones : Ready(e)' = Ready(e)
  BY <1>4 DEF Ready
<1>9. Line'
  <2> SUFFICES ASSUME config.trim, NEW d \in Drones PROVE InLine(d, craft[d])'
    BY <1>1 DEF Line, Drones
  <2>1. InLine(d, craft[d])
    BY DEF OrbitInductive, Line
  <2>2. d > 1 => d - 1 \in Drones
    BY DronesOfTheFleet DEF OrbitInductive, Drones
  <2> QED
    BY <1>1, <1>4, <1>8, <2>1, <2>2 DEF InLine, Drones
<1>10. Words'
  BY <1>1, <1>8 DEF OrbitInductive, Words, Drones
<1> QED
  BY <1>5, <1>6, <1>7, <1>9, <1>10 DEF OrbitInductive

LEMMA InitHolds == Init => OrbitInductive
<1> SUFFICES ASSUME Init PROVE OrbitInductive
  OBVIOUS
<1>1. config \in [staging : BOOLEAN, trim : BOOLEAN, excite : BOOLEAN]
      /\ (config.trim => config.staging)
  BY DEF Init
<1>2. /\ CraftOK(Fresh) /\ Sound(Fresh) /\ Fresh.life = "idle" /\ ~Fresh.dwelling
      /\ ~Fresh.ready /\ (config.trim => ~Fresh.staged) /\ ~Fresh.climbed
  <2>1. CraftOK(Fresh)
    BY <1>1 DEF Fresh, CraftOK, Craft, Never, NoEnd
  <2>2. /\ Fresh.life = "idle" /\ ~Fresh.dwelling /\ ~Fresh.ready /\ ~Fresh.climbed
        /\ Fresh.staged = ~config.staging
        /\ ~Fresh.center /\ Fresh.tau = Never /\ Fresh.home = Never
    BY DEF Fresh
  <2> QED
    BY <1>1, <2>1, <2>2 DEF Sound, Ordered
<1>3. count \in Nat \ {0} /\ Last \in Fleet
  BY OrbitConstants DEF Init, Last
<1>4. Drones \subseteq Fleet
  BY <1>3, OrbitConstants DEF Drones, Last
<1>5. \A d \in Fleet : craft[d] = Fresh /\ place[d].home_offset = 0
  BY DEF Init
<1>6. TypeOK
  <2>1. {MaxResets[Last], MaxLost[Last], MaxBegins[Last], MaxEnds[Last], MaxUpsets[Last]} \subseteq Nat
    BY <1>3, OrbitConstants
  <2>2. used \in [resets : 0 .. MaxResets[Last], lost : 0 .. MaxLost[Last],
                  begins : 0 .. MaxBegins[Last], ends : 0 .. MaxEnds[Last],
                  upsets : 0 .. MaxUpsets[Last]]
    BY <2>1 DEF Init
  <2>3. craft \in [Fleet -> Craft]
    BY <1>2 DEF Init, CraftOK
  <2>4. place \in [Fleet -> [anchor : Int, home_offset : Int, launch : Int, climbed_at : Int]]
    BY DEF Init
  <2> QED
    BY <1>1, <1>2, <1>3, <1>5, <2>2, <2>3, <2>4 DEF Init, TypeOK, CraftOK
<1>7. Sounds /\ Homes
  BY <1>1, <1>2, <1>4, <1>5 DEF Sounds, Homes, HomeOK
<1>8. Line
  BY <1>2, <1>4, <1>5 DEF Line, InLine
<1>9. Words
  BY <1>4 DEF Init, Words
<1> QED
  BY <1>6, <1>7, <1>8, <1>9 DEF OrbitInductive

LEMMA NextKeeps == OrbitInductive /\ [Next]_vars => OrbitInductive'
<1> SUFFICES ASSUME OrbitInductive, [Next]_vars PROVE OrbitInductive'
  OBVIOUS
<1>1. CASE UNCHANGED vars
  BY <1>1 DEF vars, OrbitInductive, TypeOK, Sounds, Sound, Ordered, Homes, HomeOK, AtRest, Line, InLine,
              Words, Ready, Drones, Last
<1>2. CASE PublishBegin \/ PublishEnd
  BY <1>2, PublishKeeps
<1>3. CASE Clock
  BY <1>3, ClockKeeps
<1>4. ASSUME NEW d \in Drones,
             \/ BeginArrives(d) \/ EndArrives(d) \/ Activates(d) \/ HandsOver(d)
             \/ DropsOut(d) \/ ResetArrives(d)
      PROVE  OrbitInductive'
  BY <1>4, CommandsKeep
<1>5. ASSUME NEW d \in Drones, Tick(d)
      PROVE  OrbitInductive'
  BY <1>5, TickKeeps
<1>6. ASSUME NEW d \in Drones, NEW e \in Drones, Hears(d, e) \/ GoesStale(d, e)
      PROVE  OrbitInductive'
  BY <1>6, AirKeeps
<1> QED
  BY <1>1, <1>2, <1>3, <1>4, <1>5, <1>6 DEF Next

(* What the flags and the line say of home, the orbit and the line.              *)
LEMMA InductiveImplies == OrbitInductive => OrbitsInv
<1> SUFFICES ASSUME OrbitInductive PROVE OrbitsInv
  OBVIOUS
<1>1. ReturnPointIsKnown
  BY DEF OrbitInductive, Sounds, Sound, ReturnPointIsKnown
<1>2. HomeIsWhereItClimbed
  BY DEF OrbitInductive, Homes, HomeOK, HomeIsWhereItClimbed
<1>3. OrbitStartsAtCenter
  BY DEF OrbitInductive, Sounds, Sound, Ordered, OrbitStartsAtCenter
<1>4. LineIsBuiltInOrder
  <2> SUFFICES ASSUME config.trim, NEW d \in Drones
               PROVE  /\ d > 1 /\ craft[d].dwelling => craft[d - 1].ready
                      /\ craft[d].staged => \A e \in Drones \ {0} : craft[e].ready
    BY DEF LineIsBuiltInOrder
  <2>1. InLine(d, craft[d])
    BY DEF OrbitInductive, Line
  <2>2. \A e \in Drones \ {0} : e > 0
    BY DronesOfTheFleet DEF OrbitInductive, Drones
  <2> QED
    BY <2>1, <2>2 DEF InLine, Ready
<1> QED
  BY <1>1, <1>2, <1>3, <1>4 DEF OrbitInductive, OrbitsInv

(* Types, the way home, the orbit and the line hold in every flight of every     *)
(* fleet (_pre_orbit_setpoint, _line_trim_setpoint, on_return_home,              *)
(* on_local_frame_reset, _orbit_gate_cb).                                      *)
THEOREM OrbitsHold == Spec => []OrbitsInv
<1>1. Spec => []OrbitInductive
  BY InitHolds, NextKeeps, PTL DEF Spec
<1> QED
  BY <1>1, InductiveImplies, PTL
=============================================================================
