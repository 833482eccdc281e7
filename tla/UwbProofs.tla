------------------------------- MODULE UwbProofs -------------------------------
(***************************************************************************)
(* Proofs about the radios, from the air to the gateway.  Ranging, for any    *)
(* roster, mix of radios, periods and number of losses, resets and polls: a   *)
(* range is of one exchange and known to both ends, no pair is given up, and   *)
(* the attempts on a pair are spaced.  The host link of the DWM3001, for any    *)
(* set of peers that fits the slots, any capacities and any number of events,   *)
(* unplugs and configurations: its types and capacities, that the newest        *)
(* exchange with a peer is kept through failed writes, and that control events  *)
(* have their turn.  The fleet mode of one commander, for a fleet of any size    *)
(* and queues of any length: nobody goes back to an older mode.                *)
(***************************************************************************)
EXTENDS Ranging, RadioHost, MCFleetMode, FiniteSetTheorems, SequenceTheorems, TLAPS

-----------------------------------------------------------------------------
(* Ranging: the pair policy.                                                         *)

(* The larger and the smaller of two numbers.                                *)
LEMMA LargerOfTwo ==
  ASSUME NEW a \in Nat, NEW b \in Nat
  PROVE  Max({a, b}) \in {a, b} /\ Max({a, b}) >= a /\ Max({a, b}) >= b
<1>1. \E x \in {a, b} : \A y \in {a, b} : x >= y
  <2>1. CASE a >= b
    BY <2>1
  <2>2. CASE b >= a
    BY <2>2
  <2> QED BY <2>1, <2>2
<1> QED BY <1>1 DEF Max

LEMMA SmallerOfTwo ==
  ASSUME NEW a \in Nat, NEW b \in Nat
  PROVE  Min({a, b}) \in {a, b} /\ Min({a, b}) <= a /\ Min({a, b}) <= b
<1>1. \E x \in {a, b} : \A y \in {a, b} : x =< y
  <2>1. CASE a =< b
    BY <2>1
  <2>2. CASE b =< a
    BY <2>2
  <2> QED BY <2>1, <2>2
<1> QED BY <1>1 DEF Min

(* A pair at time t: its fields are typed, its only attempt lies in the past, *)
(* and it is due within the longest backoff. A pair at rest is not due       *)
(* before a close period after its last attempt.                            *)
Kept(m, t) ==
  /\ m \in MacStates
  /\ m.due <= t + MaxBackoff
  /\ m.last \subseteq 0 .. t /\ \A a, b \in m.last : a = b
Rested(m) == \A t \in m.last : t + ClosePeriod <= m.due

(* A period is the close or the far one.                                     *)
LEMMA PeriodIsBounded ==
  ASSUME NEW m, NEW t
  PROVE  Period(m, t) \in Nat /\ ClosePeriod <= Period(m, t) /\ Period(m, t) <= MaxBackoff
BY MacConstants DEF Period

(* A pair that starts.                                                      *)
LEMMA InitializeKeeps ==
  ASSUME NEW t \in Nat, NEW phase \in Phases \cup {0}
  PROVE  Kept(Initialize(t, phase), t) /\ Rested(Initialize(t, phase))
BY MacConstants DEF Initialize, Phases, Kept, Rested, MacStates, MaxExponent

LEMMA ExpireKeeps ==
  ASSUME NEW t \in Nat, NEW m, Kept(m, t)
  PROVE  Kept(Expire(m, t), t) /\ (Rested(m) => Rested(Expire(m, t)))
BY DEF Expire, Kept, Rested, MacStates

LEMMA BeginKeeps ==
  ASSUME NEW t \in Nat, NEW m, Kept(m, t)
  PROVE  Kept(BeginAttempt(m, t), t)
BY DEF BeginAttempt, Kept, MacStates

(* New failures and a new closeness leave the last attempt.                  *)
LEMMA SeenRenews ==
  ASSUME NEW m \in MacStates, NEW f \in 0 .. MaxExponent, NEW c \in SUBSET Nat,
         NEW r, r = [m EXCEPT !.failures = f, !.close_until = c]
  PROVE  r \in MacStates /\ r.last = m.last
<1>1. r \in MacStates
  BY DEF MacStates, MaxExponent
<1> QED BY <1>1 DEF MacStates

(* A success keeps the pair, and gives it its rest.                          *)
LEMMA SuccessKeeps ==
  ASSUME NEW t \in Nat, NEW m, Kept(m, t), NEW close \in BOOLEAN
  PROVE  Kept(RecordSuccess(m, t, close), t) /\ Rested(RecordSuccess(m, t, close))
<1> DEFINE until == IF close THEN {t + CloseExpiry} ELSE {}
           seen == [m EXCEPT !.failures = 0, !.close_until = until]
           anchor == IF m.last = {} THEN t ELSE CHOOSE a \in m.last : TRUE
           due == Max({anchor + Period(seen, t), t})
<1>1. seen \in MacStates /\ seen.last = m.last
  <2>1. until \in SUBSET Nat
    BY MacConstants
  <2>2. m \in MacStates
    BY DEF Kept
  <2>3. PICK none \in 0 .. MaxExponent : none = 0
    BY DEF MaxExponent
  <2>4. seen = [m EXCEPT !.failures = none, !.close_until = until]
    BY <2>3
  <2> HIDE DEF until, seen
  <2> QED BY <2>1, <2>2, <2>4, SeenRenews
<1>2. anchor \in 0 .. t /\ \A a \in m.last : a = anchor
  BY DEF Kept
<1>3. Period(seen, t) \in Nat /\ ClosePeriod <= Period(seen, t) /\ Period(seen, t) <= MaxBackoff
  BY PeriodIsBounded
<1>4. due \in {anchor + Period(seen, t), t} /\ due >= anchor + Period(seen, t)
  <2> HIDE DEF anchor, seen
  <2> QED BY <1>2, <1>3, LargerOfTwo
<1>5. RecordSuccess(m, t, close) = [seen EXCEPT !.due = due]
  BY DEF RecordSuccess
<1>6. due \in Nat /\ due <= t + MaxBackoff /\ \A a \in m.last : a + ClosePeriod <= due
  <2> HIDE DEF due, anchor, seen
  <2> QED BY <1>2, <1>3, <1>4, MacConstants
<1> HIDE DEF due, seen
<1> QED BY <1>1, <1>5, <1>6 DEF Kept, Rested, MacStates

(* So does a failure, whatever the delay that is drawn.                      *)
LEMMA FailureKeeps ==
  ASSUME NEW t \in Nat, NEW m, Kept(m, t), NEW f \in RecordFailures(m, t)
  PROVE  Kept(f, t) /\ Rested(f)
<1> DEFINE missed == Min({m.failures + 1, MaxExponent})
           period == Period(m, t)
           window == RetryWindow(m, t, missed)
<1>1. missed \in 1 .. 3
  BY SmallerOfTwo DEF Kept, MacStates, MaxExponent
<1>2. period \in Nat /\ ClosePeriod <= period /\ period <= MaxBackoff
  BY PeriodIsBounded
<1>3. window \in Nat /\ window <= MaxBackoff
  <2>1. Doubled[missed] \in Nat /\ period * Doubled[missed] \in Nat
    <3> HIDE DEF missed, period
    <3>1. missed = 1 \/ missed = 2 \/ missed = 3
      BY <1>1
    <3>2. Doubled[missed] \in {2, 4, 8}
      BY <3>1 DEF Doubled
    <3> QED BY <3>2, <1>2
  <2> HIDE DEF missed
  <2> QED BY <2>1, SmallerOfTwo, MacConstants DEF RetryWindow
<1>4. PICK e \in 0 .. window - period :
        f = [m EXCEPT !.failures = missed, !.due = t + period + e]
  BY DEF RecordFailures
<1> DEFINE due == t + period + e
<1>5. due \in Nat /\ due <= t + MaxBackoff /\ t + ClosePeriod <= due
  <2> HIDE DEF window, period
  <2> QED BY <1>2, <1>3, MacConstants
<1>6. f = [m EXCEPT !.failures = missed, !.due = due] /\ m \in MacStates /\ m.last \subseteq 0 .. t
  BY <1>4 DEF Kept
<1>7. missed \in 0 .. MaxExponent
  BY <1>1 DEF MaxExponent
<1> HIDE DEF missed, due
<1>8. f.due = due /\ f.last = m.last /\ f \in MacStates
  <2>1. PICK g \in 0 .. MaxExponent : g = missed
    BY <1>7
  <2>2. PICK d \in Nat : d = due
    BY <1>5
  <2>3. f = [m EXCEPT !.failures = g, !.due = d] /\ m \in MacStates
    BY <1>6, <2>1, <2>2
  <2>4. f \in MacStates
    BY <2>3 DEF MacStates, MaxExponent
  <2> QED BY <2>2, <2>3, <2>4 DEF MacStates
<1> QED BY <1>5, <1>6, <1>8, MacConstants DEF Kept, Rested

-----------------------------------------------------------------------------
(* Exchanges and frames.                                                    *)

Initiating == {"SendingPoll", "AwaitResponse", "SendingFinal", "AwaitReport"}
Responding == {"SendingResponse", "AwaitFinal", "SendingReport"}

(* An exchange has a peer unless the radio is idle or sends a fleet mode.     *)
LEMMA ExchangeHasPeer ==
  ASSUME NEW e \in Exchanges
  PROVE  /\ e.phase \in Initiating \cup Responding =>
              "peer" \in DOMAIN e /\ e.peer \in Nodes /\ e.id \in Nat /\ e.marks \in Marks
         /\ e.phase \notin Initiating \cup Responding =>
              "peer" \notin DOMAIN e /\ (e = Idle \/ e = [phase |-> "SendingFleetMode"])
         /\ e.phase = "SendingReport" => e.close \in BOOLEAN
         /\ e.phase = "Idle" <=> e = Idle
BY DEF Exchanges, Sending, Awaiting, Initiating, Responding, Idle

LEMMA FrameHasSender ==
  ASSUME NEW f \in Frames \cup {Nothing, Garbled}
  PROVE  /\ f \in Frames <=> f.type \notin {"nothing", "error"}
         /\ f \in Frames => "from" \in DOMAIN f
         /\ f.type = "nothing" <=> f = Nothing
         /\ f.type = "error" <=> f = Garbled
BY DEF Frames, Nothing, Garbled

(* An exchange moves to its next phase.                                      *)
LEMMA NextPhase ==
  ASSUME NEW e \in Exchanges, e.phase \in DOMAIN Then
  PROVE  [e EXCEPT !.phase = Then[@]] = Exchange(Then[e.phase], e.peer, e.id, e.marks)
BY DEF Exchanges, Then, Sending, Awaiting, Idle, Exchange
-----------------------------------------------------------------------------
(* The inductive invariant.                                                 *)

(* The books of the pairs: each pair is kept, and one that is not being       *)
(* ranged by a running initiator has its rest.                              *)
Book(n) ==
  /\ mac[n] \in [PeersOf(n) -> MacStates]
  /\ \A p \in PeersOf(n) :
       /\ Kept(mac[n][p], now)
       /\ Initiates(n, p) /\ up[n] /\ p \notin active[n] => Rested(mac[n][p])
Books == DOMAIN mac = Nodes /\ \A n \in Nodes : Book(n)

Shapes ==
  /\ present \subseteq Nodes /\ up \in [Nodes -> BOOLEAN] /\ sent \in [Nodes -> BOOLEAN]
  /\ ex \in [Nodes -> Exchanges]
  /\ active \in [Nodes -> SUBSET Nodes]
  /\ \A n \in Nodes : active[n] = IF "peer" \in DOMAIN ex[n] THEN {ex[n].peer} ELSE {}
  /\ tx \in [Nodes -> Frames \cup {Nothing}]
  /\ rx \in [Nodes -> Frames \cup {Nothing, Garbled}]
Counts ==
  /\ next_id \in [Nodes -> Nat]
  /\ DOMAIN heard = Nodes /\ \A n \in Nodes : heard[n] \in [PeersOf(n) -> SUBSET [id : Nat, at : Nat]]
  /\ pending \in [Nodes -> SUBSET [left : 1 .. ModeRepeats, at : Nat]]
  /\ now \in 0 .. MaxTime /\ polls \in 0 .. MaxPolls /\ faults \in 0 .. MaxFaults
  /\ measured \subseteq Measurements /\ ranges \subseteq Measurements

(* A radio that is down is idle and silent.                                  *)
Silent == \A n \in Nodes : ~up[n] => ex[n] = Idle /\ tx[n] = Nothing /\ rx[n] = Nothing

(* What is in the transmitter is the frame of the exchange's phase, and is    *)
(* not sent yet.                                                            *)
Heading == [p \in {"SendingPoll", "SendingResponse", "SendingFinal"} |->
  CASE p = "SendingPoll" -> "Poll" [] p = "SendingResponse" -> "Response" [] OTHER -> "Final"]
Sends(n) ==
  /\ ~sent[n]
  /\ \/ ex[n].phase = "SendingFleetMode" /\ tx[n].type = "FleetMode"
     \/ /\ ex[n].phase \in DOMAIN Heading
        /\ tx[n] = Frame(Heading[ex[n].phase], n, ex[n].peer, ex[n].id, ex[n].marks, FALSE)
     \/ /\ ex[n].phase = "SendingReport"
        /\ tx[n] = Frame("Report", n, ex[n].peer, ex[n].id, ex[n].marks, ex[n].close)
Programmed == \A n \in Nodes : tx[n] = Nothing \/ Sends(n)

(* The lower address of a pair initiates its exchanges.                      *)
Role(n, e) ==
  /\ e.phase \in Initiating => Initiates(n, e.peer)
  /\ e.phase \in Responding => Initiates(e.peer, n)
Roles == \A n \in Nodes : Role(n, ex[n])
-----------------------------------------------------------------------------
(* Every step keeps the shapes.                                             *)

(* Radios keep their shapes when one takes up an exchange, with a frame to     *)
(* send or none.                                                            *)
LEMMA TakingUpShapes ==
  ASSUME Shapes, NEW n \in Nodes, NEW e \in Exchanges, NEW f \in Frames \cup {Nothing},
         ex' = [ex EXCEPT ![n] = e],
         active' = [active EXCEPT ![n] = IF "peer" \in DOMAIN e THEN {e.peer} ELSE {}],
         tx' \in {tx, [tx EXCEPT ![n] = f]},
         rx' \in [Nodes -> Frames \cup {Nothing, Garbled}],
         up' \in [Nodes -> BOOLEAN], sent' \in [Nodes -> BOOLEAN], present' = present
  PROVE  Shapes'
<1>1. \A k \in Nodes : active'[k] = IF "peer" \in DOMAIN ex'[k] THEN {ex'[k].peer} ELSE {}
  BY DEF Shapes
<1>2. tx' \in [Nodes -> Frames \cup {Nothing}]
  <2>1. CASE tx' = tx
    BY <2>1 DEF Shapes
  <2>2. CASE tx' = [tx EXCEPT ![n] = f]
    BY <2>2 DEF Shapes
  <2> QED BY <2>1, <2>2
<1>3. ex' \in [Nodes -> Exchanges] /\ active' \in [Nodes -> SUBSET Nodes]
  BY ExchangeHasPeer DEF Shapes
<1> QED BY <1>1, <1>2, <1>3 DEF Shapes

(* The exchanges and frames the program makes are ones.                      *)
LEMMA ExchangeIsOne ==
  ASSUME NEW p \in Nodes, NEW id \in Nat, NEW marks \in Marks,
         NEW phase \in Sending \cup Awaiting, phase \notin {"SendingReport", "SendingFleetMode"}
  PROVE  /\ Exchange(phase, p, id, marks) \in Exchanges
         /\ "peer" \in DOMAIN Exchange(phase, p, id, marks)
         /\ Exchange(phase, p, id, marks).peer = p
<1>1. Exchange(phase, p, id, marks) \in Exchanges
  BY DEF Exchange, Exchanges
<1>2. "peer" \in DOMAIN Exchange(phase, p, id, marks)
  BY DEF Exchange
<1> QED BY <1>1, <1>2 DEF Exchange

LEMMA ReportingIsOne ==
  ASSUME NEW p \in Nodes, NEW id \in Nat, NEW marks \in Marks, NEW close \in BOOLEAN
  PROVE  /\ Reporting(p, id, marks, close) \in Exchanges
         /\ "peer" \in DOMAIN Reporting(p, id, marks, close)
         /\ Reporting(p, id, marks, close).peer = p
<1>1. Reporting(p, id, marks, close) \in Exchanges
  BY DEF Reporting, Exchanges
<1>2. "peer" \in DOMAIN Reporting(p, id, marks, close)
  BY DEF Reporting
<1> QED BY <1>1, <1>2 DEF Reporting

LEMMA IdleIsOne ==
  /\ Idle \in Exchanges /\ "peer" \notin DOMAIN Idle
  /\ [phase |-> "SendingFleetMode"] \in Exchanges /\ "peer" \notin DOMAIN [phase |-> "SendingFleetMode"]
BY DEF Idle, Exchanges

LEMMA FrameIsOne ==
  ASSUME NEW n \in Nodes, NEW p \in Nodes, NEW id \in Nat, NEW marks \in Marks, NEW close \in BOOLEAN,
         NEW type \in {"Poll", "Response", "Final", "Report", "FleetMode"}
  PROVE  Frame(type, n, p, id, marks, close) \in Frames
BY DEF Frame, Frames

(* A radio that gives up its exchange.                                       *)
LEMMA RecoveringShapes ==
  ASSUME Shapes, NEW n \in Nodes, RecoverExchange(n), present' = present, up' = up,
         sent' \in [Nodes -> BOOLEAN], rx' \in [Nodes -> Frames \cup {Nothing, Garbled}]
  PROVE  Shapes'
<1>1. /\ ex' = [ex EXCEPT ![n] = Idle] /\ tx' = [tx EXCEPT ![n] = Nothing]
      /\ active' = [active EXCEPT ![n] = {}]
  BY DEF RecoverExchange, RecordTimeout
<1> QED BY <1>1, TakingUpShapes, IdleIsOne DEF Shapes

(* What a radio finds in its exchange and in the frame that matches it.       *)
LEMMA MatchIsShaped ==
  ASSUME Shapes, NEW n \in Nodes, NEW phase \in Awaiting, NEW type, Matches(n, phase, type)
  PROVE  /\ ex[n].peer \in Nodes /\ ex[n].id \in Nat /\ ex[n].marks \in Marks
         /\ "peer" \in DOMAIN ex[n] /\ active[n] = {ex[n].peer}
         /\ rx[n] \in Frames /\ rx[n].from = ex[n].peer /\ rx[n].id = ex[n].id
         /\ rx[n].to = n /\ rx[n].type = type /\ ex[n].phase = phase
         /\ rx[n].marks \in Marks /\ rx[n].close \in BOOLEAN
<1>1. ex[n] \in Exchanges /\ rx[n] \in Frames
  BY FrameHasSender DEF Shapes, Matches, Addressed
<1>2. ex[n].phase \in Initiating \cup Responding
  BY DEF Matches, Awaiting, Initiating, Responding
<1>3. rx[n].marks \in Marks /\ rx[n].close \in BOOLEAN
  BY <1>1 DEF Frames
<1> QED BY <1>1, <1>2, <1>3, ExchangeHasPeer DEF Matches, Addressed, Shapes

LEMMA PollIsShaped ==
  ASSUME Shapes, NEW n \in Nodes, ExpectedPoll(n)
  PROVE  /\ rx[n] \in Frames /\ rx[n].from \in PeersOf(n) /\ rx[n].id \in Nat /\ rx[n].marks \in Marks
         /\ rx[n].to = n /\ rx[n].type = "Poll" /\ Initiates(rx[n].from, n) /\ ex[n] = Idle
<1>1. rx[n] \in Frames
  BY FrameHasSender DEF Shapes, ExpectedPoll, PollArrives, Addressed
<1>2. rx[n].from \in Nodes /\ rx[n].id \in Nat /\ rx[n].marks \in Marks
  BY <1>1 DEF Frames
<1> QED BY <1>1, <1>2, RangingConstants
  DEF ExpectedPoll, PollArrives, PollIsValid, Addressed, Initiates, PeersOf

(* The exchanges a radio takes up by itself.                                 *)
LEMMA StartShapes ==
  ASSUME Shapes, Counts, NEW n \in Nodes, present' = present, SendPoll(n) \/ SendFleetMode(n)
  PROVE  Shapes'
<1>1. rx' \in [Nodes -> Frames \cup {Nothing, Garbled}]
  BY DEF SendPoll, SendFleetMode, PrepareTx, Shapes
<1>2. CASE SendPoll(n)
  <2>1. PICK p \in PeersOf(n) :
          /\ active' = [active EXCEPT ![n] = {p}]
          /\ ex' = [ex EXCEPT ![n] = Exchange("SendingPoll", p, next_id[n], {polls})]
          /\ Program(n, Frame("Poll", n, p, next_id[n], {polls}, FALSE))
    BY <1>2 DEF SendPoll
  <2>2. p \in Nodes /\ next_id[n] \in Nat /\ {polls} \in Marks
    BY DEF PeersOf, Counts, Marks
  <2>3. Frame("Poll", n, p, next_id[n], {polls}, FALSE) \in Frames
    BY <2>2, FrameIsOne
  <2> DEFINE e == Exchange("SendingPoll", p, next_id[n], {polls})
  <2>4. e \in Exchanges /\ "peer" \in DOMAIN e /\ e.peer = p
    BY <2>2, ExchangeIsOne DEF Sending
  <2>5. ex' = [ex EXCEPT ![n] = e] /\ up' = up /\ sent' = sent
    BY <1>2, <2>1 DEF SendPoll
  <2> HIDE DEF e
  <2> QED BY <1>1, <2>1, <2>3, <2>4, <2>5, TakingUpShapes DEF Program, Shapes
<1>3. CASE SendFleetMode(n)
  <2>1. {} \in Marks /\ next_id[n] \in Nat
    BY DEF Marks, Counts
  <2>2. Frame("FleetMode", n, n, next_id[n], {}, FALSE) \in Frames
    BY <2>1, FrameIsOne
  <2>3. /\ ex' = [ex EXCEPT ![n] = [phase |-> "SendingFleetMode"]]
        /\ tx' = [tx EXCEPT ![n] = Frame("FleetMode", n, n, next_id[n], {}, FALSE)]
        /\ active' = active /\ up' = up /\ sent' = sent
    BY <1>3 DEF SendFleetMode, Program
  <2>4. \A k \in Nodes : active'[k] = IF "peer" \in DOMAIN ex'[k] THEN {ex'[k].peer} ELSE {}
    BY <1>3, <2>3, IdleIsOne DEF Shapes, SendFleetMode, MayStart
  <2> QED BY <1>1, <2>2, <2>3, <2>4, IdleIsOne DEF Shapes
<1> QED BY <1>2, <1>3

(* The end of a transmission.                                               *)
LEMMA TxDoneShapes ==
  ASSUME Shapes, NEW n \in Nodes, present' = present, TxDone(n)
  PROVE  Shapes'
<1>1. ex[n] \in Exchanges /\ sent' \in [Nodes -> BOOLEAN] /\ up' = up /\ rx' = rx
  BY DEF TxDone, Shapes
<1>2. CASE RecoverExchange(n)
  BY <1>1, <1>2, RecoveringShapes DEF Shapes
<1>3. CASE /\ ex[n].phase \in DOMAIN Then
           /\ ex' = [ex EXCEPT ![n].phase = Then[@]] /\ active' = active /\ tx' = tx
  <2> DEFINE e == Exchange(Then[ex[n].phase], ex[n].peer, ex[n].id, ex[n].marks)
  <2>1. ex' = [ex EXCEPT ![n] = e]
    BY <1>1, <1>3, NextPhase DEF Shapes
  <2>2. /\ ex[n].peer \in Nodes /\ ex[n].id \in Nat /\ ex[n].marks \in Marks
        /\ "peer" \in DOMAIN ex[n] /\ Then[ex[n].phase] \in Awaiting
    BY <1>1, <1>3, ExchangeHasPeer DEF Then, Awaiting, Initiating, Responding
  <2>3. e \in Exchanges /\ "peer" \in DOMAIN e /\ e.peer = ex[n].peer
    BY <2>2, ExchangeIsOne DEF Awaiting, Sending
  <2> HIDE DEF e
  <2>4. \A k \in Nodes : active'[k] = IF "peer" \in DOMAIN ex'[k] THEN {ex'[k].peer} ELSE {}
    BY <1>3, <2>1, <2>2, <2>3 DEF Shapes
  <2> QED BY <1>1, <1>3, <2>1, <2>3, <2>4 DEF Shapes
<1>4. CASE /\ ex' = [ex EXCEPT ![n] = Idle] /\ tx' = tx
           /\ active' = [active EXCEPT ![n] = {}]
  BY <1>1, <1>4, TakingUpShapes, IdleIsOne DEF Shapes
<1>5. CASE /\ ex[n].phase = "SendingFleetMode" /\ ex' = [ex EXCEPT ![n] = Idle] /\ tx' = tx /\ active' = active
  <2>1. "peer" \notin DOMAIN ex[n]
    BY <1>1, <1>5, ExchangeHasPeer DEF Initiating, Responding
  <2>2. \A k \in Nodes : active'[k] = IF "peer" \in DOMAIN ex'[k] THEN {ex'[k].peer} ELSE {}
    BY <1>5, <2>1, IdleIsOne DEF Shapes
  <2> QED BY <1>1, <1>5, <2>2, IdleIsOne DEF Shapes
<1> QED BY <1>2, <1>3, <1>4, <1>5 DEF TxDone

(* The service of a frame.                                                  *)
LEMMA ServeShapes ==
  ASSUME Shapes, NEW n \in Nodes, present' = present, Serve(n)
  PROVE  Shapes'
<1>1. /\ up' = up /\ sent' = sent /\ rx' = [rx EXCEPT ![n] = Nothing]
      /\ rx' \in [Nodes -> Frames \cup {Nothing, Garbled}]
  BY DEF Serve, ReceiveError, HearFleetMode, AcceptPoll, AcceptResponse, AcceptFinal, AcceptReport,
         ImpossibleDistance, Stray, Serves, Shapes
<1>2. up' \in [Nodes -> BOOLEAN] /\ sent' \in [Nodes -> BOOLEAN]
  BY <1>1 DEF Shapes
<1>3. CASE RecoverExchange(n)
  BY <1>1, <1>2, <1>3, RecoveringShapes
<1>4. CASE AcceptPoll(n)
  <2> DEFINE f == rx[n]
             e == Exchange("SendingResponse", f.from, f.id, f.marks)
             g == Frame("Response", n, f.from, f.id, f.marks, FALSE)
  <2>1. ex' = [ex EXCEPT ![n] = e] /\ active' = [active EXCEPT ![n] = {f.from}] /\ tx' = [tx EXCEPT ![n] = g]
    BY <1>4 DEF AcceptPoll, Program
  <2>2. f.from \in Nodes /\ f.id \in Nat /\ f.marks \in Marks
    BY <1>4, PollIsShaped DEF AcceptPoll, PeersOf
  <2>3. e \in Exchanges /\ "peer" \in DOMAIN e /\ e.peer = f.from /\ g \in Frames
    BY <2>2, ExchangeIsOne, FrameIsOne DEF Sending
  <2> HIDE DEF e, g
  <2> QED BY <1>1, <1>2, <2>1, <2>3, TakingUpShapes
<1>5. CASE AcceptResponse(n)
  <2> DEFINE marks == ex[n].marks \cup rx[n].marks
             e == Exchange("SendingFinal", ex[n].peer, ex[n].id, marks)
             g == Frame("Final", n, ex[n].peer, ex[n].id, marks, FALSE)
  <2>1. ex' = [ex EXCEPT ![n] = e] /\ active' = active /\ tx' = [tx EXCEPT ![n] = g]
    BY <1>5 DEF AcceptResponse, Program
  <2>2. /\ ex[n].peer \in Nodes /\ ex[n].id \in Nat /\ marks \in Marks
        /\ active[n] = {ex[n].peer}
    BY <1>5, MatchIsShaped DEF AcceptResponse, Awaiting, Marks
  <2> HIDE DEF marks
  <2>3. e \in Exchanges /\ "peer" \in DOMAIN e /\ e.peer = ex[n].peer
    BY <2>2, ExchangeIsOne DEF Sending
  <2>5. g \in Frames
    BY <2>2, FrameIsOne
  <2> HIDE DEF e, g
  <2>4. active' = [active EXCEPT ![n] = {e.peer}]
    BY <2>1, <2>2, <2>3 DEF Shapes
  <2> QED BY <1>1, <1>2, <2>1, <2>3, <2>4, <2>5, TakingUpShapes
<1>6. CASE AcceptFinal(n)
  <2> DEFINE marks == ex[n].marks \cup rx[n].marks
  <2>1. PICK close \in BOOLEAN :
          /\ ex' = [ex EXCEPT ![n] = Reporting(ex[n].peer, ex[n].id, marks, close)]
          /\ tx' = [tx EXCEPT ![n] = Frame("Report", n, ex[n].peer, ex[n].id, marks, close)]
          /\ active' = active
    BY <1>6 DEF AcceptFinal, Program, ClassifyRange
  <2> DEFINE e == Reporting(ex[n].peer, ex[n].id, marks, close)
             g == Frame("Report", n, ex[n].peer, ex[n].id, marks, close)
  <2>2. /\ ex[n].peer \in Nodes /\ ex[n].id \in Nat /\ marks \in Marks
        /\ active[n] = {ex[n].peer}
    BY <1>6, MatchIsShaped DEF AcceptFinal, Awaiting, Marks
  <2> HIDE DEF marks
  <2>3. e \in Exchanges /\ "peer" \in DOMAIN e /\ e.peer = ex[n].peer /\ g \in Frames
    BY <2>2, ReportingIsOne, FrameIsOne
  <2>4. ex' = [ex EXCEPT ![n] = e] /\ tx' = [tx EXCEPT ![n] = g]
    BY <2>1
  <2> HIDE DEF e, g
  <2>5. active' = [active EXCEPT ![n] = {e.peer}]
    BY <2>1, <2>2, <2>3 DEF Shapes
  <2> QED BY <1>1, <1>2, <2>4, <2>3, <2>5, TakingUpShapes
<1>7. CASE AcceptReport(n)
  BY <1>1, <1>2, <1>7, TakingUpShapes, IdleIsOne DEF AcceptReport
<1>8. CASE tx' = [tx EXCEPT ![n] = Nothing] /\ ex' = ex /\ active' = active
  BY <1>1, <1>2, <1>8 DEF Shapes
<1> QED BY <1>3, <1>4, <1>5, <1>6, <1>7, <1>8
  DEF Serve, ReceiveError, HearFleetMode, ImpossibleDistance, Stray

LEMMA NextShapes ==
  ASSUME Shapes, Counts, Next
  PROVE  Shapes'
<1>1. present' = present
  BY DEF Next
<1>2. CASE Tick
  BY <1>1, <1>2 DEF Tick, Shapes, node, radio
<1>3. ASSUME NEW n \in Nodes, SendPoll(n) \/ SendFleetMode(n)
      PROVE  Shapes'
  BY <1>1, <1>3, StartShapes
<1>4. ASSUME NEW n \in Nodes, BroadcastFleetMode(n)
      PROVE  Shapes'
  BY <1>1, <1>4 DEF BroadcastFleetMode, Shapes, radio
<1>5. ASSUME NEW n \in Nodes, Transmit(n)
      PROVE  Shapes'
  BY <1>1, <1>5, FrameHasSender DEF Transmit, Shapes, node
<1>6. ASSUME NEW n \in Nodes, TxDone(n)
      PROVE  Shapes'
  BY <1>1, <1>6, TxDoneShapes
<1>7. ASSUME NEW n \in Nodes, Serve(n)
      PROVE  Shapes'
  BY <1>1, <1>7, ServeShapes
<1>8. ASSUME NEW n \in Nodes, Deadline(n)
      PROVE  Shapes'
  BY <1>1, <1>8, RecoveringShapes DEF Deadline, Shapes
<1>9. ASSUME NEW n \in Nodes, Reset(n)
      PROVE  Shapes'
  BY <1>1, <1>9, TakingUpShapes, IdleIsOne DEF Reset, Shapes
<1>10. ASSUME NEW n \in Nodes, Boot(n)
       PROVE  Shapes'
  BY <1>1, <1>10 DEF Boot, Shapes, radio
<1>11. ASSUME NEW n \in Nodes, Reconfigure(n)
       PROVE  Shapes'
  <2>1. "peer" \notin DOMAIN ex[n]
    BY <1>11, IdleIsOne DEF Reconfigure
  <2>2. \A k \in Nodes : active'[k] = IF "peer" \in DOMAIN ex'[k] THEN {ex'[k].peer} ELSE {}
    BY <1>11, <2>1 DEF Reconfigure, Shapes
  <2> QED BY <1>1, <1>11, <2>2 DEF Reconfigure, Shapes, radio
<1> QED BY <1>2, <1>3, <1>4, <1>5, <1>6, <1>7, <1>8, <1>9, <1>10, <1>11 DEF Next
-----------------------------------------------------------------------------
(* Every step keeps the counters and the records.                            *)

(* A measurement is one.                                                    *)
LEMMA MeasurementIsOne ==
  ASSUME NEW n \in Nodes, NEW p \in Nodes, NEW id \in Nat, NEW marks \in Marks
  PROVE  [by |-> n, peer |-> p, id |-> id, marks |-> marks] \in Measurements
BY DEF Measurements

(* The records a step leaves are those it found, or one more.                 *)
LEMMA ServeRecords ==
  ASSUME Shapes, Counts, NEW n \in Nodes, Serve(n) \/ TxDone(n)
  PROVE  /\ measured' \subseteq Measurements /\ ranges' \subseteq Measurements
         /\ UNCHANGED <<next_id, pending, now, polls>>
         /\ UNCHANGED heard \/ AcceptPoll(n)
         /\ faults' \in 0 .. MaxFaults
<1>1. /\ UNCHANGED <<next_id, pending, now, polls>> /\ (UNCHANGED heard \/ AcceptPoll(n))
      /\ faults' = faults \/ Disturbs
  BY DEF Serve, ReceiveError, HearFleetMode, AcceptPoll, AcceptResponse, AcceptFinal, AcceptReport,
         ImpossibleDistance, Stray, TxDone, Bounds
<1>2. faults' \in 0 .. MaxFaults
  BY <1>1, RangingConstants DEF Counts, Disturbs
<1>3. CASE AcceptFinal(n)
  <2> DEFINE marks == ex[n].marks \cup rx[n].marks
             r == [by |-> n, peer |-> ex[n].peer, id |-> ex[n].id, marks |-> marks]
  <2>1. measured' = measured \cup {r} /\ ranges' \subseteq ranges \cup {r}
    BY <1>3 DEF AcceptFinal, Ranged
  <2>2. r \in Measurements
    BY <1>3, MatchIsShaped, MeasurementIsOne DEF AcceptFinal, Awaiting, Marks
  <2> QED BY <1>1, <1>2, <2>1, <2>2 DEF Counts
<1>4. CASE AcceptReport(n)
  <2> DEFINE marks == ex[n].marks \cup rx[n].marks
             r == [by |-> n, peer |-> ex[n].peer, id |-> ex[n].id, marks |-> marks]
  <2>1. measured' = measured /\ ranges' = ranges \cup {r}
    BY <1>4 DEF AcceptReport, Ranged
  <2>2. r \in Measurements
    BY <1>4, MatchIsShaped, MeasurementIsOne DEF AcceptReport, Awaiting, Marks
  <2> QED BY <1>1, <1>2, <2>1, <2>2 DEF Counts
<1>5. CASE TxDone(n)
  <2> DEFINE r == [by |-> n, peer |-> ex[n].peer, id |-> ex[n].id, marks |-> ex[n].marks]
  <2>1. measured' = measured /\ (ranges' = ranges \/ (ex[n].phase = "SendingReport" /\ ranges' = ranges \cup {r}))
    BY <1>5 DEF TxDone, Ranged
  <2>2. ex[n].phase = "SendingReport" => r \in Measurements
    BY ExchangeHasPeer, MeasurementIsOne DEF Shapes, Initiating, Responding
  <2> QED BY <1>1, <1>2, <2>1, <2>2 DEF Counts
<1>6. CASE UNCHANGED history
  BY <1>1, <1>2, <1>6 DEF Counts, history
<1> QED BY <1>3, <1>4, <1>5, <1>6
  DEF Serve, ReceiveError, HearFleetMode, AcceptPoll, AcceptResponse, ImpossibleDistance, Stray

LEMMA RestartCounts ==
  ASSUME Counts, NEW n \in Nodes, Restarted(n), UNCHANGED <<now, polls, history>>, faults' \in 0 .. MaxFaults
  PROVE  Counts'
BY DEF Counts, Restarted, history

LEMMA NextCounts ==
  ASSUME Shapes, Counts, Next
  PROVE  Counts'
<1> USE RangingConstants
<1>1. CASE Tick
  BY <1>1 DEF Tick, Counts, node, history
<1>2. ASSUME NEW n \in Nodes, SendPoll(n)
      PROVE  Counts'
  <2>1. next_id' = [next_id EXCEPT ![n] = @ + 1] /\ next_id' \in [Nodes -> Nat]
    BY <1>2 DEF SendPoll, Counts
  <2>2. polls' \in 0 .. MaxPolls
    BY <1>2 DEF SendPoll, Counts
  <2>3. UNCHANGED <<heard, pending, now, faults, measured, ranges>>
    BY <1>2 DEF SendPoll, history
  <2> QED BY <2>1, <2>2, <2>3 DEF Counts
<1>3. ASSUME NEW n \in Nodes, SendFleetMode(n)
      PROVE  Counts'
  <2>1. pending' \in [Nodes -> SUBSET [left : 1 .. ModeRepeats, at : Nat]]
    BY <1>3 DEF SendFleetMode, Counts
  <2>2. next_id' = [next_id EXCEPT ![n] = @ + 1] /\ next_id' \in [Nodes -> Nat]
    BY <1>3 DEF SendFleetMode, Counts
  <2>3. UNCHANGED <<heard, now, polls, faults, measured, ranges>>
    BY <1>3 DEF SendFleetMode, history, Bounds
  <2> QED BY <2>1, <2>2, <2>3 DEF Counts
<1>4. ASSUME NEW n \in Nodes, BroadcastFleetMode(n)
      PROVE  Counts'
  BY <1>4 DEF BroadcastFleetMode, Counts, history, Disturbs
<1>5. ASSUME NEW n \in Nodes, Transmit(n)
      PROVE  Counts'
  BY <1>5 DEF Transmit, Counts, node, history, Disturbs
<1>6. ASSUME NEW n \in Nodes, TxDone(n) \/ Serve(n)
      PROVE  Counts'
  <2>1. \A k \in Nodes : heard'[k] \in [PeersOf(k) -> SUBSET [id : Nat, at : Nat]] /\ DOMAIN heard' = Nodes
    <3>1. CASE heard' = heard
      BY <3>1 DEF Counts
    <3>2. CASE AcceptPoll(n)
      <4>1. rx[n].from \in PeersOf(n) /\ rx[n].id \in Nat /\ now \in Nat
        BY <3>2, PollIsShaped DEF AcceptPoll, Counts
      <4>2. heard' = [heard EXCEPT ![n][rx[n].from] = {[id |-> rx[n].id, at |-> now]}]
        BY <3>2 DEF AcceptPoll
      <4>3. {[id |-> rx[n].id, at |-> now]} \in SUBSET [id : Nat, at : Nat]
        BY <4>1
      <4> QED BY <4>1, <4>2, <4>3 DEF Counts
    <3> QED BY <1>6, <3>1, <3>2, ServeRecords
  <2> QED BY <1>6, <2>1, ServeRecords DEF Counts
<1>7. ASSUME NEW n \in Nodes, Deadline(n)
      PROVE  Counts'
  BY <1>7 DEF Deadline, Counts, history, Bounds
<1>8. ASSUME NEW n \in Nodes, Reset(n)
      PROVE  Counts'
  BY <1>8 DEF Reset, Counts, history, Disturbs
<1>9. ASSUME NEW n \in Nodes, Boot(n)
      PROVE  Counts'
  <2>1. faults' \in 0 .. MaxFaults
    BY <1>9 DEF Boot, Bounds, Counts
  <2> QED BY <1>9, <2>1, RestartCounts DEF Boot, Bounds
<1>10. ASSUME NEW n \in Nodes, Reconfigure(n)
       PROVE  Counts'
  <2>1. faults' \in 0 .. MaxFaults
    BY <1>10 DEF Reconfigure, Disturbs, Counts
  <2> QED BY <1>10, <2>1, RestartCounts DEF Reconfigure
<1> QED BY <1>1, <1>2, <1>3, <1>4, <1>5, <1>6, <1>7, <1>8, <1>9, <1>10 DEF Next

-----------------------------------------------------------------------------
(* Every step keeps the radio that is down silent, what is programmed true to *)
(* the exchange, and the roles.                                              *)

LEMMA NextSilent ==
  ASSUME Shapes, Silent, Next
  PROVE  Silent'
<1>1. ASSUME NEW n \in Nodes, SendPoll(n) \/ SendFleetMode(n) \/ BroadcastFleetMode(n)
      PROVE  Silent'
  <2>1. CASE SendPoll(n)
    <3>1. /\ up[n] /\ up' = up
          /\ \A k \in Nodes \ {n} : ex'[k] = ex[k] /\ tx'[k] = tx[k] /\ rx'[k] = rx[k]
      BY <2>1 DEF SendPoll, MayStart, Program, PrepareTx, Shapes
    <3> QED BY <3>1 DEF Silent
  <2>2. CASE SendFleetMode(n)
    <3>1. /\ up[n] /\ up' = up
          /\ \A k \in Nodes \ {n} : ex'[k] = ex[k] /\ tx'[k] = tx[k] /\ rx'[k] = rx[k]
      BY <2>2 DEF SendFleetMode, MayStart, Program, PrepareTx, Shapes
    <3> QED BY <3>1 DEF Silent
  <2>3. CASE BroadcastFleetMode(n)
    BY <2>3 DEF BroadcastFleetMode, Silent, radio
  <2> QED BY <1>1, <2>1, <2>2, <2>3
<1>2. ASSUME NEW n \in Nodes, Transmit(n)
      PROVE  Silent'
  <2>1. \A m \in Nodes : rx'[m] # rx[m] => up[m]
    BY <1>2 DEF Transmit, Listens, Shapes
  <2> QED BY <1>2, <2>1 DEF Transmit, Silent, Shapes, node
<1>3. ASSUME NEW n \in Nodes, Serve(n)
      PROVE  Silent'
  <2>1. /\ up[n] /\ up' = up /\ rx' = [rx EXCEPT ![n] = Nothing]
        /\ \A k \in Nodes \ {n} : ex'[k] = ex[k] /\ tx'[k] = tx[k]
    BY <1>3 DEF Serve, ReceiveError, HearFleetMode, AcceptPoll, AcceptResponse, AcceptFinal, AcceptReport,
            ImpossibleDistance, Stray, Serves, RecoverExchange, Program, Shapes
  <2> QED BY <2>1 DEF Silent, Shapes
<1>4. ASSUME NEW n \in Nodes, Deadline(n)
      PROVE  Silent'
  BY <1>4 DEF Deadline, RecoverExchange, Silent, Shapes
<1>5. ASSUME NEW n \in Nodes, TxDone(n)
      PROVE  Silent'
  <2>1. /\ ex[n] # Idle /\ up' = up /\ rx' = rx
        /\ \A k \in Nodes \ {n} : ex'[k] = ex[k] /\ tx'[k] = tx[k]
    BY <1>5 DEF TxDone, RecoverExchange, Idle, Then, Shapes
  <2>2. up[n]
    BY <2>1 DEF Silent
  <2> QED BY <2>1, <2>2 DEF Silent, Shapes
<1>6. ASSUME NEW n \in Nodes, Reset(n)
      PROVE  Silent'
  BY <1>6 DEF Reset, Silent, Shapes
<1>7. ASSUME NEW n \in Nodes, Boot(n)
      PROVE  Silent'
  BY <1>7 DEF Boot, Silent, Shapes, radio
<1>8. ASSUME NEW n \in Nodes, Reconfigure(n)
      PROVE  Silent'
  BY <1>8 DEF Reconfigure, Silent, Shapes, radio
<1>9. CASE Tick
  BY <1>9 DEF Tick, Silent, node, radio
<1> QED BY <1>1, <1>2, <1>3, <1>4, <1>5, <1>6, <1>7, <1>8, <1>9 DEF Next

(* What a radio programs is told by its own exchange.                        *)
LEMMA OthersProgrammed ==
  ASSUME Programmed, NEW n \in Nodes,
         \A k \in Nodes \ {n} : ex'[k] = ex[k] /\ tx'[k] = tx[k] /\ sent'[k] = sent[k],
         tx'[n] = Nothing \/ Sends(n)'
  PROVE  Programmed'
BY DEF Programmed, Sends

LEMMA NextProgrammed ==
  ASSUME Shapes, Programmed, Next
  PROVE  Programmed'
<1>1. CASE Tick
  BY <1>1 DEF Tick, Programmed, Sends, node, radio
<1>2. ASSUME NEW n \in Nodes, SendPoll(n)
      PROVE  Programmed'
  <2>1. PICK p \in PeersOf(n) :
          /\ ex' = [ex EXCEPT ![n] = Exchange("SendingPoll", p, next_id[n], {polls})]
          /\ Program(n, Frame("Poll", n, p, next_id[n], {polls}, FALSE))
    BY <1>2 DEF SendPoll
  <2>2. sent' = sent /\ ~sent[n]
    BY <1>2 DEF SendPoll, MayStart
  <2>3. /\ ex'[n] = Exchange("SendingPoll", p, next_id[n], {polls})
        /\ tx'[n] = Frame("Poll", n, p, next_id[n], {polls}, FALSE)
    BY <2>1 DEF Shapes, Program
  <2>4. Sends(n)'
    BY <2>2, <2>3 DEF Sends, Exchange, Heading
  <2> QED BY <2>1, <2>2, <2>4, OthersProgrammed DEF Program, Shapes
<1>3. ASSUME NEW n \in Nodes, SendFleetMode(n)
      PROVE  Programmed'
  <2>1. Sends(n)'
    BY <1>3 DEF SendFleetMode, Sends, MayStart, Program, Frame, Shapes
  <2> QED BY <1>3, <2>1, OthersProgrammed DEF SendFleetMode, Program, Shapes
<1>4. ASSUME NEW n \in Nodes, BroadcastFleetMode(n) \/ Boot(n) \/ Reconfigure(n)
      PROVE  Programmed'
  BY <1>4 DEF BroadcastFleetMode, Boot, Reconfigure, Programmed, Sends, radio
<1>5. ASSUME NEW n \in Nodes, Transmit(n)
      PROVE  Programmed'
  BY <1>5, OthersProgrammed DEF Transmit, Shapes, node
<1>6. ASSUME NEW n \in Nodes, TxDone(n)
      PROVE  Programmed'
  <2>1. tx[n] = Nothing /\ tx'[n] = Nothing
    BY <1>6 DEF TxDone, RecoverExchange, Programmed, Sends, Shapes
  <2> QED BY <1>6, <2>1, OthersProgrammed DEF TxDone, RecoverExchange, Shapes
<1>7. ASSUME NEW n \in Nodes, Serve(n)
      PROVE  Programmed'
  <2>1. /\ ~sent[n] /\ sent' = sent
        /\ \A k \in Nodes \ {n} : ex'[k] = ex[k] /\ tx'[k] = tx[k] /\ sent'[k] = sent[k]
    BY <1>7 DEF Serve, ReceiveError, HearFleetMode, AcceptPoll, AcceptResponse, AcceptFinal, AcceptReport,
            ImpossibleDistance, Stray, Serves, RecoverExchange, Program, Shapes
  <2>2. CASE tx'[n] = Nothing
    BY <2>1, <2>2, OthersProgrammed
  <2>3. CASE AcceptPoll(n)
    <3>1. /\ ex'[n] = Exchange("SendingResponse", rx[n].from, rx[n].id, rx[n].marks)
          /\ tx'[n] = Frame("Response", n, rx[n].from, rx[n].id, rx[n].marks, FALSE)
      BY <2>3 DEF AcceptPoll, Program, Shapes
    <3>2. Sends(n)'
      BY <2>1, <3>1 DEF Sends, Exchange, Heading
    <3> QED BY <2>1, <3>2, OthersProgrammed
  <2>4. CASE AcceptResponse(n)
    <3> DEFINE marks == ex[n].marks \cup rx[n].marks
    <3>1. /\ ex'[n] = Exchange("SendingFinal", ex[n].peer, ex[n].id, marks)
          /\ tx'[n] = Frame("Final", n, ex[n].peer, ex[n].id, marks, FALSE)
      BY <2>4 DEF AcceptResponse, Program, Shapes
    <3> HIDE DEF marks
    <3>2. Sends(n)'
      BY <2>1, <3>1 DEF Sends, Exchange, Heading
    <3> QED BY <2>1, <3>2, OthersProgrammed
  <2>5. CASE AcceptFinal(n)
    <3> DEFINE marks == ex[n].marks \cup rx[n].marks
    <3>1. PICK close \in BOOLEAN :
          /\ ex' = [ex EXCEPT ![n] = Reporting(ex[n].peer, ex[n].id, marks, close)]
          /\ tx' = [tx EXCEPT ![n] = Frame("Report", n, ex[n].peer, ex[n].id, marks, close)]
      BY <2>5 DEF AcceptFinal, Program, ClassifyRange
    <3>2. /\ ex'[n] = Reporting(ex[n].peer, ex[n].id, marks, close)
          /\ tx'[n] = Frame("Report", n, ex[n].peer, ex[n].id, marks, close)
      BY <3>1 DEF Shapes
    <3> HIDE DEF marks
    <3>3. Sends(n)'
      BY <2>1, <3>2 DEF Sends, Reporting, Heading
    <3> QED BY <2>1, <3>3, OthersProgrammed
  <2>6. CASE AcceptReport(n)
    <3>1. tx[n] = Nothing /\ tx' = tx
      BY <2>6 DEF AcceptReport, Matches, Programmed, Sends, Heading
    <3> QED BY <2>2, <3>1
  <2> QED BY <1>7, <2>2, <2>3, <2>4, <2>5, <2>6
    DEF Serve, ReceiveError, HearFleetMode, ImpossibleDistance, Stray, RecoverExchange, Shapes
<1>8. ASSUME NEW n \in Nodes, Deadline(n)
      PROVE  Programmed'
  BY <1>8, OthersProgrammed DEF Deadline, RecoverExchange, Shapes
<1>9. ASSUME NEW n \in Nodes, Reset(n)
      PROVE  Programmed'
  BY <1>9, OthersProgrammed DEF Reset, Shapes
<1> QED BY <1>1, <1>2, <1>3, <1>4, <1>5, <1>6, <1>7, <1>8, <1>9 DEF Next

(* A radio keeps the role it took: it initiates with the polls it sends, and  *)
(* responds to the polls of lower addresses only.                            *)
LEMMA NextRoles ==
  ASSUME Shapes, Roles, Next
  PROVE  Roles'
<1>1. CASE UNCHANGED ex
  BY <1>1 DEF Roles
<1>2. ASSUME NEW n \in Nodes, \A k \in Nodes \ {n} : ex'[k] = ex[k], Role(n, ex'[n])
      PROVE  Roles'
  BY <1>2 DEF Roles
<1>3. \A n : Role(n, Idle)
  BY DEF Role, Idle, Initiating, Responding
<1>4. ASSUME NEW n \in Nodes, SendPoll(n)
      PROVE  Roles'
  <2>1. PICK p \in PeersOf(n) : Initiates(n, p) /\ ex' = [ex EXCEPT ![n] = Exchange("SendingPoll", p, next_id[n], {polls})]
    BY <1>4 DEF SendPoll, DuePair
  <2>2. Role(n, Exchange("SendingPoll", p, next_id[n], {polls}))
    BY <2>1 DEF Role, Exchange, Responding
  <2> QED BY <1>2, <2>1, <2>2 DEF Shapes
<1>5. ASSUME NEW n \in Nodes, SendFleetMode(n)
      PROVE  Roles'
  <2>1. Role(n, [phase |-> "SendingFleetMode"])
    BY DEF Role, Initiating, Responding
  <2> QED BY <1>2, <1>5, <2>1 DEF SendFleetMode, Shapes
<1>6. ASSUME NEW n \in Nodes, TxDone(n) \/ Serve(n) \/ Deadline(n) \/ Reset(n)
      PROVE  Roles'
  <2>1. \A k \in Nodes \ {n} : ex'[k] = ex[k]
    BY <1>6 DEF TxDone, Serve, ReceiveError, HearFleetMode, AcceptPoll, AcceptResponse, AcceptFinal,
         AcceptReport, ImpossibleDistance, Stray, RecoverExchange, Deadline, Reset, Shapes
  <2>2. CASE ex' = [ex EXCEPT ![n] = Idle]
    BY <1>2, <1>3, <2>1, <2>2 DEF Shapes
  <2>3. CASE AcceptPoll(n)
    <3>1. ex'[n] = Exchange("SendingResponse", rx[n].from, rx[n].id, rx[n].marks) /\ Initiates(rx[n].from, n)
      BY <2>3, PollIsShaped DEF AcceptPoll, Shapes
    <3>2. Role(n, ex'[n])
      BY <3>1 DEF Role, Exchange, Initiating
    <3> QED BY <1>2, <2>1, <3>2
  <2>4. CASE AcceptResponse(n)
    <3>1. ex'[n] = Exchange("SendingFinal", ex[n].peer, ex[n].id, ex[n].marks \cup rx[n].marks) /\ Initiates(n, ex[n].peer)
      BY <2>4 DEF AcceptResponse, Shapes, Matches, Roles, Role, Initiating
    <3>2. Role(n, ex'[n])
      BY <3>1 DEF Role, Exchange, Responding
    <3> QED BY <1>2, <2>1, <3>2
  <2>5. CASE AcceptFinal(n)
    <3>1. PICK close : ex'[n] = Reporting(ex[n].peer, ex[n].id, ex[n].marks \cup rx[n].marks, close)
      BY <2>5 DEF AcceptFinal, Shapes
    <3>2. Initiates(ex[n].peer, n)
      BY <2>5 DEF AcceptFinal, Matches, Roles, Role, Responding
    <3>3. Role(n, ex'[n])
      BY <3>1, <3>2 DEF Role, Reporting, Initiating
    <3> QED BY <1>2, <2>1, <3>3
  <2>6. CASE TxDone(n) /\ ex[n].phase \in DOMAIN Then /\ ex' = [ex EXCEPT ![n].phase = Then[@]]
    <3>1. ex'[n] = Exchange(Then[ex[n].phase], ex[n].peer, ex[n].id, ex[n].marks)
      BY <2>6, NextPhase DEF Shapes
    <3>2. /\ ex'[n].phase = Then[ex[n].phase] /\ ex'[n].peer = ex[n].peer
      BY <3>1 DEF Exchange
    <3>3. Role(n, ex'[n])
      BY <2>6, <3>2 DEF Roles, Role, Then, Initiating, Responding
    <3> QED BY <1>2, <2>1, <3>3
  <2> QED BY <1>6, <1>1, <2>2, <2>3, <2>4, <2>5, <2>6
    DEF TxDone, Serve, ReceiveError, HearFleetMode, AcceptReport, ImpossibleDistance, Stray, RecoverExchange,
        Deadline, Reset
<1> QED BY <1>1, <1>4, <1>5, <1>6
  DEF Next, Tick, BroadcastFleetMode, Transmit, Boot, Reconfigure, node

-----------------------------------------------------------------------------
(* Every step keeps the books.                                              *)

(* A pair that is kept is kept as time goes by.                              *)
LEMMA TimeKeeps ==
  ASSUME NEW m, NEW t \in Nat, Kept(m, t)
  PROVE  Kept(m, t + 1)
BY MacConstants DEF Kept, MacStates

(* The book of a node in which one pair changes, and an attempt may end.      *)
LEMMA OnePairChanges ==
  ASSUME Shapes, Books, NEW n \in Nodes, NEW p \in PeersOf(n), NEW m, Kept(m, now),
         mac' = [mac EXCEPT ![n][p] = m],
         now' = now, up' = up,
         \A k \in Nodes \ {n} : active'[k] = active[k],
         Initiates(n, p) => Rested(m),
         \A q \in PeersOf(n) \ {p} : Initiates(n, q) /\ q \notin active'[n] => q \notin active[n]
  PROVE  Books'
<1>1. m \in MacStates
  BY DEF Kept
<1>2. ASSUME NEW k \in Nodes, k # n
      PROVE  Book(k)'
  <2>1. mac'[k] = mac[k] /\ active'[k] = active[k]
    BY <1>2 DEF Books
  <2> QED BY <2>1 DEF Books, Book
<1>3. /\ mac'[n] = [mac[n] EXCEPT ![p] = m]
      /\ mac'[n] \in [PeersOf(n) -> MacStates]
  BY <1>1 DEF Books, Book
<1>4. ASSUME NEW q \in PeersOf(n)
      PROVE  /\ Kept(mac'[n][q], now')
             /\ Initiates(n, q) /\ up'[n] /\ q \notin active'[n] => Rested(mac'[n][q])
  <2>1. CASE q = p
    BY <1>3, <2>1 DEF Books, Book
  <2>2. CASE q # p
    <3>1. mac'[n][q] = mac[n][q]
      BY <1>3, <2>2 DEF Books, Book
    <3> QED BY <2>2, <3>1 DEF Books, Book
  <2> QED BY <2>1, <2>2
<1>5. Book(n)'
  BY <1>3, <1>4 DEF Book
<1>6. DOMAIN mac' = Nodes
  BY DEF Books
<1> QED BY <1>2, <1>5, <1>6 DEF Books

(* The book of a node that takes up or drops what it does not initiate.       *)
LEMMA NoPairChanges ==
  ASSUME Books, NEW n \in Nodes, mac' = mac, now' = now,
         \A k \in Nodes \ {n} : active'[k] = active[k] /\ up'[k] = up[k],
         \A q \in PeersOf(n) : Initiates(n, q) /\ up'[n] /\ q \notin active'[n] => up[n] /\ q \notin active[n]
  PROVE  Books'
<1>1. ASSUME NEW k \in Nodes
      PROVE  Book(k)'
  <2>1. CASE k = n
    BY <2>1 DEF Books, Book
  <2>2. CASE k # n
    BY <2>2 DEF Books, Book
  <2> QED BY <2>1, <2>2
<1> QED BY <1>1 DEF Books

(* A radio that owes an outcome owes it to the peer of its exchange.          *)
LEMMA OwesToItsPeer ==
  ASSUME Shapes, Roles, NEW n \in Nodes
  PROVE  /\ ex[n].phase \in Initiating => active[n] = {ex[n].peer} /\ Initiates(n, ex[n].peer)
         /\ ex[n].phase \in Responding => active[n] = {ex[n].peer} /\ Initiates(ex[n].peer, n)
         /\ ex[n].phase \notin Initiating \cup Responding => active[n] = {}
         /\ active[n] \subseteq PeersOf(n)
<1>1. ex[n] \in Exchanges
  BY DEF Shapes
<1>2. CASE ex[n].phase \in Initiating \cup Responding
  BY <1>1, <1>2, ExchangeHasPeer, RangingConstants
  DEF Shapes, Roles, Role, Initiates, PeersOf, Initiating, Responding
<1>3. CASE ex[n].phase \notin Initiating \cup Responding
  BY <1>1, <1>3, ExchangeHasPeer DEF Shapes
<1> QED BY <1>2, <1>3

(* One end of a pair initiates.                                             *)
LEMMA OneInitiates ==
  ASSUME NEW n \in Nodes, NEW p \in Nodes, Initiates(p, n)
  PROVE  ~Initiates(n, p) /\ p # n
BY RangingConstants DEF Initiates

LEMMA TimeoutBooks ==
  ASSUME Shapes, Counts, Books, Roles, NEW n \in Nodes, RecordTimeout(n), now' = now, up' = up
  PROVE  Books'
<1>1. active' = [active EXCEPT ![n] = {}] /\ active'[n] = {} /\ \A k \in Nodes \ {n} : active'[k] = active[k]
  BY DEF RecordTimeout, Shapes
<1>2. CASE mac' = mac /\ \A p \in active[n] : ~Initiates(n, p)
  BY <1>1, <1>2, NoPairChanges
<1>3. ASSUME NEW p \in active[n], Initiates(n, p),
             NEW m \in RecordFailures(mac[n][p], now), mac' = [mac EXCEPT ![n][p] = m]
      PROVE  Books'
  <2>1. p \in PeersOf(n) /\ active[n] = {p}
    BY <1>3, OwesToItsPeer
  <2>2. Kept(m, now) /\ Rested(m)
    BY <1>3, <2>1, FailureKeeps DEF Books, Book, Counts
  <2> QED BY <1>1, <1>3, <2>1, <2>2, OnePairChanges
<1> QED BY <1>2, <1>3 DEF RecordTimeout

LEMMA SuccessBooks ==
  ASSUME Shapes, Counts, Books, Roles, NEW n \in Nodes, active[n] = {ex[n].peer},
         NEW close \in BOOLEAN, Succeeds(n, ex[n].peer, close), now' = now, up' = up,
         active' = active \/ active' = [active EXCEPT ![n] = {}]
  PROVE  Books'
<1> DEFINE p == ex[n].peer
           m == RecordSuccess(mac[n][p], now, close)
<1>1. p \in PeersOf(n) /\ \A k \in Nodes \ {n} : active'[k] = active[k]
  BY OwesToItsPeer DEF Shapes
<1>2. Kept(m, now) /\ Rested(m)
  BY <1>1, SuccessKeeps DEF Books, Book, Counts
<1>3. mac' = [mac EXCEPT ![n][p] = m]
  BY DEF Succeeds
<1>4. \A q \in PeersOf(n) \ {p} : q \notin active[n]
  OBVIOUS
<1> HIDE DEF p, m
<1> QED BY <1>1, <1>2, <1>3, <1>4, OnePairChanges

(* A restart writes the book of a node anew.                                 *)
LEMMA RestartBooks ==
  ASSUME Books, NEW n \in Nodes, Restarted(n), now \in Nat, now' = now,
         \A k \in Nodes \ {n} : up'[k] = up[k] /\ active'[k] = active[k]
  PROVE  Books'
<1>1. PICK phases \in Phased(n) : mac' = [mac EXCEPT ![n] = Booted(n, phases)]
  BY DEF Restarted
<1>2. ASSUME NEW p \in PeersOf(n)
      PROVE  Kept(Booted(n, phases)[p], now) /\ Rested(Booted(n, phases)[p])
  <2>1. PICK phase \in Phases \cup {0} : Booted(n, phases)[p] = Initialize(now, phase)
    BY DEF Booted, Phased
  <2> QED BY <2>1, InitializeKeeps
<1>3. mac'[n] = Booted(n, phases) /\ \A k \in Nodes \ {n} : mac'[k] = mac[k]
  BY <1>1 DEF Books
<1>4. Book(n)'
  BY <1>2, <1>3 DEF Book, Booted, Kept
<1>5. \A k \in Nodes \ {n} : Book(k)'
  BY <1>3 DEF Books, Book
<1> QED BY <1>1, <1>4, <1>5 DEF Books

LEMMA PollBooks ==
  ASSUME Shapes, Counts, Books, Roles, NEW n \in Nodes, SendPoll(n)
  PROVE  Books'
<1>1. PICK p \in PeersOf(n) :
        /\ mac' = [mac EXCEPT ![n] = [q \in PeersOf(n) |->
                     IF q = p THEN BeginAttempt(Expire(mac[n][q], now), now)
                              ELSE Expire(mac[n][q], now)]]
        /\ active' = [active EXCEPT ![n] = {p}]
  BY DEF SendPoll
<1>2. /\ \A q \in PeersOf(n) : mac'[n][q] = IF q = p THEN BeginAttempt(Expire(mac[n][q], now), now)
                                                   ELSE Expire(mac[n][q], now)
      /\ DOMAIN mac'[n] = PeersOf(n) /\ mac'[n] = [q \in PeersOf(n) |-> mac'[n][q]]
      /\ \A k \in Nodes \ {n} : mac'[k] = mac[k] /\ active'[k] = active[k]
      /\ active'[n] = {p} /\ DOMAIN mac' = Nodes
  BY <1>1 DEF Books, Shapes
<1>3. up' = up /\ now' = now /\ active[n] = {} /\ up[n]
  BY OwesToItsPeer, IdleIsOne DEF SendPoll, MayStart, Shapes
<1>4. ASSUME NEW q \in PeersOf(n)
      PROVE  Kept(mac'[n][q], now) /\ (Initiates(n, q) /\ q # p => Rested(mac'[n][q]))
  <2>1. Kept(mac[n][q], now) /\ (Initiates(n, q) => Rested(mac[n][q]))
    BY <1>3 DEF Books, Book
  <2>2. Kept(Expire(mac[n][q], now), now) /\ (Initiates(n, q) => Rested(Expire(mac[n][q], now)))
    BY <2>1, ExpireKeeps DEF Counts
  <2>3. Kept(BeginAttempt(Expire(mac[n][q], now), now), now)
    BY <2>2, BeginKeeps DEF Counts
  <2> QED BY <1>2, <2>2, <2>3
<1>5. mac'[n] \in [PeersOf(n) -> MacStates]
  BY <1>2, <1>4 DEF Kept
<1>6. Book(n)'
  BY <1>2, <1>3, <1>4, <1>5 DEF Book
<1>7. \A k \in Nodes \ {n} : Book(k)'
  BY <1>2, <1>3 DEF Books, Book
<1> QED BY <1>2, <1>6, <1>7 DEF Books

LEMMA NextBooks ==
  ASSUME Shapes, Counts, Books, Roles, Next
  PROVE  Books'
<1>1. CASE Tick
  <2>1. now' = now + 1 /\ mac' = mac /\ active' = active /\ up' = up
    BY <1>1 DEF Tick, node
  <2> QED BY <2>1, TimeKeeps DEF Books, Book, Counts
<1>2. ASSUME NEW n \in Nodes, SendPoll(n)
      PROVE  Books'
  BY <1>2, PollBooks
<1>3. ASSUME NEW n \in Nodes, SendFleetMode(n) \/ BroadcastFleetMode(n) \/ Transmit(n)
      PROVE  Books'
  <2>1. mac' = mac /\ active' = active /\ up' = up /\ now' = now
    BY <1>3 DEF SendFleetMode, BroadcastFleetMode, Transmit, Bounds, node
  <2> QED BY <2>1 DEF Books, Book
<1>4. ASSUME NEW n \in Nodes, TxDone(n)
      PROVE  Books'
  <2>1. now' = now /\ up' = up
    BY <1>4 DEF TxDone
  <2>2. CASE RecoverExchange(n)
    BY <2>1, <2>2, TimeoutBooks DEF RecoverExchange
  <2>3. CASE mac' = mac /\ active' = active
    BY <2>1, <2>3 DEF Books, Book
  <2>4. CASE ex[n].phase = "SendingReport" /\ active' = [active EXCEPT ![n] = {}]
    <3>1. active[n] = {ex[n].peer} /\ Initiates(ex[n].peer, n) /\ ~Initiates(n, ex[n].peer)
      <4>1. ex[n].peer \in Nodes
        BY <2>4, ExchangeHasPeer DEF Shapes, Responding
      <4>2. active[n] = {ex[n].peer} /\ Initiates(ex[n].peer, n)
        BY <2>4, OwesToItsPeer DEF Responding
      <4> QED BY <4>1, <4>2, OneInitiates
    <3>2. CASE mac' = mac
      BY <2>1, <2>4, <3>1, <3>2, NoPairChanges DEF Shapes
    <3>3. CASE Succeeds(n, ex[n].peer, ex[n].close)
      <4>1. ex[n].close \in BOOLEAN
        BY <2>4, ExchangeHasPeer DEF Shapes
      <4> QED BY <2>1, <2>4, <3>1, <3>3, <4>1, SuccessBooks
    <3> QED BY <1>4, <2>4, <3>2, <3>3 DEF TxDone, Then
  <2> QED BY <1>4, <2>2, <2>3, <2>4 DEF TxDone
<1>5. ASSUME NEW n \in Nodes, Serve(n)
      PROVE  Books'
  <2>1. now' = now /\ up' = up
    BY <1>5 DEF Serve, ReceiveError, HearFleetMode, AcceptPoll, AcceptResponse, AcceptFinal,
         AcceptReport, ImpossibleDistance, Stray, Bounds
  <2>2. CASE RecoverExchange(n)
    BY <2>1, <2>2, TimeoutBooks DEF RecoverExchange
  <2>3. CASE mac' = mac /\ active' = active
    BY <2>1, <2>3 DEF Books, Book
  <2>4. CASE AcceptPoll(n)
    <3>1. active[n] = {}
      BY <2>4, PollIsShaped, IdleIsOne DEF AcceptPoll, Shapes
    <3> QED BY <2>1, <2>4, <3>1, NoPairChanges DEF AcceptPoll, Shapes
  <2>5. CASE AcceptFinal(n)
    <3>1. active[n] = {ex[n].peer} /\ active' = active
      BY <2>5, MatchIsShaped DEF AcceptFinal, Awaiting
    <3>2. CASE mac' = mac
      BY <2>3, <3>1, <3>2
    <3>3. ASSUME NEW close \in BOOLEAN, Succeeds(n, ex[n].peer, close)
          PROVE  Books'
      BY <2>1, <3>1, <3>3, SuccessBooks
    <3>4. mac' = mac \/ \E close \in BOOLEAN : Succeeds(n, ex[n].peer, close)
      BY <2>5 DEF AcceptFinal, ClassifyRange
    <3> QED BY <3>2, <3>3, <3>4
  <2>6. CASE AcceptReport(n)
    <3>1. active[n] = {ex[n].peer} /\ rx[n].close \in BOOLEAN
      BY <2>6, MatchIsShaped DEF AcceptReport, Awaiting
    <3> QED BY <2>1, <2>6, <3>1, SuccessBooks DEF AcceptReport
  <2> QED BY <1>5, <2>2, <2>3, <2>4, <2>5, <2>6
    DEF Serve, ReceiveError, HearFleetMode, AcceptResponse, ImpossibleDistance, Stray
<1>6. ASSUME NEW n \in Nodes, Deadline(n)
      PROVE  Books'
  BY <1>6, TimeoutBooks DEF Deadline, RecoverExchange, Bounds
<1>7. ASSUME NEW n \in Nodes, Reset(n)
      PROVE  Books'
  <2>1. ~up'[n] /\ \A k \in Nodes \ {n} : active'[k] = active[k] /\ up'[k] = up[k]
    BY <1>7 DEF Reset, Shapes
  <2> QED BY <1>7, <2>1, NoPairChanges DEF Reset
<1>8. ASSUME NEW n \in Nodes, Boot(n) \/ Reconfigure(n)
      PROVE  Books'
  <2>1. now \in Nat /\ now' = now /\ Restarted(n)
    BY <1>8 DEF Boot, Reconfigure, Bounds, Counts
  <2>2. \A k \in Nodes \ {n} : up'[k] = up[k] /\ active'[k] = active[k]
    BY <1>8 DEF Boot, Reconfigure, Shapes
  <2> QED BY <2>1, <2>2, RestartBooks
<1> QED BY <1>1, <1>2, <1>3, <1>4, <1>5, <1>6, <1>7, <1>8 DEF Next

-----------------------------------------------------------------------------
(* One exchange, one poll. A claim says whose exchange it is, by which number, *)
(* and which polls its timestamps belong to: an exchange under way makes one, *)
(* and so does a frame that waits for the radio it is addressed to.          *)
Claim(by, id, marks) == [by |-> by, id |-> id, marks |-> marks]
Engaged(n) == ex[n].phase \in Initiating \cup Responding
Holds(n) == Claim(IF ex[n].phase \in Initiating THEN n ELSE ex[n].peer, ex[n].id, ex[n].marks)
Waits(n) == Addressed(rx[n], n) /\ rx[n].type # "FleetMode"
Brings(f) == Claim(IF f.type \in {"Poll", "Final"} THEN f.from ELSE f.to, f.id, f.marks)
Claims == {Holds(n) : n \in {k \in Nodes : Engaged(k)}}
          \cup {Brings(rx[n]) : n \in {k \in Nodes : Waits(k)}}

(* Claims are of numbers given out, each of one poll, and two claims of one   *)
(* number are of the same poll.                                             *)
Single(marks) == \E k \in 0 .. MaxPolls : marks = {k}
Sound(c) == c.id < next_id[c.by] /\ Single(c.marks)
Consistent ==
  /\ \A c \in Claims : Sound(c)
  /\ \A c, d \in Claims : c.by = d.by /\ c.id = d.id => c.marks = d.marks

(* What was measured or given to a host is of one poll; a report that is sent *)
(* or waits was measured by its sender.                                      *)
Recorded == \A r \in ranges \cup measured : Single(r.marks)
Measured(by, peer, id, marks) == [by |-> by, peer |-> peer, id |-> id, marks |-> marks] \in measured
Reported ==
  /\ \A n \in Nodes : ex[n].phase = "SendingReport" => Measured(n, ex[n].peer, ex[n].id, ex[n].marks)
  /\ \A n \in Nodes : rx[n].type = "Report" => Measured(rx[n].from, rx[n].to, rx[n].id, rx[n].marks)

LEMMA ClaimsAreTyped ==
  ASSUME Shapes
  PROVE  \A c \in Claims : c.by \in Nodes /\ c.id \in Nat
<1>1. ASSUME NEW n \in Nodes, Engaged(n)
      PROVE  Holds(n).by \in Nodes /\ Holds(n).id \in Nat
  BY <1>1, ExchangeHasPeer DEF Shapes, Engaged, Holds, Claim
<1>2. ASSUME NEW n \in Nodes, Waits(n)
      PROVE  Brings(rx[n]).by \in Nodes /\ Brings(rx[n]).id \in Nat
  <2>1. rx[n] \in Frames
    BY <1>2, FrameHasSender DEF Waits, Addressed, Shapes
  <2>2. rx[n].from \in Nodes /\ rx[n].to \in Nodes /\ rx[n].id \in Nat
    BY <2>1 DEF Frames
  <2> QED BY <2>2 DEF Brings, Claim
<1> QED BY <1>1, <1>2 DEF Claims

(* No new claim, and no number taken back.                                   *)
LEMMA ConsistentWhenInherited ==
  ASSUME Shapes, Counts, Consistent, Claims' \subseteq Claims,
         \A k \in Nodes : next_id'[k] \in Nat /\ next_id[k] <= next_id'[k]
  PROVE  Consistent'
<1>1. ASSUME NEW c \in Claims
      PROVE  Sound(c)'
  <2>1. c.by \in Nodes /\ c.id \in Nat /\ c.id < next_id[c.by] /\ Single(c.marks)
    BY ClaimsAreTyped DEF Consistent, Sound
  <2> QED BY <2>1 DEF Sound, Counts
<1> QED BY <1>1 DEF Consistent

(* The claims after a step of one radio that sends nothing.                  *)
LEMMA ClaimsAfter ==
  ASSUME NEW n \in Nodes, NEW S,
         \A k \in Nodes \ {n} : ex'[k] = ex[k],
         \A k \in Nodes : rx'[k] = rx[k] \/ rx'[k] = Nothing,
         Engaged(n)' => Holds(n)' \in Claims \cup S
  PROVE  Claims' \subseteq Claims \cup S
<1>1. ASSUME NEW k \in Nodes, Engaged(k)'
      PROVE  Holds(k)' \in Claims \cup S
  <2>1. CASE k = n
    BY <1>1, <2>1
  <2>2. CASE k # n
    BY <1>1, <2>2 DEF Claims, Engaged, Holds
  <2> QED BY <2>1, <2>2
<1>2. ASSUME NEW k \in Nodes, Waits(k)'
      PROVE  Brings(rx'[k]) \in Claims
  <2>1. rx'[k] = rx[k]
    BY <1>2 DEF Waits, Addressed, Nothing
  <2> QED BY <1>2, <2>1 DEF Claims, Waits
<1> QED BY <1>1, <1>2 DEF Claims

(* The frame in the transmitter makes the claim of its sender.               *)
LEMMA FrameOfItsSender ==
  ASSUME Shapes, Programmed, NEW n \in Nodes, tx[n] # Nothing, tx[n].type # "FleetMode"
  PROVE  Engaged(n) /\ Brings(tx[n]) = Holds(n)
<1>1. CASE /\ ex[n].phase \in DOMAIN Heading
           /\ tx[n] = Frame(Heading[ex[n].phase], n, ex[n].peer, ex[n].id, ex[n].marks, FALSE)
  <2>1. CASE ex[n].phase = "SendingPoll"
    BY <1>1, <2>1 DEF Heading, Frame, Brings, Holds, Engaged, Initiating, Claim
  <2>2. CASE ex[n].phase = "SendingResponse"
    BY <1>1, <2>2 DEF Heading, Frame, Brings, Holds, Engaged, Initiating, Responding, Claim
  <2>3. CASE ex[n].phase = "SendingFinal"
    BY <1>1, <2>3 DEF Heading, Frame, Brings, Holds, Engaged, Initiating, Claim
  <2> QED BY <1>1, <2>1, <2>2, <2>3 DEF Heading
<1>2. CASE /\ ex[n].phase = "SendingReport"
           /\ tx[n] = Frame("Report", n, ex[n].peer, ex[n].id, ex[n].marks, ex[n].close)
  BY <1>2 DEF Frame, Brings, Holds, Engaged, Initiating, Responding, Claim
<1> QED BY <1>1, <1>2 DEF Programmed, Sends

(* The answer that matches an exchange makes the claim of that exchange.      *)
LEMMA AnswerAgrees ==
  ASSUME Shapes, Consistent, Roles, NEW n \in Nodes,
         \/ Matches(n, "AwaitResponse", "Response")
         \/ Matches(n, "AwaitFinal", "Final")
         \/ Matches(n, "AwaitReport", "Report")
  PROVE  /\ Holds(n) \in Claims /\ Single(ex[n].marks)
         /\ rx[n].marks = ex[n].marks /\ ex[n].marks \cup rx[n].marks = ex[n].marks
<1>1. Engaged(n) /\ Waits(n)
  BY DEF Matches, Engaged, Waits, Initiating, Responding
<1>2. Holds(n) \in Claims /\ Brings(rx[n]) \in Claims
  BY <1>1 DEF Claims
<1>3. Holds(n).by = Brings(rx[n]).by /\ Holds(n).id = Brings(rx[n]).id
  BY DEF Matches, Addressed, Holds, Brings, Claim, Initiating
<1>4. Holds(n).marks = ex[n].marks /\ Brings(rx[n]).marks = rx[n].marks
  BY DEF Holds, Brings, Claim
<1> QED BY <1>2, <1>3, <1>4 DEF Consistent, Sound

(* No claim is made in the name of a node that is idle when its peers are     *)
(* done with it.                                                            *)
LEMMA SettledClaims ==
  ASSUME Shapes, NEW n \in Nodes, Settled(n), ex[n] = Idle, rx[n] = Nothing
  PROVE  \A c \in Claims : c.by # n
<1>1. ASSUME NEW k \in Nodes, Engaged(k)
      PROVE  Holds(k).by # n
  <2>1. k # n
    BY <1>1 DEF Engaged, Idle, Initiating, Responding
  <2>2. ex[k].peer # n
    BY <1>1, <2>1, ExchangeHasPeer DEF Settled, PeersOf, Shapes, Engaged
  <2> QED BY <2>1, <2>2 DEF Holds, Claim
<1>2. ASSUME NEW k \in Nodes, Waits(k)
      PROVE  Brings(rx[k]).by # n
  <2>1. k # n /\ rx[k] \in Frames
    BY <1>2, FrameHasSender DEF Waits, Addressed, Nothing, Shapes
  <2>2. rx[k].from # n /\ rx[k].to = k
    BY <1>2, <2>1, FrameHasSender DEF Settled, PeersOf, Waits, Addressed
  <2> QED BY <2>1, <2>2 DEF Brings, Claim
<1> QED BY <1>1, <1>2 DEF Claims

(* Every step keeps the claims consistent.                                   *)
LEMMA PollClaims ==
  ASSUME Shapes, Counts, Consistent, NEW n \in Nodes, SendPoll(n)
  PROVE  Consistent'
<1>0. PICK c : c = Claim(n, next_id[n], {polls})
  OBVIOUS
<1>1. PICK p \in PeersOf(n) : ex' = [ex EXCEPT ![n] = Exchange("SendingPoll", p, next_id[n], {polls})]
  BY DEF SendPoll
<1>2. Holds(n)' = c
  BY <1>0, <1>1 DEF Shapes, Holds, Exchange, Initiating, Claim
<1>3. /\ \A k \in Nodes \ {n} : ex'[k] = ex[k]
      /\ \A k \in Nodes : rx'[k] = rx[k] \/ rx'[k] = Nothing
  BY <1>1 DEF SendPoll, PrepareTx, Shapes
<1>4. Claims' \subseteq Claims \cup {c}
  <2>1. PICK S : S = {c}
    OBVIOUS
  <2>2. Claims' \subseteq Claims \cup S
    BY <1>2, <1>3, <2>1, ClaimsAfter
  <2> QED BY <2>1, <2>2
<1>5. next_id'[n] = next_id[n] + 1 /\ \A k \in Nodes \ {n} : next_id'[k] = next_id[k]
  BY DEF SendPoll, Counts
<1>6. c.by = n /\ c.id = next_id[n] /\ c.marks = {polls}
  BY <1>0 DEF Claim
<1>7. Sound(c)'
  BY <1>5, <1>6 DEF Sound, Single, Counts
<1>8. ASSUME NEW d \in Claims
      PROVE  Sound(d)' /\ ~(d.by = c.by /\ d.id = c.id)
  <2>1. d.by \in Nodes /\ d.id \in Nat /\ d.id < next_id[d.by] /\ Single(d.marks)
    BY ClaimsAreTyped DEF Consistent, Sound
  <2> QED BY <1>5, <1>6, <2>1 DEF Sound, Counts
<1> QED BY <1>4, <1>7, <1>8 DEF Consistent

LEMMA NextConsistent ==
  ASSUME Shapes, Counts, Silent, Programmed, Roles, Consistent, Next
  PROVE  Consistent'
<1>1. ASSUME Claims' \subseteq Claims, next_id' = next_id
      PROVE  Consistent'
  BY <1>1, ConsistentWhenInherited DEF Counts
<1>2. ASSUME ex' = ex, \A k \in Nodes : rx'[k] = rx[k] \/ rx'[k] = Nothing, next_id' = next_id
      PROVE  Consistent'
  <2>1. Claims' \subseteq Claims
    <3>1. ASSUME NEW k \in Nodes, Waits(k)'
          PROVE  rx'[k] = rx[k] /\ Waits(k)
      BY <1>2, <3>1 DEF Waits, Addressed, Nothing
    <3> QED BY <1>2, <3>1 DEF Claims, Engaged, Holds
  <2> QED BY <1>1, <1>2, <2>1
<1>3. ASSUME NEW n \in Nodes, \A k \in Nodes \ {n} : ex'[k] = ex[k],
             \A k \in Nodes : rx'[k] = rx[k] \/ rx'[k] = Nothing,
             Engaged(n)' => Holds(n)' \in Claims
      PROVE  Claims' \subseteq Claims
  <2>1. PICK S : S = {}
    OBVIOUS
  <2>2. Claims' \subseteq Claims \cup S
    BY <1>3, ClaimsAfter
  <2> QED BY <2>1, <2>2
<1>4. CASE Tick
  BY <1>2, <1>4 DEF Tick, node, radio
<1>5. ASSUME NEW n \in Nodes, SendPoll(n)
      PROVE  Consistent'
  BY <1>5, PollClaims
<1>6. ASSUME NEW n \in Nodes, SendFleetMode(n)
      PROVE  Consistent'
  <2>1. ex' = [ex EXCEPT ![n] = [phase |-> "SendingFleetMode"]] /\ next_id' = [next_id EXCEPT ![n] = @ + 1]
    BY <1>6 DEF SendFleetMode
  <2>2. \A k \in Nodes : rx'[k] = rx[k] \/ rx'[k] = Nothing
    BY <1>6 DEF SendFleetMode, PrepareTx, Shapes
  <2>3. ~Engaged(n)'
    BY <2>1 DEF Engaged, Shapes, Initiating, Responding
  <2>4. Claims' \subseteq Claims
    BY <1>3, <2>1, <2>2, <2>3 DEF Shapes
  <2> QED BY <2>1, <2>4, ConsistentWhenInherited DEF Counts
<1>7. ASSUME NEW n \in Nodes, BroadcastFleetMode(n)
      PROVE  Consistent'
  BY <1>2, <1>7 DEF BroadcastFleetMode, radio
<1>8. ASSUME NEW n \in Nodes, Transmit(n)
      PROVE  Consistent'
  <2>1. tx[n] # Nothing /\ ex' = ex /\ next_id' = next_id
    BY <1>8 DEF Transmit, node
  <2>2. \A k \in Nodes : rx'[k] = rx[k] \/ rx'[k] = tx[n] \/ rx'[k] = Garbled
    BY <1>8 DEF Transmit
  <2>3. ASSUME NEW k \in Nodes, Waits(k)'
        PROVE  Brings(rx'[k]) \in Claims
    <3>1. CASE rx'[k] = rx[k]
      BY <2>3, <3>1 DEF Claims, Waits
    <3>2. CASE rx'[k] = tx[n]
      <4>1. tx[n].type # "FleetMode"
        BY <2>3, <3>2 DEF Waits
      <4> QED BY <2>1, <3>2, <4>1, FrameOfItsSender DEF Claims
    <3> QED BY <2>2, <2>3, <3>1, <3>2 DEF Waits, Addressed, Garbled
  <2>4. Claims' \subseteq Claims
    BY <2>1, <2>3 DEF Claims, Engaged, Holds
  <2> QED BY <1>1, <2>1, <2>4
<1>9. ASSUME NEW n \in Nodes, TxDone(n)
      PROVE  Consistent'
  <2>1. rx' = rx /\ next_id' = next_id /\ ex[n] \in Exchanges
    BY <1>9 DEF TxDone, Shapes
  <2>2. CASE ex' = [ex EXCEPT ![n] = Idle]
    <3>1. ~Engaged(n)' /\ \A k \in Nodes \ {n} : ex'[k] = ex[k]
      BY <2>2 DEF Engaged, Shapes, Initiating, Responding, Idle
    <3> QED BY <1>1, <1>3, <2>1, <3>1
  <2>3. CASE ex[n].phase \in DOMAIN Then /\ ex' = [ex EXCEPT ![n].phase = Then[@]]
    <3>1. /\ ex'[n] = Exchange(Then[ex[n].phase], ex[n].peer, ex[n].id, ex[n].marks)
          /\ \A k \in Nodes \ {n} : ex'[k] = ex[k]
      BY <2>1, <2>3, NextPhase DEF Shapes
    <3>2. /\ ex'[n].phase = Then[ex[n].phase] /\ ex'[n].peer = ex[n].peer
          /\ ex'[n].id = ex[n].id /\ ex'[n].marks = ex[n].marks
      BY <3>1 DEF Exchange
    <3>3. Engaged(n) /\ Holds(n)' = Holds(n)
      BY <2>3, <3>2 DEF Engaged, Holds, Then, Initiating, Responding
    <3> QED BY <1>1, <1>3, <2>1, <3>1, <3>3 DEF Claims
  <2> QED BY <1>9, <2>2, <2>3 DEF TxDone, RecoverExchange
<1>10. ASSUME NEW n \in Nodes, Serve(n)
       PROVE  Consistent'
  <2>1. /\ next_id' = next_id /\ rx' = [rx EXCEPT ![n] = Nothing]
        /\ \A k \in Nodes \ {n} : ex'[k] = ex[k]
    BY <1>10 DEF Serve, ReceiveError, HearFleetMode, AcceptPoll, AcceptResponse, AcceptFinal, AcceptReport,
            ImpossibleDistance, Stray, Serves, RecoverExchange, Shapes
  <2>2. \A k \in Nodes : rx'[k] = rx[k] \/ rx'[k] = Nothing
    BY <2>1 DEF Shapes
  <2>3. ASSUME Engaged(n)' => Holds(n)' \in Claims
        PROVE  Consistent'
    BY <1>1, <1>3, <2>1, <2>2, <2>3
  <2>4. CASE ex' = [ex EXCEPT ![n] = Idle]
    BY <2>3, <2>4 DEF Engaged, Shapes, Initiating, Responding, Idle
  <2>5. CASE ex' = ex
    BY <2>3, <2>5 DEF Engaged, Holds, Claims
  <2>6. CASE AcceptPoll(n)
    <3>1. ex'[n] = Exchange("SendingResponse", rx[n].from, rx[n].id, rx[n].marks)
      BY <2>6 DEF AcceptPoll, Shapes
    <3>2. rx[n].type = "Poll" /\ Waits(n)
      BY <2>6 DEF AcceptPoll, ExpectedPoll, PollArrives, Waits
    <3>3. Holds(n)' = Brings(rx[n])
      BY <3>1, <3>2 DEF Holds, Brings, Exchange, Initiating
    <3> QED BY <2>3, <3>2, <3>3 DEF Claims
  <2>7. CASE AcceptResponse(n)
    <3>1. Holds(n) \in Claims /\ ex[n].marks \cup rx[n].marks = ex[n].marks
      BY <2>7, AnswerAgrees DEF AcceptResponse
    <3>2. ex'[n] = Exchange("SendingFinal", ex[n].peer, ex[n].id, ex[n].marks)
      BY <2>7, <3>1 DEF AcceptResponse, Shapes
    <3>3. Holds(n)' = Holds(n)
      BY <2>7, <3>2 DEF AcceptResponse, Matches, Holds, Exchange, Initiating
    <3> QED BY <2>3, <3>1, <3>3
  <2>8. CASE AcceptFinal(n)
    <3>1. Holds(n) \in Claims /\ ex[n].marks \cup rx[n].marks = ex[n].marks
      BY <2>8, AnswerAgrees DEF AcceptFinal
    <3>2. PICK close : ex'[n] = Reporting(ex[n].peer, ex[n].id, ex[n].marks, close)
      <4>1. PICK close : ex'[n] = Reporting(ex[n].peer, ex[n].id, ex[n].marks \cup rx[n].marks, close)
        BY <2>8 DEF AcceptFinal, Shapes
      <4> QED BY <3>1, <4>1
    <3>3. Holds(n)' = Holds(n)
      BY <2>8, <3>2 DEF AcceptFinal, Matches, Holds, Reporting, Initiating
    <3> QED BY <2>3, <3>1, <3>3
  <2> QED BY <1>10, <2>4, <2>5, <2>6, <2>7, <2>8
    DEF Serve, ReceiveError, HearFleetMode, AcceptReport, ImpossibleDistance, Stray, RecoverExchange
<1>11. ASSUME NEW n \in Nodes, Deadline(n) \/ Reset(n)
       PROVE  Consistent'
  <2>1. /\ ex' = [ex EXCEPT ![n] = Idle] /\ next_id' = next_id
        /\ \A k \in Nodes : rx'[k] = rx[k] \/ rx'[k] = Nothing
    BY <1>11 DEF Deadline, Reset, RecoverExchange, Shapes
  <2>2. ~Engaged(n)' /\ \A k \in Nodes \ {n} : ex'[k] = ex[k]
    BY <2>1 DEF Engaged, Shapes, Initiating, Responding, Idle
  <2> QED BY <1>1, <1>3, <2>1, <2>2
<1>12. ASSUME NEW n \in Nodes, Boot(n) \/ Reconfigure(n)
       PROVE  Consistent'
  <2>1. /\ Settled(n) /\ ex[n] = Idle /\ rx[n] = Nothing /\ ex' = ex /\ rx' = rx
        /\ next_id' = [next_id EXCEPT ![n] = 0]
    BY <1>12 DEF Boot, Reconfigure, Silent, Quiet, radio, Restarted
  <2>2. \A c \in Claims : c.by # n /\ c.by \in Nodes
    BY <2>1, SettledClaims, ClaimsAreTyped
  <2>3. Claims' = Claims
    BY <2>1 DEF Claims, Engaged, Holds, Waits
  <2>4. ASSUME NEW c \in Claims
        PROVE  Sound(c)'
    BY <2>1, <2>2 DEF Consistent, Sound, Counts
  <2> QED BY <2>3, <2>4 DEF Consistent
<1> QED BY <1>4, <1>5, <1>6, <1>7, <1>8, <1>9, <1>10, <1>11, <1>12 DEF Next

(* Every step keeps the records true.                                        *)
LEMMA NextRecords ==
  ASSUME Shapes, Programmed, Roles, Consistent, Recorded, Reported, RangeIsMutual, Next
  PROVE  (Recorded /\ Reported /\ RangeIsMutual)'
<1>1. ASSUME ex' = ex, rx' = rx, measured' = measured, ranges' = ranges
      PROVE  (Recorded /\ Reported /\ RangeIsMutual)'
  BY <1>1 DEF Recorded, Reported, Measured, RangeIsMutual
<1>2. ASSUME NEW n \in Nodes, \A k \in Nodes \ {n} : ex'[k] = ex[k], ex'[n].phase # "SendingReport",
             \A k \in Nodes : rx'[k] = rx[k] \/ rx'[k] = Nothing, measured' = measured
      PROVE  Reported'
  BY <1>2 DEF Reported, Measured, Nothing
<1>3. ASSUME measured' = measured, ranges' = ranges
      PROVE  (Recorded /\ RangeIsMutual)'
  BY <1>3 DEF Recorded, RangeIsMutual
<1>4. CASE Tick
  BY <1>1, <1>4 DEF Tick, node, radio, history
<1>5. ASSUME NEW n \in Nodes, SendPoll(n) \/ SendFleetMode(n) \/ Deadline(n) \/ Reset(n)
      PROVE  (Recorded /\ Reported /\ RangeIsMutual)'
  <2>1. /\ \A k \in Nodes \ {n} : ex'[k] = ex[k]
        /\ ex'[n].phase # "SendingReport"
        /\ \A k \in Nodes : rx'[k] = rx[k] \/ rx'[k] = Nothing
        /\ measured' = measured /\ ranges' = ranges
    <3>1. ex'[n].phase # "SendingReport" /\ \A k \in Nodes \ {n} : ex'[k] = ex[k]
      <4>1. CASE SendPoll(n)
        <5>1. PICK p \in PeersOf(n) : ex' = [ex EXCEPT ![n] = Exchange("SendingPoll", p, next_id[n], {polls})]
          BY <4>1 DEF SendPoll
        <5> QED BY <5>1 DEF Exchange, Shapes
      <4>2. CASE SendFleetMode(n)
        BY <4>2 DEF SendFleetMode, Shapes
      <4>3. CASE Deadline(n) \/ Reset(n)
        BY <4>3 DEF Deadline, Reset, RecoverExchange, Idle, Shapes
      <4> QED BY <1>5, <4>1, <4>2, <4>3
    <3>2. \A k \in Nodes : rx'[k] = rx[k] \/ rx'[k] = Nothing
      BY <1>5 DEF SendPoll, SendFleetMode, Deadline, Reset, PrepareTx, Shapes
    <3>3. measured' = measured /\ ranges' = ranges
      BY <1>5 DEF SendPoll, SendFleetMode, Deadline, Reset, history
    <3> QED BY <3>1, <3>2, <3>3
  <2> QED BY <1>2, <1>3, <2>1
<1>6. ASSUME NEW n \in Nodes, BroadcastFleetMode(n) \/ Boot(n) \/ Reconfigure(n)
      PROVE  (Recorded /\ Reported /\ RangeIsMutual)'
  BY <1>1, <1>6 DEF BroadcastFleetMode, Boot, Reconfigure, radio, history
<1>7. ASSUME NEW n \in Nodes, Transmit(n)
      PROVE  (Recorded /\ Reported /\ RangeIsMutual)'
  <2>1. tx[n] # Nothing /\ ex' = ex /\ measured' = measured /\ ranges' = ranges
    BY <1>7 DEF Transmit, node, history
  <2>2. \A k \in Nodes : rx'[k] = rx[k] \/ rx'[k] = tx[n] \/ rx'[k] = Garbled
    BY <1>7 DEF Transmit
  <2>3. tx[n].type = "Report" => Measured(tx[n].from, tx[n].to, tx[n].id, tx[n].marks)
    <3>1. ASSUME tx[n].type = "Report"
          PROVE  /\ ex[n].phase = "SendingReport"
                 /\ tx[n] = Frame("Report", n, ex[n].peer, ex[n].id, ex[n].marks, ex[n].close)
      <4>1. CASE ex[n].phase \in DOMAIN Heading
        <5>1. /\ tx[n] = Frame(Heading[ex[n].phase], n, ex[n].peer, ex[n].id, ex[n].marks, FALSE)
              /\ Heading[ex[n].phase] # "Report"
          BY <2>1, <4>1 DEF Programmed, Sends, Heading
        <5> QED BY <3>1, <5>1 DEF Frame
      <4> QED BY <2>1, <3>1, <4>1 DEF Programmed, Sends
    <3> QED BY <3>1 DEF Frame, Reported
  <2>4. Reported'
    <3>1. ASSUME NEW k \in Nodes, rx'[k].type = "Report"
          PROVE  Measured(rx'[k].from, rx'[k].to, rx'[k].id, rx'[k].marks)
      <4>1. CASE rx'[k] = rx[k]
        BY <3>1, <4>1 DEF Reported
      <4>2. CASE rx'[k] = tx[n]
        BY <3>1, <4>2, <2>3
      <4> QED BY <2>2, <3>1, <4>1, <4>2 DEF Garbled
    <3> QED BY <2>1, <3>1 DEF Reported, Measured
  <2> QED BY <1>3, <2>1, <2>4
<1>8. ASSUME NEW n \in Nodes, TxDone(n)
      PROVE  (Recorded /\ Reported /\ RangeIsMutual)'
  <2>1. rx' = rx /\ measured' = measured /\ ex[n] \in Exchanges
    BY <1>8 DEF TxDone, Shapes
  <2>2. \A k \in Nodes \ {n} : ex'[k] = ex[k]
    BY <1>8 DEF TxDone, RecoverExchange, Shapes
  <2>3. ex'[n].phase # "SendingReport"
    <3>1. CASE ex[n].phase \in DOMAIN Then /\ ex' = [ex EXCEPT ![n].phase = Then[@]]
      <4>1. ex'[n] = Exchange(Then[ex[n].phase], ex[n].peer, ex[n].id, ex[n].marks)
        BY <2>1, <3>1, NextPhase DEF Shapes
      <4> QED BY <3>1, <4>1 DEF Exchange, Then
    <3> QED BY <1>8, <3>1 DEF TxDone, RecoverExchange, Idle, Shapes
  <2>4. CASE ranges' = ranges
    BY <1>2, <1>3, <2>1, <2>2, <2>3, <2>4
  <2>5. CASE /\ ex[n].phase = "SendingReport"
             /\ ranges' = Ranged(n, ex[n].peer, ex[n].id, ex[n].marks)
    <3> DEFINE r == [by |-> n, peer |-> ex[n].peer, id |-> ex[n].id, marks |-> ex[n].marks]
    <3>1. r \in measured /\ ranges' = ranges \cup {r}
      BY <2>5 DEF Ranged, Reported, Measured
    <3>2. ex[n].peer \in Nodes /\ Initiates(ex[n].peer, n)
      BY <2>1, <2>5, ExchangeHasPeer DEF Roles, Role, Responding
    <3>3. ~Initiates(r.by, r.peer)
      BY <3>2, OneInitiates
    <3> HIDE DEF r
    <3>4. (Recorded /\ RangeIsMutual)'
      BY <2>1, <3>1, <3>3 DEF Recorded, RangeIsMutual
    <3> QED BY <1>2, <2>1, <2>2, <2>3, <3>4
  <2> QED BY <1>8, <2>4, <2>5 DEF TxDone
<1>9. ASSUME NEW n \in Nodes, Serve(n)
      PROVE  (Recorded /\ Reported /\ RangeIsMutual)'
  <2>1. /\ \A k \in Nodes \ {n} : ex'[k] = ex[k]
        /\ \A k \in Nodes : rx'[k] = rx[k] \/ rx'[k] = Nothing
    BY <1>9 DEF Serve, ReceiveError, HearFleetMode, AcceptPoll, AcceptResponse, AcceptFinal, AcceptReport,
            ImpossibleDistance, Stray, Serves, RecoverExchange, Shapes
  <2>2. CASE ex' = ex /\ measured' = measured /\ ranges' = ranges
    <3>1. Reported'
      BY <2>1, <2>2 DEF Reported, Measured, Nothing
    <3> QED BY <1>3, <2>2, <3>1
  <2>3. CASE ex' = [ex EXCEPT ![n] = Idle] /\ measured' = measured /\ ranges' = ranges
    <3>1. ex'[n].phase # "SendingReport"
      BY <2>3 DEF Idle, Shapes
    <3> QED BY <1>2, <1>3, <2>1, <2>3, <3>1
  <2>4. CASE AcceptPoll(n) \/ AcceptResponse(n)
    <3>1. ex'[n].phase # "SendingReport"
      <4>1. CASE AcceptPoll(n)
        BY <4>1 DEF AcceptPoll, Exchange, Shapes
      <4>2. CASE AcceptResponse(n)
        BY <4>2 DEF AcceptResponse, Exchange, Shapes
      <4> QED BY <2>4, <4>1, <4>2
    <3>2. measured' = measured /\ ranges' = ranges
      BY <2>4 DEF AcceptPoll, AcceptResponse, history
    <3> QED BY <1>2, <1>3, <2>1, <3>1, <3>2
  <2>5. CASE AcceptFinal(n)
    <3> DEFINE r == [by |-> n, peer |-> ex[n].peer, id |-> ex[n].id, marks |-> ex[n].marks]
    <3>1. Single(ex[n].marks) /\ ex[n].marks \cup rx[n].marks = ex[n].marks
      BY <2>5, AnswerAgrees DEF AcceptFinal
    <3>2. PICK close : ex'[n] = Reporting(ex[n].peer, ex[n].id, ex[n].marks, close)
      <4>1. PICK close : ex'[n] = Reporting(ex[n].peer, ex[n].id, ex[n].marks \cup rx[n].marks, close)
        BY <2>5 DEF AcceptFinal, Shapes
      <4> QED BY <3>1, <4>1
    <3>3. measured' = measured \cup {r} /\ ranges' \subseteq ranges \cup {r}
      BY <2>5, <3>1 DEF AcceptFinal, Ranged
    <3>4. Reported'
      <4>1. Measured(n, ex[n].peer, ex[n].id, ex[n].marks)'
        <5>1. r \in measured'
          BY <3>3
        <5>2. ex'[n].peer = ex[n].peer /\ ex'[n].id = ex[n].id /\ ex'[n].marks = ex[n].marks
          BY <3>2 DEF Reporting
        <5> QED BY <5>1, <5>2 DEF Measured
      <4> QED BY <2>1, <3>3, <4>1 DEF Reported, Measured, Nothing
    <3>5. ~Initiates(r.by, r.peer)
      <4>1. ex[n].peer \in Nodes /\ Initiates(ex[n].peer, n)
        BY <2>5, MatchIsShaped DEF AcceptFinal, Roles, Role, Responding, Awaiting
      <4> QED BY <4>1, OneInitiates
    <3>6. r.marks = ex[n].marks
      OBVIOUS
    <3> HIDE DEF r
    <3>7. Recorded'
      BY <3>1, <3>3, <3>6 DEF Recorded
    <3>8. RangeIsMutual'
      BY <3>3, <3>5 DEF RangeIsMutual
    <3> QED BY <3>4, <3>7, <3>8
  <2>6. CASE AcceptReport(n)
    <3> DEFINE r == [by |-> n, peer |-> ex[n].peer, id |-> ex[n].id, marks |-> ex[n].marks]
    <3>1. Single(ex[n].marks) /\ ex[n].marks \cup rx[n].marks = ex[n].marks /\ rx[n].marks = ex[n].marks
      BY <2>6, AnswerAgrees DEF AcceptReport
    <3>2. measured' = measured /\ ranges' = ranges \cup {r}
      BY <2>6, <3>1 DEF AcceptReport, Ranged
    <3>3. ex'[n].phase # "SendingReport"
      BY <2>6 DEF AcceptReport, Idle, Shapes
    <3>4. [by |-> ex[n].peer, peer |-> n, id |-> ex[n].id, marks |-> ex[n].marks] \in measured
      BY <2>6, <3>1 DEF AcceptReport, Matches, Addressed, Reported, Measured
    <3>5. Recorded'
      BY <3>1, <3>2 DEF Recorded
    <3>6. RangeIsMutual'
      BY <3>2, <3>4 DEF RangeIsMutual
    <3> QED BY <1>2, <2>1, <3>2, <3>3, <3>5, <3>6
  <2> QED BY <1>9, <2>2, <2>3, <2>4, <2>5, <2>6
    DEF Serve, ReceiveError, HearFleetMode, ImpossibleDistance, Stray, RecoverExchange, history
<1> QED BY <1>4, <1>5, <1>6, <1>7, <1>8, <1>9 DEF Next

-----------------------------------------------------------------------------
(* The specification.                                                       *)

Inv == /\ Shapes /\ Counts /\ Silent /\ Programmed /\ Roles /\ Books
       /\ Consistent /\ Recorded /\ Reported /\ RangeIsMutual

LEMMA InitInv == Init => Inv
<1> SUFFICES ASSUME Init PROVE Inv
  OBVIOUS
<1>1. Shapes
  BY RangingConstants DEF Init, Shapes, Exchanges, Idle
<1>2. Counts
  BY RangingConstants DEF Init, Counts
<1>3. Silent /\ Programmed /\ Roles
  BY DEF Init, Silent, Programmed, Roles, Role, Idle, Initiating, Responding
<1>4. Books
  <2>1. ASSUME NEW n \in Nodes, NEW phases \in Phased(n), mac[n] = Booted(n, phases)
        PROVE  Book(n)
    <3>1. now \in Nat
      BY RangingConstants DEF Init
    <3>2. ASSUME NEW p \in PeersOf(n)
          PROVE  mac[n][p] \in MacStates /\ Kept(mac[n][p], now) /\ Rested(mac[n][p])
      <4>1. PICK phase \in Phases \cup {0} : mac[n][p] = Initialize(now, phase)
        BY <2>1 DEF Booted, Phased
      <4> QED BY <3>1, <4>1, InitializeKeeps DEF Kept
    <3> QED BY <2>1, <3>2 DEF Book, Booted
  <2> QED BY <2>1 DEF Init, Books
<1>5. Claims = {}
  BY DEF Init, Claims, Engaged, Waits, Addressed, Idle, Nothing, Initiating, Responding
<1>6. Consistent /\ Recorded /\ Reported /\ RangeIsMutual
  BY <1>5 DEF Init, Consistent, Recorded, Reported, RangeIsMutual, Idle, Nothing
<1> QED BY <1>1, <1>2, <1>3, <1>4, <1>6 DEF Inv

LEMMA NextInv == Inv /\ [Next]_vars => Inv'
<1> SUFFICES ASSUME Inv, [Next]_vars PROVE Inv'
  OBVIOUS
<1>1. CASE Next
  <2>1. Shapes' /\ Counts' /\ Silent'
    BY <1>1, NextShapes, NextCounts, NextSilent DEF Inv
  <2>2. Programmed' /\ Roles' /\ Books'
    BY <1>1, NextProgrammed, NextRoles, NextBooks DEF Inv
  <2>3. Consistent'
    BY <1>1, NextConsistent DEF Inv
  <2>4. (Recorded /\ Reported /\ RangeIsMutual)'
    BY <1>1, NextRecords DEF Inv
  <2> QED BY <2>1, <2>2, <2>3, <2>4 DEF Inv
<1>2. CASE UNCHANGED vars
  <2>1. UNCHANGED <<present, up, ex, active, mac, next_id, heard, pending, tx, sent, rx, now, polls, faults,
                    measured, ranges>>
    BY <1>2 DEF vars, node, radio, history
  <2>2. Shapes' /\ Counts' /\ Silent' /\ Programmed' /\ Roles'
    BY <2>1 DEF Inv, Shapes, Counts, Silent, Programmed, Sends, Roles
  <2>3. Books'
    BY <2>1 DEF Inv, Books, Book
  <2>4. Consistent'
    BY <2>1 DEF Inv, Consistent, Claims, Engaged, Holds, Waits, Sound
  <2>5. (Recorded /\ Reported /\ RangeIsMutual)'
    BY <2>1 DEF Inv, Recorded, Reported, Measured, RangeIsMutual
  <2> QED BY <2>2, <2>3, <2>4, <2>5 DEF Inv
<1> QED BY <1>1, <1>2

LEMMA InvariantHolds == Spec => []Inv
<1>1. Init => Inv
  BY InitInv
<1>2. Inv /\ [Next]_vars => Inv'
  BY NextInv
<1> QED BY <1>1, <1>2, PTL DEF Spec

(* The invariant gives what the runs check: the types, and that every range   *)
(* is of one exchange and known to both ends, and that no pair is given up.   *)
LEMMA InvGivesRanging == Inv => RangingInv
<1> SUFFICES ASSUME Inv PROVE RangingInv
  OBVIOUS
<1>1. TypeOK
  BY DEF Inv, Shapes, Counts, Books, Book, TypeOK
<1>2. RangeIsOfOneExchange
  BY FS_Singleton DEF Inv, Recorded, Single, RangeIsOfOneExchange
<1>3. RetryIsBounded
  BY DEF Inv, Books, Book, Kept, RetryIsBounded
<1> QED BY <1>1, <1>2, <1>3 DEF Inv, RangingInv

(* Whatever is lost, garbled, missed or reset, and however many radios range   *)
(* at once: a range is computed from the timestamps of one exchange, both     *)
(* ends have computed it, and every pair is due again within the longest      *)
(* backoff.                                                                 *)
THEOREM RangingHolds == Spec => []RangingInv
BY InvariantHolds, InvGivesRanging, PTL

(* Two attempts on a pair are at least a close period apart, however the       *)
(* first one ended.                                                         *)
THEOREM AttemptsHold == Spec => AttemptsAreSpaced
<1>1. ASSUME Inv, [Next]_vars, NEW n \in Nodes, NEW p \in PeersOf(n), NEW last \in mac[n][p].last,
             polls' # polls, ex[n] = Idle, active'[n] = {p}, Initiates(n, p), ex'[n] # ex[n]
      PROVE  now >= last + ClosePeriod
  <2>1. PICK k \in Nodes : SendPoll(k)
    <3>1. Next
      BY <1>1 DEF vars
    <3>2. ASSUME NEW k \in Nodes, TxDone(k) \/ Serve(k)
          PROVE  polls' = polls
      BY <1>1, <3>2, ServeRecords DEF Inv
    <3>3. polls' # polls /\ ~UNCHANGED Bounds
      BY <1>1 DEF Bounds
    <3> QED BY <3>1, <3>2, <3>3
      DEF Next, Tick, SendFleetMode, BroadcastFleetMode, Transmit, Deadline, Reset, Boot, Reconfigure
  <2>2. k = n
    BY <1>1, <2>1 DEF SendPoll, Inv, Shapes
  <2>3. up[n] /\ DuePair(n, p)
    <3>1. PICK q \in PeersOf(n) : DuePair(n, q) /\ active' = [active EXCEPT ![n] = {q}]
      BY <2>1, <2>2 DEF SendPoll
    <3>2. q = p
      BY <1>1, <3>1 DEF Inv, Shapes
    <3> QED BY <2>1, <2>2, <3>1, <3>2 DEF SendPoll, MayStart
  <2>4. active[n] = {}
    BY <1>1, IdleIsOne DEF Inv, Shapes
  <2>5. Kept(mac[n][p], now) /\ Rested(mac[n][p]) /\ now \in Nat
    BY <1>1, <2>3, <2>4 DEF Inv, Books, Book, Counts
  <2>6. last + ClosePeriod <= mac[n][p].due /\ mac[n][p].due <= now /\ last \in Nat /\ mac[n][p].due \in Nat
    BY <1>1, <2>3, <2>5 DEF Rested, DuePair, IsDue, Kept, MacStates
  <2> QED BY <2>5, <2>6, MacConstants
<1>2. Inv /\ [Next]_vars =>
        [\A n \in Nodes : \A p \in PeersOf(n) : \A last \in mac[n][p].last :
           polls' # polls /\ ex[n] = Idle /\ active'[n] = {p} /\ Initiates(n, p) /\ ex'[n] # ex[n]
             => now >= last + ClosePeriod]_vars
  BY <1>1
<1> QED BY <1>2, InvariantHolds, PTL DEF AttemptsAreSpaced, Spec

-----------------------------------------------------------------------------
(* The host link of the DWM3001 (RadioHost).                                    *)

(* The completed exchanges among the events.                                  *)
Completed == {e \in Events : e.type = "measurement"}

LEMMA CompletedAre ==
  /\ \A e \in Completed : /\ e.peer \in Peers /\ e.number \in Nat /\ e.type = "measurement"
                          /\ e = Measurement(e.peer, e.number)
  /\ \A p \in Peers, n \in Nat : 1 <= n /\ n <= MaxExchanges[p] => Measurement(p, n) \in Completed
  /\ \A p, n : Measurement(p, n).peer = p /\ Measurement(p, n).number = n
<1>1. \A p, n : /\ Measurement(p, n).type = "measurement" /\ Measurement(p, n).peer = p
                /\ Measurement(p, n).number = n
  BY DEF Measurement
<1>2. Control.type = "control" /\ Diagnostic.type = "diagnostic"
  BY DEF Control, Diagnostic
<1>3. \A p \in Peers : MaxExchanges[p] \in Nat
  BY LinkConstants
<1>4. ASSUME NEW p \in Peers, NEW n \in Nat, 1 <= n, n <= MaxExchanges[p]
      PROVE  Measurement(p, n) \in Completed
  BY <1>1, <1>3, <1>4 DEF Completed, Events
<1>5. ASSUME NEW e \in Completed
      PROVE  e.peer \in Peers /\ e.number \in Nat /\ e = Measurement(e.peer, e.number)
  <2>1. PICK p \in Peers : \E n \in 1 .. MaxExchanges[p] : e = Measurement(p, n)
    BY <1>2 DEF Completed, Events
  <2>2. PICK n \in 1 .. MaxExchanges[p] : e = Measurement(p, n)
    BY <2>1
  <2> QED
    BY <1>1, <2>2
<1> QED
  BY <1>1, <1>4, <1>5 DEF Completed

LEMMA EventsAre ==
  /\ Control \in Events /\ Diagnostic \in Events /\ Completed \subseteq Events
  /\ \A e \in Events : e \in Completed \/ e = Control \/ e = Diagnostic
  /\ Control.type = "control" /\ Diagnostic.type = "diagnostic"
<1>1. Control.type = "control" /\ Diagnostic.type = "diagnostic"
  BY DEF Control, Diagnostic
<1>2. \A p, n : Measurement(p, n).type = "measurement"
  BY DEF Measurement
<1> QED
  BY <1>1, <1>2 DEF Events, Completed

-----------------------------------------------------------------------------
(* Sequences.                                                                *)
LEMMA RemoveAtIs ==
  ASSUME NEW S, NEW s \in Seq(S), NEW k \in 1 .. Len(s)
  PROVE  /\ RemoveAt(s, k) \in Seq(S) /\ Len(RemoveAt(s, k)) = Len(s) - 1
         /\ \A i \in 1 .. Len(s) - 1 : RemoveAt(s, k)[i] = IF i < k THEN s[i] ELSE s[i + 1]
<1> DEFINE before == SubSeq(s, 1, k - 1)
           after == SubSeq(s, k + 1, Len(s))
<1>1. Len(s) \in Nat /\ k \in Int /\ \A i \in 1 .. Len(s) : s[i] \in S
  BY LenProperties, ElementOfSeq
<1>2. /\ before \in Seq(S) /\ Len(before) = k - 1
      /\ \A i \in 1 .. k - 1 : before[i] = s[i]
  <2>1. /\ before \in Seq(S) /\ Len(before) = IF 1 <= k - 1 THEN (k - 1) - 1 + 1 ELSE 0
        /\ \A i \in 1 .. (k - 1) - 1 + 1 : before[i] = s[1 + i - 1]
    <3>1. \A i \in 1 .. k - 1 : s[i] \in S
      BY <1>1
    <3>2. 1 \in Int /\ k - 1 \in Int
      BY <1>1
    <3> HIDE DEF before
    <3> QED
      BY <3>1, <3>2, SubSeqProperties DEF before
  <2> QED
    BY <1>1, <2>1
<1>3. /\ after \in Seq(S) /\ Len(after) = Len(s) - k
      /\ \A i \in 1 .. Len(s) - k : after[i] = s[k + i]
  <2>1. /\ after \in Seq(S) /\ Len(after) = IF k + 1 <= Len(s) THEN Len(s) - (k + 1) + 1 ELSE 0
        /\ \A i \in 1 .. Len(s) - (k + 1) + 1 : after[i] = s[k + 1 + i - 1]
    <3>1. \A i \in k + 1 .. Len(s) : s[i] \in S
      BY <1>1
    <3>2. k + 1 \in Int /\ Len(s) \in Int
      BY <1>1
    <3> QED
      BY <3>1, <3>2, SubSeqProperties
  <2> QED
    BY <1>1, <2>1
<1>4. /\ before \o after \in Seq(S) /\ Len(before \o after) = Len(before) + Len(after)
      /\ \A i \in 1 .. Len(before) + Len(after) :
           (before \o after)[i] = IF i <= Len(before) THEN before[i] ELSE after[i - Len(before)]
  BY <1>2, <1>3, ConcatProperties
<1>5. RemoveAt(s, k) = before \o after
  BY DEF RemoveAt
<1> HIDE DEF before, after
<1>6. Len(before) + Len(after) = Len(s) - 1
  BY <1>1, <1>2, <1>3
<1>7. ASSUME NEW i \in 1 .. Len(s) - 1
      PROVE  (before \o after)[i] = IF i < k THEN s[i] ELSE s[i + 1]
  <2>1. (before \o after)[i] = IF i <= Len(before) THEN before[i] ELSE after[i - Len(before)]
    BY <1>4, <1>6
  <2>2. CASE i < k
    <3>1. i \in 1 .. k - 1 /\ i <= Len(before)
      BY <1>1, <1>2, <2>2
    <3> QED
      BY <1>2, <2>1, <2>2, <3>1
  <2>3. CASE ~(i < k)
    <3>1. i - (k - 1) \in 1 .. Len(s) - k /\ ~(i <= Len(before)) /\ k + (i - (k - 1)) = i + 1
      BY <1>1, <1>2, <2>3
    <3>2. after[i - (k - 1)] = s[k + (i - (k - 1))]
      BY <1>3, <3>1
    <3> QED
      BY <1>2, <2>1, <2>3, <3>1, <3>2
  <2> QED
    BY <2>2, <2>3
<1> QED
  BY <1>4, <1>5, <1>6, <1>7

-----------------------------------------------------------------------------
(* The slots: an exchange per peer, which fit.                                *)
OnePerPeer(s) == \A i, j \in DOMAIN s : s[i].peer = s[j].peer => i = j
SlotsOK(s) == s \in Seq(Completed) /\ OnePerPeer(s)

LEMMA PeersFit ==
  ASSUME NEW s, SlotsOK(s)
  PROVE  /\ Len(s) <= Slots
         /\ \A p \in Peers : ~IsFor(p, s) => Len(s) < Slots
<1>1. Len(s) \in Nat /\ DOMAIN s = 1 .. Len(s) /\ \A i \in 1 .. Len(s) : s[i] \in Completed
  BY LenProperties, ElementOfSeq DEF SlotsOK
<1>2. IsFiniteSet(Peers) /\ Cardinality(Peers) \in Nat /\ Cardinality(Peers) <= Slots /\ Slots \in Nat
  BY LinkConstants, FS_CardinalityType
<1>3. ASSUME NEW Q \in SUBSET Peers, \A i \in 1 .. Len(s) : s[i].peer \in Q
      PROVE  Len(s) <= Cardinality(Q)
  <2> DEFINE f == [i \in 1 .. Len(s) |-> s[i].peer]
  <2>1. f \in Injection(1 .. Len(s), Q)
    BY <1>1, <1>3 DEF Injection, IsInjective, SlotsOK, OnePerPeer
  <2>2. IsFiniteSet(Q)
    BY <1>2, FS_Subset
  <2>3. Cardinality(1 .. Len(s)) <= Cardinality(Q)
    BY <2>1, <2>2, FS_Injection
  <2>4. Cardinality(1 .. Len(s)) = Len(s)
    BY <1>1, FS_Interval
  <2> QED
    BY <2>3, <2>4
<1>4. Len(s) <= Cardinality(Peers)
  BY <1>1, <1>3, CompletedAre
<1>5. ASSUME NEW p \in Peers, ~IsFor(p, s)
      PROVE  Len(s) < Slots
  <2>1. \A i \in 1 .. Len(s) : s[i].peer \in Peers \ {p}
    BY <1>1, <1>5, CompletedAre DEF IsFor
  <2>2. Len(s) <= Cardinality(Peers \ {p})
    BY <1>3, <2>1
  <2>3. Cardinality(Peers \ {p}) = Cardinality(Peers) - 1
    BY <1>2, FS_RemoveElement
  <2> QED
    BY <1>1, <1>2, <2>2, <2>3
<1> QED
  BY <1>1, <1>2, <1>4, <1>5

(* What is in the slots after a step on them.                                 *)
LEMMA AppendIs ==
  ASSUME NEW s, SlotsOK(s), NEW e \in Completed, ~IsFor(e.peer, s)
  PROVE  SlotsOK(Append(s, e)) /\ ToSet(Append(s, e)) = ToSet(s) \cup {e}
<1> DEFINE t == Append(s, e)
<1>1. Len(s) \in Nat /\ DOMAIN s = 1 .. Len(s) /\ s \in Seq(Completed)
  BY LenProperties DEF SlotsOK
<1>2. /\ t \in Seq(Completed) /\ Len(t) = Len(s) + 1
      /\ \A i \in 1 .. Len(s) : t[i] = s[i]
      /\ t[Len(s) + 1] = e
  BY <1>1, AppendProperties
<1>3. DOMAIN t = 1 .. Len(s) + 1
  BY <1>2, LenProperties
<1> HIDE DEF t
<1>4. OnePerPeer(t)
  <2> SUFFICES ASSUME NEW i \in 1 .. Len(s) + 1, NEW j \in 1 .. Len(s) + 1, t[i].peer = t[j].peer, i # j
               PROVE  FALSE
    BY <1>3 DEF OnePerPeer
  <2>1. i \in 1 .. Len(s) \/ i = Len(s) + 1
    BY <1>1
  <2>2. j \in 1 .. Len(s) \/ j = Len(s) + 1
    BY <1>1
  <2> QED
    BY <1>1, <1>2, <2>1, <2>2 DEF SlotsOK, OnePerPeer, IsFor
<1>5. ToSet(t) = ToSet(s) \cup {e}
  <2>1. ToSet(t) = {t[i] : i \in 1 .. Len(s) + 1} /\ ToSet(s) = {s[i] : i \in 1 .. Len(s)}
    BY <1>1, <1>3 DEF ToSet
  <2>2. 1 .. Len(s) + 1 = (1 .. Len(s)) \cup {Len(s) + 1}
    BY <1>1
  <2> QED
    BY <1>2, <2>1, <2>2
<1> QED
  BY <1>2, <1>4, <1>5 DEF SlotsOK, t

LEMMA TailIs ==
  ASSUME NEW s, SlotsOK(s), s # <<>>
  PROVE  /\ SlotsOK(Tail(s)) /\ Head(s) \in ToSet(s)
         /\ ToSet(Tail(s)) = {e \in ToSet(s) : e.peer # Head(s).peer}
<1> DEFINE t == Tail(s)
           h == Head(s)
<1>1. Len(s) \in Nat \ {0} /\ DOMAIN s = 1 .. Len(s) /\ s \in Seq(Completed)
  BY LenProperties, EmptySeq DEF SlotsOK
<1>2. /\ t \in Seq(Completed) /\ Len(t) = Len(s) - 1
      /\ \A i \in 1 .. Len(s) - 1 : t[i] = s[i + 1]
  BY <1>1, HeadTailProperties
<1>3. DOMAIN t = 1 .. Len(s) - 1
  BY <1>2, LenProperties
<1>4. h = s[1] /\ 1 \in 1 .. Len(s)
  BY <1>1
<1> HIDE DEF t, h
<1>5. OnePerPeer(t)
  <2> SUFFICES ASSUME NEW i \in 1 .. Len(s) - 1, NEW j \in 1 .. Len(s) - 1, t[i].peer = t[j].peer
               PROVE  i = j
    BY <1>3 DEF OnePerPeer
  <2>1. i + 1 \in DOMAIN s /\ j + 1 \in DOMAIN s /\ s[i + 1].peer = s[j + 1].peer
    BY <1>1, <1>2
  <2>2. i + 1 = j + 1
    BY <2>1 DEF SlotsOK, OnePerPeer
  <2> QED
    BY <2>2
<1>6. ASSUME NEW e \in ToSet(t)
      PROVE  e \in ToSet(s) /\ e.peer # h.peer
  <2>1. PICK i \in 1 .. Len(s) - 1 : e = t[i]
    BY <1>3 DEF ToSet
  <2>2. i + 1 \in 1 .. Len(s) /\ i + 1 # 1 /\ e = s[i + 1]
    BY <1>1, <1>2, <2>1
  <2> QED
    BY <1>1, <1>4, <2>2 DEF SlotsOK, OnePerPeer, ToSet
<1>7. ASSUME NEW e \in ToSet(s), e.peer # h.peer
      PROVE  e \in ToSet(t)
  <2>1. PICK i \in 1 .. Len(s) : e = s[i]
    BY <1>1 DEF ToSet
  <2>2. i - 1 \in 1 .. Len(s) - 1 /\ (i - 1) + 1 = i
    BY <1>1, <1>4, <1>7, <2>1
  <2>3. t[i - 1] = e
    BY <1>2, <2>1, <2>2
  <2> QED
    BY <1>3, <2>2, <2>3 DEF ToSet
<1>8. h \in ToSet(s)
  BY <1>1, <1>4 DEF ToSet
<1> QED
  BY <1>2, <1>5, <1>6, <1>7, <1>8 DEF SlotsOK, t, h

LEMMA FreedIs ==
  ASSUME NEW s, SlotsOK(s), NEW p, IsFor(p, s)
  PROVE  LET t == RemoveAt(s, Slot(p, s))
         IN SlotsOK(t) /\ ToSet(t) = {e \in ToSet(s) : e.peer # p} /\ ~IsFor(p, t)
<1> DEFINE k == Slot(p, s)
           t == RemoveAt(s, k)
<1>1. Len(s) \in Nat /\ DOMAIN s = 1 .. Len(s) /\ s \in Seq(Completed)
  BY LenProperties DEF SlotsOK
<1>2. k \in 1 .. Len(s) /\ s[k].peer = p
  BY <1>1 DEF IsFor, Slot
<1>3. /\ t \in Seq(Completed) /\ Len(t) = Len(s) - 1
      /\ \A i \in 1 .. Len(s) - 1 : t[i] = IF i < k THEN s[i] ELSE s[i + 1]
  <2> HIDE DEF k
  <2> QED
    BY <1>1, <1>2, RemoveAtIs
<1>4. DOMAIN t = 1 .. Len(s) - 1
  BY <1>3, LenProperties
<1> HIDE DEF t, k
<1>5. ASSUME NEW i \in 1 .. Len(s) - 1
      PROVE  \E n \in (1 .. Len(s)) \ {k} : t[i] = s[n] /\ n = IF i < k THEN i ELSE i + 1
  BY <1>1, <1>2, <1>3
<1>6. OnePerPeer(t)
  <2> SUFFICES ASSUME NEW i \in 1 .. Len(s) - 1, NEW j \in 1 .. Len(s) - 1, t[i].peer = t[j].peer
               PROVE  i = j
    BY <1>4 DEF OnePerPeer
  <2>1. PICK n \in (1 .. Len(s)) \ {k} : t[i] = s[n] /\ n = IF i < k THEN i ELSE i + 1
    BY <1>5
  <2>2. PICK m \in (1 .. Len(s)) \ {k} : t[j] = s[m] /\ m = IF j < k THEN j ELSE j + 1
    BY <1>5
  <2>3. n = m
    BY <1>1, <2>1, <2>2 DEF SlotsOK, OnePerPeer
  <2> QED
    BY <1>2, <2>1, <2>2, <2>3
<1>7. ASSUME NEW e \in ToSet(t)
      PROVE  e \in ToSet(s) /\ e.peer # p
  <2>1. PICK i \in 1 .. Len(s) - 1 : e = t[i]
    BY <1>4 DEF ToSet
  <2>2. PICK n \in (1 .. Len(s)) \ {k} : e = s[n]
    BY <1>5, <2>1
  <2> QED
    BY <1>1, <1>2, <2>2 DEF SlotsOK, OnePerPeer, ToSet
<1>8. ASSUME NEW e \in ToSet(s), e.peer # p
      PROVE  e \in ToSet(t)
  <2>1. PICK n \in 1 .. Len(s) : e = s[n]
    BY <1>1 DEF ToSet
  <2>2. n # k
    BY <1>2, <1>8, <2>1
  <2>3. CASE n < k
    <3>1. n \in 1 .. Len(s) - 1 /\ t[n] = e
      BY <1>1, <1>2, <1>3, <2>1, <2>3
    <3> QED
      BY <1>4, <3>1 DEF ToSet
  <2>4. CASE n > k
    <3>1. n - 1 \in 1 .. Len(s) - 1 /\ ~(n - 1 < k) /\ (n - 1) + 1 = n
      BY <1>1, <1>2, <2>4
    <3>2. t[n - 1] = e
      BY <1>3, <2>1, <3>1
    <3> QED
      BY <1>4, <3>1, <3>2 DEF ToSet
  <2> QED
    BY <1>2, <2>2, <2>3, <2>4
<1>9. ~IsFor(p, t)
  BY <1>7 DEF IsFor, ToSet
<1> QED
  BY <1>3, <1>6, <1>7, <1>8, <1>9 DEF SlotsOK, t, k

(* A new exchange displaces what was there of its peer and nothing else.       *)
LEMMA PushIs ==
  ASSUME NEW s, SlotsOK(s), NEW e \in Completed
  PROVE  SlotsOK(Push(s, e)) /\ ToSet(Push(s, e)) = {x \in ToSet(s) : x.peer # e.peer} \cup {e}
<1>1. CASE IsFor(e.peer, s)
  <2> DEFINE t == RemoveAt(s, Slot(e.peer, s))
  <2>1. SlotsOK(t) /\ ToSet(t) = {x \in ToSet(s) : x.peer # e.peer} /\ ~IsFor(e.peer, t)
    BY <1>1, FreedIs
  <2>2. Push(s, e) = Append(t, e)
    BY <1>1 DEF Push
  <2> HIDE DEF t
  <2> QED
    BY <2>1, <2>2, AppendIs
<1>2. CASE ~IsFor(e.peer, s)
  <2>1. Len(s) < Slots /\ Len(s) \in Nat
    BY <1>2, PeersFit, CompletedAre, LenProperties DEF SlotsOK
  <2>2. Push(s, e) = Append(s, e)
    BY <1>2, <2>1, LinkConstants DEF Push
  <2>3. \A x \in ToSet(s) : x.peer # e.peer
    BY <1>2 DEF IsFor, ToSet
  <2> QED
    BY <1>2, <2>2, <2>3, AppendIs
<1> QED
  BY <1>1, <1>2

-----------------------------------------------------------------------------
(* The inductive invariant.                                                  *)
(* Types, with the exchanges in the slots and the others where they belong.     *)
LinkShapes ==
  /\ SlotsOK(slots) /\ signal \in BOOLEAN
  /\ control \in Seq({Control}) /\ Len(control) <= Capacity
  /\ diagnostics \in Seq({Diagnostic}) /\ Len(diagnostics) <= Capacity
  /\ task \in {Closed, Choosing, Selecting, AwaitingSignal} \cup {Writing(e) : e \in Events}
  /\ unsent \subseteq {Control, Diagnostic} /\ Cardinality(unsent) <= 1
  /\ waited \in [control : Nat, diagnostic : Nat]
  /\ passed \in Nat /\ plugged \in BOOLEAN /\ connected = (task # Closed) /\ configs \in 0 .. 2
  /\ made \in [Peers -> Nat] /\ cleared \in [Peers -> Nat] /\ got \in [Peers -> Nat]
  /\ counts \in [{"control", "diagnostic", "unplug", "config"} -> Nat]

(* The exchanges with a peer are ordered: the host had the older, one newer may   *)
(* be on its way, one newer still in the slot, and none is newer than the last     *)
(* that was made.                                                           *)
InOrder ==
  /\ \A p \in Peers : got[p] <= made[p]
  /\ \A e \in ToSet(slots) : got[e.peer] < e.number /\ e.number <= made[e.peer]
  /\ \A p \in Peers : InFlight(p) =>
       /\ got[p] < task.event.number /\ task.event.number <= made[p]
       /\ \A e \in ToSet(slots) : e.peer = p => task.event.number < e.number

(* What passed a control event was counted as passing it, and nothing has passed  *)
(* one when the task sleeps.                                                   *)
Turn ==
  /\ passed <= BeforeControl /\ passed <= waited.control
  /\ control = <<>> => passed = 0
  /\ task \in {Selecting, AwaitingSignal} => passed = 0

(* LatestIsKept, of what is in the slots.                                     *)
LinkKept ==
  \A p \in Peers : made[p] > cleared[p] =>
    \/ got[p] = made[p]
    \/ InFlight(p) /\ task.event.number = made[p]
    \/ Measurement(p, made[p]) \in ToSet(slots)

LinkInductive == LinkShapes /\ InOrder /\ Turn /\ LinkKept

LEMMA TasksAre ==
  /\ Closed.at = "closed" /\ Choosing.at = "choosing" /\ Selecting.at = "selecting"
  /\ AwaitingSignal.at = "awaiting_signal"
  /\ \A e : Writing(e).at = "writing" /\ Writing(e).event = e
BY DEF Closed, Choosing, Selecting, AwaitingSignal, Writing

(* A full queue keeps what it has.                                            *)
LEMMA TrySendIs ==
  ASSUME NEW e, NEW q \in Seq({e}), Len(q) <= Capacity
  PROVE  /\ TrySend(q, e) \in Seq({e}) /\ Len(TrySend(q, e)) <= Capacity
         /\ TrySend(q, e) = <<>> => q = <<>>
<1>1. Len(q) \in Nat /\ Capacity \in Nat
  BY LenProperties, LinkConstants
<1>2. CASE Len(q) < Capacity
  <2>1. Append(q, e) \in Seq({e}) /\ Append(q, e) # <<>> /\ Len(Append(q, e)) = Len(q) + 1
    BY AppendProperties
  <2> QED
    BY <1>1, <1>2, <2>1 DEF TrySend
<1>3. CASE ~(Len(q) < Capacity)
  BY <1>3 DEF TrySend
<1> QED
  BY <1>2, <1>3

LEMMA TakesOne ==
  ASSUME NEW e, NEW q \in Seq({e}), Len(q) <= Capacity, q # <<>>
  PROVE  Tail(q) \in Seq({e}) /\ Len(Tail(q)) <= Capacity
<1>1. Tail(q) \in Seq({e}) /\ Len(Tail(q)) = Len(q) - 1 /\ Len(q) \in Nat
  BY HeadTailProperties, LenProperties
<1> QED
  BY <1>1, LinkConstants

(* The slots after an exchange comes in, or is put back.                       *)
LEMMA SlotsAre ==
  ASSUME LinkInductive
  PROVE  /\ ToSet(slots) \subseteq Completed
         /\ \A e \in ToSet(slots), f \in ToSet(slots) : e.peer = f.peer => e = f
<1>1. DOMAIN slots = 1 .. Len(slots) /\ \A i \in 1 .. Len(slots) : slots[i] \in Completed
  BY LenProperties, ElementOfSeq DEF LinkInductive, LinkShapes, SlotsOK
<1>2. ToSet(slots) \subseteq Completed
  BY <1>1 DEF ToSet
<1>3. ASSUME NEW e \in ToSet(slots), NEW f \in ToSet(slots), e.peer = f.peer
      PROVE  e = f
  <2>1. PICK i \in 1 .. Len(slots) : e = slots[i]
    BY <1>1 DEF ToSet
  <2>2. PICK j \in 1 .. Len(slots) : f = slots[j]
    BY <1>1 DEF ToSet
  <2>3. i = j
    BY <1>1, <1>3, <2>1, <2>2 DEF LinkInductive, LinkShapes, SlotsOK, OnePerPeer
  <2> QED
    BY <2>1, <2>2, <2>3
<1> QED
  BY <1>2, <1>3

LEMMA EmptySlots ==
  SlotsOK(<<>>) /\ ToSet(<<>>) = {}
BY EmptySeq DEF SlotsOK, OnePerPeer, ToSet

-----------------------------------------------------------------------------
(* The radio task.                                                           *)
LEMMA MeasuresKeeps ==
  ASSUME LinkInductive, NEW p \in Peers, Measures(p)
  PROVE  LinkInductive'
<1> DEFINE n == made[p] + 1
           e == Measurement(p, n)
<1>1. /\ SlotsOK(slots) /\ made \in [Peers -> Nat] /\ made[p] \in Nat /\ MaxExchanges[p] \in Nat
      /\ got \in [Peers -> Nat] /\ cleared \in [Peers -> Nat]
  BY LinkConstants DEF LinkInductive, LinkShapes
<1>2. made' = [made EXCEPT ![p] = n] /\ slots' = Push(slots, e) /\ signal' = TRUE
      /\ UNCHANGED <<control, diagnostics, transmitter, plugged, configs, cleared, got, counts>>
      /\ n <= MaxExchanges[p] /\ n \in Nat /\ n > made[p]
  BY <1>1 DEF Measures
<1>3. e \in Completed /\ e.peer = p /\ e.number = n
  BY <1>1, <1>2, CompletedAre
<1>4. SlotsOK(slots') /\ ToSet(slots') = {x \in ToSet(slots) : x.peer # p} \cup {e}
  BY <1>1, <1>2, <1>3, PushIs
<1>5. made' \in [Peers -> Nat] /\ made'[p] = n /\ \A q \in Peers \ {p} : made'[q] = made[q]
  BY <1>1, <1>2
<1>6. ToSet(slots) \subseteq Completed /\ \A x \in ToSet(slots) : x.peer \in Peers /\ x.number \in Nat
  BY SlotsAre, CompletedAre
<1> HIDE DEF n, e
<1>7. \A q \in Peers : InFlight(q)' = InFlight(q)
  BY <1>2 DEF InFlight, transmitter
<1>8. task' = task /\ (UNCHANGED <<got, cleared>>)
  BY <1>2 DEF transmitter
<1>9. \A q \in Peers : InFlight(q) => task.event.number \in Nat
  <2> SUFFICES ASSUME NEW q \in Peers, InFlight(q) PROVE task.event.number \in Nat
    OBVIOUS
  <2>1. PICK x \in Events : task = Writing(x)
    BY TasksAre DEF LinkInductive, LinkShapes, InFlight
  <2>2. task.event \in Completed
    BY <2>1, TasksAre DEF InFlight, Completed
  <2> QED
    BY <2>2, CompletedAre
<1>10. LinkShapes'
  BY <1>2, <1>4, <1>5 DEF LinkInductive, LinkShapes, transmitter
<1>11. InOrder'
  <2>1. \A q \in Peers : got[q] <= made[q] /\ got[q] \in Nat /\ made[q] \in Nat
    BY <1>1 DEF LinkInductive, InOrder
  <2>2. \A q \in Peers : got'[q] <= made'[q]
    BY <1>1, <1>2, <1>5, <1>8, <2>1
  <2>3. \A x \in ToSet(slots') : got'[x.peer] < x.number /\ x.number <= made'[x.peer]
    <3> SUFFICES ASSUME NEW x \in ToSet(slots')
                 PROVE  got[x.peer] < x.number /\ x.number <= made'[x.peer]
      BY <1>8
    <3>1. CASE x = e
      BY <1>2, <1>3, <1>5, <2>1, <3>1
    <3>2. CASE x \in ToSet(slots) /\ x.peer # p
      BY <1>5, <1>6, <3>2 DEF LinkInductive, InOrder
    <3> QED
      BY <1>4, <3>1, <3>2
  <2>4. ASSUME NEW q \in Peers, InFlight(q)
        PROVE  /\ got[q] < task.event.number /\ task.event.number <= made'[q]
               /\ \A x \in ToSet(slots') : x.peer = q => task.event.number < x.number
    <3>1. /\ got[q] < task.event.number /\ task.event.number <= made[q]
          /\ \A x \in ToSet(slots) : x.peer = q => task.event.number < x.number
      BY <2>4 DEF LinkInductive, InOrder
    <3> QED
      BY <1>2, <1>3, <1>4, <1>5, <1>9, <2>1, <2>4, <3>1
  <2> QED
    BY <1>7, <1>8, <2>2, <2>3, <2>4 DEF InOrder
<1>12. Turn'
  BY <1>2 DEF LinkInductive, Turn, transmitter
<1>13. LinkKept'
  <2> SUFFICES ASSUME NEW q \in Peers, made'[q] > cleared[q]
               PROVE  \/ got[q] = made'[q]
                      \/ InFlight(q) /\ task.event.number = made'[q]
                      \/ Measurement(q, made'[q]) \in ToSet(slots')
    BY <1>7, <1>8 DEF LinkKept
  <2>1. CASE q = p
    BY <1>4, <1>5, <2>1 DEF e
  <2>2. CASE q # p
    BY <1>4, <1>5, <2>2, CompletedAre DEF LinkInductive, LinkKept
  <2> QED
    BY <2>1, <2>2
<1> QED
  BY <1>10, <1>11, <1>12, <1>13 DEF LinkInductive

(* What neither makes, moves nor delivers an exchange leaves them in order.     *)
LEMMA ExchangesRest ==
  ASSUME LinkInductive, UNCHANGED <<slots, made, cleared, got>>,
         \A p \in Peers : InFlight(p)' = InFlight(p) /\ (InFlight(p) => task'.event = task.event)
  PROVE  InOrder' /\ LinkKept'
BY DEF LinkInductive, InOrder, LinkKept

LEMMA QueuesKeep ==
  ASSUME LinkInductive,
         \/ PublishesControl \/ PublishesDiagnostic \/ RoutesConfiguration \/ Unplugs \/ Plugs
  PROVE  LinkInductive'
<1>1. UNCHANGED <<slots, made, cleared, got, transmitter, signal>>
  BY DEF PublishesControl, PublishesDiagnostic, RoutesConfiguration, Unplugs, Plugs, queues
<1>2. InOrder' /\ LinkKept'
  BY <1>1, ExchangesRest DEF transmitter, InFlight
<1>3. /\ control' \in Seq({Control}) /\ Len(control') <= Capacity
      /\ control' = <<>> => control = <<>>
  <2>1. control \in Seq({Control}) /\ Len(control) <= Capacity
    BY DEF LinkInductive, LinkShapes
  <2>2. control' = TrySend(control, Control) \/ control' = control
    BY DEF PublishesControl, PublishesDiagnostic, RoutesConfiguration, Unplugs, Plugs, queues
  <2> QED
    BY <2>1, <2>2, TrySendIs
<1>4. diagnostics' \in Seq({Diagnostic}) /\ Len(diagnostics') <= Capacity
  <2>1. diagnostics \in Seq({Diagnostic}) /\ Len(diagnostics) <= Capacity
    BY DEF LinkInductive, LinkShapes
  <2>2. diagnostics' = TrySend(diagnostics, Diagnostic) \/ diagnostics' = diagnostics
    BY DEF PublishesControl, PublishesDiagnostic, RoutesConfiguration, Unplugs, Plugs, queues
  <2> QED
    BY <2>1, <2>2, TrySendIs
<1>5. counts' \in [{"control", "diagnostic", "unplug", "config"} -> Nat]
  <2>1. \/ counts' = counts
        \/ \E kind \in {"control", "diagnostic", "unplug", "config"} :
             counts' = [counts EXCEPT ![kind] = @ + 1]
    BY DEF PublishesControl, PublishesDiagnostic, RoutesConfiguration, Unplugs, Plugs, Counted
  <2>2. counts \in [{"control", "diagnostic", "unplug", "config"} -> Nat]
    BY DEF LinkInductive, LinkShapes
  <2>3. ASSUME NEW kind \in {"control", "diagnostic", "unplug", "config"},
               counts' = [counts EXCEPT ![kind] = @ + 1]
        PROVE  counts' \in [{"control", "diagnostic", "unplug", "config"} -> Nat]
    BY <2>2, <2>3
  <2> QED
    BY <2>1, <2>2, <2>3
<1>6. configs' \in 0 .. 2 /\ plugged' \in BOOLEAN
  <2>1. configs \in 0 .. 2 /\ plugged \in BOOLEAN
    BY DEF LinkInductive, LinkShapes
  <2>2. configs' = configs \/ (configs < 2 /\ configs' = configs + 1)
    BY DEF PublishesControl, PublishesDiagnostic, RoutesConfiguration, Unplugs, Plugs
  <2>3. plugged' \in BOOLEAN
    BY <2>1 DEF PublishesControl, PublishesDiagnostic, RoutesConfiguration, Unplugs, Plugs
  <2> QED
    BY <2>1, <2>2, <2>3
<1>7. LinkShapes'
  BY <1>1, <1>3, <1>4, <1>5, <1>6 DEF LinkInductive, LinkShapes, transmitter
<1>8. Turn'
  BY <1>1, <1>3 DEF LinkInductive, Turn, transmitter
<1> QED
  BY <1>2, <1>7, <1>8 DEF LinkInductive

(* A new configuration discards the exchanges of the old one.                  *)
LEMMA ConfiguresKeeps ==
  ASSUME LinkInductive, Configures
  PROVE  LinkInductive'
<1>1. /\ slots' = <<>> /\ cleared' = made /\ control' = TrySend(control, Control)
      /\ configs' = configs - 1 /\ configs > 0
      /\ UNCHANGED <<signal, diagnostics, transmitter, plugged, made, got, counts>>
  BY DEF Configures
<1>2. /\ control' \in Seq({Control}) /\ Len(control') <= Capacity
      /\ control' = <<>> => control = <<>>
  BY <1>1, TrySendIs DEF LinkInductive, LinkShapes
<1>3. SlotsOK(slots') /\ ToSet(slots') = {}
  BY <1>1, EmptySlots
<1>4. LinkShapes'
  BY <1>1, <1>2, <1>3 DEF LinkInductive, LinkShapes, transmitter
<1>5. InOrder'
  BY <1>1, <1>3 DEF LinkInductive, InOrder, InFlight, transmitter
<1>6. Turn'
  BY <1>1, <1>2 DEF LinkInductive, Turn, transmitter
<1>7. LinkKept'
  BY <1>1 DEF LinkInductive, LinkShapes, LinkKept
<1> QED
  BY <1>4, <1>5, <1>6, <1>7 DEF LinkInductive

-----------------------------------------------------------------------------
(* The transmit task.                                                        *)
LEMMA ConnectsKeeps ==
  ASSUME LinkInductive, Connects
  PROVE  LinkInductive'
<1>1. /\ task = Closed /\ task' = Choosing /\ connected' = TRUE
      /\ UNCHANGED <<queues, unsent, waited, passed, plugged, configs, made, cleared, got, counts>>
  BY DEF Connects
<1>2. InOrder' /\ LinkKept'
  BY <1>1, ExchangesRest, TasksAre DEF queues, InFlight
<1>3. LinkShapes'
  BY <1>1, TasksAre DEF LinkInductive, LinkShapes, queues
<1>4. Turn'
  <2>1. task' \notin {Selecting, AwaitingSignal}
    BY <1>1, TasksAre
  <2> QED
    BY <1>1, <2>1 DEF LinkInductive, Turn, queues
<1> QED
  BY <1>2, <1>3, <1>4 DEF LinkInductive

(* The oldest exchange goes on its way.                                       *)
LEMMA MeasurementTaken ==
  ASSUME LinkInductive, TakesMeasurement, task.at # "writing", task # Closed,
         control = <<>> \/ waited.control < BeforeControl \/ passed = 0,
         signal' \in BOOLEAN,
         UNCHANGED <<unsent, connected, plugged, configs, made, cleared, got, counts>>
  PROVE  LinkInductive'
<1> DEFINE h == Head(slots)
<1>1. /\ slots # <<>> /\ slots' = Tail(slots) /\ task' = Writing(h)
      /\ waited' = Selected(h) /\ passed' = IF control = <<>> THEN 0 ELSE passed + 1
      /\ UNCHANGED <<control, diagnostics>>
  BY DEF TakesMeasurement
<1>2. /\ SlotsOK(slots') /\ h \in ToSet(slots)
      /\ ToSet(slots') = {e \in ToSet(slots) : e.peer # h.peer}
  BY <1>1, TailIs DEF LinkInductive, LinkShapes
<1>3. h \in Completed /\ h.peer \in Peers /\ h.number \in Nat /\ h.type = "measurement"
  BY <1>2, SlotsAre, CompletedAre
<1> HIDE DEF h
<1>4. /\ waited' \in [control : Nat, diagnostic : Nat] /\ waited'.control = waited.control + 1
  BY <1>1, <1>3 DEF Selected, LinkInductive, LinkShapes
<1>5. \A p \in Peers : ~InFlight(p)
  BY DEF InFlight
<1>6. task'.at = "writing" /\ task'.event = h /\ task' # Closed /\ task' \notin {Selecting, AwaitingSignal}
      /\ \A p \in Peers : InFlight(p)' => p = h.peer
  BY <1>1, TasksAre DEF InFlight
<1>7. LinkShapes'
  BY <1>1, <1>2, <1>3, <1>4, <1>6, EventsAre DEF LinkInductive, LinkShapes
<1>8. InOrder'
  <2>1. \A e \in ToSet(slots) : got[e.peer] < e.number /\ e.number <= made[e.peer]
    BY DEF LinkInductive, InOrder
  <2> QED
    BY <1>2, <1>3, <1>6, <2>1 DEF LinkInductive, InOrder
<1>9. Turn'
  <2>1. passed \in Nat /\ waited.control \in Nat /\ BeforeControl \in Nat
        /\ passed <= BeforeControl /\ passed <= waited.control
    BY LinkConstants DEF LinkInductive, LinkShapes, Turn
  <2>2. CASE control = <<>>
    <3>1. passed' = 0 /\ waited'.control = waited.control + 1
      BY <1>1, <1>4, <2>2
    <3> QED
      BY <1>6, <2>1, <3>1 DEF Turn
  <2>3. CASE control # <<>>
    <3>1. passed' = passed + 1 /\ waited'.control = waited.control + 1 /\ control' # <<>>
      BY <1>1, <1>4, <2>3
    <3>2. passed + 1 <= BeforeControl
      BY <2>1, <2>3, LinkConstants
    <3> QED
      BY <1>6, <2>1, <3>1, <3>2 DEF Turn
  <2> QED
    BY <2>2, <2>3
<1>10. LinkKept'
  <2> SUFFICES ASSUME NEW p \in Peers, made[p] > cleared[p]
               PROVE  \/ got[p] = made[p]
                      \/ InFlight(p)' /\ task'.event.number = made[p]
                      \/ Measurement(p, made[p]) \in ToSet(slots')
    BY DEF LinkKept
  <2>1. got[p] = made[p] \/ Measurement(p, made[p]) \in ToSet(slots)
    BY <1>5 DEF LinkInductive, LinkKept
  <2>2. CASE Measurement(p, made[p]) \in ToSet(slots) /\ p = h.peer
    <3>1. Measurement(p, made[p]) = h
      BY <1>2, <2>2, SlotsAre, CompletedAre
    <3>2. h.number = made[p]
      BY <3>1, CompletedAre
    <3>3. InFlight(p)'
      BY <1>3, <1>6, <2>2 DEF InFlight
    <3> QED
      BY <1>6, <3>2, <3>3
  <2>3. CASE Measurement(p, made[p]) \in ToSet(slots) /\ p # h.peer
    BY <1>2, <2>3, CompletedAre
  <2> QED
    BY <2>1, <2>2, <2>3
<1> QED
  BY <1>7, <1>8, <1>9, <1>10 DEF LinkInductive

(* A control event, or a diagnostic, goes on its way.                          *)
LEMMA OtherTaken ==
  ASSUME LinkInductive, TakesControl \/ TakesDiagnostic, task.at # "writing", task # Closed,
         UNCHANGED <<signal, unsent, connected, plugged, configs, made, cleared, got, counts>>
  PROVE  LinkInductive'
<1>1. PICK e \in {Control, Diagnostic} : task' = Writing(e) /\ waited' = Selected(e)
  BY DEF TakesControl, TakesDiagnostic
<1>2. slots' = slots /\ e.type # "measurement" /\ e \in Events
  BY EventsAre DEF TakesControl, TakesDiagnostic
<1>3. task'.at = "writing" /\ task'.event = e /\ task' # Closed /\ task' \notin {Selecting, AwaitingSignal}
  BY <1>1, TasksAre
<1>4. InOrder' /\ LinkKept'
  BY <1>2, <1>3, ExchangesRest DEF InFlight
<1>5. waited' \in [control : Nat, diagnostic : Nat]
  BY <1>1, <1>2 DEF Selected, LinkInductive, LinkShapes
<1>6. CASE TakesControl
  <2>1. control # <<>> /\ control' = Tail(control) /\ passed' = 0 /\ UNCHANGED diagnostics
    BY <1>6 DEF TakesControl
  <2>2. control' \in Seq({Control}) /\ Len(control') <= Capacity
    BY <2>1, TakesOne DEF LinkInductive, LinkShapes
  <2>3. LinkShapes'
    BY <1>1, <1>2, <1>3, <1>5, <2>1, <2>2 DEF LinkInductive, LinkShapes
  <2>4. Turn'
    BY <1>5, <2>1, LinkConstants DEF Turn
  <2> QED
    BY <1>4, <2>3, <2>4 DEF LinkInductive
<1>7. CASE TakesDiagnostic
  <2>1. diagnostics # <<>> /\ diagnostics' = Tail(diagnostics) /\ UNCHANGED <<control, passed>>
        /\ waited' = Selected(Diagnostic)
    BY <1>7 DEF TakesDiagnostic
  <2>2. diagnostics' \in Seq({Diagnostic}) /\ Len(diagnostics') <= Capacity
    BY <2>1, TakesOne DEF LinkInductive, LinkShapes
  <2>3. LinkShapes'
    BY <1>1, <1>2, <1>3, <1>5, <2>1, <2>2 DEF LinkInductive, LinkShapes
  <2>4. waited'.control = waited.control
    BY <2>1, EventsAre DEF Selected, LinkInductive, LinkShapes
  <2>5. Turn'
    BY <1>3, <2>1, <2>4 DEF LinkInductive, Turn
  <2> QED
    BY <1>4, <2>3, <2>5 DEF LinkInductive
<1> QED
  BY <1>6, <1>7

(* The task goes to sleep, on the three queues or on the signal alone.         *)
LEMMA SleepKeeps ==
  ASSUME LinkInductive, task.at # "writing", task # Closed, passed = 0,
         task' \in {Selecting, AwaitingSignal}, signal' \in BOOLEAN,
         UNCHANGED <<slots, control, diagnostics, waited, passed>>,
         UNCHANGED <<unsent, connected, plugged, configs, made, cleared, got, counts>>
  PROVE  LinkInductive'
<1>1. task' # Closed /\ task'.at # "writing"
  BY TasksAre
<1>2. InOrder' /\ LinkKept'
  BY <1>1, ExchangesRest DEF InFlight
<1>3. LinkShapes'
  BY <1>1 DEF LinkInductive, LinkShapes
<1>4. Turn'
  BY DEF LinkInductive, Turn
<1> QED
  BY <1>2, <1>3, <1>4 DEF LinkInductive

LEMMA ChoosesKeeps ==
  ASSUME LinkInductive, Chooses
  PROVE  LinkInductive'
<1>1. /\ task = Choosing /\ task.at # "writing" /\ task # Closed
      /\ UNCHANGED <<signal, unsent, connected, plugged, configs, made, cleared, got, counts>>
      /\ signal \in BOOLEAN /\ waited.control \in Nat
  BY TasksAre DEF Chooses, LinkInductive, LinkShapes
<1>2. ASSUME unsent # {}, \E e \in unsent : task' = Writing(e),
             UNCHANGED <<slots, control, diagnostics, waited, passed>>
      PROVE  LinkInductive'
  <2>1. PICK e \in {Control, Diagnostic} : task' = Writing(e)
    BY <1>2 DEF LinkInductive, LinkShapes
  <2>2. e.type # "measurement" /\ e \in Events
    BY EventsAre
  <2>3. task'.at = "writing" /\ task'.event = e /\ task' # Closed
        /\ task' \notin {Selecting, AwaitingSignal}
    BY <2>1, TasksAre
  <2>4. InOrder' /\ LinkKept'
    BY <1>1, <1>2, <2>2, <2>3, ExchangesRest DEF InFlight
  <2>5. LinkShapes'
    BY <1>1, <1>2, <2>1, <2>2, <2>3 DEF LinkInductive, LinkShapes
  <2>6. Turn'
    BY <1>2, <2>3 DEF LinkInductive, Turn
  <2> QED
    BY <2>4, <2>5, <2>6 DEF LinkInductive
<1>3. ASSUME TakesMeasurement, ~ControlFirst
      PROVE  LinkInductive'
  <2>1. control = <<>> \/ waited.control < BeforeControl
    BY <1>1, <1>3, LinkConstants DEF ControlFirst
  <2> QED
    BY <1>1, <1>3, <2>1, MeasurementTaken
<1>4. ASSUME TakesControl \/ TakesDiagnostic
      PROVE  LinkInductive'
  BY <1>1, <1>4, OtherTaken
<1>5. ASSUME control = <<>>, task' = Selecting,
             UNCHANGED <<slots, control, diagnostics, waited, passed>>
      PROVE  LinkInductive'
  <2>1. passed = 0
    BY <1>5 DEF LinkInductive, Turn
  <2> QED
    BY <1>1, <1>5, <2>1, SleepKeeps
<1> QED
  BY <1>2, <1>3, <1>4, <1>5 DEF Chooses, NextEvent

LEMMA WakesKeeps ==
  ASSUME LinkInductive, Wakes
  PROVE  LinkInductive'
<1>1. /\ task \in {Selecting, AwaitingSignal} /\ task.at # "writing" /\ task # Closed
      /\ UNCHANGED <<unsent, connected, plugged, configs, made, cleared, got, counts>>
  BY TasksAre DEF Wakes
<1>2. passed = 0
  BY <1>1 DEF LinkInductive, Turn
<1>3. ASSUME TakesSignal
      PROVE  LinkInductive'
  <2>1. signal' \in BOOLEAN
    BY <1>3 DEF TakesSignal
  <2>2. CASE TakesMeasurement
    BY <1>1, <1>2, <2>1, <2>2, MeasurementTaken
  <2>3. CASE task' = AwaitingSignal /\ UNCHANGED <<slots, control, diagnostics, waited, passed>>
    BY <1>1, <1>2, <2>1, <2>3, SleepKeeps
  <2> QED
    BY <1>3, <2>2, <2>3 DEF TakesSignal
<1>4. ASSUME TakesControl \/ TakesDiagnostic, UNCHANGED signal
      PROVE  LinkInductive'
  BY <1>1, <1>4, OtherTaken
<1> QED
  BY <1>3, <1>4 DEF Wakes

(* The host has what was written: never an older exchange after a newer.        *)
LEMMA WrittenKeeps ==
  ASSUME LinkInductive, Written
  PROVE  LinkInductive'
<1>1. PICK e \in Events : task = Writing(e) /\ task.at = "writing" /\ task.event = e
  BY TasksAre DEF LinkInductive, LinkShapes, Written
<1>2. /\ task' = Choosing /\ unsent' = {} /\ task # Closed /\ task' # Closed
      /\ task'.at # "writing" /\ task' \notin {Selecting, AwaitingSignal}
      /\ got' = IF e.type = "measurement" THEN [got EXCEPT ![e.peer] = e.number] ELSE got
      /\ UNCHANGED <<queues, waited, passed, connected, plugged, configs, made, cleared, counts>>
  BY <1>1, TasksAre DEF Written
<1>3. Cardinality(unsent') <= 1
  BY <1>2, FS_EmptySet
<1>4. CASE e.type # "measurement"
  <2>1. InOrder' /\ LinkKept'
    BY <1>1, <1>2, <1>4, ExchangesRest DEF InFlight, queues
  <2>2. LinkShapes'
    BY <1>2, <1>3, <1>4 DEF LinkInductive, LinkShapes, queues
  <2>3. Turn'
    BY <1>2 DEF LinkInductive, Turn, queues
  <2> QED
    BY <2>1, <2>2, <2>3 DEF LinkInductive
<1>5. CASE e.type = "measurement"
  <2>1. e.peer \in Peers /\ e.number \in Nat /\ InFlight(e.peer)
    BY <1>1, <1>5, CompletedAre DEF Completed, InFlight
  <2>2. /\ got'[e.peer] = e.number /\ \A p \in Peers \ {e.peer} : got'[p] = got[p]
        /\ got' \in [Peers -> Nat]
    BY <1>2, <1>5, <2>1 DEF LinkInductive, LinkShapes
  <2>3. LinkShapes'
    BY <1>2, <1>3, <2>2 DEF LinkInductive, LinkShapes, queues
  <2>4. Turn'
    BY <1>2 DEF LinkInductive, Turn, queues
  <2>5. \A p \in Peers : ~InFlight(p)'
    BY <1>2 DEF InFlight
  <2>6. /\ got[e.peer] < e.number /\ e.number <= made[e.peer]
        /\ \A x \in ToSet(slots) : x.peer = e.peer => e.number < x.number
    BY <1>1, <2>1 DEF LinkInductive, InOrder
  <2>7. ToSet(slots') = ToSet(slots) /\ \A x \in ToSet(slots) : x.peer \in Peers
    BY <1>2, SlotsAre, CompletedAre DEF queues
  <2>8. InOrder'
    BY <1>2, <2>1, <2>2, <2>5, <2>6, <2>7 DEF LinkInductive, InOrder
  <2>9. LinkKept'
    <3> SUFFICES ASSUME NEW p \in Peers, made[p] > cleared[p]
                 PROVE  got'[p] = made[p] \/ Measurement(p, made[p]) \in ToSet(slots')
      BY <1>2 DEF LinkKept
    <3>1. \/ got[p] = made[p]
          \/ InFlight(p) /\ task.event.number = made[p]
          \/ Measurement(p, made[p]) \in ToSet(slots)
      BY DEF LinkInductive, LinkKept
    <3>2. CASE p = e.peer
      <4>1. made[p] \in Nat /\ got[p] \in Nat
        BY DEF LinkInductive, LinkShapes
      <4> QED
        BY <1>1, <2>1, <2>2, <2>6, <2>7, <3>1, <3>2, <4>1
    <3>3. CASE p # e.peer
      BY <1>1, <2>2, <2>7, <3>1, <3>3 DEF InFlight
    <3> QED
      BY <3>2, <3>3
  <2> QED
    BY <2>3, <2>4, <2>8, <2>9 DEF LinkInductive
<1> QED
  BY <1>4, <1>5

(* An exchange whose writing failed goes back in its slot, where a newer one of   *)
(* its peer stays; any other event stays with the task.                        *)
LEMMA WriteFailsKeeps ==
  ASSUME LinkInductive, WriteFails
  PROVE  LinkInductive'
<1>1. PICK e \in Events : task = Writing(e) /\ task.at = "writing" /\ task.event = e
  BY TasksAre DEF LinkInductive, LinkShapes, WriteFails
<1>2. /\ task' = Closed /\ connected' = FALSE
      /\ task'.at # "writing" /\ task' \notin {Selecting, AwaitingSignal}
      /\ UNCHANGED <<control, diagnostics, waited, passed, plugged, configs, made, cleared, got, counts>>
  BY TasksAre DEF WriteFails
<1>3. Turn' /\ \A p \in Peers : ~InFlight(p)'
  BY <1>2 DEF LinkInductive, Turn, InFlight
<1>4. CASE e.type # "measurement"
  <2>1. unsent' = {e} /\ UNCHANGED <<slots, signal>> /\ e \in {Control, Diagnostic}
    BY <1>1, <1>4, EventsAre DEF WriteFails, Completed
  <2>2. unsent' \subseteq {Control, Diagnostic} /\ Cardinality(unsent') <= 1
    <3>1. Cardinality({e}) = 1
      BY FS_Singleton
    <3> QED
      BY <2>1, <3>1
  <2>3. LinkShapes'
    BY <1>2, <2>1, <2>2 DEF LinkInductive, LinkShapes
  <2>4. InOrder' /\ LinkKept'
    BY <1>1, <1>2, <1>4, <2>1, ExchangesRest DEF InFlight
  <2> QED
    BY <1>3, <2>3, <2>4 DEF LinkInductive
<1>5. CASE e.type = "measurement"
  <2>1. e \in Completed /\ e.peer \in Peers /\ e.number \in Nat /\ InFlight(e.peer)
    BY <1>1, <1>5, CompletedAre DEF Completed, InFlight
  <2>2. slots' = Restore(slots, e) /\ signal' = TRUE /\ unsent' = {}
    BY <1>1, <1>5 DEF WriteFails
  <2>3. unsent' \subseteq {Control, Diagnostic} /\ Cardinality(unsent') <= 1
    BY <2>2, FS_EmptySet
  <2>4. /\ got[e.peer] < e.number /\ e.number <= made[e.peer]
        /\ \A x \in ToSet(slots) : x.peer = e.peer => e.number < x.number
    BY <1>1, <2>1 DEF LinkInductive, InOrder
  <2>5. \A x \in ToSet(slots) : x.peer \in Peers /\ x.number \in Nat
    BY SlotsAre, CompletedAre
  <2>6. SlotsOK(slots)
    BY DEF LinkInductive, LinkShapes
  <2>7. \A p \in Peers \ {e.peer} : ~InFlight(p)
    BY <1>1 DEF InFlight
  <2>8. CASE IsFor(e.peer, slots)
    <3>1. slots' = slots
      BY <2>2, <2>8 DEF Restore
    <3>2. LinkShapes' /\ InOrder'
      BY <1>2, <1>3, <2>2, <2>3, <3>1 DEF LinkInductive, LinkShapes, InOrder
    <3>3. PICK x \in ToSet(slots) : x.peer = e.peer
      BY <2>8 DEF IsFor, ToSet
    <3>4. e.number < x.number /\ x.number <= made[e.peer]
      BY <2>4, <3>3 DEF LinkInductive, InOrder
    <3>5. e.number # made[e.peer] /\ made[e.peer] \in Nat
      BY <2>1, <2>5, <3>3, <3>4 DEF LinkInductive, LinkShapes
    <3>6. LinkKept'
      BY <1>1, <1>2, <2>7, <3>1, <3>5 DEF LinkInductive, LinkKept
    <3> QED
      BY <1>3, <3>2, <3>6 DEF LinkInductive
  <2>9. CASE ~IsFor(e.peer, slots)
    <3>1. slots' = Push(slots, e)
      BY <2>2, <2>9 DEF Restore
    <3>2. SlotsOK(slots') /\ ToSet(slots') = {x \in ToSet(slots) : x.peer # e.peer} \cup {e}
      BY <2>1, <2>6, <3>1, PushIs
    <3>3. \A x \in ToSet(slots) : x.peer # e.peer
      BY <2>9 DEF IsFor, ToSet
    <3>4. LinkShapes'
      BY <1>2, <2>2, <2>3, <3>2 DEF LinkInductive, LinkShapes
    <3>5. InOrder'
      BY <1>2, <1>3, <2>4, <3>2 DEF LinkInductive, InOrder
    <3>6. ASSUME NEW p \in Peers, made[p] > cleared[p]
          PROVE  got[p] = made[p] \/ Measurement(p, made[p]) \in ToSet(slots')
      <4>1. \/ got[p] = made[p]
            \/ InFlight(p) /\ task.event.number = made[p]
            \/ Measurement(p, made[p]) \in ToSet(slots)
        BY <3>6 DEF LinkInductive, LinkKept
      <4>2. CASE InFlight(p) /\ task.event.number = made[p]
        <5>1. p = e.peer /\ e.number = made[p]
          BY <1>1, <4>2 DEF InFlight
        <5> QED
          BY <2>1, <3>2, <5>1, CompletedAre
      <4> QED
        BY <3>2, <3>3, <4>1, <4>2
    <3>7. LinkKept'
      BY <1>2, <3>6 DEF LinkKept
    <3> QED
      BY <1>3, <3>4, <3>5, <3>7 DEF LinkInductive
  <2> QED
    BY <2>8, <2>9
<1> QED
  BY <1>4, <1>5

-----------------------------------------------------------------------------
(* The invariant is inductive, and what the run checks follows from it.          *)
LEMMA InitHolds == LinkInit => LinkInductive
<1> SUFFICES ASSUME LinkInit PROVE LinkInductive
  OBVIOUS
<1>1. /\ slots = <<>> /\ signal = FALSE /\ control = <<>> /\ diagnostics = <<>>
      /\ task = Closed /\ unsent = {} /\ waited = [control |-> 0, diagnostic |-> 0]
      /\ passed = 0 /\ plugged \in BOOLEAN /\ connected = FALSE /\ configs = 0
      /\ made = [p \in Peers |-> 0] /\ cleared = [p \in Peers |-> 0] /\ got = [p \in Peers |-> 0]
      /\ counts = [control |-> 0, diagnostic |-> 0, unplug |-> 0, config |-> 0]
  BY DEF LinkInit
<1>2. SlotsOK(slots) /\ ToSet(slots) = {}
  BY <1>1, EmptySlots
<1>3. /\ control \in Seq({Control}) /\ Len(control) <= Capacity
      /\ diagnostics \in Seq({Diagnostic}) /\ Len(diagnostics) <= Capacity
  BY <1>1, EmptySeq, LinkConstants
<1>4. Cardinality(unsent) <= 1
  BY <1>1, FS_EmptySet
<1>5. LinkShapes
  <2>1. counts \in [{"control", "diagnostic", "unplug", "config"} -> Nat]
    <3>1. DOMAIN counts = {"control", "diagnostic", "unplug", "config"}
          /\ \A k \in {"control", "diagnostic", "unplug", "config"} : counts[k] = 0
          /\ counts = [key \in DOMAIN counts |-> counts[key]]
      BY <1>1
    <3> QED
      BY <3>1
  <2>2. waited \in [control : Nat, diagnostic : Nat]
    BY <1>1
  <2>3. made \in [Peers -> Nat] /\ cleared \in [Peers -> Nat] /\ got \in [Peers -> Nat]
    BY <1>1
  <2>4. /\ task \in {Closed, Choosing, Selecting, AwaitingSignal} \cup {Writing(e) : e \in Events}
        /\ connected = (task # Closed)
    <3>1. task = Closed /\ connected = FALSE
      BY <1>1
    <3>2. connected = (task # Closed)
      BY <3>1
    <3> QED
      BY <3>1, <3>2
  <2>5. unsent \subseteq {Control, Diagnostic} /\ passed \in Nat /\ configs \in 0 .. 2
    BY <1>1
  <2>6. signal \in BOOLEAN /\ plugged \in BOOLEAN
    BY <1>1
  <2> QED
    BY <1>2, <1>3, <1>4, <2>1, <2>2, <2>3, <2>4, <2>5, <2>6 DEF LinkShapes
<1>6. \A p \in Peers : ~InFlight(p)
  BY <1>1, TasksAre DEF InFlight
<1>7. InOrder
  BY <1>1, <1>2, <1>6 DEF InOrder
<1>8. Turn
  BY <1>1, LinkConstants DEF Turn
<1>9. LinkKept
  BY <1>1 DEF LinkKept
<1> QED
  BY <1>5, <1>7, <1>8, <1>9 DEF LinkInductive

LEMMA NextKeeps == LinkInductive /\ [LinkNext]_linkVars => LinkInductive'
<1> SUFFICES ASSUME LinkInductive, [LinkNext]_linkVars PROVE LinkInductive'
  OBVIOUS
<1>1. CASE UNCHANGED linkVars
  <2>1. UNCHANGED <<slots, signal, control, diagnostics, task, unsent, waited, passed, connected,
                    plugged, configs, made, cleared, got, counts>>
    BY <1>1 DEF linkVars, queues, transmitter
  <2>2. LinkShapes'
    BY <2>1 DEF LinkInductive, LinkShapes
  <2>3. InOrder' /\ LinkKept'
    BY <2>1, ExchangesRest DEF InFlight
  <2>4. Turn'
    BY <2>1 DEF LinkInductive, Turn
  <2> QED
    BY <2>2, <2>3, <2>4 DEF LinkInductive
<1>2. ASSUME NEW p \in Peers, Measures(p) PROVE LinkInductive'
  BY <1>2, MeasuresKeeps
<1>3. CASE PublishesControl \/ PublishesDiagnostic \/ RoutesConfiguration \/ Unplugs \/ Plugs
  BY <1>3, QueuesKeep
<1>4. CASE Configures
  BY <1>4, ConfiguresKeeps
<1>5. CASE Transmits
  BY <1>5, ConnectsKeeps, ChoosesKeeps, WakesKeeps, WrittenKeeps, WriteFailsKeeps DEF Transmits
<1> QED
  BY <1>1, <1>2, <1>3, <1>4, <1>5 DEF LinkNext

LEMMA InductiveImplies == LinkInductive => RadioInv
<1> SUFFICES ASSUME LinkInductive PROVE RadioInv
  OBVIOUS
<1>1. Len(slots) <= Slots
  BY PeersFit DEF LinkInductive, LinkShapes
<1>2. slots \in Seq(Events)
  BY EventsAre, SeqMonotonic DEF LinkInductive, LinkShapes, SlotsOK
<1>3. LinkTypeOK
  BY <1>1, <1>2 DEF LinkInductive, LinkShapes, LinkTypeOK
<1>4. LatestIsKept
  BY DEF LinkInductive, LinkKept, LatestIsKept, ToSet
<1>5. ControlHasItsTurn
  BY DEF LinkInductive, Turn, ControlHasItsTurn
<1> QED
  BY <1>3, <1>4, <1>5 DEF RadioInv

(* Through every failed write, reconnection and configuration the newest         *)
(* exchange with each peer is with the host, being written or in its slot, no    *)
(* more than BeforeControl exchanges pass a waiting control event, and every      *)
(* queue keeps to its capacity.                                              *)
THEOREM RadioHolds == LinkSpec => []RadioInv
<1>1. LinkInit => LinkInductive
  BY InitHolds
<1>2. LinkInductive /\ [LinkNext]_linkVars => LinkInductive'
  BY NextKeeps
<1>3. LinkInductive => RadioInv
  BY InductiveImplies
<1> QED
  BY <1>1, <1>2, <1>3, PTL DEF LinkSpec

-----------------------------------------------------------------------------
(* The fleet mode of one commander (FleetMode).                                *)

ModeTypes ==
  /\ requested \in [Drones -> Maybe] /\ calling \in [Drones -> Maybe]
  /\ commands \in [Drones -> Seq(Modes)] /\ events \in [Drones -> Seq(Modes)]
  /\ pending_fleet_mode \in [Drones -> [mode : Maybe, remaining : 0 .. Repeats]]
  /\ \A d \in Drones :
       (pending_fleet_mode[d].mode = NoMode) <=> (pending_fleet_mode[d].remaining = 0)
  /\ issued \in Seq(Modes)

(* Only the commander speaks, and nobody to it; its service queues what was given  *)
(* last.                                                                    *)
OneSpeaks ==
  /\ \A d \in Drones : d # d1 => /\ commands[d] = <<>> /\ calling[d] = NoMode
                                 /\ pending_fleet_mode[d].remaining = 0
  /\ events[d1] = <<>>
  /\ calling[d1] # NoMode => issued # <<>> /\ calling[d1] = Newest

(* What is under way was given by an operator.                                  *)
WasIssued(m) == m = NoMode \/ \E k \in DOMAIN issued : issued[k] = m
AllIssued(q) == \A i \in DOMAIN q : WasIssued(q[i])
OnlyIssued ==
  /\ \A d \in Drones : WasIssued(requested[d]) /\ AllIssued(events[d])
  /\ WasIssued(pending_fleet_mode[d1].mode) /\ AllIssued(commands[d1])

(* A mode given for the first time is behind all others, in every queue and from  *)
(* one to the next: where the newest has come nothing older follows.              *)
AllNewest(q) == \A i \in DOMAIN q : q[i] = Newest
NewestLast(q) == \A i, j \in DOMAIN q : i <= j /\ q[i] = Newest => q[j] = Newest
NewestNext == pending_fleet_mode[d1].mode \in {NoMode, Newest} /\ AllNewest(commands[d1])
NewestBehind ==
  /\ NewestLast(commands[d1])
  /\ pending_fleet_mode[d1].mode = Newest => AllNewest(commands[d1])
  /\ \A d \in Drones :
       /\ NewestLast(events[d])
       /\ (\E i \in DOMAIN events[d] : events[d][i] = Newest) => NewestNext
       /\ d # d1 /\ requested[d] = Newest => AllNewest(events[d]) /\ NewestNext

ModesKeep == ModeTypes /\ OneSpeaks /\ OnlyIssued /\ (NewestIsNew => NewestBehind)

(* A queue without its first entries, or without its last, is one whose entries   *)
(* were in it, in that order.                                                *)
LEMMA CutOf ==
  ASSUME NEW q \in Seq(Modes), NEW n \in 0 .. Len(q)
  PROVE  /\ SubSeq(q, n + 1, Len(q)) \in Seq(Modes)
         /\ Len(SubSeq(q, n + 1, Len(q))) = Len(q) - n
         /\ \A i \in DOMAIN SubSeq(q, n + 1, Len(q)) :
              i + n \in DOMAIN q /\ SubSeq(q, n + 1, Len(q))[i] = q[i + n]
         /\ SubSeq(q, 1, n) \in Seq(Modes)
         /\ \A i \in DOMAIN SubSeq(q, 1, n) : i \in DOMAIN q /\ SubSeq(q, 1, n)[i] = q[i]
<1>1. Len(q) \in Nat /\ DOMAIN q = 1 .. Len(q)
  BY LenProperties
<1>2. /\ SubSeq(q, n + 1, Len(q)) \in Seq(Modes)
      /\ Len(SubSeq(q, n + 1, Len(q))) = Len(q) - n
      /\ \A i \in 1 .. Len(q) - n : SubSeq(q, n + 1, Len(q))[i] = q[n + i]
  <2>1. n + 1 \in Int /\ Len(q) \in Int /\ \A i \in n + 1 .. Len(q) : q[i] \in Modes
    BY <1>1, LenProperties
  <2>2. /\ SubSeq(q, n + 1, Len(q)) \in Seq(Modes)
        /\ Len(SubSeq(q, n + 1, Len(q))) = IF n + 1 <= Len(q) THEN Len(q) - (n + 1) + 1 ELSE 0
        /\ \A i \in 1 .. Len(q) - (n + 1) + 1 : SubSeq(q, n + 1, Len(q))[i] = q[n + 1 + i - 1]
    BY <2>1, SubSeqProperties
  <2>3. n \in Int /\ n <= Len(q) /\ Len(q) \in Int
    BY <1>1
  <2>4. Len(q) - (n + 1) + 1 = Len(q) - n /\ (n + 1 <= Len(q) \/ Len(q) - n = 0)
    BY <2>3
  <2>5. \A i \in 1 .. Len(q) - n : n + 1 + i - 1 = n + i
    BY <2>3
  <2> QED
    BY <2>2, <2>4, <2>5
<1>3. /\ SubSeq(q, 1, n) \in Seq(Modes) /\ Len(SubSeq(q, 1, n)) = n
      /\ \A i \in 1 .. n : SubSeq(q, 1, n)[i] = q[i]
  <2>1. 1 \in Int /\ n \in Int /\ \A i \in 1 .. n : q[i] \in Modes
    BY <1>1, LenProperties
  <2>2. /\ SubSeq(q, 1, n) \in Seq(Modes)
        /\ Len(SubSeq(q, 1, n)) = IF 1 <= n THEN n - 1 + 1 ELSE 0
        /\ \A i \in 1 .. n - 1 + 1 : SubSeq(q, 1, n)[i] = q[1 + i - 1]
    BY <2>1, SubSeqProperties
  <2> QED
    BY <1>1, <2>2
<1>4. /\ DOMAIN SubSeq(q, n + 1, Len(q)) = 1 .. Len(q) - n
      /\ DOMAIN SubSeq(q, 1, n) = 1 .. n
  BY <1>2, <1>3, LenProperties
<1>5. /\ \A i \in 1 .. Len(q) - n : i + n \in 1 .. Len(q) /\ i + n = n + i
      /\ \A i \in 1 .. n : i \in 1 .. Len(q)
  BY <1>1
<1> QED
  BY <1>1, <1>2, <1>3, <1>4, <1>5

LEMMA TailOf ==
  ASSUME NEW q \in Seq(Modes), q # <<>>
  PROVE  /\ Tail(q) \in Seq(Modes) /\ Head(q) \in Modes /\ Head(q) = q[1] /\ 1 \in DOMAIN q
         /\ \A i \in DOMAIN Tail(q) : i + 1 \in DOMAIN q /\ Tail(q)[i] = q[i + 1]
BY HeadTailProperties, LenProperties

LEMMA AppendOf ==
  ASSUME NEW q \in Seq(Modes), NEW m \in Modes
  PROVE  /\ Append(q, m) \in Seq(Modes) /\ Append(q, m) # <<>>
         /\ Len(Append(q, m)) = Len(q) + 1 /\ Append(q, m)[Len(q) + 1] = m
         /\ DOMAIN q = 1 .. Len(q) /\ Len(q) \in Nat
         /\ DOMAIN Append(q, m) = 1 .. Len(q) + 1
         /\ \A i \in DOMAIN q : Append(q, m)[i] = q[i]
BY AppendProperties, LenProperties, EmptySeq

LEMMA CommanderIs == d1 \in Drones /\ Commanders = {d1} /\ NoMode \notin Modes /\ Repeats \in Nat \ {0}
BY OneCommander, FleetConstants

LEMMA ModeInitKeeps == ModeInit => ModesKeep
<1> SUFFICES ASSUME ModeInit PROVE ModesKeep
  OBVIOUS
<1>1. <<>> \in Seq(Modes) /\ DOMAIN <<>> = {} /\ Len(<<>>) = 0
  BY EmptySeq
<1>2. ModeTypes
  BY <1>1, CommanderIs DEF ModeInit, ModeTypes, Maybe, NoPending
<1>3. OneSpeaks
  BY CommanderIs DEF ModeInit, OneSpeaks, NoPending
<1>4. OnlyIssued
  BY <1>1, CommanderIs DEF ModeInit, OnlyIssued, WasIssued, AllIssued, NoPending
<1>5. ~NewestIsNew
  BY DEF ModeInit, NewestIsNew
<1> QED
  BY <1>2, <1>3, <1>4, <1>5 DEF ModesKeep

(* The part of the state the invariant is about.                               *)
underway == <<requested, calling, commands, events, pending_fleet_mode, issued>>
LEMMA UnderwayKeeps ==
  ASSUME ModesKeep, UNCHANGED underway
  PROVE  ModesKeep' /\ KeepsNewest
BY DEF underway, ModesKeep, ModeTypes, OneSpeaks, OnlyIssued, WasIssued, AllIssued, NewestIsNew,
       Newest, NewestBehind, NewestLast, AllNewest, NewestNext, KeepsNewest

(* The operator's command is the newest from now on, and it is behind all others;   *)
(* one that was given before is none the comment speaks of.                     *)
LEMMA CallKeeps ==
  ASSUME ModesKeep, NEW m \in Modes, CallService(d1, m)
  PROVE  ModesKeep'
<1>1. /\ calling' = [calling EXCEPT ![d1] = m]
      /\ commands' = IF Len(commands[d1]) < QueueDepth
                     THEN [commands EXCEPT ![d1] = Append(commands[d1], m)] ELSE commands
      /\ issued' = Append(issued, m)
      /\ UNCHANGED <<requested, events, pending_fleet_mode>>
  BY DEF CallService
<1>2. issued \in Seq(Modes) /\ commands[d1] \in Seq(Modes)
  BY CommanderIs DEF ModesKeep, ModeTypes
<1>3. /\ issued' \in Seq(Modes) /\ issued' # <<>> /\ Len(issued') = Len(issued) + 1
      /\ issued'[Len(issued) + 1] = m /\ Len(issued) \in Nat
      /\ DOMAIN issued = 1 .. Len(issued) /\ DOMAIN issued' = 1 .. Len(issued) + 1
      /\ \A i \in DOMAIN issued : issued'[i] = issued[i]
  BY <1>1, <1>2, AppendOf
<1>4. Newest' = m
  BY <1>3 DEF Newest
<1>5. /\ commands' \in [Drones -> Seq(Modes)]
      /\ \A d \in Drones : d # d1 => commands'[d] = commands[d]
  BY <1>1, <1>2, AppendOf DEF ModesKeep, ModeTypes
<1>6. /\ \A i \in DOMAIN commands'[d1] :
           \/ i \in DOMAIN commands[d1] /\ commands'[d1][i] = commands[d1][i]
           \/ i = Len(commands[d1]) + 1 /\ commands'[d1][i] = m
      /\ DOMAIN commands[d1] = 1 .. Len(commands[d1]) /\ Len(commands[d1]) \in Nat
      /\ DOMAIN commands'[d1] \subseteq 1 .. Len(commands[d1]) + 1
  <2>1. commands[d1] \in Seq(Modes)
    BY CommanderIs DEF ModesKeep, ModeTypes
  <2>2. commands'[d1] = Append(commands[d1], m) \/ commands'[d1] = commands[d1]
    BY <1>1, CommanderIs DEF ModesKeep, ModeTypes
  <2> QED
    BY <2>1, <2>2, AppendOf
<1>7. ModeTypes'
  BY <1>1, <1>3, <1>5 DEF ModesKeep, ModeTypes, Maybe
<1>8. OneSpeaks'
  BY <1>1, <1>3, <1>4, <1>5, CommanderIs DEF ModesKeep, ModeTypes, OneSpeaks
<1>9. (\A x : WasIssued(x) => WasIssued(x)') /\ WasIssued(m)'
  BY <1>3 DEF WasIssued
<1>10. OnlyIssued'
  <2>1. \A d \in Drones : WasIssued(requested[d])' /\ AllIssued(events[d])'
    BY <1>1, <1>9 DEF ModesKeep, OnlyIssued, AllIssued
  <2>2. WasIssued(pending_fleet_mode[d1].mode)'
    BY <1>1, <1>9 DEF ModesKeep, OnlyIssued
  <2>3. AllIssued(commands[d1])'
    BY <1>6, <1>9 DEF ModesKeep, OnlyIssued, AllIssued
  <2> QED
    BY <2>1, <2>2, <2>3 DEF OnlyIssued, WasIssued, AllIssued
<1>11. ASSUME NewestIsNew'
       PROVE  NewestBehind'
  <2>1. \A x : WasIssued(x) => x # m
    BY <1>3, <1>4, <1>11, CommanderIs DEF WasIssued, NewestIsNew
  <2>2. /\ \A d \in Drones : requested'[d] # m /\ \A i \in DOMAIN events'[d] : events'[d][i] # m
        /\ pending_fleet_mode'[d1].mode # m /\ \A i \in DOMAIN commands[d1] : commands[d1][i] # m
    BY <1>1, <2>1 DEF ModesKeep, OnlyIssued, AllIssued
  <2>3. NewestLast(commands[d1])'
    <3> SUFFICES ASSUME NEW i \in DOMAIN commands'[d1], NEW j \in DOMAIN commands'[d1], i <= j,
                        commands'[d1][i] = m
                 PROVE  commands'[d1][j] = m
      BY <1>4 DEF NewestLast
    <3>1. i = Len(commands[d1]) + 1
      BY <1>6, <2>2
    <3>2. j = i
      BY <1>6, <3>1
    <3> QED
      BY <3>2
  <2> QED
    BY <1>4, <2>2, <2>3 DEF NewestBehind, NewestLast
<1> QED
  BY <1>7, <1>8, <1>10, <1>11 DEF ModesKeep

(* The commander asks for what was given last.                                   *)
LEMMA ServiceKeeps ==
  ASSUME ModesKeep, NEW d \in Drones, QueueFromService(d)
  PROVE  ModesKeep' /\ KeepsNewest
<1>1. d = d1 /\ calling[d1] # NoMode /\ issued # <<>> /\ calling[d1] = Newest
  BY DEF QueueFromService, ModesKeep, OneSpeaks
<1>2. /\ calling' = [calling EXCEPT ![d1] = NoMode]
      /\ requested' = [requested EXCEPT ![d1] = Newest]
      /\ UNCHANGED <<commands, events, pending_fleet_mode, issued>>
  <2>1. requested = [requested EXCEPT ![d1] = requested[d1]]
    BY CommanderIs DEF ModesKeep, ModeTypes
  <2> QED
    BY <1>1, <2>1 DEF QueueFromService, QueueMode, radioService
<1>3. /\ requested' \in [Drones -> Maybe] /\ requested'[d1] = Newest
      /\ \A e \in Drones : e # d1 => requested'[e] = requested[e]
      /\ calling' \in [Drones -> Maybe] /\ calling'[d1] = NoMode
      /\ \A e \in Drones : e # d1 => calling'[e] = calling[e]
  <2>1. Newest \in Maybe /\ NoMode \in Maybe
    BY <1>1, CommanderIs DEF ModesKeep, ModeTypes, Maybe
  <2> QED
    BY <1>2, <2>1, CommanderIs DEF ModesKeep, ModeTypes
<1>4. ModeTypes'
  BY <1>2, <1>3 DEF ModesKeep, ModeTypes
<1>5. OneSpeaks'
  BY <1>2, <1>3 DEF ModesKeep, OneSpeaks
<1>6. OnlyIssued'
  <2>1. WasIssued(Newest)
    BY <1>1, LenProperties, EmptySeq DEF ModesKeep, ModeTypes, WasIssued, Newest
  <2> QED
    BY <1>2, <1>3, <2>1 DEF ModesKeep, OnlyIssued, WasIssued, AllIssued
<1>7. NewestIsNew' => NewestBehind'
  BY <1>2, <1>3 DEF ModesKeep, NewestIsNew, Newest, NewestBehind, NewestLast, AllNewest, NewestNext
<1>8. KeepsNewest
  BY <1>2, <1>3 DEF KeepsNewest
<1> QED
  BY <1>4, <1>5, <1>6, <1>7, <1>8 DEF ModesKeep

(* A drone takes the first event of its queue, which is the newest if it has that    *)
(* already.                                                                 *)
LEMMA ReaderOfModesKeeps ==
  ASSUME ModesKeep, NEW d \in Drones, QueueFromReader(d)
  PROVE  ModesKeep' /\ KeepsNewest
<1>1. d # d1 /\ events[d] \in Seq(Modes) /\ events[d] # <<>>
  BY DEF QueueFromReader, ModesKeep, OneSpeaks, ModeTypes
<1> DEFINE m == Head(events[d])
           q == Tail(events[d])
<1>2. /\ q \in Seq(Modes) /\ m \in Modes /\ m = events[d][1] /\ 1 \in DOMAIN events[d]
      /\ \A i \in DOMAIN q : i + 1 \in DOMAIN events[d] /\ q[i] = events[d][i + 1]
      /\ DOMAIN events[d] \subseteq Nat /\ DOMAIN q \subseteq 1 .. Len(q)
  BY <1>1, TailOf, LenProperties
<1>3. /\ events' = [events EXCEPT ![d] = q] /\ requested' = [requested EXCEPT ![d] = m]
      /\ UNCHANGED <<calling, commands, pending_fleet_mode, issued>>
  <2>1. requested = [requested EXCEPT ![d] = requested[d]]
    BY DEF ModesKeep, ModeTypes
  <2> QED
    BY <2>1 DEF QueueFromReader, QueueMode
<1> HIDE DEF m, q
<1>4. /\ requested' \in [Drones -> Maybe] /\ requested'[d] = m
      /\ \A e \in Drones : e # d => requested'[e] = requested[e]
      /\ events' \in [Drones -> Seq(Modes)] /\ events'[d] = q
      /\ \A e \in Drones : e # d => events'[e] = events[e]
  BY <1>2, <1>3 DEF ModesKeep, ModeTypes, Maybe
<1>5. ModeTypes'
  BY <1>3, <1>4 DEF ModesKeep, ModeTypes
<1>6. OneSpeaks'
  BY <1>1, <1>3, <1>4, CommanderIs DEF ModesKeep, OneSpeaks, Newest
<1>7. OnlyIssued'
  <2>1. WasIssued(m) /\ AllIssued(q)
    BY <1>2 DEF ModesKeep, OnlyIssued, AllIssued
  <2> QED
    BY <1>3, <1>4, <2>1 DEF ModesKeep, OnlyIssued, WasIssued, AllIssued
<1>8. ASSUME NewestIsNew
      PROVE  NewestBehind'
  <2>1. NewestBehind
    BY <1>8 DEF ModesKeep
  <2>2. Newest' = Newest
    BY <1>3 DEF Newest
  <2>7. /\ NewestNext => NewestNext'
        /\ NewestLast(commands[d1]) => NewestLast(commands[d1])'
    BY <1>3, <2>2 DEF NewestNext, AllNewest, NewestLast
  <2>3. NewestLast(q) /\ ((\E i \in DOMAIN q : q[i] = Newest) => NewestNext)
    BY <1>2, <2>1 DEF NewestBehind, NewestLast
  <2>4. m = Newest => AllNewest(q) /\ NewestNext
    <3> SUFFICES ASSUME m = Newest PROVE AllNewest(q) /\ NewestNext
      OBVIOUS
    <3>1. events[d][1] = Newest /\ NewestLast(events[d]) /\ NewestNext
      BY <1>2, <2>1 DEF NewestBehind
    <3>2. \A i \in DOMAIN q : 1 <= i + 1
      BY <1>2
    <3> QED
      BY <1>2, <3>1, <3>2 DEF NewestLast, AllNewest
  <2>5. ASSUME NEW e \in Drones
        PROVE  /\ NewestLast(events[e])'
               /\ (\E i \in DOMAIN events'[e] : events'[e][i] = Newest) => NewestNext
               /\ e # d1 /\ requested'[e] = Newest => AllNewest(events[e])' /\ NewestNext
    <3>1. CASE e = d
      <4>1. events'[e] = q /\ requested'[e] = m
        BY <1>4, <3>1
      <4>2. NewestLast(events[e])' /\ (AllNewest(q) => AllNewest(events[e])')
        BY <2>2, <2>3, <4>1 DEF NewestLast, AllNewest
      <4> QED
        BY <2>3, <2>4, <4>1, <4>2
    <3>2. CASE e # d
      BY <1>4, <2>1, <2>2, <3>2 DEF NewestBehind, NewestLast, AllNewest
    <3> QED
      BY <3>1, <3>2
  <2>6. (pending_fleet_mode[d1].mode = Newest => AllNewest(commands[d1]))'
    BY <1>3, <2>1 DEF NewestBehind, AllNewest, Newest
  <2> QED
    BY <2>1, <2>2, <2>5, <2>6, <2>7 DEF NewestBehind
<1>9. NewestIsNew' = NewestIsNew
  BY <1>3 DEF NewestIsNew, Newest
<1>10. KeepsNewest
  <2> SUFFICES ASSUME NEW e \in Drones, NewestIsNew, requested[e] = Newest
               PROVE  requested'[e] = Newest
    BY DEF KeepsNewest
  <2>1. e = d => m = Newest
    BY <1>1, <1>2 DEF ModesKeep, NewestBehind, AllNewest
  <2> QED
    BY <1>4, <2>1
<1> QED
  BY <1>5, <1>6, <1>7, <1>8, <1>9, <1>10 DEF ModesKeep

(* The socket loses the oldest events and the newest commands.                  *)
LEMMA DropKeeps ==
  ASSUME ModesKeep, NEW d \in Drones, Disconnect(d)
  PROVE  ModesKeep' /\ KeepsNewest
<1>1. events[d] \in Seq(Modes) /\ commands[d] \in Seq(Modes)
  BY DEF ModesKeep, ModeTypes
<1>2. PICK n \in 0 .. Len(events[d]) :
        events' = [events EXCEPT ![d] = SubSeq(events[d], n + 1, Len(events[d]))]
  BY DEF Disconnect
<1>3. PICK k \in 0 .. Len(commands[d]) :
        commands' = [commands EXCEPT ![d] = SubSeq(commands[d], 1, k)]
  BY DEF Disconnect
<1> DEFINE q == SubSeq(events[d], n + 1, Len(events[d]))
           c == SubSeq(commands[d], 1, k)
<1>4. /\ q \in Seq(Modes) /\ Len(q) = Len(events[d]) - n
      /\ \A i \in DOMAIN q : i + n \in DOMAIN events[d] /\ q[i] = events[d][i + n]
  BY <1>1, CutOf
<1>5. c \in Seq(Modes) /\ \A i \in DOMAIN c : i \in DOMAIN commands[d] /\ c[i] = commands[d][i]
  BY <1>1, CutOf
<1>6. events' = [events EXCEPT ![d] = q] /\ commands' = [commands EXCEPT ![d] = c]
  BY <1>2, <1>3
<1>7. n \in Nat /\ DOMAIN q \subseteq Nat
  BY <1>1, <1>4, LenProperties
<1> HIDE DEF q, c
<1>8. UNCHANGED <<requested, calling, pending_fleet_mode, issued>>
  BY DEF Disconnect
<1>9. /\ events' \in [Drones -> Seq(Modes)] /\ events'[d] = q
      /\ \A e \in Drones : e # d => events'[e] = events[e]
      /\ commands' \in [Drones -> Seq(Modes)] /\ commands'[d] = c
      /\ \A e \in Drones : e # d => commands'[e] = commands[e]
  BY <1>4, <1>5, <1>6 DEF ModesKeep, ModeTypes
<1>10. ModeTypes'
  BY <1>8, <1>9 DEF ModesKeep, ModeTypes
<1>11. OneSpeaks'
  <2>1. commands[d] = <<>> => c = <<>>
    <3> SUFFICES ASSUME commands[d] = <<>> PROVE c = <<>>
      OBVIOUS
    <3>1. /\ DOMAIN c = 1 .. Len(c) /\ Len(c) \in Nat
          /\ DOMAIN commands[d] = 1 .. Len(commands[d]) /\ Len(commands[d]) = 0
      BY <1>1, <1>5, EmptySeq, LenProperties
    <3>2. Len(c) = 0
      <4>1. 1 \notin DOMAIN commands[d]
        BY <3>1
      <4>2. 1 \notin DOMAIN c
        BY <1>5, <4>1
      <4> QED
        BY <3>1, <4>2
    <3> QED
      BY <1>5, <3>2, EmptySeq
  <2>2. events[d] = <<>> => q = <<>>
    <3> SUFFICES ASSUME events[d] = <<>> PROVE q = <<>>
      OBVIOUS
    <3>1. Len(events[d]) = 0 /\ Len(q) \in Nat
      BY <1>4, EmptySeq, LenProperties
    <3>2. Len(q) = 0
      BY <1>4, <1>7, <3>1
    <3> QED
      BY <1>4, <3>2, EmptySeq
  <2>3. events'[d1] = <<>>
    BY <1>9, <2>2, CommanderIs DEF ModesKeep, OneSpeaks
  <2>4. \A e \in Drones : e # d1 => commands'[e] = <<>>
    BY <1>9, <2>1 DEF ModesKeep, OneSpeaks
  <2> QED
    BY <1>8, <2>3, <2>4 DEF ModesKeep, OneSpeaks, Newest
<1>12. OnlyIssued'
  <2>1. AllIssued(events[d]) => AllIssued(q)
    BY <1>4 DEF AllIssued
  <2>2. AllIssued(commands[d]) => AllIssued(c)
    BY <1>5 DEF AllIssued
  <2>3. \A e \in Drones : AllIssued(events'[e])
    BY <1>9, <2>1 DEF ModesKeep, OnlyIssued
  <2>4. AllIssued(commands'[d1])
    BY <1>9, <2>2, CommanderIs DEF ModesKeep, OnlyIssued
  <2>5. \A m : WasIssued(m)' <=> WasIssued(m)
    BY <1>8 DEF WasIssued
  <2> QED
    BY <1>8, <2>3, <2>4, <2>5 DEF ModesKeep, OnlyIssued, AllIssued
<1>13. ASSUME NewestIsNew
       PROVE  NewestBehind'
  <2>1. NewestBehind
    BY <1>13 DEF ModesKeep
  <2>2. Newest' = Newest
    BY <1>8 DEF Newest
  <2>3. /\ NewestLast(commands[d]) => NewestLast(c)
        /\ AllNewest(commands[d]) => AllNewest(c)
    BY <1>5 DEF NewestLast, AllNewest
  <2>4. /\ NewestLast(commands'[d1]) /\ (AllNewest(commands[d1]) => AllNewest(commands'[d1]))
    BY <1>9, <2>1, <2>3, CommanderIs DEF NewestBehind
  <2>5. NewestNext => NewestNext'
    BY <1>8, <2>2, <2>4 DEF NewestNext, AllNewest
  <2>6. NewestLast(events[d]) => NewestLast(q)
    <3> SUFFICES ASSUME NewestLast(events[d]),
                        NEW i \in DOMAIN q, NEW j \in DOMAIN q, i <= j, q[i] = Newest
                 PROVE  q[j] = Newest
      BY DEF NewestLast
    <3>1. i + n <= j + n
      BY <1>7
    <3> QED
      BY <1>4, <3>1 DEF NewestLast
  <2>7. /\ AllNewest(events[d]) => AllNewest(q)
        /\ (\E i \in DOMAIN q : q[i] = Newest) => \E i \in DOMAIN events[d] : events[d][i] = Newest
    BY <1>4 DEF AllNewest
  <2>8. ASSUME NEW e \in Drones
        PROVE  /\ NewestLast(events'[e])
               /\ (\E i \in DOMAIN events'[e] : events'[e][i] = Newest) => NewestNext
               /\ e # d1 /\ requested'[e] = Newest => AllNewest(events'[e]) /\ NewestNext
    <3>1. CASE e = d
      <4>1. events'[e] = q /\ requested'[e] = requested[d]
        BY <1>8, <1>9, <3>1
      <4> QED
        BY <2>1, <2>6, <2>7, <3>1, <4>1 DEF NewestBehind
    <3>2. CASE e # d
      BY <1>8, <1>9, <2>1, <3>2 DEF NewestBehind
    <3> QED
      BY <3>1, <3>2
  <2> QED
    BY <1>8, <2>1, <2>2, <2>4, <2>5, <2>8 DEF NewestBehind, NewestLast, AllNewest
<1>14. NewestIsNew' = NewestIsNew /\ KeepsNewest
  BY <1>8 DEF NewestIsNew, Newest, KeepsNewest
<1> QED
  BY <1>10, <1>11, <1>12, <1>13, <1>14 DEF ModesKeep

(* The radio takes the first command; what was left of an older mode is gone.       *)
LEMMA HandleKeeps ==
  ASSUME ModesKeep, NEW d \in Drones, HandleCommand(d)
  PROVE  ModesKeep' /\ KeepsNewest
<1>1. d = d1 /\ commands[d1] \in Seq(Modes) /\ commands[d1] # <<>>
  BY CommanderIs DEF HandleCommand, ModesKeep, OneSpeaks, ModeTypes
<1> DEFINE m == Head(commands[d1])
           c == Tail(commands[d1])
<1>2. /\ c \in Seq(Modes) /\ m \in Modes /\ m = commands[d1][1] /\ 1 \in DOMAIN commands[d1]
      /\ \A i \in DOMAIN c : i + 1 \in DOMAIN commands[d1] /\ c[i] = commands[d1][i + 1]
      /\ DOMAIN commands[d1] \subseteq Nat /\ DOMAIN c \subseteq Nat
  BY <1>1, TailOf, LenProperties
<1>3. /\ pending_fleet_mode' =
           [pending_fleet_mode EXCEPT ![d1] = [mode |-> m, remaining |-> Repeats]]
      /\ commands' = [commands EXCEPT ![d1] = c]
      /\ UNCHANGED <<requested, calling, events, issued>>
  BY <1>1 DEF HandleCommand, gateway
<1> HIDE DEF m, c
<1>4. /\ commands' \in [Drones -> Seq(Modes)] /\ commands'[d1] = c
      /\ \A e \in Drones : e # d1 => commands'[e] = commands[e]
      /\ pending_fleet_mode' \in [Drones -> [mode : Maybe, remaining : 0 .. Repeats]]
      /\ pending_fleet_mode'[d1] = [mode |-> m, remaining |-> Repeats]
      /\ \A e \in Drones : e # d1 => pending_fleet_mode'[e] = pending_fleet_mode[e]
  <2>1. [mode |-> m, remaining |-> Repeats] \in [mode : Maybe, remaining : 0 .. Repeats]
    BY <1>2, CommanderIs DEF Maybe
  <2> QED
    BY <1>2, <1>3, <2>1, CommanderIs DEF ModesKeep, ModeTypes
<1>5. pending_fleet_mode'[d1].mode = m /\ pending_fleet_mode'[d1].remaining = Repeats
  BY <1>4
<1>6. ModeTypes'
  <2>1. \A e \in Drones :
          (pending_fleet_mode'[e].mode = NoMode) <=> (pending_fleet_mode'[e].remaining = 0)
    <3>1. Repeats # 0 /\ m # NoMode
      BY <1>2, CommanderIs
    <3> QED
      BY <1>4, <1>5, <3>1 DEF ModesKeep, ModeTypes
  <2> QED
    BY <1>3, <1>4, <2>1 DEF ModesKeep, ModeTypes
<1>7. OneSpeaks'
  BY <1>3, <1>4 DEF ModesKeep, OneSpeaks, Newest
<1>8. OnlyIssued'
  <2>1. WasIssued(m) /\ AllIssued(c)
    BY <1>2 DEF ModesKeep, OnlyIssued, AllIssued
  <2> QED
    BY <1>3, <1>4, <1>5, <2>1 DEF ModesKeep, OnlyIssued, WasIssued, AllIssued
<1>9. ASSUME NewestIsNew
      PROVE  NewestBehind'
  <2>1. NewestBehind
    BY <1>9 DEF ModesKeep
  <2>2. Newest' = Newest
    BY <1>3 DEF Newest
  <2>3. NewestLast(c) /\ (m = Newest => AllNewest(c))
    <3>1. \A i \in DOMAIN c : 1 <= i + 1
      BY <1>2
    <3>2. m = Newest => AllNewest(c)
      BY <1>2, <2>1, <3>1 DEF NewestBehind, NewestLast, AllNewest
    <3>3. NewestLast(c)
      BY <1>2, <2>1 DEF NewestBehind, NewestLast
    <3> QED
      BY <3>2, <3>3
  <2>4. NewestNext => NewestNext'
    <3> SUFFICES ASSUME NewestNext PROVE NewestNext'
      OBVIOUS
    <3>1. m = Newest
      BY <1>2 DEF NewestNext, AllNewest
    <3> QED
      BY <1>4, <1>5, <2>2, <2>3, <3>1 DEF NewestNext, AllNewest
  <2>5. (NewestLast(commands[d1]) /\ (pending_fleet_mode[d1].mode = Newest => AllNewest(commands[d1])))'
    BY <1>4, <1>5, <2>2, <2>3 DEF NewestLast, AllNewest
  <2> QED
    BY <1>3, <2>1, <2>2, <2>4, <2>5 DEF NewestBehind, NewestLast, AllNewest
<1>10. NewestIsNew' = NewestIsNew /\ KeepsNewest
  BY <1>3 DEF NewestIsNew, Newest, KeepsNewest
<1> QED
  BY <1>6, <1>7, <1>8, <1>9, <1>10 DEF ModesKeep

(* A repeat reaches the queues it fits into, behind what they hold.                *)
LEMMA SendKeeps ==
  ASSUME ModesKeep, NEW d \in Drones, SendMode(d)
  PROVE  ModesKeep' /\ KeepsNewest
<1> DEFINE m == pending_fleet_mode[d1].mode
<1>1. /\ d = d1 /\ pending_fleet_mode[d1] \in [mode : Maybe, remaining : 0 .. Repeats]
      /\ pending_fleet_mode[d1].remaining # 0 /\ m \in Modes
  <2>1. d = d1
    BY DEF SendMode, ModesKeep, OneSpeaks
  <2>2. pending_fleet_mode[d1] \in [mode : Maybe, remaining : 0 .. Repeats]
    BY CommanderIs DEF ModesKeep, ModeTypes
  <2>3. pending_fleet_mode[d1].remaining # 0
    BY <2>1 DEF SendMode
  <2> QED
    BY <2>1, <2>2, <2>3, CommanderIs DEF ModesKeep, ModeTypes, Maybe
<1>2. PICK hearers \in SUBSET (Drones \ {d1}) :
        events' = [r \in Drones |-> IF r \in hearers /\ Len(events[r]) < QueueDepth
                                    THEN Append(events[r], m) ELSE events[r]]
  <2>1. PICK hearers \in SUBSET (Drones \ {d}) :
          events' = [r \in Drones |-> IF r \in hearers /\ Len(events[r]) < QueueDepth
                                      THEN Append(events[r], pending_fleet_mode[d].mode)
                                      ELSE events[r]]
    BY DEF SendMode
  <2> QED
    BY <1>1, <2>1
<1>3. /\ pending_fleet_mode' =
           [pending_fleet_mode EXCEPT ![d1] = AfterSend(pending_fleet_mode[d1])]
      /\ UNCHANGED <<requested, calling, commands, issued>>
  BY <1>1 DEF SendMode, gateway
<1>4. /\ AfterSend(pending_fleet_mode[d1]) \in [mode : Maybe, remaining : 0 .. Repeats]
      /\ AfterSend(pending_fleet_mode[d1]).mode \in {m, NoMode}
      /\ AfterSend(pending_fleet_mode[d1]).mode = NoMode
           <=> AfterSend(pending_fleet_mode[d1]).remaining = 0
  <2> DEFINE p == pending_fleet_mode[d1]
  <2>1. CASE p.remaining = 1
    <3>1. AfterSend(p) = NoPending
      BY <2>1 DEF AfterSend
    <3>2. NoPending.mode = NoMode /\ NoPending.remaining = 0
      BY DEF NoPending
    <3>3. NoPending \in [mode : Maybe, remaining : 0 .. Repeats]
      BY CommanderIs DEF NoPending, Maybe
    <3> QED
      BY <3>1, <3>2, <3>3
  <2>2. CASE p.remaining # 1
    <3>1. AfterSend(p) = [p EXCEPT !.remaining = p.remaining - 1]
      BY <2>2 DEF AfterSend
    <3>2. p.remaining - 1 \in 0 .. Repeats /\ p.remaining - 1 # 0
      BY <1>1, <2>2, CommanderIs
    <3>3. /\ AfterSend(p) \in [mode : Maybe, remaining : 0 .. Repeats]
          /\ AfterSend(p).mode = m /\ AfterSend(p).remaining = p.remaining - 1
      BY <1>1, <3>1, <3>2
    <3> QED
      BY <1>1, <3>2, <3>3, CommanderIs
  <2> QED
    BY <2>1, <2>2
<1> HIDE DEF m
<1>5. /\ pending_fleet_mode' \in [Drones -> [mode : Maybe, remaining : 0 .. Repeats]]
      /\ pending_fleet_mode'[d1] = AfterSend(pending_fleet_mode[d1])
      /\ \A e \in Drones : e # d1 => pending_fleet_mode'[e] = pending_fleet_mode[e]
  BY <1>3, <1>4, CommanderIs DEF ModesKeep, ModeTypes
<1>6. \A e \in Drones : \/ events'[e] = events[e]
                        \/ e # d1 /\ events'[e] = Append(events[e], m)
  BY <1>2
<1>7. ASSUME NEW e \in Drones
      PROVE  /\ events'[e] \in Seq(Modes)
             /\ \A i \in DOMAIN events'[e] :
                  \/ i \in DOMAIN events[e] /\ events'[e][i] = events[e][i]
                  \/ i = Len(events[e]) + 1 /\ events'[e][i] = m
             /\ \A i \in DOMAIN events[e] : i < Len(events[e]) + 1
             /\ DOMAIN events'[e] \subseteq 1 .. Len(events[e]) + 1 /\ Len(events[e]) \in Nat
  <2>1. events[e] \in Seq(Modes)
    BY DEF ModesKeep, ModeTypes
  <2>2. DOMAIN events[e] = 1 .. Len(events[e]) /\ Len(events[e]) \in Nat
    BY <2>1, LenProperties
  <2>3. CASE events'[e] = events[e]
    BY <2>1, <2>2, <2>3
  <2>4. CASE events'[e] = Append(events[e], m)
    BY <1>1, <2>1, <2>2, <2>4, AppendOf
  <2> QED
    BY <1>6, <2>3, <2>4
<1>8. ModeTypes'
  <2>1. events' \in [Drones -> Seq(Modes)]
    BY <1>2, <1>7
  <2>2. \A e \in Drones :
          (pending_fleet_mode'[e].mode = NoMode) <=> (pending_fleet_mode'[e].remaining = 0)
    BY <1>4, <1>5 DEF ModesKeep, ModeTypes
  <2> QED
    BY <1>3, <1>5, <2>1, <2>2 DEF ModesKeep, ModeTypes
<1>9. OneSpeaks'
  BY <1>3, <1>5, <1>6, CommanderIs DEF ModesKeep, OneSpeaks, Newest
<1>10. OnlyIssued'
  <2>1. WasIssued(m) /\ WasIssued(NoMode)
    BY DEF ModesKeep, OnlyIssued, WasIssued, m
  <2>2. \A e \in Drones : AllIssued(events'[e])
    BY <1>7, <2>1 DEF ModesKeep, OnlyIssued, AllIssued
  <2>3. WasIssued(pending_fleet_mode'[d1].mode)
    BY <1>4, <1>5, <2>1
  <2>4. \A x : WasIssued(x)' <=> WasIssued(x)
    BY <1>3 DEF WasIssued
  <2> QED
    BY <1>3, <2>2, <2>3, <2>4 DEF ModesKeep, OnlyIssued, AllIssued
<1>11. ASSUME NewestIsNew
       PROVE  NewestBehind'
  <2>1. NewestBehind
    BY <1>11 DEF ModesKeep
  <2>2. Newest' = Newest
    BY <1>3 DEF Newest
  <2>3. m = Newest => AllNewest(commands[d1])
    BY <2>1 DEF NewestBehind, m
  <2>4. NewestNext => m = Newest
    BY <1>1, CommanderIs DEF NewestNext, m
  <2>5. m = Newest => NewestNext'
    BY <1>3, <1>4, <1>5, <2>2, <2>3 DEF NewestNext, AllNewest
  <2>6. (NewestLast(commands[d1]) /\ (pending_fleet_mode[d1].mode = Newest => AllNewest(commands[d1])))'
    <3>1. NewestLast(commands[d1])'
      BY <1>3, <2>1, <2>2 DEF NewestBehind, NewestLast
    <3>2. pending_fleet_mode'[d1].mode = Newest => m = Newest
      <4>1. Newest # NoMode
        <5>1. Newest \in Modes
          BY <1>11, LenProperties, EmptySeq DEF ModesKeep, ModeTypes, NewestIsNew, Newest
        <5> QED
          BY <5>1, CommanderIs
      <4> QED
        BY <1>4, <1>5, <4>1
    <3> QED
      BY <1>3, <2>2, <2>3, <3>1, <3>2 DEF AllNewest
  <2>7. ASSUME NEW e \in Drones
        PROVE  /\ NewestLast(events'[e])
               /\ (\E i \in DOMAIN events'[e] : events'[e][i] = Newest) => m = Newest \/ NewestNext
               /\ e # d1 /\ requested[e] = Newest => AllNewest(events'[e]) /\ NewestNext
    <3>1. /\ NewestLast(events[e])
          /\ (\E i \in DOMAIN events[e] : events[e][i] = Newest) => NewestNext
      BY <2>1 DEF NewestBehind
    <3>2. NewestLast(events'[e])
      <4> SUFFICES ASSUME NEW i \in DOMAIN events'[e], NEW j \in DOMAIN events'[e], i <= j,
                          events'[e][i] = Newest
                   PROVE  events'[e][j] = Newest
        BY DEF NewestLast
      <4>1. CASE i \in DOMAIN events[e] /\ j \in DOMAIN events[e]
        BY <1>7, <3>1, <4>1 DEF NewestLast
      <4>2. CASE j \notin DOMAIN events[e]
        <5>1. j = Len(events[e]) + 1 /\ events'[e][j] = m
          BY <1>7, <4>2
        <5>2. i \in DOMAIN events[e] => m = Newest
          BY <1>7, <2>4, <3>1
        <5>3. i \notin DOMAIN events[e] => m = Newest
          BY <1>7
        <5> QED
          BY <5>1, <5>2, <5>3
      <4>3. CASE i \notin DOMAIN events[e] /\ j \in DOMAIN events[e]
        <5>1. i = Len(events[e]) + 1 /\ j < Len(events[e]) + 1
          BY <1>7, <4>3
        <5>2. j \in 1 .. Len(events[e]) + 1 /\ Len(events[e]) \in Nat
          BY <1>7
        <5> QED
          BY <5>1, <5>2
      <4> QED
        BY <4>1, <4>2, <4>3
    <3>3. (\E i \in DOMAIN events'[e] : events'[e][i] = Newest) => m = Newest \/ NewestNext
      BY <1>7, <3>1
    <3>4. e # d1 /\ requested[e] = Newest => AllNewest(events'[e]) /\ NewestNext
      <4> SUFFICES ASSUME e # d1, requested[e] = Newest
                   PROVE  AllNewest(events'[e]) /\ NewestNext
        OBVIOUS
      <4>1. AllNewest(events[e]) /\ NewestNext /\ m = Newest
        BY <2>1, <2>4 DEF NewestBehind
      <4> QED
        BY <1>7, <4>1 DEF AllNewest
    <3> QED
      BY <3>2, <3>3, <3>4
  <2>8. ASSUME NEW e \in Drones
        PROVE  /\ NewestLast(events[e])'
               /\ (\E i \in DOMAIN events[e] : events[e][i] = Newest)' => NewestNext'
               /\ (e # d1 /\ requested[e] = Newest)' => (AllNewest(events[e]) /\ NewestNext)'
    <3>1. NewestNext => NewestNext'
      BY <2>4, <2>5
    <3>2. NewestLast(events[e])'
      BY <2>2, <2>7 DEF NewestLast
    <3>3. (\E i \in DOMAIN events[e] : events[e][i] = Newest)' => NewestNext'
      BY <2>2, <2>5, <2>7, <3>1
    <3>4. (e # d1 /\ requested[e] = Newest)' => (AllNewest(events[e]) /\ NewestNext)'
      BY <1>3, <2>2, <2>7, <3>1 DEF AllNewest
    <3> QED
      BY <3>2, <3>3, <3>4
  <2> QED
    BY <2>6, <2>8 DEF NewestBehind
<1>12. NewestIsNew' = NewestIsNew /\ KeepsNewest
  BY <1>3 DEF NewestIsNew, Newest, KeepsNewest
<1> QED
  BY <1>8, <1>9, <1>10, <1>11, <1>12 DEF ModesKeep

(* A radio that starts over sends nothing more of what it had.                  *)
LEMMA ReinitKeeps ==
  ASSUME ModesKeep, NEW d \in Drones, RadioReinitializes(d)
  PROVE  ModesKeep' /\ KeepsNewest
<1>1. /\ pending_fleet_mode' = [pending_fleet_mode EXCEPT ![d] = NoPending]
      /\ UNCHANGED <<requested, calling, commands, events, issued>>
  BY DEF RadioReinitializes, gateway
<1>2. /\ NoPending \in [mode : Maybe, remaining : 0 .. Repeats]
      /\ NoPending.mode = NoMode /\ NoPending.remaining = 0
  BY CommanderIs DEF NoPending, Maybe
<1> HIDE DEF NoPending
<1>3. /\ pending_fleet_mode' \in [Drones -> [mode : Maybe, remaining : 0 .. Repeats]]
      /\ \A e \in Drones : \/ pending_fleet_mode'[e] = pending_fleet_mode[e]
                           \/ /\ pending_fleet_mode'[e].mode = NoMode
                              /\ pending_fleet_mode'[e].remaining = 0
  BY <1>1, <1>2 DEF ModesKeep, ModeTypes
<1>4. ModeTypes'
  BY <1>1, <1>3 DEF ModesKeep, ModeTypes
<1>5. OneSpeaks'
  BY <1>1, <1>3 DEF ModesKeep, OneSpeaks, Newest
<1>6. OnlyIssued'
  BY <1>1, <1>3, CommanderIs DEF ModesKeep, OnlyIssued, WasIssued, AllIssued
<1>7. ASSUME NewestIsNew
      PROVE  NewestBehind'
  <2>1. NewestBehind /\ Newest' = Newest
    BY <1>1, <1>7 DEF ModesKeep, Newest
  <2>2. Newest # NoMode
    <3>1. Newest \in Modes
      BY <1>7, LenProperties, EmptySeq DEF ModesKeep, ModeTypes, NewestIsNew, Newest
    <3> QED
      BY <3>1, CommanderIs
  <2>3. NewestNext => NewestNext'
    BY <1>1, <1>3, <2>1, CommanderIs DEF NewestNext, AllNewest
  <2>4. (pending_fleet_mode[d1].mode = Newest => AllNewest(commands[d1]))'
    BY <1>1, <1>3, <2>1, <2>2, CommanderIs DEF NewestBehind, AllNewest
  <2> QED
    BY <1>1, <2>1, <2>3, <2>4 DEF NewestBehind, NewestLast, AllNewest
<1>8. NewestIsNew' = NewestIsNew /\ KeepsNewest
  BY <1>1 DEF NewestIsNew, Newest, KeepsNewest
<1> QED
  BY <1>4, <1>5, <1>6, <1>7, <1>8 DEF ModesKeep

LEMMA ModeStepKeeps ==
  ASSUME ModesKeep, ModeNext
  PROVE  ModesKeep' /\ KeepsNewest
<1>1. ASSUME NEW d \in Commanders, NEW m \in Modes, CallService(d, m)
      PROVE  ModesKeep' /\ KeepsNewest
  <2>1. d = d1 /\ issued' = Append(issued, m)
    BY <1>1, CommanderIs DEF CallService
  <2>2. issued' # issued
    BY <2>1, AppendOf DEF ModesKeep, ModeTypes
  <2> QED
    BY <1>1, <2>1, <2>2, CallKeeps DEF KeepsNewest
<1>2. ASSUME NEW d \in Drones, \/ QueueFromService(d) \/ QueueFromReader(d) \/ Disconnect(d)
                               \/ HandleCommand(d) \/ SendMode(d) \/ RadioReinitializes(d)
      PROVE  ModesKeep' /\ KeepsNewest
  BY <1>2, ServiceKeeps, ReaderOfModesKeeps, DropKeeps, HandleKeeps, SendKeeps, ReinitKeeps
<1>3. ASSUME NEW d \in Drones, NEW t \in Threads, Publish(d, t)
      PROVE  ModesKeep' /\ KeepsNewest
  BY <1>3, UnderwayKeeps DEF Publish, underway, radioService
<1>4. ASSUME NEW d \in Drones, \/ TakeTarget(d) \/ FinishApply(d) \/ FailApply(d)
                               \/ RaiseApplyError(d) \/ Reconnect(d)
      PROVE  ModesKeep' /\ KeepsNewest
  <2>1. UNCHANGED underway
    BY <1>4 DEF TakeTarget, FinishApply, FailApply, RaiseApplyError, Reconnect, underway,
                radioService
  <2> QED
    BY <2>1, UnderwayKeeps
<1>5. ASSUME NEW d \in Drones, NEW m \in Modes, SetLocally(d, m)
      PROVE  ModesKeep' /\ KeepsNewest
  BY <1>5, UnderwayKeeps DEF SetLocally, underway, radioService, gateway
<1>6. CASE Operator
  BY <1>1, <1>5, <1>6 DEF Operator
<1>7. CASE \E d \in Drones : GatewayStep(d) \/ RadioStep(d) \/ Trouble(d)
  <2>1. PICK d \in Drones : GatewayStep(d) \/ RadioStep(d) \/ Trouble(d)
    BY <1>7
  <2>2. CASE GatewayStep(d)
    BY <1>2, <1>3, <1>4, <2>2 DEF GatewayStep
  <2>3. CASE RadioStep(d)
    BY <1>2, <2>3 DEF RadioStep
  <2>4. CASE Trouble(d)
    BY <1>2, <1>4, <2>4 DEF Trouble
  <2> QED
    BY <2>1, <2>2, <2>3, <2>4
<1> QED
  BY <1>6, <1>7 DEF ModeNext

(* With one commander a drone that has taken the newest mode keeps it until the next   *)
(* one is given (gateway.py:178), whatever is repeated, lost, cut off or late, in a     *)
(* fleet of any size with queues of any length.                                *)
THEOREM ModesHold == MCSpec => NoStaleRequeueOfOne
<1> DEFINE I == setup = "one" => ModesKeep
           A == setup = "one" => KeepsNewest
<1>1. MCInit => I
  BY ModeInitKeeps DEF MCInit
<1>2. I /\ [MCNext]_fleetVars => I' /\ (A \/ UNCHANGED modeVars)
  <2> SUFFICES ASSUME I, [MCNext]_fleetVars
               PROVE  I' /\ (A \/ UNCHANGED modeVars)
    OBVIOUS
  <2>1. CASE InOne /\ ModeNext
    BY <2>1, ModeStepKeeps DEF InOne
  <2>2. CASE InTwo /\ Two!ModeNext /\ OneMishap
    BY <2>2 DEF InTwo
  <2>3. CASE UNCHANGED fleetVars
    <3>1. UNCHANGED <<setup, underway, modeVars>>
      BY <2>3 DEF fleetVars, modeVars, gateway, radioService, underway
    <3> QED
      BY <3>1, UnderwayKeeps
  <2> QED
    BY <2>1, <2>2, <2>3 DEF MCNext
<1> HIDE DEF I, A
<1>3. MCSpec => [][A]_modeVars
  BY <1>1, <1>2, PTL DEF MCSpec
<1> QED
  BY <1>3 DEF NoStaleRequeueOfOne, A
=============================================================================
