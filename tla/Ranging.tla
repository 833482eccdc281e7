------------------------------- MODULE Ranging -------------------------------
(***************************************************************************)
(* Two-way ranging between the UWB radios of the fleet: Poll, Response,      *)
(* Final, Report, between the Linux application for the DW1000               *)
(* (uwb/dw1000/src/ranging.rs) and the embedded one for the DWM3001          *)
(* (uwb/dwm3001/src/ranging.rs), which share the protocol and the pair       *)
(* policy and differ in how they treat a frame they did not wait for.        *)
(*                                                                          *)
(* The air is instantaneous: a frame that is sent is received, garbled or     *)
(* missed at once by each radio that listens. What a radio received waits in *)
(* its status register until the software serves it.                        *)
(***************************************************************************)
EXTENDS PairMac, FiniteSets

CONSTANTS
  Nodes,       \* addresses of the radios, a set of naturals
  Direct,      \* the nodes that run the DW1000 application; the others are DWM3001
  DupWindow,   \* a poll repeated within this time is refused (20 ms)
  ModeRepeats, \* FLEET_MODE_REPEATS
  ModeInterval,\* FLEET_MODE_INTERVAL
  MaxTime, MaxPolls,   \* bounds on the time and on the polls of a behaviour
  MaxFaults    \* bound on resets, garbled frames, missed transmissions, broadcasts, ...

ASSUME RangingConstants ==
  /\ Nodes \subseteq Nat /\ IsFiniteSet(Nodes) /\ Direct \subseteq Nodes
  /\ DupWindow \in Nat /\ ModeRepeats \in Nat \ {0} /\ ModeInterval \in Nat
  /\ MaxTime \in Nat /\ MaxPolls \in Nat /\ MaxFaults \in Nat

VARIABLES
  present,   \* the radios of the roster that are there at all
  up,        \* up[n]: the application runs
  ex,        \* ex[n]: the state of the exchange
  active,    \* active[n]: peer of the pair an outcome is owed to, at most one
  mac,       \* mac[n][p]: state of the pair n and p
  next_id,   \* next_id[n]: next_exchange_id
  heard,     \* heard[n][p]: last_received_exchange
  pending,   \* pending[n]: pending_fleet_mode, repeats left and time of the next
  tx,        \* tx[n]: frame programmed into the transmitter
  sent,      \* sent[n]: TX_FRAME_SENT is up
  rx,        \* rx[n]: received frame, or error, in the status register
  now, polls, faults,   \* time; polls and disturbances so far
  measured,  \* history: exchanges of which the responder computed the distance
  ranges     \* history: ranges given to the host

node == <<up, ex, active, mac, next_id, heard, pending>>
radio == <<tx, sent, rx>>
history == <<measured, ranges>>
vars == <<present, node, radio, now, polls, faults, history>>

PeersOf(n) == Nodes \ {n}
Initiates(n, p) == n < p      \* Pair::new

-------------------------------------------------------------------------------
(* Frames and exchange states. A mark names the poll a timestamp belongs to:  *)
(* the timestamps of one exchange all carry the mark of its poll.            *)
Frame(type, from, to, id, marks, close) ==
  [type |-> type, from |-> from, to |-> to, id |-> id, marks |-> marks, close |-> close]
Nothing == [type |-> "nothing"]
Garbled == [type |-> "error"]
Addressed(f, n) == f.type \notin {"nothing", "error"} /\ f.to = n

Idle == [phase |-> "Idle"]
Exchange(phase, peer, id, marks) == [phase |-> phase, peer |-> peer, id |-> id, marks |-> marks]
Reporting(peer, id, marks, close) ==
  [phase |-> "SendingReport", peer |-> peer, id |-> id, marks |-> marks, close |-> close]

Sending == {"SendingPoll", "SendingResponse", "SendingFinal", "SendingReport", "SendingFleetMode"}
Awaiting == {"AwaitResponse", "AwaitFinal", "AwaitReport"}
Then == [p \in {"SendingPoll", "SendingResponse", "SendingFinal"} |->
           CASE p = "SendingPoll" -> "AwaitResponse"
             [] p = "SendingResponse" -> "AwaitFinal"
             [] OTHER -> "AwaitReport"]

(* The receiver is on while the node waits; after a poll or a response the    *)
(* DW1000 turns it on by itself, before the software knows.                  *)
Listens(n) ==
  /\ up[n] /\ rx[n] = Nothing /\ tx[n] = Nothing
  /\ \/ ex[n].phase \in Awaiting \cup {"Idle"} /\ ~sent[n]
     \/ n \in Direct /\ sent[n] /\ ex[n].phase \in {"SendingPoll", "SendingResponse"}

Quiet(n) == ~sent[n] /\ rx[n] = Nothing

-------------------------------------------------------------------------------
(* The phase matters where the node initiates: a responder's schedule is     *)
(* never read.                                                              *)
Phased(n) == [{p \in PeersOf(n) : Initiates(n, p)} -> Phases]
Booted(n, phases) ==
  [p \in PeersOf(n) |-> Initialize(now, IF p \in DOMAIN phases THEN phases[p] ELSE 0)]

Init ==
  /\ now \in 0 .. MaxTime /\ polls \in 0 .. MaxPolls /\ faults \in 0 .. MaxFaults
  /\ present \in SUBSET Nodes
  /\ up = [n \in Nodes |-> n \in present]
  /\ ex = [n \in Nodes |-> Idle]
  /\ active = [n \in Nodes |-> {}]
  /\ mac \in [Nodes -> UNION {{Booted(n, phases) : phases \in Phased(n)} : n \in Nodes}]
  /\ \A n \in Nodes : \E phases \in Phased(n) : mac[n] = Booted(n, phases)
  /\ next_id = [n \in Nodes |-> 0]
  /\ heard = [n \in Nodes |-> [p \in PeersOf(n) |-> {}]]
  /\ pending = [n \in Nodes |-> {}]
  /\ tx = [n \in Nodes |-> Nothing]
  /\ sent = [n \in Nodes |-> FALSE]
  /\ rx = [n \in Nodes |-> Nothing]
  /\ measured = {} /\ ranges = {}

Bounds == <<now, polls, faults>>
Disturbs == faults < MaxFaults /\ faults' = faults + 1

RecordTimeout_NoBackoff(n) == active' = [active EXCEPT ![n] = {}] /\ UNCHANGED mac
(* record_timeout: the initiator of an attempt that failed backs off.        *)
RecordTimeout(n) ==
  /\ active' = [active EXCEPT ![n] = {}]
  /\ \/ /\ \A p \in active[n] : ~Initiates(n, p)
        /\ UNCHANGED mac
     \/ \E p \in active[n] :
          /\ Initiates(n, p)
          /\ \E m \in RecordFailures(mac[n][p], now) : mac' = [mac EXCEPT ![n][p] = m]

(* recover_exchange: back to idle; the radio listens again, which cancels a   *)
(* transmission that is still to come.                                      *)
RecoverExchange(n) ==
  /\ RecordTimeout(n)
  /\ ex' = [ex EXCEPT ![n] = Idle]
  /\ tx' = [tx EXCEPT ![n] = Nothing]

Program(n, frame) == tx' = [tx EXCEPT ![n] = frame]

(* Preparing a transmission on the DWM3001 clears the status register; on    *)
(* the DW1000 a frame that came after the last look at it stays.             *)
PrepareTx(n) == rx' = IF n \in Direct THEN rx ELSE [rx EXCEPT ![n] = Nothing]

-------------------------------------------------------------------------------
(* The schedule: a pending fleet mode goes first, then the most overdue pair. *)
ModeIsDue(n) == \E m \in pending[n] : m.at <= now
Earlier(n, p, q) == \/ mac[n][p].due < mac[n][q].due
                    \/ mac[n][p].due = mac[n][q].due /\ p <= q
DuePair(n, p) ==
  /\ Initiates(n, p) /\ IsDue(mac[n][p], now)
  /\ \A q \in PeersOf(n) : Initiates(n, q) /\ IsDue(mac[n][q], now) => Earlier(n, p, q)

MayStart(n) == up[n] /\ ex[n] = Idle /\ ~sent[n] /\ (n \in Direct \/ rx[n] = Nothing)

SendPoll(n) ==
  /\ MayStart(n) /\ ~ModeIsDue(n) /\ polls < MaxPolls
  /\ \E p \in PeersOf(n) :
       /\ DuePair(n, p)
       /\ mac' = [mac EXCEPT ![n] = [q \in PeersOf(n) |->
                    IF q = p THEN BeginAttempt(Expire(mac[n][q], now), now)
                             ELSE Expire(mac[n][q], now)]]
       /\ active' = [active EXCEPT ![n] = {p}]
       /\ ex' = [ex EXCEPT ![n] = Exchange("SendingPoll", p, next_id[n], {polls})]
       /\ Program(n, Frame("Poll", n, p, next_id[n], {polls}, FALSE))
  /\ next_id' = [next_id EXCEPT ![n] = @ + 1]
  /\ polls' = polls + 1
  /\ PrepareTx(n)
  /\ UNCHANGED <<up, heard, pending, sent, now, faults, history>>

SendFleetMode(n) ==
  /\ MayStart(n) /\ ModeIsDue(n)
  /\ ex' = [ex EXCEPT ![n] = [phase |-> "SendingFleetMode"]]
  /\ Program(n, Frame("FleetMode", n, n, next_id[n], {}, FALSE))
  /\ next_id' = [next_id EXCEPT ![n] = @ + 1]
  /\ pending' = [pending EXCEPT ![n] =
                   {[left |-> m.left - 1, at |-> now + ModeInterval] : m \in {k \in @ : k.left > 1}}]
  /\ PrepareTx(n)
  /\ UNCHANGED <<up, active, mac, heard, sent, Bounds, history>>

(* A command of the host.                                                   *)
BroadcastFleetMode(n) ==
  /\ up[n] /\ Disturbs
  /\ pending' = [pending EXCEPT ![n] = {[left |-> ModeRepeats, at |-> now]}]
  /\ UNCHANGED <<up, ex, active, mac, next_id, heard, radio, now, polls, history>>

-------------------------------------------------------------------------------
(* The transmitter sends what it was given.                                  *)
Transmit(n) ==
  /\ tx[n] # Nothing
  /\ \E heard_by \in SUBSET {m \in PeersOf(n) : Listens(m)} :
       \/ /\ rx' = [m \in Nodes |-> IF m \in heard_by THEN tx[n] ELSE rx[m]]
          /\ UNCHANGED faults
       \/ /\ heard_by # {} /\ Disturbs
          /\ rx' = [m \in Nodes |-> IF m \in heard_by THEN Garbled ELSE rx[m]]
  /\ tx' = [tx EXCEPT ![n] = Nothing]
  /\ sent' = [sent EXCEPT ![n] = TRUE]
  /\ UNCHANGED <<node, now, polls, history>>

Ranged(n, peer, id, marks) == ranges \cup {[by |-> n, peer |-> peer, id |-> id, marks |-> marks]}
Succeeds(n, p, close) == mac' = [mac EXCEPT ![n][p] = RecordSuccess(@, now, close)]

(* handle_tx_done, wait_send: a frame that did not go out at the time it      *)
(* names ends the exchange. The DWM3001 gives a responder's range to the host *)
(* once its report is out.                                                  *)
TxDone(n) ==
  /\ sent[n] /\ sent' = [sent EXCEPT ![n] = FALSE]
  /\ \/ /\ ex[n].phase \in DOMAIN Then
        /\ ex' = [ex EXCEPT ![n].phase = Then[@]]
        /\ UNCHANGED <<active, mac, tx, ranges, faults>>
     \/ /\ ex[n].phase \in DOMAIN Then /\ Disturbs
        /\ RecoverExchange(n) /\ UNCHANGED ranges
     \/ /\ ex[n].phase = "SendingReport"
        /\ ex' = [ex EXCEPT ![n] = Idle] /\ active' = [active EXCEPT ![n] = {}]
        /\ IF n \in Direct
             THEN UNCHANGED <<mac, ranges>>
             ELSE /\ Succeeds(n, ex[n].peer, ex[n].close)
                  /\ ranges' = Ranged(n, ex[n].peer, ex[n].id, ex[n].marks)
        /\ UNCHANGED <<tx, faults>>
     \/ /\ ex[n].phase = "SendingFleetMode"
        /\ ex' = [ex EXCEPT ![n] = Idle] /\ UNCHANGED <<active, mac, tx, ranges, faults>>
  /\ UNCHANGED <<up, next_id, heard, pending, rx, now, polls, measured>>

-------------------------------------------------------------------------------
(* A frame, or an error, in the status register is served, after TX_DONE.     *)
Serves(n) == /\ up[n] /\ ~sent[n] /\ rx[n] # Nothing
             /\ rx' = [rx EXCEPT ![n] = Nothing]

ReceiveError(n) ==
  /\ Serves(n) /\ rx[n] = Garbled
  /\ RecoverExchange(n)
  /\ UNCHANGED <<up, next_id, heard, pending, sent, Bounds, history>>

(* A fleet mode ends the exchange that was under way.                        *)
HearFleetMode(n) ==
  /\ Serves(n) /\ rx[n].type = "FleetMode"
  /\ RecoverExchange(n)
  /\ UNCHANGED <<up, next_id, heard, pending, sent, Bounds, history>>

PollIsValid(n, f) ==
  /\ Initiates(f.from, n)
  /\ \A h \in heard[n][f.from] : h.id = f.id => now - h.at >= DupWindow

PollArrives(n) == Addressed(rx[n], n) /\ rx[n].type = "Poll" /\ ex[n] = Idle
ExpectedPoll(n) == PollArrives(n) /\ PollIsValid(n, rx[n])

Matches_ByType(n, phase, type) ==
  Addressed(rx[n], n) /\ rx[n].type = type /\ ex[n].phase = phase
(* The answer to what the node sent: from its peer, with the exchange's id.   *)
Matches(n, phase, type) ==
  /\ Addressed(rx[n], n) /\ rx[n].type = type /\ ex[n].phase = phase
  /\ rx[n].from = ex[n].peer /\ rx[n].id = ex[n].id

AcceptPoll(n) ==
  /\ Serves(n) /\ ExpectedPoll(n)
  /\ LET f == rx[n] IN
       /\ heard' = [heard EXCEPT ![n][f.from] = {[id |-> f.id, at |-> now]}]
       /\ active' = [active EXCEPT ![n] = {f.from}]
       /\ ex' = [ex EXCEPT ![n] = Exchange("SendingResponse", f.from, f.id, f.marks)]
       /\ Program(n, Frame("Response", n, f.from, f.id, f.marks, FALSE))
  /\ UNCHANGED <<up, mac, next_id, pending, sent, Bounds, history>>

AcceptResponse(n) ==
  /\ Serves(n) /\ Matches(n, "AwaitResponse", "Response")
  /\ LET marks == ex[n].marks \cup rx[n].marks IN
       /\ ex' = [ex EXCEPT ![n] = Exchange("SendingFinal", @.peer, @.id, marks)]
       /\ Program(n, Frame("Final", n, ex[n].peer, ex[n].id, marks, FALSE))
  /\ UNCHANGED <<up, active, mac, next_id, heard, pending, sent, Bounds, history>>

(* The responder computes the distance, tells whether the pair is close, and  *)
(* reports. The DW1000 gives the range to the host before the report is out.  *)
AcceptFinal(n) ==
  /\ Serves(n) /\ Matches(n, "AwaitFinal", "Final")
  /\ LET marks == ex[n].marks \cup rx[n].marks
         peer == ex[n].peer
         id == ex[n].id
     IN \E distance \in Distances :
          LET close == ClassifyRange(IsClose(mac[n][peer], now), distance) IN
            /\ ex' = [ex EXCEPT ![n] = Reporting(peer, id, marks, close)]
            /\ Program(n, Frame("Report", n, peer, id, marks, close))
            /\ measured' = measured \cup {[by |-> n, peer |-> peer, id |-> id, marks |-> marks]}
            /\ IF n \in Direct
                 THEN Succeeds(n, peer, close) /\ ranges' = Ranged(n, peer, id, marks)
                 ELSE UNCHANGED <<mac, ranges>>
  /\ UNCHANGED <<up, active, next_id, heard, pending, sent, Bounds>>

AcceptReport(n) ==
  /\ Serves(n) /\ Matches(n, "AwaitReport", "Report")
  /\ Succeeds(n, ex[n].peer, rx[n].close)
  /\ ranges' = Ranged(n, ex[n].peer, ex[n].id, ex[n].marks \cup rx[n].marks)
  /\ ex' = [ex EXCEPT ![n] = Idle] /\ active' = [active EXCEPT ![n] = {}]
  /\ UNCHANGED <<up, next_id, heard, pending, tx, sent, Bounds, measured>>

(* The timestamps give no distance.                                          *)
ImpossibleDistance(n) ==
  /\ Serves(n) /\ (Matches(n, "AwaitFinal", "Final") \/ Matches(n, "AwaitReport", "Report"))
  /\ RecoverExchange(n) /\ Disturbs
  /\ UNCHANGED <<up, next_id, heard, pending, sent, now, polls, history>>

Expected(n) ==
  \/ ExpectedPoll(n)
  \/ Matches(n, "AwaitResponse", "Response")
  \/ Matches(n, "AwaitFinal", "Final")
  \/ Matches(n, "AwaitReport", "Report")

(* Any other frame: the DW1000 listens again, which cancels a transmission    *)
(* still to come, and waits on; the DWM3001 gives up its exchange.           *)
Stray(n) ==
  /\ Serves(n) /\ rx[n].type \notin {"error", "FleetMode"} /\ ~Expected(n)
  /\ IF n \in Direct
       THEN tx' = [tx EXCEPT ![n] = Nothing] /\ UNCHANGED <<ex, active, mac>>
       ELSE RecoverExchange(n)
  /\ UNCHANGED <<up, next_id, heard, pending, sent, Bounds, history>>

-------------------------------------------------------------------------------
(* The deadline of the exchange. Replies are sent 2 ms after the frame they   *)
(* answer and the timeout is 3.5 ms: a reply that is coming is not missed.    *)
Answering(n) ==
  /\ ex[n].phase \in Awaiting
  /\ Addressed(tx[ex[n].peer], n) /\ tx[ex[n].peer].id = ex[n].id

Unrecoverable(n) == n \notin Direct /\ ex[n].phase \in {"SendingPoll", "SendingFleetMode"}

Deadline_Awaiting(n) ==
  /\ up[n] /\ ex[n].phase \in Awaiting /\ Quiet(n) /\ ~Answering(n)
  /\ RecoverExchange(n)
  /\ UNCHANGED <<up, next_id, heard, pending, sent, rx, Bounds, history>>
Deadline(n) ==
  /\ up[n] /\ ex[n] # Idle /\ Quiet(n) /\ ~Answering(n) /\ ~Unrecoverable(n)
  /\ RecoverExchange(n)
  /\ UNCHANGED <<up, next_id, heard, pending, sent, rx, Bounds, history>>

(* An SPI error, a status that does not drain, a poll that the DWM3001 could  *)
(* not send: the application starts again.                                  *)
Reset(n) ==
  /\ up[n] /\ Disturbs
  /\ up' = [up EXCEPT ![n] = FALSE]
  /\ ex' = [ex EXCEPT ![n] = Idle] /\ active' = [active EXCEPT ![n] = {}]
  /\ tx' = [tx EXCEPT ![n] = Nothing] /\ sent' = [sent EXCEPT ![n] = FALSE]
  /\ rx' = [rx EXCEPT ![n] = Nothing]
  /\ UNCHANGED <<mac, next_id, heard, pending, now, polls, history>>

(* It comes back 100 ms later or more, or when its host configures it again:  *)
(* by then no peer is in an exchange with it or has a frame of it to serve.   *)
Settled(n) ==
  \A p \in PeersOf(n) : /\ "peer" \in DOMAIN ex[p] => ex[p].peer # n
                        /\ "from" \in DOMAIN rx[p] => rx[p].from # n

Restarted(n) ==
  /\ \E phases \in Phased(n) : mac' = [mac EXCEPT ![n] = Booted(n, phases)]
  /\ next_id' = [next_id EXCEPT ![n] = 0]
  /\ heard' = [heard EXCEPT ![n] = [p \in PeersOf(n) |-> {}]]
  /\ pending' = [pending EXCEPT ![n] = {}]

Boot(n) ==
  /\ n \in present /\ ~up[n] /\ Settled(n)
  /\ up' = [up EXCEPT ![n] = TRUE]
  /\ Restarted(n)
  /\ UNCHANGED <<ex, active, radio, Bounds, history>>

(* The host sends the DWM3001 a configuration between two exchanges.          *)
Reconfigure(n) ==
  /\ n \notin Direct /\ up[n] /\ ex[n] = Idle /\ Quiet(n) /\ Settled(n) /\ Disturbs
  /\ Restarted(n)
  /\ active' = [active EXCEPT ![n] = {}]
  /\ UNCHANGED <<up, ex, radio, now, polls, history>>

(* An exchange, with every timeout in it, is shorter than a close period.     *)
Tick ==
  /\ now < MaxTime /\ \A n \in Nodes : ex[n] = Idle /\ Quiet(n)
  /\ now' = now + 1
  /\ UNCHANGED <<node, radio, polls, faults, history>>

Serve(n) ==
  \/ ReceiveError(n) \/ HearFleetMode(n)
  \/ AcceptPoll(n) \/ AcceptResponse(n) \/ AcceptFinal(n) \/ AcceptReport(n)
  \/ ImpossibleDistance(n) \/ Stray(n)

Next ==
  /\ \/ Tick
     \/ \E n \in Nodes :
          \/ SendPoll(n) \/ SendFleetMode(n) \/ BroadcastFleetMode(n)
          \/ Transmit(n) \/ TxDone(n) \/ Serve(n) \/ Deadline(n)
          \/ Reset(n) \/ Boot(n) \/ Reconfigure(n)
  /\ UNCHANGED present

(* The radio loop runs; the deadline or a reset ends what the radio does not. *)
Fairness ==
  \A n \in Nodes :
    /\ WF_vars(Transmit(n) /\ UNCHANGED present)
    /\ WF_vars((TxDone(n) \/ Serve(n) \/ Deadline(n)) /\ UNCHANGED present)

Spec == Init /\ [][Next]_vars /\ Fairness

-------------------------------------------------------------------------------
Marks == SUBSET (0 .. MaxPolls)
Exchanges == [phase : (Sending \cup Awaiting) \ {"SendingReport", "SendingFleetMode"},
              peer : Nodes, id : Nat, marks : Marks]
             \cup [phase : {"SendingReport"}, peer : Nodes, id : Nat, marks : Marks, close : BOOLEAN]
             \cup {Idle, [phase |-> "SendingFleetMode"]}
Frames == [type : {"Poll", "Response", "Final", "Report", "FleetMode"},
           from : Nodes, to : Nodes, id : Nat, marks : Marks, close : BOOLEAN]
Measurements == [by : Nodes, peer : Nodes, id : Nat, marks : Marks]

(* Every variable has the shape the code gives it; an exchange's deadline     *)
(* stands with its state, and an outcome is owed only to the pair being       *)
(* ranged: active_pair never outlives the exchange it was set for.           *)
TypeOK ==
  /\ present \subseteq Nodes /\ up \in [Nodes -> BOOLEAN] /\ sent \in [Nodes -> BOOLEAN]
  /\ ex \in [Nodes -> Exchanges]
  /\ active \in [Nodes -> SUBSET Nodes] /\ DOMAIN mac = Nodes /\ DOMAIN heard = Nodes
  /\ \A n \in Nodes : active[n] = IF "peer" \in DOMAIN ex[n] THEN {ex[n].peer} ELSE {}
  /\ \A n \in Nodes : mac[n] \in [PeersOf(n) -> MacStates]
  /\ next_id \in [Nodes -> Nat]
  /\ \A n \in Nodes : heard[n] \in [PeersOf(n) -> SUBSET [id : Nat, at : Nat]]
  /\ pending \in [Nodes -> SUBSET [left : 1 .. ModeRepeats, at : Nat]]
  /\ tx \in [Nodes -> Frames \cup {Nothing}]
  /\ rx \in [Nodes -> Frames \cup {Nothing, Garbled}]
  /\ now \in 0 .. MaxTime /\ polls \in 0 .. MaxPolls /\ faults \in 0 .. MaxFaults
  /\ measured \subseteq Measurements /\ ranges \subseteq Measurements

(* A range is computed from the timestamps of one exchange, whatever was      *)
(* lost, aborted and started again: the exchange id and the peer in each      *)
(* frame keep the answers to an abandoned poll out (handle_frame,             *)
(* initiate_exchange, respond_exchange).                                     *)
RangeIsOfOneExchange == \A r \in ranges \cup measured : Cardinality(r.marks) = 1

(* When an initiator reports a range, its responder has computed the range of *)
(* the same exchange: the two hosts never disagree on whether they ranged,    *)
(* except that the responder may know of one more.                           *)
RangeIsMutual ==
  \A r \in ranges : Initiates(r.by, r.peer)
     => [by |-> r.peer, peer |-> r.by, id |-> r.id, marks |-> r.marks] \in measured

(* A pair is due again within the longest backoff, whatever failed: no pair   *)
(* is given up (PairMacState).                                               *)
RetryIsBounded == \A n \in Nodes : \A p \in PeersOf(n) : mac[n][p].due <= now + MaxBackoff

(* The radios keep their types, a range is of one exchange and known to both        *)
(* ends, and no pair is given up.                                           *)
RangingInv == TypeOK /\ RangeIsOfOneExchange /\ RangeIsMutual /\ RetryIsBounded

(* Two attempts on a pair are at least a close period apart, and an abort by  *)
(* an error, a deadline, a missed transmission or a fleet mode does not make  *)
(* the initiator poll again at once.                                         *)
AttemptsAreSpaced ==
  [][\A n \in Nodes : \A p \in PeersOf(n) :
       \A last \in mac[n][p].last :
         polls' # polls /\ ex[n] = Idle /\ active'[n] = {p} /\ Initiates(n, p) /\ ex'[n] # ex[n]
           => now >= last + ClosePeriod]_vars

(* Every exchange ends: a radio returns to listening, whatever is lost.       *)
ExchangesEnd == \A n \in Nodes : ex[n] # Idle ~> ex[n] = Idle
=============================================================================
