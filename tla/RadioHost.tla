------------------------------ MODULE RadioHost ------------------------------
(***************************************************************************)
(* The host link of the DWM3001 (uwb/dwm3001/src/host.rs): the radio task     *)
(* leaves completed exchanges in a slot per peer, control events and          *)
(* diagnostics in bounded queues; the transmit task picks one at a time and   *)
(* writes it to USB, which may be unplugged in the middle; the receive task   *)
(* routes the host's commands. The tasks are cooperative: a step runs from    *)
(* one await to the next.                                                    *)
(***************************************************************************)
EXTENDS Naturals, Sequences, SequencesExt, FiniteSets

CONSTANTS
  Peers,
  Slots,            \* MAX_PEERS
  Capacity,       \* capacity of CONTROL and of DIAGNOSTICS (8)
  BeforeControl,    \* MAX_MEASUREMENTS_BEFORE_CONTROL
  BeforeDiagnostic, \* MAX_EVENTS_BEFORE_DIAGNOSTIC
  MaxExchanges, MaxControl, MaxDiagnostics, MaxUnplugs, MaxConfigurations   \* bounds

ASSUME LinkConstants ==
  /\ IsFiniteSet(Peers) /\ Slots \in Nat /\ Cardinality(Peers) <= Slots
  /\ Capacity \in Nat \ {0} /\ BeforeControl \in Nat \ {0} /\ BeforeDiagnostic \in Nat \ {0}
  /\ MaxExchanges \in [Peers -> Nat]
  /\ {MaxControl, MaxDiagnostics, MaxUnplugs, MaxConfigurations} \subseteq Nat

VARIABLES
  slots,       \* MEASUREMENTS: at most one exchange per peer, oldest first
  signal,      \* MEASUREMENT_SIGNAL
  control,     \* CONTROL
  diagnostics, \* DIAGNOSTICS
  task,        \* where the transmit task is, and with which event
  unsent,     \* the event a failed write left to send again, at most one
  waited,      \* measurements_since_control, events_since_diagnostic
  plugged,     \* USB carries packets
  connected,   \* HOST_CONNECTED
  configs,     \* CONFIGURATIONS: how many wait
  made,        \* made[p]: exchanges with p so far
  cleared,     \* cleared[p]: the last of them when the configuration changed
  got,         \* got[p]: the exchange with p the host had last
  passed,      \* history: exchanges taken in a row while a control event waited
  counts       \* control events, diagnostics, unplugs and configurations so far

queues == <<slots, signal, control, diagnostics>>
transmitter == <<task, unsent, waited, passed, connected>>
linkVars == <<queues, transmitter, plugged, configs, made, cleared, got, counts>>

Measurement(p, n) == [type |-> "measurement", peer |-> p, number |-> n]
Control == [type |-> "control"]
Diagnostic == [type |-> "diagnostic"]
Events == {Control, Diagnostic}
          \cup UNION {{Measurement(p, n) : n \in 1 .. MaxExchanges[p]} : p \in Peers}

Closed == [at |-> "closed"]
Choosing == [at |-> "choosing"]
Selecting == [at |-> "selecting"]
AwaitingSignal == [at |-> "awaiting_signal"]
Writing(e) == [at |-> "writing", event |-> e]

LinkInit ==
  /\ slots = <<>> /\ signal = FALSE /\ control = <<>> /\ diagnostics = <<>>
  /\ task = Closed /\ unsent = {} /\ waited = [control |-> 0, diagnostic |-> 0]
  /\ passed = 0 /\ plugged \in BOOLEAN /\ connected = FALSE /\ configs = 0
  /\ made = [p \in Peers |-> 0] /\ cleared = [p \in Peers |-> 0] /\ got = [p \in Peers |-> 0]
  /\ counts = [control |-> 0, diagnostic |-> 0, unplug |-> 0, config |-> 0]

-------------------------------------------------------------------------------
(* LatestExchanges.                                                         *)
IsFor(p, s) == \E i \in DOMAIN s : s[i].peer = p

Slot(p, s) == CHOOSE i \in DOMAIN s : s[i].peer = p

(* A newer exchange takes the slot of its peer; a peer that has none takes a   *)
(* free slot, or that of the oldest exchange.                                *)
Push(s, e) ==
  CASE IsFor(e.peer, s) -> Append(RemoveAt(s, Slot(e.peer, s)), e)
    [] ~IsFor(e.peer, s) /\ Len(s) = Slots -> Append(Tail(s), e)
    [] OTHER -> Append(s, e)

Restore_Never(s, e) == s
(* An interrupted exchange goes back unless a newer one has taken its place.  *)
Restore(s, e) == IF IsFor(e.peer, s) THEN s ELSE Push(s, e)

(* try_send: a full queue drops the event.                                   *)
TrySend(queue, e) == IF Len(queue) < Capacity THEN Append(queue, e) ELSE queue

Counted(kind, max) == counts[kind] < max /\ counts' = [counts EXCEPT ![kind] = @ + 1]

-------------------------------------------------------------------------------
(* The radio task.                                                          *)
Measures_Silent(p) ==
  /\ made[p] < MaxExchanges[p]
  /\ made' = [made EXCEPT ![p] = @ + 1] /\ slots' = Push(slots, Measurement(p, made'[p]))
  /\ UNCHANGED <<signal, control, diagnostics, transmitter, plugged, configs, cleared, got, counts>>
Measures(p) ==
  /\ made[p] < MaxExchanges[p]
  /\ made' = [made EXCEPT ![p] = @ + 1]
  /\ slots' = Push(slots, Measurement(p, made'[p])) /\ signal' = TRUE
  /\ UNCHANGED <<control, diagnostics, transmitter, plugged, configs, cleared, got, counts>>

(* A clock probe or status, a fleet mode, or the health the host asked for.    *)
PublishesControl ==
  /\ Counted("control", MaxControl)
  /\ control' = TrySend(control, Control)
  /\ UNCHANGED <<slots, signal, diagnostics, transmitter, plugged, configs, made, cleared, got>>

PublishesDiagnostic ==
  /\ Counted("diagnostic", MaxDiagnostics)
  /\ diagnostics' = TrySend(diagnostics, Diagnostic)
  /\ UNCHANGED <<slots, signal, control, transmitter, plugged, configs, made, cleared, got>>

(* Between two exchanges the radio task takes a new configuration.            *)
Configures ==
  /\ configs > 0 /\ configs' = configs - 1
  /\ slots' = <<>> /\ cleared' = made
  /\ control' = TrySend(control, Control)
  /\ UNCHANGED <<signal, diagnostics, transmitter, plugged, made, got, counts>>

(* route_command: a valid configuration is queued for the radio task.         *)
RoutesConfiguration ==
  /\ plugged /\ Counted("config", MaxConfigurations)
  /\ configs' = IF configs < 2 THEN configs + 1 ELSE configs
  /\ UNCHANGED <<queues, transmitter, plugged, made, cleared, got>>

-------------------------------------------------------------------------------
(* The transmit task.                                                        *)
Connects ==
  /\ task = Closed /\ plugged
  /\ connected' = TRUE /\ task' = Choosing
  /\ UNCHANGED <<queues, unsent, waited, passed, plugged, configs, made, cleared, got, counts>>

(* QueueSchedule::selected.                                                  *)
Selected(e) ==
  CASE e.type = "measurement" -> [control |-> waited.control + 1, diagnostic |-> waited.diagnostic + 1]
    [] e.type = "control" -> [control |-> 0, diagnostic |-> waited.diagnostic + 1]
    [] OTHER -> [waited EXCEPT !.diagnostic = 0]

TakesMeasurement ==
  /\ slots # <<>> /\ slots' = Tail(slots)
  /\ task' = Writing(Head(slots)) /\ waited' = Selected(Head(slots))
  /\ passed' = IF control = <<>> THEN 0 ELSE passed + 1
  /\ UNCHANGED <<control, diagnostics>>
TakesControl ==
  /\ control # <<>> /\ control' = Tail(control)
  /\ task' = Writing(Control) /\ waited' = Selected(Control) /\ passed' = 0
  /\ UNCHANGED <<slots, diagnostics>>
TakesDiagnostic ==
  /\ diagnostics # <<>> /\ diagnostics' = Tail(diagnostics)
  /\ task' = Writing(Diagnostic) /\ waited' = Selected(Diagnostic)
  /\ UNCHANGED <<slots, control, passed>>

DiagnosticFirst == waited.diagnostic >= BeforeDiagnostic /\ diagnostics # <<>>
ControlFirst == waited.control >= BeforeControl /\ control # <<>>

NextEvent ==
  \/ DiagnosticFirst /\ TakesDiagnostic
  \/ ~DiagnosticFirst /\ ControlFirst /\ TakesControl
  \/ /\ ~DiagnosticFirst /\ ~ControlFirst
     /\ \/ TakesMeasurement
        \/ slots = <<>> /\ TakesControl
        \/ slots = <<>> /\ control = <<>> /\ TakesDiagnostic
        \/ /\ slots = <<>> /\ control = <<>> /\ diagnostics = <<>>
           /\ task' = Selecting /\ UNCHANGED <<slots, control, diagnostics, waited, passed>>

Chooses ==
  /\ task = Choosing
  /\ \/ unsent = {} /\ NextEvent
     \/ /\ unsent # {} /\ \E e \in unsent : task' = Writing(e)
        /\ UNCHANGED <<slots, control, diagnostics, waited, passed>>
  /\ UNCHANGED <<signal, unsent, connected, plugged, configs, made, cleared, got, counts>>

(* select3 looks at the signal first. A signal with no exchange behind it      *)
(* leaves the task waiting for the next one.                                 *)
TakesSignal ==
  /\ signal /\ signal' = FALSE
  /\ \/ TakesMeasurement
     \/ /\ slots = <<>> /\ task' = AwaitingSignal
        /\ UNCHANGED <<slots, control, diagnostics, waited, passed>>

Wakes ==
  /\ \/ task = Selecting /\ \/ TakesSignal
                            \/ ~signal /\ TakesControl /\ UNCHANGED signal
                            \/ ~signal /\ control = <<>> /\ TakesDiagnostic /\ UNCHANGED signal
     \/ task = AwaitingSignal /\ TakesSignal
  /\ UNCHANGED <<unsent, connected, plugged, configs, made, cleared, got, counts>>

Written ==
  /\ task.at = "writing" /\ plugged
  /\ got' = IF task.event.type = "measurement"
              THEN [got EXCEPT ![task.event.peer] = task.event.number] ELSE got
  /\ task' = Choosing /\ unsent' = {}
  /\ UNCHANGED <<queues, waited, passed, connected, plugged, configs, made, cleared, counts>>

WriteFails ==
  /\ task.at = "writing" /\ ~plugged
  /\ connected' = FALSE /\ task' = Closed
  /\ IF task.event.type = "measurement"
       THEN slots' = Restore(slots, task.event) /\ signal' = TRUE /\ unsent' = {}
       ELSE unsent' = {task.event} /\ UNCHANGED <<slots, signal>>
  /\ UNCHANGED <<control, diagnostics, waited, passed, plugged, configs, made, cleared, got, counts>>

Unplugs ==
  /\ plugged /\ Counted("unplug", MaxUnplugs) /\ plugged' = FALSE
  /\ UNCHANGED <<queues, transmitter, configs, made, cleared, got>>
Plugs == ~plugged /\ plugged' = TRUE
         /\ UNCHANGED <<queues, transmitter, configs, made, cleared, got, counts>>

Transmits == Connects \/ Chooses \/ Wakes \/ Written \/ WriteFails

LinkNext ==
  \/ \E p \in Peers : Measures(p)
  \/ PublishesControl \/ PublishesDiagnostic \/ Configures \/ RoutesConfiguration
  \/ Transmits \/ Unplugs \/ Plugs

(* The executor polls both tasks, and somebody plugs the cable in again.      *)
LinkFairness == WF_linkVars(Transmits) /\ WF_linkVars(Configures) /\ WF_linkVars(Plugs)
LinkSpec == LinkInit /\ [][LinkNext]_linkVars /\ LinkFairness

-------------------------------------------------------------------------------
(* The queues keep to their capacity and the transmit task to its states; the *)
(* host is connected exactly while the task is past wait_connection.          *)
LinkTypeOK ==
  /\ slots \in Seq(Events) /\ Len(slots) <= Slots
  /\ signal \in BOOLEAN
  /\ control \in Seq({Control}) /\ Len(control) <= Capacity
  /\ diagnostics \in Seq({Diagnostic}) /\ Len(diagnostics) <= Capacity
  /\ task \in {Closed, Choosing, Selecting, AwaitingSignal} \cup {Writing(e) : e \in Events}
  /\ unsent \subseteq {Control, Diagnostic} /\ Cardinality(unsent) <= 1
  /\ waited \in [control : Nat, diagnostic : Nat]
  /\ passed \in Nat /\ plugged \in BOOLEAN /\ connected = (task # Closed) /\ configs \in 0 .. 2
  /\ made \in [Peers -> Nat] /\ cleared \in [Peers -> Nat] /\ got \in [Peers -> Nat]
  /\ counts \in [{"control", "diagnostic", "unplug", "config"} -> Nat]

InFlight(p) == task.at = "writing" /\ task.event.type = "measurement" /\ task.event.peer = p

(* The newest exchange with a peer is what the host had last, being written or *)
(* in its slot, through any failed write and reconnection, unless a new        *)
(* configuration discarded it: "the host sender retains the latest unsent     *)
(* exchange for each peer". An older one never comes after it.                *)
LatestIsKept ==
  \A p \in Peers : made[p] > cleared[p] =>
    \/ got[p] = made[p]
    \/ InFlight(p) /\ task.event.number = made[p]
    \/ \E i \in DOMAIN slots : slots[i] = Measurement(p, made[p])

(* A steady stream of exchanges keeps no control event from the host: at most  *)
(* BeforeControl of them pass one that waits, whichever way the task takes     *)
(* them (the schedule, or the signal it sleeps on) and whenever it came.       *)
ControlHasItsTurn == passed <= BeforeControl

(* The link keeps its types, the newest exchange with each peer, and the turn of  *)
(* the control events.                                                      *)
RadioInv == LinkTypeOK /\ LatestIsKept /\ ControlHasItsTurn

(* What was measured with the configuration in force reaches the host, or a   *)
(* newer exchange with the peer does, once the link is back.                  *)
ExchangesArrive ==
  \A p \in Peers : \A n \in 1 .. MaxExchanges[p] :
    made[p] = n ~> got[p] >= n \/ cleared[p] >= n

(* What the host link carries besides exchanges, the answer to a health       *)
(* request or a fleet mode a peer broadcast, is sent on: a control event does *)
(* not stay in its queue for ever.                                           *)
ControlArrives == [](control # <<>> => <>(control = <<>> \/ ~connected))
=============================================================================
