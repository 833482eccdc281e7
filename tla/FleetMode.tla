------------------------------ MODULE FleetMode ------------------------------
(***************************************************************************)
(* Switching the fleet's Wi-Fi mode: the uwb_gateway node of every drone    *)
(* (service, reader and apply threads of gateway.py), the UWB radio service *)
(* behind its host socket (host_service.rs, ranging.rs), and the air.       *)
(*                                                                         *)
(* A mode is a model value: the pair of master and network is never looked  *)
(* into.  The script fleet-network, which is not in the repository, either  *)
(* sets the drone's network to the mode it is given or fails.               *)
(***************************************************************************)
EXTENDS Naturals, Sequences, FiniteSets

CONSTANTS
  Drones, Modes,
  Commanders,       \* the drones whose service an operator calls
  NoMode,           \* Python's None
  Repeats,          \* FLEET_MODE_REPEATS
  QueueDepth,       \* QUEUE_DEPTH of the radio's command and event queues
  (* bounds of a run *)
  MaxCommands,      \* accepted service calls
  MaxLost,          \* frames any one receiver misses
  MaxFailures,      \* failures of fleet-network
  MaxDrops,         \* disconnections of a host socket
  MaxReinits,       \* radios that are initialised again after an error
  MaxLocal          \* modes an operator sets on one drone with `fleet local`

ASSUME FleetConstants ==
  /\ Commanders \subseteq Drones
  /\ NoMode \notin Modes
  /\ Repeats \in Nat \ {0} /\ QueueDepth \in Nat \ {0}
  /\ {MaxCommands, MaxLost, MaxFailures, MaxDrops, MaxReinits, MaxLocal} \subseteq Nat

Threads == {"service", "reader"}
Maybe == Modes \cup {NoMode}

VARIABLES
  (* gateway.py *)
  requested,    \* requested_mode
  target,       \* target_mode
  applied,      \* applied_mode
  worker,       \* the apply thread: waiting, the mode it applies, or dead
  running,      \* the node has not been ended by _raise_apply_error
  linked,       \* stream is not None
  calling,      \* the mode of a service call between _send and _queue_mode
  publishing,   \* the mode each thread has queued and not yet published
  published,    \* what the latched topic /fleet/mode holds
  (* the radio service *)
  commands,     \* from the host socket to handle_command
  pending_fleet_mode,
  events,       \* FleetMode events on their way to the gateway
  (* external *)
  network,      \* the mode fleet-network has set last
  (* history and budgets *)
  issued,       \* the accepted commands of all operators, in order
  lost, failures, drops, reinits, locals

gateway == <<requested, target, applied, worker, running, linked, calling, publishing, published>>
radioService == <<commands, pending_fleet_mode, events>>
budgets == <<lost, failures, drops, reinits, locals>>
modeVars == <<gateway, radioService, network, issued, budgets>>

NoPending == [mode |-> NoMode, remaining |-> 0]
Waiting == "waiting"
Dead == "dead"

ModeInit ==
  /\ requested = [d \in Drones |-> NoMode]
  /\ target = [d \in Drones |-> NoMode]
  /\ applied = [d \in Drones |-> NoMode]
  /\ worker = [d \in Drones |-> Waiting]
  /\ running = [d \in Drones |-> TRUE]
  /\ linked = [d \in Drones |-> TRUE]
  /\ calling = [d \in Drones |-> NoMode]
  /\ publishing = [d \in Drones |-> [t \in Threads |-> NoMode]]
  /\ published = [d \in Drones |-> NoMode]
  /\ commands = [d \in Drones |-> <<>>]
  /\ pending_fleet_mode = [d \in Drones |-> NoPending]
  /\ events = [d \in Drones |-> <<>>]
  /\ network = [d \in Drones |-> NoMode]
  /\ issued = <<>>
  /\ lost = [d \in Drones |-> 0] /\ failures = 0 /\ drops = 0 /\ reinits = 0 /\ locals = 0

-----------------------------------------------------------------------------
(* gateway.py.                                                              *)

(* A slip: a mode that arrives while another waits or is applied is dropped. *)
QueueMode_WhenIdle(d, t, m) ==
  /\ requested' = [requested EXCEPT ![d] = m]
  /\ target' = IF target[d] = NoMode THEN [target EXCEPT ![d] = m] ELSE target
  /\ publishing' = IF m = requested[d] THEN publishing
                   ELSE [publishing EXCEPT ![d][t] = m]

(* _queue_mode under mode_cond, by either thread.                           *)
QueueMode(d, t, m) ==
  IF m = requested[d] THEN UNCHANGED <<requested, target, publishing>>
  ELSE /\ requested' = [requested EXCEPT ![d] = m]
       /\ target' = [target EXCEPT ![d] = m]
       /\ publishing' = [publishing EXCEPT ![d][t] = m]

(* ... and then, outside the lock, the latched topic.                       *)
Publish(d, t) ==
  /\ publishing[d][t] # NoMode
  /\ published' = [published EXCEPT ![d] = publishing[d][t]]
  /\ publishing' = [publishing EXCEPT ![d][t] = NoMode]
  /\ UNCHANGED <<requested, target, applied, worker, running, linked, calling, radioService,
                 network, issued, budgets>>

(* _set_fleet_mode: refused while disconnected; a command that finds the     *)
(* radio's queue full is dropped there.                                     *)
CallService(d, m) ==
  /\ running[d] /\ linked[d]
  /\ calling[d] = NoMode /\ publishing[d]["service"] = NoMode
  /\ Len(issued) < MaxCommands
  /\ calling' = [calling EXCEPT ![d] = m]
  /\ commands' = IF Len(commands[d]) < QueueDepth
                 THEN [commands EXCEPT ![d] = Append(@, m)] ELSE commands
  /\ issued' = Append(issued, m)
  /\ UNCHANGED <<requested, target, applied, worker, running, linked, publishing, published,
                 pending_fleet_mode, events, network, budgets>>

QueueFromService(d) ==
  /\ calling[d] # NoMode
  /\ QueueMode(d, "service", calling[d])
  /\ calling' = [calling EXCEPT ![d] = NoMode]
  /\ UNCHANGED <<applied, worker, running, linked, published, radioService, network, issued,
                 budgets>>

(* A slip: the last event first.                                             *)
QueueFromReader_LastFirst(d) ==
  /\ running[d] /\ linked[d] /\ events[d] # <<>>
  /\ publishing[d]["reader"] = NoMode
  /\ QueueMode(d, "reader", events[d][Len(events[d])])
  /\ events' = [events EXCEPT ![d] = SubSeq(@, 1, Len(@) - 1)]
  /\ UNCHANGED <<applied, worker, running, linked, calling, published, commands, pending_fleet_mode,
                 network, issued, budgets>>

(* _read_loop and _event: one fleet_mode_received.                          *)
QueueFromReader(d) ==
  /\ running[d] /\ linked[d] /\ events[d] # <<>>
  /\ publishing[d]["reader"] = NoMode
  /\ QueueMode(d, "reader", Head(events[d]))
  /\ events' = [events EXCEPT ![d] = Tail(@)]
  /\ UNCHANGED <<applied, worker, running, linked, calling, published, commands, pending_fleet_mode,
                 network, issued, budgets>>

TakeTarget(d) ==
  /\ worker[d] = Waiting /\ target[d] # NoMode
  /\ worker' = [worker EXCEPT ![d] = target[d]]
  /\ UNCHANGED <<requested, target, applied, running, linked, calling, publishing, published,
                 radioService, network, issued, budgets>>

FinishApply(d) ==
  /\ worker[d] \in Modes
  /\ network' = [network EXCEPT ![d] = worker[d]]
  /\ applied' = [applied EXCEPT ![d] = worker[d]]
  /\ target' = [target EXCEPT ![d] = IF @ = worker[d] THEN NoMode ELSE @]
  /\ worker' = [worker EXCEPT ![d] = Waiting]
  /\ UNCHANGED <<requested, running, linked, calling, publishing, published, radioService, issued,
                 budgets>>

(* fleet-network fails: the thread ends with apply_error set ...             *)
FailApply(d) ==
  /\ worker[d] \in Modes /\ failures < MaxFailures
  /\ failures' = failures + 1
  /\ worker' = [worker EXCEPT ![d] = Dead]
  /\ UNCHANGED <<requested, target, applied, running, linked, calling, publishing, published,
                 radioService, network, issued, lost, drops, reinits, locals>>

(* ... and the timer raises it in the executor, which ends the node.         *)
RaiseApplyError(d) ==
  /\ worker[d] = Dead /\ running[d]
  /\ calling[d] = NoMode /\ publishing[d]["service"] = NoMode
  /\ running' = [running EXCEPT ![d] = FALSE]
  /\ linked' = [linked EXCEPT ![d] = FALSE]
  /\ UNCHANGED <<requested, target, applied, worker, calling, publishing, published,
                 radioService, network, issued, budgets>>

(* The host socket breaks: events already written to it, the oldest, and     *)
(* commands not yet read from it, the newest, are gone.                     *)
Disconnect(d) ==
  /\ linked[d] /\ drops < MaxDrops
  /\ drops' = drops + 1
  /\ linked' = [linked EXCEPT ![d] = FALSE]
  /\ \E n \in 0 .. Len(events[d]) :
       events' = [events EXCEPT ![d] = SubSeq(@, n + 1, Len(@))]
  /\ \E n \in 0 .. Len(commands[d]) :
       commands' = [commands EXCEPT ![d] = SubSeq(@, 1, n)]
  /\ UNCHANGED <<requested, target, applied, worker, running, calling, publishing, published,
                 pending_fleet_mode, network, issued, lost, failures, reinits, locals>>

Reconnect(d) ==
  /\ running[d] /\ ~linked[d]
  /\ linked' = [linked EXCEPT ![d] = TRUE]
  /\ UNCHANGED <<requested, target, applied, worker, running, calling, publishing, published,
                 radioService, network, issued, budgets>>

-----------------------------------------------------------------------------
(* The radio service and the air.                                           *)

(* handle_command: the repeats left of an older mode are dropped.            *)
HandleCommand(d) ==
  /\ commands[d] # <<>>
  /\ pending_fleet_mode' =
       [pending_fleet_mode EXCEPT ![d] = [mode |-> Head(commands[d]), remaining |-> Repeats]]
  /\ commands' = [commands EXCEPT ![d] = Tail(@)]
  /\ UNCHANGED <<gateway, events, network, issued, budgets>>

AfterSend(p) ==
  IF p.remaining = 1 THEN NoPending ELSE [p EXCEPT !.remaining = @ - 1]

(* send_fleet_mode: every other drone hears the frame or misses it; one that *)
(* hears it loses it when its event queue is full.                          *)
SendMode(d) ==
  /\ pending_fleet_mode[d].remaining > 0
  /\ \E heard \in SUBSET (Drones \ {d}) :
       /\ \A r \in Drones \ ({d} \cup heard) : lost[r] < MaxLost
       /\ lost' = [r \in Drones |-> IF r \in heard \cup {d} THEN lost[r] ELSE lost[r] + 1]
       /\ events' = [r \in Drones |->
                       IF r \in heard /\ Len(events[r]) < QueueDepth
                       THEN Append(events[r], pending_fleet_mode[d].mode) ELSE events[r]]
  /\ pending_fleet_mode' = [pending_fleet_mode EXCEPT ![d] = AfterSend(@)]
  /\ UNCHANGED <<gateway, commands, network, issued, failures, drops, reinits, locals>>

(* An error of the radio ends run(); the Ranger that takes over has nothing    *)
(* to send, whatever repeats were left.  The host's queues stay.             *)
RadioReinitializes(d) ==
  /\ pending_fleet_mode[d] # NoPending /\ reinits < MaxReinits
  /\ reinits' = reinits + 1
  /\ pending_fleet_mode' = [pending_fleet_mode EXCEPT ![d] = NoPending]
  /\ UNCHANGED <<gateway, commands, events, network, issued, lost, failures, drops, locals>>

(* `fleet local`: the operator runs fleet-network on one drone directly.     *)
SetLocally(d, m) ==
  /\ worker[d] \notin Modes
  /\ locals < MaxLocal
  /\ locals' = locals + 1
  /\ network' = [network EXCEPT ![d] = m]
  /\ UNCHANGED <<gateway, radioService, issued, lost, failures, drops, reinits>>

GatewayStep(d) ==
  \/ \E t \in Threads : Publish(d, t)
  \/ QueueFromService(d) \/ QueueFromReader(d)
  \/ TakeTarget(d) \/ FinishApply(d) \/ RaiseApplyError(d) \/ Reconnect(d)
RadioStep(d) == HandleCommand(d) \/ SendMode(d)
Operator ==
  \/ \E d \in Commanders, m \in Modes : CallService(d, m)
  \/ \E d \in Drones, m \in Modes : SetLocally(d, m)
Trouble(d) == FailApply(d) \/ Disconnect(d) \/ RadioReinitializes(d)

ModeNext == \/ \E d \in Drones : GatewayStep(d) \/ RadioStep(d) \/ Trouble(d)
            \/ Operator

(* Every thread that can run does so; operators and trouble are free.        *)
ModeFairness ==
  \A d \in Drones :
    /\ \A t \in Threads : WF_modeVars(Publish(d, t))
    /\ WF_modeVars(QueueFromService(d)) /\ WF_modeVars(QueueFromReader(d))
    /\ WF_modeVars(TakeTarget(d)) /\ WF_modeVars(FinishApply(d) \/ FailApply(d))
    /\ WF_modeVars(RaiseApplyError(d)) /\ WF_modeVars(Reconnect(d))
    /\ WF_modeVars(HandleCommand(d)) /\ WF_modeVars(SendMode(d))

ModeSpec == ModeInit /\ [][ModeNext]_modeVars
FairModeSpec == ModeSpec /\ ModeFairness

-----------------------------------------------------------------------------
(* Types of the state; the sequences hold modes only.                        *)
ModeTypeOK ==
  /\ {requested, target, applied, calling, published, network} \subseteq [Drones -> Maybe]
  /\ worker \in [Drones -> Modes \cup {Waiting, Dead}]
  /\ running \in [Drones -> BOOLEAN] /\ linked \in [Drones -> BOOLEAN]
  /\ publishing \in [Drones -> [Threads -> Maybe]]
  /\ pending_fleet_mode \in [Drones -> [mode : Maybe, remaining : 0 .. Repeats]]
  /\ \A d \in Drones : commands[d] \in Seq(Modes) /\ events[d] \in Seq(Modes)
  /\ \A d \in Drones :
       (pending_fleet_mode[d].mode = NoMode) <=> (pending_fleet_mode[d].remaining = 0)
  /\ issued \in Seq(Modes)

Newest == issued[Len(issued)]
NewestIsNew ==
  issued # <<>> /\ \A i \in 1 .. Len(issued) - 1 : issued[i] # Newest

(* gateway.py:178, "a late repeat of an older mode cannot re-queue behind a  *)
(* newer request": a drone that has the newest command keeps it until the    *)
(* next one is given.                                                       *)
KeepsNewest ==
  \A d \in Drones : NewestIsNew /\ requested[d] = Newest /\ issued' = issued
                     => requested'[d] = Newest
NoStaleRequeue == [][KeepsNewest]_modeVars

(* The repeats outlast the losses: when the operator is done, every drone    *)
(* ends up on the last mode it was given, however slow its fleet-network     *)
(* (unless a radio started over and forgot the repeats it had left).         *)
OnNewest == issued # <<>> => \A d \in Drones : network[d] = Newest /\ published[d] = Newest
FleetAgrees == <>[](reinits = 0 => OnNewest)

(* Whatever is requested while an apply is in flight is applied in the end,  *)
(* unless the script fails.                                                 *)
CaughtUp ==
  \A d \in Drones : worker[d] # Dead => applied[d] = requested[d] /\ target[d] = NoMode
AppliedCatchesUp == <>[]CaughtUp

(* network/README.md:68, the service "sends the same mode ... and applies it *)
(* locally": after an accepted call the drone gets onto the mode, unless     *)
(* another one is requested first or the script fails.  It does not when the *)
(* gateway has asked for this mode before and the drone was set by hand      *)
(* since: _queue_mode compares with what was requested (gateway.py:182).     *)
AcceptedIsApplied ==
  \A d \in Commanders, m \in Modes :
    calling[d] = m ~>
      \/ calling[d] = NoMode /\ network[d] = m
      \/ calling[d] = NoMode /\ requested[d] # m
      \/ worker[d] = Dead

=============================================================================
