---------------------------- MODULE MCRadioHost ----------------------------
(* The host link.  A behaviour runs the transmit task with two peers            *)
(* (RadioHost), or bytes through one of the receivers (HostFraming).           *)
EXTENDS RadioHost

CONSTANTS p1, p2
VARIABLES
  part,
  receiver, marked, up, line, frame, discarding, synchronizing, sent, received, bad, faults

MCExchanges == (p1 :> 3) @@ (p2 :> 1)

(* Codes of three, so that a run of two bytes is full: with its checksum one     *)
(* message ends with a full run, the other has one before a zero; frames of up to  *)
(* eight bytes.  Six frames are more than one fault and stale bytes may cost.      *)
Framing == INSTANCE HostFraming WITH
  MaxCode <- 3, MaxFrame <- 8, Bodies <- {<<2>>, <<1, 1, 0>>},
  Stale <- {<<>>, <<1>>, <<2, 2>>}, MaxSent <- 6, MaxFaults <- 1,
  MaxLine <- 1, got <- received

frameVars == <<receiver, marked, up, line, frame, discarding, synchronizing, sent, received,
               bad, faults>>
FramingRests ==
  /\ receiver = "frames" /\ marked = FALSE /\ up = TRUE /\ line = <<>> /\ frame = <<>>
  /\ discarding = FALSE /\ synchronizing = FALSE /\ sent = <<>> /\ received = <<>> /\ bad = 0 /\ faults = 0

MCInit ==
  \/ part = "tasks" /\ LinkInit /\ FramingRests
  \/ part = "bytes" /\ LinkInit /\ plugged /\ Framing!Init
Tasks == part = "tasks" /\ UNCHANGED <<part, frameVars>>
Bytes == part = "bytes" /\ UNCHANGED <<part, linkVars>>
MCNext == \/ Tasks /\ LinkNext
          \/ Bytes /\ Framing!Next

hostVars == <<part, linkVars, frameVars>>
MCSpec ==
  /\ MCInit /\ [][MCNext]_hostVars
  /\ WF_hostVars(Tasks /\ Transmits) /\ WF_hostVars(Tasks /\ Configures)
  /\ WF_hostVars(Tasks /\ Plugs)

(* Stuffing is undone by unstuffing, nothing is received that was not sent, in     *)
(* that order, and a fault costs a few frames of the six only (HostFraming).  *)
FramingInv ==
  part = "bytes" => /\ Framing!TypeOK /\ Framing!StuffingIsUndone
                    /\ Framing!GotWasSent /\ Framing!NoFrameIsForgotten
=============================================================================
