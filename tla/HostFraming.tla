----------------------------- MODULE HostFraming -----------------------------
(***************************************************************************)
(* The byte stream between a radio and its host: a message with its checksum is       *)
(* stuffed (COBS) so that the delimiter 0 ends it and is nowhere else, and the         *)
(* receiver cuts the stream at the delimiters.  There are three receivers: frames()      *)
(* of the Python host, rx_task of the DWM3001, which waits for a first delimiter and     *)
(* passes empty frames over, and run_connection of the DW1000 service, which hangs up    *)
(* on a frame it cannot decode.                                                  *)
(*                                                                         *)
(* A message is a few bytes and their checksum; what the fields mean is RadioHost's.      *)
(* The checksum is sound: a frame the line has damaged does not pass it.  MaxCode stands  *)
(* for 0xFF and a byte is at most MaxCode.                                          *)
(***************************************************************************)
EXTENDS Integers, Sequences, SequencesExt

CONSTANTS
  MaxCode,            \* 0xFF
  MaxFrame,           \* MAX_FRAME_SIZE, HOST_FRAME_MAX_SIZE
  Bodies,             \* messages, without their checksum
  Stale,              \* what a connection before may have left in the line
  MaxSent, MaxFaults,  \* bounds
  MaxLine             \* bound: bytes of the line at which the sender still goes on

VARIABLES
  receiver,    \* "frames", "rx_task" or "run_connection"
  marked,      \* whether the host sent a delimiter when it opened the port
  up,          \* whether the receiver still reads
  line,        \* bytes on their way
  frame, discarding, synchronizing,   \* the receiver
  sent, got,   \* bodies
  bad,         \* frames the receiver could not decode
  faults       \* used up bound

frameVars == <<receiver, marked, up, line, frame, discarding, synchronizing, sent, got, bad, faults>>

Bytes == 0 .. MaxCode
Total(s) == FoldLeft(LAMBDA a, b : a + b, 0, s)
Raw(body) == Append(body, (Total(body) + Len(body)) % (MaxCode + 1))

-------------------------------------------------------------------------------
(* _cobs_encode: a code says how far the next zero is; the largest one has no zero.      *)
(* A slip: it has one.                                                          *)
Stuffed_Always(st, byte) ==
  IF byte = 0 THEN [out |-> Append([st.out EXCEPT ![st.at] = st.code], 0), at |-> Len(st.out) + 1, code |-> 1]
  ELSE [st EXCEPT !.out = Append(@, byte), !.code = @ + 1]
Stuffed(st, byte) ==
  IF byte = 0 THEN [out |-> Append([st.out EXCEPT ![st.at] = st.code], 0), at |-> Len(st.out) + 1, code |-> 1]
  ELSE IF st.code + 1 # MaxCode THEN [st EXCEPT !.out = Append(@, byte), !.code = @ + 1]
  ELSE [out |-> Append(Append([st.out EXCEPT ![st.at] = MaxCode], byte), 0),
        at |-> Len(st.out) + 2, code |-> 1]

CobsEncode(raw) ==
  LET st == FoldLeft(Stuffed, [out |-> <<0>>, at |-> 1, code |-> 1], raw)
  IN Append([st.out EXCEPT ![st.at] = st.code], 0)

(* _cobs_decode, or "error".                                                      *)
Error == <<-1>>
CobsDecode(s) ==
  LET end == Len(s) - 1
      from[i \in 1 .. Len(s) + MaxCode] ==
        IF i > end THEN <<>>
        ELSE IF s[i] = 0 \/ i + s[i] - 1 > end THEN Error
        ELSE LET rest == from[i + s[i]]
             IN IF rest = Error THEN Error
                ELSE SubSeq(s, i + 1, i + s[i] - 1)
                     \o (IF s[i] # MaxCode /\ i + s[i] <= end THEN <<0>> ELSE <<>>) \o rest
  IN from[1]

(* decode_frame: the body, if it is long enough and its checksum is right.               *)
Decoded(s) ==
  LET raw == CobsDecode(s)
  IN IF raw = Error THEN Error
     ELSE IF Len(raw) < 2 THEN Error
     ELSE IF Front(raw) \notin Bodies \/ raw # Raw(Front(raw)) THEN Error ELSE Front(raw)

-------------------------------------------------------------------------------
Receivers == {"frames", "rx_task", "run_connection"}

(* A host with a command to send sends a delimiter first, for the stale bytes' sake; one    *)
(* that only listens, and answers clock probes, does not.                               *)
Init ==
  /\ receiver \in Receivers /\ up = TRUE
  /\ marked \in (IF receiver = "rx_task" THEN BOOLEAN ELSE {FALSE})
  /\ \E stale \in (IF receiver = "run_connection" THEN {<<>>} ELSE Stale) :
       line = stale \o (IF marked THEN <<0>> ELSE <<>>)
  /\ frame = <<>> /\ discarding = FALSE /\ synchronizing = (receiver = "rx_task")
  /\ sent = <<>> /\ got = <<>> /\ bad = 0 /\ faults = 0

Send ==
  /\ Len(sent) < MaxSent /\ Len(line) <= MaxLine
  /\ \E body \in Bodies : sent' = Append(sent, body) /\ line' = line \o CobsEncode(Raw(body))
  /\ UNCHANGED <<receiver, marked, up, frame, discarding, synchronizing, got, bad, faults>>

(* A byte on its way is lost or becomes another one.                                   *)
Garble ==
  /\ faults < MaxFaults /\ faults' = faults + 1
  /\ \E i \in DOMAIN line :
       \/ line' = RemoveAt(line, i)
       \/ \E b \in Bytes \ {line[i]} : line' = [line EXCEPT ![i] = b]
  /\ UNCHANGED <<receiver, marked, up, frame, discarding, synchronizing, sent, got, bad>>

-------------------------------------------------------------------------------
(* The receivers, byte by byte; how the bytes are read in chunks makes no difference.     *)
Takes(byte) == /\ line # <<>> /\ Head(line) = byte /\ line' = Tail(line)
               /\ UNCHANGED <<receiver, marked, sent, faults>>

Synchronizes ==
  /\ up /\ synchronizing
  /\ \E byte \in Bytes : Takes(byte) /\ synchronizing' = (byte # 0)
  /\ UNCHANGED <<up, frame, discarding, got, bad>>

(* A slip: the delimiter goes with what is discarded, and the next frame after it.        *)
Discards_Forever ==
  /\ up /\ ~synchronizing /\ discarding
  /\ \E byte \in Bytes : Takes(byte) /\ UNCHANGED discarding
  /\ UNCHANGED <<up, frame, synchronizing, got, bad>>

Discards ==
  /\ up /\ ~synchronizing /\ discarding
  /\ \E byte \in Bytes : Takes(byte) /\ discarding' = (byte # 0)
  /\ UNCHANGED <<up, frame, synchronizing, got, bad>>

PassesOver ==
  /\ up /\ ~synchronizing /\ ~discarding /\ receiver = "rx_task" /\ frame = <<>>
  /\ Takes(0) /\ UNCHANGED <<up, frame, discarding, synchronizing, got, bad>>

Reads == up /\ ~synchronizing /\ ~discarding

(* The byte that does not fit goes with the frame, a delimiter too.                      *)
Overflows ==
  /\ Reads /\ receiver # "run_connection" /\ Len(frame) = MaxFrame
  /\ \E byte \in Bytes : Takes(byte)
  /\ discarding' = TRUE /\ frame' = <<>>
  /\ bad' = IF receiver = "rx_task" THEN bad + 1 ELSE bad
  /\ UNCHANGED <<up, synchronizing, got>>

Room == receiver = "run_connection" \/ Len(frame) < MaxFrame

Gathers ==
  /\ Reads /\ Room
  /\ \E byte \in Bytes \ {0} : Takes(byte) /\ frame' = Append(frame, byte)
  /\ UNCHANGED <<up, discarding, synchronizing, got, bad>>

Delivers ==
  /\ Reads /\ Room /\ ~(receiver = "rx_task" /\ frame = <<>>)
  /\ Takes(0) /\ frame' = <<>>
  /\ \E body \in {Decoded(Append(frame, 0))} :
       /\ got' = IF body = Error THEN got ELSE Append(got, body)
       /\ bad' = IF body = Error THEN bad + 1 ELSE bad
       /\ up' = (body # Error \/ receiver # "run_connection")
  /\ UNCHANGED <<discarding, synchronizing>>

Next == Send \/ Garble \/ Synchronizes \/ Discards \/ PassesOver \/ Overflows \/ Gathers \/ Delivers

-------------------------------------------------------------------------------
TypeOK ==
  /\ frame \in Seq(Bytes \ {0}) /\ line \in Seq(Bytes) /\ bad \in Nat
  /\ discarding => frame = <<>> /\ receiver # "run_connection"
  /\ synchronizing => frame = <<>> /\ receiver = "rx_task"

(* Stuffing is undone by unstuffing, has its only zero at the end, and adds a byte for     *)
(* every full run and two for the frame.                                           *)
StuffingIsUndone ==
  \A body \in Bodies :
    LET s == CobsEncode(Raw(body))
    IN /\ Decoded(s) = body /\ s[Len(s)] = 0 /\ \A i \in 1 .. Len(s) - 1 : s[i] # 0
       /\ Len(s) <= Len(body) + 1 + 2 + (Len(body) + 1) \div (MaxCode - 1)

(* Nothing is received that was not sent, in the order it was sent.                      *)
InOrder(s, t) ==
  LET upto[i \in 0 .. Len(s)] ==
        IF i = 0 THEN 0
        ELSE LET later == {j \in upto[i - 1] + 1 .. Len(t) + 1 : j = Len(t) + 1 \/ t[j] = s[i]}
             IN CHOOSE j \in later : \A k \in later : j <= k
  IN upto[Len(s)] <= Len(t)

GotWasSent == InOrder(got, sent)

(* Once the line is empty, all that was sent has come but a few frames.  A fault costs     *)
(* the frame it hits; if it hits a delimiter, the next one; and one more if the two         *)
(* together are just too long, for the delimiter is then the byte that does not fit.       *)
(* Stale bytes cost the first frame, and in frames() the next one for the same reason,      *)
(* where no delimiter goes before it.  run_connection hangs up instead.                   *)
Cost == CASE receiver = "frames" -> 3 * faults + 2
          [] receiver = "rx_task" -> 3 * faults + (IF marked THEN 0 ELSE 1)
          [] receiver = "run_connection" -> faults
NoFrameIsForgotten ==
  up /\ line = <<>> => Len(sent) - Len(got) <= Cost
=============================================================================
