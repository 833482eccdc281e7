---------------------------- MODULE CaptureProofs ----------------------------
(***************************************************************************)
(* Proofs about the camera's frames, for any number of slots, sinks, frames,  *)
(* processes and deaths.  Of the pool (FramePool): its types, that the        *)
(* recorder's copy is the frame it selected, that what is borrowed is not     *)
(* overwritten, that a lease and the pool's count of it agree, and that the   *)
(* camera is refused only for want of slots.  Of the processes about it       *)
(* (Capture): what the owner of the camera, those that claim and read the     *)
(* pool, and the flight recorder keep true, and that flow counts time once.   *)
(***************************************************************************)
EXTENDS FramePool, Capture, WellFoundedInduction, FiniteSetTheorems, FunctionTheorems,
        SequenceTheorems, TLAPS

-----------------------------------------------------------------------------
(* Arithmetic.                                                              *)

(* Generations alternate: one more changes the parity, two more keep it.     *)
LEMMA Parity ==
  ASSUME NEW g \in Nat
  PROVE  (Odd(g + 1) <=> ~Odd(g)) /\ (Odd(g + 2) <=> Odd(g))
BY DEF Odd

(* Slots are counted round the ring.                                        *)
LEMMA RingWraps ==
  ASSUME NEW n \in Nat
  PROVE  n % SlotCount \in Slots
<1>1. SlotCount \in Nat /\ SlotCount >= 3
  BY PoolConstants
<1> QED
  BY <1>1 DEF Slots

(* When a slot is free the ring search ends on one of the free slots.        *)
LEMMA FirstUnleasedIsFree ==
  ASSUME next_slot \in Slots, Unleased # {}
  PROVE  FirstUnleased \in Slots /\ leases[FirstUnleased] = 0
<1> DEFINE Offsets == {Offset(s) : s \in Unleased}
<1>1. SlotCount \in Nat /\ SlotCount >= 3
  BY PoolConstants
<1>2. \A s \in Unleased : Offset(s) \in Nat
  <2>1. ASSUME NEW s \in Unleased PROVE s + SlotCount - next_slot \in Nat
    BY <1>1 DEF Unleased, Slots
  <2> QED
    BY <1>1, <2>1, RingWraps DEF Offset, Slots
<1>3. Offsets \subseteq Nat /\ Offsets # {}
  BY <1>2
<1>4. PICK m \in Offsets : \A n \in Offsets : ~(<<n, m>> \in OpToRel(<, Nat))
  <2> HIDE DEF Offsets
  <2> QED
    BY <1>3, WFMin, NatLessThanWellFounded, Zenon
<1>5. ASSUME NEW n \in Offsets
      PROVE  m <= n
  <2>1. m \in Nat /\ n \in Nat
    BY <1>3
  <2>2. ~(<<n, m>> \in {ss \in Nat \X Nat : ss[1] < ss[2]})
    BY <1>4 DEF OpToRel
  <2>3. ~(n < m)
    BY <2>1, <2>2
  <2> QED
    BY <2>1, <2>3
<1>6. \E s \in Unleased : \A t \in Unleased : Offset(s) <= Offset(t)
  BY <1>5
<1>7. FirstUnleased \in Unleased
  BY <1>6 DEF FirstUnleased
<1> QED
  BY <1>7 DEF Unleased

-----------------------------------------------------------------------------
(* Types.                                                                   *)

(* A fresh pool.                                                            *)
LEMMA InitTypes == Init => TypeOK
<1> SUFFICES ASSUME Init PROVE TypeOK
  OBVIOUS
<1>1. 0 \in Slots
  BY PoolConstants DEF Slots
<1>2. writer \in WriterState
  BY <1>1 DEF Init, Resting, WriterState
<1>3. reader \in ReaderState
  BY <1>1 DEF Init, Idle, ReaderState
<1>4. copied \in CopyState
  BY DEF Init, Nothing, CopyState
<1>5. queue \in [Consumers -> Seq(Lease)] /\ busy \in [Consumers -> Lease \cup {NoLease}]
  BY DEF Init
<1> QED
  BY <1>1, <1>2, <1>3, <1>4, <1>5 DEF Init, TypeOK

(* The writing of a slot, from its reservation to the header.                *)
LEMMA WriteTypes ==
  ASSUME TypeOK, \/ BeginWrite \/ PoolFull \/ AbortWrite \/ WriteFront \/ WriteBack
                 \/ CommitMetadata \/ CommitGeneration \/ CommitHeader
  PROVE  TypeOK'
<1>0. 0 \in Slots /\ SlotCount \in Nat /\ writer.slot \in Slots
  BY PoolConstants DEF Slots, TypeOK, WriterState
<1>1. CASE BeginWrite
  <2> DEFINE s == FirstUnleased
  <2>1. s \in Slots
    BY <1>1, FirstUnleasedIsFree DEF BeginWrite, TypeOK
  <2>2. next_slot' \in Slots
    <3>1. s + 1 \in Nat
      BY <2>1 DEF Slots
    <3> QED
      BY <1>1, <3>1, RingWraps DEF BeginWrite
  <2>3. gen' \in [Slots -> Nat]
    <3>1. gen' = [gen EXCEPT ![s] = IF Odd(@) THEN @ + 2 ELSE @ + 1] /\ gen \in [Slots -> Nat]
      BY <1>1 DEF BeginWrite, TypeOK
    <3> HIDE DEF s
    <3> QED
      BY <2>1, <3>1
  <2>4. writer' \in WriterState
    BY <1>1, <2>1 DEF BeginWrite, WriterState
  <2>5. writes' \in Nat
    BY <1>1 DEF BeginWrite, TypeOK
  <2> QED
    BY <1>1, <2>2, <2>3, <2>4, <2>5 DEF BeginWrite, TypeOK, recorder
<1>2. CASE PoolFull
  <2>1. drops' \in Nat /\ writes' \in Nat
    BY <1>2 DEF PoolFull, TypeOK
  <2> QED
    BY <1>2, <2>1 DEF PoolFull, TypeOK, memory, recorder
<1>3. CASE AbortWrite
  <2>1. writer' \in WriterState
    BY <1>0, <1>3 DEF AbortWrite, Resting, WriterState
  <2> QED
    BY <1>3, <2>1 DEF AbortWrite, TypeOK, memory, recorder, bounds
<1>4. CASE WriteFront
  <2>1. front' \in [Slots -> Nat]
    <3>1. /\ front' = [front EXCEPT ![writer.slot] = sequence + 1]
          /\ front \in [Slots -> Nat] /\ sequence \in Nat
      BY <1>4 DEF WriteFront, TypeOK
    <3> QED
      BY <1>0, <3>1
  <2>2. writer' \in WriterState
    BY <1>4 DEF WriteFront, WriterState, TypeOK
  <2> QED
    BY <1>4, <2>1, <2>2 DEF WriteFront, TypeOK, recorder, bounds
<1>5. CASE WriteBack
  <2>1. back' \in [Slots -> Nat]
    <3>1. /\ back' = [back EXCEPT ![writer.slot] = sequence + 1]
          /\ back \in [Slots -> Nat] /\ sequence \in Nat
      BY <1>5 DEF WriteBack, TypeOK
    <3> QED
      BY <1>0, <3>1
  <2>2. writer' \in WriterState
    BY <1>5 DEF WriteBack, WriterState, TypeOK
  <2> QED
    BY <1>5, <2>1, <2>2 DEF WriteBack, TypeOK, recorder, bounds
<1>6. CASE CommitMetadata
  <2>1. seq' \in [Slots -> Nat] /\ sequence' \in Nat
    <3>1. /\ seq' = [seq EXCEPT ![writer.slot] = sequence + 1] /\ sequence' = sequence + 1
          /\ seq \in [Slots -> Nat] /\ sequence \in Nat
      BY <1>6 DEF CommitMetadata, TypeOK
    <3> QED
      BY <1>0, <3>1
  <2>2. writer' \in WriterState
    BY <1>6 DEF CommitMetadata, WriterState, TypeOK
  <2> QED
    BY <1>6, <2>1, <2>2 DEF CommitMetadata, TypeOK, recorder, bounds
<1>7. CASE CommitGeneration
  <2>1. gen' \in [Slots -> Nat]
    <3>1. /\ gen' = [gen EXCEPT ![writer.slot] = @ + 1]
          /\ gen \in [Slots -> Nat] /\ sequence \in Nat
      BY <1>7 DEF CommitGeneration, TypeOK
    <3> QED
      BY <1>0, <3>1
  <2>2. writer' \in WriterState
    BY <1>7 DEF CommitGeneration, WriterState, TypeOK
  <2> QED
    BY <1>7, <2>1, <2>2 DEF CommitGeneration, TypeOK, recorder, bounds
<1>8. CASE CommitHeader
  <2>1. published' \in Nat /\ writer' \in WriterState
    BY <1>8 DEF CommitHeader, WriterState, TypeOK
  <2> QED
    BY <1>8, <2>1 DEF CommitHeader, TypeOK, recorder, bounds
<1> QED
  BY <1>1, <1>2, <1>3, <1>4, <1>5, <1>6, <1>7, <1>8

(* The fan-out to the sinks.                                                *)
LEMMA FanOutTypes ==
  ASSUME TypeOK, FanOut \/ FanOutEnds
  PROVE  TypeOK'
<1>1. CASE FanOut
  <2> DEFINE k == writer.sink
             s == writer.slot
             frame == [slot |-> s, sequence |-> seq[s]]
             kept == IF Len(queue[k]) = Depth THEN Tail(queue[k]) ELSE queue[k]
  <2>0. /\ k \in Consumers /\ s \in Slots
        /\ Depth \in Nat \ {0}
        /\ queue \in [Consumers -> Seq(Lease)] /\ leases \in [Slots -> Int]
        /\ seq[s] \in Nat
    BY <1>1, PoolConstants DEF FanOut, TypeOK, WriterState
  <2>1. frame \in Lease
    BY <2>0 DEF Lease
  <2>2. ASSUME Len(queue[k]) = Depth
        PROVE  Head(queue[k]) \in Lease /\ Tail(queue[k]) \in Seq(Lease)
    <3>1. queue[k] \in Seq(Lease) /\ queue[k] # <<>>
      BY <2>0, <2>2
    <3> QED
      BY <3>1
  <2>3. kept \in Seq(Lease)
    BY <2>0, <2>2
  <2>4. Append(kept, frame) \in Seq(Lease)
    BY <2>1, <2>3
  <2>5. queue' \in [Consumers -> Seq(Lease)]
    <3>1. queue' = queue \/ queue' = [queue EXCEPT ![k] = Append(kept, frame)]
      BY <1>1 DEF FanOut
    <3> HIDE DEF kept, frame
    <3> QED
      BY <2>0, <2>4, <3>1
  <2>6. leases' \in [Slots -> Int]
    <3> DEFINE taken == [leases EXCEPT ![s] = @ + 1]
    <3>1. taken \in [Slots -> Int]
      BY <2>0
    <3>2. \/ leases' = leases
          \/ leases' = taken
          \/ /\ Len(queue[k]) = Depth
             /\ leases' = [taken EXCEPT ![Head(queue[k]).slot] = @ - 1]
      BY <1>1 DEF FanOut
    <3>3. Len(queue[k]) = Depth => Head(queue[k]).slot \in Slots
      BY <2>2 DEF Lease
    <3> HIDE DEF taken
    <3> QED
      BY <2>0, <3>1, <3>2, <3>3
  <2>7. writer' \in WriterState
    <3>1. writer' = [writer EXCEPT !.sink = @ + 1] /\ writer \in WriterState
      BY <1>1 DEF FanOut, TypeOK
    <3> QED
      BY <3>1 DEF WriterState
  <2> QED
    BY <1>1, <2>5, <2>6, <2>7 DEF FanOut, TypeOK, memory, recorder, bounds
<1>2. CASE FanOutEnds
  <2>1. writer' \in WriterState
    BY <1>2, PoolConstants DEF FanOutEnds, Resting, WriterState, Slots
  <2> QED
    BY <1>2, <2>1 DEF FanOutEnds, TypeOK, memory, recorder, bounds
<1> QED
  BY <1>1, <1>2

(* The sinks, and the death of the owner.                                    *)
LEMMA SinkTypes ==
  ASSUME TypeOK, (\E k \in Consumers : SinkTakes(k) \/ SinkReleases(k)) \/ OwnerCrashes
  PROVE  TypeOK'
<1>1. ASSUME NEW k \in Consumers, SinkTakes(k) PROVE TypeOK'
  <2>1. queue[k] \in Seq(Lease) /\ queue[k] # <<>>
    BY <1>1 DEF SinkTakes, TypeOK
  <2>2. Head(queue[k]) \in Lease
    BY <2>1
  <2>3. Tail(queue[k]) \in Seq(Lease)
    BY <2>1
  <2>4. queue' \in [Consumers -> Seq(Lease)] /\ busy' \in [Consumers -> Lease \cup {NoLease}]
    BY <1>1, <2>2, <2>3 DEF SinkTakes, TypeOK
  <2> QED
    BY <1>1, <2>4 DEF SinkTakes, TypeOK, memory, recorder, bounds
<1>2. ASSUME NEW k \in Consumers, SinkReleases(k) PROVE TypeOK'
  <2>1. busy[k] \in Lease
    BY <1>2 DEF SinkReleases, TypeOK
  <2>2. leases' \in [Slots -> Int]
    BY <1>2, <2>1 DEF SinkReleases, TypeOK, Lease
  <2>3. busy' \in [Consumers -> Lease \cup {NoLease}]
    BY <1>2 DEF SinkReleases, TypeOK
  <2> QED
    BY <1>2, <2>2, <2>3 DEF SinkReleases, TypeOK, memory, recorder, bounds
<1>3. CASE OwnerCrashes
  <2>1. 0 \in Slots
    BY PoolConstants DEF Slots
  <2>2. writer' \in WriterState
    BY <1>3, <2>1 DEF OwnerCrashes, Resting, WriterState
  <2>3. queue' \in [Consumers -> Seq(Lease)] /\ busy' \in [Consumers -> Lease \cup {NoLease}]
    BY <1>3 DEF OwnerCrashes
  <2>4. gen' \in [Slots -> Nat] /\ seq' \in [Slots -> Nat] /\ leases' \in [Slots -> Int]
    BY <1>3 DEF OwnerCrashes
  <2>5. crashes' \in Nat /\ sequence' \in Nat /\ drops' \in Nat /\ next_slot' \in Slots
    BY <1>3, <2>1 DEF OwnerCrashes, TypeOK
  <2> QED
    BY <1>3, <2>2, <2>3, <2>4, <2>5 DEF OwnerCrashes, TypeOK, recorder
<1> QED
  BY <1>1, <1>2, <1>3

(* The recorder.                                                            *)
LEMMA RecordTypes ==
  ASSUME TypeOK, Record
  PROVE  TypeOK'
<1>0. Idle \in ReaderState
  BY PoolConstants DEF Slots, Idle, ReaderState
<1>1. reader' \in ReaderState
  <2>1. CASE ReadGeneration
    <3>1. PICK s \in Slots :
            reader' = [Idle EXCEPT !.pc = "sequence", !.slot = s, !.gen = gen[s],
                                   !.born = crashes]
      BY <2>1 DEF ReadGeneration
    <3>2. gen[s] \in Nat /\ crashes \in Nat
      BY DEF TypeOK
    <3> QED
      BY <1>0, <3>1, <3>2 DEF ReaderState
  <2>2. CASE ReadSequence \/ CopyBegins \/ CopyFront \/ CopyBack
    <3>1. reader \in ReaderState /\ reader.slot \in Slots
      BY DEF TypeOK, ReaderState
    <3>2. /\ gen[reader.slot] \in Nat /\ seq[reader.slot] \in Nat
          /\ front[reader.slot] \in Nat /\ back[reader.slot] \in Nat
      BY <3>1 DEF TypeOK
    <3>3. \/ reader' = Idle
          \/ reader' = [reader EXCEPT !.pc = "selected", !.seq = seq[reader.slot]]
          \/ reader' = [reader EXCEPT !.pc = "front", !.before = gen[reader.slot]]
          \/ reader' = [reader EXCEPT !.pc = "back", !.front = front[reader.slot]]
          \/ reader' = [reader EXCEPT !.pc = "check", !.back = back[reader.slot]]
      BY <2>2 DEF ReadSequence, CopyBegins, CopyFront, CopyBack
    <3> QED
      BY <1>0, <3>1, <3>2, <3>3 DEF ReaderState
  <2>3. CASE CopyEnds
    BY <1>0, <2>3 DEF CopyEnds
  <2> QED
    BY <2>1, <2>2, <2>3 DEF Record
<1>2. copied' \in CopyState
  <2>1. Accepted \in CopyState
    BY DEF Accepted, CopyState, ReaderState, TypeOK
  <2>2. copied' \in {copied, Accepted}
    BY DEF Record, ReadGeneration, ReadSequence, CopyBegins, CopyFront, CopyBack, CopyEnds
  <2> QED
    BY <2>1, <2>2 DEF TypeOK
<1>3. UNCHANGED <<memory, owner, bounds>>
  BY DEF Record, ReadGeneration, ReadSequence, CopyBegins, CopyFront, CopyBack, CopyEnds
<1> QED
  BY <1>1, <1>2, <1>3 DEF TypeOK, memory, owner, bounds

(* Every step keeps the types.                                              *)
LEMMA NextTypes ==
  ASSUME TypeOK, [Next]_vars
  PROVE  TypeOK'
<1>1. CASE Capture
  BY <1>1, WriteTypes, FanOutTypes DEF Capture
<1>2. CASE Record
  BY <1>2, RecordTypes
<1>3. CASE (\E k \in Consumers : SinkTakes(k) \/ SinkReleases(k)) \/ OwnerCrashes
  BY <1>3, SinkTypes
<1>4. CASE UNCHANGED vars
  BY <1>4 DEF TypeOK, vars, memory, owner, recorder, bounds
<1> QED
  BY <1>1, <1>2, <1>3, <1>4 DEF Next

(* The types of the pool, its owner and its reader, for any number of slots  *)
(* and sinks (shared_frame_pool.py, the headers and the lease table).        *)
THEOREM TypesHold == Spec => []TypeOK
BY InitTypes, NextTypes, PTL DEF Spec

-----------------------------------------------------------------------------
(* The recorder's copy.                                                     *)

(* Under an even generation lies one whole frame.                            *)
Whole ==
  \A s \in Slots : gen[s] # 0 /\ ~Odd(gen[s]) => front[s] = seq[s] /\ back[s] = seq[s]

(* A slot is written under an odd generation, half by half.                  *)
WritesUnderOdd ==
  LET s == writer.slot IN
  /\ writer.pc \in {"reserved", "half", "written", "packed"} => Odd(gen[s])
  /\ writer.pc \in {"half", "written"} => front[s] = sequence + 1
  /\ writer.pc = "written" => back[s] = sequence + 1
  /\ writer.pc = "packed" => front[s] = seq[s] /\ back[s] = seq[s]

(* What the recorder has read is still there if the generation is.           *)
SeesTheSlot ==
  LET s == reader.slot IN
  /\ reader.gen <= gen[s]
  /\ gen[s] = reader.gen =>
       /\ reader.pc # "sequence" => reader.seq = seq[s]
       /\ reader.pc \in {"back", "check"} => reader.front = front[s]
       /\ reader.pc = "check" => reader.back = back[s]

ReadsUnderEven ==
  reader.pc # "idle" =>
    /\ reader.gen # 0 /\ ~Odd(reader.gen)
    /\ reader.pc \in {"front", "back", "check"} => reader.before = reader.gen
    /\ reader.born <= crashes
    /\ reader.born = crashes => SeesTheSlot

Inv == TypeOK /\ Whole /\ WritesUnderOdd /\ ReadsUnderEven /\ CopyIsTheFrame

(* What the owner does to the slots between two deaths: generations only     *)
(* grow, and a slot whose even generation stands still is not touched.       *)
SlotsMoveOn ==
  \A s \in Slots :
    /\ gen[s] <= gen'[s]
    /\ gen'[s] = gen[s] /\ ~Odd(gen[s]) =>
         seq'[s] = seq[s] /\ front'[s] = front[s] /\ back'[s] = back[s]

(* A fresh pool.                                                            *)
LEMMA InitInv == Init => Inv
<1> SUFFICES ASSUME Init PROVE Inv
  OBVIOUS
<1>1. Whole
  BY DEF Init, Whole
<1>2. WritesUnderOdd
  BY DEF Init, WritesUnderOdd, Resting
<1>3. ReadsUnderEven
  BY DEF Init, ReadsUnderEven, Idle
<1>4. CopyIsTheFrame
  BY DEF Init, CopyIsTheFrame, Nothing
<1> QED
  BY <1>1, <1>2, <1>3, <1>4, InitTypes DEF Inv

(* The capture loop keeps frames whole and its own promise.                  *)
LEMMA CaptureKeeps ==
  ASSUME Inv, Capture
  PROVE  Whole' /\ WritesUnderOdd' /\ SlotsMoveOn
<1> DEFINE s == writer.slot
<1>0. /\ s \in Slots /\ sequence \in Nat
      /\ gen \in [Slots -> Nat] /\ seq \in [Slots -> Nat]
      /\ front \in [Slots -> Nat] /\ back \in [Slots -> Nat]
  BY DEF Inv, TypeOK, WriterState
<1>1. Whole /\ WritesUnderOdd /\ writer \in WriterState
  BY DEF Inv, TypeOK
<1>2. CASE BeginWrite
  <2> DEFINE t == FirstUnleased
  <2>1. t \in Slots
    BY <1>2, FirstUnleasedIsFree DEF BeginWrite, Inv, TypeOK
  <2>2. gen' = [gen EXCEPT ![t] = IF Odd(@) THEN @ + 2 ELSE @ + 1]
    BY <1>2 DEF BeginWrite
  <2>3. writer' = [pc |-> "reserved", slot |-> t, sink |-> 0]
    BY <1>2 DEF BeginWrite
  <2>4. UNCHANGED <<seq, front, back, sequence>>
    BY <1>2 DEF BeginWrite
  <2> HIDE DEF t
  <2>5. gen'[t] = IF Odd(gen[t]) THEN gen[t] + 2 ELSE gen[t] + 1
    BY <1>0, <2>1, <2>2
  <2>6. Odd(gen'[t])
    BY <1>0, <2>1, <2>5, Parity
  <2>7. \A r \in Slots \ {t} : gen'[r] = gen[r]
    BY <1>0, <2>2
  <2>8. gen[t] < gen'[t]
    BY <1>0, <2>1, <2>5
  <2>9. Whole'
    BY <1>1, <2>4, <2>6, <2>7 DEF Whole
  <2>10. WritesUnderOdd'
    BY <2>3, <2>6 DEF WritesUnderOdd
  <2>11. SlotsMoveOn
    <3>1. ASSUME NEW r \in Slots
          PROVE  /\ gen[r] <= gen'[r]
                 /\ gen'[r] = gen[r] /\ ~Odd(gen[r]) =>
                      seq'[r] = seq[r] /\ front'[r] = front[r] /\ back'[r] = back[r]
      <4>1. gen[r] \in Nat /\ gen[t] \in Nat /\ gen'[t] \in Nat
        BY <1>0, <2>1, <2>5
      <4>2. gen[r] <= gen'[r]
        BY <2>7, <2>8, <4>1
      <4>3. seq' = seq /\ front' = front /\ back' = back
        BY <2>4
      <4> QED
        BY <4>2, <4>3
    <3> QED
      BY <3>1 DEF SlotsMoveOn
  <2> QED
    BY <2>9, <2>10, <2>11
<1>3. CASE PoolFull \/ AbortWrite \/ CommitHeader \/ FanOut \/ FanOutEnds
  <2>1. UNCHANGED <<gen, seq, front, back, sequence>>
    BY <1>3 DEF PoolFull, AbortWrite, CommitHeader, FanOut, FanOutEnds, memory
  <2>2. writer' = writer \/ writer'.pc \in {"idle", "fanout"}
    <3>1. CASE CommitHeader
      BY <1>1, <3>1 DEF CommitHeader, WriterState
    <3>2. CASE FanOut
      <4>1. writer'.pc = writer.pc
        BY <1>1, <3>2 DEF FanOut, WriterState
      <4> QED
        BY <3>2, <4>1 DEF FanOut, At
    <3>3. CASE PoolFull \/ AbortWrite \/ FanOutEnds
      BY <3>3 DEF PoolFull, AbortWrite, FanOutEnds, Resting
    <3> QED
      BY <1>3, <3>1, <3>2, <3>3
  <2>3. Whole' /\ SlotsMoveOn
    BY <1>0, <1>1, <2>1 DEF Whole, SlotsMoveOn
  <2>4. WritesUnderOdd'
    BY <1>1, <2>1, <2>2 DEF WritesUnderOdd
  <2> QED
    BY <2>3, <2>4
<1>4. CASE WriteFront
  <2>1. /\ writer.pc = "reserved"
        /\ front' = [front EXCEPT ![s] = sequence + 1]
        /\ UNCHANGED <<gen, seq, back, sequence>>
    BY <1>4 DEF WriteFront, At
  <2>2. writer'.pc = "half" /\ writer'.slot = s
    BY <1>1, <1>4 DEF WriteFront, WriterState
  <2>3. Odd(gen[s])
    BY <1>1, <2>1 DEF WritesUnderOdd
  <2>4. front'[s] = sequence + 1 /\ \A r \in Slots \ {s} : front'[r] = front[r]
    BY <1>0, <2>1
  <2>5. Whole' /\ SlotsMoveOn
    BY <1>0, <1>1, <2>1, <2>3, <2>4 DEF Whole, SlotsMoveOn
  <2>6. WritesUnderOdd'
    BY <2>1, <2>2, <2>3, <2>4 DEF WritesUnderOdd
  <2> QED
    BY <2>5, <2>6
<1>5. CASE WriteBack
  <2>1. /\ writer.pc = "half"
        /\ back' = [back EXCEPT ![s] = sequence + 1]
        /\ UNCHANGED <<gen, seq, front, sequence>>
    BY <1>5 DEF WriteBack, At
  <2>2. writer'.pc = "written" /\ writer'.slot = s
    BY <1>1, <1>5 DEF WriteBack, WriterState
  <2>3. Odd(gen[s]) /\ front[s] = sequence + 1
    BY <1>1, <2>1 DEF WritesUnderOdd
  <2>4. back'[s] = sequence + 1 /\ \A r \in Slots \ {s} : back'[r] = back[r]
    BY <1>0, <2>1
  <2>5. Whole' /\ SlotsMoveOn
    BY <1>0, <1>1, <2>1, <2>3, <2>4 DEF Whole, SlotsMoveOn
  <2>6. WritesUnderOdd'
    BY <2>1, <2>2, <2>3, <2>4 DEF WritesUnderOdd
  <2> QED
    BY <2>5, <2>6
<1>6. CASE CommitMetadata
  <2>1. /\ writer.pc = "written"
        /\ seq' = [seq EXCEPT ![s] = sequence + 1]
        /\ UNCHANGED <<gen, front, back>>
    BY <1>6 DEF CommitMetadata, At
  <2>2. writer'.pc = "packed" /\ writer'.slot = s
    BY <1>1, <1>6 DEF CommitMetadata, WriterState
  <2>3. Odd(gen[s]) /\ front[s] = sequence + 1 /\ back[s] = sequence + 1
    BY <1>1, <2>1 DEF WritesUnderOdd
  <2>4. seq'[s] = sequence + 1 /\ \A r \in Slots \ {s} : seq'[r] = seq[r]
    BY <1>0, <2>1
  <2>5. Whole' /\ SlotsMoveOn
    BY <1>0, <1>1, <2>1, <2>3, <2>4 DEF Whole, SlotsMoveOn
  <2>6. WritesUnderOdd'
    BY <2>1, <2>2, <2>3, <2>4 DEF WritesUnderOdd
  <2> QED
    BY <2>5, <2>6
<1>7. CASE CommitGeneration
  <2>1. /\ writer.pc = "packed"
        /\ gen' = [gen EXCEPT ![s] = @ + 1]
        /\ UNCHANGED <<seq, front, back, sequence>>
    BY <1>7 DEF CommitGeneration, At
  <2>2. writer'.pc = "even" /\ writer'.slot = s
    BY <1>1, <1>7 DEF CommitGeneration, WriterState
  <2>3. front[s] = seq[s] /\ back[s] = seq[s]
    BY <1>1, <2>1 DEF WritesUnderOdd
  <2>4. gen'[s] = gen[s] + 1 /\ \A r \in Slots \ {s} : gen'[r] = gen[r]
    BY <1>0, <2>1
  <2>5. Whole'
    BY <1>1, <2>1, <2>3, <2>4 DEF Whole
  <2>6. SlotsMoveOn
    BY <1>0, <2>1, <2>4 DEF SlotsMoveOn
  <2>7. WritesUnderOdd'
    BY <2>2 DEF WritesUnderOdd
  <2> QED
    BY <2>5, <2>6, <2>7
<1> QED
  BY <1>2, <1>3, <1>4, <1>5, <1>6, <1>7 DEF Capture

(* Slots that move on keep what the recorder knows of its own.               *)
LEMMA ReaderKeeps ==
  ASSUME Inv, TypeOK', SlotsMoveOn, UNCHANGED <<reader, crashes>>
  PROVE  ReadsUnderEven'
<1> DEFINE s == reader.slot
<1>1. s \in Slots /\ reader.gen \in Nat /\ gen[s] \in Nat /\ gen'[s] \in Nat
  BY DEF Inv, TypeOK, ReaderState
<1>2. /\ gen[s] <= gen'[s]
      /\ gen'[s] = gen[s] /\ ~Odd(gen[s]) =>
           seq'[s] = seq[s] /\ front'[s] = front[s] /\ back'[s] = back[s]
  BY <1>1 DEF SlotsMoveOn
<1>3. ASSUME SeesTheSlot, ~Odd(reader.gen) PROVE SeesTheSlot'
  <2>1. reader.gen <= gen'[s]
    BY <1>1, <1>2, <1>3 DEF SeesTheSlot
  <2>2. ASSUME gen'[s] = reader.gen
        PROVE  /\ reader.pc # "sequence" => reader.seq = seq'[s]
               /\ reader.pc \in {"back", "check"} => reader.front = front'[s]
               /\ reader.pc = "check" => reader.back = back'[s]
    <3>1. gen[s] = reader.gen
      BY <1>1, <1>2, <1>3, <2>2 DEF SeesTheSlot
    <3>2. seq'[s] = seq[s] /\ front'[s] = front[s] /\ back'[s] = back[s]
      BY <1>2, <1>3, <2>2, <3>1
    <3> QED
      BY <1>3, <3>1, <3>2 DEF SeesTheSlot
  <2> QED
    BY <2>1, <2>2 DEF SeesTheSlot
<1> QED
  BY <1>3 DEF Inv, ReadsUnderEven

(* The recorder's steps.                                                    *)
LEMMA RecordKeeps ==
  ASSUME Inv, Record
  PROVE  ReadsUnderEven' /\ CopyIsTheFrame'
<1> DEFINE s == reader.slot
<1>0. /\ reader \in ReaderState /\ s \in Slots
      /\ gen \in [Slots -> Nat] /\ crashes \in Nat
      /\ ReadsUnderEven /\ CopyIsTheFrame /\ Whole
  BY DEF Inv, TypeOK, ReaderState
<1>1. UNCHANGED <<gen, seq, front, back, crashes>>
  BY DEF Record, ReadGeneration, ReadSequence, CopyBegins, CopyFront, CopyBack, CopyEnds,
         memory, bounds
<1>2. ASSUME reader' = Idle PROVE ReadsUnderEven'
  BY <1>2 DEF ReadsUnderEven, Idle
<1>3. CASE ReadGeneration
  <2>1. PICK t \in Slots :
          /\ gen[t] # 0 /\ ~Odd(gen[t])
          /\ reader' = [Idle EXCEPT !.pc = "sequence", !.slot = t, !.gen = gen[t],
                                    !.born = crashes]
    BY <1>3 DEF ReadGeneration
  <2>2. /\ reader'.pc = "sequence" /\ reader'.slot = t /\ reader'.gen = gen[t]
        /\ reader'.born = crashes
    BY <2>1 DEF Idle
  <2>3. gen[t] \in Nat
    BY <1>0, <2>1
  <2>4. SeesTheSlot'
    BY <1>1, <2>2, <2>3 DEF SeesTheSlot
  <2>5. ReadsUnderEven'
    BY <1>0, <1>1, <2>1, <2>2, <2>4 DEF ReadsUnderEven
  <2> QED
    BY <1>0, <1>3, <2>5 DEF ReadGeneration, CopyIsTheFrame
<1>4. CASE ReadSequence
  <2>1. ASSUME reader' = [reader EXCEPT !.pc = "selected", !.seq = seq[s]]
        PROVE  ReadsUnderEven'
    <3>1. /\ reader'.pc = "selected" /\ reader'.slot = s /\ reader'.gen = reader.gen
          /\ reader'.born = reader.born /\ reader'.seq = seq[s]
      BY <1>0, <2>1 DEF ReaderState
    <3>2. reader.pc = "sequence"
      BY <1>4 DEF ReadSequence, Reader
    <3>3. SeesTheSlot => SeesTheSlot'
      BY <1>1, <3>1 DEF SeesTheSlot
    <3> QED
      BY <1>0, <1>1, <3>1, <3>2, <3>3 DEF ReadsUnderEven
  <2> QED
    BY <1>0, <1>2, <1>4, <2>1 DEF ReadSequence, CopyIsTheFrame
<1>5. CASE CopyBegins
  <2>1. ASSUME gen[s] = reader.gen,
               reader' = [reader EXCEPT !.pc = "front", !.before = gen[s]]
        PROVE  ReadsUnderEven'
    <3>1. /\ reader'.pc = "front" /\ reader'.slot = s /\ reader'.gen = reader.gen
          /\ reader'.born = reader.born /\ reader'.seq = reader.seq
          /\ reader'.before = reader.gen
      BY <1>0, <2>1 DEF ReaderState
    <3>2. reader.pc = "selected"
      BY <1>5 DEF CopyBegins, Reader
    <3>3. SeesTheSlot => SeesTheSlot'
      BY <1>1, <3>1, <3>2 DEF SeesTheSlot
    <3> QED
      BY <1>0, <1>1, <3>1, <3>2, <3>3 DEF ReadsUnderEven
  <2> QED
    BY <1>0, <1>2, <1>5, <2>1 DEF CopyBegins, CopyIsTheFrame
<1>6. CASE CopyFront
  <2>1. /\ reader'.pc = "back" /\ reader'.slot = s /\ reader'.gen = reader.gen
        /\ reader'.born = reader.born /\ reader'.seq = reader.seq
        /\ reader'.before = reader.before /\ reader'.front = front[s]
    BY <1>0, <1>6 DEF CopyFront, ReaderState
  <2>2. reader.pc = "front"
    BY <1>6 DEF CopyFront, Reader
  <2>3. SeesTheSlot => SeesTheSlot'
    BY <1>1, <2>1, <2>2 DEF SeesTheSlot
  <2> QED
    BY <1>0, <1>1, <1>6, <2>1, <2>2, <2>3 DEF ReadsUnderEven, CopyFront, CopyIsTheFrame
<1>7. CASE CopyBack
  <2>1. /\ reader'.pc = "check" /\ reader'.slot = s /\ reader'.gen = reader.gen
        /\ reader'.born = reader.born /\ reader'.seq = reader.seq
        /\ reader'.before = reader.before /\ reader'.front = reader.front
        /\ reader'.back = back[s]
    BY <1>0, <1>7 DEF CopyBack, ReaderState
  <2>2. reader.pc = "back"
    BY <1>7 DEF CopyBack, Reader
  <2>3. SeesTheSlot => SeesTheSlot'
    BY <1>1, <2>1, <2>2 DEF SeesTheSlot
  <2> QED
    BY <1>0, <1>1, <1>7, <2>1, <2>2, <2>3 DEF ReadsUnderEven, CopyBack, CopyIsTheFrame
<1>8. CASE CopyEnds
  <2>1. reader.pc = "check" /\ reader' = Idle
    BY <1>8 DEF CopyEnds, Reader
  <2>2. CASE gen[s] = reader.before
    <3>1. copied' = Accepted
      BY <1>8, <2>2 DEF CopyEnds
    <3>2. gen[s] = reader.gen /\ gen[s] # 0 /\ ~Odd(gen[s])
      BY <1>0, <2>1, <2>2 DEF ReadsUnderEven
    <3>3. ASSUME reader.born = crashes
          PROVE  reader.front = reader.seq /\ reader.back = reader.seq
      <4>1. reader.seq = seq[s] /\ reader.front = front[s] /\ reader.back = back[s]
        BY <1>0, <2>1, <3>2, <3>3 DEF ReadsUnderEven, SeesTheSlot
      <4>2. front[s] = seq[s] /\ back[s] = seq[s]
        BY <1>0, <3>2 DEF Whole
      <4> QED
        BY <4>1, <4>2
    <3> QED
      BY <1>2, <2>1, <3>1, <3>3 DEF Accepted, CopyIsTheFrame
  <2>3. CASE gen[s] # reader.before
    BY <1>0, <1>2, <1>8, <2>1, <2>3 DEF CopyEnds, CopyIsTheFrame
  <2> QED
    BY <2>2, <2>3
<1> QED
  BY <1>3, <1>4, <1>5, <1>6, <1>7, <1>8 DEF Record

(* A new owner zeroes the generations; the copy under way is marked.         *)
LEMMA CrashKeeps ==
  ASSUME Inv, OwnerCrashes
  PROVE  Inv'
<1>1. Whole'
  BY DEF OwnerCrashes, Whole
<1>2. WritesUnderOdd'
  BY DEF OwnerCrashes, WritesUnderOdd, Resting
<1>3. ReadsUnderEven'
  <2>1. reader' = reader /\ crashes' = crashes + 1 /\ crashes \in Nat /\ reader.born \in Nat
    BY DEF OwnerCrashes, recorder, Inv, TypeOK, ReaderState
  <2>2. reader.pc # "idle" => reader.born <= crashes
    BY DEF Inv, ReadsUnderEven
  <2>3. reader.pc # "idle" => reader.born <= crashes + 1 /\ reader.born # crashes + 1
    BY <2>1, <2>2
  <2> QED
    BY <2>1, <2>3 DEF Inv, ReadsUnderEven
<1>4. CopyIsTheFrame'
  BY DEF OwnerCrashes, recorder, Inv, CopyIsTheFrame
<1>5. TypeOK'
  BY SinkTypes DEF Inv
<1> QED
  BY <1>1, <1>2, <1>3, <1>4, <1>5 DEF Inv

(* Every step.                                                              *)
LEMMA NextInv ==
  ASSUME Inv, [Next]_vars
  PROVE  Inv'
<1>0. TypeOK' /\ gen \in [Slots -> Nat]
  BY NextTypes DEF Inv, TypeOK
<1>1. CASE Capture
  <2>1. UNCHANGED <<reader, copied, crashes>>
    BY <1>1 DEF Capture, BeginWrite, PoolFull, AbortWrite, WriteFront, WriteBack,
                CommitMetadata, CommitGeneration, CommitHeader, FanOut, FanOutEnds,
                recorder, bounds
  <2>2. Whole' /\ WritesUnderOdd' /\ SlotsMoveOn
    BY <1>1, CaptureKeeps
  <2>3. ReadsUnderEven'
    BY <1>0, <2>1, <2>2, ReaderKeeps
  <2>4. CopyIsTheFrame'
    BY <2>1 DEF Inv, CopyIsTheFrame
  <2> QED
    BY <1>0, <2>2, <2>3, <2>4 DEF Inv
<1>2. ASSUME UNCHANGED <<memory, sequence, writer, recorder, crashes>>
      PROVE  Inv'
  BY <1>0, <1>2 DEF Inv, Whole, WritesUnderOdd, ReadsUnderEven, SeesTheSlot, CopyIsTheFrame,
                    memory, recorder
<1>3. CASE \E k \in Consumers : SinkTakes(k) \/ SinkReleases(k)
  BY <1>2, <1>3 DEF SinkTakes, SinkReleases, bounds
<1>4. CASE Record
  <2>1. Whole' /\ WritesUnderOdd'
    BY <1>4 DEF Record, ReadGeneration, ReadSequence, CopyBegins, CopyFront, CopyBack,
                CopyEnds, memory, owner, Inv, Whole, WritesUnderOdd
  <2> QED
    BY <1>0, <1>4, <2>1, RecordKeeps DEF Inv
<1>5. CASE OwnerCrashes
  BY <1>5, CrashKeeps
<1>6. CASE UNCHANGED vars
  BY <1>2, <1>6 DEF vars, owner, bounds
<1> QED
  BY <1>1, <1>3, <1>4, <1>5, <1>6 DEF Next

(* "Copy one selected frame, rejecting a concurrent overwrite": what the      *)
(* recorder accepts is one whole frame, the one it selected, for any number  *)
(* of slots, sinks, writes and copies, unless the owner died meanwhile.      *)
THEOREM CopyHolds == Spec => []CopyIsTheFrame
<1>1. Inv => CopyIsTheFrame
  BY DEF Inv
<1> QED
  BY <1>1, InitInv, NextInv, PTL DEF Spec

-----------------------------------------------------------------------------
(* Who holds a slot.                                                         *)

(* The places of the holders of a slot, of given queues and frames in work.  *)
HoldersOf(q, b, s) ==
  {h \in Consumers \X (0 .. Depth) :
     IF h[2] = 0 THEN b[h[1]].slot = s
     ELSE h[2] <= Len(q[h[1]]) /\ q[h[1]][h[2]].slot = s}
One(l, s) == IF l.slot = s THEN 1 ELSE 0
(* Two sets of places that agree but for one place, which the first lacks.   *)
ButFor(H, J, x) ==
  /\ H \subseteq Consumers \X (0 .. Depth) /\ J \subseteq Consumers \X (0 .. Depth)
  /\ x \in Consumers \X (0 .. Depth) /\ x \notin H
  /\ \A d \in Consumers, j \in 0 .. Depth : <<d, j>> # x => (<<d, j>> \in J <=> <<d, j>> \in H)

(* There are finitely many places.                                          *)
LEMMA PlacesAreFinite ==
  /\ IsFiniteSet(Consumers \X (0 .. Depth))
  /\ Cardinality(Consumers \X (0 .. Depth)) = Sinks * (Depth + 1)
<1>1. Sinks \in Nat /\ Depth \in Nat
  BY PoolConstants
<1>2. IsFiniteSet(Consumers) /\ Cardinality(Consumers) = Sinks
  BY <1>1, FS_Interval DEF Consumers
<1>3. IsFiniteSet(0 .. Depth) /\ Cardinality(0 .. Depth) = Depth + 1
  BY <1>1, FS_Interval
<1> QED
  BY <1>2, <1>3, FS_Product

(* So finitely many of them hold a slot.                                    *)
LEMMA HoldersAreFinite ==
  ASSUME NEW q, NEW b, NEW s
  PROVE  IsFiniteSet(HoldersOf(q, b, s)) /\ Cardinality(HoldersOf(q, b, s)) \in Nat
<1>1. HoldersOf(q, b, s) \in SUBSET (Consumers \X (0 .. Depth))
  BY DEF HoldersOf
<1>2. IsFiniteSet(HoldersOf(q, b, s))
  BY <1>1, PlacesAreFinite, FS_Subset
<1> QED
  BY <1>2, FS_CardinalityType

(* One place more or less among the holders.                                 *)
LEMMA OnePlaceMore ==
  ASSUME NEW H, NEW J, NEW x, ButFor(H, J, x)
  PROVE  /\ Cardinality(J) = Cardinality(H) + (IF x \in J THEN 1 ELSE 0)
         /\ IsFiniteSet(H) /\ Cardinality(H) \in Nat
<1>1. IsFiniteSet(H) /\ Cardinality(H) \in Nat
  BY PlacesAreFinite, FS_Subset, FS_CardinalityType DEF ButFor
<1>2. /\ H \subseteq Consumers \X (0 .. Depth) /\ J \subseteq Consumers \X (0 .. Depth)
      /\ x \notin H
      /\ \A h \in Consumers \X (0 .. Depth) : h # x => (h \in J <=> h \in H)
  BY DEF ButFor
<1>3. CASE x \in J
  <2>1. J = H \cup {x}
    BY <1>2, <1>3
  <2>2. Cardinality(J) = Cardinality(H) + 1
    BY <1>1, <1>2, <2>1, FS_AddElement
  <2> QED
    BY <1>1, <1>3, <2>2
<1>4. CASE x \notin J
  <2>1. J = H
    BY <1>2, <1>4
  <2> QED
    BY <1>1, <1>4, <2>1
<1> QED
  BY <1>3, <1>4

(* One queue has a lease more; the others rest.                              *)
Queued(q, p, k, l) ==
  /\ q \in [Consumers -> Seq(Lease)] /\ k \in Consumers /\ Len(q[k]) < Depth /\ l \in Lease
  /\ p[k] = Append(q[k], l) /\ \A c \in Consumers \ {k} : p[c] = q[c]

(* A lease more at the end of a queue.                                       *)
LEMMA Queueing ==
  ASSUME NEW q, NEW b, NEW s, NEW k, NEW l, NEW p, Queued(q, p, k, l)
  PROVE  Cardinality(HoldersOf(p, b, s))
           = Cardinality(HoldersOf(q, b, s)) + One(l, s)
<1> DEFINE n == Len(q[k]) + 1
           H == HoldersOf(q, b, s)
           J == HoldersOf(p, b, s)
<1>1. /\ q[k] \in Seq(Lease) /\ Depth \in Nat \ {0} /\ n \in 1 .. Depth
      /\ p[k] = Append(q[k], l) /\ \A c \in Consumers \ {k} : p[c] = q[c]
      /\ k \in Consumers /\ l \in Lease
  BY PoolConstants DEF Queued
<1>2. /\ Len(p[k]) = n /\ p[k][n] = l
      /\ \A i \in 1 .. Len(q[k]) : p[k][i] = q[k][i]
  BY <1>1
<1>3. IsFiniteSet(H) /\ Cardinality(H) \in Nat
  BY HoldersAreFinite
<1>4. <<k, n>> \notin H
  BY <1>1 DEF HoldersOf
<1> HIDE DEF n
<1>5. ASSUME NEW c \in Consumers, NEW i \in 0 .. Depth, <<c, i>> # <<k, n>>
      PROVE  <<c, i>> \in J <=> <<c, i>> \in H
  <2>1. CASE c # k
    BY <1>1, <2>1 DEF HoldersOf
  <2>2. CASE c = k /\ i = 0
    BY <2>2 DEF HoldersOf
  <2>3. CASE c = k /\ i # 0
    <3>1. i \in 1 .. Depth /\ i # n /\ Len(q[k]) \in Nat /\ n = Len(q[k]) + 1
      BY <1>1, <1>5, <2>3 DEF n
    <3>2. CASE i <= Len(q[k])
      <4>1. p[k][i] = q[k][i] /\ i <= Len(p[k])
        BY <1>2, <3>1, <3>2
      <4> QED
        BY <2>3, <3>2, <4>1 DEF HoldersOf
    <3>3. CASE i > n
      <4>1. ~(i <= Len(p[k])) /\ ~(i <= Len(q[k]))
        BY <1>2, <3>1, <3>3
      <4> QED
        BY <2>3, <4>1 DEF HoldersOf
    <3> QED
      BY <3>1, <3>2, <3>3
  <2> QED
    BY <2>1, <2>2, <2>3
<1>6. <<k, n>> \in J <=> l.slot = s
  BY <1>1, <1>2 DEF HoldersOf
<1>7. J \subseteq Consumers \X (0 .. Depth) /\ H \subseteq Consumers \X (0 .. Depth)
  BY DEF HoldersOf
<1>8. k \in Consumers /\ n \in 0 .. Depth
  BY <1>1
<1> HIDE DEF H, J
<1>9. Cardinality(J) = Cardinality(H) + (IF <<k, n>> \in J THEN 1 ELSE 0)
  <2>1. ButFor(H, J, <<k, n>>)
    BY <1>4, <1>5, <1>7, <1>8 DEF ButFor
  <2> QED
    BY <2>1, OnePlaceMore
<1>10. Cardinality(J) = Cardinality(H) + One(l, s)
  BY <1>6, <1>9 DEF One
<1> QED
  BY <1>10 DEF H, J

(* One sink has taken the first lease of its queue; the others rest.         *)
Taken(q, p, k) ==
  /\ q \in [Consumers -> Seq(Lease)] /\ k \in Consumers /\ Len(q[k]) \in 1 .. Depth
  /\ p[k] = Tail(q[k]) /\ \A c \in Consumers \ {k} : p[c] = q[c]

(* The first lease of a queue less: those behind it move up.                 *)
LEMMA Unqueueing ==
  ASSUME NEW q, NEW b, NEW s, NEW k, NEW p, Taken(q, p, k)
  PROVE  Cardinality(HoldersOf(p, b, s))
           = Cardinality(HoldersOf(q, b, s)) - One(q[k][1], s)
<1> DEFINE H == HoldersOf(q, b, s)
           J == HoldersOf(p, b, s)
           R == H \ {<<k, 1>>}
           up == [h \in R |-> IF h[1] = k /\ h[2] # 0 THEN <<k, h[2] - 1>> ELSE h]
<1>1. /\ q[k] \in Seq(Lease) /\ Depth \in Nat \ {0} /\ Len(q[k]) \in 1 .. Depth
      /\ p[k] = Tail(q[k]) /\ \A c \in Consumers \ {k} : p[c] = q[c]
      /\ k \in Consumers
  BY PoolConstants DEF Taken
<1>2. /\ Len(p[k]) = Len(q[k]) - 1
      /\ \A i \in 1 .. Len(q[k]) - 1 : p[k][i] = q[k][i + 1]
  BY <1>1
<1>3. IsFiniteSet(H) /\ Cardinality(H) \in Nat
  BY HoldersAreFinite
<1>4. <<k, 1>> \in H <=> q[k][1].slot = s
  BY <1>1, <1>2 DEF HoldersOf
<1>5. IsFiniteSet(R) /\ Cardinality(R) = Cardinality(H) - One(q[k][1], s)
  <2>1. H \in SUBSET (Consumers \X (0 .. Depth)) /\ 1 \in 0 .. Depth
    BY <1>1 DEF HoldersOf
  <2> HIDE DEF H
  <2>2. /\ R \in SUBSET (Consumers \X (0 .. Depth)) /\ <<k, 1>> \notin R
        /\ \A d \in Consumers, j \in 0 .. Depth :
             <<d, j>> # <<k, 1>> => (<<d, j>> \in H <=> <<d, j>> \in R)
    BY <2>1
  <2> HIDE DEF R
  <2>3. /\ Cardinality(H) = Cardinality(R) + (IF <<k, 1>> \in H THEN 1 ELSE 0)
        /\ IsFiniteSet(R) /\ Cardinality(R) \in Nat
    <3>1. ButFor(R, H, <<k, 1>>)
      BY <1>1, <2>1, <2>2 DEF ButFor
    <3> QED
      BY <3>1, OnePlaceMore
  <2> QED
    BY <1>4, <2>3 DEF One
<1>p. /\ \A h \in H : h \in Consumers \X (0 .. Depth)
      /\ \A h \in J : h \in Consumers \X (0 .. Depth)
  BY DEF HoldersOf
<1>6. \A c \in Consumers, i \in 0 .. Depth : c # k \/ i = 0 => (<<c, i>> \in J <=> <<c, i>> \in H)
  BY <1>1 DEF HoldersOf
<1>7. \A i \in 2 .. Depth : <<k, i>> \in H <=> <<k, i - 1>> \in J
  <2> SUFFICES ASSUME NEW i \in 2 .. Depth PROVE <<k, i>> \in H <=> <<k, i - 1>> \in J
    OBVIOUS
  <2>1. /\ i - 1 \in 1 .. Depth - 1 /\ i - 1 # 0 /\ i \in 0 .. Depth /\ i - 1 \in 0 .. Depth /\ i # 0
        /\ i - 1 + 1 = i
    BY <1>1
  <2>2. i - 1 <= Len(p[k]) <=> i <= Len(q[k])
    BY <1>1, <1>2
  <2>3. i <= Len(q[k]) => p[k][i - 1] = q[k][i]
    BY <1>1, <1>2, <2>1
  <2> QED
    BY <2>1, <2>2, <2>3 DEF HoldersOf
<1>8. \A i \in 1 .. Depth : <<k, i>> \in J => i < Depth
  <2>1. \A i \in 1 .. Depth : i # 0 /\ (i <= Len(q[k]) - 1 => i < Depth)
    BY <1>1
  <2> QED
    BY <1>1, <1>2, <2>1 DEF HoldersOf
<1> HIDE DEF H, J
<1>9. up \in [R -> J]
  <2> SUFFICES ASSUME NEW h \in R PROVE up[h] \in J
    OBVIOUS
  <2>1. PICK c \in Consumers, i \in 0 .. Depth : h = <<c, i>>
    BY <1>p
  <2>2. CASE c = k /\ i # 0
    <3>1. i \in 2 .. Depth
      BY <1>1, <2>1, <2>2
    <3> QED
      BY <1>7, <2>1, <2>2, <3>1
  <2>3. CASE ~(c = k /\ i # 0)
    BY <1>6, <2>1, <2>3
  <2> QED
    BY <2>2, <2>3
<1>10. \A g, h \in R : up[g] = up[h] => g = h
  <2> SUFFICES ASSUME NEW g \in R, NEW h \in R, up[g] = up[h] PROVE g = h
    OBVIOUS
  <2>1. PICK c \in Consumers, i \in 0 .. Depth : h = <<c, i>>
    BY <1>p
  <2>2. PICK d \in Consumers, j \in 0 .. Depth : g = <<d, j>>
    BY <1>p
  <2>3. (c = k => i # 1) /\ (d = k => j # 1)
    BY <2>1, <2>2
  <2>4. /\ up[h] = IF c = k /\ i # 0 THEN <<k, i - 1>> ELSE <<c, i>>
        /\ up[g] = IF d = k /\ j # 0 THEN <<k, j - 1>> ELSE <<d, j>>
    BY <2>1, <2>2
  <2> HIDE DEF up, R
  <2>5. i \in Int /\ j \in Int
    BY <1>1
  <2> QED
    BY <2>1, <2>2, <2>3, <2>4, <2>5
<1>11. \A j \in J : \E h \in R : up[h] = j
  <2> SUFFICES ASSUME NEW j \in J PROVE \E h \in R : up[h] = j
    OBVIOUS
  <2>1. PICK c \in Consumers, i \in 0 .. Depth : j = <<c, i>>
    BY <1>p
  <2>2. CASE c = k /\ i # 0
    <3>1. i + 1 \in 2 .. Depth /\ i + 1 - 1 = i
      BY <1>1, <1>8, <2>1, <2>2
    <3>2. <<k, i + 1>> \in R
      BY <1>7, <2>1, <2>2, <3>1
    <3>3. up[<<k, i + 1>>] = j
      BY <2>1, <2>2, <3>1, <3>2
    <3> QED
      BY <3>2, <3>3
  <2>3. CASE ~(c = k /\ i # 0)
    <3>1. j \in R
      BY <1>6, <2>1, <2>3
    <3>2. up[j] = j
      BY <2>1, <2>3, <3>1
    <3> QED
      BY <3>1, <3>2
  <2> QED
    BY <2>2, <2>3
<1>12. ExistsBijection(R, J)
  <2> HIDE DEF up, R
  <2>1. up \in Bijection(R, J)
    BY <1>9, <1>10, <1>11, Fun_IsBij
  <2> QED
    BY <2>1 DEF ExistsBijection
<1>13. Cardinality(J) = Cardinality(R)
  BY <1>5, <1>12, FS_Bijection
<1> QED
  BY <1>5, <1>13 DEF H, J

(* A frame more in work.                                                     *)
LEMMA Working ==
  ASSUME NEW q, NEW b \in [Consumers -> Lease \cup {NoLease}], NEW s \in Slots,
         NEW k \in Consumers, b[k] = NoLease, NEW l \in Lease,
         NEW a, a[k] = l, \A c \in Consumers \ {k} : a[c] = b[c]
  PROVE  Cardinality(HoldersOf(q, a, s))
           = Cardinality(HoldersOf(q, b, s)) + One(l, s)
<1> DEFINE H == HoldersOf(q, b, s)
           J == HoldersOf(q, a, s)
<1>1. 0 \in 0 .. Depth /\ SlotCount \notin Slots /\ NoLease.slot = SlotCount
  BY PoolConstants DEF Slots, NoLease
<1>2. IsFiniteSet(H) /\ Cardinality(H) \in Nat
  BY HoldersAreFinite
<1>3. <<k, 0>> \notin H
  BY <1>1 DEF HoldersOf
<1>4. <<k, 0>> \in J <=> l.slot = s
  BY <1>1 DEF HoldersOf
<1>5. \A c \in Consumers, i \in 0 .. Depth : <<c, i>> # <<k, 0>> => (<<c, i>> \in J <=> <<c, i>> \in H)
  BY DEF HoldersOf
<1>6. J \subseteq Consumers \X (0 .. Depth) /\ H \subseteq Consumers \X (0 .. Depth)
  BY DEF HoldersOf
<1> HIDE DEF H, J
<1>7. Cardinality(J) = Cardinality(H) + (IF <<k, 0>> \in J THEN 1 ELSE 0)
  <2>1. ButFor(H, J, <<k, 0>>)
    BY <1>1, <1>3, <1>5, <1>6 DEF ButFor
  <2> QED
    BY <2>1, OnePlaceMore
<1>8. Cardinality(J) = Cardinality(H) + One(l, s)
  BY <1>4, <1>7 DEF One
<1> QED
  BY <1>8 DEF H, J

(* The frame in work let go.                                                 *)
LEMMA Releasing ==
  ASSUME NEW q, NEW b \in [Consumers -> Lease \cup {NoLease}], NEW s \in Slots,
         NEW k \in Consumers, b[k] \in Lease,
         NEW a, a[k] = NoLease, \A c \in Consumers \ {k} : a[c] = b[c]
  PROVE  Cardinality(HoldersOf(q, a, s))
           = Cardinality(HoldersOf(q, b, s)) - One(b[k], s)
<1> DEFINE H == HoldersOf(q, b, s)
           J == HoldersOf(q, a, s)
<1>1. 0 \in 0 .. Depth /\ SlotCount \notin Slots /\ NoLease.slot = SlotCount
  BY PoolConstants DEF Slots, NoLease
<1>2. IsFiniteSet(H) /\ Cardinality(H) \in Nat
  BY HoldersAreFinite
<1>3. <<k, 0>> \notin J
  BY <1>1 DEF HoldersOf
<1>4. <<k, 0>> \in H <=> b[k].slot = s
  BY <1>1 DEF HoldersOf
<1>5. \A c \in Consumers, i \in 0 .. Depth : <<c, i>> # <<k, 0>> => (<<c, i>> \in J <=> <<c, i>> \in H)
  BY DEF HoldersOf
<1>6. J \subseteq Consumers \X (0 .. Depth) /\ H \subseteq Consumers \X (0 .. Depth)
  BY DEF HoldersOf
<1> HIDE DEF H, J
<1>7. /\ Cardinality(H) = Cardinality(J) + (IF <<k, 0>> \in H THEN 1 ELSE 0)
      /\ Cardinality(J) \in Nat
  <2>1. ButFor(J, H, <<k, 0>>)
    BY <1>1, <1>3, <1>5, <1>6 DEF ButFor
  <2> QED
    BY <2>1, OnePlaceMore
<1>8. Cardinality(J) = Cardinality(H) - One(b[k], s)
  BY <1>4, <1>7 DEF One
<1> QED
  BY <1>8 DEF H, J

-----------------------------------------------------------------------------
(* What is leased is held, and what is held stays.                           *)

(* No queue is longer than its depth.                                        *)
QueuesFit == \A k \in Consumers : Len(queue[k]) <= Depth

LeaseInv == QueuesFit /\ BorrowedFramesAreStable /\ LeasesAreHeld
OwnerInv == Inv /\ LeaseInv

(* A lease, and what is written of the frame it borrows.                     *)
Stable(l) == /\ front[l.slot] = l.sequence /\ back[l.slot] = l.sequence
             /\ seq[l.slot] = l.sequence /\ ~Odd(gen[l.slot])

(* The holders of the pool as it is.                                         *)
LEMMA HoldersAre == \A s : Holders(s) = HoldersOf(queue, busy, s)
BY DEF Holders, HoldersOf

(* Whoever holds a lease is among the holders of its slot.                   *)
LEMMA HeldIsCounted ==
  ASSUME TypeOK, QueuesFit, NEW k \in Consumers, NEW l \in Held(k)
  PROVE  Holders(l.slot) # {} /\ l \in Lease
<1>0. 0 \in 0 .. Depth /\ queue[k] \in Seq(Lease) /\ busy[k] \in Lease \cup {NoLease}
  BY PoolConstants DEF TypeOK
<1>1. CASE l \in {busy[k]} \ {NoLease}
  <2>1. <<k, 0>> \in Holders(l.slot)
    BY <1>0, <1>1 DEF Holders
  <2> QED
    BY <1>0, <1>1, <2>1
<1>2. CASE \E i \in 1 .. Len(queue[k]) : l = queue[k][i]
  <2>1. PICK i \in 1 .. Len(queue[k]) : l = queue[k][i]
    BY <1>2
  <2>2. i \in 0 .. Depth /\ i # 0 /\ i <= Len(queue[k])
    BY <1>0, <2>1, PoolConstants DEF QueuesFit
  <2>3. <<k, i>> \in Holders(l.slot)
    BY <2>1, <2>2 DEF Holders
  <2> QED
    BY <1>0, <2>1, <2>3
<1> QED
  BY <1>1, <1>2 DEF Held

(* So a slot without a lease is borrowed by no one.                          *)
LEMMA UnleasedIsUnheld ==
  ASSUME TypeOK, LeasesAreHeld, NEW s \in Slots
  PROVE  leases[s] = 0 <=> Holders(s) = {}
<1>1. IsFiniteSet(Holders(s)) /\ leases[s] = Cardinality(Holders(s))
  BY HoldersAre, HoldersAreFinite DEF LeasesAreHeld
<1> QED
  BY <1>1, FS_EmptySet

(* The capture loop writes only what nobody has borrowed.                    *)
LEMMA WritingKeepsLeases ==
  ASSUME OwnerInv, \/ BeginWrite \/ PoolFull \/ AbortWrite \/ WriteFront \/ WriteBack
                   \/ CommitMetadata \/ CommitGeneration \/ CommitHeader \/ FanOutEnds
  PROVE  LeaseInv'
<1>1. UNCHANGED <<leases, queue, busy>>
  BY DEF BeginWrite, PoolFull, AbortWrite, WriteFront, WriteBack, CommitMetadata,
         CommitGeneration, CommitHeader, FanOutEnds
<1>2. QueuesFit' /\ LeasesAreHeld'
  BY <1>1 DEF OwnerInv, LeaseInv, QueuesFit, LeasesAreHeld, Holders
<1>3. ASSUME NEW k \in Consumers, NEW l \in Held(k)
      PROVE  Stable(l)'
  <2>0. TypeOK /\ QueuesFit /\ LeasesAreHeld /\ Stable(l)
    BY DEF OwnerInv, LeaseInv, Inv, BorrowedFramesAreStable, Stable
  <2>1. l \in Lease /\ l.slot \in Slots /\ leases[l.slot] # 0
    BY <2>0, HeldIsCounted, UnleasedIsUnheld DEF Lease
  <2>2. CASE BeginWrite
    <3>1. l.slot # FirstUnleased
      BY <2>0, <2>1, <2>2, FirstUnleasedIsFree DEF BeginWrite, TypeOK
    <3>2. gen'[l.slot] = gen[l.slot]
      <4>1. gen' = [gen EXCEPT ![FirstUnleased] = IF Odd(@) THEN @ + 2 ELSE @ + 1]
        BY <2>2 DEF BeginWrite
      <4> HIDE DEF FirstUnleased
      <4> QED
        BY <2>0, <2>1, <3>1, <4>1 DEF TypeOK
    <3> QED
      BY <2>0, <2>2, <3>2 DEF BeginWrite, Stable
  <2>3. CASE WriteFront \/ WriteBack \/ CommitMetadata \/ CommitGeneration
    <3>1. writer.pc \in {"reserved", "half", "written", "packed"}
      BY <2>3 DEF WriteFront, WriteBack, CommitMetadata, CommitGeneration, At
    <3>2. l.slot # writer.slot
      BY <2>0, <3>1 DEF OwnerInv, Inv, WritesUnderOdd, Stable
    <3> QED
      BY <2>0, <2>1, <2>3, <3>2 DEF WriteFront, WriteBack, CommitMetadata, CommitGeneration,
                                    TypeOK, Stable
  <2>4. CASE PoolFull \/ AbortWrite \/ CommitHeader \/ FanOutEnds
    BY <2>0, <2>4 DEF PoolFull, AbortWrite, CommitHeader, FanOutEnds, memory, Stable
  <2> QED
    BY <2>2, <2>3, <2>4
<1>4. BorrowedFramesAreStable'
  BY <1>1, <1>3 DEF BorrowedFramesAreStable, Held, Stable
<1> QED
  BY <1>2, <1>4 DEF LeaseInv

(* A sink that takes the head of its queue holds it as before.               *)
LEMMA TakingKeepsLeases ==
  ASSUME OwnerInv, NEW k \in Consumers, SinkTakes(k)
  PROVE  LeaseInv'
<1> DEFINE l == Head(queue[k])
<1>0. TypeOK /\ QueuesFit /\ LeasesAreHeld /\ BorrowedFramesAreStable
  BY DEF OwnerInv, LeaseInv, Inv
<1>1. /\ queue' = [queue EXCEPT ![k] = Tail(@)] /\ busy' = [busy EXCEPT ![k] = l] /\ busy[k] = NoLease
      /\ queue[k] # <<>> /\ UNCHANGED <<leases, memory>>
  BY DEF SinkTakes
<1>2. queue \in [Consumers -> Seq(Lease)] /\ busy \in [Consumers -> Lease \cup {NoLease}]
  BY <1>0 DEF TypeOK
<1>3. queue[k] \in Seq(Lease) /\ l \in Lease /\ Len(queue[k]) <= Depth
  BY <1>0, <1>1, <1>2 DEF QueuesFit
<1>4. ASSUME NEW s \in Slots PROVE leases'[s] = Cardinality(Holders(s)')
  <2>1. Cardinality(HoldersOf(queue', busy, s)) = Cardinality(HoldersOf(queue, busy, s)) - One(l, s)
    <3>1. Taken(queue, queue', k)
      BY <1>1, <1>2, <1>3, PoolConstants DEF Taken
    <3>2. Cardinality(HoldersOf(queue', busy, s))
            = Cardinality(HoldersOf(queue, busy, s)) - One(queue[k][1], s)
      BY <3>1, Unqueueing
    <3> QED
      BY <1>1, <1>3, <3>2
  <2>2. Cardinality(HoldersOf(queue', busy', s)) = Cardinality(HoldersOf(queue', busy, s)) + One(l, s)
    <3>1. /\ l \in Lease /\ busy[k] = NoLease
          /\ busy'[k] = l /\ \A c \in Consumers \ {k} : busy'[c] = busy[c]
      BY <1>1, <1>2, <1>3
    <3> HIDE DEF l
    <3> QED
      BY <1>2, <3>1, Working
  <2>3. leases[s] = Cardinality(HoldersOf(queue, busy, s)) /\ One(l, s) \in Nat
        /\ Cardinality(HoldersOf(queue, busy, s)) \in Nat
    BY <1>0, HoldersAre, HoldersAreFinite DEF LeasesAreHeld, One
  <2>4. Holders(s)' = HoldersOf(queue', busy', s)
    BY <1>1 DEF Holders, HoldersOf
  <2> HIDE DEF l
  <2> QED
    BY <1>1, <2>1, <2>2, <2>3, <2>4
<1>5. QueuesFit'
  <2>1. Len(Tail(queue[k])) <= Depth
    BY <1>1, <1>3, PoolConstants
  <2> QED
    BY <1>0, <1>1, <1>2, <2>1 DEF QueuesFit
<1>6. ASSUME NEW c \in Consumers PROVE Held(c)' \subseteq Held(c)
  <2>1. CASE c # k
    BY <1>1, <1>2, <2>1 DEF Held
  <2>2. CASE c = k
    <3>1. \A i \in 1 .. Len(Tail(queue[k])) : Tail(queue[k])[i] = queue[k][i + 1]
                                               /\ i + 1 \in 1 .. Len(queue[k])
      BY <1>1, <1>3
    <3>2. l = queue[k][1] /\ 1 \in 1 .. Len(queue[k])
      BY <1>1, <1>3
    <3>3. queue'[k] = Tail(queue[k]) /\ busy'[k] = l
      BY <1>1, <1>2
    <3> HIDE DEF l
    <3> QED
      BY <2>2, <3>1, <3>2, <3>3 DEF Held
  <2> QED
    BY <2>1, <2>2
<1>7. BorrowedFramesAreStable'
  BY <1>0, <1>1, <1>6 DEF BorrowedFramesAreStable, memory
<1> QED
  BY <1>4, <1>5, <1>7 DEF LeaseInv, LeasesAreHeld

(* A sink that is done takes its lease off the count.                        *)
LEMMA ReleasingKeepsLeases ==
  ASSUME OwnerInv, NEW k \in Consumers, SinkReleases(k)
  PROVE  LeaseInv'
<1>0. TypeOK /\ QueuesFit /\ LeasesAreHeld /\ BorrowedFramesAreStable
  BY DEF OwnerInv, LeaseInv, Inv
<1>1. /\ leases' = [leases EXCEPT ![busy[k].slot] = @ - 1] /\ busy[k] # NoLease
      /\ busy' = [busy EXCEPT ![k] = NoLease] /\ UNCHANGED <<queue, memory>>
  BY DEF SinkReleases
<1>2. busy \in [Consumers -> Lease \cup {NoLease}] /\ leases \in [Slots -> Int]
  BY <1>0 DEF TypeOK
<1>3. busy[k] \in Lease
  BY <1>1, <1>2
<1>4. ASSUME NEW s \in Slots PROVE leases'[s] = Cardinality(Holders(s)')
  <2>1. Cardinality(HoldersOf(queue, busy', s))
          = Cardinality(HoldersOf(queue, busy, s)) - One(busy[k], s)
    <3>1. busy'[k] = NoLease /\ \A c \in Consumers \ {k} : busy'[c] = busy[c]
      BY <1>1, <1>2
    <3> QED
      BY <1>2, <1>3, <3>1, Releasing
  <2>2. leases[s] = Cardinality(HoldersOf(queue, busy, s)) /\ leases[s] \in Int
    BY <1>0, <1>2, HoldersAre DEF LeasesAreHeld
  <2>3. leases'[s] = leases[s] - One(busy[k], s)
    BY <1>1, <1>2 DEF One
  <2>4. Holders(s)' = HoldersOf(queue, busy', s)
    BY <1>1 DEF Holders, HoldersOf
  <2> QED
    BY <2>1, <2>2, <2>3, <2>4
<1>5. QueuesFit'
  BY <1>0, <1>1 DEF QueuesFit
<1>6. \A c \in Consumers : Held(c)' \subseteq Held(c)
  BY <1>1, <1>2 DEF Held
<1>7. BorrowedFramesAreStable'
  BY <1>0, <1>1, <1>6 DEF BorrowedFramesAreStable, memory
<1> QED
  BY <1>4, <1>5, <1>7 DEF LeaseInv, LeasesAreHeld
(* A frame leased to a sink is counted, the lease it evicts is not any more.   *)
LEMMA FanningKeepsLeases ==
  ASSUME OwnerInv, FanOut
  PROVE  LeaseInv'
<1> DEFINE k == writer.sink
           s == writer.slot
           l == [slot |-> s, sequence |-> seq[s]]
           full == Len(queue[k]) = Depth
           kept == IF full THEN Tail(queue[k]) ELSE queue[k]
           q == [queue EXCEPT ![k] = kept]
<1>0. /\ TypeOK /\ QueuesFit /\ LeasesAreHeld /\ BorrowedFramesAreStable
      /\ k \in Consumers /\ s \in Slots /\ Depth \in Nat \ {0}
      /\ UNCHANGED <<memory, busy>>
  BY PoolConstants DEF OwnerInv, LeaseInv, Inv, TypeOK, WriterState, FanOut
<1>1. CASE ~Leasable(s)
  <2>1. UNCHANGED <<queue, leases>>
    BY <1>1 DEF FanOut
  <2> QED
    BY <1>0, <2>1 DEF LeaseInv, QueuesFit, LeasesAreHeld, Holders, BorrowedFramesAreStable,
                      Held, memory
<1>2. CASE Leasable(s)
  <2>1. /\ queue' = [queue EXCEPT ![k] = Append(kept, l)]
        /\ leases' = IF full THEN [[leases EXCEPT ![s] = @ + 1]
                                     EXCEPT ![Head(queue[k]).slot] = @ - 1]
                     ELSE [leases EXCEPT ![s] = @ + 1]
    BY <1>2 DEF FanOut
  <2>2. l \in Lease /\ Stable(l)
    <3>1. front[s] = seq[s] /\ back[s] = seq[s]
      BY <1>0, <1>2 DEF OwnerInv, Inv, Whole, Leasable
    <3> QED
      BY <1>0, <1>2, <3>1 DEF Lease, TypeOK, Stable, Leasable
  <2>3. queue \in [Consumers -> Seq(Lease)] /\ leases \in [Slots -> Int] /\ Len(queue[k]) <= Depth
    BY <1>0 DEF TypeOK, QueuesFit
  <2>4. full => Taken(queue, q, k) /\ Head(queue[k]) = queue[k][1] /\ queue[k][1] \in Lease
    BY <1>0, <2>3 DEF Taken
  <2>5. kept \in Seq(Lease) /\ Len(kept) < Depth
    BY <1>0, <2>3
  <2> HIDE DEF kept, l
  <2>6. Queued(q, queue', k, l)
    BY <1>0, <2>1, <2>2, <2>3, <2>5 DEF Queued
  <2>7. ASSUME NEW t \in Slots PROVE leases'[t] = Cardinality(Holders(t)')
    <3>1. Cardinality(HoldersOf(queue', busy, t)) = Cardinality(HoldersOf(q, busy, t)) + One(l, t)
      BY <2>6, Queueing
    <3>2. /\ leases[t] = Cardinality(HoldersOf(queue, busy, t)) /\ leases[t] \in Int
          /\ Holders(t)' = HoldersOf(queue', busy, t)
      BY <1>0, <2>3, HoldersAre DEF LeasesAreHeld, Holders, HoldersOf
    <3>3. CASE full
      <4>1. Cardinality(HoldersOf(q, busy, t))
              = Cardinality(HoldersOf(queue, busy, t)) - One(queue[k][1], t)
        BY <2>4, <3>3, Unqueueing
      <4>2. leases'[t] = leases[t] + One(l, t) - One(queue[k][1], t)
        BY <1>0, <2>1, <2>3, <2>4, <3>3 DEF One, l, Lease
      <4> QED
        BY <3>1, <3>2, <4>1, <4>2 DEF One
    <3>4. CASE ~full
      <4>1. q = queue
        BY <1>0, <2>3, <3>4 DEF kept
      <4>2. leases'[t] = leases[t] + One(l, t)
        BY <1>0, <2>1, <2>3, <3>4 DEF One, l
      <4> QED
        BY <3>1, <3>2, <4>1, <4>2
    <3> QED
      BY <3>3, <3>4
  <2>8. /\ queue'[k] = Append(kept, l) /\ \A c \in Consumers \ {k} : queue'[c] = queue[c]
    BY <1>0, <2>1, <2>3
  <2>9. QueuesFit'
    BY <1>0, <2>2, <2>3, <2>5, <2>8 DEF QueuesFit
  <2>10. \A c \in Consumers : Held(c)' \subseteq Held(c) \cup {l}
    <3>1. ASSUME NEW i \in 1 .. Len(kept) PROVE kept[i] \in Held(k)
      BY <1>0, <2>3 DEF kept, Held
    <3>2. ASSUME NEW i \in 1 .. Len(queue'[k]) PROVE queue'[k][i] \in Held(k) \cup {l}
      <4>1. queue'[k][i] = l \/ (i \in 1 .. Len(kept) /\ queue'[k][i] = kept[i])
        BY <2>2, <2>5, <2>8
      <4> QED
        BY <3>1, <4>1
    <3>3. ASSUME NEW c \in Consumers, c # k PROVE Held(c)' = Held(c)
      BY <1>0, <2>8, <3>3 DEF Held
    <3>4. ASSUME NEW c \in Consumers, c = k PROVE Held(c)' \subseteq Held(c) \cup {l}
      <4>1. ASSUME NEW x \in Held(c)', x \notin Held(c) PROVE x = l
        <5>1. CASE x \in {busy[c]} \ {NoLease}
          BY <4>1, <5>1 DEF Held
        <5>2. CASE \E i \in 1 .. Len(queue'[c]) : x = queue'[c][i]
          BY <3>2, <3>4, <4>1, <5>2
        <5> QED
          BY <1>0, <4>1, <5>1, <5>2 DEF Held
      <4> QED
        BY <4>1
    <3> QED
      BY <3>3, <3>4
  <2>11. BorrowedFramesAreStable'
    BY <1>0, <2>2, <2>10 DEF BorrowedFramesAreStable, memory, Stable
  <2> QED
    BY <2>7, <2>9, <2>11 DEF LeaseInv, LeasesAreHeld
<1> QED
  BY <1>1, <1>2

(* A fresh pool, and the pool of a new owner: nothing is leased or held.     *)
LEMMA NothingIsHeld ==
  ASSUME NEW q, NEW b, NEW s \in Slots,
         q = [k \in Consumers |-> <<>>], b = [k \in Consumers |-> NoLease]
  PROVE  Cardinality(HoldersOf(q, b, s)) = 0
<1>1. SlotCount \notin Slots
  BY PoolConstants DEF Slots
<1>2. ASSUME NEW h \in Consumers \X (0 .. Depth) PROVE h \notin HoldersOf(q, b, s)
  BY <1>1, PoolConstants DEF HoldersOf, NoLease
<1>3. HoldersOf(q, b, s) = {}
  BY <1>2 DEF HoldersOf
<1> QED
  BY <1>3, FS_EmptySet

(* So the counts hold of both.                                               *)
LEMMA InitLeases == Init => LeaseInv
<1> SUFFICES ASSUME Init PROVE LeaseInv
  OBVIOUS
<1>1. LeasesAreHeld
  BY NothingIsHeld, HoldersAre DEF Init, LeasesAreHeld
<1>2. QueuesFit /\ BorrowedFramesAreStable
  BY PoolConstants DEF Init, QueuesFit, BorrowedFramesAreStable, Held
<1> QED
  BY <1>1, <1>2 DEF LeaseInv

(* The leases of a dead owner go with it.                                    *)
LEMMA CrashKeepsLeases ==
  ASSUME OwnerCrashes
  PROVE  LeaseInv'
<1>1. LeasesAreHeld'
  <2>1. ASSUME NEW s \in Slots PROVE leases'[s] = Cardinality(Holders(s)')
    <3>1. Holders(s)' = HoldersOf(queue', busy', s)
      BY DEF Holders, HoldersOf
    <3> QED
      BY <3>1, NothingIsHeld DEF OwnerCrashes
  <2> QED
    BY <2>1 DEF LeasesAreHeld
<1>2. QueuesFit' /\ BorrowedFramesAreStable'
  BY PoolConstants DEF OwnerCrashes, QueuesFit, BorrowedFramesAreStable, Held
<1> QED
  BY <1>1, <1>2 DEF LeaseInv

(* Every step.                                                               *)
LEMMA NextOwner ==
  ASSUME OwnerInv, [Next]_vars
  PROVE  OwnerInv'
<1>1. Inv'
  BY NextInv DEF OwnerInv
<1>2. LeaseInv'
  <2>1. CASE Capture
    BY <2>1, WritingKeepsLeases, FanningKeepsLeases DEF Capture
  <2>2. CASE \E k \in Consumers : SinkTakes(k) \/ SinkReleases(k)
    BY <2>2, TakingKeepsLeases, ReleasingKeepsLeases
  <2>3. ASSUME UNCHANGED <<memory, owner>> PROVE LeaseInv'
    BY <2>3 DEF OwnerInv, LeaseInv, QueuesFit, LeasesAreHeld, Holders, BorrowedFramesAreStable,
                Held, memory, owner
  <2>4. CASE Record
    BY <2>3, <2>4 DEF Record, ReadGeneration, ReadSequence, CopyBegins, CopyFront, CopyBack,
                      CopyEnds
  <2>5. CASE OwnerCrashes
    BY <2>5, CrashKeepsLeases
  <2>6. CASE UNCHANGED vars
    BY <2>3, <2>6 DEF vars
  <2> QED
    BY <2>1, <2>2, <2>4, <2>5, <2>6 DEF Next
<1> QED
  BY <1>1, <1>2 DEF OwnerInv

(* A borrowed frame is neither rewritten nor given away, and each lease      *)
(* counted is held by one consumer.                                          *)
THEOREM PoolHolds == Spec => []PoolInv
<1>1. Init => OwnerInv
  BY InitInv, InitLeases DEF OwnerInv
<1>2. OwnerInv => PoolInv
  BY DEF OwnerInv, LeaseInv, Inv, PoolInv
<1> QED
  BY <1>1, <1>2, NextOwner, PTL DEF Spec

(* Only FanOut's refusal by a pool full counts a drop.                       *)
LEMMA DropsWhenFull ==
  ASSUME TypeOK, Next, drops' > drops
  PROVE  Unleased = {}
<1>0. drops \in Nat /\ ~(drops > drops)
  BY DEF TypeOK
<1>1. CASE Capture
  BY <1>0, <1>1 DEF Capture, BeginWrite, PoolFull, AbortWrite, WriteFront, WriteBack,
                    CommitMetadata, CommitGeneration, CommitHeader, FanOut, FanOutEnds
<1>2. CASE \E k \in Consumers : SinkTakes(k) \/ SinkReleases(k)
  BY <1>0, <1>2 DEF SinkTakes, SinkReleases
<1>3. CASE Record
  BY <1>0, <1>3 DEF Record, ReadGeneration, ReadSequence, CopyBegins, CopyFront, CopyBack,
                    CopyEnds, owner
<1>4. CASE OwnerCrashes
  BY <1>0, <1>4 DEF OwnerCrashes
<1> QED
  BY <1>1, <1>2, <1>3, <1>4 DEF Next

(* Slots that are all held are no more than the places there are.            *)
LEMMA HeldSlotsFit ==
  ASSUME TypeOK, \A s \in Slots : Holders(s) # {}
  PROVE  SlotCount <= (Depth + 1) * Sinks
<1> DEFINE P == Consumers \X (0 .. Depth)
           at == [s \in Slots |-> CHOOSE h \in P : h \in Holders(s)]
<1>1. SlotCount \in Nat /\ Sinks \in Nat /\ Depth \in Nat
  BY PoolConstants
<1>2. \A s \in Slots : at[s] \in P /\ at[s] \in Holders(s)
  BY DEF Holders
<1>3. \A s, t \in Slots : at[s] = at[t] => s = t
  BY <1>2 DEF Holders
<1> HIDE DEF at
<1>4. at \in [Slots -> P]
  BY <1>2 DEF at
<1>5. at \in Injection(Slots, P)
  <2> HIDE DEF P
  <2> QED
    BY <1>3, <1>4, Fun_IsInj
<1>6. Cardinality(Slots) <= Cardinality(P)
  BY <1>5, PlacesAreFinite, FS_Injection
<1>7. Cardinality(Slots) = SlotCount
  BY <1>1, FS_Interval DEF Slots
<1> QED
  BY <1>1, <1>6, <1>7, PlacesAreFinite

(* A frame is refused for want of a slot only while a sink holds every one.  *)
THEOREM RefusalHolds == Spec => RefusedOnlyWhenHeld
<1> DEFINE A == drops' > drops => /\ \A s \in Slots : Holders(s) # {}
                                  /\ SlotCount <= (Depth + 1) * Sinks
<1>1. ASSUME OwnerInv, [Next]_vars PROVE [A]_vars
  <2> SUFFICES ASSUME Next, drops' > drops PROVE A
    BY <1>1
  <2>1. TypeOK /\ LeasesAreHeld
    BY <1>1 DEF OwnerInv, LeaseInv, Inv
  <2>2. \A s \in Slots : leases[s] # 0
    BY <2>1, DropsWhenFull DEF Unleased
  <2>3. \A s \in Slots : Holders(s) # {}
    BY <2>1, <2>2, UnleasedIsUnheld
  <2> QED
    BY <2>1, <2>3, HeldSlotsFit
<1>2. Init => OwnerInv
  BY InitInv, InitLeases DEF OwnerInv
<1>3. ASSUME OwnerInv, [Next]_vars PROVE OwnerInv'
  BY <1>3, NextOwner
<1> QED
  BY <1>1, <1>2, <1>3, PTL DEF Spec, RefusedOnlyWhenHeld

-----------------------------------------------------------------------------
(* The owner of the camera (SensingNode).                                      *)

SinkState == [queue : Seq(Nat), work : Nat, stop : BOOLEAN, runs : BOOLEAN]

InSync == /\ Len(sync.samples) >= 3
          /\ \A i \in DOMAIN sync.samples : sync.samples[i]

(* What main keeps: stamps rise up to the last one mapped, and frames are taken    *)
(* in sync only.                                                            *)
OwnerKeeps ==
  /\ stage \in {"sync", "capture", "lend", "close", "end"}
  /\ sync \in [samples : Seq(BOOLEAN), heard : BOOLEAN, imu : BOOLEAN]
  /\ Len(sync.samples) <= 5
  /\ clock \in [boot : Int, offset : Int, last : Nat]
  /\ frames \in Seq(Nat)
  /\ \A i \in DOMAIN frames : 0 < frames[i] /\ frames[i] <= clock.last
  /\ \A i, j \in DOMAIN frames : i < j => frames[i] < frames[j]
  /\ lending \subseteq Camera!Sinks /\ leaked \in Nat
  /\ lending # {} => stage = "lend" /\ frames # <<>>
  /\ stage = "sync" => frames = <<>>
  /\ stage \in {"capture", "lend"} \/ frames # <<>> => InSync

(* What a sink keeps: its frames rise, the newest is its last if it has any and    *)
(* has been offered it, and a thread that has ended holds none.                  *)
Serves(k) ==
  /\ sinks[k] \in SinkState /\ Len(sinks[k].queue) <= QueueDepth
  /\ \A i \in DOMAIN sinks[k].queue :
       sinks[k].work < sinks[k].queue[i] /\ sinks[k].queue[i] <= Len(frames)
  /\ \A i, j \in DOMAIN sinks[k].queue : i < j => sinks[k].queue[i] < sinks[k].queue[j]
  /\ sinks[k].work <= Len(frames)
  /\ k \in lending => /\ sinks[k].work < Len(frames)
                      /\ \A i \in DOMAIN sinks[k].queue : sinks[k].queue[i] < Len(frames)
  /\ stage \in {"capture", "lend"} /\ k \notin lending /\ sinks[k].queue # <<>>
       => sinks[k].queue[Len(sinks[k].queue)] = Len(frames)
  /\ ~sinks[k].runs => sinks[k].stop /\ sinks[k].queue = <<>> /\ sinks[k].work = 0
  /\ sinks[k].stop => stage \in {"close", "end"}
  /\ stage = "end" /\ leaked = 0 => ~sinks[k].runs

SinksKeep == sinks \in [Camera!Sinks -> SinkState] /\ \A k \in Camera!Sinks : Serves(k)

(* What the flow sink keeps: every frame it has yet to measure is younger than     *)
(* all it has measured.                                                     *)
ToMeasure(f) ==
  \/ f = sinks["flow"].work /\ f # 0
  \/ \E i \in DOMAIN sinks["flow"].queue : f = sinks["flow"].queue[i]
  \/ "flow" \in lending /\ f = Len(frames)
FlowKeeps ==
  /\ flow \in [backend : Backends, previous : Nat, span : [from : Nat, to : Nat]]
  /\ flow.previous = 0 \/ flow.span.to <= flow.previous
  /\ flow.span.to <= clock.last /\ flow.previous <= clock.last
  /\ \A f \in DOMAIN frames : ToMeasure(f) => frames[f] > flow.span.to /\ frames[f] > flow.previous

CameraKeeps == OwnerKeeps /\ SinksKeep /\ FlowKeeps

(* The monitor keeps five samples.                                             *)
LEMMA TailOfFive ==
  ASSUME NEW S, NEW q \in Seq(S), Len(q) = 5
  PROVE  Tail(q) \in Seq(S) /\ Len(Tail(q)) = 4
<1>1. Len(<<>>) = 0
  OBVIOUS
<1>2. q # <<>>
  BY <1>1
<1>3. Len(Tail(q)) = Len(q) - 1
  BY <1>2
<1> QED
  BY <1>2, <1>3

LEMMA OneMore ==
  ASSUME NEW S, NEW q \in Seq(S), NEW e \in S
  PROVE  Append(q, e) \in Seq(S) /\ Len(Append(q, e)) = Len(q) + 1 /\ Len(q) \in Nat
OBVIOUS

LEMMA NotedIs ==
  ASSUME NEW S, NEW q \in Seq(S), Len(q) <= 5, NEW e \in S
  PROVE  Camera!Noted(q, e) \in Seq(S) /\ Len(Camera!Noted(q, e)) <= 5
<1>1. PICK r : r = Camera!Noted(q, e)
  OBVIOUS
<1>2. PICK n : n = Len(q)
  OBVIOUS
<1>3. PICK k : k = Len(r)
  OBVIOUS
<1>4. n \in Nat /\ n <= 5
  BY <1>2, OneMore
<1>5. CASE n = 5
  <2>1. Tail(q) \in Seq(S) /\ Len(Tail(q)) = 4
    BY <1>2, <1>5, TailOfFive
  <2>2. r \in Seq(S) /\ k = 4 + 1
    <3>1. r = Append(Tail(q), e)
      BY <1>1, <1>2, <1>5, Zenon DEF Camera!Noted
    <3>2. r \in Seq(S) /\ Len(r) = Len(Tail(q)) + 1
      BY <2>1, <3>1, OneMore, Zenon
    <3> QED
      BY <1>3, <2>1, <3>2, Zenon
  <2> QED
    BY <1>1, <1>3, <2>2
<1>6. CASE n # 5
  <2>1. r \in Seq(S) /\ k = n + 1
    BY <1>1, <1>2, <1>3, <1>6, OneMore, Zenon DEF Camera!Noted
  <2>2. k <= 5
    BY <1>4, <1>6, <2>1
  <2> QED
    BY <1>1, <1>3, <2>1, <2>2
<1> QED
  BY <1>5, <1>6

LEMMA SinksRest ==
  ASSUME CameraKeeps, UNCHANGED <<sinks, frames, lending>>,
         \/ stage' = stage /\ (stage # "end" \/ leaked' = leaked)
         \/ stage = "sync" /\ stage' \in {"capture", "close"}
         \/ stage' = "close"
  PROVE  SinksKeep'
<1>1. ASSUME NEW k \in Camera!Sinks
      PROVE  Serves(k)'
  <2>1. /\ Serves(k) /\ sinks[k].queue \in Seq(Nat) /\ sinks[k].work \in Nat
        /\ stage = "sync" => frames = <<>>
    BY DEF CameraKeeps, SinksKeep, OwnerKeeps, Serves, SinkState
  <2>2. CASE stage' = stage
    BY <2>1, <2>2 DEF Serves
  <2>3. CASE stage = "sync" /\ stage' \in {"capture", "close"}
    <3>1. sinks[k].queue = <<>>
      BY <2>1, <2>3 DEF Serves
    <3> QED
      BY <2>1, <2>3, <3>1 DEF Serves
  <2>4. CASE stage' = "close"
    BY <2>1, <2>4 DEF Serves
  <2> QED
    BY <2>2, <2>3, <2>4
<1> QED
  BY <1>1 DEF CameraKeeps, SinksKeep

LEMMA FlowRests ==
  ASSUME CameraKeeps, UNCHANGED <<sinks, frames, lending, flow>>,
         clock'.last \in Nat, clock'.last >= clock.last
  PROVE  FlowKeeps'
<1>1. clock.last \in Nat /\ FlowKeeps
  BY DEF CameraKeeps, OwnerKeeps
<1>2. flow.span.to \in Nat /\ flow.previous \in Nat
  BY <1>1 DEF FlowKeeps
<1>3. \A f : ToMeasure(f)' => ToMeasure(f)
  BY DEF ToMeasure
<1> QED
  BY <1>1, <1>2, <1>3 DEF FlowKeeps

(* The monitors, the signals and the turns of main that leave the frames alone.   *)
LEMMA BesideKeeps ==
  ASSUME CameraKeeps, Camera!Beside
  PROVE  CameraKeeps'
<1>1. /\ OwnerKeeps /\ UNCHANGED <<frames, lending, sinks, leaked, flow, stage>>
      /\ clock.last \in Nat
  BY DEF Camera!Beside, Camera!NoteTimesync, Camera!NoteImu, Camera!GoesStale,
         Camera!RequestStop, Camera!OnStatus, Camera!ClockSteps, CameraKeeps, OwnerKeeps,
         Camera!main, Camera!startup, Camera!capturing, Camera!work
<1>2. clock' \in [boot : Int, offset : Int, last : Nat] /\ clock'.last = clock.last
  <2>1. CASE Camera!ClockSteps
    <3>1. PICK d \in WallSteps : clock' = [clock EXCEPT !.offset = @ + d]
      BY <2>1 DEF Camera!ClockSteps
    <3>2. clock.offset + d \in Int /\ clock \in [boot : Int, offset : Int, last : Nat]
      BY <1>1, CaptureConstants DEF OwnerKeeps
    <3> QED
      BY <3>1, <3>2, Zenon
  <2>2. CASE ~Camera!ClockSteps
    <3>1. clock' = clock
      BY <2>2 DEF Camera!Beside, Camera!NoteTimesync, Camera!NoteImu, Camera!GoesStale,
                  Camera!RequestStop, Camera!OnStatus, Camera!capturing
    <3> QED
      BY <1>1, <3>1 DEF OwnerKeeps
  <2> QED
    BY <2>1, <2>2
<1>3. /\ sync' \in [samples : Seq(BOOLEAN), heard : BOOLEAN, imu : BOOLEAN]
      /\ Len(sync'.samples) <= 5
      /\ stage # "sync" => sync' = sync
  <2>0. /\ sync.samples \in Seq(BOOLEAN) /\ sync.heard \in BOOLEAN /\ sync.imu \in BOOLEAN
        /\ Len(sync.samples) <= 5 /\ Len(sync.samples) \in Nat
        /\ sync \in [samples : Seq(BOOLEAN), heard : BOOLEAN, imu : BOOLEAN]
    BY <1>1 DEF OwnerKeeps
  <2>1. CASE Camera!NoteTimesync
    <3>1. PICK good \in BOOLEAN : sync' = [sync EXCEPT !.samples = Camera!Noted(@, good), !.heard = TRUE]
      BY <2>1 DEF Camera!NoteTimesync
    <3>2. PICK s : s = Camera!Noted(sync.samples, good)
      OBVIOUS
    <3>3. s \in Seq(BOOLEAN) /\ Len(s) <= 5
      BY <2>0, <3>2, NotedIs, Zenon
    <3>4. sync' = [sync EXCEPT !.samples = s, !.heard = TRUE]
      BY <3>1, <3>2
    <3>5. sync' \in [samples : Seq(BOOLEAN), heard : BOOLEAN, imu : BOOLEAN] /\ sync'.samples = s
      BY <2>0, <3>3, <3>4, Zenon
    <3> QED
      BY <2>1, <3>3, <3>5 DEF Camera!NoteTimesync
  <2>2. CASE Camera!NoteImu \/ Camera!GoesStale
    BY <2>0, <2>2, Zenon DEF Camera!NoteImu, Camera!GoesStale
  <2>3. CASE Camera!RequestStop \/ Camera!OnStatus \/ Camera!ClockSteps
    BY <2>0, <2>3 DEF Camera!RequestStop, Camera!OnStatus, Camera!ClockSteps, Camera!startup
  <2> QED
    BY <2>1, <2>2, <2>3 DEF Camera!Beside
<1>4. OwnerKeeps'
  <2>1. stage \in {"capture", "lend"} \/ frames # <<>> => stage # "sync"
    BY <1>1 DEF OwnerKeeps
  <2>2. stage \in {"capture", "lend"} \/ frames # <<>> => InSync'
    BY <1>1, <1>3, <2>1 DEF OwnerKeeps, InSync
  <2> QED
    BY <1>1, <1>2, <1>3, <2>2 DEF OwnerKeeps
<1>5. SinksKeep'
  BY <1>1, SinksRest
<1>6. FlowKeeps'
  BY <1>1, <1>2, FlowRests
<1> QED
  BY <1>4, <1>5, <1>6 DEF CameraKeeps

(* The turns of main that take no frame.                                       *)
LEMMA OwnerTurns ==
  ASSUME CameraKeeps, Camera!WaitReady \/ Camera!BadShape \/ Camera!StopsCapture \/ \E k \in Camera!Sinks : Camera!JoinTimesOut(k)
  PROVE  CameraKeeps'
<1>1. /\ OwnerKeeps /\ UNCHANGED <<frames, lending, sinks, flow, clock, sync>>
      /\ stage # "lend" /\ stage' # "lend"
      /\ leaked' \in Nat /\ leaked \in Nat
      /\ \/ stage = "sync" /\ stage' = "capture" /\ InSync
         \/ stage = "sync" /\ stage' = "close"
         \/ stage = "capture" /\ stage' = "close"
         \/ stage = "close" /\ stage' = "close"
  BY DEF Camera!WaitReady, Camera!BadShape, Camera!StopsCapture, Camera!JoinTimesOut,
         CameraKeeps, OwnerKeeps, Camera!startup, Camera!capturing, Camera!work, Camera!main,
         Camera!Ready, InSync
<1>2. OwnerKeeps'
  <2>1. InSync' <=> InSync
    BY <1>1 DEF InSync
  <2> QED
    BY <1>1, <2>1 DEF OwnerKeeps
<1>3. SinksKeep'
  BY <1>1, SinksRest
<1>4. FlowKeeps'
  BY <1>1, FlowRests DEF OwnerKeeps
<1> QED
  BY <1>2, <1>3, <1>4 DEF CameraKeeps

LEMMA PoolCloses ==
  ASSUME CameraKeeps, Camera!ClosePool
  PROVE  CameraKeeps'
<1>1. /\ OwnerKeeps /\ UNCHANGED <<frames, lending, sinks, flow, clock, sync, leaked>>
      /\ stage = "close" /\ stage' = "end" /\ leaked \in Nat
      /\ Cardinality({k \in Camera!Sinks : sinks[k].runs}) <= leaked
  <2>1. UNCHANGED <<frames, lending, sinks, flow, clock, sync, leaked>>
    BY DEF Camera!ClosePool, Camera!startup, Camera!capturing, Camera!work
  <2>2. OwnerKeeps /\ leaked \in Nat
    BY DEF CameraKeeps, OwnerKeeps
  <2>3. stage = "close" /\ stage' = "end"
    BY DEF Camera!ClosePool
  <2>4. Camera!Cardinality({k \in Camera!Sinks : sinks[k].runs}) <= leaked
    BY DEF Camera!ClosePool
  <2>5. \A S : Camera!Cardinality(S) = Cardinality(S)
    BY DEF Camera!Cardinality, Cardinality
  <2> QED
    BY <2>1, <2>2, <2>3, <2>4, <2>5
<1>2. OwnerKeeps'
  <2>1. InSync' <=> InSync
    BY <1>1 DEF InSync
  <2> QED
    BY <1>1, <2>1 DEF OwnerKeeps
<1>3. leaked = 0 => \A k \in Camera!Sinks : ~sinks[k].runs
  <2> DEFINE R == {k \in Camera!Sinks : sinks[k].runs}
  <2>1. IsFiniteSet(R)
    <3>1. IsFiniteSet({"flow"}) /\ IsFiniteSet({"flow"} \cup {"detector"})
      BY FS_Singleton, FS_AddElement
    <3>2. R \subseteq {"flow"} \cup {"detector"}
      BY DEF Camera!Sinks
    <3> QED
      BY <3>1, <3>2, FS_Subset
  <2>2. Cardinality(R) \in Nat /\ Cardinality(R) <= leaked
    BY <1>1, <2>1, FS_CardinalityType
  <2>3. leaked = 0 => R = {}
    <3> HIDE DEF R
    <3>1. leaked = 0 => Cardinality(R) = 0
      BY <1>1, <2>2
    <3> QED
      BY <2>1, <3>1, FS_EmptySet
  <2> QED
    BY <2>3
<1>4. SinksKeep'
  BY <1>1, <1>3 DEF CameraKeeps, SinksKeep, Serves
<1>5. FlowKeeps'
  BY <1>1, FlowRests DEF OwnerKeeps
<1> QED
  BY <1>2, <1>4, <1>5 DEF CameraKeeps

(* A frame is taken, or passed over.                                          *)
LEMMA FrameTaken ==
  ASSUME CameraKeeps, Camera!Capture
  PROVE  CameraKeeps'
<1>1. PICK now : \E gap \in FrameGaps :
        /\ now = [clock EXCEPT !.boot = @ + gap]
        /\ IF ~Camera!Mapped(now)
           THEN clock' = now /\ UNCHANGED <<stage, frames, lending>>
           ELSE /\ clock' = [now EXCEPT !.last = now.boot + now.offset]
                /\ IF Camera!PoolFull THEN UNCHANGED <<stage, frames, lending>>
                   ELSE /\ frames' = Append(frames, now.boot + now.offset)
                        /\ stage' = "lend" /\ lending' = Camera!Sinks
  BY DEF Camera!Capture
<1>2. PICK stamp : stamp = now.boot + now.offset
  OBVIOUS
<1>3. /\ OwnerKeeps /\ SinksKeep /\ FlowKeeps /\ stage = "capture"
      /\ UNCHANGED <<sinks, leaked, flow, sync>> /\ leaked \in Nat /\ clock.last \in Nat
  BY DEF Camera!Capture, CameraKeeps, OwnerKeeps, Camera!work, Camera!startup
<1>4. /\ now \in [boot : Int, offset : Int, last : Nat] /\ now.last = clock.last /\ stamp \in Int
  <2>1. PICK gap \in FrameGaps : now = [clock EXCEPT !.boot = @ + gap]
    BY <1>1
  <2>2. clock.boot + gap \in Int /\ clock \in [boot : Int, offset : Int, last : Nat]
    BY <1>3, CaptureConstants DEF OwnerKeeps
  <2>3. now \in [boot : Int, offset : Int, last : Nat] /\ now.last = clock.last
    BY <2>1, <2>2, Zenon
  <2>4. now.boot \in Int /\ now.offset \in Int
    BY <2>3
  <2> QED
    BY <1>2, <2>3, <2>4
<1>5. CASE ~Camera!Mapped(now)
  <2>1. clock' = now /\ UNCHANGED <<stage, frames, lending>>
    BY <1>1, <1>5
  <2>2. OwnerKeeps'
    BY <1>3, <1>4, <2>1 DEF OwnerKeeps, InSync
  <2>3. SinksKeep'
    BY <1>3, <2>1, SinksRest
  <2>4. FlowKeeps'
    BY <1>3, <1>4, <2>1, FlowRests
  <2> QED
    BY <2>2, <2>3, <2>4 DEF CameraKeeps
<1>6. CASE Camera!Mapped(now)
  <2>1. clock' = [now EXCEPT !.last = stamp] /\ stamp > clock.last /\ stamp \in Nat
    BY <1>1, <1>2, <1>3, <1>4, <1>6 DEF Camera!Mapped
  <2>2. clock' \in [boot : Int, offset : Int, last : Nat] /\ clock'.last = stamp
    BY <1>4, <2>1, Zenon
  <2>3. CASE UNCHANGED <<stage, frames, lending>>
    <3>1. OwnerKeeps'
      <4>1. \A i \in DOMAIN frames : 0 < frames[i] /\ frames[i] <= stamp
        BY <1>3, <2>1 DEF OwnerKeeps
      <4> QED
        BY <1>3, <2>2, <2>3, <4>1 DEF OwnerKeeps, InSync
    <3>2. SinksKeep'
      BY <1>3, <2>3, SinksRest
    <3>3. FlowKeeps'
      BY <1>3, <2>1, <2>2, <2>3, FlowRests
    <3> QED
      BY <3>1, <3>2, <3>3 DEF CameraKeeps
  <2>4. CASE frames' = Append(frames, stamp) /\ stage' = "lend" /\ lending' = Camera!Sinks
    <3>1. /\ frames \in Seq(Nat) /\ frames' \in Seq(Nat)
          /\ Len(frames) \in Nat /\ Len(frames') = Len(frames) + 1
          /\ DOMAIN frames = 1 .. Len(frames) /\ DOMAIN frames' = 1 .. Len(frames) + 1
          /\ \A i \in DOMAIN frames : frames'[i] = frames[i]
          /\ frames'[Len(frames) + 1] = stamp
      BY <1>3, <2>1, <2>4 DEF OwnerKeeps
    <3>2. \A i \in DOMAIN frames : 0 < frames[i] /\ frames[i] <= clock.last /\ frames[i] \in Nat
      BY <1>3, <3>1 DEF OwnerKeeps
    <3>3. OwnerKeeps'
      <4>1. \A i \in DOMAIN frames' : 0 < frames'[i] /\ frames'[i] <= stamp
        BY <1>3, <2>1, <3>1, <3>2
      <4>2. ASSUME NEW i \in DOMAIN frames', NEW j \in DOMAIN frames', i < j
            PROVE  frames'[i] < frames'[j]
        <5>1. i \in DOMAIN frames /\ frames'[i] = frames[i]
          BY <3>1, <4>2
        <5>2. CASE j = Len(frames) + 1
          BY <1>3, <2>1, <3>1, <3>2, <5>1, <5>2
        <5>3. CASE j # Len(frames) + 1
          <6>1. j \in DOMAIN frames /\ frames'[j] = frames[j]
            BY <3>1, <5>3
          <6> QED
            BY <1>3, <4>2, <5>1, <6>1 DEF OwnerKeeps
        <5> QED
          BY <5>2, <5>3
      <4>3. frames' # <<>>
        BY <3>1
      <4>4. InSync'
        BY <1>3 DEF OwnerKeeps, InSync
      <4> QED
        BY <1>3, <2>2, <2>4, <3>1, <4>1, <4>2, <4>3, <4>4 DEF OwnerKeeps
    <3>4. SinksKeep'
      <4>1. ASSUME NEW k \in Camera!Sinks
            PROVE  Serves(k)'
        <5>1. Serves(k) /\ sinks[k].queue \in Seq(Nat) /\ sinks[k].work \in Nat
          BY <1>3 DEF SinksKeep, SinkState
        <5>2. \A i \in DOMAIN sinks[k].queue : sinks[k].queue[i] \in Nat
          BY <5>1
        <5>3. ~sinks[k].stop
          BY <1>3, <5>1 DEF Serves
        <5> QED
          BY <1>3, <2>4, <3>1, <5>1, <5>2, <5>3 DEF Serves
      <4> QED
        BY <1>3, <4>1 DEF SinksKeep
    <3>5. FlowKeeps'
      <4>1. /\ flow.span.to \in Nat /\ flow.previous \in Nat
            /\ flow.span.to <= clock.last /\ flow.previous <= clock.last
        BY <1>3 DEF FlowKeeps
      <4>2. ASSUME NEW f \in DOMAIN frames', ToMeasure(f)'
            PROVE  frames'[f] > flow.span.to /\ frames'[f] > flow.previous
        <5>1. CASE f = Len(frames) + 1
          BY <1>3, <2>1, <3>1, <4>1, <5>1
        <5>2. CASE f # Len(frames) + 1
          <6>1. f \in DOMAIN frames /\ frames'[f] = frames[f]
            BY <3>1, <5>2
          <6>2. ToMeasure(f)
            BY <1>3, <3>1, <4>2, <5>2 DEF ToMeasure
          <6> QED
            BY <1>3, <6>1, <6>2 DEF FlowKeeps
        <5> QED
          BY <5>1, <5>2
      <4> QED
        BY <1>3, <2>1, <2>2, <4>1, <4>2 DEF FlowKeeps
    <3> QED
      BY <3>3, <3>4, <3>5 DEF CameraKeeps
  <2> QED
    BY <1>1, <1>2, <1>6, <2>3, <2>4
<1> QED
  BY <1>5, <1>6

LEMMA TailIs ==
  ASSUME NEW q \in Seq(Nat), q # <<>>
  PROVE  /\ Tail(q) \in Seq(Nat) /\ Len(Tail(q)) = Len(q) - 1 /\ Len(q) \in Nat \ {0}
         /\ DOMAIN Tail(q) = 1 .. Len(q) - 1
         /\ \A i \in 1 .. Len(q) - 1 : i + 1 \in DOMAIN q /\ Tail(q)[i] = q[i + 1]
         /\ Head(q) = q[1] /\ 1 \in DOMAIN q /\ DOMAIN q = 1 .. Len(q)
OBVIOUS

(* Frames in the order in which they were lent.                                *)
Rises(q) == \A i, j \in DOMAIN q : i < j => q[i] < q[j]

LEMMA TailRises ==
  ASSUME NEW q \in Seq(Nat), q # <<>>, Rises(q)
  PROVE  /\ Rises(Tail(q))
         /\ \A i \in DOMAIN Tail(q) : Head(q) < Tail(q)[i]
         /\ Tail(q) # <<>> => Tail(q)[Len(Tail(q))] = q[Len(q)]
<1>1. /\ Tail(q) \in Seq(Nat) /\ Len(Tail(q)) = Len(q) - 1 /\ Len(q) \in Nat \ {0}
      /\ DOMAIN Tail(q) = 1 .. Len(q) - 1
      /\ \A i \in 1 .. Len(q) - 1 : i + 1 \in DOMAIN q /\ Tail(q)[i] = q[i + 1]
      /\ Head(q) = q[1] /\ 1 \in DOMAIN q /\ DOMAIN q = 1 .. Len(q)
  BY TailIs
<1>2. PICK t : t = Tail(q)
  OBVIOUS
<1>3. PICK n : n = Len(q)
  OBVIOUS
<1>4. ASSUME NEW i \in DOMAIN t, NEW j \in DOMAIN t, i < j
      PROVE  t[i] < t[j]
  <2>1. i + 1 \in DOMAIN q /\ j + 1 \in DOMAIN q /\ i + 1 < j + 1
    BY <1>1, <1>2, <1>4
  <2>2. t[i] = q[i + 1] /\ t[j] = q[j + 1]
    BY <1>1, <1>2
  <2> QED
    BY <2>1, <2>2 DEF Rises
<1>5. ASSUME NEW i \in DOMAIN t
      PROVE  Head(q) < t[i]
  <2>1. i + 1 \in DOMAIN q /\ 1 < i + 1 /\ t[i] = q[i + 1]
    BY <1>1, <1>2
  <2> QED
    BY <1>1, <2>1 DEF Rises
<1>6. t # <<>> => t[Len(t)] = q[Len(q)]
  <2>1. t # <<>> => n - 1 >= 1
    BY <1>1, <1>2, <1>3
  <2>2. n \in Nat
    BY <1>1, <1>3
  <2>3. t # <<>> => n - 1 \in 1 .. n - 1 /\ n - 1 + 1 = n
    BY <2>1, <2>2
  <2>4. t # <<>> => t[n - 1] = q[n - 1 + 1]
    BY <1>1, <1>2, <1>3, <2>3
  <2> QED
    BY <1>1, <1>2, <1>3, <2>3, <2>4
<1> QED
  BY <1>2, <1>4, <1>5, <1>6 DEF Rises

LEMMA AppendRises ==
  ASSUME NEW q \in Seq(Nat), Rises(q), NEW f \in Nat, \A i \in DOMAIN q : q[i] < f
  PROVE  LET r == Append(q, f) IN
         /\ r \in Seq(Nat) /\ Len(r) = Len(q) + 1 /\ Len(q) \in Nat
         /\ DOMAIN r = 1 .. Len(q) + 1 /\ DOMAIN q = 1 .. Len(q)
         /\ Rises(r) /\ r[Len(r)] = f
         /\ \A i \in DOMAIN r : r[i] = f \/ \E j \in DOMAIN q : r[i] = q[j]
<1>1. PICK r : r = Append(q, f)
  OBVIOUS
<1>2. PICK n : n = Len(q)
  OBVIOUS
<1>3. /\ r \in Seq(Nat) /\ Len(r) = n + 1 /\ n \in Nat
      /\ DOMAIN r = 1 .. n + 1 /\ DOMAIN q = 1 .. n
      /\ r[n + 1] = f /\ \A i \in 1 .. n : r[i] = q[i]
  BY <1>1, <1>2
<1>4. ASSUME NEW i \in DOMAIN r, NEW j \in DOMAIN r, i < j
      PROVE  r[i] < r[j]
  <2>1. i \in 1 .. n
    BY <1>3, <1>4
  <2>2. CASE j = n + 1
    BY <1>3, <2>1, <2>2
  <2>3. CASE j # n + 1
    <3>1. j \in 1 .. n
      BY <1>3, <2>3
    <3> QED
      BY <1>3, <1>4, <2>1, <3>1 DEF Rises
  <2> QED
    BY <2>2, <2>3
<1>5. ASSUME NEW i \in DOMAIN r
      PROVE  r[i] = f \/ \E j \in DOMAIN q : r[i] = q[j]
  <2>1. i = n + 1 \/ i \in 1 .. n
    BY <1>3
  <2> QED
    BY <1>3, <2>1
<1>6. Rises(r)
  BY <1>4 DEF Rises
<1> QED
  BY <1>1, <1>2, <1>3, <1>5, <1>6

(* submit: the newest is the last of its queue, whatever was given back for it.    *)
LEMMA QueueIs ==
  ASSUME QueueDepth \in Nat \ {0}, NEW q \in Seq(Nat), Len(q) <= QueueDepth, Rises(q),
         NEW f \in Nat, \A i \in DOMAIN q : q[i] < f
  PROVE  LET r == Camera!Queue(q, f) IN
         /\ r \in Seq(Nat) /\ Len(r) <= QueueDepth /\ Rises(r) /\ r[Len(r)] = f
         /\ \A i \in DOMAIN r : r[i] = f \/ \E j \in DOMAIN q : r[i] = q[j]
<1>1. CASE Len(q) = QueueDepth
  <2>1. q # <<>>
    <3>1. Len(<<>>) = 0
      OBVIOUS
    <3> QED
      BY <1>1, <3>1
  <2>2. PICK t : t = Tail(q)
    OBVIOUS
  <2>3. /\ t \in Seq(Nat) /\ Len(t) = QueueDepth - 1 /\ Rises(t)
        /\ \A i \in DOMAIN t : \E j \in DOMAIN q : t[i] = q[j]
    BY <1>1, <2>1, <2>2, TailIs, TailRises
  <2>4. \A i \in DOMAIN t : t[i] < f
    BY <2>3
  <2>5. PICK r : r = Append(t, f)
    OBVIOUS
  <2>6. /\ r \in Seq(Nat) /\ Len(r) = Len(t) + 1 /\ Rises(r) /\ r[Len(r)] = f
        /\ \A i \in DOMAIN r : r[i] = f \/ \E j \in DOMAIN t : r[i] = t[j]
    BY <2>3, <2>4, <2>5, AppendRises
  <2>7. Camera!Queue(q, f) = r
    BY <1>1, <2>2, <2>5 DEF Camera!Queue
  <2>8. Len(r) <= QueueDepth
    BY <2>3, <2>6
  <2>9. \A i \in DOMAIN r : r[i] = f \/ \E j \in DOMAIN q : r[i] = q[j]
    BY <2>3, <2>6
  <2> QED
    BY <2>6, <2>7, <2>8, <2>9
<1>2. CASE Len(q) # QueueDepth
  <2>1. PICK r : r = Append(q, f)
    OBVIOUS
  <2>2. /\ r \in Seq(Nat) /\ Len(r) = Len(q) + 1 /\ Len(q) \in Nat /\ Rises(r) /\ r[Len(r)] = f
        /\ \A i \in DOMAIN r : r[i] = f \/ \E j \in DOMAIN q : r[i] = q[j]
    BY <2>1, AppendRises
  <2>3. Len(r) <= QueueDepth
    BY <1>2, <2>2
  <2>4. Camera!Queue(q, f) = r
    BY <1>2, <2>1 DEF Camera!Queue
  <2> QED
    BY <2>2, <2>3, <2>4
<1> QED
  BY <1>1, <1>2

(* What the state of a sink is, taken apart.                                   *)
LEMMA SinkParts ==
  ASSUME CameraKeeps, NEW k \in Camera!Sinks
  PROVE  /\ Serves(k) /\ sinks[k] \in SinkState
         /\ sinks[k].queue \in Seq(Nat) /\ sinks[k].work \in Nat
         /\ sinks[k].stop \in BOOLEAN /\ sinks[k].runs \in BOOLEAN
         /\ Rises(sinks[k].queue) /\ Len(frames) \in Nat
         /\ DOMAIN frames = 1 .. Len(frames)
         /\ sinks \in [Camera!Sinks -> SinkState]
  BY DEF CameraKeeps, OwnerKeeps, SinksKeep, Serves, SinkState, Rises

(* Main's part is left alone by what a sink does.                                *)
LEMMA OwnerRests ==
  ASSUME OwnerKeeps, UNCHANGED <<frames, lending, stage, leaked, clock, sync>>
  PROVE  OwnerKeeps'
  BY DEF OwnerKeeps, InSync

LEMMA LendKeeps ==
  ASSUME CameraKeeps, NEW k \in Camera!Sinks, Camera!Lend(k)
  PROVE  CameraKeeps'
<1>1. /\ OwnerKeeps /\ FlowKeeps /\ stage = "lend" /\ k \in lending
      /\ sinks' = [sinks EXCEPT ![k].queue = Camera!Queue(@, Len(frames))]
      /\ lending' = lending \ {k} /\ stage' \in {"capture", "lend"}
      /\ (lending' # {} => stage' = "lend")
      /\ UNCHANGED <<frames, clock, leaked, flow, sync>>
      /\ frames # <<>> /\ Len(frames) \in Nat
  BY DEF Camera!Lend, CameraKeeps, OwnerKeeps, Camera!startup
<1>2. PICK q : q = sinks[k].queue
  OBVIOUS
<1>3. PICK r : r = Camera!Queue(q, Len(frames))
  OBVIOUS
<1>4. /\ q \in Seq(Nat) /\ Len(q) <= QueueDepth /\ Rises(q)
      /\ \A i \in DOMAIN q : q[i] < Len(frames)
      /\ sinks[k].work < Len(frames) /\ sinks[k] \in SinkState /\ Serves(k)
      /\ \A i \in DOMAIN q : sinks[k].work < q[i]
  BY <1>1, <1>2, SinkParts DEF Serves
<1>5. /\ r \in Seq(Nat) /\ Len(r) <= QueueDepth /\ Rises(r) /\ r[Len(r)] = Len(frames)
      /\ \A i \in DOMAIN r : r[i] = Len(frames) \/ \E j \in DOMAIN q : r[i] = q[j]
  <2>1. QueueDepth \in Nat \ {0}
    BY CaptureConstants
  <2> QED
    BY <1>1, <1>3, <1>4, <2>1, QueueIs
<1>6. PICK s : s = [sinks[k] EXCEPT !.queue = r]
  OBVIOUS
<1>7. s \in SinkState /\ s.queue = r /\ s.work = sinks[k].work /\ s.stop = sinks[k].stop
      /\ s.runs = sinks[k].runs
  BY <1>4, <1>5, <1>6, Zenon DEF SinkState
<1>8. sinks' = [sinks EXCEPT ![k] = s] /\ sinks \in [Camera!Sinks -> SinkState]
  BY <1>1, <1>2, <1>3, <1>6, SinkParts
<1>9. OwnerKeeps'
  BY <1>1 DEF OwnerKeeps, InSync
<1>10. SinksKeep'
  <2>1. sinks' \in [Camera!Sinks -> SinkState]
    BY <1>7, <1>8
  <2>2. Serves(k)'
    <3>1. sinks'[k] = s
      BY <1>8
    <3>2. \A i \in DOMAIN r : s.work < r[i] /\ r[i] <= Len(frames)
      BY <1>1, <1>4, <1>5, <1>7
    <3>3. s.runs
      <4>1. ~s.stop
        BY <1>1, <1>4, <1>7 DEF Serves
      <4> QED
        BY <1>4, <1>7, <4>1 DEF Serves, SinkState
    <3>4. ~s.stop /\ s.work <= Len(frames) /\ \A i, j \in DOMAIN r : i < j => r[i] < r[j]
      BY <1>1, <1>4, <1>5, <1>7 DEF Serves, Rises, SinkState
    <3> QED
      BY <1>1, <1>5, <1>7, <3>1, <3>2, <3>3, <3>4 DEF Serves
  <2>3. ASSUME NEW j \in Camera!Sinks, j # k
        PROVE  Serves(j)'
    <3>1. sinks'[j] = sinks[j] /\ Serves(j) /\ (j \in lending' <=> j \in lending)
      BY <1>1, <1>8, <2>3, SinkParts
    <3> QED
      BY <1>1, <3>1 DEF Serves
  <2> QED
    BY <2>1, <2>2, <2>3 DEF SinksKeep
<1>11. FlowKeeps'
  <2>1. ASSUME NEW f \in DOMAIN frames, ToMeasure(f)'
        PROVE  ToMeasure(f)
    <3>1. CASE k = "flow"
      <4>1. sinks'["flow"] = s
        BY <1>8, <3>1
      <4>2. (f = s.work /\ f # 0) \/ \E i \in DOMAIN r : f = r[i]
        BY <1>1, <1>7, <2>1, <3>1, <4>1 DEF ToMeasure
      <4>3. CASE f = s.work /\ f # 0
        BY <1>7, <3>1, <4>3 DEF ToMeasure
      <4>4. CASE \E i \in DOMAIN r : f = r[i]
        BY <1>1, <1>2, <1>5, <3>1, <4>4 DEF ToMeasure
      <4> QED
        BY <4>2, <4>3, <4>4
    <3>2. CASE k # "flow"
      <4>1. sinks'["flow"] = sinks["flow"]
        BY <1>8, <3>2 DEF Camera!Sinks
      <4> QED
        BY <1>1, <2>1, <3>2, <4>1 DEF ToMeasure
    <3> QED
      BY <3>1, <3>2
  <2> QED
    BY <1>1, <2>1 DEF FlowKeeps
<1> QED
  BY <1>9, <1>10, <1>11 DEF CameraKeeps

LEMMA TakesKeeps ==
  ASSUME CameraKeeps, NEW k \in Camera!Sinks, Camera!Takes(k)
  PROVE  CameraKeeps'
<1>1. /\ OwnerKeeps /\ FlowKeeps /\ sinks[k].runs /\ sinks[k].work = 0 /\ sinks[k].queue # <<>>
      /\ sinks' = [sinks EXCEPT ![k].work = Head(sinks[k].queue), ![k].queue = Tail(@)]
      /\ UNCHANGED <<frames, clock, leaked, flow, sync, lending, stage>>
  BY DEF Camera!Takes, CameraKeeps, Camera!startup, Camera!capturing, Camera!main
<1>2. PICK q : q = sinks[k].queue
  OBVIOUS
<1>3. PICK r : r = Tail(q)
  OBVIOUS
<1>4. PICK h : h = Head(q)
  OBVIOUS
<1>5. /\ Serves(k) /\ sinks[k] \in SinkState /\ q \in Seq(Nat) /\ q # <<>> /\ Rises(q)
      /\ sinks \in [Camera!Sinks -> SinkState] /\ Len(frames) \in Nat
  BY <1>1, <1>2, SinkParts
<1>6. /\ r \in Seq(Nat) /\ Len(r) = Len(q) - 1 /\ Len(q) \in Nat /\ Rises(r)
      /\ h = q[1] /\ 1 \in DOMAIN q /\ h \in Nat
      /\ \A i \in DOMAIN r : h < r[i]
      /\ \A i \in DOMAIN r : i + 1 \in DOMAIN q /\ r[i] = q[i + 1]
      /\ r # <<>> => r[Len(r)] = q[Len(q)]
  BY <1>3, <1>4, <1>5, TailIs, TailRises
<1>7. PICK s : s = [sinks[k] EXCEPT !.work = h, !.queue = r]
  OBVIOUS
<1>8. s \in SinkState /\ s.queue = r /\ s.work = h /\ s.stop = sinks[k].stop
      /\ s.runs = sinks[k].runs
  BY <1>5, <1>6, <1>7, Zenon DEF SinkState
<1>9. sinks' = [sinks EXCEPT ![k] = s]
  BY <1>1, <1>2, <1>3, <1>4, <1>7
<1>10. SinksKeep'
  <2>1. sinks' \in [Camera!Sinks -> SinkState]
    BY <1>5, <1>8, <1>9
  <2>2. Serves(k)'
    <3>1. sinks'[k] = s
      BY <1>5, <1>9
    <3>2. /\ Len(q) <= QueueDepth /\ h <= Len(frames)
          /\ k \in lending => h < Len(frames)
      BY <1>2, <1>5, <1>6 DEF Serves
    <3>3. \A i \in DOMAIN r : /\ h < r[i] /\ r[i] <= Len(frames)
                              /\ k \in lending => r[i] < Len(frames)
      BY <1>2, <1>5, <1>6 DEF Serves
    <3>4. stage \in {"capture", "lend"} /\ k \notin lending /\ r # <<>>
            => r[Len(r)] = Len(frames)
      BY <1>2, <1>5, <1>6 DEF Serves
    <3>5. \A i, j \in DOMAIN r : i < j => r[i] < r[j]
      BY <1>6 DEF Rises
    <3>6. Len(r) <= QueueDepth
      <4>1. PICK n : n = Len(q)
        OBVIOUS
      <4>2. n \in Nat /\ n - 1 <= n
        BY <1>6, <4>1
      <4> QED
        BY <1>6, <3>2, <4>1, <4>2, CaptureConstants
    <3> QED
      BY <1>1, <1>5, <1>8, <3>1, <3>2, <3>3, <3>4, <3>5, <3>6 DEF Serves
  <2>3. ASSUME NEW j \in Camera!Sinks, j # k
        PROVE  Serves(j)'
    <3>1. sinks'[j] = sinks[j] /\ Serves(j)
      BY <1>9, <2>3, SinkParts
    <3> QED
      BY <1>1, <3>1 DEF Serves
  <2> QED
    BY <2>1, <2>2, <2>3 DEF SinksKeep
<1>11. FlowKeeps'
  <2>1. ASSUME NEW f \in DOMAIN frames, ToMeasure(f)'
        PROVE  ToMeasure(f)
    <3>1. CASE k = "flow"
      <4>1. sinks'["flow"] = s
        BY <1>5, <1>9, <3>1
      <4>2. f = h \/ (\E i \in DOMAIN r : f = r[i]) \/ ("flow" \in lending /\ f = Len(frames))
        BY <1>1, <1>8, <2>1, <4>1 DEF ToMeasure
      <4>3. f = h \/ (\E i \in DOMAIN r : f = r[i]) => \E i \in DOMAIN q : f = q[i]
        BY <1>6
      <4> QED
        BY <1>2, <3>1, <4>2, <4>3 DEF ToMeasure
    <3>2. CASE k # "flow"
      <4>1. sinks'["flow"] = sinks["flow"]
        BY <1>5, <1>9, <3>2 DEF Camera!Sinks
      <4> QED
        BY <1>1, <2>1, <3>2, <4>1 DEF ToMeasure
    <3> QED
      BY <3>1, <3>2
  <2> QED
    BY <1>1, <2>1 DEF FlowKeeps
<1> QED
  BY <1>1, <1>10, <1>11, OwnerRests DEF CameraKeeps

LEMMA EndsKeeps ==
  ASSUME CameraKeeps, NEW k \in Camera!Sinks, Camera!SinkEnds(k) \/ Camera!CloseSink(k)
  PROVE  CameraKeeps'
<1>1. PICK s : s \in {[sinks[k] EXCEPT !.runs = FALSE], [sinks[k] EXCEPT !.stop = TRUE]}
               /\ sinks' = [sinks EXCEPT ![k] = s]
               /\ \/ /\ s = [sinks[k] EXCEPT !.runs = FALSE] /\ sinks[k].stop
                     /\ sinks[k].queue = <<>> /\ sinks[k].work = 0
                  \/ s = [sinks[k] EXCEPT !.stop = TRUE] /\ stage = "close"
  BY DEF Camera!SinkEnds, Camera!CloseSink, Camera!MayEnd
<1>2. /\ OwnerKeeps /\ FlowKeeps /\ UNCHANGED <<frames, clock, leaked, flow, sync, lending, stage>>
  BY DEF Camera!SinkEnds, Camera!CloseSink, CameraKeeps, Camera!startup, Camera!capturing,
         Camera!main
<1>3. Serves(k) /\ sinks[k] \in SinkState /\ sinks \in [Camera!Sinks -> SinkState]
  BY SinkParts
<1>4. s \in SinkState /\ s.queue = sinks[k].queue /\ s.work = sinks[k].work
  BY <1>1, <1>3, Zenon DEF SinkState
<1>5. \/ s.runs = FALSE /\ s.stop = sinks[k].stop
      \/ s.runs = sinks[k].runs /\ s.stop = TRUE /\ stage = "close"
  BY <1>1, <1>3, Zenon DEF SinkState
<1>6. ~s.runs => s.stop /\ s.queue = <<>> /\ s.work = 0
  BY <1>1, <1>3, <1>4, <1>5 DEF Serves, SinkState
<1>7. SinksKeep'
  <2>1. sinks' \in [Camera!Sinks -> SinkState]
    BY <1>1, <1>3, <1>4
  <2>2. Serves(k)'
    <3>1. sinks'[k] = s
      BY <1>1, <1>3
    <3>2. s.stop => stage \in {"close", "end"}
      BY <1>3, <1>5 DEF Serves
    <3>3. stage = "end" /\ leaked = 0 => ~s.runs
      BY <1>3, <1>5 DEF Serves
    <3> QED
      BY <1>2, <1>3, <1>4, <1>6, <3>1, <3>2, <3>3 DEF Serves
  <2>3. ASSUME NEW j \in Camera!Sinks, j # k
        PROVE  Serves(j)'
    <3>1. sinks'[j] = sinks[j] /\ Serves(j)
      BY <1>1, <1>3, <2>3, SinkParts
    <3> QED
      BY <1>2, <3>1 DEF Serves
  <2> QED
    BY <2>1, <2>2, <2>3 DEF SinksKeep
<1>8. FlowKeeps'
  <2>1. sinks'["flow"].queue = sinks["flow"].queue /\ sinks'["flow"].work = sinks["flow"].work
    BY <1>1, <1>3, <1>4 DEF Camera!Sinks
  <2>2. \A f : ToMeasure(f)' => ToMeasure(f)
    BY <1>2, <2>1 DEF ToMeasure
  <2> QED
    BY <1>2, <2>2 DEF FlowKeeps
<1> QED
  BY <1>2, <1>7, <1>8, OwnerRests DEF CameraKeeps

(* process counts time once: it goes on from the frame before, and a result spans   *)
(* what lies between the two.                                                *)
LEMMA ProcessCountsOnce ==
  ASSUME FlowKeeps, NEW stamp \in Nat, 0 < stamp, stamp > flow.previous,
         stamp > flow.span.to, NEW suffices, NEW next, next = Camera!Process(stamp, suffices)
  PROVE  /\ next \in [backend : Backends, previous : Nat, span : [from : Nat, to : Nat]]
         /\ next.previous \in {0, stamp}
         /\ \/ next.span = flow.span
            \/ next.span.to = stamp /\ next.previous = stamp /\ next.span.from = flow.previous
               /\ flow.previous # 0 /\ stamp - flow.previous \in 1 .. MaxDt
<1>1. /\ flow \in [backend : Backends, previous : Nat, span : [from : Nat, to : Nat]]
      /\ flow.previous \in Nat
  BY DEF FlowKeeps
<1>2. \/ next = Camera!Measured(stamp) /\ flow.previous # 0 /\ ~Camera!BadTiming(stamp)
      \/ next = [flow EXCEPT !.previous = 0] \/ next = [flow EXCEPT !.previous = stamp]
  BY DEF Camera!Process, Camera!KltProcess, Camera!SvoProcess
<1>3. CASE next = Camera!Measured(stamp) /\ flow.previous # 0 /\ ~Camera!BadTiming(stamp)
  <2>1. PICK sp : sp = [from |-> flow.previous, to |-> stamp]
    OBVIOUS
  <2>2. sp \in [from : Nat, to : Nat] /\ sp.from = flow.previous /\ sp.to = stamp
    BY <1>1, <2>1
  <2>3. next = [flow EXCEPT !.previous = stamp, !.span = sp]
    BY <1>3, <2>1 DEF Camera!Measured
  <2>4. next \in [backend : Backends, previous : Nat, span : [from : Nat, to : Nat]]
        /\ next.previous = stamp /\ next.span = sp
    BY <1>1, <2>2, <2>3, Zenon
  <2>5. stamp - flow.previous \in 1 .. MaxDt
    BY <1>3 DEF Camera!BadTiming
  <2> QED
    BY <1>3, <2>2, <2>4, <2>5
<1>4. ASSUME NEW p \in {0, stamp}, next = [flow EXCEPT !.previous = p]
      PROVE  /\ next \in [backend : Backends, previous : Nat, span : [from : Nat, to : Nat]]
             /\ next.previous = p /\ next.span = flow.span
  <2>1. p \in Nat
    BY <1>4
  <2> QED
    BY <1>1, <1>4, <2>1, Zenon
<1>5. CASE next = [flow EXCEPT !.previous = 0] \/ next = [flow EXCEPT !.previous = stamp]
  <2>1. PICK p \in {0, stamp} : next = [flow EXCEPT !.previous = p]
    BY <1>5
  <2> QED
    BY <1>4, <2>1
<1> QED
  BY <1>2, <1>3, <1>5

(* A frame at work is published, and younger than all that is measured.            *)
LEMMA FrameAtWork ==
  ASSUME CameraKeeps, sinks["flow"].work # 0
  PROVE  /\ sinks["flow"].work \in DOMAIN frames
         /\ frames[sinks["flow"].work] \in Nat /\ 0 < frames[sinks["flow"].work]
         /\ frames[sinks["flow"].work] <= clock.last
         /\ frames[sinks["flow"].work] > flow.previous
         /\ frames[sinks["flow"].work] > flow.span.to
<1>1. /\ Serves("flow") /\ sinks["flow"].work \in Nat /\ Len(frames) \in Nat
      /\ DOMAIN frames = 1 .. Len(frames)
  <2>1. "flow" \in Camera!Sinks
    BY DEF Camera!Sinks
  <2> QED
    BY <2>1, SinkParts
<1>2. sinks["flow"].work \in DOMAIN frames
  BY <1>1 DEF Serves
<1>3. ToMeasure(sinks["flow"].work)
  BY DEF ToMeasure
<1> QED
  BY <1>2, <1>3 DEF CameraKeeps, OwnerKeeps, FlowKeeps

LEMMA HandledKeeps ==
  ASSUME CameraKeeps, NEW k \in Camera!Sinks, Camera!Handled(k)
  PROVE  CameraKeeps'
<1>1. /\ OwnerKeeps /\ FlowKeeps /\ sinks[k].runs /\ sinks[k].work # 0
      /\ sinks' = [sinks EXCEPT ![k].work = 0]
      /\ UNCHANGED <<frames, clock, leaked, sync, lending, stage>>
  BY DEF Camera!Handled, CameraKeeps, Camera!startup, Camera!capturing, Camera!main
<1>2. Serves(k) /\ sinks[k] \in SinkState /\ sinks \in [Camera!Sinks -> SinkState] /\ Len(frames) \in Nat
  BY SinkParts
<1>3. PICK s : s = [sinks[k] EXCEPT !.work = 0]
  OBVIOUS
<1>4. /\ s \in SinkState /\ s.queue = sinks[k].queue /\ s.work = 0
      /\ s.stop = sinks[k].stop /\ s.runs = sinks[k].runs
  <2>1. 0 \in Nat
    OBVIOUS
  <2> QED
    BY <1>2, <1>3, <2>1, Zenon DEF SinkState
<1>5. sinks' = [sinks EXCEPT ![k] = s]
  BY <1>1, <1>3
<1>6. SinksKeep'
  <2>1. sinks' \in [Camera!Sinks -> SinkState]
    BY <1>2, <1>4, <1>5
  <2>2. Serves(k)'
    <3>1. sinks'[k] = s
      BY <1>2, <1>5
    <3>2. /\ sinks[k].queue \in Seq(Nat) /\ sinks[k].work \in Nat
          /\ \A i \in DOMAIN sinks[k].queue : sinks[k].queue[i] \in Nat
      BY <1>2 DEF SinkState
    <3>3. \A i \in DOMAIN sinks[k].queue :
            0 < sinks[k].queue[i] /\ sinks[k].queue[i] <= Len(frames)
      BY <1>2, <3>2 DEF Serves
    <3>4. k \in lending => 0 < Len(frames)
      BY <1>1, <1>2, <3>2 DEF Serves
    <3>5. 0 <= Len(frames)
      BY <1>2
    <3> QED
      BY <1>1, <1>2, <1>4, <3>1, <3>3, <3>4, <3>5 DEF Serves
  <2>3. ASSUME NEW j \in Camera!Sinks, j # k
        PROVE  Serves(j)'
    <3>1. sinks'[j] = sinks[j] /\ Serves(j)
      BY <1>5, <2>3, SinkParts
    <3> QED
      BY <1>1, <3>1 DEF Serves
  <2> QED
    BY <2>1, <2>2, <2>3 DEF SinksKeep
<1>7. FlowKeeps'
  <2>1. ASSUME flow' = flow
        PROVE  FlowKeeps'
    <3>1. \A f : ToMeasure(f)' => ToMeasure(f)
      <4>1. sinks'["flow"].queue = sinks["flow"].queue
            /\ (sinks'["flow"].work # 0 => sinks'["flow"].work = sinks["flow"].work)
        BY <1>2, <1>4, <1>5 DEF Camera!Sinks
      <4> QED
        BY <1>1, <4>1 DEF ToMeasure
    <3> QED
      BY <1>1, <2>1, <3>1 DEF FlowKeeps
  <2>2. ASSUME k = "flow", NEW suffices, flow' = Camera!Process(frames[sinks[k].work], suffices)
        PROVE  FlowKeeps'
    <3>1. PICK w : w = sinks["flow"].work
      OBVIOUS
    <3>2. PICK stamp : stamp = frames[w]
      OBVIOUS
    <3>3. /\ w \in DOMAIN frames /\ stamp \in Nat /\ 0 < stamp /\ stamp <= clock.last
          /\ stamp > flow.previous /\ stamp > flow.span.to
      BY <1>1, <2>2, <3>1, <3>2, FrameAtWork
    <3>4. /\ flow' \in [backend : Backends, previous : Nat, span : [from : Nat, to : Nat]]
          /\ flow'.previous \in {0, stamp}
          /\ \/ flow'.span = flow.span
             \/ flow'.span.to = stamp /\ flow'.previous = stamp
      BY <1>1, <2>2, <3>1, <3>2, <3>3, ProcessCountsOnce
    <3>5. /\ flow'.span.to \in Nat /\ flow'.previous \in Nat /\ flow'.span.to <= stamp
          /\ flow'.previous = 0 \/ flow'.span.to <= flow'.previous
          /\ flow'.previous <= stamp
      BY <1>1, <3>3, <3>4 DEF FlowKeeps
    <3>6. ASSUME NEW f \in DOMAIN frames, ToMeasure(f)'
          PROVE  frames[f] > stamp
      <4>1. w < f
        <5>1. sinks'["flow"].queue = sinks["flow"].queue /\ sinks'["flow"].work = 0
              /\ lending' = lending /\ frames' = frames
          BY <1>1, <1>2, <1>4, <1>5, <2>2
        <5>2. \/ \E i \in DOMAIN sinks["flow"].queue : f = sinks["flow"].queue[i]
              \/ "flow" \in lending /\ f = Len(frames)
          BY <3>6, <5>1 DEF ToMeasure
        <5> QED
          BY <1>2, <2>2, <3>1, <5>2 DEF Serves
      <4> QED
        BY <1>1, <3>2, <3>3, <4>1 DEF OwnerKeeps
    <3>7. \A f \in DOMAIN frames : ToMeasure(f)' => frames[f] > flow'.span.to
                                                    /\ frames[f] > flow'.previous
      <4>1. ASSUME NEW f \in DOMAIN frames, ToMeasure(f)'
            PROVE  frames[f] > flow'.span.to /\ frames[f] > flow'.previous
        <5>1. frames[f] > stamp /\ frames[f] \in Nat
          BY <1>1, <3>6, <4>1 DEF OwnerKeeps
        <5> QED
          BY <3>3, <3>5, <5>1
      <4> QED
        BY <4>1
    <3>8. flow'.span.to <= clock.last /\ flow'.previous <= clock.last /\ clock.last \in Nat
      <4>1. clock.last \in Nat
        BY <1>1 DEF OwnerKeeps
      <4> QED
        BY <3>3, <3>5, <4>1
    <3> QED
      BY <1>1, <3>4, <3>5, <3>7, <3>8 DEF FlowKeeps
  <2>3. \/ flow' = flow
        \/ k = "flow" /\ \E suffices : flow' = Camera!Process(frames[sinks[k].work], suffices)
    BY DEF Camera!Handled
  <2> QED
    BY <2>1, <2>2, <2>3
<1> QED
  BY <1>1, <1>6, <1>7, OwnerRests DEF CameraKeeps

(* What the owner of the camera keeps, from the start and with every step.         *)
LEMMA CameraStarts ==
  ASSUME Camera!Init
  PROVE  CameraKeeps
<1>1. OwnerKeeps
  <2>1. /\ sync = [samples |-> <<>>, heard |-> FALSE, imu |-> FALSE] /\ frames = <<>>
        /\ clock = [boot |-> 0, offset |-> 10, last |-> 0] /\ lending = {} /\ leaked = 0
        /\ stage = "sync"
    BY DEF Camera!Init
  <2>2. /\ sync \in [samples : Seq(BOOLEAN), heard : BOOLEAN, imu : BOOLEAN]
        /\ Len(sync.samples) <= 5
        /\ clock \in [boot : Int, offset : Int, last : Nat]
        /\ frames \in Seq(Nat) /\ DOMAIN frames = {}
    BY <2>1
  <2> QED
    BY <2>1, <2>2 DEF OwnerKeeps
<1>2. SinksKeep
  <2>1. \A k \in Camera!Sinks : sinks[k] = Camera!Idle
    BY DEF Camera!Init
  <2>2. Camera!Idle \in SinkState /\ Camera!Idle.queue = <<>> /\ Camera!Idle.work = 0 /\ Camera!Idle.runs /\ ~Camera!Idle.stop
    BY DEF Camera!Idle, SinkState
  <2>3. sinks \in [Camera!Sinks -> SinkState]
    BY <2>2 DEF Camera!Init
  <2>4. Len(<<>>) = 0 /\ DOMAIN <<>> = {} /\ frames = <<>> /\ stage = "sync"
    BY DEF Camera!Init
  <2>5. ASSUME NEW k \in Camera!Sinks
        PROVE  Serves(k)
    BY <2>1, <2>2, <2>4, CaptureConstants DEF Serves, Camera!Init
  <2> QED
    BY <2>3, <2>5 DEF SinksKeep
<1>3. FlowKeeps
  <2>1. /\ flow \in [backend : Backends, previous : {0}, span : {Camera!NoSpan}]
        /\ clock = [boot |-> 0, offset |-> 10, last |-> 0] /\ frames = <<>>
    BY DEF Camera!Init
  <2>2. flow.previous = 0 /\ flow.span = Camera!NoSpan /\ Camera!NoSpan.to = 0 /\ Camera!NoSpan \in [from : Nat, to : Nat]
        /\ clock.last = 0 /\ DOMAIN frames = {}
    BY <2>1 DEF Camera!NoSpan
  <2>3. flow \in [backend : Backends, previous : Nat, span : [from : Nat, to : Nat]]
    BY <2>1, <2>2
  <2> QED
    BY <2>2, <2>3 DEF FlowKeeps
<1> QED
  BY <1>1, <1>2, <1>3 DEF CameraKeeps

LEMMA CameraSteps ==
  ASSUME CameraKeeps, [Camera!Next]_(Camera!nodeVars)
  PROVE  CameraKeeps'
<1>1. CASE UNCHANGED Camera!nodeVars
  <2>1. CameraKeeps' <=> CameraKeeps
    BY <1>1 DEF Camera!nodeVars, Camera!main, Camera!startup, Camera!capturing, Camera!work,
                CameraKeeps, OwnerKeeps, InSync, SinksKeep, Serves, FlowKeeps, ToMeasure
  <2> QED
    BY <2>1
<1>2. CASE Camera!Next
  <2>1. CASE Camera!Beside
    BY <2>1, BesideKeeps
  <2>2. CASE Camera!WaitReady \/ Camera!BadShape \/ Camera!StopsCapture \/ \E k \in Camera!Sinks : Camera!JoinTimesOut(k)
    BY <2>2, OwnerTurns
  <2>3. CASE Camera!Capture
    BY <2>3, FrameTaken
  <2>4. CASE Camera!ClosePool
    BY <2>4, PoolCloses
  <2>5. ASSUME NEW k \in Camera!Sinks, Camera!Lend(k) \/ Camera!CloseSink(k) \/ Camera!Takes(k) \/ Camera!Handled(k) \/ Camera!SinkEnds(k)
        PROVE  CameraKeeps'
    BY <2>5, LendKeeps, EndsKeeps, TakesKeeps, HandledKeeps
  <2> QED
    BY <1>2, <2>1, <2>2, <2>3, <2>4, <2>5 DEF Camera!Next, Camera!Main, Camera!Worker
<1> QED
  BY <1>1, <1>2

LEMMA CameraFollows ==
  ASSUME CameraKeeps
  PROVE  Camera!CameraInv
<1>1. Camera!TypeOK
  BY DEF CameraKeeps, OwnerKeeps, SinksKeep, Serves, Camera!TypeOK
<1>2. Camera!StampsRise
  <2>1. frames \in Seq(Nat) /\ \A i, j \in DOMAIN frames : i < j => frames[i] < frames[j]
    BY DEF CameraKeeps, OwnerKeeps
  <2>2. ASSUME NEW i \in 2 .. Len(frames)
        PROVE  frames[i - 1] < frames[i]
    <3>1. i \in DOMAIN frames /\ i - 1 \in DOMAIN frames /\ i - 1 < i
      BY <2>1, <2>2
    <3> QED
      BY <2>1, <3>1
  <2> QED
    BY <2>2 DEF Camera!StampsRise
<1>3. Camera!CaptureIsInSync
  BY DEF CameraKeeps, OwnerKeeps, Camera!CaptureIsInSync, InSync
<1>4. Camera!SinksServeTheNewest
  <2>1. ASSUME NEW k \in Camera!Sinks
        PROVE  /\ \A i \in DOMAIN sinks[k].queue : sinks[k].work < sinks[k].queue[i]
               /\ stage = "capture" /\ frames # <<>> /\ sinks[k].queue # <<>>
                    => Len(frames) \in Camera!Queued(k)
    <3>1. Serves(k) /\ sinks[k].queue \in Seq(Nat)
      BY SinkParts
    <3>2. stage = "capture" => k \notin lending
      BY DEF CameraKeeps, OwnerKeeps
    <3>3. sinks[k].queue # <<>> => Len(sinks[k].queue) \in DOMAIN sinks[k].queue
      BY <3>1
    <3> QED
      BY <3>1, <3>2, <3>3 DEF Serves, Camera!Queued
  <2> QED
    BY <2>1 DEF Camera!SinksServeTheNewest
<1>5. Camera!NothingStaysBorrowed
  <2>1. ASSUME NEW k \in Camera!Sinks, stage = "end", leaked = 0
        PROVE  ~sinks[k].runs /\ Camera!Borrowed(k) = {}
    <3>1. Serves(k)
      BY SinkParts
    <3>2. ~sinks[k].runs /\ sinks[k].queue = <<>> /\ sinks[k].work = 0
      BY <2>1, <3>1 DEF Serves
    <3>3. DOMAIN <<>> = {}
      OBVIOUS
    <3> QED
      BY <3>2, <3>3 DEF Camera!Borrowed, Camera!Queued
  <2> QED
    BY <2>1 DEF Camera!NothingStaysBorrowed
<1> QED
  BY <1>1, <1>2, <1>3, <1>4, <1>5 DEF Camera!CameraInv

LEMMA CountsOnceSteps ==
  ASSUME CameraKeeps, [Camera!Next]_(Camera!nodeVars), flow'.span # flow.span
  PROVE  /\ flow'.span.from >= flow.span.to
         /\ flow'.span.to - flow'.span.from \in 1 .. MaxDt
<1>1. PICK k \in Camera!Sinks : Camera!Handled(k)
  BY DEF Camera!nodeVars, Camera!main, Camera!startup, Camera!capturing, Camera!work,
         Camera!Next, Camera!Main, Camera!Worker, Camera!Beside, Camera!NoteTimesync,
         Camera!NoteImu, Camera!GoesStale, Camera!RequestStop, Camera!OnStatus,
         Camera!ClockSteps, Camera!WaitReady, Camera!Capture, Camera!BadShape,
         Camera!StopsCapture, Camera!ClosePool, Camera!Lend, Camera!CloseSink,
         Camera!JoinTimesOut, Camera!Takes, Camera!SinkEnds
<1>2. k = "flow" /\ sinks["flow"].work # 0
      /\ \E suffices : flow' = Camera!Process(frames[sinks["flow"].work], suffices)
  BY <1>1 DEF Camera!Handled
<1>3. PICK suffices : flow' = Camera!Process(frames[sinks["flow"].work], suffices)
  BY <1>2
<1>4. PICK stamp : stamp = frames[sinks["flow"].work]
  OBVIOUS
<1>5. stamp \in Nat /\ 0 < stamp /\ stamp > flow.previous /\ stamp > flow.span.to
  BY <1>2, <1>4, FrameAtWork
<1>6. FlowKeeps
  BY DEF CameraKeeps
<1>7. /\ flow'.span.to = stamp /\ flow'.span.from = flow.previous
      /\ flow.previous # 0 /\ stamp - flow.previous \in 1 .. MaxDt
  BY <1>3, <1>4, <1>5, <1>6, ProcessCountsOnce
<1>8. flow.span.to <= flow.previous /\ flow.span.to \in Nat /\ flow.previous \in Nat
  BY <1>6, <1>7 DEF FlowKeeps
<1> QED
  BY <1>7, <1>8

-----------------------------------------------------------------------------
(* Owners and readers at the name of the pool (PoolSessions).                      *)

FileState == [header : BOOLEAN, published : Nat, newest : Nat, frame : Nat]
OwnerState ==
  [at : {"down", "open", "claimed", "zeroed", "up", "closing"}, file : 0 .. MaxStarts, sequence : Nat]
PollerState ==
  [at : {"detached", "probing", "attached", "working"}, file : 0 .. MaxStarts, last : Nat,
   frame : Nat, sequence : Nat]

SessionTypes ==
  /\ path \in 0 .. MaxStarts /\ count \in 0 .. MaxPublished /\ starts \in Nat
  /\ file \in [Sessions!Files -> FileState] /\ lock \in [Sessions!Files -> Owners \cup Sessions!Readers \cup {Sessions!Nobody}]
  /\ owners \in [Owners -> OwnerState] /\ pollers \in [Sessions!Readers -> PollerState]
  /\ lost \subseteq Sessions!Files
  /\ \A o \in Owners : owners[o].at # "down" => owners[o].file \in Sessions!Files
  /\ \A r \in Sessions!Readers : pollers[r].at # "detached" => pollers[r].file \in Sessions!Files

(* Every start touches one file at most, so that one is left for the next.         *)
Touched == {i \in Sessions!Files : i \in Sessions!Used \/ file[i] # Sessions!Blank \/ i \in lost}
FilesLast == Cardinality(Touched) <= starts

SessionsKeep == SessionTypes /\ FilesLast /\ Sessions!OneWriter /\ Sessions!SequenceIsKept

LEMMA FilesAreFinite ==
  IsFiniteSet(Sessions!Files) /\ Cardinality(Sessions!Files) = MaxStarts
<1>1. 1 \in Int /\ MaxStarts \in Int /\ MaxStarts \in Nat
  BY CaptureConstants
<1>2. IsFiniteSet(1 .. MaxStarts)
      /\ Cardinality(1 .. MaxStarts) = (IF 1 > MaxStarts THEN 0 ELSE MaxStarts - 1 + 1)
  BY <1>1, FS_Interval
<1> QED
  BY <1>1, <1>2 DEF Sessions!Files

LEMMA FewerTouched ==
  ASSUME FilesLast, starts \in Nat, starts' = starts, Touched' \subseteq Touched
  PROVE  FilesLast'
<1>1. IsFiniteSet(Touched) /\ IsFiniteSet(Touched')
  <2>1. Touched \subseteq Sessions!Files /\ IsFiniteSet(Sessions!Files)
    BY FilesAreFinite DEF Touched
  <2> QED
    BY <2>1, FS_Subset
<1>2. Cardinality(Touched') <= Cardinality(Touched)
  BY <1>1, FS_Subset
<1>3. Cardinality(Touched') \in Nat /\ Cardinality(Touched) \in Nat
  BY <1>1, FS_CardinalityType
<1> QED
  BY <1>2, <1>3 DEF FilesLast

LEMMA FreshIsFresh ==
  ASSUME SessionTypes, FilesLast, starts < MaxStarts
  PROVE  Sessions!Fresh \in Sessions!Files
<1>1. \E i \in Sessions!Files : i \notin Touched
  <2>1. SUFFICES ASSUME Sessions!Files \subseteq Touched
                 PROVE  FALSE
    OBVIOUS
  <2>2. Touched = Sessions!Files
    BY <2>1 DEF Touched
  <2>3. Cardinality(Touched) = MaxStarts
    BY <2>2, FilesAreFinite
  <2> QED
    BY <2>3, CaptureConstants DEF FilesLast, SessionTypes
<1>2. \E i \in Sessions!Files : i \notin Sessions!Used /\ file[i] = Sessions!Blank /\ i \notin lost
  BY <1>1 DEF Touched
<1> QED
  BY <1>2 DEF Sessions!Fresh

(* An owner's life.                                                          *)
LEMMA OpenKeeps ==
  ASSUME SessionsKeep, NEW o \in Owners, Sessions!OpenControl(o)
  PROVE  SessionsKeep'
<1>1. PICK i : /\ i = (IF path = 0 THEN Sessions!Fresh ELSE path) /\ path' = i
               /\ owners' = [owners EXCEPT ![o] = [Sessions!Down EXCEPT !.at = "open", !.file = i]]
  BY DEF Sessions!OpenControl
<1>2. /\ SessionTypes /\ FilesLast /\ owners[o].at = "down" /\ starts < MaxStarts
      /\ starts' = starts + 1 /\ UNCHANGED <<file, lock, pollers, seen, count, lost>>
  BY DEF Sessions!OpenControl, SessionsKeep, Sessions!readers
<1>3. i \in Sessions!Files
  <2>1. path # 0 => path \in Sessions!Files
    BY <1>2, CaptureConstants DEF SessionTypes, Sessions!Files
  <2> QED
    BY <1>1, <1>2, <2>1, FreshIsFresh
<1>4. PICK s : s = [Sessions!Down EXCEPT !.at = "open", !.file = i]
  OBVIOUS
<1>5. s \in OwnerState /\ s.at = "open" /\ s.file = i
  <2>1. i \in 0 .. MaxStarts
    BY <1>3, CaptureConstants DEF Sessions!Files
  <2> QED
    BY <1>4, <2>1 DEF Sessions!Down, OwnerState
<1>6. /\ owners' = [owners EXCEPT ![o] = s]
      /\ owners' \in [Owners -> OwnerState] /\ owners'[o] = s
      /\ \A p \in Owners : p # o => owners'[p] = owners[p]
  BY <1>1, <1>2, <1>4, <1>5 DEF SessionTypes
<1>7. SessionTypes'
  <2>1. i \in 0 .. MaxStarts
    BY <1>3, CaptureConstants DEF Sessions!Files
  <2>2. \A p \in Owners : owners'[p].at # "down" => owners'[p].file \in Sessions!Files
    BY <1>2, <1>3, <1>5, <1>6 DEF SessionTypes
  <2> QED
    BY <1>1, <1>2, <1>6, <2>1, <2>2, CaptureConstants DEF SessionTypes, Sessions!Files
<1>8. FilesLast'
  <2>1. Touched' \subseteq Touched \cup {i}
    BY <1>1, <1>2, <1>5, <1>6 DEF Touched, Sessions!Used
  <2>2. IsFiniteSet(Touched) /\ IsFiniteSet(Touched \cup {i})
    <3>1. Touched \subseteq Sessions!Files /\ IsFiniteSet(Sessions!Files)
      BY FilesAreFinite DEF Touched
    <3> QED
      BY <3>1, FS_Subset, FS_AddElement
  <2>3. Cardinality(Touched \cup {i}) <= Cardinality(Touched) + 1
        /\ Cardinality(Touched) \in Nat /\ Cardinality(Touched \cup {i}) \in Nat
    BY <2>2, FS_AddElement, FS_CardinalityType
  <2>4. IsFiniteSet(Touched') /\ Cardinality(Touched') <= Cardinality(Touched \cup {i})
    BY <2>1, <2>2, FS_Subset
  <2>5. Cardinality(Touched') \in Nat
    BY <2>4, FS_CardinalityType
  <2> QED
    BY <1>2, <2>3, <2>4, <2>5 DEF FilesLast, SessionTypes
<1>9. Sessions!OneWriter' /\ Sessions!SequenceIsKept'
  BY <1>2, <1>5, <1>6 DEF SessionsKeep, Sessions!OneWriter, Sessions!SequenceIsKept
<1> QED
  BY <1>7, <1>8, <1>9 DEF SessionsKeep

(* No two owners at work have the same file.                                   *)
AtWork == {"claimed", "zeroed", "up", "closing"}
LEMMA OwnFile ==
  ASSUME Sessions!OneWriter, NEW o \in Owners, NEW p \in Owners, o # p,
         owners[o].at \in AtWork, owners[p].at \in AtWork
  PROVE  owners[o].file # owners[p].file
  BY DEF Sessions!OneWriter, AtWork

LEMMA OwnerParts ==
  ASSUME SessionsKeep, NEW o \in Owners
  PROVE  /\ owners[o] \in OwnerState /\ SessionTypes /\ Sessions!OneWriter /\ Sessions!SequenceIsKept /\ FilesLast
         /\ starts \in Nat
  BY DEF SessionsKeep, SessionTypes

(* A step in which an owner keeps its file, and its lock, touches no other file.     *)
LEMMA WorkTouches ==
  ASSUME SessionsKeep, NEW o \in Owners, NEW s \in OwnerState,
         NEW c \in FileState, owners' = [owners EXCEPT ![o] = s],
         file' = [file EXCEPT ![owners[o].file] = c],
         s.file = owners[o].file, owners[o].at # "down",
         path' \in {0, path}, UNCHANGED <<pollers, starts, lost>>
  PROVE  /\ FilesLast' /\ owners' \in [Owners -> OwnerState] /\ owners'[o] = s
         /\ file' \in [Sessions!Files -> FileState] /\ file'[owners[o].file] = c
         /\ owners[o].file \in Sessions!Files
         /\ \A p \in Owners : p # o => owners'[p] = owners[p]
         /\ \A i \in Sessions!Files : i # owners[o].file => file'[i] = file[i]
         /\ \A p \in Owners : owners'[p].file = owners[p].file
<1>1. SessionTypes /\ FilesLast /\ starts \in Nat
  BY OwnerParts
<1>2. /\ owners' \in [Owners -> OwnerState] /\ owners'[o] = s
      /\ file' \in [Sessions!Files -> FileState] /\ file'[owners[o].file] = c
      /\ owners[o].file \in Sessions!Files
      /\ \A p \in Owners : p # o => owners'[p] = owners[p]
      /\ \A i \in Sessions!Files : i # owners[o].file => file'[i] = file[i]
  BY <1>1 DEF SessionTypes
<1>3. \A p \in Owners : owners'[p].file = owners[p].file
  BY <1>2
<1>4. Touched' \subseteq Touched
  <2>1. ASSUME NEW i \in Sessions!Files, i \in Touched'
        PROVE  i \in Touched
    <3>1. CASE i = owners[o].file
      BY <3>1 DEF Touched, Sessions!Used
    <3>2. CASE i # owners[o].file
      <4>1. file'[i] = file[i] /\ lost' = lost
        BY <1>2, <3>2
      <4>2. i \in Sessions!Used' => i \in Sessions!Used
        <5>1. i # 0
          BY CaptureConstants DEF Sessions!Files
        <5> QED
          BY <1>3, <5>1 DEF Sessions!Used
      <4> QED
        BY <2>1, <4>1, <4>2 DEF Touched
    <3> QED
      BY <3>1, <3>2
  <2> QED
    BY <2>1 DEF Touched
<1>5. FilesLast'
  BY <1>1, <1>4, FewerTouched
<1> QED
  BY <1>2, <1>3, <1>5

LEMMA ClaimKeeps ==
  ASSUME SessionsKeep, NEW o \in Owners, Sessions!Claim(o)
  PROVE  SessionsKeep'
<1>1. /\ SessionTypes /\ Sessions!OneWriter /\ Sessions!SequenceIsKept /\ FilesLast /\ owners[o].at = "open"
      /\ UNCHANGED <<path, file, pollers, seen, starts, count, lost>> /\ starts \in Nat
  BY OwnerParts DEF Sessions!Claim, Sessions!readers, Sessions!budgets
<1>2. PICK s : /\ owners' = [owners EXCEPT ![o] = s]
               /\ \/ /\ s = [owners[o] EXCEPT !.at = "claimed"] /\ lock[owners[o].file] = Sessions!Nobody
                     /\ lock' = [lock EXCEPT ![owners[o].file] = o]
                  \/ s = Sessions!Down /\ lock' = lock
  BY DEF Sessions!Claim
<1>3. owners[o] \in OwnerState /\ Sessions!Down \in OwnerState /\ Sessions!Down.file = 0 /\ Sessions!Down.at = "down"
  <2>1. 0 \in 0 .. MaxStarts
    BY CaptureConstants
  <2> QED
    BY <2>1, OwnerParts DEF Sessions!Down, OwnerState
<1>4. /\ s \in OwnerState /\ (s.file = owners[o].file \/ s.file = 0)
      /\ (s.at = "claimed" /\ s.file = owners[o].file) \/ s.at = "down"
  <2>1. CASE s = [owners[o] EXCEPT !.at = "claimed"]
    BY <1>3, <2>1, Zenon DEF OwnerState
  <2>2. CASE s = Sessions!Down
    BY <1>3, <2>2
  <2> QED
    BY <1>2, <2>1, <2>2
<1>5. /\ owners' \in [Owners -> OwnerState] /\ owners'[o] = s /\ owners[o].file \in Sessions!Files
      /\ \A p \in Owners : p # o => owners'[p] = owners[p]
  BY <1>1, <1>2, <1>4 DEF SessionTypes
<1>6. lock' \in [Sessions!Files -> Owners \cup Sessions!Readers \cup {Sessions!Nobody}]
  BY <1>1, <1>2, <1>5 DEF SessionTypes
<1>7. SessionTypes'
  <2>1. \A p \in Owners : owners'[p].at # "down" => owners'[p].file \in Sessions!Files
    BY <1>1, <1>4, <1>5 DEF SessionTypes
  <2> QED
    BY <1>1, <1>5, <1>6, <2>1 DEF SessionTypes
<1>8. FilesLast'
  <2>1. \A p \in Owners : owners'[p].file = 0 \/ owners'[p].file = owners[p].file
    BY <1>4, <1>5
  <2>2. \A i \in Sessions!Files : i # 0
    BY CaptureConstants DEF Sessions!Files
  <2>3. Touched' \subseteq Touched
    BY <1>1, <2>1, <2>2 DEF Touched, Sessions!Used
  <2> QED
    BY <1>1, <2>3, FewerTouched
<1>9. Sessions!OneWriter'
  <2>1. ASSUME NEW p \in Owners, owners'[p].at \in AtWork
        PROVE  lock'[owners'[p].file] = p
    <3>1. CASE p = o
      <4>1. s.at = "claimed"
        BY <1>4, <1>5, <2>1, <3>1 DEF AtWork
      <4>2. lock' = [lock EXCEPT ![owners[o].file] = o] /\ s.file = owners[o].file
        BY <1>2, <1>3, <1>4, <4>1
      <4> QED
        BY <1>1, <1>5, <3>1, <4>2 DEF SessionTypes
    <3>2. CASE p # o
      <4>1. owners'[p] = owners[p] /\ lock[owners[p].file] = p
        BY <1>1, <1>5, <2>1, <3>2 DEF Sessions!OneWriter, AtWork
      <4>2. p # Sessions!Nobody
        BY CaptureConstants
      <4>3. owners[p].file \in Sessions!Files
        BY <1>1, <2>1, <4>1 DEF SessionTypes, AtWork
      <4>4. lock'[owners[p].file] = lock[owners[p].file]
        BY <1>1, <1>2, <4>1, <4>2, <4>3 DEF SessionTypes
      <4> QED
        BY <4>1, <4>4
    <3> QED
      BY <3>1, <3>2
  <2> QED
    BY <2>1 DEF Sessions!OneWriter, AtWork
<1>10. Sessions!SequenceIsKept'
  BY <1>1, <1>4, <1>5 DEF Sessions!SequenceIsKept
<1> QED
  BY <1>7, <1>8, <1>9, <1>10 DEF SessionsKeep

(* create, its header, each frame, and the unlinking: only the owner of the file      *)
(* writes it.                                                                *)
LEMMA WorkKeeps ==
  ASSUME SessionsKeep, NEW o \in Owners, NEW s \in OwnerState,
         NEW c \in FileState, owners' = [owners EXCEPT ![o] = s],
         file' = [file EXCEPT ![owners[o].file] = c],
         s.file = owners[o].file, s.at # "down", s.at # "open", owners[o].at \in AtWork,
         s.at = "up" => c.published = s.sequence /\ c.newest \in {0, s.sequence},
         path' \in {0, path}, count' \in 0 .. MaxPublished,
         UNCHANGED <<lock, pollers, starts, lost>>
  PROVE  SessionsKeep'
<1>1. SessionTypes /\ FilesLast /\ starts \in Nat /\ Sessions!OneWriter /\ Sessions!SequenceIsKept
  BY OwnerParts
<1>2. /\ FilesLast' /\ owners' \in [Owners -> OwnerState] /\ owners'[o] = s
      /\ file' \in [Sessions!Files -> FileState] /\ file'[owners[o].file] = c
      /\ owners[o].file \in Sessions!Files
      /\ \A p \in Owners : p # o => owners'[p] = owners[p]
      /\ \A i \in Sessions!Files : i # owners[o].file => file'[i] = file[i]
      /\ \A p \in Owners : owners'[p].file = owners[p].file
  BY WorkTouches DEF AtWork
<1>3. SessionTypes'
  <2>1. \A p \in Owners : owners'[p].at # "down" => owners'[p].file \in Sessions!Files
    BY <1>1, <1>2 DEF SessionTypes
  <2>2. path' \in 0 .. MaxStarts
    BY <1>1, CaptureConstants DEF SessionTypes
  <2> QED
    BY <1>1, <1>2, <2>1, <2>2 DEF SessionTypes
<1>4. Sessions!OneWriter'
  BY <1>1, <1>2 DEF Sessions!OneWriter, AtWork
<1>5. Sessions!SequenceIsKept'
  <2>1. ASSUME NEW p \in Owners, owners'[p].at = "up"
        PROVE  /\ file'[owners'[p].file].published = owners'[p].sequence
               /\ file'[owners'[p].file].newest \in {0, owners'[p].sequence}
    <3>1. CASE p = o
      BY <1>2, <2>1, <3>1
    <3>2. CASE p # o
      <4>1. owners[p].at \in AtWork /\ owners[p].file # owners[o].file /\ owners'[p] = owners[p]
        BY <1>1, <1>2, <2>1, <3>2, OwnFile DEF AtWork
      <4>2. owners[p].file \in Sessions!Files
        BY <1>1, <4>1 DEF SessionTypes, AtWork
      <4> QED
        BY <1>1, <1>2, <2>1, <4>1, <4>2 DEF Sessions!SequenceIsKept
    <3> QED
      BY <3>1, <3>2
  <2> QED
    BY <2>1 DEF Sessions!SequenceIsKept
<1> QED
  BY <1>1, <1>2, <1>3, <1>4, <1>5 DEF SessionsKeep

LEMMA BlankIsAFile == Sessions!Blank \in FileState /\ Sessions!Blank.published = 0 /\ Sessions!Blank.newest = 0
BY DEF Sessions!Blank, FileState

LEMMA WritesKeep ==
  ASSUME SessionsKeep, NEW o \in Owners,
         Sessions!Zero(o) \/ Sessions!PackHeader(o) \/ Sessions!Publish(o) \/ Sessions!Unlink(o)
  PROVE  SessionsKeep'
<1>1. /\ SessionTypes /\ Sessions!OneWriter /\ Sessions!SequenceIsKept /\ owners[o] \in OwnerState
      /\ owners[o].at \in AtWork
  BY OwnerParts DEF Sessions!Zero, Sessions!PackHeader, Sessions!Publish, Sessions!Unlink, AtWork
<1>2. /\ owners[o].file \in Sessions!Files /\ file[owners[o].file] \in FileState
      /\ file[owners[o].file].published \in Nat /\ owners[o].sequence \in Nat
      /\ count \in 0 .. MaxPublished /\ MaxPublished \in Nat /\ file = [file EXCEPT ![owners[o].file] = @]
  BY <1>1, CaptureConstants DEF SessionTypes, AtWork, FileState, OwnerState
<1>3. CASE Sessions!Zero(o)
  <2>1. PICK n : n = IF file[owners[o].file].header THEN file[owners[o].file].published ELSE 0
    OBVIOUS
  <2>2. n \in Nat
    BY <1>2, <2>1
  <2>3. PICK s : s = [owners[o] EXCEPT !.at = "zeroed", !.sequence = n]
    OBVIOUS
  <2>4. s \in OwnerState /\ s.file = owners[o].file /\ s.at = "zeroed"
    BY <1>1, <2>2, <2>3, Zenon DEF OwnerState
  <2>5. /\ owners' = [owners EXCEPT ![o] = s] /\ file' = [file EXCEPT ![owners[o].file] = Sessions!Blank]
        /\ UNCHANGED <<path, lock, pollers, starts, count, lost>>
    BY <1>3, <2>1, <2>3 DEF Sessions!Zero, Sessions!readers, Sessions!budgets
  <2> QED
    BY <1>1, <1>2, <2>4, <2>5, BlankIsAFile, WorkKeeps
<1>4. CASE Sessions!PackHeader(o)
  <2>1. PICK s : s = [owners[o] EXCEPT !.at = "up"]
    OBVIOUS
  <2>2. s \in OwnerState /\ s.file = owners[o].file /\ s.at = "up" /\ s.sequence = owners[o].sequence
    BY <1>1, <2>1, Zenon DEF OwnerState
  <2>3. PICK c : c = [Sessions!Blank EXCEPT !.header = TRUE, !.published = owners[o].sequence]
    OBVIOUS
  <2>4. c \in FileState /\ c.published = owners[o].sequence /\ c.newest = 0
    BY <1>2, <2>3, BlankIsAFile, Zenon DEF FileState
  <2>5. /\ owners' = [owners EXCEPT ![o] = s] /\ file' = [file EXCEPT ![owners[o].file] = c]
        /\ UNCHANGED <<path, lock, pollers, starts, count, lost>>
    BY <1>4, <2>1, <2>3 DEF Sessions!PackHeader, Sessions!readers, Sessions!budgets
  <2> QED
    BY <1>1, <1>2, <2>2, <2>4, <2>5, WorkKeeps
<1>5. CASE Sessions!Publish(o)
  <2>1. PICK n : n = owners[o].sequence + 1
    OBVIOUS
  <2>2. n \in Nat /\ count + 1 \in Nat /\ count' \in 0 .. MaxPublished
    BY <1>2, <1>5, <2>1 DEF Sessions!Publish
  <2>3. PICK s : s = [owners[o] EXCEPT !.sequence = n]
    OBVIOUS
  <2>4. s \in OwnerState /\ s.file = owners[o].file /\ s.at = owners[o].at /\ s.sequence = n
    BY <1>1, <2>2, <2>3, Zenon DEF OwnerState
  <2>5. PICK c : c = [file[owners[o].file] EXCEPT !.published = n, !.newest = n,
                                                 !.frame = count + 1]
    OBVIOUS
  <2>6. c \in FileState /\ c.published = n /\ c.newest = n
    BY <1>2, <2>2, <2>5, Zenon DEF FileState
  <2>7. /\ owners' = [owners EXCEPT ![o] = s] /\ file' = [file EXCEPT ![owners[o].file] = c]
        /\ UNCHANGED <<path, lock, pollers, starts, lost>>
    BY <1>2, <1>5, <2>1, <2>3, <2>5 DEF Sessions!Publish, Sessions!readers
  <2> QED
    BY <1>1, <1>5, <2>2, <2>4, <2>6, <2>7, WorkKeeps DEF Sessions!Publish
<1>6. CASE Sessions!Unlink(o)
  <2>1. PICK s : s = [owners[o] EXCEPT !.at = "closing"]
    OBVIOUS
  <2>2. s \in OwnerState /\ s.file = owners[o].file /\ s.at = "closing"
    BY <1>1, <2>1, Zenon DEF OwnerState
  <2>3. /\ owners' = [owners EXCEPT ![o] = s]
        /\ file' = [file EXCEPT ![owners[o].file] = file[owners[o].file]] /\ path' = 0
        /\ UNCHANGED <<lock, pollers, starts, count, lost>>
    BY <1>2, <1>6, <2>1 DEF Sessions!Unlink, Sessions!readers, Sessions!budgets
  <2> QED
    BY <1>1, <1>2, <2>2, <2>3, WorkKeeps
<1> QED
  BY <1>3, <1>4, <1>5, <1>6

(* A clean end or a crash lets go of the locks of the process alone.               *)
LEMMA DownKeeps ==
  ASSUME SessionsKeep, NEW o \in Owners, Sessions!Close(o) \/ Sessions!Crash(o)
  PROVE  SessionsKeep'
<1>1. /\ SessionTypes /\ Sessions!OneWriter /\ Sessions!SequenceIsKept /\ FilesLast /\ starts \in Nat
      /\ owners' = [owners EXCEPT ![o] = Sessions!Down] /\ lock' = Sessions!Unlocked(o) /\ owners[o].at # "down"
      /\ lost' \in {lost, lost \cup {owners[o].file}}
      /\ UNCHANGED <<path, file, pollers, starts, count>>
  BY OwnerParts DEF Sessions!Close, Sessions!Crash, Sessions!readers, Sessions!budgets
<1>2. /\ Sessions!Down \in OwnerState /\ Sessions!Down.file = 0 /\ Sessions!Down.at = "down"
  <2>1. 0 \in 0 .. MaxStarts
    BY CaptureConstants
  <2> QED
    BY <2>1 DEF Sessions!Down, OwnerState
<1>3. /\ owners' \in [Owners -> OwnerState] /\ owners'[o] = Sessions!Down /\ owners[o].file \in Sessions!Files
      /\ \A p \in Owners : p # o => owners'[p] = owners[p]
  BY <1>1, <1>2 DEF SessionTypes
<1>4. SessionTypes'
  <2>1. lock' \in [Sessions!Files -> Owners \cup Sessions!Readers \cup {Sessions!Nobody}]
    BY <1>1 DEF SessionTypes, Sessions!Unlocked
  <2>2. \A p \in Owners : owners'[p].at # "down" => owners'[p].file \in Sessions!Files
    BY <1>1, <1>2, <1>3 DEF SessionTypes
  <2> QED
    BY <1>1, <1>3, <2>1, <2>2 DEF SessionTypes
<1>5. FilesLast'
  <2>1. \A p \in Owners : owners'[p].file = 0 \/ owners'[p].file = owners[p].file
    BY <1>2, <1>3
  <2>2. \A i \in Sessions!Files : i # 0
    BY CaptureConstants DEF Sessions!Files
  <2>3. Touched' \subseteq Touched
    BY <1>1, <2>1, <2>2 DEF Touched, Sessions!Used
  <2> QED
    BY <1>1, <2>3, FewerTouched
<1>6. Sessions!OneWriter'
  <2>1. ASSUME NEW p \in Owners, owners'[p].at \in AtWork
        PROVE  lock'[owners'[p].file] = p
    <3>1. p # o /\ owners'[p] = owners[p]
      BY <1>2, <1>3, <2>1 DEF AtWork
    <3>2. lock[owners[p].file] = p /\ owners[p].file \in Sessions!Files
      BY <1>1, <2>1, <3>1 DEF Sessions!OneWriter, AtWork, SessionTypes
    <3> QED
      BY <1>1, <3>1, <3>2 DEF Sessions!Unlocked
  <2> QED
    BY <2>1 DEF Sessions!OneWriter, AtWork
<1>7. Sessions!SequenceIsKept'
  BY <1>1, <1>2, <1>3 DEF Sessions!SequenceIsKept
<1> QED
  BY <1>4, <1>5, <1>6, <1>7 DEF SessionsKeep

(* Readers write nothing, and the lock a reader takes and lets go is nobody else's.   *)
LEMMA ReadersKeep ==
  ASSUME SessionsKeep, NEW r \in Sessions!Readers,
         Sessions!Reads(r) \/ (r = "detector" /\ (Sessions!Faults \/ Sessions!GoesStale))
  PROVE  SessionsKeep'
<1>1. /\ SessionTypes /\ Sessions!OneWriter /\ Sessions!SequenceIsKept /\ FilesLast /\ starts \in Nat
      /\ UNCHANGED <<path, file, owners, starts, count, lost>>
  BY DEF SessionsKeep, SessionTypes, Sessions!Reads, Sessions!Probe, Sessions!LetGo,
         Sessions!Poll, Sessions!Worked, Sessions!Faults, Sessions!GoesStale, Sessions!disk,
         Sessions!budgets
<1>2. /\ Sessions!Detached \in PollerState /\ Sessions!Detached.file = 0 /\ pollers[r] \in PollerState
  <2>1. 0 \in 0 .. MaxStarts
    BY CaptureConstants
  <2> QED
    BY <1>1, <2>1 DEF Sessions!Detached, PollerState, SessionTypes
<1>3. PICK s \in PollerState :
        /\ pollers' = [pollers EXCEPT ![r] = s]
        /\ s.file \in {0, path, pollers[r].file}
        /\ s.at # "detached" => s.file \in Sessions!Files
        /\ \/ lock' = lock
           \/ path # 0 /\ lock[path] = Sessions!Nobody /\ lock' = [lock EXCEPT ![path] = r]
           \/ lock' = Sessions!Unlocked(r)
  <2>1. CASE Sessions!Probe(r)
    <3>1. PICK s : /\ pollers' = [pollers EXCEPT ![r] = s]
                   /\ \/ s = [Sessions!Detached EXCEPT !.at = "probing", !.file = path]
                      \/ s = [Sessions!Detached EXCEPT !.at = "attached", !.file = path]
                      \/ s = Sessions!Detached
      BY <2>1 DEF Sessions!Probe, Sessions!Goes
    <3>2. path \in 0 .. MaxStarts /\ path \in Sessions!Files
      BY <1>1, <2>1, CaptureConstants DEF SessionTypes, Sessions!Probe, Sessions!Files
    <3>3. s \in PollerState /\ (s.file = path \/ s = Sessions!Detached)
      BY <1>2, <3>1, <3>2, Zenon DEF PollerState
    <3>4. s.at # "detached" => s.file \in Sessions!Files
      BY <1>2, <3>2, <3>3 DEF Sessions!Detached
    <3>5. s.file \in {0, path, pollers[r].file}
      BY <1>2, <3>3
    <3>6. lock' = lock \/ (path # 0 /\ lock[path] = Sessions!Nobody /\ lock' = [lock EXCEPT ![path] = r])
      BY <2>1 DEF Sessions!Probe
    <3> QED
      BY <3>1, <3>3, <3>4, <3>5, <3>6
  <2>2. CASE Sessions!LetGo(r)
    BY <1>2, <2>2 DEF Sessions!LetGo, Sessions!Goes, Sessions!Detached
  <2>3. CASE Sessions!Poll(r)
    <3>1. PICK f : f = file[pollers[r].file]
      OBVIOUS
    <3>2. PICK s : /\ pollers' = [pollers EXCEPT ![r] = s]
                   /\ s = [pollers[r] EXCEPT !.at = "working", !.frame = f.frame,
                                             !.sequence = f.newest]
      BY <2>3, <3>1 DEF Sessions!Poll, Sessions!Goes
    <3>3. pollers[r].file \in Sessions!Files
      BY <1>1, <2>3 DEF SessionTypes, Sessions!Poll
    <3>4. f.frame \in Nat /\ f.newest \in Nat
      BY <1>1, <3>1, <3>3 DEF SessionTypes, FileState
    <3>5. s \in PollerState /\ s.file = pollers[r].file
      BY <1>2, <3>2, <3>4, Zenon DEF PollerState
    <3> QED
      BY <2>3, <3>2, <3>3, <3>5 DEF Sessions!Poll, Sessions!disk
  <2>4. CASE Sessions!Worked(r)
    <3>1. PICK n : n = pollers[r].sequence
      OBVIOUS
    <3>2. n \in Nat /\ 0 \in Nat
      BY <1>2, <3>1 DEF PollerState
    <3>3. PICK s : /\ pollers' = [pollers EXCEPT ![r] = s]
                   /\ s = [pollers[r] EXCEPT !.at = "attached", !.last = n, !.frame = 0,
                                             !.sequence = 0]
      BY <2>4, <3>1 DEF Sessions!Worked, Sessions!Goes
    <3>4. s \in PollerState /\ s.file = pollers[r].file
      BY <1>2, <3>2, <3>3, Zenon DEF PollerState
    <3>5. pollers[r].file \in Sessions!Files
      BY <1>1, <2>4 DEF SessionTypes, Sessions!Worked
    <3> QED
      BY <2>4, <3>3, <3>4, <3>5 DEF Sessions!Worked, Sessions!disk
  <2>5. CASE r = "detector" /\ (Sessions!Faults \/ Sessions!GoesStale)
    BY <1>2, <2>5 DEF Sessions!Faults, Sessions!GoesStale, Sessions!Goes, Sessions!disk,
                      Sessions!Detached
  <2> QED
    BY <2>1, <2>2, <2>3, <2>4, <2>5 DEF Sessions!Reads
<1>4. /\ pollers' \in [Sessions!Readers -> PollerState] /\ pollers'[r] = s
      /\ \A p \in Sessions!Readers : p # r => pollers'[p] = pollers[p]
  <2>1. pollers' = [pollers EXCEPT ![r] = s]
    BY <1>3
  <2>2. pollers \in [Sessions!Readers -> PollerState]
    BY <1>1 DEF SessionTypes
  <2> QED
    BY <2>1, <2>2
<1>5. SessionTypes'
  <2>1. lock' \in [Sessions!Files -> Owners \cup Sessions!Readers \cup {Sessions!Nobody}]
    <3>1. lock \in [Sessions!Files -> Owners \cup Sessions!Readers \cup {Sessions!Nobody}]
      BY <1>1 DEF SessionTypes
    <3>2. CASE lock' = Sessions!Unlocked(r)
      BY <3>1, <3>2 DEF Sessions!Unlocked
    <3>3. CASE lock' = [lock EXCEPT ![path] = r]
      BY <3>1, <3>3
    <3> QED
      BY <1>3, <3>1, <3>2, <3>3
  <2>2. \A p \in Sessions!Readers : pollers'[p].at # "detached" => pollers'[p].file \in Sessions!Files
    <3>1. s.at # "detached" => s.file \in Sessions!Files
      BY <1>3
    <3> QED
      BY <1>1, <1>4, <3>1 DEF SessionTypes
  <2> QED
    BY <1>1, <1>4, <2>1, <2>2 DEF SessionTypes
<1>6. FilesLast'
  <2>1. \A p \in Sessions!Readers : pollers'[p].file \in {0, path, pollers[p].file}
    <3>1. s.file \in {0, path, pollers[r].file}
      BY <1>3
    <3> QED
      BY <1>4, <3>1
  <2>2. \A i \in Sessions!Files : i # 0
    BY CaptureConstants DEF Sessions!Files
  <2>3. Touched' \subseteq Touched
    <3>1. ASSUME NEW i \in Sessions!Files, i \in Sessions!Used'
          PROVE  i \in Sessions!Used
      <4>1. CASE \E p \in Sessions!Readers : i = pollers'[p].file
        BY <2>1, <2>2, <4>1 DEF Sessions!Used
      <4> QED
        BY <1>1, <3>1, <4>1 DEF Sessions!Used
    <3> QED
      BY <1>1, <3>1 DEF Touched
  <2> QED
    BY <1>1, <2>3, FewerTouched
<1>7. Sessions!OneWriter'
  <2>1. ASSUME NEW o \in Owners, owners[o].at \in AtWork
        PROVE  lock'[owners[o].file] = o
    <3>1. lock[owners[o].file] = o /\ owners[o].file \in Sessions!Files
      BY <1>1, <2>1 DEF Sessions!OneWriter, AtWork, SessionTypes
    <3>2. o # r /\ o # Sessions!Nobody
      BY CaptureConstants
    <3>3. lock \in [Sessions!Files -> Owners \cup Sessions!Readers \cup {Sessions!Nobody}]
      BY <1>1 DEF SessionTypes
    <3>4. CASE lock' = Sessions!Unlocked(r)
      BY <3>1, <3>2, <3>3, <3>4 DEF Sessions!Unlocked
    <3>5. CASE lock[path] = Sessions!Nobody /\ lock' = [lock EXCEPT ![path] = r]
      BY <3>1, <3>2, <3>3, <3>5
    <3> QED
      BY <1>3, <3>1, <3>4, <3>5
  <2> QED
    BY <1>1, <2>1 DEF Sessions!OneWriter, AtWork
<1>8. Sessions!SequenceIsKept'
  BY <1>1 DEF Sessions!SequenceIsKept
<1> QED
  BY <1>5, <1>6, <1>7, <1>8 DEF SessionsKeep

LEMMA SessionsStart ==
  ASSUME Sessions!Init
  PROVE  SessionsKeep
<1>1. SessionTypes
  <2>1. Sessions!Down \in OwnerState /\ Sessions!Down.at = "down" /\ Sessions!Detached \in PollerState
        /\ Sessions!Detached.at = "detached" /\ 0 \in 0 .. MaxStarts /\ 0 \in 0 .. MaxPublished
    BY CaptureConstants DEF Sessions!Down, OwnerState, Sessions!Detached, PollerState
  <2> QED
    BY <2>1, BlankIsAFile DEF Sessions!Init, SessionTypes
<1>2. FilesLast
  <2>1. Touched = {}
    BY CaptureConstants DEF Sessions!Init, Touched, Sessions!Used, Sessions!Down,
                            Sessions!Detached, Sessions!Files
  <2> QED
    BY <2>1, FS_EmptySet DEF FilesLast, Sessions!Init
<1>3. Sessions!OneWriter /\ Sessions!SequenceIsKept
  BY DEF Sessions!Init, Sessions!Down, Sessions!OneWriter, Sessions!SequenceIsKept
<1> QED
  BY <1>1, <1>2, <1>3 DEF SessionsKeep

LEMMA SessionsStep ==
  ASSUME SessionsKeep, [Sessions!Next]_(Sessions!sessionVars)
  PROVE  SessionsKeep'
<1>1. CASE UNCHANGED Sessions!sessionVars
  BY <1>1 DEF Sessions!sessionVars, SessionsKeep, SessionTypes, FilesLast, Touched,
              Sessions!Used, Sessions!OneWriter, Sessions!SequenceIsKept
<1>2. ASSUME NEW o \in Owners, Sessions!Owns(o)
      PROVE  SessionsKeep'
  BY <1>2, OpenKeeps, ClaimKeeps, WritesKeep, DownKeeps DEF Sessions!Owns
<1>3. ASSUME NEW r \in Sessions!Readers, Sessions!Reads(r)
      PROVE  SessionsKeep'
  BY <1>3, ReadersKeep
<1>4. CASE Sessions!Faults \/ Sessions!GoesStale
  BY <1>4, ReadersKeep DEF Sessions!Readers
<1> QED
  BY <1>1, <1>2, <1>3, <1>4 DEF Sessions!Next

LEMMA SessionsFollow ==
  ASSUME SessionsKeep
  PROVE  Sessions!SessionsInv
BY DEF SessionsKeep, SessionTypes, Sessions!SessionsInv, Sessions!TypeOK, OwnerState, PollerState

-----------------------------------------------------------------------------
(* The flight recorder (Recorder).                                              *)

Cm2At == {"none", "looking", "copying", "writing", "ended", "failed"}
OvAt == {"none", "waiting", "got", "ended", "failed"}
MainAt == {"sync", "camera", "attach", "start", "running", "join_ov", "join_cm2", "camera_off",
           "node_off", "pools_off", "bag_off", "over",
           "camera_raised", "pools_raised"}

RecorderTypes ==
  /\ main \in MainAt /\ newest \in Int /\ shots \in Nat
  /\ cm2 \in [at : Cm2At, last_seen : Nat, frame : Nat, next : Int]
  /\ ov \in [at : OvAt, shot : Nat, last_record : Int]
  /\ bag \in [open : BOOLEAN, down : Seq(Nat), forward : Seq(Nat)]

(* Threads end because they are told to, or fail and say so.                     *)
ThreadsKeep ==
  /\ main = "running" => cm2.at # "none" /\ ov.at # "none"
  /\ "ended" \in {cm2.at, ov.at} => halt
  /\ Tape!FailureIsReported /\ Tape!RecordsTheFlight

(* The lattice of periods that the first frame opened, and the next that is due.   *)
CellOf(d, stamp) == (stamp - d[1]) \div Period
CellsRise(d) == \A i, j \in DOMAIN d : i < j => CellOf(d, d[i]) < CellOf(d, d[j])
OnLattice(d, next) ==
  IF d = <<>> THEN next = Tape!None
  ELSE next > 0 /\ next = d[1] + (CellOf(d, d[Len(d)]) + 1) * Period
LatticeKeeps ==
  /\ cm2.at \in {"copying", "writing"} => cm2.frame > 0 /\ Tape!Due(cm2.frame)
  /\ Period > 0 => CellsRise(bag.down) /\ (bag.open => OnLattice(bag.down, cm2.next))

RecorderKeeps == RecorderTypes /\ ThreadsKeep /\ LatticeKeeps

(* Whole periods.                                                            *)
LEMMA Divided ==
  ASSUME NEW P \in Nat, P > 0, NEW x \in Int
  PROVE  x \div P \in Int /\ (x \div P) * P <= x /\ x < (x \div P) * P + P
OBVIOUS

LEMMA DividedAtLeast ==
  ASSUME NEW P \in Nat, P > 0, NEW x \in Int, NEW k \in Int, x >= k * P
  PROVE  x \div P >= k
OBVIOUS

LEMMA DividedShifted ==
  ASSUME NEW P \in Nat, P > 0, NEW x \in Int, NEW k \in Int
  PROVE  (x - k * P) \div P = (x \div P) - k /\ k * P \in Int
OBVIOUS

LEMMA TimesAdds ==
  ASSUME NEW P \in Nat, NEW a \in Int, NEW k \in Int
  PROVE  (a + k) * P = a * P + k * P /\ a * P \in Int /\ k * P \in Int
OBVIOUS

(* A frame that is due goes into a later period than all before it, and the next is   *)
(* due in the period after, however late it was.                               *)
LEMMA LatticeGoesOn ==
  ASSUME Period \in Nat, Period > 0, NEW d \in Seq(Nat), NEW f \in Nat, f > 0, NEW n \in Int,
         n = Tape!None \/ f >= n, OnLattice(d, n), CellsRise(d),
         NEW m, m = IF n = Tape!None THEN f + Period ELSE n + ((f - n) \div Period + 1) * Period
  PROVE  CellsRise(Append(d, f)) /\ OnLattice(Append(d, f), m)
<1>1. PICK e : e = Append(d, f)
  OBVIOUS
<1>2. PICK l : l = Len(d)
  OBVIOUS
<1>3. /\ l \in Nat /\ DOMAIN d = 1 .. l /\ e # <<>> /\ DOMAIN e = 1 .. l + 1 /\ Len(e) = l + 1
      /\ e[l + 1] = f /\ \A i \in 1 .. l : e[i] = d[i] /\ d[i] \in Nat
  BY <1>1, <1>2
<1>4. CASE d = <<>>
  <2>1. l = 0 /\ n = Tape!None
    BY <1>2, <1>4 DEF OnLattice
  <2>2. CellsRise(e)
    BY <1>3, <2>1 DEF CellsRise
  <2>3. e[1] = f /\ e[Len(e)] = f /\ m = f + Period
    BY <1>3, <2>1
  <2>4. (f - f) \div Period = 0
    <3>1. f - f = 0 - 0 * Period
      OBVIOUS
    <3>2. 0 \div Period = 0
      OBVIOUS
    <3> QED
      BY <3>1, <3>2
  <2>5. (0 + 1) * Period = Period
    OBVIOUS
  <2>6. OnLattice(e, m)
    BY <1>3, <2>3, <2>4, <2>5 DEF OnLattice, CellOf
  <2> QED
    BY <1>1, <2>2, <2>6
<1>5. CASE d # <<>>
  <2>1. l \in Nat \ {0} /\ n > 0
    BY <1>2, <1>3, <1>5 DEF OnLattice
  <2>2. PICK a : a = d[1]
    OBVIOUS
  <2>3. PICK c : c = (d[l] - a) \div Period
    OBVIOUS
  <2>4. a \in Nat /\ d[l] \in Nat /\ e[1] = a /\ c \in Int
    <3>1. 1 \in 1 .. l /\ l \in 1 .. l
      BY <2>1
    <3>2. a \in Nat /\ d[l] \in Nat /\ e[1] = a
      BY <1>3, <2>2, <3>1
    <3>3. d[l] - a \in Int
      BY <3>2
    <3> QED
      BY <2>3, <3>2, <3>3, Divided
  <2>5. n = a + (c + 1) * Period /\ n # Tape!None /\ f >= n
    BY <1>2, <1>5, <2>1, <2>2, <2>3 DEF OnLattice, CellOf, Tape!None
  <2>6. PICK k : k = c + 1
    OBVIOUS
  <2>7. k \in Int /\ k * Period \in Int /\ n = a + k * Period
    BY <2>4, <2>5, <2>6, TimesAdds
  <2>8. f - a \in Int /\ f - a >= k * Period /\ f - n = (f - a) - k * Period
    BY <2>4, <2>5, <2>7
  <2>9. PICK g : g = (f - a) \div Period
    OBVIOUS
  <2>10. g \in Int /\ g >= k /\ (f - n) \div Period = g - k
    <3>1. PICK x : x = f - a
      OBVIOUS
    <3>2. x \in Int /\ x >= k * Period /\ f - n = x - k * Period /\ g = x \div Period
      BY <2>8, <2>9, <3>1
    <3>3. g \in Int
      BY <3>2, Divided
    <3>4. g >= k
      BY <2>7, <3>2, DividedAtLeast
    <3>5. (x - k * Period) \div Period = g - k
      BY <2>7, <3>2, DividedShifted
    <3> QED
      BY <3>2, <3>3, <3>4, <3>5
  <2>11. g > c
    BY <2>4, <2>6, <2>10
  <2>12. CellsRise(e)
    <3>1. ASSUME NEW i \in DOMAIN e, NEW j \in DOMAIN e, i < j
          PROVE  CellOf(e, e[i]) < CellOf(e, e[j])
      <4>1. i \in 1 .. l
        BY <1>3, <3>1
      <4>2. \A h \in 1 .. l : CellOf(e, e[h]) = CellOf(d, d[h]) /\ CellOf(d, d[h]) \in Int
        <5>1. ASSUME NEW h \in 1 .. l
              PROVE  CellOf(e, e[h]) = CellOf(d, d[h]) /\ CellOf(d, d[h]) \in Int
          <6>1. e[h] = d[h] /\ d[h] \in Nat /\ d[h] - a \in Int
            BY <1>3, <2>4
          <6>2. (d[h] - a) \div Period \in Int
            BY <6>1, Divided
          <6> QED
            BY <2>2, <2>4, <6>1, <6>2 DEF CellOf
        <5> QED
          BY <5>1
      <4>3. CASE j = l + 1
        <5>1. CellOf(e, e[j]) = g
          BY <1>3, <2>4, <2>9, <4>3 DEF CellOf
        <5>2. CellOf(d, d[l]) = c /\ l \in 1 .. l
          BY <2>1, <2>2, <2>3 DEF CellOf
        <5>3. i = l \/ CellOf(d, d[i]) < CellOf(d, d[l])
          BY <1>3, <2>1, <4>1, <5>2 DEF CellsRise
        <5>4. CellOf(d, d[i]) <= c
          BY <2>4, <4>1, <4>2, <5>2, <5>3
        <5> QED
          BY <2>4, <2>10, <2>11, <4>1, <4>2, <5>1, <5>4
      <4>4. CASE j # l + 1
        <5>1. j \in 1 .. l
          BY <1>3, <4>4
        <5>2. CellOf(d, d[i]) < CellOf(d, d[j])
          BY <1>3, <3>1, <4>1, <5>1 DEF CellsRise
        <5> QED
          BY <4>1, <4>2, <5>1, <5>2
      <4> QED
        BY <4>3, <4>4
    <3> QED
      BY <3>1 DEF CellsRise
  <2>13. OnLattice(e, m)
    <3>1. m = n + (g - k + 1) * Period
      BY <2>5, <2>10
    <3>2. (g - k + 1) * Period + k * Period = (g + 1) * Period
      <4>1. PICK u : u = g - k + 1
        OBVIOUS
      <4>2. u \in Int /\ u + k = g + 1
        BY <2>7, <2>10, <4>1
      <4>3. (u + k) * Period = u * Period + k * Period
        BY <2>7, <4>2, TimesAdds
      <4> QED
        BY <4>1, <4>2, <4>3
    <3>3. (g + 1) * Period \in Int /\ (g - k + 1) * Period \in Int
      BY <2>7, <2>10, TimesAdds
    <3>4. m = a + (g + 1) * Period
      BY <2>4, <2>7, <3>1, <3>2, <3>3
    <3>5. (g + 1) * Period = g * Period + Period /\ g * Period \in Int
      BY <2>10, TimesAdds
    <3>6. f - a < g * Period + Period
      BY <2>8, <2>9, Divided
    <3>7. m > 0
      BY <2>4, <3>4, <3>5, <3>6
    <3>8. CellOf(e, e[Len(e)]) = g
      BY <1>3, <2>4, <2>9 DEF CellOf
    <3> QED
      BY <1>3, <2>4, <3>4, <3>7, <3>8 DEF OnLattice
  <2> QED
    BY <1>1, <2>12, <2>13
<1> QED
  BY <1>4, <1>5

(* The orders of preparing and taking down.                                     *)
LEMMA PreparesOn ==
  ASSUME NEW m \in {"sync", "camera", "attach"}
  PROVE  Tape!Follower(Tape!Prepare, m) \in {"camera", "attach", "start"}
<1>0. PICK i : i = CHOOSE j \in DOMAIN Tape!Prepare : Tape!Prepare[j] = m
  OBVIOUS
<1>1. DOMAIN Tape!Prepare = 1 .. 4 /\ Tape!Prepare[1] = "sync" /\ Tape!Prepare[2] = "camera"
      /\ Tape!Prepare[3] = "attach" /\ Tape!Prepare[4] = "start"
  BY DEF Tape!Prepare
<1>2. \E j \in DOMAIN Tape!Prepare : Tape!Prepare[j] = m
  BY <1>1
<1>3. i \in DOMAIN Tape!Prepare /\ Tape!Prepare[i] = m
  BY <1>0, <1>2
<1>4. i + 1 \in 2 .. 4
  BY <1>1, <1>3
<1>5. Tape!Prepare[i + 1] \in {"camera", "attach", "start"}
  BY <1>1, <1>4
<1> QED
  BY <1>0, <1>5 DEF Tape!Follower

LEMMA TakeDownIs ==
  /\ DOMAIN Tape!TakeDown = {1, 2, 3, 4, 5, 6, 7} /\ Tape!TakeDown[1] = "join_ov"
  /\ Tape!TakeDown[2] = "join_cm2" /\ Tape!TakeDown[3] = "camera_off" /\ Tape!TakeDown[4] = "node_off"
  /\ Tape!TakeDown[5] = "pools_off" /\ Tape!TakeDown[6] = "bag_off" /\ Tape!TakeDown[7] = "over"
BY DEF Tape!TakeDown

LEMMA TakesDownOn ==
  ASSUME NEW m \in {"join_ov", "join_cm2", "camera_off", "node_off", "pools_off", "bag_off"}
  PROVE  Tape!Follower(Tape!TakeDown, m) \in {"join_cm2", "camera_off", "node_off", "pools_off", "bag_off", "over"}
<1>0. PICK i : i = CHOOSE j \in DOMAIN Tape!TakeDown : Tape!TakeDown[j] = m
  OBVIOUS
<1>1. \E j \in DOMAIN Tape!TakeDown : Tape!TakeDown[j] = m
  BY TakeDownIs
<1>2. i \in DOMAIN Tape!TakeDown /\ Tape!TakeDown[i] = m
  BY <1>0, <1>1
<1>3. i \in 1 .. 6
  BY <1>2, TakeDownIs
<1>4. Tape!TakeDown[i + 1] \in {"join_cm2", "camera_off", "node_off", "pools_off", "bag_off", "over"}
  BY <1>3, TakeDownIs
<1> QED
  BY <1>0, <1>4 DEF Tape!Follower

(* The main thread, the signals and the flight leave the camera threads alone but to   *)
(* start them.                                                               *)
LEMMA ThreadsStay ==
  ASSUME RecorderKeeps, UNCHANGED <<cm2, ov, bag, newest, shots>>, main' \in MainAt,
         main' = "running" => main = "running"
  PROVE  RecorderTypes' /\ LatticeKeeps' /\ (main' = "running" => cm2'.at # "none" /\ ov'.at # "none")
BY DEF RecorderKeeps, RecorderTypes, LatticeKeeps, ThreadsKeep, Tape!Due

LEMMA TapeMainKeeps ==
  ASSUME RecorderKeeps, Tape!Main
  PROVE  RecorderKeeps'
<1>1. CASE Tape!Starts
  <2>1. /\ cm2' = [cm2 EXCEPT !.at = "looking"] /\ ov' = [ov EXCEPT !.at = "waiting"]
        /\ main' = "running" /\ UNCHANGED <<halt, signalled, faults, seen_armed, newest, bag, shots>>
    BY <1>1 DEF Tape!Starts, Tape!flight, Tape!source
  <2>2. /\ cm2 \in [at : Cm2At, last_seen : Nat, frame : Nat, next : Int]
        /\ ov \in [at : OvAt, shot : Nat, last_record : Int]
        /\ "looking" \in Cm2At /\ "waiting" \in OvAt
    BY DEF RecorderKeeps, RecorderTypes, Cm2At, OvAt
  <2>3. /\ cm2' \in [at : Cm2At, last_seen : Nat, frame : Nat, next : Int]
        /\ cm2'.at = "looking" /\ cm2'.next = cm2.next
        /\ ov' \in [at : OvAt, shot : Nat, last_record : Int] /\ ov'.at = "waiting"
    BY <2>1, <2>2, Zenon
  <2>4. RecorderTypes'
    BY <2>1, <2>3 DEF RecorderKeeps, RecorderTypes, MainAt
  <2>5. ThreadsKeep'
    BY <2>1, <2>3 DEF RecorderKeeps, ThreadsKeep, Tape!FailureIsReported, Tape!RecordsTheFlight
  <2>6. LatticeKeeps'
    BY <2>1, <2>3 DEF RecorderKeeps, LatticeKeeps
  <2> QED
    BY <2>4, <2>5, <2>6 DEF RecorderKeeps
<1>2. CASE Tape!TakesDown \/ Tape!Raises
  <2>1. /\ \/ /\ main \in {"camera_off", "node_off", "pools_off", "bag_off"}
              /\ main' = Tape!Follower(Tape!TakeDown, main)
           \/ main' \in {"camera_raised", "pools_raised"}
        /\ bag' \in {bag, [bag EXCEPT !.open = FALSE]}
        /\ faults => faults'
        /\ UNCHANGED <<halt, signalled, seen_armed, newest, cm2, ov, shots>>
    <3>1. CASE Tape!Raises
      BY <3>1 DEF Tape!Raises, Tape!flight, Tape!source
    <3>2. CASE Tape!TakesDown
      <4>1. faults' = faults \/ faults' = (faults \/ (main = "pools_off" /\ ov.at = "got"))
        BY <3>2 DEF Tape!TakesDown
      <4>2. faults => faults'
        BY <4>1, Zenon
      <4> QED
        BY <3>2, <4>2 DEF Tape!TakesDown, Tape!flight, Tape!source
    <3> QED
      BY <1>2, <3>1, <3>2
  <2>2. main' \in MainAt /\ main' # "running"
    BY <2>1, TakesDownOn DEF MainAt
  <2>3. bag \in [open : BOOLEAN, down : Seq(Nat), forward : Seq(Nat)]
    BY DEF RecorderKeeps, RecorderTypes
  <2>4. /\ bag' \in [open : BOOLEAN, down : Seq(Nat), forward : Seq(Nat)]
        /\ bag'.down = bag.down /\ (bag'.open => bag.open)
    <3>1. CASE bag' = [bag EXCEPT !.open = FALSE]
      BY <2>3, <3>1
    <3> QED
      BY <2>1, <2>3, <3>1
  <2>5. RecorderTypes'
    BY <2>1, <2>2, <2>4 DEF RecorderKeeps, RecorderTypes
  <2>6. ThreadsKeep'
    BY <2>1, <2>2 DEF RecorderKeeps, ThreadsKeep, Tape!FailureIsReported, Tape!RecordsTheFlight
  <2>7. LatticeKeeps'
    BY <2>1, <2>4 DEF RecorderKeeps, LatticeKeeps, Tape!Due
  <2> QED
    BY <2>5, <2>6, <2>7 DEF RecorderKeeps
<1>3. CASE Tape!Prepares \/ Tape!Joins \/ Tape!Refuses \/ Tape!StopsRunning
  <2>1. /\ UNCHANGED <<signalled, seen_armed, newest, cm2, ov, bag, shots>>
        /\ \/ UNCHANGED <<halt, faults>>
           \/ halt' = TRUE /\ faults' = TRUE
           \/ /\ main = "running" /\ halt' = TRUE /\ faults' = faults
              /\ halt \/ (Tape!Ended(cm2) /\ Tape!Ended(ov))
    BY <1>3 DEF Tape!Prepares, Tape!Joins, Tape!Refuses, Tape!StopsRunning, Tape!flight,
                Tape!source
  <2>2. main' \in MainAt /\ main' # "running"
    <3>1. Tape!TakeDown[1] = "join_ov"
      BY DEF Tape!TakeDown
    <3> QED
      BY <1>3, <3>1, PreparesOn, TakesDownOn DEF Tape!Prepares, Tape!Joins, Tape!Refuses,
           Tape!StopsRunning, MainAt
  <2>3. RecorderTypes' /\ LatticeKeeps'
    BY <2>1, <2>2, ThreadsStay
  <2>4. ThreadsKeep'
    BY <2>1, <2>2 DEF RecorderKeeps, ThreadsKeep, Tape!FailureIsReported, Tape!RecordsTheFlight,
                      Tape!Ended
  <2> QED
    BY <2>3, <2>4 DEF RecorderKeeps
<1> QED
  BY <1>1, <1>2, <1>3 DEF Tape!Main

LEMMA OutsideKeeps ==
  ASSUME RecorderKeeps, Tape!RequestStop \/ Tape!Arms \/ Tape!OnStatus \/ Tape!Published
  PROVE  RecorderKeeps'
<1>1. /\ UNCHANGED <<main, cm2, ov, bag, shots, faults>>
      /\ \/ halt' = halt /\ signalled' = signalled /\ seen_armed' = seen_armed
         \/ halt' = TRUE /\ signalled' = TRUE
         \/ /\ TapeStopsOnDisarm /\ signalled' = signalled
            /\ seen_armed' = (seen_armed \/ px4) /\ halt' = (halt \/ (~px4 /\ seen_armed))
  BY DEF Tape!RequestStop, Tape!Arms, Tape!OnStatus, Tape!Published, Tape!flight, Tape!source
<1>2. newest' \in Int
  <2>1. newest \in Int
    BY DEF RecorderKeeps, RecorderTypes
  <2> QED
    <3>1. CASE Tape!Published
      <4>1. PICK gap \in PoolGaps : newest' = newest + gap
        BY <3>1 DEF Tape!Published
      <4> QED
        BY <2>1, <4>1, CaptureConstants
    <3>2. CASE Tape!RequestStop \/ Tape!Arms \/ Tape!OnStatus
      BY <2>1, <3>2 DEF Tape!RequestStop, Tape!Arms, Tape!OnStatus, Tape!source
    <3> QED
      BY <3>1, <3>2
<1>3. RecorderTypes' /\ LatticeKeeps'
  BY <1>1, <1>2 DEF RecorderKeeps, RecorderTypes, LatticeKeeps, Tape!Due
<1>4. ThreadsKeep'
  <2>1. ThreadsKeep
    BY DEF RecorderKeeps
  <2>2. CASE UNCHANGED <<halt, signalled, seen_armed>>
    BY <1>1, <2>1, <2>2 DEF ThreadsKeep, Tape!FailureIsReported, Tape!RecordsTheFlight
  <2>3. CASE halt' = TRUE /\ signalled' = TRUE
    BY <1>1, <2>1, <2>3 DEF ThreadsKeep, Tape!FailureIsReported, Tape!RecordsTheFlight
  <2>4. CASE /\ TapeStopsOnDisarm /\ signalled' = signalled
             /\ seen_armed' = (seen_armed \/ px4) /\ halt' = (halt \/ (~px4 /\ seen_armed))
    <3>1. (halt => halt') /\ (halt' => halt \/ seen_armed) /\ (seen_armed => seen_armed')
      BY <2>4, Zenon
    <3>2. /\ main' = "running" => cm2'.at # "none" /\ ov'.at # "none"
          /\ "ended" \in {cm2'.at, ov'.at} => halt' /\ Tape!FailureIsReported'
      BY <1>1, <2>1, <3>1 DEF ThreadsKeep, Tape!FailureIsReported
    <3>3. "ended" \in {cm2'.at, ov'.at} => halt'
      BY <1>1, <2>1, <3>1 DEF ThreadsKeep
    <3>4. Tape!FailureIsReported'
      BY <1>1, <2>1 DEF ThreadsKeep, Tape!FailureIsReported
    <3>5. Tape!RecordsTheFlight'
      BY <1>1, <2>1, <2>4, <3>1, Zenon DEF ThreadsKeep, Tape!RecordsTheFlight
    <3> QED
      BY <3>2, <3>3, <3>4, <3>5 DEF ThreadsKeep
  <2> QED
    BY <1>1, <2>2, <2>3, <2>4
<1> QED
  BY <1>3, <1>4 DEF RecorderKeeps

(* The CM2 thread.                                                            *)
LEMMA Cm2Keeps ==
  ASSUME RecorderKeeps, Tape!Cm2Works
  PROVE  RecorderKeeps'
<1>1. /\ cm2 \in [at : Cm2At, last_seen : Nat, frame : Nat, next : Int]
      /\ bag \in [open : BOOLEAN, down : Seq(Nat), forward : Seq(Nat)]
      /\ newest \in Int /\ cm2.last_seen \in Nat /\ cm2.frame \in Nat /\ cm2.next \in Int
      /\ {"looking", "copying", "writing", "failed"} \subseteq Cm2At
  BY DEF RecorderKeeps, RecorderTypes, Cm2At
<1>2. UNCHANGED <<main, ov, newest, shots, signalled, seen_armed>>
  BY DEF Tape!Cm2Works, Tape!Looks, Tape!Copies, Tape!WritesDown, Tape!flight, Tape!source
<1>3. CASE Tape!Looks
  <2>1. newest > cm2.last_seen /\ newest \in Nat /\ newest > 0 /\ UNCHANGED <<bag, halt, faults>>
    BY <1>1, <1>3 DEF Tape!Looks
  <2>2. CASE Tape!Due(newest) /\ cm2' = [cm2 EXCEPT !.at = "copying", !.last_seen = newest, !.frame = newest]
    <3>1. /\ cm2' \in [at : Cm2At, last_seen : Nat, frame : Nat, next : Int]
          /\ cm2'.at = "copying" /\ cm2'.frame = newest /\ cm2'.next = cm2.next
      BY <1>1, <2>1, <2>2, Zenon
    <3>2. cm2'.next = Tape!None \/ cm2'.frame >= cm2'.next
      BY <2>2, <3>1 DEF Tape!Due
    <3>3. LatticeKeeps'
      BY <2>1, <3>1, <3>2 DEF RecorderKeeps, LatticeKeeps, Tape!Due
    <3> QED
      BY <1>2, <1>3, <2>1, <3>1, <3>3 DEF RecorderKeeps, RecorderTypes, ThreadsKeep,
         Tape!FailureIsReported, Tape!RecordsTheFlight, Tape!Looks
  <2>3. CASE cm2' = [cm2 EXCEPT !.last_seen = newest]
    <3>1. /\ cm2' \in [at : Cm2At, last_seen : Nat, frame : Nat, next : Int]
          /\ cm2'.at = cm2.at /\ cm2'.at = "looking" /\ cm2'.next = cm2.next
      BY <1>1, <1>3, <2>1, <2>3, Zenon DEF Tape!Looks
    <3> QED
      BY <1>2, <2>1, <3>1 DEF RecorderKeeps, RecorderTypes, LatticeKeeps, ThreadsKeep,
         Tape!FailureIsReported, Tape!RecordsTheFlight
  <2> QED
    BY <1>3, <2>2, <2>3 DEF Tape!Looks
<1>4. CASE Tape!Copies
  <2>1. PICK at \in {"failed", "writing", "looking"} :
          /\ \/ cm2' = [cm2 EXCEPT !.at = at]
             \/ at = "looking" /\ cm2' = [cm2 EXCEPT !.at = at, !.frame = 0]
          /\ IF at = "failed" THEN faults' = TRUE /\ halt' = TRUE ELSE UNCHANGED <<halt, faults>>
    BY <1>4 DEF Tape!Copies, Tape!Failing
  <2>2. /\ cm2' \in [at : Cm2At, last_seen : Nat, frame : Nat, next : Int]
        /\ cm2'.at = at /\ cm2'.next = cm2.next /\ (cm2'.frame = cm2.frame \/ at = "looking")
    <3>1. 0 \in Nat
      OBVIOUS
    <3> QED
      BY <1>1, <2>1, <3>1, Zenon
  <2>3. UNCHANGED bag /\ cm2.at = "copying"
    BY <1>4 DEF Tape!Copies
  <2>4. RecorderTypes'
    BY <1>2, <2>2, <2>3 DEF RecorderKeeps, RecorderTypes
  <2>5. ThreadsKeep'
    BY <1>2, <2>1, <2>2, <2>3 DEF RecorderKeeps, ThreadsKeep, Tape!FailureIsReported,
                                  Tape!RecordsTheFlight
  <2>6. LatticeKeeps'
    BY <2>1, <2>2, <2>3 DEF RecorderKeeps, LatticeKeeps, Tape!Due
  <2> QED
    BY <2>4, <2>5, <2>6 DEF RecorderKeeps
<1>5. CASE Tape!WritesDown
  <2>1. PICK n : n = IF Period = 0 THEN Tape!None ELSE Tape!NextRecord(cm2.frame)
    OBVIOUS
  <2>2. /\ cm2' = [cm2 EXCEPT !.at = "looking", !.frame = 0, !.next = n]
        /\ bag' = Tape!Written("down", cm2.frame) /\ cm2.at = "writing" /\ UNCHANGED <<halt, faults>>
    BY <1>5, <2>1 DEF Tape!WritesDown
  <2>3. n \in Int /\ (Period > 0 => n = Tape!NextRecord(cm2.frame))
    <3>1. Period \in Nat /\ (cm2.frame - cm2.next \in Int)
      BY <1>1, CaptureConstants
    <3>2. Period > 0 => (cm2.frame - cm2.next) \div Period \in Int
      BY <3>1, Divided
    <3>3. Period > 0 => Tape!NextRecord(cm2.frame) \in Int
      <4>1. PICK w : w = (cm2.frame - cm2.next) \div Period
        OBVIOUS
      <4>2. Period > 0 => w \in Int
        BY <3>2, <4>1
      <4>3. PICK v : v = (w + 1) * Period
        OBVIOUS
      <4>4. Period > 0 => v \in Int
        BY <3>1, <4>2, <4>3
      <4>5. Tape!NextRecord(cm2.frame) = IF cm2.next = Tape!None THEN cm2.frame + Period ELSE cm2.next + v
        BY <4>1, <4>3 DEF Tape!NextRecord
      <4> QED
        BY <1>1, <3>1, <4>4, <4>5
    <3> QED
      BY <2>1, <3>1, <3>3 DEF Tape!None
  <2>4. /\ cm2' \in [at : Cm2At, last_seen : Nat, frame : Nat, next : Int]
        /\ cm2'.at = "looking" /\ cm2'.next = n
    <3>1. 0 \in Nat
      OBVIOUS
    <3> QED
      BY <1>1, <2>2, <2>3, <3>1, Zenon
  <2>5. /\ bag' \in [open : BOOLEAN, down : Seq(Nat), forward : Seq(Nat)]
        /\ bag'.open = bag.open
        /\ bag'.down = IF bag.open THEN Append(bag.down, cm2.frame) ELSE bag.down
    <3>1. PICK d : d = Append(bag.down, cm2.frame)
      OBVIOUS
    <3>2. d \in Seq(Nat)
      BY <1>1, <3>1
    <3>3. bag' = IF bag.open THEN [bag EXCEPT !.down = d] ELSE bag
      BY <2>2, <3>1 DEF Tape!Written
    <3>4. bag.open => /\ bag' \in [open : BOOLEAN, down : Seq(Nat), forward : Seq(Nat)]
                      /\ bag'.open = bag.open /\ bag'.down = d
      BY <1>1, <3>2, <3>3, Zenon
    <3> QED
      BY <1>1, <3>1, <3>3, <3>4
  <2>6. RecorderTypes'
    BY <1>2, <2>4, <2>5 DEF RecorderKeeps, RecorderTypes
  <2>7. ThreadsKeep'
    BY <1>2, <2>2, <2>4 DEF RecorderKeeps, ThreadsKeep, Tape!FailureIsReported,
                            Tape!RecordsTheFlight
  <2>8. LatticeKeeps'
    <3>1. CASE Period > 0 /\ bag.open
      <4>1. CellsRise(bag.down) /\ OnLattice(bag.down, cm2.next) /\ cm2.frame > 0
            /\ (cm2.next = Tape!None \/ cm2.frame >= cm2.next)
        BY <2>2, <3>1 DEF RecorderKeeps, LatticeKeeps, Tape!Due
      <4>2. n = IF cm2.next = Tape!None THEN cm2.frame + Period
                ELSE cm2.next + ((cm2.frame - cm2.next) \div Period + 1) * Period
        BY <2>3, <3>1 DEF Tape!NextRecord
      <4>3. Period \in Nat /\ bag.down \in Seq(Nat)
        BY <1>1, CaptureConstants
      <4>4. CellsRise(bag'.down) /\ OnLattice(bag'.down, n)
        <5>1. PICK f : f = cm2.frame
          OBVIOUS
        <5>2. PICK k : k = cm2.next
          OBVIOUS
        <5>3. f \in Nat /\ f > 0 /\ k \in Int /\ (k = Tape!None \/ f >= k) /\ OnLattice(bag.down, k)
              /\ n = IF k = Tape!None THEN f + Period ELSE k + ((f - k) \div Period + 1) * Period
          BY <1>1, <4>1, <4>2, <5>1, <5>2
        <5>4. CellsRise(Append(bag.down, f)) /\ OnLattice(Append(bag.down, f), n)
          BY <3>1, <4>1, <4>3, <5>3, LatticeGoesOn
        <5>5. bag'.down = Append(bag.down, f)
          BY <2>5, <3>1, <5>1
        <5> QED
          BY <5>4, <5>5
      <4> QED
        BY <2>4, <4>4 DEF LatticeKeeps
    <3>2. CASE ~(Period > 0 /\ bag.open)
      BY <2>4, <2>5, <3>2 DEF RecorderKeeps, LatticeKeeps
    <3> QED
      BY <3>1, <3>2
  <2> QED
    BY <2>6, <2>7, <2>8 DEF RecorderKeeps
<1> QED
  BY <1>3, <1>4, <1>5 DEF Tape!Cm2Works

(* The OV9281 thread, and the end of either.                                    *)
LEMMA OvKeeps ==
  ASSUME RecorderKeeps, Tape!Captures \/ Tape!WritesForward
  PROVE  RecorderKeeps'
<1>1. /\ ov \in [at : OvAt, shot : Nat, last_record : Int] /\ ov.shot \in Nat
      /\ bag \in [open : BOOLEAN, down : Seq(Nat), forward : Seq(Nat)] /\ shots \in Nat
      /\ "got" \in OvAt /\ "waiting" \in OvAt
      /\ UNCHANGED <<main, cm2, newest, halt, signalled, faults, seen_armed>>
  BY DEF RecorderKeeps, RecorderTypes, OvAt, Tape!Captures, Tape!WritesForward, Tape!flight,
         Tape!source
<1>2. /\ ov' \in [at : OvAt, shot : Nat, last_record : Int] /\ ov'.at \in {"got", "waiting"}
      /\ shots' \in Nat
      /\ bag' \in [open : BOOLEAN, down : Seq(Nat), forward : Seq(Nat)]
      /\ bag'.open = bag.open /\ bag'.down = bag.down
  <2>1. CASE Tape!Captures
    <3>1. PICK s : s = shots + 1
      OBVIOUS
    <3>2. s \in Nat /\ shots' = s /\ bag' = bag /\ ov' = [ov EXCEPT !.at = "got", !.shot = s]
      <4>1. s \in Nat
        BY <1>1, <3>1
      <4>2. shots' = s /\ bag' = bag /\ ov' = [ov EXCEPT !.at = "got", !.shot = s]
        BY <2>1, <3>1, Zenon DEF Tape!Captures
      <4> QED
        BY <4>1, <4>2
    <3>3. ov' \in [at : OvAt, shot : Nat, last_record : Int] /\ ov'.at = "got"
      BY <1>1, <3>2, Zenon
    <3> QED
      BY <1>1, <3>2, <3>3
  <2>2. CASE Tape!WritesForward
    <3>1. PICK due \in BOOLEAN :
            /\ bag' = IF due THEN Tape!Written("forward", ov.shot) ELSE bag
            /\ ov' = [ov EXCEPT !.at = "waiting", !.last_record = IF due THEN ov.shot ELSE @]
      BY <2>2 DEF Tape!WritesForward
    <3>2. PICK f : f = Append(bag.forward, ov.shot)
      OBVIOUS
    <3>3. f \in Seq(Nat)
      BY <1>1, <3>2
    <3>4. bag' = bag \/ bag' = [bag EXCEPT !.forward = f]
      BY <3>1, <3>2 DEF Tape!Written
    <3>5. /\ bag' \in [open : BOOLEAN, down : Seq(Nat), forward : Seq(Nat)]
          /\ bag'.open = bag.open /\ bag'.down = bag.down
      BY <1>1, <3>3, <3>4, Zenon
    <3>6. PICK l : l = IF due THEN ov.shot ELSE ov.last_record
      OBVIOUS
    <3>7. l \in Int /\ ov' = [ov EXCEPT !.at = "waiting", !.last_record = l]
      BY <1>1, <3>1, <3>6
    <3>8. ov' \in [at : OvAt, shot : Nat, last_record : Int] /\ ov'.at = "waiting"
      BY <1>1, <3>7, Zenon
    <3> QED
      BY <1>1, <2>2, <3>5, <3>8 DEF Tape!WritesForward
  <2> QED
    BY <2>1, <2>2
<1>3. RecorderTypes'
  BY <1>1, <1>2 DEF RecorderKeeps, RecorderTypes
<1>4. ThreadsKeep'
  BY <1>1, <1>2 DEF RecorderKeeps, ThreadsKeep, Tape!FailureIsReported, Tape!RecordsTheFlight
<1>5. LatticeKeeps'
  BY <1>1, <1>2 DEF RecorderKeeps, LatticeKeeps, Tape!Due
<1> QED
  BY <1>3, <1>4, <1>5 DEF RecorderKeeps

LEMMA ThreadEndsKeep ==
  ASSUME RecorderKeeps, Tape!Fails \/ Tape!Ends
  PROVE  RecorderKeeps'
<1>1. /\ ov \in [at : OvAt, shot : Nat, last_record : Int]
      /\ cm2 \in [at : Cm2At, last_seen : Nat, frame : Nat, next : Int]
      /\ {"ended", "failed"} \subseteq OvAt \cap Cm2At
      /\ UNCHANGED <<main, bag, newest, shots, signalled, seen_armed>>
  BY DEF RecorderKeeps, RecorderTypes, OvAt, Cm2At, Tape!Fails, Tape!Ends, Tape!flight,
         Tape!source
<1>2. PICK at \in {"ended", "failed"} :
        /\ \/ cm2' = [cm2 EXCEPT !.at = at] /\ ov' = ov
           \/ ov' = [ov EXCEPT !.at = at] /\ cm2' = cm2
        /\ \/ at = "failed" /\ faults' = TRUE /\ halt' = TRUE
           \/ at = "ended" /\ halt /\ UNCHANGED <<halt, faults>>
  BY DEF Tape!Fails, Tape!Ends, Tape!Failing
<1>3. /\ ov' \in [at : OvAt, shot : Nat, last_record : Int]
      /\ cm2' \in [at : Cm2At, last_seen : Nat, frame : Nat, next : Int]
      /\ cm2'.next = cm2.next /\ cm2'.frame = cm2.frame
      /\ cm2'.at \in {cm2.at, at} /\ ov'.at \in {ov.at, at}
  <2>1. CASE cm2' = [cm2 EXCEPT !.at = at] /\ ov' = ov
    BY <1>1, <2>1
  <2>2. CASE ov' = [ov EXCEPT !.at = at] /\ cm2' = cm2
    BY <1>1, <2>2
  <2> QED
    BY <1>2, <2>1, <2>2
<1>4. RecorderTypes'
  BY <1>1, <1>3 DEF RecorderKeeps, RecorderTypes
<1>5. ThreadsKeep'
  BY <1>1, <1>2, <1>3 DEF RecorderKeeps, ThreadsKeep, Tape!FailureIsReported,
                          Tape!RecordsTheFlight
<1>6. LatticeKeeps'
  BY <1>1, <1>3 DEF RecorderKeeps, LatticeKeeps, Tape!Due
<1> QED
  BY <1>4, <1>5, <1>6 DEF RecorderKeeps

LEMMA RecorderStarts ==
  ASSUME Tape!Init
  PROVE  RecorderKeeps
<1>1. cm2 = [at |-> "none", last_seen |-> 0, frame |-> 0, next |-> Tape!None] /\ Tape!None \in Int
      /\ ov = [at |-> "none", shot |-> 0, last_record |-> Tape!None]
      /\ bag = [open |-> TRUE, down |-> <<>>, forward |-> <<>>] /\ main = "sync"
      /\ newest = 0 /\ shots = 0 /\ halt = FALSE
  BY DEF Tape!Init, Tape!None
<1>2. RecorderTypes
  BY <1>1 DEF RecorderTypes, Cm2At, OvAt, MainAt
<1>3. ThreadsKeep
  BY <1>1 DEF ThreadsKeep, Tape!FailureIsReported, Tape!RecordsTheFlight
<1>4. LatticeKeeps
  BY <1>1 DEF LatticeKeeps, CellsRise, OnLattice
<1> QED
  BY <1>2, <1>3, <1>4 DEF RecorderKeeps

LEMMA RecorderSteps ==
  ASSUME RecorderKeeps, [Tape!Next]_(Tape!recVars)
  PROVE  RecorderKeeps'
<1>1. CASE UNCHANGED Tape!recVars
  BY <1>1 DEF Tape!recVars, RecorderKeeps, RecorderTypes, ThreadsKeep, Tape!FailureIsReported,
              Tape!RecordsTheFlight, LatticeKeeps, Tape!Due
<1>2. CASE Tape!Next
  BY <1>2, TapeMainKeeps, OutsideKeeps, Cm2Keeps, OvKeeps, ThreadEndsKeep DEF Tape!Next
<1> QED
  BY <1>1, <1>2

LEMMA RecorderFollows ==
  ASSUME RecorderKeeps
  PROVE  Tape!RecorderInv
<1>1. Tape!TypeOK
  <2>1. {Tape!Prepare[i] : i \in DOMAIN Tape!Prepare} = {"sync", "camera", "attach", "start"}
    <3>1. DOMAIN Tape!Prepare = {1, 2, 3, 4} /\ Tape!Prepare[1] = "sync" /\ Tape!Prepare[2] = "camera"
          /\ Tape!Prepare[3] = "attach" /\ Tape!Prepare[4] = "start"
      BY DEF Tape!Prepare
    <3> QED
      BY <3>1
  <2>2. {Tape!TakeDown[i] : i \in DOMAIN Tape!TakeDown} =
          {"join_ov", "join_cm2", "camera_off", "node_off", "pools_off", "bag_off", "over"}
    <3> QED
      BY TakeDownIs
  <2>3. main \in MainAt /\ cm2.at \in Cm2At /\ ov.at \in OvAt
    BY DEF RecorderKeeps, RecorderTypes
  <2> QED
    BY <2>1, <2>2, <2>3 DEF Tape!TypeOK, MainAt, Cm2At, OvAt
<1>2. Tape!OneFrameAPeriod
  <2>1. Period > 0 => CellsRise(bag.down) /\ (bag.open => OnLattice(bag.down, cm2.next))
    BY DEF RecorderKeeps, LatticeKeeps
  <2> QED
    BY <2>1 DEF Tape!OneFrameAPeriod, CellsRise, OnLattice, CellOf, Tape!Cell
<1> QED
  BY <1>1, <1>2 DEF RecorderKeeps, ThreadsKeep, Tape!RecorderInv

-----------------------------------------------------------------------------
(* The parts together: one runs, the others rest.                              *)
PartsKeep == CameraKeeps /\ SessionsKeep /\ RecorderKeeps

LEMMA PartsStart == CaptureInit => PartsKeep
BY CameraStarts, SessionsStart, RecorderStarts DEF CaptureInit, PartsKeep

LEMMA PartsStep ==
  ASSUME PartsKeep, [CaptureNext]_allVars
  PROVE  PartsKeep'
<1>1. [Camera!Next]_(Camera!nodeVars)
  BY DEF CaptureNext, CameraAlone, SessionsAlone, TapeAlone, allVars, cameraVars, Camera!nodeVars,
         Camera!main, Camera!startup, Camera!capturing, Camera!work
<1>2. [Sessions!Next]_(Sessions!sessionVars)
  BY DEF CaptureNext, CameraAlone, SessionsAlone, TapeAlone, allVars, sessionVars,
         Sessions!sessionVars
<1>3. [Tape!Next]_(Tape!recVars)
  BY DEF CaptureNext, CameraAlone, SessionsAlone, TapeAlone, allVars, recorderVars, Tape!recVars
<1> QED
  BY <1>1, <1>2, <1>3, CameraSteps, SessionsStep, RecorderSteps DEF PartsKeep

(* The owner of the camera takes no frame before the clocks agree, with stamps that     *)
(* rise, and gets every frame back from sinks that serve the newest; one owner writes a  *)
(* pool and goes on with its sequence; the recorder writes a frame in a period at most     *)
(* and stops for a reason: whatever the depth of the queues, the periods, the steps of    *)
(* the wall clock and the number of processes.                                 *)
THEOREM CaptureHolds == CaptureSpec => []CaptureInv
<1>1. PartsKeep => CaptureInv
  BY CameraFollows, SessionsFollow, RecorderFollows DEF PartsKeep, CaptureInv
<1> QED
  BY <1>1, PartsStart, PartsStep, PTL DEF CaptureSpec

(* Each stretch of flight is measured once at most: a valid flow result begins where    *)
(* the last one ended or later, and spans no gap that is too long, with either backend,  *)
(* whatever frames were dropped, failed or unfit.                                *)
THEOREM FlowHolds == CaptureSpec => FlowCountsOnce
<1>1. PartsKeep /\ [CaptureNext]_allVars
        => [flow'.span # flow.span => /\ flow'.span.from >= flow.span.to
                                     /\ flow'.span.to - flow'.span.from \in 1 .. MaxDt]_flow
  <2>1. [CaptureNext]_allVars => [Camera!Next]_(Camera!nodeVars)
    BY DEF CaptureNext, CameraAlone, SessionsAlone, TapeAlone, allVars, cameraVars,
           Camera!nodeVars, Camera!main, Camera!startup, Camera!capturing, Camera!work
  <2> QED
    BY <2>1, CountsOnceSteps DEF PartsKeep
<1> QED
  BY <1>1, PartsStart, PartsStep, PTL DEF CaptureSpec, FlowCountsOnce, Camera!FlowCountsOnce

=============================================================================
