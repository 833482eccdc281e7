------------------------------ MODULE FramePool ------------------------------
(***************************************************************************)
(* sensing/shared_frame_pool.py and the consumers of its frames: the camera  *)
(* owner writes slots and leases them to its sinks (frame_sinks.py, worker   *)
(* threads of the same process); a recorder in another process takes no      *)
(* lease and checks a generation around its copy.                            *)
(*                                                                         *)
(* Abstractions.  A payload is two halves, each the sequence number of the   *)
(* frame its bytes come from, and is written and copied half by half.  The   *)
(* recorder may look at any slot, not only at the freshest.  What the pool's *)
(* lock covers is one action; what crosses to the recorder is not covered.   *)
(***************************************************************************)
EXTENDS Integers, Sequences, FiniteSets

CONSTANTS
  SlotCount,    \* slots of the pool
  Sinks,        \* the consumers that borrow frames, in the order of the fan-out
  Depth,        \* depth of a sink's pending queue
  RecorderRuns, \* a recorder is attached
  MaxWrites,    \* bound on the slots reserved, or refused, in a behaviour
  MaxCrashes    \* bound on the deaths of the owner process

Slots == 0 .. SlotCount - 1

ASSUME PoolConstants ==
  /\ SlotCount \in Nat /\ SlotCount >= 3
  /\ Sinks \in Nat
  /\ Depth \in Nat \ {0}
  /\ RecorderRuns \in BOOLEAN
  /\ MaxWrites \in Nat /\ MaxCrashes \in Nat

VARIABLES
  gen, seq,       \* generation and sequence in the metadata of each slot
  front, back,    \* the two halves of the payload of each slot
  published,      \* published_sequence of the header
  leases,         \* _leases, of the owner process
  next_slot,      \* _next_slot
  sequence,       \* _sequence
  drops,          \* pool_full_drops
  writer,         \* how far the capture loop is, and with which slot
  queue, busy,    \* pending leases of each sink, and the one being worked on
  reader,         \* how far the recorder is with its selected frame
  copied,         \* the last frame the recorder has accepted
  writes, crashes \* how much of the bounds is used

memory == <<gen, seq, front, back, published>>
owner == <<leases, next_slot, sequence, drops, writer, queue, busy>>
recorder == <<reader, copied>>
bounds == <<writes, crashes>>
vars == <<memory, owner, recorder, bounds>>

Lease == [slot : Slots, sequence : Nat]
NoLease == [slot |-> SlotCount, sequence |-> 0]
Consumers == 1 .. Sinks

WriterState ==
  [pc : {"idle", "reserved", "half", "written", "packed", "even", "fanout"},
   slot : Slots, sink : Nat]
ReaderState ==
  [pc : {"idle", "sequence", "selected", "front", "back", "check"},
   slot : Slots, gen : Nat, seq : Nat, before : Nat, front : Nat, back : Nat, born : Nat]
CopyState == [seq : Nat, front : Nat, back : Nat, spans : BOOLEAN]

Resting == [pc |-> "idle", slot |-> 0, sink |-> 0]
Idle == [pc |-> "idle", slot |-> 0, gen |-> 0, seq |-> 0, before |-> 0, front |-> 0, back |-> 0,
         born |-> 0]
Nothing == [seq |-> 0, front |-> 0, back |-> 0, spans |-> FALSE]

Init ==
  /\ gen = [s \in Slots |-> 0] /\ seq = [s \in Slots |-> 0]
  /\ front = [s \in Slots |-> 0] /\ back = [s \in Slots |-> 0]
  /\ published = 0 /\ sequence = 0
  /\ leases = [s \in Slots |-> 0]
  /\ next_slot = 0 /\ drops = 0
  /\ writer = Resting
  /\ queue = [k \in Consumers |-> <<>>] /\ busy = [k \in Consumers |-> NoLease]
  /\ reader = Idle /\ copied = Nothing
  /\ writes = 0 /\ crashes = 0

-----------------------------------------------------------------------------
(* The capture loop of the owner.                                           *)

At(pc) == writer.pc = pc

(* The first slot without a lease, from _next_slot on.                       *)
Offset(s) == (s + SlotCount - next_slot) % SlotCount
Unleased == {s \in Slots : leases[s] = 0}
(* A slip: the next slot in turn, whoever reads it.                          *)
FirstUnleased_InTurn == next_slot
FirstUnleased == CHOOSE s \in Unleased : \A t \in Unleased : Offset(s) <= Offset(t)

Odd(g) == g % 2 = 1

BeginWrite ==
  /\ At("idle") /\ writes < MaxWrites /\ Unleased # {}
  /\ LET s == FirstUnleased
     IN  /\ next_slot' = (s + 1) % SlotCount
         /\ gen' = [gen EXCEPT ![s] = IF Odd(@) THEN @ + 2 ELSE @ + 1]
         /\ writer' = [pc |-> "reserved", slot |-> s, sink |-> 0]
  /\ writes' = writes + 1
  /\ UNCHANGED <<seq, front, back, published, leases, sequence, drops, queue, busy,
                 recorder, crashes>>

(* A slip: only the next slot is looked at.                                  *)
PoolFull_NextOnly ==
  /\ At("idle") /\ writes < MaxWrites /\ leases[next_slot] # 0
  /\ drops' = drops + 1
  /\ writes' = writes + 1
  /\ UNCHANGED <<memory, leases, next_slot, sequence, writer, queue, busy, recorder, crashes>>

PoolFull ==
  /\ At("idle") /\ writes < MaxWrites /\ Unleased = {}
  /\ drops' = drops + 1
  /\ writes' = writes + 1
  /\ UNCHANGED <<memory, leases, next_slot, sequence, writer, queue, busy, recorder, crashes>>

(* WritableSlot.abort: the generation stays odd.  (Its caller raises then; the *)
(* pool itself would let it go on, as here.)                                 *)
AbortWrite ==
  /\ At("reserved")
  /\ writer' = Resting
  /\ UNCHANGED <<memory, leases, next_slot, sequence, drops, queue, busy, recorder, bounds>>

WriteFront ==
  /\ At("reserved")
  /\ front' = [front EXCEPT ![writer.slot] = sequence + 1]
  /\ writer' = [writer EXCEPT !.pc = "half"]
  /\ UNCHANGED <<gen, seq, back, published, leases, next_slot, sequence, drops, queue, busy,
                 recorder, bounds>>

WriteBack ==
  /\ At("half")
  /\ back' = [back EXCEPT ![writer.slot] = sequence + 1]
  /\ writer' = [writer EXCEPT !.pc = "written"]
  /\ UNCHANGED <<gen, seq, front, published, leases, next_slot, sequence, drops, queue, busy,
                 recorder, bounds>>

(* _commit: the metadata under the odd generation, then the even generation, *)
(* then the header.                                                         *)
CommitMetadata ==
  /\ At("written")
  /\ sequence' = sequence + 1
  /\ seq' = [seq EXCEPT ![writer.slot] = sequence + 1]
  /\ writer' = [writer EXCEPT !.pc = "packed"]
  /\ UNCHANGED <<gen, front, back, published, leases, next_slot, drops, queue, busy,
                 recorder, bounds>>

CommitGeneration ==
  /\ At("packed")
  /\ gen' = [gen EXCEPT ![writer.slot] = @ + 1]
  /\ writer' = [writer EXCEPT !.pc = "even"]
  /\ UNCHANGED <<seq, front, back, published, leases, next_slot, sequence, drops, queue, busy,
                 recorder, bounds>>

CommitHeader ==
  /\ At("even")
  /\ published' = sequence
  /\ writer' = [writer EXCEPT !.pc = "fanout", !.sink = 1]
  /\ UNCHANGED <<gen, seq, front, back, leases, next_slot, sequence, drops, queue, busy,
                 recorder, bounds>>

(* pool.lease() checks that the slot still holds the frame; sink.submit()     *)
(* evicts and releases the stale pending lease.                              *)
Leasable(s) == gen[s] # 0 /\ ~Odd(gen[s]) /\ seq[s] = sequence

(* A slip: the evicted lease is not released.                                *)
FanOut_Leaks ==
  /\ At("fanout") /\ writer.sink \in Consumers
  /\ LET k == writer.sink
         s == writer.slot
         kept == IF Len(queue[k]) = Depth THEN Tail(queue[k]) ELSE queue[k]
     IN  IF Leasable(s)
         THEN /\ queue' = [queue EXCEPT ![k] = Append(kept, [slot |-> s, sequence |-> seq[s]])]
              /\ leases' = [leases EXCEPT ![s] = @ + 1]
         ELSE UNCHANGED <<queue, leases>>
  /\ writer' = [writer EXCEPT !.sink = @ + 1]
  /\ UNCHANGED <<memory, next_slot, sequence, drops, busy, recorder, bounds>>

FanOut ==
  /\ At("fanout") /\ writer.sink \in Consumers
  /\ LET k == writer.sink
         s == writer.slot
         full == Len(queue[k]) = Depth
         kept == IF full THEN Tail(queue[k]) ELSE queue[k]
         taken == [leases EXCEPT ![s] = @ + 1]
     IN  IF Leasable(s)
         THEN /\ queue' = [queue EXCEPT ![k] = Append(kept, [slot |-> s, sequence |-> seq[s]])]
              /\ leases' = IF full THEN [taken EXCEPT ![Head(queue[k]).slot] = @ - 1]
                           ELSE taken
         ELSE UNCHANGED <<queue, leases>>
  /\ writer' = [writer EXCEPT !.sink = @ + 1]
  /\ UNCHANGED <<memory, next_slot, sequence, drops, busy, recorder, bounds>>

FanOutEnds ==
  /\ At("fanout") /\ writer.sink \notin Consumers
  /\ writer' = Resting
  /\ UNCHANGED <<memory, leases, next_slot, sequence, drops, queue, busy, recorder, bounds>>

-----------------------------------------------------------------------------
(* A sink's worker thread.                                                  *)

SinkTakes(k) ==
  /\ busy[k] = NoLease /\ queue[k] # <<>>
  /\ busy' = [busy EXCEPT ![k] = Head(queue[k])]
  /\ queue' = [queue EXCEPT ![k] = Tail(@)]
  /\ UNCHANGED <<memory, leases, next_slot, sequence, drops, writer, recorder, bounds>>

(* Handled or failed, the frame is released.                                 *)
SinkReleases(k) ==
  /\ busy[k] # NoLease
  /\ leases' = [leases EXCEPT ![busy[k].slot] = @ - 1]
  /\ busy' = [busy EXCEPT ![k] = NoLease]
  /\ UNCHANGED <<memory, next_slot, sequence, drops, writer, queue, recorder, bounds>>

-----------------------------------------------------------------------------
(* The recorder: latest_after() reads the metadata of a slot, generation     *)
(* first; copy() reads the generation, the payload, the generation.          *)

Reader(pc) == reader.pc = pc

ReadGeneration ==
  /\ RecorderRuns /\ Reader("idle")
  /\ \E s \in Slots :
       /\ gen[s] # 0 /\ ~Odd(gen[s])
       /\ reader' = [Idle EXCEPT !.pc = "sequence", !.slot = s, !.gen = gen[s], !.born = crashes]
  /\ UNCHANGED <<memory, owner, copied, bounds>>

ReadSequence ==
  /\ Reader("sequence")
  /\ reader' = IF seq[reader.slot] > copied.seq
               THEN [reader EXCEPT !.pc = "selected", !.seq = seq[reader.slot]] ELSE Idle
  /\ UNCHANGED <<memory, owner, copied, bounds>>

CopyBegins ==
  /\ Reader("selected")
  /\ reader' = IF gen[reader.slot] # reader.gen THEN Idle
               ELSE [reader EXCEPT !.pc = "front", !.before = gen[reader.slot]]
  /\ UNCHANGED <<memory, owner, copied, bounds>>

CopyFront ==
  /\ Reader("front")
  /\ reader' = [reader EXCEPT !.pc = "back", !.front = front[reader.slot]]
  /\ UNCHANGED <<memory, owner, copied, bounds>>

CopyBack ==
  /\ Reader("back")
  /\ reader' = [reader EXCEPT !.pc = "check", !.back = back[reader.slot]]
  /\ UNCHANGED <<memory, owner, copied, bounds>>

(* `spans` is history: the owner has died since the generation was read.     *)
Accepted == [seq |-> reader.seq, front |-> reader.front, back |-> reader.back,
             spans |-> reader.born # crashes]

(* A slip: the generation is not looked at again.                            *)
CopyEnds_Unchecked ==
  /\ Reader("check")
  /\ copied' = Accepted
  /\ reader' = Idle
  /\ UNCHANGED <<memory, owner, bounds>>

CopyEnds ==
  /\ Reader("check")
  /\ copied' = IF gen[reader.slot] = reader.before
               THEN Accepted ELSE copied
  /\ reader' = Idle
  /\ UNCHANGED <<memory, owner, bounds>>

-----------------------------------------------------------------------------
(* The owner dies (its lock, its leases and its threads with it) and the     *)
(* next one prepares the same files, which only a clean close() removes.     *)
OwnerCrashes ==
  /\ crashes < MaxCrashes
  /\ crashes' = crashes + 1
  /\ gen' = [s \in Slots |-> 0] /\ seq' = [s \in Slots |-> 0]
  /\ sequence' = published
  /\ leases' = [s \in Slots |-> 0]
  /\ next_slot' = 0 /\ drops' = 0
  /\ writer' = Resting
  /\ queue' = [k \in Consumers |-> <<>>] /\ busy' = [k \in Consumers |-> NoLease]
  /\ UNCHANGED <<front, back, published, recorder, writes>>

Capture ==
  \/ BeginWrite \/ PoolFull \/ AbortWrite \/ WriteFront \/ WriteBack
  \/ CommitMetadata \/ CommitGeneration \/ CommitHeader \/ FanOut \/ FanOutEnds

Record ==
  \/ ReadGeneration \/ ReadSequence
  \/ CopyBegins \/ CopyFront \/ CopyBack \/ CopyEnds

Next ==
  \/ Capture
  \/ \E k \in Consumers : SinkTakes(k) \/ SinkReleases(k)
  \/ Record
  \/ OwnerCrashes

Spec == Init /\ [][Next]_vars

-----------------------------------------------------------------------------
(* Every variable of the pool, its owner and its reader keeps its type.      *)
TypeOK ==
  /\ gen \in [Slots -> Nat] /\ seq \in [Slots -> Nat]
  /\ front \in [Slots -> Nat] /\ back \in [Slots -> Nat]
  /\ published \in Nat /\ sequence \in Nat /\ drops \in Nat
  /\ leases \in [Slots -> Int]
  /\ next_slot \in Slots
  /\ writer \in WriterState
  /\ queue \in [Consumers -> Seq(Lease)]
  /\ busy \in [Consumers -> Lease \cup {NoLease}]
  /\ reader \in ReaderState
  /\ copied \in CopyState
  /\ writes \in Nat /\ crashes \in Nat

(* A borrowed frame stays the frame it was while anyone may read it: its     *)
(* slot is neither rewritten nor given a new sequence.                       *)
Held(k) == {queue[k][i] : i \in 1 .. Len(queue[k])} \cup ({busy[k]} \ {NoLease})
BorrowedFramesAreStable ==
  \A k \in Consumers : \A l \in Held(k) :
    /\ front[l.slot] = l.sequence /\ back[l.slot] = l.sequence
    /\ seq[l.slot] = l.sequence /\ ~Odd(gen[l.slot])

(* What the recorder accepts is one whole frame, the one it selected: "Copy   *)
(* one selected frame, rejecting a concurrent overwrite".  Not so for a copy  *)
(* that spans the death of an owner: the generations start again.            *)
CopyIsTheFrame ==
  ~copied.spans => copied.front = copied.seq /\ copied.back = copied.seq

(* Every lease counted is held by someone, so none is lost or released twice. *)
Holders(s) ==
  {h \in Consumers \X (0 .. Depth) :
     IF h[2] = 0 THEN busy[h[1]].slot = s
     ELSE h[2] <= Len(queue[h[1]]) /\ queue[h[1]][h[2]].slot = s}
LeasesAreHeld == \A s \in Slots : leases[s] = Cardinality(Holders(s))

(* Types, frames that stay and leases that are held.                          *)
PoolInv == TypeOK /\ BorrowedFramesAreStable /\ LeasesAreHeld

(* A frame is refused for want of a slot only while a sink holds every one of *)
(* them; so never with a slot to write and Depth + 1 for each sink, however   *)
(* slow the sinks are and whatever the recorder does.                        *)
RefusedOnlyWhenHeld ==
  [][drops' > drops => /\ \A s \in Slots : Holders(s) # {}
                       /\ SlotCount <= (Depth + 1) * Sinks]_vars

=============================================================================
