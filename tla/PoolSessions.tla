------------------------------ MODULE PoolSessions ------------------------------
(***************************************************************************)
(* The life of a shared frame pool beyond one owner: processes that claim it,      *)
(* publish, close or die, and those that attach to it.  shared_frame_pool.py          *)
(* (claim_owner, create, attach, close), the loops of mine_detector.py and           *)
(* depth_monitor.py, which look for a pool anew when it stands still, and the CM2      *)
(* reader of the flight recorder, which attaches once.                            *)
(*                                                                         *)
(* A pool is one file here, its control file; what is at a path, and who holds the     *)
(* flock, belongs to the operating system.  Of the slots only the newest complete      *)
(* frame matters: how one is written and copied is FramePool's.  Every frame ever      *)
(* published has a number of its own, besides its sequence in the pool.               *)
(***************************************************************************)
EXTENDS Integers, FiniteSets

CONSTANTS
  Owners,               \* processes that may own the pool, started one or more times
  MaxStarts, MaxFrames  \* bounds

VARIABLES
  path,      \* the file at the control path, 0 if there is none
  file,      \* of each file: header written, published_sequence, newest frame
  lock,      \* of each file: who holds its flock
  owners,    \* of each owner: where it is in its life, its file, its _sequence
  pollers,   \* of each reader: where it is, its file, last_sequence, the frame in work
  seen,      \* of each reader: the newest frame it has worked off
  starts, count, \* used up bounds; count numbers the frames
  lost       \* files whose sequence a crash between zeroing and header has lost

sessionVars == <<path, file, lock, owners, pollers, seen, starts, count, lost>>
disk == <<path, file, lock>>
readers == <<pollers, seen>>
budgets == <<starts, count>>

Readers == {"detector", "recorder"}
Files == 1 .. MaxStarts
Nobody == "nobody"
Blank == [header |-> FALSE, published |-> 0, newest |-> 0, frame |-> 0]
Down == [at |-> "down", file |-> 0, sequence |-> 0]
Detached == [at |-> "detached", file |-> 0, last |-> 0, frame |-> 0, sequence |-> 0]

Init ==
  /\ path = 0 /\ file = [i \in Files |-> Blank] /\ lock = [i \in Files |-> Nobody]
  /\ owners = [o \in Owners |-> Down] /\ pollers = [r \in Readers |-> Detached]
  /\ seen = [r \in Readers |-> 0] /\ starts = 0 /\ count = 0 /\ lost = {}

-------------------------------------------------------------------------------
(* An owner's life.  os.open makes the file if there is none.                         *)
Used == {path} \cup {owners[o].file : o \in Owners} \cup {pollers[r].file : r \in Readers}
Fresh == CHOOSE i \in Files : i \notin Used /\ file[i] = Blank /\ i \notin lost

OpenControl(o) ==
  /\ owners[o].at = "down" /\ starts < MaxStarts /\ starts' = starts + 1
  /\ \E i \in {IF path = 0 THEN Fresh ELSE path} :
       path' = i /\ owners' = [owners EXCEPT ![o] = [Down EXCEPT !.at = "open", !.file = i]]
  /\ UNCHANGED <<file, lock, readers, count, lost>>

(* claim_owner's flock, which a live owner, or a reader that just looks, holds.          *)
(* A slip: the lock is not asked for.                                             *)
Claim_Unlocked(o) ==
  /\ owners[o].at = "open"
  /\ lock' = [lock EXCEPT ![owners[o].file] = o]
  /\ owners' = [owners EXCEPT ![o].at = "claimed"]
  /\ UNCHANGED <<path, file, readers, budgets, lost>>
Claim(o) ==
  /\ owners[o].at = "open"
  /\ IF lock[owners[o].file] = Nobody
     THEN /\ lock' = [lock EXCEPT ![owners[o].file] = o]
          /\ owners' = [owners EXCEPT ![o].at = "claimed"]
     ELSE owners' = [owners EXCEPT ![o] = Down] /\ UNCHANGED lock
  /\ UNCHANGED <<path, file, readers, budgets, lost>>

(* create: the sequence of the owner before is kept, the rest becomes zero.            *)
(* A slip: it is not.                                                        *)
Zero_Forgets(o) ==
  /\ owners[o].at = "claimed"
  /\ owners' = [owners EXCEPT ![o].at = "zeroed"]
  /\ file' = [file EXCEPT ![owners[o].file] = Blank]
  /\ UNCHANGED <<path, lock, readers, budgets, lost>>
Zero(o) ==
  /\ owners[o].at = "claimed"
  /\ \E i \in {owners[o].file} :
       /\ owners' = [owners EXCEPT ![o].at = "zeroed",
            ![o].sequence = IF file[i].header THEN file[i].published ELSE 0]
       /\ file' = [file EXCEPT ![i] = Blank]
  /\ UNCHANGED <<path, lock, readers, budgets, lost>>

PackHeader(o) ==
  /\ owners[o].at = "zeroed"
  /\ owners' = [owners EXCEPT ![o].at = "up"]
  /\ file' = [file EXCEPT ![owners[o].file] =
                [Blank EXCEPT !.header = TRUE, !.published = owners[o].sequence]]
  /\ UNCHANGED <<path, lock, readers, budgets, lost>>

Publish(o) ==
  /\ owners[o].at = "up" /\ count < MaxFrames /\ count' = count + 1
  /\ \E sequence \in {owners[o].sequence + 1} :
       /\ owners' = [owners EXCEPT ![o].sequence = sequence]
       /\ file' = [file EXCEPT ![owners[o].file] =
            [@ EXCEPT !.published = sequence, !.newest = sequence, !.frame = count + 1]]
  /\ UNCHANGED <<path, lock, readers, starts, lost>>

(* close: both names go while the lock is held, then the lock with the file.            *)
Unlink(o) ==
  /\ owners[o].at = "up" /\ owners' = [owners EXCEPT ![o].at = "closing"]
  /\ path' = 0 /\ UNCHANGED <<file, lock, readers, budgets, lost>>

Unlocked(o) == [i \in Files |-> IF lock[i] = o THEN Nobody ELSE lock[i]]

Close(o) ==
  /\ owners[o].at = "closing" /\ owners' = [owners EXCEPT ![o] = Down]
  /\ lock' = Unlocked(o) /\ UNCHANGED <<path, file, readers, budgets, lost>>

(* The process dies, and the system lets go of its lock.                              *)
Crash(o) ==
  /\ owners[o].at \notin {"down", "closing"} /\ owners' = [owners EXCEPT ![o] = Down]
  /\ lock' = Unlocked(o)
  /\ lost' = IF owners[o].at = "zeroed" THEN lost \cup {owners[o].file} ELSE lost
  /\ UNCHANGED <<path, file, readers, budgets>>

-------------------------------------------------------------------------------
(* A reader attaches: whoever gets the lock knows that nobody owns the pool.             *)
Goes(r, to) == pollers' = [pollers EXCEPT ![r] = to]

Probe(r) ==
  /\ pollers[r].at = "detached" /\ path # 0
  /\ IF lock[path] = Nobody
     THEN /\ lock' = [lock EXCEPT ![path] = r]
          /\ Goes(r, [Detached EXCEPT !.at = "probing", !.file = path])
     ELSE /\ UNCHANGED lock
          /\ Goes(r, IF file[path].header
                     THEN [Detached EXCEPT !.at = "attached", !.file = path] ELSE Detached)
  /\ UNCHANGED <<path, file, owners, seen, budgets, lost>>

LetGo(r) ==
  /\ pollers[r].at = "probing" /\ lock' = Unlocked(r) /\ Goes(r, Detached)
  /\ UNCHANGED <<path, file, owners, seen, budgets, lost>>

(* poll_once: the newest frame after the last one is copied, and worked off.            *)
Newer(r) == file[pollers[r].file].newest > pollers[r].last

Poll(r) ==
  /\ pollers[r].at = "attached" /\ Newer(r)
  /\ \E f \in {file[pollers[r].file]} :
       Goes(r, [pollers[r] EXCEPT !.at = "working", !.frame = f.frame, !.sequence = f.newest])
  /\ UNCHANGED <<disk, owners, seen, budgets, lost>>

Worked(r) ==
  /\ pollers[r].at = "working" /\ seen' = [seen EXCEPT ![r] = pollers[r].frame]
  /\ Goes(r, [pollers[r] EXCEPT !.at = "attached", !.last = pollers[r].sequence,
                                !.frame = 0, !.sequence = 0])
  /\ UNCHANGED <<disk, owners, budgets, lost>>

(* The backend fails: the detector lets the pool go and begins anew.                   *)
Faults ==
  /\ pollers["detector"].at = "working" /\ Goes("detector", Detached)
  /\ UNCHANGED <<disk, owners, seen, budgets, lost>>

(* Five seconds without a new frame.                                             *)
(* A slip: only when the pool is gone from its path.                                *)
GoesStale_Gone ==
  /\ pollers["detector"].at = "attached" /\ ~Newer("detector")
  /\ path = 0 /\ Goes("detector", Detached)
  /\ UNCHANGED <<disk, owners, seen, budgets, lost>>
GoesStale ==
  /\ pollers["detector"].at = "attached" /\ ~Newer("detector")
  /\ Goes("detector", Detached)
  /\ UNCHANGED <<disk, owners, seen, budgets, lost>>

-------------------------------------------------------------------------------
Owns(o) == OpenControl(o) \/ Claim(o) \/ Zero(o) \/ PackHeader(o) \/ Publish(o)
           \/ Unlink(o) \/ Close(o) \/ Crash(o)
Reads(r) == Probe(r) \/ LetGo(r) \/ Poll(r) \/ Worked(r)

Next == (\E o \in Owners : Owns(o)) \/ (\E r \in Readers : Reads(r)) \/ Faults \/ GoesStale

(* The readers' loops go round.  The backend does not fail every time.                  *)
Fairness ==
  /\ \A r \in Readers : WF_sessionVars(Probe(r) \/ LetGo(r) \/ Poll(r))
  /\ \A r \in Readers : SF_sessionVars(Worked(r))
  /\ WF_sessionVars(GoesStale)

-------------------------------------------------------------------------------
TypeOK ==
  /\ path \in 0 .. MaxStarts /\ count \in 0 .. MaxFrames
  /\ \A o \in Owners : owners[o].at \in {"down", "open", "claimed", "zeroed", "up", "closing"}
  /\ \A r \in Readers : pollers[r].at \in {"detached", "probing", "attached", "working"}

(* Two owners never write one file, and who writes a file holds its lock.               *)
OneWriter ==
  \A o \in Owners : owners[o].at \in {"claimed", "zeroed", "up", "closing"}
                      => lock[owners[o].file] = o

(* What a pool says it published is the newest frame of its slots, or a sequence that    *)
(* an owner before has left it.                                                  *)
SequenceIsKept ==
  \A o \in Owners : owners[o].at = "up"
    => /\ file[owners[o].file].published = owners[o].sequence
       /\ file[owners[o].file].newest \in {0, owners[o].sequence}

(* Types, and what several processes at one pool keep true.                           *)
SessionsInv == TypeOK /\ OneWriter /\ SequenceIsKept

Found(o) == owners[o].at = "up" /\ owners[o].file = path
Lags(r, o) == Found(o) /\ seen[r] < file[path].frame

(* The detector catches up with the newest frame of whoever owns the pool, though it is     *)
(* still at the pool of an owner before.                                         *)
DetectorCatchesUp == LET Behind == \E o \in Owners : Lags("detector", o)
                     IN Behind ~> ~Behind

(* The recorder, which never looks for a pool again, catches up through a crash of the      *)
(* owner: the next one goes on in the same file and with the same sequence, unless the    *)
(* crash fell between the two.                                                   *)
RecorderFollowsACrash ==
  LET Behind == \E o \in Owners : /\ Lags("recorder", o)
                                 /\ pollers["recorder"].file = path /\ path \notin lost
  IN Behind ~> ~Behind

(* A comment of close: "a later owner gets fresh files".  One that has opened the file     *)
(* before the names went, and asks for the lock after, owns a file nobody finds.          *)
LaterOwnerIsFound == \A o \in Owners : owners[o].at = "up" => owners[o].file = path
=============================================================================
