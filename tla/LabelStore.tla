------------------------------ MODULE LabelStore ------------------------------
(***************************************************************************)
(* The annotation server of the real photos (audit/annotation.py over audit/labels.py):   *)
(* every POST is a thread of its own that loads the label document, reads its body,        *)
(* changes one photo or certifies them all, and replaces the file through a temporary one.  *)
(* The temporary name holds the process id alone, so the threads share it, and a file is    *)
(* what its name points at: a thread that has opened the temporary file goes on writing     *)
(* into it after another has renamed it over the labels.                             *)
(*                                                                         *)
(* An annotation is the number of the save that made it.                              *)
(***************************************************************************)
EXTENDS Naturals, FiniteSets

CONSTANTS
  Photos, Posts,           \* images of the document; threads
  MaxSaves, MaxCrashes     \* bounds

(* There is a photo to label, and the threads of a server can be counted.                *)
ASSUME LabelConstants == Photos # {} /\ IsFiniteSet(Posts) /\ MaxSaves \in Nat

VARIABLES
  overlap,       \* whether a browser posts before its last answer has come
  content,       \* what each inode holds, a document or Torn
  labels, temp,  \* the inode of each name, NoFile for none
  post,          \* the threads
  saves, crashes,
  saved,         \* the last save of each photo that was answered
  locked         \* the document whose certification was answered, or Torn

labelVars == <<overlap, content, labels, temp, post, saves, crashes, saved, locked>>

NoFile == 0
(* One that is named by the labels, one for each thread: those nobody can reach any more  *)
(* are taken again.                                                           *)
Inodes == 1 .. Cardinality(Posts) + 1
States == {"in_progress", "complete"}     \* of a photo that is not certified yet
Documents == [note : [Photos -> 0 .. MaxSaves], state : [Photos -> States], certified : BOOLEAN]
Blank(s) == [note |-> [p \in Photos |-> 0], state |-> [p \in Photos |-> s], certified |-> FALSE]
Torn == Blank("torn")
Imported == Blank("in_progress")

Idle == [at |-> "idle", doc |-> Torn, file |-> NoFile, photo |-> {}]

(* annotate_irl has written the document and frozen its roles before it serves.          *)
Init ==
  /\ overlap \in BOOLEAN
  /\ content = [i \in Inodes |-> IF i = 1 THEN Imported ELSE Torn]
  /\ labels = 1 /\ temp = NoFile
  /\ post = [t \in Posts |-> Idle]
  /\ saves = 0 /\ crashes = 0
  /\ saved = [p \in Photos |-> 0] /\ locked = Torn

-------------------------------------------------------------------------------
(* do_POST loads the document before it reads the body.                               *)
Loads(t) ==
  /\ post[t].at = "idle" /\ saves < MaxSaves
  /\ overlap \/ \A u \in Posts : post[u].at = "idle"
  /\ content[labels] # Torn
  /\ post' = [post EXCEPT ![t] = [Idle EXCEPT !.at = "loaded", !.doc = content[labels]]]
  /\ UNCHANGED <<overlap, content, labels, temp, saves, crashes, saved, locked>>

(* _update_annotation: one photo, never the certified state, nothing once certified.       *)
Saves(t, p, s) ==
  /\ post[t].at = "loaded" /\ saves < MaxSaves /\ ~post[t].doc.certified
  /\ saves' = saves + 1
  /\ post' = [post EXCEPT ![t].at = "apply", ![t].photo = {p}, ![t].doc.note[p] = saves + 1,
                          ![t].doc.state[p] = s]
  /\ UNCHANGED <<overlap, content, labels, temp, crashes, saved, locked>>

(* certify_labels: every photo complete, and not certified yet.                        *)
(* A slip: the photos that are still open are certified with the others.                  *)
Certifies_Early(t) ==
  /\ post[t].at = "loaded" /\ ~post[t].doc.certified
  /\ post' = [post EXCEPT ![t].at = "apply", ![t].doc.certified = TRUE]
  /\ UNCHANGED <<overlap, content, labels, temp, saves, crashes, saved, locked>>
Certifies(t) ==
  /\ post[t].at = "loaded" /\ ~post[t].doc.certified
  /\ \A p \in Photos : post[t].doc.state[p] # "in_progress"
  /\ post' = [post EXCEPT ![t].at = "apply", ![t].doc.certified = TRUE]
  /\ UNCHANGED <<overlap, content, labels, temp, saves, crashes, saved, locked>>

(* A body that is refused: the answer is 400 and nothing is written.                     *)
Refuses(t) ==
  /\ post[t].at = "loaded"
  /\ post' = [post EXCEPT ![t] = Idle]
  /\ UNCHANGED <<overlap, content, labels, temp, saves, crashes, saved, locked>>

(* write_labels: open the temporary file, empty it, write it, rename it.                  *)
Fresh == CHOOSE i \in Inodes : i # labels /\ \A t \in Posts : post[t].file # i
Opens(t) ==
  /\ post[t].at = "apply"
  /\ \E i \in {IF temp = NoFile THEN Fresh ELSE temp} :
       /\ temp' = i /\ content' = [content EXCEPT ![i] = Torn]
       /\ post' = [post EXCEPT ![t].at = "opened", ![t].file = i]
  /\ UNCHANGED <<overlap, labels, saves, crashes, saved, locked>>

(* Over what another thread has written the two may mix.                              *)
Writes(t) ==
  /\ post[t].at = "opened"
  /\ \E i \in {post[t].file} :
       content' \in {[content EXCEPT ![i] = d] :
                       d \in {post[t].doc} \cup (IF content[i] = Torn THEN {} ELSE {Torn})}
  /\ post' = [post EXCEPT ![t].at = "written"]
  /\ UNCHANGED <<overlap, labels, temp, saves, crashes, saved, locked>>

(* The rename, and the answer; a temporary file another thread has renamed is an OSError. *)
Replaces(t) ==
  /\ post[t].at = "written" /\ temp # NoFile
  /\ labels' = temp /\ temp' = NoFile
  /\ content' = [content EXCEPT ![labels] = IF labels = temp THEN @ ELSE Torn]
  /\ saved' = [p \in Photos |-> IF p \in post[t].photo THEN post[t].doc.note[p] ELSE saved[p]]
  /\ locked' = IF post[t].doc.certified THEN post[t].doc ELSE locked
  /\ post' = [post EXCEPT ![t] = Idle]
  /\ UNCHANGED <<overlap, saves, crashes>>

Fails(t) ==
  /\ post[t].at = "written" /\ temp = NoFile
  /\ post' = [post EXCEPT ![t] = Idle]
  /\ UNCHANGED <<overlap, content, labels, temp, saves, crashes, saved, locked>>

(* The server is killed; the next one has another process id.                           *)
Crash ==
  /\ crashes < MaxCrashes /\ crashes' = crashes + 1
  /\ post' = [t \in Posts |-> Idle] /\ temp' = NoFile
  /\ UNCHANGED <<overlap, content, labels, saves, saved, locked>>

Next ==
  \/ \E t \in Posts :
       \/ Loads(t) \/ Certifies(t) \/ Refuses(t) \/ Opens(t) \/ Writes(t) \/ Replaces(t) \/ Fails(t)
       \/ \E p \in Photos, s \in States : Saves(t, p, s)
  \/ Crash

(* Nothing is owed: browsers may stop, and the server too.                          *)
Spec == Init /\ [][Next]_labelVars

-------------------------------------------------------------------------------
TypeOK ==
  /\ content \in [Inodes -> Documents \cup {Torn}] /\ labels \in Inodes /\ temp \in Inodes \cup {NoFile}
  /\ \A t \in Posts : post[t].at \in {"idle", "loaded", "apply", "opened", "written"}

(* The label file can always be read (labels.py:280-285, the temporary file), a save that   *)
(* was answered is in it or a later one of the same photo is, and once the browser was told  *)
(* "Labels certified and locked" it stays what it was, as long as no POST comes before the   *)
(* answer to the last one; that every photo of a certified document had been completed       *)
(* (labels.py:248-254) holds whatever the browsers do.                               *)
LabelsAreWhole == content[labels] # Torn
SavedIsKept == \A p \in Photos : content[labels].note[p] >= saved[p]
CertifiedStays == locked # Torn => content[labels] = locked
CertifiedIsComplete == content[labels].certified => \A p \in Photos : content[labels].state[p] = "complete"
LabelInv ==
  /\ TypeOK /\ CertifiedIsComplete
  /\ ~overlap => LabelsAreWhole /\ SavedIsKept /\ CertifiedStays

(* "certified labels are immutable" (annotation.py:78) and locked (:70), whatever the        *)
(* browsers do.  Fails: a save loads the document, the certification replaces it, and the    *)
(* save replaces that by what it had loaded; and the rename of one thread may take the file   *)
(* another has just emptied.                                                       *)
CertifiedLabelsAreImmutable == CertifiedStays
=============================================================================
