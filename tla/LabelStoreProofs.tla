--------------------------- MODULE LabelStoreProofs ---------------------------
(***************************************************************************)
(* Proofs about the annotation server, for any photos, threads, saves and     *)
(* crashes: whatever the browsers do, every photo of a certified document had  *)
(* been completed; and as long as no POST comes before the answer to the last, *)
(* the label file can be read, has every save that was answered, and is never  *)
(* changed again once it is certified.                                      *)
(***************************************************************************)
EXTENDS LabelStore, FiniteSetTheorems, TLAPS

-----------------------------------------------------------------------------
(* The inductive invariant.                                                 *)

Ats == {"idle", "loaded", "apply", "opened", "written"}
Texts == Documents \cup {Torn}
Threads == [at : Ats, doc : Texts, file : Inodes \cup {NoFile}, photo : SUBSET Photos]

(* What a thread has in hand: a document once it has loaded one, a file from    *)
(* the opening on; the temporary name never names the labels.                  *)
StoreTypes ==
  /\ overlap \in BOOLEAN
  /\ content \in [Inodes -> Texts] /\ labels \in Inodes /\ temp \in Inodes \cup {NoFile}
  /\ temp # labels
  /\ post \in [Posts -> Threads]
  /\ saves \in 0 .. MaxSaves
  /\ saved \in [Photos -> 0 .. MaxSaves] /\ locked \in Texts
  /\ \A t \in Posts :
       /\ post[t].at # "idle" => post[t].doc \in Documents
       /\ post[t].at \in {"opened", "written"} <=> post[t].file # NoFile

(* A certified document is complete, in a file or in the hands of a thread.      *)
Complete(d) == d.certified => \A p \in Photos : d.state[p] = "complete"
CompleteOnly ==
  /\ \A i \in Inodes : Complete(content[i])
  /\ \A t \in Posts : Complete(post[t].doc)

(* With one POST at a time: the thread that works has what the labels hold, or  *)
(* what will replace it, which loses no save and touches nothing certified.      *)
Holds(t) ==
  /\ post[t].at = "loaded" => post[t].doc = content[labels]
  /\ post[t].at \in {"apply", "opened", "written"} =>
       /\ ~content[labels].certified
       /\ \A p \in Photos : saved[p] <= post[t].doc.note[p] /\ post[t].doc.note[p] <= saves
  /\ post[t].at \in {"opened", "written"} => temp = post[t].file
  /\ post[t].at = "opened" => content[post[t].file] = Torn
  /\ post[t].at = "written" => content[post[t].file] = post[t].doc
OneAtATime ==
  /\ \A t, u \in Posts : post[t].at # "idle" /\ post[u].at # "idle" => t = u
  /\ \A t \in Posts : Holds(t)
  /\ content[labels] # Torn
  /\ \A p \in Photos : saved[p] <= content[labels].note[p] /\ content[labels].note[p] <= saves
  /\ locked # Torn => content[labels] = locked /\ locked.certified

LabelKeeps == StoreTypes /\ CompleteOnly /\ (~overlap => OneAtATime)

-----------------------------------------------------------------------------
(* Documents.                                                              *)

(* A document has its parts; what is torn is none, and is not certified.          *)
LEMMA DocumentsAre ==
  /\ \A d \in Texts : /\ DOMAIN d = {"note", "state", "certified"}
                      /\ d.certified \in BOOLEAN /\ d.note \in [Photos -> 0 .. MaxSaves]
  /\ \A d \in Documents : d.state \in [Photos -> States]
  /\ Torn \in Texts /\ ~Torn.certified /\ Torn \notin Documents
  /\ Imported \in Documents /\ ~Imported.certified
  /\ \A p \in Photos : Imported.note[p] = 0
<1>1. PICK p : p \in Photos
  BY LabelConstants
<1>2. MaxSaves \in Nat /\ 0 \in 0 .. MaxSaves
  BY LabelConstants
<1>3. /\ Torn.note = [q \in Photos |-> 0] /\ Torn.state = [q \in Photos |-> "torn"]
      /\ Torn.certified = FALSE /\ DOMAIN Torn = {"note", "state", "certified"}
  BY DEF Torn, Blank
<1>4. Torn.note \in [Photos -> 0 .. MaxSaves]
  BY <1>2, <1>3
<1>5. Torn \notin Documents
  <2>1. Torn.state[p] = "torn"
    BY <1>1, <1>3
  <2>2. \A d \in Documents : d.state[p] \in States
    BY <1>1 DEF Documents
  <2> QED
    BY <2>1, <2>2 DEF States
<1>6. /\ Imported = [note |-> [q \in Photos |-> 0], state |-> [q \in Photos |-> "in_progress"],
                     certified |-> FALSE]
  BY DEF Imported, Blank
<1>7. Imported \in Documents /\ ~Imported.certified /\ \A q \in Photos : Imported.note[q] = 0
  BY <1>2, <1>6 DEF Documents, States
<1>8. \A d \in Documents : /\ DOMAIN d = {"note", "state", "certified"} /\ d.certified \in BOOLEAN
                           /\ d.note \in [Photos -> 0 .. MaxSaves] /\ d.state \in [Photos -> States]
  BY DEF Documents
<1> QED
  BY <1>3, <1>4, <1>5, <1>7, <1>8 DEF Texts

(* A thread that opens finds a file that is nobody's: there is one more than      *)
(* threads, and the one that opens has none yet.                               *)
LEMMA FreshIsFree ==
  ASSUME StoreTypes, NEW t \in Posts, post[t].file = NoFile
  PROVE  Fresh \in Inodes /\ Fresh # labels /\ \A u \in Posts : post[u].file # Fresh
<1> DEFINE Others == Posts \ {t}
           Taken == {labels} \cup {post[u].file : u \in Others}
<1>1. IsFiniteSet(Posts) /\ Cardinality(Posts) \in Nat
  BY LabelConstants, FS_CardinalityType
<1>2. IsFiniteSet(Others) /\ Cardinality(Others) = Cardinality(Posts) - 1
  BY <1>1, FS_RemoveElement
<1>3. /\ IsFiniteSet({post[u].file : u \in Others})
      /\ Cardinality({post[u].file : u \in Others}) <= Cardinality(Others)
  <2> DEFINE f == [u \in Others |-> post[u].file]
             S == {post[u].file : u \in Others}
  <2>1. f \in Surjection(Others, S)
    BY DEF Surjection
  <2> QED
    BY <1>2, <2>1, FS_Surjection
<1>4. IsFiniteSet(Taken) /\ Cardinality(Taken) <= Cardinality(Posts)
  <2>1. IsFiniteSet({labels}) /\ Cardinality({labels}) = 1
    BY FS_Singleton
  <2>2. /\ IsFiniteSet(Taken)
        /\ Cardinality(Taken) = 1 + Cardinality({post[u].file : u \in Others})
             - Cardinality({labels} \cap {post[u].file : u \in Others})
    BY <1>3, <2>1, FS_Union
  <2>3. Cardinality({labels} \cap {post[u].file : u \in Others}) \in Nat
    BY <2>1, FS_Intersection, FS_CardinalityType
  <2>4. Cardinality({post[u].file : u \in Others}) \in Nat
    BY <1>3, FS_CardinalityType
  <2> HIDE DEF Taken, Others
  <2> QED
    BY <1>1, <1>2, <1>3, <2>2, <2>3, <2>4
<1>5. IsFiniteSet(Inodes) /\ Cardinality(Inodes) = Cardinality(Posts) + 1
  BY <1>1, FS_Interval DEF Inodes
<1>6. PICK i \in Inodes : i \notin Taken
  <2>1. ~(Inodes \subseteq Taken)
    <3> HIDE DEF Taken
    <3>1. Cardinality(Taken) \in Nat
      BY <1>4, FS_CardinalityType
    <3> QED
      BY <1>1, <1>4, <1>5, <3>1, FS_Subset
  <2> QED
    BY <2>1
<1>7. 0 \notin Inodes
  BY DEF Inodes
<1>8. \A u \in Posts : post[u].file # i
  BY <1>6, <1>7 DEF NoFile
<1> QED
  BY <1>6, <1>8 DEF Fresh

-----------------------------------------------------------------------------
(* The steps.                                                              *)

LEMMA InitKeeps == Init => LabelKeeps
<1> SUFFICES ASSUME Init PROVE LabelKeeps
  OBVIOUS
<1>1. MaxSaves \in Nat /\ Cardinality(Posts) \in Nat
  BY LabelConstants, FS_CardinalityType
<1>2. 1 \in Inodes /\ NoFile \notin Inodes
  BY <1>1 DEF Inodes, NoFile
<1>3. /\ content \in [Inodes -> Texts] /\ content[1] = Imported
      /\ \A i \in Inodes : content[i] \in {Imported, Torn}
  BY <1>2, DocumentsAre DEF Init, Texts
<1>4. Idle \in Threads /\ Idle.at = "idle" /\ Idle.file = NoFile /\ Idle.doc = Torn
  BY DocumentsAre DEF Idle, Threads, Ats
<1>5. post \in [Posts -> Threads] /\ \A t \in Posts : post[t] = Idle
  BY <1>4 DEF Init
<1>6. StoreTypes
  BY <1>1, <1>2, <1>3, <1>4, <1>5, DocumentsAre DEF StoreTypes, Init, NoFile
<1>7. CompleteOnly
  BY <1>3, <1>4, <1>5, DocumentsAre DEF CompleteOnly, Complete
<1>8. OneAtATime
  <2>1. content[labels] = Imported /\ locked = Torn /\ \A q \in Photos : saved[q] = 0
    BY <1>3 DEF Init
  <2> QED
    BY <1>1, <1>4, <1>5, <2>1, DocumentsAre DEF OneAtATime, Holds, Init
<1> QED
  BY <1>6, <1>7, <1>8 DEF LabelKeeps

(* What is idle holds nothing.                                               *)
LEMMA IdleIs ==
  Idle \in Threads /\ Idle.at = "idle" /\ Idle.file = NoFile /\ Complete(Idle.doc)
BY DocumentsAre DEF Idle, Threads, Ats, Complete

(* A thread that takes the document, changes it, certifies it, or gives up,       *)
(* leaves the files alone.                                                   *)
LEMMA LoadsKeeps ==
  ASSUME LabelKeeps, NEW t \in Posts, Loads(t)
  PROVE  LabelKeeps'
<1> DEFINE r == [Idle EXCEPT !.at = "loaded", !.doc = content[labels]]
<1>1. content[labels] \in Documents /\ Complete(content[labels])
  BY DEF LabelKeeps, StoreTypes, CompleteOnly, Loads, Texts
<1>3. /\ r \in Threads /\ r.at = "loaded" /\ r.doc = content[labels] /\ r.file = NoFile
  BY <1>1, IdleIs DEF Threads, Ats, Texts
<1>4. /\ post' = [post EXCEPT ![t] = r] /\ (overlap \/ \A u \in Posts : post[u].at = "idle")
      /\ UNCHANGED <<overlap, content, labels, temp, saves, crashes, saved, locked>>
  BY DEF Loads
<1> HIDE DEF r
<1>5. /\ post' \in [Posts -> Threads] /\ post'[t] = r
      /\ \A u \in Posts : u # t => post'[u] = post[u]
  BY <1>3, <1>4 DEF LabelKeeps, StoreTypes
<1>6. StoreTypes'
  BY <1>1, <1>3, <1>4, <1>5 DEF LabelKeeps, StoreTypes
<1>7. CompleteOnly'
  BY <1>1, <1>3, <1>4, <1>5 DEF LabelKeeps, CompleteOnly, Complete
<1>8. ASSUME ~overlap'
      PROVE  OneAtATime'
  <2>1. OneAtATime /\ \A u \in Posts : post[u].at = "idle"
    BY <1>4, <1>8 DEF LabelKeeps
  <2>2. \A u, v \in Posts : post'[u].at # "idle" /\ post'[v].at # "idle" => u = v
    BY <1>5, <2>1
  <2>3. \A u \in Posts : Holds(u)'
    BY <1>3, <1>4, <1>5, <2>1 DEF Holds
  <2> QED
    BY <1>4, <2>1, <2>2, <2>3 DEF OneAtATime
<1> QED
  BY <1>6, <1>7, <1>8 DEF LabelKeeps

LEMMA SavesKeeps ==
  ASSUME LabelKeeps, NEW t \in Posts, NEW p \in Photos, NEW s \in States, Saves(t, p, s)
  PROVE  LabelKeeps'
<1> DEFINE d == post[t].doc
           e == [d EXCEPT !.note[p] = saves + 1, !.state[p] = s]
<1>1. /\ post[t].at = "loaded" /\ d \in Documents /\ ~d.certified /\ post[t].file = NoFile
      /\ post[t] \in Threads /\ saves + 1 \in 0 .. MaxSaves /\ saves \in 0 .. MaxSaves
  BY LabelConstants DEF LabelKeeps, StoreTypes, Saves
<1>2. /\ e \in Documents /\ ~e.certified
      /\ \A q \in Photos : e.note[q] = IF q = p THEN saves + 1 ELSE d.note[q]
  <2>1. /\ e.note = [d.note EXCEPT ![p] = saves + 1] /\ e.state = [d.state EXCEPT ![p] = s]
        /\ e.certified = d.certified
    BY <1>1 DEF Documents
  <2>2. d.note \in [Photos -> 0 .. MaxSaves] /\ d.state \in [Photos -> States]
    BY <1>1 DEF Documents
  <2>3. e.note \in [Photos -> 0 .. MaxSaves] /\ e.state \in [Photos -> States]
    BY <1>1, <2>1, <2>2
  <2>4. e \in Documents
    BY <1>1, <2>1, <2>3 DEF Documents
  <2> QED
    BY <1>1, <2>1, <2>2, <2>4
<1> DEFINE r == [post[t] EXCEPT !.at = "apply", !.photo = {p}, !.doc = e]
<1>3. /\ r \in Threads /\ r.at = "apply" /\ r.doc = e /\ r.file = NoFile
  <2> HIDE DEF e, d
  <2>1. e \in Texts
    BY <1>2 DEF Texts
  <2> QED
    BY <1>1, <2>1 DEF Threads, Ats
<1>4. /\ post' = [post EXCEPT ![t] = r] /\ saves' = saves + 1
      /\ UNCHANGED <<overlap, content, labels, temp, crashes, saved, locked>>
  <2>1. post' = [post EXCEPT ![t].at = "apply", ![t].photo = {p}, ![t].doc.note[p] = saves + 1,
                             ![t].doc.state[p] = s]
    BY DEF Saves
  <2> DEFINE q == [post[t] EXCEPT !.at = "apply", !.photo = {p}, !.doc.note[p] = saves + 1,
                                  !.doc.state[p] = s]
  <2>2. post' = [post EXCEPT ![t] = q]
    <3>1. post = [u \in Posts |-> post[u]] /\ t \in Posts
      BY DEF LabelKeeps, StoreTypes
    <3>2. DOMAIN post' = Posts /\ DOMAIN [post EXCEPT ![t] = q] = Posts
      BY <2>1, <3>1
    <3>3. post'[t] = q
      BY <2>1, <3>1, <3>2
    <3>4. \A u \in Posts \ {t} : post'[u] = post[u]
      BY <2>1, <3>1, <3>2
    <3> QED
      BY <2>1, <3>1, <3>2, <3>3, <3>4
  <2>3. q = r
    BY <1>1 DEF Threads, Documents
  <2> QED
    BY <2>2, <2>3 DEF Saves
<1> HIDE DEF r, e, d
<1>5. /\ post' \in [Posts -> Threads] /\ post'[t] = r
      /\ \A u \in Posts : u # t => post'[u] = post[u]
  BY <1>3, <1>4 DEF LabelKeeps, StoreTypes
<1>6. StoreTypes'
  BY <1>1, <1>2, <1>3, <1>4, <1>5 DEF LabelKeeps, StoreTypes
<1>7. CompleteOnly'
  BY <1>2, <1>3, <1>4, <1>5 DEF LabelKeeps, CompleteOnly, Complete
<1>8. ASSUME ~overlap'
      PROVE  OneAtATime'
  <2>1. OneAtATime
    BY <1>4, <1>8 DEF LabelKeeps
  <2>2. \A u, v \in Posts : post'[u].at # "idle" /\ post'[v].at # "idle" => u = v
    BY <1>1, <1>5, <2>1 DEF OneAtATime
  <2>3. d = content[labels] /\ \A q \in Photos : saved[q] <= d.note[q] /\ d.note[q] <= saves
    BY <1>1, <2>1 DEF OneAtATime, Holds, d
  <2>4. \A q \in Photos : saved[q] \in Nat /\ d.note[q] \in Nat
    BY <1>1 DEF LabelKeeps, StoreTypes, Documents
  <2>5. \A q \in Photos : saved[q] <= e.note[q] /\ e.note[q] <= saves + 1 /\ d.note[q] <= saves + 1
    BY <1>1, <1>2, <2>3, <2>4
  <2>6. Holds(t)'
    BY <1>1, <1>3, <1>4, <1>5, <2>3, <2>5 DEF Holds
  <2>7. \A u \in Posts : Holds(u)'
    <3>1. \A u \in Posts : u # t => post'[u].at = "idle"
      BY <1>1, <1>5, <2>1 DEF OneAtATime
    <3> QED
      BY <2>6, <3>1 DEF Holds
  <2>8. \A q \in Photos : saved[q] <= content[labels].note[q] /\ content[labels].note[q] <= saves'
    BY <1>4, <2>3, <2>5
  <2> QED
    BY <1>4, <2>1, <2>2, <2>7, <2>8 DEF OneAtATime
<1> QED
  BY <1>6, <1>7, <1>8 DEF LabelKeeps

LEMMA CertifiesKeeps ==
  ASSUME LabelKeeps, NEW t \in Posts, Certifies(t)
  PROVE  LabelKeeps'
<1> DEFINE d == post[t].doc
           e == [d EXCEPT !.certified = TRUE]
<1>1. /\ post[t].at = "loaded" /\ d \in Documents /\ ~d.certified /\ post[t].file = NoFile
      /\ post[t] \in Threads
  BY DEF LabelKeeps, StoreTypes, Certifies
<1>2. /\ e \in Documents /\ e.note = d.note /\ Complete(e)
  <2>1. /\ e.note = d.note /\ e.state = d.state /\ e.certified = TRUE /\ e \in Documents
    BY <1>1 DEF Documents
  <2>2. \A q \in Photos : d.state[q] \in States /\ d.state[q] # "in_progress"
    BY <1>1 DEF Certifies, Documents
  <2> QED
    BY <2>1, <2>2 DEF Complete, States
<1> DEFINE r == [post[t] EXCEPT !.at = "apply", !.doc = e]
<1>3. /\ r \in Threads /\ r.at = "apply" /\ r.doc = e /\ r.file = NoFile
  <2> HIDE DEF e, d
  <2>1. e \in Texts
    BY <1>2 DEF Texts
  <2> QED
    BY <1>1, <2>1 DEF Threads, Ats
<1>4. /\ post' = [post EXCEPT ![t] = r]
      /\ UNCHANGED <<overlap, content, labels, temp, saves, crashes, saved, locked>>
  BY <1>1 DEF Certifies, LabelKeeps, StoreTypes, Threads, Documents
<1> HIDE DEF r, e, d
<1>5. /\ post' \in [Posts -> Threads] /\ post'[t] = r
      /\ \A u \in Posts : u # t => post'[u] = post[u]
  BY <1>3, <1>4 DEF LabelKeeps, StoreTypes
<1>6. StoreTypes'
  BY <1>2, <1>3, <1>4, <1>5 DEF LabelKeeps, StoreTypes
<1>7. CompleteOnly'
  BY <1>2, <1>3, <1>4, <1>5 DEF LabelKeeps, CompleteOnly, Complete
<1>8. ASSUME ~overlap'
      PROVE  OneAtATime'
  <2>1. OneAtATime
    BY <1>4, <1>8 DEF LabelKeeps
  <2>2. \A u, v \in Posts : post'[u].at # "idle" /\ post'[v].at # "idle" => u = v
    BY <1>1, <1>5, <2>1 DEF OneAtATime
  <2>3. d = content[labels] /\ \A q \in Photos : saved[q] <= d.note[q] /\ d.note[q] <= saves
    BY <1>1, <2>1 DEF OneAtATime, Holds, d
  <2>4. Holds(t)'
    BY <1>1, <1>2, <1>3, <1>4, <1>5, <2>3 DEF Holds
  <2>5. \A u \in Posts : Holds(u)'
    BY <1>4, <1>5, <2>1, <2>4 DEF OneAtATime, Holds
  <2> QED
    BY <1>4, <2>1, <2>2, <2>5 DEF OneAtATime
<1> QED
  BY <1>6, <1>7, <1>8 DEF LabelKeeps

LEMMA StopsKeeps ==
  ASSUME LabelKeeps, NEW t \in Posts, Refuses(t) \/ Fails(t)
  PROVE  LabelKeeps'
<1>1. /\ post' = [post EXCEPT ![t] = Idle]
      /\ UNCHANGED <<overlap, content, labels, temp, saves, crashes, saved, locked>>
  BY DEF Refuses, Fails
<1>2. /\ post' \in [Posts -> Threads] /\ post'[t] = Idle
      /\ \A u \in Posts : u # t => post'[u] = post[u]
  BY <1>1, IdleIs DEF LabelKeeps, StoreTypes
<1>3. StoreTypes'
  BY <1>1, <1>2, IdleIs DEF LabelKeeps, StoreTypes
<1>4. CompleteOnly'
  BY <1>1, <1>2, IdleIs DEF LabelKeeps, CompleteOnly, Complete
<1>5. ASSUME ~overlap'
      PROVE  OneAtATime'
  <2>1. OneAtATime
    BY <1>1, <1>5 DEF LabelKeeps
  <2>2. \A u \in Posts : Holds(u)'
    BY <1>1, <1>2, <2>1, IdleIs DEF OneAtATime, Holds
  <2> QED
    BY <1>1, <1>2, <2>1, <2>2, IdleIs DEF OneAtATime
<1> QED
  BY <1>3, <1>4, <1>5 DEF LabelKeeps

(* The thread that opens has a file that is not the labels', which it empties.    *)
LEMMA OpensKeeps ==
  ASSUME LabelKeeps, NEW t \in Posts, Opens(t)
  PROVE  LabelKeeps'
<1>1. /\ post[t].at = "apply" /\ post[t].doc \in Documents /\ post[t].file = NoFile
      /\ post[t] \in Threads
  BY DEF LabelKeeps, StoreTypes, Opens
<1>2. PICK i \in {IF temp = NoFile THEN Fresh ELSE temp} :
        /\ temp' = i /\ content' = [content EXCEPT ![i] = Torn]
        /\ post' = [post EXCEPT ![t].at = "opened", ![t].file = i]
  BY DEF Opens
<1>3. i \in Inodes /\ i # labels /\ i # NoFile
  BY <1>1, <1>2, FreshIsFree DEF LabelKeeps, StoreTypes, Inodes, NoFile
<1> DEFINE r == [post[t] EXCEPT !.at = "opened", !.file = i]
<1>4. /\ r \in Threads /\ r.at = "opened" /\ r.doc = post[t].doc /\ r.file = i
  BY <1>1, <1>3 DEF Threads, Ats
<1>5. /\ post' = [post EXCEPT ![t] = r]
      /\ UNCHANGED <<overlap, labels, saves, crashes, saved, locked>>
  BY <1>1, <1>2 DEF Opens, LabelKeeps, StoreTypes
<1> HIDE DEF r
<1>6. /\ post' \in [Posts -> Threads] /\ post'[t] = r
      /\ \A u \in Posts : u # t => post'[u] = post[u]
  BY <1>4, <1>5 DEF LabelKeeps, StoreTypes
<1>7. /\ content' \in [Inodes -> Texts] /\ content'[i] = Torn
      /\ \A j \in Inodes : j # i => content'[j] = content[j]
  BY <1>2, <1>3, DocumentsAre DEF LabelKeeps, StoreTypes
<1>8. StoreTypes'
  BY <1>1, <1>2, <1>3, <1>4, <1>5, <1>6, <1>7 DEF LabelKeeps, StoreTypes
<1>9. CompleteOnly'
  <2>1. \A j \in Inodes : Complete(content'[j])
    BY <1>7, DocumentsAre DEF LabelKeeps, CompleteOnly, Complete
  <2>2. \A u \in Posts : Complete(post'[u].doc)
    BY <1>4, <1>6 DEF LabelKeeps, CompleteOnly
  <2> QED
    BY <2>1, <2>2 DEF CompleteOnly, Complete
<1>10. ASSUME ~overlap'
       PROVE  OneAtATime'
  <2>1. OneAtATime
    BY <1>5, <1>10 DEF LabelKeeps
  <2>2. \A u, v \in Posts : post'[u].at # "idle" /\ post'[v].at # "idle" => u = v
    BY <1>1, <1>6, <2>1 DEF OneAtATime
  <2>3. content'[labels] = content[labels] /\ labels' = labels
    BY <1>3, <1>5, <1>7 DEF LabelKeeps, StoreTypes
  <2>4. Holds(t)'
    BY <1>1, <1>2, <1>4, <1>5, <1>6, <1>7, <2>1, <2>3 DEF OneAtATime, Holds
  <2>5. \A u \in Posts : u # t => post'[u].at = "idle"
    BY <1>1, <1>6, <2>1 DEF OneAtATime
  <2>6. \A u \in Posts : Holds(u)'
    BY <2>4, <2>5 DEF Holds
  <2> QED
    BY <1>5, <2>1, <2>2, <2>3, <2>6 DEF OneAtATime
<1> QED
  BY <1>8, <1>9, <1>10 DEF LabelKeeps

LEMMA WritesKeeps ==
  ASSUME LabelKeeps, NEW t \in Posts, Writes(t)
  PROVE  LabelKeeps'
<1> DEFINE i == post[t].file
<1>1. /\ post[t].at = "opened" /\ post[t].doc \in Documents /\ i \in Inodes /\ post[t] \in Threads
  BY DEF LabelKeeps, StoreTypes, Writes, Threads
<1>2. PICK d \in {post[t].doc} \cup (IF content[i] = Torn THEN {} ELSE {Torn}) :
        content' = [content EXCEPT ![i] = d]
  BY DEF Writes
<1>3. d \in {post[t].doc, Torn} /\ d \in Texts /\ Complete(d)
  BY <1>1, <1>2, DocumentsAre DEF LabelKeeps, CompleteOnly, Complete, Texts
<1> DEFINE r == [post[t] EXCEPT !.at = "written"]
<1>4. /\ r \in Threads /\ r.at = "written" /\ r.doc = post[t].doc /\ r.file = i
  BY <1>1 DEF Threads, Ats
<1>5. /\ post' = [post EXCEPT ![t] = r]
      /\ UNCHANGED <<overlap, labels, temp, saves, crashes, saved, locked>>
  BY <1>1 DEF Writes, LabelKeeps, StoreTypes
<1> HIDE DEF r, i
<1>6. /\ post' \in [Posts -> Threads] /\ post'[t] = r
      /\ \A u \in Posts : u # t => post'[u] = post[u]
  BY <1>4, <1>5 DEF LabelKeeps, StoreTypes
<1>7. /\ content' \in [Inodes -> Texts] /\ content'[i] = d
      /\ \A j \in Inodes : j # i => content'[j] = content[j]
  BY <1>1, <1>2, <1>3 DEF LabelKeeps, StoreTypes
<1>8. StoreTypes'
  BY <1>1, <1>3, <1>4, <1>5, <1>6, <1>7 DEF LabelKeeps, StoreTypes, i
<1>9. CompleteOnly'
  <2>1. \A j \in Inodes : Complete(content'[j])
    BY <1>3, <1>7 DEF LabelKeeps, CompleteOnly
  <2>2. \A u \in Posts : Complete(post'[u].doc)
    BY <1>4, <1>6 DEF LabelKeeps, CompleteOnly
  <2> QED
    BY <2>1, <2>2 DEF CompleteOnly, Complete
<1>10. ASSUME ~overlap'
       PROVE  OneAtATime'
  <2>1. OneAtATime
    BY <1>5, <1>10 DEF LabelKeeps
  <2>2. \A u, v \in Posts : post'[u].at # "idle" /\ post'[v].at # "idle" => u = v
    BY <1>1, <1>6, <2>1 DEF OneAtATime
  <2>3. d = post[t].doc /\ temp = i
    BY <1>1, <1>2, <2>1 DEF OneAtATime, Holds, i
  <2>4. content'[labels] = content[labels] /\ labels' = labels
    BY <1>5, <1>7, <2>3 DEF LabelKeeps, StoreTypes
  <2>5. Holds(t)'
    BY <1>1, <1>4, <1>5, <1>6, <1>7, <2>1, <2>3, <2>4 DEF OneAtATime, Holds
  <2>6. \A u \in Posts : u # t => post'[u].at = "idle"
    BY <1>1, <1>6, <2>1 DEF OneAtATime
  <2>7. \A u \in Posts : Holds(u)'
    BY <2>5, <2>6 DEF Holds
  <2> QED
    BY <1>5, <2>1, <2>2, <2>4, <2>7 DEF OneAtATime
<1> QED
  BY <1>8, <1>9, <1>10 DEF LabelKeeps

(* The replacement.                                                          *)
LEMMA ReplacesKeeps ==
  ASSUME LabelKeeps, NEW t \in Posts, Replaces(t)
  PROVE  LabelKeeps'
<1> DEFINE d == post[t].doc
<1>1. /\ post[t].at = "written" /\ temp \in Inodes /\ labels' = temp /\ temp' = NoFile
      /\ temp # labels /\ labels \in Inodes /\ d \in Documents
  BY DEF LabelKeeps, StoreTypes, Replaces
<1>2. /\ post' = [post EXCEPT ![t] = Idle] /\ UNCHANGED <<overlap, saves, crashes>>
      /\ content' = [content EXCEPT ![labels] = Torn]
  BY <1>1 DEF Replaces
<1>3. /\ saved' = [p \in Photos |-> IF p \in post[t].photo THEN d.note[p] ELSE saved[p]]
      /\ locked' = IF d.certified THEN d ELSE locked
  BY DEF Replaces
<1>4. /\ post' \in [Posts -> Threads] /\ post'[t] = Idle
      /\ \A u \in Posts : u # t => post'[u] = post[u]
  BY <1>2, IdleIs DEF LabelKeeps, StoreTypes
<1>5. /\ content' \in [Inodes -> Texts] /\ content'[labels] = Torn
      /\ \A j \in Inodes : j # labels => content'[j] = content[j]
  BY <1>1, <1>2, DocumentsAre DEF LabelKeeps, StoreTypes
<1>6. d.note \in [Photos -> 0 .. MaxSaves] /\ saved \in [Photos -> 0 .. MaxSaves]
  BY <1>1 DEF LabelKeeps, StoreTypes, Documents
<1>7. StoreTypes'
  <2>1. saved' \in [Photos -> 0 .. MaxSaves]
    BY <1>3, <1>6
  <2>2. locked' \in Texts
    BY <1>1, <1>3 DEF LabelKeeps, StoreTypes, Texts
  <2>3. NoFile \notin Inodes
    BY DEF NoFile, Inodes
  <2> QED
    BY <1>1, <1>2, <1>4, <1>5, <2>1, <2>2, <2>3, IdleIs DEF LabelKeeps, StoreTypes
<1>8. CompleteOnly'
  <2>1. \A j \in Inodes : Complete(content'[j])
    BY <1>5, DocumentsAre DEF LabelKeeps, CompleteOnly, Complete
  <2>2. \A u \in Posts : Complete(post'[u].doc)
    BY <1>4, IdleIs DEF LabelKeeps, CompleteOnly
  <2> QED
    BY <2>1, <2>2 DEF CompleteOnly, Complete
<1>9. ASSUME ~overlap'
      PROVE  OneAtATime'
  <2>1. OneAtATime
    BY <1>2, <1>9 DEF LabelKeeps
  <2>2. /\ temp = post[t].file /\ content[temp] = d /\ ~content[labels].certified
        /\ \A p \in Photos : saved[p] <= d.note[p] /\ d.note[p] <= saves
    BY <1>1, <2>1 DEF OneAtATime, Holds
  <2>3. \A u \in Posts : post'[u].at = "idle"
    BY <1>1, <1>4, <2>1, IdleIs DEF OneAtATime
  <2>4. content'[labels'] = d /\ d # Torn
    BY <1>1, <1>5, <2>2, DocumentsAre
  <2>5. \A p \in Photos : saved'[p] <= d.note[p] /\ d.note[p] <= saves'
    BY <1>2, <1>3, <1>6, <2>2
  <2>6. locked' # Torn => content'[labels'] = locked' /\ locked'.certified
    <3>1. locked = Torn
      BY <2>1, <2>2 DEF OneAtATime
    <3> QED
      BY <1>3, <2>4, <3>1
  <2> QED
    BY <2>3, <2>4, <2>5, <2>6 DEF OneAtATime, Holds
<1> QED
  BY <1>7, <1>8, <1>9 DEF LabelKeeps

LEMMA CrashKeeps ==
  ASSUME LabelKeeps, Crash
  PROVE  LabelKeeps'
<1>1. /\ post' = [t \in Posts |-> Idle] /\ temp' = NoFile
      /\ UNCHANGED <<overlap, content, labels, saves, saved, locked>>
  BY DEF Crash
<1>2. post' \in [Posts -> Threads] /\ \A t \in Posts : post'[t] = Idle
  BY <1>1, IdleIs
<1>3. StoreTypes'
  BY <1>1, <1>2, IdleIs DEF LabelKeeps, StoreTypes, Inodes, NoFile
<1>4. CompleteOnly'
  BY <1>1, <1>2, IdleIs DEF LabelKeeps, CompleteOnly, Complete
<1>5. ASSUME ~overlap'
      PROVE  OneAtATime'
  BY <1>1, <1>2, <1>5, IdleIs DEF LabelKeeps, OneAtATime, Holds
<1> QED
  BY <1>3, <1>4, <1>5 DEF LabelKeeps

LEMMA StoreKeeps == LabelKeeps /\ [Next]_labelVars => LabelKeeps'
<1> SUFFICES ASSUME LabelKeeps, [Next]_labelVars PROVE LabelKeeps'
  OBVIOUS
<1>1. ASSUME NEW t \in Posts, Loads(t) PROVE LabelKeeps'
  BY <1>1, LoadsKeeps
<1>2. ASSUME NEW t \in Posts, NEW p \in Photos, NEW s \in States, Saves(t, p, s) PROVE LabelKeeps'
  BY <1>2, SavesKeeps
<1>3. ASSUME NEW t \in Posts, Certifies(t) PROVE LabelKeeps'
  BY <1>3, CertifiesKeeps
<1>4. ASSUME NEW t \in Posts, Refuses(t) \/ Fails(t) PROVE LabelKeeps'
  BY <1>4, StopsKeeps
<1>5. ASSUME NEW t \in Posts, Opens(t) PROVE LabelKeeps'
  BY <1>5, OpensKeeps
<1>6. ASSUME NEW t \in Posts, Writes(t) PROVE LabelKeeps'
  BY <1>6, WritesKeeps
<1>7. ASSUME NEW t \in Posts, Replaces(t) PROVE LabelKeeps'
  BY <1>7, ReplacesKeeps
<1>8. CASE Crash
  BY <1>8, CrashKeeps
<1>9. CASE UNCHANGED labelVars
  BY <1>9 DEF labelVars, LabelKeeps, StoreTypes, CompleteOnly, Complete, OneAtATime, Holds
<1> QED
  BY <1>1, <1>2, <1>3, <1>4, <1>5, <1>6, <1>7, <1>8, <1>9 DEF Next

LEMMA KeepsLabels == LabelKeeps => LabelInv
<1> SUFFICES ASSUME LabelKeeps PROVE LabelInv
  OBVIOUS
<1>1. TypeOK
  BY DEF LabelKeeps, StoreTypes, TypeOK, Texts, Threads, Ats
<1>2. CertifiedIsComplete
  BY DEF LabelKeeps, StoreTypes, CompleteOnly, Complete, CertifiedIsComplete
<1>3. ASSUME ~overlap
      PROVE  LabelsAreWhole /\ SavedIsKept /\ CertifiedStays
  <2>1. OneAtATime
    BY <1>3 DEF LabelKeeps
  <2>2. content[labels].note \in [Photos -> 0 .. MaxSaves] /\ saved \in [Photos -> 0 .. MaxSaves]
    BY DocumentsAre DEF LabelKeeps, StoreTypes
  <2> QED
    BY <2>1, <2>2 DEF OneAtATime, LabelsAreWhole, SavedIsKept, CertifiedStays
<1> QED
  BY <1>1, <1>2, <1>3 DEF LabelInv

(* A certified document is complete whatever the browsers do (labels.py:248-254);   *)
(* and when each waits for the answer to the last POST, the label file can be read    *)
(* through any number of crashes (labels.py:280-285), has every save that was         *)
(* answered, and once certified stays what it was (annotation.py:70, :78).          *)
THEOREM LabelsHold == Spec => []LabelInv
<1>1. Spec => []LabelKeeps
  BY InitKeeps, StoreKeeps, PTL DEF Spec
<1> QED
  BY <1>1, KeepsLabels, PTL

=============================================================================
