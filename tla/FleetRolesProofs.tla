--------------------------- MODULE FleetRolesProofs ---------------------------
(***************************************************************************)
(* Proofs about the manager and its explorers, for a fleet of any size: the  *)
(* roles keep their types, a coordinate is written down at most once for     *)
(* each thread that may send it, the last delivery leaves nothing behind,    *)
(* and the manager ends only when every drone it knows has finished.         *)
(***************************************************************************)
EXTENDS FleetRoles, SequenceTheorems, FiniteSetTheorems, TLAPS

-----------------------------------------------------------------------------
(* The inductive invariant.                                                 *)

(* What one explorer keeps: what it has located fits, the buffer starts after *)
(* a stretch of it, and a walk stays inside the list it took.                *)
DroneTypes(d) ==
  /\ pc[d].finder \in FinderAt /\ pc[d].main \in MainAt
  /\ boxes[d] + found[d] + (IF pc[d].finder = "locate" THEN 1 ELSE 0) <= MaxFound[d]
  /\ cut[d] <= found[d] /\ swept[d] <= found[d]
  /\ beats[d] <= MaxBeats[d]
  /\ \A t \in Threads : next[d][t] \in 1 .. found[d] + 1 /\ end[d][t] \in 0 .. found[d] + 1

(* The variables of the explorers as functions.                              *)
ExplorerFunctions ==
  /\ server \in [Drones -> {"register", "serve", "ended"}]
  /\ stopping \in [Drones -> BOOLEAN] /\ flying \in [Drones -> BOOLEAN]
  /\ sentinel \in [Drones -> BOOLEAN] /\ lost \in [Drones -> BOOLEAN]
  /\ pc \in [Drones -> [Threads -> FinderAt \cup MainAt]]
  /\ boxes \in [Drones -> Nat] /\ found \in [Drones -> Nat]
  /\ cut \in [Drones -> Nat] /\ swept \in [Drones -> Nat] /\ beats \in [Drones -> Nat]
  /\ next \in [Drones -> [Threads -> Nat]] /\ end \in [Drones -> [Threads -> Nat]]
  /\ sent \subseteq Coords

(* Coordinates 1 .. n of a drone have been put on a connection.              *)
SentTo(d, n) == \A k \in 1 .. n : <<d, k>> \in sent

(* Until the main thread throws the buffer away, what lies before it has been *)
(* sent, and so has what a walk has passed; the list the main thread walks    *)
(* goes on at least to what had been found when it took it.                  *)
Delivering == {"join", "connect", "send", "reset"}
Delivers(d) ==
  /\ pc[d].main \in Delivering =>
       /\ SentTo(d, cut[d])
       /\ pc[d].finder = "send" => end[d].finder = 0 /\ SentTo(d, next[d].finder - 1)
       /\ pc[d].finder = "reset" => SentTo(d, found[d])
  /\ pc[d].main = "send" =>
       SentTo(d, next[d].main - 1) /\ (end[d].main = 0 \/ end[d].main > swept[d])
  /\ pc[d].main \in {"reset", "finish", "ended"} => SentTo(d, swept[d])

ExplorerInv == ExplorerFunctions /\ \A d \in Drones : DroneTypes(d) /\ Delivers(d)

(* The server that reads has a connection to read, and passes on an order     *)
(* when it rings.                                                           *)
ManagerInv ==
  /\ tcp \in {"accept", "read", "ring", "ended", "died"}
  /\ udp \in {"receive", "ended", "died"}
  /\ late \in BOOLEAN /\ self_finished \in BOOLEAN /\ result \in BOOLEAN
  /\ exp_drones \in [Drones -> Entries]
  /\ ringing \subseteq Drones /\ ring_size \in 0 .. Cardinality(Drones)
  /\ kind \in Orders \cup {"none"}
  /\ orders_left \in 0 .. MaxOrders
  /\ tcp \in {"read", "ring"} => conns # <<>>
  /\ tcp = "ring" => kind \in Orders
  /\ result => tcp \in {"ended", "died"}

(* A connection is held by the one thread that sends on it.                   *)
HeldInv ==
  /\ \A i, j \in DOMAIN conns :
       conns[i].holder = conns[j].holder /\ conns[i].holder # Closed => i = j
  /\ \A i \in DOMAIN conns, d \in Drones, t \in Threads :
       conns[i].holder = <<d, t>> => pc[d][t] = "send"

(* Where a coordinate stands on the connections, and whether a thread may     *)
(* still send it.  Neither thread takes back what it has passed: so the times *)
(* it was written down, the lines that hold it and the threads that may yet   *)
(* send it never come to more than the two threads there are.                *)
Places(q, c) ==
  UNION {{i} \X {j \in DOMAIN q[i].lines : q[i].lines[j] = Coordinates(c)} : i \in DOMAIN q}

FinderMaySend(d, k) ==
  \/ pc[d].finder \in {"loop", "test", "wait", "locate", "connect"} /\ k > cut[d]
  \/ pc[d].finder = "send" /\ k >= next[d].finder
  \/ pc[d].finder = "reset" /\ k > found[d]
MainMaySend(d, k) ==
  \/ pc[d].main \in {"join", "connect"}
  \/ pc[d].main = "send" /\ k >= next[d].main
One(b) == IF b THEN 1 ELSE 0
Chances(c) == One(FinderMaySend(c[1], c[2])) + One(MainMaySend(c[1], c[2]))

OnceInv ==
  /\ received \in [Coords -> Nat]
  /\ \A c \in Coords :
       /\ IsFiniteSet(Places(conns, c))
       /\ received[c] + Cardinality(Places(conns, c)) + Chances(c) <= 2

(* A drone says `finished` once, when it has ended, and is counted only from   *)
(* the table: those counted are known, have ended and have no `finished` on    *)
(* its way.                                                                 *)
Counted == {d \in Known : pc[d].main = "ended" /\ Finished(d) \notin datagrams}
CountInv ==
  /\ finished_drones \in Nat /\ finished_drones <= Cardinality(Counted)
  /\ \A d \in Drones : Finished(d) \in datagrams => pc[d].main = "ended"

Inv == LinksTypeOK /\ ManagerInv /\ ExplorerInv /\ HeldInv /\ OnceInv /\ CountInv

-----------------------------------------------------------------------------
(* The connections: what their operators do to the lines and the holders.     *)

(* A connection and its parts.                                              *)
LEMMA ConnectionIs ==
  ASSUME NEW lines \in Seq(Lines), NEW holder \in (Drones \X Threads) \cup {Closed}
  PROVE  /\ Connection(lines, holder) \in Connections
         /\ Connection(lines, holder).lines = lines /\ Connection(lines, holder).holder = holder
BY DEF Connection, Connections

(* The places of a coordinate, one by one.                                   *)
LEMMA PlacesAre ==
  ASSUME NEW q, NEW c, NEW p
  PROVE  p \in Places(q, c) <=>
           \E i \in DOMAIN q : \E j \in DOMAIN q[i].lines :
             p = <<i, j>> /\ q[i].lines[j] = Coordinates(c)
BY DEF Places

(* A new connection that carries no coordinate adds no place.                 *)
LEMMA AppendKeeps ==
  ASSUME NEW q \in Seq(Connections), NEW e \in Connections, NEW c,
         \A j \in DOMAIN e.lines : e.lines[j] # Coordinates(c)
  PROVE  /\ Append(q, e) \in Seq(Connections) /\ Append(q, e) # <<>>
         /\ Places(Append(q, e), c) = Places(q, c)
<1> DEFINE r == Append(q, e)
<1>1. /\ r \in Seq(Connections) /\ Len(r) = Len(q) + 1
      /\ \A i \in 1 .. Len(q) : r[i] = q[i]
      /\ r[Len(q) + 1] = e
  OBVIOUS
<1>2. DOMAIN q = 1 .. Len(q) /\ DOMAIN r = 1 .. Len(q) + 1 /\ Len(q) \in Nat
  BY <1>1
<1> HIDE DEF r
<1>3. ASSUME NEW p
      PROVE  p \in Places(r, c) <=> p \in Places(q, c)
  <2>1. CASE p \in Places(r, c)
    <3>1. PICK i \in DOMAIN r : \E j \in DOMAIN r[i].lines :
            p = <<i, j>> /\ r[i].lines[j] = Coordinates(c)
      BY <2>1, PlacesAre
    <3>2. i # Len(q) + 1
      BY <3>1, <1>1
    <3>3. i \in DOMAIN q /\ r[i] = q[i]
      BY <3>2, <1>1, <1>2
    <3> QED
      BY <3>1, <3>3, <2>1, PlacesAre
  <2>2. CASE p \in Places(q, c)
    <3>1. PICK i \in DOMAIN q : \E j \in DOMAIN q[i].lines :
            p = <<i, j>> /\ q[i].lines[j] = Coordinates(c)
      BY <2>2, PlacesAre
    <3>2. i \in DOMAIN r /\ r[i] = q[i]
      BY <1>1, <1>2
    <3> QED
      BY <3>1, <3>2, <2>2, PlacesAre
  <2> QED
    BY <2>1, <2>2
<1>4. r # <<>>
  BY <1>1, <1>2
<1> QED
  BY <1>1, <1>3, <1>4 DEF r

(* Where every connection keeps its lines, the places are the same.           *)
LEMMA SameLinesKeep ==
  ASSUME NEW q, NEW r, NEW c, DOMAIN r = DOMAIN q,
         \A i \in DOMAIN q : r[i].lines = q[i].lines
  PROVE  Places(r, c) = Places(q, c)
BY DEF Places

(* Fewer places, one by one, are not more in number.                         *)
LEMMA NoMorePlaces ==
  ASSUME NEW S, NEW T, IsFiniteSet(S), NEW f \in Injection(T, S)
  PROVE  IsFiniteSet(T) /\ Cardinality(T) <= Cardinality(S)
         /\ Cardinality(T) \in Nat /\ Cardinality(S) \in Nat
BY FS_Injection, FS_CardinalityType

(* Closing a connection keeps the lines and frees the holder.                 *)
LEMMA CloseIs ==
  ASSUME conns \in Seq(Connections), NEW h
  PROVE  /\ Close(h) \in Seq(Connections) /\ DOMAIN Close(h) = DOMAIN conns
         /\ \A i \in DOMAIN conns :
              /\ Close(h)[i].lines = conns[i].lines
              /\ Close(h)[i].holder = IF conns[i].holder = h THEN Closed ELSE conns[i].holder
<1>1. \A i \in DOMAIN conns : conns[i] \in Connections
  OBVIOUS
<1>2. \A e \in Connections :
        /\ [e EXCEPT !.holder = Closed] \in Connections
        /\ [e EXCEPT !.holder = Closed].lines = e.lines
        /\ [e EXCEPT !.holder = Closed].holder = Closed
  BY DEF Connections
<1>3. /\ DOMAIN Close(h) = DOMAIN conns
      /\ \A i \in DOMAIN conns : Close(h)[i] \in Connections
      /\ \A i \in DOMAIN conns : Close(h)[i].lines = conns[i].lines
      /\ \A i \in DOMAIN conns :
           Close(h)[i].holder = IF conns[i].holder = h THEN Closed ELSE conns[i].holder
  BY <1>1, <1>2 DEF Close
<1>4. Close(h) \in [1 .. Len(conns) -> Connections]
  BY <1>3 DEF Close
<1> QED
  BY <1>3, <1>4

(* Writing a line adds it to the connection its thread holds.                 *)
LEMMA WriteIs ==
  ASSUME conns \in Seq(Connections), NEW h, NEW line \in Lines
  PROVE  /\ Write(h, line) \in Seq(Connections) /\ DOMAIN Write(h, line) = DOMAIN conns
         /\ \A i \in DOMAIN conns :
              /\ Write(h, line)[i].holder = conns[i].holder
              /\ Write(h, line)[i].lines =
                   IF conns[i].holder = h THEN Append(conns[i].lines, line) ELSE conns[i].lines
<1>1. \A i \in DOMAIN conns : conns[i] \in Connections
  OBVIOUS
<1>2. ASSUME NEW e \in Connections
      PROVE  /\ [e EXCEPT !.lines = Append(@, line)] \in Connections
             /\ [e EXCEPT !.lines = Append(@, line)].holder = e.holder
             /\ [e EXCEPT !.lines = Append(@, line)].lines = Append(e.lines, line)
  <2>1. Append(e.lines, line) \in Seq(Lines)
    BY DEF Connections
  <2> QED
    BY <2>1, Zenon DEF Connections
<1>3. /\ DOMAIN Write(h, line) = DOMAIN conns
      /\ \A i \in DOMAIN conns : Write(h, line)[i] \in Connections
      /\ \A i \in DOMAIN conns : Write(h, line)[i].holder = conns[i].holder
      /\ \A i \in DOMAIN conns : Write(h, line)[i].lines =
           IF conns[i].holder = h THEN Append(conns[i].lines, line) ELSE conns[i].lines
  BY <1>1, <1>2 DEF Write
<1>4. Write(h, line) \in [1 .. Len(conns) -> Connections]
  BY <1>3 DEF Write
<1> QED
  BY <1>3, <1>4

(* A line that is not the coordinate adds no place; one that is adds one,      *)
(* since a thread holds one connection.                                      *)
LEMMA WritePlaces ==
  ASSUME conns \in Seq(Connections), NEW h, NEW line \in Lines, NEW c,
         \A i, j \in DOMAIN conns : conns[i].holder = h /\ conns[j].holder = h => i = j,
         IsFiniteSet(Places(conns, c))
  PROVE  /\ IsFiniteSet(Places(Write(h, line), c))
         /\ Cardinality(Places(Write(h, line), c)) \in Nat
         /\ Cardinality(Places(Write(h, line), c)) <= Cardinality(Places(conns, c)) + 1
         /\ line # Coordinates(c) => Places(Write(h, line), c) = Places(conns, c)
<1>1. PICK r : r = Write(h, line)
  OBVIOUS
<1>2. /\ DOMAIN r = DOMAIN conns
      /\ \A i \in DOMAIN conns :
           r[i].lines = IF conns[i].holder = h THEN Append(conns[i].lines, line)
                        ELSE conns[i].lines
  BY <1>1, WriteIs
<1>3. \A i \in DOMAIN conns : conns[i].lines \in Seq(Lines)
  <2>1. \A i \in DOMAIN conns : conns[i] \in Connections
    OBVIOUS
  <2> QED
    BY <2>1 DEF Connections
<1>4. ASSUME NEW i \in DOMAIN r, NEW j \in DOMAIN r[i].lines, r[i].lines[j] = Coordinates(c)
      PROVE  \/ <<i, j>> \in Places(conns, c)
             \/ conns[i].holder = h /\ j = Len(conns[i].lines) + 1 /\ line = Coordinates(c)
  <2>1. CASE conns[i].holder # h
    <3>1. r[i].lines = conns[i].lines
      BY <1>2, <2>1
    <3> QED
      BY <1>2, <1>4, <3>1, PlacesAre
  <2>2. CASE conns[i].holder = h
    <3>1. r[i].lines = Append(conns[i].lines, line) /\ conns[i].lines \in Seq(Lines)
      BY <1>2, <1>3, <2>2
    <3>2. CASE j = Len(conns[i].lines) + 1
      BY <1>4, <2>2, <3>1, <3>2
    <3>3. CASE j # Len(conns[i].lines) + 1
      <4>1. j \in DOMAIN conns[i].lines /\ conns[i].lines[j] = Coordinates(c)
        BY <1>4, <3>1, <3>3
      <4> QED
        BY <1>2, <4>1, PlacesAre
    <3> QED
      BY <3>2, <3>3
  <2> QED
    BY <2>1, <2>2
<1>5. ASSUME line # Coordinates(c)
      PROVE  Places(r, c) = Places(conns, c)
  <2>1. ASSUME NEW p \in Places(r, c)
        PROVE  p \in Places(conns, c)
    <3>1. PICK i \in DOMAIN r : \E j \in DOMAIN r[i].lines :
            p = <<i, j>> /\ r[i].lines[j] = Coordinates(c)
      BY <2>1, PlacesAre
    <3> QED
      BY <3>1, <1>4, <1>5
  <2>2. ASSUME NEW p \in Places(conns, c)
        PROVE  p \in Places(r, c)
    <3>1. PICK i \in DOMAIN conns : \E j \in DOMAIN conns[i].lines :
            p = <<i, j>> /\ conns[i].lines[j] = Coordinates(c)
      BY <2>2, PlacesAre
    <3>2. PICK j \in DOMAIN conns[i].lines : p = <<i, j>> /\ conns[i].lines[j] = Coordinates(c)
      BY <3>1
    <3>3. j \in DOMAIN r[i].lines /\ r[i].lines[j] = Coordinates(c)
      <4>1. conns[i].lines \in Seq(Lines)
            /\ (r[i].lines = conns[i].lines \/ r[i].lines = Append(conns[i].lines, line))
        BY <1>2, <1>3
      <4>2. \A s \in Seq(Lines) : \A n \in DOMAIN s :
              n \in DOMAIN Append(s, line) /\ Append(s, line)[n] = s[n]
        OBVIOUS
      <4> QED
        BY <3>2, <4>1, <4>2
    <3> QED
      BY <1>2, <3>2, <3>3, PlacesAre
  <2> QED
    BY <2>1, <2>2
<1>6. /\ IsFiniteSet(Places(r, c)) /\ Cardinality(Places(r, c)) \in Nat
      /\ Cardinality(Places(r, c)) <= Cardinality(Places(conns, c)) + 1
  <2>1. PICK at : \A i \in DOMAIN conns : conns[i].holder = h => at = <<i, Len(conns[i].lines) + 1>>
    <3>1. CASE \E i \in DOMAIN conns : conns[i].holder = h
      <4>1. PICK i \in DOMAIN conns : conns[i].holder = h
        BY <3>1
      <4> QED
        BY <4>1
    <3>2. CASE ~\E i \in DOMAIN conns : conns[i].holder = h
      BY <3>2
    <3> QED
      BY <3>1, <3>2
  <2>2. Places(r, c) \subseteq Places(conns, c) \cup {at}
    <3>1. ASSUME NEW p \in Places(r, c)
          PROVE  p \in Places(conns, c) \cup {at}
      <4>1. PICK i \in DOMAIN r : \E j \in DOMAIN r[i].lines :
              p = <<i, j>> /\ r[i].lines[j] = Coordinates(c)
        BY <3>1, PlacesAre
      <4> QED
        BY <4>1, <1>2, <1>4, <2>1
    <3> QED
      BY <3>1
  <2>3. /\ IsFiniteSet(Places(conns, c) \cup {at})
        /\ Cardinality(Places(conns, c) \cup {at}) <= Cardinality(Places(conns, c)) + 1
        /\ Cardinality(Places(conns, c) \cup {at}) \in Nat
        /\ Cardinality(Places(conns, c)) \in Nat
    <3>1. /\ IsFiniteSet(Places(conns, c) \cup {at}) /\ Cardinality(Places(conns, c)) \in Nat
          /\ Cardinality(Places(conns, c) \cup {at}) =
               IF at \in Places(conns, c) THEN Cardinality(Places(conns, c))
               ELSE Cardinality(Places(conns, c)) + 1
      BY FS_AddElement, FS_CardinalityType
    <3> QED
      BY <3>1
  <2>4. IsFiniteSet(Places(r, c)) /\ Cardinality(Places(r, c)) \in Nat
        /\ Cardinality(Places(r, c)) <= Cardinality(Places(conns, c) \cup {at})
    BY <2>2, <2>3, FS_Subset, FS_CardinalityType
  <2> QED
    BY <2>3, <2>4
<1> QED
  BY <1>1, <1>5, <1>6

(* The connection that was read to its end is dropped, and with it no place.  *)
LEMMA TailPlaces ==
  ASSUME conns \in Seq(Connections), conns # <<>>, NEW c, conns[1].lines = <<>>,
         IsFiniteSet(Places(conns, c))
  PROVE  /\ Tail(conns) \in Seq(Connections)
         /\ IsFiniteSet(Places(Tail(conns), c))
         /\ Cardinality(Places(Tail(conns), c)) \in Nat
         /\ Cardinality(Places(Tail(conns), c)) <= Cardinality(Places(conns, c))
<1>1. PICK r : r = Tail(conns)
  OBVIOUS
<1>2. /\ r \in Seq(Connections)
      /\ \A i \in DOMAIN r : i \in Nat /\ i + 1 \in DOMAIN conns /\ r[i] = conns[i + 1]
  BY <1>1
<1> DEFINE f == [p \in Places(r, c) |-> <<p[1] + 1, p[2]>>]
<1>3. f \in Injection(Places(r, c), Places(conns, c))
  <2>1. ASSUME NEW p \in Places(r, c)
        PROVE  /\ p = <<p[1], p[2]>> /\ p[1] \in Nat
               /\ <<p[1] + 1, p[2]>> \in Places(conns, c)
    <3>1. PICK i \in DOMAIN r : \E j \in DOMAIN r[i].lines :
            p = <<i, j>> /\ r[i].lines[j] = Coordinates(c)
      BY PlacesAre
    <3>2. PICK j \in DOMAIN r[i].lines : p = <<i, j>> /\ r[i].lines[j] = Coordinates(c)
      BY <3>1
    <3>3. i \in Nat /\ i + 1 \in DOMAIN conns /\ r[i] = conns[i + 1]
      BY <1>2
    <3>4. <<i + 1, j>> \in Places(conns, c)
      BY <3>2, <3>3, PlacesAre
    <3> QED
      BY <3>2, <3>3, <3>4
  <2>2. f \in [Places(r, c) -> Places(conns, c)]
    BY <2>1
  <2>3. \A p, s \in Places(r, c) : f[p] = f[s] => p = s
    BY <2>1
  <2> QED
    BY <2>2, <2>3 DEF Injection, IsInjective
<1>4. IsFiniteSet(Places(r, c)) /\ Cardinality(Places(r, c)) <= Cardinality(Places(conns, c))
      /\ Cardinality(Places(r, c)) \in Nat
  BY <1>3, NoMorePlaces
<1> QED
  BY <1>1, <1>2, <1>4

(* Reading a line takes its place away.                                      *)
LEMMA ReadPlaces ==
  ASSUME conns \in Seq(Connections), conns # <<>>, conns[1].lines # <<>>,
         conns' = [conns EXCEPT ![1].lines = Tail(@)]
  PROVE  /\ conns' \in Seq(Connections) /\ DOMAIN conns' = DOMAIN conns /\ conns' # <<>>
         /\ \A i \in DOMAIN conns : conns'[i].holder = conns[i].holder
         /\ Head(conns[1].lines) \in Lines
         /\ \A c : IsFiniteSet(Places(conns, c)) =>
              /\ IsFiniteSet(Places(conns', c)) /\ Cardinality(Places(conns', c)) \in Nat
              /\ Cardinality(Places(conns, c)) \in Nat
              /\ Cardinality(Places(conns', c))
                   + One(Head(conns[1].lines) = Coordinates(c)) <= Cardinality(Places(conns, c))
<1>1. /\ 1 \in DOMAIN conns /\ conns[1] \in Connections /\ conns[1].lines \in Seq(Lines)
      /\ \A i \in DOMAIN conns : i \in Nat
  <2>1. 1 \in DOMAIN conns /\ conns[1] \in Connections /\ \A i \in DOMAIN conns : i \in Nat
    OBVIOUS
  <2> QED
    BY <2>1 DEF Connections
<1>2. Tail(conns[1].lines) \in Seq(Lines) /\ Head(conns[1].lines) \in Lines
  BY <1>1
<1>3. PICK e : e = [conns[1] EXCEPT !.lines = Tail(@)]
  OBVIOUS
<1>4. e \in Connections /\ e.lines = Tail(conns[1].lines) /\ e.holder = conns[1].holder
  BY <1>1, <1>2, <1>3, Zenon DEF Connections
<1>5. PICK r : r = conns'
  OBVIOUS
<1>6. /\ r \in Seq(Connections) /\ DOMAIN r = DOMAIN conns
      /\ \A i \in DOMAIN conns : r[i] = IF i = 1 THEN e ELSE conns[i]
  <2>1. r = [conns EXCEPT ![1] = e]
    BY <1>3, <1>5, Zenon
  <2>2. conns \in [1 .. Len(conns) -> Connections] /\ Len(conns) \in Nat
    OBVIOUS
  <2>3. r \in [1 .. Len(conns) -> Connections]
    BY <1>4, <2>1, <2>2
  <2>4. r \in Seq(Connections)
    BY <2>2, <2>3
  <2> QED
    BY <1>1, <2>1, <2>2, <2>3, <2>4
<1>7. r # <<>> /\ \A i \in DOMAIN conns : r[i].holder = conns[i].holder
  BY <1>1, <1>4, <1>6
<1>8. ASSUME NEW c, IsFiniteSet(Places(conns, c))
      PROVE  /\ IsFiniteSet(Places(r, c)) /\ Cardinality(Places(r, c)) \in Nat
             /\ Cardinality(Places(conns, c)) \in Nat
             /\ Cardinality(Places(r, c))
                  + One(Head(conns[1].lines) = Coordinates(c)) <= Cardinality(Places(conns, c))
  <2> DEFINE S == Places(conns, c) \ {<<1, 1>>}
  <2> DEFINE f == [p \in Places(r, c) |-> IF p[1] = 1 THEN <<1, p[2] + 1>> ELSE p]
  <2>1. ASSUME NEW p \in Places(r, c)
        PROVE  /\ p = <<p[1], p[2]>> /\ p[1] \in Nat /\ p[2] \in Nat
               /\ p[1] = 1 => <<1, p[2] + 1>> \in S
               /\ p[1] # 1 => p \in S
    <3>1. PICK i \in DOMAIN r : \E j \in DOMAIN r[i].lines :
            p = <<i, j>> /\ r[i].lines[j] = Coordinates(c)
      BY PlacesAre
    <3>2. PICK j \in DOMAIN r[i].lines : p = <<i, j>> /\ r[i].lines[j] = Coordinates(c)
      BY <3>1
    <3>3. i \in DOMAIN conns /\ i \in Nat
      BY <1>1, <1>6
    <3>4. CASE i = 1
      <4>1. j \in DOMAIN Tail(conns[1].lines) /\ Tail(conns[1].lines)[j] = Coordinates(c)
        BY <1>4, <1>6, <3>2, <3>3, <3>4
      <4>2. j \in Nat /\ j > 0 /\ j + 1 \in DOMAIN conns[1].lines
            /\ conns[1].lines[j + 1] = Coordinates(c)
        BY <1>1, <4>1
      <4>3. <<1, j + 1>> \in Places(conns, c)
        BY <1>1, <4>2, PlacesAre
      <4> QED
        BY <3>2, <3>4, <4>2, <4>3
    <3>5. CASE i # 1
      <4>1. r[i] = conns[i] /\ conns[i].lines \in Seq(Lines)
        <5>1. r[i] = conns[i] /\ conns[i] \in Connections
          BY <1>6, <3>3, <3>5
        <5> QED
          BY <5>1 DEF Connections
      <4>2. p \in Places(conns, c)
        BY <3>2, <3>3, <4>1, PlacesAre
      <4>3. j \in Nat
        BY <3>2, <4>1
      <4> QED
        BY <3>2, <3>3, <3>5, <4>2, <4>3
    <3> QED
      BY <3>4, <3>5
  <2>2. f \in Injection(Places(r, c), S)
    <3> HIDE DEF S
    <3>1. f \in [Places(r, c) -> S]
      BY <2>1
    <3>2. ASSUME NEW p \in Places(r, c), NEW s \in Places(r, c), f[p] = f[s]
          PROVE  p = s
      <4>1. /\ p = <<p[1], p[2]>> /\ p[2] \in Nat /\ s = <<s[1], s[2]>> /\ s[2] \in Nat
            /\ f[p] = (IF p[1] = 1 THEN <<1, p[2] + 1>> ELSE p)
            /\ f[s] = (IF s[1] = 1 THEN <<1, s[2] + 1>> ELSE s)
        BY <2>1
      <4> HIDE DEF f
      <4>2. f[p][1] = p[1] /\ f[s][1] = s[1]
        BY <4>1
      <4>3. f[p][2] = (IF p[1] = 1 THEN p[2] + 1 ELSE p[2])
            /\ f[s][2] = (IF s[1] = 1 THEN s[2] + 1 ELSE s[2])
        BY <4>1
      <4>4. p[1] = s[1] /\ p[2] = s[2]
        BY <3>2, <4>1, <4>2, <4>3
      <4> QED
        BY <4>1, <4>4
    <3> QED
      BY <3>1, <3>2 DEF Injection, IsInjective
  <2>3. /\ IsFiniteSet(S) /\ Cardinality(Places(conns, c)) \in Nat
        /\ Cardinality(S) = IF <<1, 1>> \in Places(conns, c) THEN Cardinality(Places(conns, c)) - 1
                            ELSE Cardinality(Places(conns, c))
    BY <1>8, FS_RemoveElement, FS_CardinalityType
  <2>4. Head(conns[1].lines) = Coordinates(c) => <<1, 1>> \in Places(conns, c)
    <3>1. 1 \in DOMAIN conns[1].lines /\ conns[1].lines[1] = Head(conns[1].lines)
      BY <1>1
    <3> QED
      BY <1>1, <3>1, PlacesAre
  <2>5. IsFiniteSet(Places(r, c)) /\ Cardinality(Places(r, c)) <= Cardinality(S)
        /\ Cardinality(Places(r, c)) \in Nat
    BY <2>2, <2>3, NoMorePlaces
  <2> HIDE DEF S
  <2> QED
    BY <2>3, <2>4, <2>5 DEF One
<1> QED
  BY <1>2, <1>5, <1>6, <1>7, <1>8

-----------------------------------------------------------------------------
(* What a step leaves alone keeps its part of the invariant.                  *)

(* Constants.                                                               *)
LEMMA Bounds ==
  /\ IsFiniteSet(Drones) /\ Cardinality(Drones) \in Nat /\ MaxOrders \in Nat
  /\ \A d \in Drones : MaxFound[d] \in Nat /\ MaxBeats[d] \in Nat
BY LinkConstants, FS_CardinalityType

(* The kinds of line, by their type.                                         *)
LEMMA LineIs ==
  ASSUME NEW line \in Lines
  PROVE  /\ line.type = "coordinates" => line.coord \in Coords /\ line = Coordinates(line.coord)
         /\ line.type = "registration" => line.drone \in Drones /\ line = Registration(line.drone)
         /\ line.type \in Orders => line = Order(line.type)
BY DEF Lines, Orders, Coordinates, Registration, Order

(* One coordinate, one line.                                                 *)
LEMMA CoordinatesDiffer ==
  /\ \A b, c : Coordinates(b) = Coordinates(c) => b = c
  /\ \A c, d : Coordinates(c) # Registration(d)
  /\ \A c, k : k \in Orders => Coordinates(c) # Order(k)
<1>1. \A c : Coordinates(c).type = "coordinates" /\ Coordinates(c).coord = c
  BY DEF Coordinates
<1>2. \A d : Registration(d).type = "registration"
  BY DEF Registration
<1>3. \A k : Order(k).type = k
  BY DEF Order
<1> QED
  BY <1>1, <1>2, <1>3 DEF Orders

(* A coordinate is a drone's, by its number.                                  *)
LEMMA CoordIs ==
  /\ \A c \in Coords : c = <<c[1], c[2]>> /\ c[1] \in Drones /\ c[2] \in 1 .. MaxFound[c[1]]
  /\ \A d \in Drones : \A k \in 1 .. MaxFound[d] : <<d, k>> \in Coords
BY DEF Coords

(* A holder is not nobody.                                                   *)
LEMMA HolderIs ==
  ASSUME NEW d, NEW t
  PROVE  <<d, t>> # Closed
<1>1. 1 \in DOMAIN <<d, t>> /\ DOMAIN Closed = {}
  BY DEF Closed
<1> QED
  BY <1>1

(* Chances are numbers.                                                      *)
LEMMA ChancesAre ==
  ASSUME NEW c
  PROVE  Chances(c) \in Nat /\ Chances(c) <= 2
BY DEF Chances, One

(* The explorers' variables alone decide what the explorers keep.             *)
LEMMA ExplorersRest ==
  ASSUME ExplorerInv, UNCHANGED explorer
  PROVE  ExplorerInv'
BY DEF ExplorerInv, explorer, ExplorerFunctions, DroneTypes, Delivers, SentTo

(* No line moves.                                                           *)
LEMMA LinesRest ==
  ASSUME HeldInv, OnceInv, UNCHANGED <<conns, received, explorer>>
  PROVE  HeldInv' /\ OnceInv'
<1>1. UNCHANGED <<conns, pc, received, next, cut, found>>
  BY DEF explorer
<1>2. HeldInv'
  BY <1>1 DEF HeldInv
<1>3. \A c : Places(conns', c) = Places(conns, c) /\ Chances(c)' = Chances(c)
  BY <1>1 DEF Places, Chances, FinderMaySend, MainMaySend
<1>4. OnceInv'
  BY <1>1, <1>3 DEF OnceInv
<1> QED
  BY <1>2, <1>4

(* Lines go, or none comes; nobody new holds a connection.                    *)
LEMMA LinesGo ==
  ASSUME OnceInv, UNCHANGED <<received, explorer>>,
         \A c \in Coords : IsFiniteSet(Places(conns, c)) =>
           /\ IsFiniteSet(Places(conns', c)) /\ Cardinality(Places(conns', c)) \in Nat
           /\ Cardinality(Places(conns', c)) <= Cardinality(Places(conns, c))
  PROVE  OnceInv'
<1>1. UNCHANGED <<received, pc, next, cut, found>>
  BY DEF explorer
<1>2. \A c : Chances(c)' = Chances(c)
  BY <1>1 DEF Chances, FinderMaySend, MainMaySend
<1>3. ASSUME NEW c \in Coords
      PROVE  /\ IsFiniteSet(Places(conns', c))
             /\ received[c] + Cardinality(Places(conns', c)) + Chances(c) <= 2
  <2>1. IsFiniteSet(Places(conns, c)) /\ received[c] \in Nat /\ Chances(c) \in Nat
        /\ received[c] + Cardinality(Places(conns, c)) + Chances(c) <= 2
    BY ChancesAre DEF OnceInv
  <2>2. Cardinality(Places(conns, c)) \in Nat
    BY <2>1, FS_CardinalityType
  <2> QED
    BY <2>1, <2>2
<1> QED
  BY <1>1, <1>2, <1>3 DEF OnceInv

(* Every connection is reset.                                                *)
LEMMA AllReset ==
  ASSUME HeldInv, OnceInv, conns' = <<>>, UNCHANGED <<received, explorer>>
  PROVE  HeldInv' /\ OnceInv' /\ conns' \in Seq(Connections)
<1>1. HeldInv' /\ conns' \in Seq(Connections)
  BY DEF HeldInv
<1>2. \A c : Places(<<>>, c) = {}
  BY DEF Places
<1>3. ASSUME NEW c \in Coords, IsFiniteSet(Places(conns, c))
      PROVE  /\ IsFiniteSet(Places(conns', c)) /\ Cardinality(Places(conns', c)) \in Nat
             /\ Cardinality(Places(conns', c)) <= Cardinality(Places(conns, c))
  <2>1. Cardinality(Places(conns, c)) \in Nat
    BY <1>3, FS_CardinalityType
  <2>2. Places(conns', c) = {}
    BY <1>2
  <2> QED
    BY <2>1, <2>2, FS_EmptySet
<1>4. OnceInv'
  BY <1>3, LinesGo
<1> QED
  BY <1>1, <1>4

(* A line is read that is not written down.                                  *)
LEMMA LineGoes ==
  ASSUME LinksTypeOK, HeldInv, OnceInv, conns # <<>>, conns[1].lines # <<>>, LineRead,
         UNCHANGED <<received, explorer>>
  PROVE  HeldInv' /\ OnceInv' /\ conns' \in Seq(Connections) /\ conns' # <<>> /\ Line \in Lines
<1>1. conns \in Seq(Connections) /\ conns' = [conns EXCEPT ![1].lines = Tail(@)]
  BY DEF LinksTypeOK, LineRead
<1>2. /\ conns' \in Seq(Connections) /\ DOMAIN conns' = DOMAIN conns /\ conns' # <<>>
      /\ \A i \in DOMAIN conns : conns'[i].holder = conns[i].holder
      /\ Line \in Lines
  BY <1>1, ReadPlaces DEF Line
<1>3. pc' = pc
  BY DEF explorer
<1>4. HeldInv'
  BY <1>2, <1>3 DEF HeldInv
<1>5. ASSUME NEW c \in Coords, IsFiniteSet(Places(conns, c))
      PROVE  /\ IsFiniteSet(Places(conns', c)) /\ Cardinality(Places(conns', c)) \in Nat
             /\ Cardinality(Places(conns', c)) <= Cardinality(Places(conns, c))
  <2>1. /\ IsFiniteSet(Places(conns', c)) /\ Cardinality(Places(conns', c)) \in Nat
        /\ Cardinality(Places(conns, c)) \in Nat
        /\ Cardinality(Places(conns', c))
             + One(Head(conns[1].lines) = Coordinates(c)) <= Cardinality(Places(conns, c))
    BY <1>1, <1>5, ReadPlaces
  <2> QED
    BY <2>1 DEF One
<1>6. OnceInv'
  BY <1>5, LinesGo
<1> QED
  BY <1>2, <1>4, <1>6

(* Nobody is counted, and no `finished` is sent or lost.                       *)
LEMMA CountRests ==
  ASSUME CountInv, UNCHANGED <<finished_drones, exp_drones, datagrams, explorer>>
  PROVE  CountInv'
<1>1. UNCHANGED <<finished_drones, exp_drones, datagrams, pc>>
  BY DEF explorer
<1>2. Known' = Known
  BY <1>1 DEF Known
<1>3. Counted' = Counted
  BY <1>1, <1>2 DEF Counted
<1> QED
  BY <1>1, <1>3 DEF CountInv

(* The set of those counted grows, or stays.                                  *)
LEMMA CountGrows ==
  ASSUME CountInv, finished_drones' = finished_drones, Counted \subseteq Counted',
         \A d \in Drones : Finished(d) \in datagrams' => pc[d].main' = "ended"
  PROVE  CountInv'
<1>1. IsFiniteSet(Counted') /\ IsFiniteSet(Counted)
  <2>1. Counted \subseteq Drones /\ Counted' \subseteq Drones
    BY DEF Counted, Known
  <2> QED
    BY <2>1, Bounds, FS_Subset
<1>2. Cardinality(Counted) <= Cardinality(Counted')
      /\ Cardinality(Counted) \in Nat /\ Cardinality(Counted') \in Nat
  BY <1>1, FS_Subset, FS_CardinalityType
<1> QED
  BY <1>2 DEF CountInv

-----------------------------------------------------------------------------
(* The steps of the manager.                                                *)

(* The clock, the joined servers, and the turns of the loops that move no     *)
(* line.                                                                    *)
LEMMA QuietManager ==
  ASSUME Inv, TimeIsUp \/ TakesResult \/ Accepts \/ RingsOut \/ UdpEnds, UNCHANGED explorer
  PROVE  Inv'
<1>1. UNCHANGED <<links, received, exp_drones, finished_drones>>
  BY DEF TimeIsUp, TakesResult, Accepts, RingsOut, UdpEnds
<1>2. UNCHANGED <<conns, orders, datagrams, listening>>
  BY <1>1 DEF links
<1>3. LinksTypeOK' /\ ExplorerInv' /\ HeldInv' /\ OnceInv' /\ CountInv'
  BY <1>1, <1>2, LinesRest, CountRests, ExplorersRest DEF Inv, LinksTypeOK
<1>4. ManagerInv'
  <2>1. CASE TimeIsUp
    BY <1>2, <2>1 DEF Inv, ManagerInv, TimeIsUp
  <2>2. CASE TakesResult
    BY <1>2, <2>2 DEF Inv, ManagerInv, TakesResult
  <2>3. CASE Accepts
    BY <1>2, <2>3 DEF Inv, ManagerInv, Accepts
  <2>4. CASE RingsOut
    BY <1>2, <2>4, Bounds DEF Inv, ManagerInv, RingsOut
  <2>5. CASE UdpEnds
    BY <1>2, <2>5 DEF Inv, ManagerInv, UdpEnds
  <2> QED
    BY <2>1, <2>2, <2>3, <2>4, <2>5
<1> QED
  BY <1>3, <1>4 DEF Inv

(* The TCP server leaves its socket.                                         *)
LEMMA ServerStops ==
  ASSUME Inv, TcpEnds \/ RingsFail(lost), UNCHANGED explorer
  PROVE  Inv'
<1>1. /\ conns' = <<>> /\ listening' = FALSE
      /\ UNCHANGED <<orders, datagrams, received, exp_drones, finished_drones>>
  BY DEF TcpEnds, RingsFail, TcpStops
<1>2. HeldInv' /\ OnceInv' /\ conns' \in Seq(Connections)
  BY <1>1, AllReset DEF Inv
<1>3. LinksTypeOK' /\ ExplorerInv' /\ CountInv'
  BY <1>1, <1>2, CountRests, ExplorersRest DEF Inv, LinksTypeOK
<1>4. ManagerInv'
  <2>1. CASE TcpEnds
    BY <2>1 DEF Inv, ManagerInv, TcpEnds, TcpStops
  <2>2. CASE RingsFail(lost)
    BY <2>2, Bounds DEF Inv, ManagerInv, RingsFail, TcpStops
  <2> QED
    BY <2>1, <2>2
<1> QED
  BY <1>2, <1>3, <1>4 DEF Inv

(* A connection that was read to its end is left.                            *)
LEMMA ClientClosed ==
  ASSUME Inv, ClientCloses, UNCHANGED explorer
  PROVE  Inv'
<1>1. /\ conns' = Tail(conns) /\ conns[1].lines = <<>> /\ conns # <<>>
      /\ conns \in Seq(Connections)
      /\ UNCHANGED <<orders, datagrams, listening, received, exp_drones, finished_drones>>
  BY DEF ClientCloses, Inv, ManagerInv, LinksTypeOK
<1>2. ASSUME NEW c \in Coords, IsFiniteSet(Places(conns, c))
      PROVE  /\ IsFiniteSet(Places(conns', c)) /\ Cardinality(Places(conns', c)) \in Nat
             /\ Cardinality(Places(conns', c)) <= Cardinality(Places(conns, c))
  <2>1. PICK r : r = Tail(conns)
    OBVIOUS
  <2>2. /\ IsFiniteSet(Places(r, c)) /\ Cardinality(Places(r, c)) \in Nat
        /\ Cardinality(Places(r, c)) <= Cardinality(Places(conns, c))
    BY <1>1, <1>2, <2>1, TailPlaces
  <2> QED
    BY <1>1, <2>1, <2>2
<1>3. OnceInv'
  BY <1>1, <1>2, LinesGo DEF Inv
<1>4. /\ conns' \in Seq(Connections)
      /\ \A i \in DOMAIN conns' : i \in Nat /\ i + 1 \in DOMAIN conns /\ conns'[i] = conns[i + 1]
  BY <1>1
<1>5. HeldInv'
  <2>1. pc' = pc
    BY DEF explorer
  <2>2. ASSUME NEW i \in DOMAIN conns', NEW j \in DOMAIN conns',
               conns'[i].holder = conns'[j].holder, conns'[i].holder # Closed
        PROVE  i = j
    <3>1. i + 1 = j + 1
      BY <1>4, <2>2 DEF Inv, HeldInv
    <3> QED
      BY <1>4, <3>1
  <2>3. ASSUME NEW i \in DOMAIN conns', NEW d \in Drones, NEW t \in Threads,
               conns'[i].holder = <<d, t>>
        PROVE  pc'[d][t] = "send"
    BY <1>4, <2>1, <2>3 DEF Inv, HeldInv
  <2> QED
    BY <2>2, <2>3 DEF HeldInv
<1>6. LinksTypeOK' /\ ExplorerInv' /\ CountInv'
  BY <1>1, <1>4, CountRests, ExplorersRest DEF Inv, LinksTypeOK
<1>7. ManagerInv'
  BY DEF Inv, ManagerInv, ClientCloses
<1> QED
  BY <1>3, <1>5, <1>6, <1>7 DEF Inv

(* A coordinate is written down, if its drone is in the table.                 *)
LEMMA CoordinatesHandled ==
  ASSUME Inv, HandleCoordinates, UNCHANGED explorer
  PROVE  Inv'
<1>1. /\ conns # <<>> /\ conns[1].lines # <<>> /\ conns \in Seq(Connections)
      /\ conns' = [conns EXCEPT ![1].lines = Tail(@)] /\ Line.type = "coordinates"
      /\ received' = IF Line.coord[1] \in Known THEN [received EXCEPT ![Line.coord] = @ + 1]
                     ELSE received
      /\ UNCHANGED <<orders, datagrams, listening, exp_drones, finished_drones>>
  BY DEF HandleCoordinates, Reads, LineRead, Inv, ManagerInv, LinksTypeOK
<1>2. /\ conns' \in Seq(Connections) /\ DOMAIN conns' = DOMAIN conns /\ conns' # <<>>
      /\ \A i \in DOMAIN conns : conns'[i].holder = conns[i].holder
      /\ Line \in Lines
  BY <1>1, ReadPlaces DEF Line
<1>3. Line.coord \in Coords /\ Line = Coordinates(Line.coord)
  BY <1>1, <1>2, LineIs
<1>4. UNCHANGED <<pc, next, cut, found>>
  BY DEF explorer
<1>5. HeldInv'
  BY <1>2, <1>4 DEF Inv, HeldInv
<1>6. OnceInv'
  <2>1. \A c : Chances(c)' = Chances(c)
    BY <1>4 DEF Chances, FinderMaySend, MainMaySend
  <2>2. received' \in [Coords -> Nat]
    BY <1>1, <1>3 DEF Inv, OnceInv
  <2>3. ASSUME NEW c \in Coords
        PROVE  /\ IsFiniteSet(Places(conns', c))
               /\ received'[c] + Cardinality(Places(conns', c)) + Chances(c) <= 2
    <3>1. /\ IsFiniteSet(Places(conns, c)) /\ received[c] \in Nat /\ Chances(c) \in Nat
          /\ received[c] + Cardinality(Places(conns, c)) + Chances(c) <= 2
          /\ received \in [Coords -> Nat]
      BY ChancesAre DEF Inv, OnceInv
    <3>2. /\ IsFiniteSet(Places(conns', c)) /\ Cardinality(Places(conns', c)) \in Nat
          /\ Cardinality(Places(conns, c)) \in Nat
          /\ Cardinality(Places(conns', c)) + One(Line = Coordinates(c))
               <= Cardinality(Places(conns, c))
      BY <1>1, <3>1, ReadPlaces DEF Line
    <3>3. CASE c = Line.coord
      <4>1. One(Line = Coordinates(c)) = 1
        BY <1>3, <3>3 DEF One
      <4>2. received'[c] = received[c] + 1 \/ received'[c] = received[c]
        BY <1>1, <1>3, <3>1, <3>3
      <4> QED
        BY <3>1, <3>2, <4>1, <4>2
    <3>4. CASE c # Line.coord
      <4>1. received'[c] = received[c]
        BY <1>1, <1>3, <3>1, <3>4
      <4>2. One(Line = Coordinates(c)) \in Nat
        BY DEF One
      <4> QED
        BY <3>1, <3>2, <4>1, <4>2
    <3> QED
      BY <3>3, <3>4
  <2> QED
    BY <2>1, <2>2, <2>3 DEF OnceInv
<1>7. LinksTypeOK' /\ ExplorerInv' /\ CountInv'
  BY <1>1, <1>2, CountRests, ExplorersRest DEF Inv, LinksTypeOK
<1>8. ManagerInv'
  BY <1>2 DEF Inv, ManagerInv, HandleCoordinates
<1> QED
  BY <1>5, <1>6, <1>7, <1>8 DEF Inv

(* A drone is entered in the table, and acknowledged or not.                  *)
LEMMA RegistrationHandled ==
  ASSUME Inv, HandleRegistration(Answers), UNCHANGED explorer
  PROVE  Inv'
<1>1. /\ conns # <<>> /\ conns[1].lines # <<>> /\ conns \in Seq(Connections)
      /\ Line.type = "registration"
      /\ exp_drones' = [exp_drones EXCEPT ![Line.drone] = "idle"]
      /\ (LineRead /\ UNCHANGED <<tcp, listening>>) \/ TcpStops("died")
      /\ UNCHANGED <<orders, datagrams, received, finished_drones>>
  BY DEF HandleRegistration, Reads, Inv, ManagerInv, LinksTypeOK
<1>2. HeldInv' /\ OnceInv' /\ conns' \in Seq(Connections) /\ Line \in Lines
      /\ (tcp' = tcp => conns' # <<>>)
  <2>1. CASE LineRead /\ UNCHANGED <<tcp, listening>>
    BY <1>1, <2>1, LineGoes DEF Inv
  <2>2. CASE TcpStops("died")
    <3>1. HeldInv' /\ OnceInv' /\ conns' \in Seq(Connections)
      BY <1>1, <2>2, AllReset DEF Inv, TcpStops
    <3>2. Line \in Lines
      <4>1. 1 \in DOMAIN conns /\ conns[1] \in Connections
        BY <1>1
      <4>2. conns[1].lines \in Seq(Lines)
        BY <4>1 DEF Connections
      <4> QED
        BY <1>1, <4>2 DEF Line
    <3>3. tcp' # tcp
      BY <2>2 DEF TcpStops, HandleRegistration, Reads
    <3> QED
      BY <3>1, <3>2, <3>3
  <2> QED
    BY <1>1, <2>1, <2>2
<1>3. Line.drone \in Drones
  BY <1>1, <1>2, LineIs
<1>4. exp_drones' \in [Drones -> Entries] /\ Known \subseteq Known'
  BY <1>1, <1>3 DEF Inv, ManagerInv, Known, Entries
<1>5. CountInv'
  <2>1. UNCHANGED <<pc, datagrams>>
    BY <1>1 DEF explorer
  <2>2. Counted \subseteq Counted'
    BY <1>4, <2>1 DEF Counted
  <2> QED
    BY <1>1, <2>1, <2>2, CountGrows DEF Inv, CountInv
<1>6. LinksTypeOK'
  BY <1>1, <1>2 DEF Inv, LinksTypeOK, TcpStops
<1>7. ExplorerInv'
  BY ExplorersRest DEF Inv
<1>8. ManagerInv'
  <2>1. tcp = "read" /\ (tcp' = tcp \/ tcp' = "died")
    BY <1>1 DEF HandleRegistration, Reads, TcpStops
  <2> QED
    BY <1>2, <1>4, <2>1 DEF Inv, ManagerInv, HandleRegistration
<1> QED
  BY <1>2, <1>5, <1>6, <1>7, <1>8 DEF Inv

(* An order of the operator is taken, passed on drone by drone, and given.    *)
LEMMA OrderHandled ==
  ASSUME Inv, HandleOrder, UNCHANGED explorer
  PROVE  Inv'
<1>1. /\ conns # <<>> /\ conns[1].lines # <<>> /\ LineRead /\ Line.type \in Orders
      /\ UNCHANGED <<orders, datagrams, listening, received, exp_drones, finished_drones>>
  BY DEF HandleOrder, Reads, Inv, ManagerInv
<1>2. HeldInv' /\ OnceInv' /\ conns' \in Seq(Connections) /\ conns' # <<>>
  BY <1>1, LineGoes DEF Inv
<1>3. LinksTypeOK' /\ ExplorerInv' /\ CountInv'
  BY <1>1, <1>2, CountRests, ExplorersRest DEF Inv, LinksTypeOK
<1>4. Known \subseteq Drones /\ Cardinality(Known) \in 0 .. Cardinality(Drones)
  <2>1. Known \subseteq Drones
    BY DEF Known
  <2>2. /\ IsFiniteSet(Known) /\ Cardinality(Known) <= Cardinality(Drones)
        /\ Cardinality(Known) \in Nat
    BY <2>1, Bounds, FS_Subset, FS_CardinalityType
  <2> QED
    BY <2>1, <2>2, Bounds
<1>5. ManagerInv'
  BY <1>1, <1>2, <1>4 DEF Inv, ManagerInv, HandleOrder, Reads
<1> QED
  BY <1>2, <1>3, <1>5 DEF Inv

(* One drone of the loop, which gets the order or is skipped.                  *)
LEMMA OrderPassed ==
  ASSUME Inv, RingsOn(Answers, lost), UNCHANGED explorer
  PROVE  Inv'
<1>1. UNCHANGED <<conns, datagrams, listening, received, exp_drones, finished_drones>>
  BY DEF RingsOn
<1>2. ExplorerInv' /\ HeldInv' /\ OnceInv' /\ CountInv'
  BY <1>1, LinesRest, CountRests, ExplorersRest DEF Inv
<1>3. orders' \in [Drones -> Seq(Orders)]
  <2>1. kind \in Orders /\ orders \in [Drones -> Seq(Orders)]
    BY DEF RingsOn, Inv, ManagerInv, LinksTypeOK
  <2>2. \A s \in Seq(Orders) : Append(s, kind) \in Seq(Orders)
    BY <2>1
  <2> QED
    BY <2>1, <2>2 DEF RingsOn
<1>4. LinksTypeOK'
  BY <1>1, <1>3 DEF Inv, LinksTypeOK
<1>5. ManagerInv'
  BY <1>1 DEF Inv, ManagerInv, RingsOn
<1> QED
  BY <1>2, <1>4, <1>5 DEF Inv

(* A connection that carries one line and no coordinate joins the queue.       *)
LEMMA Joined ==
  ASSUME Inv, NEW line \in Lines, \A c \in Coords : line # Coordinates(c),
         conns' = Append(conns, Connection(<<line>>, Closed)),
         UNCHANGED <<received, pc, next, cut, found>>
  PROVE  HeldInv' /\ OnceInv' /\ conns' \in Seq(Connections) /\ conns' # <<>>
<1>1. PICK e : e = Connection(<<line>>, Closed)
  OBVIOUS
<1>2. e \in Connections /\ e.lines = <<line>> /\ e.holder = Closed
  <2>1. <<line>> \in Seq(Lines)
    OBVIOUS
  <2> QED
    BY <1>1, <2>1, ConnectionIs
<1>3. conns \in Seq(Connections) /\ conns' = Append(conns, e)
  BY <1>1 DEF Inv, LinksTypeOK
<1>4. /\ conns' \in Seq(Connections) /\ conns' # <<>>
      /\ \A i \in DOMAIN conns' : (i \in DOMAIN conns /\ conns'[i] = conns[i]) \/ conns'[i] = e
  BY <1>2, <1>3
<1>5. HeldInv'
  <2>1. ASSUME NEW i \in DOMAIN conns', NEW j \in DOMAIN conns',
               conns'[i].holder = conns'[j].holder, conns'[i].holder # Closed
        PROVE  i = j
    <3>1. i \in DOMAIN conns /\ conns'[i] = conns[i] /\ j \in DOMAIN conns /\ conns'[j] = conns[j]
      BY <1>2, <1>4, <2>1
    <3> QED
      BY <2>1, <3>1 DEF Inv, HeldInv
  <2>2. ASSUME NEW i \in DOMAIN conns', NEW d \in Drones, NEW t \in Threads,
               conns'[i].holder = <<d, t>>
        PROVE  pc'[d][t] = "send"
    <3>1. conns'[i].holder # Closed
      BY <2>2, HolderIs
    <3>2. i \in DOMAIN conns /\ conns'[i] = conns[i]
      BY <1>2, <1>4, <3>1
    <3> QED
      BY <2>2, <3>2 DEF Inv, HeldInv
  <2> QED
    BY <2>1, <2>2 DEF HeldInv
<1>6. ASSUME NEW c \in Coords
      PROVE  Places(conns', c) = Places(conns, c)
  BY <1>2, <1>3, AppendKeeps
<1>7. \A c : Chances(c)' = Chances(c)
  BY DEF Chances, FinderMaySend, MainMaySend
<1>8. OnceInv'
  BY <1>6, <1>7 DEF Inv, OnceInv
<1> QED
  BY <1>4, <1>5, <1>8

(* The operator's client.                                                   *)
LEMMA OrderArrives ==
  ASSUME Inv, OperatorOrders, UNCHANGED explorer
  PROVE  Inv'
<1>1. /\ UNCHANGED <<orders, datagrams, listening, received, exp_drones, finished_drones>>
      /\ UNCHANGED <<pc, next, cut, found>>
  BY DEF OperatorOrders, explorer
<1>2. PICK k \in Orders : conns' = Append(conns, Connection(<<Order(k)>>, Closed))
  BY DEF OperatorOrders
<1>3. Order(k) \in Lines /\ \A c \in Coords : Order(k) # Coordinates(c)
  BY CoordinatesDiffer DEF Lines
<1>4. HeldInv' /\ OnceInv' /\ conns' \in Seq(Connections) /\ conns' # <<>>
  BY <1>1, <1>2, <1>3, Joined
<1>5. LinksTypeOK' /\ ExplorerInv' /\ CountInv'
  BY <1>1, <1>4, CountRests, ExplorersRest DEF Inv, LinksTypeOK
<1>6. ManagerInv'
  BY <1>4, Bounds DEF Inv, ManagerInv, OperatorOrders
<1> QED
  BY <1>4, <1>5, <1>6 DEF Inv

(* Losing their record leaves the drones in the table.                        *)
LEMMA SilencedIs ==
  ASSUME NEW table \in [Drones -> Entries], NEW heard, Silenced(table, heard)
  PROVE  /\ exp_drones' \in [Drones -> Entries]
         /\ \A d \in Drones : table[d] # "unknown" => exp_drones'[d] # "unknown"
         /\ \A d \in Drones : table[d] = "unknown" => exp_drones'[d] = "unknown"
BY DEF Silenced, Entries

(* Datagrams are of two kinds.                                               *)
LEMMA DatagramIs ==
  /\ \A d, x : Heartbeat(d) # Finished(x)
  /\ \A d, x : Finished(d) = Finished(x) => d = x
<1>1. \A d : Heartbeat(d).type = "heartbeat" /\ Finished(d).type = "finished"
             /\ Finished(d).drone = d
  BY DEF Heartbeat, Finished
<1> QED
  BY <1>1

(* A drone that is heard works.                                              *)
LEMMA HeartbeatHandled ==
  ASSUME Inv, HandleHeartbeat, UNCHANGED explorer
  PROVE  Inv'
<1>1. /\ UNCHANGED <<conns, orders, listening, received, finished_drones>>
      /\ UNCHANGED <<tcp, late, self_finished, ringing, ring_size, kind, result, orders_left, pc>>
  BY DEF HandleHeartbeat, explorer
<1>2. PICK d \in Drones : /\ Heartbeat(d) \in datagrams /\ UdpIs("receive", Heartbeat(d))
                          /\ Silenced([exp_drones EXCEPT ![d] = "working"], {d})
  BY DEF HandleHeartbeat
<1>3. exp_drones' \in [Drones -> Entries] /\ Known \subseteq Known'
  <2>1. [exp_drones EXCEPT ![d] = "working"] \in [Drones -> Entries]
    BY DEF Inv, ManagerInv, Entries
  <2>2. \A x \in Drones : exp_drones[x] # "unknown" =>
          [exp_drones EXCEPT ![d] = "working"][x] # "unknown"
    BY DEF Inv, ManagerInv
  <2> QED
    BY <1>2, <2>1, <2>2, SilencedIs DEF Known
<1>4. datagrams' = datagrams \ {Heartbeat(d)} /\ udp' = "receive"
  BY <1>2 DEF UdpIs
<1>5. LinksTypeOK' /\ ExplorerInv' /\ HeldInv' /\ OnceInv'
  BY <1>1, <1>4, LinesRest, ExplorersRest DEF Inv, LinksTypeOK
<1>6. CountInv'
  <2>1. Counted \subseteq Counted'
    BY <1>1, <1>3, <1>4 DEF Counted
  <2>2. \A x \in Drones : Finished(x) \in datagrams' => pc[x].main' = "ended"
    BY <1>1, <1>4 DEF Inv, CountInv
  <2> QED
    BY <1>1, <2>1, <2>2, CountGrows DEF Inv
<1>7. ManagerInv'
  BY <1>1, <1>3, <1>4 DEF Inv, ManagerInv
<1> QED
  BY <1>5, <1>6, <1>7 DEF Inv

(* The one place where a drone is counted: it was working, has ended, and its  *)
(* `finished` is taken from the air.  When the count has come up to the table,  *)
(* every drone of the table has ended.                                       *)
LEMMA FinishedHandled ==
  ASSUME Inv, HandleFinished, UNCHANGED explorer
  PROVE  /\ Inv'
         /\ self_finished' => \A d \in Known : pc[d].main = "ended"
<1>1. /\ UNCHANGED <<conns, orders, listening, received>>
      /\ UNCHANGED <<tcp, late, ringing, ring_size, kind, result, orders_left, pc>>
  BY DEF HandleFinished, explorer
<1>2. PICK d \in Drones :
        /\ Finished(d) \in datagrams /\ exp_drones[d] = "working"
        /\ UdpIs("receive", Finished(d))
        /\ finished_drones' = finished_drones + 1
        /\ self_finished' = LastOne(d)
        /\ Silenced([exp_drones EXCEPT ![d] = "finished"], {})
  BY DEF HandleFinished
<1>3. exp_drones' \in [Drones -> Entries] /\ Known \subseteq Known'
  <2>1. [exp_drones EXCEPT ![d] = "finished"] \in [Drones -> Entries]
    BY DEF Inv, ManagerInv, Entries
  <2>2. \A x \in Drones : exp_drones[x] # "unknown" =>
          [exp_drones EXCEPT ![d] = "finished"][x] # "unknown"
    BY DEF Inv, ManagerInv
  <2> QED
    BY <1>2, <2>1, <2>2, SilencedIs DEF Known
<1>4. datagrams' = datagrams \ {Finished(d)} /\ udp' = "receive"
  BY <1>2 DEF UdpIs
<1>5. LinksTypeOK' /\ ExplorerInv' /\ HeldInv' /\ OnceInv'
  BY <1>1, <1>4, LinesRest, ExplorersRest DEF Inv, LinksTypeOK
<1>6. pc[d].main = "ended" /\ d \in Known /\ d \notin Counted
  BY <1>2 DEF Inv, CountInv, Known, Counted
<1>7. /\ IsFiniteSet(Counted) /\ Cardinality(Counted) \in Nat
      /\ IsFiniteSet(Counted \cup {d})
      /\ Cardinality(Counted \cup {d}) = Cardinality(Counted) + 1
      /\ IsFiniteSet(Known) /\ Cardinality(Known) \in Nat
  <2>1. Counted \subseteq Drones /\ Known \subseteq Drones
    BY DEF Counted, Known
  <2>2. IsFiniteSet(Counted) /\ IsFiniteSet(Known)
    BY <2>1, Bounds, FS_Subset
  <2> QED
    BY <1>6, <2>2, FS_AddElement, FS_CardinalityType
<1>8. CountInv'
  <2>1. Counted \cup {d} \subseteq Counted' /\ Counted' \subseteq Drones
    BY <1>1, <1>3, <1>4, <1>6, DatagramIs DEF Counted, Known
  <2>2. IsFiniteSet(Counted')
    BY <2>1, Bounds, FS_Subset
  <2>3. Cardinality(Counted \cup {d}) <= Cardinality(Counted') /\ Cardinality(Counted') \in Nat
    BY <2>1, <2>2, FS_Subset, FS_CardinalityType
  <2>4. \A x \in Drones : Finished(x) \in datagrams' => pc[x].main' = "ended"
    BY <1>1, <1>4 DEF Inv, CountInv
  <2> QED
    BY <1>2, <1>7, <2>3, <2>4 DEF Inv, CountInv
<1>9. ManagerInv'
  <2>1. self_finished' \in BOOLEAN
    BY <1>2 DEF LastOne
  <2> QED
    BY <1>1, <1>3, <1>4, <2>1 DEF Inv, ManagerInv
<1>10. ASSUME self_finished'
       PROVE  \A x \in Known : pc[x].main = "ended"
  <2>1. finished_drones + 1 = Cardinality(Known)
    BY <1>2, <1>10 DEF LastOne
  <2>2. Counted \cup {d} \subseteq Known
    BY <1>6 DEF Counted
  <2>3. Cardinality(Counted \cup {d}) <= Cardinality(Known)
    BY <1>7, <2>2, FS_Subset
  <2>4. finished_drones \in Nat /\ finished_drones <= Cardinality(Counted)
    BY DEF Inv, CountInv
  <2>5. Cardinality(Counted \cup {d}) = Cardinality(Known)
    BY <1>7, <2>1, <2>3, <2>4
  <2>6. Counted \cup {d} = Known
    BY <1>7, <2>2, <2>5, FS_Subset
  <2> QED
    BY <1>6, <2>6 DEF Counted
<1> QED
  BY <1>5, <1>8, <1>9, <1>10 DEF Inv

(* A `finished` that nobody waits for ends the UDP thread, uncounted.          *)
LEMMA FinishedRefused ==
  ASSUME Inv, FinishedOutOfTurn, UNCHANGED explorer
  PROVE  Inv'
<1>1. /\ UNCHANGED <<conns, orders, listening, received, exp_drones, finished_drones>>
      /\ UNCHANGED <<tcp, late, self_finished, ringing, ring_size, kind, result, orders_left, pc>>
  BY DEF FinishedOutOfTurn, explorer
<1>2. datagrams' \subseteq datagrams /\ udp' = "died"
  BY DEF FinishedOutOfTurn, UdpIs
<1>3. LinksTypeOK' /\ ExplorerInv' /\ HeldInv' /\ OnceInv'
  BY <1>1, <1>2, LinesRest, ExplorersRest DEF Inv, LinksTypeOK
<1>4. CountInv'
  <2>1. Counted \subseteq Counted'
    BY <1>1, <1>2 DEF Counted, Known
  <2>2. \A x \in Drones : Finished(x) \in datagrams' => pc[x].main' = "ended"
    BY <1>1, <1>2 DEF Inv, CountInv
  <2> QED
    BY <1>1, <2>1, <2>2, CountGrows DEF Inv
<1>5. ManagerInv'
  BY <1>1, <1>2 DEF Inv, ManagerInv
<1> QED
  BY <1>3, <1>4, <1>5 DEF Inv

(* A datagram is lost.                                                       *)
LEMMA DatagramLost ==
  ASSUME Inv, LoseDatagram, UNCHANGED <<manager, explorer>>
  PROVE  Inv'
<1>1. /\ UNCHANGED <<conns, orders, listening, received, exp_drones, finished_drones, pc>>
      /\ datagrams' \subseteq datagrams
  BY DEF LoseDatagram, manager, explorer
<1>2. LinksTypeOK' /\ ExplorerInv' /\ HeldInv' /\ OnceInv'
  BY <1>1, LinesRest, ExplorersRest DEF Inv, LinksTypeOK
<1>3. CountInv'
  <2>1. Counted \subseteq Counted'
    BY <1>1 DEF Counted, Known
  <2>2. \A x \in Drones : Finished(x) \in datagrams' => pc[x].main' = "ended"
    BY <1>1 DEF Inv, CountInv
  <2> QED
    BY <1>1, <2>1, <2>2, CountGrows DEF Inv
<1>4. ManagerInv'
  BY <1>1 DEF Inv, ManagerInv, manager
<1> QED
  BY <1>2, <1>3, <1>4 DEF Inv

(* Every step of the manager.                                               *)
LEMMA ManagerKeeps ==
  ASSUME Inv, ManagerStep, UNCHANGED explorer
  PROVE  Inv'
BY QuietManager, ServerStops, ClientClosed, CoordinatesHandled, RegistrationHandled, OrderHandled,
   OrderPassed, OrderArrives, HeartbeatHandled, FinishedHandled, FinishedRefused
   DEF ManagerStep, TcpServer, UdpServer

-----------------------------------------------------------------------------
(* The steps of an explorer: what they share.                               *)

(* The two threads, by name.                                                 *)
LEMMA ThreadsAre ==
  /\ "finder" \in Threads /\ "main" \in Threads
  /\ \A t \in Threads : t = "finder" \/ t = "main"
  /\ \A d : pc[d].finder = pc[d]["finder"] /\ pc[d].main = pc[d]["main"]
  /\ \A d : next[d].finder = next[d]["finder"] /\ next[d].main = next[d]["main"]
  /\ \A d : end[d].finder = end[d]["finder"] /\ end[d].main = end[d]["main"]
BY DEF Threads

(* A thread goes on, and no other.                                           *)
LEMMA GoesIs ==
  ASSUME pc \in [Drones -> [Threads -> FinderAt \cup MainAt]], NEW d \in Drones, NEW t \in Threads,
         NEW to \in FinderAt \cup MainAt, Goes(d, t, to)
  PROVE  /\ pc' \in [Drones -> [Threads -> FinderAt \cup MainAt]]
         /\ pc'[d][t] = to
         /\ \A x \in Drones : x # d => pc'[x] = pc[x]
         /\ \A u \in Threads : u # t => pc'[d][u] = pc[d][u]
BY DEF Goes

(* What a drone keeps depends on its own variables, and on what is sent.      *)
Untouched(x) ==
  /\ pc'[x] = pc[x] /\ boxes'[x] = boxes[x] /\ found'[x] = found[x] /\ cut'[x] = cut[x]
  /\ swept'[x] = swept[x] /\ beats'[x] = beats[x] /\ next'[x] = next[x] /\ end'[x] = end[x]

LEMMA OthersKeep ==
  ASSUME NEW x \in Drones, DroneTypes(x), Delivers(x), Untouched(x), sent \subseteq sent'
  PROVE  DroneTypes(x)' /\ Delivers(x)'
BY DEF DroneTypes, Delivers, SentTo, Untouched

LEMMA OthersSend ==
  ASSUME NEW x \in Drones, Untouched(x)
  PROVE  \A k : /\ FinderMaySend(x, k)' <=> FinderMaySend(x, k)
                /\ MainMaySend(x, k)' <=> MainMaySend(x, k)
BY DEF Untouched, FinderMaySend, MainMaySend

(* The manager's part, while its connections do not run out.                  *)
LEMMA ManagerRests ==
  ASSUME ManagerInv, UNCHANGED manager, conns # <<>> => conns' # <<>>
  PROVE  ManagerInv'
BY DEF ManagerInv, manager

(* A coordinate is sent no more often than before.                            *)
LEMMA NobodySends ==
  ASSUME Inv, UNCHANGED received,
         \A c \in Coords :
           /\ IsFiniteSet(Places(conns', c)) /\ Cardinality(Places(conns', c)) \in Nat
           /\ Cardinality(Places(conns', c)) <= Cardinality(Places(conns, c)),
         \A x \in Drones, k \in Nat : /\ FinderMaySend(x, k)' => FinderMaySend(x, k)
                                      /\ MainMaySend(x, k)' => MainMaySend(x, k)
  PROVE  OnceInv'
<1>1. ASSUME NEW c \in Coords
      PROVE  received[c] + Cardinality(Places(conns', c)) + Chances(c)' <= 2
  <2>1. /\ IsFiniteSet(Places(conns, c)) /\ received[c] \in Nat
        /\ received[c] + Cardinality(Places(conns, c)) + Chances(c) <= 2
    BY DEF Inv, OnceInv
  <2>2. Cardinality(Places(conns, c)) \in Nat
    BY <2>1, FS_CardinalityType
  <2>3. c[1] \in Drones /\ c[2] \in Nat
    BY CoordIs, Bounds
  <2>4. /\ FinderMaySend(c[1], c[2])' => FinderMaySend(c[1], c[2])
        /\ MainMaySend(c[1], c[2])' => MainMaySend(c[1], c[2])
    BY <2>3
  <2>5. Chances(c)' <= Chances(c) /\ Chances(c)' \in Nat /\ Chances(c) \in Nat
    BY <2>4 DEF Chances, One
  <2> QED
    BY <2>1, <2>2, <2>5
<1> QED
  BY <1>1 DEF Inv, OnceInv

(* No line moves, and a thread whose connection stands goes on sending.        *)
LEMMA QuietExplorer ==
  ASSUME Inv, UNCHANGED <<manager, conns>>,
         \A x \in Drones, t \in Threads :
           pc[x][t] = "send" => pc'[x][t] = "send" \/ IsReset(<<x, t>>),
         \A x \in Drones, k \in Nat : /\ FinderMaySend(x, k)' => FinderMaySend(x, k)
                                      /\ MainMaySend(x, k)' => MainMaySend(x, k)
  PROVE  ManagerInv' /\ HeldInv' /\ OnceInv'
<1>1. ManagerInv' /\ received' = received
  BY ManagerRests DEF Inv, manager
<1>2. HeldInv'
  BY DEF Inv, HeldInv, IsReset
<1>3. ASSUME NEW c \in Coords
      PROVE  /\ IsFiniteSet(Places(conns', c)) /\ Cardinality(Places(conns', c)) \in Nat
             /\ Cardinality(Places(conns', c)) <= Cardinality(Places(conns, c))
  <2>1. IsFiniteSet(Places(conns, c))
    BY DEF Inv, OnceInv
  <2>2. Cardinality(Places(conns, c)) \in Nat
    BY <2>1, FS_CardinalityType
  <2>3. Places(conns', c) = Places(conns, c)
    BY Zenon
  <2> QED
    BY <2>1, <2>2, <2>3
<1>4. OnceInv'
  BY <1>1, <1>3, NobodySends
<1> QED
  BY <1>1, <1>2, <1>4

(* No drone finishes, and one that has ended stays.                           *)
LEMMA NobodyFinishes ==
  ASSUME Inv, UNCHANGED manager,
         \A x \in Drones : Finished(x) \in datagrams' => Finished(x) \in datagrams,
         \A x \in Drones : pc[x].main = "ended" => pc[x].main' = "ended"
  PROVE  CountInv'
<1>1. finished_drones' = finished_drones /\ exp_drones' = exp_drones
  BY DEF manager
<1>2. Counted \subseteq Counted'
  BY <1>1 DEF Counted, Known
<1>3. \A x \in Drones : Finished(x) \in datagrams' => pc[x].main' = "ended"
  BY DEF Inv, CountInv
<1> QED
  BY <1>1, <1>2, <1>3, CountGrows DEF Inv

-----------------------------------------------------------------------------
(* The steps of an explorer, one by one.                                     *)

(* The server, the heartbeat and the loss of the drone: no thread that sends   *)
(* goes on.                                                                 *)
LEMMA ServerSteps ==
  ASSUME Inv, UNCHANGED manager, NEW d \in Drones,
         Registers(d) \/ Obeys(d) \/ ShutsOff(d) \/ Beats(d) \/ IsLost(d)
  PROVE  Inv'
<1>1. UNCHANGED <<pc, boxes, found, cut, swept, next, end, sent>>
  BY DEF Registers, Obeys, ShutsOff, Beats, IsLost
<1>2. ExplorerFunctions'
  <2>1. ExplorerFunctions
    BY DEF Inv, ExplorerInv
  <2>2. CASE Registers(d)
    BY <2>1, <2>2 DEF ExplorerFunctions, Registers
  <2>3. CASE Obeys(d)
    BY <2>1, <2>3 DEF ExplorerFunctions, Obeys
  <2>4. CASE ShutsOff(d)
    BY <2>1, <2>4 DEF ExplorerFunctions, ShutsOff
  <2>5. CASE Beats(d)
    BY <2>1, <2>5 DEF ExplorerFunctions, Beats
  <2>6. CASE IsLost(d)
    BY <2>1, <2>6 DEF ExplorerFunctions, IsLost
  <2> QED
    BY <2>2, <2>3, <2>4, <2>5, <2>6
<1>3. ASSUME NEW x \in Drones
      PROVE  DroneTypes(x)' /\ Delivers(x)'
  <2>1. DroneTypes(x) /\ Delivers(x) /\ MaxBeats[x] \in Nat
    BY Bounds DEF Inv, ExplorerInv
  <2>2. beats'[x] <= MaxBeats[x]
    <3>1. beats' = beats \/ (beats' = [beats EXCEPT ![d] = @ + 1] /\ beats[d] < MaxBeats[d])
      BY DEF Registers, Obeys, ShutsOff, Beats, IsLost
    <3>2. beats \in [Drones -> Nat] /\ beats[x] <= MaxBeats[x]
      BY <2>1 DEF Inv, ExplorerInv, ExplorerFunctions, DroneTypes
    <3> QED
      BY <2>1, <3>1, <3>2
  <2>3. DroneTypes(x)'
    BY <1>1, <2>1, <2>2 DEF DroneTypes
  <2>4. Delivers(x)'
    BY <1>1, <2>1 DEF Delivers, SentTo
  <2> QED
    BY <2>3, <2>4
<1>4. ExplorerInv'
  BY <1>2, <1>3 DEF ExplorerInv
<1>5. \A x \in Drones, k \in Nat : /\ FinderMaySend(x, k)' => FinderMaySend(x, k)
                                   /\ MainMaySend(x, k)' => MainMaySend(x, k)
  BY <1>1 DEF FinderMaySend, MainMaySend
<1>6. CountInv'
  <2>1. \A x \in Drones : Finished(x) \in datagrams' => Finished(x) \in datagrams
    <3>1. datagrams' = datagrams \/ datagrams' = datagrams \cup {Heartbeat(d)}
      BY DEF Registers, Obeys, ShutsOff, Beats, IsLost, links
    <3> QED
      BY <3>1, DatagramIs
  <2> QED
    BY <1>1, <2>1, NobodyFinishes
<1>7. CASE Registers(d)
  <2>1. /\ conns' = Append(conns, Connection(<<Registration(d)>>, Closed))
        /\ UNCHANGED <<orders, datagrams, listening, received>>
    BY <1>7 DEF Registers, manager
  <2>2. Registration(d) \in Lines /\ \A c \in Coords : Registration(d) # Coordinates(c)
    BY CoordinatesDiffer DEF Lines
  <2>3. HeldInv' /\ OnceInv' /\ conns' \in Seq(Connections) /\ conns' # <<>>
    BY <1>1, <2>1, <2>2, Joined
  <2>4. LinksTypeOK'
    BY <2>1, <2>3 DEF Inv, LinksTypeOK
  <2>5. ManagerInv'
    BY <2>3, ManagerRests DEF Inv
  <2> QED
    BY <1>4, <1>6, <2>3, <2>4, <2>5 DEF Inv
<1>8. CASE Obeys(d) \/ ShutsOff(d) \/ Beats(d) \/ IsLost(d)
  <2>1. conns' = conns /\ listening' = listening
    BY <1>8 DEF Obeys, ShutsOff, Beats, IsLost, links
  <2>2. ManagerInv' /\ HeldInv' /\ OnceInv'
    BY <1>1, <1>5, <2>1, QuietExplorer
  <2>3. orders' \in [Drones -> Seq(Orders)] /\ datagrams' \subseteq Datagrams
    <3>1. orders \in [Drones -> Seq(Orders)] /\ datagrams \subseteq Datagrams
      BY DEF Inv, LinksTypeOK
    <3>2. CASE Obeys(d)
      <4>1. \A s \in Seq(Orders) : s # <<>> => Tail(s) \in Seq(Orders)
        OBVIOUS
      <4> QED
        BY <3>1, <3>2, <4>1 DEF Obeys
    <3>3. CASE ShutsOff(d) \/ Beats(d) \/ IsLost(d)
      <4>1. orders' = orders /\ (datagrams' = datagrams \/ datagrams' = datagrams \cup {Heartbeat(d)})
        BY <3>3 DEF ShutsOff, Beats, IsLost, links
      <4> QED
        BY <3>1, <4>1 DEF Datagrams
    <3> QED
      BY <1>8, <3>2, <3>3
  <2>4. LinksTypeOK'
    BY <2>1, <2>3 DEF Inv, LinksTypeOK
  <2> QED
    BY <1>4, <1>6, <2>2, <2>4 DEF Inv
<1> QED
  BY <1>7, <1>8

(* A step that leaves the links alone, and changes the variables of one       *)
(* drone: what remains to be shown is what that drone keeps, that its threads  *)
(* go on sending, and that they send nothing anew.                            *)
LEMMA OwnStep ==
  ASSUME Inv, UNCHANGED <<manager, conns, orders, listening, datagrams, sent>>, NEW d \in Drones,
         \A x \in Drones : x # d => Untouched(x),
         ExplorerFunctions', DroneTypes(d)', Delivers(d)',
         \A t \in Threads : pc[d][t] = "send" => pc'[d][t] = "send" \/ IsReset(<<d, t>>),
         \A k \in Nat : /\ FinderMaySend(d, k)' => FinderMaySend(d, k)
                        /\ MainMaySend(d, k)' => MainMaySend(d, k),
         pc[d].main = "ended" => pc[d].main' = "ended"
  PROVE  Inv'
<1>1. ExplorerInv'
  <2>1. ASSUME NEW x \in Drones
        PROVE  DroneTypes(x)' /\ Delivers(x)'
    <3>1. CASE x = d
      BY <3>1
    <3>2. CASE x # d
      <4>1. DroneTypes(x) /\ Delivers(x) /\ Untouched(x) /\ sent \subseteq sent'
        BY <3>2 DEF Inv, ExplorerInv
      <4> QED
        BY <4>1, OthersKeep
    <3> QED
      BY <3>1, <3>2
  <2> QED
    BY <2>1 DEF ExplorerInv
<1>2. \A x \in Drones : x # d => pc'[x] = pc[x]
  BY DEF Untouched
<1>3. ASSUME NEW x \in Drones, NEW k \in Nat
      PROVE  /\ FinderMaySend(x, k)' => FinderMaySend(x, k)
             /\ MainMaySend(x, k)' => MainMaySend(x, k)
  <2>1. CASE x = d
    BY <2>1
  <2>2. CASE x # d
    BY <2>2, OthersSend
  <2> QED
    BY <2>1, <2>2
<1>4. ASSUME NEW x \in Drones, NEW t \in Threads, pc[x][t] = "send"
      PROVE  pc'[x][t] = "send" \/ IsReset(<<x, t>>)
  BY <1>2, <1>4
<1>5. ManagerInv' /\ HeldInv' /\ OnceInv'
  BY <1>3, <1>4, QuietExplorer
<1>6. CountInv'
  <2>1. \A x \in Drones : pc[x].main = "ended" => pc[x].main' = "ended"
    BY <1>2
  <2> QED
    BY <2>1, NobodyFinishes
<1>7. LinksTypeOK'
  BY DEF Inv, LinksTypeOK
<1> QED
  BY <1>1, <1>5, <1>6, <1>7 DEF Inv

(* What the invariant says of the drone that steps.                           *)
LEMMA Own ==
  ASSUME Inv, NEW d \in Drones
  PROVE  /\ ExplorerFunctions /\ DroneTypes(d) /\ Delivers(d) /\ MaxFound[d] \in Nat
         /\ pc \in [Drones -> [Threads -> FinderAt \cup MainAt]]
BY Bounds DEF Inv, ExplorerInv, ExplorerFunctions

(* The camera and the turns of the finder that find nothing.                  *)
LEMMA FinderTurns ==
  ASSUME Inv, UNCHANGED manager, NEW d \in Drones,
         Detects(d) \/ FinderLoops(d) \/ FinderTests(d) \/ GpsNotifies(d)
  PROVE  Inv'
<1> USE Own
<1>0. /\ UNCHANGED <<conns, orders, listening, datagrams, sent>>
      /\ UNCHANGED <<server, stopping, flying, sentinel, found, cut, next, end, lost, beats, swept>>
  BY DEF Detects, FinderLoops, FinderTests, GpsNotifies, links
<1>1. CASE Detects(d)
  <2>1. pc' = pc /\ boxes' = [boxes EXCEPT ![d] = @ + 1]
        /\ boxes[d] + found[d] + (IF pc[d].finder = "locate" THEN 1 ELSE 0) < MaxFound[d]
    BY <1>1 DEF Detects
  <2>2. ExplorerFunctions'
    BY <1>0, <2>1 DEF ExplorerFunctions
  <2>3. DroneTypes(d)'
    BY <1>0, <2>1 DEF ExplorerFunctions, DroneTypes
  <2>4. Delivers(d)'
    BY <1>0, <2>1 DEF Delivers, SentTo
  <2>5. \A x \in Drones : x # d => Untouched(x)
    BY <1>0, <2>1 DEF ExplorerFunctions, Untouched
  <2>6. \A k \in Nat : /\ FinderMaySend(d, k)' => FinderMaySend(d, k)
                       /\ MainMaySend(d, k)' => MainMaySend(d, k)
    BY <1>0, <2>1 DEF FinderMaySend, MainMaySend
  <2> QED
    BY <1>0, <2>1, <2>2, <2>3, <2>4, <2>5, <2>6, OwnStep
<1>2. CASE FinderLoops(d) \/ FinderTests(d) \/ GpsNotifies(d)
  <2>1. PICK to \in FinderAt :
          /\ Goes(d, "finder", to) /\ to \in {"ended", "test", "wait", "locate"}
          /\ pc[d].finder \in {"loop", "test", "wait"}
          /\ \/ to # "locate" /\ boxes' = boxes
             \/ boxes[d] > 0 /\ boxes' = [boxes EXCEPT ![d] = @ - 1]
    <3>1. CASE FinderLoops(d)
      BY <3>1 DEF FinderLoops, FinderAt
    <3>2. CASE FinderTests(d)
      BY <3>2 DEF FinderTests, FinderAt
    <3>3. CASE GpsNotifies(d)
      BY <3>3 DEF GpsNotifies, FinderAt
    <3> QED
      BY <1>2, <3>1, <3>2, <3>3
  <2>2. /\ pc' \in [Drones -> [Threads -> FinderAt \cup MainAt]]
        /\ pc'[d].finder = to /\ pc'[d].main = pc[d].main
        /\ \A x \in Drones : x # d => pc'[x] = pc[x]
    BY <2>1, GoesIs, ThreadsAre
  <2>b. /\ boxes \in [Drones -> Nat] /\ boxes' \in [Drones -> Nat] /\ found \in [Drones -> Nat]
        /\ \A x \in Drones : x # d => boxes'[x] = boxes[x]
        /\ boxes'[d] + (IF to = "locate" THEN 1 ELSE 0) <= boxes[d]
    <3>1. boxes \in [Drones -> Nat] /\ found \in [Drones -> Nat]
      BY DEF ExplorerFunctions
    <3>2. CASE to # "locate" /\ boxes' = boxes
      BY <3>1, <3>2
    <3>3. CASE boxes[d] > 0 /\ boxes' = [boxes EXCEPT ![d] = @ - 1]
      BY <3>1, <3>3
    <3> QED
      BY <2>1, <3>1, <3>2, <3>3
  <2>3. ExplorerFunctions'
    BY <1>0, <2>2, <2>b DEF ExplorerFunctions
  <2>4. DroneTypes(d)'
    <3>1. boxes'[d] + found'[d] + (IF pc'[d].finder = "locate" THEN 1 ELSE 0) <= MaxFound[d]
      BY <1>0, <2>1, <2>2, <2>b DEF DroneTypes
    <3> QED
      BY <1>0, <2>1, <2>2, <3>1 DEF DroneTypes
  <2>5. Delivers(d)'
    BY <1>0, <2>1, <2>2 DEF Delivers, SentTo
  <2>6. \A x \in Drones : x # d => Untouched(x)
    BY <1>0, <2>2, <2>b DEF Untouched
  <2>7. \A k \in Nat : /\ FinderMaySend(d, k)' => FinderMaySend(d, k)
                       /\ MainMaySend(d, k)' => MainMaySend(d, k)
    BY <1>0, <2>1, <2>2 DEF FinderMaySend, MainMaySend
  <2>8. \A t \in Threads : pc[d][t] = "send" => pc'[d][t] = "send"
    BY <2>1, <2>2, ThreadsAre
  <2> QED
    BY <1>0, <2>2, <2>3, <2>4, <2>5, <2>6, <2>7, <2>8, OwnStep
<1> QED
  BY <1>1, <1>2

(* A detection becomes a coordinate, or does not.                             *)
LEMMA LocatesKeeps ==
  ASSUME Inv, UNCHANGED manager, NEW d \in Drones, Locates(d)
  PROVE  Inv'
<1> USE Own
<1>0. /\ UNCHANGED <<conns, orders, listening, datagrams, sent>>
      /\ UNCHANGED <<server, stopping, flying, sentinel, boxes, cut, next, end, lost, beats, swept>>
      /\ pc[d].finder = "locate"
  BY DEF Locates, links
<1>1. PICK to \in FinderAt :
        /\ Goes(d, "finder", to) /\ to \in {"connect", "loop"}
        /\ found' = found \/ found' = [found EXCEPT ![d] = @ + 1]
  BY DEF Locates, FinderAt
<1>2. /\ pc' \in [Drones -> [Threads -> FinderAt \cup MainAt]]
      /\ pc'[d].finder = to /\ pc'[d].main = pc[d].main
      /\ \A x \in Drones : x # d => pc'[x] = pc[x]
  BY <1>1, GoesIs, ThreadsAre
<1>3. /\ found \in [Drones -> Nat] /\ found' \in [Drones -> Nat]
      /\ \A x \in Drones : x # d => found'[x] = found[x]
      /\ found'[d] = found[d] \/ found'[d] = found[d] + 1
  <2>1. found \in [Drones -> Nat]
    BY DEF ExplorerFunctions
  <2> QED
    BY <1>1, <2>1
<1>4. ExplorerFunctions'
  BY <1>0, <1>2, <1>3 DEF ExplorerFunctions
<1>5. DroneTypes(d)'
  <2>1. /\ boxes[d] \in Nat /\ cut[d] \in Nat /\ swept[d] \in Nat
        /\ \A t \in Threads : next[d][t] \in Nat /\ end[d][t] \in Nat
    BY DEF ExplorerFunctions
  <2>2. boxes[d] + found[d] + 1 <= MaxFound[d] /\ cut[d] <= found[d] /\ swept[d] <= found[d]
        /\ beats[d] <= MaxBeats[d] /\ pc[d].main \in MainAt
        /\ \A t \in Threads : next[d][t] \in 1 .. found[d] + 1 /\ end[d][t] \in 0 .. found[d] + 1
    BY <1>0 DEF DroneTypes
  <2> QED
    BY <1>0, <1>1, <1>2, <1>3, <2>1, <2>2 DEF DroneTypes
<1>6. Delivers(d)'
  BY <1>0, <1>1, <1>2 DEF Delivers, SentTo
<1>7. \A x \in Drones : x # d => Untouched(x)
  BY <1>0, <1>2, <1>3 DEF Untouched
<1>8. \A k \in Nat : /\ FinderMaySend(d, k)' => FinderMaySend(d, k)
                     /\ MainMaySend(d, k)' => MainMaySend(d, k)
  BY <1>0, <1>1, <1>2 DEF FinderMaySend, MainMaySend
<1>9. \A t \in Threads : pc[d][t] = "send" => pc'[d][t] = "send"
  BY <1>0, <1>2, ThreadsAre
<1> QED
  BY <1>0, <1>2, <1>4, <1>5, <1>6, <1>7, <1>8, <1>9, OwnStep

(* The main thread has joined the server and the heartbeat.                   *)
LEMMA JoinsKeeps ==
  ASSUME Inv, UNCHANGED manager, NEW d \in Drones, Joins(d)
  PROVE  Inv'
<1> USE Own
<1>0. /\ UNCHANGED <<conns, orders, listening, datagrams, sent>>
      /\ UNCHANGED <<server, stopping, flying, sentinel, boxes, found, cut, next, end, lost, beats,
                     swept>>
      /\ pc[d].main = "join" /\ Goes(d, "main", "connect")
  BY DEF Joins, links
<1>1. /\ pc' \in [Drones -> [Threads -> FinderAt \cup MainAt]]
      /\ pc'[d].main = "connect" /\ pc'[d].finder = pc[d].finder
      /\ \A x \in Drones : x # d => pc'[x] = pc[x]
  BY <1>0, GoesIs, ThreadsAre DEF MainAt
<1>2. ExplorerFunctions'
  BY <1>0, <1>1 DEF ExplorerFunctions
<1>3. DroneTypes(d)'
  BY <1>0, <1>1 DEF DroneTypes, MainAt
<1>4. Delivers(d)'
  BY <1>0, <1>1 DEF Delivers, SentTo, Delivering
<1>5. \A x \in Drones : x # d => Untouched(x)
  BY <1>0, <1>1 DEF Untouched
<1>6. \A k \in Nat : /\ FinderMaySend(d, k)' => FinderMaySend(d, k)
                     /\ MainMaySend(d, k)' => MainMaySend(d, k)
  BY <1>0, <1>1 DEF FinderMaySend, MainMaySend
<1>7. \A t \in Threads : pc[d][t] = "send" => pc'[d][t] = "send"
  BY <1>0, <1>1, ThreadsAre
<1> QED
  BY <1>0, <1>1, <1>2, <1>3, <1>4, <1>5, <1>6, <1>7, OwnStep

(* The list a thread walked is forgotten.                                     *)
LEMMA ForgetsIs ==
  ASSUME ExplorerFunctions, NEW d \in Drones, NEW t \in Threads, ForgetsList(d, t)
  PROVE  /\ next' \in [Drones -> [Threads -> Nat]] /\ end' \in [Drones -> [Threads -> Nat]]
         /\ \A x \in Drones : x # d => next'[x] = next[x] /\ end'[x] = end[x]
         /\ \A u \in Threads : u # t => next'[d][u] = next[d][u] /\ end'[d][u] = end[d][u]
         /\ next'[d][t] = 1 /\ end'[d][t] = 0
BY DEF ExplorerFunctions, ForgetsList

(* The drone after its list is forgotten, whichever state the thread goes to.   *)
LEMMA ForgetsTypes ==
  ASSUME Inv, NEW d \in Drones, NEW t \in Threads, NEW to, ForgetsList(d, t), Goes(d, t, to),
         to \in FinderAt /\ to \in MainAt, to # "locate", pc[d][t] = "send",
         UNCHANGED <<server, stopping, flying, boxes, sentinel, found, cut, lost, beats, sent, swept>>
  PROVE  ExplorerFunctions' /\ DroneTypes(d)' /\ \A x \in Drones : x # d => Untouched(x)
<1> USE Own
<1>1. /\ next' \in [Drones -> [Threads -> Nat]] /\ end' \in [Drones -> [Threads -> Nat]]
      /\ \A x \in Drones : x # d => next'[x] = next[x] /\ end'[x] = end[x]
      /\ \A u \in Threads : u # t => next'[d][u] = next[d][u] /\ end'[d][u] = end[d][u]
      /\ next'[d][t] = 1 /\ end'[d][t] = 0
  BY ForgetsIs
<1>2. /\ pc' \in [Drones -> [Threads -> FinderAt \cup MainAt]]
      /\ pc'[d][t] = to
      /\ \A x \in Drones : x # d => pc'[x] = pc[x]
      /\ \A u \in Threads : u # t => pc'[d][u] = pc[d][u]
  BY GoesIs
<1>3. ExplorerFunctions'
  BY <1>1, <1>2 DEF ExplorerFunctions
<1>4. \A x \in Drones : x # d => Untouched(x)
  BY <1>1, <1>2 DEF Untouched
<1>5. DroneTypes(d)'
  <2>1. pc'[d].finder \in FinderAt /\ pc'[d].main \in MainAt
        /\ (pc'[d].finder = "locate" <=> pc[d].finder = "locate")
    BY <1>2, ThreadsAre DEF DroneTypes
  <2>2. \A u \in Threads : next'[d][u] \in 1 .. found[d] + 1 /\ end'[d][u] \in 0 .. found[d] + 1
    <3>1. found[d] \in Nat
      BY DEF ExplorerFunctions
    <3>2. \A u \in Threads : next[d][u] \in 1 .. found[d] + 1 /\ end[d][u] \in 0 .. found[d] + 1
      BY DEF DroneTypes
    <3> QED
      BY <1>1, <3>1, <3>2
  <2> QED
    BY <2>1, <2>2 DEF DroneTypes
<1> QED
  BY <1>3, <1>4, <1>5

(* A thread whose connection was reset dies.                                  *)
LEMMA SendFailsKeeps ==
  ASSUME Inv, UNCHANGED manager, NEW d \in Drones, NEW t \in Threads, SendFails(d, t)
  PROVE  Inv'
<1> USE Own
<1>0. /\ UNCHANGED <<conns, orders, listening, datagrams>>
      /\ UNCHANGED <<server, stopping, flying, boxes, sentinel, found, cut, lost, beats, sent, swept>>
      /\ pc[d][t] = "send" /\ Goes(d, t, "died") /\ ForgetsList(d, t) /\ IsReset(<<d, t>>)
      /\ "died" \in FinderAt /\ "died" \in MainAt
  BY DEF SendFails, links, FinderAt, MainAt
<1>1. /\ pc'[d][t] = "died"
      /\ \A u \in Threads : u # t => /\ pc'[d][u] = pc[d][u]
                                     /\ next'[d][u] = next[d][u] /\ end'[d][u] = end[d][u]
  BY <1>0, GoesIs, ForgetsIs
<1>2. ExplorerFunctions' /\ DroneTypes(d)' /\ \A x \in Drones : x # d => Untouched(x)
  BY <1>0, ForgetsTypes
<1>3. Delivers(d)' /\ \A k \in Nat : /\ FinderMaySend(d, k)' => FinderMaySend(d, k)
                                     /\ MainMaySend(d, k)' => MainMaySend(d, k)
  <2>1. CASE t = "finder"
    <3>1. /\ pc'[d].finder = "died" /\ pc'[d].main = pc[d].main
          /\ next'[d].main = next[d].main /\ end'[d].main = end[d].main
      BY <1>1, <2>1, ThreadsAre
    <3> QED
      BY <1>0, <3>1 DEF Delivers, SentTo, FinderMaySend, MainMaySend
  <2>2. CASE t = "main"
    <3>1. /\ pc'[d].main = "died" /\ pc'[d].finder = pc[d].finder
          /\ next'[d].finder = next[d].finder /\ end'[d].finder = end[d].finder
      BY <1>1, <2>2, ThreadsAre
    <3> QED
      BY <1>0, <3>1 DEF Delivers, SentTo, Delivering, FinderMaySend, MainMaySend
  <2> QED
    BY <2>1, <2>2, ThreadsAre
<1>4. \A u \in Threads : pc[d][u] = "send" => pc'[d][u] = "send" \/ IsReset(<<d, u>>)
  BY <1>0, <1>1
<1>5. pc[d].main = "ended" => pc[d].main' = "ended"
  BY <1>0, <1>1, ThreadsAre
<1> QED
  BY <1>0, <1>2, <1>3, <1>4, <1>5, OwnStep

(* A thread throws the buffer away, and cuts off the list the other one walks. *)
LEMMA ResetsKeeps ==
  ASSUME Inv, UNCHANGED manager, NEW d \in Drones, NEW t \in Threads, Resets(d, t)
  PROVE  Inv'
<1> USE Own
<1>0. /\ UNCHANGED <<conns, orders, listening, datagrams>>
      /\ UNCHANGED <<server, stopping, flying, boxes, sentinel, found, next, lost, beats, sent, swept>>
      /\ pc[d][t] = "reset"
      /\ Goes(d, t, IF t = "main" THEN "finish" ELSE "loop")
      /\ cut' = [cut EXCEPT ![d] = found[d]]
      /\ end' = [end EXCEPT ![d] =
                   [u \in Threads |-> IF u # t /\ pc[d][u] = "send" /\ @[u] = 0 THEN found[d] + 1
                                      ELSE @[u]]]
  BY DEF Resets, links
<1>1. PICK to : to = IF t = "main" THEN "finish" ELSE "loop"
  OBVIOUS
<1>2. /\ pc' \in [Drones -> [Threads -> FinderAt \cup MainAt]]
      /\ pc'[d][t] = to
      /\ \A x \in Drones : x # d => pc'[x] = pc[x]
      /\ \A u \in Threads : u # t => pc'[d][u] = pc[d][u]
  <2>1. to \in FinderAt \cup MainAt
    BY <1>1 DEF FinderAt, MainAt
  <2> QED
    BY <1>0, <1>1, <2>1, GoesIs
<1>3. /\ cut' \in [Drones -> Nat] /\ cut'[d] = found[d] /\ found[d] \in Nat /\ cut[d] \in Nat
      /\ \A x \in Drones : x # d => cut'[x] = cut[x]
  BY <1>0 DEF ExplorerFunctions
<1>4. /\ end' \in [Drones -> [Threads -> Nat]]
      /\ \A x \in Drones : x # d => end'[x] = end[x]
      /\ \A u \in Threads : end'[d][u] = IF u # t /\ pc[d][u] = "send" /\ end[d][u] = 0
                                         THEN found[d] + 1 ELSE end[d][u]
  <2>1. end \in [Drones -> [Threads -> Nat]]
    BY DEF ExplorerFunctions
  <2>2. PICK e : e = [u \in Threads |-> IF u # t /\ pc[d][u] = "send" /\ end[d][u] = 0
                                        THEN found[d] + 1 ELSE end[d][u]]
    OBVIOUS
  <2>3. e \in [Threads -> Nat]
    BY <1>3, <2>1, <2>2
  <2>4. end' = [end EXCEPT ![d] = e]
    BY <1>0, <2>2, Zenon
  <2> QED
    BY <2>1, <2>2, <2>3, <2>4
<1>5. ExplorerFunctions'
  BY <1>0, <1>2, <1>3, <1>4 DEF ExplorerFunctions
<1>6. \A x \in Drones : x # d => Untouched(x)
  BY <1>0, <1>2, <1>3, <1>4 DEF Untouched
<1>7. DroneTypes(d)'
  <2>1. pc'[d].finder \in FinderAt /\ pc'[d].main \in MainAt
        /\ (pc'[d].finder = "locate" => pc[d].finder = "locate")
    BY <1>1, <1>2, ThreadsAre DEF DroneTypes, FinderAt, MainAt
  <2>2. \A u \in Threads : next'[d][u] \in 1 .. found[d] + 1 /\ end'[d][u] \in 0 .. found[d] + 1
    BY <1>0, <1>3, <1>4 DEF DroneTypes
  <2>3. boxes[d] \in Nat /\ swept[d] \in Nat
    BY DEF ExplorerFunctions
  <2>4. boxes[d] + found[d] + (IF pc'[d].finder = "locate" THEN 1 ELSE 0) <= MaxFound[d]
    BY <1>3, <2>1, <2>3 DEF DroneTypes
  <2> QED
    BY <1>0, <1>3, <2>1, <2>2, <2>4 DEF DroneTypes
<1>8. Delivers(d)' /\ \A k \in Nat : /\ FinderMaySend(d, k)' => FinderMaySend(d, k)
                                     /\ MainMaySend(d, k)' => MainMaySend(d, k)
  <2>0. swept[d] \in Nat /\ swept[d] <= found[d] /\ cut[d] <= found[d]
    BY DEF ExplorerFunctions, DroneTypes
  <2>1. CASE t = "finder"
    <3>1. /\ pc'[d].finder = "loop" /\ pc'[d].main = pc[d].main /\ pc[d].finder = "reset"
          /\ end'[d].main = (IF pc[d].main = "send" /\ end[d].main = 0 THEN found[d] + 1
                             ELSE end[d].main)
      BY <1>0, <1>1, <1>2, <1>4, <2>1, ThreadsAre
    <3>2. Delivers(d)'
      BY <1>0, <1>3, <2>0, <3>1 DEF Delivers, SentTo
    <3>3. \A k \in Nat : /\ FinderMaySend(d, k)' => FinderMaySend(d, k)
                         /\ MainMaySend(d, k)' => MainMaySend(d, k)
      BY <1>0, <1>3, <3>1 DEF FinderMaySend, MainMaySend
    <3> QED
      BY <3>2, <3>3
  <2>2. CASE t = "main"
    <3>1. /\ pc'[d].main = "finish" /\ pc'[d].finder = pc[d].finder /\ pc[d].main = "reset"
      BY <1>0, <1>1, <1>2, <2>2, ThreadsAre
    <3>2. Delivers(d)'
      BY <1>0, <3>1 DEF Delivers, SentTo, Delivering
    <3>3. \A k \in Nat : /\ FinderMaySend(d, k)' => FinderMaySend(d, k)
                         /\ MainMaySend(d, k)' => MainMaySend(d, k)
      BY <1>0, <1>3, <2>0, <3>1 DEF FinderMaySend, MainMaySend
    <3> QED
      BY <3>2, <3>3
  <2> QED
    BY <2>1, <2>2, ThreadsAre
<1>9. \A u \in Threads : pc[d][u] = "send" => pc'[d][u] = "send"
  BY <1>0, <1>2
<1>10. pc[d].main = "ended" => pc[d].main' = "ended"
  BY <1>0, <1>2, ThreadsAre
<1> QED
  BY <1>0, <1>5, <1>6, <1>7, <1>8, <1>9, <1>10, OwnStep

(* A step of a thread on its connection: what remains to be shown.             *)
LEMMA ThreadStep ==
  ASSUME Inv, NEW d \in Drones, UNCHANGED <<manager, orders, listening, datagrams>>,
         \A x \in Drones : x # d => Untouched(x), sent \subseteq sent',
         ExplorerFunctions', DroneTypes(d)', Delivers(d)',
         conns' \in Seq(Connections), conns # <<>> => conns' # <<>>,
         HeldInv', OnceInv', pc[d].main = "ended" => pc[d].main' = "ended"
  PROVE  Inv'
<1>1. ExplorerInv'
  <2>1. ASSUME NEW x \in Drones
        PROVE  DroneTypes(x)' /\ Delivers(x)'
    <3>1. CASE x = d
      BY <3>1
    <3>2. CASE x # d
      <4>1. DroneTypes(x) /\ Delivers(x) /\ Untouched(x)
        BY <3>2 DEF Inv, ExplorerInv
      <4> QED
        BY <4>1, OthersKeep
    <3> QED
      BY <3>1, <3>2
  <2> QED
    BY <2>1 DEF ExplorerInv
<1>2. CountInv'
  <2>1. \A x \in Drones : pc[x].main = "ended" => pc[x].main' = "ended"
    BY DEF Untouched
  <2> QED
    BY <2>1, NobodyFinishes
<1>3. LinksTypeOK'
  BY DEF Inv, LinksTypeOK
<1>4. ManagerInv'
  BY ManagerRests DEF Inv
<1> QED
  BY <1>1, <1>2, <1>3, <1>4 DEF Inv

(* A thread connects, and takes the buffer to walk.                           *)
LEMMA ConnectsKeeps ==
  ASSUME Inv, UNCHANGED manager, NEW d \in Drones, NEW t \in Threads, Connects(d, t)
  PROVE  Inv'
<1> USE Own
<1>0. /\ UNCHANGED <<orders, datagrams, listening>>
      /\ UNCHANGED <<server, stopping, flying, boxes, sentinel, found, cut, lost, beats, sent>>
      /\ pc[d][t] = "connect" /\ Goes(d, t, "send")
      /\ conns' = Append(conns, Connection(<<>>, <<d, t>>))
      /\ next' = [next EXCEPT ![d][t] = cut[d] + 1] /\ end' = [end EXCEPT ![d][t] = 0]
      /\ swept' = IF t = "main" THEN [swept EXCEPT ![d] = found[d]] ELSE swept
      /\ conns \in Seq(Connections) /\ HeldInv /\ OnceInv
  BY DEF Connects, Inv, LinksTypeOK
<1>1. /\ pc' \in [Drones -> [Threads -> FinderAt \cup MainAt]]
      /\ pc'[d][t] = "send"
      /\ \A x \in Drones : x # d => pc'[x] = pc[x]
      /\ \A u \in Threads : u # t => pc'[d][u] = pc[d][u]
  BY <1>0, GoesIs DEF FinderAt
<1>2. /\ next' \in [Drones -> [Threads -> Nat]] /\ end' \in [Drones -> [Threads -> Nat]]
      /\ \A x \in Drones : x # d => next'[x] = next[x] /\ end'[x] = end[x]
      /\ \A u \in Threads : u # t => next'[d][u] = next[d][u] /\ end'[d][u] = end[d][u]
      /\ next'[d][t] = cut[d] + 1 /\ end'[d][t] = 0 /\ cut[d] \in Nat /\ found[d] \in Nat
  BY <1>0 DEF ExplorerFunctions
<1>3. /\ swept' \in [Drones -> Nat] /\ swept'[d] \in {swept[d], found[d]}
      /\ \A x \in Drones : x # d => swept'[x] = swept[x]
      /\ t # "main" => swept'[d] = swept[d]
  BY <1>0 DEF ExplorerFunctions
<1>4. ExplorerFunctions'
  BY <1>0, <1>1, <1>2, <1>3 DEF ExplorerFunctions
<1>5. \A x \in Drones : x # d => Untouched(x)
  BY <1>0, <1>1, <1>2, <1>3 DEF Untouched
<1>6. DroneTypes(d)'
  <2>1. pc'[d].finder \in FinderAt /\ pc'[d].main \in MainAt
        /\ (pc'[d].finder = "locate" => pc[d].finder = "locate")
    BY <1>1, ThreadsAre DEF DroneTypes, FinderAt, MainAt
  <2>2. \A u \in Threads : next'[d][u] \in 1 .. found[d] + 1 /\ end'[d][u] \in 0 .. found[d] + 1
    BY <1>2 DEF DroneTypes
  <2>3. boxes[d] \in Nat
    BY DEF ExplorerFunctions
  <2>4. boxes[d] + found[d] + (IF pc'[d].finder = "locate" THEN 1 ELSE 0) <= MaxFound[d]
    BY <1>2, <2>1, <2>3 DEF DroneTypes
  <2> QED
    BY <1>0, <1>2, <1>3, <2>1, <2>2, <2>4 DEF DroneTypes
<1>7. Delivers(d)' /\ \A k \in Nat : /\ FinderMaySend(d, k)' => FinderMaySend(d, k)
                                     /\ MainMaySend(d, k)' => MainMaySend(d, k)
  <2>1. CASE t = "finder"
    <3>1. /\ pc'[d].finder = "send" /\ pc'[d].main = pc[d].main /\ pc[d].finder = "connect"
          /\ next'[d].finder = cut[d] + 1 /\ end'[d].finder = 0 /\ swept'[d] = swept[d]
          /\ next'[d].main = next[d].main /\ end'[d].main = end[d].main
      BY <1>0, <1>1, <1>2, <1>3, <2>1, ThreadsAre
    <3>2. Delivers(d)'
      BY <1>0, <1>2, <3>1 DEF Delivers, SentTo
    <3>3. \A k \in Nat : /\ FinderMaySend(d, k)' => FinderMaySend(d, k)
                         /\ MainMaySend(d, k)' => MainMaySend(d, k)
      BY <1>0, <1>2, <3>1 DEF FinderMaySend, MainMaySend
    <3> QED
      BY <3>2, <3>3
  <2>2. CASE t = "main"
    <3>1. /\ pc'[d].main = "send" /\ pc'[d].finder = pc[d].finder /\ pc[d].main = "connect"
          /\ next'[d].main = cut[d] + 1 /\ end'[d].main = 0
          /\ next'[d].finder = next[d].finder /\ end'[d].finder = end[d].finder
      BY <1>0, <1>1, <1>2, <2>2, ThreadsAre
    <3>2. Delivers(d)'
      BY <1>0, <1>2, <3>1 DEF Delivers, SentTo, Delivering
    <3>3. \A k \in Nat : /\ FinderMaySend(d, k)' => FinderMaySend(d, k)
                         /\ MainMaySend(d, k)' => MainMaySend(d, k)
      BY <1>0, <3>1 DEF FinderMaySend, MainMaySend
    <3> QED
      BY <3>2, <3>3
  <2> QED
    BY <2>1, <2>2, ThreadsAre
<1>8. PICK e : e = Connection(<<>>, <<d, t>>)
  OBVIOUS
<1>9. e \in Connections /\ e.lines = <<>> /\ e.holder = <<d, t>>
  <2>1. <<>> \in Seq(Lines) /\ <<d, t>> \in (Drones \X Threads) \cup {Closed}
    OBVIOUS
  <2> QED
    BY <1>8, <2>1, ConnectionIs
<1>10. /\ conns' \in Seq(Connections) /\ conns' # <<>>
       /\ \A c \in Coords : Places(conns', c) = Places(conns, c)
  <2>1. \A c \in Coords : /\ Append(conns, e) \in Seq(Connections) /\ Append(conns, e) # <<>>
                          /\ Places(Append(conns, e), c) = Places(conns, c)
    BY <1>0, <1>9, AppendKeeps
  <2>2. conns' = Append(conns, e) /\ conns' \in Seq(Connections) /\ conns' # <<>>
    BY <1>0, <1>8, <1>9
  <2> QED
    BY <2>1, <2>2
<1>11. HeldInv'
  <2>1. /\ DOMAIN conns' = 1 .. Len(conns) + 1 /\ DOMAIN conns = 1 .. Len(conns)
        /\ Len(conns) \in Nat /\ conns'[Len(conns) + 1] = e
        /\ \A i \in DOMAIN conns : conns'[i] = conns[i]
    BY <1>0, <1>8, <1>9
  <2>2. \A i \in DOMAIN conns : conns[i].holder # <<d, t>>
    BY <1>0 DEF HeldInv
  <2>3. ASSUME NEW i \in DOMAIN conns', NEW j \in DOMAIN conns',
               conns'[i].holder = conns'[j].holder, conns'[i].holder # Closed
        PROVE  i = j
    <3>1. CASE i \in DOMAIN conns /\ j \in DOMAIN conns
      BY <1>0, <2>1, <2>3, <3>1 DEF HeldInv
    <3>2. CASE ~(i \in DOMAIN conns /\ j \in DOMAIN conns)
      BY <1>9, <2>1, <2>2, <2>3, <3>2
    <3> QED
      BY <3>1, <3>2
  <2>4. ASSUME NEW i \in DOMAIN conns', NEW x \in Drones, NEW u \in Threads,
               conns'[i].holder = <<x, u>>
        PROVE  pc'[x][u] = "send"
    <3>1. CASE i \in DOMAIN conns
      <4>1. pc[x][u] = "send"
        BY <1>0, <2>1, <2>4, <3>1 DEF HeldInv
      <4> QED
        BY <1>0, <1>1, <4>1
    <3>2. CASE i \notin DOMAIN conns
      <4>1. <<x, u>> = <<d, t>>
        BY <1>9, <2>1, <2>4, <3>2
      <4> QED
        BY <1>1, <4>1
    <3> QED
      BY <3>1, <3>2
  <2> QED
    BY <2>3, <2>4 DEF HeldInv
<1>12. OnceInv'
  <2>1. ASSUME NEW c \in Coords
        PROVE  /\ IsFiniteSet(Places(conns', c)) /\ Cardinality(Places(conns', c)) \in Nat
               /\ Cardinality(Places(conns', c)) <= Cardinality(Places(conns, c))
    <3>1. IsFiniteSet(Places(conns, c)) /\ Places(conns', c) = Places(conns, c)
      BY <1>0, <1>10 DEF OnceInv
    <3>2. Cardinality(Places(conns, c)) \in Nat
      BY <3>1, FS_CardinalityType
    <3> QED
      BY <3>1, <3>2
  <2>2. ASSUME NEW x \in Drones, NEW k \in Nat
        PROVE  /\ FinderMaySend(x, k)' => FinderMaySend(x, k)
               /\ MainMaySend(x, k)' => MainMaySend(x, k)
    <3>1. CASE x = d
      BY <1>7, <3>1
    <3>2. CASE x # d
      BY <1>5, <3>2, OthersSend
    <3> QED
      BY <3>1, <3>2
  <2>3. received' = received
    BY DEF manager
  <2> QED
    BY <2>1, <2>2, <2>3, NobodySends
<1>13. pc[d].main = "ended" => pc[d].main' = "ended"
  BY <1>0, <1>1, ThreadsAre
<1> QED
  BY <1>0, <1>4, <1>5, <1>6, <1>7, <1>10, <1>11, <1>12, <1>13, ThreadStep

(* A thread writes the next coordinate of its walk: its own chance is spent,   *)
(* and one place is added.                                                  *)
LEMMA SendsKeeps ==
  ASSUME Inv, UNCHANGED manager, NEW d \in Drones, NEW t \in Threads, Sends(d, t)
  PROVE  Inv'
<1> USE Own
<1>0. /\ UNCHANGED <<orders, datagrams, listening, received>>
      /\ UNCHANGED <<server, stopping, flying, boxes, sentinel, found, cut, pc, end, lost, beats,
                     swept>>
      /\ pc[d][t] = "send" /\ next[d][t] < WalkEnds(d, t)
      /\ conns' = Write(<<d, t>>, Coordinates(<<d, next[d][t]>>))
      /\ sent' = sent \cup {<<d, next[d][t]>>}
      /\ next' = [next EXCEPT ![d][t] = @ + 1]
      /\ conns \in Seq(Connections) /\ HeldInv /\ OnceInv
  BY DEF Sends, Inv, LinksTypeOK, manager
<1>1. /\ found[d] \in Nat /\ found[d] <= MaxFound[d] /\ swept[d] \in Nat
      /\ \A u \in Threads : next[d][u] \in 1 .. found[d] + 1 /\ end[d][u] \in 0 .. found[d] + 1
      /\ next[d][t] \in Nat /\ end[d][t] \in Nat
  <2>1. found[d] \in Nat /\ swept[d] \in Nat /\ boxes[d] \in Nat
        /\ next[d][t] \in Nat /\ end[d][t] \in Nat
    BY DEF ExplorerFunctions
  <2>2. /\ boxes[d] + found[d] + (IF pc[d].finder = "locate" THEN 1 ELSE 0) <= MaxFound[d]
        /\ \A u \in Threads : next[d][u] \in 1 .. found[d] + 1 /\ end[d][u] \in 0 .. found[d] + 1
    BY DEF DroneTypes
  <2>3. found[d] <= MaxFound[d]
    BY <2>1, <2>2
  <2> QED
    BY <2>1, <2>2, <2>3
<1>2. PICK k : k = next[d][t]
  OBVIOUS
<1>3. k \in 1 .. MaxFound[d] /\ k <= found[d] /\ <<d, k>> \in Coords
  <2>1. k \in 1 .. MaxFound[d] /\ k <= found[d]
    BY <1>0, <1>1, <1>2 DEF WalkEnds
  <2> QED
    BY <2>1, CoordIs
<1>4. /\ next' \in [Drones -> [Threads -> Nat]]
      /\ \A x \in Drones : x # d => next'[x] = next[x]
      /\ \A u \in Threads : u # t => next'[d][u] = next[d][u]
      /\ next'[d][t] = k + 1
  BY <1>0, <1>2, <1>3 DEF ExplorerFunctions
<1>5. ExplorerFunctions'
  BY <1>0, <1>2, <1>3, <1>4 DEF ExplorerFunctions
<1>6. \A x \in Drones : x # d => Untouched(x)
  BY <1>0, <1>4 DEF Untouched
<1>7. DroneTypes(d)'
  <2>1. \A u \in Threads : next'[d][u] \in 1 .. found[d] + 1
    BY <1>1, <1>3, <1>4
  <2> QED
    BY <1>0, <2>1 DEF DroneTypes
<1>8. Delivers(d)'
  <2> DEFINE Now(n) == \A m \in 1 .. n : <<d, m>> \in sent'
  <2>1. \A n : SentTo(d, n) => Now(n)
    BY <1>0 DEF SentTo
  <2>2. SentTo(d, k - 1) => Now(k)
    BY <1>0, <1>2, <1>3 DEF SentTo
  <2>3. CASE t = "finder"
    <3>1. /\ pc[d].finder = "send" /\ next'[d].finder = k + 1 /\ next[d].finder = k
          /\ next'[d].main = next[d].main
      BY <1>0, <1>2, <1>4, <2>3, ThreadsAre
    <3>2. pc[d].main \in Delivering => Now(cut[d]) /\ end[d].finder = 0 /\ Now(k)
      <4>1. ASSUME pc[d].main \in Delivering
            PROVE  SentTo(d, cut[d]) /\ end[d].finder = 0 /\ SentTo(d, k - 1)
        BY <3>1, <4>1 DEF Delivers
      <4> QED
        BY <2>1, <2>2, <4>1
    <3>3. pc[d].main = "send" =>
            Now(next[d].main - 1) /\ (end[d].main = 0 \/ end[d].main > swept[d])
      BY <2>1 DEF Delivers
    <3>4. pc[d].main \in {"reset", "finish", "ended"} => Now(swept[d])
      BY <2>1 DEF Delivers
    <3>5. next'[d].finder - 1 = k
      BY <1>3, <3>1
    <3>6. pc' = pc /\ end' = end /\ cut' = cut /\ found' = found /\ swept' = swept
      BY <1>0
    <3> HIDE DEF Now
    <3>7. /\ pc'[d].main \in Delivering =>
               /\ Now(cut'[d])
               /\ pc'[d].finder = "send" => end'[d].finder = 0 /\ Now(next'[d].finder - 1)
               /\ pc'[d].finder = "reset" => Now(found'[d])
          /\ pc'[d].main = "send" =>
               Now(next'[d].main - 1) /\ (end'[d].main = 0 \/ end'[d].main > swept'[d])
          /\ pc'[d].main \in {"reset", "finish", "ended"} => Now(swept'[d])
      <4>1. pc'[d].main = pc[d].main /\ pc'[d].finder = pc[d].finder
            /\ end'[d].finder = end[d].finder /\ end'[d].main = end[d].main
            /\ cut'[d] = cut[d] /\ swept'[d] = swept[d] /\ next'[d].main = next[d].main
        BY <3>1, <3>6
      <4>2. pc'[d].finder # "reset"
        BY <3>1, <4>1
      <4> QED
        BY <3>2, <3>3, <3>4, <3>5, <4>1, <4>2, Zenon
    <3> USE DEF Now
    <3> QED
      BY <3>7, Zenon DEF Delivers, SentTo
  <2>4. CASE t = "main"
    <3>1. /\ pc[d].main = "send" /\ next'[d].main = k + 1 /\ next[d].main = k
          /\ next'[d].finder = next[d].finder
      BY <1>0, <1>2, <1>4, <2>4, ThreadsAre
    <3>2. Now(k) /\ (end[d].main = 0 \/ end[d].main > swept[d])
      <4>1. SentTo(d, k - 1) /\ (end[d].main = 0 \/ end[d].main > swept[d])
        BY <3>1 DEF Delivers
      <4> QED
        BY <2>2, <4>1
    <3>3. /\ Now(cut[d])
          /\ pc[d].finder = "send" => end[d].finder = 0 /\ Now(next[d].finder - 1)
          /\ pc[d].finder = "reset" => Now(found[d])
      BY <2>1, <3>1 DEF Delivers, Delivering
    <3>4. next'[d].main - 1 = k
      BY <1>3, <3>1
    <3>5. pc' = pc /\ end' = end /\ cut' = cut /\ found' = found /\ swept' = swept
      BY <1>0
    <3> HIDE DEF Now
    <3>6. /\ pc'[d].main \in Delivering =>
               /\ Now(cut'[d])
               /\ pc'[d].finder = "send" => end'[d].finder = 0 /\ Now(next'[d].finder - 1)
               /\ pc'[d].finder = "reset" => Now(found'[d])
          /\ pc'[d].main = "send" =>
               Now(next'[d].main - 1) /\ (end'[d].main = 0 \/ end'[d].main > swept'[d])
          /\ pc'[d].main \in {"reset", "finish", "ended"} => Now(swept'[d])
      <4>1. pc'[d].main = pc[d].main /\ pc'[d].finder = pc[d].finder
            /\ end'[d].finder = end[d].finder /\ end'[d].main = end[d].main
            /\ cut'[d] = cut[d] /\ found'[d] = found[d] /\ swept'[d] = swept[d]
            /\ next'[d].finder = next[d].finder
        BY <3>1, <3>5
      <4>2. pc'[d].main = "send" /\ pc'[d].main \notin {"reset", "finish", "ended"}
        BY <3>1, <4>1
      <4> QED
        BY <3>2, <3>3, <3>4, <4>1, <4>2, Zenon
    <3> USE DEF Now
    <3> QED
      BY <3>6, Zenon DEF Delivers, SentTo
  <2> QED
    BY <2>3, <2>4, ThreadsAre
<1>9. PICK line : line = Coordinates(<<d, k>>)
  OBVIOUS
<1>10. line \in Lines
  BY <1>3, <1>9 DEF Lines
<1>11. /\ conns' \in Seq(Connections) /\ DOMAIN conns' = DOMAIN conns
       /\ \A i \in DOMAIN conns : conns'[i].holder = conns[i].holder
  <2>1. PICK r : r = Write(<<d, t>>, line)
    OBVIOUS
  <2>2. /\ r \in Seq(Connections) /\ DOMAIN r = DOMAIN conns
        /\ \A i \in DOMAIN conns : r[i].holder = conns[i].holder
    BY <1>0, <1>10, <2>1, WriteIs
  <2>3. conns' = r
    BY <1>0, <1>2, <1>9, <2>1
  <2> QED
    BY <2>2, <2>3
<1>12. HeldInv' /\ (conns # <<>> => conns' # <<>>)
  <2>0. pc' = pc /\ HeldInv /\ conns \in Seq(Connections)
    BY <1>0
  <2>1. HeldInv'
    BY <1>11, <2>0 DEF HeldInv
  <2>2. conns # <<>> => conns' # <<>>
    BY <1>11, <2>0
  <2> QED
    BY <2>1, <2>2
<1>13. OnceInv'
  <2>1. ASSUME NEW i \in DOMAIN conns, NEW j \in DOMAIN conns,
               conns[i].holder = <<d, t>> /\ conns[j].holder = <<d, t>>
        PROVE  i = j
    BY <1>0, <2>1, HolderIs DEF HeldInv
  <2>2. ASSUME NEW c \in Coords
        PROVE  /\ IsFiniteSet(Places(conns', c))
               /\ received[c] + Cardinality(Places(conns', c)) + Chances(c)' <= 2
    <3>1. /\ IsFiniteSet(Places(conns, c)) /\ received[c] \in Nat
          /\ received[c] + Cardinality(Places(conns, c)) + Chances(c) <= 2
      BY <1>0 DEF OnceInv
    <3>2. Cardinality(Places(conns, c)) \in Nat
      BY <3>1, FS_CardinalityType
    <3>3. /\ IsFiniteSet(Places(conns', c)) /\ Cardinality(Places(conns', c)) \in Nat
          /\ Cardinality(Places(conns', c)) <= Cardinality(Places(conns, c)) + 1
          /\ line # Coordinates(c) => Places(conns', c) = Places(conns, c)
      <4>1. PICK r : r = Write(<<d, t>>, line)
        OBVIOUS
      <4>2. /\ IsFiniteSet(Places(r, c)) /\ Cardinality(Places(r, c)) \in Nat
            /\ Cardinality(Places(r, c)) <= Cardinality(Places(conns, c)) + 1
            /\ line # Coordinates(c) => Places(r, c) = Places(conns, c)
        BY <1>0, <1>10, <2>1, <3>1, <4>1, WritePlaces
      <4>3. conns' = r
        BY <1>0, <1>2, <1>9, <4>1
      <4> QED
        BY <4>2, <4>3
    <3>4. c = <<c[1], c[2]>> /\ c[1] \in Drones /\ c[2] \in Nat
      BY CoordIs, Bounds
    <3>5. CASE c = <<d, k>>
      <4>1. c[1] = d /\ c[2] = k
        BY <3>4, <3>5
      <4>2. CASE t = "finder"
        <5>1. /\ pc[d].finder = "send" /\ next[d].finder = k /\ next'[d].finder = k + 1
              /\ next'[d].main = next[d].main
          BY <1>0, <1>2, <1>4, <4>2, ThreadsAre
        <5>2. FinderMaySend(d, k) /\ ~FinderMaySend(d, k)'
              /\ (MainMaySend(d, k)' <=> MainMaySend(d, k))
          BY <1>0, <1>3, <5>1 DEF FinderMaySend, MainMaySend
        <5>3. Chances(c)' + 1 = Chances(c) /\ Chances(c) \in Nat /\ Chances(c)' \in Nat
          BY <4>1, <5>2 DEF Chances, One
        <5> QED
          BY <3>1, <3>2, <3>3, <5>3
      <4>3. CASE t = "main"
        <5>1. /\ pc[d].main = "send" /\ next[d].main = k /\ next'[d].main = k + 1
              /\ next'[d].finder = next[d].finder
          BY <1>0, <1>2, <1>4, <4>3, ThreadsAre
        <5>2. MainMaySend(d, k) /\ ~MainMaySend(d, k)'
              /\ (FinderMaySend(d, k)' <=> FinderMaySend(d, k))
          BY <1>0, <1>3, <5>1 DEF FinderMaySend, MainMaySend
        <5>3. Chances(c)' + 1 = Chances(c) /\ Chances(c) \in Nat /\ Chances(c)' \in Nat
          BY <4>1, <5>2 DEF Chances, One
        <5> QED
          BY <3>1, <3>2, <3>3, <5>3
      <4> QED
        BY <4>2, <4>3, ThreadsAre
    <3>6. CASE c # <<d, k>>
      <4>1. line # Coordinates(c)
        BY <1>9, <3>6, CoordinatesDiffer
      <4>2. /\ FinderMaySend(c[1], c[2])' => FinderMaySend(c[1], c[2])
            /\ MainMaySend(c[1], c[2])' => MainMaySend(c[1], c[2])
        <5>1. CASE c[1] # d
          BY <1>6, <3>4, <5>1, OthersSend
        <5>2. CASE c[1] = d
          <6>1. \A u \in Threads : next'[d][u] >= next[d][u]
                /\ next'[d][u] \in Nat /\ next[d][u] \in Nat
            BY <1>1, <1>2, <1>3, <1>4
          <6>2. /\ next'[d].finder >= next[d].finder /\ next'[d].main >= next[d].main
                /\ next'[d].finder \in Nat /\ next'[d].main \in Nat
                /\ next[d].finder \in Nat /\ next[d].main \in Nat
            BY <6>1, ThreadsAre
          <6> QED
            BY <1>0, <3>4, <5>2, <6>2 DEF FinderMaySend, MainMaySend
        <5> QED
          BY <5>1, <5>2
      <4>3. Chances(c)' <= Chances(c) /\ Chances(c)' \in Nat /\ Chances(c) \in Nat
        BY <4>2 DEF Chances, One
      <4> QED
        BY <3>1, <3>2, <3>3, <4>1, <4>3
    <3> QED
      BY <3>3, <3>5, <3>6
  <2> QED
    BY <1>0, <2>2 DEF OnceInv
<1> QED
  BY <1>0, <1>5, <1>6, <1>7, <1>8, <1>11, <1>12, <1>13, ThreadStep

(* A thread has come to the end of its list, and closes the socket.           *)
LEMMA ClosesKeeps ==
  ASSUME Inv, UNCHANGED manager, NEW d \in Drones, NEW t \in Threads, ClosesSocket(d, t)
  PROVE  Inv'
<1> USE Own
<1>0. /\ UNCHANGED <<orders, datagrams, listening, received>>
      /\ UNCHANGED <<server, stopping, flying, boxes, sentinel, found, cut, lost, beats, sent, swept>>
      /\ pc[d][t] = "send" /\ next[d][t] >= WalkEnds(d, t)
      /\ conns' = Close(<<d, t>>) /\ Goes(d, t, "reset") /\ ForgetsList(d, t)
      /\ "reset" \in FinderAt /\ "reset" \in MainAt
      /\ conns \in Seq(Connections) /\ HeldInv /\ OnceInv
  BY DEF ClosesSocket, Inv, LinksTypeOK, manager, FinderAt, MainAt
<1>1. /\ pc'[d][t] = "reset"
      /\ \A x \in Drones : x # d => pc'[x] = pc[x]
      /\ \A u \in Threads : u # t => /\ pc'[d][u] = pc[d][u]
                                     /\ next'[d][u] = next[d][u] /\ end'[d][u] = end[d][u]
  BY <1>0, GoesIs, ForgetsIs
<1>2. ExplorerFunctions' /\ DroneTypes(d)' /\ \A x \in Drones : x # d => Untouched(x)
  BY <1>0, ForgetsTypes
<1>3. /\ found[d] \in Nat /\ swept[d] \in Nat /\ swept[d] <= found[d]
      /\ \A u \in Threads : next[d][u] \in 1 .. found[d] + 1 /\ end[d][u] \in 0 .. found[d] + 1
  BY DEF ExplorerFunctions, DroneTypes
<1>4. Delivers(d)' /\ \A k \in Nat : /\ FinderMaySend(d, k)' => FinderMaySend(d, k)
                                     /\ MainMaySend(d, k)' => MainMaySend(d, k)
  <2>1. CASE t = "finder"
    <3>1. /\ pc'[d].finder = "reset" /\ pc'[d].main = pc[d].main /\ pc[d].finder = "send"
          /\ next'[d].main = next[d].main /\ end'[d].main = end[d].main
          /\ next[d].finder \in 1 .. found[d] + 1
          /\ next[d].finder >= (IF end[d].finder = 0 THEN found[d] + 1 ELSE end[d].finder)
      BY <1>0, <1>1, <1>3, <2>1, ThreadsAre DEF WalkEnds
    <3>2. pc[d].main \in Delivering => SentTo(d, found[d])
      <4>1. pc[d].main \in Delivering => end[d].finder = 0 /\ SentTo(d, next[d].finder - 1)
        BY <3>1 DEF Delivers
      <4>2. end[d].finder = 0 => next[d].finder - 1 = found[d]
        BY <1>3, <3>1
      <4> QED
        BY <4>1, <4>2
    <3>3. Delivers(d)'
      BY <1>0, <3>1, <3>2 DEF Delivers, SentTo
    <3>4. \A k \in Nat : /\ FinderMaySend(d, k)' => FinderMaySend(d, k)
                         /\ MainMaySend(d, k)' => MainMaySend(d, k)
      BY <1>0, <1>3, <3>1 DEF FinderMaySend, MainMaySend
    <3> QED
      BY <3>3, <3>4
  <2>2. CASE t = "main"
    <3>1. /\ pc'[d].main = "reset" /\ pc'[d].finder = pc[d].finder /\ pc[d].main = "send"
          /\ next'[d].finder = next[d].finder /\ end'[d].finder = end[d].finder
          /\ next[d].main \in 1 .. found[d] + 1 /\ end[d].main \in 0 .. found[d] + 1
          /\ next[d].main >= (IF end[d].main = 0 THEN found[d] + 1 ELSE end[d].main)
      BY <1>0, <1>1, <1>3, <2>2, ThreadsAre DEF WalkEnds
    <3>2. SentTo(d, swept[d])
      <4>1. SentTo(d, next[d].main - 1) /\ (end[d].main = 0 \/ end[d].main > swept[d])
        BY <3>1 DEF Delivers
      <4>2. next[d].main - 1 >= swept[d]
        BY <1>3, <3>1, <4>1
      <4> QED
        BY <1>3, <3>1, <4>1, <4>2 DEF SentTo
    <3>3. Delivers(d)'
      BY <1>0, <3>1, <3>2 DEF Delivers, SentTo, Delivering
    <3>4. \A k \in Nat : /\ FinderMaySend(d, k)' => FinderMaySend(d, k)
                         /\ MainMaySend(d, k)' => MainMaySend(d, k)
      BY <1>0, <3>1 DEF FinderMaySend, MainMaySend
    <3> QED
      BY <3>3, <3>4
  <2> QED
    BY <2>1, <2>2, ThreadsAre
<1>5. /\ conns' \in Seq(Connections) /\ DOMAIN conns' = DOMAIN conns
      /\ \A i \in DOMAIN conns :
           /\ conns'[i].lines = conns[i].lines
           /\ conns'[i].holder = IF conns[i].holder = <<d, t>> THEN Closed ELSE conns[i].holder
  BY <1>0, CloseIs
<1>6. HeldInv' /\ (conns # <<>> => conns' # <<>>)
  <2>1. ASSUME NEW i \in DOMAIN conns, NEW j \in DOMAIN conns,
               conns'[i].holder = conns'[j].holder, conns'[i].holder # Closed
        PROVE  i = j
    BY <1>0, <1>5, <2>1 DEF HeldInv
  <2>2. ASSUME NEW i \in DOMAIN conns, NEW x \in Drones, NEW u \in Threads,
               conns'[i].holder = <<x, u>>
        PROVE  pc'[x][u] = "send"
    <3>1. conns[i].holder = <<x, u>> /\ <<x, u>> # <<d, t>>
      BY <1>5, <2>2, HolderIs
    <3>2. pc[x][u] = "send"
      BY <1>0, <3>1 DEF HeldInv
    <3>3. x # d \/ u # t
      BY <3>1
    <3> QED
      BY <1>1, <3>2, <3>3
  <2>3. conns # <<>> => conns' # <<>>
    BY <1>0, <1>5
  <2> QED
    BY <1>5, <2>1, <2>2, <2>3 DEF HeldInv
<1>7. OnceInv'
  <2>1. ASSUME NEW c \in Coords
        PROVE  /\ IsFiniteSet(Places(conns', c)) /\ Cardinality(Places(conns', c)) \in Nat
               /\ Cardinality(Places(conns', c)) <= Cardinality(Places(conns, c))
    <3>1. IsFiniteSet(Places(conns, c))
      BY <1>0 DEF OnceInv
    <3>2. Cardinality(Places(conns, c)) \in Nat
      BY <3>1, FS_CardinalityType
    <3>3. Places(conns', c) = Places(conns, c)
      <4>1. PICK r : r = conns'
        OBVIOUS
      <4>2. Places(r, c) = Places(conns, c)
        BY <1>5, <4>1, SameLinesKeep
      <4> QED
        BY <4>1, <4>2
    <3> QED
      BY <3>1, <3>2, <3>3
  <2>2. ASSUME NEW x \in Drones, NEW k \in Nat
        PROVE  /\ FinderMaySend(x, k)' => FinderMaySend(x, k)
               /\ MainMaySend(x, k)' => MainMaySend(x, k)
    <3>1. CASE x = d
      BY <1>4, <3>1
    <3>2. CASE x # d
      BY <1>2, <3>2, OthersSend
    <3> QED
      BY <3>1, <3>2
  <2> QED
    BY <1>0, <2>1, <2>2, NobodySends
<1>8. pc[d].main = "ended" => pc[d].main' = "ended"
  BY <1>0, <1>1, ThreadsAre
<1> QED
  BY <1>0, <1>2, <1>4, <1>5, <1>6, <1>7, <1>8, ThreadStep

(* The main thread says `finished` and wakes the finder.                       *)
LEMMA FinishesKeeps ==
  ASSUME Inv, UNCHANGED manager, NEW d \in Drones, Finishes(d)
  PROVE  Inv'
<1> USE Own
<1>0. /\ UNCHANGED <<conns, orders, listening>>
      /\ UNCHANGED <<server, stopping, flying, boxes, found, cut, next, end, lost, beats, sent, swept>>
      /\ pc[d].main = "finish"
      /\ datagrams' = datagrams \cup {Finished(d)}
      /\ sentinel' = [sentinel EXCEPT ![d] = TRUE]
  BY DEF Finishes
<1>1. PICK to : to = IF pc[d].finder = "wait" THEN "test" ELSE pc[d].finder
  OBVIOUS
<1>2. /\ pc' \in [Drones -> [Threads -> FinderAt \cup MainAt]]
      /\ pc'[d].main = "ended" /\ pc'[d].finder = to
      /\ \A x \in Drones : x # d => pc'[x] = pc[x]
      /\ to \in FinderAt
  <2>1. to \in FinderAt /\ to \in FinderAt \cup MainAt /\ "ended" \in FinderAt \cup MainAt
    BY <1>1 DEF DroneTypes, FinderAt
  <2>2. pc' = [pc EXCEPT ![d].main = "ended",
                         ![d].finder = IF @ = "wait" THEN "test" ELSE @]
    BY DEF Finishes
  <2>3. pc' = [pc EXCEPT ![d] = [[@ EXCEPT !["main"] = "ended"] EXCEPT !["finder"] = to]]
    BY <1>1, <2>2 DEF Threads
  <2> QED
    BY <2>1, <2>3, ThreadsAre
<1>3. ExplorerFunctions'
  BY <1>0, <1>2 DEF ExplorerFunctions
<1>4. ExplorerInv'
  <2>1. ASSUME NEW x \in Drones
        PROVE  DroneTypes(x)' /\ Delivers(x)'
    <3>0. DroneTypes(x) /\ Delivers(x)
      BY DEF Inv, ExplorerInv
    <3>1. CASE x = d
      <4>1. to = "locate" <=> pc[d].finder = "locate"
        BY <1>1
      <4>2. DroneTypes(d)'
        BY <1>0, <1>2, <4>1 DEF DroneTypes, MainAt
      <4>3. Delivers(d)'
        BY <1>0, <1>2 DEF Delivers, SentTo, Delivering
      <4> QED
        BY <3>1, <4>2, <4>3
    <3>2. CASE x # d
      <4>1. Untouched(x) /\ sent \subseteq sent'
        BY <1>0, <1>2, <3>2 DEF Untouched
      <4> QED
        BY <3>0, <4>1, OthersKeep
    <3> QED
      BY <3>1, <3>2
  <2> QED
    BY <1>3, <2>1 DEF ExplorerInv
<1>5. ManagerInv' /\ HeldInv' /\ OnceInv'
  <2>1. ASSUME NEW x \in Drones, NEW k \in Nat
        PROVE  /\ FinderMaySend(x, k)' => FinderMaySend(x, k)
               /\ MainMaySend(x, k)' => MainMaySend(x, k)
    <3>1. CASE x = d
      BY <1>0, <1>1, <1>2, <3>1 DEF FinderMaySend, MainMaySend
    <3>2. CASE x # d
      <4>1. Untouched(x)
        BY <1>0, <1>2, <3>2 DEF Untouched
      <4> QED
        BY <4>1, OthersSend
    <3> QED
      BY <3>1, <3>2
  <2>2. ASSUME NEW x \in Drones, NEW t \in Threads, pc[x][t] = "send"
        PROVE  pc'[x][t] = "send"
    <3>1. CASE x = d
      BY <1>0, <1>1, <1>2, <2>2, <3>1, ThreadsAre
    <3>2. CASE x # d
      BY <1>2, <2>2, <3>2
    <3> QED
      BY <3>1, <3>2
  <2> QED
    BY <1>0, <2>1, <2>2, QuietExplorer
<1>6. CountInv'
  <2>1. finished_drones' = finished_drones /\ Known' = Known
    BY DEF manager, Known
  <2>2. Counted \subseteq Counted'
    <3>1. ASSUME NEW x \in Counted
          PROVE  x \in Counted'
      <4>1. x \in Drones /\ x \in Known /\ pc[x].main = "ended" /\ Finished(x) \notin datagrams
            /\ x # d
        BY <1>0 DEF Counted, Known
      <4>2. pc'[x].main = "ended" /\ Finished(x) \notin datagrams'
        BY <1>0, <1>2, <4>1, DatagramIs
      <4> QED
        BY <2>1, <4>1, <4>2 DEF Counted
    <3> QED
      BY <3>1
  <2>3. ASSUME NEW x \in Drones, Finished(x) \in datagrams'
        PROVE  pc[x].main' = "ended"
    <3>1. CASE x = d
      BY <1>2, <3>1
    <3>2. CASE x # d
      <4>1. Finished(x) \in datagrams
        BY <1>0, <2>3, <3>2, DatagramIs
      <4> QED
        BY <1>2, <3>2, <4>1 DEF Inv, CountInv
    <3> QED
      BY <3>1, <3>2
  <2> QED
    BY <2>1, <2>2, <2>3, CountGrows DEF Inv
<1>7. LinksTypeOK'
  BY <1>0 DEF Inv, LinksTypeOK, Datagrams
<1> QED
  BY <1>4, <1>5, <1>6, <1>7 DEF Inv

(* Every step of an explorer.                                               *)
LEMMA ExplorerKeeps ==
  ASSUME Inv, UNCHANGED manager, NEW d \in Drones, ExplorerStep(d)
  PROVE  Inv'
BY ServerSteps, FinderTurns, LocatesKeeps, ConnectsKeeps, SendsKeeps, ClosesKeeps, ResetsKeeps,
   SendFailsKeeps, JoinsKeeps, FinishesKeeps DEF ExplorerStep

-----------------------------------------------------------------------------
(* The invariant holds: from the start, and across every step.               *)

LEMMA InitHolds == Init => Inv
<1> SUFFICES ASSUME Init
             PROVE  Inv
  OBVIOUS
<1> USE Bounds
<1>1. LinksTypeOK
  <2>1. <<>> \in Seq(Connections) /\ <<>> \in Seq(Orders)
    OBVIOUS
  <2> QED
    BY <2>1 DEF Init, LinksInit, LinksTypeOK
<1>2. ManagerInv
  <2>1. ManagerInit
    BY DEF Init
  <2>2. exp_drones = [d \in Drones |-> "unknown"] /\ "unknown" \in Entries
    BY <2>1 DEF ManagerInit, Entries
  <2>3. exp_drones \in [Drones -> Entries]
    BY <2>2, Zenon
  <2>4. /\ tcp = "accept" /\ udp = "receive"
        /\ ringing = {} /\ ring_size = 0 /\ kind = "none" /\ orders_left \in 0 .. MaxOrders
    BY <2>1, Zenon DEF ManagerInit
  <2>5. late \in BOOLEAN /\ self_finished \in BOOLEAN /\ result \in BOOLEAN /\ ~result
    BY <2>1, Zenon DEF ManagerInit
  <2>6. ringing \subseteq Drones /\ ring_size \in 0 .. Cardinality(Drones)
    BY <2>4
  <2> QED
    BY <2>3, <2>4, <2>5, <2>6 DEF ManagerInv
<1>3. ExplorerInv
  <2>1. ExplorerFunctions
    BY DEF Init, ExplorerInit, ExplorerFunctions, FinderAt, MainAt, Threads
  <2>2. ASSUME NEW d \in Drones
        PROVE  DroneTypes(d) /\ Delivers(d)
    <3>1. /\ pc[d].main = "join" /\ pc[d].finder = "wait"
          /\ boxes[d] = 0 /\ found[d] = 0 /\ cut[d] = 0 /\ swept[d] = 0 /\ beats[d] = 0
          /\ \A t \in Threads : next[d][t] = 1 /\ end[d][t] = 0
      BY ThreadsAre DEF Init, ExplorerInit
    <3>2. DroneTypes(d)
      BY <3>1 DEF DroneTypes, FinderAt, MainAt
    <3>3. Delivers(d)
      BY <3>1 DEF Delivers, SentTo
    <3> QED
      BY <3>2, <3>3
  <2> QED
    BY <2>1, <2>2 DEF ExplorerInv
<1>4. HeldInv
  BY DEF Init, LinksInit, HeldInv
<1>5. OnceInv
  <2>1. received = [c \in Coords |-> 0] /\ conns = <<>>
    BY DEF Init, ManagerInit, LinksInit
  <2>2. ASSUME NEW c \in Coords
        PROVE  /\ IsFiniteSet(Places(conns, c))
               /\ received[c] + Cardinality(Places(conns, c)) + Chances(c) <= 2
    <3>1. Places(conns, c) = {}
      BY <2>1, PlacesAre
    <3>2. IsFiniteSet(Places(conns, c)) /\ Cardinality(Places(conns, c)) = 0
      BY <3>1, FS_EmptySet
    <3>3. Chances(c) \in Nat /\ Chances(c) <= 2
      BY DEF Chances, One
    <3> QED
      BY <2>1, <3>2, <3>3
  <2> QED
    BY <2>1, <2>2 DEF OnceInv
<1>6. CountInv
  <2>1. finished_drones = 0 /\ datagrams = {} /\ Known = {}
    BY DEF Init, ManagerInit, LinksInit, Known
  <2>2. Counted = {}
    BY <2>1 DEF Counted
  <2> QED
    BY <2>1, <2>2, FS_EmptySet DEF CountInv
<1> QED
  BY <1>1, <1>2, <1>3, <1>4, <1>5, <1>6 DEF Inv

LEMMA NextKeeps == Inv /\ [Next]_vars => Inv'
<1> SUFFICES ASSUME Inv, [Next]_vars
             PROVE  Inv'
  OBVIOUS
<1>1. CASE ManagerStep /\ UNCHANGED explorer
  BY <1>1, ManagerKeeps
<1>2. ASSUME NEW d \in Drones, ExplorerStep(d), UNCHANGED manager
      PROVE  Inv'
  BY <1>2, ExplorerKeeps
<1>3. CASE LoseDatagram /\ UNCHANGED <<manager, explorer>>
  BY <1>3, DatagramLost
<1>4. CASE UNCHANGED vars
  <2>1. UNCHANGED links /\ UNCHANGED manager /\ UNCHANGED explorer
    BY <1>4 DEF vars
  <2>2. LinksTypeOK' /\ ManagerInv'
    BY <2>1 DEF Inv, LinksTypeOK, ManagerInv, links, manager
  <2>3. ExplorerInv' /\ HeldInv' /\ OnceInv'
    <3>1. UNCHANGED <<conns, received, explorer>>
      BY <2>1 DEF links, manager
    <3> QED
      BY <3>1, ExplorersRest, LinesRest DEF Inv
  <2>4. CountInv'
    BY <2>1 DEF Inv, CountInv, Counted, Known, links, manager, explorer
  <2> QED
    BY <2>2, <2>3, <2>4 DEF Inv
<1> QED
  BY <1>1, <1>2, <1>3, <1>4 DEF Next

LEMMA Invariant == Spec => []Inv
BY InitHolds, NextKeeps, PTL DEF Spec

-----------------------------------------------------------------------------
(* What the invariant says of the roles.                                     *)

LEMMA TypesFollow ==
  ASSUME Inv
  PROVE  TypeOK
<1> USE Bounds
<1>1. LinksTypeOK
  BY DEF Inv
<1>2. ManagerTypeOK
  <2>1. received \in [Coords -> 0 .. 2]
    <3>1. ASSUME NEW c \in Coords
          PROVE  received[c] \in 0 .. 2
      <4>1. /\ received[c] \in Nat /\ IsFiniteSet(Places(conns, c))
            /\ received[c] + Cardinality(Places(conns, c)) + Chances(c) <= 2
        BY DEF Inv, OnceInv
      <4>2. Cardinality(Places(conns, c)) \in Nat
        BY <4>1, FS_CardinalityType
      <4>3. Chances(c) \in Nat
        BY DEF Chances, One
      <4> QED
        BY <4>1, <4>2, <4>3
    <3> QED
      BY <3>1 DEF Inv, OnceInv
  <2>2. finished_drones \in 0 .. Cardinality(Drones)
    <3>1. Counted \subseteq Drones
      BY DEF Counted, Known
    <3>2. Cardinality(Counted) <= Cardinality(Drones) /\ Cardinality(Counted) \in Nat
      BY <3>1, FS_Subset, FS_CardinalityType
    <3> QED
      BY <3>2 DEF Inv, CountInv
  <2> QED
    BY <2>1, <2>2 DEF Inv, ManagerInv, ManagerTypeOK
<1>3. ExplorerTypeOK
  <2>1. ExplorerFunctions
    BY DEF Inv, ExplorerInv
  <2>2. ASSUME NEW d \in Drones
        PROVE  /\ pc[d].finder \in FinderAt /\ pc[d].main \in MainAt
               /\ boxes[d] \in 0 .. MaxFound[d] /\ found[d] \in 0 .. MaxFound[d]
               /\ cut[d] \in 0 .. found[d] /\ swept[d] \in 0 .. found[d]
               /\ beats[d] \in 0 .. MaxBeats[d]
               /\ \A t \in Threads : /\ next[d][t] \in 1 .. MaxFound[d] + 1
                                     /\ end[d][t] \in 0 .. MaxFound[d] + 1
    <3>1. DroneTypes(d)
      BY DEF Inv, ExplorerInv
    <3>2. /\ boxes[d] \in Nat /\ found[d] \in Nat /\ cut[d] \in Nat /\ swept[d] \in Nat
          /\ beats[d] \in Nat /\ MaxFound[d] \in Nat /\ MaxBeats[d] \in Nat
      BY <2>1 DEF ExplorerFunctions
    <3>3. boxes[d] <= MaxFound[d] /\ found[d] <= MaxFound[d]
      BY <3>1, <3>2 DEF DroneTypes
    <3>4. \A t \in Threads : /\ next[d][t] \in 1 .. MaxFound[d] + 1
                             /\ end[d][t] \in 0 .. MaxFound[d] + 1
      BY <3>1, <3>2, <3>3 DEF DroneTypes
    <3> QED
      BY <3>1, <3>2, <3>3, <3>4 DEF DroneTypes
  <2> QED
    BY <2>1, <2>2 DEF ExplorerTypeOK, ExplorerFunctions
<1> QED
  BY <1>1, <1>2, <1>3 DEF TypeOK

LEMMA SweptFollows ==
  ASSUME Inv
  PROVE  SweptIsSent
BY DEF Inv, ExplorerInv, Delivers, SentTo, SweptIsSent

(* For a fleet of any size and any bounds, the roles keep their types - so     *)
(* that a coordinate is entered at most twice in the manager's data            *)
(* (manager.py:384-397), once for each of the two threads that call            *)
(* send_coords - and what had been found when the last delivery began has      *)
(* been sent when the explorer says `finished` (explorer.py:208-232).          *)
THEOREM RolesHold == Spec => []RolesInv
<1>1. Inv => RolesInv
  BY TypesFollow, SweptFollows DEF RolesInv
<1> QED
  BY <1>1, Invariant, PTL

-----------------------------------------------------------------------------
(* What a step may not do.                                                  *)

LEMMA EndsOnlyWithFinished ==
  ASSUME [Next]_vars, ~self_finished, self_finished'
  PROVE  HandleFinished /\ UNCHANGED explorer
<1>1. CASE ManagerStep /\ UNCHANGED explorer
  <2>1. CASE UdpServer
    BY <1>1, <2>1 DEF UdpServer, HandleHeartbeat, FinishedOutOfTurn, UdpEnds
  <2>2. CASE TimeIsUp \/ TakesResult \/ OperatorOrders
    BY <2>2 DEF TimeIsUp, TakesResult, OperatorOrders
  <2>3. CASE TcpServer
    BY <2>3 DEF TcpServer, Accepts, TcpEnds, ClientCloses, HandleCoordinates, HandleRegistration,
                HandleOrder, RingsOn, RingsFail, RingsOut
  <2> QED
    BY <1>1, <2>1, <2>2, <2>3 DEF ManagerStep
<1>2. CASE (\E d \in Drones : ExplorerStep(d)) /\ UNCHANGED manager
  BY <1>2 DEF manager
<1>3. CASE LoseDatagram /\ UNCHANGED <<manager, explorer>>
  BY <1>3 DEF manager
<1>4. CASE UNCHANGED vars
  BY <1>4 DEF vars, manager
<1> QED
  BY <1>1, <1>2, <1>3, <1>4 DEF Next

(* The manager ends (manager.py:538) only when every drone in its table has    *)
(* said that it has finished, with datagrams lost, overtaken or answered by    *)
(* drones it has written off, whatever the size of the fleet.                 *)
THEOREM EndsHold == Spec => EndsWithTheLast
<1>1. Inv /\ [Next]_vars => [~self_finished /\ self_finished' => \A d \in Known : pc[d].main = "ended"]_vars
  BY EndsOnlyWithFinished, FinishedHandled
<1> QED
  BY <1>1, Invariant, PTL DEF Spec, EndsWithTheLast

(* Once main has taken the mines for the pathfinder (manager.py:565-574), no   *)
(* coordinate is added: the servers that could have been joined.              *)
THEOREM ResultHolds == Spec => ResultIsFinal
<1>1. ASSUME Inv, [Next]_vars, result
      PROVE  UNCHANGED received
  <2>1. tcp \in {"ended", "died"}
    BY <1>1 DEF Inv, ManagerInv
  <2>2. CASE ManagerStep /\ UNCHANGED explorer
    <3>1. ~HandleCoordinates
      BY <2>1 DEF HandleCoordinates, Reads
    <3>2. CASE TcpServer
      BY <3>1, <3>2 DEF TcpServer, Accepts, TcpEnds, ClientCloses, HandleRegistration,
                        HandleOrder, RingsOn, RingsFail, RingsOut
    <3>3. CASE UdpServer
      BY <3>3 DEF UdpServer, HandleHeartbeat, HandleFinished, FinishedOutOfTurn, UdpEnds
    <3>4. CASE TimeIsUp \/ TakesResult \/ OperatorOrders
      BY <3>4 DEF TimeIsUp, TakesResult, OperatorOrders
    <3> QED
      BY <2>2, <3>2, <3>3, <3>4 DEF ManagerStep
  <2>3. CASE (\E d \in Drones : ExplorerStep(d)) /\ UNCHANGED manager
    BY <2>3 DEF manager
  <2>4. CASE LoseDatagram /\ UNCHANGED <<manager, explorer>>
    BY <2>4 DEF manager
  <2>5. CASE UNCHANGED vars
    BY <2>5 DEF vars, manager
  <2> QED
    BY <1>1, <2>2, <2>3, <2>4, <2>5 DEF Next
<1>2. Inv /\ [Next]_vars => [result => UNCHANGED received]_vars
  BY <1>1
<1> QED
  BY <1>2, Invariant, PTL DEF Spec, ResultIsFinal

=============================================================================
