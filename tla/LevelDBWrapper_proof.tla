------------------------ MODULE LevelDBWrapper_proof ------------------------
(***************************************************************************)
(* Proofs about LevelDBWrapper: what its variables hold, that it           *)
(* implements StoredMap, that batches and loads are attended to, that the  *)
(* size it stores is that of the items, and that the quota is kept.        *)
(***************************************************************************)
EXTENDS LevelDBWrapper, FiniteSetTheorems, WellFoundedInduction, TLAPS

-----------------------------------------------------------------------------
(* The invariant. *)

\* The map at the end of a queue of requests to a disk that has d.
LastOf(q, d) == IF q = <<>> THEN d ELSE q[Len(q)].after

\* What is there when the i-th request of q is served.
Before(q, d, i) == IF i = 1 THEN d ELSE q[i - 1].after

\* A request finds, or leaves, what it remembers.
Keeps(r, d) == r.after = IF r.op = "write" THEN Written(r, d) ELSE d

ChainOf(q, d) == \A i \in 1..Len(q) : Keeps(q[i], Before(q, d, i))

\* A batch has all in which m differs from d.
Covers(b, m, d) ==
  \A k \in Key \ b.keys : m[k] = IF b.clear THEN Absent ELSE d[k]

IsRead(r) == r.op = "read"
Pending(q) == \E i \in 1..Len(q) : IsRead(q[i])
Asked(q) == \E i \in 1..Len(q) : q[i] = "read"
OldAsked == Asked(legacy)

(***************************************************************************)
(* The map is loaded once: the request, its reply, the request to the old  *)
(* database and its reply follow one another.  While one of them is under  *)
(* way tasks wait for it, and nothing is written behind it.                *)
(***************************************************************************)
ReadInv ==
  \A i \in 1..Len(requests) : IsRead(requests[i]) =>
    /\ i = Len(requests) /\ tasks # <<>>
    /\ ~Pending(replies) /\ ~OldAsked /\ migrated = <<>>

ReplyInv ==
  \A i \in 1..Len(replies) : IsRead(replies[i]) =>
    /\ i = Len(replies) /\ tasks # <<>> /\ requests = <<>>
    /\ replies[i].ok => replies[i].data = disk
    /\ ~OldAsked /\ migrated = <<>>

OldInv ==
  /\ OldAsked =>
       tasks # <<>> /\ requests = <<>> /\ disk = Empty /\ migrated = <<>>
  /\ \A i, j \in 1..Len(legacy) :
       legacy[i] = "read" /\ legacy[j] = "read" => i = j
  /\ migrated # <<>> =>
       /\ Len(migrated) = 1 /\ migrated[1] \in {Old, Empty}
       /\ tasks # <<>> /\ requests = <<>> /\ disk = Empty

(***************************************************************************)
(* database_ is given up by a load that failed, and there is nothing to    *)
(* commit then.  The wrapper is there as long as somebody wants it: a page *)
(* or a task.                                                              *)
(***************************************************************************)
LoadInv ==
  /\ ~database => loaded /\ ~batch.open
  /\ ~loaded => batch = NoBatch
  /\ ~batch.open => batch = NoBatch
  /\ loaded => holder /\ tasks = <<>>
  /\ running # <<>> => loaded
  /\ tasks # <<>> \/ bound => holder
  /\ holder => bound \/ tasks # <<>> \/ running # <<>>

LoadSound == LoadInv /\ ReadInv /\ ReplyInv /\ OldInv

\* Until LevelDB has reported an error.
OkInv ==
  /\ database
  /\ \A i \in 1..Len(replies) : IsRead(replies[i]) => replies[i].ok

DataInv ==
  /\ ChainOf(requests, disk)
  /\ loaded => Covers(batch, map, OnItsWay)

IInv == TypeOK /\ LoadSound /\ (~failed => OkInv /\ DataInv)

-----------------------------------------------------------------------------
(* Lemmas about maps, calls and batches. *)

\* What a key can have.
Item == Value \cup {Absent}

LEMMA Maps ==
  /\ Map = [Key -> Item]
  /\ Empty \in Map
  /\ \A k \in Key : Empty[k] = Absent
BY DEF Map, Empty, Item

LEMMA CallChanges ==
  ASSUME NEW c \in Call, NEW m \in Map
  PROVE  /\ MapAfter(c, m) \in Map
         /\ c.op = "clear" => MapAfter(c, m) = Empty
         /\ ~Changes(c, m) => MapAfter(c, m) = m
<1>1. c.op = "set" => c.key \in Key /\ c.value \in Item
  BY DEF Call, Item
<1>2. Changes(c, m) => c.op \in {"set", "clear"}
  BY DEF Changes
<1>3. c.op = "set" => Assigned(c, m) \in Map
  BY <1>1, Maps DEF Assigned
<1>4. c.op = "clear" /\ ~Changes(c, m) => m = Empty
  BY DEF Changes
<1> QED
  BY <1>2, <1>3, <1>4, Maps DEF MapAfter

LEMMA BatchChanges ==
  ASSUME NEW c \in Call, NEW m \in Map, NEW b \in Batch
  PROVE  /\ BatchAfter(c, m, b) \in Batch
         /\ ~Changes(c, m) \/ ~database => BatchAfter(c, m, b) = b
         /\ Changes(c, m) /\ database => BatchAfter(c, m, b).open
<1>1. c.op = "set" => c.key \in Key
  BY DEF Call
<1>2. Changes(c, m) => c.op \in {"set", "clear"}
  BY DEF Changes
<1> QED
  BY <1>1, <1>2 DEF BatchAfter, Batch

LEMMA BatchType ==
  ASSUME NEW c \in Call, NEW m \in Map, NEW b \in Batch
  PROVE  BatchAfter(c, m, b) \in Batch
<1>1. c.op = "set" => c.key \in Key
  BY DEF Call
<1>2. Changes(c, m) => c.op \in {"set", "clear"}
  BY DEF Changes
<1> QED
  BY <1>1, <1>2 DEF BatchAfter, Batch

LEMMA CoversAfterCall ==
  ASSUME NEW c \in Call, NEW m \in Map, NEW b \in Batch, NEW d \in Map,
         database, Covers(b, m, d)
  PROVE  Covers(BatchAfter(c, m, b), MapAfter(c, m), d)
<1>1. CASE ~Changes(c, m)
  BY <1>1 DEF MapAfter, BatchAfter
<1>2. CASE Changes(c, m) /\ c.op = "set"
  <2>1. c.key \in Key
    BY <1>2 DEF Call
  <2>2. MapAfter(c, m) = Assigned(c, m)
    BY <1>2 DEF MapAfter
  <2>3. \A k \in Key \ {c.key} : Assigned(c, m)[k] = m[k]
    BY Maps DEF Assigned
  <2>4. /\ BatchAfter(c, m, b).keys = b.keys \cup {c.key}
        /\ BatchAfter(c, m, b).clear = b.clear
    BY <1>2 DEF BatchAfter, Batch
  <2> QED
    BY <2>2, <2>3, <2>4 DEF Covers
<1>3. CASE Changes(c, m) /\ c.op = "clear"
  <2>1. MapAfter(c, m) = Empty
    BY <1>3 DEF MapAfter
  <2>2. BatchAfter(c, m, b) = [open |-> TRUE, clear |-> TRUE, keys |-> {}]
    BY <1>3 DEF BatchAfter
  <2> QED
    BY <2>1, <2>2, Maps DEF Covers
<1> QED
  BY <1>1, <1>2, <1>3 DEF Changes

LEMMA NothingToCommit ==
  ASSUME NEW m \in Map, NEW d \in Map
  PROVE  Covers(NoBatch, m, d) <=> m = d
<1>1. Covers(NoBatch, m, d) <=> \A k \in Key : m[k] = d[k]
  BY DEF Covers, NoBatch
<1> QED
  BY <1>1, Maps

-----------------------------------------------------------------------------
(* Lemmas about requests. *)

LEMMA Requests ==
  ASSUME NEW r \in Request
  PROVE  /\ r.after \in Map
         /\ r.op \in {"read", "write"}
         /\ r.op = "write" => r \in Write
BY DEF Request, Write

LEMMA Writes ==
  ASSUME NEW w \in Write, NEW d \in Map
  PROVE  Written(w, d) \in Map
<1>1. PICK K \in SUBSET Key : w.items \in [K -> Item]
  BY DEF Write, Item
<1>2. \A k \in DOMAIN w.items : w.items[k] \in Item
  BY <1>1
<1>3. Absent \in Item /\ \A k \in Key : d[k] \in Item
  BY Maps DEF Item
<1> QED
  BY <1>2, <1>3, Maps DEF Written

LEMMA WriteOfMap ==
  ASSUME NEW m \in Map, NEW b \in Batch
  PROVE  /\ WriteOf(m, b) \in Write
         /\ WriteOf(m, b) \in Request
         /\ WriteOf(m, b).after = m
         /\ WriteOf(m, b).op = "write"
         /\ \A d \in Map : Covers(b, m, d) => Keeps(WriteOf(m, b), d)
<1>1. b.keys \in SUBSET Key /\ b.clear \in BOOLEAN
  BY DEF Batch
<1>2. [k \in b.keys |-> m[k]] \in [b.keys -> Item]
  BY <1>1, Maps
<1>3. Bytes(m) \in Size
  BY DEF Size
<1>4. WriteOf(m, b) \in Write
  BY <1>1, <1>2, <1>3 DEF WriteOf, Write, Item
<1>5. ASSUME NEW d \in Map, Covers(b, m, d) PROVE m = Written(WriteOf(m, b), d)
  <2>1. \A k \in Key : m[k] = Written(WriteOf(m, b), d)[k]
    BY <1>1, <1>5 DEF WriteOf, Written, Covers
  <2> QED
    BY <1>4, <2>1, Writes, Maps
<1> QED
  BY <1>4, <1>5 DEF WriteOf, Request, Keeps

LEMMA DeletionOfOrigin ==
  /\ DeleteOrigin \in Write /\ DeleteOrigin \in Request
  /\ DeleteOrigin.after = Empty
  /\ DeleteOrigin.op = "write"
  /\ \A d \in Map : Keeps(DeleteOrigin, d)
<1>1. [k \in {} |-> Absent] \in [{} -> Item]
  OBVIOUS
<1>2. DeleteOrigin \in Write
  BY <1>1, Maps DEF DeleteOrigin, Write, Size, Item
<1>3. ASSUME NEW d \in Map PROVE Empty = Written(DeleteOrigin, d)
  <2>1. \A k \in Key : Written(DeleteOrigin, d)[k] = Absent
    BY DEF DeleteOrigin, Written
  <2> QED
    BY <1>2, <2>1, Writes, Maps
<1> QED
  BY <1>2, <1>3 DEF DeleteOrigin, Request, Keeps
-----------------------------------------------------------------------------
(* Lemmas about the queue of requests. *)

\* The maps that the requests of q remember.
Afters(q) == [i \in 1..Len(q) |-> q[i].after]

LEMMA LastIsMap ==
  ASSUME NEW q \in Seq(Request), NEW d \in Map
  PROVE  LastOf(q, d) \in Map
<1>1. q # <<>> => q[Len(q)] \in Request
  OBVIOUS
<1> QED
  BY <1>1, Requests DEF LastOf

LEMMA Appending ==
  ASSUME NEW q \in Seq(Request), NEW d \in Map, NEW r \in Request,
         ChainOf(q, d), Keeps(r, LastOf(q, d))
  PROVE  /\ ChainOf(Append(q, r), d)
         /\ LastOf(Append(q, r), d) = r.after
         /\ Afters(Append(q, r)) = Append(Afters(q), r.after)
<1> DEFINE Q == Append(q, r)
<1>1. /\ Q \in Seq(Request) /\ Len(Q) = Len(q) + 1 /\ Q # <<>>
      /\ Q[Len(q) + 1] = r
      /\ \A i \in 1..Len(q) : Q[i] = q[i]
  OBVIOUS
<1> HIDE DEF Q
<1>2. ASSUME NEW i \in 1..Len(Q) PROVE Keeps(Q[i], Before(Q, d, i))
  <2>1. CASE i \in 1..Len(q)
    <3>1. Q[i] = q[i] /\ Before(Q, d, i) = Before(q, d, i)
      BY <1>1, <2>1 DEF Before
    <3> QED
      BY <2>1, <3>1 DEF ChainOf
  <2>2. CASE i = Len(q) + 1
    <3>1. Before(Q, d, i) = LastOf(q, d)
      BY <1>1, <2>2 DEF Before, LastOf
    <3> QED
      BY <1>1, <2>2, <3>1
  <2> QED
    BY <1>1, <2>1, <2>2
<1>3. ChainOf(Q, d)
  BY <1>2 DEF ChainOf
<1>4. LastOf(Q, d) = r.after
  BY <1>1 DEF LastOf
<1>5. Afters(Q) = Append(Afters(q), r.after)
  BY <1>1 DEF Afters
<1> QED
  BY <1>3, <1>4, <1>5 DEF Q

LEMMA Serving ==
  ASSUME NEW q \in Seq(Request), NEW d \in Map, q # <<>>, ChainOf(q, d)
  PROVE  /\ Keeps(Head(q), d)
         /\ ChainOf(Tail(q), Head(q).after)
         /\ LastOf(Tail(q), Head(q).after) = LastOf(q, d)
         /\ Afters(q) # <<>>
         /\ Head(Afters(q)) = Head(q).after
         /\ Afters(Tail(q)) = Tail(Afters(q))
<1> DEFINE Q == Tail(q)
           D == Head(q).after
<1>1. /\ Len(q) \in Nat /\ Len(q) > 0
      /\ Q \in Seq(Request) /\ Len(Q) = Len(q) - 1
      /\ Head(q) = q[1]
      /\ \A i \in 1..Len(Q) : Q[i] = q[i + 1]
  OBVIOUS
<1>2. Keeps(Head(q), d)
  BY <1>1 DEF ChainOf, Before
<1> HIDE DEF Q
<1>3. ASSUME NEW i \in 1..Len(Q) PROVE Keeps(Q[i], Before(Q, D, i))
  <2>1. i + 1 \in 1..Len(q) /\ Q[i] = q[i + 1]
    BY <1>1
  <2>2. Before(Q, D, i) = Before(q, d, i + 1)
    <3>1. CASE i = 1
      BY <1>1, <3>1 DEF Before
    <3>2. CASE i # 1
      <4>1. i - 1 \in 1..Len(Q) /\ i - 1 + 1 = i /\ i + 1 - 1 = i
        BY <1>1, <3>2
      <4>2. Q[i - 1] = q[i]
        BY <1>1, <4>1
      <4> QED
        BY <3>2, <4>1, <4>2 DEF Before
    <3> QED
      BY <3>1, <3>2
  <2> QED
    BY <2>1, <2>2 DEF ChainOf
<1>4. LastOf(Q, D) = LastOf(q, d)
  <2>1. CASE Q = <<>>
    <3>1. Len(Q) = 0 /\ Len(q) = 1 /\ q # <<>>
      BY <1>1, <2>1
    <3> QED
      BY <1>1, <2>1, <3>1 DEF LastOf
  <2>2. CASE Q # <<>>
    <3>1. Len(Q) \in 1..Len(Q) /\ Len(Q) + 1 = Len(q)
      BY <1>1, <2>2
    <3> QED
      BY <1>1, <2>2, <3>1 DEF LastOf
  <2> QED
    BY <2>1, <2>2
<1>5. /\ Afters(q) # <<>> /\ Head(Afters(q)) = D
      /\ Afters(Q) = Tail(Afters(q))
  BY <1>1 DEF Afters
<1> QED
  BY <1>2, <1>3, <1>4, <1>5 DEF ChainOf, Q

LEMMA NotAnswered ==
  ASSUME NEW q \in Seq(Request), NEW d \in Map
  PROVE  /\ Unanswered(q) \in Seq(Request)
         /\ Len(Unanswered(q)) = Len(q)
         /\ \A i \in 1..Len(q) : Unanswered(q)[i].op = q[i].op
         /\ ChainOf(q, d) => ChainOf(Unanswered(q), d)
         /\ LastOf(Unanswered(q), d) = LastOf(q, d)
         /\ Afters(Unanswered(q)) = Afters(q)
<1> DEFINE Q == Unanswered(q)
<1>1. ASSUME NEW i \in 1..Len(q)
      PROVE  /\ Q[i] \in Request
             /\ Q[i].op = q[i].op /\ Q[i].after = q[i].after
             /\ \A e \in Map : Keeps(q[i], e) => Keeps(Q[i], e)
  <2>1. q[i] \in Request
    OBVIOUS
  <2>2. CASE q[i].op = "write"
    <3>1. q[i] \in Write
      BY <2>1, <2>2, Requests
    <3>2. Q[i] = [q[i] EXCEPT !.replies = FALSE]
      BY <2>2 DEF Unanswered
    <3>3. /\ Q[i] \in Write
          /\ Q[i].op = q[i].op /\ Q[i].after = q[i].after
          /\ Q[i].items = q[i].items /\ Q[i].clear = q[i].clear
      BY <3>1, <3>2 DEF Write
    <3> QED
      BY <2>2, <3>3 DEF Request, Keeps, Written
  <2>3. CASE q[i].op # "write"
    BY <2>1, <2>3 DEF Unanswered
  <2> QED
    BY <2>2, <2>3
<1>2. Len(Q) = Len(q) /\ Q \in Seq(Request)
  BY <1>1 DEF Unanswered
<1> HIDE DEF Q
<1>3. \A i \in 1..Len(q) : Before(q, d, i) \in Map
  <2> SUFFICES ASSUME NEW i \in 1..Len(q), i # 1 PROVE q[i - 1].after \in Map
    BY DEF Before
  <2>1. q[i - 1] \in Request
    OBVIOUS
  <2> QED
    BY <2>1, Requests
<1>4. \A i \in 1..Len(q) : Before(Q, d, i) = Before(q, d, i)
  <2> SUFFICES ASSUME NEW i \in 1..Len(q), i # 1 PROVE Q[i - 1].after = q[i - 1].after
    BY DEF Before
  <2>1. i - 1 \in 1..Len(q)
    OBVIOUS
  <2> QED
    BY <1>1, <2>1
<1>5. ChainOf(q, d) => ChainOf(Q, d)
  BY <1>1, <1>2, <1>3, <1>4 DEF ChainOf
<1>6. LastOf(Q, d) = LastOf(q, d)
  BY <1>1, <1>2 DEF LastOf
<1>7. Afters(Q) = Afters(q)
  BY <1>1, <1>2 DEF Afters
<1> QED
  BY <1>1, <1>2, <1>5, <1>6, <1>7 DEF Q
-----------------------------------------------------------------------------
(* Type correctness. *)

LEMMA Takings ==
  ASSUME TypeOK, NEW what \in {"calls", "urges", "faults"}, Takes(what)
  PROVE  left' \in [{"calls", "urges", "faults"} -> Nat]
BY DEF TypeOK, Takes

LEMMA Queues ==
  ASSUME TypeOK
  PROVE  /\ OnItsWay \in Map /\ OnItsWay = LastOf(requests, disk)
         /\ Seen \in Map
         /\ Read \in Request /\ Read.op = "read" /\ Read.after = OnItsWay
<1>1. OnItsWay = LastOf(requests, disk)
  BY DEF OnItsWay, LastOf
<1>2. OnItsWay \in Map
  BY <1>1, LastIsMap DEF TypeOK
<1> QED
  BY <1>1, <1>2 DEF Seen, Read, Request, TypeOK

LEMMA CommitType ==
  ASSUME TypeOK, NEW m \in Map, NEW b \in Batch
  PROVE  RequestsAfterCommit(m, b) \in Seq(Request)
BY WriteOfMap DEF RequestsAfterCommit, TypeOK

LEMMA ClosingType ==
  ASSUME TypeOK, NEW m \in Map, NEW b \in Batch, NEW q \in Seq(Request),
         OnNoBindings(m, b, q)
  PROVE  /\ holder' \in BOOLEAN /\ loaded' \in BOOLEAN /\ map' \in Map
         /\ database' \in BOOLEAN /\ batch' \in Batch
         /\ starting' \in Nat /\ timers' \in Nat /\ inFlight' \in Int
         /\ deletedOld' \in BOOLEAN
         /\ requests' \in Seq(Request) /\ replies' \in Seq(Reply)
<1>1. NoBatch \in Batch
  BY DEF NoBatch, Batch
<1>2. (IF b.open THEN Append(q, WriteOf(m, b)) ELSE q) \in Seq(Request)
  BY WriteOfMap
<1>3. requests' \in Seq(Request)
  BY <1>2, NotAnswered, Maps DEF OnNoBindings
<1>4. replies' \in Seq(Reply)
  BY DEF OnNoBindings
<1>5. map' \in Map /\ batch' \in Batch
  BY <1>1, Maps DEF OnNoBindings
<1>6. /\ holder' \in BOOLEAN /\ loaded' \in BOOLEAN
      /\ database' \in BOOLEAN /\ deletedOld' \in BOOLEAN
  BY Zenon DEF OnNoBindings
<1>7. starting' \in Nat /\ timers' \in Nat /\ inFlight' \in Int
  BY DEF OnNoBindings
<1> QED
  BY <1>3, <1>4, <1>5, <1>6, <1>7

LEMMA StartingType ==
  ASSUME TypeOK, NEW b PROVE StartingAfter(b) \in Nat
BY DEF StartingAfter, TypeOK

LEMMA LoadType ==
  ASSUME TypeOK, NEW task \in Task, LoadMap(task)
  PROVE  tasks' \in Seq(Task) /\ requests' \in Seq(Request)
BY Queues DEF LoadMap, TypeOK

LEMMA NoBatchType == NoBatch \in Batch
BY DEF NoBatch, Batch

LEMMA CallTasks ==
  /\ Call \subseteq Task /\ [op |-> "commit"] \in Task
  /\ [op |-> "clear"] \in Call
  /\ \A t \in Task : t.op # "commit" => t \in Call
BY DEF Call, Task

LEMMA TypePreserved == TypeOK /\ [Next]_vars => TypeOK'
<1> SUFFICES ASSUME TypeOK, [Next]_vars PROVE TypeOK'
  OBVIOUS
<1> USE DEF leveldb, oldDatabase
<1>1. CASE OpenLocalStorage
  BY <1>1 DEF OpenLocalStorage, TypeOK
<1>2. CASE OnConnectionError
  <2>1. CASE tasks = <<>>
    <3>1. OnNoBindings(map, batch, requests)
      BY <1>2, <2>1 DEF OnConnectionError
    <3>2. /\ holder' \in BOOLEAN /\ loaded' \in BOOLEAN /\ map' \in Map
          /\ database' \in BOOLEAN /\ batch' \in Batch
          /\ starting' \in Nat /\ timers' \in Nat /\ inFlight' \in Int
          /\ deletedOld' \in BOOLEAN
          /\ requests' \in Seq(Request) /\ replies' \in Seq(Reply)
      BY <3>1, ClosingType DEF TypeOK
    <3> QED
      BY <1>2, <3>2 DEF OnConnectionError, TypeOK
  <2>2. CASE tasks # <<>>
    BY <1>2, <2>2 DEF OnConnectionError, TypeOK
  <2> QED
    BY <2>1, <2>2
<1>3. ASSUME NEW c \in Call, PageCalls(c) PROVE TypeOK'
  <2>1. left' \in [{"calls", "urges", "faults"} -> Nat]
    BY <1>3, Takings DEF PageCalls
  <2>2. CASE loaded
    <3>1. map' \in Map /\ batch' \in Batch /\ starting' \in Nat
      BY <1>3, <2>2, CallChanges, BatchType, StartingType DEF PageCalls, Perform, TypeOK
    <3> QED
      BY <1>3, <2>1, <2>2, <3>1 DEF PageCalls, TypeOK
  <2>3. CASE ~loaded
    <3>1. tasks' \in Seq(Task) /\ requests' \in Seq(Request)
      BY <1>3, <2>3, LoadType, CallTasks DEF PageCalls
    <3> QED
      BY <1>3, <2>1, <2>3, <3>1 DEF PageCalls, TypeOK
  <2> QED
    BY <2>2, <2>3
<1>4. CASE OnMapLoaded
  <2>1. Head(replies) \in Reply /\ Head(replies).op = "read"
    BY <1>4 DEF OnMapLoaded, TypeOK
  <2>2. Head(replies).ok \in BOOLEAN /\ Head(replies).data \in Map
    BY <2>1 DEF Reply
  <2>3. replies' \in Seq(Reply)
    BY <1>4 DEF OnMapLoaded, TypeOK
  <2>4. CASE Head(replies).ok /\ Head(replies).data = Empty
    <3>1. legacy' \in Seq({"read", "delete"})
      <4>1. legacy' = Append(legacy, "read")
        BY <1>4, <2>4 DEF OnMapLoaded
      <4> QED
        BY <4>1 DEF TypeOK
    <3> QED
      BY <1>4, <2>3, <2>4, <3>1 DEF OnMapLoaded, TypeOK
  <2>5. CASE ~(Head(replies).ok /\ Head(replies).data = Empty)
    <3>1. /\ LoadCompletes(IF Head(replies).ok THEN Head(replies).data ELSE Empty)
          /\ database' = Head(replies).ok
          /\ UNCHANGED legacy
      BY <1>4, <2>5 DEF OnMapLoaded
    <3>2. /\ loaded' = TRUE /\ map' \in Map /\ running' \in Seq(Task)
          /\ tasks' = <<>> /\ database' \in BOOLEAN
      BY <2>2, <3>1, Maps DEF LoadCompletes, TypeOK
    <3> QED
      BY <1>4, <2>3, <3>1, <3>2 DEF OnMapLoaded, TypeOK
  <2> QED
    BY <2>4, <2>5
<1>5. CASE OnGotMigrationData
  <2> DEFINE data == Head(migrated)
             all == [open |-> data # Empty, clear |-> FALSE,
                     keys |-> {k \in Key : data[k] # Absent}]
  <2>1. data \in Map /\ migrated' \in Seq(Map)
    BY <1>5 DEF OnGotMigrationData, TypeOK
  <2>2. all \in Batch
    BY DEF Batch
  <2>3. /\ LoadCompletes(data)
        /\ requests' = RequestsAfterCommit(data, all)
        /\ inFlight' = IF all.open THEN inFlight + 1 ELSE inFlight
        /\ starting' = StartingAfter(all)
    BY <1>5 DEF OnGotMigrationData
  <2> HIDE DEF data, all
  <2>4. requests' \in Seq(Request) /\ inFlight' \in Int /\ starting' \in Nat
    BY <2>1, <2>2, <2>3, CommitType, StartingType DEF TypeOK
  <2>5. loaded' = TRUE /\ map' \in Map /\ running' \in Seq(Task) /\ tasks' = <<>>
    BY <2>1, <2>3 DEF LoadCompletes, TypeOK
  <2> QED
    BY <1>5, <2>1, <2>4, <2>5 DEF OnGotMigrationData, TypeOK
<1>6. CASE RunTask
  <2> DEFINE task == Head(running)
             commits == task.op = "commit" /\ database /\ batch.open
             m == IF task.op = "commit" THEN map ELSE MapAfter(task, map)
             b == IF commits THEN NoBatch
                  ELSE IF task.op = "commit" THEN batch ELSE BatchAfter(task, map, batch)
             q == IF commits THEN RequestsAfterCommit(map, batch) ELSE requests
  <2>1. task \in Task /\ running' \in Seq(Task)
    BY <1>6 DEF RunTask, TypeOK
  <2>2. m \in Map /\ b \in Batch /\ q \in Seq(Request)
    BY <2>1, CallTasks, CallChanges, BatchType, NoBatchType, CommitType DEF TypeOK
  <2>3. UNCHANGED <<bound, tasks, disk, meta, oldDatabase, deleting, failed, left>>
    BY <1>6 DEF RunTask
  <2>4. IF Len(running) = 1 /\ ~bound
          THEN OnNoBindings(m, b, q)
          ELSE /\ map' = m /\ batch' = b /\ requests' = q
               /\ inFlight' = IF commits THEN inFlight + 1 ELSE inFlight
               /\ starting' = StartingAfter(b)
               /\ UNCHANGED <<holder, loaded, database, timers, deletedOld, replies>>
    BY <1>6 DEF RunTask
  <2> HIDE DEF task, commits, m, b, q
  <2>5. /\ holder' \in BOOLEAN /\ loaded' \in BOOLEAN /\ map' \in Map
        /\ database' \in BOOLEAN /\ batch' \in Batch
        /\ starting' \in Nat /\ timers' \in Nat /\ inFlight' \in Int
        /\ deletedOld' \in BOOLEAN
        /\ requests' \in Seq(Request) /\ replies' \in Seq(Reply)
    <3>1. CASE Len(running) = 1 /\ ~bound
      BY <2>2, <2>4, <3>1, ClosingType
    <3>2. CASE ~(Len(running) = 1 /\ ~bound)
      BY <2>2, <2>4, <3>2, StartingType DEF TypeOK
    <3> QED
      BY <3>1, <3>2
  <2> QED
    BY <2>1, <2>3, <2>5 DEF TypeOK
<1>7. CASE StartCommitTimer
  BY <1>7 DEF StartCommitTimer, TypeOK
<1>8. CASE CommitTimerFires
  <2>1. requests' \in Seq(Request) /\ inFlight' \in Int /\ batch' \in Batch
    BY <1>8, CommitType, NoBatchType DEF CommitTimerFires, CommitChanges, TypeOK
  <2> QED
    BY <1>8, <2>1 DEF CommitTimerFires, TypeOK
<1>9. CASE OnCommitComplete
  <2>1. legacy' \in Seq({"read", "delete"}) /\ deletedOld' \in BOOLEAN
    <3>1. Head(replies) \in Reply /\ Head(replies).op = "write"
      BY <1>9 DEF OnCommitComplete, TypeOK
    <3>2. Head(replies).ok \in BOOLEAN
      BY <3>1 DEF Reply
    <3> QED
      BY <1>9, <3>2 DEF OnCommitComplete, TypeOK
  <2>2. replies' \in Seq(Reply) /\ inFlight' \in Int /\ timers' \in Nat
    BY <1>9 DEF OnCommitComplete, TimersAfterCommit, TypeOK
  <2> QED
    BY <1>9, <2>1, <2>2 DEF OnCommitComplete, TypeOK
<1>10. CASE Flush
  <2>1. left' \in [{"calls", "urges", "faults"} -> Nat]
    BY <1>10, Takings DEF Flush
  <2>2. CASE tasks # <<>>
    <3>1. tasks' \in Seq(Task) /\ requests' \in Seq(Request)
      BY <1>10, <2>2, LoadType, CallTasks DEF Flush
    <3> QED
      BY <1>10, <2>1, <2>2, <3>1 DEF Flush, TypeOK
  <2>3. CASE tasks = <<>>
    <3>1. requests' \in Seq(Request) /\ inFlight' \in Int /\ batch' \in Batch
      BY <1>10, <2>3, CommitType, NoBatchType DEF Flush, CommitChanges, TypeOK
    <3> QED
      BY <1>10, <2>1, <2>3, <3>1 DEF Flush, TypeOK
  <2> QED
    BY <2>2, <2>3
<1>11. CASE PurgeMemory
  <2>1. left' \in [{"calls", "urges", "faults"} -> Nat]
    BY <1>11, Takings DEF PurgeMemory
  <2> QED
    BY <1>11, <2>1, Maps DEF PurgeMemory, TypeOK
<1>12. CASE DeleteLocalStorage
  <2>1. left' \in [{"calls", "urges", "faults"} -> Nat]
    BY <1>12, Takings DEF DeleteLocalStorage
  <2> QED
    BY <1>12, <2>1 DEF DeleteLocalStorage, wrapper, TypeOK
<1>13. CASE DeleteStorage
  <2> DEFINE clear == [op |-> "clear"]
             b == BatchAfter(clear, map, batch)
  <2>1. b \in Batch
    BY CallTasks, BatchType DEF TypeOK
  <2>2. deleting' \in Nat
    BY <1>13 DEF DeleteStorage, TypeOK
  <2>3. CASE ~holder
    <3>1. requests' \in Seq(Request)
      <4>1. requests' = Append(requests, DeleteOrigin)
        BY <1>13, <2>3 DEF DeleteStorage
      <4> QED
        BY <4>1, DeletionOfOrigin DEF TypeOK
    <3> QED
      BY <1>13, <2>2, <2>3, <3>1 DEF DeleteStorage, wrapper, TypeOK
  <2>4. CASE holder /\ ~loaded
    <3>1. tasks' = tasks \o <<clear, [op |-> "commit"]>>
      BY <1>13, <2>4 DEF DeleteStorage
    <3>2. <<clear, [op |-> "commit"]>> \in Seq(Task)
      BY CallTasks
    <3>3. tasks' \in Seq(Task)
      BY <3>1, <3>2 DEF TypeOK
    <3>4. requests' \in Seq(Request)
      <4>1. requests' = requests \/ requests' = Append(requests, Read)
        BY <1>13, <2>4 DEF DeleteStorage
      <4>2. Append(requests, Read) \in Seq(Request)
        BY Queues DEF TypeOK
      <4> QED
        BY <4>1, <4>2 DEF TypeOK
    <3> QED
      BY <1>13, <2>2, <2>4, <3>3, <3>4 DEF DeleteStorage, TypeOK
  <2>5. CASE holder /\ loaded
    <3>1. /\ map' = Empty
          /\ requests' = RequestsAfterCommit(Empty, b)
          /\ inFlight' = IF b.open THEN inFlight + 1 ELSE inFlight
          /\ starting' = StartingAfter(b)
          /\ batch' = NoBatch
      BY <1>13, <2>5 DEF DeleteStorage
    <3> HIDE DEF b
    <3>2. /\ map' \in Map /\ requests' \in Seq(Request) /\ inFlight' \in Int
          /\ starting' \in Nat /\ batch' \in Batch
      <4>1. RequestsAfterCommit(Empty, b) \in Seq(Request)
        BY <2>1, CommitType, Maps
      <4>2. starting' \in Nat
        BY <3>1, StartingType
      <4>3. inFlight' \in Int
        BY <3>1 DEF TypeOK
      <4> QED
        BY <3>1, <4>1, <4>2, <4>3, NoBatchType, Maps
    <3> QED
      BY <1>13, <2>2, <2>5, <3>2 DEF DeleteStorage, TypeOK
  <2> QED
    BY <2>3, <2>4, <2>5 DEF TypeOK
<1>14. CASE ServeRequest
  <2> DEFINE r == Head(requests)
  <2>1. r \in Request /\ requests' \in Seq(Request)
    BY <1>14 DEF ServeRequest, TypeOK
  <2>2. CASE r.op = "read"
    <3>1. replies' = Append(replies, [op |-> "read", ok |-> TRUE, data |-> disk])
      BY <1>14, <2>2 DEF ServeRequest
    <3>2. [op |-> "read", ok |-> TRUE, data |-> disk] \in Reply
      BY DEF Reply, TypeOK
    <3>3. replies' \in Seq(Reply)
      BY <3>1, <3>2 DEF TypeOK
    <3> QED
      BY <1>14, <2>1, <2>2, <3>3 DEF ServeRequest, wrapper, TypeOK
  <2>3. CASE r.op # "read"
    <3>1. r \in Write
      BY <2>1, <2>3, Requests
    <3>2. disk' \in Map /\ meta' \in Size
      BY <1>14, <2>3, <3>1, Writes DEF ServeRequest, Write, TypeOK
    <3>3. [op |-> "write", ok |-> TRUE] \in Reply
      BY DEF Reply
    <3>4. replies' \in Seq(Reply)
      <4>1. \/ replies' = replies
            \/ replies' = Append(replies, [op |-> "write", ok |-> TRUE])
        BY <1>14, <2>3 DEF ServeRequest
      <4>2. Append(replies, [op |-> "write", ok |-> TRUE]) \in Seq(Reply)
        BY <3>3 DEF TypeOK
      <4> QED
        BY <4>1, <4>2 DEF TypeOK
    <3> QED
      BY <1>14, <2>1, <3>2, <3>4 DEF ServeRequest, wrapper, TypeOK
  <2> QED
    BY <2>2, <2>3
<1>15. CASE FailRequest
  <2>1. left' \in [{"calls", "urges", "faults"} -> Nat]
    BY <1>15, Takings DEF FailRequest
  <2>2. /\ [op |-> "read", ok |-> FALSE, data |-> Empty] \in Reply
        /\ [op |-> "write", ok |-> FALSE] \in Reply
    BY Maps DEF Reply
  <2>3. replies' \in Seq(Reply)
    <3> DEFINE r == Head(requests)
    <3>1. replies' = IF r.op = "read"
            THEN Append(replies, [op |-> "read", ok |-> FALSE, data |-> Empty])
            ELSE IF r.replies THEN Append(replies, [op |-> "write", ok |-> FALSE])
            ELSE replies
      BY <1>15 DEF FailRequest
    <3> QED
      BY <2>2, <3>1 DEF TypeOK
  <2>4. requests' \in Seq(Request) /\ failed' = TRUE
    BY <1>15 DEF FailRequest, TypeOK
  <2> QED
    BY <1>15, <2>1, <2>3, <2>4 DEF FailRequest, wrapper, TypeOK
<1>16. CASE ReadOldDatabase
  <2>1. migrated' \in Seq(Map) /\ legacy' \in Seq({"read", "delete"})
    BY <1>16, Maps, OldAssumption DEF ReadOldDatabase, TypeOK
  <2> QED
    BY <1>16, <2>1 DEF ReadOldDatabase, wrapper, TypeOK
<1>17. CASE DeleteOldDatabase
  <2>1. legacy' \in Seq({"read", "delete"})
    BY <1>17 DEF DeleteOldDatabase, TypeOK
  <2> QED
    BY <1>17, <2>1 DEF DeleteOldDatabase, wrapper, TypeOK
<1>18. CASE Crash
  <2>1. left' \in [{"calls", "urges", "faults"} -> Nat]
    BY <1>18, Takings DEF Crash
  <2>2. map' \in Map /\ batch' \in Batch
    BY <1>18, Maps, NoBatchType DEF Crash
  <2>3. /\ requests' \in Seq(Request) /\ replies' \in Seq(Reply)
        /\ tasks' \in Seq(Task) /\ running' \in Seq(Task)
        /\ legacy' \in Seq({"read", "delete"}) /\ migrated' \in Seq(Map)
    BY <1>18 DEF Crash
  <2>4. /\ holder' \in BOOLEAN /\ bound' \in BOOLEAN /\ loaded' \in BOOLEAN
        /\ database' \in BOOLEAN /\ deletedOld' \in BOOLEAN
    BY <1>18, Zenon DEF Crash
  <2>6. /\ starting' \in Nat /\ timers' \in Nat /\ inFlight' \in Int
        /\ deleting' \in Nat
    BY <1>18 DEF Crash
  <2>5. disk' \in Map /\ meta' \in Size /\ hasOld' \in BOOLEAN /\ failed' \in BOOLEAN
    BY <1>18 DEF Crash, TypeOK
  <2> QED
    BY <2>1, <2>2, <2>3, <2>4, <2>5, <2>6 DEF TypeOK
<1>19. CASE UNCHANGED vars
  BY <1>19 DEF vars, wrapper, TypeOK
<1> QED
  BY <1>1, <1>2, <1>3, <1>4, <1>5, <1>6, <1>7, <1>8, <1>9, <1>10, <1>11, <1>12,
     <1>13, <1>14, <1>15, <1>16, <1>17, <1>18, <1>19 DEF Next
-----------------------------------------------------------------------------
(* The load is one chain of requests and replies. *)

\* No load is under way.
Quiet == ~Pending(requests) /\ ~Pending(replies) /\ ~OldAsked /\ migrated = <<>>

LEMMA QuietIsSound == Quiet => ReadInv /\ ReplyInv /\ OldInv
BY DEF Quiet, ReadInv, ReplyInv, OldInv, Pending, OldAsked, Asked

LEMMA WithoutTasksQuiet ==
  ASSUME TypeOK, ReadInv, ReplyInv, OldInv, tasks = <<>> PROVE Quiet
BY DEF ReadInv, ReplyInv, OldInv, Quiet, Pending

LEMMA PendingAppend ==
  ASSUME NEW S, NEW q \in Seq(S), NEW r \in S
  PROVE  Pending(Append(q, r)) <=> Pending(q) \/ IsRead(r)
<1>1. /\ Len(q) \in Nat /\ Len(Append(q, r)) = Len(q) + 1
      /\ Append(q, r)[Len(q) + 1] = r
      /\ \A i \in 1..Len(q) : Append(q, r)[i] = q[i]
  OBVIOUS
<1> QED
  BY <1>1 DEF Pending

LEMMA PendingTail ==
  ASSUME NEW S, NEW q \in Seq(S), q # <<>>
  PROVE  /\ Len(Tail(q)) = Len(q) - 1 /\ Len(q) \in Nat /\ Len(q) > 0
         /\ \A i \in 1..Len(Tail(q)) : Tail(q)[i] = q[i + 1]
         /\ Head(q) = q[1]
         /\ Pending(Tail(q)) => Pending(q)
         /\ Asked(Tail(q)) => Asked(q)
<1>1. /\ Len(Tail(q)) = Len(q) - 1 /\ Len(q) \in Nat /\ Len(q) > 0
      /\ \A i \in 1..Len(Tail(q)) : Tail(q)[i] = q[i + 1]
      /\ Head(q) = q[1]
  OBVIOUS
<1>2. \A i \in 1..Len(Tail(q)) : i + 1 \in 1..Len(q)
  BY <1>1
<1> QED
  BY <1>1, <1>2 DEF Pending, Asked

LEMMA AskedAppend ==
  ASSUME NEW q \in Seq({"read", "delete"}), NEW r \in {"read", "delete"}
  PROVE  /\ Asked(Append(q, r)) <=> Asked(q) \/ r = "read"
         /\ Len(Append(q, r)) = Len(q) + 1 /\ Len(q) \in Nat
         /\ Append(q, r)[Len(q) + 1] = r
         /\ \A i \in 1..Len(q) : Append(q, r)[i] = q[i]
<1>1. /\ Len(q) \in Nat /\ Len(Append(q, r)) = Len(q) + 1
      /\ Append(q, r)[Len(q) + 1] = r
      /\ \A i \in 1..Len(q) : Append(q, r)[i] = q[i]
  OBVIOUS
<1> QED
  BY <1>1 DEF Asked

LEMMA Heads ==
  ASSUME NEW S, NEW q \in Seq(S), q # <<>>
  PROVE  Head(q) \in S /\ (Len(q) = 1 => Tail(q) = <<>>)
<1>1. Head(q) \in S
  OBVIOUS
<1>2. Tail(q) \in Seq(S) /\ Len(Tail(q)) = Len(q) - 1
  OBVIOUS
<1> QED
  BY <1>1, <1>2

LEMMA DeletionAsked ==
  ASSUME TypeOK, legacy' = legacy \/ legacy' = Append(legacy, "delete")
  PROVE  /\ Asked(legacy') <=> Asked(legacy)
         /\ \A i \in 1..Len(legacy') :
              legacy'[i] = "read" => i \in 1..Len(legacy) /\ legacy[i] = "read"
<1>1. CASE legacy' = legacy
  BY <1>1
<1>2. CASE legacy' = Append(legacy, "delete")
  <2>1. /\ Asked(legacy') <=> Asked(legacy)
        /\ Len(legacy') = Len(legacy) + 1 /\ Len(legacy) \in Nat
        /\ legacy'[Len(legacy) + 1] = "delete"
        /\ \A i \in 1..Len(legacy) : legacy'[i] = legacy[i]
    BY <1>2, AskedAppend DEF TypeOK
  <2> QED
    BY <2>1
<1> QED
  BY <1>1, <1>2

LEMMA CommitAsksNothing ==
  ASSUME TypeOK, NEW m \in Map, NEW b \in Batch, ~Pending(requests)
  PROVE  ~Pending(RequestsAfterCommit(m, b))
<1>1. ~IsRead(WriteOf(m, b)) /\ WriteOf(m, b) \in Request
  BY WriteOfMap DEF IsRead
<1> QED
  BY <1>1, PendingAppend DEF RequestsAfterCommit, TypeOK

LEMMA ClosingAsksNothing ==
  ASSUME NEW m \in Map, NEW b \in Batch, NEW q \in Seq(Request),
         OnNoBindings(m, b, q), ~Pending(q)
  PROVE  ~Pending(requests') /\ ~Pending(replies')
<1> DEFINE Q == IF b.open THEN Append(q, WriteOf(m, b)) ELSE q
<1>1. ~IsRead(WriteOf(m, b)) /\ WriteOf(m, b) \in Request
  BY WriteOfMap DEF IsRead
<1>2. Q \in Seq(Request) /\ ~Pending(Q)
  BY <1>1, PendingAppend
<1>3. requests' = Unanswered(Q) /\ replies' = <<>>
  BY DEF OnNoBindings
<1> HIDE DEF Q
<1>4. Len(requests') = Len(Q) /\ \A i \in 1..Len(Q) : requests'[i].op = Q[i].op
  BY <1>2, <1>3, NotAnswered, Maps
<1>5. ~Pending(requests')
  BY <1>2, <1>4 DEF Pending, IsRead
<1> QED
  BY <1>3, <1>5 DEF Pending

\* A task that waits for the map has it loaded, once.
LEMMA LoadAsksOnce ==
  ASSUME TypeOK, TypeOK', ReadInv, ReplyInv, OldInv, tasks' # <<>>,
         requests' = IF tasks = <<>> THEN Append(requests, Read) ELSE requests,
         UNCHANGED <<replies, disk, legacy, migrated>>
  PROVE  ReadInv' /\ ReplyInv' /\ OldInv'
<1>1. CASE tasks # <<>>
  BY <1>1 DEF ReadInv, ReplyInv, OldInv, OldAsked, Asked, Pending
<1>2. CASE tasks = <<>>
  <2>1. Quiet
    BY <1>2, WithoutTasksQuiet
  <2>2. /\ Len(requests') = Len(requests) + 1 /\ Len(requests) \in Nat
        /\ \A i \in 1..Len(requests) : requests'[i] = requests[i]
    BY <1>2, Queues DEF TypeOK
  <2>3. \A i \in 1..Len(requests') : IsRead(requests'[i]) => i = Len(requests')
    BY <2>1, <2>2 DEF Quiet, Pending
  <2>4. ReadInv'
    BY <2>1, <2>3 DEF Quiet, ReadInv, OldAsked, Asked, Pending
  <2>5. ReplyInv' /\ OldInv'
    BY <2>1 DEF Quiet, ReplyInv, OldInv, OldAsked, Asked, Pending
  <2> QED
    BY <2>4, <2>5
<1> QED
  BY <1>1, <1>2

\* What the load looks like depends on these alone.
LEMMA LoadGoesOn ==
  ASSUME ReadInv, ReplyInv, OldInv, tasks = <<>> => tasks' = <<>>,
         tasks # <<>> => tasks' # <<>>,
         UNCHANGED <<requests, replies, disk, legacy, migrated>>
  PROVE  ReadInv' /\ ReplyInv' /\ OldInv'
BY DEF ReadInv, ReplyInv, OldInv, OldAsked, Asked, Pending

LEMMA DeletionsAreNoLoad ==
  ASSUME TypeOK, ReadInv, ReplyInv, OldInv,
         legacy' = legacy \/ legacy' = Append(legacy, "delete"),
         UNCHANGED <<tasks, requests, replies, disk, migrated>>
  PROVE  ReadInv' /\ ReplyInv' /\ OldInv'
<1>1. /\ Asked(legacy') <=> Asked(legacy)
      /\ \A i \in 1..Len(legacy') :
           legacy'[i] = "read" => i \in 1..Len(legacy) /\ legacy[i] = "read"
  BY DeletionAsked
<1>2. OldInv'
  BY <1>1 DEF OldInv, OldAsked
<1>3. ReadInv' /\ ReplyInv'
  BY <1>1 DEF ReadInv, ReplyInv, OldAsked, Pending
<1> QED
  BY <1>2, <1>3

LEMMA LoadWaits ==
  ASSUME TypeOK, NEW t \in Task, LoadMap(t) PROVE tasks' # <<>>
<1>1. Len(Append(tasks, t)) = Len(tasks) + 1 /\ Len(tasks) \in Nat
  BY DEF TypeOK
<1> QED
  BY <1>1 DEF LoadMap

LEMMA LoadPreserved ==
  ASSUME TypeOK, TypeOK', LoadSound, [Next]_vars
  PROVE  LoadInv' /\ ReadInv' /\ ReplyInv' /\ OldInv'
<1> USE DEF leveldb, oldDatabase
<1>0. LoadInv /\ ReadInv /\ ReplyInv /\ OldInv
  BY DEF LoadSound
<1>1. CASE OpenLocalStorage
  <2>1. LoadInv'
    BY <1>0, <1>1 DEF OpenLocalStorage, LoadInv
  <2> QED
    BY <1>0, <1>1, <2>1, LoadGoesOn DEF OpenLocalStorage
<1>2. CASE OnConnectionError
  <2>1. CASE tasks = <<>>
    <3>1. OnNoBindings(map, batch, requests)
      BY <1>2, <2>1 DEF OnConnectionError
    <3>2. Quiet
      BY <1>0, <2>1, WithoutTasksQuiet
    <3>3. Quiet'
      BY <1>2, <3>1, <3>2, ClosingAsksNothing DEF OnConnectionError, Quiet, OldAsked, TypeOK
    <3>4. LoadInv'
      BY <1>2, <2>1, <3>1 DEF OnConnectionError, OnNoBindings, LoadInv, Idle
    <3> QED
      BY <3>3, <3>4, QuietIsSound, PTL
  <2>2. CASE tasks # <<>>
    <3>1. LoadInv'
      BY <1>0, <1>2, <2>2 DEF OnConnectionError, LoadInv
    <3> QED
      BY <1>0, <1>2, <2>2, <3>1, LoadGoesOn DEF OnConnectionError
  <2> QED
    BY <2>1, <2>2
<1>3. ASSUME NEW c \in Call, PageCalls(c)
      PROVE  LoadInv' /\ ReadInv' /\ ReplyInv' /\ OldInv'
  <2>1. CASE loaded
    <3>1. \/ BatchAfter(c, map, batch).open /\ database
          \/ BatchAfter(c, map, batch) = batch
      BY <1>0, BatchChanges DEF TypeOK
    <3>2. LoadInv'
      BY <1>0, <1>3, <2>1, <3>1 DEF PageCalls, Perform, LoadInv
    <3> QED
      BY <1>0, <1>3, <2>1, <3>2, LoadGoesOn DEF PageCalls
  <2>2. CASE ~loaded
    <3>1. LoadMap(c) /\ UNCHANGED <<holder, loaded, database, running, batch>>
      BY <1>3, <2>2 DEF PageCalls
    <3>2. tasks' # <<>>
      BY <3>1, LoadWaits, CallTasks
    <3>3. ReadInv' /\ ReplyInv' /\ OldInv'
      BY <1>0, <1>3, <3>1, <3>2, LoadAsksOnce DEF PageCalls, LoadMap
    <3>4. holder
      BY <1>0, <1>3 DEF PageCalls, LoadInv
    <3> QED
      BY <1>0, <2>2, <3>1, <3>2, <3>3, <3>4 DEF LoadInv
  <2> QED
    BY <2>1, <2>2
<1>4. CASE OnMapLoaded
  <2> DEFINE r == Head(replies)
  <2>1. /\ Idle /\ replies # <<>> /\ IsRead(r)
        /\ replies' = Tail(replies)
        /\ UNCHANGED <<holder, bound, batch, requests, disk, migrated>>
    BY <1>4 DEF OnMapLoaded, IsRead
  <2>2. Len(replies) \in Nat /\ Len(replies) > 0 /\ r = replies[1]
    BY <2>1, PendingTail DEF TypeOK
  <2>3. /\ 1 = Len(replies) /\ tasks # <<>> /\ requests = <<>>
        /\ r.ok => r.data = disk
        /\ ~OldAsked /\ migrated = <<>>
    <3>1. 1 \in 1..Len(replies) /\ IsRead(replies[1])
      BY <2>1, <2>2
    <3>2. /\ 1 = Len(replies) /\ tasks # <<>> /\ requests = <<>>
          /\ replies[1].ok => replies[1].data = disk
          /\ ~OldAsked /\ migrated = <<>>
      BY <1>0, <3>1 DEF ReplyInv
    <3> QED
      BY <2>2, <3>2, Zenon
  <2>4. replies' = <<>>
    BY <2>1, <2>3, Heads DEF TypeOK
  <2>5. ~Pending(requests') /\ ~Pending(replies')
    <3>1. requests' = <<>>
      BY <2>1, <2>3
    <3> QED
      BY <2>4, <3>1 DEF Pending
  <2>6. CASE r.ok /\ r.data = Empty
    <3>1. /\ legacy' = Append(legacy, "read")
          /\ UNCHANGED <<loaded, running, tasks, database>>
      BY <1>4, <2>3, <2>6 DEF OnMapLoaded
    <3>2. /\ Len(legacy') = Len(legacy) + 1 /\ Len(legacy) \in Nat
          /\ \A i \in 1..Len(legacy) : legacy'[i] = legacy[i]
      BY <3>1, AskedAppend DEF TypeOK
    <3>3. \A i \in 1..Len(legacy') : legacy'[i] = "read" => i = Len(legacy')
      BY <2>3, <3>2 DEF OldAsked, Asked
    <3>4. OldInv'
      BY <2>1, <2>3, <2>6, <3>1, <3>3 DEF OldInv
    <3>5. LoadInv'
      BY <1>0, <2>1, <3>1 DEF LoadInv
    <3> QED
      BY <2>5, <3>4, <3>5 DEF ReadInv, ReplyInv, Pending
  <2>7. CASE ~(r.ok /\ r.data = Empty)
    <3>1. /\ LoadCompletes(IF r.ok THEN r.data ELSE Empty)
          /\ UNCHANGED legacy
      BY <1>4, <2>7 DEF OnMapLoaded
    <3>2. Quiet'
      BY <2>1, <2>3, <2>5, <3>1 DEF Quiet, OldAsked
    <3>3. LoadInv'
      BY <1>0, <2>1, <2>3, <3>1 DEF LoadInv, LoadCompletes, NoBatch
    <3> QED
      BY <3>2, <3>3, QuietIsSound, PTL
  <2> QED
    BY <2>6, <2>7
<1>5. CASE OnGotMigrationData
  <2> DEFINE data == Head(migrated)
             all == [open |-> data # Empty, clear |-> FALSE,
                     keys |-> {k \in Key : data[k] # Absent}]
  <2>1. /\ LoadCompletes(data)
        /\ requests' = RequestsAfterCommit(data, all)
        /\ migrated # <<>> /\ migrated' = Tail(migrated)
        /\ UNCHANGED <<holder, bound, database, batch, replies, legacy>>
    BY <1>5 DEF OnGotMigrationData
  <2>2. data \in Map /\ all \in Batch
    <3>1. data \in Map
      BY <2>1, Heads DEF TypeOK
    <3> QED
      BY <3>1 DEF Batch
  <2> HIDE DEF data, all
  <2>3. /\ Len(migrated) = 1 /\ tasks # <<>> /\ requests = <<>>
        /\ ~Pending(replies) /\ ~OldAsked
    BY <1>0, <2>1 DEF OldInv, ReplyInv, Pending
  <2>4. ~Pending(requests)
    BY <2>3 DEF Pending
  <2>5. ~Pending(requests')
    BY <2>1, <2>2, <2>4, CommitAsksNothing
  <2>6. migrated' = <<>>
    BY <2>1, <2>3, Heads DEF TypeOK
  <2>7. Quiet'
    BY <2>1, <2>3, <2>5, <2>6 DEF Quiet, OldAsked
  <2>8. LoadInv'
    BY <1>0, <2>1, <2>3 DEF LoadInv, LoadCompletes
  <2> QED
    BY <2>7, <2>8, QuietIsSound, PTL
<1>6. CASE RunTask
  <2> DEFINE task == Head(running)
             commits == task.op = "commit" /\ database /\ batch.open
             m == IF task.op = "commit" THEN map ELSE MapAfter(task, map)
             b == IF commits THEN NoBatch
                  ELSE IF task.op = "commit" THEN batch ELSE BatchAfter(task, map, batch)
             q == IF commits THEN RequestsAfterCommit(map, batch) ELSE requests
  <2>1. /\ running # <<>> /\ running' = Tail(running)
        /\ UNCHANGED <<bound, tasks, disk, legacy, migrated>>
    BY <1>6 DEF RunTask
  <2>2. IF Len(running) = 1 /\ ~bound
          THEN OnNoBindings(m, b, q)
          ELSE /\ map' = m /\ batch' = b /\ requests' = q
               /\ UNCHANGED <<holder, loaded, database, replies>>
    BY <1>6 DEF RunTask
  <2>3. task \in Task
    BY <2>1, Heads DEF TypeOK
  <2>4. m \in Map /\ b \in Batch /\ q \in Seq(Request)
    BY <2>3, CallTasks, CallChanges, BatchType, NoBatchType, CommitType DEF TypeOK
  <2>5. loaded /\ holder /\ tasks = <<>>
    BY <1>0, <2>1 DEF LoadInv
  <2>6. Quiet
    BY <1>0, <2>5, WithoutTasksQuiet
  <2>7. ~Pending(q)
    BY <2>6, CommitAsksNothing DEF Quiet, TypeOK
  <2>8. (~b.open => b = NoBatch) /\ (~database => ~b.open)
    BY <1>0, <2>3, CallTasks, BatchChanges DEF LoadInv, TypeOK
  <2> HIDE DEF m, b, q
  <2>9. CASE Len(running) = 1 /\ ~bound
    <3>1. OnNoBindings(m, b, q)
      BY <2>2, <2>9
    <3>2. Quiet'
      BY <2>1, <2>4, <2>6, <2>7, <3>1, ClosingAsksNothing DEF Quiet, OldAsked
    <3>3. running' = <<>>
      BY <2>1, <2>9, Heads DEF TypeOK
    <3>4. LoadInv'
      BY <2>1, <2>5, <2>9, <3>1, <3>3 DEF OnNoBindings, LoadInv
    <3> QED
      BY <3>2, <3>4, QuietIsSound, PTL
  <2>10. CASE ~(Len(running) = 1 /\ ~bound)
    <3>1. /\ map' = m /\ batch' = b /\ requests' = q
          /\ UNCHANGED <<holder, loaded, database, replies>>
      BY <2>2, <2>10
    <3>2. Quiet'
      BY <2>1, <2>6, <2>7, <3>1 DEF Quiet, OldAsked
    <3>3. bound \/ running' # <<>>
      <4>1. Len(running) > 0 /\ Len(Tail(running)) = Len(running) - 1
        BY <2>1, PendingTail DEF TypeOK
      <4> QED
        BY <2>1, <2>10, <4>1
    <3>4. LoadInv'
      BY <1>0, <2>1, <2>5, <2>8, <3>1, <3>3 DEF LoadInv
    <3> QED
      BY <3>2, <3>4, QuietIsSound, PTL
  <2> QED
    BY <2>9, <2>10
<1>7. CASE StartCommitTimer
  <2>1. LoadInv'
    BY <1>0, <1>7 DEF StartCommitTimer, LoadInv
  <2> QED
    BY <1>0, <1>7, <2>1, LoadGoesOn DEF StartCommitTimer
<1>8. ASSUME CommitChanges, UNCHANGED <<holder, bound, loaded, database, tasks,
             running, replies, disk, legacy, migrated>>
      PROVE  LoadInv' /\ ReadInv' /\ ReplyInv' /\ OldInv'
  <2>1. LoadInv'
    BY <1>0, <1>8 DEF CommitChanges, LoadInv, NoBatch
  <2>2. CASE batch.open
    <3>1. tasks = <<>>
      BY <1>0, <2>2 DEF LoadInv, NoBatch
    <3>2. Quiet
      BY <1>0, <3>1, WithoutTasksQuiet
    <3>3. Quiet'
      BY <1>8, <3>2, CommitAsksNothing DEF CommitChanges, Quiet, OldAsked, TypeOK
    <3> QED
      BY <2>1, <3>3, QuietIsSound, PTL
  <2>3. CASE ~batch.open
    <3>1. requests' = requests
      BY <1>8, <2>3 DEF CommitChanges, RequestsAfterCommit
    <3> QED
      BY <1>0, <1>8, <2>1, <3>1, LoadGoesOn
  <2> QED
    BY <2>2, <2>3
<1>9. CASE CommitTimerFires
  BY <1>8, <1>9 DEF CommitTimerFires
<1>10. CASE OnCommitComplete
  <2> DEFINE r == Head(replies)
  <2>1. /\ replies # <<>> /\ replies' = Tail(replies) /\ ~IsRead(r)
        /\ legacy' = legacy \/ legacy' = Append(legacy, "delete")
        /\ UNCHANGED <<holder, bound, loaded, database, tasks, running, batch,
                       requests, disk, migrated>>
    BY <1>10 DEF OnCommitComplete, IsRead
  <2>2. /\ Len(replies') = Len(replies) - 1 /\ Len(replies) \in Nat
        /\ \A i \in 1..Len(replies') : replies'[i] = replies[i + 1]
        /\ Pending(replies') => Pending(replies)
    BY <2>1, PendingTail DEF TypeOK
  <2>3. /\ Asked(legacy') <=> Asked(legacy)
        /\ \A i \in 1..Len(legacy') :
             legacy'[i] = "read" => i \in 1..Len(legacy) /\ legacy[i] = "read"
    BY <2>1, DeletionAsked
  <2>4. ReadInv'
    BY <1>0, <2>1, <2>2, <2>3 DEF ReadInv, OldAsked
  <2>5. ReplyInv'
    <3>1. ASSUME NEW i \in 1..Len(replies'), IsRead(replies'[i])
          PROVE  i + 1 \in 1..Len(replies) /\ IsRead(replies[i + 1])
      BY <2>2, <3>1
    <3>2. ASSUME NEW i \in 1..Len(replies'), IsRead(replies'[i])
          PROVE  /\ i + 1 = Len(replies) /\ tasks # <<>> /\ requests = <<>>
                 /\ replies'[i].ok => replies'[i].data = disk
                 /\ ~OldAsked /\ migrated = <<>>
      <4>1. i + 1 \in 1..Len(replies) /\ IsRead(replies[i + 1])
        BY <3>1, <3>2
      <4>2. /\ i + 1 = Len(replies) /\ tasks # <<>> /\ requests = <<>>
            /\ replies[i + 1].ok => replies[i + 1].data = disk
            /\ ~OldAsked /\ migrated = <<>>
        BY <1>0, <4>1 DEF ReplyInv
      <4>3. replies'[i] = replies[i + 1]
        BY <2>2
      <4> QED
        BY <4>2, <4>3, Zenon
    <3>3. ~OldAsked' <=> ~OldAsked
      BY <2>3 DEF OldAsked
    <3>4. ASSUME NEW i \in 1..Len(replies'), IsRead(replies'[i])
          PROVE  i = Len(replies')
      BY <2>2, <3>2, <3>4
    <3> QED
      BY <2>1, <3>2, <3>3, <3>4, Zenon DEF ReplyInv
  <2>6. OldInv'
    BY <1>0, <2>1, <2>3 DEF OldInv, OldAsked
  <2>7. LoadInv'
    BY <1>0, <2>1 DEF LoadInv
  <2> QED
    BY <2>4, <2>5, <2>6, <2>7
<1>11. CASE Flush
  <2>1. CASE tasks # <<>>
    <3>1. LoadMap([op |-> "commit"]) /\ [op |-> "commit"] \in Task
      BY <1>11, <2>1, CallTasks DEF Flush
    <3>2. tasks' # <<>>
      BY <3>1, LoadWaits
    <3>3. ReadInv' /\ ReplyInv' /\ OldInv'
      BY <1>0, <1>11, <3>1, <3>2, LoadAsksOnce DEF Flush, LoadMap
    <3>4. LoadInv'
      BY <1>0, <1>11, <2>1, <3>2 DEF Flush, LoadInv
    <3> QED
      BY <3>3, <3>4
  <2>2. CASE tasks = <<>>
    BY <1>8, <1>11, <2>2 DEF Flush
  <2> QED
    BY <2>1, <2>2
<1>12. CASE PurgeMemory
  <2>1. LoadInv'
    BY <1>0, <1>12 DEF PurgeMemory, LoadInv, Idle
  <2> QED
    BY <1>0, <1>12, <2>1, LoadGoesOn DEF PurgeMemory
<1>13. CASE DeleteLocalStorage
  <2>1. LoadInv'
    BY <1>0, <1>13 DEF DeleteLocalStorage, wrapper, LoadInv
  <2> QED
    BY <1>0, <1>13, <2>1, DeletionsAreNoLoad DEF DeleteLocalStorage, wrapper
<1>14. CASE DeleteStorage
  <2> DEFINE clear == [op |-> "clear"]
             b == BatchAfter(clear, map, batch)
  <2>1. UNCHANGED <<replies, disk, legacy, migrated>>
    BY <1>14 DEF DeleteStorage
  <2>2. CASE ~holder
    <3>1. requests' = Append(requests, DeleteOrigin) /\ UNCHANGED wrapper
      BY <1>14, <2>2 DEF DeleteStorage
    <3>2. Quiet
      BY <1>0, <2>2, WithoutTasksQuiet DEF LoadInv
    <3>3. ~Pending(requests')
      BY <3>1, <3>2, DeletionOfOrigin, PendingAppend DEF Quiet, IsRead, TypeOK
    <3>4. Quiet'
      BY <2>1, <3>2, <3>3 DEF Quiet, OldAsked
    <3>5. LoadInv'
      BY <1>0, <3>1 DEF wrapper, LoadInv
    <3> QED
      BY <3>4, <3>5, QuietIsSound, PTL
  <2>3. CASE holder /\ ~loaded
    <3>1. /\ tasks' = tasks \o <<clear, [op |-> "commit"]>>
          /\ requests' = IF tasks = <<>> THEN Append(requests, Read) ELSE requests
          /\ UNCHANGED <<holder, bound, loaded, database, running, batch>>
      BY <1>14, <2>3 DEF DeleteStorage
    <3>2. tasks' # <<>>
      <4>1. <<clear, [op |-> "commit"]>> \in Seq(Task)
        BY CallTasks
      <4>2. Len(tasks') = Len(tasks) + 2 /\ Len(tasks) \in Nat
        BY <3>1, <4>1 DEF TypeOK
      <4> QED
        BY <4>2
    <3>3. ReadInv' /\ ReplyInv' /\ OldInv'
      BY <1>0, <2>1, <3>1, <3>2, LoadAsksOnce
    <3>4. LoadInv'
      BY <1>0, <2>3, <3>1 DEF LoadInv
    <3> QED
      BY <3>3, <3>4
  <2>4. CASE holder /\ loaded
    <3>1. /\ requests' = RequestsAfterCommit(Empty, b)
          /\ batch' = NoBatch
          /\ UNCHANGED <<holder, bound, loaded, database, tasks, running>>
      BY <1>14, <2>4 DEF DeleteStorage
    <3>2. b \in Batch
      BY CallTasks, BatchType DEF TypeOK
    <3> HIDE DEF b
    <3>3. Quiet
      BY <1>0, <2>4, WithoutTasksQuiet DEF LoadInv
    <3>4. Quiet'
      BY <2>1, <3>1, <3>2, <3>3, CommitAsksNothing, Maps DEF Quiet, OldAsked
    <3>5. LoadInv'
      BY <1>0, <3>1 DEF LoadInv
    <3> QED
      BY <3>4, <3>5, QuietIsSound, PTL
  <2> QED
    BY <2>2, <2>3, <2>4
<1>15. ASSUME requests # <<>>, requests' = Tail(requests),
             UNCHANGED <<wrapper, legacy, migrated>>,
             IsRead(Head(requests)) =>
               /\ disk' = disk
               /\ \E ok \in BOOLEAN, d \in Map :
                    /\ ok => d = disk
                    /\ replies' = Append(replies, [op |-> "read", ok |-> ok, data |-> d]),
             ~IsRead(Head(requests)) =>
               \/ replies' = replies
               \/ \E ok \in BOOLEAN :
                    replies' = Append(replies, [op |-> "write", ok |-> ok])
      PROVE  LoadInv' /\ ReadInv' /\ ReplyInv' /\ OldInv'
  <2> DEFINE r == Head(requests)
  <2>1. /\ requests # <<>> /\ requests' = Tail(requests)
        /\ UNCHANGED <<wrapper, legacy, migrated>>
    BY <1>15
  <2>2. LoadInv'
    BY <1>0, <2>1 DEF wrapper, LoadInv
  <2>3. /\ Len(requests') = Len(requests) - 1 /\ Len(requests) \in Nat
        /\ Len(requests) > 0 /\ r = requests[1]
        /\ \A i \in 1..Len(requests') : requests'[i] = requests[i + 1]
    BY <2>1, PendingTail DEF TypeOK
  <2>4. ~Pending(replies) /\ ~OldAsked /\ migrated = <<>>
    BY <1>0, <2>1 DEF ReplyInv, OldInv, Pending
  <2>5. OldInv'
    BY <2>1, <2>4 DEF OldInv, OldAsked, Asked
  <2>6. CASE IsRead(r)
    <3> PICK ok \in BOOLEAN, d \in Map :
          /\ ok => d = disk
          /\ replies' = Append(replies, [op |-> "read", ok |-> ok, data |-> d])
      BY <1>15, <2>6
    <3> DEFINE answer == [op |-> "read", ok |-> ok, data |-> d]
    <3>1. /\ replies' = Append(replies, answer)
          /\ disk' = disk
      BY <1>15, <2>6
    <3>2. 1 = Len(requests) /\ tasks # <<>>
      BY <1>0, <2>3, <2>6 DEF ReadInv
    <3>3. requests' = <<>>
      BY <2>1, <3>2, Heads DEF TypeOK
    <3>4. /\ answer \in Reply /\ answer.ok = ok /\ answer.data = d
      BY DEF Reply
    <3> HIDE DEF answer
    <3>5. /\ Len(replies') = Len(replies) + 1 /\ Len(replies) \in Nat
          /\ replies'[Len(replies')] = answer
          /\ \A i \in 1..Len(replies) : replies'[i] = replies[i]
      <4>1. replies \in Seq(Reply)
        BY DEF TypeOK
      <4> QED
        BY <3>1, <3>4, <4>1
    <3>6. \A i \in 1..Len(replies') : IsRead(replies'[i]) => i = Len(replies')
      BY <2>4, <3>5 DEF Pending
    <3>9. answer.ok => answer.data = disk
      BY <3>4, Zenon
    <3>7. ReplyInv'
      BY <2>1, <2>4, <3>1, <3>2, <3>3, <3>5, <3>6, <3>9 DEF ReplyInv, OldAsked, wrapper
    <3>8. ReadInv'
      BY <3>3 DEF ReadInv
    <3> QED
      BY <2>2, <2>5, <3>7, <3>8
  <2>7. CASE ~IsRead(r)
    <3>1. \/ replies' = replies
          \/ \E ok \in BOOLEAN : replies' = Append(replies, [op |-> "write", ok |-> ok])
      BY <1>15, <2>7
    <3>2. \A ok \in BOOLEAN : [op |-> "write", ok |-> ok] \in Reply
      BY DEF Reply
    <3>3. ~Pending(replies')
      <4>1. replies \in Seq(Reply)
        BY DEF TypeOK
      <4>2. \A ok \in BOOLEAN : ~IsRead([op |-> "write", ok |-> ok])
        BY DEF IsRead
      <4> QED
        BY <2>4, <3>1, <3>2, <4>1, <4>2, PendingAppend
    <3>4. ASSUME NEW i \in 1..Len(requests'), IsRead(requests'[i])
          PROVE  i + 1 \in 1..Len(requests) /\ IsRead(requests[i + 1])
      BY <2>3, <3>4
    <3>5. ASSUME NEW i \in 1..Len(requests'), IsRead(requests'[i])
          PROVE  i = Len(requests') /\ tasks # <<>>
      <4>1. i + 1 = Len(requests) /\ tasks # <<>>
        BY <1>0, <3>4, <3>5 DEF ReadInv
      <4> QED
        BY <2>3, <4>1
    <3>7. ReadInv'
      BY <2>1, <2>4, <3>3, <3>5 DEF ReadInv, OldAsked, wrapper
    <3>6. ReplyInv'
      BY <3>3 DEF ReplyInv, Pending
    <3> QED
      BY <2>2, <2>5, <3>6, <3>7
  <2> QED
    BY <2>6, <2>7
<1>16. CASE ServeRequest
  <2>1. disk \in Map /\ TRUE \in BOOLEAN
    BY DEF TypeOK
  <2> QED
    BY <1>15, <1>16, <2>1 DEF ServeRequest, IsRead
<1>21. CASE FailRequest
  BY <1>15, <1>21, Maps DEF FailRequest, IsRead
<1>17. CASE ReadOldDatabase
  <2>1. /\ legacy # <<>> /\ Head(legacy) = "read" /\ legacy' = Tail(legacy)
        /\ migrated' = Append(migrated, IF hasOld THEN Old ELSE Empty)
        /\ UNCHANGED <<wrapper, requests, replies, disk>>
    BY <1>17 DEF ReadOldDatabase
  <2>2. /\ Len(legacy') = Len(legacy) - 1 /\ Len(legacy) \in Nat
        /\ Len(legacy) > 0 /\ legacy[1] = "read"
        /\ \A i \in 1..Len(legacy') : legacy'[i] = legacy[i + 1]
    BY <2>1, PendingTail DEF TypeOK
  <2>3. /\ tasks # <<>> /\ requests = <<>> /\ disk = Empty /\ migrated = <<>>
        /\ OldAsked
    BY <1>0, <2>2 DEF OldInv, OldAsked, Asked
  <2>4. ~Asked(legacy')
    <3> SUFFICES ASSUME NEW i \in 1..Len(legacy'), legacy'[i] = "read" PROVE FALSE
      BY DEF Asked
    <3>1. i + 1 \in 1..Len(legacy) /\ legacy[i + 1] = "read" /\ i + 1 # 1
      BY <2>2
    <3> QED
      BY <1>0, <2>2, <3>1 DEF OldInv
  <2>5. ~Pending(replies) /\ ~Pending(requests)
    BY <1>0, <2>3 DEF ReplyInv, Pending
  <2>6. Len(migrated') = 1 /\ migrated'[1] \in {Old, Empty}
    BY <2>1, <2>3
  <2>7. OldInv'
    BY <2>1, <2>3, <2>4, <2>6 DEF OldInv, OldAsked, Asked, wrapper
  <2>8. ReadInv' /\ ReplyInv'
    BY <2>1, <2>5 DEF ReadInv, ReplyInv, Pending
  <2>9. LoadInv'
    BY <1>0, <2>1 DEF wrapper, LoadInv
  <2> QED
    BY <2>7, <2>8, <2>9
<1>18. CASE DeleteOldDatabase
  <2>1. /\ legacy # <<>> /\ Head(legacy) = "delete" /\ legacy' = Tail(legacy)
        /\ UNCHANGED <<wrapper, requests, replies, disk, migrated>>
    BY <1>18 DEF DeleteOldDatabase
  <2>2. /\ Len(legacy') = Len(legacy) - 1 /\ Len(legacy) \in Nat
        /\ \A i \in 1..Len(legacy') : legacy'[i] = legacy[i + 1]
        /\ Asked(legacy') => Asked(legacy)
    BY <2>1, PendingTail DEF TypeOK
  <2>3. \A i, j \in 1..Len(legacy') : legacy'[i] = "read" /\ legacy'[j] = "read" => i = j
    <3> SUFFICES ASSUME NEW i \in 1..Len(legacy'), NEW j \in 1..Len(legacy'),
                        legacy'[i] = "read", legacy'[j] = "read"
                 PROVE  i = j
      OBVIOUS
    <3>1. /\ i + 1 \in 1..Len(legacy) /\ legacy[i + 1] = "read"
          /\ j + 1 \in 1..Len(legacy) /\ legacy[j + 1] = "read"
      BY <2>2
    <3> QED
      BY <1>0, <2>2, <3>1 DEF OldInv
  <2>4. OldInv'
    BY <1>0, <2>1, <2>2, <2>3 DEF OldInv, OldAsked, wrapper
  <2>5. ReadInv' /\ ReplyInv'
    BY <1>0, <2>1, <2>2 DEF ReadInv, ReplyInv, OldAsked, wrapper, Pending
  <2>6. LoadInv'
    BY <1>0, <2>1 DEF wrapper, LoadInv
  <2> QED
    BY <2>4, <2>5, <2>6
<1>19. CASE Crash
  <2>1. LoadInv'
    BY <1>19 DEF Crash, LoadInv
  <2>2. Quiet'
    BY <1>19 DEF Crash, Quiet, Pending, OldAsked, Asked
  <2> QED
    BY <2>1, <2>2, QuietIsSound, PTL
<1>20. CASE UNCHANGED vars
  <2>1. LoadInv'
    BY <1>0, <1>20 DEF vars, wrapper, LoadInv
  <2> QED
    BY <1>0, <1>20, <2>1, LoadGoesOn DEF vars, wrapper
<1> QED
  BY <1>1, <1>2, <1>3, <1>4, <1>5, <1>6, <1>7, <1>9, <1>10, <1>11, <1>12,
     <1>13, <1>14, <1>16, <1>17, <1>18, <1>19, <1>20, <1>21 DEF Next

LEMMA OkPreserved ==
  ASSUME TypeOK, OkInv, ~failed', [Next]_vars
  PROVE  OkInv'
<1> USE DEF leveldb, oldDatabase
<1>a. ASSUME database', replies' = replies PROVE OkInv'
  BY <1>a DEF OkInv
<1>b. ASSUME database', replies # <<>>, replies' = Tail(replies) PROVE OkInv'
  <2>1. /\ Len(replies') = Len(replies) - 1 /\ Len(replies) \in Nat
        /\ \A i \in 1..Len(replies') : replies'[i] = replies[i + 1]
    BY <1>b, PendingTail DEF TypeOK
  <2>2. \A i \in 1..Len(replies') : i + 1 \in 1..Len(replies)
    BY <2>1
  <2> QED
    BY <1>b, <2>1, <2>2 DEF OkInv
<1>c. ASSUME database', replies' = <<>> PROVE OkInv'
  BY <1>c DEF OkInv
<1>0. database
  BY DEF OkInv
<1>1. CASE OnMapLoaded
  <2>1. replies # <<>> /\ replies' = Tail(replies) /\ IsRead(Head(replies))
    BY <1>1 DEF OnMapLoaded, IsRead
  <2>2. Head(replies).ok
    <3>1. Head(replies) = replies[1] /\ 1 \in 1..Len(replies)
      BY <2>1, PendingTail DEF TypeOK
    <3> QED
      BY <2>1, <3>1 DEF OkInv
  <2>3. database'
    BY <1>0, <1>1, <2>2 DEF OnMapLoaded
  <2> QED
    BY <1>b, <2>1, <2>3
<1>2. CASE OnCommitComplete
  BY <1>0, <1>2, <1>b DEF OnCommitComplete
<1>3. CASE ServeRequest
  <2> DEFINE read == [op |-> "read", ok |-> TRUE, data |-> disk]
             write == [op |-> "write", ok |-> TRUE]
  <2>1. /\ database' = database
        /\ \/ replies' = replies
           \/ \E a \in {read, write} : replies' = Append(replies, a)
    BY <1>3 DEF ServeRequest, wrapper
  <2>2. read \in Reply /\ write \in Reply /\ read.ok /\ write.ok
    BY DEF Reply, TypeOK
  <2> HIDE DEF read, write
  <2>3. ASSUME NEW a \in {read, write}, replies' = Append(replies, a) PROVE OkInv'
    <3>1. /\ Len(replies') = Len(replies) + 1 /\ Len(replies) \in Nat
          /\ replies'[Len(replies) + 1] = a
          /\ \A i \in 1..Len(replies) : replies'[i] = replies[i]
      BY <2>2, <2>3 DEF TypeOK
    <3> QED
      BY <1>0, <2>1, <2>2, <3>1 DEF OkInv
  <2> QED
    BY <1>0, <1>a, <2>1, <2>3
<1>4. CASE FailRequest
  BY <1>4 DEF FailRequest
<1>5. CASE Crash
  BY <1>5, <1>c DEF Crash
<1>6. CASE OnConnectionError \/ RunTask
  <2>1. (database' /\ replies' = <<>>) \/ (database' = database /\ replies' = replies)
    BY <1>6 DEF OnConnectionError, RunTask, OnNoBindings
  <2> QED
    BY <1>0, <1>a, <1>c, <2>1
<1>7. ASSUME UNCHANGED <<database, replies>> PROVE OkInv'
  BY <1>0, <1>7, <1>a
<1>8. CASE \/ OpenLocalStorage \/ (\E c \in Call : PageCalls(c)) \/ OnGotMigrationData
           \/ StartCommitTimer \/ CommitTimerFires \/ Flush \/ PurgeMemory
  BY <1>7, <1>8 DEF OpenLocalStorage, PageCalls, OnGotMigrationData, StartCommitTimer,
     CommitTimerFires, Flush, PurgeMemory
<1>9. CASE \/ DeleteLocalStorage \/ DeleteStorage \/ ReadOldDatabase
           \/ DeleteOldDatabase \/ UNCHANGED vars
  BY <1>7, <1>9 DEF DeleteLocalStorage, DeleteStorage, ReadOldDatabase,
     DeleteOldDatabase, vars, wrapper
<1> QED
  BY <1>1, <1>2, <1>3, <1>4, <1>5, <1>6, <1>8, <1>9 DEF Next
-----------------------------------------------------------------------------
(* One map, and its steps. *)

\* Some of the old version's data is still to be had.
HasOld == hasOld \/ (migrated # <<>> /\ migrated[1] # Empty)

LEMMA Stutters ==
  ASSUME UNCHANGED <<Seen, Afters(requests), disk, HasOld, failed>>
  PROVE  [Stored!Next]_(Stored!vars)
BY DEF Stored!vars, Afters, HasOld

LEMMA Sends ==
  ASSUME Afters(requests)' = Append(Afters(requests), Seen),
         UNCHANGED <<Seen, disk, HasOld, failed>>
  PROVE  [Stored!Next]_(Stored!vars)
<1>1. Stored!Send
  BY DEF Stored!Send, Afters, HasOld
<1> QED
  BY <1>1 DEF Stored!Next

LEMMA Calls ==
  ASSUME NEW c \in Call, Seen' = MapAfter(c, Seen),
         UNCHANGED <<Afters(requests), disk, HasOld, failed>>
  PROVE  [Stored!Next]_(Stored!vars)
<1>1. Stored!CallMade(c)
  BY DEF Stored!CallMade, Afters, HasOld
<1> QED
  BY <1>1 DEF Stored!Next

LEMMA CallsAndSends ==
  ASSUME NEW c \in Call, Seen' = MapAfter(c, Seen),
         Afters(requests)' = Append(Afters(requests), Seen'),
         UNCHANGED <<disk, HasOld, failed>>
  PROVE  [Stored!Next]_(Stored!vars)
<1>1. Stored!CallMadeAndSent(c)
  BY DEF Stored!CallMadeAndSent, Afters, HasOld
<1> QED
  BY <1>1 DEF Stored!Next

LEMMA QueuesNext == OnItsWay' = LastOf(requests', disk') /\ Afters(requests)' = Afters(requests')
BY DEF OnItsWay, LastOf, Afters

\* A write with all that a batch has makes the disk that map.
LEMMA Committing ==
  ASSUME NEW m \in Map, NEW b \in Batch, NEW q \in Seq(Request), NEW d \in Map,
         ChainOf(q, d), b.open => Covers(b, m, LastOf(q, d))
  PROVE  LET Q == IF b.open THEN Append(q, WriteOf(m, b)) ELSE q
         IN /\ Q \in Seq(Request)
            /\ ChainOf(Q, d)
            /\ LastOf(Q, d) = IF b.open THEN m ELSE LastOf(q, d)
            /\ Afters(Q) = IF b.open THEN Append(Afters(q), m) ELSE Afters(q)
<1>1. WriteOf(m, b) \in Request /\ WriteOf(m, b).after = m
  BY WriteOfMap
<1>2. CASE b.open
  <2>1. Keeps(WriteOf(m, b), LastOf(q, d))
    BY <1>2, WriteOfMap, LastIsMap
  <2>2. /\ ChainOf(Append(q, WriteOf(m, b)), d)
        /\ LastOf(Append(q, WriteOf(m, b)), d) = m
        /\ Afters(Append(q, WriteOf(m, b))) = Append(Afters(q), m)
    BY <1>1, <2>1, Appending
  <2>3. Append(q, WriteOf(m, b)) \in Seq(Request)
    BY <1>1
  <2> QED
    BY <1>2, <2>2, <2>3
<1> QED
  BY <1>2

LEMMA Closing ==
  ASSUME NEW m \in Map, NEW b \in Batch, NEW q \in Seq(Request), NEW d \in Map,
         ChainOf(q, d), b.open => Covers(b, m, LastOf(q, d)),
         OnNoBindings(m, b, q)
  PROVE  /\ ~loaded'
         /\ ChainOf(requests', d)
         /\ LastOf(requests', d) = IF b.open THEN m ELSE LastOf(q, d)
         /\ Afters(requests') = IF b.open THEN Append(Afters(q), m) ELSE Afters(q)
<1> DEFINE Q == IF b.open THEN Append(q, WriteOf(m, b)) ELSE q
<1>1. /\ Q \in Seq(Request)
      /\ ChainOf(Q, d)
      /\ LastOf(Q, d) = IF b.open THEN m ELSE LastOf(q, d)
      /\ Afters(Q) = IF b.open THEN Append(Afters(q), m) ELSE Afters(q)
  BY Committing
<1>2. requests' = Unanswered(Q) /\ ~loaded'
  BY DEF OnNoBindings
<1> HIDE DEF Q
<1> QED
  BY <1>1, <1>2, NotAnswered

LEMMA NoBatchNoChange ==
  ASSUME TypeOK, LoadInv, DataInv, loaded, ~batch.open PROVE map = OnItsWay
<1>1. Covers(NoBatch, map, OnItsWay)
  BY DEF LoadInv, DataInv
<1> QED
  BY <1>1, Queues, NothingToCommit DEF TypeOK

LEMMA DataUnchanged ==
  ASSUME DataInv, UNCHANGED <<loaded, map, batch, requests, disk>>
  PROVE  DataInv' /\ UNCHANGED <<Seen, Afters(requests)>>
BY DEF DataInv, Seen, OnItsWay, Afters

LEMMA ReadsChangeNothing ==
  ASSUME TypeOK, DataInv, ~loaded, UNCHANGED <<loaded, disk>>,
         requests' = IF tasks = <<>> THEN Append(requests, Read) ELSE requests
  PROVE  /\ DataInv' /\ Seen' = Seen
         /\ \/ Afters(requests)' = Afters(requests)
            \/ Afters(requests)' = Append(Afters(requests), Seen)
<1>1. CASE tasks = <<>>
  <2>1. Keeps(Read, LastOf(requests, disk)) /\ Read \in Request
    BY Queues DEF Keeps
  <2>2. /\ ChainOf(requests', disk)
        /\ LastOf(requests', disk) = OnItsWay
        /\ Afters(requests') = Append(Afters(requests), OnItsWay)
    BY <1>1, <2>1, Queues, Appending DEF DataInv, TypeOK
  <2> QED
    BY <2>2, QueuesNext DEF DataInv, Seen
<1>2. CASE tasks # <<>>
  BY <1>2 DEF DataInv, Seen, OnItsWay, Afters
<1> QED
  BY <1>1, <1>2
LEMMA DataPreserved ==
  ASSUME TypeOK, TypeOK', LoadSound, OkInv, DataInv, LoadInv',
         ~failed, ~failed', [Next]_vars
  PROVE  DataInv' /\ [Stored!Next]_(Stored!vars)
<1> USE DEF leveldb, oldDatabase
<1>0. /\ LoadInv /\ ReadInv /\ ReplyInv /\ OldInv /\ DataInv /\ database
      /\ ChainOf(requests, disk)
      /\ loaded => Covers(batch, map, LastOf(requests, disk))
      /\ OnItsWay = LastOf(requests, disk) /\ OnItsWay \in Map
      /\ requests \in Seq(Request) /\ disk \in Map /\ map \in Map /\ batch \in Batch
  BY Queues DEF LoadSound, OkInv, DataInv, TypeOK
<1>00. failed' = failed
  BY DEF TypeOK
<1>a. ASSUME UNCHANGED <<hasOld, migrated>> PROVE HasOld' = HasOld
  BY <1>a DEF HasOld
<1>b. ASSUME UNCHANGED <<loaded, map, batch, requests, disk, hasOld, migrated>>
      PROVE  DataInv' /\ [Stored!Next]_(Stored!vars)
  BY <1>0, <1>00, <1>a, <1>b, DataUnchanged, Stutters
<1>c. ASSUME CommitChanges, UNCHANGED <<loaded, map, disk, hasOld, migrated>>
      PROVE  DataInv' /\ [Stored!Next]_(Stored!vars)
  <2>1. CASE batch.open
    <3>1. loaded
      BY <1>0, <2>1 DEF LoadInv, NoBatch
    <3>2. requests' = Append(requests, WriteOf(map, batch)) /\ batch' = NoBatch
      BY <1>c, <2>1 DEF CommitChanges, RequestsAfterCommit
    <3>3. /\ ChainOf(requests', disk)
          /\ LastOf(requests', disk) = map
          /\ Afters(requests') = Append(Afters(requests), map)
      BY <1>0, <2>1, <3>1, <3>2, Committing
    <3>4. OnItsWay' = map
      BY <1>c, <3>3, QueuesNext
    <3>5. DataInv'
      BY <1>0, <1>c, <3>2, <3>3, <3>4, NothingToCommit DEF DataInv
    <3>6. Seen' = Seen /\ Seen = map
      BY <1>c, <3>1 DEF Seen
    <3> QED
      BY <1>00, <1>a, <1>c, <3>3, <3>5, <3>6, QueuesNext, Sends
  <2>2. CASE ~batch.open
    <3>1. requests' = requests /\ batch' = batch
      BY <1>0, <1>c, <2>2 DEF CommitChanges, RequestsAfterCommit, LoadInv
    <3> QED
      BY <1>b, <1>c, <3>1
  <2> QED
    BY <2>1, <2>2
<1>d. ASSUME ~loaded,
             requests' = IF tasks = <<>> THEN Append(requests, Read) ELSE requests,
             UNCHANGED <<loaded, disk, hasOld, migrated>>
      PROVE  DataInv' /\ [Stored!Next]_(Stored!vars)
  BY <1>0, <1>00, <1>a, <1>d, ReadsChangeNothing, Stutters, Sends
<1>1. CASE OpenLocalStorage
  BY <1>b, <1>1 DEF OpenLocalStorage
<1>2. CASE OnConnectionError
  <2>1. CASE tasks = <<>>
    <3>1. /\ OnNoBindings(map, batch, requests)
          /\ UNCHANGED <<disk, hasOld, migrated>>
      BY <1>2, <2>1 DEF OnConnectionError
    <3>2. batch.open => loaded
      BY <1>0 DEF LoadInv, NoBatch
    <3>3. /\ ~loaded' /\ ChainOf(requests', disk)
          /\ LastOf(requests', disk) = IF batch.open THEN map ELSE OnItsWay
          /\ Afters(requests') = IF batch.open THEN Append(Afters(requests), map)
                                 ELSE Afters(requests)
      BY <1>0, <3>1, <3>2, Closing
    <3>4. DataInv'
      BY <3>1, <3>3 DEF DataInv
    <3>5. Seen' = IF batch.open THEN map ELSE OnItsWay
      BY <3>1, <3>3, QueuesNext DEF Seen
    <3>6. Seen' = Seen
      BY <3>2, <3>5, <1>0, NoBatchNoChange DEF Seen
    <3> QED
      BY <1>00, <1>a, <3>1, <3>3, <3>4, <3>5, <3>6, QueuesNext, Sends, Stutters
  <2>2. CASE tasks # <<>>
    BY <1>b, <1>2, <2>2 DEF OnConnectionError
  <2> QED
    BY <2>1, <2>2
<1>3. ASSUME NEW c \in Call, PageCalls(c)
      PROVE  DataInv' /\ [Stored!Next]_(Stored!vars)
  <2>1. CASE loaded
    <3>1. /\ map' = MapAfter(c, map) /\ batch' = BatchAfter(c, map, batch)
          /\ UNCHANGED <<loaded, requests, disk, hasOld, migrated>>
      BY <1>3, <2>1 DEF PageCalls, Perform
    <3>2. Covers(batch', map', OnItsWay)
      BY <1>0, <2>1, <3>1, CoversAfterCall
    <3>3. OnItsWay' = OnItsWay /\ Afters(requests)' = Afters(requests)
      BY <3>1 DEF OnItsWay, Afters
    <3>4. DataInv'
      BY <1>0, <3>1, <3>2, <3>3 DEF DataInv
    <3>5. Seen' = MapAfter(c, Seen)
      BY <2>1, <3>1 DEF Seen
    <3> QED
      BY <1>00, <1>a, <3>1, <3>3, <3>4, <3>5, Calls
  <2>2. CASE ~loaded
    BY <1>d, <1>3, <2>2 DEF PageCalls, LoadMap
  <2> QED
    BY <2>1, <2>2
<1>4. CASE OnMapLoaded
  <2> DEFINE r == Head(replies)
  <2>1. /\ replies # <<>> /\ IsRead(r)
        /\ UNCHANGED <<batch, requests, disk, hasOld, migrated>>
    BY <1>4 DEF OnMapLoaded, IsRead
  <2>2. Len(replies) \in Nat /\ Len(replies) > 0 /\ r = replies[1]
    BY <2>1, PendingTail DEF TypeOK
  <2>3. r.ok /\ r.data = disk /\ tasks # <<>> /\ requests = <<>>
    <3>1. 1 \in 1..Len(replies) /\ IsRead(replies[1])
      BY <2>1, <2>2
    <3>2. /\ tasks # <<>> /\ requests = <<>>
          /\ replies[1].ok => replies[1].data = disk
      BY <1>0, <3>1 DEF ReplyInv
    <3>3. replies[1].ok
      BY <3>1 DEF OkInv
    <3> QED
      BY <2>2, <3>2, <3>3, Zenon
  <2>4. CASE r.data = Empty
    <3>1. UNCHANGED <<loaded, map>>
      BY <1>4, <2>3, <2>4 DEF OnMapLoaded
    <3> QED
      BY <1>b, <2>1, <3>1
  <2>5. CASE r.data # Empty
    <3>1. loaded' /\ map' = disk
      BY <1>4, <2>3, <2>5 DEF OnMapLoaded, LoadCompletes
    <3>2. ~loaded /\ batch = NoBatch
      BY <1>0, <2>3 DEF LoadInv
    <3>3. OnItsWay = disk /\ OnItsWay' = disk /\ Afters(requests)' = Afters(requests)
      BY <2>1, <2>3 DEF OnItsWay, Afters
    <3>4. DataInv'
      BY <1>0, <2>1, <3>1, <3>2, <3>3, NothingToCommit DEF DataInv
    <3>5. Seen' = Seen
      BY <3>1, <3>2, <3>3 DEF Seen
    <3> QED
      BY <1>00, <1>a, <2>1, <3>3, <3>4, <3>5, Stutters
  <2> QED
    BY <2>4, <2>5
<1>5. CASE OnGotMigrationData
  <2> DEFINE data == Head(migrated)
             all == [open |-> data # Empty, clear |-> FALSE,
                     keys |-> {k \in Key : data[k] # Absent}]
  <2>1. /\ LoadCompletes(data)
        /\ requests' = RequestsAfterCommit(data, all)
        /\ migrated # <<>> /\ migrated' = Tail(migrated)
        /\ UNCHANGED <<batch, disk, hasOld>>
    BY <1>5 DEF OnGotMigrationData
  <2>2. data \in Map
    BY <2>1, Heads DEF TypeOK
  <2>3. /\ Len(migrated) = 1 /\ migrated[1] \in {Old, Empty}
        /\ tasks # <<>> /\ requests = <<>> /\ disk = Empty
    BY <1>0, <2>1 DEF OldInv
  <2>4. data = migrated[1] /\ migrated' = <<>>
    BY <2>1, <2>3, Heads, PendingTail DEF TypeOK
  <2>5. all \in Batch /\ (all.open <=> data # Empty) /\ Covers(all, data, Empty)
    BY <2>2, Maps DEF Batch, Covers
  <2> HIDE DEF data, all
  <2>6. OnItsWay = Empty /\ LastOf(requests, disk) = Empty
    BY <1>0, <2>3 DEF OnItsWay
  <2>7. ~loaded /\ batch = NoBatch /\ Seen = Empty
    BY <1>0, <2>3, <2>6 DEF LoadInv, Seen
  <2>8. requests' = IF all.open THEN Append(requests, WriteOf(data, all)) ELSE requests
    BY <2>1 DEF RequestsAfterCommit
  <2>9. /\ ChainOf(requests', disk)
        /\ LastOf(requests', disk) = IF all.open THEN data ELSE Empty
        /\ Afters(requests') = IF all.open THEN Append(Afters(requests), data)
                               ELSE Afters(requests)
    BY <1>0, <2>2, <2>5, <2>6, <2>8, Committing
  <2>10. loaded' /\ map' = data
    BY <2>1 DEF LoadCompletes
  <2>11. OnItsWay' = data
    BY <2>1, <2>5, <2>9, QueuesNext
  <2>12. DataInv'
    BY <2>1, <2>2, <2>7, <2>9, <2>10, <2>11, NothingToCommit DEF DataInv
  <2>13. Seen' = data
    BY <2>10 DEF Seen
  <2>14. HasOld' = hasOld /\ (HasOld <=> hasOld \/ data # Empty)
    BY <2>1, <2>4 DEF HasOld, TypeOK
  <2>15. CASE data = Empty
    <3>1. HasOld' = HasOld
      BY <2>14, <2>15 DEF TypeOK
    <3> QED
      BY <1>00, <2>1, <2>5, <2>7, <2>9, <2>12, <2>13, <2>15, <3>1, QueuesNext, Stutters
  <2>16. CASE data # Empty
    <3>1. data = Old
      BY <2>3, <2>4, <2>16
    <3>2. Stored!TakeOverOld
      BY <1>00, <2>1, <2>5, <2>7, <2>9, <2>13, <2>14, <2>16, <3>1
      DEF Stored!TakeOverOld, Afters, HasOld, TypeOK
    <3> QED
      BY <2>12, <3>2 DEF Stored!Next
  <2> QED
    BY <2>15, <2>16
<1>7. CASE StartCommitTimer
  BY <1>b, <1>7 DEF StartCommitTimer
<1>8. CASE CommitTimerFires
  BY <1>c, <1>8 DEF CommitTimerFires
<1>10. CASE OnCommitComplete
  BY <1>b, <1>10 DEF OnCommitComplete
<1>11. CASE Flush
  <2>1. CASE tasks # <<>>
    BY <1>b, <1>11, <2>1 DEF Flush, LoadMap
  <2>2. CASE tasks = <<>>
    BY <1>c, <1>11, <2>2 DEF Flush
  <2> QED
    BY <2>1, <2>2
<1>12. CASE PurgeMemory
  <2>1. /\ loaded /\ ~batch.open /\ ~loaded'
        /\ UNCHANGED <<requests, disk, hasOld, migrated>>
    BY <1>12 DEF PurgeMemory
  <2>2. map = OnItsWay
    BY <1>0, <2>1, NoBatchNoChange
  <2>3. DataInv'
    BY <1>0, <2>1 DEF DataInv
  <2>4. Seen' = Seen /\ Afters(requests)' = Afters(requests)
    BY <2>1, <2>2 DEF Seen, OnItsWay, Afters
  <2> QED
    BY <1>00, <1>a, <2>1, <2>3, <2>4, Stutters
<1>13. CASE DeleteLocalStorage
  BY <1>b, <1>13 DEF DeleteLocalStorage, wrapper
<1>14. CASE DeleteStorage
  <2> DEFINE clear == [op |-> "clear"]
             b == BatchAfter(clear, map, batch)
  <2>1. UNCHANGED <<disk, hasOld, migrated>>
    BY <1>14 DEF DeleteStorage
  <2>2. /\ clear \in Call
        /\ \A m \in Map : MapAfter(clear, m) = Empty
    BY CallTasks, CallChanges
  <2>3. CASE ~holder
    <3>1. requests' = Append(requests, DeleteOrigin) /\ UNCHANGED wrapper
      BY <1>14, <2>3 DEF DeleteStorage
    <3>2. ~loaded /\ ~loaded'
      BY <1>0, <2>3, <3>1 DEF LoadInv, wrapper
    <3>3. /\ ChainOf(requests', disk)
          /\ LastOf(requests', disk) = Empty
          /\ Afters(requests') = Append(Afters(requests), Empty)
      BY <1>0, <3>1, DeletionOfOrigin, Appending
    <3>4. DataInv'
      BY <2>1, <3>2, <3>3 DEF DataInv
    <3>5. Seen' = Empty /\ Seen \in Map
      BY <2>1, <3>2, <3>3, Queues, QueuesNext DEF Seen
    <3>6. Seen' = MapAfter(clear, Seen)
      BY <2>2, <3>5
    <3> QED
      BY <1>00, <1>a, <2>1, <2>2, <3>3, <3>4, <3>5, <3>6, QueuesNext, CallsAndSends
  <2>4. CASE holder /\ ~loaded
    BY <1>d, <1>14, <2>1, <2>4 DEF DeleteStorage
  <2>5. CASE holder /\ loaded
    <3>1. /\ map' = Empty
          /\ requests' = RequestsAfterCommit(Empty, b)
          /\ batch' = NoBatch /\ loaded'
      BY <1>14, <2>5 DEF DeleteStorage
    <3>2. b \in Batch
      BY <1>0, <2>2, BatchType
    <3>3. Covers(b, Empty, LastOf(requests, disk))
      BY <1>0, <2>2, <2>5, CoversAfterCall
    <3>4. ~b.open => b = NoBatch
      BY <1>0, <2>2, BatchChanges DEF LoadInv
    <3> HIDE DEF b
    <3>5. requests' = IF b.open THEN Append(requests, WriteOf(Empty, b)) ELSE requests
      BY <3>1 DEF RequestsAfterCommit
    <3>6. /\ ChainOf(requests', disk)
          /\ LastOf(requests', disk) = IF b.open THEN Empty ELSE OnItsWay
          /\ Afters(requests') = IF b.open THEN Append(Afters(requests), Empty)
                                 ELSE Afters(requests)
      BY <1>0, <3>2, <3>3, <3>5, Committing, Maps
    <3>7. ~b.open => OnItsWay = Empty
      BY <1>0, <3>3, <3>4, NothingToCommit, Maps
    <3>8. OnItsWay' = Empty
      BY <2>1, <3>6, <3>7, QueuesNext
    <3>9. DataInv'
      BY <2>1, <3>1, <3>6, <3>8, NothingToCommit, Maps DEF DataInv
    <3>10. Seen' = Empty /\ Seen = map /\ Seen' = MapAfter(clear, Seen)
      BY <1>0, <2>2, <2>5, <3>1 DEF Seen
    <3> QED
      BY <1>00, <1>a, <2>1, <2>2, <3>6, <3>9, <3>10, QueuesNext, CallsAndSends, Calls
  <2> QED
    BY <2>3, <2>4, <2>5
<1>15. CASE ServeRequest
  <2> DEFINE r == Head(requests)
  <2>1. /\ requests # <<>> /\ requests' = Tail(requests)
        /\ UNCHANGED <<loaded, map, batch, hasOld, migrated>>
    BY <1>15 DEF ServeRequest, wrapper
  <2>2. r \in Request /\ r.op \in {"read", "write"}
    BY <1>0, <2>1, Heads, Requests
  <2>3. /\ Keeps(r, disk)
        /\ ChainOf(Tail(requests), r.after)
        /\ LastOf(Tail(requests), r.after) = LastOf(requests, disk)
        /\ Afters(requests) # <<>>
        /\ Head(Afters(requests)) = r.after
        /\ Afters(Tail(requests)) = Tail(Afters(requests))
    BY <1>0, <2>1, Serving
  <2>4. disk' = r.after
    BY <1>15, <2>2, <2>3 DEF ServeRequest, Keeps
  <2>5. OnItsWay' = OnItsWay
    BY <1>0, <2>1, <2>3, <2>4, QueuesNext
  <2>6. DataInv'
    BY <1>0, <2>1, <2>3, <2>4, <2>5 DEF DataInv
  <2>7. Seen' = Seen
    BY <2>1, <2>5 DEF Seen
  <2>8. Stored!Persist
    <3>1. Afters(requests)' = Tail(Afters(requests)) /\ disk' = Head(Afters(requests))
      BY <2>1, <2>3, <2>4, QueuesNext
    <3> QED
      BY <1>00, <1>a, <2>1, <2>3, <2>7, <3>1 DEF Stored!Persist, Afters, HasOld
  <2> QED
    BY <2>6, <2>8 DEF Stored!Next
<1>17. CASE ReadOldDatabase
  <2>1. /\ legacy # <<>> /\ Head(legacy) = "read"
        /\ migrated' = Append(migrated, IF hasOld THEN Old ELSE Empty)
        /\ UNCHANGED <<loaded, map, batch, requests, disk, hasOld>>
    BY <1>17 DEF ReadOldDatabase, wrapper
  <2>2. migrated = <<>>
    <3>1. legacy \in Seq({"read", "delete"})
      BY DEF TypeOK
    <3>2. 1 \in 1..Len(legacy) /\ legacy[1] = "read"
      BY <2>1, <3>1, PendingTail
    <3> QED
      BY <1>0, <3>2 DEF OldInv, OldAsked, Asked
  <2>3. migrated' = <<IF hasOld THEN Old ELSE Empty>>
    BY <2>1, <2>2
  <2>4. HasOld' = HasOld
    BY <2>1, <2>2, <2>3 DEF HasOld, TypeOK
  <2>5. DataInv' /\ UNCHANGED <<Seen, Afters(requests)>>
    BY <1>0, <2>1, DataUnchanged
  <2> QED
    BY <1>00, <2>1, <2>4, <2>5, Stutters
<1>18. CASE DeleteOldDatabase
  <2>1. hasOld' = FALSE /\ UNCHANGED <<loaded, map, batch, requests, disk, migrated>>
    BY <1>18 DEF DeleteOldDatabase, wrapper
  <2>2. DataInv' /\ UNCHANGED <<Seen, Afters(requests)>>
    BY <1>0, <2>1, DataUnchanged
  <2>3. CASE migrated # <<>> /\ migrated[1] # Empty
    <3>1. HasOld' = HasOld
      BY <2>1, <2>3 DEF HasOld
    <3> QED
      BY <1>00, <2>1, <2>2, <3>1, Stutters
  <2>4. CASE ~(migrated # <<>> /\ migrated[1] # Empty)
    <3>1. HasOld' = FALSE
      BY <2>1, <2>4 DEF HasOld
    <3>2. Stored!DeleteOld
      BY <1>00, <2>1, <2>2, <3>1 DEF Stored!DeleteOld, Afters, HasOld
    <3> QED
      BY <2>2, <3>2 DEF Stored!Next
  <2> QED
    BY <2>3, <2>4
<1>19. CASE Crash
  <2>1. /\ ~loaded' /\ requests' = <<>> /\ migrated' = <<>>
        /\ UNCHANGED <<disk, hasOld>>
    BY <1>19 DEF Crash
  <2>2. DataInv'
    BY <2>1 DEF DataInv, ChainOf
  <2>3. Seen' = disk
    BY <2>1 DEF Seen, OnItsWay
  <2>4. Afters(requests') = <<>>
    BY <2>1 DEF Afters
  <2>5. HasOld' = hasOld /\ HasOld' \in {HasOld, FALSE}
    BY <2>1 DEF HasOld, TypeOK
  <2>6. Stored!Crash
    BY <1>00, <2>1, <2>3, <2>4, <2>5 DEF Stored!Crash, Afters, HasOld
  <2> QED
    BY <2>2, <2>6 DEF Stored!Next
<1>20. CASE UNCHANGED vars
  BY <1>b, <1>20 DEF vars, wrapper
<1>16. CASE FailRequest
  BY <1>16 DEF FailRequest
<1>6. CASE RunTask
  <2> DEFINE task == Head(running)
             commits == task.op = "commit" /\ database /\ batch.open
             m == IF task.op = "commit" THEN map ELSE MapAfter(task, map)
             b == IF commits THEN NoBatch
                  ELSE IF task.op = "commit" THEN batch ELSE BatchAfter(task, map, batch)
             q == IF commits THEN RequestsAfterCommit(map, batch) ELSE requests
  <2>1. /\ running # <<>>
        /\ UNCHANGED <<bound, tasks, disk, hasOld, migrated>>
    BY <1>6 DEF RunTask
  <2>2. IF Len(running) = 1 /\ ~bound
          THEN OnNoBindings(m, b, q)
          ELSE map' = m /\ batch' = b /\ requests' = q /\ loaded' = loaded
    BY <1>6 DEF RunTask
  <2>3. task \in Task
    BY <2>1, Heads DEF TypeOK
  <2>4. loaded /\ Seen = map
    BY <1>0, <2>1 DEF LoadInv, Seen
  <2>5. CASE commits
    <3>1. /\ m = map /\ b = NoBatch /\ q = Append(requests, WriteOf(map, batch))
          /\ batch.open
      BY <2>5 DEF RequestsAfterCommit
    <3> HIDE DEF m, b, q, commits
    <3>2. /\ q \in Seq(Request) /\ ChainOf(q, disk)
          /\ LastOf(q, disk) = map
          /\ Afters(q) = Append(Afters(requests), map)
      BY <1>0, <2>4, <3>1, Committing
    <3>3. b \in Batch /\ ~b.open
      BY <3>1, NoBatchType DEF NoBatch
    <3>4. /\ ChainOf(requests', disk) /\ LastOf(requests', disk) = map
          /\ Afters(requests') = Append(Afters(requests), map)
          /\ loaded' => map' = map /\ batch' = NoBatch
      <4>1. CASE Len(running) = 1 /\ ~bound
        <5>1. OnNoBindings(m, b, q) /\ m \in Map
          BY <1>0, <2>2, <3>1, <4>1
        <5> QED
          BY <1>0, <3>2, <3>3, <5>1, Closing
      <4>2. CASE ~(Len(running) = 1 /\ ~bound)
        <5>1. map' = m /\ batch' = b /\ requests' = q
          BY <2>2, <4>2
        <5> QED
          BY <3>1, <3>2, <5>1
      <4> QED
        BY <4>1, <4>2
    <3>5. OnItsWay' = map
      BY <2>1, <3>4, QueuesNext
    <3>6. DataInv'
      BY <1>0, <2>1, <3>4, <3>5, NothingToCommit DEF DataInv
    <3>7. Seen' = Seen
      BY <2>4, <3>4, <3>5 DEF Seen
    <3> QED
      BY <1>00, <1>a, <2>1, <2>4, <3>4, <3>6, <3>7, QueuesNext, Sends
  <2>6. CASE task.op = "commit" /\ ~commits
    <3>1. m = map /\ b = batch /\ q = requests /\ ~batch.open
      BY <1>0, <2>6
    <3>2. map = OnItsWay
      BY <1>0, <2>4, <3>1, NoBatchNoChange
    <3> HIDE DEF m, b, q
    <3>3. CASE Len(running) = 1 /\ ~bound
      <4>1. /\ ~loaded' /\ ChainOf(requests', disk)
            /\ LastOf(requests', disk) = OnItsWay
            /\ Afters(requests') = Afters(requests)
        BY <1>0, <2>2, <3>1, <3>3, Closing
      <4>2. DataInv'
        BY <2>1, <4>1 DEF DataInv
      <4>3. Seen' = Seen
        BY <2>1, <2>4, <3>2, <4>1, QueuesNext DEF Seen
      <4> QED
        BY <1>00, <1>a, <2>1, <4>1, <4>2, <4>3, QueuesNext, Stutters
    <3>4. CASE ~(Len(running) = 1 /\ ~bound)
      BY <1>b, <2>1, <2>2, <3>1, <3>4
    <3> QED
      BY <3>3, <3>4
  <2>7. CASE task.op # "commit"
    <3>1. task \in Call /\ ~commits
      BY <2>3, <2>7, CallTasks
    <3>2. m = MapAfter(task, map) /\ b = BatchAfter(task, map, batch) /\ q = requests
      BY <2>7
    <3>3. m \in Map /\ b \in Batch /\ Covers(b, m, LastOf(requests, disk))
      BY <1>0, <2>4, <3>1, <3>2, CallChanges, BatchType, CoversAfterCall
    <3>4. ~b.open => b = NoBatch /\ m = map
      BY <1>0, <3>1, <3>2, BatchChanges, CallChanges DEF LoadInv
    <3> HIDE DEF m, b, q, task
    <3>5. CASE Len(running) = 1 /\ ~bound
      <4>1. /\ ~loaded' /\ ChainOf(requests', disk)
            /\ LastOf(requests', disk) = IF b.open THEN m ELSE OnItsWay
            /\ Afters(requests') = IF b.open THEN Append(Afters(requests), m)
                                   ELSE Afters(requests)
        BY <1>0, <2>2, <3>2, <3>3, <3>5, Closing
      <4>2. ~b.open => m = OnItsWay
        BY <1>0, <3>3, <3>4, NothingToCommit
      <4>3. Seen' = m
        BY <2>1, <4>1, <4>2, QueuesNext DEF Seen
      <4>4. DataInv'
        BY <2>1, <4>1 DEF DataInv
      <4>5. Seen' = MapAfter(task, Seen)
        BY <2>4, <3>2, <4>3
      <4> QED
        BY <1>00, <1>a, <2>1, <3>1, <4>1, <4>3, <4>4, <4>5, QueuesNext, CallsAndSends, Calls
    <3>6. CASE ~(Len(running) = 1 /\ ~bound)
      <4>1. map' = m /\ batch' = b /\ requests' = requests /\ loaded'
        BY <2>2, <2>4, <3>2, <3>6
      <4>2. OnItsWay' = OnItsWay /\ Afters(requests)' = Afters(requests)
        BY <2>1, <4>1 DEF OnItsWay, Afters
      <4>3. DataInv'
        BY <1>0, <2>1, <3>3, <4>1, <4>2 DEF DataInv
      <4>4. Seen' = MapAfter(task, Seen)
        BY <2>4, <3>2, <4>1 DEF Seen
      <4> QED
        BY <1>00, <1>a, <2>1, <3>1, <4>2, <4>3, <4>4, Calls
    <3> QED
      BY <3>5, <3>6
  <2> QED
    BY <2>5, <2>6, <2>7
<1> QED
  BY <1>1, <1>2, <1>3, <1>4, <1>5, <1>6, <1>7, <1>8, <1>10, <1>11, <1>12,
     <1>13, <1>14, <1>15, <1>16, <1>17, <1>18, <1>19, <1>20 DEF Next
-----------------------------------------------------------------------------
(* Theorems. *)

LEMMA InitSound == Init => IInv
<1> SUFFICES ASSUME Init PROVE IInv
  OBVIOUS
<1>1. TypeOK
  <2>1. /\ map \in Map /\ disk \in Map /\ batch \in Batch /\ meta \in Size
        /\ hasOld \in BOOLEAN
    BY Maps, NoBatchType DEF Init, Size
  <2>2. left \in [{"calls", "urges", "faults"} -> Nat]
    BY BoundAssumption DEF Init
  <2>3. /\ requests \in Seq(Request) /\ replies \in Seq(Reply)
        /\ tasks \in Seq(Task) /\ running \in Seq(Task)
        /\ legacy \in Seq({"read", "delete"}) /\ migrated \in Seq(Map)
    BY DEF Init
  <2>4. /\ holder \in BOOLEAN /\ bound \in BOOLEAN /\ loaded \in BOOLEAN
        /\ database \in BOOLEAN /\ deletedOld \in BOOLEAN /\ failed \in BOOLEAN
    BY Zenon DEF Init
  <2>5. /\ starting \in Nat /\ timers \in Nat /\ inFlight \in Int
        /\ deleting \in Nat
    BY DEF Init
  <2> QED
    BY <2>1, <2>2, <2>3, <2>4, <2>5 DEF TypeOK
<1>2. LoadInv
  BY DEF Init, LoadInv, NoBatch
<1>3. Quiet
  BY DEF Init, Quiet, Pending, OldAsked, Asked
<1>4. DataInv /\ OkInv
  BY DEF Init, DataInv, ChainOf, OkInv
<1> QED
  BY <1>1, <1>2, <1>3, <1>4, QuietIsSound DEF IInv, LoadSound

LEMMA FailedStays == TypeOK /\ TypeOK' /\ [Next]_vars => (failed => failed')
<1> SUFFICES ASSUME [Next]_vars, failed PROVE failed'
  OBVIOUS
<1> QED
  BY DEF Next, vars, OpenLocalStorage, OnConnectionError, PageCalls, OnMapLoaded,
     OnGotMigrationData, RunTask, StartCommitTimer, CommitTimerFires,
     OnCommitComplete, Flush, PurgeMemory, DeleteLocalStorage, DeleteStorage,
     ServeRequest, FailRequest, ReadOldDatabase, DeleteOldDatabase, Crash

(***************************************************************************)
(* The variables of the wrapper, the queues to and from LevelDB and the    *)
(* tasks of the old database hold what the code takes them to hold.        *)
(***************************************************************************)
THEOREM TypeCorrect == Spec => []TypeOK
<1>1. Init => TypeOK
  BY InitSound DEF IInv
<1> QED
  BY <1>1, TypePreserved, PTL DEF Spec

LEMMA Invariance == Spec => []IInv
<1>1. IInv /\ [Next]_vars => IInv'
  <2> SUFFICES ASSUME IInv, [Next]_vars PROVE IInv'
    OBVIOUS
  <2>1. TypeOK /\ TypeOK'
    BY TypePreserved DEF IInv
  <2>2. LoadSound'
    BY <2>1, LoadPreserved DEF IInv, LoadSound
  <2>3. ASSUME ~failed' PROVE OkInv' /\ DataInv'
    <3>1. ~failed /\ OkInv /\ DataInv
      BY <2>1, <2>3, FailedStays DEF IInv
    <3>2. OkInv'
      BY <2>1, <2>3, <3>1, OkPreserved
    <3>3. DataInv'
      BY <2>1, <2>2, <2>3, <3>1, DataPreserved DEF IInv, LoadSound
    <3> QED
      BY <3>2, <3>3
  <2> QED
    BY <2>1, <2>2, <2>3 DEF IInv
<1> QED
  BY <1>1, InitSound, PTL DEF Spec

(***************************************************************************)
(* The wrapper, its holder and LevelDB implement StoredMap: whatever       *)
(* batches, timers, purges, reloads, migrations, deletions and crashes     *)
(* there are, pages see one map, and the disk goes from one of its states  *)
(* to the next.                                                            *)
(***************************************************************************)
THEOREM WrapperImplementsStoredMap == Spec => ImplementsStoredMap
<1>1. Init => Stored!Init
  <2> SUFFICES ASSUME Init PROVE Stored!Init
    OBVIOUS
  <2>1. Seen = Empty
    BY DEF Init, Seen, OnItsWay
  <2>2. Afters(requests) = <<>>
    BY DEF Init, Afters
  <2>3. hasOld \/ (migrated # <<>> /\ migrated[1] # Empty) \in BOOLEAN
    OBVIOUS
  <2> QED
    BY <2>1, <2>2, <2>3 DEF Init, Stored!Init, Afters
<1>2. IInv /\ IInv' /\ [Next]_vars => [Stored!Next]_(Stored!vars)
  <2> SUFFICES ASSUME IInv, IInv', [Next]_vars PROVE [Stored!Next]_(Stored!vars)
    OBVIOUS
  <2>1. TypeOK /\ TypeOK'
    BY DEF IInv
  <2>2. CASE failed
    <3>1. failed'
      BY <2>1, <2>2, FailedStays
    <3> QED
      BY <2>2, <3>1 DEF Stored!Next, Stored!Broken
  <2>3. CASE ~failed /\ failed'
    BY <2>3 DEF Stored!Next, Stored!Fail
  <2>4. CASE ~failed /\ ~failed'
    BY <2>1, <2>4, DataPreserved DEF IInv, LoadSound
  <2> QED
    BY <2>2, <2>3, <2>4
<1> QED
  BY <1>1, <1>2, Invariance, PTL DEF Spec, ImplementsStoredMap, Stored!Spec
-----------------------------------------------------------------------------
(* Counting what is in a queue. *)

Hits(q, S) == {i \in 1..Len(q) : q[i] \in S}
Count(q, S) == Cardinality(Hits(q, S))

LEMMA Counts ==
  ASSUME NEW M, NEW q \in Seq(M), NEW S
  PROVE  /\ IsFiniteSet(Hits(q, S)) /\ Count(q, S) \in Nat
         /\ Hits(q, S) # {} => Count(q, S) > 0
<1>1. IsFiniteSet(1..Len(q))
  BY FS_Interval
<1>2. IsFiniteSet(Hits(q, S))
  BY <1>1, FS_Subset DEF Hits
<1> QED
  BY <1>2, FS_CardinalityType, FS_EmptySet DEF Count

LEMMA CountNone ==
  ASSUME NEW q, NEW S, Hits(q, S) = {} PROVE Count(q, S) = 0
BY FS_EmptySet DEF Count

LEMMA CountAppend ==
  ASSUME NEW M, NEW q \in Seq(M), NEW e \in M, NEW S
  PROVE  Count(Append(q, e), S) = Count(q, S) + IF e \in S THEN 1 ELSE 0
<1> DEFINE Q == Append(q, e)
           n == Len(q) + 1
<1>1. /\ Len(Q) = n /\ n \in Nat /\ Q[n] = e /\ Len(q) \in Nat
      /\ \A i \in 1..Len(q) : Q[i] = q[i]
  OBVIOUS
<1> HIDE DEF Q
<1>2. CASE e \in S
  <2>1. Hits(Q, S) = Hits(q, S) \cup {n} /\ n \notin Hits(q, S)
    BY <1>1, <1>2 DEF Hits
  <2> QED
    BY <1>2, <2>1, Counts, FS_AddElement DEF Count, Q
<1>3. CASE e \notin S
  <2>1. Hits(Q, S) = Hits(q, S)
    BY <1>1, <1>3 DEF Hits
  <2> QED
    BY <1>3, <2>1, Counts DEF Count, Q
<1> QED
  BY <1>2, <1>3

LEMMA CountTail ==
  ASSUME NEW M, NEW q \in Seq(M), q # <<>>, NEW S
  PROVE  Count(Tail(q), S) = Count(q, S) - IF Head(q) \in S THEN 1 ELSE 0
<1> DEFINE Q == Tail(q)
           later == Hits(q, S) \ {1}
           f == [i \in Hits(Q, S) |-> i + 1]
<1>1. /\ Len(q) \in Nat /\ Len(q) > 0 /\ Len(Q) = Len(q) - 1
      /\ Head(q) = q[1] /\ Q \in Seq(M)
      /\ \A i \in 1..Len(Q) : Q[i] = q[i + 1]
  OBVIOUS
<1> HIDE DEF Q
<1>2. \A i \in Hits(Q, S) : i \in Nat /\ i + 1 \in later
  BY <1>1 DEF Hits
<1>3. ASSUME NEW j \in later PROVE j - 1 \in Hits(Q, S) /\ j = (j - 1) + 1
  <2>1. j - 1 \in 1..Len(Q) /\ j = (j - 1) + 1
    BY <1>1 DEF Hits
  <2> QED
    BY <1>1, <2>1 DEF Hits
<1>4. f \in Bijection(Hits(Q, S), later)
  <2>1. f \in [Hits(Q, S) -> later]
    BY <1>2
  <2>2. \A i, j \in Hits(Q, S) : f[i] = f[j] => i = j
    BY <1>2
  <2>3. \A j \in later : \E i \in Hits(Q, S) : f[i] = j
    BY <1>3
  <2> HIDE DEF f, later
  <2>4. f \in Injection(Hits(Q, S), later)
    BY <2>1, <2>2 DEF Injection, IsInjective
  <2>5. f \in Surjection(Hits(Q, S), later)
    BY <2>1, <2>3 DEF Surjection
  <2> QED
    BY <2>4, <2>5 DEF Bijection
<1>5. ExistsBijection(Hits(Q, S), later)
  BY <1>4 DEF ExistsBijection
<1>6. IsFiniteSet(Hits(Q, S)) /\ IsFiniteSet(Hits(q, S))
  BY <1>1, Counts
<1>7. Count(Q, S) = Cardinality(later)
  BY <1>5, <1>6, FS_Bijection DEF Count
<1>8. Cardinality(later) = Count(q, S) - IF 1 \in Hits(q, S) THEN 1 ELSE 0
  <2>1. Cardinality(Hits(q, S) \ {1}) =
          IF 1 \in Hits(q, S) THEN Cardinality(Hits(q, S)) - 1 ELSE Cardinality(Hits(q, S))
    BY <1>6, FS_RemoveElement
  <2>2. Count(q, S) \in Nat
    BY Counts
  <2> QED
    BY <2>1, <2>2 DEF Count
<1>9. 1 \in Hits(q, S) <=> Head(q) \in S
  BY <1>1 DEF Hits
<1> QED
  BY <1>7, <1>8, <1>9 DEF Q
-----------------------------------------------------------------------------
(* Commits in flight and the timers of the batch. *)

\* The commits whose completion the wrapper awaits, and those completed.
Owed == {r \in Request : r.op = "write" /\ r.replies}
Done == {r \in Reply : r.op = "write"}

CountInv == inFlight = Count(requests, Owed) + Count(replies, Done)

LEMMA CommitIsOwed ==
  ASSUME TypeOK
  PROVE  /\ \A m \in Map, b \in Batch : WriteOf(m, b) \in Owed
         /\ Read \in Request \ Owed /\ DeleteOrigin \in Request \ Owed
<1>1. \A m, b : WriteOf(m, b).op = "write" /\ WriteOf(m, b).replies = TRUE
  BY Zenon DEF WriteOf
<1>2. ASSUME NEW m \in Map, NEW b \in Batch PROVE WriteOf(m, b) \in Owed
  BY <1>1, WriteOfMap, Zenon DEF Owed
<1>3. Read \in Request \ Owed
  BY Queues DEF Owed
<1>4. DeleteOrigin.replies = FALSE
  BY Zenon DEF DeleteOrigin
<1>5. DeleteOrigin \in Request \ Owed
  BY <1>4, DeletionOfOrigin, Zenon DEF Owed
<1> QED
  BY <1>2, <1>3, <1>5

LEMMA NothingOwed ==
  ASSUME NEW q \in Seq(Request) PROVE Count(Unanswered(q), Owed) = 0
<1>1. ASSUME NEW i \in 1..Len(Unanswered(q)) PROVE Unanswered(q)[i] \notin Owed
  <2>1. i \in 1..Len(q) /\ q[i] \in Request
    BY DEF Unanswered
  <2>2. CASE q[i].op = "write"
    <3>1. Unanswered(q)[i] = [q[i] EXCEPT !.replies = FALSE] /\ q[i] \in Write
      BY <2>1, <2>2, Requests DEF Unanswered
    <3>2. Unanswered(q)[i].replies = FALSE
      BY <3>1 DEF Write
    <3> QED
      BY <3>2, Zenon DEF Owed
  <2>3. CASE q[i].op # "write"
    BY <2>1, <2>3 DEF Unanswered, Owed
  <2> QED
    BY <2>2, <2>3
<1> QED
  BY <1>1, CountNone DEF Hits

LEMMA CountPreserved ==
  ASSUME TypeOK, CountInv, [Next]_vars PROVE CountInv'
<1> USE DEF leveldb
<1>0. /\ requests \in Seq(Request) /\ replies \in Seq(Reply) /\ inFlight \in Int
      /\ map \in Map /\ batch \in Batch
      /\ Count(requests, Owed) \in Nat /\ Count(replies, Done) \in Nat
  BY Counts DEF TypeOK
<1>a. ASSUME UNCHANGED <<inFlight, requests, replies>> PROVE CountInv'
  BY <1>a DEF CountInv
<1>b. ASSUME NEW r \in Request \ Owed, requests' = Append(requests, r),
             UNCHANGED <<inFlight, replies>>
      PROVE  CountInv'
  BY <1>0, <1>b, CountAppend DEF CountInv
<1>c. ASSUME NEW m \in Map, NEW b \in Batch,
             requests' = RequestsAfterCommit(m, b),
             inFlight' = IF b.open THEN inFlight + 1 ELSE inFlight, replies' = replies
      PROVE  CountInv'
  <2>1. WriteOf(m, b) \in Owed /\ WriteOf(m, b) \in Request
    BY CommitIsOwed, WriteOfMap
  <2>2. CASE b.open
    <3>1. Count(requests', Owed) = Count(requests, Owed) + 1
      BY <1>0, <1>c, <2>1, <2>2, CountAppend DEF RequestsAfterCommit
    <3> QED
      BY <1>0, <1>c, <2>2, <3>1 DEF CountInv
  <2>3. CASE ~b.open
    BY <1>a, <1>c, <2>3 DEF RequestsAfterCommit
  <2> QED
    BY <2>2, <2>3
<1>d. ASSUME NEW m \in Map, NEW b \in Batch, NEW q \in Seq(Request), OnNoBindings(m, b, q)
      PROVE  CountInv'
  <2> DEFINE Q == IF b.open THEN Append(q, WriteOf(m, b)) ELSE q
  <2>1. Q \in Seq(Request)
    BY WriteOfMap
  <2>2. requests' = Unanswered(Q) /\ replies' = <<>> /\ inFlight' = 0
    BY <1>d DEF OnNoBindings
  <2> HIDE DEF Q
  <2>3. Count(requests', Owed) = 0
    BY <2>1, <2>2, NothingOwed
  <2>4. Count(replies', Done) = 0
    BY <2>2, CountNone DEF Hits
  <2> QED
    BY <2>2, <2>3, <2>4 DEF CountInv
<1>e. ASSUME requests # <<>>, requests' = Tail(requests), inFlight' = inFlight,
             \/ Head(requests) \notin Owed /\ replies' = replies
             \/ \E a \in Reply : /\ replies' = Append(replies, a)
                                 /\ a \in Done <=> Head(requests) \in Owed
      PROVE  CountInv'
  <2>1. Count(requests', Owed) =
          Count(requests, Owed) - IF Head(requests) \in Owed THEN 1 ELSE 0
    BY <1>0, <1>e, CountTail
  <2>2. Count(replies', Done) =
          Count(replies, Done) + IF Head(requests) \in Owed THEN 1 ELSE 0
    <3>1. CASE Head(requests) \notin Owed /\ replies' = replies
      BY <1>0, <3>1
    <3>2. CASE \E a \in Reply : /\ replies' = Append(replies, a)
                                /\ a \in Done <=> Head(requests) \in Owed
      <4> PICK a \in Reply : /\ replies' = Append(replies, a)
                             /\ a \in Done <=> Head(requests) \in Owed
        BY <3>2
      <4>1. Count(replies', Done) = Count(replies, Done) + IF a \in Done THEN 1 ELSE 0
        BY <1>0, CountAppend
      <4> QED
        BY <4>1
    <3> QED
      BY <1>e, <3>1, <3>2
  <2> QED
    BY <1>0, <1>e, <2>1, <2>2 DEF CountInv
<1>1. CASE \/ OpenLocalStorage \/ StartCommitTimer \/ PurgeMemory
           \/ DeleteLocalStorage \/ ReadOldDatabase \/ DeleteOldDatabase \/ UNCHANGED vars
  BY <1>a, <1>1 DEF OpenLocalStorage, StartCommitTimer, PurgeMemory, DeleteLocalStorage,
     ReadOldDatabase, DeleteOldDatabase, vars, wrapper
<1>2. CASE OnConnectionError
  <2>1. \/ OnNoBindings(map, batch, requests)
        \/ UNCHANGED <<inFlight, requests, replies>>
    BY <1>2 DEF OnConnectionError
  <2> QED
    BY <1>0, <1>a, <1>d, <2>1
<1>3. ASSUME NEW c \in Call, PageCalls(c) PROVE CountInv'
  <2>1. /\ UNCHANGED <<inFlight, replies>>
        /\ requests' = requests \/ requests' = Append(requests, Read)
    BY <1>3 DEF PageCalls, LoadMap
  <2> QED
    BY <1>a, <1>b, <2>1, CommitIsOwed
<1>4. CASE OnMapLoaded \/ OnCommitComplete
  <2>1. /\ replies # <<>> /\ replies' = Tail(replies) /\ requests' = requests
        /\ inFlight' = IF Head(replies).op = "write" THEN inFlight - 1 ELSE inFlight
    BY <1>4 DEF OnMapLoaded, OnCommitComplete
  <2>2. Head(replies).op = "write" <=> Head(replies) \in Done
    BY <1>0, <2>1, Heads DEF Done
  <2>3. Count(replies', Done) =
          Count(replies, Done) - IF Head(replies) \in Done THEN 1 ELSE 0
    BY <1>0, <2>1, CountTail
  <2> QED
    BY <1>0, <2>1, <2>2, <2>3 DEF CountInv
<1>5. CASE OnGotMigrationData
  <2> DEFINE data == Head(migrated)
             all == [open |-> data # Empty, clear |-> FALSE,
                     keys |-> {k \in Key : data[k] # Absent}]
  <2>1. data \in Map
    BY <1>5, Heads DEF OnGotMigrationData, TypeOK
  <2>2. all \in Batch
    BY DEF Batch
  <2>3. /\ requests' = RequestsAfterCommit(data, all)
        /\ inFlight' = IF all.open THEN inFlight + 1 ELSE inFlight
        /\ replies' = replies
    BY <1>5 DEF OnGotMigrationData
  <2> HIDE DEF data, all
  <2> QED
    BY <1>c, <2>1, <2>2, <2>3
<1>6. CASE RunTask
  <2> DEFINE task == Head(running)
             commits == task.op = "commit" /\ database /\ batch.open
             m == IF task.op = "commit" THEN map ELSE MapAfter(task, map)
             b == IF commits THEN NoBatch
                  ELSE IF task.op = "commit" THEN batch ELSE BatchAfter(task, map, batch)
             q == IF commits THEN RequestsAfterCommit(map, batch) ELSE requests
  <2>1. task \in Task
    BY <1>6, Heads DEF RunTask, TypeOK
  <2>2. m \in Map /\ b \in Batch
    BY <1>0, <2>1, CallTasks, CallChanges, BatchType, NoBatchType
  <2>3. q \in Seq(Request)
    BY <1>0, CommitType
  <2>4. \/ OnNoBindings(m, b, q)
        \/ /\ requests' = q /\ replies' = replies
           /\ inFlight' = IF commits THEN inFlight + 1 ELSE inFlight
    BY <1>6 DEF RunTask
  <2>5. commits => batch.open
    OBVIOUS
  <2>6. q = IF commits THEN RequestsAfterCommit(map, batch) ELSE requests
    OBVIOUS
  <2> HIDE DEF m, b, q, commits
  <2>7. CASE OnNoBindings(m, b, q)
    BY <1>d, <2>2, <2>3, <2>7
  <2>8. CASE ~OnNoBindings(m, b, q) /\ commits
    BY <1>0, <1>c, <2>4, <2>5, <2>6, <2>8
  <2>9. CASE ~OnNoBindings(m, b, q) /\ ~commits
    BY <1>a, <2>4, <2>6, <2>9
  <2> QED
    BY <2>7, <2>8, <2>9
<1>7. CASE CommitTimerFires
  BY <1>0, <1>c, <1>7 DEF CommitTimerFires, CommitChanges
<1>8. CASE Flush
  <2>1. CASE tasks # <<>>
    BY <1>a, <1>8, <2>1 DEF Flush, LoadMap
  <2>2. CASE tasks = <<>>
    BY <1>0, <1>c, <1>8, <2>2 DEF Flush, CommitChanges
  <2> QED
    BY <2>1, <2>2
<1>9. CASE DeleteStorage
  <2> DEFINE clear == [op |-> "clear"]
             b == BatchAfter(clear, map, batch)
  <2>1. b \in Batch
    BY <1>0, CallTasks, BatchType
  <2>2. /\ replies' = replies
        /\ \/ requests' = Append(requests, DeleteOrigin) /\ inFlight' = inFlight
           \/ requests' = Append(requests, Read) /\ inFlight' = inFlight
           \/ requests' = requests /\ inFlight' = inFlight
           \/ /\ requests' = RequestsAfterCommit(Empty, b)
              /\ inFlight' = IF b.open THEN inFlight + 1 ELSE inFlight
    BY <1>9 DEF DeleteStorage, wrapper
  <2> HIDE DEF b
  <2>3. CASE requests' = RequestsAfterCommit(Empty, b)
             /\ inFlight' = IF b.open THEN inFlight + 1 ELSE inFlight
    BY <1>c, <2>1, <2>2, <2>3, Maps
  <2> QED
    BY <1>a, <1>b, <2>2, <2>3, CommitIsOwed
<1>10. CASE ServeRequest \/ FailRequest
  <2> DEFINE r == Head(requests)
  <2>1. requests # <<>> /\ requests' = Tail(requests) /\ inFlight' = inFlight
    BY <1>10 DEF ServeRequest, FailRequest, wrapper
  <2>2. r \in Request /\ r.op \in {"read", "write"} /\ (r.op = "write" => r \in Write)
    BY <1>0, <2>1, Heads, Requests
  <2>3. CASE r.op = "read"
    <3>1. \E ok \in BOOLEAN, d \in Map :
            replies' = Append(replies, [op |-> "read", ok |-> ok, data |-> d])
      BY <1>10, <2>3, Maps DEF ServeRequest, FailRequest, TypeOK
    <3>2. \A ok \in BOOLEAN, d \in Map :
            [op |-> "read", ok |-> ok, data |-> d] \in Reply \ Done
      BY DEF Reply, Done
    <3>3. r \notin Owed
      BY <2>3 DEF Owed
    <3> QED
      BY <1>e, <2>1, <3>1, <3>2, <3>3
  <2>4. CASE r.op = "write" /\ r.replies
    <3>1. \E ok \in BOOLEAN : replies' = Append(replies, [op |-> "write", ok |-> ok])
      BY <1>10, <2>4 DEF ServeRequest, FailRequest
    <3>2. \A ok \in BOOLEAN : [op |-> "write", ok |-> ok] \in Done
      BY DEF Reply, Done
    <3>3. r \in Owed /\ Done \subseteq Reply
      BY <2>2, <2>4 DEF Owed, Done
    <3> QED
      BY <1>e, <2>1, <3>1, <3>2, <3>3
  <2>5. CASE r.op = "write" /\ ~r.replies
    <3>1. replies' = replies
      BY <1>10, <2>5 DEF ServeRequest, FailRequest
    <3>2. r \notin Owed
      BY <2>5 DEF Owed
    <3> QED
      BY <1>e, <2>1, <3>1, <3>2
  <2> QED
    BY <2>2, <2>3, <2>4, <2>5
<1>11. CASE Crash
  <2>1. inFlight' = 0 /\ requests' = <<>> /\ replies' = <<>>
    BY <1>11 DEF Crash
  <2>2. Count(requests', Owed) = 0 /\ Count(replies', Done) = 0
    BY <2>1, CountNone DEF Hits
  <2> QED
    BY <2>1, <2>2 DEF CountInv
<1> QED
  BY <1>1, <1>2, <1>3, <1>4, <1>5, <1>6, <1>7, <1>8, <1>9, <1>10, <1>11 DEF Next

LEMMA CompletionIsCounted ==
  TypeOK /\ CountInv =>
    /\ inFlight \in Nat
    /\ replies # <<>> /\ Head(replies).op = "write" => inFlight > 0
<1> SUFFICES ASSUME TypeOK, CountInv
             PROVE  /\ inFlight \in Nat
                    /\ replies # <<>> /\ Head(replies).op = "write" => inFlight > 0
  OBVIOUS
<1>1. /\ Count(requests, Owed) \in Nat /\ Count(replies, Done) \in Nat
      /\ Hits(replies, Done) # {} => Count(replies, Done) > 0
  BY Counts DEF TypeOK
<1>2. ASSUME replies # <<>>, Head(replies).op = "write" PROVE Hits(replies, Done) # {}
  <2>1. 1 \in 1..Len(replies) /\ Head(replies) = replies[1] /\ Head(replies) \in Reply
    BY <1>2, PendingTail, Heads DEF TypeOK
  <2>2. 1 \in Hits(replies, Done)
    BY <1>2, <2>1 DEF Hits, Done
  <2> QED
    BY <2>2
<1> QED
  BY <1>1, <1>2 DEF CountInv

LEMMA BatchTimed ==
  ASSUME TypeOK, TypeOK', LoadInv, CountInv, CountInv', BatchIsTimed, [Next]_vars
  PROVE  BatchIsTimed'
<1> USE DEF leveldb
<1>0. /\ starting \in Nat /\ timers \in Nat /\ inFlight \in Nat /\ inFlight' \in Nat
      /\ map \in Map /\ batch \in Batch
  <2>1. inFlight' \in Nat
    <3>1. requests' \in Seq(Request) /\ replies' \in Seq(Reply)
      BY DEF TypeOK
    <3>2. Count(requests', Owed) \in Nat /\ Count(replies', Done) \in Nat
      BY <3>1, Counts
    <3> QED
      BY <3>2 DEF CountInv
  <2> QED
    BY <2>1, CompletionIsCounted DEF TypeOK
<1>a. ASSUME batch' = batch, starting' \in {starting, starting + 1},
             timers' \in {timers, timers + 1}, inFlight' \in {inFlight, inFlight + 1}
      PROVE  BatchIsTimed'
  BY <1>0, <1>a DEF BatchIsTimed
<1>b. ASSUME ~batch'.open PROVE BatchIsTimed'
  BY <1>b DEF BatchIsTimed
<1>c. ASSUME starting' = StartingAfter(batch'), UNCHANGED <<timers, inFlight>>
      PROVE  BatchIsTimed'
  BY <1>0, <1>c DEF BatchIsTimed, StartingAfter
<1>d. ~NoBatch.open
  BY DEF NoBatch
<1>1. CASE OpenLocalStorage \/ OnMapLoaded \/ PurgeMemory \/ DeleteLocalStorage
           \/ ServeRequest \/ FailRequest \/ ReadOldDatabase \/ DeleteOldDatabase
           \/ UNCHANGED vars
  <2>1. UNCHANGED <<batch, starting, timers, inFlight>>
    BY <1>1 DEF OpenLocalStorage, OnMapLoaded, PurgeMemory, DeleteLocalStorage,
       ServeRequest, FailRequest, ReadOldDatabase, DeleteOldDatabase, vars, wrapper
  <2> QED
    BY <1>a, <2>1
<1>2. CASE OnConnectionError
  <2>1. batch' = NoBatch \/ UNCHANGED <<batch, starting, timers, inFlight>>
    BY <1>2 DEF OnConnectionError, OnNoBindings
  <2> QED
    BY <1>a, <1>b, <1>d, <2>1
<1>3. ASSUME NEW c \in Call, PageCalls(c) PROVE BatchIsTimed'
  <2>1. /\ UNCHANGED <<timers, inFlight>>
        /\ starting' = StartingAfter(batch') \/ UNCHANGED <<batch, starting>>
    BY <1>3 DEF PageCalls, Perform
  <2> QED
    BY <1>a, <1>c, <2>1
<1>4. CASE OnGotMigrationData
  <2>1. /\ batch' = batch /\ timers' = timers
        /\ starting' \in {starting, starting + 1}
        /\ inFlight' \in {inFlight, inFlight + 1}
    BY <1>4 DEF OnGotMigrationData, StartingAfter
  <2> QED
    BY <1>a, <2>1
<1>5. CASE RunTask
  <2> DEFINE task == Head(running)
             commits == task.op = "commit" /\ database /\ batch.open
             b == IF commits THEN NoBatch
                  ELSE IF task.op = "commit" THEN batch ELSE BatchAfter(task, map, batch)
  <2>1. \/ batch' = NoBatch
        \/ /\ batch' = b /\ starting' = StartingAfter(b) /\ timers' = timers
           /\ inFlight' = IF commits THEN inFlight + 1 ELSE inFlight
    BY <1>5 DEF RunTask, OnNoBindings
  <2>2. commits => b = NoBatch
    OBVIOUS
  <2> HIDE DEF commits, b
  <2> QED
    BY <1>b, <1>c, <1>d, <2>1, <2>2
<1>6. CASE StartCommitTimer
  BY <1>0, <1>6 DEF StartCommitTimer, BatchIsTimed
<1>7. CASE CommitTimerFires
  BY <1>b, <1>d, <1>7 DEF CommitTimerFires, CommitChanges
<1>8. CASE OnCommitComplete
  <2>1. inFlight > 0
    BY <1>8, CompletionIsCounted DEF OnCommitComplete
  <2>2. /\ UNCHANGED <<batch, starting>> /\ inFlight' = inFlight - 1
        /\ timers' = IF batch.open /\ inFlight = 1 THEN timers + 1 ELSE timers
    BY <1>8 DEF OnCommitComplete, TimersAfterCommit
  <2> QED
    BY <1>0, <2>1, <2>2 DEF BatchIsTimed
<1>9. CASE Flush
  <2>1. batch' = NoBatch \/ UNCHANGED <<batch, starting, timers, inFlight>>
    BY <1>9 DEF Flush, CommitChanges
  <2> QED
    BY <1>a, <1>b, <1>d, <2>1
<1>10. CASE DeleteStorage
  <2>1. batch' = NoBatch \/ UNCHANGED <<batch, starting, timers, inFlight>>
    BY <1>10 DEF DeleteStorage, wrapper
  <2> QED
    BY <1>a, <1>b, <1>d, <2>1
<1>11. CASE Crash
  BY <1>b, <1>d, <1>11 DEF Crash
<1> QED
  BY <1>1, <1>2, <1>3, <1>4, <1>5, <1>6, <1>7, <1>8, <1>9, <1>10, <1>11 DEF Next

LEMMA TimedInvariance == Spec => [](IInv /\ CountInv /\ BatchIsTimed)
<1>1. Init => CountInv /\ BatchIsTimed
  <2> SUFFICES ASSUME Init PROVE CountInv /\ BatchIsTimed
    OBVIOUS
  <2>1. Count(requests, Owed) = 0 /\ Count(replies, Done) = 0
    BY CountNone DEF Init, Hits
  <2> QED
    BY <2>1 DEF Init, CountInv, BatchIsTimed, NoBatch
<1>2. IInv /\ IInv' /\ CountInv /\ BatchIsTimed /\ [Next]_vars => CountInv' /\ BatchIsTimed'
  <2> SUFFICES ASSUME IInv, IInv', CountInv, BatchIsTimed, [Next]_vars
               PROVE  CountInv' /\ BatchIsTimed'
    OBVIOUS
  <2>1. TypeOK /\ TypeOK' /\ LoadInv
    BY DEF IInv, LoadSound
  <2>2. CountInv'
    BY <2>1, CountPreserved
  <2> QED
    BY <2>1, <2>2, BatchTimed
<1> QED
  BY <1>1, <1>2, Invariance, PTL DEF Spec

(***************************************************************************)
(* The wrapper's count of commits in flight is that of the completions     *)
(* that LevelDB has still to report, whatever fails and whenever the       *)
(* wrapper goes; so OnCommitComplete never takes it below 0.               *)
(***************************************************************************)
THEOREM CommitsAreCountedHolds == Spec => [](CommitsAreCounted /\ inFlight \in Nat)
<1>1. IInv /\ CountInv => CommitsAreCounted /\ inFlight \in Nat
  <2> SUFFICES ASSUME IInv, CountInv PROVE CommitsAreCounted /\ inFlight \in Nat
    OBVIOUS
  <2>1. TypeOK
    BY DEF IInv
  <2>2. ASSUME NEW i \in 1..Len(requests)
        PROVE  requests[i] \in Owed <=> requests[i].op = "write" /\ requests[i].replies
    <3>1. requests[i] \in Request
      BY <2>1 DEF TypeOK
    <3> QED
      BY <3>1, Zenon DEF Owed
  <2>3. ASSUME NEW i \in 1..Len(replies)
        PROVE  replies[i] \in Done <=> replies[i].op = "write"
    BY <2>1 DEF Done, TypeOK
  <2>4. Hits(requests, Owed) =
          {i \in 1..Len(requests) : requests[i].op = "write" /\ requests[i].replies}
    BY <2>2, Zenon DEF Hits
  <2>5. Hits(replies, Done) = {i \in 1..Len(replies) : replies[i].op = "write"}
    BY <2>3, Zenon DEF Hits
  <2>6. CommitsAreCounted
    BY <2>4, <2>5, Zenon DEF CountInv, CommitsAreCounted, Count
  <2> QED
    BY <2>1, <2>6, CompletionIsCounted
<1> QED
  BY <1>1, TimedInvariance, PTL

(***************************************************************************)
(* StartCommitTimer and OnCommitComplete leave no batch alone: a timer     *)
(* runs, is about to be started, or a completion will start it.            *)
(***************************************************************************)
THEOREM BatchIsTimedHolds == Spec => []BatchIsTimed
BY TimedInvariance, PTL

(***************************************************************************)
(* Once nothing is under way the disk has what pages see: no change is     *)
(* forgotten by a timer, a flush, a purge, a migration or a closing.       *)
(***************************************************************************)
THEOREM RestingDiskIsSeenHolds == Spec => []RestingDiskIsSeen
<1>1. IInv /\ CountInv /\ BatchIsTimed => RestingDiskIsSeen
  <2> SUFFICES ASSUME IInv, CountInv, BatchIsTimed, ~failed, starting = 0, timers = 0,
                      requests = <<>>, replies = <<>>
               PROVE  disk = Seen
    BY DEF RestingDiskIsSeen
  <2>1. TypeOK /\ LoadInv /\ DataInv
    BY DEF IInv, LoadSound
  <2>2. Count(requests, Owed) = 0 /\ Count(replies, Done) = 0
    BY CountNone DEF Hits
  <2>3. ~batch.open
    BY <2>2 DEF CountInv, BatchIsTimed
  <2>4. OnItsWay = disk
    BY DEF OnItsWay
  <2> QED
    BY <2>1, <2>3, <2>4, NoBatchNoChange DEF Seen
<1> QED
  BY <1>1, TimedInvariance, PTL
-----------------------------------------------------------------------------
(* Whoever waits for the map has it coming. *)

WaitInv == tasks # <<>> => ~Quiet

LEMMA PendingRest ==
  ASSUME NEW S, NEW q \in Seq(S), q # <<>>
  PROVE  /\ Pending(q) /\ ~IsRead(Head(q)) => Pending(Tail(q))
         /\ Asked(q) /\ Head(q) # "read" => Asked(Tail(q))
<1>1. /\ Len(Tail(q)) = Len(q) - 1 /\ Len(q) \in Nat /\ Len(q) > 0
      /\ \A i \in 1..Len(Tail(q)) : Tail(q)[i] = q[i + 1]
      /\ Head(q) = q[1]
  BY PendingTail
<1>2. ASSUME NEW i \in 1..Len(q), i # 1
      PROVE  i - 1 \in 1..Len(Tail(q)) /\ Tail(q)[i - 1] = q[i]
  <2>1. i - 1 \in 1..Len(Tail(q)) /\ (i - 1) + 1 = i
    BY <1>1, <1>2
  <2> QED
    BY <1>1, <2>1
<1>3. ASSUME Pending(q), ~IsRead(Head(q)) PROVE Pending(Tail(q))
  <2> PICK i \in 1..Len(q) : IsRead(q[i])
    BY <1>3 DEF Pending
  <2>1. i # 1
    BY <1>1, <1>3
  <2> QED
    BY <1>2, <2>1 DEF Pending
<1>4. ASSUME Asked(q), Head(q) # "read" PROVE Asked(Tail(q))
  <2> PICK i \in 1..Len(q) : q[i] = "read"
    BY <1>4 DEF Asked
  <2>1. i # 1
    BY <1>1, <1>4
  <2> QED
    BY <1>2, <2>1 DEF Asked
<1> QED
  BY <1>3, <1>4

LEMMA WaitPreserved ==
  ASSUME TypeOK, TypeOK', LoadSound, WaitInv, [Next]_vars
  PROVE  WaitInv'
<1> USE DEF leveldb, oldDatabase
<1>0. /\ LoadInv /\ ReadInv /\ ReplyInv /\ OldInv
      /\ requests \in Seq(Request) /\ replies \in Seq(Reply)
      /\ legacy \in Seq({"read", "delete"}) /\ migrated \in Seq(Map)
  BY DEF LoadSound, TypeOK
<1>a. ASSUME UNCHANGED <<tasks, requests, replies, migrated>>,
             legacy' = legacy \/ legacy' = Append(legacy, "delete")
      PROVE  WaitInv'
  <2>1. Asked(legacy') <=> Asked(legacy)
    BY <1>a, DeletionAsked
  <2> QED
    BY <1>a, <2>1 DEF WaitInv, Quiet, OldAsked
<1>b. ASSUME tasks' = <<>> PROVE WaitInv'
  BY <1>b DEF WaitInv
<1>c. ASSUME requests' = IF tasks = <<>> THEN Append(requests, Read) ELSE requests,
             UNCHANGED <<replies, legacy, migrated>>
      PROVE  WaitInv'
  <2>1. CASE tasks = <<>>
    <3>1. Read \in Request /\ IsRead(Read)
      BY Queues DEF IsRead
    <3>2. Pending(requests')
      BY <1>0, <1>c, <2>1, <3>1, PendingAppend
    <3> QED
      BY <3>2 DEF WaitInv, Quiet
  <2>2. CASE tasks # <<>>
    BY <1>c, <2>2 DEF WaitInv, Quiet, OldAsked
  <2> QED
    BY <2>1, <2>2
<1>d. ASSUME CommitChanges, UNCHANGED <<tasks, replies, legacy, migrated>> PROVE WaitInv'
  <2>1. CASE batch.open
    <3>1. tasks = <<>>
      BY <1>0, <2>1 DEF LoadInv, NoBatch
    <3> QED
      BY <1>b, <1>d, <3>1
  <2>2. CASE ~batch.open
    BY <1>a, <1>d, <2>2 DEF CommitChanges, RequestsAfterCommit
  <2> QED
    BY <2>1, <2>2
<1>1. CASE OpenLocalStorage \/ StartCommitTimer \/ PurgeMemory
           \/ DeleteLocalStorage \/ UNCHANGED vars
  BY <1>a, <1>1 DEF OpenLocalStorage, StartCommitTimer, PurgeMemory,
     DeleteLocalStorage, vars, wrapper
<1>2. CASE OnConnectionError
  <2>1. tasks' = <<>> \/ UNCHANGED <<tasks, requests, replies, legacy, migrated>>
    BY <1>2 DEF OnConnectionError
  <2> QED
    BY <1>a, <1>b, <2>1
<1>3. ASSUME NEW c \in Call, PageCalls(c) PROVE WaitInv'
  <2>1. CASE loaded
    BY <1>a, <1>3, <2>1 DEF PageCalls
  <2>2. CASE ~loaded
    BY <1>c, <1>3, <2>2 DEF PageCalls, LoadMap
  <2> QED
    BY <2>1, <2>2
<1>4. CASE OnMapLoaded
  <2>1. legacy' = Append(legacy, "read") \/ tasks' = <<>>
    BY <1>4 DEF OnMapLoaded, LoadCompletes
  <2>2. ASSUME legacy' = Append(legacy, "read") PROVE WaitInv'
    <3>1. Asked(legacy')
      BY <1>0, <2>2, AskedAppend
    <3> QED
      BY <3>1 DEF WaitInv, Quiet, OldAsked
  <2> QED
    BY <1>b, <2>1, <2>2
<1>5. CASE OnGotMigrationData
  BY <1>b, <1>5 DEF OnGotMigrationData, LoadCompletes
<1>6. CASE RunTask
  <2>1. tasks' = tasks /\ tasks = <<>>
    BY <1>0, <1>6 DEF RunTask, LoadInv
  <2> QED
    BY <1>b, <2>1
<1>7. CASE CommitTimerFires
  BY <1>d, <1>7 DEF CommitTimerFires
<1>8. CASE OnCommitComplete
  <2>1. /\ replies # <<>> /\ replies' = Tail(replies) /\ ~IsRead(Head(replies))
        /\ UNCHANGED <<tasks, requests, migrated>>
        /\ legacy' = legacy \/ legacy' = Append(legacy, "delete")
    BY <1>8 DEF OnCommitComplete, IsRead
  <2>2. Pending(replies) => Pending(replies')
    BY <1>0, <2>1, PendingRest
  <2>3. Asked(legacy') <=> Asked(legacy)
    BY <2>1, DeletionAsked
  <2> QED
    BY <2>1, <2>2, <2>3 DEF WaitInv, Quiet, OldAsked
<1>9. CASE Flush
  <2>1. CASE tasks # <<>>
    BY <1>c, <1>9, <2>1 DEF Flush, LoadMap
  <2>2. CASE tasks = <<>>
    BY <1>d, <1>9, <2>2 DEF Flush
  <2> QED
    BY <2>1, <2>2
<1>10. CASE DeleteStorage
  <2>1. UNCHANGED <<replies, legacy, migrated>>
    BY <1>10 DEF DeleteStorage
  <2>2. CASE ~holder \/ loaded
    <3>1. tasks' = tasks /\ tasks = <<>>
      BY <1>0, <1>10, <2>2 DEF DeleteStorage, wrapper, LoadInv
    <3> QED
      BY <1>b, <3>1
  <2>3. CASE holder /\ ~loaded
    BY <1>c, <1>10, <2>1, <2>3 DEF DeleteStorage
  <2> QED
    BY <2>2, <2>3
<1>11. CASE ServeRequest \/ FailRequest
  <2>1. /\ requests # <<>> /\ requests' = Tail(requests)
        /\ UNCHANGED <<tasks, legacy, migrated>>
    BY <1>11 DEF ServeRequest, FailRequest, wrapper
  <2>2. \/ ~IsRead(Head(requests)) /\ replies' = replies
        \/ ~IsRead(Head(requests)) /\ \E ok \in BOOLEAN :
             replies' = Append(replies, [op |-> "write", ok |-> ok])
        \/ \E ok \in BOOLEAN, d \in Map :
             replies' = Append(replies, [op |-> "read", ok |-> ok, data |-> d])
    BY <1>11, Maps DEF ServeRequest, FailRequest, IsRead, TypeOK
  <2>3. ASSUME ~IsRead(Head(requests)), Pending(replies) => Pending(replies')
        PROVE  WaitInv'
    <3>1. Pending(requests) => Pending(requests')
      BY <1>0, <2>1, <2>3, PendingRest
    <3> QED
      BY <2>1, <2>3, <3>1 DEF WaitInv, Quiet, OldAsked
  <2>4. ASSUME NEW ok \in BOOLEAN, replies' = Append(replies, [op |-> "write", ok |-> ok])
        PROVE  Pending(replies) => Pending(replies')
    <3>1. [op |-> "write", ok |-> ok] \in Reply
      BY DEF Reply
    <3> QED
      BY <1>0, <2>4, <3>1, PendingAppend
  <2>5. ASSUME NEW ok \in BOOLEAN, NEW d \in Map,
               replies' = Append(replies, [op |-> "read", ok |-> ok, data |-> d])
        PROVE  WaitInv'
    <3>1. /\ [op |-> "read", ok |-> ok, data |-> d] \in Reply
          /\ IsRead([op |-> "read", ok |-> ok, data |-> d])
      BY DEF Reply, IsRead
    <3>2. Pending(replies')
      BY <1>0, <2>5, <3>1, PendingAppend
    <3> QED
      BY <3>2 DEF WaitInv, Quiet
  <2> QED
    BY <2>2, <2>3, <2>4, <2>5
<1>12. CASE ReadOldDatabase
  <2>1. migrated' # <<>>
    BY <1>0, <1>12 DEF ReadOldDatabase
  <2> QED
    BY <2>1 DEF WaitInv, Quiet
<1>13. CASE DeleteOldDatabase
  <2>1. /\ UNCHANGED <<tasks, requests, replies, migrated>>
        /\ legacy # <<>> /\ Head(legacy) # "read" /\ legacy' = Tail(legacy)
    BY <1>13 DEF DeleteOldDatabase, wrapper
  <2>2. Asked(legacy) => Asked(legacy')
    BY <1>0, <2>1, PendingRest
  <2> QED
    BY <2>1, <2>2 DEF WaitInv, Quiet, OldAsked
<1>14. CASE Crash
  BY <1>b, <1>14 DEF Crash
<1> QED
  BY <1>1, <1>2, <1>3, <1>4, <1>5, <1>6, <1>7, <1>8, <1>9, <1>10, <1>11, <1>12,
     <1>13, <1>14 DEF Next

LEMMA SingleLoad ==
  ASSUME TypeOK, LoadSound
  PROVE  /\ Loads # {} <=> ~Quiet
         /\ \A l, k \in Loads : l = k
<1> DEFINE inRequests == {j \in 1..Len(requests) : requests[j].op = "read"}
           inReplies == {j \in 1..Len(replies) : replies[j].op = "read"}
           inLegacy == {j \in 1..Len(legacy) : legacy[j] = "read"}
           inMigrated == 1..Len(migrated)
<1>0. ReadInv /\ ReplyInv /\ OldInv
  BY DEF LoadSound
<1>1. /\ Pending(requests) <=> inRequests # {}
      /\ Pending(replies) <=> inReplies # {}
      /\ OldAsked <=> inLegacy # {}
  BY DEF Pending, IsRead, OldAsked, Asked
<1>2. migrated # <<>> <=> inMigrated # {}
  <2>1. Len(migrated) \in Nat /\ (migrated # <<>> <=> Len(migrated) > 0)
    BY DEF TypeOK
  <2> QED
    BY <2>1
<1>3. \A i, j \in inRequests : i = j
  BY <1>0 DEF ReadInv, IsRead
<1>4. \A i, j \in inReplies : i = j
  BY <1>0 DEF ReplyInv, IsRead
<1>5. \A i, j \in inLegacy : i = j
  BY <1>0 DEF OldInv
<1>6. \A i, j \in inMigrated : i = j
  <2>1. CASE migrated = <<>>
    BY <1>2, <2>1
  <2>2. CASE migrated # <<>>
    <3>1. Len(migrated) = 1
      BY <1>0, <2>2 DEF OldInv
    <3> QED
      BY <3>1
  <2> QED
    BY <2>1, <2>2
<1>7. /\ inRequests # {} => inReplies = {} /\ inLegacy = {} /\ inMigrated = {}
      /\ inReplies # {} => inLegacy = {} /\ inMigrated = {}
      /\ inLegacy # {} => inMigrated = {}
  <2>1. /\ Pending(requests) => ~Pending(replies) /\ ~OldAsked /\ migrated = <<>>
        /\ Pending(replies) => ~OldAsked /\ migrated = <<>>
        /\ OldAsked => migrated = <<>>
    BY <1>0 DEF ReadInv, ReplyInv, OldInv, Pending
  <2> HIDE DEF inRequests, inReplies, inLegacy, inMigrated
  <2> QED
    BY <1>1, <1>2, <2>1, Zenon
<1>8. Loads = {<<"request", i>> : i \in inRequests} \cup {<<"reply", i>> : i \in inReplies}
                \cup {<<"old", i>> : i \in inLegacy} \cup {<<"migrated", i>> : i \in inMigrated}
  BY DEF Loads
<1> HIDE DEF inRequests, inReplies, inLegacy, inMigrated
<1>9. Loads # {} <=>
        inRequests # {} \/ inReplies # {} \/ inLegacy # {} \/ inMigrated # {}
  BY <1>8
<1>10. ~Quiet <=> Pending(requests) \/ Pending(replies) \/ OldAsked \/ migrated # <<>>
  BY DEF Quiet
<1>11. \A l, k \in Loads : l = k
  BY <1>3, <1>4, <1>5, <1>6, <1>7, <1>8
<1> QED
  BY <1>1, <1>2, <1>9, <1>10, <1>11, Zenon

(***************************************************************************)
(* While tasks wait for the map, and only then, a load is under way, and   *)
(* just one: LevelDB's failures and the going of pages included.           *)
(***************************************************************************)
THEOREM OneLoadServesAllHolds == Spec => []OneLoadServesAll
<1>1. Init => WaitInv
  BY DEF Init, WaitInv
<1>2. IInv /\ IInv' /\ WaitInv /\ [Next]_vars => WaitInv'
  BY WaitPreserved DEF IInv
<1>3. IInv /\ WaitInv => OneLoadServesAll
  <2> SUFFICES ASSUME IInv, WaitInv PROVE OneLoadServesAll
    OBVIOUS
  <2>1. TypeOK /\ LoadSound /\ ReadInv /\ ReplyInv /\ OldInv
    BY DEF IInv, LoadSound
  <2>2. tasks # <<>> <=> ~Quiet
    BY <2>1, WithoutTasksQuiet DEF WaitInv
  <2>3. (Loads # {} <=> ~Quiet) /\ \A l, k \in Loads : l = k
    BY <2>1, SingleLoad
  <2> QED
    BY <2>2, <2>3, Zenon DEF OneLoadServesAll
<1> QED
  BY <1>1, <1>2, <1>3, Invariance, PTL DEF Spec

(***************************************************************************)
(* The wrapper is there, with its memory, exactly as long as a page is     *)
(* bound to it or a task waits for the map or runs.                        *)
(***************************************************************************)
THEOREM WrapperIsWantedHolds == Spec => []WrapperIsWanted
<1>1. IInv => WrapperIsWanted
  BY DEF IInv, LoadSound, LoadInv, WrapperIsWanted, TypeOK
<1> QED
  BY <1>1, Invariance, PTL
-----------------------------------------------------------------------------
(* The size of a map. *)

LEMMA LeastNumber ==
  ASSUME NEW T \in SUBSET Nat, T # {}
  PROVE  \E m \in T : \A n \in T : ~(n < m)
<1> DEFINE R == OpToRel(<, Nat)
<1>1. IsWellFoundedOn(R, Nat)
  BY NatLessThanWellFounded
<1>2. PICK m \in T : \A n \in T : <<n, m>> \notin R
  <2> HIDE DEF R
  <2> QED
    BY <1>1, WFMin
<1>3. \A n \in T : ~(n < m)
  BY <1>2 DEF OpToRel
<1> QED
  BY <1>3

LEMMA KeySets ==
  ASSUME NEW s \in SUBSET Key
  PROVE  /\ IsFiniteSet(s) /\ Cardinality(s) \in Nat
         /\ Cardinality(s) <= Cardinality(Key) /\ Cardinality(Key) \in Nat
         /\ Cardinality(s) = 0 <=> s = {}
         /\ \A k \in s : Cardinality(s \ {k}) = Cardinality(s) - 1
<1>1. IsFiniteSet(s) /\ IsFiniteSet(Key)
  BY KeyAssumption, FS_Subset
<1> QED
  BY <1>1, FS_Subset, FS_CardinalityType, FS_EmptySet, FS_RemoveElement

\* Some set in B has no other in B that lacks just one of its keys.
LEMMA LeastKeys ==
  ASSUME NEW B \in SUBSET (SUBSET Key), B # {}
  PROVE  \E s \in B : \A k \in s : s \ {k} \notin B
<1> DEFINE D == {Cardinality(s) : s \in B}
<1>1. D \in SUBSET Nat /\ D # {}
  BY KeySets
<1>2. PICK n \in D : \A m \in D : ~(m < n)
  <2> HIDE DEF D
  <2> QED
    BY <1>1, LeastNumber
<1>3. PICK s \in B : Cardinality(s) = n
  OBVIOUS
<1>4. ASSUME NEW k \in s, s \ {k} \in B PROVE FALSE
  <2>1. Cardinality(s \ {k}) = n - 1 /\ n \in Nat
    BY <1>3, KeySets
  <2>2. Cardinality(s \ {k}) \in D
    BY <1>4
  <2>3. ~(n - 1 < n)
    <3> HIDE DEF D
    <3> QED
      BY <1>2, <2>1, <2>2
  <2> QED
    BY <2>1, <2>3
<1> QED
  BY <1>4

Pick(s) == CHOOSE k \in s : TRUE

\* What the sum over s comes to when f has the smaller sums.
SumOver(m, f, s) ==
  IF s = {} THEN 0 ELSE ItemSize(m[Pick(s)]) + f[s \ {Pick(s)}]

LEMMA Picked == \A s : s # {} => Pick(s) \in s
BY DEF Pick

LEMMA ItemSizes ==
  ASSUME NEW v \in Item PROVE ItemSize(v) \in Nat
BY ValueAssumption DEF ItemSize, Item

LEMMA SumExists ==
  ASSUME NEW m \in Map
  PROVE  \E f : f = [s \in SUBSET Key |-> SumOver(m, f, s)]
<1> DEFINE Upto(n) == {s \in SUBSET Key : Cardinality(s) <= n}
           Part(n) == {h \in [Upto(n) -> Nat] : \A s \in Upto(n) : h[s] = SumOver(m, h, s)}
<1>1. \A n \in Nat : Part(n) # {}
  <2> DEFINE D == {n \in Nat : Part(n) = {}}
  <2> SUFFICES ASSUME D # {} PROVE FALSE
    OBVIOUS
  <2>1. PICK n \in D : \A i \in D : ~(i < n)
    <3> D \in SUBSET Nat
      OBVIOUS
    <3> HIDE DEF D
    <3> QED
      BY LeastNumber
  <2>2. n \in Nat /\ Part(n) = {}
    OBVIOUS
  <2>3. CASE n = 0
    <3> DEFINE h == [s \in Upto(0) |-> 0]
    <3>1. \A s \in Upto(0) : s = {}
      BY KeySets
    <3>2. h \in [Upto(0) -> Nat] /\ \A s \in Upto(0) : h[s] = SumOver(m, h, s)
      BY <3>1 DEF SumOver
    <3>3. h \in Part(0)
      BY <3>2
    <3> QED
      BY <2>2, <2>3, <3>3
  <2>4. CASE n # 0
    <3>1. n - 1 \in Nat /\ n - 1 < n
      BY <2>2, <2>4
    <3>2. PICK h : h \in Part(n - 1)
      BY <2>1, <3>1
    <3>3. /\ h \in [Upto(n - 1) -> Nat]
          /\ \A s \in Upto(n - 1) : h[s] = SumOver(m, h, s)
      BY <3>2
    <3> DEFINE h2 == [s \in Upto(n) |-> SumOver(m, h, s)]
    <3>4. ASSUME NEW s \in Upto(n), s # {}
          PROVE  /\ s \ {Pick(s)} \in Upto(n - 1) /\ s \ {Pick(s)} \in Upto(n)
                 /\ ItemSize(m[Pick(s)]) \in Nat
      <4>1. Pick(s) \in s /\ s \in SUBSET Key
        BY <3>4, Picked
      <4>2. Cardinality(s \ {Pick(s)}) = Cardinality(s) - 1 /\ Cardinality(s) \in Nat
        BY <4>1, KeySets
      <4>3. m[Pick(s)] \in Item
        BY <4>1, Maps
      <4> QED
        BY <2>2, <4>1, <4>2, <4>3, ItemSizes
    <3> HIDE DEF Upto
    <3>5. h2 \in [Upto(n) -> Nat]
      <4>1. \A s \in Upto(n) : SumOver(m, h, s) \in Nat
        BY <3>3, <3>4 DEF SumOver
      <4> QED
        BY <4>1
    <3>6. ASSUME NEW s \in Upto(n) PROVE h2[s] = SumOver(m, h2, s)
      <4>1. CASE s = {}
        BY <4>1 DEF SumOver
      <4>2. CASE s # {}
        <5> DEFINE r == s \ {Pick(s)}
        <5>1. r \in Upto(n) /\ r \in Upto(n - 1)
          BY <3>4, <4>2
        <5>2. h2[r] = h[r]
          BY <3>3, <5>1
        <5> QED
          BY <4>2, <5>2 DEF SumOver
      <4> QED
        BY <4>1, <4>2
    <3>7. h2 \in Part(n)
      <4> HIDE DEF h2
      <4> QED
        BY <3>5, <3>6
    <3> QED
      BY <2>2, <3>7
  <2> QED
    BY <2>3, <2>4
<1> DEFINE all == Cardinality(Key)
<1>2. all \in Nat /\ Upto(all) = SUBSET Key
  BY KeySets
<1>3. PICK h : h \in Part(all)
  BY <1>1, <1>2
<1>4. h \in [SUBSET Key -> Nat] /\ \A s \in SUBSET Key : h[s] = SumOver(m, h, s)
  <2>1. h \in [Upto(all) -> Nat] /\ \A s \in Upto(all) : h[s] = SumOver(m, h, s)
    BY <1>3
  <2> HIDE DEF Upto
  <2> QED
    BY <1>2, <2>1
<1> HIDE DEF Part, Upto
<1>5. h = [s \in SUBSET Key |-> SumOver(m, h, s)]
  BY <1>4
<1> QED
  BY <1>5

\* The sums of m over all sets of keys.
SumsOf(m) == CHOOSE f : f = [s \in SUBSET Key |-> SumOver(m, f, s)]

LEMMA Sums ==
  ASSUME NEW m \in Map
  PROVE  /\ Bytes(m) = SumsOf(m)[Key]
         /\ SumsOf(m)[{}] = 0
         /\ \A s \in SUBSET Key : s # {} =>
              SumsOf(m)[s] = ItemSize(m[Pick(s)]) + SumsOf(m)[s \ {Pick(s)}]
<1>1. Bytes(m) = SumsOf(m)[Key]
  BY DEF Bytes, MapThenSumSet, MapThenFoldSet, SumsOf, SumOver, Pick
<1>2. SumsOf(m) = [s \in SUBSET Key |-> SumOver(m, SumsOf(m), s)]
  BY SumExists DEF SumsOf
<1>3. \A s \in SUBSET Key : SumsOf(m)[s] = SumOver(m, SumsOf(m), s)
  BY <1>2
<1> QED
  BY <1>1, <1>3 DEF SumOver

LEMMA SumsAreSizes ==
  ASSUME NEW m \in Map
  PROVE  \A s \in SUBSET Key : SumsOf(m)[s] \in Nat
<1> DEFINE B == {s \in SUBSET Key : SumsOf(m)[s] \notin Nat}
<1> SUFFICES ASSUME B # {} PROVE FALSE
  OBVIOUS
<1>1. PICK s \in B : \A k \in s : s \ {k} \notin B
  <2> B \in SUBSET (SUBSET Key)
    OBVIOUS
  <2> HIDE DEF B
  <2> QED
    BY LeastKeys
<1>2. s \in SUBSET Key /\ SumsOf(m)[s] \notin Nat
  OBVIOUS
<1>3. s # {}
  <2>1. SumsOf(m)[{}] \in Nat
    BY Sums
  <2> QED
    BY <1>2, <2>1
<1>4. Pick(s) \in s /\ m[Pick(s)] \in Item
  BY <1>2, <1>3, Picked, Maps
<1>5. SumsOf(m)[s \ {Pick(s)}] \in Nat
  BY <1>1, <1>2, <1>4
<1> QED
  BY <1>2, <1>3, <1>4, <1>5, Sums, ItemSizes

LEMMA BytesType ==
  ASSUME NEW m \in Map PROVE Bytes(m) \in Nat
BY Sums, SumsAreSizes

(***************************************************************************)
(* Put and Delete do not add up the map again: they take the size of the   *)
(* old item from bytes_used_ and add that of the new one.  This is the     *)
(* size of the new map, and never less than nothing.                       *)
(***************************************************************************)
THEOREM BytesUsed ==
  ASSUME NEW m \in Map, NEW k \in Key, NEW v \in Item
  PROVE  /\ Bytes(m) \in Nat
         /\ ItemSize(m[k]) <= Bytes(m)
         /\ Bytes([m EXCEPT ![k] = v]) = Bytes(m) - ItemSize(m[k]) + ItemSize(v)
<1> DEFINE w == [m EXCEPT ![k] = v]
           Right(s) == SumsOf(w)[s] - (IF k \in s THEN ItemSize(v) ELSE 0)
                         = SumsOf(m)[s] - (IF k \in s THEN ItemSize(m[k]) ELSE 0)
           Enough(s) == k \in s => ItemSize(m[k]) <= SumsOf(m)[s]
           B == {s \in SUBSET Key : ~(Right(s) /\ Enough(s))}
<1>1. w \in Map /\ m[k] \in Item /\ w[k] = v /\ \A j \in Key \ {k} : w[j] = m[j]
  BY Maps
<1> HIDE DEF w
<1>2. B = {}
  <2> SUFFICES ASSUME B # {} PROVE FALSE
    OBVIOUS
  <2>1. PICK s \in B : \A j \in s : s \ {j} \notin B
    <3> B \in SUBSET (SUBSET Key)
      OBVIOUS
    <3> HIDE DEF B
    <3> QED
      BY LeastKeys
  <2>2. s \in SUBSET Key /\ ~(Right(s) /\ Enough(s))
    OBVIOUS
  <2>3. s # {}
    BY <1>1, <2>2, Sums
  <2> DEFINE p == Pick(s)
             r == s \ {p}
  <2>4. p \in s /\ r \in SUBSET Key
    BY <2>2, <2>3, Picked
  <2>5. Right(r) /\ Enough(r)
    BY <2>1, <2>4
  <2>6. /\ SumsOf(w)[s] = ItemSize(w[p]) + SumsOf(w)[r]
        /\ SumsOf(m)[s] = ItemSize(m[p]) + SumsOf(m)[r]
    BY <1>1, <2>2, <2>3, Sums
  <2>7. /\ SumsOf(w)[r] \in Nat /\ SumsOf(m)[r] \in Nat
        /\ ItemSize(w[p]) \in Nat /\ ItemSize(m[p]) \in Nat
        /\ ItemSize(v) \in Nat /\ ItemSize(m[k]) \in Nat
    <3>1. w[p] \in Item /\ m[p] \in Item
      BY <1>1, <2>2, <2>4, Maps
    <3> QED
      BY <1>1, <2>4, <3>1, SumsAreSizes, ItemSizes
  <2> HIDE DEF p
  <2>8. CASE k = p
    <3>1. k \in s /\ k \notin r
      BY <2>4, <2>8
    <3>2. SumsOf(w)[r] = SumsOf(m)[r]
      BY <2>5, <2>7, <3>1
    <3>3. ItemSize(w[p]) = ItemSize(v) /\ ItemSize(m[p]) = ItemSize(m[k])
      BY <1>1, <2>8
    <3> HIDE DEF r
    <3> QED
      BY <2>2, <2>6, <2>7, <3>1, <3>2, <3>3
  <2>9. CASE k # p
    <3>1. k \in s <=> k \in r
      BY <2>9
    <3>2. ItemSize(w[p]) = ItemSize(m[p])
      BY <1>1, <2>2, <2>4, <2>9
    <3> HIDE DEF r
    <3>3. CASE k \in s
      BY <2>2, <2>5, <2>6, <2>7, <3>1, <3>2, <3>3
    <3>4. CASE k \notin s
      BY <2>2, <2>5, <2>6, <2>7, <3>1, <3>2, <3>4
    <3> QED
      BY <3>3, <3>4
  <2> QED
    BY <2>8, <2>9
<1>3. Right(Key) /\ Enough(Key)
  BY <1>2
<1>4. Bytes(m) = SumsOf(m)[Key] /\ Bytes(w) = SumsOf(w)[Key]
  BY <1>1, Sums
<1>5. SumsOf(m)[Key] \in Nat /\ SumsOf(w)[Key] \in Nat
  BY <1>1, SumsAreSizes
<1>6. ItemSize(v) \in Nat /\ ItemSize(m[k]) \in Nat
  BY <1>1, ItemSizes
<1> QED
  BY <1>3, <1>4, <1>5, <1>6 DEF w

\* No items have no size.
LEMMA NoItemsNoBytes == Bytes(Empty) = 0
<1> DEFINE B == {s \in SUBSET Key : SumsOf(Empty)[s] # 0}
<1>1. B = {}
  <2> SUFFICES ASSUME B # {} PROVE FALSE
    OBVIOUS
  <2>1. PICK s \in B : \A k \in s : s \ {k} \notin B
    <3> B \in SUBSET (SUBSET Key)
      OBVIOUS
    <3> HIDE DEF B
    <3> QED
      BY LeastKeys
  <2>2. s \in SUBSET Key /\ SumsOf(Empty)[s] # 0
    OBVIOUS
  <2>3. s # {}
    BY <2>2, Sums, Maps
  <2>4. Pick(s) \in s /\ ItemSize(Empty[Pick(s)]) = 0
    BY <2>2, <2>3, Picked, Maps DEF ItemSize
  <2>5. SumsOf(Empty)[s \ {Pick(s)}] = 0
    BY <2>1, <2>2, <2>4
  <2>6. SumsOf(Empty)[s] = ItemSize(Empty[Pick(s)]) + SumsOf(Empty)[s \ {Pick(s)}]
    BY <2>2, <2>3, Sums, Maps
  <2> QED
    BY <2>2, <2>4, <2>5, <2>6
<1>2. SumsOf(Empty)[Key] = 0
  BY <1>1
<1> QED
  BY <1>2, Sums, Maps

-----------------------------------------------------------------------------
(* The size in the metadata. *)

\* A request that writes the size of the map it makes the disk.
Sized == {r \in Request : r.op = "write" => r.size = Bytes(r.after)}

SizeInv == requests \in Seq(Sized) /\ (~failed => meta = Bytes(disk))

LEMMA SizedRequests ==
  ASSUME TypeOK
  PROVE  /\ Read \in Sized /\ DeleteOrigin \in Sized
         /\ \A m \in Map, b \in Batch : WriteOf(m, b) \in Sized
<1>1. Read \in Sized
  BY Queues DEF Sized
<1>2. DeleteOrigin \in Sized
  BY DeletionOfOrigin, NoItemsNoBytes DEF Sized, DeleteOrigin
<1>3. ASSUME NEW m \in Map, NEW b \in Batch PROVE WriteOf(m, b) \in Sized
  <2>1. WriteOf(m, b) \in Request
    BY WriteOfMap
  <2> QED
    BY <2>1 DEF Sized, WriteOf
<1> QED
  BY <1>1, <1>2, <1>3

LEMMA SizedUnanswered ==
  ASSUME NEW q \in Seq(Sized) PROVE Unanswered(q) \in Seq(Sized)
<1>1. ASSUME NEW i \in 1..Len(q) PROVE Unanswered(q)[i] \in Sized
  <2>1. q[i] \in Sized /\ q[i] \in Request
    BY DEF Sized
  <2>2. CASE q[i].op = "write"
    <3>1. q[i] \in Write /\ q[i].size = Bytes(q[i].after)
      BY <2>1, <2>2, Requests DEF Sized
    <3>2. Unanswered(q)[i] = [q[i] EXCEPT !.replies = FALSE]
      BY <2>2 DEF Unanswered
    <3>3. /\ Unanswered(q)[i] \in Write
          /\ Unanswered(q)[i].size = q[i].size
          /\ Unanswered(q)[i].after = q[i].after
      BY <3>1, <3>2 DEF Write
    <3> QED
      BY <3>1, <3>3 DEF Sized, Request
  <2>3. CASE q[i].op # "write"
    BY <2>1, <2>3 DEF Unanswered
  <2> QED
    BY <2>2, <2>3
<1> QED
  BY <1>1 DEF Unanswered

LEMMA SizesPreserved ==
  ASSUME TypeOK, requests \in Seq(Sized), [Next]_vars
  PROVE  requests' \in Seq(Sized)
<1> USE DEF leveldb
<1>a. ASSUME NEW q \in Seq(Sized), NEW m \in Map, NEW b \in Batch
      PROVE  (IF b.open THEN Append(q, WriteOf(m, b)) ELSE q) \in Seq(Sized)
  BY <1>a, SizedRequests
<1>b. ASSUME NEW m \in Map, NEW b \in Batch
      PROVE  RequestsAfterCommit(m, b) \in Seq(Sized)
  BY <1>a, <1>b DEF RequestsAfterCommit
<1>c. Append(requests, Read) \in Seq(Sized)
  BY SizedRequests
<1>d. ASSUME NEW q \in Seq(Sized), NEW m \in Map, NEW b \in Batch, OnNoBindings(m, b, q)
      PROVE  requests' \in Seq(Sized)
  <2>1. (IF b.open THEN Append(q, WriteOf(m, b)) ELSE q) \in Seq(Sized)
    BY <1>a, <1>d
  <2> QED
    BY <1>d, <2>1, SizedUnanswered DEF OnNoBindings
<1>e. map \in Map /\ batch \in Batch
  BY DEF TypeOK
<1>1. CASE OpenLocalStorage \/ OnMapLoaded \/ StartCommitTimer \/ OnCommitComplete
           \/ PurgeMemory \/ DeleteLocalStorage \/ ReadOldDatabase \/ DeleteOldDatabase
           \/ UNCHANGED vars
  BY <1>1 DEF OpenLocalStorage, OnMapLoaded, StartCommitTimer, OnCommitComplete,
     PurgeMemory, DeleteLocalStorage, ReadOldDatabase, DeleteOldDatabase, vars
<1>2. CASE OnConnectionError
  BY <1>d, <1>e, <1>2 DEF OnConnectionError
<1>3. ASSUME NEW c \in Call, PageCalls(c) PROVE requests' \in Seq(Sized)
  BY <1>c, <1>3 DEF PageCalls, LoadMap
<1>4. CASE OnGotMigrationData
  <2> DEFINE data == Head(migrated)
             all == [open |-> data # Empty, clear |-> FALSE,
                     keys |-> {k \in Key : data[k] # Absent}]
  <2>1. data \in Map
    BY <1>4, Heads DEF OnGotMigrationData, TypeOK
  <2>2. all \in Batch
    BY DEF Batch
  <2>3. requests' = RequestsAfterCommit(data, all)
    BY <1>4 DEF OnGotMigrationData
  <2> HIDE DEF data, all
  <2> QED
    BY <1>b, <2>1, <2>2, <2>3
<1>5. CASE RunTask
  <2> DEFINE task == Head(running)
             commits == task.op = "commit" /\ database /\ batch.open
             m == IF task.op = "commit" THEN map ELSE MapAfter(task, map)
             b == IF commits THEN NoBatch
                  ELSE IF task.op = "commit" THEN batch ELSE BatchAfter(task, map, batch)
             q == IF commits THEN RequestsAfterCommit(map, batch) ELSE requests
  <2>1. task \in Task
    BY <1>5, Heads DEF RunTask, TypeOK
  <2>2. m \in Map /\ b \in Batch
    BY <1>e, <2>1, CallTasks, CallChanges, BatchType, NoBatchType
  <2>3. q \in Seq(Sized)
    BY <1>b, <1>e
  <2>4. OnNoBindings(m, b, q) \/ requests' = q
    BY <1>5 DEF RunTask
  <2> HIDE DEF m, b, q
  <2> QED
    BY <1>d, <2>2, <2>3, <2>4
<1>6. CASE CommitTimerFires
  BY <1>b, <1>e, <1>6 DEF CommitTimerFires, CommitChanges
<1>7. CASE Flush
  BY <1>b, <1>c, <1>e, <1>7 DEF Flush, CommitChanges, LoadMap
<1>8. CASE DeleteStorage
  <2> DEFINE clear == [op |-> "clear"]
             b == BatchAfter(clear, map, batch)
  <2>1. b \in Batch
    BY <1>e, CallTasks, BatchType
  <2>2. \/ requests' = Append(requests, DeleteOrigin)
        \/ requests' = Append(requests, Read) \/ requests' = requests
        \/ requests' = RequestsAfterCommit(Empty, b)
    BY <1>8 DEF DeleteStorage
  <2>3. Append(requests, DeleteOrigin) \in Seq(Sized)
    BY SizedRequests
  <2> HIDE DEF b
  <2>4. RequestsAfterCommit(Empty, b) \in Seq(Sized)
    BY <1>b, <2>1, Maps
  <2> QED
    BY <1>c, <2>2, <2>3, <2>4
<1>9. CASE ServeRequest \/ FailRequest
  <2>1. requests # <<>> /\ requests' = Tail(requests)
    BY <1>9 DEF ServeRequest, FailRequest
  <2>2. Tail(requests) \in Seq(Sized)
    BY <2>1
  <2> QED
    BY <2>1, <2>2
<1>10. CASE Crash
  BY <1>10 DEF Crash
<1> QED
  BY <1>1, <1>2, <1>3, <1>4, <1>5, <1>6, <1>7, <1>8, <1>9, <1>10 DEF Next

(***************************************************************************)
(* The size in the metadata is that of the items on the disk, whoever      *)
(* wrote them: a commit, a migration or a deletion.                        *)
(***************************************************************************)
THEOREM MetadataIsRight == Spec => []MetaMatchesData
<1>1. Init => SizeInv
  BY NoItemsNoBytes DEF Init, SizeInv
<1>2. IInv /\ IInv' /\ SizeInv /\ [Next]_vars => SizeInv'
  <2> SUFFICES ASSUME IInv, IInv', SizeInv, [Next]_vars PROVE SizeInv'
    OBVIOUS
  <2>1. TypeOK /\ TypeOK' /\ requests \in Seq(Sized)
    BY DEF IInv, SizeInv
  <2>2. requests' \in Seq(Sized)
    BY <2>1, SizesPreserved
  <2>3. ASSUME ~failed' PROVE meta' = Bytes(disk')
    <3>1. ~failed /\ meta = Bytes(disk) /\ ChainOf(requests, disk)
      BY <2>1, <2>3, FailedStays DEF IInv, SizeInv, DataInv
    <3>2. CASE ServeRequest
      <4> DEFINE r == Head(requests)
      <4>1. requests # <<>>
        BY <3>2 DEF ServeRequest
      <4>2. r \in Sized
        BY <2>1, <4>1, Heads
      <4>3. Keeps(r, disk)
        BY <2>1, <3>1, <4>1, Serving DEF TypeOK
      <4>4. CASE r.op = "read"
        BY <3>1, <3>2, <4>4 DEF ServeRequest
      <4>5. CASE r.op = "write"
        <5>1. disk' = Written(r, disk) /\ meta' = r.size
          BY <3>2, <4>5 DEF ServeRequest
        <5>2. r.after = Written(r, disk) /\ r.size = Bytes(r.after)
          BY <4>2, <4>3, <4>5 DEF Keeps, Sized
        <5> QED
          BY <5>1, <5>2
      <4> QED
        BY <4>2, <4>4, <4>5, Requests DEF Sized
    <3>3. CASE ~ServeRequest
      <4>1. UNCHANGED <<disk, meta>>
        BY <3>3 DEF Next, vars, leveldb, OpenLocalStorage, OnConnectionError, PageCalls,
           OnMapLoaded, OnGotMigrationData, RunTask, StartCommitTimer, CommitTimerFires,
           OnCommitComplete, Flush, PurgeMemory, DeleteLocalStorage, DeleteStorage,
           FailRequest, ReadOldDatabase, DeleteOldDatabase, Crash
      <4> QED
        BY <3>1, <4>1
    <3> QED
      BY <3>2, <3>3
  <2> QED
    BY <2>2, <2>3 DEF SizeInv
<1>3. SizeInv => MetaMatchesData
  BY DEF SizeInv, MetaMatchesData
<1> QED
  BY <1>1, <1>2, <1>3, Invariance, PTL DEF Spec
-----------------------------------------------------------------------------
(* The quota. *)

AllWithin(q) == \A i \in 1..Len(q) : Within(q[i])

QuotaInv == ~failed => Within(Seen) /\ Within(disk) /\ AllWithin(Afters(requests))

\* A call takes no map out of the quota.
LEMMA CallsStayWithin ==
  ASSUME NEW c \in Call, NEW m \in Map, Within(m) PROVE Within(MapAfter(c, m))
<1>1. Bytes(Empty) = 0 /\ MaxSize \in Nat
  BY NoItemsNoBytes, KeyAssumption
<1>2. CASE Changes(c, m) /\ c.op = "set"
  <2>1. c.key \in Key /\ c.value \in Item
    BY <1>2 DEF Call, Item
  <2>2. Bytes(Assigned(c, m)) = Bytes(m) - ItemSize(m[c.key]) + ItemSize(c.value)
    BY <2>1, BytesUsed DEF Assigned
  <2>3. Fits(c, m)
    BY <1>2 DEF Changes
  <2>4. CASE ItemSize(c.value) > ItemSize(m[c.key])
    BY <1>2, <2>3, <2>4 DEF Fits, MapAfter, Within
  <2>5. CASE ~(ItemSize(c.value) > ItemSize(m[c.key]))
    <3>1. m[c.key] \in Item
      BY <2>1, Maps
    <3>2. /\ Bytes(m) \in Nat /\ Bytes(Old) \in Nat
          /\ ItemSize(c.value) \in Nat /\ ItemSize(m[c.key]) \in Nat
      BY <2>1, <3>1, BytesUsed, ItemSizes, OldAssumption
    <3>3. Bytes(Assigned(c, m)) <= Bytes(m) /\ Bytes(Assigned(c, m)) \in Int
      BY <2>2, <2>5, <3>2
    <3>4. Within(Assigned(c, m))
      BY <1>1, <3>2, <3>3 DEF Within
    <3> QED
      BY <1>2, <3>4 DEF MapAfter
  <2> QED
    BY <2>4, <2>5
<1>3. CASE Changes(c, m) /\ c.op # "set"
  BY <1>1, <1>3 DEF MapAfter, Within
<1>4. CASE ~Changes(c, m)
  BY <1>4 DEF MapAfter
<1> QED
  BY <1>2, <1>3, <1>4

LEMMA AppendedWithin ==
  ASSUME NEW q \in Seq(Map), NEW m \in Map, AllWithin(q), Within(m)
  PROVE  AllWithin(Append(q, m))
BY DEF AllWithin

LEMMA RestWithin ==
  ASSUME NEW q \in Seq(Map), q # <<>>, AllWithin(q)
  PROVE  Within(Head(q)) /\ AllWithin(Tail(q))
BY DEF AllWithin

\* What pages see and what is sent are maps.
LEMMA StoredMaps ==
  ASSUME TypeOK PROVE Seen \in Map /\ Afters(requests) \in Seq(Map)
<1>1. \A i \in 1..Len(requests) : requests[i].after \in Map
  BY Requests DEF TypeOK
<1>2. OnItsWay \in Map
  BY <1>1 DEF OnItsWay, TypeOK
<1> QED
  BY <1>1, <1>2 DEF Seen, Afters, TypeOK

(***************************************************************************)
(* That is so of every implementation of StoredMap: the quota needs no     *)
(* more of the wrapper than that its map changes by calls only.            *)
(***************************************************************************)
THEOREM QuotaIsKeptHolds == Spec => []QuotaIsKept
<1>1. Init => QuotaInv
  <2> SUFFICES ASSUME Init PROVE QuotaInv
    OBVIOUS
  <2>1. Seen = Empty /\ disk = Empty /\ Len(Afters(requests)) = 0
    BY DEF Init, Seen, OnItsWay, Afters
  <2>2. Within(Empty)
    BY NoItemsNoBytes, KeyAssumption DEF Within
  <2> QED
    BY <2>1, <2>2 DEF QuotaInv, AllWithin
<1>2. TypeOK /\ TypeOK' /\ QuotaInv /\ [Stored!Next]_(Stored!vars) => QuotaInv'
  <2> DEFINE sent == Afters(requests)
  <2> SUFFICES ASSUME TypeOK, QuotaInv, ~failed', [Stored!Next]_(Stored!vars)
               PROVE  Within(Seen') /\ Within(disk') /\ AllWithin(sent')
    BY Zenon DEF QuotaInv
  <2>1. disk \in Map /\ Seen \in Map /\ sent \in Seq(Map)
    BY StoredMaps DEF TypeOK
  <2>2. Within(Old)
    BY BytesType, OldAssumption DEF Within
  <2>a. ASSUME UNCHANGED failed PROVE Within(Seen) /\ Within(disk) /\ AllWithin(sent)
    BY <2>a DEF QuotaInv
  <2>3. ASSUME NEW c \in Call, Stored!CallMade(c) \/ Stored!CallMadeAndSent(c)
        PROVE  Within(Seen') /\ Within(disk') /\ AllWithin(sent')
    <3>1. /\ Seen' = MapAfter(c, Seen) /\ UNCHANGED <<disk, failed>>
          /\ sent' = sent \/ sent' = Append(sent, Seen')
      BY <2>3 DEF Stored!CallMade, Stored!CallMadeAndSent, Afters
    <3>2. Within(Seen') /\ Seen' \in Map
      BY <2>1, <2>a, <3>1, CallsStayWithin, CallChanges
    <3> QED
      BY <2>1, <2>a, <3>1, <3>2, AppendedWithin
  <2>4. CASE Stored!Send
    <3>1. UNCHANGED <<Seen, disk, failed>> /\ sent' = Append(sent, Seen)
      BY <2>4 DEF Stored!Send, Afters
    <3> QED
      BY <2>1, <2>a, <3>1, AppendedWithin
  <2>5. CASE Stored!Persist
    <3>1. /\ sent # <<>> /\ disk' = Head(sent) /\ sent' = Tail(sent)
          /\ UNCHANGED <<Seen, failed>>
      BY <2>5 DEF Stored!Persist, Afters
    <3> QED
      BY <2>1, <2>a, <3>1, RestWithin
  <2>6. CASE Stored!TakeOverOld
    <3>1. Seen' = Old /\ sent' = Append(sent, Old) /\ UNCHANGED <<disk, failed>>
      BY <2>6 DEF Stored!TakeOverOld, Afters
    <3> QED
      BY <2>1, <2>2, <2>a, <3>1, AppendedWithin, OldAssumption
  <2>7. CASE Stored!DeleteOld \/ UNCHANGED Stored!vars
    <3>1. UNCHANGED <<Seen, sent, disk, failed>>
      BY <2>7 DEF Stored!DeleteOld, Stored!vars, Afters
    <3> QED
      BY <2>a, <3>1
  <2>8. CASE Stored!Crash
    <3>1. Seen' = disk /\ sent' = <<>> /\ UNCHANGED <<disk, failed>>
      BY <2>8 DEF Stored!Crash, Afters
    <3> QED
      BY <2>a, <3>1 DEF AllWithin
  <2>9. ~Stored!Fail /\ ~Stored!Broken
    BY DEF Stored!Fail, Stored!Broken
  <2> QED
    BY <2>3, <2>4, <2>5, <2>6, <2>7, <2>8, <2>9 DEF Stored!Next
<1>3. QuotaInv => QuotaIsKept
  BY DEF QuotaInv, QuotaIsKept
<1>4. IInv => TypeOK
  BY DEF IInv
<1> QED
  BY <1>1, <1>2, <1>3, <1>4, Invariance, WrapperImplementsStoredMap, PTL
     DEF Spec, ImplementsStoredMap, Stored!Spec
=============================================================================
