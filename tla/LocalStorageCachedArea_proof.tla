-------------------- MODULE LocalStorageCachedArea_proof --------------------
(***************************************************************************)
(* Proofs about LocalStorageCachedArea: the answers that a renderer gets   *)
(* are those it expects, its pages read what they wrote, and its copy      *)
(* follows the browser's map.                                              *)
(***************************************************************************)
EXTENDS LocalStorageCachedArea, FiniteSetTheorems, TLAPS

-----------------------------------------------------------------------------
(* The invariant. *)

Reply == Event \cup Answer
Message == Request \cup Event \cup Answer

Hits(q, S) == {i \in 1..Len(q) : q[i] \in S}
Count(q, S) == Cardinality(Hits(q, S))

\* What Writes and Resets look for.
WriteMsg(k) ==
  {m \in Message : m.op \in {"set", "setDone"} /\ m.callback /\ m.key = k}
ResetMsg ==
  {m \in Message : /\ m.op \in {"clear", "clearDone", "getAll", "getAllDone"}
                   /\ m.callback}

(***************************************************************************)
(* The invariant of one renderer, with the copy a, the call c it waits     *)
(* for, the requests q and the inbox p.  A copy that is not there ignores  *)
(* nothing, unless it is being loaded, and to be loaded is the last thing  *)
(* that a renderer asks for; the rest is what the theorems say, for the    *)
(* two halves of the way.                                                  *)
(***************************************************************************)
CountInv(a, q, p) ==
  /\ \A k \in Key :
       a.ignored[k] = Count(p, WriteMsg(k)) + Count(q, WriteMsg(k))
  /\ Count(p, ResetMsg) + Count(q, ResetMsg) = IF a.ignoreAll THEN 1 ELSE 0

LoadInv(a, c, q) ==
  /\ ~a.loaded =>
       /\ \A k \in Key : a.ignored[k] = 0
       /\ ~a.lost
       /\ c = NoCall => ~a.ignoreAll
  /\ c # NoCall => ~a.loaded
  /\ \A i \in 1..Len(q) : q[i].op = "getAll" =>
       i = Len(q) /\ q[i].callback /\ c # NoCall

\* The last write of k in q, if there is one, is that of v.
LastIs(q, k, v) ==
  \A i \in Hits(q, WriteMsg(k)) :
    (\A j \in Hits(q, WriteMsg(k)) : j <= i) => q[i].value = v

OwnInv(a, q, p) ==
  ~a.lost => \A k \in Key :
    /\ LastIs(q, k, a.items[k])
    /\ Hits(q, WriteMsg(k)) = {} => LastIs(p, k, a.items[k])

Inv(a, c, q, p) == CountInv(a, q, p) /\ LoadInv(a, c, q) /\ OwnInv(a, q, p)

IInv ==
  TypeOK /\ \A r \in Renderer : Inv(area[r], calling[r], requests[r], inbox[r])

-----------------------------------------------------------------------------
(* Counting messages in a pipe. *)

LEMMA Counts ==
  ASSUME NEW M, NEW q \in Seq(M), NEW S
  PROVE  IsFiniteSet(Hits(q, S)) /\ Count(q, S) \in Nat
<1>1. IsFiniteSet(1..Len(q))
  BY FS_Interval
<1>2. IsFiniteSet(Hits(q, S))
  BY <1>1, FS_Subset DEF Hits
<1> QED
  BY <1>2, FS_CardinalityType DEF Count

LEMMA CountNone ==
  ASSUME NEW q, NEW S
  PROVE  Hits(q, S) = {} => Count(q, S) = 0
BY FS_EmptySet DEF Count

LEMMA CountZero ==
  ASSUME NEW M, NEW q \in Seq(M), NEW S
  PROVE  Count(q, S) = 0 <=> Hits(q, S) = {}
BY Counts, FS_EmptySet DEF Count

LEMMA CountAppend ==
  ASSUME NEW M, NEW q \in Seq(M), NEW e \in M, NEW S
  PROVE  Count(Append(q, e), S) = Count(q, S) + IF e \in S THEN 1 ELSE 0
<1> DEFINE Q == Append(q, e)
           n == Len(q) + 1
<1>1. /\ Len(Q) = n /\ n \in Nat /\ Q[n] = e /\ Len(q) \in Nat
      /\ \A i \in 1..Len(q) : Q[i] = q[i]
  OBVIOUS
<1> HIDE DEF Q
<1>2. CASE e \in S
  <2>1. Hits(Q, S) = Hits(q, S) \cup {n} /\ n \notin Hits(q, S)
    BY <1>1, <1>2 DEF Hits
  <2> QED
    BY <1>2, <2>1, Counts, FS_AddElement DEF Count, Q
<1>3. CASE e \notin S
  <2>1. Hits(Q, S) = Hits(q, S)
    BY <1>1, <1>3 DEF Hits
  <2> QED
    BY <1>3, <2>1, Counts DEF Count, Q
<1> QED
  BY <1>2, <1>3

\* The messages of q, n places on.
Shifted(T, n) == {i + n : i \in T}

LEMMA Shift ==
  ASSUME NEW T \in SUBSET Nat, IsFiniteSet(T), NEW n \in Nat
  PROVE  IsFiniteSet(Shifted(T, n)) /\ Cardinality(Shifted(T, n)) = Cardinality(T)
<1> DEFINE f == [i \in T |-> i + n]
<1>1. f \in Bijection(T, Shifted(T, n))
  <2>1. f \in [T -> Shifted(T, n)]
    BY DEF Shifted
  <2>2. \A i, j \in T : f[i] = f[j] => i = j
    OBVIOUS
  <2>3. \A j \in Shifted(T, n) : \E i \in T : f[i] = j
    BY DEF Shifted
  <2> HIDE DEF f
  <2>4. f \in Injection(T, Shifted(T, n))
    BY <2>1, <2>2 DEF Injection, IsInjective
  <2>5. f \in Surjection(T, Shifted(T, n))
    BY <2>1, <2>3 DEF Surjection
  <2> QED
    BY <2>4, <2>5 DEF Bijection
<1>2. ExistsBijection(T, Shifted(T, n))
  BY <1>1 DEF ExistsBijection
<1> QED
  BY <1>2, FS_Bijection

LEMMA CountConcat ==
  ASSUME NEW M, NEW p \in Seq(M), NEW q \in Seq(M), NEW S
  PROVE  Count(p \o q, S) = Count(p, S) + Count(q, S)
<1> DEFINE Q == p \o q
<1>1. /\ Len(Q) = Len(p) + Len(q) /\ Len(p) \in Nat /\ Len(q) \in Nat
      /\ \A i \in 1..Len(p) : Q[i] = p[i]
      /\ \A i \in 1..Len(q) : Q[i + Len(p)] = q[i]
  OBVIOUS
<1> HIDE DEF Q
<1>2. Hits(Q, S) = Hits(p, S) \cup Shifted(Hits(q, S), Len(p))
  <2>1. ASSUME NEW i \in Hits(Q, S)
        PROVE  i \in Hits(p, S) \cup Shifted(Hits(q, S), Len(p))
    <3>1. CASE i \in 1..Len(p)
      BY <1>1, <2>1, <3>1 DEF Hits
    <3>2. CASE i \notin 1..Len(p)
      <4> DEFINE j == i - Len(p)
      <4>1. j \in 1..Len(q) /\ i = j + Len(p)
        BY <1>1, <2>1, <3>2 DEF Hits
      <4> HIDE DEF j
      <4>2. j \in Hits(q, S)
        BY <1>1, <2>1, <4>1 DEF Hits
      <4> QED
        BY <4>1, <4>2 DEF Shifted
    <3> QED
      BY <3>1, <3>2
  <2>2. Hits(p, S) \subseteq Hits(Q, S)
    BY <1>1 DEF Hits
  <2>3. Shifted(Hits(q, S), Len(p)) \subseteq Hits(Q, S)
    BY <1>1 DEF Hits, Shifted
  <2> QED
    BY <2>1, <2>2, <2>3
<1>3. Hits(p, S) \cap Shifted(Hits(q, S), Len(p)) = {}
  BY <1>1 DEF Hits, Shifted
<1>4. Hits(q, S) \in SUBSET Nat
  BY <1>1 DEF Hits
<1>5. /\ IsFiniteSet(Shifted(Hits(q, S), Len(p)))
      /\ Cardinality(Shifted(Hits(q, S), Len(p))) = Count(q, S)
  BY <1>1, <1>4, Counts, Shift DEF Count
<1>6. Cardinality(Hits(Q, S)) =
        Cardinality(Hits(p, S)) + Cardinality(Shifted(Hits(q, S), Len(p)))
        - Cardinality(Hits(p, S) \cap Shifted(Hits(q, S), Len(p)))
  BY <1>2, <1>5, Counts, FS_Union
<1>7. /\ Cardinality(Hits(Q, S)) = Count(p \o q, S)
      /\ Cardinality(Hits(p, S)) = Count(p, S)
  BY DEF Count, Q
<1>8. Cardinality(Hits(p, S) \cap Shifted(Hits(q, S), Len(p))) = 0
  BY <1>3, FS_EmptySet
<1>9. Count(p, S) \in Nat /\ Count(q, S) \in Nat
  BY Counts
<1> QED
  BY <1>5, <1>6, <1>7, <1>8, <1>9

LEMMA CountTail ==
  ASSUME NEW M, NEW q \in Seq(M), q # <<>>, NEW S
  PROVE  Count(Tail(q), S) = Count(q, S) - IF Head(q) \in S THEN 1 ELSE 0
<1>1. /\ <<Head(q)>> \in Seq(M) /\ Tail(q) \in Seq(M) /\ Head(q) \in M
      /\ <<>> \in Seq(M)
  OBVIOUS
<1>2. q = <<Head(q)>> \o Tail(q)
  OBVIOUS
<1>3. Count(q, S) = Count(<<Head(q)>>, S) + Count(Tail(q), S)
  BY <1>1, <1>2, CountConcat
<1>4. <<Head(q)>> = Append(<<>>, Head(q))
  OBVIOUS
<1>5. Count(<<>>, S) = 0
  BY CountNone DEF Hits
<1>6. Count(<<Head(q)>>, S) = IF Head(q) \in S THEN 1 ELSE 0
  <2>1. Count(Append(<<>>, Head(q)), S) = Count(<<>>, S) + IF Head(q) \in S THEN 1 ELSE 0
    BY <1>1, CountAppend
  <2> QED
    BY <1>4, <1>5, <2>1
<1>7. Count(q, S) \in Nat /\ Count(Tail(q), S) \in Nat
  BY <1>1, Counts
<1> QED
  BY <1>3, <1>6, <1>7
-----------------------------------------------------------------------------
(* Messages. *)

Item == Value \cup {Absent}

LEMMA RequestFacts ==
  ASSUME NEW m \in Request
  PROVE  /\ m \in Message /\ m.callback \in BOOLEAN
         /\ m.op \in {"set", "clear", "getAll"}
         /\ m.op = "set" => m.key \in Key /\ m.value \in Item
         /\ \A k \in Key : m \in WriteMsg(k) <=> m.op = "set" /\ m.callback /\ m.key = k
         /\ m \in ResetMsg <=> m.op \in {"clear", "getAll"} /\ m.callback
         /\ [m EXCEPT !.callback = FALSE] \in Request
<1>1. m \in Message
  BY DEF Message
<1>2. m.op \in {"set", "clear", "getAll"} /\ m.callback \in BOOLEAN
  BY DEF Request
<1>3. m.op = "set" => m.key \in Key /\ m.value \in Item
  BY DEF Request, Item
<1>4. [m EXCEPT !.callback = FALSE] \in Request
  BY DEF Request
<1> QED
  BY <1>1, <1>2, <1>3, <1>4 DEF WriteMsg, ResetMsg

LEMMA ReplyFacts ==
  ASSUME NEW m \in Reply
  PROVE  /\ m \in Message /\ m.callback \in BOOLEAN /\ m.at \in Nat
         /\ m.op \in {"changed", "cleared", "setDone", "clearDone", "getAllDone"}
         /\ m.op \in {"changed", "setDone"} => m.key \in Key /\ m.value \in Item
         /\ m.op \in {"changed", "cleared"} => ~m.callback /\ m \in Event
         /\ m.op = "setDone" => m.ok \in BOOLEAN
         /\ \A k \in Key :
              m \in WriteMsg(k) <=> m.op = "setDone" /\ m.callback /\ m.key = k
         /\ m \in ResetMsg <=> m.op \in {"clearDone", "getAllDone"} /\ m.callback
         /\ [m EXCEPT !.callback = FALSE] \in Reply
<1>1. m \in Message
  BY DEF Message, Reply
<1>2. /\ m.op \in {"changed", "cleared", "setDone", "clearDone", "getAllDone"}
      /\ m.callback \in BOOLEAN /\ m.at \in Nat
  BY DEF Reply, Event, Answer, Stamp
<1>3. m.op \in {"changed", "setDone"} => m.key \in Key /\ m.value \in Item
  BY DEF Reply, Event, Answer, Item
<1>4. m.op \in {"changed", "cleared"} => ~m.callback /\ m \in Event
  BY DEF Reply, Event, Answer
<1>5. [m EXCEPT !.callback = FALSE] \in Reply
  BY DEF Reply, Event, Answer
<1>6. m.op = "setDone" => m.ok \in BOOLEAN
  BY DEF Reply, Event, Answer
<1> QED
  BY <1>1, <1>2, <1>3, <1>4, <1>5, <1>6 DEF WriteMsg, ResetMsg

\* A set of messages that has those with a callback only.
LEMMA OrphanedHits ==
  ASSUME NEW M, \A m \in M : [m EXCEPT !.callback = FALSE] \in M,
         NEW q \in Seq(M)
  PROVE  /\ Orphaned(q) \in Seq(M) /\ Len(Orphaned(q)) = Len(q)
         /\ \A i \in 1..Len(q) : Orphaned(q)[i] = [q[i] EXCEPT !.callback = FALSE]
BY DEF Orphaned

LEMMA OrphanedRequests ==
  ASSUME NEW q \in Seq(Request)
  PROVE  /\ Orphaned(q) \in Seq(Request)
         /\ \A k \in Key : Hits(Orphaned(q), WriteMsg(k)) = {}
         /\ Hits(Orphaned(q), ResetMsg) = {}
         /\ Len(Orphaned(q)) = Len(q)
         /\ \A i \in 1..Len(q) : Orphaned(q)[i].op = q[i].op
<1>1. /\ Orphaned(q) \in Seq(Request) /\ Len(Orphaned(q)) = Len(q)
      /\ \A i \in 1..Len(q) : Orphaned(q)[i] = [q[i] EXCEPT !.callback = FALSE]
  BY OrphanedHits, RequestFacts
<1>2. ASSUME NEW i \in 1..Len(q)
      PROVE  ~Orphaned(q)[i].callback /\ Orphaned(q)[i].op = q[i].op
  <2>1. q[i] \in Request
    OBVIOUS
  <2> QED
    BY <1>1, <2>1 DEF Request
<1> QED
  BY <1>1, <1>2 DEF Hits, WriteMsg, ResetMsg

LEMMA OrphanedReplies ==
  ASSUME NEW q \in Seq(Reply)
  PROVE  /\ Orphaned(q) \in Seq(Reply)
         /\ \A k \in Key : Hits(Orphaned(q), WriteMsg(k)) = {}
         /\ Hits(Orphaned(q), ResetMsg) = {}
<1>1. /\ Orphaned(q) \in Seq(Reply) /\ Len(Orphaned(q)) = Len(q)
      /\ \A i \in 1..Len(q) : Orphaned(q)[i] = [q[i] EXCEPT !.callback = FALSE]
  BY OrphanedHits, ReplyFacts
<1>2. ASSUME NEW i \in 1..Len(q) PROVE ~Orphaned(q)[i].callback
  <2>1. q[i] \in Reply
    OBVIOUS
  <2> QED
    BY <1>1, <2>1 DEF Reply, Event, Answer
<1> QED
  BY <1>1, <1>2 DEF Hits, WriteMsg, ResetMsg

-----------------------------------------------------------------------------
(* The last write of a key. *)

LEMMA LastOfNone ==
  ASSUME NEW q, NEW k, NEW v, Hits(q, WriteMsg(k)) = {} PROVE LastIs(q, k, v)
BY DEF LastIs

LEMMA LastAppended ==
  ASSUME NEW M, NEW q \in Seq(M), NEW e \in M, NEW k, NEW v
  PROVE  /\ e \in WriteMsg(k) => (LastIs(Append(q, e), k, v) <=> e.value = v)
         /\ e \notin WriteMsg(k) => (LastIs(Append(q, e), k, v) <=> LastIs(q, k, v))
         /\ Hits(Append(q, e), WriteMsg(k)) = {} <=>
              Hits(q, WriteMsg(k)) = {} /\ e \notin WriteMsg(k)
<1> DEFINE Q == Append(q, e)
           n == Len(q) + 1
           W == WriteMsg(k)
<1>1. /\ Len(Q) = n /\ n \in Nat /\ Q[n] = e /\ Len(q) \in Nat
      /\ \A i \in 1..Len(q) : Q[i] = q[i]
  OBVIOUS
<1> HIDE DEF Q, W
<1>2. CASE e \in W
  <2>1. n \in Hits(Q, W) /\ \A i \in Hits(Q, W) : i <= n
    BY <1>1, <1>2 DEF Hits
  <2>2. LastIs(Q, k, v) <=> e.value = v
    <3>1. ASSUME NEW i \in Hits(Q, W), \A j \in Hits(Q, W) : j <= i PROVE i = n
      BY <1>1, <2>1, <3>1 DEF Hits
    <3> QED
      BY <1>1, <2>1, <3>1 DEF LastIs, W
  <2> QED
    BY <1>2, <2>1, <2>2 DEF Q, W
<1>3. CASE e \notin W
  <2>1. Hits(Q, W) = Hits(q, W)
    BY <1>1, <1>3 DEF Hits
  <2>2. \A i \in Hits(q, W) : Q[i] = q[i]
    BY <1>1 DEF Hits
  <2> QED
    BY <1>3, <2>1, <2>2 DEF LastIs, Q, W
<1> QED
  BY <1>2, <1>3 DEF W

LEMMA LastOfTail ==
  ASSUME NEW M, NEW q \in Seq(M), q # <<>>, NEW k, NEW v, LastIs(q, k, v)
  PROVE  /\ LastIs(Tail(q), k, v)
         /\ Hits(Tail(q), WriteMsg(k)) = {} /\ Head(q) \in WriteMsg(k) => Head(q).value = v
         /\ Hits(q, WriteMsg(k)) = {} <=>
              Hits(Tail(q), WriteMsg(k)) = {} /\ Head(q) \notin WriteMsg(k)
<1> DEFINE Q == Tail(q)
           W == WriteMsg(k)
<1>1. /\ Len(q) \in Nat /\ Len(q) > 0 /\ Len(Q) = Len(q) - 1 /\ Head(q) = q[1]
      /\ \A i \in 1..Len(Q) : Q[i] = q[i + 1]
  OBVIOUS
<1> HIDE DEF Q, W
<1>2. \A i \in Hits(Q, W) : i + 1 \in Hits(q, W) /\ i \in Nat
  BY <1>1 DEF Hits
<1>3. ASSUME NEW j \in Hits(q, W), j # 1
      PROVE  j \in Int /\ j - 1 \in Hits(Q, W)
  <2>1. j - 1 \in 1..Len(Q) /\ j - 1 + 1 = j
    BY <1>1, <1>3 DEF Hits
  <2> QED
    BY <1>1, <1>3, <2>1 DEF Hits
<1>4. LastIs(Q, k, v)
  <2> SUFFICES ASSUME NEW i \in Hits(Q, W), \A j \in Hits(Q, W) : j <= i
               PROVE  Q[i].value = v
    BY DEF LastIs, W
  <2>1. \A j \in Hits(q, W) : j <= i + 1
    <3> SUFFICES ASSUME NEW j \in Hits(q, W), j # 1 PROVE j <= i + 1
      BY <1>2
    <3>1. j \in Int /\ j - 1 <= i /\ i \in Nat
      BY <1>2, <1>3
    <3> QED
      BY <3>1
  <2>2. i + 1 \in Hits(q, W) /\ Q[i] = q[i + 1]
    BY <1>1, <1>2 DEF Hits
  <2> QED
    BY <2>1, <2>2 DEF LastIs, W
<1>5. 1 \in Hits(q, W) <=> Head(q) \in W
  BY <1>1 DEF Hits
<1>6. Hits(q, W) = {} <=> Hits(Q, W) = {} /\ Head(q) \notin W
  BY <1>2, <1>3, <1>5
<1>7. Hits(Q, W) = {} /\ Head(q) \in W => Head(q).value = v
  BY <1>1, <1>3, <1>5 DEF LastIs, W
<1> QED
  BY <1>4, <1>6, <1>7 DEF Q, W
-----------------------------------------------------------------------------
(* What comes to a renderer. *)

Waiting == Call \cup {NoCall}

LEMMA AreaFacts ==
  ASSUME NEW a \in Area
  PROVE  /\ a.items \in Map /\ a.ignored \in [Key -> Nat]
         /\ a.loaded \in BOOLEAN /\ a.ignoreAll \in BOOLEAN /\ a.lost \in BOOLEAN
BY DEF Area

LEMMA EmptyArea ==
  /\ Empty \in Map /\ NoItems \in Area /\ NoItems.items = Empty
  /\ ~NoItems.loaded /\ ~NoItems.ignoreAll /\ ~NoItems.lost
  /\ \A k \in Key : NoItems.ignored[k] = 0
BY DEF Empty, Map, NoItems, Area

\* Of the events of others nothing is expected.
LEMMA EventComes ==
  ASSUME NEW a \in Area, NEW c \in Waiting, NEW q \in Seq(Request), NEW p \in Seq(Reply),
         NEW e \in Reply, e.op \in {"changed", "cleared"}, Inv(a, c, q, p)
  PROVE  Inv(a, c, q, Append(p, e))
<1>1. e \notin ResetMsg /\ \A k \in Key : e \notin WriteMsg(k)
  BY ReplyFacts
<1>2. /\ Count(Append(p, e), ResetMsg) = Count(p, ResetMsg)
      /\ \A k \in Key : Count(Append(p, e), WriteMsg(k)) = Count(p, WriteMsg(k))
  BY <1>1, CountAppend, Counts
<1>3. \A k \in Key : LastIs(Append(p, e), k, a.items[k]) <=> LastIs(p, k, a.items[k])
  BY <1>1, LastAppended
<1> QED
  BY <1>2, <1>3 DEF Inv, CountInv, OwnInv

\* What has no callback is taken without effect.
LEMMA ReplyDropped ==
  ASSUME NEW a \in Area, NEW c \in Waiting, NEW q \in Seq(Request), NEW p \in Seq(Reply),
         p # <<>>, ~Head(p).callback, Inv(a, c, q, p)
  PROVE  Inv(a, c, q, Tail(p))
<1>1. Head(p) \in Reply
  OBVIOUS
<1>2. Head(p) \notin ResetMsg /\ \A k \in Key : Head(p) \notin WriteMsg(k)
  BY <1>1, ReplyFacts
<1>3. Tail(p) \in Seq(Reply)
  OBVIOUS
<1>4. /\ Count(Tail(p), ResetMsg) = Count(p, ResetMsg)
      /\ \A k \in Key : Count(Tail(p), WriteMsg(k)) = Count(p, WriteMsg(k))
  BY <1>2, <1>3, CountTail, Counts
<1>5. \A k \in Key : LastIs(p, k, a.items[k]) => LastIs(Tail(p), k, a.items[k])
  BY LastOfTail
<1> QED
  BY <1>4, <1>5 DEF Inv, CountInv, OwnInv

\* An event changes no item that has an answer to come.
LEMMA EventChanges ==
  ASSUME NEW a \in Area, NEW b \in Area, NEW c \in Waiting,
         NEW q \in Seq(Request), NEW p \in Seq(Reply), Inv(a, c, q, p),
         b.ignored = a.ignored, b.loaded = a.loaded, b.ignoreAll = a.ignoreAll,
         a.loaded, a.lost => b.lost,
         ~b.lost => \A k \in Key : a.ignored[k] > 0 => b.items[k] = a.items[k]
  PROVE  Inv(b, c, q, p)
<1>1. CountInv(b, q, p) /\ LoadInv(b, c, q)
  BY DEF Inv, CountInv, LoadInv
<1>2. ASSUME ~b.lost, NEW k \in Key
      PROVE  /\ LastIs(q, k, b.items[k])
             /\ Hits(q, WriteMsg(k)) = {} => LastIs(p, k, b.items[k])
  <2>1. CASE a.ignored[k] > 0
    BY <1>2, <2>1 DEF Inv, OwnInv
  <2>2. CASE ~(a.ignored[k] > 0)
    <3>1. a.ignored[k] = Count(p, WriteMsg(k)) + Count(q, WriteMsg(k))
      BY DEF Inv, CountInv
    <3>2. Count(p, WriteMsg(k)) \in Nat /\ Count(q, WriteMsg(k)) \in Nat
      BY Counts
    <3>3. Count(p, WriteMsg(k)) = 0 /\ Count(q, WriteMsg(k)) = 0
      BY <2>2, <3>1, <3>2
    <3>4. Hits(p, WriteMsg(k)) = {} /\ Hits(q, WriteMsg(k)) = {}
      BY <3>3, CountZero
    <3> QED
      BY <3>4, LastOfNone
  <2> QED
    BY <2>1, <2>2
<1> QED
  BY <1>1, <1>2 DEF Inv, OwnInv

\* After the answer to a write there is one less to come.
LEMMA WriteDone ==
  ASSUME NEW a \in Area, NEW c \in Waiting, NEW q \in Seq(Request), NEW p \in Seq(Reply),
         p # <<>>, Head(p).op = "setDone", Head(p).callback, Inv(a, c, q, p)
  PROVE  LET b == [a EXCEPT !.ignored[Head(p).key] = @ - 1]
         IN  b \in Area /\ Inv(b, c, q, Tail(p))
<1> DEFINE e == Head(p)
           b == [a EXCEPT !.ignored[e.key] = @ - 1]
<1>1. e \in Reply /\ Tail(p) \in Seq(Reply)
  OBVIOUS
<1>2. /\ e.key \in Key /\ e \notin ResetMsg
      /\ \A k \in Key : e \in WriteMsg(k) <=> k = e.key
  BY <1>1, ReplyFacts
<1>3. \A k \in Key :
        /\ Count(Tail(p), WriteMsg(k)) = Count(p, WriteMsg(k)) - IF k = e.key THEN 1 ELSE 0
        /\ Count(Tail(p), WriteMsg(k)) \in Nat /\ Count(p, WriteMsg(k)) \in Nat
        /\ Count(q, WriteMsg(k)) \in Nat
  BY <1>1, <1>2, CountTail, Counts
<1>4. Count(Tail(p), ResetMsg) = Count(p, ResetMsg)
  BY <1>1, <1>2, CountTail, Counts
<1>5. \A k \in Key : a.ignored[k] = Count(p, WriteMsg(k)) + Count(q, WriteMsg(k))
  BY DEF Inv, CountInv
<1>6. a.ignored[e.key] > 0 /\ a.ignored[e.key] \in Nat
  BY <1>2, <1>3, <1>5, AreaFacts
<1>7. a.loaded
  BY <1>2, <1>6 DEF Inv, LoadInv
<1>8. /\ b \in Area /\ b.loaded /\ b.items = a.items
      /\ b.ignoreAll = a.ignoreAll /\ b.lost = a.lost
      /\ \A k \in Key : b.ignored[k] = a.ignored[k] - IF k = e.key THEN 1 ELSE 0
  <2> DEFINE ign == [a.ignored EXCEPT ![e.key] = @ - 1]
  <2>1. b = [a EXCEPT !.ignored = ign]
    BY DEF Area
  <2>2. ign \in [Key -> Nat]
    BY <1>2, <1>6, AreaFacts
  <2>3. \A k \in Key : ign[k] = a.ignored[k] - IF k = e.key THEN 1 ELSE 0
    BY <1>2, AreaFacts
  <2> HIDE DEF ign, b
  <2> QED
    BY <1>7, <2>1, <2>2, <2>3 DEF Area
<1> HIDE DEF b, e
<1>9. CountInv(b, q, Tail(p))
  BY <1>3, <1>4, <1>5, <1>8 DEF Inv, CountInv
<1>10. LoadInv(b, c, q)
  BY <1>7, <1>8 DEF Inv, LoadInv
<1>11. OwnInv(b, q, Tail(p))
  BY <1>8, LastOfTail DEF Inv, OwnInv
<1> QED
  BY <1>8, <1>9, <1>10, <1>11 DEF Inv, b, e

LEMMA ResetDone ==
  ASSUME NEW a \in Area, NEW c \in Waiting, NEW q \in Seq(Request), NEW p \in Seq(Reply),
         p # <<>>, Head(p).op \in {"clearDone", "getAllDone"}, Head(p).callback,
         Inv(a, c, q, p)
  PROVE  LET b == [a EXCEPT !.ignoreAll = FALSE]
         IN  b \in Area /\ Inv(b, c, q, Tail(p))
<1> DEFINE e == Head(p)
           b == [a EXCEPT !.ignoreAll = FALSE]
<1>1. e \in Reply /\ Tail(p) \in Seq(Reply)
  OBVIOUS
<1>2. e \in ResetMsg /\ \A k \in Key : e \notin WriteMsg(k)
  BY <1>1, ReplyFacts
<1>3. \A k \in Key : Count(Tail(p), WriteMsg(k)) = Count(p, WriteMsg(k))
  BY <1>1, <1>2, CountTail, Counts
<1>4. /\ Count(Tail(p), ResetMsg) = Count(p, ResetMsg) - 1
      /\ Count(Tail(p), ResetMsg) \in Nat /\ Count(p, ResetMsg) \in Nat
      /\ Count(q, ResetMsg) \in Nat
  BY <1>1, <1>2, CountTail, Counts
<1>5. /\ b \in Area /\ b.loaded = a.loaded /\ b.items = a.items
      /\ ~b.ignoreAll /\ b.lost = a.lost /\ b.ignored = a.ignored
  BY DEF Area
<1> HIDE DEF b, e
<1>6. Count(p, ResetMsg) + Count(q, ResetMsg) = IF a.ignoreAll THEN 1 ELSE 0
  BY DEF Inv, CountInv
<1>7. Count(Tail(p), ResetMsg) + Count(q, ResetMsg) = 0
  BY <1>4, <1>6
<1>8. CountInv(b, q, Tail(p))
  BY <1>3, <1>5, <1>7 DEF Inv, CountInv
<1>9. LoadInv(b, c, q)
  BY <1>5 DEF Inv, LoadInv
<1>10. OwnInv(b, q, Tail(p))
  BY <1>5, LastOfTail DEF Inv, OwnInv
<1> QED
  BY <1>5, <1>8, <1>9, <1>10 DEF Inv, b, e

\* After a refusal the renderer expects nothing.
LEMMA WriteRefused ==
  ASSUME NEW a \in Area, NEW q \in Seq(Request), NEW p \in Seq(Reply),
         Inv(a, NoCall, q, p)
  PROVE  Inv(NoItems, NoCall, Orphaned(q), Orphaned(p))
<1>1. /\ \A k \in Key : Hits(Orphaned(q), WriteMsg(k)) = {} /\ Hits(Orphaned(p), WriteMsg(k)) = {}
      /\ Hits(Orphaned(q), ResetMsg) = {} /\ Hits(Orphaned(p), ResetMsg) = {}
  BY OrphanedRequests, OrphanedReplies
<1>2. CountInv(NoItems, Orphaned(q), Orphaned(p))
  BY <1>1, CountNone, EmptyArea DEF CountInv
<1>3. LoadInv(NoItems, NoCall, Orphaned(q))
  BY OrphanedRequests, EmptyArea DEF Inv, LoadInv
<1>4. OwnInv(NoItems, Orphaned(q), Orphaned(p))
  BY <1>1, LastOfNone DEF OwnInv
<1> QED
  BY <1>2, <1>3, <1>4 DEF Inv
-----------------------------------------------------------------------------
(* What a renderer sends. *)

LEMMA CallFacts ==
  ASSUME NEW c \in Call
  PROVE  /\ c.op \in {"set", "clear", "get"}
         /\ c.op = "set" => c.key \in Key /\ c.value \in Item
BY DEF Call, Item

LEMMA WriteFacts ==
  ASSUME NEW a \in Area, NEW d \in Waiting, Stores(d, a.items)
  PROVE  LET m == [op |-> "set", key |-> d.key, value |-> d.value, callback |-> TRUE]
             b == AreaAfter(d, a)
         IN  /\ d.key \in Key /\ m \in Request
             /\ m \notin ResetMsg /\ \A k \in Key : m \in WriteMsg(k) <=> k = d.key
             /\ b \in Area /\ b.loaded = a.loaded
             /\ b.ignoreAll = a.ignoreAll /\ b.lost = a.lost
             /\ \A k \in Key : b.ignored[k] = a.ignored[k] + IF k = d.key THEN 1 ELSE 0
             /\ \A k \in Key : b.items[k] = IF k = d.key THEN d.value ELSE a.items[k]
<1> DEFINE m == [op |-> "set", key |-> d.key, value |-> d.value, callback |-> TRUE]
           b == AreaAfter(d, a)
           ign == [a.ignored EXCEPT ![d.key] = @ + 1]
           its == [a.items EXCEPT ![d.key] = d.value]
<1>1. d.op = "set" /\ d \in Call
  BY DEF Stores, Waiting, NoCall
<1>2. d.key \in Key /\ d.value \in Item
  BY <1>1, CallFacts
<1>3. m \in Request
  BY <1>2 DEF Request, Item
<1>4. m \notin ResetMsg /\ \A k \in Key : m \in WriteMsg(k) <=> k = d.key
  BY <1>3, RequestFacts
<1>5. b = [a EXCEPT !.items = its, !.ignored = ign]
  BY DEF AreaAfter, Area
<1>6. ign \in [Key -> Nat]
  <2>1. a.ignored[d.key] + 1 \in Nat
    BY <1>2, AreaFacts
  <2> QED
    BY <1>2, <2>1, AreaFacts
<1>7. its \in Map
  BY <1>2, AreaFacts DEF Map, Item
<1>8. \A k \in Key : ign[k] = a.ignored[k] + IF k = d.key THEN 1 ELSE 0
  BY <1>2, AreaFacts
<1>9. \A k \in Key : its[k] = IF k = d.key THEN d.value ELSE a.items[k]
  BY <1>2, AreaFacts DEF Map
<1> HIDE DEF ign, its, b
<1>10. /\ b \in Area /\ b.loaded = a.loaded
       /\ b.ignoreAll = a.ignoreAll /\ b.lost = a.lost
       /\ b.items = its /\ b.ignored = ign
  BY <1>5, <1>6, <1>7 DEF Area
<1> QED
  BY <1>2, <1>3, <1>4, <1>8, <1>9, <1>10 DEF b

LEMMA WriteSent ==
  ASSUME NEW a \in Area, NEW c \in Waiting, NEW q \in Seq(Request), NEW p \in Seq(Reply),
         NEW d \in Waiting, Inv(a, c, q, p), a.loaded
  PROVE  AreaAfter(d, a) \in Area /\ Inv(AreaAfter(d, a), c, q \o Sends(d, a), p)
         /\ q \o Sends(d, a) \in Seq(Request)
<1>1. CASE ~Stores(d, a.items)
  <2>1. AreaAfter(d, a) = a /\ q \o Sends(d, a) = q
    BY <1>1 DEF AreaAfter, Sends
  <2> QED
    BY <2>1
<1>2. CASE Stores(d, a.items)
  <2> DEFINE m == [op |-> "set", key |-> d.key, value |-> d.value, callback |-> TRUE]
             b == AreaAfter(d, a)
  <2>1. d.key \in Key /\ m \in Request
    BY <1>2, WriteFacts
  <2>4. m \notin ResetMsg /\ \A k \in Key : m \in WriteMsg(k) <=> k = d.key
    BY <1>2, WriteFacts
  <2>5. q \o Sends(d, a) = Append(q, m)
    BY <1>2 DEF Sends
  <2>6. /\ b \in Area /\ b.loaded = a.loaded
        /\ b.ignoreAll = a.ignoreAll /\ b.lost = a.lost
        /\ \A k \in Key : b.ignored[k] = a.ignored[k] + IF k = d.key THEN 1 ELSE 0
        /\ \A k \in Key : b.items[k] = IF k = d.key THEN d.value ELSE a.items[k]
    BY <1>2, WriteFacts
  <2> HIDE DEF b
  <2>7. \A k \in Key :
          /\ Count(Append(q, m), WriteMsg(k)) = Count(q, WriteMsg(k)) + IF k = d.key THEN 1 ELSE 0
          /\ Count(q, WriteMsg(k)) \in Nat /\ Count(p, WriteMsg(k)) \in Nat
    <3>1. \A k \in Key : Count(Append(q, m), WriteMsg(k)) =
                           Count(q, WriteMsg(k)) + IF m \in WriteMsg(k) THEN 1 ELSE 0
      BY <2>1, CountAppend
    <3> QED
      BY <2>4, <3>1, Counts
  <2>8. Count(Append(q, m), ResetMsg) = Count(q, ResetMsg)
    <3>1. Count(Append(q, m), ResetMsg) = Count(q, ResetMsg) + 0
      BY <2>1, <2>4, CountAppend
    <3> QED
      BY <3>1, Counts
  <2>9. CountInv(b, Append(q, m), p)
    <3>1. ASSUME NEW k \in Key
          PROVE  b.ignored[k] = Count(p, WriteMsg(k)) + Count(Append(q, m), WriteMsg(k))
      <4>1. a.ignored[k] = Count(p, WriteMsg(k)) + Count(q, WriteMsg(k))
        BY DEF Inv, CountInv
      <4> DEFINE one == IF k = d.key THEN 1 ELSE 0
      <4>2. /\ b.ignored[k] = a.ignored[k] + one /\ one \in Nat
            /\ Count(Append(q, m), WriteMsg(k)) = Count(q, WriteMsg(k)) + one
            /\ Count(q, WriteMsg(k)) \in Nat /\ Count(p, WriteMsg(k)) \in Nat
        BY <2>6, <2>7
      <4> HIDE DEF one
      <4> QED
        BY <4>1, <4>2
    <3>2. Count(p, ResetMsg) + Count(q, ResetMsg) = IF a.ignoreAll THEN 1 ELSE 0
      BY DEF Inv, CountInv
    <3> QED
      BY <2>6, <2>8, <3>1, <3>2 DEF CountInv
  <2>10. LoadInv(b, c, Append(q, m))
    <3>1. \A i \in 1..Len(q) : q[i].op # "getAll"
      BY DEF Inv, LoadInv
    <3>2. \A i \in 1..Len(Append(q, m)) : Append(q, m)[i].op # "getAll"
      BY <2>1, <3>1
    <3> QED
      BY <2>6, <3>2 DEF Inv, LoadInv
  <2>11. ASSUME ~b.lost, NEW k \in Key
         PROVE  /\ LastIs(Append(q, m), k, b.items[k])
                /\ Hits(Append(q, m), WriteMsg(k)) = {} => LastIs(p, k, b.items[k])
    <3>1. /\ m \in WriteMsg(k) => (LastIs(Append(q, m), k, b.items[k]) <=> m.value = b.items[k])
          /\ m \notin WriteMsg(k) => (LastIs(Append(q, m), k, b.items[k]) <=> LastIs(q, k, b.items[k]))
      BY <2>1, LastAppended
    <3>2. Hits(Append(q, m), WriteMsg(k)) = {} =>
            Hits(q, WriteMsg(k)) = {} /\ m \notin WriteMsg(k)
      BY <2>1, LastAppended
    <3>3. ~a.lost
      BY <2>6, <2>11, Zenon
    <3>4. /\ LastIs(q, k, a.items[k])
          /\ Hits(q, WriteMsg(k)) = {} => LastIs(p, k, a.items[k])
      BY <3>3 DEF Inv, OwnInv
    <3> QED
      BY <2>4, <2>6, <3>1, <3>2, <3>4
  <2>12. Inv(b, c, Append(q, m), p)
    BY <2>9, <2>10, <2>11 DEF Inv, OwnInv
  <2> QED
    BY <2>1, <2>5, <2>6, <2>12 DEF b
<1> QED
  BY <1>1, <1>2

LEMMA LoadSent ==
  ASSUME NEW a \in Area, NEW q \in Seq(Request), NEW p \in Seq(Reply),
         NEW d \in Call, Inv(a, NoCall, q, p), ~a.loaded
  PROVE  LET b == [a EXCEPT !.ignoreAll = TRUE]
             m == [op |-> "getAll", callback |-> TRUE]
         IN  b \in Area /\ m \in Request /\ Inv(b, d, Append(q, m), p)
<1> DEFINE b == [a EXCEPT !.ignoreAll = TRUE]
           m == [op |-> "getAll", callback |-> TRUE]
<1>1. m \in Request
  BY DEF Request
<1>2. m \in ResetMsg /\ \A k \in Key : m \notin WriteMsg(k)
  BY <1>1, RequestFacts
<1>3. /\ b \in Area /\ ~b.loaded /\ b.ignoreAll
      /\ b.items = a.items /\ b.ignored = a.ignored /\ b.lost = a.lost
  BY DEF Area
<1> HIDE DEF b
<1>4. \A k \in Key : Count(Append(q, m), WriteMsg(k)) = Count(q, WriteMsg(k))
  BY <1>1, <1>2, CountAppend, Counts
<1>5. Count(Append(q, m), ResetMsg) = Count(q, ResetMsg) + 1
  BY <1>1, <1>2, CountAppend
<1>6. Count(p, ResetMsg) \in Nat /\ Count(q, ResetMsg) \in Nat
  BY Counts
<1>7. Count(p, ResetMsg) + Count(q, ResetMsg) = 0
  BY DEF Inv, CountInv, LoadInv
<1>8. CountInv(b, Append(q, m), p)
  BY <1>3, <1>4, <1>5, <1>6, <1>7 DEF Inv, CountInv
<1>9. d # NoCall
  BY CallFacts DEF NoCall
<1>10. LoadInv(b, d, Append(q, m))
  <2>1. \A i \in 1..Len(q) : q[i].op # "getAll"
    BY DEF Inv, LoadInv
  <2>2. /\ Len(Append(q, m)) = Len(q) + 1 /\ Len(q) \in Nat
        /\ Append(q, m)[Len(q) + 1] = m
        /\ \A i \in 1..Len(q) : Append(q, m)[i] = q[i]
    BY <1>1
  <2>3. \A i \in 1..Len(Append(q, m)) : Append(q, m)[i].op = "getAll" =>
          i = Len(Append(q, m)) /\ Append(q, m)[i].callback
    BY <2>1, <2>2
  <2> QED
    BY <1>3, <1>9, <2>3 DEF Inv, LoadInv
<1>11. OwnInv(b, Append(q, m), p)
  <2>1. ASSUME NEW k \in Key
        PROVE  /\ LastIs(q, k, a.items[k]) => LastIs(Append(q, m), k, a.items[k])
               /\ Hits(Append(q, m), WriteMsg(k)) = {} => Hits(q, WriteMsg(k)) = {}
    <3>1. LastIs(q, k, a.items[k]) => LastIs(Append(q, m), k, a.items[k])
      BY <1>1, <1>2, LastAppended
    <3>2. Hits(Append(q, m), WriteMsg(k)) = {} => Hits(q, WriteMsg(k)) = {}
      BY <1>1, LastAppended
    <3> QED
      BY <3>1, <3>2
  <2> QED
    BY <1>3, <2>1 DEF Inv, OwnInv
<1> QED
  BY <1>1, <1>3, <1>8, <1>10, <1>11 DEF Inv, b

LEMMA ClearSent ==
  ASSUME NEW a \in Area, NEW q \in Seq(Request), NEW p \in Seq(Reply),
         Inv(a, NoCall, q, p)
  PROVE  LET b == [NoItems EXCEPT !.loaded = TRUE, !.ignoreAll = TRUE]
             m == [op |-> "clear", callback |-> TRUE]
         IN  /\ b \in Area /\ Append(Orphaned(q), m) \in Seq(Request)
             /\ Inv(b, NoCall, Append(Orphaned(q), m), Orphaned(p))
<1> DEFINE b == [NoItems EXCEPT !.loaded = TRUE, !.ignoreAll = TRUE]
           m == [op |-> "clear", callback |-> TRUE]
           Q == Orphaned(q)
           P == Orphaned(p)
<1>1. m \in Request
  BY DEF Request
<1>2. m \in ResetMsg /\ \A k \in Key : m \notin WriteMsg(k)
  BY <1>1, RequestFacts
<1>3. /\ b \in Area /\ b.loaded /\ b.ignoreAll /\ \A k \in Key : b.ignored[k] = 0
  BY EmptyArea DEF NoItems, Area
<1>4. /\ Q \in Seq(Request) /\ P \in Seq(Reply)
      /\ \A k \in Key : Hits(Q, WriteMsg(k)) = {} /\ Hits(P, WriteMsg(k)) = {}
      /\ Hits(Q, ResetMsg) = {} /\ Hits(P, ResetMsg) = {}
      /\ Len(Q) = Len(q) /\ \A i \in 1..Len(q) : Q[i].op = q[i].op
  BY OrphanedRequests, OrphanedReplies
<1> HIDE DEF Q, P, b
<1>5. /\ \A k \in Key : Count(Q, WriteMsg(k)) = 0 /\ Count(P, WriteMsg(k)) = 0
      /\ Count(Q, ResetMsg) = 0 /\ Count(P, ResetMsg) = 0
  BY <1>4, CountNone
<1>6. /\ \A k \in Key : Count(Append(Q, m), WriteMsg(k)) = 0
      /\ Count(Append(Q, m), ResetMsg) = 1
  BY <1>1, <1>2, <1>4, <1>5, CountAppend
<1>7. CountInv(b, Append(Q, m), P)
  BY <1>3, <1>5, <1>6 DEF CountInv
<1>8. LoadInv(b, NoCall, Append(Q, m))
  <2>1. \A i \in 1..Len(q) : q[i].op # "getAll"
    BY DEF Inv, LoadInv
  <2>2. \A i \in 1..Len(Append(Q, m)) : Append(Q, m)[i].op # "getAll"
    BY <1>1, <1>4, <2>1
  <2> QED
    BY <1>3, <2>2 DEF LoadInv
<1>9. OwnInv(b, Append(Q, m), P)
  <2>1. ASSUME NEW k \in Key PROVE LastIs(Append(Q, m), k, b.items[k])
    <3>1. LastIs(Q, k, b.items[k])
      BY <1>4, LastOfNone
    <3> QED
      BY <1>1, <1>2, <1>4, <3>1, LastAppended
  <2> QED
    BY <1>4, <2>1, LastOfNone DEF OwnInv
<1> QED
  BY <1>1, <1>3, <1>4, <1>7, <1>8, <1>9 DEF Inv, Q, P, b

-----------------------------------------------------------------------------
(* What the browser answers. *)

\* A request makes way for its answer.
LEMMA RequestServed ==
  ASSUME NEW a \in Area, NEW c \in Waiting, NEW q \in Seq(Request), NEW p \in Seq(Reply),
         q # <<>>, NEW e \in Reply, Inv(a, c, q, p),
         \/ /\ Head(q).op = "set" /\ e.op = "setDone"
            /\ e.key = Head(q).key /\ e.value = Head(q).value
         \/ Head(q).op = "clear" /\ e.op = "clearDone",
         e.callback = Head(q).callback
  PROVE  Inv(a, c, Tail(q), Append(p, e))
<1> DEFINE m == Head(q)
           Q == Tail(q)
           P == Append(p, e)
<1>1. /\ m \in Request /\ Q \in Seq(Request) /\ P \in Seq(Reply)
      /\ Len(Q) = Len(q) - 1 /\ Len(q) \in Nat /\ Len(q) > 0
      /\ \A i \in 1..Len(Q) : Q[i] = q[i + 1]
  OBVIOUS
<1>2. /\ m \in ResetMsg <=> e \in ResetMsg
      /\ \A k \in Key : m \in WriteMsg(k) <=> e \in WriteMsg(k)
      /\ \A k \in Key : e \in WriteMsg(k) => e.value = m.value
  BY <1>1, RequestFacts, ReplyFacts
<1>3. /\ Count(Q, ResetMsg) = Count(q, ResetMsg) - IF e \in ResetMsg THEN 1 ELSE 0
      /\ Count(P, ResetMsg) = Count(p, ResetMsg) + IF e \in ResetMsg THEN 1 ELSE 0
      /\ Count(q, ResetMsg) \in Nat /\ Count(p, ResetMsg) \in Nat
  BY <1>2, CountTail, CountAppend, Counts
<1>4. ASSUME NEW k \in Key
      PROVE  /\ Count(Q, WriteMsg(k)) = Count(q, WriteMsg(k)) - IF e \in WriteMsg(k) THEN 1 ELSE 0
             /\ Count(P, WriteMsg(k)) = Count(p, WriteMsg(k)) + IF e \in WriteMsg(k) THEN 1 ELSE 0
             /\ Count(q, WriteMsg(k)) \in Nat /\ Count(p, WriteMsg(k)) \in Nat
  BY <1>2, CountTail, CountAppend, Counts
<1>5. ASSUME NEW k \in Key, NEW v, LastIs(q, k, v), Hits(q, WriteMsg(k)) = {} => LastIs(p, k, v)
      PROVE  LastIs(Q, k, v) /\ (Hits(Q, WriteMsg(k)) = {} => LastIs(P, k, v))
  <2>1. /\ LastIs(Q, k, v)
        /\ Hits(Q, WriteMsg(k)) = {} /\ m \in WriteMsg(k) => m.value = v
        /\ Hits(q, WriteMsg(k)) = {} <=> Hits(Q, WriteMsg(k)) = {} /\ m \notin WriteMsg(k)
    BY <1>5, LastOfTail
  <2>2. /\ e \in WriteMsg(k) => (LastIs(P, k, v) <=> e.value = v)
        /\ e \notin WriteMsg(k) => (LastIs(P, k, v) <=> LastIs(p, k, v))
    BY LastAppended
  <2> QED
    BY <1>2, <1>5, <2>1, <2>2
<1> HIDE DEF m, Q, P
<1>6. LoadInv(a, c, Q)
  <2>1. ASSUME NEW i \in 1..Len(Q), Q[i].op = "getAll"
        PROVE  i = Len(Q) /\ Q[i].callback /\ c # NoCall
    <3>1. i + 1 \in 1..Len(q) /\ Q[i] = q[i + 1]
      BY <1>1
    <3>2. i + 1 = Len(q) /\ q[i + 1].callback /\ c # NoCall
      BY <2>1, <3>1 DEF Inv, LoadInv
    <3>3. i = Len(Q)
      BY <1>1, <3>2
    <3> QED
      BY <3>1, <3>2, <3>3, Zenon
  <2> QED
    BY <2>1 DEF Inv, LoadInv
<1>7. CountInv(a, Q, P)
  <2>1. ASSUME NEW k \in Key
        PROVE  a.ignored[k] = Count(P, WriteMsg(k)) + Count(Q, WriteMsg(k))
    <3>1. a.ignored[k] = Count(p, WriteMsg(k)) + Count(q, WriteMsg(k))
      BY DEF Inv, CountInv
    <3> QED
      BY <1>4, <3>1
  <2>2. Count(p, ResetMsg) + Count(q, ResetMsg) = IF a.ignoreAll THEN 1 ELSE 0
    BY DEF Inv, CountInv
  <2> QED
    BY <1>3, <2>1, <2>2 DEF CountInv
<1>8. OwnInv(a, Q, P)
  BY <1>5 DEF Inv, OwnInv
<1> QED
  BY <1>6, <1>7, <1>8 DEF Inv, Q, P

LEMMA MapLoaded ==
  ASSUME NEW a \in Area, NEW c \in Waiting, NEW q \in Seq(Request), NEW p \in Seq(Reply),
         q # <<>>, Head(q).op = "getAll", NEW e \in Reply,
         e.op = "getAllDone", e.callback, NEW m \in Map, Inv(a, c, q, p)
  PROVE  LET b == [a EXCEPT !.loaded = TRUE, !.items = m]
         IN  b \in Area /\ b.loaded /\ Inv(b, NoCall, Tail(q), Append(p, e))
<1> DEFINE b == [a EXCEPT !.loaded = TRUE, !.items = m]
           P == Append(p, e)
<1>1. /\ Head(q) \in Request /\ Head(q) = q[1] /\ Len(q) \in Nat /\ Len(q) > 0
  OBVIOUS
<1>2. 1 = Len(q) /\ Head(q).callback /\ c # NoCall
  <2>1. 1 \in 1..Len(q) /\ q[1].op = "getAll"
    BY <1>1
  <2>2. 1 = Len(q) /\ q[1].callback /\ c # NoCall
    BY <2>1 DEF Inv, LoadInv
  <2> QED
    BY <1>1, <2>2, Zenon
<1>3. 1..Len(Tail(q)) = {}
  <2>1. Tail(q) \in Seq(Request) /\ Len(Tail(q)) = Len(q) - 1
    OBVIOUS
  <2>2. Len(Tail(q)) = 0
    BY <1>2, <2>1
  <2>3. 1..0 = {}
    OBVIOUS
  <2> QED
    BY <2>2, <2>3, Zenon
<1>4. /\ Head(q) \in ResetMsg /\ e \in ResetMsg
      /\ \A k \in Key : Head(q) \notin WriteMsg(k) /\ e \notin WriteMsg(k)
  BY <1>1, <1>2, RequestFacts, ReplyFacts
<1>5. ~a.loaded /\ ~a.lost /\ \A k \in Key : a.ignored[k] = 0
  BY <1>2 DEF Inv, LoadInv
<1>6. /\ b \in Area /\ b.loaded /\ b.ignoreAll = a.ignoreAll
      /\ b.ignored = a.ignored
  BY DEF Area
<1>7. /\ Count(Tail(q), ResetMsg) = Count(q, ResetMsg) - 1
      /\ Count(P, ResetMsg) = Count(p, ResetMsg) + 1
      /\ Count(q, ResetMsg) \in Nat /\ Count(p, ResetMsg) \in Nat
  BY <1>4, CountTail, CountAppend, Counts
<1>8. ASSUME NEW k \in Key
      PROVE  /\ Count(Tail(q), WriteMsg(k)) = Count(q, WriteMsg(k))
             /\ Count(P, WriteMsg(k)) = Count(p, WriteMsg(k))
             /\ Count(q, WriteMsg(k)) \in Nat /\ Count(p, WriteMsg(k)) \in Nat
             /\ a.ignored[k] = Count(p, WriteMsg(k)) + Count(q, WriteMsg(k))
  <2>1. a.ignored[k] = Count(p, WriteMsg(k)) + Count(q, WriteMsg(k))
    BY DEF Inv, CountInv
  <2> QED
    BY <1>4, <2>1, CountTail, CountAppend, Counts
<1> HIDE DEF b
<1>9. CountInv(b, Tail(q), P)
  BY <1>6, <1>7, <1>8 DEF Inv, CountInv
<1>10. LoadInv(b, NoCall, Tail(q))
  <2>1. \A i \in 1..Len(Tail(q)) : FALSE
    BY <1>3, Zenon
  <2> QED
    BY <1>6, <2>1 DEF LoadInv
<1>11. OwnInv(b, Tail(q), P)
  <2>1. ASSUME NEW k \in Key
        PROVE  Hits(Tail(q), WriteMsg(k)) = {} /\ Hits(P, WriteMsg(k)) = {}
    <3>1. Count(p, WriteMsg(k)) = 0 /\ Count(P, WriteMsg(k)) = Count(p, WriteMsg(k))
      BY <1>5, <1>8
    <3>2. Hits(P, WriteMsg(k)) = {}
      <4>1. P \in Seq(Reply)
        OBVIOUS
      <4> HIDE DEF P
      <4> QED
        BY <3>1, <4>1, CountZero
    <3>3. Hits(Tail(q), WriteMsg(k)) = {}
      BY <1>3, Zenon DEF Hits
    <3> QED
      BY <3>2, <3>3
  <2> QED
    BY <2>1, LastOfNone DEF OwnInv
<1> QED
  BY <1>6, <1>9, <1>10, <1>11 DEF Inv, b

-----------------------------------------------------------------------------
(* The steps. *)

LEMMA StateFacts ==
  ASSUME TypeOK
  PROVE  /\ \A r \in Renderer :
              /\ area[r] \in Area /\ calling[r] \in Waiting
              /\ requests[r] \in Seq(Request) /\ inbox[r] \in Seq(Reply)
         /\ Len(log) \in Stamp /\ map \in Map
         /\ \A m \in Map : Append(log, m) \in Seq(Map) /\ Len(Append(log, m)) \in Stamp
<1>1. log \in Seq(Map) /\ log # <<>>
  BY DEF TypeOK
<1>2. Len(log) \in Stamp /\ map \in Map
  BY <1>1 DEF Stamp, map
<1>3. \A m \in Map : Append(log, m) \in Seq(Map) /\ Len(Append(log, m)) \in Stamp
  BY <1>1 DEF Stamp
<1> QED
  BY <1>2, <1>3 DEF TypeOK, Waiting, Reply

\* A step of one renderer.
LEMMA Moves ==
  ASSUME IInv, NEW r \in Renderer,
         NEW a \in Area, NEW c \in Waiting, NEW q \in Seq(Request), NEW p \in Seq(Reply),
         Inv(a, c, q, p),
         area' = [area EXCEPT ![r] = a], calling' = [calling EXCEPT ![r] = c],
         requests' = [requests EXCEPT ![r] = q], inbox' = [inbox EXCEPT ![r] = p],
         log' = log, left' \in Nat
  PROVE  IInv'
<1>1. TypeOK'
  BY DEF IInv, TypeOK, Waiting, Reply
<1>2. ASSUME NEW s \in Renderer
      PROVE  Inv(area'[s], calling'[s], requests'[s], inbox'[s])
  <2>1. CASE s = r
    <3>1. area'[s] = a /\ calling'[s] = c /\ requests'[s] = q /\ inbox'[s] = p
      BY <2>1 DEF IInv, TypeOK
    <3> QED
      BY <3>1
  <2>2. CASE s # r
    <3>1. /\ area'[s] = area[s] /\ calling'[s] = calling[s]
          /\ requests'[s] = requests[s] /\ inbox'[s] = inbox[s]
      BY <2>2 DEF IInv, TypeOK
    <3>2. Inv(area[s], calling[s], requests[s], inbox[s])
      BY DEF IInv
    <3> QED
      BY <3>1, <3>2
  <2> QED
    BY <2>1, <2>2
<1> QED
  BY <1>1, <1>2 DEF IInv

\* What a step leaves alone.
LEMMA Same ==
  ASSUME TypeOK, NEW r \in Renderer
  PROVE  /\ area = [area EXCEPT ![r] = area[r]]
         /\ calling = [calling EXCEPT ![r] = calling[r]]
         /\ requests = [requests EXCEPT ![r] = requests[r]]
         /\ inbox = [inbox EXCEPT ![r] = inbox[r]]
BY DEF TypeOK

LEMMA PageCallsKeeps ==
  ASSUME IInv, NEW r \in Renderer, NEW c \in Call, PageCalls(r, c)
  PROVE  IInv'
<1> DEFINE a == area[r]
           q == requests[r]
           p == inbox[r]
<1>1. /\ TypeOK /\ a \in Area /\ q \in Seq(Request) /\ p \in Seq(Reply)
      /\ calling[r] = NoCall /\ NoCall \in Waiting /\ c \in Waiting
      /\ Inv(a, NoCall, q, p)
  BY StateFacts DEF IInv, PageCalls, Waiting
<1>2. left' \in Nat /\ log' = log
  BY <1>1 DEF TypeOK, PageCalls
<1>3. CASE c.op # "clear" /\ a.loaded
  <2>1. /\ area' = [area EXCEPT ![r] = AreaAfter(c, a)]
        /\ requests' = [requests EXCEPT ![r] = q \o Sends(c, a)]
        /\ calling' = calling /\ inbox' = inbox
    BY <1>3 DEF PageCalls, Uses
  <2>2. /\ AreaAfter(c, a) \in Area /\ q \o Sends(c, a) \in Seq(Request)
        /\ Inv(AreaAfter(c, a), NoCall, q \o Sends(c, a), p)
    BY <1>1, <1>3, WriteSent
  <2>3. calling' = [calling EXCEPT ![r] = NoCall] /\ inbox' = [inbox EXCEPT ![r] = p]
    BY <1>1, <2>1, Same
  <2> QED
    BY <1>1, <1>2, <2>1, <2>2, <2>3, Moves
<1>4. CASE c.op # "clear" /\ ~a.loaded
  <2> DEFINE b == [a EXCEPT !.ignoreAll = TRUE]
             m == [op |-> "getAll", callback |-> TRUE]
  <2>1. /\ area' = [area EXCEPT ![r] = b]
        /\ requests' = [requests EXCEPT ![r] = Append(q, m)]
        /\ calling' = [calling EXCEPT ![r] = c] /\ inbox' = inbox
    BY <1>1, <1>4 DEF PageCalls, Uses, TypeOK
  <2>2. b \in Area /\ m \in Request /\ Inv(b, c, Append(q, m), p)
    BY <1>1, <1>4, LoadSent
  <2>3. inbox' = [inbox EXCEPT ![r] = p] /\ Append(q, m) \in Seq(Request)
    BY <1>1, <2>1, <2>2, Same
  <2> QED
    BY <1>1, <1>2, <2>1, <2>2, <2>3, Moves
<1>5. CASE c.op = "clear"
  <2> DEFINE b == [NoItems EXCEPT !.loaded = TRUE, !.ignoreAll = TRUE]
             m == [op |-> "clear", callback |-> TRUE]
  <2>1. /\ area' = [area EXCEPT ![r] = b]
        /\ requests' = [requests EXCEPT ![r] = Append(Orphaned(q), m)]
        /\ inbox' = [inbox EXCEPT ![r] = Orphaned(p)] /\ calling' = calling
    BY <1>5 DEF PageCalls, Clears
  <2>2. /\ b \in Area /\ Append(Orphaned(q), m) \in Seq(Request)
        /\ Inv(b, NoCall, Append(Orphaned(q), m), Orphaned(p))
    BY <1>1, ClearSent
  <2>3. calling' = [calling EXCEPT ![r] = NoCall] /\ Orphaned(p) \in Seq(Reply)
    BY <1>1, <2>1, Same, OrphanedReplies
  <2> QED
    BY <1>1, <1>2, <2>1, <2>2, <2>3, Moves
<1> QED
  BY <1>3, <1>4, <1>5

LEMMA EventTaken ==
  ASSUME NEW a \in Area, NEW c \in Waiting, NEW q \in Seq(Request), NEW p \in Seq(Reply),
         p # <<>>, Inv(a, c, q, p), ~Skips(a)
  PROVE  /\ Head(p).op = "changed" =>
              Changed(a, Head(p)) \in Area /\ Inv(Changed(a, Head(p)), c, q, Tail(p))
         /\ Head(p).op = "cleared" =>
              \A m \in Map :
                LET b == [a EXCEPT !.items = m, !.lost = @ \/ m # OwnItems(a)]
                IN  b \in Area /\ Inv(b, c, q, Tail(p))
<1> DEFINE e == Head(p)
<1>1. e \in Reply
  OBVIOUS
<1>2. a.loaded
  BY DEF Skips
<1>3. ASSUME e.op = "changed"
      PROVE  Changed(a, e) \in Area /\ Inv(Changed(a, e), c, q, Tail(p))
  <2> DEFINE its == [a.items EXCEPT ![e.key] = e.value]
             b == [a EXCEPT !.items = its]
  <2>1. ~e.callback /\ e.key \in Key /\ e.value \in Item
    BY <1>1, <1>3, ReplyFacts
  <2>2. CASE a.ignored[e.key] # 0
    <3>1. Changed(a, e) = a
      BY <2>2 DEF Changed
    <3> QED
      BY <2>1, <3>1, ReplyDropped
  <2>3. CASE a.ignored[e.key] = 0
    <3>1. Changed(a, e) = b
      BY <2>3 DEF Changed, Area
    <3>2. its \in Map /\ \A k \in Key : k # e.key => its[k] = a.items[k]
      BY <2>1, AreaFacts DEF Map, Item
    <3> HIDE DEF its
    <3>3. /\ b \in Area /\ b.loaded = a.loaded /\ b.ignoreAll = a.ignoreAll
          /\ b.lost = a.lost /\ b.ignored = a.ignored /\ b.items = its
      BY <3>2 DEF Area
    <3>4. \A k \in Key : a.ignored[k] > 0 => its[k] = a.items[k]
      BY <2>3, <3>2, AreaFacts
    <3> HIDE DEF b
    <3>5. Inv(b, c, q, p)
      BY <1>2, <3>3, <3>4, EventChanges
    <3>6. Inv(b, c, q, Tail(p))
      BY <2>1, <3>3, <3>5, ReplyDropped
    <3> QED
      BY <3>1, <3>3, <3>6
  <2> QED
    BY <2>2, <2>3
<1>4. ASSUME e.op = "cleared", NEW m \in Map
      PROVE  LET b == [a EXCEPT !.items = m, !.lost = @ \/ m # OwnItems(a)]
             IN  b \in Area /\ Inv(b, c, q, Tail(p))
  <2> DEFINE gone == a.lost \/ m # OwnItems(a)
             b == [a EXCEPT !.items = m, !.lost = gone]
  <2>1. ~e.callback
    BY <1>1, <1>4, ReplyFacts
  <2>2. gone \in BOOLEAN
    BY Zenon
  <2>3. (a.lost => gone) /\ (~gone => m = OwnItems(a))
    BY Zenon
  <2>4. b = [a EXCEPT !.items = m, !.lost = @ \/ m # OwnItems(a)]
    BY DEF Area
  <2> HIDE DEF gone
  <2>5. /\ b \in Area /\ b.loaded = a.loaded /\ b.ignoreAll = a.ignoreAll
        /\ b.lost = gone /\ b.ignored = a.ignored /\ b.items = m
    <3>1. b \in Area
      BY <2>2 DEF Area
    <3>2. b.loaded = a.loaded /\ b.ignoreAll = a.ignoreAll
      BY DEF Area
    <3>3. b.ignored = a.ignored /\ b.items = m
      BY DEF Area
    <3>4. b.lost = gone
      BY DEF Area
    <3> HIDE DEF b
    <3> QED
      BY <3>1, <3>2, <3>3, <3>4
  <2> HIDE DEF b
  <2>6. a.lost => b.lost
    BY <2>3, <2>5, Zenon
  <2>7. ~b.lost => \A k \in Key : a.ignored[k] > 0 => b.items[k] = a.items[k]
    <3>1. m = OwnItems(a) => \A k \in Key : a.ignored[k] > 0 => m[k] = a.items[k]
      BY DEF OwnItems
    <3> QED
      BY <2>3, <2>5, <3>1, Zenon
  <2>8. Inv(b, c, q, p)
    BY <1>2, <2>5, <2>6, <2>7, EventChanges
  <2>9. Inv(b, c, q, Tail(p))
    BY <2>1, <2>5, <2>8, ReplyDropped
  <2> QED
    BY <2>4, <2>5, <2>9
<1> QED
  BY <1>3, <1>4

LEMMA ReceiveKeeps ==
  ASSUME IInv, NEW r \in Renderer, Receive(r)
  PROVE  IInv'
<1> DEFINE a == area[r]
           q == requests[r]
           p == inbox[r]
           e == Head(p)
<1>1. /\ TypeOK /\ a \in Area /\ q \in Seq(Request) /\ p \in Seq(Reply)
      /\ calling[r] = NoCall /\ NoCall \in Waiting /\ p # <<>>
      /\ Inv(a, NoCall, q, p)
  BY StateFacts DEF IInv, Receive, Waiting
<1>2. left' \in Nat /\ log' = log /\ calling' = [calling EXCEPT ![r] = NoCall]
  <2>1. calling' = calling /\ left' = left /\ log' = log
    BY DEF Receive
  <2> QED
    BY <1>1, <2>1, Same DEF TypeOK
<1>3. e \in Reply /\ Tail(p) \in Seq(Reply)
  BY <1>1
<1>4. ASSUME NEW b \in Area, Inv(b, NoCall, q, Tail(p)),
             area' = [area EXCEPT ![r] = b], UNCHANGED requests,
             inbox' = [inbox EXCEPT ![r] = Tail(p)]
      PROVE  IInv'
  <2>1. requests' = [requests EXCEPT ![r] = q]
    BY <1>1, <1>4, Same
  <2> QED
    BY <1>1, <1>2, <1>3, <1>4, <2>1, Moves
<1>5. ASSUME ~e.callback, UNCHANGED <<area, requests>>, inbox' = [inbox EXCEPT ![r] = Tail(p)]
      PROVE  IInv'
  <2>1. Inv(a, NoCall, q, Tail(p))
    BY <1>1, <1>5, ReplyDropped
  <2>2. area' = [area EXCEPT ![r] = a]
    BY <1>1, <1>5, Same
  <2> QED
    BY <1>1, <1>4, <1>5, <2>1, <2>2
<1>6. CASE TakeEvent(r)
  <2>1. ~e.callback /\ inbox' = [inbox EXCEPT ![r] = Tail(p)] /\ UNCHANGED requests
    BY <1>3, <1>6, ReplyFacts DEF TakeEvent
  <2>2. CASE UNCHANGED area
    BY <1>5, <2>1, <2>2
  <2>3. CASE ~Skips(a) /\ e.op = "changed" /\ area' = [area EXCEPT ![r] = Changed(a, e)]
    <3>1. Changed(a, e) \in Area /\ Inv(Changed(a, e), NoCall, q, Tail(p))
      BY <1>1, <2>3, EventTaken
    <3> QED
      BY <1>4, <2>1, <2>3, <3>1
  <2>4. ASSUME ~Skips(a), e.op = "cleared", NEW m \in Retained(OwnItems(a)),
               area' = [area EXCEPT ![r].items = m, ![r].lost = @ \/ m # OwnItems(a)]
        PROVE  IInv'
    <3> DEFINE b == [a EXCEPT !.items = m, !.lost = @ \/ m # OwnItems(a)]
    <3>1. m \in Map
      BY DEF Retained
    <3>2. b \in Area /\ Inv(b, NoCall, q, Tail(p))
      BY <1>1, <2>4, <3>1, EventTaken
    <3>3. area' = [area EXCEPT ![r] = b]
      BY <1>1, <2>4, AreaFacts DEF TypeOK, Area
    <3> HIDE DEF b
    <3> QED
      BY <1>4, <2>1, <3>2, <3>3
  <2> QED
    BY <1>6, <2>2, <2>3, <2>4 DEF TakeEvent
<1>7. CASE TakeAnswer(r)
  <2>1. CASE ~e.callback
    BY <1>5, <1>7, <2>1 DEF TakeAnswer
  <2>2. CASE e.callback /\ e.op = "setDone" /\ ~e.ok
    <3>1. /\ area' = [area EXCEPT ![r] = NoItems]
          /\ inbox' = [inbox EXCEPT ![r] = Orphaned(Tail(p))]
          /\ requests' = [requests EXCEPT ![r] = Orphaned(q)]
      BY <1>7, <2>2 DEF TakeAnswer
    <3>2. Inv(NoItems, NoCall, Orphaned(q), Orphaned(Tail(p)))
      <4> DEFINE b == [a EXCEPT !.ignored[e.key] = @ - 1]
      <4>1. b \in Area /\ Inv(b, NoCall, q, Tail(p))
        BY <1>1, <2>2, WriteDone
      <4> HIDE DEF b
      <4> QED
        BY <1>1, <1>3, <4>1, WriteRefused
    <3>3. Orphaned(q) \in Seq(Request) /\ Orphaned(Tail(p)) \in Seq(Reply)
      BY <1>1, <1>3, OrphanedRequests, OrphanedReplies
    <3> QED
      BY <1>1, <1>2, <3>1, <3>2, <3>3, EmptyArea, Moves
  <2>3. CASE e.callback /\ e.op = "setDone" /\ e.ok
    <3> DEFINE b == [a EXCEPT !.ignored[e.key] = @ - 1]
    <3>1. /\ area' = [area EXCEPT ![r].ignored[e.key] = @ - 1]
          /\ inbox' = [inbox EXCEPT ![r] = Tail(p)] /\ UNCHANGED requests
      BY <1>7, <2>3 DEF TakeAnswer
    <3>2. b \in Area /\ Inv(b, NoCall, q, Tail(p))
      BY <1>1, <2>3, WriteDone
    <3>3. area' = [area EXCEPT ![r] = b]
      BY <1>1, <3>1 DEF TypeOK, Area
    <3> HIDE DEF b
    <3> QED
      BY <1>4, <3>1, <3>2, <3>3
  <2>4. CASE e.callback /\ e.op \in {"clearDone", "getAllDone"}
    <3> DEFINE b == [a EXCEPT !.ignoreAll = FALSE]
    <3>1. /\ area' = [area EXCEPT ![r].ignoreAll = FALSE]
          /\ inbox' = [inbox EXCEPT ![r] = Tail(p)] /\ UNCHANGED requests
      BY <1>7, <2>4 DEF TakeAnswer
    <3>2. b \in Area /\ Inv(b, NoCall, q, Tail(p))
      BY <1>1, <2>4, ResetDone
    <3>3. area' = [area EXCEPT ![r] = b]
      BY <1>1, <3>1 DEF TypeOK, Area
    <3> HIDE DEF b
    <3> QED
      BY <1>4, <3>1, <3>2, <3>3
  <2> QED
    BY <1>7, <2>1, <2>2, <2>3, <2>4 DEF TakeAnswer
<1> QED
  BY <1>6, <1>7 DEF Receive

-----------------------------------------------------------------------------
(* The browser. *)

\* A step of which all renderers are told: the request of r, if one is
\* served, is q and its inbox p afterwards.
LEMMA Everyone ==
  ASSUME IInv, UNCHANGED <<area, calling>>, left' \in Nat,
         log' \in Seq(Map), log' # <<>>,
         requests' \in [Renderer -> Seq(Request)], inbox' \in [Renderer -> Seq(Reply)],
         \A s \in Renderer : Inv(area[s], calling[s], requests'[s], inbox'[s])
  PROVE  IInv'
BY DEF IInv, TypeOK, Reply

\* Told adds an event, or nothing.
LEMMA ToldKeeps ==
  ASSUME NEW a \in Area, NEW c \in Waiting, NEW q \in Seq(Request), NEW p \in Seq(Reply),
         NEW m, NEW e \in Reply, e.op \in {"changed", "cleared"}, Inv(a, c, q, p)
  PROVE  Told(p, m, e) \in Seq(Reply) /\ Inv(a, c, q, Told(p, m, e))
<1>1. Inv(a, c, q, Append(p, e)) /\ Append(p, e) \in Seq(Reply)
  BY EventComes
<1>2. CASE m = map
  BY <1>2 DEF Told
<1>3. CASE m # map
  BY <1>1, <1>3 DEF Told
<1> QED
  BY <1>2, <1>3

\* A write of a renderer is served, and all are told.
LEMMA ServedKeeps ==
  ASSUME IInv, NEW r \in Renderer, requests[r] # <<>>, NEW m \in Map,
         NEW e \in Reply, e.op \in {"changed", "cleared"}, NEW d \in Reply,
         \/ /\ Head(requests[r]).op = "set" /\ d.op = "setDone"
            /\ d.key = Head(requests[r]).key /\ d.value = Head(requests[r]).value
         \/ Head(requests[r]).op = "clear" /\ d.op = "clearDone",
         d.callback = Head(requests[r]).callback,
         Becomes(m), Answered(m, e, r, d),
         requests' = [requests EXCEPT ![r] = Tail(@)],
         UNCHANGED <<area, calling, left>>
  PROVE  IInv'
<1>1. /\ TypeOK
      /\ \A s \in Renderer :
           /\ area[s] \in Area /\ calling[s] \in Waiting
           /\ requests[s] \in Seq(Request) /\ inbox[s] \in Seq(Reply)
           /\ Inv(area[s], calling[s], requests[s], inbox[s])
  BY StateFacts DEF IInv
<1>2. left' \in Nat /\ log' \in Seq(Map) /\ log' # <<>>
  <2>1. log \in Seq(Map) /\ log # <<>> /\ left \in Nat
    BY <1>1 DEF TypeOK
  <2> QED
    BY <2>1 DEF Becomes
<1>3. ASSUME NEW s \in Renderer
      PROVE  /\ Told(inbox[s], m, e) \in Seq(Reply)
             /\ Inv(area[s], calling[s], requests[s], Told(inbox[s], m, e))
  BY <1>1, ToldKeeps
<1>4. /\ requests' \in [Renderer -> Seq(Request)]
      /\ requests'[r] = Tail(requests[r])
      /\ \A s \in Renderer : s # r => requests'[s] = requests[s]
  <2>1. Tail(requests[r]) \in Seq(Request)
    BY <1>1
  <2> QED
    BY <1>1, <2>1 DEF TypeOK
<1>5. ASSUME NEW s \in Renderer
      PROVE  /\ inbox'[s] = IF s = r THEN Append(Told(inbox[s], m, e), d)
                                     ELSE Told(inbox[s], m, e)
             /\ inbox'[s] \in Seq(Reply)
  BY <1>3 DEF Answered
<1>6. inbox' \in [Renderer -> Seq(Reply)]
  BY <1>5 DEF Answered
<1>7. ASSUME NEW s \in Renderer
      PROVE  Inv(area[s], calling[s], requests'[s], inbox'[s])
  <2>1. CASE s = r
    <3>1. Inv(area[r], calling[r], Tail(requests[r]), Append(Told(inbox[r], m, e), d))
      BY <1>1, <1>3, RequestServed
    <3> QED
      BY <1>4, <1>5, <2>1, <3>1
  <2>2. CASE s # r
    BY <1>3, <1>4, <1>5, <2>2
  <2> QED
    BY <2>1, <2>2
<1> QED
  BY <1>2, <1>4, <1>6, <1>7, Everyone

LEMMA ServeKeeps ==
  ASSUME IInv, NEW r \in Renderer, Serve(r)
  PROVE  IInv'
<1> DEFINE a == area[r]
           c == calling[r]
           q == requests[r]
           p == inbox[r]
           h == Head(q)
<1>1. /\ TypeOK /\ a \in Area /\ c \in Waiting /\ q \in Seq(Request) /\ p \in Seq(Reply)
      /\ q # <<>> /\ Inv(a, c, q, p)
      /\ Len(log) \in Stamp /\ map \in Map
      /\ \A m \in Map : Append(log, m) \in Seq(Map) /\ Len(Append(log, m)) \in Stamp
  BY StateFacts DEF IInv, Serve
<1>2. h \in Request
  BY <1>1
<1>3. ASSUME NEW m \in Map, Becomes(m) PROVE Len(log') \in Stamp
  BY <1>1, <1>3 DEF Becomes
<1>4. CASE ServeSet(r)
  <2> DEFINE ok == Fits(h.key, h.value, map, MaxSize)
             m == IF ok THEN [map EXCEPT ![h.key] = h.value] ELSE map
             e == [op |-> "changed", key |-> h.key, value |-> h.value, source |-> r,
                   callback |-> FALSE, at |-> Len(log')]
             d == [op |-> "setDone", key |-> h.key, value |-> h.value, ok |-> ok,
                   callback |-> h.callback, at |-> Len(log')]
  <2>1. /\ h.op = "set" /\ Becomes(m) /\ Answered(m, e, r, d)
        /\ requests' = [requests EXCEPT ![r] = Tail(@)]
        /\ UNCHANGED <<area, calling, left>>
    BY <1>4 DEF ServeSet
  <2>2. h.key \in Key /\ h.value \in Item /\ h.callback \in BOOLEAN
    BY <1>2, <2>1, RequestFacts
  <2>3. m \in Map
    <3>1. [map EXCEPT ![h.key] = h.value] \in Map
      BY <1>1, <2>2 DEF Map, Item
    <3> QED
      BY <1>1, <3>1, Zenon
  <2>4. ok \in BOOLEAN
    BY Zenon DEF Fits
  <2>5. Len(log') \in Stamp
    BY <1>3, <2>1, <2>3
  <2> HIDE DEF ok, m
  <2>6. e \in Reply /\ d \in Reply
    <3>1. e \in Event
      BY <2>2, <2>5 DEF Event, Item
    <3>2. d \in Answer
      BY <2>2, <2>4, <2>5 DEF Answer, Item
    <3> QED
      BY <3>1, <3>2 DEF Reply
  <2>7. /\ e.op = "changed" /\ d.op = "setDone" /\ d.key = h.key /\ d.value = h.value
        /\ d.callback = h.callback
    OBVIOUS
  <2> HIDE DEF e, d
  <2> QED
    BY <1>1, <2>1, <2>3, <2>6, <2>7, ServedKeeps
<1>5. CASE ServeClear(r)
  <2> DEFINE e == Cleared(r)
             d == [op |-> "clearDone", callback |-> h.callback, at |-> Len(log')]
  <2>1. /\ h.op = "clear" /\ Becomes(Empty) /\ Answered(Empty, e, r, d)
        /\ requests' = [requests EXCEPT ![r] = Tail(@)]
        /\ UNCHANGED <<area, calling, left>>
    BY <1>5 DEF ServeClear
  <2>2. h.callback \in BOOLEAN /\ Empty \in Map
    BY <1>2, RequestFacts, EmptyArea
  <2>3. Len(log') \in Stamp
    BY <1>3, <2>1, <2>2
  <2>4. e \in Reply /\ d \in Reply
    BY <2>2, <2>3 DEF Reply, Event, Answer, Cleared
  <2>5. e.op = "cleared" /\ d.op = "clearDone" /\ d.callback = h.callback
    BY DEF Cleared
  <2> HIDE DEF e, d
  <2> QED
    BY <1>1, <2>1, <2>2, <2>4, <2>5, ServedKeeps
<1>6. CASE ServeGetAll(r)
  <2> DEFINE b == [a EXCEPT !.loaded = TRUE, !.items = map]
             e == [op |-> "getAllDone", callback |-> TRUE, at |-> Len(log)]
  <2>1. /\ h.op = "getAll"
        /\ area' = [area EXCEPT ![r] = AreaAfter(c, b)]
        /\ requests' = [requests EXCEPT ![r] = Tail(q) \o Sends(c, b)]
        /\ calling' = [calling EXCEPT ![r] = NoCall]
        /\ inbox' = [inbox EXCEPT ![r] = Append(p, e)]
        /\ UNCHANGED <<log, left>>
    BY <1>1, <1>6 DEF ServeGetAll, TypeOK
  <2>2. e \in Reply
    BY <1>1 DEF Reply, Answer
  <2>3. b \in Area /\ b.loaded /\ Inv(b, NoCall, Tail(q), Append(p, e))
    BY <1>1, <2>1, <2>2, MapLoaded
  <2>4. /\ Tail(q) \in Seq(Request) /\ Append(p, e) \in Seq(Reply)
        /\ NoCall \in Waiting
    BY <1>1, <2>2 DEF Waiting
  <2> HIDE DEF b, e
  <2>5. /\ AreaAfter(c, b) \in Area /\ Tail(q) \o Sends(c, b) \in Seq(Request)
        /\ Inv(AreaAfter(c, b), NoCall, Tail(q) \o Sends(c, b), Append(p, e))
    BY <1>1, <2>3, <2>4, WriteSent
  <2>6. left' \in Nat
    BY <1>1, <2>1 DEF TypeOK
  <2> QED
    BY <2>1, <2>4, <2>5, <2>6, Moves
<1> QED
  BY <1>4, <1>5, <1>6 DEF Serve

LEMMA DeleteStorageKeeps ==
  ASSUME IInv, DeleteStorage
  PROVE  IInv'
<1> DEFINE e == Cleared(Browser)
<1>1. /\ TypeOK
      /\ \A s \in Renderer :
           /\ area[s] \in Area /\ calling[s] \in Waiting
           /\ requests[s] \in Seq(Request) /\ inbox[s] \in Seq(Reply)
           /\ Inv(area[s], calling[s], requests[s], inbox[s])
  BY StateFacts DEF IInv
<1>2. /\ log' \in Seq(Map) /\ Len(log') \in Stamp /\ log' # <<>>
  <2>1. log' = Append(log, Empty)
    BY DEF DeleteStorage
  <2>2. log' \in Seq(Map) /\ Len(log') \in Stamp
    BY <1>1, <2>1, StateFacts, EmptyArea
  <2> QED
    BY <2>2 DEF Stamp
<1>3. e \in Reply /\ e.op = "cleared"
  BY <1>2 DEF Reply, Event, Cleared
<1>4. left' \in Nat
  BY <1>1 DEF DeleteStorage, TypeOK
<1>5. /\ UNCHANGED <<area, calling, requests>>
      /\ inbox' = [s \in Renderer |-> Append(inbox[s], e)]
  BY DEF DeleteStorage
<1> HIDE DEF e
<1>6. ASSUME NEW s \in Renderer
      PROVE  /\ inbox'[s] = Append(inbox[s], e) /\ inbox'[s] \in Seq(Reply)
             /\ Inv(area[s], calling[s], requests[s], inbox'[s])
  <2>1. inbox'[s] = Append(inbox[s], e) /\ Append(inbox[s], e) \in Seq(Reply)
    BY <1>1, <1>3, <1>5
  <2>2. Inv(area[s], calling[s], requests[s], Append(inbox[s], e))
    BY <1>1, <1>3, EventComes
  <2> QED
    BY <2>1, <2>2
<1>7. inbox' \in [Renderer -> Seq(Reply)] /\ requests' \in [Renderer -> Seq(Request)]
  BY <1>1, <1>5, <1>6 DEF TypeOK
<1> QED
  BY <1>2, <1>4, <1>5, <1>6, <1>7, Everyone

LEMMA InitInv == Init => IInv
<1> SUFFICES ASSUME Init PROVE IInv
  OBVIOUS
<1>1. TypeOK
  <2>1. log \in Seq(Map) /\ log # <<>>
    <3>1. PICK m \in Map : log = <<m>>
      BY DEF Init
    <3> QED
      BY <3>1
  <2>2. left \in Nat
    BY BoundAssumption DEF Init
  <2>3. area \in [Renderer -> Area]
    BY EmptyArea DEF Init
  <2> QED
    BY <2>1, <2>2, <2>3 DEF Init, TypeOK
<1>2. ASSUME NEW S PROVE Hits(<<>>, S) = {} /\ Count(<<>>, S) = 0
  <2>1. Hits(<<>>, S) = {}
    BY DEF Hits
  <2> QED
    BY <2>1, CountNone
<1>3. ASSUME NEW r \in Renderer
      PROVE  Inv(area[r], calling[r], requests[r], inbox[r])
  <2>1. /\ area[r] = NoItems /\ calling[r] = NoCall
        /\ requests[r] = <<>> /\ inbox[r] = <<>>
    BY DEF Init
  <2>2. CountInv(NoItems, <<>>, <<>>)
    BY <1>2, EmptyArea DEF CountInv
  <2>3. LoadInv(NoItems, NoCall, <<>>)
    BY EmptyArea DEF LoadInv
  <2>4. OwnInv(NoItems, <<>>, <<>>)
    BY <1>2, LastOfNone DEF OwnInv
  <2> QED
    BY <2>1, <2>2, <2>3, <2>4 DEF Inv
<1> QED
  BY <1>1, <1>3 DEF IInv

LEMMA NextInv == IInv /\ [Next]_vars => IInv'
<1> SUFFICES ASSUME IInv, [Next]_vars PROVE IInv'
  OBVIOUS
<1>1. ASSUME NEW r \in Renderer, NEW c \in Call, PageCalls(r, c) PROVE IInv'
  BY <1>1, PageCallsKeeps
<1>2. ASSUME NEW r \in Renderer, Receive(r) PROVE IInv'
  BY <1>2, ReceiveKeeps
<1>3. ASSUME NEW r \in Renderer, Serve(r) PROVE IInv'
  BY <1>3, ServeKeeps
<1>4. CASE DeleteStorage
  BY <1>4, DeleteStorageKeeps
<1>5. CASE UNCHANGED vars
  BY <1>5 DEF vars, IInv, TypeOK
<1> QED
  BY <1>1, <1>2, <1>3, <1>4, <1>5 DEF Next

LEMMA Invariant == Spec => []IInv
BY InitInv, NextInv, PTL DEF Spec

-----------------------------------------------------------------------------
(* The theorems. *)

(***************************************************************************)
(* The copies, the pipes and the browser's map are always well formed: no  *)
(* count of ignored mutations goes below zero.                             *)
(***************************************************************************)
THEOREM TypeCorrect == Spec => []TypeOK
<1>1. IInv => TypeOK
  BY DEF IInv
<1> QED
  BY <1>1, Invariant, PTL

\* What the properties look for in the two pipes together.
LEMMA PendingFacts ==
  ASSUME TypeOK, NEW r \in Renderer
  PROVE  /\ Pending(r) \in Seq(Message)
         /\ inbox[r] \in Seq(Message) /\ requests[r] \in Seq(Message)
         /\ \A k : Writes(Pending(r), k) = Hits(Pending(r), WriteMsg(k))
         /\ Resets(Pending(r)) = Hits(Pending(r), ResetMsg)
<1>1. inbox[r] \in Seq(Message) /\ requests[r] \in Seq(Message)
  BY DEF TypeOK, Message
<1>2. Pending(r) \in Seq(Message)
  BY <1>1 DEF Pending
<1>3. \A i \in 1..Len(Pending(r)) : Pending(r)[i] \in Message
  BY <1>2
<1>4. \A k : Writes(Pending(r), k) = Hits(Pending(r), WriteMsg(k))
  BY <1>3 DEF Writes, Hits, WriteMsg
<1>5. Resets(Pending(r)) = Hits(Pending(r), ResetMsg)
  BY <1>3 DEF Resets, Hits, ResetMsg
<1> QED
  BY <1>1, <1>2, <1>4, <1>5

(***************************************************************************)
(* The DCHECKs of OnSetItemComplete, OnRemoveItemComplete, OnClearComplete *)
(* and OnGetAllComplete hold, however many renderers write what: a key is  *)
(* ignored as often as it has answers to come, and everything is ignored   *)
(* as long as one clear or load has its answer to come.                    *)
(***************************************************************************)
THEOREM AnswersExpected == Spec => []AnswersAreExpected
<1>1. IInv => AnswersAreExpected
  <2> SUFFICES ASSUME IInv, NEW r \in Renderer
               PROVE  /\ \A k \in Key :
                           area[r].ignored[k] = Cardinality(Writes(Pending(r), k))
                      /\ Cardinality(Resets(Pending(r))) =
                           IF area[r].ignoreAll THEN 1 ELSE 0
    BY DEF AnswersAreExpected
  <2> DEFINE a == area[r]
             p == inbox[r]
             q == requests[r]
  <2>1. TypeOK /\ CountInv(a, q, p)
    BY DEF IInv, Inv
  <2>2. /\ p \in Seq(Message) /\ q \in Seq(Message)
        /\ \A k : Writes(Pending(r), k) = Hits(p \o q, WriteMsg(k))
        /\ Resets(Pending(r)) = Hits(p \o q, ResetMsg)
    BY <2>1, PendingFacts DEF Pending
  <2> HIDE DEF a, p, q
  <2>3. \A k : Count(p \o q, WriteMsg(k)) = Count(p, WriteMsg(k)) + Count(q, WriteMsg(k))
    BY <2>2, CountConcat
  <2>4. Count(p \o q, ResetMsg) = Count(p, ResetMsg) + Count(q, ResetMsg)
    BY <2>2, CountConcat
  <2>5. \A k \in Key : a.ignored[k] = Cardinality(Writes(Pending(r), k))
    BY <2>1, <2>2, <2>3 DEF CountInv, Count
  <2>6. Cardinality(Resets(Pending(r))) = IF a.ignoreAll THEN 1 ELSE 0
    BY <2>1, <2>2, <2>4 DEF CountInv, Count
  <2> QED
    BY <2>5, <2>6 DEF a
<1> QED
  BY <1>1, Invariant, PTL

(***************************************************************************)
(* A page reads what its renderer has last written while the answer is     *)
(* still to come, however the events of the other renderers and of the     *)
(* browser fall, unless AllDeleted could not retain it.                    *)
(***************************************************************************)
THEOREM OwnWritesRead == Spec => []ReadsOwnWrites
<1>1. IInv => ReadsOwnWrites
  <2> SUFFICES ASSUME IInv, NEW r \in Renderer, ~area[r].lost,
                      NEW k \in Key, NEW i \in Writes(Pending(r), k),
                      \A j \in Writes(Pending(r), k) : j <= i
               PROVE  area[r].loaded /\ area[r].items[k] = Pending(r)[i].value
    BY DEF ReadsOwnWrites, HasOwnWrites
  <2> DEFINE a == area[r]
             p == inbox[r]
             q == requests[r]
             Q == p \o q
             W == WriteMsg(k)
             n == Len(p)
  <2>1. TypeOK /\ CountInv(a, q, p) /\ LoadInv(a, calling[r], q) /\ OwnInv(a, q, p)
    BY DEF IInv, Inv
  <2>2. /\ p \in Seq(Message) /\ q \in Seq(Message) /\ Pending(r) = Q
        /\ Writes(Pending(r), k) = Hits(Q, W)
    BY <2>1, PendingFacts DEF Pending
  <2> HIDE DEF a, p, q
  <2>3. /\ n \in Nat /\ Len(q) \in Nat /\ Len(Q) = n + Len(q)
        /\ \A j \in 1..n : Q[j] = p[j]
        /\ \A j \in 1..Len(q) : Q[j + n] = q[j]
    BY <2>2
  <2>4. a.loaded
    <3>1. Count(Q, W) = Count(p, W) + Count(q, W)
      BY <2>2, CountConcat
    <3>2. Count(Q, W) # 0
      <4>1. Q \in Seq(Message)
        BY <2>2
      <4> HIDE DEF Q
      <4> QED
        BY <2>2, <4>1, CountZero
    <3>3. a.ignored[k] # 0
      BY <2>1, <3>1, <3>2 DEF CountInv
    <3> QED
      BY <2>1, <3>3 DEF LoadInv
  <2>5. ~a.lost
    BY DEF a
  <2> HIDE DEF Q, W, n
  <2>6. i \in Hits(Q, W) /\ \A j \in Hits(Q, W) : j <= i
    BY <2>2
  <2>7. /\ LastIs(q, k, a.items[k])
        /\ Hits(q, W) = {} => LastIs(p, k, a.items[k])
    BY <2>1, <2>5 DEF OwnInv, W
  <2>8. /\ \A j \in Hits(p, W) : j \in Hits(Q, W)
        /\ \A j \in Hits(q, W) : j \in Nat /\ j > 0 /\ j + n \in Hits(Q, W)
    BY <2>3 DEF Hits, n
  <2>9. CASE i <= n
    <3>1. i \in Hits(p, W) /\ Q[i] = p[i]
      BY <2>3, <2>6, <2>9 DEF Hits, n
    <3>2. Hits(q, W) = {}
      BY <2>3, <2>6, <2>8, <2>9 DEF Hits
    <3>3. p[i].value = a.items[k]
      BY <2>6, <2>7, <2>8, <3>1, <3>2 DEF LastIs, W
    <3> QED
      BY <2>2, <2>4, <3>1, <3>3 DEF a
  <2>10. CASE ~(i <= n)
    <3> DEFINE m == i - n
    <3>1. m \in 1..Len(q) /\ i = m + n /\ Q[i] = q[m]
      BY <2>3, <2>6, <2>10 DEF Hits
    <3> HIDE DEF m
    <3>2. m \in Hits(q, W)
      BY <2>6, <3>1 DEF Hits
    <3>3. \A j \in Hits(q, W) : j <= m
      BY <2>3, <2>6, <2>8, <3>1
    <3>4. q[m].value = a.items[k]
      BY <2>7, <3>2, <3>3 DEF LastIs, W
    <3> QED
      BY <2>2, <2>4, <3>1, <3>4 DEF a
  <2> QED
    BY <2>9, <2>10
<1> QED
  BY <1>1, Invariant, PTL

-----------------------------------------------------------------------------
(* Following the map. *)

\* What is to come that tells of k.
About(k) == WriteMsg(k) \cup ResetMsg

\* The state of the map, by its place in the log l, before and after m.
Before(m) == IF m \in Event THEN m.at - 1 ELSE m.at

Reach(p, l) == IF Len(p) = 0 THEN Len(l) ELSE Before(p[1])

\* The change of the map that e tells of.
Does(e, l) ==
  \A k \in Key :
    l[e.at][k] = IF e.op = "cleared" THEN Absent
                 ELSE IF e.key = k THEN e.value ELSE l[e.at - 1][k]

(***************************************************************************)
(* What is in an inbox leads from one state of the map to the next, up to  *)
(* the last.                                                               *)
(***************************************************************************)
StampInv(p, l) ==
  \A i \in 1..Len(p) :
    /\ p[i].at \in 1..Len(l) /\ Before(p[i]) \in 1..Len(l)
    /\ p[i].at = IF i = Len(p) THEN Len(l) ELSE Before(p[i + 1])
    /\ p[i] \in Event => Does(p[i], l)

\* A clear follows whatever lost its callback.
SentInv(a, q) ==
  a.loaded => \A i \in 1..Len(q) :
    ~q[i].callback => \E j \in i + 1..Len(q) : q[j] \in ResetMsg

\* An answer follows an event of the renderer's own, if only to a clear.
OwnEventInv(r, a, q, p) ==
  a.loaded /\ Hits(q, ResetMsg) = {} => \A i \in 1..Len(p) :
    p[i] \in Event /\ p[i].source = r =>
      \E j \in i + 1..Len(p) :
        p[j] \in ResetMsg \/ (p[i].op = "changed" /\ p[j] \in WriteMsg(p[i].key))

Last(q, S) == {i \in Hits(q, S) : \A j \in Hits(q, S) : j <= i}

Refused(m) == m.op = "setDone" /\ ~m.ok

(***************************************************************************)
(* The last thing to come that tells of k finds in the copy what it tells, *)
(* and when there is none the copy has what the renderer was told of.      *)
(***************************************************************************)
Follows(k, v, q, p, l) ==
  /\ \A i \in Last(q, About(k)) : q[i].op = "clear" => v = Absent
  /\ Hits(q, About(k)) = {} =>
       /\ \A i \in Last(p, About(k)) : Refused(p[i]) \/ l[p[i].at][k] = v
       /\ Hits(p, About(k)) = {} => l[Reach(p, l)][k] = v

FollowInv(a, q, p, l) ==
  a.loaded /\ ~a.lost => \A k \in Key : Follows(k, a.items[k], q, p, l)

Course(r, a, q, p, l) ==
  StampInv(p, l) /\ SentInv(a, q) /\ OwnEventInv(r, a, q, p) /\ FollowInv(a, q, p, l)

CourseInv ==
  \A r \in Renderer : Course(r, area[r], requests[r], inbox[r], log)

\* The last hit, after a message is added or taken.
LEMMA LastAppend ==
  ASSUME NEW M, NEW q \in Seq(M), NEW e \in M, NEW S
  PROVE  /\ e \in S => Last(Append(q, e), S) = {Len(q) + 1} /\ Hits(Append(q, e), S) # {}
         /\ e \notin S => /\ Last(Append(q, e), S) = Last(q, S)
                          /\ Hits(Append(q, e), S) = Hits(q, S)
         /\ Append(q, e)[Len(q) + 1] = e
         /\ \A i \in Last(q, S) : i \in 1..Len(q) /\ Append(q, e)[i] = q[i]
<1> DEFINE Q == Append(q, e)
           n == Len(q) + 1
<1>1. /\ Len(Q) = n /\ n \in Nat /\ Q[n] = e /\ Len(q) \in Nat
      /\ \A i \in 1..Len(q) : Q[i] = q[i]
  OBVIOUS
<1> HIDE DEF Q
<1>2. ASSUME e \in S PROVE Last(Q, S) = {n} /\ Hits(Q, S) # {}
  <2>1. n \in Hits(Q, S) /\ \A i \in Hits(Q, S) : i \in Int /\ i <= n
    BY <1>1, <1>2 DEF Hits
  <2>2. n \in Last(Q, S)
    BY <2>1 DEF Last
  <2>3. ASSUME NEW i \in Last(Q, S) PROVE i = n
    BY <1>1, <2>1 DEF Last
  <2> QED
    BY <2>1, <2>2, <2>3
<1>3. ASSUME e \notin S PROVE Hits(Q, S) = Hits(q, S)
  BY <1>1, <1>3 DEF Hits
<1>4. \A i \in Last(q, S) : i \in 1..Len(q)
  BY DEF Last, Hits
<1> QED
  BY <1>1, <1>2, <1>3, <1>4 DEF Last, Q

LEMMA LastTail ==
  ASSUME NEW M, NEW q \in Seq(M), q # <<>>, NEW S
  PROVE  /\ \A i \in Last(Tail(q), S) : i + 1 \in Last(q, S) /\ Tail(q)[i] = q[i + 1]
         /\ Hits(Tail(q), S) = {} /\ Head(q) \in S => 1 \in Last(q, S)
         /\ Hits(q, S) = {} <=> Hits(Tail(q), S) = {} /\ Head(q) \notin S
<1> DEFINE Q == Tail(q)
<1>1. /\ Len(q) \in Nat /\ Len(q) > 0 /\ Len(Q) = Len(q) - 1 /\ Head(q) = q[1]
      /\ \A i \in 1..Len(Q) : Q[i] = q[i + 1]
  OBVIOUS
<1> HIDE DEF Q
<1>2. \A i \in Hits(Q, S) : i + 1 \in Hits(q, S) /\ i \in Nat /\ Q[i] = q[i + 1]
  BY <1>1 DEF Hits
<1>3. ASSUME NEW j \in Hits(q, S), j # 1
      PROVE  j \in Int /\ j - 1 \in Hits(Q, S)
  <2>1. j - 1 \in 1..Len(Q) /\ j - 1 + 1 = j
    BY <1>1, <1>3 DEF Hits
  <2> QED
    BY <1>1, <1>3, <2>1 DEF Hits
<1>4. ASSUME NEW i \in Last(Q, S) PROVE i + 1 \in Last(q, S)
  <2>1. i \in Hits(Q, S) /\ \A j \in Hits(Q, S) : j <= i
    BY DEF Last
  <2>2. ASSUME NEW j \in Hits(q, S) PROVE j <= i + 1
    <3>1. CASE j = 1
      BY <1>2, <2>1, <3>1
    <3>2. CASE j # 1
      <4>1. j \in Int /\ j - 1 <= i /\ i \in Nat
        BY <1>2, <1>3, <2>1, <3>2
      <4> QED
        BY <4>1
    <3> QED
      BY <3>1, <3>2
  <2> QED
    BY <1>2, <2>1, <2>2 DEF Last
<1>5. 1 \in Hits(q, S) <=> Head(q) \in S
  BY <1>1 DEF Hits
<1>6. Hits(Q, S) = {} /\ Head(q) \in S => 1 \in Last(q, S)
  BY <1>3, <1>5 DEF Last
<1>7. Hits(q, S) = {} <=> Hits(Q, S) = {} /\ Head(q) \notin S
  BY <1>2, <1>3, <1>5
<1>8. \A i \in Last(Q, S) : Q[i] = q[i + 1]
  BY <1>2 DEF Last
<1> QED
  BY <1>4, <1>6, <1>7, <1>8 DEF Q

\* Nothing about k is no write of it and no reset.
LEMMA AboutFacts ==
  ASSUME NEW q, NEW k
  PROVE  Hits(q, About(k)) = {} <=> Hits(q, WriteMsg(k)) = {} /\ Hits(q, ResetMsg) = {}
BY DEF Hits, About

LEMMA StampTail ==
  ASSUME NEW l \in Seq(Map), NEW p \in Seq(Reply), p # <<>>, StampInv(p, l)
  PROVE  /\ StampInv(Tail(p), l)
         /\ Reach(p, l) = Before(Head(p)) /\ Reach(Tail(p), l) = Head(p).at
         /\ Head(p) \in Event => Does(Head(p), l)
<1> DEFINE P == Tail(p)
<1>1. /\ Len(p) \in Nat /\ Len(p) > 0 /\ Len(P) = Len(p) - 1 /\ Head(p) = p[1]
      /\ \A i \in 1..Len(P) : i + 1 \in 1..Len(p) /\ P[i] = p[i + 1]
  OBVIOUS
<1> HIDE DEF P
<1>2. StampInv(P, l)
  <2> SUFFICES ASSUME NEW i \in 1..Len(P)
               PROVE  /\ P[i].at \in 1..Len(l) /\ Before(P[i]) \in 1..Len(l)
                      /\ P[i].at = IF i = Len(P) THEN Len(l) ELSE Before(P[i + 1])
                      /\ P[i] \in Event => Does(P[i], l)
    BY DEF StampInv
  <2>1. i + 1 \in 1..Len(p) /\ P[i] = p[i + 1]
    BY <1>1
  <2>2. i = Len(P) <=> i + 1 = Len(p)
    BY <1>1
  <2>3. i # Len(P) => P[i + 1] = p[i + 1 + 1]
    BY <1>1
  <2> QED
    BY <2>1, <2>2, <2>3 DEF StampInv
<1>3. Reach(p, l) = Before(Head(p))
  BY <1>1 DEF Reach
<1>4. 1 \in 1..Len(p)
  BY <1>1
<1>5. /\ Head(p).at = IF 1 = Len(p) THEN Len(l) ELSE Before(p[1 + 1])
      /\ Head(p) \in Event => Does(Head(p), l)
  BY <1>1, <1>4 DEF StampInv
<1>6. Reach(P, l) = Head(p).at
  <2>1. CASE Len(p) = 1
    BY <1>1, <1>5, <2>1 DEF Reach
  <2>2. CASE Len(p) # 1
    <3>1. 1 \in 1..Len(P)
      BY <1>1, <2>2
    <3>2. Len(P) # 0 /\ P[1] = p[1 + 1]
      BY <1>1, <2>2, <3>1
    <3> QED
      BY <1>5, <2>2, <3>2 DEF Reach
  <2> QED
    BY <2>1, <2>2
<1> QED
  BY <1>2, <1>3, <1>5, <1>6 DEF P

\* The log L goes on from l, and e tells of it.
Extends(e, l, L) ==
  /\ l \in Seq(Map) /\ L \in Seq(Map)
  /\ Len(l) > 0 /\ Len(L) >= Len(l) /\ \A i \in 1..Len(l) : L[i] = l[i]
  /\ e.at = Len(L) /\ Before(e) = Len(l)
  /\ e \in Event => Does(e, L)

LEMMA DoesStill ==
  ASSUME NEW l, NEW L, NEW n \in Nat, NEW e \in Event, \A i \in 1..n : L[i] = l[i],
         e.at \in 1..n, e.at - 1 \in 1..n, Does(e, l)
  PROVE  Does(e, L)
BY DEF Does

LEMMA StampAppended ==
  ASSUME NEW l, NEW L, NEW p \in Seq(Reply), NEW e \in Reply,
         StampInv(p, l), Extends(e, l, L)
  PROVE  /\ StampInv(Append(p, e), L)
         /\ Reach(Append(p, e), L) = Reach(p, l) /\ Reach(p, l) \in 1..Len(l)
         /\ \A i \in 1..Len(p) : p[i].at \in 1..Len(l)
<1> DEFINE P == Append(p, e)
           n == Len(p) + 1
<1>1. /\ Len(P) = n /\ n \in Nat /\ P[n] = e /\ Len(p) \in Nat
      /\ \A i \in 1..Len(p) : P[i] = p[i] /\ p[i] \in Reply
  OBVIOUS
<1> HIDE DEF P
<1>2. /\ Len(l) \in Nat /\ Len(L) \in Nat /\ Len(l) > 0 /\ Len(L) >= Len(l)
      /\ \A i \in 1..Len(l) : L[i] = l[i]
      /\ e.at = Len(L) /\ Before(e) = Len(l)
      /\ e \in Event => Does(e, L)
  BY DEF Extends
<1>3. ASSUME NEW i \in 1..Len(p)
      PROVE  /\ P[i].at \in 1..Len(l) /\ Before(P[i]) \in 1..Len(l)
             /\ P[i].at = Before(P[i + 1])
             /\ P[i] \in Event => Does(P[i], L)
  <2>1. /\ p[i].at \in 1..Len(l) /\ Before(p[i]) \in 1..Len(l)
        /\ p[i].at = IF i = Len(p) THEN Len(l) ELSE Before(p[i + 1])
        /\ p[i] \in Event => Does(p[i], l)
    BY DEF StampInv
  <2>2. P[i + 1] = IF i = Len(p) THEN e ELSE p[i + 1]
    BY <1>1
  <2>3. p[i] \in Event => p[i].at - 1 \in 1..Len(l)
    BY <2>1 DEF Before
  <2>4. p[i] \in Event => Does(p[i], L)
    BY <1>2, <2>1, <2>3, DoesStill
  <2>5. p[i].at = Before(P[i + 1])
    BY <1>2, <2>1, <2>2
  <2> QED
    BY <1>1, <2>1, <2>4, <2>5, Zenon
<1>4. ASSUME NEW i \in 1..n
      PROVE  /\ P[i].at \in 1..Len(L) /\ Before(P[i]) \in 1..Len(L)
             /\ P[i].at = IF i = n THEN Len(L) ELSE Before(P[i + 1])
             /\ P[i] \in Event => Does(P[i], L)
  <2>1. CASE i = n
    <3>1. Len(L) \in 1..Len(L) /\ Len(l) \in 1..Len(L)
      BY <1>2
    <3>2. P[i] = e
      BY <1>1, <2>1
    <3>3. e.at \in 1..Len(L) /\ Before(e) \in 1..Len(L)
      BY <1>2, <3>1
    <3> QED
      BY <1>2, <2>1, <3>2, <3>3, Zenon
  <2>2. CASE i # n
    <3>1. i \in 1..Len(p)
      BY <1>1, <2>2
    <3>2. \A j \in 1..Len(l) : j \in 1..Len(L)
      BY <1>2
    <3> QED
      BY <1>3, <2>2, <3>1, <3>2
  <2> QED
    BY <2>1, <2>2
<1>5. StampInv(P, L)
  BY <1>1, <1>4 DEF StampInv
<1>6. Reach(P, L) = Reach(p, l) /\ Reach(p, l) \in 1..Len(l)
  <2>1. CASE Len(p) = 0
    <3>1. P[1] = e /\ Len(P) # 0
      BY <1>1, <2>1
    <3>2. Reach(P, L) = Len(l) /\ Reach(p, l) = Len(l)
      BY <1>2, <2>1, <3>1 DEF Reach
    <3>3. Len(l) \in 1..Len(l)
      BY <1>2
    <3> QED
      BY <3>2, <3>3
  <2>2. CASE Len(p) # 0
    <3>1. 1 \in 1..Len(p) /\ Len(P) # 0
      BY <1>1, <2>2
    <3>2. P[1] = p[1] /\ Before(P[1]) \in 1..Len(l)
      BY <1>1, <1>3, <3>1
    <3> QED
      BY <2>2, <3>1, <3>2 DEF Reach
  <2> QED
    BY <2>1, <2>2
<1> QED
  BY <1>1, <1>3, <1>5, <1>6 DEF P

LEMMA StampOrphaned ==
  ASSUME NEW l, NEW p \in Seq(Reply), StampInv(p, l)
  PROVE  StampInv(Orphaned(p), l)
<1> DEFINE P == Orphaned(p)
<1>1. /\ P \in Seq(Reply) /\ Len(P) = Len(p)
      /\ \A i \in 1..Len(p) : P[i] = [p[i] EXCEPT !.callback = FALSE]
  BY OrphanedHits, ReplyFacts
<1> HIDE DEF P
<1>2. ASSUME NEW m \in Reply, NEW w, w = [m EXCEPT !.callback = FALSE]
      PROVE  /\ w.at = m.at /\ w.op = m.op
             /\ m \in Event => w \in Event /\ w = m
             /\ w \in Event => m \in Event
  <2>1. w.at = m.at /\ w.op = m.op
    BY <1>2 DEF Reply, Event, Answer
  <2>2. m \in Event => w = m
    BY <1>2 DEF Event
  <2>3. w \in Event => m \in Event
    <3>1. w \in Event => w.op \in {"changed", "cleared"}
      BY DEF Event
    <3> QED
      BY <2>1, <3>1, ReplyFacts
  <2> QED
    BY <2>1, <2>2, <2>3
<1>3. ASSUME NEW i \in 1..Len(p)
      PROVE  P[i].at = p[i].at /\ Before(P[i]) = Before(p[i])
             /\ (P[i] \in Event => p[i] \in Event /\ P[i] = p[i])
  <2>1. p[i] \in Reply
    OBVIOUS
  <2>2. /\ P[i].at = p[i].at /\ (p[i] \in Event <=> P[i] \in Event)
        /\ p[i] \in Event => P[i] = p[i]
    BY <1>1, <1>2, <2>1
  <2> QED
    BY <2>2 DEF Before
<1>4. Len(p) \in Nat
  OBVIOUS
<1>5. ASSUME NEW i \in 1..Len(p)
      PROVE  /\ P[i].at \in 1..Len(l) /\ Before(P[i]) \in 1..Len(l)
             /\ P[i].at = IF i = Len(p) THEN Len(l) ELSE Before(P[i + 1])
             /\ P[i] \in Event => Does(P[i], l)
  <2>1. i # Len(p) => i + 1 \in 1..Len(p)
    BY <1>4
  <2>2. /\ p[i].at \in 1..Len(l) /\ Before(p[i]) \in 1..Len(l)
        /\ p[i].at = IF i = Len(p) THEN Len(l) ELSE Before(p[i + 1])
        /\ p[i] \in Event => Does(p[i], l)
    BY DEF StampInv
  <2> QED
    BY <1>3, <2>1, <2>2
<1> QED
  BY <1>1, <1>5 DEF StampInv, P

\* A message that is not about k comes.
LEMMA FollowsAppended ==
  ASSUME NEW k \in Key, NEW v, NEW q, NEW l, NEW L, NEW p \in Seq(Reply), NEW e \in Reply,
         Follows(k, v, q, p, l), StampInv(p, l), Extends(e, l, L), e \notin About(k)
  PROVE  Follows(k, v, q, Append(p, e), L)
<1> DEFINE P == Append(p, e)
           A == About(k)
<1>1. /\ Last(P, A) = Last(p, A) /\ Hits(P, A) = Hits(p, A)
      /\ \A i \in Last(p, A) : i \in 1..Len(p) /\ P[i] = p[i]
  BY LastAppend
<1>2. /\ Reach(P, L) = Reach(p, l) /\ Reach(p, l) \in 1..Len(l)
      /\ \A i \in 1..Len(p) : p[i].at \in 1..Len(l)
  BY StampAppended
<1>3. \A i \in 1..Len(l) : L[i] = l[i]
  BY DEF Extends
<1> HIDE DEF P
<1>4. ASSUME Hits(q, A) = {}, NEW i \in Last(P, A)
      PROVE  Refused(P[i]) \/ L[P[i].at][k] = v
  <2>1. Refused(p[i]) \/ l[p[i].at][k] = v
    BY <1>1, <1>4 DEF Follows
  <2>2. P[i] = p[i] /\ L[p[i].at] = l[p[i].at]
    BY <1>1, <1>2, <1>3, <1>4
  <2> QED
    BY <2>1, <2>2
<1>5. Hits(q, A) = {} /\ Hits(P, A) = {} => L[Reach(P, L)][k] = v
  BY <1>1, <1>2, <1>3 DEF Follows
<1> QED
  BY <1>4, <1>5 DEF Follows, P

\* A message is taken, whereby the item becomes w.
LEMMA FollowsTail ==
  ASSUME NEW k \in Key, NEW v, NEW w, NEW q, NEW l \in Seq(Map), NEW p \in Seq(Reply),
         p # <<>>, Follows(k, v, q, p, l), StampInv(p, l),
         Head(p) \in About(k) => ~Refused(Head(p)),
         Hits(q, About(k)) # {} \/ Hits(p, About(k)) # {} => w = v,
         Hits(q, About(k)) = {} /\ Hits(p, About(k)) = {} => l[Head(p).at][k] = w
  PROVE  Follows(k, w, q, Tail(p), l)
<1> DEFINE P == Tail(p)
           A == About(k)
<1>1. /\ \A i \in Last(P, A) : i + 1 \in Last(p, A) /\ P[i] = p[i + 1]
      /\ Hits(P, A) = {} /\ Head(p) \in A => 1 \in Last(p, A)
      /\ Hits(p, A) = {} <=> Hits(P, A) = {} /\ Head(p) \notin A
  BY LastTail
<1>0. Head(p) = p[1]
  OBVIOUS
<1>2. Reach(P, l) = Head(p).at
  BY StampTail
<1> HIDE DEF P, A
<1>3. ASSUME NEW i \in Last(q, A), q[i].op = "clear" PROVE w = Absent
  <2>1. v = Absent
    BY <1>3 DEF Follows, A
  <2>2. Hits(q, A) # {}
    BY <1>3 DEF Last
  <2> QED
    BY <2>1, <2>2 DEF A
<1>4. ASSUME Hits(q, A) = {}, NEW i \in Last(P, A)
      PROVE  Refused(P[i]) \/ l[P[i].at][k] = w
  <2>1. i + 1 \in Last(p, A) /\ P[i] = p[i + 1]
    BY <1>1, <1>4
  <2>2. Refused(p[i + 1]) \/ l[p[i + 1].at][k] = v
    BY <1>4, <2>1 DEF Follows, A
  <2>3. Hits(p, A) # {}
    BY <2>1 DEF Last
  <2> QED
    BY <2>1, <2>2, <2>3 DEF A
<1>5. ASSUME Hits(q, A) = {}, Hits(P, A) = {} PROVE l[Reach(P, l)][k] = w
  <2>1. CASE Head(p) \in A
    <3>1. 1 \in Last(p, A) /\ Hits(p, A) # {}
      BY <1>1, <1>5, <2>1
    <3>2. Refused(p[1]) \/ l[p[1].at][k] = v
      BY <1>5, <3>1 DEF Follows, A
    <3> QED
      BY <1>0, <1>2, <2>1, <3>1, <3>2 DEF A
  <2>2. CASE Head(p) \notin A
    BY <1>1, <1>2, <1>5, <2>2 DEF A
  <2> QED
    BY <2>1, <2>2
<1> QED
  BY <1>3, <1>4, <1>5 DEF Follows, P, A

LEMMA OwnTail ==
  ASSUME NEW r, NEW a, NEW q, NEW p \in Seq(Reply), p # <<>>, OwnEventInv(r, a, q, p)
  PROVE  OwnEventInv(r, a, q, Tail(p))
<1> DEFINE P == Tail(p)
<1>1. /\ Len(p) \in Nat /\ Len(p) > 0 /\ Len(P) = Len(p) - 1
      /\ \A i \in 1..Len(P) : i + 1 \in 1..Len(p) /\ P[i] = p[i + 1]
  OBVIOUS
<1> HIDE DEF P
<1> SUFFICES ASSUME a.loaded, Hits(q, ResetMsg) = {}, NEW i \in 1..Len(P),
                    P[i] \in Event, P[i].source = r
             PROVE  \E j \in i + 1..Len(P) :
                      P[j] \in ResetMsg \/ (P[i].op = "changed" /\ P[j] \in WriteMsg(P[i].key))
  BY DEF OwnEventInv, P
<1>2. i + 1 \in 1..Len(p) /\ P[i] = p[i + 1]
  BY <1>1
<1>3. PICK j \in i + 1 + 1..Len(p) :
        p[j] \in ResetMsg \/ (p[i + 1].op = "changed" /\ p[j] \in WriteMsg(p[i + 1].key))
  BY <1>2 DEF OwnEventInv
<1> DEFINE m == j - 1
<1>4. m \in i + 1..Len(P) /\ P[m] = p[j]
  BY <1>1
<1> HIDE DEF m
<1> QED
  BY <1>2, <1>3, <1>4

\* Nothing in q tells of k.
Quiet(q, k) == Hits(q, About(k)) = {}

\* Without a write or reset to come nothing is ignored.
LEMMA NothingAbout ==
  ASSUME NEW a, NEW q \in Seq(Request), NEW p \in Seq(Reply), CountInv(a, q, p),
         NEW k \in Key
  PROVE  Quiet(q, k) /\ Quiet(p, k) <=> a.ignored[k] = 0 /\ ~a.ignoreAll
<1>1. /\ Count(q, WriteMsg(k)) \in Nat /\ Count(p, WriteMsg(k)) \in Nat
      /\ Count(q, ResetMsg) \in Nat /\ Count(p, ResetMsg) \in Nat
  BY Counts
<1>2. /\ Count(q, WriteMsg(k)) = 0 <=> Hits(q, WriteMsg(k)) = {}
      /\ Count(p, WriteMsg(k)) = 0 <=> Hits(p, WriteMsg(k)) = {}
      /\ Count(q, ResetMsg) = 0 <=> Hits(q, ResetMsg) = {}
      /\ Count(p, ResetMsg) = 0 <=> Hits(p, ResetMsg) = {}
  BY CountZero
<1>3. /\ a.ignored[k] = Count(p, WriteMsg(k)) + Count(q, WriteMsg(k))
      /\ Count(p, ResetMsg) + Count(q, ResetMsg) = IF a.ignoreAll THEN 1 ELSE 0
  BY DEF CountInv
<1>4. /\ Hits(q, About(k)) = {} <=> Hits(q, WriteMsg(k)) = {} /\ Hits(q, ResetMsg) = {}
      /\ Hits(p, About(k)) = {} <=> Hits(p, WriteMsg(k)) = {} /\ Hits(p, ResetMsg) = {}
  BY AboutFacts
<1>5. ASSUME Hits(q, About(k)) = {}, Hits(p, About(k)) = {}
      PROVE  a.ignored[k] = 0 /\ ~a.ignoreAll
  BY <1>2, <1>3, <1>4, <1>5
<1>6. ASSUME a.ignored[k] = 0, ~a.ignoreAll
      PROVE  Hits(q, About(k)) = {} /\ Hits(p, About(k)) = {}
  BY <1>1, <1>2, <1>3, <1>4, <1>6
<1> QED
  BY <1>5, <1>6 DEF Quiet

LEMMA EventAboutNothing ==
  ASSUME NEW e \in Reply, ~e.callback
  PROVE  \A k \in Key : e \notin About(k)
BY ReplyFacts DEF About

\* A message that asks for nothing, or an event that is skipped.
LEMMA SkippedCourse ==
  ASSUME NEW r, NEW a \in Area, NEW c, NEW q \in Seq(Request), NEW p \in Seq(Reply),
         NEW l \in Seq(Map), p # <<>>, ~Head(p).callback,
         Inv(a, c, q, p), Course(r, a, q, p, l),
         Head(p) \in Event => Skips(a) \/ Head(p).source = r
  PROVE  Course(r, a, q, Tail(p), l)
<1> DEFINE e == Head(p)
<1>1. /\ e \in Reply /\ e = p[1] /\ 1 \in 1..Len(p)
  OBVIOUS
<1>2. \A k \in Key : e \notin About(k)
  BY <1>1, EventAboutNothing
<1>3. /\ StampInv(p, l) /\ SentInv(a, q) /\ OwnEventInv(r, a, q, p) /\ FollowInv(a, q, p, l)
  BY DEF Course
<1>4. /\ StampInv(Tail(p), l) /\ Reach(p, l) = Before(e)
      /\ e \in Event => Does(e, l)
  BY <1>3, StampTail
<1>5. OwnEventInv(r, a, q, Tail(p))
  BY <1>3, OwnTail
<1>6. ASSUME a.loaded, ~a.lost, NEW k \in Key
      PROVE  Follows(k, a.items[k], q, Tail(p), l)
  <2>1. Follows(k, a.items[k], q, p, l)
    BY <1>3, <1>6 DEF FollowInv
  <2>2. ASSUME Hits(q, About(k)) = {}, Hits(p, About(k)) = {}
        PROVE  l[e.at][k] = a.items[k]
    <3>1. l[Before(e)][k] = a.items[k]
      BY <1>4, <2>1, <2>2 DEF Follows
    <3>2. CASE e \notin Event
      BY <3>1, <3>2 DEF Before
    <3>3. CASE e \in Event
      <4>1. ~Skips(a)
        <5>1. CountInv(a, q, p) /\ Quiet(q, k) /\ Quiet(p, k)
          BY <2>2 DEF Inv, Quiet
        <5>2. ~a.ignoreAll
          BY <5>1, NothingAbout
        <5> QED
          BY <1>6, <5>2 DEF Skips
      <4>2. e.source = r
        BY <3>3, <4>1
      <4>3. Hits(q, ResetMsg) = {} /\ Hits(p, ResetMsg) = {} /\ Hits(p, WriteMsg(k)) = {}
        BY <2>2, AboutFacts
      <4>4. PICK j \in 1 + 1..Len(p) :
              p[j] \in ResetMsg \/ (e.op = "changed" /\ p[j] \in WriteMsg(e.key))
        BY <1>1, <1>3, <1>6, <3>3, <4>2, <4>3 DEF OwnEventInv
      <4>5. j \in 1..Len(p)
        BY <4>4
      <4>6. p[j] \notin ResetMsg /\ p[j] \notin WriteMsg(k)
        BY <4>3, <4>5 DEF Hits
      <4>7. e.op = "changed" /\ e.key # k
        BY <4>4, <4>6
      <4> QED
        BY <1>4, <3>1, <3>3, <4>7 DEF Does, Before
    <3> QED
      BY <3>2, <3>3
  <2> QED
    BY <1>2, <1>3, <2>1, <2>2, FollowsTail
<1> QED
  BY <1>3, <1>4, <1>5, <1>6 DEF Course, FollowInv

\* An event that changes what is not ignored.
LEMMA ChangedCourse ==
  ASSUME NEW r, NEW a \in Area, NEW b \in Area, NEW c,
         NEW q \in Seq(Request), NEW p \in Seq(Reply),
         NEW l \in Seq(Map), p # <<>>, Head(p) \in Event,
         Inv(a, c, q, p), Course(r, a, q, p, l), a.loaded, ~a.ignoreAll,
         ~b.lost => ~a.lost,
         ~b.lost => \A k \in Key :
           b.items[k] = IF a.ignored[k] # 0 THEN a.items[k]
                        ELSE IF Head(p).op = "cleared" THEN Absent
                        ELSE IF Head(p).key = k THEN Head(p).value ELSE a.items[k]
  PROVE  Course(r, b, q, Tail(p), l)
<1> DEFINE e == Head(p)
<1>1. e \in Reply /\ ~e.callback
  BY DEF Reply, Event
<1>2. \A k \in Key : e \notin About(k)
  BY <1>1, EventAboutNothing
<1>3. /\ StampInv(p, l) /\ SentInv(a, q) /\ OwnEventInv(r, a, q, p) /\ FollowInv(a, q, p, l)
  BY DEF Course
<1>4. /\ StampInv(Tail(p), l) /\ Reach(p, l) = Before(e) /\ Does(e, l)
  BY <1>3, StampTail
<1>5. OwnEventInv(r, b, q, Tail(p)) /\ SentInv(b, q)
  <2>1. OwnEventInv(r, a, q, Tail(p))
    BY <1>3, OwnTail
  <2> QED
    BY <1>3, <2>1 DEF OwnEventInv, SentInv
<1>6. ASSUME ~b.lost, NEW k \in Key
      PROVE  Follows(k, b.items[k], q, Tail(p), l)
  <2>1. Follows(k, a.items[k], q, p, l)
    BY <1>3, <1>6 DEF FollowInv
  <2>2. b.items[k] = IF a.ignored[k] # 0 THEN a.items[k]
                     ELSE IF e.op = "cleared" THEN Absent
                     ELSE IF e.key = k THEN e.value ELSE a.items[k]
    BY <1>6
  <2>3. Hits(q, About(k)) # {} \/ Hits(p, About(k)) # {} => b.items[k] = a.items[k]
    <3>1. CountInv(a, q, p)
      BY DEF Inv
    <3>2. a.ignored[k] = 0 => Quiet(q, k) /\ Quiet(p, k)
      BY <3>1, NothingAbout
    <3> QED
      BY <2>2, <3>2 DEF Quiet
  <2>4. ASSUME Hits(q, About(k)) = {}, Hits(p, About(k)) = {}
        PROVE  l[e.at][k] = b.items[k]
    <3>1. l[e.at - 1][k] = a.items[k]
      BY <1>4, <2>1, <2>4 DEF Follows, Before
    <3>2. a.ignored[k] = 0
      <4>1. CountInv(a, q, p) /\ Quiet(q, k) /\ Quiet(p, k)
        BY <2>4 DEF Inv, Quiet
      <4> QED
        BY <4>1, NothingAbout
    <3> QED
      BY <1>4, <2>2, <3>1, <3>2 DEF Does
  <2> QED
    BY <1>2, <1>3, <2>1, <2>3, <2>4, FollowsTail
<1> QED
  BY <1>4, <1>5, <1>6 DEF Course, FollowInv

\* An answer after which less is ignored.
LEMMA AnsweredCourse ==
  ASSUME NEW r, NEW a \in Area, NEW b \in Area, NEW q \in Seq(Request), NEW p \in Seq(Reply),
         NEW l \in Seq(Map), p # <<>>, Head(p) \notin Event, ~Refused(Head(p)),
         Course(r, a, q, p, l),
         b.items = a.items, b.loaded = a.loaded, b.lost = a.lost
  PROVE  Course(r, b, q, Tail(p), l)
<1>1. /\ StampInv(p, l) /\ SentInv(a, q) /\ OwnEventInv(r, a, q, p) /\ FollowInv(a, q, p, l)
  BY DEF Course
<1>2. /\ StampInv(Tail(p), l) /\ Reach(p, l) = Head(p).at
  BY <1>1, StampTail DEF Before
<1>3. OwnEventInv(r, b, q, Tail(p)) /\ SentInv(b, q)
  <2>1. OwnEventInv(r, a, q, Tail(p))
    BY <1>1, OwnTail
  <2> QED
    BY <1>1, <2>1 DEF OwnEventInv, SentInv
<1>4. ASSUME a.loaded, ~a.lost, NEW k \in Key
      PROVE  Follows(k, a.items[k], q, Tail(p), l)
  <2>1. Follows(k, a.items[k], q, p, l)
    BY <1>1, <1>4 DEF FollowInv
  <2>2. Hits(q, About(k)) = {} /\ Hits(p, About(k)) = {} => l[Head(p).at][k] = a.items[k]
    BY <1>2, <2>1 DEF Follows
  <2> QED
    BY <1>1, <2>1, <2>2, FollowsTail
<1> QED
  BY <1>2, <1>3, <1>4 DEF Course, FollowInv

\* A copy that is not there follows nothing.
LEMMA UnloadedCourse ==
  ASSUME NEW r, NEW b, NEW q, NEW p, NEW l, ~b.loaded, StampInv(p, l)
  PROVE  Course(r, b, q, p, l)
BY DEF Course, SentInv, OwnEventInv, FollowInv

LEMMA ClearCourse ==
  ASSUME NEW r, NEW q \in Seq(Request), NEW p \in Seq(Reply), NEW l, StampInv(p, l)
  PROVE  LET b == [NoItems EXCEPT !.loaded = TRUE, !.ignoreAll = TRUE]
             m == [op |-> "clear", callback |-> TRUE]
         IN  Course(r, b, Append(Orphaned(q), m), Orphaned(p), l)
<1> DEFINE b == [NoItems EXCEPT !.loaded = TRUE, !.ignoreAll = TRUE]
           m == [op |-> "clear", callback |-> TRUE]
           Q == Orphaned(q)
           R == Append(Q, m)
<1>1. m \in Request
  BY DEF Request
<1>2. m \in ResetMsg
  BY <1>1, RequestFacts
<1>3. Q \in Seq(Request)
  BY OrphanedRequests
<1>4. /\ Len(R) = Len(Q) + 1 /\ Len(Q) \in Nat /\ R[Len(R)] = m
  BY <1>1, <1>3
<1>5. \A k \in Key : b.items[k] = Absent
  BY DEF NoItems, Empty
<1>6. Hits(R, ResetMsg) # {} /\ \A k : Hits(R, About(k)) # {}
  BY <1>2, <1>4 DEF Hits, About
<1>7. m.callback
  OBVIOUS
<1> HIDE DEF R, Q, b
<1>8. SentInv(b, R)
  <2> SUFFICES ASSUME NEW i \in 1..Len(R), ~R[i].callback
               PROVE  \E j \in i + 1..Len(R) : R[j] \in ResetMsg
    BY DEF SentInv
  <2>1. i # Len(R)
    BY <1>4, <1>7
  <2>2. Len(R) \in i + 1..Len(R)
    BY <1>4, <2>1
  <2> QED
    BY <1>2, <1>4, <2>2
<1>9. OwnEventInv(r, b, R, Orphaned(p)) /\ FollowInv(b, R, Orphaned(p), l)
  BY <1>5, <1>6 DEF OwnEventInv, FollowInv, Follows
<1>10. StampInv(Orphaned(p), l)
  BY StampOrphaned
<1> QED
  BY <1>8, <1>9, <1>10 DEF Course, R, Q, b

\* What a renderer writes has its callback, and is the last about its key.
LEMMA WriteCourse ==
  ASSUME NEW r, NEW a \in Area, NEW d \in Waiting, NEW q \in Seq(Request),
         NEW p \in Seq(Reply), NEW l, Course(r, a, q, p, l)
  PROVE  Course(r, AreaAfter(d, a), q \o Sends(d, a), p, l)
<1>1. CASE ~Stores(d, a.items)
  <2>1. AreaAfter(d, a) = a /\ q \o Sends(d, a) = q
    BY <1>1 DEF AreaAfter, Sends
  <2> QED
    BY <2>1
<1>2. CASE Stores(d, a.items)
  <2> DEFINE m == [op |-> "set", key |-> d.key, value |-> d.value, callback |-> TRUE]
             b == AreaAfter(d, a)
             Q == Append(q, m)
  <2>1. m \in Request /\ m.callback /\ m.op = "set"
    BY <1>2, WriteFacts
  <2>2. /\ m \notin ResetMsg
        /\ \A k \in Key : m \in WriteMsg(k) <=> k = d.key
        /\ b.loaded = a.loaded /\ b.lost = a.lost
        /\ \A k \in Key : b.items[k] = IF k = d.key THEN d.value ELSE a.items[k]
    BY <1>2, WriteFacts
  <2>3. q \o Sends(d, a) = Q
    BY <1>2 DEF Sends
  <2>4. /\ Len(Q) = Len(q) + 1 /\ Len(q) \in Nat /\ Q[Len(Q)] = m
        /\ \A i \in 1..Len(q) : Q[i] = q[i]
    BY <2>1
  <2> HIDE DEF b, m
  <2>5. ASSUME NEW S
        PROVE  /\ m \in S => Last(Q, S) = {Len(q) + 1} /\ Hits(Q, S) # {}
               /\ m \notin S => Last(Q, S) = Last(q, S) /\ Hits(Q, S) = Hits(q, S)
               /\ \A i \in Last(q, S) : Q[i] = q[i]
    <3>1. /\ m \in S => Last(Q, S) = {Len(q) + 1} /\ Hits(Q, S) # {}
          /\ m \notin S => Last(Q, S) = Last(q, S) /\ Hits(Q, S) = Hits(q, S)
      BY <2>1, LastAppend
    <3>2. \A i \in Last(q, S) : Q[i] = q[i]
      BY <2>4 DEF Last, Hits
    <3> QED
      BY <3>1, <3>2
  <2>6. /\ StampInv(p, l) /\ SentInv(a, q) /\ OwnEventInv(r, a, q, p) /\ FollowInv(a, q, p, l)
    BY DEF Course
  <2> HIDE DEF Q
  <2>7. SentInv(b, Q)
    <3> SUFFICES ASSUME a.loaded, NEW i \in 1..Len(Q), ~Q[i].callback
                 PROVE  \E j \in i + 1..Len(Q) : Q[j] \in ResetMsg
      BY <2>2 DEF SentInv
    <3>1. i \in 1..Len(q) /\ Q[i] = q[i]
      BY <2>1, <2>4
    <3>2. PICK j \in i + 1..Len(q) : q[j] \in ResetMsg
      BY <2>6, <3>1 DEF SentInv
    <3>3. j \in i + 1..Len(Q) /\ Q[j] = q[j]
      BY <2>4, <3>1
    <3> QED
      BY <3>2, <3>3
  <2>8. OwnEventInv(r, b, Q, p)
    BY <2>2, <2>5, <2>6 DEF OwnEventInv
  <2>9. ASSUME a.loaded, ~a.lost, NEW k \in Key PROVE Follows(k, b.items[k], Q, p, l)
    <3>1. Follows(k, a.items[k], q, p, l)
      BY <2>6, <2>9 DEF FollowInv
    <3>2. CASE k = d.key
      <4>1. m \in About(k)
        BY <2>2, <3>2 DEF About
      <4>2. \A i \in Last(Q, About(k)) : Q[i].op = "set"
        BY <2>1, <2>4, <2>5, <4>1
      <4>3. Hits(Q, About(k)) # {}
        BY <2>5, <4>1
      <4> QED
        BY <4>2, <4>3 DEF Follows
    <3>3. CASE k # d.key
      <4>1. m \notin About(k) /\ b.items[k] = a.items[k]
        BY <2>2, <3>3 DEF About
      <4>2. /\ Last(Q, About(k)) = Last(q, About(k)) /\ Hits(Q, About(k)) = Hits(q, About(k))
            /\ \A i \in Last(q, About(k)) : Q[i] = q[i]
        BY <2>5, <4>1
      <4> QED
        BY <3>1, <4>1, <4>2 DEF Follows
    <3> QED
      BY <3>2, <3>3
  <2>10. FollowInv(b, Q, p, l)
    BY <2>2, <2>9 DEF FollowInv
  <2> QED
    BY <2>3, <2>6, <2>7, <2>8, <2>10 DEF Course, b
<1> QED
  BY <1>1, <1>2

\* An event of others comes.
LEMMA EventCourse ==
  ASSUME NEW r, NEW a \in Area, NEW q \in Seq(Request), NEW p \in Seq(Reply),
         NEW l, NEW L, NEW e \in Event, e.source # r, Extends(e, l, L),
         Course(r, a, q, p, l)
  PROVE  Course(r, a, q, Append(p, e), L)
<1> DEFINE P == Append(p, e)
<1>1. e \in Reply /\ ~e.callback
  BY DEF Reply, Event
<1>2. /\ StampInv(p, l) /\ SentInv(a, q) /\ OwnEventInv(r, a, q, p) /\ FollowInv(a, q, p, l)
  BY DEF Course
<1>3. StampInv(P, L)
  BY <1>1, <1>2, StampAppended
<1>4. FollowInv(a, q, P, L)
  BY <1>1, <1>2, EventAboutNothing, FollowsAppended DEF FollowInv
<1>5. /\ Len(P) = Len(p) + 1 /\ Len(p) \in Nat /\ P[Len(P)] = e
      /\ \A i \in 1..Len(p) : P[i] = p[i]
  BY <1>1
<1> HIDE DEF P
<1>6. OwnEventInv(r, a, q, P)
  <2> SUFFICES ASSUME a.loaded, Hits(q, ResetMsg) = {}, NEW i \in 1..Len(P),
                      P[i] \in Event, P[i].source = r
               PROVE  \E j \in i + 1..Len(P) :
                        P[j] \in ResetMsg \/ (P[i].op = "changed" /\ P[j] \in WriteMsg(P[i].key))
    BY DEF OwnEventInv
  <2>1. i \in 1..Len(p) /\ P[i] = p[i]
    BY <1>5
  <2>2. PICK j \in i + 1..Len(p) :
          p[j] \in ResetMsg \/ (p[i].op = "changed" /\ p[j] \in WriteMsg(p[i].key))
    BY <1>2, <2>1 DEF OwnEventInv
  <2>3. j \in i + 1..Len(P) /\ P[j] = p[j]
    BY <1>5, <2>1
  <2> QED
    BY <2>1, <2>2, <2>3
<1> QED
  BY <1>2, <1>3, <1>4, <1>6 DEF Course, P

\* The copy has the map of the browser, up to which the inbox leads.
LEMMA LoadedCourse ==
  ASSUME NEW r, NEW a \in Area, NEW q \in Seq(Request), NEW p \in Seq(Reply),
         NEW l \in Seq(Map), Len(l) > 0, NEW e \in Reply, e \notin Event,
         e \in ResetMsg, e.at = Len(l), Len(q) = 1, StampInv(p, l)
  PROVE  LET b == [a EXCEPT !.loaded = TRUE, !.items = l[Len(l)]]
         IN  Course(r, b, Tail(q), Append(p, e), l)
<1> DEFINE b == [a EXCEPT !.loaded = TRUE, !.items = l[Len(l)]]
           P == Append(p, e)
           Q == Tail(q)
<1>1. b.items = l[Len(l)]
  BY DEF Area
<1>2. 1..Len(Q) = {}
  <2>1. Len(Q) = 0
    OBVIOUS
  <2>2. 1..0 = {}
    OBVIOUS
  <2> QED
    BY <2>1, <2>2, Zenon
<1>3. /\ Len(P) = Len(p) + 1 /\ Len(p) \in Nat /\ P[Len(P)] = e
  OBVIOUS
<1>4. StampInv(P, l)
  <2>1. Extends(e, l, l)
    BY DEF Extends, Before
  <2> QED
    BY <2>1, StampAppended
<1>5. ASSUME NEW k PROVE Last(P, About(k)) = {Len(p) + 1} /\ Hits(P, About(k)) # {}
  <2>1. e \in About(k)
    BY DEF About
  <2> QED
    BY <2>1, LastAppend
<1> HIDE DEF P, Q, b
<1>6. SentInv(b, Q) /\ \A S : Hits(Q, S) = {} /\ Last(Q, S) = {}
  BY <1>2 DEF SentInv, Hits, Last
<1>7. OwnEventInv(r, b, Q, P)
  <2> SUFFICES ASSUME NEW i \in 1..Len(P), P[i] \in Event
               PROVE  \E j \in i + 1..Len(P) : P[j] \in ResetMsg
    BY DEF OwnEventInv
  <2>1. i # Len(P)
    BY <1>3
  <2>2. Len(P) \in i + 1..Len(P)
    BY <1>3, <2>1
  <2> QED
    BY <1>3, <2>2
<1>8. ASSUME NEW k \in Key PROVE Follows(k, b.items[k], Q, P, l)
  <2>1. \A i \in Last(P, About(k)) : l[P[i].at][k] = b.items[k]
    BY <1>1, <1>3, <1>5
  <2> QED
    BY <1>5, <1>6, <2>1 DEF Follows
<1> QED
  BY <1>4, <1>6, <1>7, <1>8 DEF Course, FollowInv, P, Q, b

\* What is in the inbox p while request h is served: its event may be the last.
ServingInv(r, a, h, q, p) ==
  a.loaded /\ h.op = "set" /\ Hits(q, ResetMsg) = {} => \A i \in 1..Len(p) :
    p[i] \in Event /\ p[i].source = r =>
      \/ p[i].op = "changed" /\ p[i].key = h.key
      \/ \E j \in i + 1..Len(p) :
           p[j] \in ResetMsg \/ (p[i].op = "changed" /\ p[j] \in WriteMsg(p[i].key))

LEMMA OwnEventComes ==
  ASSUME NEW r, NEW a, NEW h, NEW q, NEW p \in Seq(Reply), NEW e \in Event,
         OwnEventInv(r, a, q, p), h.op = "set" => e.op = "changed" /\ e.key = h.key
  PROVE  ServingInv(r, a, h, q, Append(p, e))
<1> DEFINE P == Append(p, e)
<1>1. /\ Len(P) = Len(p) + 1 /\ Len(p) \in Nat /\ P[Len(P)] = e
      /\ \A i \in 1..Len(p) : P[i] = p[i]
  BY DEF Reply
<1> HIDE DEF P
<1> SUFFICES ASSUME a.loaded, h.op = "set", Hits(q, ResetMsg) = {}, NEW i \in 1..Len(P),
                    P[i] \in Event, P[i].source = r
             PROVE  \/ P[i].op = "changed" /\ P[i].key = h.key
                    \/ \E j \in i + 1..Len(P) :
                         \/ P[j] \in ResetMsg
                         \/ P[i].op = "changed" /\ P[j] \in WriteMsg(P[i].key)
  BY DEF ServingInv, P
<1>2. CASE i = Len(P)
  BY <1>1, <1>2
<1>3. CASE i # Len(P)
  <2>1. i \in 1..Len(p) /\ P[i] = p[i]
    BY <1>1, <1>3
  <2>2. PICK j \in i + 1..Len(p) :
          p[j] \in ResetMsg \/ (p[i].op = "changed" /\ p[j] \in WriteMsg(p[i].key))
    BY <2>1 DEF OwnEventInv
  <2>3. j \in i + 1..Len(P) /\ P[j] = p[j]
    BY <1>1, <2>1
  <2> QED
    BY <2>1, <2>2, <2>3
<1> QED
  BY <1>2, <1>3

\* A request makes way for its answer d, its event being in the inbox p.
LEMMA ServedCourse ==
  ASSUME NEW r, NEW a \in Area, NEW c, NEW q \in Seq(Request), NEW p \in Seq(Reply),
         NEW L \in Seq(Map), Len(L) > 0, q # <<>>, Head(q).op \in {"set", "clear"},
         OwnInv(a, q, p), SentInv(a, q), StampInv(p, L), FollowInv(a, q, p, L),
         ServingInv(r, a, Head(q), q, p),
         NEW d \in Reply, d \notin Event, d.at = Len(L),
         d \in ResetMsg <=> Head(q) \in ResetMsg,
         \A k \in Key : d \in WriteMsg(k) <=> Head(q) \in WriteMsg(k),
         Head(q).op = "set" => Refused(d) \/ L[Len(L)][Head(q).key] = Head(q).value,
         Head(q).op = "clear" => \A k \in Key : L[Len(L)][k] = Absent
  PROVE  Course(r, a, Tail(q), Append(p, d), L)
<1> DEFINE h == Head(q)
           Q == Tail(q)
           P == Append(p, d)
<1>1. /\ h = q[1] /\ h \in Request /\ Len(Q) = Len(q) - 1 /\ Len(q) \in Nat /\ Len(q) > 0
      /\ \A i \in 1..Len(Q) : Q[i] = q[i + 1]
      /\ Len(P) = Len(p) + 1 /\ Len(p) \in Nat /\ P[Len(P)] = d
      /\ \A i \in 1..Len(p) : P[i] = p[i]
  OBVIOUS
<1>2. /\ h.callback \in BOOLEAN
      /\ h.op = "set" => h.key \in Key
      /\ \A k \in Key : h \in WriteMsg(k) <=> h.op = "set" /\ h.callback /\ h.key = k
      /\ h \in ResetMsg <=> h.op = "clear" /\ h.callback
  BY <1>1, RequestFacts
<1>3. StampInv(P, L)
  <2>1. Extends(d, L, L)
    BY DEF Extends, Before
  <2> QED
    BY <2>1, StampAppended
<1>4. ASSUME NEW S PROVE Hits(q, S) = {} <=> Hits(Q, S) = {} /\ h \notin S
  BY LastTail
<1> HIDE DEF h, Q
<1>5. ASSUME a.loaded, Hits(Q, ResetMsg) = {} PROVE h.callback
  <2> SUFFICES ASSUME ~h.callback PROVE FALSE
    OBVIOUS
  <2>1. PICK j \in 1 + 1..Len(q) : q[j] \in ResetMsg
    BY <1>1, <1>5 DEF SentInv
  <2>2. j - 1 \in 1..Len(Q) /\ Q[j - 1] = q[j]
    BY <1>1
  <2> QED
    BY <1>5, <2>1, <2>2 DEF Hits
<1>6. SentInv(a, Q)
  <2> SUFFICES ASSUME a.loaded, NEW i \in 1..Len(Q), ~Q[i].callback
               PROVE  \E j \in i + 1..Len(Q) : Q[j] \in ResetMsg
    BY DEF SentInv
  <2>1. i + 1 \in 1..Len(q) /\ Q[i] = q[i + 1]
    BY <1>1
  <2>2. PICK j \in i + 1 + 1..Len(q) : q[j] \in ResetMsg
    BY <2>1 DEF SentInv
  <2> DEFINE m == j - 1
  <2>3. m \in i + 1..Len(Q) /\ Q[m] = q[j]
    BY <1>1
  <2> HIDE DEF m
  <2> QED
    BY <2>2, <2>3
<1>7. OwnEventInv(r, a, Q, P)
  <2> HIDE DEF P
  <2> SUFFICES ASSUME a.loaded, Hits(Q, ResetMsg) = {}, NEW i \in 1..Len(P),
                      P[i] \in Event, P[i].source = r
               PROVE  \E j \in i + 1..Len(P) :
                        P[j] \in ResetMsg \/ (P[i].op = "changed" /\ P[j] \in WriteMsg(P[i].key))
    BY DEF OwnEventInv
  <2>1. i # Len(P)
    BY <1>1
  <2>2. i \in 1..Len(p) /\ P[i] = p[i] /\ Len(P) \in i + 1..Len(P)
    BY <1>1, <2>1
  <2>3. CASE h.op = "clear"
    <3>1. d \in ResetMsg
      BY <1>2, <1>5, <2>3 DEF h
    <3> QED
      BY <1>1, <2>2, <3>1
  <2>4. CASE h.op = "set"
    <3>1. Hits(q, ResetMsg) = {}
      BY <1>2, <1>4, <2>4
    <3>2. CASE p[i].op = "changed" /\ p[i].key = h.key
      <4>1. d \in WriteMsg(h.key)
        BY <1>2, <1>5, <2>4 DEF h
      <4> QED
        BY <1>1, <2>2, <3>2, <4>1
    <3>3. ASSUME NEW j \in i + 1..Len(p),
                 p[j] \in ResetMsg \/ (p[i].op = "changed" /\ p[j] \in WriteMsg(p[i].key))
          PROVE  \E n \in i + 1..Len(P) :
                   P[n] \in ResetMsg \/ (P[i].op = "changed" /\ P[n] \in WriteMsg(P[i].key))
      <4>1. j \in i + 1..Len(P) /\ P[j] = p[j]
        BY <1>1, <2>2
      <4> QED
        BY <2>2, <3>3, <4>1
    <3> QED
      BY <2>2, <2>4, <3>1, <3>2, <3>3 DEF ServingInv, h
  <2> QED
    BY <2>3, <2>4 DEF h
<1>8. ASSUME a.loaded, ~a.lost, NEW k \in Key
      PROVE  Follows(k, a.items[k], Q, P, L)
  <2> DEFINE A == About(k)
             v == a.items[k]
  <2>1. Follows(k, v, q, p, L)
    BY <1>8 DEF FollowInv
  <2>2. /\ \A i \in Last(Q, A) : i + 1 \in Last(q, A) /\ Q[i] = q[i + 1]
        /\ Hits(Q, A) = {} /\ h \in A => 1 \in Last(q, A)
    BY LastTail DEF Q, h
  <2>3. h \in A <=> d \in A
    BY DEF About, h
  <2> HIDE DEF A
  <2>4. ASSUME NEW i \in Last(Q, A), Q[i].op = "clear" PROVE v = Absent
    BY <2>1, <2>2, <2>4 DEF Follows, A
  <2>5. ASSUME Hits(Q, A) = {}
        PROVE  /\ \A i \in Last(P, A) : Refused(P[i]) \/ L[P[i].at][k] = v
               /\ Hits(P, A) = {} => L[Reach(P, L)][k] = v
    <3>1. CASE h \in A
      <4>1. Last(P, A) = {Len(p) + 1} /\ Hits(P, A) # {}
        BY <2>3, <3>1, LastAppend
      <4>2. 1 \in Last(q, A)
        BY <2>2, <2>5, <3>1
      <4>3. Refused(d) \/ L[Len(L)][k] = v
        <5>1. CASE h.op = "clear"
          <6>1. v = Absent
            BY <1>1, <2>1, <4>2, <5>1 DEF Follows, A
          <6> QED
            BY <5>1, <6>1 DEF h
        <5>2. CASE h.op = "set"
          <6>1. h \in WriteMsg(k)
            BY <1>2, <3>1, <5>2 DEF A, About
          <6>2. Hits(Q, WriteMsg(k)) = {}
            BY <2>5, AboutFacts DEF A
          <6>3. LastIs(q, k, v)
            BY <1>8 DEF OwnInv
          <6>4. h.value = v
            BY <6>1, <6>2, <6>3, LastOfTail DEF h, Q
          <6> QED
            BY <1>2, <5>2, <6>1, <6>4 DEF h
        <5> QED
          BY <5>1, <5>2 DEF h
      <4>4. P[Len(p) + 1] = d
        BY <1>1
      <4> HIDE DEF P
      <4> QED
        BY <4>1, <4>3, <4>4
    <3>2. CASE h \notin A
      <4>1. d \notin A /\ Hits(q, A) = {}
        BY <1>4, <2>3, <2>5, <3>2
      <4>2. Extends(d, L, L)
        BY DEF Extends, Before
      <4>3. Follows(k, v, q, P, L)
        BY <2>1, <4>1, <4>2, FollowsAppended DEF A
      <4> HIDE DEF P
      <4> QED
        BY <4>1, <4>3 DEF Follows, A
    <3> QED
      BY <3>1, <3>2
  <2> HIDE DEF P, v
  <2> QED
    BY <2>4, <2>5 DEF Follows, A, v
<1> QED
  BY <1>3, <1>6, <1>7, <1>8 DEF Course, FollowInv, Q

-----------------------------------------------------------------------------
(* The steps, and what the copies follow. *)

LEMMA CourseMoves ==
  ASSUME TypeOK, CourseInv, NEW r \in Renderer, NEW a, NEW q, NEW p,
         Course(r, a, q, p, log),
         area' = [area EXCEPT ![r] = a], requests' = [requests EXCEPT ![r] = q],
         inbox' = [inbox EXCEPT ![r] = p], log' = log
  PROVE  CourseInv'
<1> SUFFICES ASSUME NEW s \in Renderer
             PROVE  Course(s, area'[s], requests'[s], inbox'[s], log')
  BY DEF CourseInv
<1>1. CASE s = r
  <2>1. area'[s] = a /\ requests'[s] = q /\ inbox'[s] = p
    BY <1>1 DEF TypeOK
  <2> QED
    BY <1>1, <2>1
<1>2. CASE s # r
  <2>1. area'[s] = area[s] /\ requests'[s] = requests[s] /\ inbox'[s] = inbox[s]
    BY <1>2 DEF TypeOK
  <2>2. Course(s, area[s], requests[s], inbox[s], log)
    BY DEF CourseInv
  <2> QED
    BY <2>1, <2>2
<1> QED
  BY <1>1, <1>2

LEMMA PageCallsCourse ==
  ASSUME IInv, CourseInv, NEW r \in Renderer, NEW c \in Call, PageCalls(r, c)
  PROVE  CourseInv'
<1> DEFINE a == area[r]
           q == requests[r]
           p == inbox[r]
<1>1. /\ TypeOK /\ a \in Area /\ q \in Seq(Request) /\ p \in Seq(Reply)
      /\ c \in Waiting /\ log' = log
      /\ Course(r, a, q, p, log) /\ StampInv(p, log)
  BY StateFacts DEF IInv, CourseInv, Course, PageCalls, Waiting
<1>2. CASE c.op # "clear" /\ a.loaded
  <2>1. /\ area' = [area EXCEPT ![r] = AreaAfter(c, a)]
        /\ requests' = [requests EXCEPT ![r] = q \o Sends(c, a)]
        /\ inbox' = inbox
    BY <1>2 DEF PageCalls, Uses
  <2>2. Course(r, AreaAfter(c, a), q \o Sends(c, a), p, log)
    BY <1>1, WriteCourse
  <2>3. inbox' = [inbox EXCEPT ![r] = p]
    BY <1>1, <2>1, Same
  <2> QED
    BY <1>1, <2>1, <2>2, <2>3, CourseMoves
<1>3. CASE c.op # "clear" /\ ~a.loaded
  <2> DEFINE b == [a EXCEPT !.ignoreAll = TRUE]
             Q == Append(q, [op |-> "getAll", callback |-> TRUE])
  <2>1. /\ area' = [area EXCEPT ![r] = b] /\ requests' = [requests EXCEPT ![r] = Q]
        /\ inbox' = inbox
    BY <1>1, <1>3 DEF PageCalls, Uses, TypeOK
  <2>2. ~b.loaded
    BY <1>1, <1>3 DEF Area
  <2> HIDE DEF b, Q
  <2>3. Course(r, b, Q, p, log)
    BY <1>1, <2>2, UnloadedCourse
  <2>4. inbox' = [inbox EXCEPT ![r] = p]
    BY <1>1, <2>1, Same
  <2> QED
    BY <1>1, <2>1, <2>3, <2>4, CourseMoves
<1>4. CASE c.op = "clear"
  <2> DEFINE b == [NoItems EXCEPT !.loaded = TRUE, !.ignoreAll = TRUE]
             m == [op |-> "clear", callback |-> TRUE]
  <2>1. /\ area' = [area EXCEPT ![r] = b]
        /\ requests' = [requests EXCEPT ![r] = Append(Orphaned(q), m)]
        /\ inbox' = [inbox EXCEPT ![r] = Orphaned(p)]
    BY <1>4 DEF PageCalls, Clears
  <2>2. Course(r, b, Append(Orphaned(q), m), Orphaned(p), log)
    BY <1>1, ClearCourse
  <2> HIDE DEF b, m
  <2> QED
    BY <1>1, <2>1, <2>2, CourseMoves
<1> QED
  BY <1>2, <1>3, <1>4

LEMMA ReceiveCourse ==
  ASSUME IInv, CourseInv, NEW r \in Renderer, Receive(r)
  PROVE  CourseInv'
<1> DEFINE a == area[r]
           q == requests[r]
           p == inbox[r]
           e == Head(p)
<1>1. /\ TypeOK /\ a \in Area /\ q \in Seq(Request) /\ p \in Seq(Reply)
      /\ calling[r] \in Waiting /\ p # <<>> /\ log' = log /\ log \in Seq(Map)
      /\ Inv(a, calling[r], q, p) /\ Course(r, a, q, p, log)
      /\ StampInv(p, log)
  BY StateFacts DEF IInv, CourseInv, Course, Receive, TypeOK
<1>2. e \in Reply /\ Tail(p) \in Seq(Reply)
  BY <1>1
<1>3. ASSUME NEW b \in Area, Course(r, b, q, Tail(p), log),
             area' = [area EXCEPT ![r] = b], UNCHANGED requests,
             inbox' = [inbox EXCEPT ![r] = Tail(p)]
      PROVE  CourseInv'
  <2>1. requests' = [requests EXCEPT ![r] = q]
    BY <1>1, <1>3, Same
  <2> QED
    BY <1>1, <1>3, <2>1, CourseMoves
<1>4. ASSUME ~e.callback, e \in Event => Skips(a) \/ e.source = r,
             UNCHANGED <<area, requests>>, inbox' = [inbox EXCEPT ![r] = Tail(p)]
      PROVE  CourseInv'
  <2>1. Course(r, a, q, Tail(p), log)
    BY <1>1, <1>4, SkippedCourse
  <2>2. area' = [area EXCEPT ![r] = a]
    BY <1>1, <1>4, Same
  <2> QED
    BY <1>1, <1>3, <1>4, <2>1, <2>2
<1>5. CASE TakeEvent(r)
  <2>1. /\ ~e.callback /\ e \in Event /\ inbox' = [inbox EXCEPT ![r] = Tail(p)]
        /\ UNCHANGED requests
    BY <1>2, <1>5, ReplyFacts DEF TakeEvent
  <2>2. CASE (Skips(a) \/ e.source = r) /\ UNCHANGED area
    BY <1>4, <2>1, <2>2
  <2>3. CASE ~Skips(a) /\ e.op = "changed" /\ area' = [area EXCEPT ![r] = Changed(a, e)]
    <3> DEFINE b == Changed(a, e)
    <3>1. b \in Area
      BY <1>1, <2>3, EventTaken
    <3>2. e.key \in Key
      BY <1>2, <2>3, ReplyFacts
    <3>3. b.lost = a.lost
      BY <1>1 DEF Changed, Area
    <3>4. b.items = IF a.ignored[e.key] = 0 THEN [a.items EXCEPT ![e.key] = e.value]
                                            ELSE a.items
      BY <1>1 DEF Changed, Area
    <3>5. \A k \in Key :
            b.items[k] = IF a.ignored[k] # 0 THEN a.items[k]
                         ELSE IF e.key = k THEN e.value ELSE a.items[k]
      BY <1>1, <3>2, <3>4, AreaFacts DEF Map
    <3> HIDE DEF b
    <3>6. Course(r, b, q, Tail(p), log)
      BY <1>1, <2>1, <2>3, <3>1, <3>3, <3>5, ChangedCourse DEF Skips
    <3> QED
      BY <1>3, <2>1, <2>3, <3>1, <3>6 DEF b
  <2>4. ASSUME ~Skips(a), e.op = "cleared", NEW m \in Retained(OwnItems(a)),
               area' = [area EXCEPT ![r].items = m, ![r].lost = @ \/ m # OwnItems(a)]
        PROVE  CourseInv'
    <3> DEFINE b == [a EXCEPT !.items = m, !.lost = @ \/ m # OwnItems(a)]
    <3>1. m \in Map
      BY DEF Retained
    <3>2. b \in Area
      BY <1>1, <2>4, <3>1, EventTaken
    <3>3. area' = [area EXCEPT ![r] = b]
      BY <1>1, <2>4, AreaFacts DEF TypeOK, Area
    <3>4. b.items = m
      BY <1>1 DEF Area
    <3>5. b.lost = (a.lost \/ m # OwnItems(a))
      BY <1>1 DEF Area
    <3> HIDE DEF b
    <3>6. ~b.lost => ~a.lost /\ m = OwnItems(a)
      BY <3>5, Zenon
    <3>7. \A k \in Key : OwnItems(a)[k] = IF a.ignored[k] # 0 THEN a.items[k] ELSE Absent
      BY <1>1, AreaFacts DEF OwnItems
    <3>8. ~b.lost => \A k \in Key :
            b.items[k] = IF a.ignored[k] # 0 THEN a.items[k] ELSE Absent
      BY <3>4, <3>6, <3>7
    <3>9. Course(r, b, q, Tail(p), log)
      BY <1>1, <2>1, <2>4, <3>2, <3>6, <3>8, ChangedCourse DEF Skips
    <3> QED
      BY <1>3, <2>1, <3>2, <3>3, <3>9
  <2> QED
    BY <1>5, <2>2, <2>3, <2>4 DEF TakeEvent
<1>6. CASE TakeAnswer(r)
  <2>1. e \notin Event
    BY <1>6 DEF TakeAnswer, Event
  <2>2. CASE ~e.callback
    BY <1>4, <1>6, <2>1, <2>2 DEF TakeAnswer
  <2>3. CASE e.callback /\ e.op = "setDone" /\ ~e.ok
    <3>1. /\ area' = [area EXCEPT ![r] = NoItems]
          /\ inbox' = [inbox EXCEPT ![r] = Orphaned(Tail(p))]
          /\ requests' = [requests EXCEPT ![r] = Orphaned(q)]
      BY <1>6, <2>3 DEF TakeAnswer
    <3>2. StampInv(Orphaned(Tail(p)), log)
      BY <1>1, <1>2, StampTail, StampOrphaned
    <3>3. Course(r, NoItems, Orphaned(q), Orphaned(Tail(p)), log)
      BY <3>2, EmptyArea, UnloadedCourse
    <3> QED
      BY <1>1, <3>1, <3>3, CourseMoves
  <2>4. CASE e.callback /\ e.op = "setDone" /\ e.ok
    <3> DEFINE b == [a EXCEPT !.ignored[e.key] = @ - 1]
    <3>1. /\ area' = [area EXCEPT ![r].ignored[e.key] = @ - 1]
          /\ inbox' = [inbox EXCEPT ![r] = Tail(p)] /\ UNCHANGED requests
      BY <1>6, <2>4 DEF TakeAnswer
    <3>2. /\ area' = [area EXCEPT ![r] = b]
          /\ b.items = a.items /\ b.loaded = a.loaded /\ b.lost = a.lost
      BY <1>1, <3>1 DEF TypeOK, Area
    <3>3. b \in Area
      BY <1>1, <2>4, WriteDone
    <3> HIDE DEF b
    <3>4. Course(r, b, q, Tail(p), log)
      BY <1>1, <2>1, <2>4, <3>2, <3>3, AnsweredCourse DEF Refused
    <3> QED
      BY <1>3, <3>1, <3>2, <3>3, <3>4
  <2>5. CASE e.callback /\ e.op \in {"clearDone", "getAllDone"}
    <3> DEFINE b == [a EXCEPT !.ignoreAll = FALSE]
    <3>1. /\ area' = [area EXCEPT ![r].ignoreAll = FALSE]
          /\ inbox' = [inbox EXCEPT ![r] = Tail(p)] /\ UNCHANGED requests
      BY <1>6, <2>5 DEF TakeAnswer
    <3>2. /\ area' = [area EXCEPT ![r] = b] /\ b \in Area
          /\ b.items = a.items /\ b.loaded = a.loaded /\ b.lost = a.lost
      BY <1>1, <3>1 DEF TypeOK, Area
    <3> HIDE DEF b
    <3>3. Course(r, b, q, Tail(p), log)
      BY <1>1, <2>1, <2>5, <3>2, AnsweredCourse DEF Refused
    <3> QED
      BY <1>3, <3>1, <3>2, <3>3
  <2> QED
    BY <1>6, <2>2, <2>3, <2>4, <2>5 DEF TakeAnswer
<1> QED
  BY <1>5, <1>6 DEF Receive

\* The map becomes m, and e is its event.
LEMMA LogExtends ==
  ASSUME TypeOK, NEW m \in Map, Becomes(m), NEW e \in Event, e.at = Len(log'),
         \A k \in Key : m[k] = IF e.op = "cleared" THEN Absent
                               ELSE IF e.key = k THEN e.value ELSE map[k]
  PROVE  m # map => Extends(e, log, log')
<1> SUFFICES ASSUME m # map PROVE Extends(e, log, log')
  OBVIOUS
<1> DEFINE n == Len(log)
<1>1. /\ log \in Seq(Map) /\ n \in Nat /\ n > 0
  BY DEF TypeOK
<1>2. log' = Append(log, m)
  BY DEF Becomes
<1>3. /\ log' \in Seq(Map) /\ Len(log') = n + 1 /\ log'[n + 1] = m
      /\ \A i \in 1..n : log'[i] = log[i]
  BY <1>1, <1>2
<1> HIDE DEF n
<1>4. Before(e) = n /\ e.at - 1 = n /\ e.at = n + 1
  BY <1>1, <1>3 DEF Before
<1>5. log'[n] = map
  BY <1>1, <1>3 DEF map, n
<1>6. Does(e, log')
  BY <1>3, <1>4, <1>5 DEF Does
<1> QED
  BY <1>1, <1>3, <1>4, <1>6 DEF Extends, n

LEMMA LogAfter ==
  ASSUME TypeOK, NEW m \in Map, Becomes(m)
  PROVE  log' \in Seq(Map) /\ Len(log') > 0 /\ log'[Len(log')] = m
<1>1. log \in Seq(Map) /\ Len(log) \in Nat /\ Len(log) > 0
  BY DEF TypeOK
<1>2. CASE m = map
  BY <1>1, <1>2 DEF Becomes, map
<1>3. CASE m # map
  <2>1. log' = Append(log, m)
    BY <1>3 DEF Becomes
  <2> QED
    BY <1>1, <2>1
<1> QED
  BY <1>2, <1>3

LEMMA WriteServedCourse ==
  ASSUME IInv, CourseInv, NEW r \in Renderer, requests[r] # <<>>, NEW m \in Map,
         NEW e \in Event, e.source = r, NEW d \in Reply, d \notin Event, d.at = Len(log'),
         m # map => Extends(e, log, log'),
         Head(requests[r]).op \in {"set", "clear"},
         Head(requests[r]).op = "set" => e.op = "changed" /\ e.key = Head(requests[r]).key,
         d \in ResetMsg <=> Head(requests[r]) \in ResetMsg,
         \A k \in Key : d \in WriteMsg(k) <=> Head(requests[r]) \in WriteMsg(k),
         Head(requests[r]).op = "set" =>
           Refused(d) \/ m[Head(requests[r]).key] = Head(requests[r]).value,
         Head(requests[r]).op = "clear" => \A k \in Key : m[k] = Absent,
         Becomes(m), Answered(m, e, r, d),
         requests' = [requests EXCEPT ![r] = Tail(@)], UNCHANGED area
  PROVE  CourseInv'
<1>1. /\ TypeOK
      /\ \A s \in Renderer :
           /\ area[s] \in Area /\ calling[s] \in Waiting
           /\ requests[s] \in Seq(Request) /\ inbox[s] \in Seq(Reply)
           /\ Inv(area[s], calling[s], requests[s], inbox[s])
           /\ Course(s, area[s], requests[s], inbox[s], log)
  BY StateFacts DEF IInv, CourseInv
<1>2. log' \in Seq(Map) /\ Len(log') > 0 /\ log'[Len(log')] = m
  BY <1>1, LogAfter
<1>3. /\ requests'[r] = Tail(requests[r])
      /\ \A s \in Renderer : s # r => requests'[s] = requests[s]
      /\ \A s \in Renderer :
           inbox'[s] = IF s = r THEN Append(Told(inbox[s], m, e), d)
                                ELSE Told(inbox[s], m, e)
      /\ area' = area
  BY <1>1 DEF TypeOK, Answered
<1>4. e \in Reply /\ e.op \in {"changed", "cleared"} /\ ~e.callback
  BY DEF Reply, Event
<1>5. ASSUME NEW s \in Renderer, s # r
      PROVE  Course(s, area[s], requests[s], Told(inbox[s], m, e), log')
  <2>1. CASE m = map
    BY <1>1, <2>1 DEF Told, Becomes
  <2>2. CASE m # map
    BY <1>1, <1>5, <2>2, EventCourse DEF Told
  <2> QED
    BY <2>1, <2>2
<1>6. Course(r, area[r], Tail(requests[r]), Append(Told(inbox[r], m, e), d), log')
  <2> DEFINE a == area[r]
             q == requests[r]
             p == inbox[r]
             P == Told(p, m, e)
  <2>1. /\ a \in Area /\ q \in Seq(Request) /\ p \in Seq(Reply)
        /\ Inv(a, calling[r], q, p)
        /\ SentInv(a, q) /\ StampInv(p, log) /\ OwnEventInv(r, a, q, p)
        /\ FollowInv(a, q, p, log)
    BY <1>1 DEF Course
  <2>2. P \in Seq(Reply) /\ OwnInv(a, q, P)
    BY <1>1, <1>4, ToldKeeps DEF Inv
  <2>3. StampInv(P, log') /\ FollowInv(a, q, P, log') /\ ServingInv(r, a, Head(q), q, P)
    <3>1. CASE m = map
      <4>1. P = p /\ log' = log
        BY <3>1 DEF Told, Becomes
      <4>2. ServingInv(r, a, Head(q), q, p)
        BY <2>1 DEF OwnEventInv, ServingInv
      <4> QED
        BY <2>1, <4>1, <4>2
    <3>2. CASE m # map
      <4>1. P = Append(p, e) /\ Extends(e, log, log')
        BY <3>2 DEF Told
      <4>2. StampInv(Append(p, e), log')
        BY <1>4, <2>1, <4>1, StampAppended
      <4>3. FollowInv(a, q, Append(p, e), log')
        BY <1>4, <2>1, <4>1, EventAboutNothing, FollowsAppended DEF FollowInv
      <4>4. ServingInv(r, a, Head(q), q, Append(p, e))
        BY <2>1, OwnEventComes
      <4> QED
        BY <4>1, <4>2, <4>3, <4>4
    <3> QED
      BY <3>1, <3>2
  <2> HIDE DEF P, a, p
  <2>4. Course(r, a, Tail(q), Append(P, d), log')
    BY <1>2, <2>1, <2>2, <2>3, ServedCourse
  <2> QED
    BY <2>4 DEF P, a, p
<1>7. ASSUME NEW s \in Renderer
      PROVE  Course(s, area'[s], requests'[s], inbox'[s], log')
  <2>1. CASE s = r
    BY <1>3, <1>6, <2>1
  <2>2. CASE s # r
    BY <1>3, <1>5, <2>2
  <2> QED
    BY <2>1, <2>2
<1> QED
  BY <1>7 DEF CourseInv

LEMMA ServeCourse ==
  ASSUME IInv, CourseInv, NEW r \in Renderer, Serve(r)
  PROVE  CourseInv'
<1> DEFINE a == area[r]
           c == calling[r]
           q == requests[r]
           p == inbox[r]
           h == Head(q)
<1>1. /\ TypeOK /\ a \in Area /\ c \in Waiting /\ q \in Seq(Request) /\ p \in Seq(Reply)
      /\ q # <<>> /\ Inv(a, c, q, p) /\ StampInv(p, log)
      /\ map \in Map /\ log \in Seq(Map) /\ Len(log) \in Stamp
  BY StateFacts DEF IInv, CourseInv, Course, Serve, TypeOK
<1>2. h \in Request
  BY <1>1
<1>3. ASSUME NEW m \in Map, Becomes(m) PROVE Len(log') \in Stamp
  BY <1>1, <1>3, LogAfter DEF Stamp
<1>4. CASE ServeSet(r)
  <2> DEFINE ok == Fits(h.key, h.value, map, MaxSize)
             m == IF ok THEN [map EXCEPT ![h.key] = h.value] ELSE map
             e == [op |-> "changed", key |-> h.key, value |-> h.value, source |-> r,
                   callback |-> FALSE, at |-> Len(log')]
             d == [op |-> "setDone", key |-> h.key, value |-> h.value, ok |-> ok,
                   callback |-> h.callback, at |-> Len(log')]
  <2>1. /\ h.op = "set" /\ Becomes(m) /\ Answered(m, e, r, d)
        /\ requests' = [requests EXCEPT ![r] = Tail(@)] /\ UNCHANGED area
    BY <1>4 DEF ServeSet
  <2>2. h.key \in Key /\ h.value \in Item /\ h.callback \in BOOLEAN
    BY <1>2, <2>1, RequestFacts
  <2>3. [map EXCEPT ![h.key] = h.value] \in Map
    BY <1>1, <2>2 DEF Map, Item
  <2>4. m \in Map
    BY <1>1, <2>3, Zenon
  <2>5. ok \in BOOLEAN
    BY Zenon DEF Fits
  <2>6. ok => m[h.key] = h.value
    BY <1>1, <2>2 DEF Map
  <2>7. m # map => \A k \in Key : m[k] = IF h.key = k THEN h.value ELSE map[k]
    BY <1>1, <2>2 DEF Map
  <2>8. Len(log') \in Stamp
    BY <1>3, <2>1, <2>4
  <2> HIDE DEF ok, m
  <2>9. e \in Event /\ d \in Answer
    <3>1. e \in Event
      BY <2>2, <2>8 DEF Event, Item
    <3>2. d \in Answer
      BY <2>2, <2>5, <2>8 DEF Answer, Item
    <3> QED
      BY <3>1, <3>2
  <2>10. d \notin Event
    BY DEF Event
  <2>11. /\ e.op = "changed" /\ e.key = h.key /\ e.value = h.value /\ e.source = r
         /\ e.at = Len(log') /\ d.at = Len(log') /\ d.op = "setDone" /\ d.key = h.key
    OBVIOUS
  <2>12. d.callback = h.callback /\ d.ok = ok
    OBVIOUS
  <2> HIDE DEF e, d
  <2>13. d \in Reply
    BY <2>9 DEF Reply
  <2>14. /\ d \in ResetMsg <=> h \in ResetMsg
         /\ \A k \in Key : d \in WriteMsg(k) <=> h \in WriteMsg(k)
    BY <1>2, <2>1, <2>11, <2>12, <2>13, RequestFacts, ReplyFacts
  <2>15. Refused(d) \/ m[h.key] = h.value
    <3>1. ~ok => Refused(d)
      BY <2>11, <2>12, Zenon DEF Refused
    <3> QED
      BY <2>6, <3>1
  <2>16. m # map => Extends(e, log, log')
    <3>1. m # map => \A k \in Key : m[k] = IF e.op = "cleared" THEN Absent
                                          ELSE IF e.key = k THEN e.value ELSE map[k]
      BY <2>7, <2>11
    <3> QED
      BY <1>1, <2>1, <2>4, <2>9, <2>11, <3>1, LogExtends
  <2> HIDE DEF h
  <2>17. h.op # "clear" /\ h.op \in {"set", "clear"}
    BY <2>1
  <2> QED
    BY <1>1, <2>1, <2>4, <2>9, <2>10, <2>11, <2>13, <2>14, <2>15, <2>16, <2>17,
       WriteServedCourse DEF h
<1>5. CASE ServeClear(r)
  <2> DEFINE e == Cleared(r)
             d == [op |-> "clearDone", callback |-> h.callback, at |-> Len(log')]
  <2>1. /\ h.op = "clear" /\ Becomes(Empty) /\ Answered(Empty, e, r, d)
        /\ requests' = [requests EXCEPT ![r] = Tail(@)] /\ UNCHANGED area
    BY <1>5 DEF ServeClear
  <2>2. h.callback \in BOOLEAN /\ Empty \in Map /\ \A k \in Key : Empty[k] = Absent
    BY <1>2, RequestFacts, EmptyArea DEF Empty
  <2>3. Len(log') \in Stamp
    BY <1>3, <2>1, <2>2
  <2>4. /\ e \in Event /\ d \in Reply /\ d \notin Event
        /\ e.op = "cleared" /\ e.source = r /\ e.at = Len(log') /\ d.at = Len(log')
        /\ d.op = "clearDone"
    BY <2>2, <2>3 DEF Reply, Event, Answer, Cleared
  <2>5. d.callback = h.callback
    OBVIOUS
  <2> HIDE DEF e, d
  <2>6. /\ d \in ResetMsg <=> h \in ResetMsg
        /\ \A k \in Key : d \in WriteMsg(k) <=> h \in WriteMsg(k)
    BY <1>2, <2>1, <2>4, <2>5, RequestFacts, ReplyFacts
  <2>7. Empty # map => Extends(e, log, log')
    BY <1>1, <2>1, <2>2, <2>4, LogExtends
  <2> HIDE DEF h
  <2>8. h.op # "set" /\ h.op \in {"set", "clear"}
    BY <2>1
  <2> QED
    BY <1>1, <2>1, <2>2, <2>4, <2>6, <2>7, <2>8, WriteServedCourse DEF h
<1>6. CASE ServeGetAll(r)
  <2> DEFINE b == [a EXCEPT !.loaded = TRUE, !.items = map]
             e == [op |-> "getAllDone", callback |-> TRUE, at |-> Len(log)]
  <2>1. /\ h.op = "getAll"
        /\ area' = [area EXCEPT ![r] = AreaAfter(c, b)]
        /\ requests' = [requests EXCEPT ![r] = Tail(q) \o Sends(c, b)]
        /\ inbox' = [inbox EXCEPT ![r] = Append(p, e)]
        /\ log' = log
    BY <1>1, <1>6 DEF ServeGetAll, TypeOK
  <2>2. e \in Reply /\ e.op = "getAllDone" /\ e.callback /\ e.at = Len(log)
    BY <1>1 DEF Reply, Answer
  <2>3. e \notin Event
    BY DEF Event
  <2> HIDE DEF e
  <2>4. e \in ResetMsg
    BY <2>2, ReplyFacts
  <2>5. Len(q) = 1
    <3>1. 1 \in 1..Len(q) /\ q[1].op = "getAll"
      BY <1>1, <2>1
    <3> QED
      BY <1>1, <3>1 DEF Inv, LoadInv
  <2>6. Len(log) > 0
    BY <1>1 DEF Stamp
  <2>7. Course(r, b, Tail(q), Append(p, e), log)
    BY <1>1, <2>2, <2>3, <2>4, <2>5, <2>6, LoadedCourse DEF map
  <2>8. b \in Area /\ Tail(q) \in Seq(Request) /\ Append(p, e) \in Seq(Reply)
    <3>1. b \in Area
      BY <1>1 DEF Area
    <3> QED
      BY <1>1, <2>2, <3>1
  <2> HIDE DEF b
  <2>9. Course(r, AreaAfter(c, b), Tail(q) \o Sends(c, b), Append(p, e), log)
    BY <1>1, <2>7, <2>8, WriteCourse
  <2> QED
    BY <1>1, <2>1, <2>9, CourseMoves
<1> QED
  BY <1>4, <1>5, <1>6 DEF Serve

LEMMA DeleteStorageCourse ==
  ASSUME IInv, CourseInv, DeleteStorage
  PROVE  CourseInv'
<1> DEFINE e == Cleared(Browser)
<1>1. /\ TypeOK /\ log' = Append(log, Empty) /\ Empty # map /\ Becomes(Empty)
      /\ UNCHANGED <<area, requests>>
      /\ inbox' = [s \in Renderer |-> Append(inbox[s], e)]
  BY DEF IInv, DeleteStorage, Becomes
<1>2. Empty \in Map /\ \A k \in Key : Empty[k] = Absent
  BY EmptyArea DEF Empty
<1>3. Len(log') \in Stamp
  BY <1>1, <1>2, StateFacts
<1>4. e \in Event /\ e.op = "cleared" /\ e.source = Browser /\ e.at = Len(log')
  BY <1>3 DEF Event, Cleared
<1> HIDE DEF e
<1>5. Extends(e, log, log')
  BY <1>1, <1>2, <1>4, LogExtends
<1> SUFFICES ASSUME NEW s \in Renderer
             PROVE  Course(s, area'[s], requests'[s], inbox'[s], log')
  BY DEF CourseInv
<1>6. /\ area[s] \in Area /\ requests[s] \in Seq(Request) /\ inbox[s] \in Seq(Reply)
      /\ Course(s, area[s], requests[s], inbox[s], log) /\ s # Browser
  BY <1>1, StateFacts, RendererAssumption DEF CourseInv
<1>7. Course(s, area[s], requests[s], Append(inbox[s], e), log')
  BY <1>4, <1>5, <1>6, EventCourse
<1> QED
  BY <1>1, <1>7

LEMMA InitCourse == Init => CourseInv
<1> SUFFICES ASSUME Init, NEW r \in Renderer
             PROVE  Course(r, area[r], requests[r], inbox[r], log)
  BY DEF CourseInv
<1>1. area[r] = NoItems /\ inbox[r] = <<>>
  BY DEF Init
<1>2. StampInv(inbox[r], log)
  BY <1>1 DEF StampInv
<1> QED
  BY <1>1, <1>2, EmptyArea, UnloadedCourse

LEMMA NextCourse == IInv /\ CourseInv /\ [Next]_vars => CourseInv'
<1> SUFFICES ASSUME IInv, CourseInv, [Next]_vars PROVE CourseInv'
  OBVIOUS
<1>1. ASSUME NEW r \in Renderer, NEW c \in Call, PageCalls(r, c) PROVE CourseInv'
  BY <1>1, PageCallsCourse
<1>2. ASSUME NEW r \in Renderer, Receive(r) PROVE CourseInv'
  BY <1>2, ReceiveCourse
<1>3. ASSUME NEW r \in Renderer, Serve(r) PROVE CourseInv'
  BY <1>3, ServeCourse
<1>4. CASE DeleteStorage
  BY <1>4, DeleteStorageCourse
<1>5. CASE UNCHANGED vars
  BY <1>5 DEF vars, CourseInv
<1> QED
  BY <1>1, <1>2, <1>3, <1>4, <1>5 DEF Next

(***************************************************************************)
(* Where a copy has no write of its own under way it has what the          *)
(* browser's map had after the last change that the renderer was told of:  *)
(* no event is lost to the skipping of KeyAdded, KeyChanged, KeyDeleted    *)
(* and AllDeleted, and none is applied to a copy that has gone on.         *)
(***************************************************************************)
THEOREM CachesFollow == Spec => []CacheFollowsTheMap
<1>1. IInv /\ CourseInv => CacheFollowsTheMap
  <2> SUFFICES ASSUME IInv, CourseInv, NEW r \in Renderer, area[r].loaded,
                      ~area[r].ignoreAll, ~area[r].lost,
                      NEW k \in Key, area[r].ignored[k] = 0
               PROVE  area[r].items[k] = log[Reached(r)][k]
    BY DEF CacheFollowsTheMap
  <2> DEFINE a == area[r]
             q == requests[r]
             p == inbox[r]
  <2>1. /\ TypeOK /\ q \in Seq(Request) /\ p \in Seq(Reply)
        /\ CountInv(a, q, p) /\ Follows(k, a.items[k], q, p, log)
    BY StateFacts DEF IInv, Inv, CourseInv, Course, FollowInv
  <2>2. Quiet(q, k) /\ Quiet(p, k)
    BY <2>1, NothingAbout
  <2>3. log[Reach(p, log)][k] = a.items[k]
    BY <2>1, <2>2 DEF Quiet, Follows
  <2>4. Reached(r) = Reach(p, log)
    BY <2>1 DEF Reached, Reach, Before
  <2> QED
    BY <2>3, <2>4
<1>2. Spec => []CourseInv
  BY InitCourse, NextCourse, Invariant, PTL DEF Spec
<1> QED
  BY <1>1, <1>2, Invariant, PTL

\* A renderer with empty pipes ignores nothing and has been told of everything.
THEOREM QuietCopiesAgreeHolds == Spec => []QuietCopiesAgree
<1>1. IInv /\ CacheFollowsTheMap => QuietCopiesAgree
  <2> SUFFICES ASSUME IInv, CacheFollowsTheMap, NEW r \in Renderer, area[r].loaded,
                      ~area[r].lost, inbox[r] = <<>>, requests[r] = <<>>
               PROVE  area[r].items = log[Len(log)]
    BY DEF QuietCopiesAgree
  <2>1. TypeOK /\ CountInv(area[r], <<>>, <<>>)
    BY DEF IInv, Inv
  <2>2. \A S : Count(<<>>, S) = 0
    BY CountNone DEF Hits
  <2>3. ~area[r].ignoreAll /\ \A k \in Key : area[r].ignored[k] = 0
    BY <2>1, <2>2 DEF CountInv
  <2>4. \A k \in Key : area[r].items[k] = log[Len(log)][k]
    BY <2>3 DEF CacheFollowsTheMap, Reached
  <2>5. area[r].items \in Map
    BY <2>1, StateFacts DEF Area
  <2>6. log[Len(log)] \in Map
    BY <2>1, StateFacts DEF map
  <2> QED
    BY <2>4, <2>5, <2>6 DEF Map
<1> QED
  BY <1>1, Invariant, CachesFollow, PTL
=============================================================================
