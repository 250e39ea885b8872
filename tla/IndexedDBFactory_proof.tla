----------------------- MODULE IndexedDBFactory_proof -----------------------
(***************************************************************************)
(* The properties of IndexedDBFactory, proved for every number of          *)
(* databases, blobs and connections.  They rest on what a release makes of *)
(* the store (ReleaseResult); the actions differ in who holds it then.     *)
(***************************************************************************)
EXTENDS IndexedDBFactory, TLAPS

\* A store with its registry and the factory of one mind.
Sound(s) == s \in StoreState /\ (s.kept <=> s.used # {}) /\ (~s.open => s = Closed)

(***************************************************************************)
(* A release leaves the store open, and not about to be closed, for those  *)
(* who hold it or use a blob of it, and closed or timed if nobody does.    *)
(***************************************************************************)
LEMMA ReleaseResult ==
  ASSUME NEW s, Sound(s), s.open,
         NEW immediate \in BOOLEAN, NEW held \in BOOLEAN,
         held \/ s.used # {} => ~s.timer,
         NEW r, r = ReleaseBackingStore(s, immediate, held)
  PROVE  /\ Sound(r)
         /\ held \/ r.used # {} => r.open /\ ~r.timer
         /\ ~held /\ r.used = {} => ~r.open \/ r.timer
<1> DEFINE cutOff == s.kept /\ immediate
           last == ~held /\ (s.kept => immediate)
<1>1. s = [open |-> s.open, timer |-> s.timer, kept |-> s.kept,
           used |-> s.used, shut |-> s.shut]
  BY DEF Sound, StoreState
<1>2. CASE last /\ immediate
  <2>1. r = Closed
    BY <1>2 DEF ReleaseBackingStore
  <2>2. Sound(Closed)
    <3>1. Closed \in StoreState
      BY DEF Closed, StoreState
    <3> QED
      BY <3>1 DEF Sound, Closed
  <2>3. ~Closed.open /\ Closed.used = {}
    BY DEF Closed
  <2> QED
    BY <1>2, <2>1, <2>2, <2>3
<1>3. CASE ~(last /\ immediate)
  <2>1. r = [open |-> s.open, timer |-> s.timer \/ last,
             kept |-> s.kept /\ ~immediate,
             used |-> IF cutOff THEN {} ELSE s.used, shut |-> s.shut \/ cutOff]
    BY <1>1, <1>3 DEF ReleaseBackingStore
  <2> QED
    BY <1>3, <2>1 DEF Sound, StoreState
<1> QED
  BY <1>2, <1>3

\* What an action has to show of its store and its databases.
Next1 ==
  /\ Sound(store')
  /\ InUse' => store'.open /\ ~store'.timer
  /\ InUse /\ ~InUse' => ~store'.open \/ store'.timer
Next2 ==
  /\ open' \subseteq Database
  /\ connections' \in [Database -> 0..MaxConnections]
  /\ waiting' \in [Database -> {"none", "open", "delete"}]
  /\ DatabasesAgree'

LEMMA Combine == Next1 /\ Next2 => IInv'
  BY DEF Next1, Next2, IInv, TypeOK, StoreAgrees, Sound, StoreOutlivesItsUsers

LEMMA Facts ==
  ASSUME IInv
  PROVE  /\ Sound(store) /\ StoreAgrees /\ DatabasesAgree
         /\ open \subseteq Database
         /\ connections \in [Database -> 0..MaxConnections]
         /\ waiting \in [Database -> {"none", "open", "delete"}]
         /\ InUse => store.open /\ ~store.timer
         /\ MaxConnections \in Nat /\ MaxConnections > 0
  BY ConnectionsAssumption DEF IInv, TypeOK, Sound, StoreAgrees,
     StoreOutlivesItsUsers

LEMMA SameDatabases == ASSUME IInv, UNCHANGED databases PROVE Next2
  BY Facts DEF databases, Next2, DatabasesAgree

LEMMA SameStore == ASSUME IInv, UNCHANGED <<store, open>> PROVE Next1
  BY Facts DEF Next1, InUse

LEMMA OpenResult ==
  ASSUME IInv, NEW s, s = OpenBackingStore(store)
  PROVE  Sound(s) /\ s.used = store.used /\ s.open /\ ~s.timer
<1>1. store = [open |-> store.open, timer |-> store.timer, kept |-> store.kept,
               used |-> store.used, shut |-> store.shut]
  BY Facts DEF Sound, StoreState
<1>2. s = [open |-> TRUE, timer |-> FALSE, kept |-> store.kept,
           used |-> store.used, shut |-> store.shut]
  BY <1>1 DEF OpenBackingStore
<1> QED
  BY <1>2, Facts DEF Sound, StoreState

\* Database d ends up with n > 0 connections, or is not in the map.
LEMMA NowResult ==
  ASSUME IInv, NEW d \in Database, NEW n \in 0..MaxConnections,
         NEW r \in {"none", "open", "delete"}, Now(d, n, r),
         open' = (IF n > 0 THEN open \cup {d} ELSE open \ {d}),
         n > 0 \/ r = "none"
  PROVE  Next2
<1>1. /\ connections' \in [Database -> 0..MaxConnections]
      /\ waiting' \in [Database -> {"none", "open", "delete"}]
      /\ open' \subseteq Database
  BY Facts DEF Now
<1>2. \A e \in Database : connections'[e] = IF e = d THEN n ELSE connections[e]
  BY Facts DEF Now
<1>3. \A e \in Database : waiting'[e] = IF e = d THEN r ELSE waiting[e]
  BY Facts DEF Now
<1>4. open' = {e \in Database : connections'[e] > 0}
  BY <1>1, <1>2, Facts DEF DatabasesAgree
<1>5. \A e \in Database : waiting'[e] # "none" => e \in open'
  BY <1>3, Facts DEF DatabasesAgree
<1> QED
  BY <1>1, <1>4, <1>5 DEF Next2, DatabasesAgree

LEMMA ReleaseDatabaseResult ==
  ASSUME IInv, NEW d \in open, NEW forced \in BOOLEAN, ReleaseDatabase(d, forced)
  PROVE  IInv' /\ Next1
<1> d \in Database
  BY Facts
<1>1. Next2
  <2>1. 0 \in 0..MaxConnections
    BY Facts
  <2> QED
    BY <2>1, NowResult, 0 > 0 <=> FALSE DEF ReleaseDatabase
<1>2. InUse
  BY DEF InUse
<1>3. Next1
  BY <1>2, Facts, ReleaseResult DEF ReleaseDatabase, Next1, InUse
<1> QED
  BY <1>1, <1>3, Combine

LEMMA LastConnectionResult ==
  ASSUME IInv, NEW d \in open, NEW forced \in BOOLEAN,
         LastConnectionCloses(d, forced)
  PROVE  IInv' /\ Next1
<1> d \in Database
  BY Facts
<1>1. CASE waiting[d] = "open" /\ Now(d, 1, "none") /\ UNCHANGED <<store, open>>
  <2>1. 1 \in 0..MaxConnections /\ open \cup {d} = open
    BY Facts
  <2>2. Next2
    BY <1>1, <2>1, NowResult
  <2> QED
    BY <1>1, <2>2, SameStore, Combine
<1>2. CASE ReleaseDatabase(d, forced)
  BY <1>2, ReleaseDatabaseResult
<1> QED
  BY <1>1, <1>2 DEF LastConnectionCloses

\* The databases that ForceClose(origin) leaves.
LEMMA SurvivingResult ==
  ASSUME IInv, open' = Surviving,
         connections' = [d \in Database |-> IF d \in Surviving THEN 1 ELSE 0],
         waiting' = [d \in Database |-> "none"]
  PROVE  Next2
  BY Facts DEF Surviving, Next2, DatabasesAgree

LEMMA CloseEverythingResult ==
  ASSUME IInv, NEW s, Sound(s), InUse => s.open /\ ~s.timer,
         s.used = store.used, CloseEverything(s, FALSE)
  PROVE  IInv' /\ Next1
<1>1. Next2
  BY SurvivingResult DEF CloseEverything
<1>2. Surviving # {} \/ s.used # {} => InUse
  BY DEF Surviving, InUse
<1>3. CASE s.open
  <2>1. store' = ReleaseBackingStore(s, TRUE, Surviving # {})
    BY <1>3 DEF CloseEverything
  <2>2. /\ Sound(store')
        /\ (Surviving # {}) \/ store'.used # {} => store'.open /\ ~store'.timer
        /\ ~(Surviving # {}) /\ store'.used = {} => ~store'.open \/ store'.timer
    BY <2>1, <1>2, <1>3, ReleaseResult
  <2> QED
    BY <1>1, <2>2, Combine DEF CloseEverything, Next1, InUse
<1>4. CASE ~s.open
  <2>1. store' = s /\ s = Closed /\ open' = {}
    BY <1>2, <1>4 DEF CloseEverything, Sound
  <2>2. Next1
    BY <2>1, <1>4 DEF Next1, InUse, Closed
  <2> QED
    BY <1>1, <2>2, Combine
<1> QED
  BY <1>3, <1>4

LEMMA FailsResult == ASSUME IInv, Fails PROVE IInv' /\ Next1
<1>1. CASE store' = OpenBackingStore(store) /\ UNCHANGED databases
  <2>1. Next1
    BY <1>1, OpenResult DEF Next1, InUse, databases
  <2> QED
    BY <1>1, <2>1, SameDatabases, Combine
<1>2. CASE CloseEverything(OpenBackingStore(store), FALSE)
  BY <1>2, OpenResult, CloseEverythingResult
<1> QED
  BY <1>1, <1>2 DEF Fails

LEMMA BorrowResult == ASSUME IInv, BorrowStore PROVE IInv' /\ Next1
<1>1. UNCHANGED databases
  BY DEF BorrowStore
<1>2. Next1
  BY <1>1, OpenResult, ReleaseResult DEF BorrowStore, Next1, InUse, databases
<1> QED
  BY <1>1, <1>2, SameDatabases, Combine

LEMMA Step == ASSUME IInv, Next PROVE IInv' /\ Next1
<1>1. ASSUME NEW d \in Database, OpenFirst(d) PROVE IInv' /\ Next1
  <2>1. CASE /\ store' = OpenBackingStore(store) /\ Now(d, 1, "none")
             /\ open' = open \cup {d}
    <3>1. 1 \in 0..MaxConnections /\ 1 > 0
      BY Facts
    <3>2. Next2
      BY <2>1, <3>1, NowResult
    <3>3. Next1
      BY <2>1, OpenResult DEF Next1, InUse
    <3> QED
      BY <3>2, <3>3, Combine
  <2> QED
    BY <1>1, <2>1, FailsResult DEF OpenFirst
<1>2. ASSUME NEW d \in Database, OpenAgain(d) PROVE IInv' /\ Next1
  <2>1. /\ connections[d] \in 0..MaxConnections /\ connections[d] > 0
        /\ connections[d] + 1 \in 0..MaxConnections /\ connections[d] + 1 > 0
        /\ open \cup {d} = open
    BY <1>2, Facts DEF OpenAgain, DatabasesAgree
  <2>2. Next2
    <3>1. CASE Now(d, connections[d] + 1, "none")
      BY <1>2, <2>1, <3>1, NowResult DEF OpenAgain
    <3>2. CASE Now(d, connections[d], "open")
      BY <1>2, <2>1, <3>2, NowResult DEF OpenAgain
    <3> QED
      BY <1>2, <3>1, <3>2 DEF OpenAgain
  <2> QED
    BY <1>2, <2>2, SameStore, Combine DEF OpenAgain
<1>3. ASSUME NEW d \in Database, DeleteUnopened(d) PROVE IInv' /\ Next1
  <2>1. CASE /\ open' = Surviving
             /\ connections' = [e \in Database |-> IF e \in Surviving THEN 1 ELSE 0]
             /\ waiting' = [e \in Database |-> "none"]
             /\ store' = ReleaseBackingStore(
                  ReleaseBackingStore(OpenBackingStore(store), TRUE, TRUE),
                  FALSE, Surviving # {})
    <3> DEFINE s == ReleaseBackingStore(OpenBackingStore(store), TRUE, TRUE)
    <3>1. Sound(s) /\ s.open /\ ~s.timer
      BY OpenResult, ReleaseResult
    <3> HIDE DEF s
    <3>2. Next1
      BY <2>1, <3>1, ReleaseResult DEF Next1, InUse, s
    <3> QED
      BY <2>1, <3>2, SurvivingResult, Combine
  <2> QED
    BY <1>3, <2>1, BorrowResult, FailsResult DEF DeleteUnopened
<1>4. ASSUME NEW d \in Database, DeleteOpen(d) PROVE IInv' /\ Next1
  <2>1. CASE Now(d, connections[d], "delete") /\ UNCHANGED <<store, open>>
    <3>1. /\ connections[d] \in 0..MaxConnections /\ connections[d] > 0
          /\ open \cup {d} = open
      BY <1>4, Facts DEF DeleteOpen, DatabasesAgree
    <3>2. Next2
      BY <2>1, <3>1, NowResult
    <3> QED
      BY <2>1, <3>2, SameStore, Combine
  <2> QED
    BY <1>4, <2>1, LastConnectionResult DEF DeleteOpen
<1>5. ASSUME NEW d \in Database, NEW forced \in BOOLEAN, Close(d, forced)
      PROVE  IInv' /\ Next1
  <2>1. CASE /\ connections[d] > 1 /\ Now(d, connections[d] - 1, waiting[d])
             /\ UNCHANGED <<store, open>>
    <3>1. /\ connections[d] - 1 \in 0..MaxConnections /\ connections[d] - 1 > 0
          /\ waiting[d] \in {"none", "open", "delete"} /\ open \cup {d} = open
      BY <1>5, <2>1, Facts DEF Close
    <3>2. Next2
      BY <2>1, <3>1, NowResult
    <3> QED
      BY <2>1, <3>2, SameStore, Combine
  <2> QED
    BY <1>5, <2>1, LastConnectionResult DEF Close
<1>6. ASSUME NEW d \in Database, NEW b \in Blob, AddBlobRef(d, b)
      PROVE  IInv' /\ Next1
  <2>1. store.open /\ ~store.timer /\ Sound(store) /\ UNCHANGED databases
    BY <1>6, Facts DEF AddBlobRef, InUse
  <2>2. store' = [open |-> TRUE, timer |-> FALSE, kept |-> TRUE,
                  used |-> store.used \cup {b}, shut |-> store.shut]
    BY <1>6, <2>1 DEF AddBlobRef, Sound, StoreState
  <2>3. Next1
    BY <2>1, <2>2 DEF Next1, InUse, Sound, StoreState
  <2> QED
    BY <2>1, <2>3, SameDatabases, Combine
<1>7. ASSUME NEW b \in Blob, ReleaseBlobRef(b) PROVE IInv' /\ Next1
  <2>1. /\ store.open /\ ~store.timer /\ store.kept /\ Sound(store)
        /\ b \in store.used /\ UNCHANGED databases
    BY <1>7, Facts DEF ReleaseBlobRef, InUse, Sound
  <2> DEFINE left == [store EXCEPT !.used = @ \ {b}]
  <2>2. /\ left \in StoreState /\ left.used = store.used \ {b}
        /\ left.open /\ ~left.timer /\ left.kept
    BY <2>1 DEF Sound, StoreState
  <2>3. CASE left.used = {}
    <3> DEFINE given == [left EXCEPT !.kept = FALSE]
    <3>1. /\ given \in StoreState /\ given.used = {}
          /\ given.open /\ ~given.timer /\ ~given.kept
      <4> HIDE DEF left
      <4> QED
        BY <2>2, <2>3 DEF StoreState
    <3>2. Sound(given) /\ given.open /\ ~given.timer
      BY <3>1 DEF Sound
    <3>3. store' = ReleaseBackingStore(given, FALSE, open # {})
      BY <1>7, <2>1, <2>2, <2>3 DEF ReleaseBlobRef
    <3> HIDE DEF given
    <3>4. /\ Sound(store')
          /\ (open # {}) \/ store'.used # {} => store'.open /\ ~store'.timer
          /\ ~(open # {}) /\ store'.used = {} => ~store'.open \/ store'.timer
      BY <3>2, <3>3, ReleaseResult
    <3>5. Next1
      BY <2>1, <3>4 DEF Next1, InUse, databases
    <3> QED
      BY <2>1, <3>5, SameDatabases, Combine
  <2>4. CASE left.used # {}
    <3>1. store' = left
      BY <1>7, <2>4 DEF ReleaseBlobRef
    <3>2. Next1
      BY <2>1, <2>2, <2>4, <3>1 DEF Next1, InUse, Sound, StoreState
    <3> QED
      BY <2>1, <3>2, SameDatabases, Combine
  <2> QED
    BY <2>3, <2>4
<1>8. CASE GetDatabaseNames
  BY <1>8, BorrowResult, FailsResult DEF GetDatabaseNames
<1>9. CASE ForceClose
  BY <1>9, Facts, CloseEverythingResult DEF ForceClose
<1>10. CASE MaybeCloseBackingStore
  <2>1. ~InUse /\ store' = Closed /\ UNCHANGED databases
    BY <1>10, Facts DEF MaybeCloseBackingStore, InUse, Sound
  <2>2. Next1
    BY <2>1 DEF Next1, InUse, Sound, StoreState, Closed, databases
  <2> QED
    BY <2>1, <2>2, SameDatabases, Combine
<1> QED
  BY <1>1, <1>2, <1>3, <1>4, <1>5, <1>6, <1>7, <1>8, <1>9, <1>10 DEF Next

(***************************************************************************)
(* The invariant that carries the rest.  StoreOutlivesItsUsers alone is    *)
(* not inductive: the blobs in use hold the store through the entry of     *)
(* backing_stores_with_active_blobs_ (StoreAgrees), and a database that    *)
(* closes leaves the map only with its last connection (DatabasesAgree).   *)
(***************************************************************************)
THEOREM Invariance == Spec => []IInv
<1>1. Init => IInv
  BY ConnectionsAssumption DEF Init, IInv, TypeOK, StoreAgrees, DatabasesAgree,
     StoreOutlivesItsUsers, InUse, Closed, StoreState
<1>2. IInv /\ [Next]_vars => IInv'
  <2>1. ASSUME IInv, UNCHANGED vars PROVE IInv'
    BY <2>1 DEF vars, databases, IInv, TypeOK, StoreAgrees, DatabasesAgree,
       StoreOutlivesItsUsers, InUse
  <2> QED
    BY <2>1, Step
<1> QED
  BY <1>1, <1>2, PTL DEF Spec

\* The state of the factory stays what its code takes it to be.
THEOREM TypeCorrect == Spec => []TypeOK
<1>1. IInv => TypeOK
  BY DEF IInv
<1> QED
  BY <1>1, Invariance, PTL

\* No close, forced or not, takes the store from a database or a blob in use.
THEOREM StoreOutlivesItsUsersHolds == Spec => []StoreOutlivesItsUsers
<1>1. IInv => StoreOutlivesItsUsers
  BY DEF IInv
<1> QED
  BY <1>1, Invariance, PTL

\* Whoever uses the store last, a database or a blob, sees it closed or timed.
THEOREM LastUserLeavesItTimedHolds == Spec => LastUserLeavesItTimed
<1> DEFINE A == InUse /\ ~InUse' => ~store'.open \/ store'.timer
<1>1. IInv /\ [Next]_vars => [A]_vars
  BY Step DEF Next1
<1>2. Spec => [][A]_vars
  BY <1>1, Invariance, PTL DEF Spec
<1> QED
  BY <1>2 DEF LastUserLeavesItTimed

=============================================================================
