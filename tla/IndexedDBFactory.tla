-------------------------- MODULE IndexedDBFactory --------------------------
(***************************************************************************)
(* How long IndexedDBFactoryImpl keeps the backing store of one origin     *)
(* open.  The store is counted by reference: each open database holds it,  *)
(* and so does backing_stores_with_active_blobs_ while a page uses a blob  *)
(* that was read from it (IndexedDBActiveBlobRegistry).  When the factory  *)
(* is left with the last reference it closes the store, at once if it was  *)
(* forced to and otherwise after a grace period.                           *)
(*                                                                         *)
(* All of it runs on one sequence and each action is one task.  A database *)
(* is seen from here as its connections and the request that waits for     *)
(* them to close; IndexedDBDatabase has the requests behind that one and   *)
(* what a connection goes through, BlobJournal what becomes of the blobs.  *)
(* Left out: stores in memory, which are never closed; the end of the      *)
(* context; a corruption found while an open database is deleted; and the  *)
(* files.                                                                  *)
(***************************************************************************)
EXTENDS Integers

CONSTANTS
  Database,        \* the names of the origin's databases
  Blob,            \* blobs in the store's records
  MaxConnections   \* bound: connections of one database

ASSUME ConnectionsAssumption == MaxConnections \in Nat \ {0}

VARIABLES
  store,           \* the entry of backing_store_map_, as a StoreState
  open,            \* database_map_: the databases that hold the store
  connections,     \* how many each database has
  waiting          \* the request that waits for a database's connections

databases == <<open, connections, waiting>>
vars == <<store, databases>>

StoreState ==
  [open: BOOLEAN,         \* the origin has an entry
   timer: BOOLEAN,        \* close_timer() is running
   kept: BOOLEAN,         \* backing_stores_with_active_blobs_ has it too
   used: SUBSET Blob,     \* use_tracker_ of its active blob registry
   shut: BOOLEAN]         \* ForceShutdown() was called on the registry

Closed == [open |-> FALSE, timer |-> FALSE, kept |-> FALSE, used |-> {},
           shut |-> FALSE]

TypeOK ==
  /\ store \in StoreState
  /\ open \subseteq Database
  /\ connections \in [Database -> 0..MaxConnections]
  /\ waiting \in [Database -> {"none", "open", "delete"}]

Init ==
  /\ store = Closed
  /\ open = {}
  /\ connections = [d \in Database |-> 0]
  /\ waiting = [d \in Database |-> "none"]

-----------------------------------------------------------------------------
(* The store. *)

\* OpenBackingStore: the store is made if need be, and no longer about to go.
OpenBackingStore(s) == [s EXCEPT !.open = TRUE, !.timer = FALSE]

\* Mutant: the blobs in use are not counted among the references.
ReleaseBackingStoreBlobs(s, immediate, held) ==
  IF ~held /\ immediate
    THEN Closed
    ELSE [s EXCEPT !.timer = @ \/ ~held, !.kept = @ /\ ~immediate,
                   !.used = IF s.kept /\ immediate THEN {} ELSE @,
                   !.shut = @ \/ (s.kept /\ immediate)]

(***************************************************************************)
(* ReleaseBackingStore, where `held' tells whether a database or a caller  *)
(* still holds the store: forced to, it cuts off the blobs in use first.   *)
(***************************************************************************)
ReleaseBackingStore(s, immediate, held) ==
  LET cutOff == s.kept /\ immediate
      last == ~held /\ (s.kept => immediate)
  IN IF last /\ immediate
       THEN Closed
       ELSE [s EXCEPT !.timer = @ \/ last, !.kept = @ /\ ~immediate,
                      !.used = IF cutOff THEN {} ELSE @,
                      !.shut = @ \/ cutOff]

\* The timer fires.
MaybeCloseBackingStore ==
  /\ store.timer
  /\ store' = IF open = {} /\ ~store.kept
                THEN Closed ELSE [store EXCEPT !.timer = FALSE]
  /\ UNCHANGED databases

(***************************************************************************)
(* A record with blob b is read in database d: AddBlobRef.  The registry   *)
(* that was shut down has no backing store and the read does not survive.  *)
(***************************************************************************)
AddBlobRef(d, b) ==
  /\ d \in open
  /\ ~store.shut
  /\ b \notin store.used
  /\ store' = [store EXCEPT !.used = @ \cup {b}, !.kept = @ \/ store.used = {}]
  /\ UNCHANGED databases

\* Mutant: the last blob does not give the store back.
ReleaseBlobRefOnly(b) ==
  /\ b \in store.used
  /\ store' = [store EXCEPT !.used = @ \ {b},
                            !.kept = @ /\ store.used # {b}]
  /\ UNCHANGED databases

(***************************************************************************)
(* The page is done with blob b: ReleaseBlobRef, which reports with the    *)
(* last one that no blobs are outstanding.                                 *)
(***************************************************************************)
ReleaseBlobRef(b) ==
  /\ b \in store.used
  /\ LET left == [store EXCEPT !.used = @ \ {b}]
     IN store' = IF left.used = {} /\ store.kept
                   THEN ReleaseBackingStore([left EXCEPT !.kept = FALSE],
                                            FALSE, open # {})
                   ELSE left
  /\ UNCHANGED databases

-----------------------------------------------------------------------------
(* Databases. *)

\* Database d has n connections, and the request r waits for them.
Now(d, n, r) ==
  /\ connections' = [connections EXCEPT ![d] = n]
  /\ waiting' = [waiting EXCEPT ![d] = r]

\* The last connection of d has gone, and nobody waits for the database.
ReleaseDatabase(d, forced) ==
  /\ Now(d, 0, "none")
  /\ open' = open \ {d}
  /\ store' = ReleaseBackingStore(store, forced, open \ {d} # {})

(***************************************************************************)
(* The last connection of d goes.  An upgrade that waited for that makes a *)
(* connection of its own; a deletion is done and nothing is left to do.    *)
(***************************************************************************)
LastConnectionCloses(d, forced) ==
  \/ /\ waiting[d] = "open"
     /\ Now(d, 1, "none")
     /\ UNCHANGED <<store, open>>
  \/ /\ waiting[d] # "open"
     /\ ReleaseDatabase(d, forced)

\* A connection of d is closed by its page, or with force because the answer
\* that carried it never reached one.
Close(d, forced) ==
  /\ d \in open
  /\ \/ /\ connections[d] > 1
        /\ Now(d, connections[d] - 1, waiting[d])
        /\ UNCHANGED <<store, open>>
     \/ connections[d] = 1 /\ LastConnectionCloses(d, forced)

(***************************************************************************)
(* ForceClose(origin) from a caller with the store s, which it may hold    *)
(* itself: each database closes its connections, and those releases and    *)
(* the last one of the factory add up to one release.  A database with an  *)
(* upgrade waiting is left with that upgrade's connection, and open.       *)
(***************************************************************************)
Surviving == {d \in open : waiting[d] = "open"}

CloseEverything(s, borrowed) ==
  /\ open' = Surviving
  /\ connections' = [d \in Database |-> IF d \in Surviving THEN 1 ELSE 0]
  /\ waiting' = [d \in Database |-> "none"]
  /\ store' = IF s.open
                THEN ReleaseBackingStore(s, TRUE, Surviving # {} \/ borrowed)
                ELSE s

\* The context forces the origin closed, or a database reports an error.
ForceClose == CloseEverything(store, FALSE)

-----------------------------------------------------------------------------
(* Calls of the front end. *)

\* What a call leaves when it fails after it opened the store: an error just
\* leaves the store, corruption has it closed.
Fails ==
  \/ store' = OpenBackingStore(store) /\ UNCHANGED databases
  \/ CloseEverything(OpenBackingStore(store), FALSE)

(***************************************************************************)
(* Open of a database that is not open: it is made and gets a connection,  *)
(* or the request is refused (an old version is asked for) and the         *)
(* database is dropped again without a word to the factory.                *)
(***************************************************************************)
OpenFirst(d) ==
  /\ d \notin open
  /\ \/ /\ store' = OpenBackingStore(store)
        /\ Now(d, 1, "none")
        /\ open' = open \cup {d}
     \/ Fails

\* Open of an open database: another connection, or an upgrade that waits.
OpenAgain(d) ==
  /\ d \in open
  /\ waiting[d] = "none"
  /\ connections[d] < MaxConnections
  /\ \/ Now(d, connections[d] + 1, "none")
     \/ Now(d, connections[d], "open")
  /\ UNCHANGED <<store, open>>

\* The store is opened for one call and given back.
BorrowStore ==
  /\ store' = ReleaseBackingStore(OpenBackingStore(store), FALSE, open # {})
  /\ UNCHANGED databases

GetDatabaseNames == BorrowStore \/ Fails

(***************************************************************************)
(* DeleteDatabase of a database that is not open.  If LevelDB turns out to *)
(* be corrupt then, the caller still holds the store that has to go, and   *)
(* gives it back afterwards.                                               *)
(***************************************************************************)
DeleteUnopened(d) ==
  /\ d \notin open
  /\ \/ BorrowStore
     \/ Fails
     \/ /\ open' = Surviving
        /\ connections' = [e \in Database |-> IF e \in Surviving THEN 1 ELSE 0]
        /\ waiting' = [e \in Database |-> "none"]
        /\ store' = ReleaseBackingStore(
                      ReleaseBackingStore(OpenBackingStore(store), TRUE, TRUE),
                      FALSE, Surviving # {})

(***************************************************************************)
(* DeleteDatabase of an open one waits for its connections; with force_    *)
(* close, they are closed.                                                 *)
(***************************************************************************)
DeleteOpen(d) ==
  /\ d \in open
  /\ \/ /\ waiting[d] = "none"
        /\ Now(d, connections[d], "delete")
        /\ UNCHANGED <<store, open>>
     \/ LastConnectionCloses(d, TRUE)

Next ==
  \/ \E d \in Database : OpenFirst(d) \/ OpenAgain(d)
  \/ \E d \in Database : DeleteUnopened(d) \/ DeleteOpen(d)
  \/ \E d \in Database, forced \in BOOLEAN : Close(d, forced)
  \/ \E d \in Database, b \in Blob : AddBlobRef(d, b)
  \/ \E b \in Blob : ReleaseBlobRef(b)
  \/ GetDatabaseNames
  \/ ForceClose
  \/ MaybeCloseBackingStore

Spec == Init /\ [][Next]_vars

-----------------------------------------------------------------------------
(* What should be true of it. *)

(***************************************************************************)
(* The inductive invariant: the factory's second reference to the store    *)
(* stands for the blobs in use, its map of databases for their             *)
(* connections, and a store that is gone has left nothing behind.          *)
(***************************************************************************)
StoreAgrees ==
  /\ store.kept <=> store.used # {}
  /\ ~store.open => store = Closed

DatabasesAgree ==
  /\ open = {d \in Database : connections[d] > 0}
  /\ \A d \in Database : waiting[d] # "none" => d \in open

\* The store has a user other than the factory's own map.
InUse == open # {} \/ store.used # {}

(***************************************************************************)
(* As long as a database is open or a page uses a blob, the store stays    *)
(* open and is not about to be closed: "as long as we've got blobs         *)
(* registered in use_tracker_, backing_store_->factory() will keep         *)
(* backing_store_ alive" (indexed_db_active_blob_registry.h), and the      *)
(* timer that ReleaseBackingStore starts is not running yet, which it      *)
(* asserts.                                                                *)
(***************************************************************************)
StoreOutlivesItsUsers == InUse => store.open /\ ~store.timer

IInv == TypeOK /\ StoreAgrees /\ DatabasesAgree /\ StoreOutlivesItsUsers

(***************************************************************************)
(* When the last user goes, the store is closed or its timer runs: no      *)
(* order in which databases and blobs are given back leaves it open for    *)
(* good.  A request that is refused does, without having been a user.      *)
(***************************************************************************)
LastUserLeavesItTimed ==
  [][InUse /\ ~InUse' => ~store'.open \/ store'.timer]_vars

(***************************************************************************)
(* An open database has a registry to count the blobs of what it reads:    *)
(* AddBlobRef asserts that its backing store is there, and ReleaseDatabase *)
(* forces the store closed since "the initiator is assuming the backing    *)
(* store will be released once all connections are closed".  But the       *)
(* connections that are closed may be those of one database of several.    *)
(***************************************************************************)
OpenDatabasesHaveRegistry == open # {} => ~store.shut

=============================================================================
