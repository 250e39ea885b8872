--------------------------- MODULE LevelDBWrapper ---------------------------
(***************************************************************************)
(* The browser's side of localStorage for one origin: LevelDBWrapperImpl   *)
(* with its holder in LocalStorageContextMojo.  The items are loaded from  *)
(* LevelDB when they are first wanted and served from memory; changes are  *)
(* gathered in a batch that a timer, a flush or the end of the wrapper     *)
(* sends to LevelDB, and memory that holds no batch can be given back.     *)
(*                                                                         *)
(* Every action is one task of the IO thread, of LevelDB, which serves     *)
(* requests in order, or of the sequence that has the database of the old  *)
(* version; RunTask alone is a part of a task, and while a load has tasks  *)
(* to run the thread does nothing else.  A change is seen from here as a   *)
(* call with its effect on the map; who is told of it is in                *)
(* LocalStorageCachedArea.  Left out: opening LevelDB and doing without    *)
(* it, the schema version, the usage of all origins, and shutting down.    *)
(***************************************************************************)
EXTENDS Integers, Sequences, FiniteSetsExt

CONSTANTS
  Key,
  Value,        \* the values, each given by its size
  Absent,       \* what the map has for a key that is not in it
  Old,          \* the items in the database of the old version
  MaxSize,      \* max_size_, where every key has size 1
  MaxCalls,     \* bounds: calls by pages,
  MaxUrges,     \*   flushes, purges and deletions by the browser,
  MaxFaults     \*   crashes and requests that LevelDB fails

\* A key is no longer than max_size_ allows, so there are finitely many.
ASSUME KeyAssumption == IsFiniteSet(Key) /\ MaxSize \in Nat
ASSUME ValueAssumption == Value \subseteq Nat /\ Absent \notin Value

Map == [Key -> Value \cup {Absent}]
Empty == [k \in Key |-> Absent]

ASSUME OldAssumption == Old \in Map
ASSUME BoundAssumption == {MaxCalls, MaxUrges, MaxFaults} \subseteq Nat

\* The calls that pages make; an item that is set to Absent is deleted.
Call == [op: {"set"}, key: Key, value: Value \cup {Absent}]
          \cup [op: {"clear", "get"}]
Task == Call \cup [op: {"commit"}]

VARIABLES
  holder,      \* level_db_wrappers_ has the origin
  bound,       \* bindings_ is not empty
  loaded,      \* map_ is there
  map,         \* and what is in it
  database,    \* database_ is there
  tasks,       \* on_load_complete_tasks_
  running,     \* those of the load that has just ended
  batch,       \* commit_batch_, and whether there is one
  starting,    \* tasks posted to start the commit timer
  timers,      \* commit timers
  inFlight,    \* commit_batches_in_flight_
  deletedOld   \* deleted_old_data_

wrapper == <<holder, bound, loaded, map, database, tasks, running, batch,
             starting, timers, inFlight, deletedOld>>

VARIABLES
  requests,    \* to LevelDB, in order
  replies,     \* its answers to the wrapper
  disk,        \* the origin's items in LevelDB
  meta,        \* the size its metadata tells, 0 when it has none
  hasOld,      \* the database of the old version is there
  legacy,      \* tasks of the sequence that has it
  migrated,    \* its answer
  deleting,    \* posted calls of DeleteStorage
  failed,      \* history: LevelDB has reported an error
  left         \* what the bounds leave

leveldb == <<requests, replies, disk, meta>>
oldDatabase == <<hasOld, legacy, migrated>>
vars == <<wrapper, leveldb, oldDatabase, deleting, failed, left>>

NoBatch == [open |-> FALSE, clear |-> FALSE, keys |-> {}]
Batch == [open: BOOLEAN, clear: BOOLEAN, keys: SUBSET Key]

-----------------------------------------------------------------------------
(* Changes. *)

ItemSize(v) == IF v = Absent THEN 0 ELSE 1 + v
\* bytes_used_
Bytes(m) == MapThenSumSet(LAMBDA k : ItemSize(m[k]), Key)

Assigned(c, m) == [m EXCEPT ![c.key] = c.value]

\* Mutant: an item may be replaced by a larger one whatever the quota.
FitsIfReplaced(c, m) ==
  m[c.key] = Absent /\ ItemSize(c.value) > 0 => Bytes(Assigned(c, m)) <= MaxSize

Fits(c, m) ==
  ItemSize(c.value) > ItemSize(m[c.key]) => Bytes(Assigned(c, m)) <= MaxSize

Changes(c, m) ==
  \/ c.op = "set" /\ m[c.key] # c.value /\ Fits(c, m)
  \/ c.op = "clear" /\ m # Empty

\* Put, Delete, DeleteAll: the map and the batch after a call.
MapAfter(c, m) ==
  IF ~Changes(c, m) THEN m
  ELSE IF c.op = "set" THEN Assigned(c, m) ELSE Empty

\* Mutant: a clear does not delete what is on disk.
BatchAfterUncleared(c, m, b) ==
  IF ~Changes(c, m) \/ ~database THEN b
  ELSE IF c.op = "set" THEN [b EXCEPT !.open = TRUE, !.keys = @ \cup {c.key}]
  ELSE [b EXCEPT !.open = TRUE, !.keys = {}]

BatchAfter(c, m, b) ==
  IF ~Changes(c, m) \/ ~database THEN b
  ELSE IF c.op = "set" THEN [b EXCEPT !.open = TRUE, !.keys = @ \cup {c.key}]
  ELSE [open |-> TRUE, clear |-> TRUE, keys |-> {}]

\* CreateCommitBatchIfNeeded
StartingAfter(b) == IF b.open /\ ~batch.open THEN starting + 1 ELSE starting

(***************************************************************************)
(* The operations of CommitChanges and PrepareToCommit.  `after' is no     *)
(* part of them: it remembers the map they were made from.                 *)
(***************************************************************************)
WriteOf(m, b) ==
  [op |-> "write", clear |-> b.clear, items |-> [k \in b.keys |-> m[k]],
   size |-> Bytes(m), after |-> m, replies |-> TRUE]

\* What a page that has to load the map will find.
OnItsWay == IF requests = <<>> THEN disk ELSE requests[Len(requests)].after
Seen == IF loaded THEN map ELSE OnItsWay

\* GetPrefixed.  Here `after' remembers what is to be found.
Read == [op |-> "read", after |-> OnItsWay]

\* CommitChanges, if there is a batch.
RequestsAfterCommit(m, b) ==
  IF b.open THEN Append(requests, WriteOf(m, b)) ELSE requests

-----------------------------------------------------------------------------
Init ==
  /\ holder = FALSE /\ bound = FALSE
  /\ loaded = FALSE /\ map = Empty
  /\ database = TRUE
  /\ tasks = <<>> /\ running = <<>>
  /\ batch = NoBatch
  /\ starting = 0 /\ timers = 0 /\ inFlight = 0
  /\ deletedOld = FALSE
  /\ requests = <<>> /\ replies = <<>>
  /\ disk = Empty /\ meta = 0
  /\ hasOld = (Old # Empty)
  /\ legacy = <<>> /\ migrated = <<>>
  /\ deleting = 0
  /\ failed = FALSE
  /\ left = [calls |-> MaxCalls, urges |-> MaxUrges, faults |-> MaxFaults]

Idle == running = <<>>
Takes(what) == left[what] > 0 /\ left' = [left EXCEPT ![what] = @ - 1]

\* A request whose reply the wrapper's weak pointer will not take.
Unanswered(q) ==
  [i \in 1..Len(q) |-> IF q[i].op = "write" THEN [q[i] EXCEPT !.replies = FALSE]
                                            ELSE q[i]]

(***************************************************************************)
(* OnNoBindings erases the holder.  The wrapper's destructor sends what is *)
(* in the batch.                                                           *)
(***************************************************************************)
OnNoBindings(m, b, q) ==
  /\ holder' = FALSE
  /\ loaded' = FALSE /\ map' = Empty /\ database' = TRUE
  /\ batch' = NoBatch /\ starting' = 0 /\ timers' = 0 /\ inFlight' = 0
  /\ deletedOld' = FALSE
  /\ requests' = Unanswered(IF b.open THEN Append(q, WriteOf(m, b)) ELSE q)
  /\ replies' = <<>>

\* BindLocalStorage, GetOrCreateDBWrapper
OpenLocalStorage ==
  /\ Idle /\ ~bound
  /\ holder' = TRUE /\ bound' = TRUE
  /\ UNCHANGED <<loaded, map, database, tasks, running, batch, starting, timers,
                 inFlight, deletedOld, leveldb, oldDatabase, deleting, failed, left>>

\* The last page closes its end.
OnConnectionError ==
  /\ Idle /\ bound
  /\ bound' = FALSE
  /\ IF tasks = <<>>
       THEN OnNoBindings(map, batch, requests)
       ELSE UNCHANGED <<holder, loaded, map, database, batch, starting, timers,
                        inFlight, deletedOld, requests, replies>>
  /\ UNCHANGED <<tasks, running, disk, meta, oldDatabase, deleting, failed, left>>

LoadMap(task) ==
  /\ tasks' = Append(tasks, task)
  /\ requests' = IF tasks = <<>> THEN Append(requests, Read) ELSE requests

Perform(c) ==
  /\ map' = MapAfter(c, map)
  /\ batch' = BatchAfter(c, map, batch)
  /\ starting' = StartingAfter(batch')

(***************************************************************************)
(* Put, Delete, DeleteAll, and Get or GetAll, which change nothing unless  *)
(* the map has to be loaded for them.                                      *)
(***************************************************************************)
PageCalls(c) ==
  /\ Idle /\ bound
  /\ loaded => c.op # "get"
  /\ Takes("calls")
  /\ IF loaded
       THEN Perform(c) /\ UNCHANGED <<tasks, requests>>
       ELSE LoadMap(c) /\ UNCHANGED <<map, batch, starting>>
  /\ UNCHANGED <<holder, bound, loaded, database, running, timers, inFlight,
                 deletedOld, replies, disk, meta, oldDatabase, deleting, failed>>

-----------------------------------------------------------------------------
(* Loading. *)

\* Mutant: the load serves only the first of those who waited for it.
LoadCompletesForOne(m) ==
  /\ loaded' = TRUE /\ map' = m
  /\ running' = <<Head(tasks)>> /\ tasks' = Tail(tasks)

LoadCompletes(m) ==
  /\ loaded' = TRUE /\ map' = m
  /\ running' = tasks /\ tasks' = <<>>

OnMapLoaded ==
  /\ Idle /\ replies # <<>>
  /\ LET r == Head(replies)
     IN /\ r.op = "read"
        /\ IF r.ok /\ r.data = Empty
             THEN /\ legacy' = Append(legacy, "read")
                  /\ UNCHANGED <<loaded, map, running, tasks, database>>
             ELSE /\ LoadCompletes(IF r.ok THEN r.data ELSE Empty)
                  /\ database' = r.ok
                  /\ UNCHANGED legacy
  /\ replies' = Tail(replies)
  /\ UNCHANGED <<holder, bound, batch, starting, timers, inFlight, deletedOld,
                 requests, disk, meta, hasOld, migrated, deleting, failed, left>>

\* What was migrated is committed at once.
OnGotMigrationData ==
  /\ Idle /\ migrated # <<>>
  /\ LET data == Head(migrated)
         all == [open |-> data # Empty, clear |-> FALSE,
                 keys |-> {k \in Key : data[k] # Absent}]
     IN /\ LoadCompletes(data)
        /\ requests' = RequestsAfterCommit(data, all)
        /\ inFlight' = IF all.open THEN inFlight + 1 ELSE inFlight
        /\ starting' = StartingAfter(all)
  /\ migrated' = Tail(migrated)
  /\ UNCHANGED <<holder, bound, database, batch, timers, deletedOld, replies,
                 disk, meta, hasOld, legacy, deleting, failed, left>>

(***************************************************************************)
(* OnLoadComplete runs the next task, and after the last one looks whether *)
(* anybody still wants the wrapper.                                        *)
(***************************************************************************)
RunTask ==
  /\ running # <<>>
  /\ running' = Tail(running)
  /\ LET task == Head(running)
         commits == task.op = "commit" /\ database /\ batch.open
         m == IF task.op = "commit" THEN map ELSE MapAfter(task, map)
         b == IF commits THEN NoBatch
              ELSE IF task.op = "commit" THEN batch ELSE BatchAfter(task, map, batch)
         q == IF commits THEN RequestsAfterCommit(map, batch) ELSE requests
     IN IF Len(running) = 1 /\ ~bound
          THEN OnNoBindings(m, b, q)
          ELSE /\ map' = m /\ batch' = b /\ requests' = q
               /\ inFlight' = IF commits THEN inFlight + 1 ELSE inFlight
               /\ starting' = StartingAfter(b)
               /\ UNCHANGED <<holder, loaded, database, timers, deletedOld, replies>>
  /\ UNCHANGED <<bound, tasks, disk, meta, oldDatabase, deleting, failed, left>>

-----------------------------------------------------------------------------
(* Committing. *)

\* CommitChanges, or nothing if there is no batch.
CommitChanges ==
  /\ requests' = RequestsAfterCommit(map, batch)
  /\ inFlight' = IF batch.open THEN inFlight + 1 ELSE inFlight
  /\ batch' = NoBatch

\* The task that CreateCommitBatchIfNeeded posted.
StartCommitTimer ==
  /\ Idle /\ starting > 0
  /\ starting' = starting - 1
  /\ timers' = IF batch.open /\ inFlight = 0 THEN timers + 1 ELSE timers
  /\ UNCHANGED <<holder, bound, loaded, map, database, tasks, running, batch,
                 inFlight, deletedOld, leveldb, oldDatabase, deleting, failed, left>>

CommitTimerFires ==
  /\ Idle /\ timers > 0
  /\ timers' = timers - 1
  /\ CommitChanges
  /\ UNCHANGED <<holder, bound, loaded, map, database, tasks, running, starting,
                 deletedOld, replies, disk, meta, oldDatabase, deleting, failed, left>>

\* Mutant: the timer that was not started because of commits in flight is
\* not started after them.
TimersAfterCommitUnchanged == timers

\* StartCommitTimer when the last commit in flight is complete.
TimersAfterCommit == IF batch.open /\ inFlight = 1 THEN timers + 1 ELSE timers

\* With DidCommit, which deletes the old database.
OnCommitComplete ==
  /\ Idle /\ replies # <<>>
  /\ LET r == Head(replies)
         drops == r.ok /\ ~deletedOld
     IN /\ r.op = "write"
        /\ deletedOld' = (deletedOld \/ drops)
        /\ legacy' = IF drops THEN Append(legacy, "delete") ELSE legacy
  /\ replies' = Tail(replies)
  /\ inFlight' = inFlight - 1
  /\ timers' = TimersAfterCommit
  /\ UNCHANGED <<holder, bound, loaded, map, database, tasks, running, batch,
                 starting, requests, disk, meta, hasOld, migrated, deleting, failed, left>>

\* ScheduleImmediateCommit
Flush ==
  /\ Idle /\ holder
  /\ Takes("urges")
  /\ IF tasks # <<>>
       THEN LoadMap([op |-> "commit"]) /\ UNCHANGED <<batch, inFlight>>
       ELSE /\ database /\ batch.open
            /\ CommitChanges
            /\ UNCHANGED tasks
  /\ UNCHANGED <<holder, bound, loaded, map, database, running, starting, timers,
                 deletedOld, replies, disk, meta, oldDatabase, deleting, failed>>

PurgeMemory ==
  /\ Idle /\ loaded /\ ~batch.open /\ database
  /\ Takes("urges")
  /\ loaded' = FALSE /\ map' = Empty
  /\ UNCHANGED <<holder, bound, database, tasks, running, batch, starting, timers,
                 inFlight, deletedOld, leveldb, oldDatabase, deleting, failed>>

-----------------------------------------------------------------------------
(* Deleting the origin's data. *)

\* Mutant: the origin's metadata is not deleted with its data.
DeleteOriginItems ==
  [op |-> "write", clear |-> TRUE, items |-> [k \in {} |-> Absent],
   size |-> meta, after |-> Empty, replies |-> FALSE]

\* AddDeleteOriginOperations
DeleteOrigin ==
  [op |-> "write", clear |-> TRUE, items |-> [k \in {} |-> Absent],
   size |-> 0, after |-> Empty, replies |-> FALSE]

\* DOMStorageContextWrapper::DeleteLocalStorage has both versions deleted.
DeleteLocalStorage ==
  /\ Takes("urges")
  /\ legacy' = Append(legacy, "delete")
  /\ deleting' = deleting + 1
  /\ UNCHANGED <<wrapper, leveldb, hasOld, migrated, failed>>

DeleteStorage ==
  /\ Idle /\ deleting > 0
  /\ deleting' = deleting - 1
  /\ LET clear == [op |-> "clear"]
         b == BatchAfter(clear, map, batch)
     IN IF ~holder
          THEN /\ requests' = Append(requests, DeleteOrigin)
               /\ UNCHANGED wrapper
          ELSE IF ~loaded
          THEN /\ tasks' = tasks \o <<clear, [op |-> "commit"]>>
               /\ requests' = IF tasks = <<>> THEN Append(requests, Read)
                                              ELSE requests
               /\ UNCHANGED <<holder, bound, loaded, map, database, running, batch,
                              starting, timers, inFlight, deletedOld>>
          ELSE /\ map' = Empty
               /\ requests' = RequestsAfterCommit(Empty, b)
               /\ inFlight' = IF b.open THEN inFlight + 1 ELSE inFlight
               /\ starting' = StartingAfter(b)
               /\ batch' = NoBatch
               /\ UNCHANGED <<holder, bound, loaded, database, tasks, running,
                              timers, deletedOld>>
  /\ UNCHANGED <<replies, disk, meta, oldDatabase, failed, left>>

-----------------------------------------------------------------------------
(* LevelDB and the old database. *)

Written(w, d) ==
  [k \in Key |-> IF k \in DOMAIN w.items THEN w.items[k]
                 ELSE IF w.clear THEN Absent ELSE d[k]]

\* LevelDB serves a request, or reports an error.
ServeRequest ==
  /\ requests # <<>>
  /\ LET r == Head(requests)
     IN IF r.op = "read"
          THEN /\ replies' = Append(replies, [op |-> "read", ok |-> TRUE, data |-> disk])
               /\ UNCHANGED <<disk, meta>>
          ELSE /\ disk' = Written(r, disk)
               /\ meta' = r.size
               /\ replies' = IF r.replies
                    THEN Append(replies, [op |-> "write", ok |-> TRUE]) ELSE replies
  /\ requests' = Tail(requests)
  /\ UNCHANGED <<wrapper, oldDatabase, deleting, failed, left>>

FailRequest ==
  /\ requests # <<>>
  /\ Takes("faults")
  /\ failed' = TRUE
  /\ LET r == Head(requests)
     IN replies' =
          IF r.op = "read"
            THEN Append(replies, [op |-> "read", ok |-> FALSE, data |-> Empty])
            ELSE IF r.replies THEN Append(replies, [op |-> "write", ok |-> FALSE])
            ELSE replies
  /\ requests' = Tail(requests)
  /\ UNCHANGED <<wrapper, disk, meta, oldDatabase, deleting>>

\* MigrateStorageHelper
ReadOldDatabase ==
  /\ legacy # <<>> /\ Head(legacy) = "read"
  /\ migrated' = Append(migrated, IF hasOld THEN Old ELSE Empty)
  /\ legacy' = Tail(legacy)
  /\ UNCHANGED <<wrapper, leveldb, hasOld, deleting, failed, left>>

DeleteOldDatabase ==
  /\ legacy # <<>> /\ Head(legacy) = "delete"
  /\ hasOld' = FALSE
  /\ legacy' = Tail(legacy)
  /\ UNCHANGED <<wrapper, leveldb, migrated, deleting, failed, left>>

\* The browser dies, with what it has not got LevelDB to do, and starts again.
Crash ==
  /\ Takes("faults")
  /\ holder' = FALSE /\ bound' = FALSE
  /\ loaded' = FALSE /\ map' = Empty /\ database' = TRUE
  /\ tasks' = <<>> /\ running' = <<>>
  /\ batch' = NoBatch /\ starting' = 0 /\ timers' = 0 /\ inFlight' = 0
  /\ deletedOld' = FALSE
  /\ requests' = <<>> /\ replies' = <<>>
  /\ legacy' = <<>> /\ migrated' = <<>> /\ deleting' = 0
  /\ UNCHANGED <<disk, meta, hasOld, failed>>

-----------------------------------------------------------------------------
Next ==
  \/ OpenLocalStorage \/ OnConnectionError
  \/ \E c \in Call : PageCalls(c)
  \/ OnMapLoaded \/ OnGotMigrationData \/ RunTask
  \/ StartCommitTimer \/ CommitTimerFires \/ OnCommitComplete
  \/ Flush \/ PurgeMemory
  \/ DeleteLocalStorage \/ DeleteStorage
  \/ ServeRequest \/ FailRequest
  \/ ReadOldDatabase \/ DeleteOldDatabase
  \/ Crash

(***************************************************************************)
(* Posted tasks and timers run, LevelDB and the old database's sequence    *)
(* serve what they are asked.  Nobody has to call, flush or close.         *)
(***************************************************************************)
Fairness ==
  /\ WF_vars(OnMapLoaded) /\ WF_vars(OnGotMigrationData) /\ WF_vars(RunTask)
  /\ WF_vars(StartCommitTimer) /\ WF_vars(CommitTimerFires)
  /\ WF_vars(OnCommitComplete)
  /\ WF_vars(ServeRequest)
  /\ WF_vars(ReadOldDatabase) /\ WF_vars(DeleteOldDatabase)

Spec == Init /\ [][Next]_vars
FairSpec == Spec /\ Fairness

-----------------------------------------------------------------------------
(* Properties. *)

\* The state of the wrapper, LevelDB and the old database is well formed.
Size == {0} \cup {Bytes(m) : m \in Map}

Write ==
  [op: {"write"}, clear: BOOLEAN, items: UNION {[K -> Value \cup {Absent}] : K \in SUBSET Key},
   size: Size, after: Map, replies: BOOLEAN]

Request == Write \cup [op: {"read"}, after: Map]

Reply ==
  [op: {"read"}, ok: BOOLEAN, data: Map] \cup [op: {"write"}, ok: BOOLEAN]

TypeOK ==
  /\ holder \in BOOLEAN /\ bound \in BOOLEAN
  /\ loaded \in BOOLEAN /\ map \in Map /\ database \in BOOLEAN
  /\ tasks \in Seq(Task) /\ running \in Seq(Task)
  /\ batch \in Batch
  /\ starting \in Nat /\ timers \in Nat /\ inFlight \in Int
  /\ deletedOld \in BOOLEAN
  /\ requests \in Seq(Request)
  /\ replies \in Seq(Reply)
  /\ disk \in Map /\ meta \in Size
  /\ hasOld \in BOOLEAN
  /\ legacy \in Seq({"read", "delete"}) /\ migrated \in Seq(Map)
  /\ deleting \in Nat /\ failed \in BOOLEAN
  /\ left \in [{"calls", "urges", "faults"} -> Nat]

Stored == INSTANCE StoredMap
  WITH seen <- Seen,
       sent <- [i \in 1..Len(requests) |-> requests[i].after],
       hasOld <- hasOld \/ (migrated # <<>> /\ migrated[1] # Empty),
       broken <- failed

(***************************************************************************)
(* Behind the batches, timers, purges, reloads, migrations and deletions   *)
(* there is one map that changes by the pages' calls only: the map in      *)
(* memory is what the next load will find, the batch has all that a commit *)
(* has to write, every write makes the disk the map of some moment, and a  *)
(* crash takes pages back to the last one written.                         *)
(***************************************************************************)
ImplementsStoredMap == Stored!Spec

\* The size in the origin's metadata, which the quota and the settings page
\* show, is that of the items on disk, whichever path wrote them:
\* CommitChanges, a migration or DeleteStorage without a wrapper.
MetaMatchesData == ~failed => meta = Bytes(disk)

(***************************************************************************)
(* Neither pages nor the disk ever have more than the quota, or than the   *)
(* old database had: Put lets a map that is over budget shrink and not     *)
(* grow, also in calls that had to wait for a load or a migration.         *)
(***************************************************************************)
Within(m) == Bytes(m) <= MaxSize \/ Bytes(m) <= Bytes(Old)

QuotaIsKept == ~failed => Within(Seen) /\ Within(disk)

(***************************************************************************)
(* commit_batches_in_flight_ is the number of completions that are still   *)
(* to come: of commits that LevelDB has to serve and of answers on their   *)
(* way.  OnCommitComplete never takes it below 0, and a timer that is not  *)
(* started because of it is started after the last of them.                *)
(***************************************************************************)
CommitsAreCounted ==
  inFlight =
    Cardinality({i \in 1..Len(requests) :
                   requests[i].op = "write" /\ requests[i].replies})
    + Cardinality({i \in 1..Len(replies) : replies[i].op = "write"})

\* A batch is never left without something that has it committed: a posted
\* StartCommitTimer, a commit timer, or an OnCommitComplete to come.
BatchIsTimed == batch.open => starting > 0 \/ timers > 0 \/ inFlight > 0

\* When no timer, request or reply is under way the disk has what pages see:
\* the timers, flushes and closings have left nothing out.
RestingDiskIsSeen ==
  ~failed /\ starting = 0 /\ timers = 0 /\ requests = <<>> /\ replies = <<>> =>
    disk = Seen

\* The loads that are under way, each where it has got to.
Loads ==
  {<<"request", i>> : i \in {j \in 1..Len(requests) : requests[j].op = "read"}}
    \cup {<<"reply", i>> : i \in {j \in 1..Len(replies) : replies[j].op = "read"}}
    \cup {<<"old", i>> : i \in {j \in 1..Len(legacy) : legacy[j] = "read"}}
    \cup {<<"migrated", i>> : i \in 1..Len(migrated)}

(***************************************************************************)
(* LoadMap asks for the map when the first task has to wait for it, and    *)
(* not again: while tasks wait one load is under way, also after LevelDB   *)
(* has failed or the last page has gone, and never a second one.           *)
(***************************************************************************)
OneLoadServesAll ==
  /\ tasks # <<>> <=> Loads # {}
  /\ \A l, k \in Loads : l = k

\* OnNoBindings and OnLoadComplete drop the wrapper, with its memory, exactly
\* when no page is bound to it and no task waits or runs.
WrapperIsWanted == holder <=> bound \/ tasks # <<>> \/ running # <<>>

\* What pages have changed gets to the disk at last: StartCommitTimer, which
\* does nothing while a commit is in flight, and OnCommitComplete leave no
\* batch without a timer.
DiskCatchesUp == []<>(failed \/ disk = Seen)

\* Calls, flushes and deletions that wait for the map are served at last,
\* whether the load succeeds, fails or goes on to a migration, and whoever
\* has closed the area in between.
CallsAreServed == []<>(tasks = <<>>)

(***************************************************************************)
(* As the comment in DidCommit has it: the old database is deleted if data *)
(* was written to LevelDB.  It is not when the last page closes the area   *)
(* before OnCommitComplete.                                                *)
(***************************************************************************)
OldDatabaseIsDeleted ==
  disk # Empty /\ requests = <<>> /\ replies = <<>> /\ legacy = <<>> => ~hasOld
=============================================================================
