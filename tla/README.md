# A verification project for OSV-Free

OSV-Free is a WebView (Chromium's `content` and `android_webview`, at the commit
in `src/src`) in which the native side of a hybrid app and the page in its main
frame exchange messages that carry the sender's origin and are delivered to a
target origin only. This project models the parts of it where order, threads and
failures decide whether it is right: the message ports that an app holds, the
bridge that OSV-Free adds, and the two stores behind every page: IndexedDB, down to
the files it keeps, and localStorage, from the renderers' copies to LevelDB.

Everything is written in TLA+, checked with TLC on small instances, and, for the
safety properties, proved with TLAPS for every value of the constants.

To check a module: `tlc -config X.cfg M`; to check the proofs about it:
`tlapm M_proof.tla`. `PROJECT.json` lists the runs, which lines of the source
each definition stands for, a mutant for each property (an operator of the
module, marked "Mutant", that is a plausible mistake in that place, under which
the property must fail), the hazards that the properties are aimed at, and the
theorems.

Contents: 1 the system; 2 the models; 3 what the runs show; 4 fairness; 5 what
is proved; 6 where code and documents disagree; 7 what is not modelled; 8 the
plan.

## 1. The system

### 1.1 Message port of an app (modelled: `AppWebMessagePort`)

`AppWebMessagePort.java` is one end of an HTML message channel. Behind it are a
C++ instance (`app_web_message_port.cc`), which decodes and calls back, and a
`content::MessagePort` (`message_port.cc`) with a Mojo watcher.

*State*: `mClosed`, `mNativeAppWebMessagePort`, `mMessageCallback`, `mHandler`;
in C++ the instance itself, and `State::callback_` and `watcher_handle_`; outside,
the pipe and the loopers of the handlers. *Operations*: `setMessageCallback`,
`close`, `postMessage`, `onMessagesAvailable`, `dispatchReceivedMessages`;
`SetCallback`, `StopWatching`, `StartWatching`, `ArmWatcher`, `OnHandleReady`.
*Hard*: three threads (the UI thread, the IO thread of the watcher, the thread of
the app's `Handler`) and two locks (`mLock`, reentrant, and `State::lock_`);
resetting the watcher waits for its callback; `onMessage` runs with `mLock` held
and may call back into the port. *Right when*: messages come once, in order and
to one thread at a time; `close` is final and returns; no wakeup is lost; no
threads wait in a circle.

### 1.2 The bridge (modelled: `OsvBridge`)

What OSV-Free adds: `postMessageToMainFrame` from the native side to a page of a
given origin, `receiveMessageFromMainFrame`, which stores a callback in the
`RenderFrameHost` and has the renderer install `postMessageToNativeFrame` in the
document, and the answer path. It runs through `OsvFreeWebView.java`,
`WebViewChromium`, `AwContents`, `WebContentsImpl.java`, `web_contents_android.cc`,
`message_port_provider.cc`, `render_frame_host_impl.cc` and
`render_frame_impl.cc`.

*State*: the callback and the last committed origin of each host; the document
and its function in each frame; `myrouting_id`, one file-static of the renderer
process; the messages on the IPC channel. *Hard*: navigation and destruction in
one process race with messages from the other. *Right when*: the callback of a
view learns the origin of the page that called it, and a reply aimed at that
origin reaches nobody else.

### 1.3 IndexedDB in the browser

One sequence (`IDBTaskRunner`) runs everything but the writing of blob files and
the pages' references to them, which are on the IO thread. The parts, from the
front end in:

| part | source | state | model |
|---|---|---|---|
| front end | `database_impl.cc`, `indexed_db_dispatcher_host.cc` | none to speak of | its calls are the inputs of the two models |
| connection requests | `indexed_db_database.cc`, `indexed_db_connection.cc` | queue, active request, metadata, connections | `IndexedDBDatabase` |
| factory, context | `indexed_db_factory_impl.cc`, `indexed_db_context_impl.cc` | open databases and backing stores, close timers | `IndexedDBFactory`; the part that makes and releases one database is in `IndexedDBDatabase` |
| transaction coordinator | `indexed_db_transaction_coordinator.cc` | queued and started transactions | `IndexedDBTransactions` |
| transaction | `indexed_db_transaction.cc` | state, tasks, timer, commit flags | `IndexedDBTransactions` |
| backing store | `indexed_db_backing_store.cc`, `leveldb/` | LevelDB, blob files, two journals, timer | `BlobJournal` |
| active blob registry | `indexed_db_active_blob_registry.cc` | blobs that pages use, those marked deleted | `BlobJournal`, and its hold on the store in `IndexedDBFactory` |

*Hard*: not threads, but re-entrance and order. Ending one thing starts the next
inside the same call: a closed connection aborts an upgrade, whose completion
performs the next request, while the connection still counts. Answers of the
quota manager and the blob writer, the inactivity timer, pages that close and
force close come in any order. *Right when*: writers exclude each other on the
stores they share, in order of creation; a version change has the database to
itself; everybody is answered exactly once; nobody is forgotten; the blob of a
record is there whole after any crash, and no blob file stays for good that no
record and no page needs; a backing store is open as long as somebody uses it.

### 1.4 localStorage (modelled: `LevelDBWrapper`, `LocalStorageCachedArea`)

A page reads and writes its origin's items in a copy that its renderer keeps
(`local_storage_cached_area.cc`, `dom_storage_map.cc`). Every change goes to the
browser, where `LevelDBWrapperImpl` has the map that counts, and the browser tells
all renderers. Behind the map is LevelDB, asked asynchronously
(`leveldb_wrapper_impl.cc`, `local_storage_context_mojo.cc`), and for data of the
old version an SQLite file on a sequence of its own.

*State*: in a renderer the copy, the keys whose events it ignores, and whether it
ignores all; in the browser the map, the tasks that wait for it to be loaded, the
batch of changes to be committed, the number of commits in flight. *Hard*: a
renderer's write and others' events cross in the pipe; `GetAll`'s answer overtakes
events; a refused write leaves answers to others under way; the map may be dropped and loaded
anew at any time, with writes still to be made; a wrapper goes with the last
page. *Right when*: a page reads its own writes; copies converge to the
browser's map; the disk has at any time the whole map of some moment, and at last
that of now; a deletion reaches the disk and all copies.

### 1.5 How they interact

A page's script reaches the native side by a port or by the bridge; both use the
IPC and Mojo channels between browser and renderer but share no state, so the
models are not composed with one another. `IndexedDBDatabase` and
`IndexedDBTransactions` meet at one place: an upgrade is a version-change
transaction. What either needs of the other is small and stated in both: no
other connection is open during an upgrade (`UpgradeRunsAlone`, proved in the
one, the reason why version-change transactions are left out of the other), and
an upgrade ends, at the latest by its timer (`EveryTransactionEnds`, checked of
transactions in the one, a fairness assumption of the other).

`BlobJournal` is what `IndexedDBTransactions` calls a commit, with its own
transactions: of the coordinator it takes that no transaction starts while a
writer shares a record with it (`WritersRunAlone`, proved in the other), and
that readers which run already do not keep a writer from starting. Its promise
to the rest is `AtomicBlobs`: a commit is one change. `IndexedDBFactory` sees of
a database what `IndexedDBDatabase` promises, that it is released when its last
connection goes and nobody waits (`ReleasedWhenUnused`, proved), and of the
registry that it reports the first and the last blob in use.

`LevelDBWrapper` has of the renderers that they call, and `LocalStorageCachedArea` of
the browser that it has one map which changes by calls and deletions only. That
there is such a map behind loads, purges and the end of the wrapper is what
`ImplementsStoredMap` says of the one; that renderers can live with it, what
`CacheFollowsTheMap` says of the other.

Section 7 lists the other components.

## 2. The models

Names follow the source. An action is a critical section of a thread
(`AppWebMessagePort`), the handling of one IPC message or call (`OsvBridge`), or a
task of the sequence with all calls it makes (`IndexedDBTransactions`,
`IndexedDBFactory`, `BlobJournal` but for its clean-ups). In
`IndexedDBDatabase` a task is cut where it calls back into the queue of requests,
with the call stack in the variables called `control`; no task begins before
`Returned`.

| module | what it is |
|---|---|
| `PortDelivery` | the promise of a port: in order, once, until closed |
| `AppWebMessagePort` | threads, locks, watcher, loopers |
| `OsvBridge` | browser, renderer and the two channels between them |
| `ScopeLocks` | the promise of the coordinator: writers alone on their stores, in creation order |
| `IndexedDBTransactions` | coordinator and transactions |
| `VersionLock` | the promise of a database's version: shared by those who have it open, changed or deleted alone |
| `IndexedDBDatabase` | requests to open and delete, connections, upgrades, force close |
| `AtomicBlobs` | the promise of the store: each commit changes what readers find at once, and a blob key is used for one blob |
| `BlobJournal` | blob files, primary and live journal, both phases of a commit, clean-up, registry, pages, crashes |
| `MCBlobJournal` | the symmetries of its run |
| `IndexedDBFactory` | references to one origin's backing store, close timer, force close |
| `StoredMap` | the promise of localStorage: one map that changes by calls, and a disk that follows it map by map |
| `LevelDBWrapper` | the browser's map of one origin: loading, batches, commits, purge, migration, deletion, crashes |
| `MCLevelDBWrapper` | the keys and the old data of its runs |
| `LocalStorageCachedArea` | the renderers' copies and the pipes between them and the browser |
| `MCLocalStorageCachedArea` | the symmetries of its run |
| `*_proof` | the theorems |

**AppWebMessagePort.** `pc[t]` says where a thread is; the two locks name their
holder. `SetMessageCallback`, `InstallCallback`, `StopWatching`, `CancelWatch` and
`StartWatching` are the stretches of `setMessageCallback` between points where it
may have to wait; `Close`, `TakeNativePort`, `CloseMessagePort` those of `close`.
`WatcherFires`, `RunTask`, `EnterHandleReady`, `RunCallback`,
`OnMessagesAvailable` and `Rearm` are `OnHandleReady`, called by the watcher or as
a task that `ArmWatcher` posted. `HandleMessage`, `DispatchNextMessage`,
`DispatchEnds` and `OnMessageReturns` are the dispatch loop. What the app calls
inside `onMessage` is the constant `ReentrantCalls`, and whether the callbacks it
installs may be null, with which messages are read and dropped, is `Callbacks`. The run
has no null ones: the only caller outside tests
(`WebMessagePortAdapter.java:41`) always passes an object. The theorems are for both.
A message is its position in
the pipe; `Undecodable` are those `DecodeStringMessage` refuses. What a callback
through the pointer of a deleted instance does is a choice of the outcomes a
build can have.

**OsvBridge.** The two directions of the channel are sequences. Documents are
known by their origins, the empty origin of a blank document is `Blank`, and the
empty string as target, which means anybody, is `Anyone`. Each message to the
browser carries `from`, the page that really sent it, which the code does not
have: the properties compare with it.

**IndexedDBTransactions.** A writer's changes are the writer itself, the database
is the set of writers whose changes are durable, and a snapshot the value of that
set when it was taken. `CanStart` is the set that one pass of
`ProcessQueuedTransactions` starts; the loop itself, turn by turn, is `LoopStarts`,
and that it computes just that set is proved (`LoopIsCanStart`). `Finish` is the end of a
transaction, with the starts and the observers' transaction that follow from it,
in one step, as in the code. `writing` are the transactions whose blob writer has still
to come back; it may do so when the transaction has long been aborted, timed out or
force-closed, and must then change nothing (`BlobWriteComplete`).

**IndexedDBDatabase.** A request is its number; so is its connection.
`ProcessRequest` is a turn of the loop of `ProcessRequestQueue`, with the whole of
`OpenRequest::Perform` or `DeleteRequest::Perform`. `Close`, `EraseConnection`,
`OnConnectionClosed` and `ReleaseDatabase` are `IndexedDBDatabase::Close` and the
factory's `ReleaseDatabase`, cut where requests are performed in between.
`ForceClose`, `BeginForceClose`, `ForceCloseConnection` and `ForceCloseReturns` are
the force close; `UpgradeFails` the failed commit that ends in one.

**BlobJournal.** The disk is `databases`, `entry` (which blob each record has),
`nextKey`, the journals `primary` and `live`, and `file`, whose values tell a file
that is cut short (`part`) from a whole one; everything else dies with the
process. `CommitPhaseOne` is the transaction of its own that takes keys and
announces the files, `WriteNextFile` and `WriteBlobToFile` the chained writer on
two threads, `CommitPhaseTwo` the LevelDB commit with both journals. What follows
it, `CleanUpBlobJournalEntries`, is `RemoveFile` once per entry and `EndCleanUp`,
and so are the clean-ups by the timer and by the first open; in between the
sequence runs nothing else, but the IO thread and `Crash` do. The loop goes
through a journal in its order; the model in any, which is more. `Faults` says
which calls may fail: LevelDB's commit of a transaction, its update of a journal,
the writing of a file, the removal of one (or of a part of a directory), and the
deletion of a database. `Read` is a record read and the `AddBlobRef` in
`ConvertBlobInfo`; then the answer (`sent`) becomes a `ShareableFileReference`
(`shared`) or is dropped, and the last reference posts `ReleaseBlobRef`. A
transaction has one database and the records it may touch instead of object
stores, and a record has one blob or none. `stale` and `abandoned` are history
variables of two properties.

**IndexedDBFactory.** The store's entry with its timer, the second reference that
blobs in use have, the registry's `use_tracker_`, and the databases with the number of
their connections and the one request that waits for these to close.
`ReleaseBackingStore` takes whether anybody else holds the store, which is what
`HasOneRef` answers. `CloseEverything` is `ForceClose` in one step: the databases
close their connections one after the other, and the releases of each and of the
factory itself come to the same as the last of them.

**LevelDBWrapper.** An action is a task of the IO thread, but for `RunTask`, which is
one turn of the loop in `OnLoadComplete`: while `running` has tasks the thread does
nothing else. A call is one of `Call`; a task that waits for the load is a call or
the `commit` of `ScheduleImmediateCommit`. LevelDB is `requests`, which it serves in
order, and `replies`; a write has the operations of its batch and the size that
`PrepareToCommit` puts into the metadata. The field `after` of a request is history:
the map it was made from. `OnNoBindings` is the end of the wrapper: the destructor
sends the batch, and the replies under way find no weak pointer. The SQLite file
is `hasOld`, its sequence `legacy`, and the data on the way back `migrated`. A value
is its size, and an item's size is that of its key, 1, and of its value.

**LocalStorageCachedArea.** `area[r]` is the cached area of a renderer. The browser's
map and all it was before are in `log`; each message to a renderer carries in `at`
the position in it after the change the message tells of, which is history, too. An
answer carries whether its callback's weak pointer is still good (`callback`);
`Reset` turns that off (`Orphaned`). `Uses` has the renderer wait for `GetAll`, and
`ServeGetAll` goes on with the call. The order in which `AllDeleted` puts items back is
that of their keys; `Retained` has the outcome of every order.

## 3. What the runs show

All runs are exhaustive. Constants that only bound the model are marked "bound"
in the modules.

| run | instance | shows |
|---|---|---|
| `port` | 3 messages, the second undecodable; 1 looper message and task per thread waiting | delivery implements `PortDelivery`; the native instance outlives its users; no lost wakeup; no circle of waiting threads; every readable message is read unless the port closes; `close` returns |
| `bridge_one_view` | 1 view, 2 origins and blank, 2 messages per channel, 2 calls kept for later replies | callback and reply meet the right origin under all navigations and destructions; a destroyed page goes |
| `idb_transactions` | 3 transactions of any mode and scope over 2 stores, 2 places, 1 request each, no data path | isolation, order, snapshots, bookkeeping; implements `ScopeLocks` |
| `idb_liveness` | the same with a data path: blob writers, and failures that close everything | each transaction is answered once, although blob writers come back late; a writer always has something that will move it; everybody ends whom pages have not abandoned, and whom abandoned readers have left a place |
| `db_requests` | 3 requests of any kind, 2 versions | upgrades alone, versions agree in memory and on disk, answered once, in order and at last; implements `VersionLock` |
| `blob_journal` | 1 database, 2 records, 2 transactions at a time, 2 blob keys, 1 blob in the hands of pages, five kinds of faults | the blob of a record is there and whole; no file is lost track of; what pages use stays; implements `AtomicBlobs` |
| `idb_factory` | 3 databases, 2 blobs, 3 connections each | the store is open and not about to close while it is used; the last user closes it or starts the timer |
| `local_storage_wrapper` | 2 keys, one of them in the old data, values of 2 sizes, quota 4, 2 calls, 2 flushes, purges or deletions, 1 crash or failed request | pages see one map, which keeps to the quota, the disk follows it and catches up, whoever waits for a load is served; implements `StoredMap` |
| `local_storage_caches` | 2 renderers, 2 keys, 2 values, 3 calls or deletions by the browser, every map to begin with; quota 4, with the allowance 5, and a full map has 6 | no event missed or applied twice, own writes stay, answers come as expected |
| `bridge_shared_routing_id`, `blob_used_file_deleted`, `local_storage_old_database` | small | section 6 |

Type invariants are proved for every module with a proof (section 5) and are not
in the runs.

*Why the bounds are enough.* Port: a looper message or task waits
on each of two loopers while another is dispatched, and the undecodable message
has one before and one after it; a further one of a kind would only repeat. Bridge: two
messages in a channel let a commit or a deletion come between a request and its
answer in either order; two kept calls let a reply be sent after a navigation and
its answer. Transactions: two conflicting ones and a third that may overtake
them, with one place less than transactions so that the limit is reached; two
stores let scopes overlap in part. The third also stays when two readers abandon both
places. Requests: one at work, one behind it that
waits or deletes, and one that holds a connection; two versions give an upgrade,
a downgrade and an equal version. Blobs: a transaction that replaces the blob of
another, with a reader or a second writer beside it, needs two transactions, two
records and two keys; a key that is never used again makes a third redundant. The
blob that pages hold may be either, before and after it died. One database is
enough because a transaction never leaves its own, and the journals tell
databases apart by the key only. Factory: one database that is closed, one
that stays and one whose upgrade waits. Wrapper: two calls
make a batch and one that begins while the first is in flight, or a write and the one
that takes its place, which fits or not; two flushes, purges or deletions let the map
be dropped and loaded anew between them, or the second batch be committed before the
first has been reported, and the fault comes anywhere. With items of sizes 2 and 3
and the quota 4 two small ones fit and a small one beside a large one does not, so that
a write is refused as a second item and as the larger value of one that is there, and
accepted again when the other has gone. (A map that is over the quota to begin with is
left to the proof.) Copies: a write of each renderer and a clear, or two of one
and a deletion, can cross in every way; with the quota between one large item
and two, a write is accepted by the copy and refused by the browser. (With four
calls it holds as well, in 3.3 million states.) The proofs do not depend on these bounds.

`blob_journal` uses the symmetry of records and of transactions, which the
specification does not tell apart; its properties are invariants and a
refinement of a specification without liveness. `local_storage_caches` uses that of
renderers and of keys, for invariants only. No other run uses symmetry. Deadlock
checking is off where a system may stop: a closed port, a destroyed view,
transactions, requests and calls that have all been made. The wrapper and the factory are
checked for deadlock.

## 4. Fairness

- *Port*: strong fairness for what the UI thread is in the middle of, for its tasks
  and for its looper messages, and for the work of the IO thread and of the app's
  looper, each as a whole. These are message loops that wait for locks which
  others hold for a while, and get them if they are free again and again; between
  a watcher's signal and a posted task the IO thread may choose. The peer need not
  post and the app need not call.
- *Bridge*: each end of the channel reads it, and the posted `destroyNatives` runs.
- *Transactions*: posted closures run, timers fire, the quota manager and the blob
  writer answer. A page may stop in the middle of any transaction that it has used, but
  Blink commits one that has no requests. Readers have no timer: one that its page has
  abandoned stays, and two hold both places (`Abandoned`, `PlacesAreTaken`,
  section 6). The property excepts these, and those in the queue when no place is left.
- *Requests*: calls return, the scheduled upgrade is run by the sequence, an upgrade
  ends (the timer), and a page that got a versionchange event closes its
  connection sooner or later: that a page which does not is merely reported as
  blocked is the specified behaviour of IndexedDB. Nothing is assumed of pages
  that were not asked; the mutant that asks nobody therefore starves a request.
- *Wrapper*: posted tasks and timers run, LevelDB serves its requests and the old
  database's sequence its own, each under weak fairness. Nobody has to call, flush,
  purge or close.
- *Blobs, factory and copies*: none. Both timers may be put off for ever, the clean-up's by
  commits that overlap, the close timer by calls that come in time, so that
  neither a dead file nor an unused store is bound to go. The properties say
  instead that whatever is to go is known, to a journal or to the timer.

## 5. What is proved

For every value of the constants. Nothing is assumed but the named assumptions of
the modules and, for some theorems, a premise that they state.

**AppWebMessagePort_proof.** `TypeCorrect`, `NativeOutlivesItsUsersHolds`,
`OneOnMessageHolds`, `ClosedMeansQuietHolds`, `NoLostWakeupHolds`,
`NoLockCycleHolds`, `NoDeliveryAfterCloseHolds`, `PortImplementsDelivery`. The
invariants are layered, each proved from those before it: whoever is in
`onMessage` holds `mLock`; how far `close` has come (`CloseProgress`); a watch is
armed only on an empty pipe and attended to otherwise (`WatchAttended`); who holds which lock and what it
is doing (`LockHolders`). Each property then follows from a layer. *Premise* of
`NoLockCycleHolds`: the app does not call `setMessageCallback` inside `onMessage`;
without it the theorem is false (section 6).

**OsvBridge_proof.** `TypeCorrect`, `CommittedPageIsTheSenderHolds`,
`OnlyRegisteredPagesSpeakHolds`, `CallbackGetsSendersOriginHolds`,
`ReplyReachesRequesterHolds`, `FrameOutlivesItsMessagesHolds`. What is
committed in the browser, followed by the commits still in the channel up to a
message, is the page that sent the message; a function in a document means a
registration in the view's host that no later message takes back. A reply carries
the origin that the callback was given and is taken by no document of another
(`RepliesAreAddressed`), which needs the assumption that `Anyone`, the target that
everybody matches, is no origin. *Premise* of
`CallbackGetsSendersOriginHolds` and `ReplyReachesRequesterHolds`: a single WebView. `FrameOutlivesItsMessages` is what
`DestroyedPageGoes` needs beside fairness: a destroyed view that still has its frame has
the deletion on the way, and nothing comes behind it. It is inductive by itself.

**IndexedDBTransactions_proof.** `TypeCorrect`, `WritersRunAloneHolds`,
`NobodyOvertakesAWriterHolds`, `SeesEarlierWritersHolds`, `NoLostUpdateHolds`,
`AnsweredOnceHolds`, `NoWriterIsStrandedHolds`, `NobodyIsForgottenHolds`,
`StartedWithinLimitHolds`, `LoopIsCanStart`, `QueueNeverStandsStill`,
`TransactionsImplementLocks`. What
a handler does to the coordinator is always one of four moves - an end with the
starts that follow, a creation, the end of everything, nothing - and the
invariants about who runs with whom are proved of the moves, once. `SeesEarlierWriters`
needs that a durable writer has ended and stays so; `NoLostUpdate` that
a writer's snapshot is taken while it is started, so that any change since is by
a writer that shares no store. The limit is about cardinalities: whoever is left
in the queue with nothing to lock him is not the first of his kind, or that first one
found every place taken by the started and by those that the same pass started before
it (`PassForgetsNobody`); and the last one that a pass starts had a place beside all
the others (`PassWithinLimit`). That the loop starts `CanStart` (`LoopIsCanStart`, for
any queue and any started) needs its state after each turn in closed form (`PassAt`):
what has started so far is the part of `CanStart` up to that turn, and what is locked are the
stores of the started writers and of the queued ones up to it. A turn keeps that form
(`TurnIsRight`), and the recursive function of the loop is the closed form, since a least turn
at which they differ cannot be. `QueueNeverStandsStill` then says that a queue with somebody in it has
somebody started before it, whose end runs the loop again; that this end comes is
liveness and stays with TLC. *Premise* of `NoWriterIsStranded`: not incognito.

**IndexedDBDatabase_proof.** `TypeCorrect`, `UpgradeRunsAloneHolds`,
`OpenConnectionsAgreeHolds`, `AnsweredOnceHolds`, `ServedInOrderHolds`,
`NobodyIsForgottenHolds`, `ReleasedWhenUnusedHolds`, `BlockedMeansWaitingHolds`,
`DiskAgreesHolds`, `RequestsImplementVersionLock`. The inductive invariant `IInv`
says where a request can be (queued in order, active, answered: `Line`, `Answered`,
`Past`), that whoever has a connection, is being closed, was asked or told has its
answer unless it is the upgrader (`Marks`), that an upgrade has the only
connection (`Alone`), and what the unfinished calls still owe (`Stack`): a non-empty
queue behind nobody is being processed, a request that waits for no connection is
about to be notified, an open database without connections is being closed. The
properties about a sequence at rest are `Stack` with nothing unfinished. It is
needed because in the middle of a task all of them are false. `AnsweredOnce` and
`OpenConnectionsAgree` are conjuncts of it: they would not be inductive without
the rest. The key to the closing of connections is that the connection being
closed has its answer, so that it is not the upgrader's when it is erased,
although it may have been when `Close` began. *Premise* of the last two theorems:
no commit fails after LevelDB has taken it (`~JournalFails`), see section 6.

**BlobJournal_proof.** `TypeCorrect`, `NamedFilesWholeHolds`,
`RegisteredFilesStayHolds`, `FilesAreAccountedForHolds`,
`StoreImplementsAtomicBlobs`. A key is *settled* when it has been issued, no
writer has it and the IO thread does not write it. `IInv` says that the blobs of records are
settled, whole, each its own, and in no journal, neither by name nor with their
database (`NamedInv`, `DatabaseInv`); that a snapshot has settled keys only, and
a writer's agrees with the records it may change (`TransactionInv`); that the
keys of a running writer are its own and in the primary journal (`WriterInv`),
and the files on the IO thread those of writers or given up (`IOInv`); that what
the registry counts is settled, and whole and not in the primary journal if it
was handed out while a record had it (`RegistryInv`); and that a clean-up works off
what its journal has, keeps off the files of writers, and has deleted what it
is about to strike out (`CleanUpInv`). It is needed because whether a file may be deleted
depends on all of these at once: records, writers, pages and the journal that is
being worked off. `FilesAreAccountedForHolds` is inductive relative to it, and
the refinement needs of it that only a commit or a deletion changes what readers
find. *Premise* of all but the first: LevelDB does not refuse the deletion of a
database (section 6).

**IndexedDBFactory_proof.** `TypeCorrect`, `StoreOutlivesItsUsersHolds`,
`LastUserLeavesItTimedHolds`. The inductive invariant is that the second
reference to the store stands for the blobs in use, that a database is in the
factory's map exactly when it has connections, and that a store that is gone has
left nothing behind; without it a release could find a reference that nobody
will give back.

**LevelDBWrapper_proof.** `TypeCorrect`, `WrapperImplementsStoredMap`,
`MetadataIsRight`, `BytesUsed`, `QuotaIsKeptHolds`, `CommitsAreCountedHolds`,
`BatchIsTimedHolds`, `RestingDiskIsSeenHolds`, `OneLoadServesAllHolds`,
`WrapperIsWantedHolds`. The invariant has two layers. `LoadSound` holds also when LevelDB
has failed: it keeps a load from crossing a write. A read is the last request, is answered once,
goes on to the old database only when the disk is empty, and as long as any of this is
under way tasks wait and nothing is written (`ReadInv`, `ReplyInv`, `OldInv`,
`LoadInv`). `DataInv` holds until LevelDB has reported an error: the requests are a chain
from the disk, where each write leaves what it remembers of the map and a read finds
the same, and a loaded map differs from the end of that chain in the batch only, so
that it can be purged or read anew when there is no batch. With it every step is one of
`StoredMap` or leaves its variables as they are.

The quota is then a matter of `StoredMap` alone: its maps change by calls. What a
call does to the size is `BytesUsed`. `Bytes` is a fold over the keys, and it is
taken through the function that the fold stands for, the sums over all sets of keys, by
least counterexamples (`LeastKeys`); for this `KeyAssumption` has the keys finitely
many, as the quota makes them.

Three theorems are the safety side of the two liveness properties, for any number
of calls and faults. `commit_batches_in_flight_` counts what it should (`CountInv`, request by
request and reply by reply), so that the timer which `StartCommitTimer` does not start
is started by a completion that does come (`BatchIsTimed`); when all of this has come
to rest the disk has the map (`RestingDiskIsSeen`). Tasks that wait have exactly one
load under way (`OneLoadServesAll`: `WaitInv` for one, `LoadSound` for no more). That a timer
fires and a load goes on is fairness and stays with TLC.

**LocalStorageCachedArea_proof.** `TypeCorrect`, `AnswersExpected`, `OwnWritesRead`,
`CachesFollow`, and with empty pipes `QuietCopiesAgreeHolds`. The inductive invariant is one of each renderer: what it ignores is what its two
pipes have messages for (`CountInv`, kept message by message with the library's
cardinality theorems), a copy that is not there ignores nothing unless it is being
loaded, and to be loaded is the last thing that a renderer asks for (`LoadInv`), and
the last write of a key, among the requests if there is one and in the inbox
otherwise, is what the copy has (`OwnInv`). It is needed because an event is
applied or skipped by the counts alone. For `CachesFollow` a second invariant
(`CourseInv`) stands on the first. What is in an inbox leads from one state of the
browser's map to the next and up to the last (`StampInv`); the last message to come
that tells of a key finds in the copy what it tells, and when there is none the copy
has what the renderer was told of (`FollowInv`). An event of the renderer's own is
skipped though it changes the map, so an answer of the renderer has to follow it
(`OwnEventInv`), which after a clear has no callback, so a clear must follow
whatever lost its callback (`SentInv`).

*Only model-checked*: all liveness (TLAPS does not reach fairness and ENABLED). *Proved and not in a run*,
since they follow from what is checked or are steps on the way to it:
`OneOnMessageAtATime`, `ClosedMeansQuiet`, `NoDeliveryAfterClose`, `OnlyRegisteredPagesSpeak`,
`NobodyOvertakesAWriter`, `StartedWithinLimit`, `OpenConnectionsAgree`, `FrameOutlivesItsMessages`, `QuietCopiesAgree`,
`CommitsAreCounted`, `BatchIsTimed`, `RestingDiskIsSeen`, `OneLoadServesAll`,
`WrapperIsWanted`.

## 6. Where code and documents disagree

Runs that find what an assertion or a comment excludes:

- `bridge_shared_routing_id`. `myrouting_id` is one static for all main frames of
  the renderer process: with two WebViews a page's message is reported to the
  other's callback with the other's origin.
- `blob_used_file_deleted`. `indexed_db_backing_store.h:148` says that a commit
  deletes the blob files "not referenced by running scripts". It asks the
  registry at the commit. A transaction that began earlier still reads the old
  record in its snapshot, and registers and hands out a blob whose file is gone:
  the page has a blob it cannot read. `RegisteredFilesStay` is what does hold: a blob
  that was handed out while a record had it stays.
- `local_storage_old_database`. A comment in `DidCommit` says that the old database
  is deleted once data was written to LevelDB. `OnCommitComplete` is bound to a weak
  pointer of the wrapper, and the wrapper goes with the last page: if that closes
  the area before the migrated data has been committed, the old database stays
  (`local_storage_context_mojo.cc:148`). If a page later removes all items and goes as
  quickly, the next load finds LevelDB empty and migrates the removed items back.

In the models, without a run of their own:

- `AllDeleted` retains local changes, by its comment
  (`local_storage_cached_area.cc:247`), but puts them into a map with the quota on.
  A copy may be over the quota, since the browser allows more, and then own writes
  under way to two keys may not both fit: one is lost from the copy while the
  browser takes both, and the copy stays wrong. TLC finds
  `LocalChangesAreRetained` violated in seven states of `local_storage_caches`; `lost`
  excepts such copies from the other properties, `ReadsOwnWrites` among them;
- a commit timer started before a flush finds no map if the memory was purged after
  it: `DCHECK(map_)` in `CommitChanges` (`leveldb_wrapper_impl.cc:427`), although there
  is nothing to commit;
- `message_port.h:30` says the destructor waits for a callback in progress and stops
  the watch. The destructor is empty, and the watch holds a reference to the
  `State`: the callback runs, through an unretained pointer, after the instance was
  deleted (`NoCallbackIntoClosedPort`). Delivery is unharmed in the model
  (`NoDeliveryAfterClose` holds, since the Java side is gone), but what the call
  does is not defined;
- a force close that closes the last connection a waiting open request waited for
  starts its upgrade: the connection that makes is behind the loop's iterator, and
  `DCHECK(connections_.empty())` fails (`indexed_db_database.cc:1862`;
  `ForceClosesAll`);
- closing a database with force (a deletion with `force_close`, or a connection whose
  answer reached nobody) calls `ReleaseBackingStore` with `immediate`, which shuts
  down the active blob registry before it looks whether other databases have the
  store open (`OpenDatabasesHaveRegistry`). Their next read of a blob calls through
  the registry's cleared `backing_store_` (`indexed_db_active_blob_registry.cc:25`,
  `:123`), until the store is closed and opened again;
- `setMessageCallback` inside `onMessage` calls `StopWatching` with `mLock` held,
  while `OnHandleReady` holds `lock_` and waits for `mLock`
  (`AppWebMessagePort.java:180`). The comment in `close` names this deadlock and
  avoids it there. With `"setMessageCallback"` in `ReentrantCalls`, TLC finds
  `NoLockCycle` violated;
- a force close between the start of an upgrade and its first operation completes
  the request that still owns the connection being closed
  (`indexed_db_database.cc:257`): `DCHECK(!connection_)` fails and `Close` goes on
  with a deleted object. `OwnershipPassedOn` states it;
- `IndexedDBBackingStore::DeleteDatabase` marks the database as deleted in the
  registry before LevelDB has taken the deletion (`indexed_db_backing_store.cc:1725`).
  If LevelDB refuses, the database stays, and when pages let go of its blobs
  the whole directory goes to the primary journal: with `"deleteDatabase"` in
  `Faults`, TLC finds `NamedFilesWhole` violated;
- the file of a writer aborted while the IO thread works for it may come to be after
  its journal entry was cleaned, and is not deleted before the database is
  (`indexed_db_backing_store.cc:2455`; `abandoned`);
- a first open that is refused, as one of a version too low, and a call that fails
  after it opened the store, leave the store open with no user and no timer
  (`indexed_db_factory_impl.cc:470`, `:447`, `:249`, `:272`);
- a corruption found while a caller holds the store, or with an upgrade waiting that
  survives the force close, destroys the files of a store that is still open
  (`indexed_db_factory_impl.cc:327`), and so may `DeleteForOrigin`
  (`indexed_db_context_impl.cc:319`);
- a corruption found by a deletion that the last closing connection lets go on
  erases the store inside `Close`, whose `ReleaseDatabase` then looks for it in the
  map (`indexed_db_factory_impl.cc:121`). The model has no such deletion;

- a null handler in a second `setMessageCallback` keeps the first one's thread
  (`AppWebMessagePort.java:176`), where `MessagePort.java:56` promises the UI thread;
- a page without an origin is reported with the empty string, and a reply to that
  goes to whoever is there (`render_frame_host_impl.cc:1898`);
- "Read-only transactions don't block other transactions, so don't time those out"
  (`indexed_db_transaction.cc:523`). They lock nothing, but `kMaxStartedTransactions`
  of them, which pages do not finish, keep everybody else queued
  (`indexed_db_transaction_coordinator.cc:166`). Without the exception `PlacesAreTaken`
  TLC finds `EveryTransactionEnds` violated;
- a reader's snapshot is that of its first operation, not of its start
  (`indexed_db_transaction.cc:478`), so a reader may see a later writer;
- the clean-up of a commit may fail after LevelDB has committed
  (`indexed_db_backing_store.cc:4267`): the page is told of an abort of changes that
  are durable; for an upgrade (`JournalFails`) the requests behind it are still
  performed with the old version, before the force close;
- without a data path a failed operation closes nothing, and leaves a writer
  without a timer (`indexed_db_transaction.cc:493`).

## 7. What is not modelled, and why

`PROJECT.json` lists every component. Of the modelled ones: the port leaves out the
transfer of ports (`releaseNativePortForTransfer`); the bridge, swaps of the main
frame's host in a navigation to another process and crashes of the renderer; the
transactions, version changes (see 1.5), preemptive tasks and cursors, which only
delay a task queue or die with their transaction; the requests, DEFAULT_VERSION
(unit tests only), corruption, and what an upgrade does to the schema; the
backing store, records without blobs, the schema and its migrations, corruption,
the blobs of an incognito store, and a second database being created under the
name of a deleted one (it gets an id of its own); the factory, stores in memory, the
end of the context and the files; localStorage, the opening of LevelDB and running
without it, the schema version, the usage of all origins, shutting down, renderers
that open an area later or close it, the events that pages get, and the two bytes
by which the browser counts an item longer.

In the connection requests the upgrade ends by one of three actions that stand
for the whole transaction; its tasks are those of `IndexedDBTransactions`.

Not modelled yet, in this order of interest: message channels (which process owns
which end), WebView's start-up queue, the stream reader job, the cache storage
scheduler, service worker registration, sessionStorage, the event queues of the
renderer, downloads, permissions, frame and navigation management.

Not to be modelled: forwarding layers (renderer-side proxies, glue classes,
`WebContents` observers), media and device services over libraries that are not in
the repository, process start-up, tools (DevTools, tracing, accessibility), shell
and test code.

## 8. Plan

Done: `PortDelivery`, `AppWebMessagePort`, `OsvBridge`, `ScopeLocks`,
`IndexedDBTransactions`, `VersionLock`, `IndexedDBDatabase`, `AtomicBlobs`,
`BlobJournal`, `IndexedDBFactory`, `StoredMap`, `LevelDBWrapper`,
`LocalStorageCachedArea`, with their proofs.

Next, in order:

1. `MessageChannels`: ownership of both ends when ports are sent through ports, with
   the duplicate checks of `postMessage`. *Promise*: one owner per end, and no
   message lost in a transfer. Composes with `PortDelivery`.
2. `WebViewStartup`: the run queue of `WebViewChromium` and calls before Chromium
   has started, in order, from several threads.
3. `StreamReaderJob`: `shouldInterceptRequest` on another thread, and cancellation
   while it is under way.
4. `CacheStorageScheduler`, `ServiceWorkerRegistration`, `MainThreadEventQueue`: one module each with an abstract promise.
5. The composition of `IndexedDBFactory` with `IndexedDBDatabase`: several databases
   whose calls are cut where they call back, under one force close.
