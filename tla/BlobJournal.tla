----------------------------- MODULE BlobJournal -----------------------------
(***************************************************************************)
(* The blob files of one origin's IndexedDB backing store, and the two     *)
(* journals of LevelDB that say which of them are to be deleted:           *)
(* IndexedDBBackingStore with its Transaction and ChainedBlobWriter, and   *)
(* the IndexedDBActiveBlobRegistry that counts the blobs pages hold.       *)
(*                                                                         *)
(* Threads: the IDB sequence runs the store and the registry; the IO       *)
(* thread writes new files and holds the blobs of the pages.  A clean-up   *)
(* deletes files one by one while the sequence does nothing else, and the  *)
(* process may die between any two deletions, so each is a step.           *)
(*                                                                         *)
(* Data: a record holds at most one blob, and a value without blobs is     *)
(* not told from no value.  LevelDB commits are atomic and durable.  An    *)
(* incognito store has no blob files and is not here.                      *)
(***************************************************************************)
EXTENDS Naturals, FiniteSets, Functions

CONSTANTS
  Database,  \* the databases of the origin
  Slot,      \* the places for a record in a database
  Txn,       \* the transactions that can be live at once
  MaxKey,    \* bound: the largest blob key of a database
  MaxHeld,   \* bound: the blobs that pages hold or are about to get
  NoBlob,
  Faults     \* which of AllFaults can happen

AllFaults == {"crash", "commit", "write", "remove", "journal", "deleteDatabase"}

kAllBlobsKey == 1
kFirstBlobKey == 2

Record == Database \X Slot
Key == Database \X (kFirstBlobKey..MaxKey)
Entry == Database \X (kAllBlobsKey..MaxKey)
AllBlobs(d) == <<d, kAllBlobsKey>>
Blob == Key \cup {NoBlob}

ASSUME BlobAssumption ==
  /\ MaxKey \in Nat \ {0} /\ MaxHeld \in Nat
  /\ NoBlob \notin Entry
  /\ Faults \subseteq AllFaults

VARIABLES
  databases,  \* disk: the databases in LevelDB
  entry,      \*   the blob entry of each record
  nextKey,    \*   the blob key generator of each database
  primary,    \*   the primary journal: files to delete
  live,       \*   the live journal: files to delete when no page holds them
  file,       \*   the blob files
  store,      \* process: the backing store
  opened,     \*   backends_opened_since_boot_
  timer,      \*   journal_cleaning_timer_ runs
  cleaning,   \*   the clean-up in progress
  doomed,     \*   what it has still to remove
  keep,       \*   what it leaves in the primary journal after a commit
  phase,      \* transactions: where each is
  scope,      \*   the records it may touch
  view,       \*   the entries of these in its snapshot
  change,     \*   blob_change_map_
  fresh,      \*   the keys its new blobs got
  unwritten,  \*   the files of these its writer has not done with
  used,       \* registry: the keys of use_tracker_
  deleted,    \*   those of them marked as deleted
  deletedDbs, \*   deleted_dbs_
  stale,      \*   history: those registered when no record had them any more
  io,         \* IO thread: the files it is writing
  sent,       \*   blobs on their way to a page
  shared,     \*   the ShareableFileReferences of pages
  releases,   \*   ReleaseBlobRef tasks on their way back
  abandoned   \*   history: files being written when their writer was aborted

leveldb == <<databases, entry, nextKey, primary, live>>
process == <<store, opened, timer>>
cleanup == <<cleaning, doomed, keep>>
txns == <<phase, scope, view, change, fresh, unwritten>>
registry == <<used, deleted, deletedDbs, stale>>
pages == <<sent, shared, releases>>

vars == <<leveldb, file, process, cleanup, txns, registry, io, pages, abandoned>>

Phase == {"none", "reading", "active", "writing", "onIO", "failed"}
FileState == {"none", "part", "whole"}
\* A callback into the registry is void once the registry has shut down.
Callback == {"no", "bound", "void"}

NoChange == [r \in Record |-> "same"]
NoBlobs == [r \in Record |-> NoBlob]
Committing == {t \in Txn : phase[t] \in {"writing", "onIO", "failed"}}

TypeOK ==
  /\ databases \subseteq Database
  /\ entry \in [Record -> Blob]
  /\ nextKey \in [Database -> kFirstBlobKey..MaxKey + 1]
  /\ primary \subseteq Entry /\ live \subseteq Entry
  /\ file \in [Key -> FileState]
  /\ store \in {"closed", "opening", "open"} /\ opened \in BOOLEAN /\ timer \in BOOLEAN
  /\ cleaning \in {"no", "commit", "timer", "open"}
  /\ doomed \subseteq Entry /\ keep \subseteq Entry
  /\ phase \in [Txn -> Phase]
  /\ scope \in [Txn -> SUBSET Record]
  /\ view \in [Txn -> [Record -> Blob]]
  /\ change \in [Txn -> [Record -> {"same", "put", "gone"}]]
  /\ fresh \in [Txn -> [Record -> Blob]]
  /\ unwritten \in [Txn -> SUBSET Key]
  /\ used \subseteq Key /\ deleted \subseteq used /\ stale \subseteq used
  /\ deletedDbs \subseteq Database
  /\ io \subseteq Key
  /\ sent \in [Key -> Callback] /\ shared \in [Key -> Callback]
  /\ releases \subseteq Key
  /\ abandoned \subseteq Key

Init ==
  /\ databases = Database
  /\ entry = NoBlobs
  /\ nextKey = [d \in Database |-> kFirstBlobKey]
  /\ primary = {} /\ live = {}
  /\ file = [k \in Key |-> "none"]
  /\ store = "closed" /\ opened = FALSE /\ timer = FALSE
  /\ cleaning = "no" /\ doomed = {} /\ keep = {}
  /\ phase = [t \in Txn |-> "none"]
  /\ scope = [t \in Txn |-> {}]
  /\ view = [t \in Txn |-> NoBlobs]
  /\ change = [t \in Txn |-> NoChange]
  /\ fresh = [t \in Txn |-> NoBlobs]
  /\ unwritten = [t \in Txn |-> {}]
  /\ used = {} /\ deleted = {} /\ deletedDbs = {} /\ stale = {}
  /\ io = {}
  /\ sent = [k \in Key |-> "no"] /\ shared = [k \in Key |-> "no"]
  /\ releases = {} /\ abandoned = {}

-----------------------------------------------------------------------------
(* Opening and closing the store. *)

\* A task of the IDB sequence can start.
Ready == store = "open" /\ cleaning = "no"

\* The first open since the process started cleans the live journal, and
\* only that one: what earlier pages held is free, the primary one can wait.
OpenStore ==
  /\ store = "closed"
  /\ IF opened \/ live = {}
       THEN /\ store' = "open" /\ opened' = TRUE
            /\ UNCHANGED cleanup
       ELSE /\ store' = "opening"
            /\ cleaning' = "open" /\ doomed' = live /\ keep' = {}
            /\ UNCHANGED opened
  /\ UNCHANGED <<leveldb, file, timer, txns, registry, io, pages, abandoned>>

\* The transactions T are over.
EndTransactions(T) ==
  /\ phase' = [t \in Txn |-> IF t \in T THEN "none" ELSE phase[t]]
  /\ scope' = [t \in Txn |-> IF t \in T THEN {} ELSE scope[t]]
  /\ view' = [t \in Txn |-> IF t \in T THEN NoBlobs ELSE view[t]]
  /\ change' = [t \in Txn |-> IF t \in T THEN NoChange ELSE change[t]]
  /\ fresh' = [t \in Txn |-> IF t \in T THEN NoBlobs ELSE fresh[t]]
  /\ unwritten' = [t \in Txn |-> IF t \in T THEN {} ELSE unwritten[t]]

\* Rollback: their writers are aborted, but not what the IO thread writes.
RollBack(T) ==
  /\ EndTransactions(T)
  /\ abandoned' = abandoned \cup {k \in io : \E t \in T : k \in unwritten[t]}

Void(c) == IF c = "bound" THEN "void" ELSE c

\* The store and its registry go away with all they know.
ShutDown ==
  /\ store' = "closed" /\ timer' = FALSE
  /\ cleaning' = "no" /\ doomed' = {} /\ keep' = {}
  /\ used' = {} /\ deleted' = {} /\ deletedDbs' = {} /\ stale' = {}
  /\ sent' = [k \in Key |-> Void(sent[k])]
  /\ shared' = [k \in Key |-> Void(shared[k])]
  /\ releases' = {}
  /\ RollBack(Txn)

\* The last reference to the store is gone, or the origin is force-closed.
CloseStore ==
  /\ Ready
  /\ ShutDown
  /\ UNCHANGED <<leveldb, file, opened, io>>

\* The process dies; what the IO thread was writing is there or not.
Crash ==
  /\ "crash" \in Faults
  /\ \E f \in [io -> FileState] :
       file' = [k \in Key |-> IF k \in io THEN f[k] ELSE file[k]]
  /\ store' = "closed" /\ opened' = FALSE /\ timer' = FALSE
  /\ cleaning' = "no" /\ doomed' = {} /\ keep' = {}
  /\ used' = {} /\ deleted' = {} /\ deletedDbs' = {} /\ stale' = {}
  /\ sent' = [k \in Key |-> "no"] /\ shared' = [k \in Key |-> "no"]
  /\ releases' = {} /\ io' = {}
  /\ EndTransactions(Txn)
  /\ UNCHANGED <<leveldb, abandoned>>

-----------------------------------------------------------------------------
(* Transactions. *)

Running == {t \in Txn : phase[t] # "none"}

\* The coordinator starts no transaction that shares a record with a running
\* writer; running readers stand in nobody's way.  Bound: a reader goes for
\* records that have a blob, the others being nothing to it.
Begin(t, d, S, writer) ==
  /\ Ready /\ phase[t] = "none" /\ d \in databases
  /\ S # {}
  /\ writer \/ \A s \in S : entry[<<d, s>>] # NoBlob
  /\ \A u \in Running : phase[u] # "reading" => ({d} \X S) \cap scope[u] = {}
  /\ phase' = [phase EXCEPT ![t] = IF writer THEN "active" ELSE "reading"]
  /\ scope' = [scope EXCEPT ![t] = {d} \X S]
  /\ view' = [view EXCEPT ![t] =
       [r \in Record |-> IF r \in {d} \X S THEN entry[r] ELSE NoBlob]]
  /\ UNCHANGED <<leveldb, file, process, cleanup, change, fresh, unwritten,
                 registry, io, pages, abandoned>>

\* PutBlobInfoIfNeeded: a value with a blob is always noted, one without, or
\* a deletion, when the transaction's snapshot has a blob to get rid of.
Write(t, r, what) ==
  /\ Ready /\ phase[t] = "active" /\ r \in scope[t]
  /\ change' = [change EXCEPT ![t][r] =
       IF what = "gone" /\ view[t][r] = NoBlob THEN "same" ELSE what]
  /\ UNCHANGED <<leveldb, file, process, cleanup, phase, scope, view, fresh,
                 unwritten, registry, io, pages, abandoned>>

Held == {k \in Key : sent[k] # "no" \/ shared[k] # "no"}

\* GetBlobInfoForRecord, and the AddBlobRef that the answer makes before it
\* goes to the IO thread.  A blob the transaction put itself has no key yet.
\* Bound: one answer per blob is under way, and MaxHeld blobs are out.
Read(t, r) ==
  /\ Ready /\ phase[t] \in {"reading", "active"} /\ r \in scope[t]
  /\ change[t][r] = "same"
  /\ LET k == view[t][r] IN
       /\ k # NoBlob /\ sent[k] = "no"
       /\ Cardinality(Held \cup {k}) <= MaxHeld
       /\ used' = used \cup {k}
       /\ stale' = IF k \in used \/ entry[r] = k THEN stale ELSE stale \cup {k}
       /\ sent' = [sent EXCEPT ![k] = "bound"]
  /\ UNCHANGED <<leveldb, file, process, cleanup, txns, deleted, deletedDbs,
                 io, shared, releases, abandoned>>

Abort(t) ==
  /\ Ready /\ phase[t] # "none"
  /\ RollBack({t})
  /\ UNCHANGED <<leveldb, file, process, cleanup, registry, io, pages>>

Put(t) == {r \in Record : change[t][r] = "put"}

\* Mutant: the new files are not journaled before they are written.
Forgotten(new) == {}

Announced(new) == {new[r] : r \in DOMAIN new}

\* CommitPhaseOne of a transaction that brings blobs: a transaction of its
\* own takes the keys and puts the files to come in the primary journal.
CommitPhaseOne(t, d) ==
  /\ Ready /\ phase[t] = "active" /\ Put(t) # {}
  /\ \A r \in Put(t) : r[1] = d
  /\ \E last \in nextKey[d]..MaxKey :
       \E new \in Bijection(Put(t), {d} \X (nextKey[d]..last)) :
         /\ nextKey' = [nextKey EXCEPT ![d] = last + 1]
         /\ primary' = primary \cup Announced(new)
         /\ fresh' = [fresh EXCEPT ![t] =
              [r \in Record |-> IF r \in Put(t) THEN new[r] ELSE NoBlob]]
         /\ unwritten' = [unwritten EXCEPT ![t] = {new[r] : r \in Put(t)}]
  /\ phase' = [phase EXCEPT ![t] = "writing"]
  /\ UNCHANGED <<databases, entry, live, file, process, cleanup, scope, view,
                 change, registry, io, pages, abandoned>>

\* LevelDB refuses the transaction of its own, and the error closes the origin.
CommitPhaseOneFails(t) ==
  /\ "commit" \in Faults
  /\ Ready /\ phase[t] = "active" /\ Put(t) # {}
  /\ ShutDown
  /\ UNCHANGED <<leveldb, file, opened, io>>

\* WriteNextFile, from its task or from ReportWriteCompletion.
WriteNextFile(t, k) ==
  /\ Ready /\ phase[t] = "writing" /\ k \in unwritten[t]
  /\ phase' = [phase EXCEPT ![t] = "onIO"]
  /\ io' = io \cup {k}
  /\ UNCHANGED <<leveldb, file, process, cleanup, scope, view, change, fresh,
                 unwritten, registry, pages, abandoned>>

\* The IO thread is done with file k, and ReportWriteCompletion tells the
\* writer if that is still there.
WriteBlobToFile(k, result) ==
  /\ k \in io
  /\ result # "whole" => "write" \in Faults
  /\ io' = io \ {k}
  /\ file' = [file EXCEPT ![k] = result]
  /\ LET waiting == {t \in Txn : phase[t] = "onIO" /\ k \in unwritten[t]} IN
       /\ phase' = [t \in Txn |-> IF t \in waiting
            THEN IF result = "whole" THEN "writing" ELSE "failed" ELSE phase[t]]
       /\ unwritten' = [t \in Txn |-> IF t \in waiting /\ result = "whole"
            THEN unwritten[t] \ {k} ELSE unwritten[t]]
  /\ UNCHANGED <<leveldb, process, cleanup, scope, view, change, fresh,
                 registry, pages, abandoned>>

\* BlobWriteComplete with FAILURE_ASYNC aborts the transaction.
WriteFailed(t) ==
  /\ Ready /\ phase[t] = "failed"
  /\ RollBack({t})
  /\ UNCHANGED <<leveldb, file, process, cleanup, registry, io, pages>>

\* blobs_to_remove_ of CollectBlobFilesToRemove: the blobs that the changed
\* records had in the transaction's snapshot.
BlobsToRemove(t) ==
  {view[t][r] : r \in {q \in Record : change[t][q] # "same"}} \ {NoBlob}

\* Mutant: nobody asks the registry.
DeadBlobsUnasked(t) == BlobsToRemove(t)

\* PartitionBlobsToRemove: those no page holds.
DeadBlobs(t) == BlobsToRemove(t) \ used

\* Mutant: the new files stay in the journal.
SavedPrimaryJournalUnpruned(t) == primary

\* The primary journal without the files the transaction has written: the
\* blob entries account for them from now on.
SavedPrimaryJournal(t) == primary \ {fresh[t][r] : r \in Put(t)}

ReadyToCommit(t) ==
  /\ Ready
  /\ \/ phase[t] = "active" /\ Put(t) = {}
     \/ phase[t] = "writing" /\ unwritten[t] = {}

\* CommitPhaseTwo, or Commit by a transaction without new blobs: one LevelDB
\* commit for the entries and both journals, then the dead files.
CommitPhaseTwo(t) ==
  /\ ReadyToCommit(t)
  /\ entry' = [r \in Record |->
       IF change[t][r] = "same" THEN entry[r] ELSE fresh[t][r]]
  /\ primary' = SavedPrimaryJournal(t) \cup DeadBlobs(t)
  /\ live' = live \cup (BlobsToRemove(t) \ DeadBlobs(t))
  /\ deleted' = deleted \cup (BlobsToRemove(t) \ DeadBlobs(t))
  /\ IF DeadBlobs(t) = {}
       THEN UNCHANGED cleanup
       ELSE /\ cleaning' = "commit" /\ doomed' = DeadBlobs(t)
            /\ keep' = SavedPrimaryJournal(t)
  /\ EndTransactions({t})
  /\ UNCHANGED <<databases, nextKey, file, process, used, deletedDbs, stale,
                 io, pages, abandoned>>

\* LevelDB refuses the commit, or the journals cannot be read before it.
CommitPhaseTwoFails(t) ==
  /\ "commit" \in Faults
  /\ ReadyToCommit(t)
  /\ ShutDown
  /\ UNCHANGED <<leveldb, file, opened, io>>

-----------------------------------------------------------------------------
(* Cleaning up: CleanUpBlobJournalEntries and what its callers do next. *)

\* The files that an entry of a journal stands for.
FilesOf(e) == {k \in Key : k = e \/ AllBlobs(k[1]) = e}

RemoveFile(e) ==
  /\ cleaning # "no" /\ e \in doomed
  /\ doomed' = doomed \ {e}
  /\ file' = [k \in Key |-> IF k \in FilesOf(e) THEN "none" ELSE file[k]]
  /\ UNCHANGED <<leveldb, process, cleaning, keep, txns, registry, io, pages, abandoned>>

\* Only the commit and the open look at the result of a clean-up; an error
\* in the commit's closes the origin, one in the open's is a failed open.
CleanUpFails ==
  IF cleaning = "timer"
    THEN /\ cleaning' = "no" /\ doomed' = {} /\ keep' = {}
         /\ UNCHANGED <<store, timer, txns, registry, pages, abandoned>>
    ELSE ShutDown

\* A file cannot be deleted, or only a part of a directory.
RemoveFails(e) ==
  /\ "remove" \in Faults
  /\ cleaning # "no" /\ e \in doomed
  /\ \E S \in SUBSET (FilesOf(e) \ {e}) :
       file' = [k \in Key |-> IF k \in S THEN "none" ELSE file[k]]
  /\ CleanUpFails
  /\ UNCHANGED <<leveldb, opened, io>>

\* The commit writes back what it read before, the others clear the journal.
EndCleanUp ==
  /\ cleaning # "no" /\ doomed = {}
  /\ primary' = IF cleaning = "open" THEN primary ELSE keep
  /\ live' = IF cleaning = "open" THEN {} ELSE live
  /\ store' = "open" /\ opened' = TRUE
  /\ cleaning' = "no" /\ doomed' = {} /\ keep' = {}
  /\ UNCHANGED <<databases, entry, nextKey, file, timer, txns, registry, io,
                 pages, abandoned>>

\* LevelDB refuses the update of the journal.
EndCleanUpFails ==
  /\ "journal" \in Faults
  /\ cleaning # "no" /\ doomed = {}
  /\ CleanUpFails
  /\ UNCHANGED <<leveldb, file, opened, io>>

\* Mutant: the journal is cleaned while files are being written.
CanCleanAnyTime == TRUE

\* committing_transaction_count_ is zero.
CanClean == Committing = {}

\* CleanPrimaryJournalIgnoreReturn, on the given journal, with the timer
\* running or not.
CleanPrimaryJournal(journal, running) ==
  IF CanClean
    THEN /\ timer' = running
         /\ IF journal = {}
              THEN UNCHANGED cleanup
              ELSE cleaning' = "timer" /\ doomed' = journal /\ keep' = {}
    ELSE timer' = TRUE /\ UNCHANGED cleanup

TimerFires ==
  /\ Ready /\ timer
  /\ CleanPrimaryJournal(primary, FALSE)
  /\ UNCHANGED <<leveldb, file, store, opened, txns, registry, io, pages, abandoned>>

-----------------------------------------------------------------------------
(* Deleting a database, which nobody has open. *)

Unopened(d) == d \in databases /\ \A t \in Running : \A r \in scope[t] : r[1] # d

UsedIn(d, keys) == {k \in keys : k[1] = d}

\* The batch is taken: what pages use of the database stays until they let go.
DeletionCommits(d) ==
  /\ databases' = databases \ {d}
  /\ entry' = [r \in Record |-> IF r[1] = d THEN NoBlob ELSE entry[r]]
  /\ IF UsedIn(d, used) # {}
       THEN /\ deletedDbs' = deletedDbs \cup {d}
            /\ live' = live \cup {AllBlobs(d)}
            /\ UNCHANGED <<primary, timer, cleanup>>
       ELSE /\ primary' = primary \cup {AllBlobs(d)}
            /\ CleanPrimaryJournal(primary \cup {AllBlobs(d)}, timer)
            /\ UNCHANGED <<live, deletedDbs>>
  /\ UNCHANGED <<nextKey, file, store, opened, txns, used, deleted, stale, io,
                 pages, abandoned>>

\* LevelDB refuses the batch after the registry has been told of it.  The page
\* gets an error, and nothing else follows.
DeletionRefused(d) ==
  /\ "deleteDatabase" \in Faults /\ UsedIn(d, used) # {}
  /\ deletedDbs' = deletedDbs \cup {d}
  /\ UNCHANGED <<leveldb, file, process, cleanup, txns, used, deleted, stale,
                 io, pages, abandoned>>

DeleteDatabase(d) ==
  /\ Ready /\ Unopened(d)
  /\ DeletionCommits(d) \/ DeletionRefused(d)

-----------------------------------------------------------------------------
(* Blobs in the hands of pages. *)

\* CreateBlobData on the IO thread: a reference to the same file is shared,
\* and then the new answer's release callback is dropped.
CreateBlobData(k) ==
  /\ sent[k] # "no"
  /\ sent' = [sent EXCEPT ![k] = "no"]
  /\ shared' = IF shared[k] = "no" THEN [shared EXCEPT ![k] = sent[k]] ELSE shared
  /\ UNCHANGED <<leveldb, file, process, cleanup, txns, registry, io, releases, abandoned>>

\* The page is gone when its answer gets to the IO thread.
DropAnswer(k) ==
  /\ sent[k] # "no"
  /\ sent' = [sent EXCEPT ![k] = "no"]
  /\ UNCHANGED <<leveldb, file, process, cleanup, txns, registry, io, shared,
                 releases, abandoned>>

\* The last page lets go of the file.  Bound: one release per file is posted.
FinalRelease(k) ==
  /\ shared[k] # "no" /\ k \notin releases
  /\ shared' = [shared EXCEPT ![k] = "no"]
  /\ releases' = IF shared[k] = "bound" THEN releases \cup {k} ELSE releases
  /\ UNCHANGED <<leveldb, file, process, cleanup, txns, registry, io, sent, abandoned>>

\* What ReleaseBlobRef has the store told to delete: the key, or all of a
\* deleted database that no page uses any more.
Unused(k) ==
  LET d == k[1] IN
  IF d \in deletedDbs
    THEN IF UsedIn(d, used) \subseteq {k} THEN {AllBlobs(d)} ELSE {}
    ELSE {k} \cap deleted

\* ReportBlobUnused: entries that e stands for leave the live journal.  A key
\* goes to the primary one if it was there, a whole database in any case.
ReportBlobUnused(E) ==
  /\ live' = {e \in live : e \notin E /\ AllBlobs(e[1]) \notin E}
  /\ primary' = primary \cup {e \in E : e \in live \/ e = AllBlobs(e[1])}

\* The journals are not updated when LevelDB refuses, and nobody is told.
ReleaseBlobRef(k) ==
  /\ Ready /\ k \in releases
  /\ releases' = releases \ {k}
  /\ IF k \in used
       THEN /\ used' = used \ {k}
            /\ deleted' = deleted \ {k}
            /\ stale' = stale \ {k}
            /\ deletedDbs' = {d \in deletedDbs : AllBlobs(d) \notin Unused(k)}
            /\ timer' = (timer \/ Unused(k) # {})
            /\ \/ ReportBlobUnused(Unused(k))
               \/ "journal" \in Faults /\ UNCHANGED <<primary, live>>
       ELSE UNCHANGED <<registry, timer, primary, live>>
  /\ UNCHANGED <<databases, entry, nextKey, file, store, opened, cleanup, txns,
                 io, sent, shared, abandoned>>

-----------------------------------------------------------------------------
TransactionStep(t) ==
  \/ \E d \in Database, S \in SUBSET Slot, w \in BOOLEAN : Begin(t, d, S, w)
  \/ \E r \in Record : Read(t, r) \/ Write(t, r, "put") \/ Write(t, r, "gone")
  \/ \E d \in Database : CommitPhaseOne(t, d)
  \/ \E k \in Key : WriteNextFile(t, k)
  \/ CommitPhaseOneFails(t) \/ CommitPhaseTwo(t) \/ CommitPhaseTwoFails(t)
  \/ Abort(t) \/ WriteFailed(t)

CleanUpStep ==
  \/ \E e \in Entry : RemoveFile(e) \/ RemoveFails(e)
  \/ EndCleanUp \/ EndCleanUpFails \/ TimerFires

BlobStep(k) ==
  \/ \E result \in FileState : WriteBlobToFile(k, result)
  \/ CreateBlobData(k) \/ DropAnswer(k) \/ FinalRelease(k) \/ ReleaseBlobRef(k)

Next ==
  \/ OpenStore \/ CloseStore \/ Crash
  \/ \E t \in Txn : TransactionStep(t)
  \/ CleanUpStep
  \/ \E d \in Database : DeleteDatabase(d)
  \/ \E k \in Key : BlobStep(k)

Spec == Init /\ [][Next]_vars

-----------------------------------------------------------------------------
(* Properties. *)

Named == {entry[r] : r \in Record} \ {NoBlob}

\* The blob of a record is on disk, complete, at every moment: no commit,
\* clean-up, failure or crash between any two of their steps loses it.
NamedFilesWhole == \A k \in Named : file[k] = "whole"

\* No file is lost track of: it belongs to a record, or a journal has it, by
\* name or with its database.  The exception is the file of a writer that
\* was aborted while the IO thread worked for it.
FilesAreAccountedFor ==
  \A k \in Key : file[k] # "none" =>
    \/ k \in Named \/ k \in abandoned
    \/ k \in primary \cup live \/ AllBlobs(k[1]) \in primary \cup live

\* A blob that was handed to a page while a record had it stays on disk for
\* as long as the registry has it, whatever becomes of record and database.
RegisteredFilesStay == \A k \in used \ stale : file[k] = "whole"

\* What the comment on CommitPhaseTwo says: a file goes when no script
\* refers to it, so one that a page holds, and can still tell the store
\* about, is there.
UsedFilesExist == \A k \in Key : shared[k] = "bound" => file[k] # "none"

\* What a reader that starts now finds in each record.
Content == [r \in Record |->
  IF entry[r] # NoBlob /\ file[entry[r]] = "whole" THEN entry[r] ELSE NoBlob]

\* What a transaction is to make of the records it wrote: the keys of its new
\* blobs, when it has them.
Writes == [t \in Txn |-> [r \in {q \in Record : change[t][q] # "same"} |-> fresh[t][r]]]

DatabaseOfRecord(r) == r[1]

Abstract == INSTANCE AtomicBlobs
  WITH content <- Content,
       writes <- Writes,
       spent <- {k \in Key : k[2] < nextKey[k[1]]},
       DatabaseOf <- DatabaseOfRecord

\* Every step of the store is a step of AtomicBlobs, or none: commits are
\* atomic for readers although they take several steps on disk.
ImplementsAtomicBlobs == Abstract!Spec
=============================================================================
