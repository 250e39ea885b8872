-------------------------- MODULE BlobJournal_proof --------------------------
(***************************************************************************)
(* Proofs about the blob files and their journals, for any number of       *)
(* databases, records, transactions and blobs.                             *)
(*                                                                         *)
(* The inductive invariant gives each blob key an owner.  A key that       *)
(* writers are done with is settled (Settled): records have only such      *)
(* keys, each its own, whole and in no journal (NamedInv), and snapshots   *)
(* too (TransactionInv).  The keys of a running commit are in the primary  *)
(* journal (WriterInv), where no clean-up that is under way comes at them  *)
(* (CleanUpInv); what the IO thread writes is such a key or was given up   *)
(* (IOInv).  What a page holds is at most in the live journal              *)
(* (RegistryInv), and a journal has a whole database only when that is     *)
(* gone (DatabaseInv).  All but the types rest on the deletion of a        *)
(* database not failing half-way, where the code breaks it.                *)
(***************************************************************************)
EXTENDS BlobJournal, TLAPS

LEMMA KeyFacts ==
  /\ MaxKey \in Nat \ {0}
  /\ Key \subseteq Entry /\ NoBlob \notin Key
  /\ \A d \in Database : AllBlobs(d) \in Entry /\ AllBlobs(d)[1] = d /\ AllBlobs(d) \notin Key
  /\ \A e \in Entry : e[1] \in Database /\ e[2] \in 1..MaxKey /\ (e \notin Key => e = AllBlobs(e[1]))
  /\ \A k \in Key : k[1] \in Database /\ k[2] \in 2..MaxKey
  /\ \A d, c : AllBlobs(d) = AllBlobs(c) => c = d
BY BlobAssumption DEF Key, Entry, AllBlobs, kAllBlobsKey, kFirstBlobKey

LEMMA InitType == Init => TypeOK
<1> USE DEF Init, TypeOK
<1> SUFFICES ASSUME Init PROVE TypeOK
  OBVIOUS
<1>1. nextKey \in [Database -> kFirstBlobKey..MaxKey + 1]
  BY KeyFacts DEF kFirstBlobKey
<1> QED
  BY <1>1 DEF NoBlobs, NoChange, Blob, Phase, Callback, FileState

LEMMA EndTransactionsType ==
  ASSUME TypeOK, NEW T, EndTransactions(T)
  PROVE  /\ phase' \in [Txn -> Phase]
         /\ scope' \in [Txn -> SUBSET Record]
         /\ view' \in [Txn -> [Record -> Blob]]
         /\ change' \in [Txn -> [Record -> {"same", "put", "gone"}]]
         /\ fresh' \in [Txn -> [Record -> Blob]]
         /\ unwritten' \in [Txn -> SUBSET Key]
BY DEF TypeOK, EndTransactions, NoBlobs, NoChange, Blob, Phase

LEMMA ShutDownType ==
  ASSUME TypeOK, ShutDown, UNCHANGED <<leveldb, file, opened, io>>
  PROVE  TypeOK'
<1>1. abandoned' \subseteq Key
  BY DEF TypeOK, ShutDown, RollBack
<1>2. sent' \in [Key -> Callback] /\ shared' \in [Key -> Callback]
  BY DEF TypeOK, ShutDown, Void, Callback
<1> QED
  BY <1>1, <1>2, EndTransactionsType DEF TypeOK, ShutDown, RollBack, leveldb

LEMMA CommitPhaseOneFacts ==
  ASSUME TypeOK, NEW t \in Txn, NEW d \in Database, CommitPhaseOne(t, d)
  PROVE  /\ \A e \in Database : nextKey'[e] \in Nat /\ nextKey[e] \in Nat /\ nextKey[e] <= nextKey'[e]
         /\ \E new \in [Put(t) -> Key] :
              /\ \A r, q \in Put(t) : new[r] = new[q] => r = q
              /\ \A r \in Put(t) : new[r][1] = d /\ nextKey[d] <= new[r][2] /\ new[r][2] < nextKey'[d]
              /\ primary' = primary \cup {new[r] : r \in Put(t)}
              /\ fresh' = [fresh EXCEPT ![t] =
                   [r \in Record |-> IF r \in Put(t) THEN new[r] ELSE NoBlob]]
              /\ unwritten' = [unwritten EXCEPT ![t] = {new[r] : r \in Put(t)}]
<1>1. PICK last \in nextKey[d]..MaxKey :
        \E new \in Bijection(Put(t), {d} \X (nextKey[d]..last)) :
           /\ nextKey' = [nextKey EXCEPT ![d] = last + 1]
           /\ primary' = primary \cup Announced(new)
           /\ fresh' = [fresh EXCEPT ![t] =
                [r \in Record |-> IF r \in Put(t) THEN new[r] ELSE NoBlob]]
           /\ unwritten' = [unwritten EXCEPT ![t] = {new[r] : r \in Put(t)}]
  BY DEF CommitPhaseOne
<1>2. PICK new \in Bijection(Put(t), {d} \X (nextKey[d]..last)) :
           /\ nextKey' = [nextKey EXCEPT ![d] = last + 1]
           /\ primary' = primary \cup Announced(new)
           /\ fresh' = [fresh EXCEPT ![t] =
                [r \in Record |-> IF r \in Put(t) THEN new[r] ELSE NoBlob]]
           /\ unwritten' = [unwritten EXCEPT ![t] = {new[r] : r \in Put(t)}]
  BY <1>1
<1>3. nextKey \in [Database -> 2..MaxKey + 1] /\ MaxKey \in Nat
  BY KeyFacts DEF TypeOK, kFirstBlobKey
<1>4. nextKey[d] \in Nat /\ last \in Nat /\ nextKey[d] >= 2 /\ last <= MaxKey /\ nextKey[d] <= last
  BY <1>3
<1>5. {d} \X (nextKey[d]..last) \subseteq Key
  BY <1>4, KeyFacts DEF Key, kFirstBlobKey
<1>6. new \in [Put(t) -> {d} \X (nextKey[d]..last)] /\ \A r, q \in Put(t) : new[r] = new[q] => r = q
  BY <1>2 DEF Bijection, Injection, IsInjective
<1>7. \A r \in Put(t) : new[r][1] = d /\ nextKey[d] <= new[r][2] /\ new[r][2] < nextKey'[d]
  BY <1>2, <1>3, <1>4, <1>6
<1>8. \A e \in Database : nextKey'[e] \in Nat /\ nextKey[e] \in Nat /\ nextKey[e] <= nextKey'[e]
  BY <1>2, <1>3, <1>4
<1>9. Announced(new) = {new[r] : r \in Put(t)} /\ new \in [Put(t) -> Key]
  BY <1>5, <1>6 DEF Announced
<1> QED
  BY <1>2, <1>6, <1>7, <1>8, <1>9

LEMMA CommitPhaseOneType ==
  ASSUME TypeOK, NEW t \in Txn, NEW d \in Database, CommitPhaseOne(t, d)
  PROVE  nextKey' \in [Database -> kFirstBlobKey..MaxKey + 1]
<1>1. PICK last \in nextKey[d]..MaxKey : nextKey' = [nextKey EXCEPT ![d] = last + 1]
  BY DEF CommitPhaseOne
<1>2. nextKey[d] \in 2..MaxKey + 1 /\ last + 1 \in 2..MaxKey + 1
  BY KeyFacts DEF TypeOK, kFirstBlobKey
<1> QED
  BY <1>1, <1>2 DEF TypeOK, kFirstBlobKey

LEMMA NextType == ASSUME TypeOK, Next PROVE TypeOK'
<1>1. CASE OpenStore
  BY <1>1 DEF TypeOK, OpenStore, leveldb, cleanup, txns, registry, pages
<1>2. CASE CloseStore
  BY <1>2, ShutDownType DEF CloseStore
<1>3. CASE Crash
  <2>1. /\ file' \in [Key -> FileState]
        /\ sent' \in [Key -> Callback] /\ shared' \in [Key -> Callback]
    BY <1>3 DEF TypeOK, Crash, Callback
  <2> QED
    BY <1>3, <2>1, EndTransactionsType DEF TypeOK, Crash, leveldb
<1>4. ASSUME NEW t \in Txn, TransactionStep(t) PROVE TypeOK'
  <2>1. ASSUME NEW d \in Database, NEW S \in SUBSET Slot, NEW w \in BOOLEAN, Begin(t, d, S, w)
        PROVE TypeOK'
    <3>1. {d} \X S \subseteq Record
      BY DEF Record
    <3> QED
      BY <2>1, <3>1 DEF TypeOK, Begin, Phase, Blob, leveldb, process, cleanup, registry, pages
  <2>2. ASSUME NEW r \in Record, Read(t, r) PROVE TypeOK'
    <3>1. view[t][r] \in Key
      BY <2>2 DEF Read, TypeOK, Blob
    <3> QED
      BY <2>2, <3>1 DEF TypeOK, Read, Callback, leveldb, process, cleanup, txns
  <2>3. ASSUME NEW r \in Record, NEW what \in {"put", "gone"}, Write(t, r, what) PROVE TypeOK'
    BY <2>3 DEF TypeOK, Write, leveldb, process, cleanup, registry, pages
  <2>4. ASSUME NEW d \in Database, CommitPhaseOne(t, d) PROVE TypeOK'
    <3>1. PICK new \in [Put(t) -> Key] :
            /\ primary' = primary \cup {new[r] : r \in Put(t)}
            /\ fresh' = [fresh EXCEPT ![t] =
                 [r \in Record |-> IF r \in Put(t) THEN new[r] ELSE NoBlob]]
            /\ unwritten' = [unwritten EXCEPT ![t] = {new[r] : r \in Put(t)}]
      BY <2>4, CommitPhaseOneFacts
    <3>2. primary' \subseteq Entry
      BY <3>1, KeyFacts DEF TypeOK
    <3>3. [r \in Record |-> IF r \in Put(t) THEN new[r] ELSE NoBlob] \in [Record -> Blob]
      BY DEF Blob
    <3>4. {new[r] : r \in Put(t)} \subseteq Key
      OBVIOUS
    <3>5. fresh' \in [Txn -> [Record -> Blob]] /\ unwritten' \in [Txn -> SUBSET Key]
      BY <3>1, <3>3, <3>4 DEF TypeOK
    <3> QED
      BY <2>4, <3>2, <3>5, CommitPhaseOneType
      DEF TypeOK, CommitPhaseOne, Phase, process, cleanup, registry, pages
  <2>5. ASSUME NEW k \in Key, WriteNextFile(t, k) PROVE TypeOK'
    BY <2>5 DEF TypeOK, WriteNextFile, Phase, leveldb, process, cleanup, registry, pages
  <2>6. CASE CommitPhaseOneFails(t)
    BY <2>6, ShutDownType DEF CommitPhaseOneFails
  <2>7. CASE CommitPhaseTwo(t)
    <3>1. BlobsToRemove(t) \subseteq Key
      BY DEF TypeOK, BlobsToRemove, Blob
    <3>2. entry' \in [Record -> Blob]
      BY <2>7 DEF TypeOK, CommitPhaseTwo
    <3>3. deleted' \subseteq used
      BY <2>7 DEF TypeOK, CommitPhaseTwo, DeadBlobs
    <3> QED
      BY <2>7, <3>1, <3>2, <3>3, EndTransactionsType, KeyFacts
      DEF TypeOK, CommitPhaseTwo, DeadBlobs, SavedPrimaryJournal, process, cleanup, pages
  <2>8. CASE CommitPhaseTwoFails(t)
    BY <2>8, ShutDownType DEF CommitPhaseTwoFails
  <2>9. CASE Abort(t) \/ WriteFailed(t)
    BY <2>9, EndTransactionsType
    DEF TypeOK, Abort, WriteFailed, RollBack, leveldb, process, cleanup, registry, pages
  <2> QED
    BY <1>4, <2>1, <2>2, <2>3, <2>4, <2>5, <2>6, <2>7, <2>8, <2>9 DEF TransactionStep
<1>5. CASE CleanUpStep
  <2>1. ASSUME NEW e \in Entry, RemoveFile(e) PROVE TypeOK'
    BY <2>1 DEF TypeOK, RemoveFile, FileState, leveldb, process, txns, registry, pages
  <2>2. CASE CleanUpFails /\ file' \in [Key -> FileState] /\ UNCHANGED <<leveldb, opened, io>>
    <3>1. CASE cleaning = "timer"
      BY <2>2, <3>1 DEF TypeOK, CleanUpFails, leveldb, txns, registry, pages
    <3>2. CASE ShutDown
      <4>1. abandoned' \subseteq Key
        BY <3>2 DEF TypeOK, ShutDown, RollBack
      <4>2. sent' \in [Key -> Callback] /\ shared' \in [Key -> Callback]
        BY <3>2 DEF TypeOK, ShutDown, Void, Callback
      <4> QED
        BY <2>2, <3>2, <4>1, <4>2, EndTransactionsType DEF TypeOK, ShutDown, RollBack, leveldb
    <3> QED
      BY <2>2, <3>1, <3>2 DEF CleanUpFails
  <2>3. ASSUME NEW e \in Entry, RemoveFails(e) PROVE TypeOK'
    <3>1. file' \in [Key -> FileState]
      BY <2>3 DEF TypeOK, RemoveFails, FileState
    <3> QED
      BY <2>2, <2>3, <3>1 DEF RemoveFails
  <2>4. CASE EndCleanUp
    BY <2>4 DEF TypeOK, EndCleanUp, txns, registry, pages
  <2>5. CASE EndCleanUpFails
    BY <2>2, <2>5 DEF EndCleanUpFails, TypeOK
  <2>6. CASE TimerFires
    BY <2>6 DEF TypeOK, TimerFires, CleanPrimaryJournal, leveldb, txns, registry, pages, cleanup
  <2> QED
    BY <1>5, <2>1, <2>3, <2>4, <2>5, <2>6 DEF CleanUpStep
<1>6. ASSUME NEW d \in Database, DeleteDatabase(d) PROVE TypeOK'
  <2>1. CASE DeletionCommits(d)
    <3>1. AllBlobs(d) \in Entry
      BY KeyFacts
    <3>2. entry' \in [Record -> Blob]
      BY <2>1 DEF TypeOK, DeletionCommits, Blob
    <3> QED
      BY <1>6, <2>1, <3>1, <3>2 DEF TypeOK, DeleteDatabase, DeletionCommits, CleanPrimaryJournal, txns, pages, cleanup
  <2>2. CASE DeletionRefused(d)
    BY <2>2 DEF TypeOK, DeletionRefused, leveldb, process, cleanup, txns, pages
  <2> QED
    BY <1>6, <2>1, <2>2 DEF DeleteDatabase
<1>7. ASSUME NEW k \in Key, BlobStep(k) PROVE TypeOK'
  <2>1. ASSUME NEW result \in FileState, WriteBlobToFile(k, result) PROVE TypeOK'
    BY <2>1 DEF TypeOK, WriteBlobToFile, Phase, leveldb, process, cleanup, registry, pages
  <2>2. CASE CreateBlobData(k) \/ DropAnswer(k) \/ FinalRelease(k)
    <3>1. CASE CreateBlobData(k)
      BY <3>1 DEF TypeOK, CreateBlobData, Callback, leveldb, process, cleanup, txns, registry
    <3>2. CASE DropAnswer(k)
      BY <3>2 DEF TypeOK, DropAnswer, Callback, leveldb, process, cleanup, txns, registry
    <3>3. CASE FinalRelease(k)
      BY <3>3 DEF TypeOK, FinalRelease, Callback, leveldb, process, cleanup, txns, registry
    <3> QED
      BY <2>2, <3>1, <3>2, <3>3
  <2>3. CASE ReleaseBlobRef(k)
    <3>1. Unused(k) \subseteq Entry
      BY KeyFacts DEF Unused
    <3>2. primary' \subseteq Entry /\ live' \subseteq Entry
      BY <2>3, <3>1 DEF TypeOK, ReleaseBlobRef, ReportBlobUnused
    <3>3. /\ used' \subseteq Key /\ deleted' \subseteq used' /\ stale' \subseteq used'
          /\ deletedDbs' \subseteq Database /\ timer' \in BOOLEAN
      BY <2>3 DEF TypeOK, ReleaseBlobRef, registry
    <3> QED
      BY <2>3, <3>2, <3>3 DEF TypeOK, ReleaseBlobRef, cleanup, txns
  <2> QED
    BY <1>7, <2>1, <2>2, <2>3 DEF BlobStep
<1> QED
  BY <1>1, <1>2, <1>3, <1>4, <1>5, <1>6, <1>7 DEF Next

-----------------------------------------------------------------------------
(* The invariant. *)

\* A key that has been given out.
Issued(k) == k[2] < nextKey[k[1]]

\* A key that no writer has any more: it was in a record at some time.
Settled(k) ==
  /\ Issued(k) /\ k \notin io
  /\ \A t \in Txn, r \in Record : fresh[t][r] # k

\* What records hold is complete, settled, and in nobody's way to deletion.
NamedInv ==
  /\ \A r \in Record : entry[r] # NoBlob =>
       /\ entry[r][1] = r[1] /\ r[1] \in databases
       /\ Settled(entry[r])
       /\ file[entry[r]] = "whole"
       /\ entry[r] \notin primary \cup live
  /\ \A r, q \in Record : entry[r] = entry[q] => r = q \/ entry[r] = NoBlob

DatabaseInv ==
  /\ \A d \in databases : AllBlobs(d) \notin primary \cup live
  /\ databases \cap deletedDbs = {}
  /\ \A k \in primary \cup live : k[2] < nextKey[k[1]]

\* Whatever a transaction sees, somebody has seen it committed.
ViewsSettled ==
  \A t \in Txn, r \in Record : view[t][r] # NoBlob => Settled(view[t][r])

Writer(t) == phase[t] \notin {"none", "reading"}

TransactionInv ==
  /\ \A t \in Txn : phase[t] # "none" => store = "open"
  /\ \A t \in Txn : \A r \in scope[t] : r[1] \in databases
  /\ \A t \in Txn : phase[t] = "none" => scope[t] = {}
  /\ ViewsSettled
  /\ \A t \in Txn, r \in Record : change[t][r] # "same" =>
       r \in scope[t] /\ Writer(t)
  /\ \A t \in Txn : \A r \in scope[t] :
       phase[t] # "reading" => view[t][r] = entry[r]
  /\ \A t, u \in Txn : t # u /\ Writer(t) /\ Writer(u) => scope[t] \cap scope[u] = {}

\* The files of a writer are in the primary journal, and it knows which of
\* them it has still to write.
WriterInv ==
  /\ \A t \in Txn, r \in Record : fresh[t][r] # NoBlob =>
       /\ t \in Committing /\ change[t][r] = "put" /\ fresh[t][r][1] = r[1]
       /\ Issued(fresh[t][r])
       /\ fresh[t][r] \in primary \ live
       /\ fresh[t][r] \notin unwritten[t] =>
            file[fresh[t][r]] = "whole" /\ fresh[t][r] \notin io
  /\ \A t \in Committing, r \in Record : change[t][r] = "put" => fresh[t][r] # NoBlob
  /\ \A t, u \in Txn, r, q \in Record : fresh[t][r] = fresh[u][q] =>
       (t = u /\ r = q) \/ fresh[t][r] = NoBlob
  /\ \A t \in Txn : \A k \in unwritten[t] : \E r \in Record : fresh[t][r] = k
  /\ \A t \in Txn : \A k \in unwritten[t] : k \in io => phase[t] = "onIO"
  /\ \A t \in Txn : \A k, l \in unwritten[t] : k \in io /\ l \in io => k = l

\* What the IO thread still writes is known to a writer or was given up.
IOInv ==
  \A k \in io : Issued(k) /\ (k \in abandoned \/ \E t \in Txn : k \in unwritten[t])

RegistryInv ==
  /\ store # "open" => used = {} /\ deletedDbs = {}
  /\ \A k \in used : Settled(k)
  /\ \A k \in live : k[2] # kAllBlobsKey => Settled(k)
  /\ \A k \in used \ stale :
       file[k] = "whole" /\ k \notin primary /\ AllBlobs(k[1]) \notin primary

\* The files of an entry have been deleted, but for one that an aborted
\* writer's last file has brought back.
Removed(e) == \A k \in FilesOf(e) : file[k] = "none" \/ k \in abandoned

CleanUpInv ==
  /\ cleaning = "no" => doomed = {} /\ keep = {} /\ store # "opening"
  /\ cleaning \in {"commit", "timer"} =>
       /\ store = "open"
       /\ keep \subseteq primary /\ doomed \subseteq primary
       /\ \A e \in primary \ (keep \cup doomed) : Removed(e)
  /\ cleaning # "no" => \A t \in Txn, r \in Record :
       fresh[t][r] # NoBlob => fresh[t][r] \in keep \ doomed
  /\ cleaning = "open" =>
       /\ store = "opening" /\ doomed \subseteq live /\ keep = {}
       /\ \A e \in live \ doomed : Removed(e)


IInv ==
  /\ TypeOK
  /\ NamedInv /\ DatabaseInv /\ TransactionInv /\ WriterInv
  /\ IOInv /\ RegistryInv /\ CleanUpInv

LEMMA InitInv == Init => IInv
<1> SUFFICES ASSUME Init PROVE IInv
  OBVIOUS
<1> USE DEF Init, NoBlobs, NoChange
<1>1. TypeOK
  BY InitType
<1>2. NamedInv /\ DatabaseInv /\ TransactionInv /\ WriterInv
  BY DEF NamedInv, DatabaseInv, TransactionInv, ViewsSettled, Writer, WriterInv, Committing
<1>3. IOInv /\ RegistryInv /\ CleanUpInv
  BY DEF IOInv, RegistryInv, CleanUpInv
<1> QED
  BY <1>1, <1>2, <1>3 DEF IInv

LEMMA SettledStays ==
  ASSUME NEW k \in Key, Settled(k), TypeOK,
         \A d \in Database : nextKey'[d] = nextKey[d], io' \subseteq io,
         \A t \in Txn, r \in Record : fresh'[t][r] = fresh[t][r] \/ fresh'[t][r] = NoBlob
  PROVE  Settled(k)'
BY KeyFacts DEF Settled, Issued

LEMMA Ended ==
  ASSUME NEW T, EndTransactions(T), NEW t \in Txn
  PROVE  /\ t \in T => /\ phase'[t] = "none" /\ scope'[t] = {}
                       /\ view'[t] = NoBlobs /\ change'[t] = NoChange
                       /\ fresh'[t] = NoBlobs /\ unwritten'[t] = {}
         /\ t \notin T => /\ phase'[t] = phase[t] /\ scope'[t] = scope[t]
                          /\ view'[t] = view[t] /\ change'[t] = change[t]
                          /\ fresh'[t] = fresh[t] /\ unwritten'[t] = unwritten[t]
BY DEF EndTransactions

LEMMA Stopped ==
  ASSUME IInv, TypeOK', EndTransactions(Txn), UNCHANGED leveldb,
         store' = "closed", used' = {}, deletedDbs' = {},
         cleaning' = "no", doomed' = {}, keep' = {},
         \A r \in Record : entry[r] # NoBlob => file'[entry[r]] = file[entry[r]],
         \/ io' = {}
         \/ io' = io /\ abandoned' = abandoned \cup {k \in io : \E t \in Txn : k \in unwritten[t]}
  PROVE  IInv'
<1> USE DEF IInv
<1>1. \A t \in Txn :
        /\ phase'[t] = "none" /\ scope'[t] = {} /\ unwritten'[t] = {}
        /\ \A r \in Record :
             view'[t][r] = NoBlob /\ change'[t][r] = "same" /\ fresh'[t][r] = NoBlob
  BY Ended DEF NoBlobs, NoChange
<1>2. ASSUME NEW k \in Key, Settled(k) PROVE Settled(k)'
  BY <1>1, <1>2, SettledStays DEF leveldb
<1>3. NamedInv'
  BY <1>2 DEF NamedInv, TypeOK, leveldb, Blob, Settled
<1>4. DatabaseInv'
  BY DEF DatabaseInv, leveldb
<1>5. TransactionInv'
  BY <1>1 DEF TransactionInv, Writer, ViewsSettled
<1>6. WriterInv'
  <2>1. Committing' = {}
    BY <1>1 DEF Committing
  <2> QED
    BY <1>1, <2>1 DEF WriterInv
<1>7. IOInv'
  BY DEF IOInv, leveldb, Issued
<1>8. \A k \in live : k[2] # kAllBlobsKey => k \in Key
  BY KeyFacts DEF TypeOK, kAllBlobsKey, AllBlobs
<1>9. RegistryInv'
  BY <1>2, <1>8 DEF RegistryInv, leveldb
<1> QED
  BY <1>3, <1>4, <1>5, <1>6, <1>7, <1>9 DEF CleanUpInv

LEMMA ShutDownInv ==
  ASSUME IInv, ShutDown, UNCHANGED <<leveldb, opened, io>>, TypeOK',
         \A r \in Record : entry[r] # NoBlob => file'[entry[r]] = file[entry[r]]
  PROVE  IInv'
BY Stopped DEF ShutDown, RollBack

LEMMA RollBackInv ==
  ASSUME IInv, NEW t \in Txn, RollBack({t}), TypeOK',
         UNCHANGED <<leveldb, file, process, cleanup, registry, io>>
  PROVE  IInv'
<1> USE DEF IInv, RollBack, leveldb, process, cleanup, registry
<1>1. \A u \in Txn :
        \/ /\ u = t
           /\ phase'[u] = "none" /\ scope'[u] = {} /\ unwritten'[u] = {}
           /\ \A r \in Record :
                view'[u][r] = NoBlob /\ change'[u][r] = "same" /\ fresh'[u][r] = NoBlob
        \/ /\ u # t
           /\ phase'[u] = phase[u] /\ scope'[u] = scope[u] /\ view'[u] = view[u]
           /\ change'[u] = change[u] /\ fresh'[u] = fresh[u] /\ unwritten'[u] = unwritten[u]
  BY Ended DEF NoBlobs, NoChange
<1>2. ASSUME NEW k \in Key, Settled(k) PROVE Settled(k)'
  BY <1>1, <1>2, SettledStays
<1>3. NamedInv'
  BY <1>2 DEF NamedInv, TypeOK, Blob
<1>4. DatabaseInv'
  BY DEF DatabaseInv
<1>5. TransactionInv'
  <2>1. ViewsSettled'
    <3> SUFFICES ASSUME NEW u \in Txn, NEW r \in Record, view'[u][r] # NoBlob
                 PROVE  Settled(view[u][r])'
      BY DEF ViewsSettled
    <3>0. view'[u] = view[u]
      BY <1>1
    <3>1. view'[u][r] = view[u][r] /\ view[u][r] \in Key
      BY <3>0 DEF TypeOK, Blob
    <3>2. Settled(view[u][r])
      BY <3>1 DEF TransactionInv, ViewsSettled
    <3> QED
      BY <1>1, <3>1, <3>2 DEF Settled, Issued
  <2> QED
    BY <1>1, <2>1 DEF TransactionInv, Writer
<1>6. WriterInv'
  BY <1>1 DEF WriterInv, Committing, Issued
<1>7. IOInv'
  BY <1>1 DEF IOInv, Issued
<1>8. \A k \in live : k[2] # kAllBlobsKey => k \in Key
  BY KeyFacts DEF TypeOK, kAllBlobsKey, AllBlobs
<1>9. RegistryInv'
  BY <1>2, <1>8 DEF RegistryInv, TypeOK
<1>10. CleanUpInv'
  BY <1>1 DEF CleanUpInv, Removed
<1> QED
  BY <1>3, <1>4, <1>5, <1>6, <1>7, <1>9, <1>10

LEMMA CrashInv == ASSUME IInv, Crash, TypeOK' PROVE IInv'
<1>1. \A r \in Record : entry[r] # NoBlob => entry[r] \in Key \ io
  BY DEF IInv, NamedInv, Settled, TypeOK, Blob
<1>2. \A r \in Record : entry[r] # NoBlob => file'[entry[r]] = file[entry[r]]
  BY <1>1 DEF Crash
<1> QED
  BY <1>2, Stopped DEF Crash

LEMMA OpenStoreInv == ASSUME IInv, OpenStore, TypeOK' PROVE IInv'
<1> USE DEF IInv, OpenStore, leveldb, cleanup, txns, registry
<1>1. \A k \in Key : Settled(k)' = Settled(k)
  BY DEF Settled, Issued
<1>2. NamedInv' /\ DatabaseInv' /\ WriterInv' /\ IOInv'
  BY <1>1 DEF NamedInv, DatabaseInv, WriterInv, IOInv, Issued, Committing, TypeOK, Blob, Settled
<1>3. TransactionInv'
  BY <1>1 DEF TransactionInv, Writer, ViewsSettled, TypeOK, Blob, Settled, Issued
<1>4. RegistryInv'
  BY <1>1 DEF RegistryInv, TypeOK, Settled, Issued
<1>5. \A t \in Txn, r \in Record : fresh[t][r] = NoBlob
  BY DEF TransactionInv, Writer, WriterInv, Committing, TypeOK
<1>6. CleanUpInv'
  BY <1>5 DEF CleanUpInv, TypeOK
<1> QED
  BY <1>2, <1>3, <1>4, <1>6

LEMMA SameFiles ==
  ASSUME IInv, UNCHANGED <<leveldb, file, io, fresh, unwritten, abandoned, deletedDbs>>
  PROVE  /\ NamedInv' /\ DatabaseInv' /\ IOInv'
         /\ \A k \in Key : Settled(k)' <=> Settled(k)
<1> USE DEF IInv, leveldb
<1>1. \A k \in Key : Settled(k)' <=> Settled(k)
  BY DEF Settled, Issued
<1>2. NamedInv'
  BY DEF NamedInv, Issued, Settled
<1>3. DatabaseInv'
  BY DEF DatabaseInv
<1>4. IOInv'
  BY DEF IOInv, Issued
<1> QED
  BY <1>1, <1>2, <1>3, <1>4

LEMMA SameRegistry ==
  ASSUME IInv, \A k \in Key : Settled(k) => Settled(k)',
         UNCHANGED <<store, registry, primary, live>>,
         \A k \in Key \ io : file'[k] = file[k]
  PROVE  RegistryInv'
<1> USE DEF IInv, registry
<1>1. \A k \in live : k[2] # kAllBlobsKey => k \in Key
  BY KeyFacts DEF TypeOK, kAllBlobsKey, AllBlobs
<1>2. \A k \in used : k \in Key /\ k \notin io
  BY DEF RegistryInv, Settled, TypeOK
<1> QED
  BY <1>1, <1>2 DEF RegistryInv, TypeOK

LEMMA BeginInv ==
  ASSUME IInv, NEW t \in Txn, NEW d \in Database, NEW S \in SUBSET Slot, NEW w \in BOOLEAN,
         Begin(t, d, S, w), TypeOK'
  PROVE  IInv'
<1> USE DEF IInv, Begin, leveldb, process, cleanup, registry
<1>1. NamedInv' /\ DatabaseInv' /\ IOInv' /\ \A k \in Key : Settled(k)' <=> Settled(k)
  BY SameFiles
<1>2. ViewsSettled'
  <2> SUFFICES ASSUME NEW u \in Txn, NEW r \in Record, view'[u][r] # NoBlob
               PROVE  Settled(view[u][r])'
    BY DEF ViewsSettled
  <2>1. view'[u][r] \in Key
    BY DEF TypeOK, Blob
  <2>2. CASE u = t
    <3>1. view'[u][r] = entry[r]
      BY <2>2 DEF TypeOK
    <3>2. Settled(entry[r])
      BY <3>1 DEF NamedInv
    <3> QED
      BY <3>1, <3>2, <2>1 DEF Settled, Issued
  <2>3. CASE u # t
    <3>1. view'[u] = view[u]
      BY <2>3 DEF TypeOK
    <3>2. Settled(view[u][r])
      BY <3>1 DEF TransactionInv, ViewsSettled
    <3> QED
      BY <3>1, <3>2, <2>1 DEF Settled, Issued
  <2> QED
    BY <2>2, <2>3
<1>3. /\ phase' = [phase EXCEPT ![t] = IF w THEN "active" ELSE "reading"]
      /\ scope' = [scope EXCEPT ![t] = {d} \X S]
      /\ \A r \in {d} \X S : r \in Record /\ r[1] = d /\ view'[t][r] = entry[r]
      /\ \A u \in Txn \ {t} : view'[u] = view[u]
  BY DEF TypeOK, Record
<1>4. \A r \in Record : change[t][r] = "same" /\ fresh[t][r] = NoBlob
  BY DEF TransactionInv, WriterInv, Committing, Writer, TypeOK
<1>5. TransactionInv'
  <2>1. \A u, v \in Txn : u # v /\ Writer(u)' /\ Writer(v)' => scope'[u] \cap scope'[v] = {}
    BY <1>3 DEF TransactionInv, Writer, Running, TypeOK
  <2>2. \A u \in Txn : \A r \in scope'[u] : phase'[u] # "reading" => view'[u][r] = entry'[r]
    BY <1>3 DEF TransactionInv, TypeOK
  <2> QED
    BY <1>2, <1>3, <1>4, <2>1, <2>2 DEF TransactionInv, Writer, TypeOK, Ready
<1>6. WriterInv'
  <2>1. Committing' = Committing
    BY <1>3 DEF Committing, TypeOK
  <2> QED
    BY <1>3, <1>4, <2>1 DEF WriterInv, Issued, TypeOK
<1>7. RegistryInv'
  BY <1>1, SameRegistry
<1>8. CleanUpInv'
  BY DEF CleanUpInv, Removed
<1> QED
  BY <1>1, <1>5, <1>6, <1>7, <1>8

LEMMA WriteInv ==
  ASSUME IInv, NEW t \in Txn, NEW r \in Record, NEW what \in {"put", "gone"},
         Write(t, r, what), TypeOK'
  PROVE  IInv'
<1> USE DEF IInv, Write, leveldb, process, cleanup, registry
<1>1. NamedInv' /\ DatabaseInv' /\ IOInv' /\ \A k \in Key : Settled(k)' <=> Settled(k)
  BY SameFiles
<1>2. \A u \in Txn, q \in Record : change'[u][q] # change[u][q] => u = t /\ q = r
  BY DEF TypeOK
<1>3. TransactionInv'
  <2>1. ViewsSettled'
    <3> SUFFICES ASSUME NEW u \in Txn, NEW q \in Record, view[u][q] # NoBlob
                 PROVE  Settled(view[u][q])'
      BY DEF ViewsSettled
    <3>1. view[u][q] \in Key /\ Settled(view[u][q])
      BY DEF TypeOK, Blob, TransactionInv, ViewsSettled
    <3> QED
      BY <3>1 DEF Settled, Issued
  <2> QED
    BY <1>2, <2>1 DEF TransactionInv, Writer
<1>4. \A q \in Record : fresh[t][q] = NoBlob
  BY DEF WriterInv, Committing
<1>5. WriterInv'
  BY <1>2, <1>4 DEF WriterInv, Issued, Committing
<1>6. RegistryInv'
  BY <1>1, SameRegistry
<1>7. CleanUpInv'
  BY DEF CleanUpInv, Removed
<1> QED
  BY <1>1, <1>3, <1>5, <1>6, <1>7

LEMMA ReadInv ==
  ASSUME IInv, NEW t \in Txn, NEW r \in Record, Read(t, r), TypeOK'
  PROVE  IInv'
<1> USE DEF IInv, Read, leveldb, process, cleanup, txns
<1> DEFINE k == view[t][r]
<1>1. NamedInv' /\ DatabaseInv' /\ IOInv' /\ \A j \in Key : Settled(j)' <=> Settled(j)
  BY SameFiles
<1>2. k \in Key /\ Settled(k)
  BY DEF TransactionInv, ViewsSettled, TypeOK, Blob
<1>3. TransactionInv' /\ WriterInv'
  BY DEF TransactionInv, ViewsSettled, Settled, WriterInv, Issued, Committing, Writer
<1>4. entry[r] = k => file[k] = "whole" /\ k \notin primary /\ AllBlobs(k[1]) \notin primary
  BY <1>2 DEF NamedInv, DatabaseInv
<1>5. RegistryInv'
  <2>1. \A j \in used' : j \in Key /\ Settled(j)'
    BY <1>1, <1>2 DEF RegistryInv, TypeOK
  <2>2. \A j \in live : j[2] # kAllBlobsKey => Settled(j)'
    BY DEF RegistryInv, Settled, Issued
  <2>3. \A j \in used' \ stale' :
          file[j] = "whole" /\ j \notin primary /\ AllBlobs(j[1]) \notin primary
    BY <1>4 DEF RegistryInv
  <2> QED
    BY <2>1, <2>2, <2>3 DEF RegistryInv, Ready
<1>6. CleanUpInv'
  BY DEF CleanUpInv, Removed
<1> QED
  BY <1>1, <1>3, <1>5, <1>6

LEMMA CommitPhaseOneInv ==
  ASSUME IInv, NEW t \in Txn, NEW d \in Database, CommitPhaseOne(t, d), TypeOK'
  PROVE  IInv'
<1> USE DEF IInv, process, cleanup, registry
<1>1. PICK new \in [Put(t) -> Key] :
         /\ \A r, q \in Put(t) : new[r] = new[q] => r = q
         /\ \A r \in Put(t) : new[r][1] = d /\ nextKey[d] <= new[r][2] /\ new[r][2] < nextKey'[d]
         /\ primary' = primary \cup {new[r] : r \in Put(t)}
         /\ fresh' = [fresh EXCEPT ![t] =
              [r \in Record |-> IF r \in Put(t) THEN new[r] ELSE NoBlob]]
         /\ unwritten' = [unwritten EXCEPT ![t] = {new[r] : r \in Put(t)}]
  BY CommitPhaseOneFacts
<1>2. \A e \in Database : nextKey'[e] \in Nat /\ nextKey[e] \in Nat /\ nextKey[e] <= nextKey'[e]
  BY CommitPhaseOneFacts
<1>3. \A e \in Entry : Issued(e) => Issued(e)'
  BY <1>2, KeyFacts DEF Issued, TypeOK
<1>4. \A r \in Put(t) : new[r] \in Key /\ ~Issued(new[r]) /\ Issued(new[r])'
  BY <1>1, <1>2, KeyFacts DEF Issued
<1>5. /\ Ready /\ phase[t] = "active" /\ Put(t) \subseteq Record
      /\ \A r \in Put(t) : r[1] = d /\ change[t][r] = "put"
      /\ phase' = [phase EXCEPT ![t] = "writing"]
      /\ UNCHANGED <<databases, entry, live, file, process, cleanup, scope, view,
                     change, registry, io, pages, abandoned>>
  BY DEF CommitPhaseOne, Put
<1>6. \A u \in Txn, r \in Record :
        \/ fresh'[u][r] = fresh[u][r] /\ u # t
        \/ u = t /\ r \in Put(t) /\ fresh'[u][r] = new[r]
        \/ u = t /\ r \notin Put(t) /\ fresh'[u][r] = NoBlob
  BY <1>1 DEF TypeOK
<1>7. ASSUME NEW k \in Key, Settled(k) PROVE Settled(k)'
  <2>1. Issued(k) /\ k \in Entry
    BY <1>7, KeyFacts DEF Settled
  <2>2. \A u \in Txn, r \in Record : fresh'[u][r] # k
    BY <1>4, <1>6, <1>7, <2>1, KeyFacts DEF Settled
  <2> QED
    BY <1>3, <1>5, <1>7, <2>1, <2>2 DEF Settled
<1>8. NamedInv'
  <2>1. \A r \in Record : entry[r] # NoBlob => entry[r] \in Key /\ Settled(entry[r])
    BY DEF NamedInv, TypeOK, Blob
  <2>2. \A r \in Record : entry[r] # NoBlob => Settled(entry[r])'
    BY <1>5, <1>7, <2>1 DEF Settled, Issued
  <2>3. \A r \in Record : entry[r] # NoBlob => entry[r] \notin primary'
    BY <1>1, <1>4, <2>1 DEF NamedInv, Settled
  <2> QED
    BY <1>5, <2>2, <2>3 DEF NamedInv, Settled, Issued
<1>9. DatabaseInv'
  <2>1. \A e \in databases : AllBlobs(e) \notin primary'
    BY <1>1, KeyFacts DEF DatabaseInv, TypeOK
  <2>2. \A e \in primary' \cup live : Issued(e)'
    BY <1>1, <1>3, <1>4 DEF DatabaseInv, TypeOK, Issued
  <2> QED
    BY <1>5, <2>1, <2>2 DEF DatabaseInv, Issued
<1>10. TransactionInv'
  <2>1. ViewsSettled'
    <3> SUFFICES ASSUME NEW u \in Txn, NEW q \in Record, view'[u][q] # NoBlob
                 PROVE  Settled(view[u][q])'
      BY DEF ViewsSettled
    <3>1. view[u][q] \in Key /\ Settled(view[u][q])
      BY <1>5 DEF TypeOK, Blob, TransactionInv, ViewsSettled
    <3> QED
      BY <1>5, <1>7, <3>1 DEF Settled, Issued
  <2> QED
    BY <1>5, <2>1 DEF TransactionInv, Writer, TypeOK
<1>11. \A r \in Record : fresh[t][r] = NoBlob
  BY <1>5 DEF WriterInv, Committing
<1>12. Committing' = Committing \cup {t}
  BY <1>5 DEF Committing, TypeOK
<1>13. WriterInv'
  <2>1. ASSUME NEW u \in Txn, NEW r \in Record, fresh'[u][r] # NoBlob
        PROVE  /\ u \in Committing' /\ change'[u][r] = "put" /\ fresh'[u][r][1] = r[1]
               /\ Issued(fresh[u][r])' /\ fresh'[u][r] \in primary' \ live'
               /\ fresh'[u][r] \notin unwritten'[u] =>
                    file'[fresh'[u][r]] = "whole" /\ fresh'[u][r] \notin io'
    <3>1. CASE u # t
      <4>1. fresh'[u][r] = fresh[u][r] /\ fresh[u][r] \in Key /\ unwritten'[u] = unwritten[u]
        BY <1>1, <1>6, <2>1, <3>1 DEF TypeOK, Blob
      <4>2. Issued(fresh[u][r])
        BY <4>1, <2>1 DEF WriterInv
      <4>3. Issued(fresh[u][r])'
        BY <4>1, <4>2, <1>3, KeyFacts DEF Issued
      <4> QED
        BY <1>1, <1>5, <1>12, <2>1, <4>1, <4>3 DEF WriterInv
    <3>2. CASE u = t
      <4>1. r \in Put(t) /\ fresh'[t][r] = new[r] /\ new[r] \in unwritten'[t]
        BY <1>1, <1>6, <2>1, <3>2 DEF TypeOK
      <4>2. new[r] \notin live
        BY <1>4, <4>1 DEF DatabaseInv, Issued
      <4> QED
        BY <1>1, <1>4, <1>5, <1>12, <3>2, <4>1, <4>2 DEF Issued
    <3> QED
      BY <3>1, <3>2
  <2>2. \A u \in Committing', r \in Record : change'[u][r] = "put" => fresh'[u][r] # NoBlob
    BY <1>4, <1>5, <1>6, <1>12, KeyFacts DEF WriterInv, Put, Committing
  <2>3. ASSUME NEW u \in Txn, NEW v \in Txn, NEW r \in Record, NEW q \in Record,
               fresh'[u][r] = fresh'[v][q]
        PROVE  (u = v /\ r = q) \/ fresh'[u][r] = NoBlob
    <3>1. \A w \in Txn, p \in Record : fresh[w][p] # NoBlob => Issued(fresh[w][p])
      BY DEF WriterInv
    <3> QED
      BY <1>1, <1>4, <1>6, <2>3, <3>1 DEF WriterInv
  <2>4. \A u \in Txn : \A k \in unwritten'[u] : \E r \in Record : fresh'[u][r] = k
    BY <1>1, <1>5, <1>6 DEF WriterInv, TypeOK
  <2>5. \A k \in unwritten'[t] : k \notin io
    BY <1>1, <1>4 DEF IOInv, TypeOK
  <2>6. \A u \in Txn : u # t => unwritten'[u] = unwritten[u] /\ phase'[u] = phase[u]
    BY <1>1, <1>5 DEF TypeOK
  <2>7. /\ \A u \in Txn : \A k \in unwritten'[u] : k \in io' => phase'[u] = "onIO"
        /\ \A u \in Txn : \A k, l \in unwritten'[u] : k \in io' /\ l \in io' => k = l
    BY <1>5, <2>5, <2>6 DEF WriterInv
  <2> QED
    BY <2>1, <2>2, <2>3, <2>4, <2>7 DEF WriterInv
<1>14. IOInv'
  <2>1. unwritten[t] = {}
    BY <1>11, KeyFacts DEF WriterInv, TypeOK
  <2>2. \A k \in io : Issued(k)'
    BY <1>3, KeyFacts DEF IOInv, TypeOK
  <2> QED
    BY <1>1, <1>5, <2>1, <2>2 DEF IOInv, TypeOK, Issued
<1>15. RegistryInv'
  <2>1. \A k \in live : k[2] # kAllBlobsKey => k \in Key
    BY KeyFacts DEF TypeOK, kAllBlobsKey, AllBlobs
  <2>2. \A k \in used : k \in Key /\ Issued(k)
    BY DEF RegistryInv, Settled, TypeOK
  <2>3. \A k \in used \ stale : k \notin primary' /\ AllBlobs(k[1]) \notin primary'
    BY <1>1, <1>4, <2>2, KeyFacts DEF RegistryInv
  <2> QED
    BY <1>5, <1>7, <2>1, <2>2, <2>3 DEF RegistryInv
<1>16. CleanUpInv'
  BY <1>5 DEF CleanUpInv, Ready
<1> QED
  BY <1>8, <1>9, <1>10, <1>13, <1>14, <1>15, <1>16

LEMMA WriteNextFileInv ==
  ASSUME IInv, NEW t \in Txn, NEW k \in Key, WriteNextFile(t, k), TypeOK'
  PROVE  IInv'
<1> USE DEF IInv, WriteNextFile, leveldb, process, cleanup, registry
<1>1. PICK p \in Record : fresh[t][p] = k
  BY DEF WriterInv
<1>2. ASSUME NEW j \in Key, Settled(j) PROVE Settled(j)'
  BY <1>1, <1>2 DEF Settled, Issued
<1>3. NamedInv'
  BY <1>1, <1>2 DEF NamedInv, TypeOK, Blob, Settled, Issued
<1>4. DatabaseInv' /\ CleanUpInv'
  BY DEF DatabaseInv, CleanUpInv, Ready
<1>5. ViewsSettled'
  <2> SUFFICES ASSUME NEW u \in Txn, NEW q \in Record, view'[u][q] # NoBlob
               PROVE  Settled(view[u][q])'
    BY DEF ViewsSettled
  <2>1. view[u][q] \in Key /\ Settled(view[u][q])
    BY DEF TypeOK, Blob, TransactionInv, ViewsSettled
  <2> QED
    BY <1>2, <2>1 DEF Settled, Issued
<1>6. phase' = [phase EXCEPT ![t] = "onIO"] /\ phase[t] = "writing" /\ phase' \in [Txn -> Phase]
  BY DEF TypeOK
<1>7. TransactionInv'
  BY <1>5, <1>6 DEF TransactionInv, Writer, TypeOK
<1>8. Committing' = Committing
  BY <1>6 DEF Committing, TypeOK
<1>9. WriterInv'
  <2>1. \A u \in Txn, r \in Record : fresh[u][r] = k => u = t /\ r = p
    BY <1>1, KeyFacts DEF WriterInv
  <2>2. \A j \in unwritten[t] : j \notin io
    BY DEF WriterInv
  <2>3. \A u \in Txn : u # t => k \notin unwritten[u]
    BY <2>1 DEF WriterInv
  <2> QED
    BY <1>6, <1>8, <2>1, <2>2, <2>3 DEF WriterInv, Issued, TypeOK
<1>10. IOInv'
  BY <1>1, KeyFacts DEF IOInv, Issued, WriterInv
<1>11. RegistryInv'
  BY <1>2, SameRegistry
<1> QED
  BY <1>3, <1>4, <1>7, <1>9, <1>10, <1>11

\* A file that is being written was given up, or is still to come for a writer.
LEMMA WrittenFile ==
  ASSUME IInv, NEW k \in io
  PROVE  /\ k \in Key
         /\ \/ k \in abandoned
            \/ \E t \in Txn, r \in Record :
                 /\ k \in unwritten[t] /\ fresh[t][r] = k /\ phase[t] = "onIO"
                 /\ k[1] \in databases
<1> USE DEF IInv
<1>1. k \in Key
  BY DEF TypeOK
<1>2. ASSUME NEW t \in Txn, k \in unwritten[t]
      PROVE  \E r \in Record : fresh[t][r] = k /\ phase[t] = "onIO" /\ k[1] \in databases
  <2>1. PICK r \in Record : fresh[t][r] = k
    BY <1>2 DEF WriterInv
  <2>2. phase[t] = "onIO"
    BY <1>2 DEF WriterInv
  <2>3. k # NoBlob /\ k[1] = r[1] /\ change[t][r] = "put"
    BY <1>1, <2>1, KeyFacts DEF WriterInv
  <2>4. r[1] \in databases
    BY <2>3 DEF TransactionInv
  <2> QED
    BY <2>1, <2>2, <2>3, <2>4
<1> QED
  BY <1>1, <1>2 DEF IOInv

LEMMA WriteBlobToFileInv ==
  ASSUME IInv, NEW k \in Key, NEW result \in FileState, WriteBlobToFile(k, result), TypeOK'
  PROVE  IInv'
<1> USE DEF IInv, leveldb, process, cleanup, registry
<1> DEFINE waiting == {t \in Txn : phase[t] = "onIO" /\ k \in unwritten[t]}
<1>1. /\ k \in io /\ io' = io \ {k} /\ file' = [file EXCEPT ![k] = result]
      /\ \A t \in Txn :
           /\ phase'[t] = IF t \in waiting
                THEN IF result = "whole" THEN "writing" ELSE "failed" ELSE phase[t]
           /\ unwritten'[t] = IF t \in waiting /\ result = "whole"
                THEN unwritten[t] \ {k} ELSE unwritten[t]
      /\ UNCHANGED <<leveldb, process, cleanup, scope, view, change, fresh,
                     registry, pages, abandoned>>
  BY DEF WriteBlobToFile
<1>2. file'[k] = result /\ \A j \in Key \ {k} : file'[j] = file[j]
  BY <1>1 DEF TypeOK
<1>3. ASSUME NEW j \in Key, Settled(j) PROVE Settled(j)' /\ j # k /\ file'[j] = file[j]
  BY <1>1, <1>2, <1>3 DEF Settled, Issued
<1>4. NamedInv'
  <2>1. \A r \in Record : entry[r] # NoBlob =>
          entry[r] \in Key /\ Settled(entry[r])' /\ file'[entry[r]] = file[entry[r]]
    <3> SUFFICES ASSUME NEW r \in Record, entry[r] # NoBlob
                 PROVE  entry[r] \in Key /\ Settled(entry[r])' /\ file'[entry[r]] = file[entry[r]]
      OBVIOUS
    <3>1. entry[r] \in Key /\ Settled(entry[r])
      BY DEF NamedInv, TypeOK, Blob
    <3> QED
      BY <1>1, <1>3, <3>1 DEF Settled, Issued
  <2> QED
    BY <1>1, <2>1 DEF NamedInv, Settled, Issued
<1>5. DatabaseInv'
  BY <1>1 DEF DatabaseInv
<1>6. \A t \in Txn : k \in unwritten[t] => t \in waiting
  BY <1>1 DEF WriterInv
<1>7. TransactionInv'
  <2>1. ViewsSettled'
    <3> SUFFICES ASSUME NEW u \in Txn, NEW q \in Record, view'[u][q] # NoBlob
                 PROVE  Settled(view[u][q])'
      BY DEF ViewsSettled
    <3>1. view[u][q] \in Key /\ Settled(view[u][q])
      BY <1>1 DEF TypeOK, Blob, TransactionInv, ViewsSettled
    <3> QED
      BY <1>1, <1>3, <3>1 DEF Settled, Issued
  <2>2. \A u \in Txn : /\ phase'[u] = "none" <=> phase[u] = "none"
                       /\ phase'[u] = "reading" <=> phase[u] = "reading"
    BY <1>1
  <2> QED
    BY <1>1, <2>1, <2>2 DEF TransactionInv, Writer
<1>8. Committing' = Committing
  BY <1>1 DEF Committing
<1>9. WriterInv'
  <2>1. ASSUME NEW t \in Txn, NEW r \in Record, fresh[t][r] # NoBlob, fresh[t][r] \notin unwritten'[t]
        PROVE  file'[fresh[t][r]] = "whole" /\ fresh[t][r] \notin io'
    <3>1. fresh[t][r] \in Key
      BY <2>1 DEF TypeOK, Blob
    <3>2. CASE fresh[t][r] = k
      <4>1. k \in unwritten[t]
        BY <1>1, <2>1, <3>2 DEF WriterInv
      <4> QED
        BY <1>1, <1>2, <1>6, <2>1, <3>2, <4>1
    <3>3. CASE fresh[t][r] # k
      <4>1. fresh[t][r] \notin unwritten[t]
        BY <1>1, <2>1, <3>3
      <4> QED
        BY <1>1, <1>2, <2>1, <3>1, <3>3, <4>1 DEF WriterInv
    <3> QED
      BY <3>2, <3>3
  <2>2. /\ \A t \in Txn, r \in Record : fresh'[t][r] # NoBlob =>
             /\ t \in Committing' /\ change'[t][r] = "put" /\ fresh'[t][r][1] = r[1]
             /\ Issued(fresh[t][r])' /\ fresh'[t][r] \in primary' \ live'
        /\ \A t \in Committing', r \in Record : change'[t][r] = "put" => fresh'[t][r] # NoBlob
        /\ \A t, u \in Txn, r, q \in Record : fresh'[t][r] = fresh'[u][q] =>
             (t = u /\ r = q) \/ fresh'[t][r] = NoBlob
    BY <1>1, <1>8 DEF WriterInv, Issued
  <2>3. \A t \in Txn : \A j \in unwritten'[t] : j \in unwritten[t]
    BY <1>1
  <2>4. \A t \in Txn : \A j \in unwritten'[t] : \E r \in Record : fresh'[t][r] = j
    BY <1>1, <2>3 DEF WriterInv
  <2>5. \A t \in Txn : \A j \in unwritten'[t] : j \in io' => phase'[t] = "onIO"
    <3> SUFFICES ASSUME NEW t \in Txn, NEW j \in unwritten'[t], j \in io'
                 PROVE  phase'[t] = "onIO"
      OBVIOUS
    <3>1. j \in unwritten[t] /\ j \in io /\ j # k
      BY <1>1, <2>3
    <3>2. k \notin unwritten[t]
      BY <1>1, <3>1 DEF WriterInv
    <3> QED
      BY <1>1, <3>1, <3>2 DEF WriterInv
  <2>6. \A t \in Txn : \A j, l \in unwritten'[t] : j \in io' /\ l \in io' => j = l
    BY <1>1, <2>3 DEF WriterInv
  <2> QED
    BY <1>1, <2>1, <2>2, <2>4, <2>5, <2>6 DEF WriterInv
<1>10. IOInv'
  BY <1>1 DEF IOInv, Issued
<1>11. RegistryInv'
  <2>1. \A j \in live : j[2] # kAllBlobsKey => j \in Key
    BY KeyFacts DEF TypeOK, kAllBlobsKey, AllBlobs
  <2>2. \A j \in used : j \in Key /\ Settled(j)
    BY DEF RegistryInv, TypeOK
  <2> QED
    BY <1>1, <1>3, <2>1, <2>2 DEF RegistryInv
<1>12. CleanUpInv'
  <2>1. ASSUME NEW e, Removed(e), e \in (primary \cup live) \ keep, cleaning # "no"
        PROVE  Removed(e)'
    <3>1. CASE k \in abandoned
      BY <1>1, <1>2, <2>1, <3>1 DEF Removed, FilesOf
    <3>2. CASE \E t \in Txn, r \in Record : fresh[t][r] = k /\ k[1] \in databases
      <4>1. k \in keep
        BY <2>1, <3>2, KeyFacts DEF CleanUpInv
      <4>2. AllBlobs(k[1]) \notin primary \cup live
        BY <3>2 DEF DatabaseInv
      <4>3. k \notin FilesOf(e)
        BY <2>1, <4>1, <4>2 DEF FilesOf
      <4> QED
        BY <1>1, <1>2, <2>1, <4>3 DEF Removed, FilesOf
    <3> QED
      BY <1>1, <3>1, <3>2, WrittenFile
  <2>2. cleaning = "open" => keep = {}
    BY DEF CleanUpInv, WriterInv
  <2> QED
    BY <1>1, <2>1, <2>2 DEF CleanUpInv
<1> QED
  BY <1>4, <1>5, <1>7, <1>9, <1>10, <1>11, <1>12

\* What a commit replaces is what its transaction saw.
LEMMA RemovedBlobs ==
  ASSUME IInv, NEW t \in Txn
  PROVE  /\ \A k \in BlobsToRemove(t) :
              /\ k \in Key /\ Settled(k)
              /\ \E r \in Record : change[t][r] # "same" /\ entry[r] = k
         /\ \A r \in Record : change[t][r] # "same" /\ entry[r] # NoBlob
              => entry[r] \in BlobsToRemove(t)
<1> USE DEF IInv
<1>1. \A r \in Record : change[t][r] # "same" => view[t][r] = entry[r] /\ view[t][r] \in Blob
  BY DEF TransactionInv, Writer, TypeOK
<1> QED
  BY <1>1 DEF BlobsToRemove, NamedInv, Blob

LEMMA CommitPhaseTwoInv ==
  ASSUME IInv, NEW t \in Txn, CommitPhaseTwo(t), TypeOK'
  PROVE  IInv'
<1> USE DEF IInv
<1> DEFINE gone == BlobsToRemove(t)
           dead == DeadBlobs(t)
           mine == {fresh[t][r] : r \in Put(t)}
<1>1. /\ Ready
      /\ entry' = [r \in Record |-> IF change[t][r] = "same" THEN entry[r] ELSE fresh[t][r]]
      /\ primary' = (primary \ mine) \cup dead
      /\ live' = live \cup (gone \ dead)
      /\ dead = gone \ used
      /\ UNCHANGED <<databases, nextKey, file, process, used, deletedDbs, stale, io, abandoned>>
      /\ \/ dead = {} /\ UNCHANGED cleanup
         \/ cleaning' = "commit" /\ doomed' = dead /\ keep' = primary \ mine
  <2>1. SavedPrimaryJournal(t) = primary \ mine
    BY DEF SavedPrimaryJournal
  <2>2. dead = gone \ used
    BY DEF DeadBlobs
  <2> QED
    BY <2>1, <2>2 DEF CommitPhaseTwo, ReadyToCommit
<1>2. \A u \in Txn :
        \/ /\ u = t
           /\ phase'[u] = "none" /\ scope'[u] = {} /\ unwritten'[u] = {}
           /\ \A r \in Record :
                view'[u][r] = NoBlob /\ change'[u][r] = "same" /\ fresh'[u][r] = NoBlob
        \/ /\ u # t
           /\ phase'[u] = phase[u] /\ scope'[u] = scope[u] /\ view'[u] = view[u]
           /\ change'[u] = change[u] /\ fresh'[u] = fresh[u] /\ unwritten'[u] = unwritten[u]
  BY Ended DEF CommitPhaseTwo, NoBlobs, NoChange
<1>3. ASSUME NEW k \in Key, Settled(k) PROVE Settled(k)'
  BY <1>1, <1>2, <1>3, SettledStays
<1>4. /\ \A k \in gone : /\ k \in Key /\ Settled(k)
                         /\ \E r \in Record : change[t][r] # "same" /\ entry[r] = k
      /\ \A r \in Record : change[t][r] # "same" /\ entry[r] # NoBlob => entry[r] \in gone
  BY RemovedBlobs
\* The new blobs are written, and nobody else's.
<1>5. ASSUME NEW r \in Record, NEW k \in Key, fresh[t][r] = k
      PROVE  /\ k \in mine /\ k[1] = r[1] /\ r \in scope[t] /\ change[t][r] = "put"
             /\ file[k] = "whole" /\ Settled(k)'
             /\ k \in primary \ live /\ k \notin gone
  <2>1. /\ change[t][r] = "put" /\ t \in Committing
        /\ Issued(k) /\ k \in primary \ live /\ k[1] = r[1]
    BY <1>5, KeyFacts DEF WriterInv
  <2>2. unwritten[t] = {}
    BY <2>1 DEF CommitPhaseTwo, ReadyToCommit, Committing
  <2>3. file[k] = "whole" /\ k \notin io
    BY <1>5, <2>2, KeyFacts DEF WriterInv
  <2>4. \A u \in Txn, q \in Record : fresh'[u][q] # k
    BY <1>2, <1>5, KeyFacts DEF WriterInv
  <2>5. Settled(k)'
    BY <1>1, <2>1, <2>3, <2>4 DEF Settled, Issued
  <2>6. k \notin gone
    BY <1>4, <1>5 DEF Settled
  <2>7. r \in scope[t] /\ k \in mine
    BY <1>5, <2>1 DEF TransactionInv, Put
  <2> QED
    BY <2>1, <2>3, <2>5, <2>6, <2>7
<1>6. \A r \in Record : entry'[r] # NoBlob =>
        \/ change[t][r] = "same" /\ entry'[r] = entry[r]
        \/ entry'[r] = fresh[t][r]
  BY <1>1
<1>7. ASSUME NEW r \in Record, entry'[r] # NoBlob
      PROVE  /\ entry'[r] \in Key /\ entry'[r][1] = r[1] /\ r[1] \in databases
             /\ Settled(entry[r])' /\ file[entry'[r]] = "whole"
             /\ entry'[r] \notin primary' \cup live'
  <2>1. CASE change[t][r] = "same" /\ entry'[r] = entry[r]
    <3>1. /\ entry[r] \in Key /\ entry[r][1] = r[1] /\ r[1] \in databases
          /\ Settled(entry[r]) /\ file[entry[r]] = "whole" /\ entry[r] \notin primary \cup live
      BY <1>7, <2>1 DEF NamedInv, TypeOK, Blob
    <3>2. entry[r] \notin gone
      BY <1>4, <2>1, <1>7 DEF NamedInv
    <3>3. Settled(entry[r])'
      BY <1>3, <2>1, <3>1 DEF Settled, Issued
    <3> QED
      BY <1>1, <2>1, <3>1, <3>2, <3>3
  <2>2. CASE entry'[r] = fresh[t][r]
    <3>1. entry'[r] \in Key
      BY <1>7 DEF TypeOK, Blob
    <3>2. r[1] \in databases
      BY <1>5, <3>1, <2>2 DEF TransactionInv
    <3> QED
      BY <1>1, <1>5, <2>2, <3>1, <3>2 DEF Settled, Issued
  <2> QED
    BY <1>6, <1>7, <2>1, <2>2
<1>8. NamedInv'
  <2>1. \A r, q \in Record : entry'[r] = entry'[q] => r = q \/ entry'[r] = NoBlob
    <3> SUFFICES ASSUME NEW r \in Record, NEW q \in Record, entry'[r] = entry'[q], entry'[r] # NoBlob
                 PROVE  r = q
      OBVIOUS
    <3>1. \A p \in Record : entry[p] # NoBlob => Settled(entry[p])
      BY DEF NamedInv
    <3>2. CASE entry'[r] = entry[r] /\ entry'[q] = entry[q]
      BY <3>2 DEF NamedInv
    <3>3. CASE entry'[r] = fresh[t][r] /\ entry'[q] = fresh[t][q]
      <4>1. fresh[t][r] = fresh[t][q] /\ fresh[t][r] # NoBlob
        BY <3>3
      <4> QED
        BY <4>1 DEF WriterInv
    <3> QED
      BY <1>6, <3>1, <3>2, <3>3 DEF Settled
  <2> QED
    BY <1>1, <1>7, <2>1 DEF NamedInv
<1>9. DatabaseInv'
  <2>1. \A k \in gone : k[2] < nextKey[k[1]] /\ \A d \in Database : k # AllBlobs(d)
    BY <1>4, KeyFacts DEF Settled, Issued
  <2> QED
    BY <1>1, <2>1 DEF DatabaseInv, TypeOK
<1>10. TransactionInv'
  <2>1. ViewsSettled'
    <3> SUFFICES ASSUME NEW u \in Txn, NEW r \in Record, view'[u][r] # NoBlob
                 PROVE  Settled(view[u][r])'
      BY DEF ViewsSettled
    <3>1. view'[u] = view[u]
      BY <1>2
    <3>2. view[u][r] \in Key /\ Settled(view[u][r])
      BY <3>1 DEF TransactionInv, ViewsSettled, TypeOK, Blob
    <3> QED
      BY <1>1, <1>2, <3>1, <3>2 DEF Settled, Issued
  <2>2. \A r \in Record : change[t][r] # "same" => r \in scope[t] /\ Writer(t)
    BY DEF TransactionInv
  <2>3. ASSUME NEW u \in Txn, NEW r \in scope'[u], phase'[u] # "reading"
        PROVE  view'[u][r] = entry'[r]
    <3>1. u # t /\ r \in scope[u] /\ r \in Record /\ Writer(u)
      BY <1>2, <2>3 DEF TransactionInv, Writer, TypeOK
    <3>2. change[t][r] = "same"
      BY <2>2, <3>1 DEF TransactionInv
    <3> QED
      BY <1>1, <1>2, <2>3, <3>1, <3>2 DEF TransactionInv
  <2> QED
    BY <1>1, <1>2, <2>1, <2>3 DEF TransactionInv, Writer, process
<1>11. \A u \in Txn, r \in Record : fresh'[u][r] # NoBlob =>
         u # t /\ fresh'[u][r] = fresh[u][r] /\ fresh[u][r] \notin mine /\ fresh[u][r] \notin gone
  BY <1>2, <1>4 DEF WriterInv, Put, Settled
<1>12. WriterInv'
  <2>1. \A u \in Txn : u \in Committing' <=> u # t /\ u \in Committing
    BY <1>2 DEF Committing
  <2>2. \A u \in Txn, r \in Record : fresh'[u][r] # NoBlob =>
          /\ u \in Committing' /\ change'[u][r] = "put" /\ fresh'[u][r][1] = r[1]
          /\ Issued(fresh[u][r])' /\ fresh'[u][r] \in primary' \ live'
          /\ fresh'[u][r] \notin unwritten'[u] =>
               file'[fresh'[u][r]] = "whole" /\ fresh'[u][r] \notin io'
    BY <1>1, <1>2, <1>11, <2>1 DEF WriterInv, Issued
  <2>3. \A u \in Committing', r \in Record : change'[u][r] = "put" => fresh'[u][r] # NoBlob
    BY <1>2, <2>1 DEF WriterInv, Committing
  <2>4. \A u, v \in Txn, r, q \in Record : fresh'[u][r] = fresh'[v][q] =>
             (u = v /\ r = q) \/ fresh'[u][r] = NoBlob
    BY <1>11 DEF WriterInv
  <2>5. /\ \A u \in Txn : \A k \in unwritten'[u] : \E r \in Record : fresh'[u][r] = k
        /\ \A u \in Txn : \A k \in unwritten'[u] : k \in io' => phase'[u] = "onIO"
        /\ \A u \in Txn : \A k, l \in unwritten'[u] : k \in io' /\ l \in io' => k = l
    BY <1>1, <1>2 DEF WriterInv
  <2> QED
    BY <2>2, <2>3, <2>4, <2>5 DEF WriterInv
<1>13. IOInv'
  <2>1. unwritten[t] \cap io = {}
    BY DEF CommitPhaseTwo, ReadyToCommit, WriterInv
  <2> QED
    BY <1>1, <1>2, <2>1 DEF IOInv, Issued
<1>14. RegistryInv'
  <2>1. \A k \in live : k[2] # kAllBlobsKey => k \in Key
    BY KeyFacts DEF TypeOK, kAllBlobsKey, AllBlobs
  <2>2. \A k \in used : k \in Key
    BY DEF TypeOK
  <2>3. \A k \in live' : k[2] # kAllBlobsKey => Settled(k)'
    BY <1>1, <1>3, <1>4, <2>1 DEF RegistryInv
  <2>4. \A k \in used \ stale : k \notin primary' /\ AllBlobs(k[1]) \notin primary'
    BY <1>1, <1>4, <2>2, KeyFacts DEF RegistryInv
  <2> QED
    BY <1>1, <1>3, <2>2, <2>3, <2>4 DEF RegistryInv, process
<1>15. CleanUpInv'
  <2>1. cleaning = "no" /\ store = "open" /\ doomed = {} /\ keep = {}
    BY <1>1 DEF Ready, CleanUpInv
  <2>2. CASE dead = {} /\ UNCHANGED cleanup
    BY <1>1, <2>1, <2>2 DEF CleanUpInv, cleanup, process
  <2>3. CASE cleaning' = "commit" /\ doomed' = dead /\ keep' = primary \ mine
    <3>1. \A u \in Txn, r \in Record : fresh'[u][r] # NoBlob => fresh'[u][r] \in primary \ mine
      BY <1>11 DEF WriterInv
    <3> QED
      BY <1>1, <1>11, <2>1, <2>3, <3>1 DEF CleanUpInv, process
  <2> QED
    BY <1>1, <2>2, <2>3
<1> QED
  BY <1>8, <1>9, <1>10, <1>12, <1>13, <1>14, <1>15

\* What a clean-up removes is nobody's: it is neither in a record, nor of a
\* writer, nor with a page.
LEMMA DoomedFiles ==
  ASSUME IInv, cleaning # "no", NEW e \in doomed, NEW k \in FilesOf(e)
  PROVE  /\ \A r \in Record : entry[r] # k
         /\ \A t \in Txn, r \in Record : fresh[t][r] # k
         /\ k \notin used \ stale
<1> USE DEF IInv
<1>1. /\ k \in Key /\ (k = e \/ AllBlobs(k[1]) = e)
      /\ e \in primary \cup live
      /\ cleaning # "open" => e \in primary
  BY DEF FilesOf, CleanUpInv, TypeOK
<1>2. \A r \in Record : entry[r] # k
  BY <1>1, KeyFacts DEF NamedInv, DatabaseInv
<1>3. ASSUME NEW t \in Txn, NEW r \in Record, fresh[t][r] = k PROVE FALSE
  <2>1. k # NoBlob /\ k \in keep \ doomed /\ k[1] = r[1] /\ change[t][r] = "put"
    BY <1>1, <1>3, KeyFacts DEF CleanUpInv, WriterInv
  <2>2. k[1] \in databases
    BY <2>1 DEF TransactionInv
  <2> QED
    BY <1>1, <2>1, <2>2 DEF DatabaseInv
<1>4. k \notin used \ stale
  BY <1>1 DEF RegistryInv, CleanUpInv
<1> QED
  BY <1>2, <1>3, <1>4

LEMMA RemoveFileInv ==
  ASSUME IInv, NEW e \in Entry, RemoveFile(e), TypeOK'
  PROVE  IInv'
<1> USE DEF IInv, leveldb, process, txns, registry, pages
<1>1. /\ cleaning # "no" /\ e \in doomed /\ doomed' = doomed \ {e}
      /\ file' = [k \in Key |-> IF k \in FilesOf(e) THEN "none" ELSE file[k]]
      /\ UNCHANGED <<leveldb, process, cleaning, keep, txns, registry, io, pages, abandoned>>
  BY DEF RemoveFile
<1>2. \A k \in Key : Settled(k)' <=> Settled(k)
  BY <1>1 DEF Settled, Issued
<1>3. NamedInv'
  <2>1. \A r \in Record : entry[r] # NoBlob => file'[entry[r]] = file[entry[r]]
    BY <1>1, DoomedFiles DEF TypeOK, Blob
  <2> QED
    BY <1>1, <2>1 DEF NamedInv, Settled, Issued
<1>4. DatabaseInv'
  BY <1>1 DEF DatabaseInv
<1>5. TransactionInv'
  BY <1>1 DEF TransactionInv, ViewsSettled, Settled, Issued, Writer
<1>6. WriterInv'
  <2>1. \A t \in Txn, r \in Record : fresh[t][r] # NoBlob => file'[fresh[t][r]] = file[fresh[t][r]]
    BY <1>1, DoomedFiles DEF TypeOK, Blob
  <2> QED
    BY <1>1, <2>1 DEF WriterInv, Issued, Committing
<1>7. IOInv'
  BY <1>1 DEF IOInv, Issued
<1>8. RegistryInv'
  <2>1. \A k \in used \ stale : file'[k] = file[k]
    BY <1>1, DoomedFiles DEF TypeOK
  <2>2. \A k \in live : k[2] # kAllBlobsKey => k \in Key
    BY KeyFacts DEF TypeOK, kAllBlobsKey, AllBlobs
  <2> QED
    BY <1>1, <1>2, <2>1, <2>2 DEF RegistryInv, TypeOK
<1>9. CleanUpInv'
  <2>1. \A c : Removed(c) => Removed(c)'
    BY <1>1 DEF Removed, FilesOf
  <2>2. Removed(e)'
    BY <1>1 DEF Removed, FilesOf
  <2> QED
    BY <1>1, <2>1, <2>2 DEF CleanUpInv
<1> QED
  BY <1>3, <1>4, <1>5, <1>6, <1>7, <1>8, <1>9

\* A clean-up is over, with what it did to the files and the journals.
LEMMA CleanedUp ==
  ASSUME IInv, TypeOK', cleaning # "no",
         cleaning' = "no", doomed' = {}, keep' = {},
         UNCHANGED <<databases, entry, nextKey, txns, registry, io, abandoned>>,
         primary' \subseteq primary, live' \subseteq live,
         \A k \in Key : file'[k] = file[k] \/ \E e \in doomed : k \in FilesOf(e),
         \A t \in Txn, r \in Record : fresh[t][r] # NoBlob => fresh[t][r] \in primary',
         store' = "open"
  PROVE  IInv'
<1> USE DEF IInv, txns, registry
<1>1. \A k \in Key : Settled(k)' <=> Settled(k)
  BY DEF Settled, Issued
<1>2. NamedInv'
  <2>1. \A r \in Record : entry[r] # NoBlob => file'[entry[r]] = file[entry[r]]
    BY DoomedFiles DEF TypeOK, Blob
  <2> QED
    BY <2>1 DEF NamedInv, Settled, Issued
<1>3. DatabaseInv'
  BY DEF DatabaseInv
<1>4. TransactionInv'
  BY DEF TransactionInv, ViewsSettled, Settled, Issued, Writer
<1>5. WriterInv'
  <2>1. \A t \in Txn, r \in Record : fresh[t][r] # NoBlob => file'[fresh[t][r]] = file[fresh[t][r]]
    BY DoomedFiles DEF TypeOK, Blob
  <2> QED
    BY <2>1 DEF WriterInv, Issued, Committing
<1>6. IOInv'
  BY DEF IOInv, Issued
<1>7. RegistryInv'
  <2>1. \A k \in used \ stale : file'[k] = file[k]
    BY DoomedFiles DEF TypeOK
  <2>2. \A k \in live : k[2] # kAllBlobsKey => k \in Key
    BY KeyFacts DEF TypeOK, kAllBlobsKey, AllBlobs
  <2> QED
    BY <1>1, <2>1, <2>2 DEF RegistryInv, TypeOK
<1> QED
  BY <1>2, <1>3, <1>4, <1>5, <1>6, <1>7 DEF CleanUpInv

LEMMA CleanUpFailsInv ==
  ASSUME IInv, CleanUpFails, cleaning # "no", TypeOK', UNCHANGED <<leveldb, opened, io>>,
         \A k \in Key : file'[k] = file[k] \/ \E e \in doomed : k \in FilesOf(e)
  PROVE  IInv'
<1> USE DEF leveldb
<1>1. CASE cleaning = "timer"
  <2>1. \A t \in Txn, r \in Record : fresh[t][r] # NoBlob => fresh[t][r] \in primary
    BY DEF IInv, WriterInv
  <2>2. store = "open"
    BY <1>1 DEF IInv, CleanUpInv
  <2> QED
    BY <1>1, <2>1, <2>2, CleanedUp DEF CleanUpFails
<1>2. CASE ShutDown
  <2>1. \A r \in Record : entry[r] # NoBlob => file'[entry[r]] = file[entry[r]]
    BY DoomedFiles DEF IInv, TypeOK, Blob
  <2> QED
    BY <1>2, <2>1, ShutDownInv
<1> QED
  BY <1>1, <1>2 DEF CleanUpFails

LEMMA RemoveFailsInv ==
  ASSUME IInv, NEW e \in Entry, RemoveFails(e), TypeOK'
  PROVE  IInv'
<1>1. \A k \in Key : file'[k] = file[k] \/ k \in FilesOf(e)
  BY DEF RemoveFails
<1> QED
  BY <1>1, CleanUpFailsInv DEF RemoveFails

LEMMA EndCleanUpInv == ASSUME IInv, EndCleanUp, TypeOK' PROVE IInv'
<1>1. \A t \in Txn, r \in Record : fresh[t][r] # NoBlob => fresh[t][r] \in primary'
  BY DEF IInv, EndCleanUp, WriterInv, CleanUpInv
<1>2. primary' \subseteq primary /\ live' \subseteq live
  BY DEF IInv, EndCleanUp, CleanUpInv, TypeOK
<1> QED
  BY <1>1, <1>2, CleanedUp DEF EndCleanUp

LEMMA EndCleanUpFailsInv == ASSUME IInv, EndCleanUpFails, TypeOK' PROVE IInv'
BY CleanUpFailsInv DEF EndCleanUpFails

\* The primary journal is cleaned when no writer has a file in it.
LEMMA CleanPrimaryJournalInv ==
  ASSUME IInv, NEW running, Ready, CleanPrimaryJournal(primary', running),
         UNCHANGED <<store, txns>>
  PROVE  CleanUpInv'
<1> USE DEF IInv, txns
<1>1. cleaning = "no" /\ doomed = {} /\ keep = {} /\ store = "open"
  BY DEF Ready, CleanUpInv
<1>2. CASE UNCHANGED cleanup
  BY <1>1, <1>2 DEF CleanUpInv, cleanup
<1>3. CASE cleaning' = "timer" /\ doomed' = primary' /\ keep' = {} /\ CanClean
  <2>1. \A t \in Txn, r \in Record : fresh[t][r] = NoBlob
    BY <1>3 DEF CanClean, WriterInv
  <2> QED
    BY <1>1, <1>3, <2>1 DEF CleanUpInv
<1> QED
  BY <1>2, <1>3 DEF CleanPrimaryJournal

LEMMA TimerFiresInv == ASSUME IInv, TimerFires, TypeOK' PROVE IInv'
<1> USE DEF IInv, TimerFires, leveldb, txns, registry
<1>1. NamedInv' /\ DatabaseInv' /\ IOInv' /\ \A k \in Key : Settled(k)' <=> Settled(k)
  BY SameFiles
<1>2. TransactionInv' /\ WriterInv'
  BY DEF TransactionInv, ViewsSettled, Settled, WriterInv, Issued, Committing, Writer
<1>3. RegistryInv'
  BY <1>1, SameRegistry
<1>4. CleanUpInv'
  BY CleanPrimaryJournalInv
<1> QED
  BY <1>1, <1>2, <1>3, <1>4

LEMMA DeletionCommitsInv ==
  ASSUME IInv, NEW d \in Database, Ready, Unopened(d), DeletionCommits(d), TypeOK'
  PROVE  IInv'
<1> USE DEF IInv, txns
<1>1. /\ Ready /\ Unopened(d)
      /\ databases' = databases \ {d}
      /\ entry' = [r \in Record |-> IF r[1] = d THEN NoBlob ELSE entry[r]]
      /\ primary' \subseteq primary \cup {AllBlobs(d)} /\ primary \subseteq primary'
      /\ live' \subseteq live \cup {AllBlobs(d)} /\ live \subseteq live'
      /\ deletedDbs' \subseteq deletedDbs \cup {d}
      /\ UsedIn(d, used) # {} => primary' = primary /\ UNCHANGED cleanup
      /\ UsedIn(d, used) = {} => CleanPrimaryJournal(primary', timer)
      /\ UNCHANGED <<nextKey, file, store, opened, txns, used, deleted, stale, io,
                     pages, abandoned>>
  BY DEF DeletionCommits
<1>2. /\ AllBlobs(d) \notin Key /\ AllBlobs(d)[2] = kAllBlobsKey /\ AllBlobs(d)[1] = d
      /\ \A c \in Database : AllBlobs(c) = AllBlobs(d) => c = d
      /\ nextKey[d] \in Nat /\ 2 <= nextKey[d]
  BY KeyFacts DEF AllBlobs, kFirstBlobKey, TypeOK
<1>3. \A k \in Key : Settled(k)' <=> Settled(k)
  BY <1>1 DEF Settled, Issued
<1>4. NamedInv'
  <2> SUFFICES ASSUME NEW r \in Record, entry'[r] # NoBlob
               PROVE  /\ entry'[r][1] = r[1] /\ r[1] \in databases'
                      /\ Settled(entry[r])' /\ file'[entry'[r]] = "whole"
                      /\ entry'[r] \notin primary' \cup live'
                      /\ \A q \in Record : entry'[r] = entry'[q] => r = q
    BY DEF NamedInv
  <2>1. r[1] # d /\ entry'[r] = entry[r] /\ entry[r] \in Key
    BY <1>1 DEF TypeOK, Blob
  <2>2. Settled(entry[r])'
    BY <1>1, <2>1 DEF NamedInv, Settled, Issued
  <2> QED
    BY <1>1, <1>2, <2>1, <2>2 DEF NamedInv
<1>5. DatabaseInv'
  BY <1>1, <1>2 DEF DatabaseInv, TypeOK, kAllBlobsKey
<1>6. TransactionInv'
  <2>1. \A t \in Txn : \A r \in scope[t] : r[1] # d /\ r \in Record
    BY <1>1 DEF Unopened, Running, TransactionInv, TypeOK
  <2>2. ViewsSettled'
    BY <1>1 DEF TransactionInv, ViewsSettled, Settled, Issued
  <2> QED
    BY <1>1, <2>1, <2>2 DEF TransactionInv, Writer
<1>7. WriterInv'
  <2>1. \A t \in Txn, r \in Record : fresh[t][r] # NoBlob => fresh[t][r] \in primary' \ live'
    BY <1>1, <1>2 DEF WriterInv, TypeOK, Blob
  <2> QED
    BY <1>1, <2>1 DEF WriterInv, Issued, Committing
<1>8. IOInv'
  BY <1>1 DEF IOInv, Issued
<1>9. RegistryInv'
  <2>1. \A k \in live : k[2] # kAllBlobsKey => k \in Key
    BY KeyFacts DEF TypeOK, kAllBlobsKey, AllBlobs
  <2>2. \A k \in used \ stale : k \notin primary' /\ AllBlobs(k[1]) \notin primary'
    <3> SUFFICES ASSUME NEW k \in used \ stale
                 PROVE  k \notin primary' /\ AllBlobs(k[1]) \notin primary'
      OBVIOUS
    <3>1. k \in Key /\ k[1] \in Database
      BY KeyFacts DEF TypeOK
    <3>2. CASE k[1] = d
      <4>1. primary' = primary
        BY <1>1, <3>2 DEF UsedIn
      <4> QED
        BY <4>1 DEF RegistryInv
    <3>3. CASE k[1] # d
      BY <1>1, <1>2, <3>1, <3>3 DEF RegistryInv
    <3> QED
      BY <3>2, <3>3
  <2> QED
    BY <1>1, <1>2, <1>3, <2>1, <2>2 DEF RegistryInv, TypeOK, Ready
<1>10. CleanUpInv'
  <2>1. CASE UsedIn(d, used) # {}
    <3>1. cleaning = "no" /\ doomed = {} /\ keep = {} /\ store # "opening"
      BY <1>1 DEF Ready, CleanUpInv
    <3> QED
      BY <1>1, <2>1, <3>1 DEF CleanUpInv, cleanup
  <2>2. CASE UsedIn(d, used) = {}
    BY <1>1, <2>2, CleanPrimaryJournalInv
  <2> QED
    BY <2>1, <2>2
<1> QED
  BY <1>4, <1>5, <1>6, <1>7, <1>8, <1>9, <1>10

\* Answers and shared files come and go without the store.
LEMMA PagesInv ==
  ASSUME IInv, TypeOK',
         UNCHANGED <<leveldb, file, process, cleanup, txns, registry, io, abandoned>>
  PROVE  IInv'
<1> USE DEF IInv, leveldb, process, cleanup, txns, registry
<1>1. NamedInv' /\ DatabaseInv' /\ IOInv' /\ \A k \in Key : Settled(k)' <=> Settled(k)
  BY SameFiles
<1>2. TransactionInv' /\ WriterInv'
  BY DEF TransactionInv, ViewsSettled, Settled, WriterInv, Issued, Committing, Writer
<1>3. RegistryInv'
  BY <1>1, SameRegistry
<1>4. CleanUpInv'
  BY DEF CleanUpInv, Removed
<1> QED
  BY <1>1, <1>2, <1>3, <1>4

LEMMA ReleaseBlobRefInv ==
  ASSUME IInv, NEW k \in Key, ReleaseBlobRef(k), TypeOK'
  PROVE  IInv'
<1> USE DEF IInv
<1>1. /\ Ready
      /\ UNCHANGED <<databases, entry, nextKey, file, store, opened, cleanup, txns,
                     io, sent, shared, abandoned>>
      /\ \/ UNCHANGED <<registry, timer, primary, live>>
         \/ /\ k \in used
            /\ used' = used \ {k} /\ stale' = stale \ {k} /\ deletedDbs' \subseteq deletedDbs
            /\ \/ ReportBlobUnused(Unused(k))
               \/ UNCHANGED <<primary, live>>
  BY DEF ReleaseBlobRef
\* What goes to the primary journal: the key, which no record has, or all of
\* a database that is gone and that no other key in use belongs to.
<1>2. /\ live' \subseteq live
      /\ primary \subseteq primary'
      /\ \A e \in primary' \ primary :
           \/ e = k /\ k \in live /\ used' = used \ {k}
           \/ /\ e = AllBlobs(k[1]) /\ k[1] \in deletedDbs /\ used' = used \ {k}
              /\ UsedIn(k[1], used) \subseteq {k}
  <2>1. k # AllBlobs(k[1])
    BY KeyFacts
  <2>2. \A e \in Unused(k) : \/ e = k
                             \/ e = AllBlobs(k[1]) /\ k[1] \in deletedDbs /\ UsedIn(k[1], used) \subseteq {k}
    BY DEF Unused
  <2> QED
    BY <1>1, <2>1, <2>2 DEF ReportBlobUnused
<1>3. /\ k[1] \in Database /\ AllBlobs(k[1]) \notin Key /\ AllBlobs(k[1]) \in Entry
      /\ AllBlobs(k[1])[1] = k[1] /\ AllBlobs(k[1])[2] = kAllBlobsKey
      /\ \A c \in Database : AllBlobs(c) \notin Key
      /\ \A c \in Database : AllBlobs(c) = AllBlobs(k[1]) => c = k[1]
      /\ nextKey[k[1]] \in Nat /\ 2 <= nextKey[k[1]]
  BY KeyFacts DEF TypeOK, kFirstBlobKey, AllBlobs
<1>4. \A j \in Key : Settled(j)' <=> Settled(j)
  BY <1>1 DEF Settled, Issued, txns
<1>5. NamedInv'
  <2>1. ASSUME NEW r \in Record, entry[r] # NoBlob
        PROVE  entry[r] \in Key /\ entry[r] \notin primary' \cup live'
    <3>1. entry[r] \in Key
      BY <2>1 DEF TypeOK, Blob
    <3>2. entry[r] \notin primary /\ entry[r] \notin live
      BY <2>1 DEF NamedInv
    <3> QED
      BY <1>2, <1>3, <3>1, <3>2
  <2>2. \A r \in Record : entry[r] # NoBlob => Settled(entry[r])'
    BY <1>1, <2>1 DEF NamedInv, Settled, Issued, txns
  <2> QED
    BY <1>1, <2>1, <2>2 DEF NamedInv, Settled, Issued
<1>6. DatabaseInv'
  <2>1. ASSUME NEW d \in databases PROVE AllBlobs(d) \notin primary'
    <3>1. d \in Database /\ AllBlobs(d) \notin primary /\ d \notin deletedDbs
      BY DEF DatabaseInv, TypeOK
    <3>2. AllBlobs(d) # k
      BY <1>3, <3>1
    <3> QED
      BY <1>2, <1>3, <3>1, <3>2
  <2>2. \A e \in primary' \cup live' : e[2] < nextKey[e[1]]
    BY <1>2, <1>3 DEF DatabaseInv, kAllBlobsKey
  <2>3. deletedDbs' \subseteq deletedDbs
    BY <1>1 DEF registry
  <2> QED
    BY <1>1, <1>2, <2>1, <2>2, <2>3 DEF DatabaseInv
<1>7. TransactionInv'
  BY <1>1 DEF TransactionInv, ViewsSettled, Settled, Issued, Writer, txns
<1>8. WriterInv'
  <2>1. \A t \in Txn, r \in Record : fresh[t][r] # NoBlob => fresh[t][r] \in primary' \ live'
    BY <1>2 DEF WriterInv
  <2> QED
    BY <1>1, <2>1 DEF WriterInv, Issued, Committing, txns
<1>9. IOInv'
  BY <1>1 DEF IOInv, Issued, txns
<1>10. RegistryInv'
  <2>1. used' \subseteq used /\ used' \ stale' \subseteq used \ stale
    BY <1>1 DEF registry
  <2>2. \A j \in live : j[2] # kAllBlobsKey => j \in Key
    BY KeyFacts DEF TypeOK, kAllBlobsKey, AllBlobs
  <2>3. ASSUME NEW j \in used' \ stale'
        PROVE  j \notin primary' /\ AllBlobs(j[1]) \notin primary'
    <3>1. j \in Key /\ j[1] \in Database /\ j \notin primary /\ AllBlobs(j[1]) \notin primary
      BY <2>1, KeyFacts DEF RegistryInv, TypeOK
    <3>2. j \notin primary'
      BY <1>2, <1>3, <3>1
    <3>3. ASSUME AllBlobs(j[1]) \in primary' PROVE FALSE
      <4>1. j \in used /\ j[1] = k[1] /\ UsedIn(k[1], used) \subseteq {k} /\ used' = used \ {k}
        BY <1>2, <1>3, <2>1, <3>1, <3>3
      <4>2. j # k
        BY <2>3, <4>1
      <4> QED
        BY <4>1, <4>2 DEF UsedIn
    <3> QED
      BY <3>2, <3>3
  <2> QED
    BY <1>1, <1>2, <1>4, <2>1, <2>2, <2>3 DEF RegistryInv, TypeOK, Ready
<1>11. CleanUpInv'
  BY <1>1 DEF CleanUpInv, Ready, cleanup, txns
<1> QED
  BY <1>5, <1>6, <1>7, <1>8, <1>9, <1>10, <1>11

LEMMA NextInv == ASSUME "deleteDatabase" \notin Faults, IInv, [Next]_vars PROVE IInv'
<1>1. CASE Next
  <2>1. TypeOK'
    BY <1>1, NextType DEF IInv
  <2>2. CASE OpenStore
    BY <2>1, <2>2, OpenStoreInv
  <2>3. CASE CloseStore
    BY <2>1, <2>3, ShutDownInv DEF CloseStore
  <2>4. CASE Crash
    BY <2>1, <2>4, CrashInv
  <2>5. ASSUME NEW t \in Txn, TransactionStep(t) PROVE IInv'
    <3>1. ASSUME NEW d \in Database, NEW S \in SUBSET Slot, NEW w \in BOOLEAN, Begin(t, d, S, w)
          PROVE  IInv'
      BY <2>1, <3>1, BeginInv
    <3>2. ASSUME NEW r \in Record, Read(t, r) PROVE IInv'
      BY <2>1, <3>2, ReadInv
    <3>3. ASSUME NEW r \in Record, NEW what \in {"put", "gone"}, Write(t, r, what) PROVE IInv'
      BY <2>1, <3>3, WriteInv
    <3>4. ASSUME NEW d \in Database, CommitPhaseOne(t, d) PROVE IInv'
      BY <2>1, <3>4, CommitPhaseOneInv
    <3>5. ASSUME NEW k \in Key, WriteNextFile(t, k) PROVE IInv'
      BY <2>1, <3>5, WriteNextFileInv
    <3>6. CASE CommitPhaseOneFails(t) \/ CommitPhaseTwoFails(t)
      BY <2>1, <3>6, ShutDownInv DEF CommitPhaseOneFails, CommitPhaseTwoFails
    <3>7. CASE CommitPhaseTwo(t)
      BY <2>1, <3>7, CommitPhaseTwoInv
    <3>8. CASE Abort(t) \/ WriteFailed(t)
      BY <2>1, <3>8, RollBackInv DEF Abort, WriteFailed
    <3> QED
      BY <2>5, <3>1, <3>2, <3>3, <3>4, <3>5, <3>6, <3>7, <3>8 DEF TransactionStep
  <2>6. CASE CleanUpStep
    <3>1. ASSUME NEW e \in Entry, RemoveFile(e) \/ RemoveFails(e) PROVE IInv'
      BY <2>1, <3>1, RemoveFileInv, RemoveFailsInv
    <3>2. CASE EndCleanUp \/ EndCleanUpFails \/ TimerFires
      BY <2>1, <3>2, EndCleanUpInv, EndCleanUpFailsInv, TimerFiresInv
    <3> QED
      BY <2>6, <3>1, <3>2 DEF CleanUpStep
  <2>7. ASSUME NEW d \in Database, DeleteDatabase(d) PROVE IInv'
    BY <2>1, <2>7, DeletionCommitsInv DEF DeleteDatabase, DeletionRefused
  <2>8. ASSUME NEW k \in Key, BlobStep(k) PROVE IInv'
    <3>1. ASSUME NEW result \in FileState, WriteBlobToFile(k, result) PROVE IInv'
      BY <2>1, <3>1, WriteBlobToFileInv
    <3>2. CASE CreateBlobData(k) \/ DropAnswer(k) \/ FinalRelease(k)
      BY <2>1, <3>2, PagesInv DEF CreateBlobData, DropAnswer, FinalRelease
    <3>3. CASE ReleaseBlobRef(k)
      BY <2>1, <3>3, ReleaseBlobRefInv
    <3> QED
      BY <2>8, <3>1, <3>2, <3>3 DEF BlobStep
  <2> QED
    BY <1>1, <2>2, <2>3, <2>4, <2>5, <2>6, <2>7, <2>8 DEF Next
<1>2. CASE UNCHANGED vars
  <2>1. TypeOK'
    BY <1>2 DEF IInv, TypeOK, vars, leveldb, process, cleanup, txns, registry, pages
  <2> QED
    BY <1>2, <2>1, PagesInv DEF vars, pages
<1> QED
  BY <1>1, <1>2

(***************************************************************************)
(* The variables keep their types, whatever fails: the journals hold only  *)
(* entries of the origin, and only keys in use are marked as deleted.      *)
(***************************************************************************)
THEOREM TypeCorrect == Spec => []TypeOK
<1>1. Init => TypeOK
  BY InitType
<1>2. TypeOK /\ [Next]_vars => TypeOK'
  <2>1. ASSUME TypeOK, UNCHANGED vars PROVE TypeOK'
    BY <2>1 DEF TypeOK, vars, leveldb, process, cleanup, txns, registry, pages
  <2> QED
    BY <2>1, NextType
<1> QED
  BY <1>1, <1>2, PTL DEF Spec

(***************************************************************************)
(* Every key has an owner: a record, a snapshot, a running commit, a page, *)
(* or a journal that is about to have its file deleted.                    *)
(***************************************************************************)
THEOREM Invariance == ASSUME "deleteDatabase" \notin Faults PROVE Spec => []IInv
<1>1. IInv /\ [Next]_vars => IInv'
  BY NextInv
<1> QED
  BY <1>1, InitInv, PTL DEF Spec

(***************************************************************************)
(* The blob of a record is whole on disk through every commit, clean-up,   *)
(* failure and crash: CommitPhaseTwo takes a file out of the primary       *)
(* journal in the LevelDB commit that puts it in a record, and no clean-up *)
(* deletes what a record has.                                              *)
(***************************************************************************)
THEOREM NamedFilesWholeHolds ==
  ASSUME "deleteDatabase" \notin Faults PROVE Spec => []NamedFilesWhole
<1>1. IInv => NamedFilesWhole
  BY DEF IInv, NamedInv, NamedFilesWhole, Named
<1> QED
  BY <1>1, Invariance, PTL

(***************************************************************************)
(* PartitionBlobsToRemove, the deletion of a database and ReleaseBlobRef   *)
(* leave the files of blobs that the registry counts alone.                *)
(***************************************************************************)
THEOREM RegisteredFilesStayHolds ==
  ASSUME "deleteDatabase" \notin Faults PROVE Spec => []RegisteredFilesStay
<1>1. IInv => RegisteredFilesStay
  BY DEF IInv, RegistryInv, RegisteredFilesStay
<1> QED
  BY <1>1, Invariance, PTL

\* Nothing that accounts for a file goes but for another that does.
LEMMA StillAccounted ==
  ASSUME FilesAreAccountedFor, abandoned \subseteq abandoned',
         \A k \in Key : file'[k] # "none" => file[k] # "none",
         primary \cup live \subseteq primary' \cup live', UNCHANGED entry
  PROVE  FilesAreAccountedFor'
BY DEF FilesAreAccountedFor, Named

LEMMA WrittenFilesAccounted ==
  ASSUME IInv, NEW k \in io PROVE k \in abandoned \cup primary
<1>1. CASE \E t \in Txn, r \in Record : fresh[t][r] = k
  BY <1>1, WrittenFile, KeyFacts DEF IInv, WriterInv
<1> QED
  BY <1>1, WrittenFile

LEMMA AccountedStep ==
  ASSUME IInv, Next, FilesAreAccountedFor PROVE FilesAreAccountedFor'
<1>1. CASE OpenStore
  BY <1>1, StillAccounted DEF OpenStore, leveldb
<1>2. ASSUME ShutDown, UNCHANGED leveldb, \A k \in Key : file'[k] # "none" => file[k] # "none"
      PROVE  FilesAreAccountedFor'
  BY <1>2, StillAccounted DEF ShutDown, RollBack, leveldb
<1>3. CASE CloseStore
  BY <1>2, <1>3 DEF CloseStore
<1>4. CASE Crash
  BY <1>4, WrittenFilesAccounted DEF Crash, FilesAreAccountedFor, Named, leveldb
<1>5. ASSUME NEW t \in Txn, TransactionStep(t) PROVE FilesAreAccountedFor'
  <2>1. ASSUME NEW d \in Database, NEW S \in SUBSET Slot, NEW w \in BOOLEAN, Begin(t, d, S, w)
        PROVE  FilesAreAccountedFor'
    BY <2>1, StillAccounted DEF Begin, leveldb
  <2>2. ASSUME NEW r \in Record, Read(t, r) \/ Write(t, r, "put") \/ Write(t, r, "gone")
        PROVE  FilesAreAccountedFor'
    BY <2>2, StillAccounted DEF Read, Write, leveldb
  <2>3. ASSUME NEW d \in Database, CommitPhaseOne(t, d) PROVE FilesAreAccountedFor'
    BY <2>3, CommitPhaseOneFacts, StillAccounted DEF CommitPhaseOne, IInv
  <2>4. ASSUME NEW k \in Key, WriteNextFile(t, k) PROVE FilesAreAccountedFor'
    BY <2>4, StillAccounted DEF WriteNextFile, leveldb
  <2>5. CASE CommitPhaseOneFails(t) \/ CommitPhaseTwoFails(t)
    BY <1>2, <2>5 DEF CommitPhaseOneFails, CommitPhaseTwoFails
  <2>6. CASE Abort(t) \/ WriteFailed(t)
    BY <2>6, StillAccounted DEF Abort, WriteFailed, RollBack, leveldb
  <2>7. CASE CommitPhaseTwo(t)
    <3> SUFFICES ASSUME NEW k \in Key, file'[k] # "none"
                 PROVE  \/ k \in Named' \/ k \in abandoned'
                        \/ k \in primary' \cup live' \/ AllBlobs(k[1]) \in primary' \cup live'
      BY DEF FilesAreAccountedFor
    <3> DEFINE mine == {fresh[t][r] : r \in Put(t)}
    <3>1. /\ entry' = [r \in Record |-> IF change[t][r] = "same" THEN entry[r] ELSE fresh[t][r]]
          /\ BlobsToRemove(t) \cup (primary \ mine) \cup live \subseteq primary' \cup live'
          /\ UNCHANGED <<file, abandoned>>
      BY <2>7 DEF CommitPhaseTwo, SavedPrimaryJournal, DeadBlobs
    <3>2. k # NoBlob /\ AllBlobs(k[1]) \notin Key
      BY KeyFacts
    <3>3. ASSUME NEW r \in Record, entry[r] = k PROVE k \in Named' \cup primary' \cup live'
      <4>1. CASE change[t][r] = "same"
        BY <3>1, <3>2, <3>3, <4>1 DEF Named
      <4>2. CASE change[t][r] # "same"
        BY <3>1, <3>2, <3>3, <4>2, RemovedBlobs
      <4> QED
        BY <4>1, <4>2
    <3>4. ASSUME k \in mine PROVE k \in Named'
      <4>1. PICK r \in Put(t) : fresh[t][r] = k
        BY <3>4
      <4> QED
        BY <3>1, <3>2, <4>1 DEF Named, Put
    <3>5. AllBlobs(k[1]) \notin mine
      <4>1. \A r \in Record : fresh[t][r] \in Key \cup {NoBlob}
        BY DEF IInv, TypeOK, Blob
      <4>2. AllBlobs(k[1]) # NoBlob
        BY KeyFacts, BlobAssumption
      <4> QED
        BY <3>2, <4>1, <4>2 DEF Put
    <3> QED
      BY <3>1, <3>2, <3>3, <3>4, <3>5 DEF FilesAreAccountedFor, Named
  <2> QED
    BY <1>5, <2>1, <2>2, <2>3, <2>4, <2>5, <2>6, <2>7 DEF TransactionStep
<1>6. CASE CleanUpStep
  <2>1. ASSUME NEW e \in Entry, RemoveFile(e) PROVE FilesAreAccountedFor'
    BY <2>1, StillAccounted DEF RemoveFile, leveldb
  <2>2. ASSUME CleanUpFails, UNCHANGED leveldb, \A k \in Key : file'[k] # "none" => file[k] # "none"
        PROVE  FilesAreAccountedFor'
    <3>1. CASE UNCHANGED abandoned
      BY <2>2, <3>1, StillAccounted DEF leveldb
    <3> QED
      BY <1>2, <2>2, <3>1 DEF CleanUpFails
  <2>3. ASSUME NEW e \in Entry, RemoveFails(e) PROVE FilesAreAccountedFor'
    BY <2>2, <2>3 DEF RemoveFails
  <2>4. CASE EndCleanUpFails
    BY <2>2, <2>4 DEF EndCleanUpFails
  <2>5. CASE EndCleanUp
    <3> SUFFICES ASSUME NEW k \in Key, file[k] # "none", k \notin abandoned
                 PROVE  k \in Named \/ k \in primary' \cup live' \/ AllBlobs(k[1]) \in primary' \cup live'
      BY <2>5 DEF EndCleanUp, FilesAreAccountedFor, Named
    <3>1. ASSUME NEW e \in primary \cup live, k \in FilesOf(e) PROVE e \in primary' \cup live'
      <4>1. ~Removed(e)
        BY <3>1 DEF Removed
      <4> QED
        BY <2>5, <4>1 DEF EndCleanUp, IInv, CleanUpInv, TypeOK
    <3>2. k \in FilesOf(k) /\ k \in FilesOf(AllBlobs(k[1]))
      BY DEF FilesOf
    <3> QED
      BY <3>1, <3>2 DEF FilesAreAccountedFor
  <2>6. CASE TimerFires
    BY <2>6, StillAccounted DEF TimerFires, leveldb
  <2> QED
    BY <1>6, <2>1, <2>3, <2>4, <2>5, <2>6 DEF CleanUpStep
<1>7. ASSUME NEW d \in Database, DeleteDatabase(d)
      PROVE  FilesAreAccountedFor'
  <2>1. CASE DeletionCommits(d)
    <3>1. /\ entry' = [r \in Record |-> IF r[1] = d THEN NoBlob ELSE entry[r]]
          /\ primary \cup live \cup {AllBlobs(d)} \subseteq primary' \cup live'
          /\ UNCHANGED <<file, abandoned>>
      BY <2>1 DEF DeletionCommits
    <3>2. \A r \in Record : entry[r] # NoBlob => entry[r][1] = r[1]
      BY DEF IInv, NamedInv
    <3>3. \A k \in Named : k \in Named' \/ k[1] = d
      BY <3>1, <3>2 DEF Named
    <3> QED
      BY <3>1, <3>3 DEF FilesAreAccountedFor
  <2>2. CASE DeletionRefused(d)
    BY <2>2, StillAccounted DEF DeletionRefused, leveldb
  <2> QED
    BY <1>7, <2>1, <2>2 DEF DeleteDatabase
<1>8. ASSUME NEW k \in Key, BlobStep(k) PROVE FilesAreAccountedFor'
  <2>1. ASSUME NEW result \in FileState, WriteBlobToFile(k, result) PROVE FilesAreAccountedFor'
    <3>1. \A j \in Key : j # k => file'[j] = file[j]
      BY <2>1 DEF WriteBlobToFile, IInv, TypeOK
    <3>2. k \in abandoned \cup primary
      BY <2>1, WrittenFilesAccounted DEF WriteBlobToFile
    <3> QED
      BY <2>1, <3>1, <3>2 DEF WriteBlobToFile, FilesAreAccountedFor, Named, leveldb
  <2>2. CASE CreateBlobData(k) \/ DropAnswer(k) \/ FinalRelease(k)
    BY <2>2, StillAccounted DEF CreateBlobData, DropAnswer, FinalRelease, leveldb
  <2>3. CASE ReleaseBlobRef(k)
    <3>1. CASE UNCHANGED <<primary, live>>
      BY <2>3, <3>1, StillAccounted DEF ReleaseBlobRef
    <3>2. CASE ReportBlobUnused(Unused(k))
      <4>1. Unused(k) \subseteq {k, AllBlobs(k[1])}
        BY DEF Unused
      <4>2. ASSUME NEW e \in live, e \in Key \/ (\E c \in Database : e = AllBlobs(c))
            PROVE  e \in primary' \cup live' \/ AllBlobs(e[1]) \in primary'
        BY <3>2, <4>1, <4>2, KeyFacts DEF ReportBlobUnused
      <4>3. primary \subseteq primary'
        BY <3>2 DEF ReportBlobUnused
      <4>4. UNCHANGED <<entry, file, abandoned>>
        BY <2>3 DEF ReleaseBlobRef
      <4> SUFFICES ASSUME NEW j \in Key, file[j] # "none", j \notin Named, j \notin abandoned
                   PROVE  j \in primary' \cup live' \/ AllBlobs(j[1]) \in primary' \cup live'
        BY <4>4 DEF FilesAreAccountedFor, Named
      <4>5. j[1] \in Database /\ AllBlobs(j[1])[1] = j[1]
        BY KeyFacts
      <4>6. CASE j \in live
        BY <4>2, <4>6
      <4>7. CASE AllBlobs(j[1]) \in live
        BY <4>2, <4>5, <4>7
      <4> QED
        BY <4>3, <4>6, <4>7 DEF FilesAreAccountedFor
    <3> QED
      BY <2>3, <3>1, <3>2 DEF ReleaseBlobRef
  <2> QED
    BY <1>8, <2>1, <2>2, <2>3 DEF BlobStep
<1> QED
  BY <1>1, <1>3, <1>4, <1>5, <1>6, <1>7, <1>8 DEF Next

(***************************************************************************)
(* A file belongs to a record or a journal says that it is to be deleted:  *)
(* HandleBlobPreTransaction announces it, CommitPhaseTwo hands it over,    *)
(* and CleanUpBlobJournal strikes it out after the deletion only. The file *)
(* of an aborted writer is excepted.                                       *)
(***************************************************************************)
THEOREM FilesAreAccountedForHolds ==
  ASSUME "deleteDatabase" \notin Faults PROVE Spec => []FilesAreAccountedFor
<1>1. Init => FilesAreAccountedFor
  BY DEF Init, FilesAreAccountedFor
<1>2. IInv /\ FilesAreAccountedFor /\ [Next]_vars => FilesAreAccountedFor'
  <2>1. ASSUME FilesAreAccountedFor, UNCHANGED vars PROVE FilesAreAccountedFor'
    BY <2>1, StillAccounted DEF vars, leveldb
  <2> QED
    BY <2>1, AccountedStep
<1> QED
  BY <1>1, <1>2, Invariance, PTL DEF Spec

-----------------------------------------------------------------------------
(* The refinement. *)

Spent == {k \in Key : k[2] < nextKey[k[1]]}

Changed(t) == {q \in Record : change[t][q] # "same"}

\* A step that touches neither entries nor transactions is none.
LEMMA Stutters ==
  ASSUME Content = entry, Content' = entry',
         UNCHANGED <<databases, entry, nextKey, change, fresh>>
  PROVE  UNCHANGED Abstract!vars
BY DEF Abstract!vars, Writes

\* The end of transactions without a commit forgets what they wrote.
LEMMA EndForgets ==
  ASSUME Content = entry, Content' = entry', NEW T, EndTransactions(T),
         UNCHANGED <<databases, entry, nextKey>>
  PROVE  [Abstract!Next]_(Abstract!vars)
<1>1. PICK V \in SUBSET Txn : V = T \cap Txn
  OBVIOUS
<1>2. ASSUME NEW t \in Txn
      PROVE  Writes'[t] = IF t \in V THEN Abstract!Nothing ELSE Writes[t]
  <2>1. CASE t \in V
    <3>1. Changed(t)' = {} /\ Writes'[t] = [r \in Changed(t)' |-> fresh'[t][r]]
      BY <1>1, <2>1, Ended DEF Changed, NoChange, Writes
    <3> QED
      BY <2>1, <3>1 DEF Abstract!Nothing
  <2>2. CASE t \notin V
    BY <1>1, <2>2, Ended DEF Writes
  <2> QED
    BY <2>1, <2>2
<1>3. Writes' = [t \in Txn |-> Writes'[t]]
  BY DEF Writes
<1>4. Writes' = [t \in Txn |-> IF t \in V THEN Abstract!Nothing ELSE Writes[t]]
  BY <1>2, <1>3
<1>5. Abstract!Forget(V)
  BY <1>4 DEF Abstract!Forget
<1> QED
  BY <1>5 DEF Abstract!Next

\* A change noted by an active writer, which has no keys yet.
LEMMA WriteNotes ==
  ASSUME IInv, IInv', Content = entry, Content' = entry',
         NEW t \in Txn, NEW r \in Record, NEW what \in {"put", "gone"}, Write(t, r, what)
  PROVE  [Abstract!Next]_(Abstract!vars)
<1>1. /\ phase[t] = "active" /\ UNCHANGED <<databases, entry, nextKey, fresh>>
      /\ \A u \in Txn \ {t} : change'[u] = change[u]
  BY DEF Write, leveldb, IInv, TypeOK
<1>2. \A q \in Record : fresh[t][q] = NoBlob
  BY <1>1 DEF IInv, WriterInv, Committing
<1>3. PICK W \in SUBSET Record : W = Changed(t)'
  BY DEF Changed
<1>4. Writes'[t] = [q \in W |-> NoBlob]
  <2>1. Writes'[t] = [q \in W |-> fresh'[t][q]]
    BY <1>3 DEF Writes, Changed
  <2> QED
    BY <1>1, <1>2, <2>1
<1>5. \A u \in Txn \ {t} : Writes'[u] = Writes[u]
  BY <1>1 DEF Writes
<1>6. /\ Writes' = [u \in Txn |-> Writes'[u]]
      /\ Writes = [u \in Txn |-> Writes[u]]
  BY DEF Writes
<1>7. Writes' = [Writes EXCEPT ![t] = [q \in W |-> NoBlob]]
  BY <1>4, <1>5, <1>6
<1>8. Abstract!Write(t, W)
  BY <1>1, <1>7 DEF Abstract!Write
<1> QED
  BY <1>3, <1>8 DEF Abstract!Next

\* The keys of CommitPhaseOne are new ones.
LEMMA PhaseOneReserves ==
  ASSUME IInv, IInv', Content = entry, Content' = entry',
         NEW t \in Txn, NEW d \in Database, CommitPhaseOne(t, d)
  PROVE  [Abstract!Next]_(Abstract!vars)
<1>1. /\ \A c \in Database : nextKey'[c] \in Nat /\ nextKey[c] \in Nat /\ nextKey[c] <= nextKey'[c]
      /\ UNCHANGED <<databases, entry, change>>
  BY CommitPhaseOneFacts DEF CommitPhaseOne, IInv
<1>2. PICK new \in [Put(t) -> Key] :
        /\ \A r, q \in Put(t) : new[r] = new[q] => r = q
        /\ \A r \in Put(t) : new[r][1] = d /\ nextKey[d] <= new[r][2] /\ new[r][2] < nextKey'[d]
        /\ fresh' = [fresh EXCEPT ![t] =
             [r \in Record |-> IF r \in Put(t) THEN new[r] ELSE NoBlob]]
  BY CommitPhaseOneFacts DEF IInv
<1>3. Spent \subseteq Spent' /\ \A k \in Key : k[2] \in Nat
  BY <1>1, KeyFacts DEF Spent
<1>4. PICK K \in SUBSET Key : K = Spent' \ Spent
  BY DEF Spent
<1>5. \A r \in Put(t) : new[r] \in K
  BY <1>1, <1>2, <1>3, <1>4 DEF Spent
<1>6. Put(t) \subseteq Changed(t)
  BY DEF Put, Changed
<1>7. /\ Writes'[t] = [r \in Changed(t) |-> fresh'[t][r]]
      /\ DOMAIN Writes[t] = Changed(t)
  BY <1>1 DEF Writes, Changed
<1>8. \A r \in Changed(t) : fresh'[t][r] = IF r \in Put(t) THEN new[r] ELSE NoBlob
  BY <1>2 DEF Changed, IInv, TypeOK
<1>9. Writes'[t] \in [DOMAIN Writes[t] -> K \cup {NoBlob}]
  BY <1>5, <1>7, <1>8
<1>10. \A r, q \in DOMAIN Writes'[t] :
         Writes'[t][r] = Writes'[t][q] => r = q \/ Writes'[t][r] = NoBlob
  BY <1>2, <1>7, <1>8
<1>11. \A u \in Txn \ {t} : Writes'[u] = Writes[u]
  BY <1>1, <1>2 DEF Writes
<1>12. /\ Writes' = [u \in Txn |-> Writes'[u]]
       /\ Writes = [u \in Txn |-> Writes[u]]
  BY DEF Writes
<1>13. Writes' = [Writes EXCEPT ![t] = Writes'[t]]
  BY <1>11, <1>12
<1>14. Abstract!Reserve(t, K)
  BY <1>1, <1>3, <1>4, <1>9, <1>10, <1>13 DEF Abstract!Reserve, Spent
<1> QED
  BY <1>4, <1>14 DEF Abstract!Next

LEMMA ContentIsEntry == IInv => Content = entry
<1> SUFFICES ASSUME IInv PROVE Content = entry
  OBVIOUS
<1>1. \A r \in Record : entry[r] # NoBlob => file[entry[r]] = "whole"
  BY DEF IInv, NamedInv
<1>2. entry = [r \in Record |-> entry[r]]
  BY DEF IInv, TypeOK
<1>3. Content = [r \in Record |-> entry[r]]
  BY <1>1 DEF Content
<1> QED
  BY <1>2, <1>3

LEMMA PhaseTwoCommits ==
  ASSUME IInv, IInv', Content = entry, Content' = entry',
         NEW t \in Txn, CommitPhaseTwo(t)
  PROVE  [Abstract!Next]_(Abstract!vars)
<1>1. /\ UNCHANGED <<databases, nextKey>>
      /\ entry' = [r \in Record |-> IF change[t][r] = "same" THEN entry[r] ELSE fresh[t][r]]
      /\ EndTransactions({t})
  BY DEF CommitPhaseTwo
<1>2. DOMAIN Writes[t] = Changed(t) /\ \A r \in Changed(t) : Writes[t][r] = fresh[t][r]
  BY DEF Writes, Changed
<1>3. \A r \in DOMAIN Writes[t] : DatabaseOfRecord(r) \in databases
  BY <1>2 DEF Changed, DatabaseOfRecord, IInv, TransactionInv
<1>4. Content' = [r \in Record |-> IF r \in DOMAIN Writes[t] THEN Writes[t][r] ELSE Content[r]]
  BY <1>1, <1>2 DEF Changed
<1>5. Writes'[t] = Abstract!Nothing
  <2>1. Changed(t)' = {} /\ Writes'[t] = [r \in Changed(t)' |-> fresh'[t][r]]
    BY <1>1, Ended DEF Changed, NoChange, Writes
  <2> QED
    BY <2>1 DEF Abstract!Nothing
<1>6. \A u \in Txn \ {t} : Writes'[u] = Writes[u]
  BY <1>1, Ended DEF Writes
<1>7. /\ Writes' = [u \in Txn |-> Writes'[u]]
      /\ Writes = [u \in Txn |-> Writes[u]]
  BY DEF Writes
<1>8. Writes' = [Writes EXCEPT ![t] = Abstract!Nothing]
  BY <1>5, <1>6, <1>7
<1>9. Abstract!Commit(t)
  BY <1>1, <1>3, <1>4, <1>8 DEF Abstract!Commit
<1> QED
  BY <1>9 DEF Abstract!Next

LEMMA DeletionDeletes ==
  ASSUME IInv, Content = entry, Content' = entry',
         NEW d \in Database, Unopened(d), DeletionCommits(d)
  PROVE  [Abstract!Next]_(Abstract!vars)
<1>1. /\ databases' = databases \ {d}
      /\ entry' = [r \in Record |-> IF r[1] = d THEN NoBlob ELSE entry[r]]
      /\ UNCHANGED <<nextKey, change, fresh>>
  BY DEF DeletionCommits, txns
<1>2. \A t \in Txn : \A r \in DOMAIN Writes[t] : r[1] # d
  BY DEF Unopened, Running, Writes, IInv, TransactionInv, Writer
<1>3. Writes' = Writes
  BY <1>1 DEF Writes
<1>4. Abstract!Delete(d)
  BY <1>1, <1>2, <1>3 DEF Abstract!Delete, DatabaseOfRecord
<1> QED
  BY <1>4 DEF Abstract!Next

(***************************************************************************)
(* The store, its journals and its writers implement AtomicBlobs: whatever *)
(* step the process dies at, a reader finds the blobs of all of a          *)
(* transaction or of none of it.                                           *)
(***************************************************************************)
THEOREM StoreImplementsAtomicBlobs ==
  ASSUME "deleteDatabase" \notin Faults PROVE Spec => ImplementsAtomicBlobs
<1>1. Init => Abstract!Init
  <2> SUFFICES ASSUME Init PROVE Abstract!Init
    OBVIOUS
  <2>1. Content = [r \in Record |-> NoBlob]
    BY DEF Init, NoBlobs, Content
  <2>2. Spent = {}
    BY KeyFacts DEF Init, Spent, kFirstBlobKey
  <2>3. ASSUME NEW t \in Txn PROVE Writes[t] = Abstract!Nothing
    <3>1. Changed(t) = {} /\ Writes[t] = [r \in Changed(t) |-> fresh[t][r]]
      BY DEF Init, Changed, NoChange, Writes
    <3> QED
      BY <3>1 DEF Abstract!Nothing
  <2>4. Writes = [t \in Txn |-> Writes[t]]
    BY DEF Writes
  <2> QED
    BY <2>1, <2>2, <2>3, <2>4 DEF Abstract!Init, Init, Spent
<1>0. IInv' => (Content = entry)'
  BY ContentIsEntry, PTL
<1>2. IInv /\ IInv' /\ [Next]_vars => [Abstract!Next]_(Abstract!vars)
  <2> SUFFICES ASSUME IInv, IInv', [Next]_vars PROVE [Abstract!Next]_(Abstract!vars)
    OBVIOUS
  <2>1. Content = entry /\ Content' = entry'
    BY <1>0, ContentIsEntry
  <2>2. CASE UNCHANGED <<databases, entry, nextKey, change, fresh>>
    BY <2>1, <2>2, Stutters
  <2>3. ASSUME NEW T, EndTransactions(T), UNCHANGED <<databases, entry, nextKey>>
        PROVE  [Abstract!Next]_(Abstract!vars)
    BY <2>1, <2>3, EndForgets
  <2>4. CASE ShutDown /\ UNCHANGED <<databases, entry, nextKey>>
    BY <2>3, <2>4 DEF ShutDown, RollBack
  <2>5. ASSUME NEW t \in Txn, TransactionStep(t) PROVE [Abstract!Next]_(Abstract!vars)
    <3>1. ASSUME NEW d \in Database, NEW S \in SUBSET Slot, NEW w \in BOOLEAN, Begin(t, d, S, w)
          PROVE  [Abstract!Next]_(Abstract!vars)
      BY <2>2, <3>1 DEF Begin, leveldb
    <3>2. ASSUME NEW r \in Record, Read(t, r) PROVE [Abstract!Next]_(Abstract!vars)
      BY <2>2, <3>2 DEF Read, leveldb, txns
    <3>3. ASSUME NEW r \in Record, NEW what \in {"put", "gone"}, Write(t, r, what)
          PROVE  [Abstract!Next]_(Abstract!vars)
      BY <2>1, <3>3, WriteNotes
    <3>4. ASSUME NEW d \in Database, CommitPhaseOne(t, d) PROVE [Abstract!Next]_(Abstract!vars)
      BY <2>1, <3>4, PhaseOneReserves
    <3>5. ASSUME NEW k \in Key, WriteNextFile(t, k) PROVE [Abstract!Next]_(Abstract!vars)
      BY <2>2, <3>5 DEF WriteNextFile, leveldb
    <3>6. CASE CommitPhaseTwo(t)
      BY <2>1, <3>6, PhaseTwoCommits
    <3>7. CASE CommitPhaseOneFails(t) \/ CommitPhaseTwoFails(t)
      BY <2>4, <3>7 DEF CommitPhaseOneFails, CommitPhaseTwoFails, leveldb
    <3>8. CASE Abort(t) \/ WriteFailed(t)
      BY <2>3, <3>8 DEF Abort, WriteFailed, RollBack, leveldb
    <3> QED
      BY <2>5, <3>1, <3>2, <3>3, <3>4, <3>5, <3>6, <3>7, <3>8 DEF TransactionStep
  <2>6. CASE CleanUpStep
    <3>1. ASSUME NEW e \in Entry, RemoveFile(e) PROVE [Abstract!Next]_(Abstract!vars)
      BY <2>2, <3>1 DEF RemoveFile, leveldb, txns
    <3>2. ASSUME NEW e \in Entry, RemoveFails(e) PROVE [Abstract!Next]_(Abstract!vars)
      BY <2>2, <2>4, <3>2 DEF RemoveFails, CleanUpFails, leveldb, txns
    <3>3. CASE EndCleanUp
      BY <2>2, <3>3 DEF EndCleanUp, txns
    <3>4. CASE EndCleanUpFails
      BY <2>2, <2>4, <3>4 DEF EndCleanUpFails, CleanUpFails, leveldb, txns
    <3>5. CASE TimerFires
      BY <2>2, <3>5 DEF TimerFires, leveldb, txns
    <3> QED
      BY <2>6, <3>1, <3>2, <3>3, <3>4, <3>5 DEF CleanUpStep
  <2>7. ASSUME NEW d \in Database, DeleteDatabase(d) PROVE [Abstract!Next]_(Abstract!vars)
    <3>1. CASE DeletionCommits(d)
      BY <2>1, <2>7, <3>1, DeletionDeletes DEF DeleteDatabase
    <3>2. CASE DeletionRefused(d)
      BY <2>2, <3>2 DEF DeletionRefused, leveldb, txns
    <3> QED
      BY <2>7, <3>1, <3>2 DEF DeleteDatabase
  <2>8. ASSUME NEW k \in Key, BlobStep(k) PROVE [Abstract!Next]_(Abstract!vars)
    <3>1. UNCHANGED <<databases, entry, nextKey, change, fresh>>
      BY <2>8 DEF BlobStep, WriteBlobToFile, CreateBlobData, DropAnswer, FinalRelease,
         ReleaseBlobRef, leveldb, txns
    <3> QED
      BY <2>2, <3>1
  <2>9. CASE OpenStore
    BY <2>2, <2>9 DEF OpenStore, leveldb, txns
  <2>10. CASE CloseStore
    BY <2>4, <2>10 DEF CloseStore, leveldb
  <2>11. CASE Crash
    BY <2>3, <2>11 DEF Crash, leveldb
  <2>12. CASE UNCHANGED vars
    BY <2>2, <2>12 DEF vars, leveldb, txns
  <2> QED
    BY <2>5, <2>6, <2>7, <2>8, <2>9, <2>10, <2>11, <2>12 DEF Next
<1> QED
  BY <1>1, <1>2, Invariance, PTL DEF Spec, ImplementsAtomicBlobs, Abstract!Spec
=============================================================================
