------------------------ MODULE IndexedDBTransactions ------------------------
(***************************************************************************)
(* The transactions of one open IndexedDB database: IndexedDBTransaction,  *)
(* the IndexedDBTransactionCoordinator that decides which of them run, and *)
(* the calls of the front end that reach them (IDBSequenceHelper).         *)
(*                                                                         *)
(* All of it runs on one sequence, so that every action below is one task  *)
(* of that sequence, with every call it makes: a transaction that ends     *)
(* leaves the coordinator, which starts others.  Nothing calls back into   *)
(* the sequence; what is asynchronous are the closures it posts to itself, *)
(* the inactivity timer, the quota check before a commit and the writing   *)
(* of blobs.  Version-change transactions are not here: the connection     *)
(* requests of IndexedDBDatabase keep them from meeting any other.         *)
(*                                                                         *)
(* Data: a writer's changes are the writer itself, the database is the set *)
(* of the writers whose changes LevelDB has made durable, and a snapshot   *)
(* is the value of that set when it was taken.                             *)
(***************************************************************************)
EXTENDS Integers, FiniteSets, Sequences

CONSTANTS
  MaxTransactions,          \* bound: transactions ever created
  Store,                    \* the object stores
  kMaxStartedTransactions,  \* 10 in the code
  MaxTasks,                 \* bound: requests a page makes in one transaction
  Incognito                 \* TRUE: the context has no data path

ASSUME ConstantsAssumption ==
  /\ MaxTransactions \in Nat
  /\ kMaxStartedTransactions \in Nat \ {0}
  /\ MaxTasks \in Nat
  /\ Incognito \in BOOLEAN

(***************************************************************************)
(* Transactions are numbered in the order of their creation, which is the  *)
(* order of queued_transactions_: a list_set grows at its end.             *)
(***************************************************************************)
Txn == 1..MaxTransactions

VARIABLES
  mode,          \* "readonly", "readwrite"; "observer" is a read-only one made by SendObservations
  scope,         \* object_store_ids_
  next,          \* the transaction created next
  queued,        \* queued_transactions_
  started,       \* started_transactions_
  state,         \* state_; "none" before creation, "deleted" once removed from its connection
  used,          \* those with used_
  commitPending, \* those with commit_pending_
  scheduled,     \* diagnostics_.tasks_scheduled
  tasks,         \* how many operations task_queue_ holds
  runPosted,     \* a ProcessTaskQueue is posted, which is what should_process_queue_ says
  unusedPosted,  \* a CommitUnused is posted
  timer,         \* those whose timeout_timer_ runs
  quotaCheck,    \* a commit waits for GetUsageAndQuota
  begun,         \* those with backing_store_transaction_begun_
  snapshot,      \* what the LevelDB snapshot of a begun transaction contains
  durable,       \* the writers whose changes are in the database
  writing,       \* those whose ChainedBlobWriter has still to come back
  answers,       \* the OnComplete and OnAbort calls made for a transaction
  closed         \* the database has been force-closed

attributes == <<mode, scope>>
coordinator == <<queued, started>>
requests == <<used, commitPending, scheduled, tasks>>
pending == <<runPosted, unusedPosted, timer, quotaCheck>>
storage == <<begun, snapshot, durable, writing>>

vars == <<attributes, next, coordinator, state, requests, pending, storage,
          answers, closed>>

State == {"none", "CREATED", "STARTED", "COMMITTING", "FINISHED", "deleted"}

Writer(t) == mode[t] = "readwrite"
Share(t, u) == scope[t] \cap scope[u] # {}

\* Those the coordinator still holds.
Live == {t \in Txn : state[t] \in {"CREATED", "STARTED", "COMMITTING"}}

TypeOK ==
  /\ mode \in [Txn -> {"readonly", "readwrite", "observer"}]
  /\ scope \in [Txn -> SUBSET Store \ {{}}]
  /\ next \in 1..MaxTransactions + 1
  /\ queued = {t \in Txn : state[t] = "CREATED"}
  /\ started = {t \in Txn : state[t] \in {"STARTED", "COMMITTING"}}
  /\ state \in [Txn -> State]
  /\ \A t \in Txn : state[t] = "none" <=> t >= next
  /\ used \subseteq Live /\ commitPending \subseteq Live
  /\ scheduled \in [Txn -> 0..MaxTasks]
  /\ tasks \in [Txn -> 0..MaxTasks]
  /\ \A t \in Txn : tasks[t] <= scheduled[t]
  /\ runPosted \subseteq started /\ unusedPosted \subseteq started
  /\ timer \subseteq started /\ quotaCheck \subseteq started
  /\ begun \subseteq started
  /\ snapshot \in [Txn -> SUBSET Txn]
  /\ durable \subseteq Txn
  /\ writing \subseteq Txn
  /\ \A t \in Txn : state[t] = "COMMITTING" => t \in writing
  /\ answers \in [Txn -> Seq({"complete", "abort"})]
  /\ closed \in BOOLEAN

\* What the page will ask for is drawn here once and for all.
Init ==
  /\ mode \in [Txn -> {"readonly", "readwrite", "observer"}]
  /\ scope \in [Txn -> SUBSET Store \ {{}}]
  /\ next = 1
  /\ queued = {} /\ started = {}
  /\ state = [t \in Txn |-> "none"]
  /\ used = {} /\ commitPending = {}
  /\ scheduled = [t \in Txn |-> 0] /\ tasks = [t \in Txn |-> 0]
  /\ runPosted = {} /\ unusedPosted = {} /\ timer = {} /\ quotaCheck = {}
  /\ begun = {} /\ snapshot = [t \in Txn |-> {}] /\ durable = {} /\ writing = {}
  /\ answers = [t \in Txn |-> <<>>]
  /\ closed = FALSE

-----------------------------------------------------------------------------
(* The coordinator. *)

\* Mutant: writers that wait in the queue lock nothing.
UnlockedByQueue(t, q, s) == \A u \in s : Writer(u) => ~Share(t, u)

\* Mutant: only writers that get started lock their stores.
UnlockedByWaiting(t, q, s) ==
  \A u \in s \cup {v \in q : v < t /\ \A w \in s : Writer(w) => ~Share(v, w)} :
    Writer(u) => ~Share(t, u)

\* Mutant: readers do not look at the locks.
UnlockedForReaders(t, q, s) ==
  \A u \in s \cup {v \in q : v < t} : Writer(t) /\ Writer(u) => ~Share(t, u)

(***************************************************************************)
(* locked_scope when ProcessQueuedTransactions comes to t: the stores of   *)
(* the started writers, and of every queued writer it passed on the way,   *)
(* started by now or not.                                                  *)
(***************************************************************************)
Unlocked(t, q, s) ==
  \A u \in s \cup {v \in q : v < t} : Writer(u) => ~Share(t, u)

\* Mutant: the pass stops at the first transaction that cannot start.
CanStartInOrder(q, s) ==
  {t \in q :
     /\ \A u \in q : u <= t => Unlocked(u, q, s)
     /\ Cardinality(s) + Cardinality({u \in q : u < t}) < kMaxStartedTransactions}

(***************************************************************************)
(* Those that one pass of ProcessQueuedTransactions starts.  The pass goes *)
(* through the queue in order, so that t has a place when the unlocked     *)
(* ones before it leave one.                                               *)
(***************************************************************************)
CanStart(q, s) ==
  {t \in q :
     /\ Unlocked(t, q, s)
     /\ Cardinality(s) + Cardinality({u \in q : u < t /\ Unlocked(u, q, s)})
          < kMaxStartedTransactions}

\* Mutant: Start() forgets the commit that was asked for before it.
ProcessQueuedTransactionsForgetful(q, s, watchers, st, run, unused) ==
  LET S == CanStart(q, s)
  IN  /\ queued' = q \ S
      /\ started' = s \cup S \cup watchers
      /\ state' = [t \in Txn |-> IF t \in S \cup watchers THEN "STARTED" ELSE st[t]]
      /\ runPosted' = run \cup (S \cap used)
      /\ unusedPosted' = unused

(***************************************************************************)
(* ProcessQueuedTransactions with the queue q and the started set s, and   *)
(* the Start() it calls: a used transaction gets its queue processed, an   *)
(* unused one whose commit was asked for gets a CommitUnused.  `watchers'  *)
(* are inserted into the started set afterwards, and st, run and unused    *)
(* are the other values this step leaves to Start().                       *)
(***************************************************************************)
ProcessQueuedTransactions(q, s, watchers, st, run, unused) ==
  LET S == CanStart(q, s)
  IN  /\ queued' = q \ S
      /\ started' = s \cup S \cup watchers
      /\ state' = [t \in Txn |-> IF t \in S \cup watchers THEN "STARTED" ELSE st[t]]
      /\ runPosted' = run \cup (S \cap used)
      /\ unusedPosted' = unused \cup ((S \cap commitPending) \ used)

(***************************************************************************)
(* DidFinishTransaction for t and the callback to the front end.  `final'  *)
(* tells whether the connection removes t.  Whatever was posted for t, and *)
(* the quota reply it waits for, will find no transaction; the writer of   *)
(* its blobs goes on with what it has begun, and still comes back.         *)
(***************************************************************************)
Finish(t, final, answer, watchers) ==
  /\ ProcessQueuedTransactions(queued \ {t}, started \ {t}, watchers,
                               [state EXCEPT ![t] = final],
                               runPosted \ {t}, unusedPosted \ {t})
  /\ timer' = timer \ {t}
  /\ quotaCheck' = quotaCheck \ {t}
  /\ used' = used \ {t}
  /\ commitPending' = commitPending \ {t}
  /\ tasks' = [tasks EXCEPT ![t] = 0]
  /\ begun' = (begun \ {t}) \cup watchers
  /\ snapshot' = [u \in Txn |-> IF u = t THEN {}
                                ELSE IF u \in watchers THEN durable' ELSE snapshot[u]]
  /\ answers' = [answers EXCEPT ![t] = Append(@, answer)]
  /\ next' = next + Cardinality(watchers)
  /\ UNCHANGED <<attributes, scheduled>>

-----------------------------------------------------------------------------
(* The loop of the coordinator as the code has it.                         *)

\* The stores that the writers among P lock.
LockedBy(P) == UNION {scope[t] : t \in {u \in P : Writer(u)}}

(***************************************************************************)
(* One turn of the loop of ProcessQueuedTransactions: t starts when there  *)
(* is a place and it needs nothing that is locked, and a writer's stores   *)
(* are locked from then on either way.                                     *)
(***************************************************************************)
LoopTurn(pass, t) ==
  [ started |-> IF /\ Cardinality(pass.started) < kMaxStartedTransactions
                   /\ scope[t] \cap pass.locked = {}
                THEN pass.started \cup {t} ELSE pass.started,
    locked  |-> IF Writer(t) THEN pass.locked \cup scope[t] ELSE pass.locked ]

\* Those that one pass over the queue q starts, with s started before it.
LoopStarts(q, s) ==
  LET pass[i \in 0..MaxTransactions] ==
        IF i = 0 THEN [started |-> s, locked |-> LockedBy(s)]
        ELSE IF i \in q THEN LoopTurn(pass[i - 1], i) ELSE pass[i - 1]
  IN  pass[MaxTransactions].started \ s

-----------------------------------------------------------------------------
(* How transactions end. *)

Abort(t) ==
  /\ Finish(t, "deleted", "abort", {})
  /\ UNCHANGED <<durable, closed>>

(***************************************************************************)
(* IndexedDBDatabase::ForceClose: every connection aborts its transactions *)
(* and goes.  The starts in between are of transactions aborted next.      *)
(***************************************************************************)
CloseAll ==
  /\ queued' = {} /\ started' = {}
  /\ state' = [t \in Txn |-> IF state[t] = "none" THEN "none" ELSE "deleted"]
  /\ used' = {} /\ commitPending' = {}
  /\ tasks' = [t \in Txn |-> 0]
  /\ runPosted' = {} /\ unusedPosted' = {} /\ timer' = {} /\ quotaCheck' = {}
  /\ begun' = {} /\ snapshot' = [t \in Txn |-> {}]
  /\ answers' = [t \in Txn |-> IF t \in Live THEN Append(answers[t], "abort")
                                             ELSE answers[t]]
  /\ closed' = TRUE
  /\ UNCHANGED <<attributes, next, scheduled>>

\* What t would make durable.
Changes(t) == IF Writer(t) /\ t \in used THEN {t} ELSE {}

(***************************************************************************)
(* CommitPhaseTwo.  When LevelDB fails, or the blob journal is not cleaned *)
(* up after LevelDB has committed, the front end is told of an abort, the  *)
(* connection keeps the finished transaction, and the error is reported,   *)
(* which closes everything: unless there is no data path.                  *)
(***************************************************************************)
CommitPhaseTwo(t) ==
  \/ /\ durable' = durable \cup Changes(t)
     /\ \/ Finish(t, "deleted", "complete", {})
        \/ \* SendObservations
           /\ Changes(t) # {} /\ next \in Txn /\ mode[next] = "observer"
           /\ Finish(t, "deleted", "complete", {next})
     /\ UNCHANGED closed
  \/ /\ Changes(t) # {} /\ ~Incognito
     /\ durable' \in {durable, durable \cup Changes(t)}
     /\ CloseAll
  \/ /\ Changes(t) # {} /\ Incognito
     /\ Finish(t, "FINISHED", "abort", {})
     /\ UNCHANGED <<durable, closed>>

\* The snapshot a transaction has from now on.
Begin(t) ==
  /\ begun' = begun \cup {t}
  /\ snapshot' = IF t \in begun THEN snapshot ELSE [snapshot EXCEPT ![t] = durable]
  /\ UNCHANGED durable

(***************************************************************************)
(* The rest of Commit() once t is started and has no task left: phase one  *)
(* writes the blobs, if t has any, and answers later; it may fail at once. *)
(***************************************************************************)
StartCommitting(t) ==
  \/ CommitPhaseTwo(t) /\ UNCHANGED writing
  \/ /\ Changes(t) # {} /\ ~Incognito
     /\ state' = [state EXCEPT ![t] = "COMMITTING"]
     /\ commitPending' = commitPending \cup {t}
     /\ tasks' = [tasks EXCEPT ![t] = 0]
     /\ runPosted' = runPosted \ {t}
     /\ timer' = timer \ {t}
     /\ quotaCheck' = quotaCheck \ {t}
     /\ Begin(t)
     /\ writing' = writing \cup {t}
     /\ UNCHANGED <<attributes, next, coordinator, used, scheduled, unusedPosted,
                    answers, closed>>
  \/ /\ Changes(t) # {} /\ ~Incognito
     /\ CloseAll
     /\ UNCHANGED <<durable, writing>>

(***************************************************************************)
(* IndexedDBTransaction::Commit: deferred while t waits for the            *)
(* coordinator or has tasks to run.                                        *)
(***************************************************************************)
Commit(t) ==
  \/ /\ state[t] = "CREATED" \/ (state[t] = "STARTED" /\ tasks[t] > 0)
     /\ commitPending' = commitPending \cup {t}
     /\ timer' = timer \ {t}
     /\ quotaCheck' = quotaCheck \ {t}
     /\ UNCHANGED <<attributes, next, coordinator, state, used, scheduled, tasks,
                    runPosted, unusedPosted, storage, answers, closed>>
  \/ /\ state[t] = "STARTED" /\ tasks[t] = 0
     /\ StartCommitting(t)

-----------------------------------------------------------------------------
(* The front end. *)

CreateTransaction ==
  /\ next \in Txn /\ ~closed /\ mode[next] # "observer"
  /\ ProcessQueuedTransactions(queued \cup {next}, started, {},
                               [state EXCEPT ![next] = "CREATED"],
                               runPosted, unusedPosted)
  /\ next' = next + 1
  /\ UNCHANGED <<attributes, requests, timer, quotaCheck, storage, answers, closed>>

\* The page makes no request once it has asked for the commit.
Open(t) == /\ state[t] \in {"CREATED", "STARTED"}
           /\ t \notin commitPending /\ t \notin quotaCheck

\* Mutant: a task that arrives while the transaction is idle is not posted.
ScheduleTaskWithoutRun(t) ==
  /\ Open(t) /\ scheduled[t] < MaxTasks
  /\ timer' = timer \ {t}
  /\ used' = used \cup {t}
  /\ tasks' = [tasks EXCEPT ![t] = @ + 1]
  /\ scheduled' = [scheduled EXCEPT ![t] = @ + 1]
  /\ UNCHANGED <<attributes, next, coordinator, state, commitPending, runPosted,
                 unusedPosted, quotaCheck, storage, answers, closed>>

ScheduleTask(t) ==
  /\ Open(t) /\ scheduled[t] < MaxTasks
  /\ timer' = timer \ {t}
  /\ used' = used \cup {t}
  /\ tasks' = [tasks EXCEPT ![t] = @ + 1]
  /\ scheduled' = [scheduled EXCEPT ![t] = @ + 1]
  /\ runPosted' = IF state[t] = "STARTED" THEN runPosted \cup {t} ELSE runPosted
  /\ UNCHANGED <<attributes, next, coordinator, state, commitPending, unusedPosted,
                 quotaCheck, storage, answers, closed>>

(***************************************************************************)
(* IDBSequenceHelper::Commit.  The front end waits for its answers before  *)
(* it commits, so that a used transaction has been started; a transaction  *)
(* with data to store has its quota checked first.                         *)
(***************************************************************************)
RequestCommit(t) ==
  /\ Open(t) /\ (t \in used => state[t] = "STARTED")
  /\ \/ Commit(t)
     \/ /\ Changes(t) # {}
        /\ quotaCheck' = quotaCheck \cup {t}
        /\ UNCHANGED <<attributes, next, coordinator, state, requests, runPosted,
                       unusedPosted, timer, storage, answers, closed>>

OnGotUsageAndQuotaForCommit(t) ==
  /\ t \in quotaCheck
  /\ Commit(t) \/ (Abort(t) /\ UNCHANGED writing)

\* By the page, by a quota error, or because the page's connection goes away.
AbortTransaction(t) == t \in Live /\ Abort(t) /\ UNCHANGED writing

-----------------------------------------------------------------------------
(* What the sequence runs later. *)

(***************************************************************************)
(* ProcessTaskQueue: the first one begins the LevelDB transaction.  When   *)
(* an operation fails, with some left in the queue, the error is reported. *)
(* Only writers get a timer.                                               *)
(***************************************************************************)
ProcessTaskQueue(t) ==
  /\ t \in runPosted
  /\ \/ t \in commitPending /\ StartCommitting(t)
     \/ /\ t \notin commitPending
        /\ tasks' = [tasks EXCEPT ![t] = 0]
        /\ runPosted' = runPosted \ {t}
        /\ timer' = IF Writer(t) THEN timer \cup {t} ELSE timer
        /\ Begin(t)
        /\ UNCHANGED <<attributes, next, coordinator, state, used, commitPending,
                       scheduled, unusedPosted, quotaCheck, writing, answers, closed>>
     \/ ~Incognito /\ CloseAll /\ UNCHANGED <<durable, writing>>
     \/ /\ Incognito
        /\ \E left \in 0..tasks[t] - 1 : tasks' = [tasks EXCEPT ![t] = left]
        /\ runPosted' = runPosted \ {t}
        /\ Begin(t)
        /\ UNCHANGED <<attributes, next, coordinator, state, used, commitPending,
                       scheduled, unusedPosted, timer, quotaCheck, writing, answers,
                       closed>>

CommitUnused(t) == t \in unusedPosted /\ Commit(t)

\* Mutant: what the blob writer says is taken for a transaction that has ended.
BlobWriteCompleteUnchecked(t) ==
  /\ t \in writing /\ writing' = writing \ {t}
  /\ CommitPhaseTwo(t) \/ Abort(t)

(***************************************************************************)
(* The ChainedBlobWriter of t comes back, having written all or failed.    *)
(* It may do so after t was aborted, closed under it or timed out: it is   *)
(* told (Rollback), has only a weak pointer to t, and finds state_ to be   *)
(* FINISHED, so that nothing comes of it.                                  *)
(***************************************************************************)
BlobWriteComplete(t) ==
  /\ t \in writing /\ writing' = writing \ {t}
  /\ \/ state[t] = "COMMITTING" /\ (CommitPhaseTwo(t) \/ Abort(t))
     \/ state[t] # "COMMITTING" /\ UNCHANGED <<attributes, next, coordinator, state,
                                     requests, pending, begun, snapshot, durable,
                                     answers, closed>>

Timeout(t) == t \in timer /\ Abort(t) /\ UNCHANGED writing

ForceClose == ~closed /\ CloseAll /\ UNCHANGED <<durable, writing>>

Next ==
  \/ CreateTransaction
  \/ ForceClose
  \/ \E t \in Txn :
       \/ ScheduleTask(t)
       \/ RequestCommit(t)
       \/ OnGotUsageAndQuotaForCommit(t)
       \/ AbortTransaction(t)
       \/ ProcessTaskQueue(t)
       \/ CommitUnused(t)
       \/ BlobWriteComplete(t)
       \/ Timeout(t)

Spec == Init /\ [][Next]_vars

(***************************************************************************)
(* The sequence runs what is posted to it, timers fire, the quota manager  *)
(* and the blob writer answer, and Blink itself commits a transaction that *)
(* has no requests.  A page may stop at any point of a transaction it has  *)
(* used, a reading one or a writing one.                                   *)
(***************************************************************************)
FairSpec ==
  /\ Spec
  /\ \A t \in Txn :
       /\ WF_vars(ProcessTaskQueue(t))
       /\ WF_vars(CommitUnused(t))
       /\ WF_vars(BlobWriteComplete(t))
       /\ WF_vars(OnGotUsageAndQuotaForCommit(t))
       /\ WF_vars(Timeout(t))
       /\ WF_vars(t \notin used /\ RequestCommit(t))

-----------------------------------------------------------------------------
(* What should hold. *)

Observer(t) == mode[t] = "observer"

(***************************************************************************)
(* Two running writers never share a store (locked_scope in                *)
(* ProcessQueuedTransactions), whatever ended or was aborted in between.   *)
(***************************************************************************)
WritersRunAlone ==
  \A t, u \in started : Writer(t) /\ Writer(u) /\ t # u => ~Share(t, u)

(***************************************************************************)
(* "Per the spec the transaction which was created first must get access   *)
(* first": nobody but an observer runs while a writer that was created     *)
(* earlier and shares a store with it is still to run or to end.           *)
(***************************************************************************)
NobodyOvertakesAWriter ==
  \A t \in started, u \in Live :
    u < t /\ Writer(u) /\ Share(t, u) => Observer(t)

(***************************************************************************)
(* The LevelDB snapshot is taken when the first operation runs, not when   *)
(* the transaction starts.  A writer's is still up to date whenever it     *)
(* writes: no change made to its stores since is about to be overwritten.  *)
(***************************************************************************)
NoLostUpdate ==
  \A t \in begun, u \in durable :
    Writer(t) /\ Share(t, u) /\ u # t => u \in snapshot[t]

(***************************************************************************)
(* A transaction other than an observer sees every change that was         *)
(* committed by a writer created before it.                                *)
(***************************************************************************)
SeesEarlierWriters ==
  \A t \in begun, u \in durable :
    ~Observer(t) /\ u < t /\ Share(t, u) => u \in snapshot[t]

(***************************************************************************)
(* The coordinator leaves nobody in the queue who could run: DidFinish-    *)
(* Transaction looks at the queue again on every way out.                  *)
(***************************************************************************)
NobodyIsForgotten ==
  \A t \in queued :
    Unlocked(t, queued, started) => Cardinality(started) >= kMaxStartedTransactions

(***************************************************************************)
(* kMaxStartedTransactions bounds those started from the queue, observers  *)
(* or not among them.                                                      *)
(***************************************************************************)
StartedWithinLimit ==
  Cardinality({t \in started : ~Observer(t)}) <= kMaxStartedTransactions

(***************************************************************************)
(* The front end hears of the end of a transaction once: OnComplete or     *)
(* OnAbort, never both, and not while the coordinator still holds it,      *)
(* whichever of a commit, an abort, a timeout and a failure wins.          *)
(***************************************************************************)
AnsweredOnce ==
  \A t \in Txn : Len(answers[t]) = IF t \in Live \/ t >= next THEN 0 ELSE 1

(***************************************************************************)
(* A writer that has been used and is started always has something that    *)
(* will move it: its queue is about to be processed, its blobs are being   *)
(* written, or its inactivity timer runs.                                  *)
(***************************************************************************)
NoWriterIsStranded ==
  \A t \in started :
    Writer(t) /\ t \in used =>
      t \in writing \/ t \in runPosted \/ t \in timer

Phase == [t \in Txn |->
            CASE state[t] = "none" -> "new"
              [] state[t] = "CREATED" -> "waiting"
              [] state[t] \in {"STARTED", "COMMITTING"} -> "running"
              [] state[t] \in {"FINISHED", "deleted"} -> "done"]

\* The promise of the coordinator.
Locks == INSTANCE ScopeLocks WITH kind <- mode, stores <- scope, phase <- Phase

\* Every step of the transactions is a step the coordinator promises, or none.
ImplementsScopeLocks == Locks!Spec

\* A page has stopped using t, which nobody times out: only writers have a timer.
Abandoned(t) ==
  /\ t \in started \ (runPosted \cup commitPending)
  /\ t \in used /\ ~Writer(t)

\* Such transactions take up every place that kMaxStartedTransactions gives.
PlacesAreTaken == Cardinality({t \in started : Abandoned(t)}) >= kMaxStartedTransactions

(***************************************************************************)
(* Every transaction ends, even when its page stops half way through a     *)
(* writer: the timer "unblocks the transaction queue".  The exceptions are *)
(* readers and observers that their page has abandoned, which are said not *)
(* to block other transactions, and those queued when so many of them are  *)
(* abandoned that no place is left: fewer never hold anybody up.           *)
(***************************************************************************)
EveryTransactionEnds ==
  \A t \in Txn :
    <>[](t \in Live => Abandoned(t) \/ (t \in queued /\ PlacesAreTaken))
=============================================================================
