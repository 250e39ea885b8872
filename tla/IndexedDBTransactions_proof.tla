--------------------- MODULE IndexedDBTransactions_proof ---------------------
(***************************************************************************)
(* Theorems about IndexedDBTransactions, for any number of transactions,   *)
(* object stores and places, with or without a data path.                  *)
(*                                                                         *)
(* What a handler does to the coordinator is always one of four moves: the *)
(* end of a transaction and the starts that follow it, the creation of one *)
(* and its start, the closing of everything, or nothing.  The invariants   *)
(* about who runs with whom are proved of the moves, once.                 *)
(***************************************************************************)
EXTENDS IndexedDBTransactions, FiniteSetTheorems, WellFoundedInduction, TLAPS

-----------------------------------------------------------------------------
(* Types. *)

LEMMA AppendFacts ==
  ASSUME NEW S, NEW q \in Seq(S), NEW m \in S
  PROVE  Append(q, m) \in Seq(S) /\ Len(Append(q, m)) = Len(q) + 1
OBVIOUS

(***************************************************************************)
(* What a pass over the queue starts was in the queue.                     *)
(***************************************************************************)
LEMMA CanStartInQueue == \A q, s : CanStart(q, s) \subseteq q
BY DEF CanStart

(***************************************************************************)
(* DidFinishTransaction keeps the types, whoever it starts.                *)
(***************************************************************************)
LEMMA FinishType ==
  ASSUME TypeOK,
         NEW t \in Live, NEW final \in {"deleted", "FINISHED"},
         NEW answer \in {"complete", "abort"},
         NEW w, w = {} \/ (w = {next} /\ next \in Txn),
         Finish(t, final, answer, w),
         durable' \subseteq Txn, writing' \in {writing, writing \ {t}}, closed' \in BOOLEAN
  PROVE  TypeOK'
<1> DEFINE q == queued \ {t}
           s == started \ {t}
           S == CanStart(q, s)
<1>1. S \subseteq q
  BY CanStartInQueue
<1>2. /\ queued' = q \ S
      /\ started' = s \cup S \cup w
      /\ state' = [u \in Txn |-> IF u \in S \cup w THEN "STARTED"
                                 ELSE [state EXCEPT ![t] = final][u]]
      /\ runPosted' = (runPosted \ {t}) \cup (S \cap used)
      /\ unusedPosted' = (unusedPosted \ {t}) \cup ((S \cap commitPending) \ used)
  BY DEF Finish, ProcessQueuedTransactions
<1>3. next' = next + Cardinality(w) /\ Cardinality(w) \in {0, 1}
      /\ (w = {} => next' = next) /\ (w = {next} => next' = next + 1)
  <2>1. next \in Nat
    BY ConstantsAssumption DEF TypeOK
  <2>2. w = {} => Cardinality(w) = 0
    BY FS_EmptySet
  <2>3. w = {next} => Cardinality(w) = 1
    BY FS_Singleton
  <2>4. next' = next + Cardinality(w)
    BY DEF Finish
  <2> QED
    BY <2>1, <2>2, <2>3, <2>4
<1>4. next' \in 1..MaxTransactions + 1
  BY <1>3, ConstantsAssumption DEF TypeOK, Txn
<1>5. t \in Txn /\ state[t] # "none" /\ t < next
  BY DEF Live, TypeOK, Txn
<1>6. queued' = {u \in Txn : state'[u] = "CREATED"}
  BY <1>1, <1>2, <1>5 DEF TypeOK
<1>7. started' = {u \in Txn : state'[u] \in {"STARTED", "COMMITTING"}}
  BY <1>1, <1>2, <1>5 DEF TypeOK
<1>8. state' \in [Txn -> State]
  BY <1>2 DEF TypeOK, State
<1>9. \A u \in Txn : state'[u] = "none" <=> u >= next'
  <2> SUFFICES ASSUME NEW u \in Txn PROVE state'[u] = "none" <=> u >= next'
    OBVIOUS
  <2>1. u \in Nat /\ next \in Nat
    BY ConstantsAssumption DEF TypeOK, Txn
  <2>2. CASE u \in w
    BY <1>2, <1>3, <2>1, <2>2
  <2>3. CASE u \in S
    <3>1. state[u] = "CREATED"
      BY <1>1, <2>3 DEF TypeOK
    <3> QED
      BY <1>2, <1>3, <2>1, <2>3, <3>1 DEF TypeOK
  <2>4. CASE u = t /\ u \notin S \cup w
    <3>1. state'[u] = final
      BY <1>2, <1>5, <2>4 DEF TypeOK
    <3> QED
      BY <1>3, <1>5, <2>1, <2>4, <3>1
  <2>5. CASE u # t /\ u \notin S \cup w
    <3>1. state'[u] = state[u]
      BY <1>2, <2>5 DEF TypeOK
    <3> QED
      BY <1>3, <2>1, <2>5, <3>1 DEF TypeOK
  <2> QED
    BY <2>2, <2>3, <2>4, <2>5
<1>10. Live' = queued' \cup started'
  BY <1>6, <1>7 DEF Live
<1>11. Live = queued \cup started
  BY DEF Live, TypeOK
<1>12. used' \subseteq Live' /\ commitPending' \subseteq Live'
  BY <1>1, <1>2, <1>10, <1>11 DEF Finish, TypeOK
<1>13. runPosted' \subseteq started' /\ unusedPosted' \subseteq started'
  BY <1>2 DEF TypeOK
<1>14. timer' \subseteq started' /\ quotaCheck' \subseteq started' /\ begun' \subseteq started'
  BY <1>2 DEF Finish, TypeOK
<1>15. snapshot' \in [Txn -> SUBSET Txn]
  BY DEF Finish, TypeOK
<1>16. answers' \in [Txn -> Seq({"complete", "abort"})]
  BY AppendFacts DEF Finish, TypeOK
<1>17. /\ tasks' \in [Txn -> 0..MaxTasks] /\ scheduled' \in [Txn -> 0..MaxTasks]
       /\ \A u \in Txn : tasks'[u] <= scheduled'[u]
  BY <1>5, ConstantsAssumption DEF Finish, TypeOK
<1>18. mode' = mode /\ scope' = scope
  BY DEF Finish, attributes
<1>19. writing' \subseteq Txn /\ \A u \in Txn : state'[u] = "COMMITTING" => u \in writing'
  BY <1>2, <1>5 DEF TypeOK
<1> QED
  BY <1>4, <1>6, <1>7, <1>8, <1>9, <1>12, <1>13, <1>14, <1>15, <1>16, <1>17, <1>18, <1>19
  DEF TypeOK

(***************************************************************************)
(* So does the closing of everything.                                      *)
(***************************************************************************)
LEMMA CloseAllType ==
  ASSUME TypeOK, CloseAll, durable' \subseteq Txn, writing' \subseteq Txn
  PROVE  TypeOK'
<1>1. /\ state' \in [Txn -> State]
      /\ \A t \in Txn : state'[t] = "none" <=> t >= next'
  BY DEF CloseAll, TypeOK, State
<1>2. /\ queued' = {t \in Txn : state'[t] = "CREATED"}
      /\ started' = {t \in Txn : state'[t] \in {"STARTED", "COMMITTING"}}
  BY DEF CloseAll, TypeOK
<1>3. /\ used' \subseteq Live' /\ commitPending' \subseteq Live'
      /\ runPosted' \subseteq started' /\ unusedPosted' \subseteq started'
      /\ timer' \subseteq started' /\ quotaCheck' \subseteq started'
      /\ begun' \subseteq started'
  BY DEF CloseAll
<1>4. /\ tasks' \in [Txn -> 0..MaxTasks] /\ scheduled' \in [Txn -> 0..MaxTasks]
      /\ \A u \in Txn : tasks'[u] <= scheduled'[u]
  BY ConstantsAssumption DEF CloseAll, TypeOK
<1>5. snapshot' \in [Txn -> SUBSET Txn]
  BY DEF CloseAll
<1>6. answers' \in [Txn -> Seq({"complete", "abort"})]
  BY DEF CloseAll, TypeOK
<1>7. /\ mode' = mode /\ scope' = scope /\ next' = next /\ closed' \in BOOLEAN
  BY DEF CloseAll, attributes
<1>8. \A u \in Txn : state'[u] # "COMMITTING"
  BY DEF CloseAll
<1> QED
  BY <1>1, <1>2, <1>3, <1>4, <1>5, <1>6, <1>7, <1>8 DEF TypeOK

(***************************************************************************)
(* The operators the handlers share keep the types.                        *)
(***************************************************************************)
LEMMA AbortType ==
  ASSUME TypeOK, NEW t \in Live, Abort(t), writing' \in {writing, writing \ {t}}
  PROVE  TypeOK'
BY FinishType DEF Abort, TypeOK

LEMMA CommitPhaseTwoType ==
  ASSUME TypeOK, NEW t \in Live, CommitPhaseTwo(t), writing' \in {writing, writing \ {t}}
  PROVE  TypeOK'
<1>1. durable \cup Changes(t) \subseteq Txn
  BY DEF Changes, TypeOK, Live
<1>2. CASE /\ durable' = durable \cup Changes(t)
           /\ UNCHANGED closed
           /\ Finish(t, "deleted", "complete", {})
  BY <1>1, <1>2, FinishType DEF TypeOK
<1>3. CASE /\ durable' = durable \cup Changes(t)
           /\ UNCHANGED closed
           /\ next \in Txn
           /\ Finish(t, "deleted", "complete", {next})
  BY <1>1, <1>3, FinishType DEF TypeOK
<1>4. CASE durable' \in {durable, durable \cup Changes(t)} /\ CloseAll
  BY <1>1, <1>4, CloseAllType DEF TypeOK
<1>5. CASE Finish(t, "FINISHED", "abort", {}) /\ UNCHANGED <<durable, closed>>
  BY <1>5, FinishType DEF TypeOK
<1> QED
  BY <1>2, <1>3, <1>4, <1>5 DEF CommitPhaseTwo

(***************************************************************************)
(* A transaction that takes its snapshot was started.                      *)
(***************************************************************************)
LEMMA BeginType ==
  ASSUME TypeOK, NEW t \in started, Begin(t)
  PROVE  /\ begun' \subseteq started
         /\ snapshot' \in [Txn -> SUBSET Txn]
         /\ durable' \subseteq Txn
BY DEF Begin, TypeOK

LEMMA StartCommittingType ==
  ASSUME TypeOK, NEW t \in started, StartCommitting(t)
  PROVE  TypeOK'
<1>1. t \in Live
  BY DEF TypeOK, Live
<1>2. CASE CommitPhaseTwo(t) /\ UNCHANGED writing
  BY <1>1, <1>2, CommitPhaseTwoType
<1>3. CASE CloseAll /\ UNCHANGED <<durable, writing>>
  BY <1>3, CloseAllType DEF TypeOK
<1>4. CASE /\ state' = [state EXCEPT ![t] = "COMMITTING"]
           /\ commitPending' = commitPending \cup {t}
           /\ tasks' = [tasks EXCEPT ![t] = 0]
           /\ runPosted' = runPosted \ {t}
           /\ timer' = timer \ {t}
           /\ quotaCheck' = quotaCheck \ {t}
           /\ Begin(t)
           /\ writing' = writing \cup {t}
           /\ UNCHANGED <<attributes, next, coordinator, used, scheduled, unusedPosted,
                          answers, closed>>
  <2>1. t \in Txn /\ state[t] \notin {"none", "CREATED"}
    BY DEF TypeOK
  <2>2. /\ state' \in [Txn -> State]
        /\ \A u \in Txn : state'[u] = "none" <=> u >= next'
        /\ queued' = {u \in Txn : state'[u] = "CREATED"}
        /\ started' = {u \in Txn : state'[u] \in {"STARTED", "COMMITTING"}}
    BY <1>4, <2>1 DEF TypeOK, State, coordinator
  <2>3. Live' = Live
    BY <1>4, <2>1 DEF Live, TypeOK
  <2>4. /\ tasks' \in [Txn -> 0..MaxTasks] /\ scheduled' \in [Txn -> 0..MaxTasks]
        /\ \A u \in Txn : tasks'[u] <= scheduled'[u]
    BY <1>4, ConstantsAssumption DEF TypeOK
  <2>5. /\ used' \subseteq Live' /\ commitPending' \subseteq Live'
        /\ runPosted' \subseteq started' /\ unusedPosted' \subseteq started'
        /\ timer' \subseteq started' /\ quotaCheck' \subseteq started'
    BY <1>1, <1>4, <2>3 DEF TypeOK, coordinator
  <2>6. /\ begun' \subseteq started'
        /\ snapshot' \in [Txn -> SUBSET Txn]
        /\ durable' \subseteq Txn
    BY <1>4, BeginType DEF coordinator
  <2>7. writing' \subseteq Txn /\ \A u \in Txn : state'[u] = "COMMITTING" => u \in writing'
    BY <1>4, <2>1 DEF TypeOK
  <2> QED
    BY <1>4, <2>2, <2>4, <2>5, <2>6, <2>7 DEF TypeOK, attributes
<1> QED
  BY <1>2, <1>3, <1>4 DEF StartCommitting

LEMMA CommitType ==
  ASSUME TypeOK, NEW t \in Txn, Commit(t)
  PROVE  TypeOK'
<1>1. CASE /\ state[t] = "CREATED" \/ (state[t] = "STARTED" /\ tasks[t] > 0)
           /\ commitPending' = commitPending \cup {t}
           /\ timer' = timer \ {t}
           /\ quotaCheck' = quotaCheck \ {t}
           /\ UNCHANGED <<attributes, next, coordinator, state, used, scheduled, tasks,
                          runPosted, unusedPosted, storage, answers, closed>>
  <2>1. t \in Live /\ Live' = Live
    BY <1>1 DEF Live
  <2>2. /\ used' \subseteq Live' /\ commitPending' \subseteq Live'
        /\ timer' \subseteq started' /\ quotaCheck' \subseteq started'
    BY <1>1, <2>1 DEF TypeOK, coordinator
  <2> QED
    BY <1>1, <2>2 DEF TypeOK, attributes, coordinator, storage
<1>2. CASE state[t] = "STARTED" /\ tasks[t] = 0 /\ StartCommitting(t)
  <2>1. t \in started
    BY <1>2 DEF TypeOK
  <2> QED
    BY <1>2, <2>1, StartCommittingType
<1> QED
  BY <1>1, <1>2 DEF Commit

LEMMA CreateTransactionType ==
  ASSUME TypeOK, CreateTransaction
  PROVE  TypeOK'
<1> DEFINE q == queued \cup {next}
           S == CanStart(q, started)
<1>1. S \subseteq q
  BY CanStartInQueue
<1>2. /\ queued' = q \ S
      /\ started' = started \cup S
      /\ state' = [u \in Txn |-> IF u \in S THEN "STARTED"
                                 ELSE [state EXCEPT ![next] = "CREATED"][u]]
      /\ runPosted' = runPosted \cup (S \cap used)
      /\ unusedPosted' = unusedPosted \cup ((S \cap commitPending) \ used)
  BY DEF CreateTransaction, ProcessQueuedTransactions
<1>3. next \in Txn /\ next \in Nat /\ next' = next + 1 /\ next' \in 1..MaxTransactions + 1
  BY ConstantsAssumption DEF CreateTransaction, TypeOK, Txn
<1>4. state[next] = "none"
  BY <1>3 DEF TypeOK
<1>5. /\ queued' = {u \in Txn : state'[u] = "CREATED"}
      /\ started' = {u \in Txn : state'[u] \in {"STARTED", "COMMITTING"}}
  BY <1>1, <1>2, <1>3, <1>4 DEF TypeOK
<1>6. state' \in [Txn -> State]
  BY <1>2 DEF TypeOK, State
<1>7. \A u \in Txn : state'[u] = "none" <=> u >= next'
  <2> SUFFICES ASSUME NEW u \in Txn PROVE state'[u] = "none" <=> u >= next'
    OBVIOUS
  <2>1. u \in Nat
    BY DEF Txn
  <2>2. CASE u = next
    <3>1. state'[u] # "none"
      BY <1>2, <1>3, <2>2 DEF TypeOK
    <3> QED
      BY <1>3, <2>2, <3>1
  <2>3. CASE u # next
    <3>1. state'[u] = "none" <=> state[u] = "none"
      BY <1>1, <1>2, <2>3 DEF TypeOK
    <3> QED
      BY <1>3, <2>1, <2>3, <3>1 DEF TypeOK
  <2> QED
    BY <2>2, <2>3
<1>8. Live \subseteq Live'
  BY <1>1, <1>2, <1>4 DEF Live, TypeOK
<1>9. /\ used' \subseteq Live' /\ commitPending' \subseteq Live'
      /\ runPosted' \subseteq started' /\ unusedPosted' \subseteq started'
      /\ timer' \subseteq started' /\ quotaCheck' \subseteq started'
      /\ begun' \subseteq started'
  BY <1>2, <1>8 DEF CreateTransaction, TypeOK, requests, storage
<1>10. writing' \subseteq Txn /\ \A u \in Txn : state'[u] = "COMMITTING" => u \in writing'
  <2>1. writing' = writing
    BY DEF CreateTransaction, storage
  <2>2. \A u \in Txn : state'[u] = "COMMITTING" => state[u] = "COMMITTING"
    BY <1>2, <1>4 DEF TypeOK
  <2> QED
    BY <2>1, <2>2 DEF TypeOK
<1> QED
  BY <1>3, <1>5, <1>6, <1>7, <1>9, <1>10
  DEF CreateTransaction, TypeOK, attributes, requests, storage

(***************************************************************************)
(* What only touches the requests and the posted closures of t.            *)
(***************************************************************************)
LEMMA ScheduleTaskType ==
  ASSUME TypeOK, NEW t \in Txn, ScheduleTask(t)
  PROVE  TypeOK'
<1>1. t \in Live /\ Live' = Live
  BY DEF ScheduleTask, Open, Live
<1>2. /\ used' \subseteq Live' /\ commitPending' \subseteq Live'
      /\ runPosted' \subseteq started' /\ unusedPosted' \subseteq started'
      /\ timer' \subseteq started'
  BY <1>1 DEF ScheduleTask, TypeOK, coordinator
<1>3. /\ tasks' \in [Txn -> 0..MaxTasks] /\ scheduled' \in [Txn -> 0..MaxTasks]
      /\ \A u \in Txn : tasks'[u] <= scheduled'[u]
  BY ConstantsAssumption DEF ScheduleTask, TypeOK
<1> QED
  BY <1>2, <1>3 DEF ScheduleTask, TypeOK, attributes, coordinator, storage

LEMMA ProcessTaskQueueType ==
  ASSUME TypeOK, NEW t \in Txn, ProcessTaskQueue(t)
  PROVE  TypeOK'
<1>1. t \in started
  BY DEF ProcessTaskQueue, TypeOK
<1>2. CASE StartCommitting(t)
  BY <1>1, <1>2, StartCommittingType
<1>3. CASE CloseAll /\ UNCHANGED <<durable, writing>>
  BY <1>3, CloseAllType DEF TypeOK
<1>4. CASE /\ \E left \in 0..tasks[t] : tasks' = [tasks EXCEPT ![t] = left]
           /\ runPosted' = runPosted \ {t}
           /\ timer' \in {timer, timer \cup {t}}
           /\ Begin(t)
           /\ UNCHANGED <<attributes, next, coordinator, state, used, commitPending,
                          scheduled, unusedPosted, quotaCheck, writing, answers,
                          closed>>
  <2>1. Live' = Live
    BY <1>4 DEF Live
  <2>2. /\ tasks' \in [Txn -> 0..MaxTasks]
        /\ \A u \in Txn : tasks'[u] <= scheduled'[u]
    BY <1>4, ConstantsAssumption DEF TypeOK
  <2>3. /\ begun' \subseteq started'
        /\ snapshot' \in [Txn -> SUBSET Txn]
        /\ durable' \subseteq Txn
    BY <1>1, <1>4, BeginType DEF coordinator
  <2>4. runPosted' \subseteq started' /\ timer' \subseteq started'
    BY <1>1, <1>4 DEF TypeOK, coordinator
  <2> QED
    BY <1>4, <2>1, <2>2, <2>3, <2>4 DEF TypeOK, attributes, coordinator
<1>5. tasks[t] \in Nat
  BY ConstantsAssumption DEF TypeOK
<1>6. 0 \in 0..tasks[t] /\ 0..tasks[t] - 1 \subseteq 0..tasks[t]
  BY <1>5
<1>7. (timer' = IF Writer(t) THEN timer \cup {t} ELSE timer)
        => timer' \in {timer, timer \cup {t}}
  OBVIOUS
<1>8. CASE /\ tasks' = [tasks EXCEPT ![t] = 0]
           /\ runPosted' = runPosted \ {t}
           /\ timer' = IF Writer(t) THEN timer \cup {t} ELSE timer
           /\ Begin(t)
           /\ UNCHANGED <<attributes, next, coordinator, state, used, commitPending,
                          scheduled, unusedPosted, quotaCheck, writing, answers,
                          closed>>
  BY <1>4, <1>6, <1>8
<1>9. CASE /\ \E left \in 0..tasks[t] - 1 : tasks' = [tasks EXCEPT ![t] = left]
           /\ runPosted' = runPosted \ {t}
           /\ Begin(t)
           /\ UNCHANGED <<attributes, next, coordinator, state, used, commitPending,
                          scheduled, unusedPosted, timer, quotaCheck, writing, answers,
                          closed>>
  <2>1. \E left \in 0..tasks[t] : tasks' = [tasks EXCEPT ![t] = left]
    BY <1>6, <1>9
  <2> QED
    BY <1>4, <1>9, <2>1
<1> QED
  BY <1>2, <1>3, <1>8, <1>9 DEF ProcessTaskQueue

(***************************************************************************)
(* TypeOK holds in every state: in particular the coordinator's two sets   *)
(* and the state_ of the transactions agree, and nothing is posted for a   *)
(* transaction it does not hold.                                           *)
(***************************************************************************)
THEOREM TypeCorrect == Spec => []TypeOK
<1>1. Init => TypeOK
  <2> SUFFICES ASSUME Init PROVE TypeOK
    OBVIOUS
  <2>1. next = 1 /\ next \in 1..MaxTransactions + 1 /\ \A t \in Txn : t >= next
    BY ConstantsAssumption DEF Init, Txn
  <2>2. /\ scheduled \in [Txn -> 0..MaxTasks] /\ tasks \in [Txn -> 0..MaxTasks]
        /\ \A t \in Txn : tasks[t] <= scheduled[t]
    BY ConstantsAssumption DEF Init
  <2>3. answers \in [Txn -> Seq({"complete", "abort"})]
    BY DEF Init
  <2> QED
    BY <2>1, <2>2, <2>3 DEF Init, TypeOK, State, Live
<1>2. TypeOK /\ [Next]_vars => TypeOK'
  <2> SUFFICES ASSUME TypeOK, [Next]_vars PROVE TypeOK'
    OBVIOUS
  <2>1. CASE CreateTransaction
    BY <2>1, CreateTransactionType
  <2>2. CASE ForceClose
    BY <2>2, CloseAllType DEF ForceClose, TypeOK
  <2>3. ASSUME NEW t \in Txn, ScheduleTask(t) PROVE TypeOK'
    BY <2>3, ScheduleTaskType
  <2>4. ASSUME NEW t \in Txn, RequestCommit(t) PROVE TypeOK'
    <3>1. CASE Commit(t)
      BY <3>1, CommitType
    <3>2. CASE /\ Changes(t) # {} /\ quotaCheck' = quotaCheck \cup {t}
               /\ UNCHANGED <<attributes, next, coordinator, state, requests, runPosted,
                              unusedPosted, timer, storage, answers, closed>>
      <4>1. t \in started
        BY <2>4, <3>2 DEF RequestCommit, Changes, TypeOK
      <4>2. Live' = Live
        BY <3>2 DEF Live
      <4> QED
        BY <3>2, <4>1, <4>2 DEF TypeOK, attributes, coordinator, requests, storage
    <3> QED
      BY <2>4, <3>1, <3>2 DEF RequestCommit
  <2>5. ASSUME NEW t \in Txn, OnGotUsageAndQuotaForCommit(t) PROVE TypeOK'
    <3>1. t \in Live
      BY <2>5 DEF OnGotUsageAndQuotaForCommit, TypeOK, Live
    <3> QED
      BY <2>5, <3>1, CommitType, AbortType DEF OnGotUsageAndQuotaForCommit
  <2>6. ASSUME NEW t \in Txn, AbortTransaction(t) PROVE TypeOK'
    BY <2>6, AbortType DEF AbortTransaction
  <2>7. ASSUME NEW t \in Txn, ProcessTaskQueue(t) PROVE TypeOK'
    BY <2>7, ProcessTaskQueueType
  <2>8. ASSUME NEW t \in Txn, CommitUnused(t) PROVE TypeOK'
    BY <2>8, CommitType DEF CommitUnused
  <2>9. ASSUME NEW t \in Txn, BlobWriteComplete(t) PROVE TypeOK'
    <3>1. CASE state[t] = "COMMITTING" /\ (CommitPhaseTwo(t) \/ Abort(t))
      <4>1. t \in Live /\ writing' = writing \ {t}
        BY <2>9, <3>1 DEF BlobWriteComplete, Live
      <4> QED
        BY <3>1, <4>1, CommitPhaseTwoType, AbortType
    <3>2. CASE /\ state[t] # "COMMITTING"
               /\ UNCHANGED <<attributes, next, coordinator, state, requests, pending, begun,
                              snapshot, durable, answers, closed>>
      <4>1. writing' = writing \ {t} /\ Live' = Live
        BY <2>9, <3>2 DEF BlobWriteComplete, Live
      <4>2. writing' \subseteq Txn /\ \A u \in Txn : state'[u] = "COMMITTING" => u \in writing'
        BY <3>2, <4>1 DEF TypeOK
      <4> QED
        BY <3>2, <4>1, <4>2 DEF TypeOK, attributes, coordinator, requests, pending
    <3> QED
      BY <2>9, <3>1, <3>2 DEF BlobWriteComplete
  <2>10. ASSUME NEW t \in Txn, Timeout(t) PROVE TypeOK'
    <3>1. t \in Live
      BY <2>10 DEF Timeout, TypeOK, Live
    <3> QED
      BY <2>10, <3>1, AbortType DEF Timeout
  <2>11. CASE UNCHANGED vars
    BY <2>11 DEF vars, TypeOK, Live, attributes, coordinator, requests, pending, storage
  <2> QED
    BY <2>1, <2>2, <2>3, <2>4, <2>5, <2>6, <2>7, <2>8, <2>9, <2>10, <2>11 DEF Next
<1> QED
  BY <1>1, <1>2, PTL DEF Spec

-----------------------------------------------------------------------------
(* The moves. *)

(***************************************************************************)
(* All that the proofs need of a pass over the queue q: it starts those    *)
(* who can start, whom nothing locks.                                      *)
(***************************************************************************)
Starts(q, s, w, st) ==
  \E S \in SUBSET q :
    /\ S = CanStart(q, s)
    /\ \A t \in S : Unlocked(t, q, s)
    /\ queued' = q \ S
    /\ started' = s \cup S \cup w
    /\ state' = [t \in Txn |-> IF t \in S \cup w THEN "STARTED" ELSE st[t]]

StayMove ==
  /\ UNCHANGED <<queued, started, next>>
  /\ \E C \in SUBSET started :
       state' = [t \in Txn |-> IF t \in C THEN "COMMITTING" ELSE state[t]]

EndMove ==
  \E t \in Live, final \in {"deleted", "FINISHED"}, w \in SUBSET {next} :
    /\ \A u \in w : u \in Txn /\ Observer(u)
    /\ Starts(queued \ {t}, started \ {t}, w, [state EXCEPT ![t] = final])

CreateMove ==
  /\ next \in Txn
  /\ Starts(queued \cup {next}, started, {}, [state EXCEPT ![next] = "CREATED"])

CloseMove ==
  /\ queued' = {} /\ started' = {}
  /\ state' = [t \in Txn |-> IF state[t] = "none" THEN "none" ELSE "deleted"]

CoordinatorMove == StayMove \/ EndMove \/ CreateMove \/ CloseMove

(***************************************************************************)
(* What happens to the storage meanwhile: a snapshot is kept or is new,    *)
(* and only a writer that leaves changes the database.                     *)
(***************************************************************************)
StorageMove ==
  /\ \A t \in begun' : \/ t \in begun /\ snapshot'[t] = snapshot[t]
                       \/ snapshot'[t] = durable'
  /\ \A d \in durable' : d \in durable \/ (Writer(d) /\ d \in started /\ d \notin started')

\* One call to the front end for each transaction that leaves.
AnswerMove ==
  \A t \in Txn : Len(answers'[t]) = IF t \in Live /\ t \notin queued' \cup started'
                                    THEN Len(answers[t]) + 1 ELSE Len(answers[t])

Move == CoordinatorMove /\ StorageMove /\ AnswerMove

LEMMA LiveIsHeld == TypeOK => Live = queued \cup started
BY DEF TypeOK, Live

LEMMA StartsFromCanStart ==
  ASSUME NEW q, NEW s, NEW w, NEW st, NEW run, NEW unused,
         ProcessQueuedTransactions(q, s, w, st, run, unused)
  PROVE  Starts(q, s, w, st)
<1>1. CanStart(q, s) \in SUBSET q
  BY DEF CanStart
<1>2. \A t \in CanStart(q, s) : Unlocked(t, q, s)
  BY DEF CanStart
<1> QED
  BY <1>1, <1>2 DEF ProcessQueuedTransactions, Starts

(***************************************************************************)
(* A transaction that ends is an end move, if what becomes durable is its  *)
(* own changes.                                                            *)
(***************************************************************************)
LEMMA FinishMove ==
  ASSUME TypeOK,
         NEW t \in Live, NEW final \in {"deleted", "FINISHED"},
         NEW answer \in {"complete", "abort"},
         NEW w \in SUBSET {next}, \A u \in w : u \in Txn /\ Observer(u),
         Finish(t, final, answer, w),
         durable' = durable \/ (durable' = durable \cup Changes(t) /\ t \in started)
  PROVE  Move
<1>1. Starts(queued \ {t}, started \ {t}, w, [state EXCEPT ![t] = final])
  BY StartsFromCanStart DEF Finish
<1>2. EndMove
  BY <1>1 DEF EndMove
<1>3. PICK S \in SUBSET (queued \ {t}) :
        queued' = (queued \ {t}) \ S /\ started' = (started \ {t}) \cup S \cup w
  BY <1>1 DEF Starts
<1>4. t \in Txn /\ next \notin Live
  BY DEF Live, TypeOK
<1>5. t \notin queued' \cup started'
  BY <1>3, <1>4
<1>6. \A u \in Live : u # t => u \in queued' \cup started'
  BY <1>3, LiveIsHeld
<1>7. AnswerMove
  <2>1. answers' = [answers EXCEPT ![t] = Append(@, answer)]
    BY DEF Finish
  <2>2. Len(answers'[t]) = Len(answers[t]) + 1
    BY <1>4, <2>1, AppendFacts DEF TypeOK
  <2>3. \A u \in Txn : u # t => answers'[u] = answers[u]
    BY <2>1 DEF TypeOK
  <2> QED
    BY <1>5, <1>6, <2>2, <2>3 DEF AnswerMove
<1>8. StorageMove
  <2>1. /\ begun' = (begun \ {t}) \cup w
        /\ snapshot' = [u \in Txn |-> IF u = t THEN {}
                                      ELSE IF u \in w THEN durable' ELSE snapshot[u]]
    BY DEF Finish
  <2>2. begun \subseteq Txn /\ t \notin w
    BY <1>4 DEF TypeOK
  <2>3. \A u \in begun' : \/ u \in begun /\ snapshot'[u] = snapshot[u]
                          \/ snapshot'[u] = durable'
    BY <2>1, <2>2
  <2>4. \A d \in durable' : d \in durable \/ (Writer(d) /\ d \in started /\ d \notin started')
    BY <1>5 DEF Changes
  <2> QED
    BY <2>3, <2>4 DEF StorageMove
<1> QED
  BY <1>2, <1>7, <1>8 DEF Move, CoordinatorMove

LEMMA CloseAllMove ==
  ASSUME TypeOK, CloseAll,
         durable' = durable \/ (\E t \in started : durable' = durable \cup Changes(t))
  PROVE  Move
<1>1. CloseMove
  BY DEF CloseAll, CloseMove
<1>2. StorageMove
  BY DEF CloseAll, StorageMove, Changes
<1>3. AnswerMove
  <2>1. \A t \in Txn : t \in Live => Len(Append(answers[t], "abort")) = Len(answers[t]) + 1
    BY AppendFacts DEF TypeOK
  <2> QED
    BY <2>1 DEF CloseAll, AnswerMove
<1> QED
  BY <1>1, <1>2, <1>3 DEF Move, CoordinatorMove

(***************************************************************************)
(* What leaves the coordinator alone.                                      *)
(***************************************************************************)
LEMMA QuietMove ==
  ASSUME TypeOK,
         UNCHANGED <<coordinator, next, answers>>,
         state' = state \/ (\E t \in started : state' = [state EXCEPT ![t] = "COMMITTING"]),
         UNCHANGED <<begun, snapshot, durable>> \/ (\E t \in started : Begin(t))
  PROVE  Move
<1>1. StayMove
  <2>1. CASE state' = state
    <3>1. state' = [t \in Txn |-> IF t \in {} THEN "COMMITTING" ELSE state[t]]
      BY <2>1 DEF TypeOK
    <3>2. {} \in SUBSET started /\ UNCHANGED <<queued, started, next>>
      BY DEF coordinator
    <3> QED
      BY <3>1, <3>2 DEF StayMove
  <2>2. ASSUME NEW t \in started, state' = [state EXCEPT ![t] = "COMMITTING"]
        PROVE  StayMove
    <3>1. state' = [u \in Txn |-> IF u \in {t} THEN "COMMITTING" ELSE state[u]]
      BY <2>2 DEF TypeOK
    <3>2. {t} \in SUBSET started /\ UNCHANGED <<queued, started, next>>
      BY <2>2 DEF coordinator
    <3> QED
      BY <3>1, <3>2 DEF StayMove
  <2> QED
    BY <2>1, <2>2
<1>2. StorageMove
  <2>1. CASE UNCHANGED <<begun, snapshot, durable>>
    BY <2>1 DEF StorageMove
  <2>2. ASSUME NEW t \in started, Begin(t) PROVE StorageMove
    <3>1. t \in Txn /\ begun \subseteq Txn
      BY DEF TypeOK
    <3> QED
      BY <2>2, <3>1 DEF Begin, StorageMove, TypeOK
  <2> QED
    BY <2>1, <2>2
<1>3. AnswerMove
  BY LiveIsHeld DEF AnswerMove, coordinator
<1> QED
  BY <1>1, <1>2, <1>3 DEF Move, CoordinatorMove

LEMMA AbortMove ==
  ASSUME TypeOK, NEW t \in Live, Abort(t)
  PROVE  Move
<1>1. Finish(t, "deleted", "abort", {}) /\ durable' = durable
  BY DEF Abort
<1> QED
  BY <1>1, FinishMove

LEMMA CommitPhaseTwoMove ==
  ASSUME TypeOK, NEW t \in started, CommitPhaseTwo(t)
  PROVE  Move
<1>1. t \in Live
  BY LiveIsHeld
<1>2. CASE durable' = durable \cup Changes(t) /\ Finish(t, "deleted", "complete", {})
  BY <1>1, <1>2, FinishMove
<1>3. CASE /\ durable' = durable \cup Changes(t)
           /\ next \in Txn /\ mode[next] = "observer"
           /\ Finish(t, "deleted", "complete", {next})
  <2>1. {next} \in SUBSET {next} /\ \A u \in {next} : u \in Txn /\ Observer(u)
    BY <1>3 DEF Observer
  <2> QED
    BY <1>1, <1>3, <2>1, FinishMove
<1>4. CASE durable' \in {durable, durable \cup Changes(t)} /\ CloseAll
  BY <1>4, CloseAllMove
<1>5. CASE Finish(t, "FINISHED", "abort", {}) /\ UNCHANGED <<durable, closed>>
  BY <1>1, <1>5, FinishMove
<1> QED
  BY <1>2, <1>3, <1>4, <1>5 DEF CommitPhaseTwo

LEMMA StartCommittingMove ==
  ASSUME TypeOK, NEW t \in started, StartCommitting(t)
  PROVE  Move
<1>1. CASE CommitPhaseTwo(t)
  BY <1>1, CommitPhaseTwoMove
<1>2. CASE CloseAll /\ UNCHANGED <<durable, writing>>
  BY <1>2, CloseAllMove
<1>3. CASE /\ state' = [state EXCEPT ![t] = "COMMITTING"]
           /\ Begin(t)
           /\ UNCHANGED <<coordinator, next, answers>>
  BY <1>3, QuietMove
<1> QED
  BY <1>1, <1>2, <1>3 DEF StartCommitting

LEMMA CommitMove ==
  ASSUME TypeOK, NEW t \in Txn, Commit(t)
  PROVE  Move
<1>1. CASE UNCHANGED <<coordinator, next, answers, state, storage>>
  BY <1>1, QuietMove DEF storage
<1>2. CASE state[t] = "STARTED" /\ StartCommitting(t)
  <2>1. t \in started
    BY <1>2 DEF TypeOK
  <2> QED
    BY <1>2, <2>1, StartCommittingMove
<1> QED
  BY <1>1, <1>2 DEF Commit

(***************************************************************************)
(* Every step of the specification is one of the moves.                    *)
(***************************************************************************)
LEMMA StepIsMove ==
  ASSUME TypeOK, [Next]_vars
  PROVE  Move /\ UNCHANGED attributes
<1>1. UNCHANGED attributes
  <2>1. \A t \in Txn : Abort(t) => UNCHANGED attributes
    BY DEF Abort, Finish
  <2>2. \A t \in Txn : CommitPhaseTwo(t) => UNCHANGED attributes
    BY DEF CommitPhaseTwo, Finish, CloseAll
  <2>3. \A t \in Txn : StartCommitting(t) => UNCHANGED attributes
    BY <2>2 DEF StartCommitting, CloseAll
  <2>4. \A t \in Txn : Commit(t) => UNCHANGED attributes
    BY <2>3 DEF Commit
  <2>5. \A t \in Txn : ProcessTaskQueue(t) => UNCHANGED attributes
    BY <2>3 DEF ProcessTaskQueue, CloseAll
  <2>6. \A t \in Txn : RequestCommit(t) \/ ScheduleTask(t) => UNCHANGED attributes
    BY <2>4 DEF RequestCommit, ScheduleTask
  <2>7. CreateTransaction \/ ForceClose \/ UNCHANGED vars => UNCHANGED attributes
    BY DEF CreateTransaction, ForceClose, CloseAll, vars
  <2> QED
    BY <2>1, <2>2, <2>4, <2>5, <2>6, <2>7
    DEF Next, OnGotUsageAndQuotaForCommit, AbortTransaction, CommitUnused,
        BlobWriteComplete, Timeout
<1>2. CASE CreateTransaction
  <2>1. CreateMove
    BY <1>2, StartsFromCanStart DEF CreateTransaction, CreateMove
  <2>2. StorageMove
    BY <1>2 DEF CreateTransaction, StorageMove, storage
  <2>3. PICK S \in SUBSET (queued \cup {next}) :
          queued' = (queued \cup {next}) \ S /\ started' = started \cup S
    BY <2>1 DEF CreateMove, Starts
  <2>4. answers' = answers /\ Live \subseteq queued' \cup started'
    BY <1>2, <2>3, LiveIsHeld DEF CreateTransaction
  <2>5. AnswerMove
    BY <2>4 DEF AnswerMove
  <2>6. CoordinatorMove
    BY <2>1 DEF CoordinatorMove
  <2> QED
    BY <1>1, <2>2, <2>5, <2>6 DEF Move
<1>3. CASE ForceClose
  <2>1. CloseAll /\ durable' = durable
    BY <1>3 DEF ForceClose
  <2> QED
    BY <1>1, <2>1, CloseAllMove
<1>4. ASSUME NEW t \in Txn, ScheduleTask(t) PROVE Move
  BY <1>4, QuietMove DEF ScheduleTask, storage
<1>5. ASSUME NEW t \in Txn, RequestCommit(t) PROVE Move
  <2>1. CASE UNCHANGED <<coordinator, next, answers, state, storage>>
    BY <2>1, QuietMove DEF storage
  <2> QED
    BY <1>5, <2>1, CommitMove DEF RequestCommit
<1>6. ASSUME NEW t \in Txn, OnGotUsageAndQuotaForCommit(t) PROVE Move
  <2>1. t \in Live
    BY <1>6, LiveIsHeld DEF OnGotUsageAndQuotaForCommit, TypeOK
  <2> QED
    BY <1>6, <2>1, CommitMove, AbortMove DEF OnGotUsageAndQuotaForCommit
<1>7. ASSUME NEW t \in Txn, AbortTransaction(t) PROVE Move
  BY <1>7, AbortMove DEF AbortTransaction
<1>8. ASSUME NEW t \in Txn, ProcessTaskQueue(t) PROVE Move
  <2>1. t \in started
    BY <1>8 DEF ProcessTaskQueue, TypeOK
  <2>2. CASE StartCommitting(t)
    BY <2>1, <2>2, StartCommittingMove
  <2>3. CASE CloseAll /\ UNCHANGED <<durable, writing>>
    BY <2>3, CloseAllMove
  <2>4. CASE Begin(t) /\ UNCHANGED <<coordinator, next, answers, state>>
    BY <2>1, <2>4, QuietMove
  <2> QED
    BY <1>8, <2>2, <2>3, <2>4 DEF ProcessTaskQueue
<1>9. ASSUME NEW t \in Txn, CommitUnused(t) PROVE Move
  BY <1>9, CommitMove DEF CommitUnused
<1>10. ASSUME NEW t \in Txn, BlobWriteComplete(t) PROVE Move
  <2>1. CASE state[t] = "COMMITTING" /\ (CommitPhaseTwo(t) \/ Abort(t))
    <3>1. t \in started
      BY <2>1 DEF TypeOK
    <3>2. t \in Live
      BY <3>1, LiveIsHeld
    <3> QED
      BY <2>1, <3>1, <3>2, CommitPhaseTwoMove, AbortMove
  <2>2. CASE UNCHANGED <<coordinator, next, answers, state, begun, snapshot, durable>>
    BY <2>2, QuietMove
  <2> QED
    BY <1>10, <2>1, <2>2 DEF BlobWriteComplete
<1>11. ASSUME NEW t \in Txn, Timeout(t) PROVE Move
  <2>1. t \in Live
    BY <1>11, LiveIsHeld DEF Timeout, TypeOK
  <2> QED
    BY <1>11, <2>1, AbortMove DEF Timeout
<1>12. CASE UNCHANGED vars
  <2>1. UNCHANGED <<coordinator, next, answers, state, storage>>
    BY <1>12 DEF vars
  <2>2. /\ state' = state /\ UNCHANGED <<begun, snapshot, durable>>
        /\ UNCHANGED <<coordinator, next, answers>>
    BY <2>1 DEF storage
  <2> QED
    BY <1>1, <2>2, QuietMove
<1> QED
  BY <1>1, <1>2, <1>3, <1>4, <1>5, <1>6, <1>7, <1>8, <1>9, <1>10, <1>11, <1>12 DEF Next

-----------------------------------------------------------------------------
(* Who runs with whom. *)

LEMMA OrderOfTxn == \A t, u \in Txn : t < u \/ u < t \/ t = u
BY DEF Txn

LEMMA ShareSymmetric == \A t, u : Share(t, u) <=> Share(u, t)
BY DEF Share

(***************************************************************************)
(* The newcomers of a pass share no store with a writer that was running,  *)
(* nor with one created before them that waits or starts with them.        *)
(***************************************************************************)
LEMMA NewcomersKeepOrder ==
  ASSUME TypeOK, CoordinatorMove, UNCHANGED attributes
  PROVE  /\ \A t \in started' \ started, u \in Txn :
              /\ Writer(u) /\ Share(t, u) /\ ~Observer(t) /\ t # u
              /\ u \in started \cap started' \/ (u < t /\ u \in queued' \cup started')
              => FALSE
         /\ \A t \in started' \ started : Observer(t) => ~Writer(t)
<1> SUFFICES ASSUME NEW t \in started' \ started, NEW u \in Txn,
                    Writer(u), Share(t, u), ~Observer(t), t # u,
                    u \in started \cap started' \/ (u < t /\ u \in queued' \cup started')
             PROVE  FALSE
  BY DEF Observer, Writer
<1>1. CASE StayMove
  BY <1>1 DEF StayMove
<1>2. CASE CloseMove
  BY <1>2 DEF CloseMove
<1>3. ASSUME NEW q, NEW s, NEW w, NEW st, Starts(q, s, w, st), s \subseteq started,
             q \cap started = {}, \A v \in w : Observer(v)
      PROVE  FALSE
  <2>1. PICK S \in SUBSET q :
          /\ \A v \in S : Unlocked(v, q, s)
          /\ queued' = q \ S /\ started' = s \cup S \cup w
    BY <1>3 DEF Starts
  <2>2. t \in S /\ Unlocked(t, q, s)
    BY <1>3, <2>1
  <2>3. u \notin w
    BY <1>3 DEF Observer, Writer
  <2>4. u \in s \/ (u < t /\ u \in q)
    BY <1>3, <2>1, <2>2, <2>3
  <2> QED
    BY <2>2, <2>4 DEF Unlocked
<1>4. CASE EndMove
  <2>1. PICK t0 \in Live, final \in {"deleted", "FINISHED"}, w \in SUBSET {next} :
          /\ \A v \in w : v \in Txn /\ Observer(v)
          /\ Starts(queued \ {t0}, started \ {t0}, w, [state EXCEPT ![t0] = final])
    BY <1>4 DEF EndMove
  <2>2. (queued \ {t0}) \cap started = {}
    BY DEF TypeOK
  <2> QED
    BY <1>3, <2>1, <2>2
<1>5. CASE CreateMove
  <2>1. (queued \cup {next}) \cap started = {}
    <3>1. next \in Txn /\ next >= next
      BY <1>5, ConstantsAssumption DEF CreateMove, Txn
    <3>2. state[next] = "none"
      BY <3>1 DEF TypeOK
    <3> QED
      BY <3>2 DEF TypeOK
  <2> QED
    BY <1>3, <1>5, <2>1 DEF CreateMove
<1> QED
  BY <1>1, <1>2, <1>4, <1>5 DEF CoordinatorMove

(***************************************************************************)
(* Writers run alone: of two that share a store and both run after a step, *)
(* the later to start would have met the other in the pass.                *)
(***************************************************************************)
LEMMA MoveKeepsWritersAlone ==
  ASSUME TypeOK, TypeOK', CoordinatorMove, UNCHANGED attributes, WritersRunAlone
  PROVE  WritersRunAlone'
<1> SUFFICES ASSUME NEW t \in started', NEW u \in started', Writer(t), Writer(u), t # u,
                    Share(t, u)
             PROVE  FALSE
  BY DEF WritersRunAlone, Writer, Share, attributes
<1>1. t \in Txn /\ u \in Txn /\ ~Observer(t) /\ ~Observer(u)
  BY DEF TypeOK, Observer, Writer
<1>2. CASE t \in started /\ u \in started
  BY <1>2 DEF WritersRunAlone
<1>3. CASE t \notin started /\ u \in started
  BY <1>1, <1>3, NewcomersKeepOrder
<1>4. CASE t \in started /\ u \notin started
  BY <1>1, <1>4, NewcomersKeepOrder, ShareSymmetric
<1>5. CASE t \notin started /\ u \notin started
  BY <1>1, <1>5, NewcomersKeepOrder, ShareSymmetric, OrderOfTxn
<1> QED
  BY <1>2, <1>3, <1>4, <1>5

(***************************************************************************)
(* Two running writers never share a store.                                *)
(***************************************************************************)
THEOREM WritersRunAloneHolds == Spec => []WritersRunAlone
<1>1. Init => WritersRunAlone
  BY DEF Init, WritersRunAlone
<1>2. TypeOK /\ TypeOK' /\ WritersRunAlone /\ [Next]_vars => WritersRunAlone'
  BY StepIsMove, MoveKeepsWritersAlone DEF Move
<1> QED
  BY <1>1, <1>2, TypeCorrect, PTL DEF Spec

(***************************************************************************)
(* The transactions a step leaves to the coordinator were there before, or *)
(* were created by it, or are an observer; a new one is the last of all.   *)
(***************************************************************************)
LEMMA LiveComesFrom ==
  ASSUME TypeOK, TypeOK', CoordinatorMove
  PROVE  /\ Live' \subseteq Live \cup {next}
         /\ \A t \in Live \cup Live' : t <= next
         /\ started' \subseteq Live \cup {next}
         /\ next \notin Live
<1>1. /\ Live = queued \cup started /\ Live' = queued' \cup started'
  BY DEF TypeOK, Live
<1>2. next \notin Live /\ \A t \in Live : t <= next
  <2>1. next \in Int /\ Txn \subseteq Int /\ Live \subseteq Txn
    BY ConstantsAssumption DEF TypeOK, Live, Txn
  <2>2. \A t \in Live : ~(t >= next)
    BY DEF TypeOK, Live
  <2> QED
    BY <2>1, <2>2
<1>3. Live' \subseteq Live \cup {next}
  <2>1. CASE StayMove
    BY <1>1, <2>1 DEF StayMove
  <2>2. CASE EndMove
    BY <1>1, <2>2 DEF EndMove, Starts
  <2>3. CASE CreateMove
    BY <1>1, <2>3 DEF CreateMove, Starts
  <2>4. CASE CloseMove
    BY <1>1, <2>4 DEF CloseMove
  <2> QED
    BY <2>1, <2>2, <2>3, <2>4 DEF CoordinatorMove
<1>4. next <= next
  BY DEF TypeOK
<1> QED
  BY <1>1, <1>2, <1>3, <1>4

LEMMA MoveKeepsOrder ==
  ASSUME TypeOK, TypeOK', CoordinatorMove, UNCHANGED attributes, NobodyOvertakesAWriter
  PROVE  NobodyOvertakesAWriter'
<1> SUFFICES ASSUME NEW t \in started', NEW u \in Live', u < t, Writer(u), Share(t, u),
                    ~Observer(t)
             PROVE  FALSE
  BY DEF NobodyOvertakesAWriter, Writer, Share, Observer, attributes
<1>1. t \in Txn /\ u \in Txn /\ u \in queued' \cup started' /\ t # u
  BY DEF TypeOK, Live, Txn
<1>2. CASE t \in started /\ u \in Live
  BY <1>2 DEF NobodyOvertakesAWriter
<1>3. CASE t \in started /\ u \notin Live
  <2>1. u = next /\ t <= next
    BY <1>3, LiveComesFrom, LiveIsHeld
  <2> QED
    BY <1>1, <2>1 DEF Txn, TypeOK
<1>4. CASE t \notin started
  BY <1>1, <1>4, NewcomersKeepOrder
<1> QED
  BY <1>2, <1>3, <1>4

(***************************************************************************)
(* Only observers run while an earlier writer that shares a store waits or *)
(* runs.                                                                   *)
(***************************************************************************)
THEOREM NobodyOvertakesAWriterHolds == Spec => []NobodyOvertakesAWriter
<1>1. Init => NobodyOvertakesAWriter
  BY DEF Init, NobodyOvertakesAWriter
<1>2. TypeOK /\ TypeOK' /\ NobodyOvertakesAWriter /\ [Next]_vars => NobodyOvertakesAWriter'
  BY StepIsMove, MoveKeepsOrder DEF Move
<1> QED
  BY <1>1, <1>2, TypeCorrect, PTL DEF Spec

-----------------------------------------------------------------------------
(* The limit. *)

LEMMA LeastElement ==
  ASSUME NEW T \in SUBSET Nat, T # {}
  PROVE  \E m \in T : \A n \in T : ~(n < m)
<1> DEFINE R == OpToRel(<, Nat)
<1>1. IsWellFoundedOn(R, Nat)
  BY NatLessThanWellFounded
<1>2. PICK m \in T : \A n \in T : <<n, m>> \notin R
  <2> HIDE DEF R
  <2> QED
    BY <1>1, WFMin
<1>3. \A n \in T : ~(n < m)
  BY <1>2 DEF OpToRel
<1> QED
  BY <1>3

LEMMA GreatestTxn ==
  ASSUME NEW T \in SUBSET Txn, T # {}
  PROVE  \E m \in T : \A n \in T : ~(m < n)
<1> DEFINE D == {d \in Nat : MaxTransactions - d \in T}
<1>1. \A n \in T : n \in Nat /\ MaxTransactions - n \in D
  BY ConstantsAssumption DEF Txn
<1>2. D # {}
  BY <1>1
<1>3. PICK d \in D : \A e \in D : ~(e < d)
  <2> HIDE DEF D
  <2>1. D \in SUBSET Nat
    BY DEF D
  <2> QED
    BY <1>2, <2>1, LeastElement
<1>4. MaxTransactions - d \in T
  OBVIOUS
<1>5. \A n \in T : ~(MaxTransactions - d < n)
  <2> SUFFICES ASSUME NEW n \in T PROVE ~(MaxTransactions - d < n)
    OBVIOUS
  <2>1. ~(MaxTransactions - n < d)
    BY <1>1, <1>3
  <2>2. n \in Nat /\ d \in Nat
    BY <1>1
  <2> QED
    BY <2>1, <2>2, ConstantsAssumption
<1> QED
  BY <1>4, <1>5

LEMMA TxnSetsAreFinite ==
  ASSUME NEW T \in SUBSET Txn
  PROVE  IsFiniteSet(T) /\ Cardinality(T) \in Nat
<1>1. IsFiniteSet(Txn)
  BY ConstantsAssumption, FS_Interval DEF Txn
<1> QED
  BY <1>1, FS_Subset, FS_CardinalityType

LEMMA TxnUnion ==
  ASSUME NEW T \in SUBSET Txn, NEW U \in SUBSET Txn
  PROVE  /\ Cardinality(T \cup U) <= Cardinality(T) + Cardinality(U)
         /\ T \cap U = {} => Cardinality(T \cup U) = Cardinality(T) + Cardinality(U)
<1>1. IsFiniteSet(T) /\ IsFiniteSet(U)
  BY TxnSetsAreFinite
<1>2. Cardinality(T) \in Nat /\ Cardinality(U) \in Nat /\ Cardinality(T \cap U) \in Nat
  BY TxnSetsAreFinite
<1>3. Cardinality(T \cup U) = Cardinality(T) + Cardinality(U) - Cardinality(T \cap U)
  BY <1>1, FS_Union
<1>4. T \cap U = {} => Cardinality(T \cap U) = 0
  BY FS_EmptySet
<1> QED
  BY <1>2, <1>3, <1>4

\* Those before t in the queue that nothing locks.
Ahead(t, q, s) == {u \in q : u < t /\ Unlocked(u, q, s)}

(***************************************************************************)
(* Whoever is left in the queue though nothing locks him was left for want *)
(* of a place: the first such found all places taken by the started and by *)
(* those that the pass started before it came to him.                      *)
(***************************************************************************)
LEMMA PassForgetsNobody ==
  ASSUME NEW q \in SUBSET Txn, NEW s \in SUBSET Txn, q \cap s = {},
         NEW S, S = CanStart(q, s), NEW w \in SUBSET Txn,
         NEW t \in q \ S, Unlocked(t, q \ S, s \cup S \cup w)
  PROVE  Cardinality(s \cup S \cup w) >= kMaxStartedTransactions
<1> DEFINE A == {v \in q : v \notin S /\ Unlocked(v, q, s)}
<1>1. Unlocked(t, q, s)
  BY DEF Unlocked
<1>2. A # {} /\ A \in SUBSET Nat
  <2>1. t \in A
    BY <1>1
  <2>2. Txn \subseteq Nat
    BY ConstantsAssumption DEF Txn
  <2> QED
    BY <2>1, <2>2
<1>3. PICK m \in A : \A n \in A : ~(n < m)
  <2> HIDE DEF A
  <2> QED
    BY <1>2, LeastElement
<1>4. Ahead(m, q, s) \subseteq S
  BY <1>3 DEF Ahead
<1>5. m \in q /\ m \notin S /\ Unlocked(m, q, s)
  OBVIOUS
<1> HIDE DEF A
<1>6. ~(Cardinality(s) + Cardinality(Ahead(m, q, s)) < kMaxStartedTransactions)
  BY <1>5 DEF CanStart, Ahead
<1>7. Ahead(m, q, s) \in SUBSET Txn /\ s \cap Ahead(m, q, s) = {}
  BY DEF Ahead
<1>8. Cardinality(s \cup Ahead(m, q, s)) = Cardinality(s) + Cardinality(Ahead(m, q, s))
  BY <1>7, TxnUnion
<1>9. S \subseteq Txn
  BY CanStartInQueue
<1>10. IsFiniteSet(s \cup S \cup w) /\ s \cup Ahead(m, q, s) \in SUBSET (s \cup S \cup w)
  BY <1>4, <1>9, TxnSetsAreFinite
<1>11. Cardinality(s \cup Ahead(m, q, s)) <= Cardinality(s \cup S \cup w)
  BY <1>10, FS_Subset
<1>12. Cardinality(s \cup S \cup w) \in Nat /\ Cardinality(s) \in Nat
       /\ Cardinality(Ahead(m, q, s)) \in Nat
  BY <1>7, <1>9, TxnSetsAreFinite
<1> QED
  BY <1>6, <1>8, <1>11, <1>12, ConstantsAssumption

(***************************************************************************)
(* A pass that starts anybody stays within the limit: its last one had a   *)
(* place beside the started and those that the pass started before him.    *)
(***************************************************************************)
LEMMA PassWithinLimit ==
  ASSUME NEW q \in SUBSET Txn, NEW s \in SUBSET Txn, NEW S, S = CanStart(q, s), S # {}
  PROVE  Cardinality(s \cup S) <= kMaxStartedTransactions
<1>1. S \subseteq q /\ S \in SUBSET Txn
  BY CanStartInQueue
<1>2. PICK m \in S : \A n \in S : ~(m < n)
  BY <1>1, GreatestTxn
<1>3. Cardinality(s) + Cardinality(Ahead(m, q, s)) < kMaxStartedTransactions
  BY <1>2 DEF CanStart, Ahead
<1>4. \A n \in S : n = m \/ n \in Ahead(m, q, s)
  BY <1>1, <1>2, OrderOfTxn DEF CanStart, Ahead
<1>5. Ahead(m, q, s) \in SUBSET Txn /\ {m} \in SUBSET Txn
  BY <1>1 DEF Ahead
<1>6. S \in SUBSET (Ahead(m, q, s) \cup {m})
  BY <1>4
<1>7. Cardinality({m}) = 1
  BY FS_Singleton
<1>8. Cardinality(Ahead(m, q, s) \cup {m}) <= Cardinality(Ahead(m, q, s)) + 1
  BY <1>5, <1>7, TxnUnion
<1>9. Cardinality(S) <= Cardinality(Ahead(m, q, s) \cup {m})
  BY <1>5, <1>6, TxnSetsAreFinite, FS_Subset
<1>10. Cardinality(s \cup S) <= Cardinality(s) + Cardinality(S)
  BY <1>1, TxnUnion
<1>11. /\ Cardinality(s) \in Nat /\ Cardinality(S) \in Nat
       /\ Cardinality(s \cup S) \in Nat
       /\ Cardinality(Ahead(m, q, s)) \in Nat
       /\ Cardinality(Ahead(m, q, s) \cup {m}) \in Nat
  BY <1>1, <1>5, TxnSetsAreFinite
<1> QED
  BY <1>3, <1>8, <1>9, <1>10, <1>11, ConstantsAssumption

LEMMA MoveForgetsNobody ==
  ASSUME TypeOK, CoordinatorMove, UNCHANGED attributes, NobodyIsForgotten
  PROVE  NobodyIsForgotten'
<1> SUFFICES ASSUME NEW t \in queued', Unlocked(t, queued', started')
             PROVE  Cardinality(started') >= kMaxStartedTransactions
  BY DEF NobodyIsForgotten, Unlocked, Writer, Share, attributes
<1>1. CASE StayMove
  BY <1>1 DEF StayMove, NobodyIsForgotten
<1>2. CASE CloseMove
  BY <1>2 DEF CloseMove
<1>3. ASSUME NEW q \in SUBSET Txn, NEW s \in SUBSET Txn, NEW w \in SUBSET Txn, NEW st,
             Starts(q, s, w, st), q \cap s = {}
      PROVE  Cardinality(started') >= kMaxStartedTransactions
  <2>1. PICK S \in SUBSET q :
          S = CanStart(q, s) /\ queued' = q \ S /\ started' = s \cup S \cup w
    BY <1>3 DEF Starts
  <2> QED
    BY <1>3, <2>1, PassForgetsNobody
<1>4. CASE EndMove
  <2>1. PICK t0 \in Live, final \in {"deleted", "FINISHED"}, w \in SUBSET {next} :
          /\ \A v \in w : v \in Txn /\ Observer(v)
          /\ Starts(queued \ {t0}, started \ {t0}, w, [state EXCEPT ![t0] = final])
    BY <1>4 DEF EndMove
  <2>2. /\ queued \ {t0} \in SUBSET Txn /\ started \ {t0} \in SUBSET Txn /\ w \in SUBSET Txn
        /\ (queued \ {t0}) \cap (started \ {t0}) = {}
    BY <2>1 DEF TypeOK
  <2> QED
    BY <1>3, <2>1, <2>2
<1>5. CASE CreateMove
  <2>1. /\ queued \cup {next} \in SUBSET Txn /\ started \in SUBSET Txn /\ {} \in SUBSET Txn
        /\ (queued \cup {next}) \cap started = {}
    BY <1>5 DEF TypeOK, CreateMove
  <2> QED
    BY <1>3, <1>5, <2>1 DEF CreateMove
<1> QED
  BY <1>1, <1>2, <1>4, <1>5 DEF CoordinatorMove

(***************************************************************************)
(* Nobody waits in the queue who could run: all places are taken, or a     *)
(* writer that runs or was created earlier locks one of his stores.        *)
(***************************************************************************)
THEOREM NobodyIsForgottenHolds == Spec => []NobodyIsForgotten
<1>1. Init => NobodyIsForgotten
  BY DEF Init, NobodyIsForgotten
<1>2. TypeOK /\ NobodyIsForgotten /\ [Next]_vars => NobodyIsForgotten'
  BY StepIsMove, MoveForgetsNobody DEF Move
<1> QED
  BY <1>1, <1>2, TypeCorrect, PTL DEF Spec

LEMMA MoveKeepsLimit ==
  ASSUME TypeOK, CoordinatorMove, UNCHANGED attributes, StartedWithinLimit
  PROVE  StartedWithinLimit'
<1> DEFINE Counted(s) == {t \in s : ~Observer(t)}
<1>1. \A t : Observer(t)' <=> Observer(t)
  BY DEF Observer, attributes
<1> SUFFICES Cardinality(Counted(started')) <= kMaxStartedTransactions
  BY <1>1 DEF StartedWithinLimit
<1>2. Cardinality(Counted(started)) <= kMaxStartedTransactions
  BY DEF StartedWithinLimit
<1>3. started \in SUBSET Txn
  BY DEF TypeOK
<1>4. ASSUME NEW T \in SUBSET Txn, NEW U \in SUBSET T,
             Cardinality(T) <= kMaxStartedTransactions
      PROVE  Cardinality(U) <= kMaxStartedTransactions
  <2>1. Cardinality(U) <= Cardinality(T)
    BY TxnSetsAreFinite, FS_Subset
  <2>2. Cardinality(U) \in Nat /\ Cardinality(T) \in Nat
    BY TxnSetsAreFinite
  <2> QED
    BY <1>4, <2>1, <2>2, ConstantsAssumption
<1>5. CASE started' \subseteq started
  <2>1. Counted(started) \in SUBSET Txn /\ Counted(started') \in SUBSET Counted(started)
    BY <1>3, <1>5
  <2> HIDE DEF Counted
  <2> QED
    BY <1>2, <1>4, <2>1
<1>6. ASSUME NEW q \in SUBSET Txn, NEW s \in SUBSET started, NEW w, NEW st,
             Starts(q, s, w, st), \A v \in w : Observer(v)
      PROVE  Cardinality(Counted(started')) <= kMaxStartedTransactions
  <2>1. PICK S \in SUBSET q : S = CanStart(q, s) /\ started' = s \cup S \cup w
    BY <1>6 DEF Starts
  <2>2. CASE S = {}
    <3>1. Counted(started) \in SUBSET Txn /\ Counted(started') \in SUBSET Counted(started)
      BY <1>3, <1>6, <2>1, <2>2
    <3> HIDE DEF Counted
    <3> QED
      BY <1>2, <1>4, <3>1
  <2>3. CASE S # {}
    <3>1. s \in SUBSET Txn /\ s \cup S \in SUBSET Txn
      BY <1>3
    <3>2. Counted(started') \in SUBSET (s \cup S)
      BY <1>6, <2>1
    <3>3. Cardinality(s \cup S) <= kMaxStartedTransactions
      BY <2>1, <2>3, <3>1, PassWithinLimit
    <3> HIDE DEF Counted
    <3> QED
      BY <1>4, <3>1, <3>2, <3>3
  <2> QED
    BY <2>2, <2>3
<1>7. CASE StayMove
  BY <1>5, <1>7 DEF StayMove
<1>8. CASE CloseMove
  BY <1>5, <1>8 DEF CloseMove
<1>9. CASE EndMove
  <2>1. PICK t0 \in Live, final \in {"deleted", "FINISHED"}, w \in SUBSET {next} :
          /\ \A v \in w : v \in Txn /\ Observer(v)
          /\ Starts(queued \ {t0}, started \ {t0}, w, [state EXCEPT ![t0] = final])
    BY <1>9 DEF EndMove
  <2>2. queued \ {t0} \in SUBSET Txn /\ started \ {t0} \in SUBSET started
    BY DEF TypeOK
  <2> HIDE DEF Counted
  <2> QED
    BY <1>6, <2>1, <2>2
<1>10. CASE CreateMove
  <2>1. queued \cup {next} \in SUBSET Txn /\ started \in SUBSET started
    BY <1>10 DEF TypeOK, CreateMove
  <2>2. Starts(queued \cup {next}, started, {}, [state EXCEPT ![next] = "CREATED"])
    BY <1>10 DEF CreateMove
  <2> HIDE DEF Counted
  <2> QED
    BY <1>6, <2>1, <2>2
<1> QED
  BY <1>7, <1>8, <1>9, <1>10 DEF CoordinatorMove

(***************************************************************************)
(* Never more than kMaxStartedTransactions run beside the observers.       *)
(***************************************************************************)
THEOREM StartedWithinLimitHolds == Spec => []StartedWithinLimit
<1>1. Init => StartedWithinLimit
  <2>1. Init => {t \in started : ~Observer(t)} = {}
    BY DEF Init
  <2> QED
    BY <2>1, FS_EmptySet, ConstantsAssumption DEF StartedWithinLimit
<1>2. TypeOK /\ StartedWithinLimit /\ [Next]_vars => StartedWithinLimit'
  BY StepIsMove, MoveKeepsLimit DEF Move
<1> QED
  BY <1>1, <1>2, TypeCorrect, PTL DEF Spec

-----------------------------------------------------------------------------
(* The loop. *)

\* What the loop has before it comes to i + 1.
PassAt(q, s, i) ==
  [ started |-> s \cup {t \in CanStart(q, s) : t <= i},
    locked  |-> LockedBy(s \cup {t \in q : t <= i}) ]

LEMMA NothingLocked ==
  ASSUME NEW t, NEW P
  PROVE  scope[t] \cap LockedBy(P) = {} <=> \A u \in P : Writer(u) => ~Share(t, u)
BY DEF LockedBy, Share

LEMMA LocksGrow ==
  ASSUME NEW t, NEW P
  PROVE  LockedBy(P \cup {t}) = IF Writer(t) THEN LockedBy(P) \cup scope[t] ELSE LockedBy(P)
BY DEF LockedBy

(***************************************************************************)
(* The loop finds a place for t, whom nothing locks, just when those ahead *)
(* of t leave one: if one of them had to wait, that was for want of a      *)
(* place, and there is none for t either.                                  *)
(***************************************************************************)
LEMMA PlaceForNext ==
  ASSUME NEW q \in SUBSET Txn, NEW s \in SUBSET Txn, q \cap s = {}, NEW t \in q
  PROVE  Cardinality(s \cup {u \in CanStart(q, s) : u < t}) < kMaxStartedTransactions
           <=> Cardinality(s) + Cardinality(Ahead(t, q, s)) < kMaxStartedTransactions
<1> DEFINE C == {u \in CanStart(q, s) : u < t}
<1>1. C \subseteq Ahead(t, q, s) /\ C \in SUBSET Txn /\ Ahead(t, q, s) \in SUBSET Txn
  BY DEF CanStart, Ahead
<1>2. s \cap C = {} /\ s \cap Ahead(t, q, s) = {}
  BY DEF CanStart, Ahead
<1> HIDE DEF C
<1>3. Cardinality(s \cup C) = Cardinality(s) + Cardinality(C)
  BY <1>1, <1>2, TxnUnion
<1>4. /\ Cardinality(s) \in Nat /\ Cardinality(C) \in Nat
      /\ Cardinality(Ahead(t, q, s)) \in Nat
      /\ Cardinality(C) <= Cardinality(Ahead(t, q, s))
  BY <1>1, TxnSetsAreFinite, FS_Subset
<1>5. CASE C = Ahead(t, q, s)
  BY <1>3, <1>5 DEF C
<1>6. CASE C # Ahead(t, q, s)
  <2> DEFINE A == Ahead(t, q, s) \ C
  <2>1. A # {} /\ A \in SUBSET Nat
    <3>1. Txn \subseteq Nat
      BY ConstantsAssumption DEF Txn
    <3> QED
      BY <1>1, <1>6, <3>1
  <2>2. PICK m \in A : \A n \in A : ~(n < m)
    <3> HIDE DEF A
    <3> QED
      BY <2>1, LeastElement
  <2>3. m \in q /\ m < t /\ Unlocked(m, q, s) /\ m \notin CanStart(q, s)
    BY DEF Ahead, C
  <2>4. Ahead(m, q, s) \subseteq C
    <3> SUFFICES ASSUME NEW n \in Ahead(m, q, s) PROVE n \in C
      OBVIOUS
    <3>1. n < m /\ n \in Txn /\ m \in Txn /\ t \in Txn /\ Txn \subseteq Int
      BY <2>3, ConstantsAssumption DEF Ahead, Txn
    <3>2. n < t
      BY <2>3, <3>1
    <3>3. n \in Ahead(t, q, s)
      BY <3>2 DEF Ahead
    <3> QED
      BY <2>2, <3>1, <3>3
  <2>5. ~(Cardinality(s) + Cardinality(Ahead(m, q, s)) < kMaxStartedTransactions)
    BY <2>3 DEF CanStart, Ahead
  <2>6. /\ Cardinality(Ahead(m, q, s)) <= Cardinality(C)
        /\ Cardinality(Ahead(m, q, s)) \in Nat
    BY <1>1, <2>4, TxnSetsAreFinite, FS_Subset
  <2>7. ~(Cardinality(s \cup C) < kMaxStartedTransactions)
    BY <1>3, <1>4, <2>5, <2>6, ConstantsAssumption
  <2>8. ~(Cardinality(s) + Cardinality(Ahead(t, q, s)) < kMaxStartedTransactions)
    BY <1>4, <2>5, <2>6, ConstantsAssumption
  <2> QED
    BY <2>7, <2>8 DEF C
<1> QED
  BY <1>5, <1>6

LEMMA TurnIsRight ==
  ASSUME NEW q \in SUBSET Txn, NEW s \in SUBSET Txn, q \cap s = {}, NEW t \in Txn
  PROVE  PassAt(q, s, t) = IF t \in q THEN LoopTurn(PassAt(q, s, t - 1), t)
                                      ELSE PassAt(q, s, t - 1)
<1>1. Txn \subseteq Int
  BY ConstantsAssumption DEF Txn
<1>2. \A u \in Txn : /\ u <= t <=> u <= t - 1 \/ u = t
                     /\ u <= t - 1 <=> u < t
                     /\ u <= t => u < t \/ u = t
  BY <1>1
<1>3. CanStart(q, s) \subseteq q
  BY CanStartInQueue
<1>4. CASE t \notin q
  <2>1. {u \in CanStart(q, s) : u <= t} = {u \in CanStart(q, s) : u <= t - 1}
    BY <1>2, <1>3, <1>4
  <2>2. {u \in q : u <= t} = {u \in q : u <= t - 1}
    BY <1>2, <1>4
  <2> QED
    BY <1>4, <2>1, <2>2 DEF PassAt
<1>5. CASE t \in q
  <2> DEFINE C == {u \in CanStart(q, s) : u < t}
             P == s \cup {u \in q : u < t}
  <2>1. PassAt(q, s, t - 1) = [started |-> s \cup C, locked |-> LockedBy(P)]
    <3>1. {u \in CanStart(q, s) : u <= t - 1} = C
      BY <1>2, <1>3
    <3>2. {u \in q : u <= t - 1} = {u \in q : u < t}
      BY <1>2
    <3> QED
      BY <3>1, <3>2 DEF PassAt
  <2>2. s \cup {u \in q : u <= t} = P \cup {t}
    BY <1>2, <1>5
  <2>3. scope[t] \cap LockedBy(P) = {} <=> Unlocked(t, q, s)
    BY NothingLocked DEF Unlocked
  <2>4. Cardinality(s \cup C) < kMaxStartedTransactions
          <=> Cardinality(s) + Cardinality(Ahead(t, q, s)) < kMaxStartedTransactions
    BY <1>5, PlaceForNext
  <2>5. t \in CanStart(q, s) <=>
          Cardinality(s \cup C) < kMaxStartedTransactions /\ scope[t] \cap LockedBy(P) = {}
    <3> HIDE DEF C, P
    <3> QED
      BY <1>5, <2>3, <2>4 DEF CanStart, Ahead
  <2>6. s \cup {u \in CanStart(q, s) : u <= t} =
          IF t \in CanStart(q, s) THEN (s \cup C) \cup {t} ELSE s \cup C
    BY <1>2, <1>3
  <2>7. LockedBy(P \cup {t}) = IF Writer(t) THEN LockedBy(P) \cup scope[t] ELSE LockedBy(P)
    BY LocksGrow
  <2> HIDE DEF C, P
  <2>8. PassAt(q, s, t) = [started |-> s \cup {u \in CanStart(q, s) : u <= t},
                           locked  |-> LockedBy(P \cup {t})]
    BY <2>2 DEF PassAt
  <2>9. LoopTurn(PassAt(q, s, t - 1), t) =
          [ started |-> IF /\ Cardinality(s \cup C) < kMaxStartedTransactions
                           /\ scope[t] \cap LockedBy(P) = {}
                        THEN (s \cup C) \cup {t} ELSE s \cup C,
            locked  |-> IF Writer(t) THEN LockedBy(P) \cup scope[t] ELSE LockedBy(P) ]
    <3>1. /\ PassAt(q, s, t - 1).started = s \cup C
          /\ PassAt(q, s, t - 1).locked = LockedBy(P)
      BY <2>1
    <3> QED
      BY <3>1 DEF LoopTurn
  <2> QED
    BY <1>5, <2>5, <2>6, <2>7, <2>8, <2>9
<1> QED
  BY <1>4, <1>5

(***************************************************************************)
(* The turns of ProcessQueuedTransactions, one after the other, start just *)
(* those that CanStart has, for any queue and any set of started ones.  A  *)
(* function that takes the turns exists, since PassAt does; and any two    *)
(* agree, since there is no first place where they differ.                 *)
(***************************************************************************)
THEOREM LoopIsCanStart ==
  ASSUME NEW q \in SUBSET Txn, NEW s \in SUBSET Txn, q \cap s = {}
  PROVE  LoopStarts(q, s) = CanStart(q, s)
<1> DEFINE Turns(f) == [i \in 0..MaxTransactions |->
                          IF i = 0 THEN [started |-> s, locked |-> LockedBy(s)]
                          ELSE IF i \in q THEN LoopTurn(f[i - 1], i) ELSE f[i - 1]]
           pass == CHOOSE f : f = Turns(f)
           right == [i \in 0..MaxTransactions |-> PassAt(q, s, i)]
<1>1. LoopStarts(q, s) = pass[MaxTransactions].started \ s
  BY DEF LoopStarts
<1>2. right = Turns(right)
  <2> SUFFICES ASSUME NEW i \in 0..MaxTransactions
               PROVE  PassAt(q, s, i) = IF i = 0 THEN [started |-> s, locked |-> LockedBy(s)]
                                        ELSE IF i \in q THEN LoopTurn(right[i - 1], i)
                                        ELSE right[i - 1]
    OBVIOUS
  <2>1. CASE i = 0
    <3>1. \A t \in Txn : ~(t <= 0)
      BY ConstantsAssumption DEF Txn
    <3>2. {t \in CanStart(q, s) : t <= 0} = {} /\ {t \in q : t <= 0} = {}
      BY <3>1, CanStartInQueue
    <3>3. PassAt(q, s, 0) = [started |-> s \cup {}, locked |-> LockedBy(s \cup {})]
      BY <3>2 DEF PassAt
    <3> QED
      BY <2>1, <3>3
  <2>2. CASE i # 0
    <3>1. i \in Txn /\ i - 1 \in 0..MaxTransactions
      BY <2>2, ConstantsAssumption DEF Txn
    <3>2. right[i - 1] = PassAt(q, s, i - 1)
      BY <3>1
    <3> HIDE DEF right
    <3> QED
      BY <2>2, <3>1, <3>2, TurnIsRight
  <2> QED
    BY <2>1, <2>2
<1>3. pass = Turns(pass)
  <2> HIDE DEF right, Turns
  <2> QED
    BY <1>2
<1>4. \A i \in 0..MaxTransactions : pass[i] = right[i]
  <2> DEFINE D == {i \in 0..MaxTransactions : pass[i] # right[i]}
  <2> SUFFICES ASSUME D # {} PROVE FALSE
    OBVIOUS
  <2>1. D \in SUBSET Nat
    BY ConstantsAssumption
  <2>2. PICK i \in D : \A j \in D : ~(j < i)
    <3> HIDE DEF D
    <3> QED
      BY <2>1, LeastElement
  <2>3. i \in 0..MaxTransactions /\ pass[i] # right[i]
    OBVIOUS
  <2>4. i # 0 => i - 1 \in 0..MaxTransactions /\ pass[i - 1] = right[i - 1]
    <3> HIDE DEF pass, right
    <3> SUFFICES ASSUME i # 0
                 PROVE  i - 1 \in 0..MaxTransactions /\ i - 1 \notin D
      BY DEF D
    <3> HIDE DEF D
    <3> QED
      BY <2>2, <2>3, ConstantsAssumption
  <2> HIDE DEF pass, right, D
  <2>5. pass[i] = right[i]
    BY <1>2, <1>3, <2>3, <2>4
  <2> QED
    BY <2>3, <2>5
<1>5. pass[MaxTransactions] = PassAt(q, s, MaxTransactions)
  <2> HIDE DEF pass
  <2> QED
    BY <1>4, ConstantsAssumption
<1>6. {t \in CanStart(q, s) : t <= MaxTransactions} = CanStart(q, s)
  <2>1. \A t \in Txn : t <= MaxTransactions
    BY ConstantsAssumption DEF Txn
  <2> QED
    BY <2>1, CanStartInQueue
<1>7. CanStart(q, s) \cap s = {}
  BY CanStartInQueue
<1>8. pass[MaxTransactions].started = s \cup CanStart(q, s)
  <2> HIDE DEF pass
  <2> QED
    BY <1>5, <1>6 DEF PassAt
<1> HIDE DEF pass
<1> QED
  BY <1>1, <1>7, <1>8

(***************************************************************************)
(* The coordinator never stands still: while transactions are queued, one  *)
(* is started, and so there will be an end after which it looks again.     *)
(***************************************************************************)
THEOREM QueueNeverStandsStill == Spec => [](queued # {} => started # {})
<1>1. TypeOK /\ NobodyIsForgotten => (queued # {} => started # {})
  <2> SUFFICES ASSUME TypeOK, NobodyIsForgotten, queued # {}, started = {} PROVE FALSE
    OBVIOUS
  <2>1. queued \in SUBSET Nat
    BY ConstantsAssumption DEF TypeOK, Txn
  <2>2. PICK t \in queued : \A u \in queued : ~(u < t)
    BY <2>1, LeastElement
  <2>3. Unlocked(t, queued, started)
    BY <2>2 DEF Unlocked
  <2>4. Cardinality(started) >= kMaxStartedTransactions
    BY <2>3 DEF NobodyIsForgotten
  <2>5. Cardinality(started) = 0
    BY FS_EmptySet
  <2> QED
    BY <2>4, <2>5, ConstantsAssumption
<1> QED
  BY <1>1, TypeCorrect, NobodyIsForgottenHolds, PTL

-----------------------------------------------------------------------------
(* What the front end is told. *)

(***************************************************************************)
(* The front end hears of the end of a transaction exactly once.           *)
(***************************************************************************)
THEOREM AnsweredOnceHolds == Spec => []AnsweredOnce
<1>1. Init => AnsweredOnce
  BY ConstantsAssumption DEF Init, AnsweredOnce, Live, Txn
<1>2. TypeOK /\ TypeOK' /\ AnsweredOnce /\ [Next]_vars => AnsweredOnce'
  <2> SUFFICES ASSUME TypeOK, TypeOK', AnsweredOnce, [Next]_vars, NEW t \in Txn
               PROVE  Len(answers'[t]) = IF t \in Live' \/ t >= next' THEN 0 ELSE 1
    BY DEF AnsweredOnce
  <2>1. AnswerMove /\ CoordinatorMove
    BY StepIsMove DEF Move
  <2>2. Live' = queued' \cup started' /\ Live' \subseteq Live \cup {next}
    <3>1. Live' = queued' \cup started'
      BY DEF TypeOK, Live
    <3> QED
      BY <2>1, <3>1, LiveComesFrom
  <2>3. /\ t >= next <=> state[t] = "none"
        /\ t >= next' <=> state'[t] = "none"
    BY DEF TypeOK
  <2>4. state[t] # "none" => state'[t] # "none"
    <3> HAVE state[t] # "none"
    <3>1. CASE StayMove
      BY <3>1 DEF StayMove
    <3>2. CASE EndMove
      BY <3>2 DEF EndMove, Starts, TypeOK
    <3>3. CASE CreateMove
      BY <3>3 DEF CreateMove, Starts, TypeOK
    <3>4. CASE CloseMove
      BY <3>4 DEF CloseMove
    <3> QED
      BY <2>1, <3>1, <3>2, <3>3, <3>4 DEF CoordinatorMove
  <2>5. t \in Live => state[t] # "none"
    BY DEF Live
  <2>6. state[t] = "none" /\ t \notin Live' => state'[t] = "none"
    <3> SUFFICES ASSUME state[t] = "none", t \notin Live' PROVE state'[t] = "none"
      OBVIOUS
    <3>1. CASE StayMove
      BY <3>1 DEF StayMove, TypeOK
    <3>2. CASE EndMove
      BY <3>2 DEF EndMove, Starts, TypeOK, Live
    <3>3. CASE CreateMove
      BY <3>3 DEF CreateMove, Starts, TypeOK, Live
    <3>4. CASE CloseMove
      BY <3>4 DEF CloseMove
    <3> QED
      BY <2>1, <3>1, <3>2, <3>3, <3>4 DEF CoordinatorMove
  <2>7. /\ Len(answers[t]) = IF t \in Live \/ t >= next THEN 0 ELSE 1
        /\ Len(answers'[t]) = IF t \in Live /\ t \notin Live' THEN Len(answers[t]) + 1
                              ELSE Len(answers[t])
    BY <2>1, <2>2 DEF AnsweredOnce, AnswerMove
  <2>8. t \in Live' /\ t \notin Live => t >= next
    BY <2>2 DEF TypeOK, Txn
  <2> QED
    BY <2>3, <2>4, <2>5, <2>6, <2>7, <2>8
<1> QED
  BY <1>1, <1>2, TypeCorrect, PTL DEF Spec

-----------------------------------------------------------------------------
(* What transactions read and write. *)

(***************************************************************************)
(* A step makes a change durable only for a writer that was running, and   *)
(* every begun transaction was running too: no two of them are unordered.  *)
(***************************************************************************)
LEMMA NewChange ==
  ASSUME TypeOK, StorageMove, NEW t \in begun', NEW u \in durable'
  PROVE  \/ u \in snapshot'[t]
         \/ t \in begun /\ snapshot'[t] = snapshot[t] /\ u \in durable
         \/ /\ t \in begun /\ t \in started /\ snapshot'[t] = snapshot[t]
            /\ Writer(u) /\ u \in started /\ u \in Live
BY LiveIsHeld DEF StorageMove, TypeOK

(***************************************************************************)
(* No transaction but an observer misses the changes of an earlier writer. *)
(***************************************************************************)
THEOREM SeesEarlierWritersHolds == Spec => []SeesEarlierWriters
<1>1. Init => SeesEarlierWriters
  BY DEF Init, SeesEarlierWriters
<1>2. TypeOK /\ NobodyOvertakesAWriter /\ SeesEarlierWriters /\ [Next]_vars
        => SeesEarlierWriters'
  <2> SUFFICES ASSUME TypeOK, NobodyOvertakesAWriter, SeesEarlierWriters, [Next]_vars,
                      NEW t \in begun', NEW u \in durable',
                      ~Observer(t), u < t, Share(t, u)
               PROVE  u \in snapshot'[t]
    BY StepIsMove DEF SeesEarlierWriters, Observer, Share, attributes
  <2>1. StorageMove
    BY StepIsMove DEF Move
  <2>2. CASE t \in begun /\ snapshot'[t] = snapshot[t] /\ u \in durable
    BY <2>2 DEF SeesEarlierWriters
  <2>3. CASE t \in started /\ Writer(u) /\ u \in Live
    BY <2>3 DEF NobodyOvertakesAWriter
  <2> QED
    BY <2>1, <2>2, <2>3, NewChange
<1> QED
  BY <1>1, <1>2, TypeCorrect, NobodyOvertakesAWriterHolds, PTL DEF Spec

(***************************************************************************)
(* No writer overwrites a change that its snapshot does not contain.       *)
(***************************************************************************)
THEOREM NoLostUpdateHolds == Spec => []NoLostUpdate
<1>1. Init => NoLostUpdate
  BY DEF Init, NoLostUpdate
<1>2. TypeOK /\ WritersRunAlone /\ NoLostUpdate /\ [Next]_vars => NoLostUpdate'
  <2> SUFFICES ASSUME TypeOK, WritersRunAlone, NoLostUpdate, [Next]_vars,
                      NEW t \in begun', NEW u \in durable',
                      Writer(t), Share(t, u), u # t
               PROVE  u \in snapshot'[t]
    BY StepIsMove DEF NoLostUpdate, Writer, Share, attributes
  <2>1. StorageMove
    BY StepIsMove DEF Move
  <2>2. CASE t \in begun /\ snapshot'[t] = snapshot[t] /\ u \in durable
    BY <2>2 DEF NoLostUpdate
  <2>3. CASE t \in started /\ Writer(u) /\ u \in started
    BY <2>3 DEF WritersRunAlone
  <2> QED
    BY <2>1, <2>2, <2>3, NewChange
<1> QED
  BY <1>1, <1>2, TypeCorrect, WritersRunAloneHolds, PTL DEF Spec

-----------------------------------------------------------------------------
(* The transactions implement the locks. *)

(***************************************************************************)
(* How the state of one transaction changes in a step.                     *)
(***************************************************************************)
LEMMA StateGoesOn ==
  ASSUME TypeOK, TypeOK', CoordinatorMove, NEW t \in Txn
  PROVE  /\ state[t] = "none" => state'[t] \in {"none", "CREATED", "STARTED"}
         /\ state[t] = "CREATED" => state'[t] # "none"
         /\ state[t] \in {"STARTED", "COMMITTING"} =>
              state'[t] \in {"STARTED", "COMMITTING", "FINISHED", "deleted"}
         /\ state[t] \in {"FINISHED", "deleted"} => state'[t] \in {"FINISHED", "deleted"}
<1>1. CASE StayMove
  <2>1. PICK C \in SUBSET started :
          state' = [u \in Txn |-> IF u \in C THEN "COMMITTING" ELSE state[u]]
    BY <1>1 DEF StayMove
  <2>2. t \in C => state[t] \in {"STARTED", "COMMITTING"}
    BY DEF TypeOK
  <2> QED
    BY <2>1, <2>2
<1>2. CASE EndMove
  <2>1. PICK t0 \in Live, final \in {"deleted", "FINISHED"}, w \in SUBSET {next} :
          Starts(queued \ {t0}, started \ {t0}, w, [state EXCEPT ![t0] = final])
    BY <1>2 DEF EndMove
  <2>2. PICK S \in SUBSET (queued \ {t0}) :
          state' = [u \in Txn |-> IF u \in S \cup w THEN "STARTED"
                                  ELSE [state EXCEPT ![t0] = final][u]]
    BY <2>1 DEF Starts
  <2>3. t \in S => state[t] = "CREATED"
    BY DEF TypeOK
  <2>4. t \in w => state[t] = "none"
    BY DEF TypeOK, Txn
  <2>5. t = t0 => state[t] \in {"CREATED", "STARTED", "COMMITTING"}
    BY DEF Live
  <2>6. t # t0 /\ t \notin S \cup w => state'[t] = state[t]
    BY <2>2 DEF TypeOK
  <2>7. t = t0 => state'[t] \in {"deleted", "FINISHED"}
    BY <2>2, <2>4, <2>5 DEF TypeOK
  <2> QED
    BY <2>2, <2>3, <2>4, <2>5, <2>6, <2>7
<1>3. CASE CreateMove
  <2>1. PICK S \in SUBSET (queued \cup {next}) :
          state' = [u \in Txn |-> IF u \in S \cup {} THEN "STARTED"
                                  ELSE [state EXCEPT ![next] = "CREATED"][u]]
    BY <1>3 DEF CreateMove, Starts
  <2>2. t \in S => state[t] = "CREATED" \/ t = next
    BY DEF TypeOK
  <2>3. t = next => state[t] = "none"
    BY DEF TypeOK, Txn
  <2>4. t # next /\ t \notin S => state'[t] = state[t]
    BY <2>1 DEF TypeOK
  <2>5. t = next => state'[t] \in {"CREATED", "STARTED"}
    BY <2>1 DEF TypeOK
  <2> QED
    BY <2>1, <2>2, <2>3, <2>4, <2>5
<1>4. CASE CloseMove
  BY <1>4 DEF CloseMove
<1> QED
  BY <1>1, <1>2, <1>3, <1>4 DEF CoordinatorMove

LEMMA PhaseOfState ==
  ASSUME TypeOK
  PROVE  \A t \in Txn :
           /\ Phase[t] \in {"new", "waiting", "running", "done"}
           /\ Phase[t] = "new" <=> state[t] = "none"
           /\ Phase[t] = "waiting" <=> t \in queued
           /\ Phase[t] = "running" <=> t \in started
           /\ Phase[t] = "done" <=> state[t] \in {"FINISHED", "deleted"}
BY DEF TypeOK, Phase, State

(***************************************************************************)
(* Every step of the transactions is a step that the coordinator promises. *)
(***************************************************************************)
THEOREM TransactionsImplementLocks == Spec => ImplementsScopeLocks
<1>1. Init => Locks!Init
  BY DEF Init, Locks!Init, Phase
<1>2. TypeOK /\ TypeOK' /\ [Next]_vars => [Locks!Next]_(Locks!vars)
  <2> SUFFICES ASSUME TypeOK, TypeOK', [Next]_vars PROVE Locks!Next
    OBVIOUS
  <2>1. CoordinatorMove /\ UNCHANGED attributes
    BY StepIsMove DEF Move
  <2>2. /\ \A t \in Txn : Phase'[t] \in {"new", "waiting", "running", "done"}
        /\ \A t \in Txn : Phase'[t] = "running" <=> t \in started'
        /\ \A t \in Txn : Phase'[t] = "waiting" <=> t \in queued'
        /\ Phase' \in [Txn -> {"new", "waiting", "running", "done"}]
    BY DEF TypeOK, Phase, State
  <2>3. ASSUME NEW t \in Txn PROVE Phase'[t] \in Locks!Later(Phase[t])
    <3>1. state[t] \in State /\ state'[t] \in State
      BY DEF TypeOK
    <3> QED
      BY <2>1, <3>1, StateGoesOn DEF Phase, State, Locks!Later
  <2>4. ASSUME NEW t \in Txn, Phase[t] # "running", Phase'[t] = "running",
               mode[t] # "observer"
        PROVE  Locks!MayStart(t)
    <3>1. t \in started' \ started
      BY <2>2, <2>4, PhaseOfState
    <3>2. ASSUME NEW u \in Txn, Writer(u), Share(t, u), u # t
          PROVE  /\ ~(Phase[u] = "running" /\ Phase'[u] = "running")
                 /\ u < t => Phase'[u] \notin {"waiting", "running"}
      BY <2>1, <2>2, <2>4, <3>1, <3>2, PhaseOfState, NewcomersKeepOrder DEF Observer
    <3> QED
      BY <3>2 DEF Locks!MayStart, Locks!Writer, Locks!Share, Writer, Share
  <2> QED
    BY <2>1, <2>2, <2>3, <2>4 DEF Locks!Next, attributes
<1> QED
  BY <1>1, <1>2, TypeCorrect, PTL DEF Spec, ImplementsScopeLocks, Locks!Spec

-----------------------------------------------------------------------------
(* Nothing is left without a closure, a reply or a timer to move it. *)

(***************************************************************************)
(* Queued operations belong to a used transaction, and a started one will  *)
(* process them.                                                           *)
(***************************************************************************)
TasksAreRun ==
  \A t \in Txn : tasks[t] > 0 => t \in used /\ (t \in started => t \in runPosted)

\* NoWriterIsStranded by the state_ of a writer whose blobs are being written.
WritersGoOn ==
  \A t \in started :
    Writer(t) /\ t \in used =>
      state[t] = "COMMITTING" \/ t \in runPosted \/ t \in timer

Moving == TasksAreRun /\ WritersGoOn

LEMMA FinishMoving ==
  ASSUME TypeOK, Moving, NEW t \in Live, NEW final \in {"deleted", "FINISHED"},
         NEW answer, NEW w \in SUBSET {next}, \A u \in w : u \in Txn /\ Observer(u),
         Finish(t, final, answer, w)
  PROVE  Moving'
<1>1. PICK S \in SUBSET (queued \ {t}) :
        /\ started' = (started \ {t}) \cup S \cup w
        /\ state' = [u \in Txn |-> IF u \in S \cup w THEN "STARTED"
                                   ELSE [state EXCEPT ![t] = final][u]]
        /\ runPosted' = (runPosted \ {t}) \cup (S \cap used)
  BY CanStartInQueue DEF Finish, ProcessQueuedTransactions
<1>2. /\ timer' = timer \ {t} /\ used' = used \ {t} /\ mode' = mode
      /\ tasks' = [tasks EXCEPT ![t] = 0]
  BY DEF Finish, attributes
<1>3. t \in Txn /\ next \notin Live /\ used \subseteq Live
  BY DEF TypeOK, Live
<1>4. t \notin started' /\ tasks'[t] = 0
  BY <1>1, <1>2, <1>3 DEF TypeOK
<1>5. ASSUME NEW u \in Txn, u # t, u \in started'
      PROVE  \/ u \in started /\ u \notin S \cup w /\ state'[u] = state[u]
             \/ u \in S
             \/ u \in w /\ u \notin used /\ ~Writer(u)
  BY <1>1, <1>3, <1>5 DEF Observer, Writer, TypeOK
<1>6. TasksAreRun'
  <2> SUFFICES ASSUME NEW u \in Txn, tasks'[u] > 0
               PROVE  u \in used' /\ (u \in started' => u \in runPosted')
    BY DEF TasksAreRun
  <2>1. u # t /\ tasks[u] > 0
    BY <1>2, <1>4 DEF TypeOK
  <2> QED
    BY <1>1, <1>2, <1>5, <2>1 DEF Moving, TasksAreRun
<1>7. WritersGoOn'
  <2> SUFFICES ASSUME NEW u \in started', Writer(u), u \in used'
               PROVE  state'[u] = "COMMITTING" \/ u \in runPosted' \/ u \in timer'
    BY <1>2 DEF WritersGoOn, Writer
  <2>1. u # t /\ u \in Txn /\ u \in used
    BY <1>2, <1>3, <1>4 DEF Live
  <2> QED
    BY <1>1, <1>2, <1>5, <2>1 DEF Moving, WritersGoOn
<1> QED
  BY <1>6, <1>7 DEF Moving

LEMMA CloseAllMoving == CloseAll => Moving'
BY DEF CloseAll, Moving, TasksAreRun, WritersGoOn

LEMMA AbortMoving ==
  ASSUME TypeOK, Moving, NEW t \in Live, Abort(t)
  PROVE  Moving'
BY FinishMoving DEF Abort

LEMMA CommitPhaseTwoMoving ==
  ASSUME TypeOK, Moving, NEW t \in Live, CommitPhaseTwo(t)
  PROVE  Moving'
<1>1. CASE Finish(t, "deleted", "complete", {})
  BY <1>1, FinishMoving
<1>2. CASE next \in Txn /\ mode[next] = "observer" /\ Finish(t, "deleted", "complete", {next})
  <2>1. {next} \in SUBSET {next} /\ \A u \in {next} : u \in Txn /\ Observer(u)
    BY <1>2 DEF Observer
  <2> QED
    BY <1>2, <2>1, FinishMoving
<1>3. CASE CloseAll
  BY <1>3, CloseAllMoving
<1>4. CASE Finish(t, "FINISHED", "abort", {})
  BY <1>4, FinishMoving
<1> QED
  BY <1>1, <1>2, <1>3, <1>4 DEF CommitPhaseTwo

LEMMA StartCommittingMoving ==
  ASSUME TypeOK, Moving, NEW t \in Live, StartCommitting(t)
  PROVE  Moving'
<1>1. CASE CommitPhaseTwo(t)
  BY <1>1, CommitPhaseTwoMoving
<1>2. CASE /\ state' = [state EXCEPT ![t] = "COMMITTING"]
           /\ tasks' = [tasks EXCEPT ![t] = 0]
           /\ runPosted' = runPosted \ {t} /\ timer' = timer \ {t}
           /\ UNCHANGED <<attributes, coordinator, used>>
  BY <1>2 DEF Moving, TasksAreRun, WritersGoOn, TypeOK, Writer, attributes,
              coordinator, Live
<1>3. CASE CloseAll
  BY <1>3, CloseAllMoving
<1> QED
  BY <1>1, <1>2, <1>3 DEF StartCommitting

LEMMA CommitMoving ==
  ASSUME TypeOK, Moving, NEW t \in Live, Commit(t)
  PROVE  Moving'
<1>1. CASE /\ state[t] = "CREATED" \/ (state[t] = "STARTED" /\ tasks[t] > 0)
           /\ timer' = timer \ {t}
           /\ UNCHANGED <<attributes, coordinator, state, used, tasks, runPosted>>
  BY <1>1 DEF Moving, TasksAreRun, WritersGoOn, TypeOK, Writer, attributes,
              coordinator, Live
<1>2. CASE StartCommitting(t)
  BY <1>2, StartCommittingMoving
<1> QED
  BY <1>1, <1>2 DEF Commit

(***************************************************************************)
(* With a data path, a started writer that has been used is about to be    *)
(* processed, is committing, or has its inactivity timer running.          *)
(***************************************************************************)
THEOREM NoWriterIsStrandedHolds ==
  ASSUME ~Incognito
  PROVE  Spec => []NoWriterIsStranded
<1>1. Init => Moving
  BY DEF Init, Moving, TasksAreRun, WritersGoOn
<1>2. TypeOK /\ Moving /\ [Next]_vars => Moving'
  <2> SUFFICES ASSUME TypeOK, Moving, [Next]_vars PROVE Moving'
    OBVIOUS
  <2>1. CASE CreateTransaction
    <3>1. PICK S \in SUBSET (queued \cup {next}) :
            /\ started' = started \cup S \cup {}
            /\ state' = [u \in Txn |-> IF u \in S \cup {} THEN "STARTED"
                                       ELSE [state EXCEPT ![next] = "CREATED"][u]]
            /\ runPosted' = runPosted \cup (S \cap used)
      BY <2>1, CanStartInQueue DEF CreateTransaction, ProcessQueuedTransactions
    <3>2. timer' = timer /\ used' = used /\ tasks' = tasks /\ mode' = mode
      BY <2>1 DEF CreateTransaction, attributes, requests
    <3>3. TasksAreRun'
      BY <3>1, <3>2 DEF Moving, TasksAreRun
    <3>4. \A u \in started' : u \in S \/ (u \in started /\ state'[u] = state[u])
      BY <3>1 DEF TypeOK, Txn
    <3> QED
      BY <3>1, <3>2, <3>3, <3>4 DEF Moving, WritersGoOn, Writer
  <2>2. CASE ForceClose
    BY <2>2, CloseAllMoving DEF ForceClose
  <2>3. ASSUME NEW t \in Txn, ScheduleTask(t) PROVE Moving'
    <3>1. state[t] = "STARTED" <=> t \in started
      BY <2>3 DEF ScheduleTask, Open, TypeOK
    <3> QED
      BY <2>3, <3>1 DEF ScheduleTask, Moving, TasksAreRun, WritersGoOn, TypeOK,
                        Writer, attributes, coordinator
  <2>4. ASSUME NEW t \in Txn, RequestCommit(t) PROVE Moving'
    <3>1. t \in Live
      BY <2>4 DEF RequestCommit, Open, Live
    <3>2. CASE UNCHANGED <<attributes, coordinator, state, requests, runPosted, timer>>
      BY <3>2 DEF Moving, TasksAreRun, WritersGoOn, Writer, attributes,
                  coordinator, requests
    <3> QED
      BY <2>4, <3>1, <3>2, CommitMoving DEF RequestCommit
  <2>5. ASSUME NEW t \in Txn, OnGotUsageAndQuotaForCommit(t) PROVE Moving'
    <3>1. t \in Live
      BY <2>5, LiveIsHeld DEF OnGotUsageAndQuotaForCommit, TypeOK
    <3> QED
      BY <2>5, <3>1, CommitMoving, AbortMoving DEF OnGotUsageAndQuotaForCommit
  <2>6. ASSUME NEW t \in Txn, AbortTransaction(t) PROVE Moving'
    BY <2>6, AbortMoving DEF AbortTransaction
  <2>7. ASSUME NEW t \in Txn, ProcessTaskQueue(t) PROVE Moving'
    <3>1. t \in Live
      BY <2>7, LiveIsHeld DEF ProcessTaskQueue, TypeOK
    <3>2. CASE StartCommitting(t)
      BY <3>1, <3>2, StartCommittingMoving
    <3>3. CASE /\ tasks' = [tasks EXCEPT ![t] = 0]
               /\ runPosted' = runPosted \ {t}
               /\ timer' = IF Writer(t) THEN timer \cup {t} ELSE timer
               /\ UNCHANGED <<attributes, coordinator, state, used>>
      BY <3>3 DEF Moving, TasksAreRun, WritersGoOn, TypeOK, Writer, attributes,
                  coordinator
    <3>4. CASE CloseAll
      BY <3>4, CloseAllMoving
    <3> QED
      BY <2>7, <3>2, <3>3, <3>4 DEF ProcessTaskQueue
  <2>8. ASSUME NEW t \in Txn, CommitUnused(t) PROVE Moving'
    <3>1. t \in Live
      BY <2>8, LiveIsHeld DEF CommitUnused, TypeOK
    <3> QED
      BY <2>8, <3>1, CommitMoving DEF CommitUnused
  <2>9. ASSUME NEW t \in Txn, BlobWriteComplete(t) PROVE Moving'
    <3>1. CASE state[t] = "COMMITTING" /\ (CommitPhaseTwo(t) \/ Abort(t))
      <4>1. t \in Live
        BY <3>1 DEF Live
      <4> QED
        BY <3>1, <4>1, CommitPhaseTwoMoving, AbortMoving
    <3>2. CASE UNCHANGED <<attributes, coordinator, state, requests, pending>>
      BY <3>2 DEF Moving, TasksAreRun, WritersGoOn, Writer, attributes, coordinator,
                  requests, pending
    <3> QED
      BY <2>9, <3>1, <3>2 DEF BlobWriteComplete
  <2>10. ASSUME NEW t \in Txn, Timeout(t) PROVE Moving'
    <3>1. t \in Live
      BY <2>10, LiveIsHeld DEF Timeout, TypeOK
    <3> QED
      BY <2>10, <3>1, AbortMoving DEF Timeout
  <2>11. CASE UNCHANGED vars
    BY <2>11 DEF vars, Moving, TasksAreRun, WritersGoOn, Writer, attributes,
                 coordinator, requests, pending
  <2> QED
    BY <2>1, <2>2, <2>3, <2>4, <2>5, <2>6, <2>7, <2>8, <2>9, <2>10, <2>11 DEF Next
<1>3. TypeOK /\ Moving => NoWriterIsStranded
  BY DEF TypeOK, Moving, WritersGoOn, NoWriterIsStranded
<1> QED
  BY <1>1, <1>2, <1>3, TypeCorrect, PTL DEF Spec
=============================================================================
