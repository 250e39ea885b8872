------------------------- MODULE AppWebMessagePort -------------------------
(***************************************************************************)
(* One end of an HTML message channel that an Android app holds: the Java  *)
(* object AppWebMessagePort, the C++ instance behind it and the            *)
(* content::MessagePort with its Mojo watcher.                             *)
(*                                                                         *)
(* Three threads meet here.  The application calls setMessageCallback and  *)
(* close on the UI thread; the watcher calls OnHandleReady on the IO       *)
(* thread; the messages are dispatched on the looper of the handler, which *)
(* is the UI thread's unless the application passed a Handler, whose       *)
(* thread is "BG".  OnHandleReady also runs as a task posted to whichever  *)
(* thread found the pipe readable while arming the watcher.  Two locks are *)
(* involved: mLock, the (reentrant) Java lock of the port, and stateLock,  *)
(* the lock_ of MessagePort::State.                                        *)
(*                                                                         *)
(* A message is its position in the pipe: 1, 2, 3, ...                     *)
(***************************************************************************)
EXTENDS Naturals, Sequences

CONSTANTS
  MaxMessages,    \* bound: the peer posts at most this many messages
  MaxQueued,      \* bound: looper messages and tasks of one kind counted so far
  Undecodable,    \* the messages DecodeStringMessage refuses
  Callbacks,      \* what is passed to setMessageCallback: TRUE for a callback, FALSE for null
  ReentrantCalls  \* what the application does inside its onMessage on "UI"

ASSUME BoundsAssumption == MaxMessages \in Nat /\ MaxQueued \in Nat \ {0}
ASSUME MessagesAssumption == Undecodable \subseteq Nat
ASSUME CallbacksAssumption == Callbacks \subseteq BOOLEAN
ASSUME ReentryAssumption == ReentrantCalls \subseteq {"close", "setMessageCallback"}

Thread == {"UI", "BG", "IO"}
NoThread == "none"

VARIABLES
  closed,       \* mClosed
  ready,        \* mNativeAppWebMessagePort is not 0
  hasCallback,  \* mMessageCallback is not null
  handler,      \* the thread of mHandler, or of sDefaultHandler if null
  mLock,        \* the thread that holds the Java lock, or NoThread
  alive,        \* the C++ AppWebMessagePort has not been deleted
  stateLock,    \* the thread that holds MessagePort::State::lock_, or NoThread
  callback,     \* State::callback_ is not null
  watcher,      \* State::watcher_handle_ is valid
  armed,        \* the Mojo watcher is armed
  signaled,     \* the watcher fired and the IO thread has not yet been called
  inWatch,      \* the IO thread's OnHandleReady was called by the watcher
  tasks,        \* OnHandleReady tasks posted to each thread
  looper,       \* MESSAGES_AVAILABLE messages queued on each thread's looper
  posted,       \* messages the peer has written to the pipe
  read,         \* messages read from the pipe
  delivered,    \* messages passed to the application's onMessage, in order
  pc            \* what each thread is doing

javaVars   == <<closed, ready, hasCallback, handler>>
watchVars  == <<callback, watcher, armed, signaled>>
pipeVars   == <<posted, read, delivered>>
queueVars  == <<tasks, looper>>
vars == <<javaVars, mLock, alive, stateLock, watchVars, inWatch, queueVars,
          pipeVars, pc>>

\* The places a thread can be.  "idle" waits in the message loop.
OnHandleReadySteps == {"ohr", "callback", "notify", "arm"}
DispatchSteps      == {"dispatch", "onMessage"}
CallSteps          == {"scb_lock", "scb_stop", "scb_cancel", "scb_start",
                       "close_lock", "close_native"}

FlagsOK ==
  /\ closed \in BOOLEAN /\ ready \in BOOLEAN /\ hasCallback \in BOOLEAN
  /\ callback \in BOOLEAN /\ watcher \in BOOLEAN
  /\ armed \in BOOLEAN /\ signaled \in BOOLEAN
  /\ alive \in BOOLEAN /\ inWatch \in BOOLEAN

QueuesOK ==
  /\ tasks \in [{"UI", "IO"} -> 0..MaxQueued]
  /\ looper \in [{"UI", "BG"} -> 0..MaxQueued]
  /\ posted \in 0..MaxMessages /\ read \in 0..MaxMessages
  /\ delivered \in Seq(Nat)

ThreadsOK ==
  /\ handler \in {"UI", "BG"}
  /\ mLock \in {"UI", "BG", NoThread}
  /\ stateLock \in {"UI", "IO", NoThread}
  /\ pc \in [Thread -> {"idle"} \cup OnHandleReadySteps \cup DispatchSteps \cup CallSteps]
  /\ pc["BG"] \in {"idle"} \cup DispatchSteps
  /\ pc["IO"] \in {"idle"} \cup OnHandleReadySteps

TypeOK == FlagsOK /\ QueuesOK /\ ThreadsOK

\* createPair: the native half exists, nothing watches the pipe.
Init ==
  /\ closed = FALSE /\ ready = TRUE /\ hasCallback = FALSE /\ handler = "UI"
  /\ mLock = NoThread /\ stateLock = NoThread
  /\ alive = TRUE /\ inWatch = FALSE
  /\ callback = FALSE /\ watcher = FALSE /\ armed = FALSE /\ signaled = FALSE
  /\ tasks = [t \in {"UI", "IO"} |-> 0]
  /\ looper = [t \in {"UI", "BG"} |-> 0]
  /\ posted = 0 /\ read = 0 /\ delivered = <<>>
  /\ pc = [t \in Thread |-> "idle"]

-----------------------------------------------------------------------------
(* Helpers.                                                                *)

Goto(t, label) == pc' = [pc EXCEPT ![t] = label]

\* Java monitors are reentrant.
CanLockJava(t) == mLock \in {t, NoThread}

\* A queue of identical entries is its length, counted up to MaxQueued.
Enqueue(q, t) == [q EXCEPT ![t] = IF @ < MaxQueued THEN @ + 1 ELSE @]

Readable == read < posted

\* The call made inside onMessage returns to it, with mLock still held.
ReturnPoint(t) == IF mLock = t THEN "onMessage" ELSE "idle"

\* The application may call the port when the UI thread is in its code.
MayCall(call) ==
  \/ pc["UI"] = "idle"
  \/ pc["UI"] = "onMessage" /\ call \in ReentrantCalls

\* Mutant of ArmWatcher: nothing is posted when the pipe is readable already.
ArmWatcherPostsNothing(t, valid) ==
  armed' = (armed \/ (valid /\ ~Readable)) /\ UNCHANGED tasks

\* State::ArmWatcher, run by thread t with stateLock held.
ArmWatcher(t, valid) ==
  IF valid /\ Readable
  THEN tasks' = Enqueue(tasks, t) /\ UNCHANGED armed
  ELSE armed' = (valid \/ armed) /\ UNCHANGED tasks

-----------------------------------------------------------------------------
(* AppWebMessagePort.setMessageCallback, on the UI thread.                 *)

\* The check of isClosed; mStarted is set for good.
SetMessageCallback ==
  /\ MayCall("setMessageCallback")
  /\ ~closed
  /\ Goto("UI", "scb_lock")
  /\ UNCHANGED <<javaVars, mLock, alive, stateLock, watchVars, inWatch,
                 queueVars, pipeVars>>

\* Mutant of InstallCallback: the native call is made inside the synchronized block.
InstallCallbackKeepsLock(h) ==
  /\ pc["UI"] = "scb_lock"
  /\ CanLockJava("UI")
  /\ hasCallback' \in Callbacks
  /\ handler' = IF h = "null" THEN handler ELSE h
  /\ mLock' = "UI"
  /\ Goto("UI", "scb_stop")
  /\ UNCHANGED <<closed, ready, alive, stateLock, watchVars, inWatch, queueVars,
                 pipeVars>>

\* synchronized (mLock): the callback may be null, with which messages are
\* dropped from now on; a null handler leaves mHandler as it was.
InstallCallback(h) ==
  /\ pc["UI"] = "scb_lock"
  /\ CanLockJava("UI")
  /\ hasCallback' \in Callbacks
  /\ handler' = IF h = "null" THEN handler ELSE h
  /\ Goto("UI", "scb_stop")
  /\ UNCHANGED <<closed, ready, mLock, alive, stateLock, watchVars, inWatch,
                 queueVars, pipeVars>>

\* State::StopWatching, its critical section.
StopWatching ==
  /\ pc["UI"] = "scb_stop"
  /\ stateLock = NoThread
  /\ callback' = FALSE /\ watcher' = FALSE
  /\ Goto("UI", "scb_cancel")
  /\ UNCHANGED <<javaVars, mLock, alive, stateLock, armed, signaled, inWatch,
                 queueVars, pipeVars>>

\* Resetting the watcher handle waits for the call the watcher is making.
CancelWatch ==
  /\ pc["UI"] = "scb_cancel"
  /\ ~inWatch
  /\ armed' = FALSE /\ signaled' = FALSE
  /\ Goto("UI", "scb_start")
  /\ UNCHANGED <<javaVars, mLock, alive, stateLock, callback, watcher, inWatch,
                 queueVars, pipeVars>>

StartWatching ==
  /\ pc["UI"] = "scb_start"
  /\ stateLock = NoThread
  /\ callback' = TRUE /\ watcher' = TRUE
  /\ ArmWatcher("UI", TRUE)
  /\ Goto("UI", ReturnPoint("UI"))
  /\ UNCHANGED <<javaVars, mLock, alive, stateLock, signaled, inWatch, looper,
                 pipeVars>>

-----------------------------------------------------------------------------
(* AppWebMessagePort.close, on the UI thread.                              *)

\* A second close() returns at once: a stutter.
Close ==
  /\ MayCall("close")
  /\ ~closed
  /\ closed' = TRUE
  /\ Goto("UI", "close_lock")
  /\ UNCHANGED <<ready, hasCallback, handler, mLock, alive, stateLock,
                 watchVars, inWatch, queueVars, pipeVars>>

\* Mutant of TakeNativePort: the pointer is read and not cleared.
TakeNativePortLeavesIt ==
  /\ pc["UI"] = "close_lock"
  /\ CanLockJava("UI")
  /\ Goto("UI", IF ready THEN "close_native" ELSE ReturnPoint("UI"))
  /\ UNCHANGED <<javaVars, mLock, alive, stateLock, watchVars, inWatch,
                 queueVars, pipeVars>>

\* synchronized (mLock): take the native pointer away from the dispatcher.
TakeNativePort ==
  /\ pc["UI"] = "close_lock"
  /\ CanLockJava("UI")
  /\ ready' = FALSE
  /\ Goto("UI", IF ready THEN "close_native" ELSE ReturnPoint("UI"))
  /\ UNCHANGED <<closed, hasCallback, handler, mLock, alive, stateLock,
                 watchVars, inWatch, queueVars, pipeVars>>

\* AppWebMessagePort::CloseMessagePort.  The MessagePort destructor is empty
\* and StartWatching took a reference to the State, so a watch outlives this.
CloseMessagePort ==
  /\ pc["UI"] = "close_native"
  /\ alive' = FALSE
  /\ Goto("UI", ReturnPoint("UI"))
  /\ UNCHANGED <<javaVars, mLock, stateLock, watchVars, inWatch, queueVars,
                 pipeVars>>

-----------------------------------------------------------------------------
(* State::OnHandleReady, on the IO thread or as a posted task.             *)

\* The watcher calls CallOnHandleReady.
WatcherFires ==
  /\ pc["IO"] = "idle"
  /\ signaled
  /\ signaled' = FALSE /\ inWatch' = TRUE
  /\ Goto("IO", "ohr")
  /\ UNCHANGED <<javaVars, mLock, alive, stateLock, callback, watcher, armed,
                 queueVars, pipeVars>>

\* A task that ArmWatcher posted runs.
RunTask(t) ==
  /\ pc[t] = "idle"
  /\ tasks[t] > 0
  /\ tasks' = [tasks EXCEPT ![t] = @ - 1]
  /\ Goto(t, "ohr")
  /\ UNCHANGED <<javaVars, mLock, alive, stateLock, watchVars, inWatch, looper,
                 pipeVars>>

\* Take lock_; without a callback there is nothing to do.
EnterHandleReady(t) ==
  /\ pc[t] = "ohr"
  /\ stateLock = NoThread
  /\ IF callback
     THEN stateLock' = t /\ Goto(t, "callback") /\ UNCHANGED inWatch
     ELSE /\ Goto(t, "idle")
          /\ inWatch' = (inWatch /\ t # "IO")
          /\ UNCHANGED stateLock
  /\ UNCHANGED <<javaVars, mLock, alive, watchVars, queueVars, pipeVars>>

\* callback_.Run() enters the C++ instance through an unretained pointer: once
\* it is deleted, what its java_ref_ yields is anyone's guess.
RunCallback(t) ==
  /\ pc[t] = "callback"
  /\ \/ Goto(t, "notify")
     \/ ~alive /\ Goto(t, "arm")
  /\ UNCHANGED <<javaVars, mLock, alive, stateLock, watchVars, inWatch,
                 queueVars, pipeVars>>

\* Java onMessagesAvailable: post to the looper of the current handler.
OnMessagesAvailable(t) ==
  /\ pc[t] = "notify"
  /\ CanLockJava(t)
  /\ looper' = Enqueue(looper, handler)
  /\ Goto(t, "arm")
  /\ UNCHANGED <<javaVars, mLock, alive, stateLock, watchVars, inWatch, tasks,
                 pipeVars>>

\* ArmWatcher, then lock_ is released.
Rearm(t) ==
  /\ pc[t] = "arm"
  /\ ArmWatcher(t, watcher)
  /\ stateLock' = NoThread
  /\ inWatch' = (inWatch /\ t # "IO")
  /\ Goto(t, "idle")
  /\ UNCHANGED <<javaVars, mLock, alive, callback, watcher, signaled, looper,
                 pipeVars>>

-----------------------------------------------------------------------------
(* dispatchReceivedMessages, on the looper of a handler.                   *)

HandleMessage(t) ==
  /\ pc[t] = "idle"
  /\ looper[t] > 0
  /\ looper' = [looper EXCEPT ![t] = @ - 1]
  /\ Goto(t, "dispatch")
  /\ UNCHANGED <<javaVars, mLock, alive, stateLock, watchVars, inWatch, tasks,
                 pipeVars>>

\* Mutant of DispatchNextMessage: isReady() is not looked at.
DispatchNextMessageUnchecked(t) ==
  /\ pc[t] = "dispatch"
  /\ CanLockJava(t)
  /\ Readable /\ read + 1 \notin Undecodable
  /\ read' = read + 1
  /\ delivered' = Append(delivered, read + 1)
  /\ mLock' = t
  /\ Goto(t, "onMessage")
  /\ UNCHANGED <<javaVars, alive, stateLock, watchVars, inWatch, queueVars,
                 posted>>

\* One round of the loop that reads a message: onMessage is entered with mLock
\* held; without a callback the message is dropped and the loop goes on.
DispatchNextMessage(t) ==
  /\ pc[t] = "dispatch"
  /\ CanLockJava(t)
  /\ ready /\ Readable /\ read + 1 \notin Undecodable
  /\ read' = read + 1
  /\ IF hasCallback
     THEN /\ delivered' = Append(delivered, read + 1)
          /\ mLock' = t
          /\ Goto(t, "onMessage")
     ELSE UNCHANGED <<delivered, mLock, pc>>
  /\ UNCHANGED <<javaVars, alive, stateLock, watchVars, inWatch, queueVars,
                 posted>>

\* The round that ends the loop: the port was closed, nothing is readable, or
\* the message that was read does not decode.
DispatchEnds(t) ==
  /\ pc[t] = "dispatch"
  /\ CanLockJava(t)
  /\ ~(ready /\ Readable) \/ read + 1 \in Undecodable
  /\ read' = IF ready /\ Readable THEN read + 1 ELSE read
  /\ Goto(t, "idle")
  /\ UNCHANGED <<javaVars, mLock, alive, stateLock, watchVars, inWatch,
                 queueVars, posted, delivered>>

\* Mutant of OnMessageReturns: mLock is not released.
OnMessageReturnsLocked(t) ==
  /\ pc[t] = "onMessage"
  /\ Goto(t, "dispatch")
  /\ UNCHANGED <<javaVars, mLock, alive, stateLock, watchVars, inWatch,
                 queueVars, pipeVars>>

OnMessageReturns(t) ==
  /\ pc[t] = "onMessage"
  /\ mLock' = NoThread
  /\ Goto(t, "dispatch")
  /\ UNCHANGED <<javaVars, alive, stateLock, watchVars, inWatch, queueVars,
                 pipeVars>>

-----------------------------------------------------------------------------
(* The peer writes a message; Mojo fires an armed watcher once.            *)

PeerPosts ==
  /\ posted < MaxMessages
  /\ posted' = posted + 1
  /\ signaled' = (signaled \/ armed)
  /\ armed' = FALSE
  /\ UNCHANGED <<javaVars, mLock, alive, stateLock, callback, watcher, inWatch,
                 queueVars, read, delivered, pc>>

CallStep == (\E h \in {"null", "UI", "BG"} : InstallCallback(h)) \/ StopWatching \/ CancelWatch \/ StartWatching
              \/ TakeNativePort \/ CloseMessagePort

HandleReady(t) == EnterHandleReady(t) \/ RunCallback(t)
                    \/ OnMessagesAvailable(t) \/ Rearm(t)

DispatchLoop(t) == DispatchNextMessage(t) \/ DispatchEnds(t) \/ OnMessageReturns(t)

Next ==
  \/ SetMessageCallback \/ Close \/ CallStep
  \/ WatcherFires
  \/ \E t \in {"UI", "IO"} : RunTask(t) \/ HandleReady(t)
  \/ \E t \in {"UI", "BG"} : HandleMessage(t) \/ DispatchLoop(t)
  \/ PeerPosts

Spec == Init /\ [][Next]_vars

\* A thread that has begun something carries on with it, and its looper runs what
\* is queued on it.  Strong fairness, because a step competes with other threads
\* for a lock, or with the rest of the queue for the looper, which serves it in
\* order; of the IO thread it is enough that it does something.  The
\* application's calls and the peer's posts need never happen.
Fairness ==
  /\ SF_vars(CallStep \/ HandleReady("UI") \/ DispatchLoop("UI"))
  /\ SF_vars(RunTask("UI")) /\ SF_vars(HandleMessage("UI"))
  /\ SF_vars(HandleReady("IO") \/ RunTask("IO") \/ WatcherFires)
  /\ SF_vars(HandleMessage("BG") \/ DispatchLoop("BG"))

FairSpec == Spec /\ Fairness

-----------------------------------------------------------------------------
(* Properties.                                                             *)

\* The native pointer is never used after close() has deleted the instance:
\* the dispatcher uses it while it is set, setMessageCallback after its check.
NativeOutlivesItsUsers ==
  ready \/ pc["UI"] \in {"scb_lock", "scb_stop", "scb_cancel", "scb_start"} => alive

\* Changing the handler while messages are queued on the old one's looper does
\* not make two threads run onMessage at the same time.
OneOnMessageAtATime ==
  \A t, u \in Thread : pc[t] = "onMessage" /\ pc[u] = "onMessage" => t = u

\* When close() has returned, no other thread is still inside onMessage.
ClosedMeansQuiet ==
  closed /\ pc["UI"] = "idle" => pc["BG"] # "onMessage"

\* Somebody attends to every watched pipe that holds a message: the wakeup of a
\* message that arrives while the watcher is being armed, replaced or called back
\* is not lost.
NoLostWakeup ==
  watcher /\ Readable =>
    signaled \/ \E t \in {"UI", "IO"} : tasks[t] > 0 \/ pc[t] \in OnHandleReadySteps

\* Which thread waits for which: for mLock, for lock_, or for the watcher's call.
WaitsFor(t, u) ==
  /\ t # u
  /\ \/ pc[t] \in {"scb_lock", "close_lock", "notify", "dispatch"} /\ mLock = u
     \/ pc[t] \in {"scb_stop", "scb_start", "ohr"} /\ stateLock = u
     \/ pc[t] = "scb_cancel" /\ inWatch /\ u = "IO"

\* The threads never wait for one another in a circle: what the comment in
\* close() is about ("that could result in a dead-lock").
NoLockCycle ==
  ~ \E t, u, v \in Thread :
      WaitsFor(t, u) /\ (WaitsFor(u, t) \/ (WaitsFor(u, v) /\ WaitsFor(v, t)))

\* Every decodable message that is read while there is a callback reaches it,
\* once and in order.
Delivery == INSTANCE PortDelivery
  WITH consumed <- read, listening <- hasCallback, open <- ready
ImplementsPortDelivery == Delivery!Spec

\* Once close() has returned nothing more is delivered.
NoDeliveryAfterClose ==
  [][closed /\ pc["UI"] = "idle" => delivered' = delivered]_vars

\* Once a callback has been set, no message is left unread in the pipe, be it
\* dropped: a notification is not lost while the watcher is being replaced or
\* rearmed.
MessagesAreRead ==
  \A m \in 1..MaxMessages : hasCallback /\ posted >= m ~> read >= m \/ ~ready

\* close() returns, whatever the other threads were doing with the port.
CloseReturns == closed ~> pc["UI"] \notin CallSteps

\* MessagePort.h: the destructor synchronizes with the background thread, so
\* the code running in the callback need not worry about the port becoming
\* invalid.
NoCallbackIntoClosedPort ==
  \A t \in {"UI", "IO"} : pc[t] = "callback" => alive

=============================================================================
