----------------------- MODULE AppWebMessagePort_proof -----------------------
(***************************************************************************)
(* Proofs about AppWebMessagePort, for every number of messages, every     *)
(* queue bound and every set of undecodable messages.                      *)
(***************************************************************************)
EXTENDS AppWebMessagePort, TLAPS

SetCallbackSteps == {"scb_lock", "scb_stop", "scb_cancel", "scb_start"}
HoldsStateLock   == {"callback", "notify", "arm"}

\* onMessage runs with mLock held.
JavaLockHeld == \A t \in Thread : pc[t] = "onMessage" => mLock = t

\* How far close() has come, and what that says of the native instance and of
\* the other thread's dispatcher.
CloseProgress ==
  /\ pc["UI"] \in SetCallbackSteps => ~closed
  /\ pc["UI"] \in {"close_lock", "close_native"} => closed
  /\ ~closed => ready
  /\ ready => alive
  /\ closed /\ pc["UI"] # "close_lock" => ~ready /\ pc["BG"] # "onMessage"

\* A watch is armed only while the pipe is empty, and is attended to otherwise.
WatchAttended ==
  /\ watcher = callback
  /\ pc["UI"] \in {"scb_cancel", "scb_start"} => ~watcher
  /\ armed => ~Readable
  /\ watcher => \/ armed \/ signaled
                \/ \E t \in {"UI", "IO"} : tasks[t] > 0 \/ pc[t] \in OnHandleReadySteps

\* Who holds which lock, and what it is doing meanwhile.
LockHolders ==
  /\ mLock = "UI" => pc["UI"] \in {"onMessage", "close_lock", "close_native"}
  /\ mLock = "BG" => pc["BG"] = "onMessage"
  /\ \A t \in {"UI", "IO"} : stateLock = t => pc[t] \in HoldsStateLock

-----------------------------------------------------------------------------
(* The conjuncts of the inductive invariant, each from those before it.    *)

\* Every variable keeps its type.
THEOREM TypeCorrect == Spec => []TypeOK
<1> USE BoundsAssumption, CallbacksAssumption
<1>1. Init => TypeOK
  <2> SUFFICES ASSUME Init PROVE TypeOK
    OBVIOUS
  <2>1. FlagsOK
    BY DEF Init, TypeOK, FlagsOK, QueuesOK, ThreadsOK, CallSteps, OnHandleReadySteps, DispatchSteps, Thread, NoThread
  <2>2. QueuesOK
    BY DEF Init, TypeOK, FlagsOK, QueuesOK, ThreadsOK, CallSteps, OnHandleReadySteps, DispatchSteps, Thread, NoThread
  <2>3. ThreadsOK
    BY DEF Init, TypeOK, FlagsOK, QueuesOK, ThreadsOK, CallSteps, OnHandleReadySteps, DispatchSteps, Thread, NoThread
  <2> QED
    BY <2>1, <2>2, <2>3 DEF TypeOK
<1>2. TypeOK /\ [Next]_vars => TypeOK'
  <2> SUFFICES ASSUME TypeOK, [Next]_vars PROVE TypeOK'
    OBVIOUS
  <2> USE DEF TypeOK, FlagsOK, QueuesOK, ThreadsOK, CallSteps, OnHandleReadySteps, DispatchSteps, Thread, NoThread, Goto,
         javaVars, watchVars, pipeVars, queueVars
  <2>1. CASE SetMessageCallback
    BY <2>1 DEF SetMessageCallback, MayCall
  <2>2. ASSUME NEW h \in {"null", "UI", "BG"}, InstallCallback(h) PROVE TypeOK'
    BY <2>2 DEF InstallCallback, CanLockJava
  <2>3. CASE StopWatching
    BY <2>3 DEF StopWatching
  <2>4. CASE CancelWatch
    <3>1. FlagsOK'
      BY <2>4 DEF CancelWatch
    <3>2. QueuesOK'
      BY <2>4 DEF CancelWatch
    <3>3. ThreadsOK'
      BY <2>4 DEF CancelWatch
    <3> QED
      BY <3>1, <3>2, <3>3
  <2>5. CASE StartWatching
    <3>1. FlagsOK'
      BY <2>5 DEF StartWatching, ReturnPoint, ArmWatcher, Enqueue, Readable
    <3>2. QueuesOK'
      BY <2>5 DEF StartWatching, ReturnPoint, ArmWatcher, Enqueue, Readable
    <3>3. ThreadsOK'
      BY <2>5 DEF StartWatching, ReturnPoint, ArmWatcher, Enqueue, Readable
    <3> QED
      BY <3>1, <3>2, <3>3
  <2>6. CASE Close
    BY <2>6 DEF Close, MayCall
  <2>7. CASE TakeNativePort
    <3>1. FlagsOK'
      BY <2>7 DEF TakeNativePort, CanLockJava, ReturnPoint
    <3>2. QueuesOK'
      BY <2>7 DEF TakeNativePort, CanLockJava, ReturnPoint
    <3>3. ThreadsOK'
      BY <2>7 DEF TakeNativePort, CanLockJava, ReturnPoint
    <3> QED
      BY <3>1, <3>2, <3>3
  <2>8. CASE CloseMessagePort
    <3>1. FlagsOK'
      BY <2>8 DEF CloseMessagePort, ReturnPoint
    <3>2. QueuesOK'
      BY <2>8 DEF CloseMessagePort, ReturnPoint
    <3>3. ThreadsOK'
      BY <2>8 DEF CloseMessagePort, ReturnPoint
    <3> QED
      BY <3>1, <3>2, <3>3
  <2>9. CASE WatcherFires
    <3>1. FlagsOK'
      BY <2>9 DEF WatcherFires
    <3>2. QueuesOK'
      BY <2>9 DEF WatcherFires
    <3>3. ThreadsOK'
      BY <2>9 DEF WatcherFires
    <3> QED
      BY <3>1, <3>2, <3>3
  <2>10. ASSUME NEW t \in {"UI", "IO"}, RunTask(t) PROVE TypeOK'
    BY <2>10 DEF RunTask
  <2>11. ASSUME NEW t \in {"UI", "IO"}, EnterHandleReady(t) PROVE TypeOK'
    BY <2>11 DEF EnterHandleReady
  <2>12. ASSUME NEW t \in {"UI", "IO"}, RunCallback(t) PROVE TypeOK'
    BY <2>12 DEF RunCallback
  <2>13. ASSUME NEW t \in {"UI", "IO"}, OnMessagesAvailable(t) PROVE TypeOK'
    BY <2>13 DEF OnMessagesAvailable, CanLockJava, Enqueue
  <2>14. ASSUME NEW t \in {"UI", "IO"}, Rearm(t) PROVE TypeOK'
    BY <2>14 DEF Rearm, ArmWatcher, Enqueue, Readable
  <2>15. ASSUME NEW t \in {"UI", "BG"}, HandleMessage(t) PROVE TypeOK'
    BY <2>15 DEF HandleMessage
  <2>16. ASSUME NEW t \in {"UI", "BG"}, DispatchNextMessage(t) PROVE TypeOK'
    <3>1. FlagsOK'
      BY <2>16 DEF DispatchNextMessage, CanLockJava, Readable
    <3>2. QueuesOK'
      <4>1. read + 1 \in Nat /\ read + 1 \in 0..MaxMessages
        BY <2>16 DEF DispatchNextMessage, Readable
      <4>2. delivered' \in Seq(Nat)
        <5>1. Append(delivered, read + 1) \in Seq(Nat)
          BY <4>1
        <5>2. delivered' \in {delivered, Append(delivered, read + 1)}
          BY ONLY <2>16 DEF DispatchNextMessage
        <5> QED
          BY <5>1, <5>2
      <4> QED
        BY <2>16, <4>1, <4>2 DEF DispatchNextMessage
    <3>3. ThreadsOK'
      BY <2>16 DEF DispatchNextMessage, CanLockJava, Readable
    <3> QED
      BY <3>1, <3>2, <3>3
  <2>17. ASSUME NEW t \in {"UI", "BG"}, DispatchEnds(t) PROVE TypeOK'
    BY <2>17 DEF DispatchEnds, CanLockJava, Readable
  <2>18. ASSUME NEW t \in {"UI", "BG"}, OnMessageReturns(t) PROVE TypeOK'
    BY <2>18 DEF OnMessageReturns
  <2>19. CASE PeerPosts
    <3>1. FlagsOK'
      BY <2>19 DEF PeerPosts, Readable
    <3>2. QueuesOK'
      BY <2>19 DEF PeerPosts, Readable
    <3>3. ThreadsOK'
      BY <2>19 DEF PeerPosts, Readable
    <3> QED
      BY <3>1, <3>2, <3>3
  <2>20. CASE UNCHANGED vars
    BY <2>20 DEF vars, Readable
  <2> QED
    BY <2>1, <2>2, <2>3, <2>4, <2>5, <2>6, <2>7, <2>8, <2>9, <2>10, <2>11, <2>12, <2>13, <2>14, <2>15, <2>16, <2>17, <2>18, <2>19, <2>20
       DEF Next, CallStep, HandleReady, DispatchLoop
<1> QED
  BY <1>1, <1>2, PTL DEF Spec

\* onMessage is entered with mLock and no step takes the lock away from it.
THEOREM JavaLockIsHeld == Spec => []JavaLockHeld
<1> USE BoundsAssumption
<1>1. Init => JavaLockHeld
  BY DEF Init, TypeOK, ThreadsOK, JavaLockHeld, CallSteps, OnHandleReadySteps, DispatchSteps, Thread, NoThread
<1>2. TypeOK /\ JavaLockHeld /\ [Next]_vars => JavaLockHeld'
  <2> SUFFICES ASSUME TypeOK /\ JavaLockHeld, [Next]_vars PROVE JavaLockHeld'
    OBVIOUS
  <2> USE DEF TypeOK, ThreadsOK, JavaLockHeld, CallSteps, OnHandleReadySteps, DispatchSteps, Thread, NoThread, Goto,
         javaVars, watchVars, pipeVars, queueVars
  <2>1. CASE SetMessageCallback
    BY <2>1 DEF SetMessageCallback, MayCall
  <2>2. ASSUME NEW h \in {"null", "UI", "BG"}, InstallCallback(h) PROVE JavaLockHeld'
    BY <2>2 DEF InstallCallback, CanLockJava
  <2>3. CASE StopWatching
    BY <2>3 DEF StopWatching
  <2>4. CASE CancelWatch
    BY <2>4 DEF CancelWatch
  <2>5. CASE StartWatching
    BY <2>5 DEF StartWatching, ReturnPoint, ArmWatcher, Enqueue, Readable
  <2>6. CASE Close
    BY <2>6 DEF Close, MayCall
  <2>7. CASE TakeNativePort
    BY <2>7 DEF TakeNativePort, CanLockJava, ReturnPoint
  <2>8. CASE CloseMessagePort
    BY <2>8 DEF CloseMessagePort, ReturnPoint
  <2>9. CASE WatcherFires
    BY <2>9 DEF WatcherFires
  <2>10. ASSUME NEW t \in {"UI", "IO"}, RunTask(t) PROVE JavaLockHeld'
    BY <2>10 DEF RunTask
  <2>11. ASSUME NEW t \in {"UI", "IO"}, EnterHandleReady(t) PROVE JavaLockHeld'
    BY <2>11 DEF EnterHandleReady
  <2>12. ASSUME NEW t \in {"UI", "IO"}, RunCallback(t) PROVE JavaLockHeld'
    BY <2>12 DEF RunCallback
  <2>13. ASSUME NEW t \in {"UI", "IO"}, OnMessagesAvailable(t) PROVE JavaLockHeld'
    BY <2>13 DEF OnMessagesAvailable, CanLockJava, Enqueue
  <2>14. ASSUME NEW t \in {"UI", "IO"}, Rearm(t) PROVE JavaLockHeld'
    BY <2>14 DEF Rearm, ArmWatcher, Enqueue, Readable
  <2>15. ASSUME NEW t \in {"UI", "BG"}, HandleMessage(t) PROVE JavaLockHeld'
    BY <2>15 DEF HandleMessage
  <2>16. ASSUME NEW t \in {"UI", "BG"}, DispatchNextMessage(t) PROVE JavaLockHeld'
    BY <2>16 DEF DispatchNextMessage, CanLockJava, Readable
  <2>17. ASSUME NEW t \in {"UI", "BG"}, DispatchEnds(t) PROVE JavaLockHeld'
    BY <2>17 DEF DispatchEnds, CanLockJava, Readable
  <2>18. ASSUME NEW t \in {"UI", "BG"}, OnMessageReturns(t) PROVE JavaLockHeld'
    BY <2>18 DEF OnMessageReturns
  <2>19. CASE PeerPosts
    BY <2>19 DEF PeerPosts, Readable
  <2>20. CASE UNCHANGED vars
    BY <2>20 DEF vars, Readable
  <2> QED
    BY <2>1, <2>2, <2>3, <2>4, <2>5, <2>6, <2>7, <2>8, <2>9, <2>10, <2>11, <2>12, <2>13, <2>14, <2>15, <2>16, <2>17, <2>18, <2>19, <2>20
       DEF Next, CallStep, HandleReady, DispatchLoop
<1> QED
  BY <1>1, <1>2, TypeCorrect, PTL DEF Spec

\* The steps of close() clear the pointer before the instance is deleted, and
\* clear it only while no other thread dispatches.
THEOREM CloseProceeds == Spec => []CloseProgress
<1> USE BoundsAssumption
<1>1. Init => CloseProgress
  BY DEF Init, TypeOK, FlagsOK, ThreadsOK, JavaLockHeld, CloseProgress, SetCallbackSteps, CallSteps, OnHandleReadySteps, DispatchSteps, Thread, NoThread
<1>2. TypeOK /\ JavaLockHeld /\ CloseProgress /\ [Next]_vars => CloseProgress'
  <2> SUFFICES ASSUME TypeOK /\ JavaLockHeld /\ CloseProgress, [Next]_vars PROVE CloseProgress'
    OBVIOUS
  <2> USE DEF TypeOK, FlagsOK, ThreadsOK, JavaLockHeld, CloseProgress, SetCallbackSteps, CallSteps, OnHandleReadySteps, DispatchSteps, Thread, NoThread, Goto,
         javaVars, watchVars, pipeVars, queueVars
  <2>1. CASE SetMessageCallback
    BY <2>1 DEF SetMessageCallback, MayCall
  <2>2. ASSUME NEW h \in {"null", "UI", "BG"}, InstallCallback(h) PROVE CloseProgress'
    BY <2>2 DEF InstallCallback, CanLockJava
  <2>3. CASE StopWatching
    BY <2>3 DEF StopWatching
  <2>4. CASE CancelWatch
    BY <2>4 DEF CancelWatch
  <2>5. CASE StartWatching
    BY <2>5 DEF StartWatching, ReturnPoint, ArmWatcher, Enqueue, Readable
  <2>6. CASE Close
    BY <2>6 DEF Close, MayCall
  <2>7. CASE TakeNativePort
    <3>1. (pc["UI"] \in SetCallbackSteps => ~closed)'
      BY <2>7 DEF TakeNativePort, CanLockJava, ReturnPoint
    <3>2. (pc["UI"] \in {"close_lock", "close_native"} => closed)'
      BY <2>7 DEF TakeNativePort, CanLockJava, ReturnPoint
    <3>3. (~closed => ready)' /\ (ready => alive)'
      BY <2>7 DEF TakeNativePort, CanLockJava, ReturnPoint
    <3>4. (closed /\ pc["UI"] # "close_lock" => ~ready /\ pc["BG"] # "onMessage")'
      BY <2>7 DEF TakeNativePort, CanLockJava, ReturnPoint
    <3> QED
      BY <3>1, <3>2, <3>3, <3>4
  <2>8. CASE CloseMessagePort
    <3>1. (pc["UI"] \in SetCallbackSteps => ~closed)'
      BY <2>8 DEF CloseMessagePort, ReturnPoint
    <3>2. (pc["UI"] \in {"close_lock", "close_native"} => closed)'
      BY <2>8 DEF CloseMessagePort, ReturnPoint
    <3>3. (~closed => ready)' /\ (ready => alive)'
      BY <2>8 DEF CloseMessagePort, ReturnPoint
    <3>4. (closed /\ pc["UI"] # "close_lock" => ~ready /\ pc["BG"] # "onMessage")'
      BY <2>8 DEF CloseMessagePort, ReturnPoint
    <3> QED
      BY <3>1, <3>2, <3>3, <3>4
  <2>9. CASE WatcherFires
    BY <2>9 DEF WatcherFires
  <2>10. ASSUME NEW t \in {"UI", "IO"}, RunTask(t) PROVE CloseProgress'
    BY <2>10 DEF RunTask
  <2>11. ASSUME NEW t \in {"UI", "IO"}, EnterHandleReady(t) PROVE CloseProgress'
    BY <2>11 DEF EnterHandleReady
  <2>12. ASSUME NEW t \in {"UI", "IO"}, RunCallback(t) PROVE CloseProgress'
    BY <2>12 DEF RunCallback
  <2>13. ASSUME NEW t \in {"UI", "IO"}, OnMessagesAvailable(t) PROVE CloseProgress'
    BY <2>13 DEF OnMessagesAvailable, CanLockJava, Enqueue
  <2>14. ASSUME NEW t \in {"UI", "IO"}, Rearm(t) PROVE CloseProgress'
    BY <2>14 DEF Rearm, ArmWatcher, Enqueue, Readable
  <2>15. ASSUME NEW t \in {"UI", "BG"}, HandleMessage(t) PROVE CloseProgress'
    BY <2>15 DEF HandleMessage
  <2>16. ASSUME NEW t \in {"UI", "BG"}, DispatchNextMessage(t) PROVE CloseProgress'
    BY <2>16 DEF DispatchNextMessage, CanLockJava, Readable
  <2>17. ASSUME NEW t \in {"UI", "BG"}, DispatchEnds(t) PROVE CloseProgress'
    BY <2>17 DEF DispatchEnds, CanLockJava, Readable
  <2>18. ASSUME NEW t \in {"UI", "BG"}, OnMessageReturns(t) PROVE CloseProgress'
    BY <2>18 DEF OnMessageReturns
  <2>19. CASE PeerPosts
    BY <2>19 DEF PeerPosts, Readable
  <2>20. CASE UNCHANGED vars
    BY <2>20 DEF vars, Readable
  <2> QED
    BY <2>1, <2>2, <2>3, <2>4, <2>5, <2>6, <2>7, <2>8, <2>9, <2>10, <2>11, <2>12, <2>13, <2>14, <2>15, <2>16, <2>17, <2>18, <2>19, <2>20
       DEF Next, CallStep, HandleReady, DispatchLoop
<1> QED
  BY <1>1, <1>2, TypeCorrect, JavaLockIsHeld, PTL DEF Spec

\* Arming, replacing and calling back the watcher never leave it unattended.
THEOREM WatchIsAttended == Spec => []WatchAttended
<1> USE BoundsAssumption
<1>1. Init => WatchAttended
  BY DEF Init, TypeOK, FlagsOK, QueuesOK, ThreadsOK, WatchAttended, HoldsStateLock, Readable, CallSteps, OnHandleReadySteps, DispatchSteps, Thread, NoThread
<1>2. TypeOK /\ WatchAttended /\ [Next]_vars => WatchAttended'
  <2> SUFFICES ASSUME TypeOK /\ WatchAttended, [Next]_vars PROVE WatchAttended'
    OBVIOUS
  <2> USE DEF TypeOK, FlagsOK, QueuesOK, ThreadsOK, WatchAttended, HoldsStateLock, Readable, CallSteps, OnHandleReadySteps, DispatchSteps, Thread, NoThread, Goto,
         javaVars, watchVars, pipeVars, queueVars
  <2>1. CASE SetMessageCallback
    BY <2>1 DEF SetMessageCallback, MayCall
  <2>2. ASSUME NEW h \in {"null", "UI", "BG"}, InstallCallback(h) PROVE WatchAttended'
    BY <2>2 DEF InstallCallback, CanLockJava
  <2>3. CASE StopWatching
    BY <2>3 DEF StopWatching
  <2>4. CASE CancelWatch
    BY <2>4 DEF CancelWatch
  <2>5. CASE StartWatching
    <3>1. (watcher = callback)'
      BY <2>5 DEF StartWatching, ReturnPoint, ArmWatcher, Enqueue, Readable
    <3>2. (pc["UI"] \in {"scb_cancel", "scb_start"} => ~watcher)'
      BY <2>5 DEF StartWatching, ReturnPoint, ArmWatcher, Enqueue, Readable
    <3>3. (armed => ~Readable)'
      BY <2>5 DEF StartWatching, ReturnPoint, ArmWatcher, Enqueue, Readable
    <3>4. WatchAttended!4'
      <4>1. CASE Readable
        <5>1. tasks'["UI"] > 0
          BY <2>5, <4>1 DEF StartWatching, ArmWatcher, Enqueue
        <5> QED
          BY <5>1
      <4>2. CASE ~Readable
        BY <2>5, <4>2 DEF StartWatching, ArmWatcher
      <4> QED
        BY <4>1, <4>2
    <3> QED
      BY <3>1, <3>2, <3>3, <3>4
  <2>6. CASE Close
    BY <2>6 DEF Close, MayCall
  <2>7. CASE TakeNativePort
    BY <2>7 DEF TakeNativePort, CanLockJava, ReturnPoint
  <2>8. CASE CloseMessagePort
    BY <2>8 DEF CloseMessagePort, ReturnPoint
  <2>9. CASE WatcherFires
    BY <2>9 DEF WatcherFires
  <2>10. ASSUME NEW t \in {"UI", "IO"}, RunTask(t) PROVE WatchAttended'
    BY <2>10 DEF RunTask
  <2>11. ASSUME NEW t \in {"UI", "IO"}, EnterHandleReady(t) PROVE WatchAttended'
    BY <2>11 DEF EnterHandleReady
  <2>12. ASSUME NEW t \in {"UI", "IO"}, RunCallback(t) PROVE WatchAttended'
    BY <2>12 DEF RunCallback
  <2>13. ASSUME NEW t \in {"UI", "IO"}, OnMessagesAvailable(t) PROVE WatchAttended'
    BY <2>13 DEF OnMessagesAvailable, CanLockJava, Enqueue
  <2>14. ASSUME NEW t \in {"UI", "IO"}, Rearm(t) PROVE WatchAttended'
    BY <2>14 DEF Rearm, ArmWatcher, Enqueue, Readable
  <2>15. ASSUME NEW t \in {"UI", "BG"}, HandleMessage(t) PROVE WatchAttended'
    BY <2>15 DEF HandleMessage
  <2>16. ASSUME NEW t \in {"UI", "BG"}, DispatchNextMessage(t) PROVE WatchAttended'
    BY <2>16 DEF DispatchNextMessage, CanLockJava, Readable
  <2>17. ASSUME NEW t \in {"UI", "BG"}, DispatchEnds(t) PROVE WatchAttended'
    BY <2>17 DEF DispatchEnds, CanLockJava, Readable
  <2>18. ASSUME NEW t \in {"UI", "BG"}, OnMessageReturns(t) PROVE WatchAttended'
    BY <2>18 DEF OnMessageReturns
  <2>19. CASE PeerPosts
    BY <2>19 DEF PeerPosts, Readable
  <2>20. CASE UNCHANGED vars
    BY <2>20 DEF vars, Readable
  <2> QED
    BY <2>1, <2>2, <2>3, <2>4, <2>5, <2>6, <2>7, <2>8, <2>9, <2>10, <2>11, <2>12, <2>13, <2>14, <2>15, <2>16, <2>17, <2>18, <2>19, <2>20
       DEF Next, CallStep, HandleReady, DispatchLoop
<1> QED
  BY <1>1, <1>2, TypeCorrect, PTL DEF Spec

\* With close() the only call made inside onMessage, mLock is held by a thread that
\* waits for nothing, and lock_ by one that waits for at most mLock.
THEOREM LocksHeldWhileRunning ==
  ASSUME "setMessageCallback" \notin ReentrantCalls
  PROVE  Spec => []LockHolders
<1> USE BoundsAssumption
<1>1. Init => LockHolders
  BY DEF Init, TypeOK, FlagsOK, ThreadsOK, LockHolders, HoldsStateLock, CallSteps, OnHandleReadySteps, DispatchSteps, Thread, NoThread
<1>2. TypeOK /\ LockHolders /\ [Next]_vars => LockHolders'
  <2> SUFFICES ASSUME TypeOK /\ LockHolders, [Next]_vars PROVE LockHolders'
    OBVIOUS
  <2> USE DEF TypeOK, FlagsOK, ThreadsOK, LockHolders, HoldsStateLock, CallSteps, OnHandleReadySteps, DispatchSteps, Thread, NoThread, Goto,
         javaVars, watchVars, pipeVars, queueVars
  <2>1. CASE SetMessageCallback
    BY <2>1 DEF SetMessageCallback, MayCall
  <2>2. ASSUME NEW h \in {"null", "UI", "BG"}, InstallCallback(h) PROVE LockHolders'
    BY <2>2 DEF InstallCallback, CanLockJava
  <2>3. CASE StopWatching
    BY <2>3 DEF StopWatching
  <2>4. CASE CancelWatch
    BY <2>4 DEF CancelWatch
  <2>5. CASE StartWatching
    BY <2>5 DEF StartWatching, ReturnPoint, ArmWatcher, Enqueue, Readable
  <2>6. CASE Close
    BY <2>6 DEF Close, MayCall
  <2>7. CASE TakeNativePort
    BY <2>7 DEF TakeNativePort, CanLockJava, ReturnPoint
  <2>8. CASE CloseMessagePort
    BY <2>8 DEF CloseMessagePort, ReturnPoint
  <2>9. CASE WatcherFires
    BY <2>9 DEF WatcherFires
  <2>10. ASSUME NEW t \in {"UI", "IO"}, RunTask(t) PROVE LockHolders'
    BY <2>10 DEF RunTask
  <2>11. ASSUME NEW t \in {"UI", "IO"}, EnterHandleReady(t) PROVE LockHolders'
    BY <2>11 DEF EnterHandleReady
  <2>12. ASSUME NEW t \in {"UI", "IO"}, RunCallback(t) PROVE LockHolders'
    BY <2>12 DEF RunCallback
  <2>13. ASSUME NEW t \in {"UI", "IO"}, OnMessagesAvailable(t) PROVE LockHolders'
    BY <2>13 DEF OnMessagesAvailable, CanLockJava, Enqueue
  <2>14. ASSUME NEW t \in {"UI", "IO"}, Rearm(t) PROVE LockHolders'
    BY <2>14 DEF Rearm, ArmWatcher, Enqueue, Readable
  <2>15. ASSUME NEW t \in {"UI", "BG"}, HandleMessage(t) PROVE LockHolders'
    BY <2>15 DEF HandleMessage
  <2>16. ASSUME NEW t \in {"UI", "BG"}, DispatchNextMessage(t) PROVE LockHolders'
    BY <2>16 DEF DispatchNextMessage, CanLockJava, Readable
  <2>17. ASSUME NEW t \in {"UI", "BG"}, DispatchEnds(t) PROVE LockHolders'
    BY <2>17 DEF DispatchEnds, CanLockJava, Readable
  <2>18. ASSUME NEW t \in {"UI", "BG"}, OnMessageReturns(t) PROVE LockHolders'
    BY <2>18 DEF OnMessageReturns
  <2>19. CASE PeerPosts
    BY <2>19 DEF PeerPosts, Readable
  <2>20. CASE UNCHANGED vars
    BY <2>20 DEF vars, Readable
  <2> QED
    BY <2>1, <2>2, <2>3, <2>4, <2>5, <2>6, <2>7, <2>8, <2>9, <2>10, <2>11, <2>12, <2>13, <2>14, <2>15, <2>16, <2>17, <2>18, <2>19, <2>20
       DEF Next, CallStep, HandleReady, DispatchLoop
<1> QED
  BY <1>1, <1>2, TypeCorrect, PTL DEF Spec

-----------------------------------------------------------------------------
(* What follows from the invariant.                                        *)

\* The native instance outlives every use the dispatcher and setMessageCallback
\* make of it.
THEOREM NativeOutlivesItsUsersHolds == Spec => []NativeOutlivesItsUsers
<1>1. CloseProgress => NativeOutlivesItsUsers
  BY DEF CloseProgress, NativeOutlivesItsUsers, SetCallbackSteps
<1> QED
  BY <1>1, CloseProceeds, PTL

\* onMessage never runs on two threads, whatever handlers were installed.
THEOREM OneOnMessageHolds == Spec => []OneOnMessageAtATime
<1>1. JavaLockHeld => OneOnMessageAtATime
  BY DEF JavaLockHeld, OneOnMessageAtATime
<1> QED
  BY <1>1, JavaLockIsHeld, PTL

\* After close() no other thread is inside onMessage.
THEOREM ClosedMeansQuietHolds == Spec => []ClosedMeansQuiet
<1>1. CloseProgress => ClosedMeansQuiet
  BY DEF CloseProgress, ClosedMeansQuiet
<1> QED
  BY <1>1, CloseProceeds, PTL

\* A message that arrives at a watched pipe is attended to.
THEOREM NoLostWakeupHolds == Spec => []NoLostWakeup
<1>1. WatchAttended => NoLostWakeup
  BY DEF WatchAttended, NoLostWakeup
<1> QED
  BY <1>1, WatchIsAttended, PTL

\* close() is final: no delivery begins after it returned.
THEOREM NoDeliveryAfterCloseHolds == Spec => NoDeliveryAfterClose
<1>1. TypeOK /\ CloseProgress /\ [Next]_vars
        => [closed /\ pc["UI"] = "idle" => delivered' = delivered]_vars
  <2> SUFFICES ASSUME CloseProgress, [Next]_vars, closed, pc["UI"] = "idle"
               PROVE  delivered' = delivered
    BY DEF vars
  <2>1. ~ready
    BY DEF CloseProgress
  <2>2. ASSUME NEW t \in {"UI", "BG"}, DispatchNextMessage(t) PROVE FALSE
    BY <2>1, <2>2 DEF DispatchNextMessage
  <2> QED
    BY <2>2 DEF Next, vars, pipeVars, CallStep, HandleReady, DispatchLoop,
       SetMessageCallback, Close, InstallCallback, StopWatching, CancelWatch,
       StartWatching, TakeNativePort, CloseMessagePort, WatcherFires, RunTask,
       EnterHandleReady, RunCallback, OnMessagesAvailable, Rearm, HandleMessage,
       DispatchEnds, OnMessageReturns, PeerPosts
<1> QED
  BY <1>1, TypeCorrect, CloseProceeds, PTL DEF Spec, NoDeliveryAfterClose

\* The threads, locks and watcher implement the abstract delivery: a read under
\* mLock is a Deliver or a Skip, clearing the pointer is the Close, and every
\* other step is invisible.
THEOREM PortImplementsDelivery == Spec => ImplementsPortDelivery
<1> USE BoundsAssumption, MessagesAssumption
<1>1. Init => Delivery!Init
  BY DEF Init, Delivery!Init
<1>2. TypeOK /\ [Next]_vars => [Delivery!Next]_(Delivery!vars)
  <2> SUFFICES ASSUME TypeOK, [Next]_vars
               PROVE  [Delivery!Next]_(Delivery!vars)
    OBVIOUS
  <2> USE DEF Delivery!Next, Delivery!vars
  <2>1. CASE PeerPosts
    BY <2>1 DEF PeerPosts, javaVars, Delivery!Post
  <2>2. ASSUME NEW t \in {"UI", "BG"}, DispatchNextMessage(t)
        PROVE  Delivery!Deliver \/ Delivery!Skip
    <3>1. CASE hasCallback
      BY <2>2, <3>1 DEF DispatchNextMessage, Readable, javaVars, Delivery!Deliver
    <3>2. CASE ~hasCallback
      BY <2>2, <3>2 DEF DispatchNextMessage, Readable, javaVars, Delivery!Skip
    <3> QED
      BY <3>1, <3>2
  <2>3. ASSUME NEW t \in {"UI", "BG"}, DispatchEnds(t)
        PROVE  Delivery!Skip \/ UNCHANGED Delivery!vars
    BY <2>3 DEF DispatchEnds, Readable, javaVars, Delivery!Skip
  <2>4. CASE TakeNativePort
    BY <2>4 DEF TakeNativePort, pipeVars, Delivery!Close, TypeOK, FlagsOK
  <2>5. ASSUME NEW h \in {"null", "UI", "BG"}, InstallCallback(h)
        PROVE  Delivery!Listen \/ UNCHANGED Delivery!vars
    <3>1. hasCallback' \in BOOLEAN /\ hasCallback \in BOOLEAN
      BY <2>5, CallbacksAssumption DEF InstallCallback, TypeOK, FlagsOK
    <3>2. hasCallback' = hasCallback \/ hasCallback' = ~hasCallback
      BY <3>1
    <3> QED
      BY <2>5, <3>2 DEF InstallCallback, pipeVars, Delivery!Listen
  <2>6. CASE \/ SetMessageCallback \/ Close
             \/ StopWatching \/ CancelWatch \/ StartWatching
             \/ CloseMessagePort \/ WatcherFires
             \/ \E t \in {"UI", "IO"} : RunTask(t) \/ HandleReady(t)
             \/ \E t \in {"UI", "BG"} : HandleMessage(t) \/ OnMessageReturns(t)
             \/ UNCHANGED vars
    BY <2>6 DEF pipeVars, javaVars, vars, HandleReady, SetMessageCallback, Close,
       StopWatching, CancelWatch, StartWatching,
       CloseMessagePort, WatcherFires, RunTask, EnterHandleReady, RunCallback,
       OnMessagesAvailable, Rearm, HandleMessage, OnMessageReturns
  <2> QED
    BY <2>1, <2>2, <2>3, <2>4, <2>5, <2>6 DEF Next, CallStep, DispatchLoop
<1> QED
  BY <1>1, <1>2, TypeCorrect, PTL
     DEF Spec, ImplementsPortDelivery, Delivery!Spec

\* As long as the application leaves setMessageCallback alone inside onMessage,
\* no threads wait for one another in a circle.
THEOREM NoLockCycleHolds ==
  ASSUME "setMessageCallback" \notin ReentrantCalls
  PROVE  Spec => []NoLockCycle
<1>1. TypeOK /\ LockHolders => NoLockCycle
  <2> SUFFICES ASSUME TypeOK, LockHolders PROVE NoLockCycle
    OBVIOUS
  <2> USE DEF TypeOK, ThreadsOK, LockHolders, HoldsStateLock, Thread, NoThread,
              WaitsFor, OnHandleReadySteps, DispatchSteps
  <2>1. ASSUME NEW t \in Thread, NEW u \in Thread, mLock = t PROVE ~WaitsFor(t, u)
    BY <2>1
  <2>2. ASSUME NEW t \in Thread, NEW u \in Thread, NEW v \in Thread,
               stateLock = t, WaitsFor(t, u)
        PROVE  ~WaitsFor(u, v)
    BY <2>2, <2>1
  <2> QED
    BY <2>1, <2>2 DEF NoLockCycle
<1> QED
  BY <1>1, TypeCorrect, LocksHeldWhileRunning, PTL

=============================================================================
