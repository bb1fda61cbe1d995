-------------------------- MODULE LiveThreaded_proofs --------------------------
(***************************************************************************)
(* The safety of LiveThreaded for any number of threads in BlockForStop,   *)
(* with and without the optional callbacks.  The inductive invariant says  *)
(* which program locations hold the mutex, which ones can see a closed     *)
(* session, and that a thread between its predicate check and its wait     *)
(* keeps NotifyOfStop out.                                                 *)
(***************************************************************************)
EXTENDS LiveThreaded, TLAPS

NotifyHolds == {"notify_set", "notify_all", "notify_unlock"}
WaiterHolds == {"check", "enqueue", "timed_out"}

\* Start() from a callback can rely on thread_id_.
ThreadIdSet == pc \notin {"unborn", "entry"} => thread_id = Processing

\* The session is closed on the way out of the thread function, and only there.
NotifyAfterClose == pc \in {"notify_lock"} \cup NotifyHolds => session = "closed"
ClosedAtEnd ==
  session = "closed" => pc \in {"notify_lock", "done"} \cup NotifyHolds \/ owner = "freed"
StopAtEnd ==
  last_cb_ret = "Stop" => pc \in {"notify_all", "notify_unlock", "done"} /\ session = "closed"

\* last_cb_ret_mutex excludes.
LockHeld ==
  /\ mutex = Processing <=> pc \in NotifyHolds
  /\ \A w \in Waiters : mutex = w <=> waiter[w] \in WaiterHolds

\* A thread that has seen no Stop and is about to wait is before NotifyOfStop.
EnqueueBeforeStop == \A w \in Waiters : waiter[w] = "enqueue" => last_cb_ret # "Stop"
StoppedSawStop == \A w \in Waiters : waiter[w] = "stopped" => last_cb_ret = "Stop"

\* The NextRecord loop runs on an announced session.
Announced == pc \in {"next_loop", "next", "record_cb"} /\ session = "streaming" => announced

Freed == owner = "freed" => pc \in {"unborn", "done"}

IInv ==
  /\ TypeOK
  /\ ThreadIdSet
  /\ NotifyAfterClose
  /\ ClosedAtEnd
  /\ StopAtEnd
  /\ LockHeld
  /\ EnqueueBeforeStop
  /\ StoppedSawStop
  /\ NoLostWakeup
  /\ SilentAfterStop
  /\ Announced
  /\ Freed
  /\ NoSelfJoin
-----------------------------------------------------------------------------

\* The initial states satisfy the invariant.
LEMMA InitIInv == Init => IInv
<1> SUFFICES ASSUME Init PROVE IInv
  OBVIOUS
<1> USE ThreadsAssumption DEF Init
<1>1. keep_going \in BOOLEAN /\ stop_ret \in BOOLEAN /\ announced \in BOOLEAN
  BY Zenon
<1>2. TypeOK
  BY <1>1 DEF TypeOK, PCs, Callbacks, WaiterStates, Processing, Optional
<1>3. ThreadIdSet /\ NotifyAfterClose /\ ClosedAtEnd /\ StopAtEnd /\ LockHeld
  BY DEF ThreadIdSet, NotifyAfterClose, ClosedAtEnd, StopAtEnd, LockHeld, NotifyHolds,
         WaiterHolds, Processing
<1>4. EnqueueBeforeStop /\ StoppedSawStop /\ NoLostWakeup /\ SilentAfterStop
  BY DEF EnqueueBeforeStop, StoppedSawStop, NoLostWakeup, SilentAfterStop
<1>5. Announced /\ Freed /\ NoSelfJoin
  BY DEF Announced, Freed, NoSelfJoin, Processing
<1> QED
  BY <1>2, <1>3, <1>4, <1>5 DEF IInv

\* Every step of the owner, the processing thread and the waiting threads keeps it.
LEMMA NextIInv == IInv /\ [Next]_vars => IInv'
<1> SUFFICES ASSUME IInv, [Next]_vars PROVE IInv'
  OBVIOUS
<1> USE ThreadsAssumption
    DEF IInv, TypeOK, ThreadIdSet, NotifyAfterClose, ClosedAtEnd, StopAtEnd, LockHeld,
        EnqueueBeforeStop, StoppedSawStop, NoLostWakeup, SilentAfterStop, Announced, Freed,
        NoSelfJoin, NotifyHolds, WaiterHolds, PCs, Callbacks, WaiterStates, Processing,
        Alive, Goto, lockVars, ownerVars, blockingVars
<1>1. CASE Start
  BY <1>1 DEF Start
<1>2. CASE MoveAssign
  <2>1. keep_going' \in BOOLEAN
    BY <1>2, Zenon DEF MoveAssign
  <2>2. TypeOK'
    BY <1>2, <2>1 DEF MoveAssign
  <2>3. /\ ThreadIdSet' /\ NotifyAfterClose' /\ ClosedAtEnd' /\ StopAtEnd' /\ LockHeld'
       /\ EnqueueBeforeStop' /\ StoppedSawStop' /\ NoLostWakeup' /\ SilentAfterStop'
       /\ Announced' /\ Freed' /\ NoSelfJoin'
    BY <1>2 DEF MoveAssign
  <2> QED
    BY <2>2, <2>3
<1>3. CASE Destroy
  <2>1. keep_going' \in BOOLEAN
    BY <1>3, Zenon DEF Destroy
  <2>2. TypeOK'
    BY <1>3, <2>1 DEF Destroy
  <2>3. /\ ThreadIdSet' /\ NotifyAfterClose' /\ ClosedAtEnd' /\ StopAtEnd' /\ LockHeld'
       /\ EnqueueBeforeStop' /\ StoppedSawStop' /\ NoLostWakeup' /\ SilentAfterStop'
       /\ Announced' /\ Freed' /\ NoSelfJoin'
    BY <1>3 DEF Destroy
  <2> QED
    BY <2>2, <2>3
<1>4. CASE Joined
  BY <1>4 DEF Joined
<1>5. CASE Entry
  BY <1>5 DEF Entry
<1>6. CASE StartLoop
  BY <1>6 DEF StartLoop
<1>7. CASE MetadataCallbackReturns
  BY <1>7 DEF MetadataCallbackReturns
<1>8. CASE NextLoop
  BY <1>8 DEF NextLoop
<1>9. CASE NextRecordTimesOut
  BY <1>9 DEF NextRecordTimesOut
<1>10. CASE NextRecordReturns
  BY <1>10 DEF NextRecordReturns
<1>11. CASE StopSession
  BY <1>11 DEF StopSession
<1>12. CASE HandlerStops
  BY <1>12 DEF HandlerStops
<1>13. CASE NotifyLock
  BY <1>13 DEF NotifyLock
<1>14. CASE NotifySet
  BY <1>14 DEF NotifySet
<1>15. CASE NotifyAll
  BY <1>15 DEF NotifyAll
<1>16. CASE NotifyUnlock
  BY <1>16 DEF NotifyUnlock
<1>17. CASE StartReturns
  <2>1. announced' \in BOOLEAN
    BY <1>17, Zenon DEF StartReturns
  <2>3. TypeOK'
    BY <1>17, <2>1 DEF StartReturns
  <2>4. /\ ThreadIdSet' /\ NotifyAfterClose' /\ ClosedAtEnd' /\ StopAtEnd' /\ LockHeld'
       /\ EnqueueBeforeStop' /\ StoppedSawStop' /\ NoLostWakeup' /\ SilentAfterStop'
       /\ Announced' /\ Freed' /\ NoSelfJoin'
    BY <1>17 DEF StartReturns
  <2> QED
    BY <2>3, <2>4
<1>18. CASE ExceptionCallbackThrows
  BY <1>18 DEF ExceptionCallbackThrows
<1>19. CASE CallbackReconnects
  BY <1>19 DEF CallbackReconnects
<1>20. CASE CallbackStarts
  BY <1>20 DEF CallbackStarts
<1>21. CASE \E ret \in {"Continue", "Stop"} : RecordCallbackReturns(ret)
  BY <1>21 DEF RecordCallbackReturns
<1>22. CASE \E from \in {"start", "metadata_cb", "next", "record_cb"} : Throws(from)
  BY <1>22 DEF Throws, TryBlock
<1>23. CASE \E ret \in {"Restart", "Stop"} : ExceptionCallbackReturns(ret)
  BY <1>23 DEF ExceptionCallbackReturns
<1>24. CASE \E w \in Waiters : BlockForStop(w)
  BY <1>24 DEF BlockForStop, MoveWaiter
<1>25. CASE \E w \in Waiters : Acquire(w)
  BY <1>25 DEF Acquire, MoveWaiter
<1>26. CASE \E w \in Waiters : SeesStop(w)
  BY <1>26 DEF SeesStop, MoveWaiter
<1>27. CASE \E w \in Waiters : SeesNoStop(w)
  BY <1>27 DEF SeesNoStop, MoveWaiter
<1>28. CASE \E w \in Waiters : Wait(w)
  BY <1>28 DEF Wait, MoveWaiter
<1>29. CASE \E w \in Waiters : GivesUp(w)
  BY <1>29 DEF GivesUp, MoveWaiter
<1>30. CASE \E w \in Waiters : Wakeup(w)
  BY <1>30 DEF Wakeup, MoveWaiter
<1>31. CASE \E w \in Waiters : TimesOut(w)
  BY <1>31 DEF TimesOut, MoveWaiter
<1>32. CASE UNCHANGED vars
  BY <1>32 DEF vars
<1> QED
  BY <1>1, <1>2, <1>3, <1>4, <1>5, <1>6, <1>7, <1>8, <1>9, <1>10, <1>11, <1>12,
     <1>13, <1>14, <1>15, <1>16, <1>17, <1>18, <1>19, <1>20, <1>21, <1>22,
     <1>23, <1>24, <1>25, <1>26, <1>27, <1>28, <1>29, <1>30, <1>31, <1>32
  DEF Next, ProcessingStep, WaiterStep, Finished

\* The invariant holds in every reachable state.
LEMMA IInvHolds == Spec => []IInv
  BY InitIInv, NextIInv, PTL DEF Spec

-----------------------------------------------------------------------------

\* The variables keep their types: the processing thread stays in its control flow
\* and the mutex is held by one of the threads or by none.
THEOREM TypeCorrect == Spec => []TypeOK
<1>1. IInv => TypeOK
  BY DEF IInv
<1> QED
  BY <1>1, IInvHolds, PTL

\* A BlockForStop that reports Stop returns after the session has closed.
THEOREM StopMeansClosedHolds == Spec => []StopMeansClosed
<1>1. IInv => StopMeansClosed
  BY DEF IInv, StopMeansClosed, StoppedSawStop, StopAtEnd
<1> QED
  BY <1>1, IInvHolds, PTL

\* No thread sleeps through NotifyOfStop, for any number of threads in BlockForStop.
THEOREM NoLostWakeupHolds == Spec => []NoLostWakeup
<1>1. IInv => NoLostWakeup
  BY DEF IInv
<1> QED
  BY <1>1, IInvHolds, PTL

\* record_callback sees records of a session only after its metadata_callback.
THEOREM MetadataBeforeRecordsHolds == Spec => []MetadataBeforeRecords
<1>1. IInv => MetadataBeforeRecords
  BY DEF IInv, Announced, MetadataBeforeRecords
<1> QED
  BY <1>1, IInvHolds, PTL

\* No callback runs and no connection is used after a callback returned Stop; the thread has
\* ended when Impl is freed and never reads from a closed connection.
THEOREM NoUseAfterStopHolds == Spec => []NoUseAfterStop
<1>1. IInv => NoUseAfterStop
  BY DEF IInv, Freed, ClosedAtEnd, NotifyHolds, NoUseAfterStop
<1> QED
  BY <1>1, IInvHolds, PTL

\* Start() called from a callback never joins the thread that calls it.
THEOREM NoSelfJoinHolds == Spec => []NoSelfJoin
<1>1. IInv => NoSelfJoin
  BY DEF IInv
<1> QED
  BY <1>1, IInvHolds, PTL
================================================================================
