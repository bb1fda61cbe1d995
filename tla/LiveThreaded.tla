----------------------------- MODULE LiveThreaded -----------------------------
(***************************************************************************)
(* databento::LiveThreaded: one processing thread that owns the session    *)
(* and runs the user's callbacks, any number of application threads in     *)
(* BlockForStop, and the owner that starts, moves over and destroys the    *)
(* client.  They share keep_going (atomic), and last_cb_ret under          *)
(* last_cb_ret_mutex with last_cb_ret_cv.                                  *)
(*                                                                         *)
(* impl->blocking (LiveBlocking) is used here through what its calls can   *)
(* do: Start and NextRecord return or throw, Stop closes the socket,       *)
(* Reconnect opens a new connection or throws.                             *)
(***************************************************************************)
EXTENDS Naturals

CONSTANTS Waiters,       \* application threads that call BlockForStop
          TimedWaiters,  \* those that call the overload with a timeout
          None           \* no thread

ASSUME ThreadsAssumption ==
  /\ TimedWaiters \subseteq Waiters
  /\ None \notin Waiters
  /\ "processing" \notin Waiters /\ "processing" # None

VARIABLES
  pc,           \* where the processing thread is
  try,          \* the try block an exception was thrown from: "start" or "next"
  thread_id,    \* impl->thread_id_
  callbacks,    \* the optional callbacks given to Start
  keep_going,   \* impl->keep_going
  last_cb_ret,  \* impl->last_cb_ret
  mutex,        \* holder of impl->last_cb_ret_mutex
  waiter,       \* where each application thread is in BlockForStop
  owner,        \* life of the LiveThreaded object
  joiner,       \* thread blocked in thread_.join()
  session,      \* state of impl->blocking's connection
  \* history, not in the program:
  stop_ret,     \* a callback returned Stop (or there was none to ask)
  announced     \* metadata_callback has returned for the current session

vars == <<pc, try, thread_id, callbacks, keep_going, last_cb_ret, mutex, waiter,
          owner, joiner, session, stop_ret, announced>>

blockingVars == <<session, announced>>
lockVars == <<last_cb_ret, mutex, waiter>>
ownerVars == <<owner, joiner, keep_going, callbacks>>

Processing == "processing"

\* Callbacks that may be left out of Start.
Optional == {"metadata", "exception"}

Callbacks == {"metadata_cb", "record_cb", "exception_cb"}

PCs == {"unborn", "entry", "start_loop", "start", "next_loop", "next", "stop",
        "handler", "notify_lock", "notify_set", "notify_all", "notify_unlock",
        "done", "terminated"} \cup Callbacks

WaiterStates == {"out", "lock", "check", "enqueue", "wait", "relock", "timed_out",
                 "stopped", "gave_up"}

TypeOK ==
  /\ pc \in PCs
  /\ try \in {"start", "next"}
  /\ thread_id \in {None, Processing}
  /\ callbacks \subseteq Optional
  /\ keep_going \in BOOLEAN
  /\ last_cb_ret \in {"Continue", "Stop"}
  /\ mutex \in Waiters \cup {None, Processing}
  /\ waiter \in [Waiters -> WaiterStates]
  /\ owner \in {"constructed", "started", "destroying", "freed"}
  /\ joiner \in {None, Processing, "owner"}
  /\ session \in {"connected", "streaming", "closed"}
  /\ stop_ret \in BOOLEAN
  /\ announced \in BOOLEAN

Init ==
  /\ pc = "unborn" /\ try = "start"
  /\ thread_id = None
  /\ callbacks = {}
  /\ keep_going = TRUE
  /\ last_cb_ret = "Continue"
  /\ mutex = None
  /\ waiter = [w \in Waiters |-> "out"]
  /\ owner = "constructed" /\ joiner = None
  /\ session = "connected"
  /\ stop_ret = FALSE /\ announced = FALSE

\* The process is gone once an exception escapes the processing thread.
Alive == pc # "terminated"

\* The processing thread moves from one location to another.
Goto(from, to) == pc = from /\ pc' = to

-----------------------------------------------------------------------------
(* The owner.                                                              *)

\* Start(metadata_callback, record_callback, exception_callback), once per
\* instance, from a thread other than the processing thread.
Start ==
  /\ Alive /\ owner = "constructed"
  /\ owner' = "started"
  /\ Goto("unborn", "entry")
  /\ callbacks' \in SUBSET Optional
  /\ UNCHANGED <<try, thread_id, keep_going, joiner, lockVars, blockingVars, stop_ret>>

\* operator=(LiveThreaded&&) with this object on the left: the thread is asked to
\* end and swapped away, to be joined when the right-hand object is destroyed.
MoveAssign ==
  /\ Alive /\ owner = "started" /\ keep_going
  /\ keep_going' = FALSE
  /\ UNCHANGED <<pc, try, thread_id, callbacks, owner, joiner, lockVars,
                 blockingVars, stop_ret>>

\* ~LiveThreaded: keep_going is cleared, then thread_ (declared after impl_) is
\* destroyed first and joins.  The object is not destroyed while a thread of the
\* application is inside BlockForStop.
Destroy ==
  /\ Alive /\ owner \in {"constructed", "started"}
  /\ \A w \in Waiters : waiter[w] \in {"out", "stopped", "gave_up"}
  /\ keep_going' = FALSE
  /\ owner' = "destroying"
  /\ joiner' = IF pc = "unborn" THEN None ELSE "owner"
  /\ UNCHANGED <<pc, try, thread_id, callbacks, lockVars, blockingVars, stop_ret>>

\* Mutant: the thread is detached rather than joined.
Detached ==
  /\ Alive /\ owner = "destroying"
  /\ owner' = "freed" /\ joiner' = None
  /\ session' = "closed"
  /\ UNCHANGED <<pc, try, thread_id, keep_going, callbacks, lockVars, stop_ret,
                 announced>>

\* thread_.join() returns (or there was no thread), then impl_ is freed.
Joined ==
  /\ Alive /\ owner = "destroying"
  /\ pc \in {"unborn", "done"}
  /\ owner' = "freed" /\ joiner' = None
  /\ session' = "closed"
  /\ UNCHANGED <<pc, try, thread_id, keep_going, callbacks, lockVars, stop_ret,
                 announced>>

-----------------------------------------------------------------------------
(* ProcessingThread.                                                       *)

Entry ==
  /\ Goto("entry", "start_loop")
  /\ thread_id' = Processing
  /\ UNCHANGED <<try, lockVars, ownerVars, blockingVars, stop_ret>>

\* while (keep_going) of the Start loop.
StartLoop ==
  /\ pc = "start_loop"
  /\ pc' = IF keep_going THEN "start" ELSE "done"
  /\ UNCHANGED <<try, thread_id, lockVars, ownerVars, blockingVars, stop_ret>>

\* blocking.Start() returns the metadata; it can wait for it without limit.
StartReturns ==
  /\ pc = "start" /\ session # "closed"
  /\ session' = "streaming"
  /\ announced' = ("metadata" \notin callbacks)
  /\ pc' = IF "metadata" \in callbacks THEN "metadata_cb" ELSE "next_loop"
  /\ UNCHANGED <<try, thread_id, lockVars, ownerVars, stop_ret>>

MetadataCallbackReturns ==
  /\ Goto("metadata_cb", "next_loop")
  /\ announced' = TRUE
  /\ UNCHANGED <<try, thread_id, lockVars, ownerVars, session, stop_ret>>

\* Mutant: while (true).
NextLoopForever ==
  /\ Goto("next_loop", "next")
  /\ UNCHANGED <<try, thread_id, lockVars, ownerVars, blockingVars, stop_ret>>

\* while (keep_going) of the NextRecord loop, which falls back to the Start loop.
NextLoop ==
  /\ pc = "next_loop"
  /\ pc' = IF keep_going THEN "next" ELSE "start_loop"
  /\ UNCHANGED <<try, thread_id, lockVars, ownerVars, blockingVars, stop_ret>>

\* NextRecord(kTimeout) returns nullptr.
NextRecordTimesOut ==
  /\ Goto("next", "next_loop")
  /\ UNCHANGED <<try, thread_id, lockVars, ownerVars, blockingVars, stop_ret>>

\* NextRecord(kTimeout) returns a record; a connection that was not started has none.
NextRecordReturns ==
  /\ Goto("next", "record_cb") /\ session = "streaming"
  /\ UNCHANGED <<try, thread_id, lockVars, ownerVars, blockingVars, stop_ret>>

RecordCallbackReturns(ret) ==
  /\ Goto("record_cb", IF ret = "Stop" THEN "stop" ELSE "next_loop")
  /\ stop_ret' = (stop_ret \/ ret = "Stop")
  /\ UNCHANGED <<try, thread_id, lockVars, ownerVars, blockingVars>>

\* blocking.Stop() after the record callback's Stop.
StopSession ==
  /\ Goto("stop", "notify_lock")
  /\ session' = "closed"
  /\ UNCHANGED <<try, thread_id, lockVars, ownerVars, announced, stop_ret>>

\* The try block that encloses a location.
TryBlock(l) == IF l \in {"start", "metadata_cb"} THEN "start" ELSE "next"

\* A call on blocking or a callback throws inside one of the two try blocks.
Throws(from) ==
  /\ pc = from
  /\ try' = TryBlock(from)
  /\ pc' = IF "exception" \in callbacks THEN "exception_cb" ELSE "handler"
  /\ stop_ret' = (stop_ret \/ "exception" \notin callbacks)
  /\ UNCHANGED <<thread_id, lockVars, ownerVars, blockingVars>>

\* Mutant: Restart goes on with the NextRecord loop.
ExceptionCallbackResumes(ret) ==
  /\ Goto("exception_cb", IF ret = "Restart" THEN "next_loop" ELSE "handler")
  /\ stop_ret' = (stop_ret \/ ret = "Stop")
  /\ UNCHANGED <<try, thread_id, lockVars, ownerVars, blockingVars>>

\* exception_callback returns: Restart re-enters the Start loop from either block.
ExceptionCallbackReturns(ret) ==
  /\ Goto("exception_cb", IF ret = "Restart" THEN "start_loop" ELSE "handler")
  /\ stop_ret' = (stop_ret \/ ret = "Stop")
  /\ UNCHANGED <<try, thread_id, lockVars, ownerVars, blockingVars>>

\* The rest of ExceptionHandler and of the catch block it returns Stop to: the
\* session is closed; the first block returns, the second notifies first.
HandlerStops ==
  /\ pc = "handler"
  /\ session' = "closed"
  /\ pc' = IF try = "start" THEN "done" ELSE "notify_lock"
  /\ UNCHANGED <<try, thread_id, lockVars, ownerVars, announced, stop_ret>>

\* An exception that leaves exception_callback leaves the thread function too:
\* std::terminate.
ExceptionCallbackThrows ==
  /\ Goto("exception_cb", "terminated")
  /\ UNCHANGED <<try, thread_id, lockVars, ownerVars, blockingVars, stop_ret>>

\* A callback calls Reconnect(), which succeeds; the new connection is authenticated
\* and not started.  (A Reconnect that throws is Throws or ExceptionCallbackThrows.)
CallbackReconnects ==
  /\ pc \in Callbacks
  /\ session' = "connected" /\ announced' = FALSE
  /\ UNCHANGED <<pc, try, thread_id, lockVars, ownerVars, stop_ret>>

\* A callback calls Start(): ignored on the processing thread.  Otherwise a second
\* thread would be assigned over thread_, which joins the running one.
CallbackStarts ==
  /\ pc \in Callbacks
  /\ joiner' = IF thread_id = Processing THEN joiner ELSE Processing
  /\ UNCHANGED <<pc, try, thread_id, callbacks, owner, keep_going, lockVars,
                 blockingVars, stop_ret>>

-----------------------------------------------------------------------------
(* NotifyOfStop: lock_guard, last_cb_ret = Stop, notify_all, unlock.       *)

\* Mutants: NotifyOfStop without the mutex; no notify_all.
NotifyWithoutLock ==
  /\ Goto("notify_lock", "notify_set")
  /\ UNCHANGED <<try, thread_id, lockVars, ownerVars, blockingVars, stop_ret>>
NotifyNone ==
  /\ Goto("notify_all", "notify_unlock")
  /\ UNCHANGED <<try, thread_id, lockVars, ownerVars, blockingVars, stop_ret>>

NotifyLock ==
  /\ Goto("notify_lock", "notify_set") /\ mutex = None
  /\ mutex' = Processing
  /\ UNCHANGED <<try, thread_id, last_cb_ret, waiter, ownerVars, blockingVars,
                 stop_ret>>

NotifySet ==
  /\ Goto("notify_set", "notify_all")
  /\ last_cb_ret' = "Stop"
  /\ UNCHANGED <<try, thread_id, mutex, waiter, ownerVars, blockingVars, stop_ret>>

NotifyAll ==
  /\ Goto("notify_all", "notify_unlock")
  /\ waiter' = [w \in Waiters |-> IF waiter[w] = "wait" THEN "relock" ELSE waiter[w]]
  /\ UNCHANGED <<try, thread_id, last_cb_ret, mutex, ownerVars, blockingVars, stop_ret>>

NotifyUnlock ==
  /\ Goto("notify_unlock", "done")
  /\ mutex' = None
  /\ UNCHANGED <<try, thread_id, last_cb_ret, waiter, ownerVars, blockingVars,
                 stop_ret>>

-----------------------------------------------------------------------------
(* BlockForStop() and BlockForStop(timeout).                               *)

MoveWaiter(w, from, to) ==
  /\ Alive /\ waiter[w] = from
  /\ waiter' = [waiter EXCEPT ![w] = to]
  /\ UNCHANGED <<pc, try, thread_id, ownerVars, blockingVars, last_cb_ret, stop_ret>>

\* The application may call again after a timed wait gave up.
BlockForStop(w) ==
  /\ owner \in {"constructed", "started"}
  /\ \/ MoveWaiter(w, "out", "lock")
     \/ MoveWaiter(w, "gave_up", "lock")
  /\ UNCHANGED mutex

\* unique_lock's constructor, or the relock on the way out of a wait.
Acquire(w) ==
  /\ mutex = None /\ mutex' = w
  /\ \/ MoveWaiter(w, "lock", "check")
     \/ MoveWaiter(w, "relock", "check")

\* The predicate holds: return with the lock released.
SeesStop(w) ==
  /\ last_cb_ret = "Stop" /\ mutex' = None
  /\ \/ MoveWaiter(w, "check", "stopped")
     \/ MoveWaiter(w, "timed_out", "stopped")

\* The predicate does not hold: the thread goes on to wait, still holding the lock.
SeesNoStop(w) ==
  /\ last_cb_ret # "Stop"
  /\ MoveWaiter(w, "check", "enqueue") /\ UNCHANGED mutex

\* The wait itself: enqueued on the condition variable and unlocked in one step.
Wait(w) == MoveWaiter(w, "enqueue", "wait") /\ mutex' = None

\* A spurious wakeup.
Wakeup(w) == MoveWaiter(w, "wait", "relock") /\ UNCHANGED mutex

\* wait_for's timeout: relock, then the predicate decides.
TimesOut(w) ==
  /\ w \in TimedWaiters
  /\ mutex = None /\ mutex' = w
  /\ MoveWaiter(w, "wait", "timed_out")

GivesUp(w) ==
  /\ last_cb_ret # "Stop" /\ mutex' = None
  /\ MoveWaiter(w, "timed_out", "gave_up")

-----------------------------------------------------------------------------

ProcessingStep ==
  \/ Entry \/ StartLoop \/ MetadataCallbackReturns \/ NextLoop
  \/ NextRecordTimesOut \/ NextRecordReturns
  \/ \E ret \in {"Continue", "Stop"} : RecordCallbackReturns(ret)
  \/ StopSession
  \/ \E from \in {"metadata_cb", "next", "record_cb"} : Throws(from)
  \/ \E ret \in {"Restart", "Stop"} : ExceptionCallbackReturns(ret)
  \/ HandlerStops
  \/ NotifyLock \/ NotifySet \/ NotifyAll \/ NotifyUnlock

WaiterStep(w) == Acquire(w) \/ SeesStop(w) \/ SeesNoStop(w) \/ Wait(w) \/ GivesUp(w)

\* The object is gone, or the process is.
Finished == (owner = "freed" \/ ~Alive) /\ UNCHANGED vars

Next ==
  \/ Start \/ MoveAssign \/ Destroy \/ Joined
  \/ ProcessingStep
  \/ StartReturns \/ Throws("start")
  \/ ExceptionCallbackThrows \/ CallbackReconnects \/ CallbackStarts
  \/ \E w \in Waiters : BlockForStop(w) \/ WaiterStep(w) \/ Wakeup(w) \/ TimesOut(w)
  \/ Finished

Spec == Init /\ [][Next]_vars

(***************************************************************************)
(* Fairness: the scheduler runs a thread that can take a step, callbacks   *)
(* return, and a contended mutex is not withheld from one thread for ever. *)
(* Nothing makes blocking.Start() return: it reads without a timeout.      *)
(***************************************************************************)
Fairness ==
  /\ WF_vars(ProcessingStep)
  /\ WF_vars(Joined)
  /\ SF_vars(NotifyLock)
  /\ \A w \in Waiters : SF_vars(Acquire(w)) /\ WF_vars(WaiterStep(w))

FairSpec == Spec /\ Fairness

-----------------------------------------------------------------------------
(* Safety.                                                                 *)

\* A BlockForStop that reports Stop returns after the session has closed: in every
\* path that reaches NotifyOfStop blocking.Stop() comes first, and nothing opens a
\* connection afterwards.
StopMeansClosed == (\E w \in Waiters : waiter[w] = "stopped") => session = "closed"

\* No wakeup is lost: once NotifyOfStop has notified, no thread sleeps on
\* last_cb_ret_cv, whatever it had read of last_cb_ret before.
NoLostWakeup ==
  last_cb_ret = "Stop" /\ pc # "notify_all" => \A w \in Waiters : waiter[w] # "wait"

\* Nothing happens behind the end of a session.  Once a callback has returned Stop no
\* callback runs again and the connection is not used again; at no time does the
\* processing thread call into a connection it has closed; and it has ended when impl is
\* freed.
SilentAfterStop ==
  stop_ret => pc \in {"stop", "handler", "notify_lock", "notify_set", "notify_all",
                      "notify_unlock", "done"}
NoUseAfterStop ==
  /\ SilentAfterStop
  /\ owner = "freed" => pc \in {"unborn", "done"}
  /\ pc \in {"start", "next"} => session # "closed"

\* record_callback runs only on a record of a session whose metadata_callback has
\* already returned, also after restarts and metadata callbacks that threw.
MetadataBeforeRecords == pc = "record_cb" /\ session = "streaming" => announced

\* Start() called from a callback does not make the thread join itself.
NoSelfJoin == joiner # Processing

-----------------------------------------------------------------------------
(* Liveness.                                                               *)

\* A Stop returned by the record callback, or decided for an exception of the
\* NextRecord loop, reaches every thread in BlockForStop: no wakeup is lost
\* between the predicate check and the wait, and only a timed wait may give up.
StopReachesWaiters ==
  \A w \in Waiters :
    /\ waiter[w] \in {"lock", "check", "enqueue", "wait", "relock", "timed_out"}
    /\ pc = "stop" \/ (pc = "handler" /\ try = "next")
    ~> waiter[w] = "stopped" \/ (w \in TimedWaiters /\ waiter[w] = "gave_up")

\* The destructor's join returns, unless the thread stays in blocking.Start(),
\* which has no timeout (or the process terminates).
DestroyCompletes ==
  \/ <>[](pc = "start")
  \/ owner = "destroying" ~> (owner = "freed" \/ ~Alive)

\* live_threaded.hpp on BlockForStop: a wait for the session to close when the
\* record_callback or the exception_callback return Stop.
DocBlockForStop ==
  \A w \in Waiters \ TimedWaiters :
    stop_ret /\ "exception" \in callbacks /\ waiter[w] = "wait" ~> waiter[w] = "stopped"
==============================================================================
