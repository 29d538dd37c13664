--------------------------- MODULE MsgQueueThread ---------------------------
(***************************************************************************)
(* feiqlib/msgqueuethread.h: the queue between the protocol threads and    *)
(* the user interface, and the one thread (loop) that takes events from it *)
(* and calls the handler.  FeiqEngine::start and FeiqEngine::stop drive    *)
(* start, setHandler and stop from one control thread; sendMessage is      *)
(* called by any thread.                                                   *)
(*                                                                         *)
(* Everything between taking mQueueMutex and giving it back is one step,   *)
(* except where the code looks at mRun inside the critical section of      *)
(* loop: mRun is written WITHOUT the mutex (stop, line 37), so that look   *)
(* is a step of its own and loop = "check" means the mutex is held.        *)
(***************************************************************************)
EXTENDS Naturals, Sequences

CONSTANTS MaxPosted,    \* bound: how many events are posted
          MaxStarts     \* bound: how many times start is called

ASSUME MsgQueueAssumption == MaxPosted \in Nat /\ MaxStarts \in Nat

VARIABLES mRun,         \* MsgQueueThread::mRun
          mQueue,       \* MsgQueueThread::mQueue; events are 1, 2, ... as posted
          mHandler,     \* whether MsgQueueThread::mHandler is set
          loop,         \* where the queue thread stands
          msg,          \* the event the queue thread took, 0 for none
          wake,         \* why the last wait ended: "none", "notify", "spurious"
          ctl,          \* where the control thread stands
          posted,       \* how many events have been posted
          handled,      \* the events the handler was called with, in order
          starts        \* how many times start ran

vars == <<mRun, mQueue, mHandler, loop, msg, wake, ctl, posted, handled, starts>>

LoopPoints == {"none",      \* there is no thread (not started, or joined)
               "test",      \* at the while (line 56)
               "lock",      \* mRun was TRUE; about to take the mutex (57)
               "waiting",   \* inside mQueueCnd.wait, the mutex released (59)
               "woken",     \* the wait ended; about to take the mutex again
               "check",     \* holds the mutex, about to look at mRun (60)
               "handle",    \* gave the mutex back, about to call the handler (67)
               "exited",    \* loop returned
               "undefined"} \* called front() on an empty queue: undefined behaviour

CtlPoints == {"idle", "setHandler", "drain", "join"}

MutexFree == loop # "check"

\* A notification finds only a thread that is already waiting (41, 50).
NotifyNobody == UNCHANGED <<loop, wake>>            \* slip: the call is missing
Notify == IF loop = "waiting" THEN loop' = "woken" /\ wake' = "notify"
                              ELSE UNCHANGED <<loop, wake>>

Init == /\ mRun = FALSE /\ mHandler = FALSE
        /\ mQueue = <<>> /\ msg = 0 /\ handled = <<>>
        /\ loop = "none" /\ wake = "none" /\ ctl = "idle"
        /\ posted = 0 /\ starts = 0
-----------------------------------------------------------------------------
(* The control thread. *)

\* start when the thread is not running (22-30); FeiqEngine::start installs
\* the handler only after it, so the new thread may run before that.
Start == /\ ctl = "idle"
         /\ ~mRun
         /\ starts < MaxStarts
         /\ starts' = starts + 1
         /\ mRun' = TRUE
         /\ loop' = "test"
         /\ ctl' = "setHandler"
         /\ UNCHANGED <<mQueue, mHandler, msg, wake, posted, handled>>

SetHandler == /\ ctl = "setHandler"
              /\ mHandler' = TRUE
              /\ ctl' = "idle"
              /\ UNCHANGED <<mRun, mQueue, loop, msg, wake, posted, handled, starts>>

\* stop up to the assignment that is made without the mutex (34-37).
StopClear == /\ ctl = "idle"
             /\ mRun
             /\ mRun' = FALSE
             /\ ctl' = "drain"
             /\ UNCHANGED <<mQueue, mHandler, loop, msg, wake, posted, handled, starts>>

\* The critical section of stop: empty the queue and wake the thread (38-42).
Drained == <<>>
StopDrain == /\ ctl = "drain"
             /\ MutexFree
             /\ mQueue' = Drained
             /\ Notify
             /\ ctl' = "join"
             /\ UNCHANGED <<mRun, mHandler, msg, posted, handled, starts>>

\* The join (43) returns when loop has returned.
NotJoined == TRUE                                   \* slip: the join is missing
Joinable == loop = "exited"
StopJoin == /\ ctl = "join"
            /\ Joinable
            /\ loop' = IF loop = "exited" THEN "none" ELSE loop
            /\ ctl' = "idle"
            /\ UNCHANGED <<mRun, mQueue, mHandler, msg, wake, posted, handled, starts>>

(* Any other thread: sendMessage pushes whether or not the thread runs. *)
SendMessage == /\ posted < MaxPosted
               /\ MutexFree
               /\ posted' = posted + 1
               /\ mQueue' = Append(mQueue, posted + 1)
               /\ Notify
               /\ UNCHANGED <<mRun, mHandler, msg, ctl, handled, starts>>
-----------------------------------------------------------------------------
(* The queue thread. *)

LoopTest == /\ loop = "test"
            /\ loop' = IF mRun THEN "lock" ELSE "exited"
            /\ UNCHANGED <<mRun, mQueue, mHandler, msg, wake, ctl, posted, handled, starts>>

\* Take the mutex; wait (giving it back) if the queue is empty (57-59).
NeverWaits == FALSE                                 \* slip: the test is missing
MustWait == mQueue = <<>>
LoopLock == /\ loop = "lock"
            /\ loop' = IF MustWait THEN "waiting" ELSE "check"
            /\ wake' = "none"
            /\ UNCHANGED <<mRun, mQueue, mHandler, msg, ctl, posted, handled, starts>>

\* condition_variable::wait may return without a notification.
SpuriousWakeup == /\ loop = "waiting"
                  /\ loop' = "woken"
                  /\ wake' = "spurious"
                  /\ UNCHANGED <<mRun, mQueue, mHandler, msg, ctl, posted, handled, starts>>

\* The wait takes the mutex again; the queue is not looked at a second time.
LoopRelock == /\ loop = "woken"
              /\ loop' = "check"
              /\ UNCHANGED <<mRun, mQueue, mHandler, msg, wake, ctl, posted, handled, starts>>

\* Still holding the mutex: look at mRun (60-61).
LoopReturn == /\ loop = "check"
              /\ ~mRun
              /\ loop' = "exited"
              /\ UNCHANGED <<mRun, mQueue, mHandler, msg, wake, ctl, posted, handled, starts>>

\* Take the first event and give the mutex back (63-65).
Popped == Tail(mQueue)
LoopTake == /\ loop = "check"
            /\ mRun
            /\ IF mQueue = <<>>
               THEN loop' = "undefined" /\ UNCHANGED <<mQueue, msg>>
               ELSE loop' = "handle" /\ msg' = Head(mQueue) /\ mQueue' = Popped
            /\ UNCHANGED <<mRun, mHandler, wake, ctl, posted, handled, starts>>

\* Call the handler if there is one, and go round (67-69).
GivenUp == 0
LoopHandle == /\ loop = "handle"
              /\ handled' = IF mHandler THEN Append(handled, msg) ELSE handled
              /\ msg' = GivenUp
              /\ loop' = "test"
              /\ UNCHANGED <<mRun, mQueue, mHandler, wake, ctl, posted, starts>>
-----------------------------------------------------------------------------
Loop == LoopTest \/ LoopLock \/ LoopRelock \/ LoopReturn \/ LoopTake \/ LoopHandle

Next == \/ Start \/ SetHandler \/ StopClear \/ StopDrain \/ StopJoin
        \/ SendMessage
        \/ LoopTest \/ LoopLock \/ SpuriousWakeup \/ LoopRelock
        \/ LoopReturn \/ LoopTake \/ LoopHandle

\* The scheduler runs every thread that can run; nobody has to post or stop,
\* and no wake-up has to be spurious.
Fairness == /\ WF_vars(Loop)
            /\ WF_vars(SetHandler)
            /\ WF_vars(StopDrain)
            /\ WF_vars(StopJoin)

Spec == Init /\ [][Next]_vars

FairSpec == Spec /\ Fairness
-----------------------------------------------------------------------------
(* Types; an event is in hand exactly between taking it and handling it. *)
TypeOK == /\ mRun \in BOOLEAN
          /\ mQueue \in Seq(Nat \ {0})
          /\ mHandler \in BOOLEAN
          /\ loop \in LoopPoints
          /\ msg \in Nat
          /\ (msg # 0) = (loop = "handle")
          /\ wake \in {"none", "notify", "spurious"}
          /\ ctl \in CtlPoints
          /\ posted \in Nat
          /\ handled \in Seq(Nat)
          /\ starts \in Nat

(* front() on an empty queue (line 63) happens only after a wake-up nobody
   sent: a posted event, or the notification of stop, never leads there,
   however posting, stopping and restarting interleave. *)
OnlySpuriousWakeupUnderflows == loop = "undefined" => wake = "spurious"

(* The handler sees the events in the order they were posted and none twice,
   across any number of stops and restarts. *)
HandledInOrder ==
  \A i, j \in DOMAIN handled : i < j => handled[i] < handled[j]

(* Once stop has returned no queue thread is left that could still call the
   handler, and none is started twice: FeiqEngine::stop relies on it when it
   lets the view go away. *)
StopMeansStopped == ctl = "idle" /\ ~mRun => loop = "none"

(* stop comes back from the join, except in the one window the code leaves
   open: the queue thread has seen mRun TRUE (line 56) and has not taken the
   mutex yet (57) while stop clears mRun, drains and notifies.  Then the
   notification is lost and the thread sleeps on an empty queue. *)
StopReturnsOutsideTheWindow ==
  (ctl = "drain" /\ loop \notin {"lock", "undefined"}) ~> (ctl = "idle")

(* While the thread runs, every queued event is taken: handled, or discarded by
   a stop; a notification sent by sendMessage is never lost. *)
QueuedIsTaken ==
  \A m \in 1..MaxPosted :
    (mRun /\ \E i \in DOMAIN mQueue : mQueue[i] = m)
      ~> (loop = "undefined" \/ \A i \in DOMAIN mQueue : mQueue[i] # m)
-----------------------------------------------------------------------------
(* The thread implements the channel: it is open while mRun is set, and closed
   again when stop returns.  After that no event reaches the handler until the next
   start, though events are posted: FeiqEngine::stop relies on it (661-672). *)
Phase == IF mRun THEN "open"
         ELSE IF ctl = "drain" THEN "closing" ELSE IF ctl = "join" THEN "emptied" ELSE "closed"
Channel == INSTANCE EventChannel
             WITH state     <- Phase,
                  pending   <- mQueue,
                  taken     <- msg,
                  delivered <- handled,
                  attached  <- mHandler

ImplementsChannel == Channel!Spec
=============================================================================
