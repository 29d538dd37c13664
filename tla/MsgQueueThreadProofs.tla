------------------------ MODULE MsgQueueThreadProofs ------------------------
(***************************************************************************)
(* Proofs about MsgQueueThread, for any bounds: type correctness, the      *)
(* order in which the handler sees events, that stop leaves no thread      *)
(* behind, and that only a spurious wake-up makes loop call front() on an  *)
(* empty queue.                                                            *)
(***************************************************************************)
EXTENDS MsgQueueThread, TLAPS

(* Why a take under the mutex finds an event: the test of line 58 saw one, or
   the notification that ended the wait came from a push nobody has undone,
   because stop drains only while mRun is FALSE and start waits for the join. *)
WorkAvailable ==
  /\ loop = "woken" => wake \in {"notify", "spurious"}
  /\ loop \in {"woken", "check"} /\ wake # "spurious" /\ mRun => mQueue # <<>>
  /\ loop = "undefined" => wake = "spurious"

(* How the control thread and the queue thread are tied together. *)
Lifecycle ==
  /\ ctl = "idle" /\ ~mRun => loop = "none"
  /\ ctl = "setHandler" => mRun
  /\ ctl \in {"drain", "join"} => ~mRun

(* Events are numbered as posted; those handled, the one in hand and those
   queued follow each other. *)
Ordered ==
  /\ \A i \in DOMAIN handled :
       /\ handled[i] <= posted
       /\ msg # 0 => handled[i] < msg
       /\ \A j \in DOMAIN mQueue : handled[i] < mQueue[j]
  /\ \A i, j \in DOMAIN handled : i < j => handled[i] < handled[j]
  /\ \A j \in DOMAIN mQueue : mQueue[j] <= posted /\ mQueue[j] # 0 /\ msg < mQueue[j]
  /\ \A i, j \in DOMAIN mQueue : i < j => mQueue[i] < mQueue[j]
  /\ msg <= posted

IInv == TypeOK /\ WorkAvailable /\ Lifecycle /\ Ordered

LEMMA InitIInv == Init => IInv
<1> SUFFICES ASSUME Init PROVE IInv
  OBVIOUS
<1>1. TypeOK
  <2>1. mRun \in BOOLEAN /\ mHandler \in BOOLEAN
    BY DEF Init
  <2>2. mQueue \in Seq(Nat \ {0}) /\ handled \in Seq(Nat)
    BY DEF Init
  <2>3. msg \in Nat /\ (msg # 0) = (loop = "handle") /\ posted \in Nat /\ starts \in Nat
    BY DEF Init
  <2>4. loop \in LoopPoints /\ wake \in {"none", "notify", "spurious"} /\ ctl \in CtlPoints
    BY DEF Init, LoopPoints, CtlPoints
  <2>5. QED BY <2>1, <2>2, <2>3, <2>4 DEF TypeOK
<1>2. WorkAvailable /\ Lifecycle
  BY DEF Init, WorkAvailable, Lifecycle
<1>3. Ordered
  BY DEF Init, Ordered
<1>4. QED BY <1>1, <1>2, <1>3 DEF IInv

LEMMA TypeStep == TypeOK /\ Lifecycle /\ [Next]_vars => TypeOK'
<1> SUFFICES ASSUME TypeOK, Lifecycle, [Next]_vars PROVE TypeOK'
  OBVIOUS
<1>1. CASE Start
  <2>1. mRun' \in BOOLEAN
    BY <1>1 DEF Start
  <2>2. starts' \in Nat
    BY <1>1 DEF Start, TypeOK
  <2>3. /\ loop # "handle"
        /\ loop' = "test" /\ ctl' = "setHandler"
        /\ UNCHANGED <<mQueue, mHandler, msg, wake, posted, handled>>
    BY <1>1 DEF Start, Lifecycle
  <2>4. QED BY <2>1, <2>2, <2>3 DEF TypeOK, LoopPoints, CtlPoints
<1>2. CASE SetHandler
  BY <1>2 DEF SetHandler, TypeOK, CtlPoints
<1>3. CASE StopClear
  BY <1>3 DEF StopClear, TypeOK, CtlPoints
<1>4. CASE StopDrain
  <2>1. mQueue' = <<>> /\ mQueue' \in Seq(Nat \ {0})
    BY <1>4 DEF StopDrain, Drained
  <2>2. UNCHANGED <<mRun, mHandler, msg, posted, handled, starts>>
    BY <1>4 DEF StopDrain
  <2>3. /\ loop' \in LoopPoints
        /\ (loop' = "handle") = (loop = "handle")
        /\ wake' \in {"none", "notify", "spurious"}
        /\ ctl' \in CtlPoints
    BY <1>4 DEF StopDrain, Notify, TypeOK, LoopPoints, CtlPoints
  <2>4. QED BY <2>1, <2>2, <2>3 DEF TypeOK
<1>5. CASE StopJoin
  BY <1>5 DEF StopJoin, Joinable, TypeOK, LoopPoints, CtlPoints
<1>6. CASE SendMessage
  BY <1>6 DEF SendMessage, Notify, TypeOK, LoopPoints
<1>7. CASE LoopTest
  BY <1>7 DEF LoopTest, TypeOK, LoopPoints
<1>8. CASE LoopLock
  BY <1>8 DEF LoopLock, TypeOK, LoopPoints
<1>9. CASE SpuriousWakeup
  BY <1>9 DEF SpuriousWakeup, TypeOK, LoopPoints
<1>10. CASE LoopRelock
  BY <1>10 DEF LoopRelock, TypeOK, LoopPoints
<1>11. CASE LoopReturn
  BY <1>11 DEF LoopReturn, TypeOK, LoopPoints
<1>12. CASE LoopTake
  <2>1. /\ mQueue \in Seq(Nat \ {0}) /\ msg \in Nat
        /\ (msg # 0) = (loop = "handle")
    BY DEF TypeOK
  <2>2. /\ mQueue = <<>> => loop' = "undefined" /\ mQueue' = mQueue /\ msg' = msg
        /\ mQueue # <<>> => loop' = "handle" /\ msg' = Head(mQueue) /\ mQueue' = Tail(mQueue)
        /\ loop = "check"
    BY <1>12 DEF LoopTake, Popped
  <2>3. /\ mQueue' \in Seq(Nat \ {0}) /\ msg' \in Nat
        /\ (msg' # 0) = (loop' = "handle")
    <3>1. CASE mQueue = <<>>
      BY <2>1, <2>2, <3>1
    <3>2. CASE mQueue # <<>>
      <4>1. Head(mQueue) \in Nat \ {0} /\ Tail(mQueue) \in Seq(Nat \ {0})
        BY <2>1, <3>2
      <4>2. QED BY <2>2, <3>2, <4>1
    <3>3. QED BY <3>1, <3>2
  <2>4. /\ loop' \in LoopPoints
        /\ UNCHANGED <<mRun, mHandler, wake, ctl, posted, handled, starts>>
    BY <1>12, <2>2 DEF LoopTake, LoopPoints
  <2>5. QED BY <2>3, <2>4 DEF TypeOK
<1>13. CASE LoopHandle
  <2>1. handled' \in Seq(Nat)
    <3>1. handled \in Seq(Nat) /\ msg \in Nat
      BY DEF TypeOK
    <3>2. handled' = handled \/ handled' = Append(handled, msg)
      BY <1>13 DEF LoopHandle
    <3>3. QED BY <3>1, <3>2
  <2>2. /\ msg' = 0 /\ loop' = "test"
        /\ UNCHANGED <<mRun, mQueue, mHandler, wake, ctl, posted, starts>>
    BY <1>13 DEF LoopHandle, GivenUp
  <2>3. QED BY <2>1, <2>2 DEF TypeOK, LoopPoints
<1>14. CASE UNCHANGED vars
  BY <1>14 DEF vars, TypeOK
<1>15. QED
  BY <1>1, <1>2, <1>3, <1>4, <1>5, <1>6, <1>7, <1>8, <1>9, <1>10, <1>11, <1>12,
     <1>13, <1>14 DEF Next

LEMMA AvailableStep ==
  TypeOK /\ WorkAvailable /\ Lifecycle /\ [Next]_vars => WorkAvailable'
<1> SUFFICES ASSUME TypeOK, WorkAvailable, Lifecycle, [Next]_vars PROVE WorkAvailable'
  OBVIOUS
<1>1. CASE Start
  BY <1>1 DEF Start, WorkAvailable
<1>2. CASE SetHandler
  BY <1>2 DEF SetHandler, WorkAvailable
<1>3. CASE StopClear
  BY <1>3 DEF StopClear, WorkAvailable
<1>4. CASE StopDrain
  BY <1>4 DEF StopDrain, Notify, MutexFree, WorkAvailable, Lifecycle
<1>5. CASE StopJoin
  BY <1>5 DEF StopJoin, Joinable, WorkAvailable
<1>6. CASE SendMessage
  <2>1. mQueue' # <<>>
    BY <1>6 DEF SendMessage, TypeOK
  <2>2. QED BY <1>6, <2>1 DEF SendMessage, Notify, MutexFree, WorkAvailable
<1>7. CASE LoopTest
  BY <1>7 DEF LoopTest, WorkAvailable
<1>8. CASE LoopLock
  BY <1>8 DEF LoopLock, MustWait, WorkAvailable
<1>9. CASE SpuriousWakeup
  BY <1>9 DEF SpuriousWakeup, WorkAvailable
<1>10. CASE LoopRelock
  BY <1>10 DEF LoopRelock, WorkAvailable
<1>11. CASE LoopReturn
  BY <1>11 DEF LoopReturn, WorkAvailable
<1>12. CASE LoopTake
  BY <1>12 DEF LoopTake, WorkAvailable
<1>13. CASE LoopHandle
  BY <1>13 DEF LoopHandle, WorkAvailable
<1>14. CASE UNCHANGED vars
  BY <1>14 DEF vars, WorkAvailable
<1>15. QED
  BY <1>1, <1>2, <1>3, <1>4, <1>5, <1>6, <1>7, <1>8, <1>9, <1>10, <1>11, <1>12,
     <1>13, <1>14 DEF Next

LEMMA LifecycleStep == TypeOK /\ Lifecycle /\ [Next]_vars => Lifecycle'
<1> SUFFICES ASSUME TypeOK, Lifecycle, [Next]_vars PROVE Lifecycle'
  OBVIOUS
<1>1. CASE Start \/ SetHandler \/ StopClear \/ StopDrain \/ StopJoin
  BY <1>1 DEF Start, SetHandler, StopClear, StopDrain, StopJoin, Joinable, Lifecycle,
              TypeOK, CtlPoints
<1>2. CASE SendMessage
  BY <1>2 DEF SendMessage, Notify, Lifecycle
<1>3. CASE Loop \/ SpuriousWakeup
  BY <1>3 DEF Loop, LoopTest, LoopLock, SpuriousWakeup, LoopRelock, LoopReturn, LoopTake,
              LoopHandle, Lifecycle
<1>4. CASE UNCHANGED vars
  BY <1>4 DEF vars, Lifecycle
<1>5. QED BY <1>1, <1>2, <1>3, <1>4 DEF Next, Loop

(* The numbers stay in order: sendMessage appends the largest so far, loop moves
   the smallest queued one into the hand and from there to the end of handled. *)
LEMMA OrderedStep == TypeOK /\ Ordered /\ [Next]_vars => Ordered'
<1> SUFFICES ASSUME TypeOK, Ordered, [Next]_vars PROVE Ordered'
  OBVIOUS
<1>t. /\ mQueue \in Seq(Nat \ {0}) /\ handled \in Seq(Nat)
      /\ msg \in Nat /\ posted \in Nat /\ (msg # 0) = (loop = "handle")
  BY DEF TypeOK
<1>1. CASE StopDrain
  <2>1. mQueue' = <<>> /\ UNCHANGED <<msg, posted, handled>>
    BY <1>1 DEF StopDrain, Drained
  <2>2. QED BY <1>t, <2>1 DEF Ordered
<1>2. CASE SendMessage
  <2>1. /\ posted' = posted + 1 /\ mQueue' = Append(mQueue, posted + 1)
        /\ UNCHANGED <<msg, handled>>
    BY <1>2 DEF SendMessage
  <2>2. /\ DOMAIN mQueue' = DOMAIN mQueue \cup {Len(mQueue) + 1}
        /\ \A j \in DOMAIN mQueue : mQueue'[j] = mQueue[j] /\ mQueue[j] \in Nat /\ j \in 1..Len(mQueue)
        /\ mQueue'[Len(mQueue) + 1] = posted + 1
    BY <1>t, <2>1
  <2>3. \A i \in DOMAIN handled : handled[i] \in Nat
    BY <1>t
  <2>4. QED BY <1>t, <2>1, <2>2, <2>3 DEF Ordered
<1>3. CASE LoopTake
  <2>1. CASE mQueue = <<>>
    BY <1>3, <2>1 DEF LoopTake, Ordered
  <2>2. CASE mQueue # <<>>
    <3>1. /\ msg = 0 /\ msg' = Head(mQueue) /\ mQueue' = Tail(mQueue)
          /\ UNCHANGED <<posted, handled>>
      BY <1>3, <1>t, <2>2 DEF LoopTake, Popped
    <3>2. /\ Len(mQueue) \in Nat /\ DOMAIN mQueue = 1..Len(mQueue) /\ 1 \in DOMAIN mQueue
          /\ msg' = mQueue[1] /\ msg' \in Nat \ {0}
          /\ DOMAIN mQueue' = 1..(Len(mQueue) - 1)
          /\ \A j \in DOMAIN mQueue' : mQueue'[j] = mQueue[j + 1] /\ j + 1 \in DOMAIN mQueue
      BY <1>t, <2>2, <3>1
    <3>3. QED BY <1>t, <3>1, <3>2 DEF Ordered
  <2>3. QED BY <2>1, <2>2
<1>4. CASE LoopHandle
  <2>1. /\ handled' = handled \/ handled' = Append(handled, msg)
        /\ msg # 0 /\ msg' = 0 /\ UNCHANGED <<posted, mQueue>>
    BY <1>4, <1>t DEF LoopHandle, GivenUp
  <2>2. \A j \in DOMAIN mQueue : mQueue[j] \in Nat
    BY <1>t
  <2>3. CASE handled' = handled
    BY <1>t, <2>1, <2>2, <2>3 DEF Ordered
  <2>4. CASE handled' = Append(handled, msg)
    <3>1. /\ DOMAIN handled' = DOMAIN handled \cup {Len(handled) + 1}
          /\ \A i \in DOMAIN handled : /\ handled'[i] = handled[i]
                                       /\ handled[i] \in Nat
                                       /\ i \in 1..Len(handled)
          /\ handled'[Len(handled) + 1] = msg
      BY <1>t, <2>4
    <3>2. QED BY <1>t, <2>1, <2>2, <3>1 DEF Ordered
  <2>5. QED BY <2>1, <2>3, <2>4
<1>5. CASE UNCHANGED <<mQueue, msg, posted, handled>>
  BY <1>5 DEF Ordered
<1>6. QED
  BY <1>1, <1>2, <1>3, <1>4, <1>5
     DEF Next, Start, SetHandler, StopClear, StopJoin, LoopTest, LoopLock, SpuriousWakeup,
         LoopRelock, LoopReturn, vars

LEMMA Invariance == Spec => []IInv
<1>1. IInv /\ [Next]_vars => IInv'
  BY TypeStep, AvailableStep, LifecycleStep, OrderedStep DEF IInv
<1>2. QED BY InitIInv, <1>1, PTL DEF Spec

(* The variables of MsgQueueThread keep their types, and an event is in hand
   exactly while it is being handled. *)
THEOREM TypeCorrect == Spec => []TypeOK
BY Invariance, PTL DEF IInv

(* loop calls front() on an empty queue only after a wake-up nobody sent. *)
THEOREM UnderflowOnlyIfSpurious == Spec => []OnlySpuriousWakeupUnderflows
<1>1. IInv => OnlySpuriousWakeupUnderflows
  BY DEF IInv, WorkAvailable, OnlySpuriousWakeupUnderflows
<1>2. QED BY Invariance, <1>1, PTL

(* The handler sees events in posting order and none twice, across restarts. *)
THEOREM InOrder == Spec => []HandledInOrder
<1>1. IInv => HandledInOrder
  BY DEF IInv, Ordered, HandledInOrder
<1>2. QED BY Invariance, <1>1, PTL

(* When stop has returned there is no queue thread left. *)
THEOREM StopIsFinal == Spec => []StopMeansStopped
<1>1. IInv => StopMeansStopped
  BY DEF IInv, Lifecycle, StopMeansStopped
<1>2. QED BY Invariance, <1>1, PTL
-----------------------------------------------------------------------------

LEMMA ChannelInit == Init => Channel!Init
  BY DEF Init, Phase, Channel!Init

(* Each step of the code is a step of the channel or none. *)
LEMMA ChannelStep == IInv /\ [Next]_vars => [Channel!Next]_(Channel!vars)
<1> SUFFICES ASSUME IInv, [Next]_vars PROVE [Channel!Next]_(Channel!vars)
  OBVIOUS
<1> USE DEF Phase
<1>t. /\ mQueue \in Seq(Nat \ {0}) /\ mRun \in BOOLEAN
      /\ (msg # 0) = (loop = "handle")
  BY DEF IInv, TypeOK
<1>1. CASE Start
  BY <1>1 DEF Start, Channel!Next, Channel!Open, Channel!Becomes
<1>2. CASE SetHandler
  BY <1>2 DEF SetHandler, Channel!Next, Channel!Attach
<1>3. CASE StopClear
  BY <1>3 DEF StopClear, Channel!Next, Channel!Close, Channel!Becomes
<1>4. CASE StopDrain
  <2>1. mRun = FALSE
    BY <1>4, <1>t DEF StopDrain, IInv, Lifecycle
  <2>2. QED BY <1>4, <2>1 DEF StopDrain, Drained, Channel!Next, Channel!Discard, Channel!Becomes
<1>5. CASE StopJoin
  <2>1. mRun = FALSE
    BY <1>5, <1>t DEF StopJoin, IInv, Lifecycle
  <2>2. msg = 0
    BY <1>5, <1>t DEF StopJoin, Joinable
  <2>3. QED BY <1>5, <2>1, <2>2 DEF StopJoin, Channel!Next, Channel!Closed, Channel!Becomes
<1>6. CASE SendMessage
  BY <1>6 DEF SendMessage, Channel!Next, Channel!Post
<1>7. CASE LoopTake
  <2>1. CASE mQueue = <<>>
    BY <1>7, <2>1 DEF LoopTake, Channel!vars
  <2>2. CASE mQueue # <<>>
    <3>1. msg = 0 /\ mRun
      BY <1>7, <1>t DEF LoopTake
    <3>2. QED BY <1>7, <2>2, <3>1 DEF LoopTake, Popped, Channel!Next, Channel!Take
  <2>3. QED BY <2>1, <2>2
<1>8. CASE LoopHandle
  <2>1. msg # 0
    BY <1>8, <1>t DEF LoopHandle
  <2>2. QED BY <1>8, <2>1 DEF LoopHandle, GivenUp, Channel!Next, Channel!Deliver
<1>9. CASE UNCHANGED vars
  BY <1>9 DEF vars, Channel!vars
<1>10. CASE LoopTest \/ LoopLock \/ SpuriousWakeup \/ LoopRelock \/ LoopReturn
  BY <1>10 DEF LoopTest, LoopLock, SpuriousWakeup, LoopRelock, LoopReturn, Channel!vars
<1>11. QED
  BY <1>1, <1>2, <1>3, <1>4, <1>5, <1>6, <1>7, <1>8, <1>9, <1>10 DEF Next

(* The queue thread implements the channel: at most once, in order, none while it is
   closed; events are lost only by stop or before the handler is set. *)
THEOREM Implements == Spec => ImplementsChannel
BY ChannelInit, ChannelStep, Invariance, PTL DEF Spec, Channel!Spec, ImplementsChannel
=============================================================================
