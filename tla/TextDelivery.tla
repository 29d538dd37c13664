---------------------------- MODULE TextDelivery ----------------------------
(***************************************************************************)
(* How a sent text ends: acknowledged, or reported to the user as timed    *)
(* out.  FeiqEngine::send puts the text on the wire and only then lists a  *)
(* wait pack for it (feiqengine.cpp:504-532); the peer's engine answers a  *)
(* text that asks for it with RECVMSG (240-250, 809-813); our receiving    *)
(* thread clears packs (391-408, 832-838, asynwait.cpp:40-47); the thread  *)
(* of AsynWait collects what expired and calls the timeout handlers        *)
(* (asynwait.cpp:49-74), which post an event for the user interface        *)
(* (feiqengine.cpp:821-830, FeiqBackend.cpp:397-412).                      *)
(*                                                                         *)
(* The user-interface thread sends, stops and starts; the receiving        *)
(* thread, the wait thread and the queue thread run beside it.  UDP may    *)
(* lose, repeat and reorder: a datagram stays on the wire, and is          *)
(* delivered any number of times or never.  Of the event queue this module *)
(* uses what EventChannel promises.                                        *)
(***************************************************************************)
EXTENDS Naturals, FiniteSets

CONSTANTS Msgs,         \* the texts that may be sent, each with its packet number
          Timeo,        \* 5000 ms, in ticks
          MaxTime,      \* bound: the last tick
          MaxStarts     \* bound: how many times the engine is started again

ASSUME TextDeliveryAssumption == Timeo \in Nat /\ MaxTime \in Nat /\ MaxStarts \in Nat

VARIABLES now,          \* system_clock, in ticks
          engine,       \* FeiqEngine: "running", "stopping", "stopped"
          starts,       \* how many restarts there were
          stage,        \* of each text: "new", "sent" (on the wire), "armed" (pack listed)
          acks,         \* the RECVMSG datagrams on the wire
          inHand,       \* the RECVMSG the receiving thread has taken off the socket
          packs,        \* AsynWait::mWaitPacks
          timeo,        \* WaitPack::timeo
          waiter,       \* where the thread of AsynWait stands
          timeos,       \* its local list of expired packs, handlers not yet called
          known,        \* "yes" when FeiqModel has a fellow with the peer's address
          events,       \* timeout events in the event queue
          shown,        \* texts the user was told timed out
          sentAt,       \* history: when the text went on the wire
          answered,     \* history: texts whose answer was handled while they were listed
          swept         \* history: texts taken off the list by the answer to another one

senderVars == <<stage, timeo>>
waiterVars == <<waiter, timeos>>
historyVars == <<sentAt, answered, swept>>
vars == <<now, engine, starts, senderVars, acks, inHand, packs, waiterVars, known, events,
          shown, historyVars>>

Init == /\ now = 0 /\ engine = "running" /\ starts = 0
        /\ stage = [m \in Msgs |-> "new"] /\ timeo = [m \in Msgs |-> 0]
        /\ acks = {} /\ inHand = {} /\ packs = {}
        /\ waiter = "test" /\ timeos = {}
        /\ known \in {"yes", "no"}
        /\ events = {} /\ shown = {}
        /\ sentAt = [m \in Msgs |-> 0] /\ answered = {} /\ swept = {}
-----------------------------------------------------------------------------
(* The user-interface thread: one send at a time, and no stop inside a send. *)

SendUnfinished == \E m \in Msgs : stage[m] = "sent"

\* FeiqEngine::send down to the datagram (504-521).  With the socket closed
\* sendto fails and send returns at line 518, having changed nothing.
Send(m) == /\ engine = "running"
           /\ ~SendUnfinished
           /\ stage[m] = "new"
           /\ now + Timeo < MaxTime
           /\ stage' = [stage EXCEPT ![m] = "sent"]
           /\ sentAt' = [sentAt EXCEPT ![m] = now]
           /\ UNCHANGED <<now, engine, starts, acks, inHand, packs, timeo, waiterVars, known,
                          events, shown, answered, swept>>

\* The rest of send: addWaitPack (527-530; asynwait.cpp:28-38).
Deadline == now + Timeo
Arm(m) == /\ stage[m] = "sent"
          /\ stage' = [stage EXCEPT ![m] = "armed"]
          /\ packs' = packs \cup {m}
          /\ timeo' = [timeo EXCEPT ![m] = Deadline]
          /\ UNCHANGED <<now, engine, starts, acks, inHand, waiterVars, known, events, shown,
                         historyVars>>

\* FeiqEngine::stop (661-671): the socket is closed and the wait thread told to end.
Stop == /\ engine = "running"
        /\ ~SendUnfinished
        /\ starts < MaxStarts
        /\ engine' = "stopping"
        /\ UNCHANGED <<now, starts, senderVars, acks, inHand, packs, waiterVars, known, events,
                       shown, historyVars>>

\* Joined (asynwait.cpp:25); MsgQueueThread::stop empties the event queue.  The
\* wait packs stay listed.
StopJoin == /\ engine = "stopping"
            /\ waiter = "exited"
            /\ engine' = "stopped"
            /\ events' = {}
            /\ UNCHANGED <<now, starts, senderVars, acks, inHand, packs, waiterVars, known,
                           shown, historyVars>>

\* FeiqEngine::start with AsynWait::start (636-658; asynwait.cpp:10-20).
Start == /\ engine = "stopped"
         /\ engine' = "running"
         /\ starts' = starts + 1
         /\ waiter' = "test"
         /\ UNCHANGED <<now, senderVars, acks, inHand, packs, timeos, known, events, shown,
                        historyVars>>
-----------------------------------------------------------------------------
(* The network, the peer and the receiving thread. *)

\* The peer gets the text and answers it; every copy is answered again.
PeerAnswers(m) == /\ stage[m] # "new"
                  /\ acks' = acks \cup {m}
                  /\ UNCHANGED <<now, engine, starts, senderVars, inHand, packs, waiterVars,
                                 known, events, shown, historyVars>>

\* recvfrom returns an answer.
Receive(m) == /\ engine = "running"
              /\ inHand = {}
              /\ m \in acks
              /\ inHand' = {m}
              /\ UNCHANGED <<now, engine, starts, senderVars, acks, packs, waiterVars, known,
                             events, shown, historyVars>>

\* Which packs clearWaitPack(m) removes.  The predicate is
\* "return pack.id = packetId;" (asynwait.cpp:44): it assigns to its own copy and
\* is true of every pack, since packet numbers are not 0.
ClearsNothing(m) == {}                              \* slip: the predicate is false
ClearedBy(m) == packs

\* The answer is handled, even when stop closed the socket meanwhile: whoever
\* answers becomes a known fellow, then packs are cleared.
HandleAck(m) == /\ m \in inHand
                /\ inHand' = {}
                /\ known' = "yes"
                /\ packs' = packs \ ClearedBy(m)
                /\ answered' = answered \cup (packs \cap {m})
                /\ swept' = swept \cup (ClearedBy(m) \ {m})
                /\ UNCHANGED <<now, engine, starts, senderVars, acks, waiterVars, events,
                               shown, sentAt>>
-----------------------------------------------------------------------------
(* The thread of AsynWait. *)

LoopTest == /\ waiter = "test"
            /\ waiter' = IF engine = "running" THEN "sleep" ELSE "exited"
            /\ UNCHANGED <<now, engine, starts, senderVars, acks, inHand, packs, timeos, known,
                           events, shown, historyVars>>

\* After the usleep: move what expired to timeos, under the mutex (53-66).
KeepsExpired == packs                               \* slip: remove_if returns false
Expired == {m \in packs : now > timeo[m]}
Unexpired == packs \ Expired
Scan == /\ waiter = "sleep"
        /\ timeos' = Expired
        /\ packs' = Unexpired
        /\ waiter' = "call"
        /\ UNCHANGED <<now, engine, starts, senderVars, acks, inHand, known, events, shown,
                       historyVars>>

\* One handler call (70-71): onSendTimeo returns early for an unknown address.
ReportsNothing(m) == {}                             \* slip: the event is not posted
Reports(m) == IF known = "yes" THEN {m} ELSE {}
CallHandler(m) == /\ waiter = "call"
                  /\ m \in timeos
                  /\ timeos' = timeos \ {m}
                  /\ events' = events \cup Reports(m)
                  /\ UNCHANGED <<now, engine, starts, senderVars, acks, inHand, packs, waiter,
                                 known, shown, historyVars>>

CalledAll == timeos = {}
Round == /\ waiter = "call"
         /\ CalledAll
         /\ waiter' = "test"
         /\ UNCHANGED <<now, engine, starts, senderVars, acks, inHand, packs, timeos, known,
                        events, shown, historyVars>>
-----------------------------------------------------------------------------
\* The queue thread hands the event to FeiqBackend, which tells the user.
Show(m) == /\ m \in events
           /\ events' = events \ {m}
           /\ shown' = shown \cup {m}
           /\ UNCHANGED <<now, engine, starts, senderVars, acks, inHand, packs, waiterVars,
                          known, historyVars>>

\* A send in progress can still be armed early enough to expire.
Tick == /\ now < MaxTime
        /\ SendUnfinished => now + 1 + Timeo < MaxTime
        /\ now' = now + 1
        /\ UNCHANGED <<engine, starts, senderVars, acks, inHand, packs, waiterVars, known,
                       events, shown, historyVars>>

Next == \/ \E m \in Msgs : \/ Send(m) \/ Arm(m) \/ PeerAnswers(m) \/ Receive(m)
                           \/ HandleAck(m) \/ CallHandler(m) \/ Show(m)
        \/ Stop \/ StopJoin \/ Start \/ LoopTest \/ Scan \/ Round \/ Tick

\* Threads that can run do run and time passes; nothing makes the user send, stop
\* or start, or the network deliver.
Fairness == /\ WF_vars(LoopTest) /\ WF_vars(Scan) /\ WF_vars(Round)
            /\ WF_vars(\E m \in Msgs : CallHandler(m))
            /\ \A m \in Msgs : WF_vars(Arm(m)) /\ WF_vars(HandleAck(m)) /\ WF_vars(Show(m))
            /\ WF_vars(Tick)

Spec == Init /\ [][Next]_vars

FairSpec == Spec /\ Fairness
-----------------------------------------------------------------------------
TypeOK == /\ now \in Nat /\ starts \in Nat
          /\ engine \in {"running", "stopping", "stopped"}
          /\ stage \in [Msgs -> {"new", "sent", "armed"}]
          /\ timeo \in [Msgs -> Nat] /\ sentAt \in [Msgs -> Nat]
          /\ acks \subseteq Msgs /\ inHand \subseteq Msgs
          /\ packs \subseteq Msgs /\ timeos \subseteq Msgs
          /\ waiter \in {"test", "sleep", "call", "exited"}
          /\ timeos # {} => waiter = "call"
          /\ known \in {"yes", "no"}
          /\ events \subseteq Msgs /\ shown \subseteq Msgs
          /\ answered \subseteq Msgs /\ swept \subseteq Msgs

(* A text whose answer was handled while its pack was listed is never reported
   as timed out, whatever the wait thread was doing at that moment.  An answer
   handled BEFORE addWaitPack, or after the expired pack was collected, does
   not count: then the user is told of a timeout although the peer answered. *)
AnsweredNeverTimesOut == answered \cap (timeos \cup events \cup shown) = {}

(* A text is reported at most once: it is listed, being reported, queued or
   shown, and never two of these, through stops and restarts. *)
ReportedOnce ==
  /\ packs \cap (timeos \cup events \cup shown) = {}
  /\ timeos \cap (events \cup shown) = {}
  /\ events \cap shown = {}

(* No text is reported before the peer has had Timeo to answer, counted from the
   datagram, also not by the packs a stopped engine leaves for the next start. *)
NeverEarly == \A m \in timeos \cup events \cup shown : now > sentAt[m] + Timeo

(* While the engine runs, every text leaves the list: answered, swept away by
   another answer, or collected as expired. *)
EveryPackLeaves ==
  \A m \in Msgs : (m \in packs) ~> (m \notin packs \/ engine # "running")

(* What expired is shown, unless the engine is stopped meanwhile or the model
   does not know the address. *)
ExpiredIsShown ==
  \A m \in Msgs :
    (m \in timeos /\ known = "yes") ~> (m \in shown \/ engine # "running")

(* "AsynWait mAsyncWait;//异步等待对方回包" (feiqengine.h:79) waits for the answer of
   each packet, and clearWaitPack(IdType packetId) (asynwait.h:24) is told which:
   no pack should be taken off the list by the answer to another text. *)
ClearedOnlyByOwnAnswer == swept = {}

(* What becomes of a text, as WaitList sees it: which of the places it can be in it is
   in.  What was listed and is in none any more is lost: unknown to the model when its
   handler was called, or in the event queue that a stop emptied.  To be in two of
   them is no fate. *)
Place == [waiting |-> packs, due |-> timeos, reported |-> events, told |-> shown,
          answered |-> answered, swept |-> swept]
PlacesOf(m) == {v \in DOMAIN Place : m \in Place[v]}
FateOf(m) == IF PlacesOf(m) = {}
             THEN IF stage[m] = "armed" THEN "lost" ELSE "unsent"
             ELSE IF Cardinality(PlacesOf(m)) = 1 THEN CHOOSE v \in PlacesOf(m) : TRUE
             ELSE "none"
Fate == [m \in Msgs |-> FateOf(m)]

(* Every text comes to one end, which is final, across stops and restarts and
   whatever the network and the threads do: an answer and a timeout never both
   count, no report is made twice, and none without a timeout.  See WaitList. *)
WL == INSTANCE WaitList WITH fate <- Fate
KeepsItsFate == WL!Spec
=============================================================================
