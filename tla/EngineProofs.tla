----------------------------- MODULE EngineProofs -----------------------------
(***************************************************************************)
(* Proofs about the protocol engine.  How a text ends (TextDelivery), for  *)
(* any set of texts, any timeout and any bounds: an answered text is never *)
(* reported, none is reported twice, none before the peer had the whole    *)
(* timeout to answer, and the end a text comes to is final (WaitList).     *)
(* Its start and stop (EngineRestart), for any number of starts: the       *)
(* restarted engine is never left without a receiving thread, and a start  *)
(* is refused only behind a failed bind.                                   *)
(***************************************************************************)
EXTENDS TextDelivery, EngineRestart, FiniteSetTheorems, TLAPS

-----------------------------------------------------------------------------
(* Texts. *)

(* Where a text that is not listed yet is: nowhere. *)
Unarmed == \A m \in Msgs : stage[m] # "armed" =>
             m \notin packs \cup timeos \cup events \cup shown \cup answered

(* Strengthens AnsweredNeverTimesOut: a text leaves the list at most once. *)
AnsweredIsGone == answered \cap (packs \cup timeos \cup events \cup shown) = {}

(* What the clock says about a text. *)
Clocked == \A m \in Msgs :
             /\ stage[m] # "new" => sentAt[m] <= now
             /\ stage[m] = "armed" => timeo[m] >= sentAt[m] + Timeo

(* A stopped engine has joined the wait thread, which was done with its list. *)
Joined == engine = "stopped" => waiter = "exited"

IInv == TypeOK /\ Joined /\ Unarmed /\ AnsweredIsGone /\ ReportedOnce /\ Clocked /\ NeverEarly

LEMMA InitIInv == Init => IInv
  BY TextDeliveryAssumption
     DEF Init, IInv, TypeOK, Joined, Unarmed, AnsweredIsGone, ReportedOnce, Clocked, NeverEarly

USE DEF senderVars, waiterVars, historyVars

LEMMA JoinedStep == TypeOK /\ Joined /\ [Next]_vars => Joined'
BY DEF Joined, TypeOK, Next, vars, Send, Arm, PeerAnswers, Receive, HandleAck, CallHandler, Show,
       Stop, StopJoin, Start, LoopTest, Scan, Round, Tick

LEMMA TypeStep == TypeOK /\ Joined /\ [Next]_vars => TypeOK'
<1> SUFFICES ASSUME TypeOK, Joined, [Next]_vars PROVE TypeOK'
  OBVIOUS
<1> USE TextDeliveryAssumption DEF TypeOK
<1>1. ASSUME NEW m \in Msgs, Send(m) PROVE TypeOK'
  BY <1>1 DEF Send
<1>2. ASSUME NEW m \in Msgs, Arm(m) PROVE TypeOK'
  BY <1>2 DEF Arm, Deadline
<1>3. ASSUME NEW m \in Msgs, PeerAnswers(m) PROVE TypeOK'
  BY <1>3 DEF PeerAnswers
<1>4. ASSUME NEW m \in Msgs, Receive(m) PROVE TypeOK'
  BY <1>4 DEF Receive
<1>5. ASSUME NEW m \in Msgs, HandleAck(m) PROVE TypeOK'
  BY <1>5 DEF HandleAck, ClearedBy
<1>6. ASSUME NEW m \in Msgs, CallHandler(m) PROVE TypeOK'
  BY <1>6 DEF CallHandler, Reports
<1>7. ASSUME NEW m \in Msgs, Show(m) PROVE TypeOK'
  BY <1>7 DEF Show
<1>8. CASE Stop \/ StopJoin \/ Start
  <2>1. CASE Stop      BY <2>1 DEF Stop
  <2>2. CASE StopJoin  BY <2>2 DEF StopJoin
  <2>3. CASE Start     BY <2>3 DEF Start, Joined
  <2>4. QED BY <1>8, <2>1, <2>2, <2>3
<1>9. CASE LoopTest \/ Scan \/ Round
  BY <1>9 DEF LoopTest, Scan, Expired, Unexpired, Round, CalledAll
<1>10. CASE Tick
  BY <1>10 DEF Tick
<1>11. CASE UNCHANGED vars
  BY <1>11 DEF vars
<1>12. QED
  BY <1>1, <1>2, <1>3, <1>4, <1>5, <1>6, <1>7, <1>8, <1>9, <1>10, <1>11 DEF Next

(* Each text is in at most one place on its way from the list to the user. *)
Placed == Unarmed /\ AnsweredIsGone /\ ReportedOnce

LEMMA PlacedStep == TypeOK /\ Placed /\ [Next]_vars => Placed'
<1> SUFFICES ASSUME TypeOK, Placed, [Next]_vars PROVE Placed'
  OBVIOUS
<1> USE DEF TypeOK, Placed, Unarmed, AnsweredIsGone, ReportedOnce
<1>1. ASSUME NEW m \in Msgs, Send(m) PROVE Placed'
  BY <1>1 DEF Send
<1>2. ASSUME NEW m \in Msgs, Arm(m) PROVE Placed'
  BY <1>2 DEF Arm
<1>3. ASSUME NEW m \in Msgs, PeerAnswers(m) \/ Receive(m) PROVE Placed'
  BY <1>3 DEF PeerAnswers, Receive
<1>4. ASSUME NEW m \in Msgs, HandleAck(m) PROVE Placed'
  BY <1>4 DEF HandleAck, ClearedBy
<1>5. ASSUME NEW m \in Msgs, CallHandler(m) PROVE Placed'
  BY <1>5 DEF CallHandler, Reports
<1>6. ASSUME NEW m \in Msgs, Show(m) PROVE Placed'
  BY <1>6 DEF Show
<1>7. CASE Stop \/ StopJoin \/ Start
  BY <1>7 DEF Stop, StopJoin, Start
<1>8. CASE Scan
  BY <1>8 DEF Scan, Expired, Unexpired
<1>9. CASE LoopTest \/ Round \/ Tick
  BY <1>9 DEF LoopTest, Round, Tick
<1>10. CASE UNCHANGED vars
  BY <1>10 DEF vars
<1>11. QED
  BY <1>1, <1>2, <1>3, <1>4, <1>5, <1>6, <1>7, <1>8, <1>9, <1>10 DEF Next

Timed == Clocked /\ NeverEarly

LEMMA TimedStep == TypeOK /\ Placed /\ Timed /\ [Next]_vars => Timed'
<1> SUFFICES ASSUME TypeOK, Placed, Timed, [Next]_vars PROVE Timed'
  OBVIOUS
<1> USE TextDeliveryAssumption DEF TypeOK, Timed, Clocked, NeverEarly
<1>1. ASSUME NEW m \in Msgs, Send(m) PROVE Timed'
  BY <1>1 DEF Send, Placed, Unarmed
<1>2. ASSUME NEW m \in Msgs, Arm(m) PROVE Timed'
  BY <1>2 DEF Arm, Deadline
<1>3. ASSUME NEW m \in Msgs, PeerAnswers(m) \/ Receive(m) \/ HandleAck(m) PROVE Timed'
  BY <1>3 DEF PeerAnswers, Receive, HandleAck
<1>4. ASSUME NEW m \in Msgs, CallHandler(m) PROVE Timed'
  BY <1>4 DEF CallHandler, Reports
<1>5. ASSUME NEW m \in Msgs, Show(m) PROVE Timed'
  BY <1>5 DEF Show
<1>6. CASE Stop \/ StopJoin \/ Start
  BY <1>6 DEF Stop, StopJoin, Start
<1>7. CASE Scan
  BY <1>7 DEF Scan, Expired, Placed, Unarmed
<1>8. CASE LoopTest \/ Round
  BY <1>8 DEF LoopTest, Round
<1>9. CASE Tick
  BY <1>9 DEF Tick
<1>10. CASE UNCHANGED vars
  BY <1>10 DEF vars
<1>11. QED
  BY <1>1, <1>2, <1>3, <1>4, <1>5, <1>6, <1>7, <1>8, <1>9, <1>10 DEF Next

LEMMA Invariance == Spec => []IInv
<1>1. IInv /\ [Next]_vars => IInv'
  BY TypeStep, JoinedStep, PlacedStep, TimedStep DEF IInv, Placed, Timed
<1>2. QED BY InitIInv, <1>1, PTL DEF Spec

(* The variables of TextDelivery keep their types. *)
THEOREM TypeCorrect == Spec => []TypeOK
BY Invariance, PTL DEF IInv

(* An answer handled while the pack is listed wins over the timeout. *)
THEOREM AnswerWins == Spec => []AnsweredNeverTimesOut
<1>1. IInv => AnsweredNeverTimesOut
  BY DEF IInv, AnsweredIsGone, AnsweredNeverTimesOut
<1>2. QED BY Invariance, <1>1, PTL

(* A text is reported as timed out at most once. *)
THEOREM AtMostOneReport == Spec => []ReportedOnce
BY Invariance, PTL DEF IInv

(* A text is reported only after the peer had the whole timeout to answer. *)
THEOREM WholeTimeout == Spec => []NeverEarly
BY Invariance, PTL DEF IInv
-----------------------------------------------------------------------------
(* Fates. *)

(* An answer sweeps a text away at most once, and then for good. *)
Swept == /\ swept \cap (packs \cup timeos \cup events \cup shown \cup answered) = {}
         /\ \A m \in Msgs : stage[m] # "armed" => m \notin swept

FateInv == TypeOK /\ Placed /\ Swept

LEMMA SweptStep == FateInv /\ [Next]_vars => Swept'
<1> SUFFICES ASSUME FateInv, [Next]_vars PROVE Swept'
  OBVIOUS
<1> USE DEF FateInv, TypeOK, Placed, Unarmed, AnsweredIsGone, ReportedOnce, Swept
<1>1. ASSUME NEW m \in Msgs, Send(m) \/ Arm(m) PROVE Swept'
  BY <1>1 DEF Send, Arm
<1>2. ASSUME NEW m \in Msgs, PeerAnswers(m) \/ Receive(m) PROVE Swept'
  BY <1>2 DEF PeerAnswers, Receive
<1>3. ASSUME NEW m \in Msgs, HandleAck(m) PROVE Swept'
  BY <1>3 DEF HandleAck, ClearedBy
<1>4. ASSUME NEW m \in Msgs, CallHandler(m) \/ Show(m) PROVE Swept'
  BY <1>4 DEF CallHandler, Reports, Show
<1>5. CASE Stop \/ StopJoin \/ Start
  BY <1>5 DEF Stop, StopJoin, Start
<1>6. CASE LoopTest \/ Scan \/ Round \/ Tick
  BY <1>6 DEF LoopTest, Scan, Expired, Unexpired, Round, Tick
<1>7. CASE UNCHANGED vars
  BY <1>7 DEF vars
<1>8. QED
  BY <1>1, <1>2, <1>3, <1>4, <1>5, <1>6, <1>7 DEF Next

LEMMA FateInvariance == Spec => []FateInv
<1>1. Init => FateInv
  BY InitIInv DEF IInv, Init, FateInv, Placed, Swept
<1>2. FateInv /\ IInv /\ [Next]_vars => FateInv'
  BY TypeStep, PlacedStep, SweptStep DEF FateInv, IInv
<1>3. QED BY <1>1, <1>2, Invariance, PTL DEF Spec

(* A text in one place has the fate of that place. *)
LEMMA FateOfPlace ==
  ASSUME NEW m \in Msgs, NEW v, PlacesOf(m) = {v}
  PROVE  FateOf(m) = v
<1>1. Cardinality({v}) = 1
  BY FS_Singleton
<1>2. (CHOOSE w \in {v} : TRUE) = v
  OBVIOUS
<1>3. QED BY <1>1, <1>2 DEF FateOf

(* What the places say of a text, which is in one of them at most. *)
FateIs(m) == /\ m \in packs => FateOf(m) = "waiting"
             /\ m \in timeos => FateOf(m) = "due"
             /\ m \in events => FateOf(m) = "reported"
             /\ m \in shown => FateOf(m) = "told"
             /\ m \in answered => FateOf(m) = "answered"
             /\ m \in swept => FateOf(m) = "swept"
             /\ m \notin packs \cup timeos \cup events \cup shown \cup answered \cup swept
                  => FateOf(m) = IF stage[m] = "armed" THEN "lost" ELSE "unsent"

AllFates == \A m \in Msgs : FateIs(m)

LEMMA FatesOfPlaces == FateInv => AllFates
<1> SUFFICES ASSUME FateInv, NEW m \in Msgs PROVE FateIs(m)
  BY DEF AllFates
<1> USE DEF FateInv, TypeOK, Placed, AnsweredIsGone, ReportedOnce, Swept
<1>1. /\ DOMAIN Place = {"waiting", "due", "reported", "told", "answered", "swept"}
      /\ Place["waiting"] = packs /\ Place["due"] = timeos /\ Place["reported"] = events
      /\ Place["told"] = shown /\ Place["answered"] = answered /\ Place["swept"] = swept
  BY DEF Place
<1>2. m \in packs => PlacesOf(m) = {"waiting"}
  BY <1>1 DEF PlacesOf
<1>3. m \in timeos => PlacesOf(m) = {"due"}
  BY <1>1 DEF PlacesOf
<1>4. m \in events => PlacesOf(m) = {"reported"}
  BY <1>1 DEF PlacesOf
<1>5. m \in shown => PlacesOf(m) = {"told"}
  BY <1>1 DEF PlacesOf
<1>6. m \in answered => PlacesOf(m) = {"answered"}
  BY <1>1 DEF PlacesOf
<1>7. m \in swept => PlacesOf(m) = {"swept"}
  BY <1>1 DEF PlacesOf
<1>8. m \notin packs \cup timeos \cup events \cup shown \cup answered \cup swept
        => PlacesOf(m) = {}
  BY <1>1 DEF PlacesOf
<1>9. QED
  BY <1>2, <1>3, <1>4, <1>5, <1>6, <1>7, <1>8, FateOfPlace DEF FateIs, FateOf

(* A text that stays where it is keeps its fate. *)
LEMMA FateStays ==
  ASSUME NEW m \in Msgs, UNCHANGED stage[m],
         m \in packs <=> m \in packs', m \in timeos <=> m \in timeos',
         m \in events <=> m \in events', m \in shown <=> m \in shown',
         m \in answered <=> m \in answered', m \in swept <=> m \in swept'
  PROVE  FateOf(m)' = FateOf(m)
<1>1. PlacesOf(m)' = PlacesOf(m)
  BY DEF PlacesOf, Place
<1>2. QED BY <1>1 DEF FateOf

LEMMA FateStep == FateInv /\ AllFates /\ AllFates' /\ [Next]_vars => [WL!Next]_Fate
<1> SUFFICES ASSUME FateInv, AllFates, AllFates', [Next]_vars PROVE [WL!Next]_Fate
  OBVIOUS
<1> DEFINE Stays(n) == FateOf(n)' = FateOf(n)
<1>1. \A n \in Msgs : FateIs(n) /\ FateIs(n)'
  BY DEF AllFates
<1>2. /\ \A n \in Msgs : Fate[n] = FateOf(n)
      /\ Fate' = [n \in Msgs |-> FateOf(n)']
  BY DEF Fate
<1>3. ASSUME \A n \in Msgs : Stays(n) PROVE Fate' = Fate
  BY <1>3 DEF Fate
<1> USE DEF FateInv, TypeOK
<1>4. ASSUME NEW m \in Msgs, Send(m) PROVE Fate' = Fate
  <2>1. ASSUME NEW n \in Msgs, n # m PROVE Stays(n)
    BY <1>4, <2>1, FateStays DEF Send
  <2>2. Stays(m)
    BY <1>1, <1>4 DEF FateIs, Send, Placed, Unarmed, Swept
  <2>3. QED BY <1>3, <2>1, <2>2
<1>5. ASSUME NEW m \in Msgs, Arm(m) PROVE WL!Wait(m)
  <2>1. ASSUME NEW n \in Msgs, n # m PROVE Stays(n)
    BY <1>5, <2>1, FateStays DEF Arm
  <2>2. FateOf(m) = "unsent" /\ FateOf(m)' = "waiting"
    BY <1>1, <1>5 DEF FateIs, Arm, Placed, Unarmed, Swept
  <2>3. QED BY <1>2, <2>1, <2>2 DEF WL!Wait, WL!Are, WL!Become
<1>6. ASSUME NEW m \in Msgs, PeerAnswers(m) \/ Receive(m) PROVE Fate' = Fate
  <2>1. ASSUME NEW n \in Msgs PROVE Stays(n)
    BY <1>6, FateStays DEF PeerAnswers, Receive
  <2>2. QED BY <1>3, <2>1
<1>7. ASSUME NEW m \in Msgs, HandleAck(m) PROVE WL!Answer(m)
  <2> DEFINE S == packs \ {m}
  <2>1. \A n \in packs : n \in Msgs /\ FateOf(n) = "waiting"
    BY <1>1 DEF FateIs
  <2>2. S \in SUBSET (WL!Are("waiting") \ {m})
    BY <1>2, <2>1 DEF WL!Are
  <2>3. ASSUME NEW n \in S PROVE FateOf(n)' = "swept"
    BY <1>1, <1>7, <2>3 DEF FateIs, HandleAck, ClearedBy
  <2>4. ASSUME m \in packs PROVE FateOf(m) = "waiting" /\ FateOf(m)' = "answered"
    BY <1>1, <1>7, <2>4 DEF FateIs, HandleAck
  <2>5. ASSUME NEW n \in Msgs, n \notin packs PROVE Stays(n)
    BY <1>7, <2>5, FateStays DEF HandleAck, ClearedBy
  <2>6. ASSUME m \notin packs PROVE FateOf(m) # "waiting"
    BY <1>1, <2>6 DEF FateIs
  <2>7. \A n \in Msgs : FateOf(n)' = IF n \in S THEN "swept"
                                    ELSE IF n = m /\ Fate[m] = "waiting" THEN "answered"
                                    ELSE Fate[n]
    BY <1>2, <2>3, <2>4, <2>5, <2>6
  <2>8. QED BY <1>2, <2>2, <2>7 DEF WL!Answer
<1>8. CASE Scan
  <2>1. Expired \subseteq packs
    BY DEF Expired
  <2>2. \A n \in Expired : n \in Msgs /\ FateOf(n) = "waiting"
    BY <1>1, <2>1 DEF FateIs
  <2>3. Expired \in SUBSET WL!Are("waiting")
    BY <1>2, <2>2 DEF WL!Are
  <2>4. ASSUME NEW n \in Expired PROVE FateOf(n)' = "due"
    BY <1>1, <1>8, <2>2, <2>4 DEF FateIs, Scan
  <2>5. timeos = {}
    BY <1>8 DEF Scan
  <2>6. ASSUME NEW n \in Msgs, n \notin Expired PROVE Stays(n)
    BY <1>8, <2>1, <2>5, <2>6, FateStays DEF Scan, Unexpired
  <2>7. Fate' = [n \in Msgs |-> IF n \in Expired THEN "due" ELSE Fate[n]]
    BY <1>2, <2>4, <2>6
  <2>8. WL!Expire
    BY <2>3, <2>7 DEF WL!Expire, WL!Become
  <2>9. QED BY <2>8 DEF WL!Next
<1>9. ASSUME NEW m \in Msgs, CallHandler(m) PROVE WL!Report(m) \/ WL!Lose
  <2>1. FateOf(m) = "due"
    BY <1>1, <1>9 DEF FateIs, CallHandler
  <2>2. ASSUME NEW n \in Msgs, n # m PROVE Stays(n)
    BY <1>9, <2>2, FateStays DEF CallHandler, Reports
  <2>3. CASE known = "yes"
    <3>1. FateOf(m)' = "reported"
      BY <1>1, <1>9, <2>3 DEF FateIs, CallHandler, Reports
    <3>2. QED BY <1>2, <2>1, <2>2, <3>1 DEF WL!Report, WL!Are, WL!Become
  <2>4. CASE known # "yes"
    <3>1. FateOf(m)' = "lost"
      <4>1. m \notin packs \cup events \cup shown \cup answered \cup swept
        BY <1>9 DEF CallHandler, Placed, AnsweredIsGone, ReportedOnce, Swept
      <4>2. stage[m] = "armed"
        BY <1>9 DEF CallHandler, Placed, Unarmed
      <4>3. QED BY <1>1, <1>9, <2>4, <4>1, <4>2 DEF FateIs, CallHandler, Reports
    <3>2. {m} \in SUBSET (WL!Are("due") \cup WL!Are("reported"))
      BY <1>2, <2>1 DEF WL!Are
    <3>3. Fate' = [n \in Msgs |-> IF n \in {m} THEN "lost" ELSE Fate[n]]
      BY <1>2, <2>2, <3>1
    <3>4. QED BY <3>2, <3>3 DEF WL!Lose, WL!Become
  <2>5. QED BY <2>3, <2>4
<1>10. ASSUME NEW m \in Msgs, Show(m) PROVE WL!Tell(m)
  <2>1. FateOf(m) = "reported" /\ FateOf(m)' = "told"
    BY <1>1, <1>10 DEF FateIs, Show
  <2>2. ASSUME NEW n \in Msgs, n # m PROVE Stays(n)
    BY <1>10, <2>2, FateStays DEF Show
  <2>3. QED BY <1>2, <2>1, <2>2 DEF WL!Tell, WL!Are, WL!Become
<1>11. CASE StopJoin
  <2>1. \A n \in events : n \in Msgs /\ FateOf(n) = "reported"
    BY <1>1 DEF FateIs
  <2>2. events \in SUBSET (WL!Are("due") \cup WL!Are("reported"))
    BY <1>2, <2>1 DEF WL!Are
  <2>3. ASSUME NEW n \in events PROVE FateOf(n)' = "lost"
    <3>1. n \notin packs \cup timeos \cup shown \cup answered \cup swept
      BY <2>3 DEF Placed, AnsweredIsGone, ReportedOnce, Swept
    <3>2. stage[n] = "armed"
      BY <2>1, <2>3 DEF Placed, Unarmed
    <3>3. QED BY <1>1, <1>11, <2>1, <2>3, <3>1, <3>2 DEF FateIs, StopJoin
  <2>4. ASSUME NEW n \in Msgs, n \notin events PROVE Stays(n)
    BY <1>11, <2>4, FateStays DEF StopJoin
  <2>5. Fate' = [n \in Msgs |-> IF n \in events THEN "lost" ELSE Fate[n]]
    BY <1>2, <2>3, <2>4
  <2>6. WL!Lose
    BY <2>2, <2>5 DEF WL!Lose, WL!Become
  <2>7. QED BY <2>6 DEF WL!Next
<1>12. CASE Stop \/ Start \/ LoopTest \/ Round \/ Tick
  <2>1. ASSUME NEW n \in Msgs PROVE Stays(n)
    BY <1>12, FateStays DEF Stop, Start, LoopTest, Round, Tick
  <2>2. Fate' = Fate
    BY <1>3, <2>1
  <2>3. QED BY <2>2
<1>13. CASE UNCHANGED vars
  <2>1. ASSUME NEW n \in Msgs PROVE Stays(n)
    BY <1>13, FateStays DEF vars
  <2>2. Fate' = Fate
    BY <1>3, <2>1
  <2>3. QED BY <2>2
<1>14. QED
  BY <1>4, <1>5, <1>6, <1>7, <1>8, <1>9, <1>10, <1>11, <1>12, <1>13 DEF Next, WL!Next

(* Every text comes to one end, and that end is final: answered, swept away, lost or
   told, whatever is lost, repeated or late and however often the engine restarts. *)
THEOREM EndsAreFinal == Spec => KeepsItsFate
<1>1. Init => WL!Init
  <2>1. Init => \A m \in Msgs : FateOf(m) = "unsent"
    <3> SUFFICES ASSUME Init, NEW m \in Msgs PROVE FateOf(m) = "unsent"
      OBVIOUS
    <3>1. PlacesOf(m) = {}
      BY DEF Init, PlacesOf, Place
    <3>2. QED BY <3>1 DEF FateOf, Init
  <2>2. QED BY <2>1 DEF WL!Init, Fate
<1>2. FateInv /\ AllFates /\ AllFates' /\ [Next]_vars => [WL!Next]_Fate
  BY FateStep
<1>3. QED BY <1>1, <1>2, FatesOfPlaces, FateInvariance, PTL DEF Spec, KeepsItsFate, WL!Spec
-----------------------------------------------------------------------------
(* Starts. *)

(* mAsyncMode, the flag the threads of all starts share, says "no" whenever a
   start reads it, since closing the socket resets it. *)
FlagIsDown == /\ mSocket = 0 => mAsyncMode = "no"
              /\ ui = "async" => mAsyncMode = "no"

(* Where the socket is, at each point of the user-interface thread. *)
SocketStands ==
  /\ ui \in {"async", "tcp", "threads"} => running = "no"
  /\ ui \in {"detect", "join"} => running = "yes"
  /\ ui = "join" => mSocket = 0
  /\ ui \in {"close", "clear", "join"} => mStarted = "no"
  /\ ui \in {"async", "tcp", "threads", "detect"} \/ (ui = "idle" /\ running = "yes") =>
       mSocket = attempt /\ fd = "open" /\ attempt # 0
  /\ ui = "idle" /\ running = "no" /\ mSocket # 0 => badBind = "yes"

(* Threads of later starts do not exist yet; the latest one receives. *)
LatestReceives ==
  /\ \A t \in Attempts : t > attempt => pc[t] = "none"
  /\ ui = "async" => pc[attempt] = "none"
  /\ ui \in {"tcp", "threads", "detect"} \/ (ui = "idle" /\ running = "yes") =>
       (broken = "no" => pc[attempt] \in Receiving)

EngineInv == RestartTypeOK /\ FlagIsDown /\ SocketStands /\ LatestReceives /\ RefusedOnlyAfterFailedBind

LEMMA InitEngineInv == RestartInit => EngineInv
BY EngineRestartAssumption DEF RestartInit, EngineInv, RestartTypeOK, FlagIsDown, SocketStands, LatestReceives,
       RefusedOnlyAfterFailedBind, Attempts, Receiving

LEMMA StartStep == EngineInv /\ (Refused \/ NoSocket \/ BindFails \/ Bind) => EngineInv'
<1> SUFFICES ASSUME EngineInv, Refused \/ NoSocket \/ BindFails \/ Bind PROVE EngineInv'
  OBVIOUS
<1> USE EngineRestartAssumption DEF EngineInv, RestartTypeOK, FlagIsDown, SocketStands, LatestReceives,
           RefusedOnlyAfterFailedBind, Attempts, Receiving, Starting, socketVars, faultVars
<1>1. CASE Refused
  BY <1>1 DEF Refused
<1>2. CASE NoSocket
  BY <1>2 DEF NoSocket
<1>3. CASE BindFails
  BY <1>3 DEF BindFails
<1>4. CASE Bind
  BY <1>4 DEF Bind
<1>5. QED BY <1>1, <1>2, <1>3, <1>4

LEMMA UiStep == EngineInv /\ (Ui \/ StopEngine) => EngineInv'
<1> SUFFICES ASSUME EngineInv, Ui \/ StopEngine PROVE EngineInv'
  OBVIOUS
<1> USE EngineRestartAssumption DEF EngineInv, RestartTypeOK, FlagIsDown, SocketStands, LatestReceives,
           RefusedOnlyAfterFailedBind, Attempts, Receiving, socketVars, faultVars
<1>1. CASE StartAsyncRecv
  BY <1>1 DEF StartAsyncRecv
<1>2. CASE TcpStart
  BY <1>2 DEF TcpStart
<1>3. CASE TcpFails
  BY <1>3 DEF TcpFails, Undone
<1>4. CASE Run
  BY <1>4 DEF Run
<1>5. CASE EnableIntervalDetect
  BY <1>5 DEF EnableIntervalDetect
<1>6. CASE StopEngine
  BY <1>6 DEF StopEngine
<1>7. CASE CloseDescriptor
  BY <1>7 DEF CloseDescriptor
<1>8. CASE ClearSocket
  BY <1>8 DEF ClearSocket, AsyncCleared
<1>9. CASE Join
  BY <1>9 DEF Join
<1>10. QED BY <1>1, <1>2, <1>3, <1>4, <1>5, <1>6, <1>7, <1>8, <1>9 DEF Ui

LEMMA ReceiverStep == ASSUME NEW t \in Attempts PROVE EngineInv /\ Receiver(t) => EngineInv'
<1> SUFFICES ASSUME EngineInv, Receiver(t) PROVE EngineInv'
  OBVIOUS
<1> USE EngineRestartAssumption DEF EngineInv, RestartTypeOK, FlagIsDown, SocketStands, LatestReceives,
           RefusedOnlyAfterFailedBind, Attempts, Receiving, Goes, Rest, Usable
<1>1. CASE SetTimeout(t)
  <2>1. mSocket \in Attempts
    BY <1>1 DEF SetTimeout
  <2>2. QED BY <1>1, <2>1 DEF SetTimeout
<1>2. CASE SetTimeoutFails(t)
  BY <1>2 DEF SetTimeoutFails
<1>3. CASE Test(t)
  BY <1>3 DEF Test
<1>4. CASE RecvFrom(t)
  BY <1>4 DEF RecvFrom
<1>5. CASE RecvFromClosed(t)
  BY <1>5 DEF RecvFromClosed
<1>6. CASE RecvTimeout(t)
  BY <1>6 DEF RecvTimeout, Retested
<1>7. CASE RecvData(t)
  BY <1>7 DEF RecvData
<1>8. CASE RecvError(t)
  BY <1>8 DEF RecvError
<1>9. CASE Handle(t)
  BY <1>9 DEF Handle
<1>10. CASE End(t)
  BY <1>10 DEF End
<1>11. QED
  BY <1>1, <1>2, <1>3, <1>4, <1>5, <1>6, <1>7, <1>8, <1>9, <1>10 DEF Receiver, Runs

LEMMA NextEngineInv == EngineInv /\ [RestartNext]_restartVars => EngineInv'
<1> SUFFICES ASSUME EngineInv, [RestartNext]_restartVars PROVE EngineInv'
  OBVIOUS
<1>1. CASE DetectTest \/ DetectWake
  BY <1>1 DEF DetectTest, DetectWake, MustEnd, EngineInv, RestartTypeOK, FlagIsDown, SocketStands,
              LatestReceives, RefusedOnlyAfterFailedBind, socketVars, faultVars
<1>2. CASE UNCHANGED restartVars
  BY <1>2 DEF restartVars, socketVars, faultVars, EngineInv, RestartTypeOK, FlagIsDown, SocketStands,
              LatestReceives, RefusedOnlyAfterFailedBind
<1>3. QED BY <1>1, <1>2, StartStep, UiStep, ReceiverStep DEF RestartNext

LEMMA EngineInvariance == RestartSpec => []EngineInv
<1>1. RestartInit => EngineInv
  BY InitEngineInv
<1>2. EngineInv /\ [RestartNext]_restartVars => EngineInv'
  BY NextEngineInv
<1>3. QED BY <1>1, <1>2, PTL DEF RestartSpec

(* Types hold in every reachable state. *)
THEOREM EngineTypes == RestartSpec => []RestartTypeOK
<1>1. EngineInv => RestartTypeOK
  BY DEF EngineInv
<1>2. QED BY <1>1, EngineInvariance, PTL

(* However stop, start and the threads of earlier starts interleave, a running
   program has a receiving thread: the thread of the latest start. *)
THEOREM NeverDeaf == RestartSpec => []SomeoneReceives
<1>1. EngineInv => SomeoneReceives
  BY DEF EngineInv, RestartTypeOK, SocketStands, LatestReceives, SomeoneReceives, Attempts
<1>2. QED BY <1>1, EngineInvariance, PTL

(* A start is refused as initialised already only after a failed bind. *)
THEOREM RefusalHasItsCause == RestartSpec => []RefusedOnlyAfterFailedBind
<1>1. EngineInv => RefusedOnlyAfterFailedBind
  BY DEF EngineInv
<1>2. QED BY <1>1, EngineInvariance, PTL
===============================================================================
