--------------------------- MODULE PresenceProofs ---------------------------
(***************************************************************************)
(* Proofs about presence, for any machines, networks, receiving threads    *)
(* and numbers of restarts.                                                *)
(***************************************************************************)
EXTENDS Presence, SequenceTheorems, WellFoundedInduction, TLAPS

\* What a thread has received: of a machine there is, from an address it has had.
Posts == [from : DOMAIN mac, ip : Addresses, kind : Kinds \cup {"none"}]

Typed ==
  /\ mac \in Networks /\ had \in [Machines -> SUBSET Addresses]
  /\ \A m \in Machines : Home[m] \in had[m]
  /\ mFellows \in Seq(Fellows) /\ live \subseteq Receivers
  /\ pc \in [Receivers -> {"recv", "look", "add", "update", "post", "answer"}]
  /\ post \in [Receivers -> Posts] /\ \A r \in Receivers : post[r].ip \in had[post[r].from]
  /\ at \in [Receivers -> Nat]
  /\ \A r \in Receivers : pc[r] \in {"update", "post", "answer"} => at[r] \in 1..Len(mFellows)
  /\ events \in Seq(1..Len(mFellows)) /\ queued \in Seq(Fellows)
  /\ restarts \in Nat

(* Until the settings are changed one thread receives; the others stand still. *)
Alone == /\ \A r \in Receivers \ live : pc[r] = "recv"
         /\ restarts = 0 => ui = "loop" /\ \A r, s \in live : r = s

(* What a thread is about to add is not there yet: between its look at the list and
   its addition nobody else adds. *)
Sought == restarts = 0 =>
  \A r \in Receivers : pc[r] = "add" =>
    \A i \in DOMAIN mFellows : mFellows[i].ip # post[r].ip

(* Where every machine is known by its MAC, a fellow is at an address the machine with its
   MAC has had, and so is the fellow a thread works on, for the sender of its datagram. *)
AllDiffer == \A m, n \in DOMAIN mac : mac[m] = mac[n] => m = n \/ mac[m] = NoMac
ItsOwn(f) == \A m \in DOMAIN mac : f.mac = mac[m] /\ mac[m] # NoMac => f.ip \in had[m]
Owned == AllDiffer =>
  /\ \A i \in DOMAIN mFellows : ItsOwn(mFellows[i])
  /\ \A r \in Receivers : pc[r] \in {"update", "post", "answer"} =>
                            mFellows[at[r]].ip \in had[post[r].from]

(* Of every fellow of which no change is on its way to the queue thread, the last word
   in Qt's queue, or the list if there is none, is what the engine knows. *)
Pending(i) == \/ \E r \in Receivers : pc[r] = "post" /\ at[r] = i
              \/ \E k \in DOMAIN events : events[k] = i
ShownAs(f) == IF f.online = "yes" THEN f.ip \in DOMAIN users /\ users[f.ip] = f.name
                                  ELSE f.ip \notin DOMAIN users
LastWord(f) ==
  \/ \E k \in DOMAIN queued : /\ queued[k] = f
                              /\ \A l \in DOMAIN queued : l > k => queued[l].ip # f.ip
  \/ (\A l \in DOMAIN queued : queued[l].ip # f.ip) /\ ShownAs(f)
Known(ip) == \E i \in DOMAIN mFellows : mFellows[i].ip = ip
Told == restarts = 0 =>
  /\ \A i \in DOMAIN mFellows : Pending(i) \/ LastWord(mFellows[i])
  /\ \A ip \in DOMAIN users : Known(ip)
  /\ \A k \in DOMAIN queued : Known(queued[k].ip)

IInv == Typed /\ Alone /\ OneFellowPerAddress /\ Sought /\ Owned /\ Told
-----------------------------------------------------------------------------
(* What the operators of the list return. *)

LEMMA SmallestOf == ASSUME NEW I \in SUBSET Nat, I # {}
                    PROVE (CHOOSE x \in I : \A y \in I : x =< y) \in I
<1> DEFINE R == OpToRel(<, Nat)
<1>1. IsWellFoundedOn(R, Nat)
  BY NatLessThanWellFounded
<1>2. \A a, b \in Nat : a < b => <<a, b>> \in R
  BY DEF OpToRel
<1> HIDE DEF R
<1>3. PICK x \in I : \A y \in I : ~ (<<y, x>> \in R)
  BY <1>1, WFMin, Zenon
<1>4. \A y \in I : ~ (y < x)
  BY <1>2, <1>3, Zenon
<1>5. \A y \in I : x =< y
  BY <1>4
<1>6. QED BY <1>5, Zenon

\* A found index is that of a fellow that is the same; 0 is returned if there is none.
LEMMA FindIs ==
  ASSUME Typed, NEW f
  PROVE /\ Find(f) \in 0..Len(mFellows)
        /\ Find(f) = 0 => \A i \in DOMAIN mFellows : ~SameFellow(f, mFellows[i])
        /\ Find(f) # 0 => SameFellow(f, mFellows[Find(f)])
<1> DEFINE I == {i \in 1..Len(mFellows) : SameFellow(f, mFellows[i])}
<1>1. Len(mFellows) \in Nat /\ DOMAIN mFellows = 1..Len(mFellows)
  BY LenProperties DEF Typed
<1>2. Find(f) = IF I # {} THEN CHOOSE x \in I : \A y \in I : x =< y ELSE 0
  BY DEF Find, SelectInSeq, Min
<1>3. CASE I # {}
  <2>1. I \in SUBSET Nat
    BY <1>1
  <2>2. Find(f) \in I
    <3> HIDE DEF I
    <3>1. QED BY <1>2, <1>3, <2>1, SmallestOf, Zenon
  <2>3. QED BY <1>1, <2>2
<1>4. CASE I = {}
  BY <1>1, <1>2, <1>4
<1>5. QED BY <1>3, <1>4

LEMMA SenderIs ==
  ASSUME Typed, NEW r \in Receivers
  PROVE /\ SenderOf(post[r]) \in Fellows
        /\ SenderOf(post[r]).ip = post[r].ip /\ post[r].ip \in had[post[r].from]
        /\ post[r].from \in DOMAIN mac /\ SenderOf(post[r]).mac = mac[post[r].from]
<1>1. mac \in Networks /\ post[r].from \in DOMAIN mac /\ post[r].from \in Machines
      /\ post[r] \in Posts /\ post[r].ip \in had[post[r].from]
  BY PresenceAssumption DEF Typed, Posts
<1>2. mac[post[r].from] \in UNION {{n[m] : m \in DOMAIN n} : n \in Networks}
  BY <1>1
<1>3. QED BY <1>1, <1>2 DEF SenderOf, Fellows, Posts

\* An update keeps the address, and takes the sender's MAC if it is known.
LEMMA UpdatedIs ==
  ASSUME NEW f \in Fellows, NEW g \in Fellows
  PROVE /\ Updated(f, g) \in Fellows /\ Updated(f, g).ip = f.ip
        /\ Updated(f, g).mac = IF g.mac # NoMac THEN g.mac ELSE f.mac
  BY DEF Updated, Fellows
-----------------------------------------------------------------------------
(* Steps that leave the list alone. *)

LEMMA OwnThere == ASSUME Typed PROVE NoPost \in Posts /\ NoPost.ip \in had[NoPost.from]
  BY PresenceAssumption DEF Typed, NoPost, Posts

\* What a thread does after its work leaves the threads as they may be.
LEMMA ThreadTypes ==
  ASSUME Typed, NEW r \in Receivers,
         UNCHANGED <<mac, had>>,
         \/ pc' = [pc EXCEPT ![r] = "post"] /\ UNCHANGED <<post, at>>
         \/ pc' = [pc EXCEPT ![r] = "answer"] /\ UNCHANGED <<post, at>>
         \/ Handled(r)
  PROVE /\ pc' \in [Receivers -> {"recv", "look", "add", "update", "post", "answer"}]
        /\ post' \in [Receivers -> Posts]
        /\ \A t \in Receivers : post'[t].ip \in had[post'[t].from]
        /\ at' \in [Receivers -> Nat]
<1>1. CASE pc' = [pc EXCEPT ![r] = "post"] /\ UNCHANGED <<post, at>>
  BY <1>1 DEF Typed
<1>2. CASE pc' = [pc EXCEPT ![r] = "answer"] /\ UNCHANGED <<post, at>>
  BY <1>2 DEF Typed
<1>3. CASE Handled(r)
  BY <1>3, OwnThere DEF Typed, Handled
<1>4. QED BY <1>1, <1>2, <1>3

LEMMA ToldStays ==
  ASSUME Told, UNCHANGED <<mFellows, queued, users, restarts>>,
         \A i \in DOMAIN mFellows : Pending(i) => Pending(i)'
  PROVE Told'
<1> SUFFICES ASSUME restarts = 0
             PROVE /\ \A i \in DOMAIN mFellows : Pending(i)' \/ LastWord(mFellows[i])'
                   /\ \A ip \in DOMAIN users : Known(ip)'
                   /\ \A k \in DOMAIN queued : Known(queued[k].ip)'
  BY DEF Told
<1>1. \A i \in DOMAIN mFellows : LastWord(mFellows[i]) => LastWord(mFellows[i])'
  BY DEF LastWord, ShownAs
<1>2. \A ip : Known(ip) => Known(ip)'
  BY DEF Known
<1>3. QED BY <1>1, <1>2 DEF Told

\* A machine that gets another address keeps those it has had.
LEMMA MoveStep ==
  ASSUME IInv, NEW m \in Machines, NEW ip \in Addresses, Move(m, ip) PROVE IInv'
<1>1. /\ had' = [had EXCEPT ![m] = had[m] \cup {ip}]
      /\ UNCHANGED <<mac, mFellows, live, pc, post, at, events, queued, users, ui, restarts>>
  BY DEF Move, recvVars
<1>2. had' \in [Machines -> SUBSET Addresses] /\ \A n \in Machines : had[n] \subseteq had'[n]
  BY <1>1 DEF IInv, Typed
<1>3. \A r \in Receivers : post[r].from \in Machines
  BY PresenceAssumption DEF IInv, Typed, Posts
<1>4. Typed'
  BY <1>1, <1>2, <1>3 DEF IInv, Typed, Posts
<1>5. Alone' /\ OneFellowPerAddress' /\ Sought'
  BY <1>1 DEF IInv, Alone, OneFellowPerAddress, Sought
<1>6. Owned'
  <2>1. DOMAIN mac \subseteq Machines
    BY PresenceAssumption DEF IInv, Typed
  <2>2. \A f : ItsOwn(f) => ItsOwn(f)'
    BY <1>1, <1>2, <2>1 DEF ItsOwn
  <2>3. QED BY <1>1, <1>2, <1>3, <2>2 DEF IInv, Owned, AllDiffer
<1>7. Told'
  BY <1>1, ToldStays DEF IInv, Pending
<1>8. QED BY <1>4, <1>5, <1>6, <1>7 DEF IInv

LEMMA ReceiveStep ==
  ASSUME IInv, NEW r \in Receivers, NEW m \in Machines, NEW ip \in Addresses, NEW kind \in Kinds,
         Receive(r, m, ip, kind)
  PROVE IInv'
<1>1. Typed'
  <2>1. UNCHANGED <<mac, had, mFellows, live, at, events, queued, restarts>>
    BY DEF Receive, network
  <2>2. /\ post' = [post EXCEPT ![r] = [from |-> m, ip |-> ip, kind |-> kind]]
        /\ m \in DOMAIN mac /\ ip \in had[m] /\ pc' = [pc EXCEPT ![r] = "look"]
    BY DEF Receive
  <2>3. post' \in [Receivers -> Posts]
    BY <2>2 DEF IInv, Typed, Posts
  <2>4. \A t \in Receivers : post'[t].ip \in had[post'[t].from]
    BY <2>2 DEF IInv, Typed
  <2>5. QED BY <2>1, <2>2, <2>3, <2>4 DEF IInv, Typed, Posts
<1>2. Alone'
  BY DEF IInv, Typed, Alone, Receive
<1>3. OneFellowPerAddress' /\ Sought'
  BY DEF IInv, Typed, OneFellowPerAddress, Sought, Receive
<1>4. Owned'
  BY DEF IInv, Typed, Owned, ItsOwn, AllDiffer, Receive, network
<1>5. Told'
  <2>1. \A i \in DOMAIN mFellows : Pending(i) => Pending(i)'
    BY DEF IInv, Typed, Pending, Receive
  <2>2. QED BY <2>1, ToldStays DEF IInv, Receive
<1>6. QED BY <1>1, <1>2, <1>3, <1>4, <1>5 DEF IInv

\* A thread looks: it knows of the address, or of its owner, from then on.
LEMMA LookStep == ASSUME IInv, NEW r \in Receivers, Look(r) PROVE IInv'
<1> DEFINE s == SenderOf(post[r])
           f == Find(s)
<1>1. /\ f \in 0..Len(mFellows)
      /\ f = 0 => \A i \in DOMAIN mFellows : ~SameFellow(s, mFellows[i])
      /\ f # 0 => SameFellow(s, mFellows[f])
  BY FindIs DEF IInv
<1>2. /\ s.ip = post[r].ip /\ post[r].ip \in had[post[r].from]
      /\ post[r].from \in DOMAIN mac /\ s.mac = mac[post[r].from]
  BY SenderIs DEF IInv
<1> HIDE DEF s, f
<1>3. /\ at' = [at EXCEPT ![r] = f]
      /\ pc' = [pc EXCEPT ![r] = IF f = 0 THEN "add" ELSE "update"]
  BY DEF Look, f, s, IInv, Typed, AfterLook
<1>4. UNCHANGED <<mac, had, mFellows, live, post, events, queued, users, ui, restarts>>
      /\ pc[r] = "look"
  BY DEF Look, network
<1>5. Len(mFellows) \in Nat /\ DOMAIN mFellows = 1..Len(mFellows)
  BY LenProperties DEF IInv, Typed
<1>6. Typed'
  BY <1>1, <1>3, <1>4, <1>5 DEF IInv, Typed, Posts
<1>7. Alone'
  BY <1>3, <1>4 DEF IInv, Typed, Alone
<1>8. OneFellowPerAddress'
  BY <1>4 DEF IInv, OneFellowPerAddress
<1>9. Sought'
  BY <1>1, <1>2, <1>3, <1>4 DEF IInv, Typed, Sought, SameFellow
<1>10. Owned'
  <2> SUFFICES ASSUME AllDiffer
               PROVE  /\ \A i \in DOMAIN mFellows : ItsOwn(mFellows[i])
                      /\ f # 0 => mFellows[f].ip \in had[post[r].from]
    BY <1>3, <1>4 DEF IInv, Typed, Owned, ItsOwn, AllDiffer
  <2>1. \A i \in DOMAIN mFellows : ItsOwn(mFellows[i])
    BY DEF IInv, Owned
  <2>2. f # 0 => mFellows[f].ip \in had[post[r].from]
    BY <1>1, <1>2, <1>5, <2>1 DEF ItsOwn, SameFellow
  <2>3. QED BY <2>1, <2>2
<1>11. Told'
  <2>1. \A i \in DOMAIN mFellows : Pending(i) => Pending(i)'
    BY <1>3, <1>4 DEF IInv, Typed, Pending
  <2>2. QED BY <1>4, <2>1, ToldStays DEF IInv
<1>12. QED BY <1>6, <1>7, <1>8, <1>9, <1>10, <1>11 DEF IInv

LEMMA AnswerStep == ASSUME IInv, NEW r \in Receivers, Answer(r) PROVE IInv'
<1>1. Typed'
  <2>1. UNCHANGED <<mac, had, mFellows, live, events, queued, restarts>> /\ Handled(r)
    BY DEF Answer, network
  <2>2. /\ pc' \in [Receivers -> {"recv", "look", "add", "update", "post", "answer"}]
        /\ post' \in [Receivers -> Posts]
        /\ \A t \in Receivers : post'[t].ip \in had[post'[t].from]
        /\ at' \in [Receivers -> Nat]
    BY <2>1, ThreadTypes DEF IInv
  <2>3. \A t \in Receivers : pc'[t] \in {"update", "post", "answer"} => at'[t] \in 1..Len(mFellows)
    BY <2>1 DEF IInv, Typed, Handled
  <2>4. QED BY <2>1, <2>2, <2>3 DEF IInv, Typed, Posts
<1>2. Alone'
  BY DEF IInv, Typed, Alone, Answer, Handled
<1>3. OneFellowPerAddress' /\ Sought'
  BY DEF IInv, Typed, OneFellowPerAddress, Sought, Answer, Handled
<1>4. Owned'
  BY DEF IInv, Typed, Owned, ItsOwn, AllDiffer, Answer, Handled, network
<1>5. Told'
  <2>1. \A i \in DOMAIN mFellows : Pending(i) => Pending(i)'
    BY DEF IInv, Typed, Pending, Answer, Handled
  <2>2. QED BY <2>1, ToldStays DEF IInv, Answer
<1>6. QED BY <1>1, <1>2, <1>3, <1>4, <1>5 DEF IInv

LEMMA EndStep == ASSUME IInv, NEW r \in Receivers, EndReceiver(r) PROVE IInv'
<1>1. Typed' /\ Alone' /\ OneFellowPerAddress' /\ Sought' /\ Owned'
  BY DEF IInv, Typed, Posts, Alone, OneFellowPerAddress, Sought, Owned, ItsOwn, AllDiffer,
         EndReceiver, network
<1>2. Told'
  BY ToldStays DEF IInv, Pending, EndReceiver
<1>3. QED BY <1>1, <1>2 DEF IInv

\* A change of the settings ends what is promised of one receiving thread.
LEMMA SettingsStep ==
  ASSUME IInv, SettingsStop \/ SettingsStart \/ SettingsClear PROVE IInv'
<1>1. restarts' # 0
  BY DEF IInv, Typed, Alone, SettingsStop, SettingsStart, SettingsClear
<1>2. UNCHANGED <<mac, had, mFellows, pc, post, at, queued>> /\ live \subseteq live'
  BY DEF SettingsStop, SettingsStart, SettingsClear, recvVars, network
<1>3. Typed'
  <2>1. events' \in Seq(1..Len(mFellows))
    <3>1. <<>> \in Seq(1..Len(mFellows))
      BY EmptySeq
    <3>2. events' = <<>> \/ events' = events
      BY DEF SettingsStop, SettingsStart, SettingsClear
    <3>3. QED BY <3>1, <3>2 DEF IInv, Typed
  <2>2. restarts' \in Nat /\ live' \subseteq Receivers
    BY DEF IInv, Typed, SettingsStop, SettingsStart, SettingsClear, recvVars
  <2>3. QED BY <1>2, <2>1, <2>2 DEF IInv, Typed, Posts
<1>4. Alone' /\ OneFellowPerAddress' /\ Sought' /\ Told'
  BY <1>1, <1>2 DEF IInv, Alone, OneFellowPerAddress, Sought, Told
<1>5. Owned'
  BY <1>2 DEF IInv, Owned, ItsOwn, AllDiffer
<1>6. QED BY <1>3, <1>4, <1>5 DEF IInv
-----------------------------------------------------------------------------
(* Steps that change the list, and those that tell of it. *)

LEMMA AddStep == ASSUME IInv, NEW r \in Receivers, Add(r) PROVE IInv'
<1> DEFINE s == SenderOf(post[r])
<1>. PICK n \in Nat : n = Len(mFellows)
  BY LenProperties DEF IInv, Typed
<1>1. /\ s \in Fellows /\ s.ip = post[r].ip /\ post[r].ip \in had[post[r].from]
      /\ post[r].from \in DOMAIN mac /\ s.mac = mac[post[r].from]
  BY SenderIs DEF IInv
<1> HIDE DEF s
<1>2. n = Len(mFellows) /\ DOMAIN mFellows = 1..n
  BY LenProperties DEF IInv, Typed
<1>3. /\ mFellows' \in Seq(Fellows) /\ Len(mFellows') = n + 1 /\ DOMAIN mFellows' = 1..(n + 1)
      /\ \A i \in 1..n : mFellows'[i] = mFellows[i]
      /\ mFellows'[n + 1] = s
  <2>1. mFellows \in Seq(Fellows) /\ mFellows' = Append(mFellows, s)
    BY DEF IInv, Typed, Add, s
  <2>2. QED BY <1>1, <1>2, <2>1, AppendProperties
<1>4. /\ at' = [at EXCEPT ![r] = n + 1] /\ pc' = [pc EXCEPT ![r] = "post"] /\ pc[r] = "add"
      /\ UNCHANGED <<mac, had, live, post, events, queued, users, ui, restarts>>
  BY DEF Add, network
<1>5. Typed'
  <2>1. events' \in Seq(1..Len(mFellows'))
    BY <1>2, <1>3, <1>4, SeqMonotonic DEF IInv, Typed
  <2>2. QED BY <1>2, <1>3, <1>4, <2>1 DEF IInv, Typed, Posts
<1>6. Alone'
  BY <1>4 DEF IInv, Typed, Alone
<1>7. OneFellowPerAddress'
  BY <1>1, <1>2, <1>3, <1>4 DEF IInv, Sought, OneFellowPerAddress
<1>8. Sought'
  <2>1. r \in live
    BY <1>4 DEF IInv, Alone
  <2>2. restarts = 0 => \A t \in Receivers : t # r => pc[t] = "recv"
    BY <2>1 DEF IInv, Alone
  <2>3. \A t \in Receivers : pc'[t] = IF t = r THEN "post" ELSE pc[t]
    BY <1>4 DEF IInv, Typed
  <2>4. restarts = 0 => \A t \in Receivers : pc'[t] # "add"
    BY <2>2, <2>3
  <2>5. QED BY <1>4, <2>4 DEF Sought
<1>9. Owned'
  <2> SUFFICES ASSUME AllDiffer
               PROVE /\ \A i \in 1..(n + 1) : ItsOwn(mFellows'[i])
                     /\ \A t \in Receivers : pc'[t] \in {"update", "post", "answer"} =>
                                               mFellows'[at'[t]].ip \in had[post[t].from]
    BY <1>3, <1>4 DEF Owned, ItsOwn, AllDiffer
  <2>1. \A i \in 1..(n + 1) : ItsOwn(mFellows'[i])
    <3>1. ItsOwn(s)
      BY <1>1 DEF ItsOwn, AllDiffer
    <3>2. \A i \in 1..n : ItsOwn(mFellows[i])
      BY <1>2 DEF IInv, Owned
    <3>3. ASSUME NEW i \in 1..(n + 1)
          PROVE  mFellows'[i] = s \/ (i \in 1..n /\ mFellows'[i] = mFellows[i])
      BY <1>3
    <3>4. QED BY <3>1, <3>2, <3>3
  <2>2. ASSUME NEW t \in Receivers, pc'[t] \in {"update", "post", "answer"}
        PROVE mFellows'[at'[t]].ip \in had[post[t].from]
    <3>1. CASE t = r
      BY <1>1, <1>3, <1>4, <3>1 DEF IInv, Typed
    <3>2. CASE t # r
      <4>1. pc[t] \in {"update", "post", "answer"} /\ at'[t] = at[t]
        BY <1>4, <2>2, <3>2 DEF IInv, Typed
      <4>2. at[t] \in 1..n /\ mFellows[at[t]].ip \in had[post[t].from]
        BY <1>2, <4>1 DEF IInv, Typed, Owned
      <4>3. QED BY <1>3, <4>1, <4>2
    <3>3. QED BY <3>1, <3>2
  <2>3. QED BY <2>1, <2>2
<1>10. Told'
  <2> SUFFICES ASSUME restarts = 0
               PROVE /\ \A i \in 1..(n + 1) : Pending(i)' \/ LastWord(mFellows[i])'
                     /\ \A ip \in DOMAIN users : Known(ip)'
                     /\ \A k \in DOMAIN queued : Known(queued[k].ip)'
    BY <1>3, <1>4 DEF Told
  <2>1. \A ip : Known(ip) => Known(ip)'
    BY <1>2, <1>3 DEF Known
  <2>2. Pending(n + 1)'
    BY <1>4 DEF IInv, Typed, Pending
  <2>3. ASSUME NEW i \in 1..n PROVE Pending(i)' \/ LastWord(mFellows[i])'
    <3>1. Pending(i) => Pending(i)'
      BY <1>4 DEF IInv, Typed, Pending
    <3>2. LastWord(mFellows[i]) => LastWord(mFellows[i])'
      BY <1>3, <1>4 DEF LastWord, ShownAs
    <3>3. QED BY <1>2, <3>1, <3>2 DEF IInv, Told
  <2>4. QED BY <1>2, <1>4, <2>1, <2>2, <2>3 DEF IInv, Told
<1>11. QED BY <1>5, <1>6, <1>7, <1>8, <1>9, <1>10 DEF IInv

LEMMA UpdateStep == ASSUME IInv, NEW r \in Receivers, Update(r) PROVE IInv'
<1> DEFINE s == SenderOf(post[r])
           a == at[r]
           u == Updated(mFellows[a], s)
<1>1. a \in 1..Len(mFellows) /\ pc[r] = "update"
  BY DEF IInv, Typed, Update
<1>2. Len(mFellows) \in Nat /\ DOMAIN mFellows = 1..Len(mFellows) /\ mFellows[a] \in Fellows
  BY <1>1, LenProperties, ElementOfSeq DEF IInv, Typed
<1>3. /\ s \in Fellows /\ post[r].from \in DOMAIN mac /\ s.mac = mac[post[r].from]
  BY SenderIs DEF IInv
<1>4. /\ u \in Fellows /\ u.ip = mFellows[a].ip
      /\ u.mac = IF s.mac # NoMac THEN s.mac ELSE mFellows[a].mac
  BY <1>2, <1>3, UpdatedIs
<1>5. /\ mFellows' = [mFellows EXCEPT ![a] = u]
      /\ UNCHANGED <<mac, had, live, events, queued, users, ui, restarts>>
      /\ \/ u # mFellows[a] /\ pc' = [pc EXCEPT ![r] = "post"] /\ UNCHANGED <<post, at>>
         \/ u = mFellows[a] /\ pc' = [pc EXCEPT ![r] = "answer"] /\ UNCHANGED <<post, at>>
         \/ u = mFellows[a] /\ Handled(r)
  BY DEF Update, Entered, network
<1> HIDE DEF s, u
<1>6. /\ mFellows' \in Seq(Fellows) /\ Len(mFellows') = Len(mFellows)
      /\ DOMAIN mFellows' = DOMAIN mFellows
      /\ \A i \in DOMAIN mFellows : mFellows'[i] = IF i = a THEN u ELSE mFellows[i]
  BY <1>1, <1>2, <1>4, <1>5, ExceptSeq DEF IInv, Typed
<1>7. \A i \in DOMAIN mFellows : mFellows'[i].ip = mFellows[i].ip
  BY <1>4, <1>6
<1>8. Typed'
  <2>1. /\ pc' \in [Receivers -> {"recv", "look", "add", "update", "post", "answer"}]
        /\ post' \in [Receivers -> Posts]
        /\ \A t \in Receivers : post'[t].ip \in had[post'[t].from]
        /\ at' \in [Receivers -> Nat]
    BY <1>5, ThreadTypes DEF IInv
  <2>2. \A t \in Receivers : pc'[t] \in {"update", "post", "answer"} => at'[t] \in 1..Len(mFellows)
    BY <1>1, <1>5 DEF IInv, Typed, Handled
  <2>3. QED BY <1>5, <1>6, <2>1, <2>2 DEF IInv, Typed, Posts
<1>9. Alone'
  <2>1. \A t \in Receivers : pc[t] = "recv" => pc'[t] = "recv"
    BY <1>1, <1>5 DEF IInv, Typed, Handled
  <2>2. QED BY <1>5, <2>1 DEF IInv, Alone
<1>10. OneFellowPerAddress'
  BY <1>5, <1>6, <1>7 DEF IInv, OneFellowPerAddress
<1>11. Sought'
  <2>1. \A t \in Receivers : pc'[t] = "add" => pc[t] = "add" /\ post'[t] = post[t]
    BY <1>5 DEF IInv, Typed, Handled
  <2>2. QED BY <1>5, <1>6, <1>7, <2>1 DEF IInv, Sought
<1>12. Owned'
  <2> SUFFICES ASSUME AllDiffer
               PROVE /\ \A i \in DOMAIN mFellows : ItsOwn(mFellows'[i])
                     /\ \A t \in Receivers : pc'[t] \in {"update", "post", "answer"} =>
                                               mFellows'[at'[t]].ip \in had[post'[t].from]
    BY <1>5, <1>6 DEF Owned, ItsOwn, AllDiffer
  <2>1. mFellows[a].ip \in had[post[r].from] /\ ItsOwn(mFellows[a])
    BY <1>1, <1>2 DEF IInv, Owned
  <2>2. \A i \in DOMAIN mFellows : ItsOwn(mFellows'[i])
    <3>1. ItsOwn(u)
      BY <1>3, <1>4, <2>1 DEF ItsOwn, AllDiffer
    <3>2. QED BY <1>6, <3>1 DEF IInv, Owned
  <2>3. \A t \in Receivers : pc'[t] \in {"update", "post", "answer"} =>
          /\ pc[t] \in {"update", "post", "answer"} /\ at'[t] = at[t] /\ post'[t] = post[t]
    BY <1>1, <1>5 DEF IInv, Typed, Handled
  <2>4. QED BY <1>2, <1>7, <2>2, <2>3 DEF IInv, Typed, Owned
<1>13. Told'
  <2> SUFFICES ASSUME restarts = 0
               PROVE /\ \A i \in DOMAIN mFellows : Pending(i)' \/ LastWord(mFellows[i])'
                     /\ \A ip \in DOMAIN users : Known(ip)'
                     /\ \A k \in DOMAIN queued : Known(queued[k].ip)'
    BY <1>5, <1>6 DEF Told
  <2>1. \A ip : Known(ip) => Known(ip)'
    BY <1>6, <1>7 DEF Known
  <2>2. \A i \in DOMAIN mFellows : Pending(i) => Pending(i)'
    BY <1>1, <1>5 DEF IInv, Typed, Pending, Handled
  <2>3. ASSUME NEW i \in DOMAIN mFellows, mFellows'[i] # mFellows[i] PROVE Pending(i)'
    BY <1>1, <1>5, <1>6, <2>3 DEF IInv, Typed, Pending
  <2>4. ASSUME NEW i \in DOMAIN mFellows, mFellows'[i] = mFellows[i], LastWord(mFellows[i])
        PROVE LastWord(mFellows[i])'
    BY <1>5, <2>4 DEF LastWord, ShownAs
  <2>5. QED BY <1>5, <2>1, <2>2, <2>3, <2>4 DEF IInv, Told
<1>14. QED BY <1>8, <1>9, <1>10, <1>11, <1>12, <1>13 DEF IInv

\* The change in hand goes to the queue.
LEMMA PostStep == ASSUME IInv, NEW r \in Receivers, PostEvent(r) PROVE IInv'
<1>. PICK n \in Nat : n = Len(events)
  BY LenProperties DEF IInv, Typed
<1>1. at[r] \in 1..Len(mFellows) /\ pc[r] = "post"
  BY DEF IInv, Typed, PostEvent
<1>2. /\ events' \in Seq(1..Len(mFellows)) /\ DOMAIN events' = 1..(n + 1) /\ DOMAIN events = 1..n
      /\ \A k \in 1..n : events'[k] = events[k]
      /\ events'[n + 1] = at[r]
  <2>1. events \in Seq(1..Len(mFellows)) /\ events' = Append(events, at[r])
    BY DEF IInv, Typed, PostEvent, Posted
  <2>2. QED BY <1>1, <2>1, AppendProperties, LenProperties
<1>3. /\ UNCHANGED <<mac, had, mFellows, live, queued, users, ui, restarts>>
      /\ \/ pc' = [pc EXCEPT ![r] = "answer"] /\ UNCHANGED <<post, at>>
         \/ Handled(r)
  BY DEF PostEvent, Entered, network
<1>4. Typed'
  <2>1. /\ pc' \in [Receivers -> {"recv", "look", "add", "update", "post", "answer"}]
        /\ post' \in [Receivers -> Posts]
        /\ \A t \in Receivers : post'[t].ip \in had[post'[t].from]
        /\ at' \in [Receivers -> Nat]
    BY <1>3, ThreadTypes DEF IInv
  <2>2. \A t \in Receivers : pc'[t] \in {"update", "post", "answer"} => at'[t] \in 1..Len(mFellows)
    BY <1>1, <1>3 DEF IInv, Typed, Handled
  <2>3. QED BY <1>2, <1>3, <2>1, <2>2 DEF IInv, Typed, Posts
<1>5. Alone'
  <2>1. \A t \in Receivers : pc[t] = "recv" => pc'[t] = "recv"
    BY <1>1, <1>3 DEF IInv, Typed, Handled
  <2>2. QED BY <1>3, <2>1 DEF IInv, Alone
<1>6. OneFellowPerAddress' /\ Sought'
  <2>1. \A t \in Receivers : pc'[t] = "add" => pc[t] = "add" /\ post'[t] = post[t]
    BY <1>3 DEF IInv, Typed, Handled
  <2>2. QED BY <1>3, <2>1 DEF IInv, OneFellowPerAddress, Sought
<1>7. Owned'
  <2>1. \A t \in Receivers : pc'[t] \in {"update", "post", "answer"} =>
          /\ pc[t] \in {"update", "post", "answer"} /\ at'[t] = at[t] /\ post'[t] = post[t]
    BY <1>1, <1>3 DEF IInv, Typed, Handled
  <2>2. QED BY <1>3, <2>1 DEF IInv, Owned, ItsOwn, AllDiffer
<1>8. Told'
  <2>1. ASSUME NEW i \in DOMAIN mFellows, Pending(i) PROVE Pending(i)'
    <3>1. CASE i = at[r]
      BY <1>2, <3>1 DEF Pending
    <3>2. CASE i # at[r]
      <4>1. \A t \in Receivers : pc[t] = "post" /\ at[t] = i => pc'[t] = "post" /\ at'[t] = i
        BY <1>3, <3>2 DEF IInv, Typed, Handled
      <4>2. \A k \in DOMAIN events : k \in DOMAIN events' /\ events'[k] = events[k]
        BY <1>2
      <4>3. QED BY <2>1, <4>1, <4>2 DEF Pending
    <3>3. QED BY <3>1, <3>2
  <2>2. QED BY <1>3, <2>1, ToldStays DEF IInv
<1>9. QED BY <1>4, <1>5, <1>6, <1>7, <1>8 DEF IInv

\* The queue thread takes the first change and passes on what the fellow is now.
LEMMA DispatchStep == ASSUME IInv, Dispatch PROVE IInv'
<1>. PICK n \in Nat : n = Len(queued)
  BY LenProperties DEF IInv, Typed
<1>. PICK h \in 1..Len(mFellows) : h = Head(events)
  BY EmptySeq, HeadTailProperties DEF IInv, Typed, Dispatch
<1>1. /\ mFellows \in Seq(Fellows) /\ queued \in Seq(Fellows) /\ events \in Seq(1..Len(mFellows))
      /\ events # <<>>
      /\ queued' = Append(queued, mFellows[h]) /\ events' = Tail(events)
      /\ UNCHANGED <<mac, had, mFellows, live, pc, post, at, users, ui, restarts>>
  BY DEF IInv, Typed, Dispatch, recvVars, network
<1>2. DOMAIN mFellows = 1..Len(mFellows) /\ mFellows[h] \in Fellows
  BY <1>1, LenProperties, ElementOfSeq
<1>3. /\ queued' \in Seq(Fellows) /\ DOMAIN queued' = 1..(n + 1) /\ DOMAIN queued = 1..n
      /\ \A k \in 1..n : queued'[k] = queued[k]
      /\ queued'[n + 1] = mFellows[h]
  BY <1>1, <1>2, AppendProperties, LenProperties
<1>4. /\ events' \in Seq(1..Len(mFellows))
      /\ \A k \in DOMAIN events : events[k] = h \/ \E l \in DOMAIN events' : events'[l] = events[k]
  <2>1. /\ Len(events) \in Nat \ {0} /\ DOMAIN events = 1..Len(events)
        /\ events[1] = h
    BY <1>1, EmptySeq, LenProperties, HeadTailProperties
  <2>2. /\ events' \in Seq(1..Len(mFellows)) /\ Len(events') = Len(events) - 1
        /\ \A k \in 1..Len(events') : events'[k] = events[k + 1]
    BY <1>1, HeadTailProperties
  <2>3. DOMAIN events' = 1..Len(events')
    BY <2>2, LenProperties
  <2>4. ASSUME NEW k \in DOMAIN events, k # 1 PROVE \E l \in DOMAIN events' : events'[l] = events[k]
    <3>1. k - 1 \in DOMAIN events' /\ events'[k - 1] = events[k]
      BY <2>1, <2>2, <2>3, <2>4
    <3>2. QED BY <3>1
  <2>5. QED BY <2>1, <2>2, <2>4
<1>5. Typed'
  BY <1>1, <1>3, <1>4 DEF IInv, Typed, Posts
<1>6. Alone' /\ OneFellowPerAddress' /\ Sought' /\ Owned'
  BY <1>1 DEF IInv, Alone, OneFellowPerAddress, Sought, Owned, ItsOwn, AllDiffer
<1>7. Told'
  <2> SUFFICES ASSUME restarts = 0
               PROVE /\ \A i \in DOMAIN mFellows : Pending(i)' \/ LastWord(mFellows[i])'
                     /\ \A ip \in DOMAIN users : Known(ip)'
                     /\ \A k \in 1..(n + 1) : Known(queued[k].ip)'
    BY <1>1, <1>3 DEF Told
  <2>1. \A ip : Known(ip) => Known(ip)'
    BY <1>1 DEF Known
  <2>2. \A k \in 1..(n + 1) : Known(queued'[k].ip)
    <3>1. \A k \in DOMAIN queued : Known(queued[k].ip)
      BY DEF IInv, Told
    <3>2. Known(mFellows[h].ip)
      BY <1>2 DEF Known
    <3>3. ASSUME NEW k \in 1..(n + 1)
          PROVE \/ queued'[k] = mFellows[h]
                \/ k \in DOMAIN queued /\ queued'[k] = queued[k]
      BY <1>3
    <3>4. QED BY <3>1, <3>2, <3>3
  <2>3. LastWord(mFellows[h])'
    <3>1. /\ n + 1 \in DOMAIN queued' /\ queued'[n + 1] = mFellows'[h]
          /\ \A l \in DOMAIN queued' : ~ (l > n + 1)
      BY <1>1, <1>3
    <3>2. QED BY <3>1 DEF LastWord
  <2>4. ASSUME NEW i \in DOMAIN mFellows, i # h PROVE Pending(i)' \/ LastWord(mFellows[i])'
    <3>1. Pending(i) => Pending(i)'
      BY <1>1, <1>4, <2>4 DEF Pending
    <3>2. mFellows[h].ip # mFellows[i].ip
      BY <1>2, <2>4 DEF IInv, OneFellowPerAddress
    <3>3. ASSUME NEW k \in DOMAIN queued, queued[k] = mFellows[i],
                 \A l \in DOMAIN queued : l > k => queued[l].ip # mFellows[i].ip
          PROVE LastWord(mFellows[i])'
      <4>1. /\ k \in DOMAIN queued' /\ queued'[k] = mFellows'[i]
            /\ \A l \in DOMAIN queued' : l > k => queued'[l].ip # mFellows'[i].ip
        BY <1>1, <1>3, <3>2, <3>3
      <4>2. QED BY <4>1 DEF LastWord
    <3>4. ASSUME \A l \in DOMAIN queued : queued[l].ip # mFellows[i].ip, ShownAs(mFellows[i])
          PROVE LastWord(mFellows[i])'
      <4>1. \A l \in DOMAIN queued' : queued'[l].ip # mFellows'[i].ip
        BY <1>1, <1>3, <3>2, <3>4
      <4>2. ShownAs(mFellows[i])'
        BY <1>1, <3>4 DEF ShownAs
      <4>3. QED BY <4>1, <4>2 DEF LastWord
    <3>5. QED BY <3>1, <3>3, <3>4 DEF IInv, Told, LastWord
  <2>5. QED BY <1>1, <2>1, <2>2, <2>3, <2>4 DEF IInv, Told
<1>8. QED BY <1>5, <1>6, <1>7 DEF IInv

\* The window lists the first change of Qt's queue.
LEMMA HandleStep == ASSUME IInv, HandleFellowUpdated PROVE IInv'
<1>. PICK h \in Fellows : h = Head(queued)
  BY HeadTailProperties DEF IInv, Typed, HandleFellowUpdated
<1>. PICK n \in Nat \ {0} : n = Len(queued)
  BY EmptySeq DEF IInv, Typed, HandleFellowUpdated
<1>1. /\ queued \in Seq(Fellows) /\ queued # <<>>
      /\ queued' = Tail(queued) /\ users' = Listed(h)
      /\ UNCHANGED <<mac, had, mFellows, live, pc, post, at, events, ui, restarts>>
  BY DEF IInv, Typed, HandleFellowUpdated, recvVars, network
<1>2. /\ DOMAIN queued = 1..n /\ queued[1] = h
  BY <1>1, LenProperties, HeadTailProperties
<1>3. /\ queued' \in Seq(Fellows) /\ DOMAIN queued' = 1..(n - 1)
      /\ \A k \in 1..(n - 1) : queued'[k] = queued[k + 1]
  <2>1. queued' \in Seq(Fellows) /\ Len(queued') = n - 1
        /\ \A k \in 1..(n - 1) : queued'[k] = queued[k + 1]
    BY <1>1, HeadTailProperties
  <2>2. QED BY <2>1, LenProperties
<1>4. /\ ShownAs(h)'
      /\ \A ip : ip # h.ip => /\ ip \in DOMAIN users' <=> ip \in DOMAIN users
                              /\ ip \in DOMAIN users => users'[ip] = users[ip]
      /\ DOMAIN users' \subseteq DOMAIN users \cup {h.ip}
  BY <1>1 DEF Listed, With, Without, ShownAs
<1>5. Typed'
  BY <1>1, <1>3 DEF IInv, Typed, Posts
<1>6. Alone' /\ OneFellowPerAddress' /\ Sought' /\ Owned'
  BY <1>1 DEF IInv, Alone, OneFellowPerAddress, Sought, Owned, ItsOwn, AllDiffer
<1>7. Told'
  <2> SUFFICES ASSUME restarts = 0
               PROVE /\ \A i \in DOMAIN mFellows : Pending(i)' \/ LastWord(mFellows[i])'
                     /\ \A ip \in DOMAIN users' : Known(ip)
                     /\ \A k \in 1..(n - 1) : Known(queued'[k].ip)
    BY <1>1, <1>3 DEF Told, Known
  <2>1. \A k \in 1..n : Known(queued[k].ip)
    BY <1>2 DEF IInv, Told
  <2>2. \A ip \in DOMAIN users' : Known(ip)
    BY <1>2, <1>4, <2>1 DEF IInv, Told
  <2>3. \A k \in 1..(n - 1) : Known(queued'[k].ip)
    BY <1>3, <2>1
  <2>4. ASSUME NEW i \in DOMAIN mFellows, LastWord(mFellows[i]) PROVE LastWord(mFellows[i])'
    <3> DEFINE f == mFellows[i]
    <3>1. ASSUME f = h, \A l \in 1..n : l > 1 => queued[l].ip # f.ip
          PROVE LastWord(mFellows[i])'
      <4>1. \A l \in DOMAIN queued' : queued'[l].ip # mFellows'[i].ip
        BY <1>1, <1>3, <3>1
      <4>2. ShownAs(mFellows[i])'
        BY <1>1, <1>4, <3>1 DEF ShownAs
      <4>3. QED BY <4>1, <4>2 DEF LastWord
    <3>2. ASSUME NEW k \in 1..n, k # 1, queued[k] = f,
                 \A l \in 1..n : l > k => queued[l].ip # f.ip
          PROVE LastWord(mFellows[i])'
      <4>1. /\ k - 1 \in DOMAIN queued' /\ queued'[k - 1] = mFellows'[i]
            /\ \A l \in DOMAIN queued' : l > k - 1 => queued'[l].ip # mFellows'[i].ip
        BY <1>1, <1>3, <3>2
      <4>2. QED BY <4>1 DEF LastWord
    <3>3. ASSUME \A l \in 1..n : queued[l].ip # f.ip, ShownAs(f)
          PROVE LastWord(mFellows[i])'
      <4>1. \A l \in DOMAIN queued' : queued'[l].ip # mFellows'[i].ip
        BY <1>1, <1>3, <3>3
      <4>2. h.ip # f.ip
        BY <1>2, <3>3
      <4>3. ShownAs(mFellows[i])'
        BY <1>1, <1>4, <3>3, <4>2 DEF ShownAs
      <4>4. QED BY <4>1, <4>3 DEF LastWord
    <3>4. QED BY <1>2, <2>4, <3>1, <3>2, <3>3 DEF LastWord
  <2>5. \A i \in DOMAIN mFellows : Pending(i) => Pending(i)'
    BY <1>1 DEF Pending
  <2>6. QED BY <2>2, <2>3, <2>4, <2>5 DEF IInv, Told
<1>8. QED BY <1>5, <1>6, <1>7 DEF IInv
-----------------------------------------------------------------------------
LEMMA InitIInv == Init => IInv
<1> SUFFICES ASSUME Init PROVE IInv
  OBVIOUS
<1>1. Len(<<>>) = 0 /\ DOMAIN mFellows = {} /\ DOMAIN queued = {} /\ DOMAIN users = {}
  BY DEF Init
<1>2. \A S : <<>> \in Seq(S)
  BY EmptySeq
<1>3. NoPost \in Posts /\ NoPost.ip \in had[NoPost.from] /\ \A m \in Machines : Home[m] \in had[m]
  BY PresenceAssumption DEF Init, NoPost, Posts
<1>4. Typed
  BY <1>1, <1>2, <1>3, PresenceAssumption DEF Init, Typed
<1>5. Alone /\ OneFellowPerAddress /\ Sought /\ Owned
  BY <1>1 DEF Init, Alone, OneFellowPerAddress, Sought, Owned
<1>6. Told
  BY <1>1 DEF Init, Told
<1>7. QED BY <1>4, <1>5, <1>6 DEF IInv

LEMMA NextIInv == IInv /\ [Next]_vars => IInv'
<1> SUFFICES ASSUME IInv, [Next]_vars PROVE IInv'
  OBVIOUS
<1>1. ASSUME NEW r \in Receivers, NEW m \in Machines, NEW ip \in Addresses, NEW kind \in Kinds,
             Receive(r, m, ip, kind)
      PROVE IInv'
  BY <1>1, ReceiveStep
<1>2. ASSUME NEW r \in Receivers, Handling(r) \/ EndReceiver(r) PROVE IInv'
  BY <1>2, LookStep, AddStep, UpdateStep, PostStep, AnswerStep, EndStep DEF Handling
<1>3. ASSUME Dispatch \/ HandleFellowUpdated \/ SettingsStop \/ SettingsStart \/ SettingsClear
      PROVE IInv'
  BY <1>3, DispatchStep, HandleStep, SettingsStep
<1>4. ASSUME NEW m \in Machines, NEW ip \in Addresses, Move(m, ip) PROVE IInv'
  BY <1>4, MoveStep
<1>5. CASE UNCHANGED vars
  <2>1. UNCHANGED <<mac, had, mFellows, live, pc, post, at, events, queued, users, ui, restarts>>
    BY <1>5 DEF vars, recvVars, network
  <2>2. Typed' /\ Alone' /\ OneFellowPerAddress' /\ Sought' /\ Owned'
    BY <2>1 DEF IInv, Typed, Posts, Alone, OneFellowPerAddress, Sought, Owned, ItsOwn, AllDiffer
  <2>3. Told'
    BY <2>1, ToldStays DEF IInv, Pending
  <2>4. QED BY <2>2, <2>3 DEF IInv
<1>6. QED BY <1>1, <1>2, <1>3, <1>4, <1>5 DEF Next

LEMMA Inductive == Spec => []IInv
  BY InitIInv, NextIInv, PTL DEF Spec

(* Until the settings are changed an address is entered once, whoever shares a MAC
   with whom: the look at the list and the addition are made under two locks
   (feiqmodel.cpp:9-21), but nobody adds in between. *)
THEOREM EnteredOnce == Spec => []OneFellowPerAddress
<1>1. IInv => OneFellowPerAddress
  BY DEF IInv
<1>2. QED BY <1>1, Inductive, PTL

(* When no change is on its way the user list shows what the engine knows
   (MainWindow.cpp:230-247), although every signal carries the fellow as it was when
   the queue thread came to it, and not as it was when the change was made. *)
THEOREM ListAgrees == Spec => []ListIsTheModel
<1>1. IInv => ListIsTheModel
  <2> SUFFICES ASSUME IInv, restarts = 0, events = <<>>, queued = <<>>,
                      \A r \in Receivers : pc[r] # "post"
               PROVE /\ DOMAIN users = {ip \in Addresses : Online(ip)}
                     /\ \A i \in DOMAIN mFellows : mFellows[i].online = "yes" =>
                          users[mFellows[i].ip] = mFellows[i].name
    BY DEF ListIsTheModel
  <2>1. \A i \in DOMAIN mFellows : ShownAs(mFellows[i]) /\ mFellows[i].ip \in Addresses
    <3>1. \A i \in DOMAIN mFellows : ~Pending(i)
      BY DEF Pending
    <3>2. \A i \in DOMAIN mFellows : LastWord(mFellows[i]) => ShownAs(mFellows[i])
      BY DEF LastWord
    <3>3. \A i \in DOMAIN mFellows : mFellows[i] \in Fellows
      BY LenProperties, ElementOfSeq DEF IInv, Typed
    <3>4. QED BY <3>1, <3>2, <3>3 DEF IInv, Told, Fellows
  <2>2. ASSUME NEW ip \in DOMAIN users PROVE ip \in Addresses /\ Online(ip)
    <3>1. PICK i \in DOMAIN mFellows : mFellows[i].ip = ip
      BY DEF IInv, Told, Known
    <3>2. QED BY <2>1, <2>2, <3>1 DEF ShownAs, Online
  <2>3. ASSUME NEW ip \in Addresses, Online(ip) PROVE ip \in DOMAIN users
    BY <2>1, <2>3 DEF Online, ShownAs
  <2>4. QED BY <2>1, <2>2, <2>3 DEF ShownAs
<1>2. QED BY <1>1, Inductive, PTL

(* Where MACs tell machines apart, an announcement is answered to the machine that made it,
   at an address that it has or had, though the reply goes to the address in the list
   (feiqengine.cpp:734-738), which is never brought up to date (fellow.h:47-67), fellows
   are found by address or MAC, and one machine may have got the address of another. *)
THEOREM AnswersTheAsker == Spec => []AnswerReachesAsker
<1>1. IInv => AnswerReachesAsker
  BY DEF IInv, Owned, AllDiffer, AnswerReachesAsker, ReplyTo
<1>2. QED BY <1>1, Inductive, PTL
=============================================================================
