------------------------------ MODULE Presence ------------------------------
(***************************************************************************)
(* Who is online.  Every machine announces itself (BR_ENTRY), answers the  *)
(* announcements of others (ANSENTRY), sends texts and says goodbye        *)
(* (BR_EXIT).  FeiqCommu::onRecv turns a datagram into a Post              *)
(* (feiqcommu.cpp:116-155), the protocols enter its sender into the list   *)
(* of fellows (addOrUpdateFellow, feiqengine.cpp:902-928), changes travel  *)
(* through the event queue (EventChannel) and Qt's queue to the user list  *)
(* of the main window (FeiqBackend.cpp:369-375, MainWindow.cpp:230-247).   *)
(*                                                                         *)
(* UDP loses, repeats and reorders, machines come and go and get other     *)
(* addresses: any datagram of any machine may arrive at any time, from any *)
(* address it has had.  A machine's name is the machine.                   *)
(***************************************************************************)
EXTENDS Naturals, Sequences, SequencesExt

CONSTANTS Machines, Addresses,
          Home,         \* the first address of each machine
          Own,          \* this one: its broadcasts come back to it
          Networks,     \* which machines there are, and what getBoundMac says on each
          WithColon,    \* those of them on which the own name holds the separator ":"
          Receivers,    \* receiving threads: more than one after a quick restart
          MaxPending,   \* bound: changes on their way to the user interface
          MaxRestarts,  \* bound: how often the settings are changed, on each network
          MaxMoves      \* bound: how often a machine gets an address, on each network

NoMac == ""             \* getBoundMac failed
ZeroMac == "000000000000"   \* the first interface has none, as the loopback has
NoName == "none"

ASSUME PresenceAssumption == /\ Own \in Machines /\ Receivers # {}
                             /\ \A n \in Networks : Own \in DOMAIN n /\ DOMAIN n \subseteq Machines
                             /\ Home \in [Machines -> Addresses] /\ WithColon \subseteq Networks
                             /\ MaxPending \in Nat /\ MaxRestarts \in [Networks -> Nat]
                             /\ MaxMoves \in [Networks -> Nat]

Valid(m) == m \notin {NoMac, ZeroMac}
Kinds == {"entry", "answer", "exit", "text"}

VARIABLES mac,          \* of each machine there is, a member of Networks
          had,          \* the addresses each machine has had
          moves,        \* how often a machine got another address
          mFellows,     \* FeiqModel::mFellows
          live,         \* the receiving threads there are
          pc,           \* where each stands: "recv", "look", "add", "update", "post", "answer"
          post,         \* Post::from, with the kind of the datagram
          at,           \* the fellow it stands for, an index into mFellows
          events,       \* the event queue: indices of changed fellows
          queued,       \* fellowUpdated signals queued to the user-interface thread
          users,        \* MainWindow::m_users: a partial function from addresses
          ui,           \* the user-interface thread: "loop", "stopped", "started"
          restarts      \* how often the settings were changed

recvVars == <<mFellows, live, pc, post, at>>
network == <<mac, had, moves>>
vars == <<network, recvVars, events, queued, users, ui, restarts>>

NoPost == [from |-> Own, ip |-> Home[Own], kind |-> "none"]

Init == /\ mac \in Networks
        /\ had = [m \in Machines |-> {Home[m]}] /\ moves = 0
        /\ mFellows = <<>> /\ events = <<>> /\ queued = <<>> /\ users = <<>>
        /\ \E r \in Receivers : live = {r}
        /\ pc = [r \in Receivers |-> "recv"] /\ post = [r \in Receivers |-> NoPost]
        /\ at = [r \in Receivers |-> 0]
        /\ ui = "loop" /\ restarts = 0
-----------------------------------------------------------------------------
(* A machine gets another address, which may be one that another machine has had. *)
Move(m, ip) == /\ moves < MaxMoves[mac]
               /\ m \in DOMAIN mac
               /\ ip \notin had[m]
               /\ had' = [had EXCEPT ![m] = had[m] \cup {ip}]
               /\ moves' = moves + 1
               /\ UNCHANGED <<mac, recvVars, events, queued, users, ui, restarts>>

(* Receiving.  Own packets are dropped, by MAC and name; without a valid MAC none is,
   nor with a name that holds the separator: mName is the escaped one, the name in the
   packet has been read back (feiqcommu.cpp:127-142, 239). *)

IsSelf(m) == m = Own /\ Valid(mac[m]) /\ mac \notin WithColon

Receive(r, m, ip, kind) ==
  /\ r \in live
  /\ pc[r] = "recv"
  /\ Len(events) + Len(queued) < MaxPending
  /\ m \in DOMAIN mac
  /\ ip \in had[m]
  /\ ~IsSelf(m)
  /\ post' = [post EXCEPT ![r] = [from |-> m, ip |-> ip, kind |-> kind]]
  /\ pc' = [pc EXCEPT ![r] = "look"]
  /\ UNCHANGED <<network, mFellows, live, at, events, queued, users, ui, restarts>>

\* The Fellow of a datagram: names come with the announcements only; online,
\* unless it says goodbye.
SenderOf(p) == [ip     |-> p.ip, mac |-> mac[p.from],
                name   |-> IF p.kind \in {"entry", "answer"} THEN p.from ELSE NoName,
                online |-> IF p.kind = "exit" THEN "no" ELSE "yes"]

\* Fellow::isSame (fellow.h:74-77): one address, or one MAC that is not empty.
ByMacOnly(f, g) == f.mac # NoMac /\ f.mac = g.mac   \* slip: the address is not compared
AnyMac(f, g) == f.ip = g.ip \/ f.mac # NoMac        \* slip: = for ==
SameFellow(f, g) == f.ip = g.ip \/ (f.mac # NoMac /\ f.mac = g.mac)

\* getFullInfoOf (feiqmodel.cpp:15-21): the first that is the same, 0 for none.
Find(f) == SelectInSeq(mFellows, LAMBDA g : SameFellow(f, g))
AfterLook(i) == IF i = 0 THEN "add" ELSE "update"
Look(r) == /\ pc[r] = "look"
           /\ at' = [at EXCEPT ![r] = Find(SenderOf(post[r]))]
           /\ pc' = [pc EXCEPT ![r] = AfterLook(at'[r])]
           /\ UNCHANGED <<network, mFellows, live, post, events, queued, users, ui, restarts>>

\* addFellow (feiqmodel.cpp:9-13), under a lock of its own.
Add(r) == /\ pc[r] = "add"
          /\ mFellows' = Append(mFellows, SenderOf(post[r]))
          /\ at' = [at EXCEPT ![r] = Len(mFellows) + 1]
          /\ pc' = [pc EXCEPT ![r] = "post"]
          /\ UNCHANGED <<network, live, post, events, queued, users, ui, restarts>>

\* Back from addOrUpdateFellow (447-448): only an announcement is answered.
Handled(r) == /\ pc' = [pc EXCEPT ![r] = "recv"]
              /\ post' = [post EXCEPT ![r] = NoPost]
              /\ at' = [at EXCEPT ![r] = 0]
Entered(r) == IF post[r].kind = "entry"
              THEN pc' = [pc EXCEPT ![r] = "answer"] /\ UNCHANGED <<post, at>>
              ELSE Handled(r)

\* Fellow::update (fellow.h:47-67): never the address.
Updated(f, g) == [f EXCEPT !.name = IF g.name # NoName THEN g.name ELSE f.name,
                           !.mac  = IF g.mac # NoMac THEN g.mac ELSE f.mac,
                           !.online = g.online]
Update(r) == LET f == mFellows[at[r]]
                 u == Updated(f, SenderOf(post[r]))
             IN /\ pc[r] = "update"
                /\ mFellows' = [mFellows EXCEPT ![at[r]] = u]
                /\ IF u # f
                   THEN pc' = [pc EXCEPT ![r] = "post"] /\ UNCHANGED <<post, at>>
                   ELSE Entered(r)
                /\ UNCHANGED <<network, live, events, queued, users, ui, restarts>>

NotPosted(i) == events                              \* slip: no event is sent
Posted(i) == Append(events, i)
PostEvent(r) == /\ pc[r] = "post"
                /\ events' = Posted(at[r])
                /\ Entered(r)
                /\ UNCHANGED <<network, mFellows, live, queued, users, ui, restarts>>

\* onBrEntry (734-738) answers an announcement, to the address in the LIST.
ReplyTo(r) == mFellows[at[r]].ip
Answer(r) == /\ pc[r] = "answer"
             /\ Handled(r)
             /\ UNCHANGED <<network, mFellows, live, events, queued, users, ui, restarts>>

\* A receiving thread that finds the socket closed ends.
EndReceiver(r) == /\ r \in live
                  /\ ui = "stopped"
                  /\ pc[r] = "recv"
                  /\ live' = live \ {r}
                  /\ UNCHANGED <<network, mFellows, pc, post, at, events, queued, users, ui,
                                 restarts>>
-----------------------------------------------------------------------------
(* The queue thread: the event names the fellow, what it is now is passed on. *)
Dispatch == /\ ui # "stopped"
            /\ events # <<>>
            /\ queued' = Append(queued, mFellows[Head(events)])
            /\ events' = Tail(events)
            /\ UNCHANGED <<network, recvVars, users, ui, restarts>>
-----------------------------------------------------------------------------
(* The user-interface thread.  handleFellowUpdated (MainWindow.cpp:230-247). *)

Without(ip) == [i \in DOMAIN users \ {ip} |-> users[i]]
With(f) == [i \in DOMAIN users \cup {f.ip} |-> IF i = f.ip THEN f.name ELSE users[i]]
Listed(f) == IF f.online = "yes" THEN With(f) ELSE Without(f.ip)
HandleFellowUpdated == /\ ui = "loop"
                       /\ queued # <<>>
                       /\ users' = Listed(Head(queued))
                       /\ queued' = Tail(queued)
                       /\ UNCHANGED <<network, recvVars, events, ui, restarts>>

\* onSettingsClicked (497-525): stop throws the queued events away, start makes a
\* receiving thread, and the list is cleared.
SettingsStop == /\ ui = "loop"
                /\ restarts < MaxRestarts[mac]
                /\ restarts' = restarts + 1
                /\ ui' = "stopped"
                /\ events' = <<>>
                /\ UNCHANGED <<network, recvVars, queued, users>>

SettingsStart == /\ ui = "stopped"
                 /\ ui' = "started"
                 /\ \E r \in Receivers \ live : live' = live \cup {r}
                 /\ UNCHANGED <<network, mFellows, pc, post, at, events, queued, users, restarts>>

SettingsClear == /\ ui = "started"
                 /\ ui' = "loop"
                 /\ users' = <<>>
                 /\ UNCHANGED <<network, recvVars, events, queued, restarts>>
-----------------------------------------------------------------------------
Handling(r) == Look(r) \/ Add(r) \/ Update(r) \/ PostEvent(r) \/ Answer(r)

Next == \/ \E m \in Machines, ip \in Addresses : Move(m, ip)
        \/ \E r \in Receivers :
             \/ \E m \in Machines, ip \in Addresses, kind \in Kinds : Receive(r, m, ip, kind)
             \/ Handling(r) \/ EndReceiver(r)
        \/ Dispatch \/ HandleFellowUpdated
        \/ SettingsStop \/ SettingsStart \/ SettingsClear

\* Threads run; nobody has to send anything or change the settings.
Fairness == /\ \A r \in Receivers : WF_vars(Handling(r))
            /\ WF_vars(Dispatch) /\ WF_vars(HandleFellowUpdated)
            /\ WF_vars(SettingsStart) /\ WF_vars(SettingsClear)

Spec == Init /\ [][Next]_vars

FairSpec == Spec /\ Fairness
-----------------------------------------------------------------------------
Fellows == [ip : Addresses, mac : UNION {{n[m] : m \in DOMAIN n} : n \in Networks},
            name : Machines \cup {NoName}, online : {"yes", "no"}]

TypeOK ==
  /\ mac \in Networks /\ had \in [Machines -> SUBSET Addresses] /\ moves \in 0..MaxMoves[mac]
  /\ mFellows \in Seq(Fellows) /\ live \subseteq Receivers
  /\ pc \in [Receivers -> {"recv", "look", "add", "update", "post", "answer"}]
  /\ post \in [Receivers -> [from : Machines, ip : Addresses, kind : Kinds \cup {"none"}]]
  /\ at \in [Receivers -> 0..Len(mFellows)]
  /\ \A r \in Receivers : pc[r] \in {"update", "post", "answer"} => at[r] # 0
  /\ events \in Seq(1..Len(mFellows)) /\ queued \in Seq(Fellows)
  /\ DOMAIN users \subseteq Addresses
  /\ \A ip \in DOMAIN users : users[ip] \in Machines \cup {NoName}
  /\ ui \in {"loop", "stopped", "started"} /\ restarts \in 0..MaxRestarts[mac]

Online(ip) == \E i \in DOMAIN mFellows : mFellows[i].ip = ip /\ mFellows[i].online = "yes"

Offline(ip) == \E i \in DOMAIN mFellows : mFellows[i].ip = ip /\ mFellows[i].online = "no"

(* As long as one thread receives, which is until the settings are changed, an
   address is entered once. *)
OneFellowPerAddress ==
  restarts = 0 => \A i, j \in DOMAIN mFellows : mFellows[i].ip = mFellows[j].ip => i = j

(* Until the settings are changed: when no change is on its way, the list shows
   exactly the fellows that are online, under the names the engine has for them. *)
ListIsTheModel ==
  restarts = 0 /\ events = <<>> /\ queued = <<>> /\ (\A r \in Receivers : pc[r] # "post") =>
    /\ DOMAIN users = {ip \in Addresses : Online(ip)}
    /\ \A i \in DOMAIN mFellows : mFellows[i].online = "yes" =>
         users[mFellows[i].ip] = mFellows[i].name

(* Among machines of which no two show the same MAC, an announcement is answered to the
   machine that made it, in whatever order the machines appear: to the one address it
   has, or, once it has got another, to one that it has or had.  Which of them is chance:
   a fellow keeps the address it was first heard from (fellow.h:47-67). *)
AnswerReachesAsker ==
  (\A m, n \in DOMAIN mac : mac[m] = mac[n] => m = n \/ mac[m] = NoMac) =>
    \A r \in Receivers : pc[r] = "answer" => ReplyTo(r) \in had[post[r].from]

(* Who is online comes to be listed, or goes offline before, until the settings
   are changed: then the list is cleared, and a fellow known as online is no
   change when it answers the next announcement, so it stays off the list. *)
OnlineIsListed ==
  \A ip \in Addresses : Online(ip) ~> (ip \in DOMAIN users \/ ~Online(ip) \/ restarts > 0)

(* A change is never lost but by a stop: once no restart is to come, a fellow found
   to have come online is listed, or one with its address goes offline before: also
   when two receiving threads have entered it twice. *)
ChangeIsShown ==
  \A ip \in Addresses :
    (/\ restarts = MaxRestarts[mac] /\ ui = "loop"
     /\ \E r \in Receivers : /\ pc[r] = "post"
                            /\ mFellows[at[r]].ip = ip /\ mFellows[at[r]].online = "yes")
      ~> (ip \in DOMAIN users \/ Offline(ip))

(* "两端正常互相发现" (docs: 跨平台构建与用户发现修复, line 38): also where MACs are all 0,
   a machine whose announcement is answered has been discovered. *)
AnsweredIsDiscovered ==
  \A r \in Receivers : pc[r] = "answer" =>
    \E i \in DOMAIN mFellows : mFellows[i].ip = post[r].ip
=============================================================================
