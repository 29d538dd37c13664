-------------------------------- MODULE Chat --------------------------------
(***************************************************************************)
(* The user-interface thread between the facade and the user: the signals  *)
(* of FeiqBackend, the main window's handlers (src/ui/MainWindow.cpp), the *)
(* chat windows it keeps by address (ChatWindow.cpp), group messages, file *)
(* offers, screenshots and the loopback test user.                         *)
(*                                                                         *)
(* One thread, yet handlers overlap: a modal box runs the event loop again *)
(* inside the handler that opened it, a closed window is deleted by a      *)
(* later event, and the screenshot works with timers that hold a bare      *)
(* pointer to the window.                                                  *)
(***************************************************************************)
EXTENDS Naturals, Sequences, SequencesExt, FiniteSetsExt

CONSTANTS Peers,        \* addresses
          TestUser,     \* the address of the loopback test user
          MaxEvents,    \* bound: signals the engine causes
          MaxClicks     \* bound: what the user begins

ASSUME ChatAssumption == TestUser \notin Peers /\ MaxEvents \in Nat /\ MaxClicks \in Nat

Ips == Peers \cup {TestUser}
NoWindow == 0

VARIABLES
  queue,                \* events posted to the thread
  todo,                 \* what the running handler still has to do, <<>> in the event loop
  prompts,              \* modal boxes, the innermost first, with the rest of their handlers
  users,                \* m_users
  windows,              \* all chat windows made so far, in the order of their making
  chatOf,               \* m_chatWindows
  mainShown, running,   \* the main window; the engine runs
  timers,               \* of the test user
  testFiles,            \* m_testIncomingFiles
  tasks,                \* mFileTasks: the downloads that can be accepted
  offers,               \* packets with files each peer has sent
  started,              \* downloads that were begun: for whose offer, from whom
  lost,                 \* texts that went to a window on its way out
  undefined,            \* a deleted window was used
  departed,             \* a window was closed by others than its user
  events, clicks

shots == <<windows, mainShown, undefined, departed>>
files == <<testFiles, tasks, offers, started>>
counts == <<events, clicks>>
vars == <<queue, todo, prompts, users, chatOf, running, timers, lost, shots, files, counts>>

Init == /\ queue = <<>> /\ todo = <<>> /\ prompts = <<>>
        /\ users = {TestUser}           \* enableLoopbackTestUser
        /\ windows = <<>> /\ chatOf = [p \in Ips |-> NoWindow]
        /\ mainShown = TRUE /\ running = TRUE
        /\ timers = <<"greet">> /\ testFiles = {} /\ tasks = <<>> /\ offers = [p \in Ips |-> 0]
        /\ started = {} /\ lost = {} /\ undefined = FALSE /\ departed = FALSE
        /\ events = 0 /\ clicks = 0
-----------------------------------------------------------------------------
(* What handlers are made of: they do one item after the other. *)

Do(what, of, p, n) == [do |-> what, of |-> of, ip |-> p, number |-> n, late |-> FALSE]

\* handleMessageReceived (249-277)
MessageItems(p, contents) ==
  <<Do("open", "message", p, 0)>>
    \o [k \in DOMAIN contents |-> Do(contents[k].type, "message", p, contents[k].number)]
Notice(p) == <<Do("text", "notice", p, 0)>>
Text == [type |-> "text", number |-> 0]
File(n) == [type |-> "file", number |-> n]

Message(p, contents) == [kind |-> "message", ip |-> p, contents |-> contents, level |-> 0]
Signal(kind, p) == [kind |-> kind, ip |-> p, contents |-> <<>>, level |-> 0]

\* deleteLater, of a window or of its screenshot tool: the event is for the loop it was
\* posted from, or an outer one.
Later(what, w) == [kind |-> what, ip |-> w, contents |-> <<>>, level |-> Len(prompts)]
Deletion(w) == Later("delete", w)
Doomed(w) == \E k \in DOMAIN queue : queue[k].kind = "delete" /\ queue[k].ip = w
\* Qt posts one deletion for a window, however often it is closed.
Closed(q, w) == IF Doomed(w) THEN q ELSE Append(q, Deletion(w))
Reached(e) == e.kind \in {"delete", "tool"} => Len(prompts) <= e.level

InLoop == todo = <<>>
\* A modal box keeps the user from everything else.
UserFree == InLoop /\ prompts = <<>> /\ clicks < MaxClicks
Clicked == clicks' = clicks + 1 /\ UNCHANGED events

NewWindow(p) == [ip |-> p, visible |-> TRUE, gone |-> FALSE, shot |-> "none"]
Made(p) == /\ windows' = Append(windows, NewWindow(p))
           /\ chatOf' = [chatOf EXCEPT ![p] = Len(windows) + 1]

\* openChatWindow (464-480): a window that is hidden is left alone, with a new one
\* in its place.
AnyWindow(p) == chatOf[p] # NoWindow                    \* slip: hidden or closed as well
HasWindow(p) == chatOf[p] # NoWindow /\ windows[chatOf[p]].visible
OpenChatWindow(p) == IF HasWindow(p) THEN UNCHANGED <<windows, chatOf>> ELSE Made(p)

Loss(i) == [of |-> i.of, late |-> i.late, reshown |-> windows[chatOf[i.ip]].visible]

\* appendTextToChat (551-566) does not ask whether the window can be seen.
AppendTextToChat(i) ==
  IF chatOf[i.ip] = NoWindow
  THEN Made(i.ip) /\ UNCHANGED lost
  ELSE /\ lost' = IF Doomed(chatOf[i.ip]) THEN lost \cup {Loss(i)} ELSE lost
       /\ UNCHANGED <<windows, chatOf>>

\* The window of each message item is looked for; the group message's as well (93-96).
DoOpen == /\ todo # <<>> /\ Head(todo).do = "open"
          /\ OpenChatWindow(Head(todo).ip)
          /\ todo' = Tail(todo)
          /\ UNCHANGED <<queue, prompts, users, mainShown, running, timers, files, lost, undefined, departed, counts>>

DoText == /\ todo # <<>> /\ Head(todo).do = "text"
          /\ AppendTextToChat(Head(todo))
          /\ todo' = Tail(todo)
          /\ UNCHANGED <<queue, prompts, users, mainShown, running, timers, files, undefined, departed, counts>>

\* A box, with the window it belongs to and what its handler has left to do.
Box(kind, p, n, w, rest) == [kind |-> kind, ip |-> p, number |-> n, owner |-> w, rest |-> rest]
Told(w, rest) == Box("notice", TestUser, 0, w, rest)

\* appendFileOfferToChat and promptFileDownload (568-613).
DoFile == /\ todo # <<>> /\ Head(todo).do = "file"
          /\ AppendTextToChat(Head(todo))
          /\ prompts' = <<Box("question", Head(todo).ip, Head(todo).number, NoWindow, Tail(todo))>> \o prompts
          /\ todo' = <<>>
          /\ UNCHANGED <<queue, users, mainShown, running, timers, files, undefined, departed, counts>>

\* The innermost box closes, and its handler goes on.
Resumed == LET rest == prompts[1].rest
           IN  todo' = [k \in DOMAIN rest |-> [rest[k] EXCEPT !.late = TRUE]]
Returns == Resumed /\ prompts' = Tail(prompts)
-----------------------------------------------------------------------------
(* The engine's threads post signals (handleFellowEvent to onProgress). *)

Arrives(e) == /\ running /\ events < MaxEvents
              /\ events' = events + 1
              /\ queue' = Append(queue, e)
              /\ UNCHANGED <<todo, prompts, users, chatOf, running, timers, lost, shots, clicks, testFiles,
                             started>>

FellowUpdated(p, kind) == Arrives(Signal(kind, p)) /\ UNCHANGED <<tasks, offers>>

\* A time-out, or the end of a file task.
Noticed(p) == Arrives(Signal("notice", p)) /\ UNCHANGED <<tasks, offers>>

TextReceived(p) == Arrives(Message(p, <<Text>>)) /\ UNCHANGED <<tasks, offers>>

\* Each peer numbers its packets itself; the task is there before the signal.
FileReceived(p) == /\ Arrives(Message(p, <<File(offers[p] + 1), Text>>))
                   /\ offers' = [offers EXCEPT ![p] = @ + 1]
                   /\ tasks' = Append(tasks, [peer |-> p, number |-> offers[p] + 1])

EngineStep == \E p \in Peers : \/ \E kind \in {"on", "off"} : FellowUpdated(p, kind)
                               \/ Noticed(p) \/ TextReceived(p) \/ FileReceived(p)
-----------------------------------------------------------------------------
(* The event loop, whichever box runs it. *)

Next1 == Min({k \in DOMAIN queue : Reached(queue[k])})
Without(k) == RemoveAt(queue, k)
Ready == InLoop /\ \E k \in DOMAIN queue : Reached(queue[k])

\* handleFellowUpdated (230-247)
HandleOnline ==
  /\ Ready /\ queue[Next1].kind = "on"
  /\ users' = users \cup {queue[Next1].ip}
  /\ queue' = Without(Next1)
  /\ UNCHANGED <<todo, prompts, chatOf, running, timers, lost, shots, files, counts>>

Hidden(w) == [windows EXCEPT ![w].visible = FALSE]
HandleOffline ==
  /\ Ready /\ queue[Next1].kind = "off"
  /\ LET p == queue[Next1].ip
         w == chatOf[p]
     IN  /\ users' = users \ {p}
         /\ IF w = NoWindow
            THEN queue' = Without(Next1) /\ UNCHANGED <<windows, departed>>
            ELSE queue' = Closed(Without(Next1), w) /\ windows' = Hidden(w) /\ departed' = TRUE
  /\ UNCHANGED <<todo, prompts, chatOf, running, timers, lost, mainShown, undefined, files, counts>>

HandleMessage ==
  /\ Ready /\ queue[Next1].kind = "message"
  /\ todo' = MessageItems(queue[Next1].ip, queue[Next1].contents)
  /\ queue' = Without(Next1)
  /\ UNCHANGED <<prompts, users, chatOf, running, timers, lost, shots, files, counts>>

\* handleSendTimeout, handleFileTaskUpdated (279-323)
HandleNotice ==
  /\ Ready /\ queue[Next1].kind = "notice"
  /\ todo' = Notice(queue[Next1].ip)
  /\ queue' = Without(Next1)
  /\ UNCHANGED <<prompts, users, chatOf, running, timers, lost, shots, files, counts>>

\* The destructor of a window, and what the main window does when told (626-633).  A
\* box that is open goes with it, though it lives on the stack of the handler.
HandleDelete ==
  /\ Ready /\ queue[Next1].kind = "delete"
  /\ LET w == queue[Next1].ip
     IN  /\ windows' = [windows EXCEPT ![w].gone = TRUE, ![w].visible = FALSE]
         /\ chatOf' = [p \in Ips |-> IF chatOf[p] = w THEN NoWindow ELSE chatOf[p]]
         /\ undefined' = (\E k \in DOMAIN prompts : prompts[k].owner = w)
         /\ queue' = Without(Next1)
  /\ UNCHANGED <<todo, prompts, users, running, timers, lost, mainShown, departed, files, counts>>
-----------------------------------------------------------------------------
(* Boxes. *)

\* acceptFile (178-206) looks for packet and file number, not for the peer (94-107).
Matches(p, n) == {k \in DOMAIN tasks : tasks[k].number = n}
NewestTask(p, n) == tasks[Max(Matches(p, n))]           \* slip: the search begins at the end
Task(p, n) == tasks[Min(Matches(p, n))]

AcceptDownload ==
  /\ InLoop /\ prompts # <<>> /\ prompts[1].kind = "question"
  /\ prompts[1].ip # TestUser
  /\ \/ started' = started \cup {[ip |-> prompts[1].ip, number |-> prompts[1].number,
                                  peer |-> Task(prompts[1].ip, prompts[1].number).peer]}
        /\ Returns
     \/ \* the download could not be started: another box
        /\ prompts' = <<Told(NoWindow, prompts[1].rest)>> \o Tail(prompts)
        /\ UNCHANGED <<todo, started>>
  /\ UNCHANGED <<queue, users, chatOf, running, timers, lost, shots, testFiles, tasks, offers, counts>>

\* handleTestUserAcceptFile (622-659): the file can be taken once.
AcceptTestFile ==
  /\ InLoop /\ prompts # <<>> /\ prompts[1].kind = "question"
  /\ prompts[1].ip = TestUser
  /\ IF prompts[1].number \in testFiles
     THEN /\ testFiles' = testFiles \ {prompts[1].number}
          /\ queue' = queue \o <<Signal("notice", TestUser), Message(TestUser, <<Text>>)>>
          /\ Returns
     ELSE /\ prompts' = <<Told(NoWindow, prompts[1].rest)>> \o Tail(prompts)
          /\ UNCHANGED <<testFiles, queue, todo>>
  /\ UNCHANGED <<users, chatOf, running, timers, lost, shots, tasks, offers, started, counts>>

\* No, no path, or a box that only tells something.
Dismiss == /\ InLoop /\ prompts # <<>>
           /\ Returns
           /\ UNCHANGED <<queue, users, chatOf, running, timers, lost, shots, files, counts>>

\* onGroupMessageClicked (367-391) and onSendClicked (67-111): the recipients are
\* those of the opening; a second box tells of the success.
GroupItems(ips) == LET to == SetToSeq(ips)
                   IN  [k \in 1..(2 * Len(to)) |->
                          Do(IF k % 2 = 1 THEN "open" ELSE "text", "own", to[(k + 1) \div 2], 0)]
GroupBox == [Box("group", TestUser, 0, NoWindow, <<>>) EXCEPT !.ip = users]
OpenGroup == /\ UserFree /\ mainShown /\ users # {}
             /\ Clicked
             /\ prompts' = <<GroupBox>>
             /\ UNCHANGED <<queue, todo, users, chatOf, running, timers, lost, shots, files>>

\* The test user echoes (535-558).
Echoes(ips) == IF TestUser \in ips THEN Append(timers, "echo") ELSE timers
GroupSend == /\ InLoop /\ prompts # <<>> /\ prompts[1].kind = "group"
             /\ \E reached \in SUBSET prompts[1].ip : /\ todo' = GroupItems(reached)
                                                    /\ timers' = Echoes(reached)
             /\ prompts' = <<Told(NoWindow, <<>>)>> \o Tail(prompts)
             /\ UNCHANGED <<queue, users, chatOf, running, lost, shots, files, counts>>
-----------------------------------------------------------------------------
(* The user, in the main window and in chat windows. *)

\* onUserItemDoubleClicked and onUserItemActivated (325-359)
OpenUser(p) == /\ UserFree /\ mainShown /\ p \in users
               /\ Clicked
               /\ OpenChatWindow(p)
               /\ UNCHANGED <<queue, todo, prompts, users, mainShown, running, timers, lost, undefined, departed, files>>

\* A window that was shown again takes input in a later round of the event loop: what was
\* posted before, the deletion of its screenshot tool, is handled first.
ToolPending(w) == \E k \in DOMAIN queue : queue[k].kind = "tool" /\ queue[k].ip = w
Usable(w) == UserFree /\ windows[w].visible /\ ~ToolPending(w)

CloseWindow(w) == /\ Usable(w)
                  /\ Clicked
                  /\ windows' = Hidden(w)
                  /\ queue' = Closed(queue, w)
                  /\ UNCHANGED <<todo, prompts, users, chatOf, running, timers, lost, mainShown, undefined, departed,
                                 files>>

\* onSendClicked (168-185): shown in the window at hand, or a box.
SendText(w) == /\ Usable(w)
               /\ Clicked
               /\ \/ timers' = Echoes({windows[w].ip}) /\ UNCHANGED prompts
                  \/ prompts' = <<Told(w, <<>>)>> /\ UNCHANGED timers
               /\ UNCHANGED <<queue, todo, users, chatOf, running, lost, shots, files>>

\* onSendFileRequest (393-409) and sendFiles.  The test user's answers come by timers
\* (560-620).
FilesSent(p, posted, boxes) ==
  IF p = TestUser
  THEN /\ queue' = Append(posted, Signal("notice", TestUser))
       /\ timers' = timers \o <<"thanks", "file">>
       /\ prompts' = boxes
  ELSE /\ queue' = posted
       /\ prompts' \in {boxes, <<Told(NoWindow, <<>>)>> \o boxes}
       /\ UNCHANGED timers

\* onFileClicked (187-213): the choice is a box as well.
SendFile(w) == /\ Usable(w)
               /\ Clicked
               /\ prompts' = <<Box("choose", windows[w].ip, 0, w, <<>>)>>
               /\ UNCHANGED <<queue, todo, users, chatOf, running, timers, lost, shots, files>>
ChooseFile == /\ InLoop /\ prompts # <<>> /\ prompts[1].kind = "choose"
              /\ FilesSent(prompts[1].ip, queue, Tail(prompts))
              /\ UNCHANGED <<todo, users, chatOf, running, lost, shots, files, counts>>

\* closeEvent (482-495): only windows in the map.
CloseMain == /\ UserFree /\ mainShown /\ running
             /\ Clicked
             /\ departed' = TRUE
             /\ mainShown' = FALSE /\ running' = FALSE
             /\ LET open == SetToSeq({w \in {chatOf[p] : p \in Ips} \ {NoWindow} : ~Doomed(w)})
                IN  /\ windows' = [w \in DOMAIN windows |->
                                     [windows[w] EXCEPT !.visible = @ /\ chatOf[windows[w].ip] # w]]
                    /\ queue' = queue \o [k \in DOMAIN open |-> Deletion(open[k])]
             /\ UNCHANGED <<todo, prompts, users, chatOf, timers, lost, undefined, files>>
-----------------------------------------------------------------------------
(* Screenshots (ChatWindow.cpp:241-307, ScreenshotTool.cpp).  The events handled within
   onScreenshotClicked might as well come after it. *)

Shot(w, s) == windows' = [windows EXCEPT ![w].shot = s]

ClosesItself(w) == Append(queue, Deletion(w))           \* slip: close() for hide()
HidesItself(w) == queue
ClickScreenshot(w) == /\ Usable(w)
                      /\ Clicked
                      /\ mainShown' = FALSE
                      /\ windows' = [windows EXCEPT ![w].visible = FALSE, ![w].shot = "timer"]
                      /\ queue' = HidesItself(w)
                      /\ UNCHANGED <<todo, prompts, users, chatOf, running, timers, lost, undefined, departed,
                                     files>>

\* The two timers keep the bare pointer (252, 266).
ShotTimer(w) == /\ InLoop
                /\ windows[w].shot \in {"timer", "made"}
                /\ Shot(w, IF windows[w].shot = "timer" THEN "made" ELSE "tool")
                /\ undefined' = (undefined \/ windows[w].gone)
                /\ UNCHANGED <<queue, todo, prompts, users, chatOf, running, timers, lost, mainShown, departed,
                               files, counts>>

\* onScreenshotTaken (291-307), if the window still listens; the tool is deleted later.
LeavesMain == mainShown                                 \* slip: no m_mainWindow->show()
ShowsMain == TRUE
Taken(w) == /\ InLoop /\ prompts = <<>>
            /\ windows[w].shot = "tool" /\ ~windows[w].gone
            /\ mainShown' = ShowsMain
            /\ windows' = [windows EXCEPT ![w].visible = TRUE, ![w].shot = "none"]
            /\ FilesSent(windows[w].ip, Append(queue, Later("tool", w)), <<>>)
            /\ UNCHANGED <<todo, users, chatOf, running, lost, undefined, departed, files, counts>>

\* Escape, a picture that cannot be saved, or one nobody listens for: the tool closes
\* and is not deleted.
Abandoned(w) == /\ InLoop /\ prompts = <<>> /\ windows[w].shot = "tool"
                /\ Shot(w, "over")
                /\ UNCHANGED <<queue, todo, prompts, users, chatOf, running, timers, lost, mainShown,
                               undefined, departed, files, counts>>

\* The tool's destroyed signal, again with the bare pointer (257-263).
ToolDeleted ==
  /\ Ready /\ queue[Next1].kind = "tool"
  /\ LET w == queue[Next1].ip
     IN  /\ undefined' = (undefined \/ windows[w].gone)
         /\ windows' = [windows EXCEPT ![w].visible = ~windows[w].gone]
  /\ mainShown' = TRUE
  /\ queue' = Without(Next1)
  /\ UNCHANGED <<todo, prompts, users, chatOf, running, timers, lost, departed, files, counts>>
-----------------------------------------------------------------------------
\* A timer of the test user (440-458, 535-620): files are sent after the thanks for them.
Fire(k) ==
  /\ InLoop
  /\ timers[k] = "file" => \A l \in 1..(k - 1) : timers[l] # "thanks"
  /\ timers' = RemoveAt(timers, k)
  /\ IF timers[k] = "file"
     THEN /\ offers' = [offers EXCEPT ![TestUser] = @ + 1]
          /\ testFiles' = testFiles \cup {offers[TestUser] + 1}
          /\ queue' = Append(queue, Message(TestUser, <<File(offers[TestUser] + 1)>>))
     ELSE /\ queue' = Append(queue, Message(TestUser, <<Text>>))
          /\ UNCHANGED <<offers, testFiles>>
  /\ UNCHANGED <<todo, prompts, users, chatOf, running, lost, shots, tasks, started, counts>>

UserStep == \/ OpenGroup \/ CloseMain \/ (\E p \in Ips : OpenUser(p))
            \/ \E w \in DOMAIN windows : \/ CloseWindow(w) \/ SendText(w) \/ SendFile(w)
                                         \/ ClickScreenshot(w) \/ Taken(w) \/ Abandoned(w)
            \/ AcceptDownload \/ AcceptTestFile \/ Dismiss \/ GroupSend \/ ChooseFile

LoopStep == \/ DoOpen \/ DoText \/ DoFile
            \/ HandleOnline \/ HandleOffline \/ HandleMessage \/ HandleNotice \/ HandleDelete
            \/ ToolDeleted \/ (\E k \in DOMAIN timers : Fire(k))
            \/ \E w \in DOMAIN windows : ShotTimer(w)

Next == ~undefined /\ (EngineStep \/ UserStep \/ LoopStep)

Spec == Init /\ [][Next]_vars
-----------------------------------------------------------------------------
(* What a peer wrote is never appended to a window that is being closed, though
   time-outs and file notices are (551): handleMessageReceived makes a new window.
   The exceptions are what follows a file in the same message, as the question about
   the file lets everything happen in between (264), and a window that the end of a
   screenshot shows again while it is being closed (ChatWindow.cpp:261). *)
MessagesAreSeen == \A l \in lost : l.of = "message" => l.late \/ l.reshown

(* While the engine runs, the main window is hidden only for a screenshot (241-263): one
   being taken, or one given up with Escape, after which nothing shows it again. *)
Shooting == \E w \in DOMAIN windows : windows[w].shot # "none"
OnlyScreenshotsHide == running /\ ~mainShown => Shooting

(* A window is used after its deletion only when others closed it, for its peer had left
   or with the main window, during a screenshot or under a box of its own: a window
   its user can close has neither timers nor boxes. *)
UserNeverKills == undefined => departed

(* A download that is begun is from the peer that offered it, unless an earlier offer
   of another peer has the same number (feiqmodel.cpp:94 looks for numbers only). *)
FromTheOfferer ==
  \A s \in started : s.peer # s.ip =>
    \E j, k \in DOMAIN tasks : /\ j < k /\ tasks[j].number = tasks[k].number
                               /\ tasks[j].peer = s.peer /\ tasks[k] = [peer |-> s.ip, number |-> s.number]
=============================================================================
