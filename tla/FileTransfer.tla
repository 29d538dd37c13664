---------------------------- MODULE FileTransfer ----------------------------
(***************************************************************************)
(* One offered file, from the accept to the end of the transfer.  The      *)
(* receiving user accepts an offer with a path (FeiqBackend.cpp:178-206);  *)
(* FeiqEngine::downloadFile (feiqengine.cpp:544-625) starts a detached     *)
(* worker thread, which connects to the sender and writes what it gets;    *)
(* the sender's TCP server finds the upload task and a detached thread of  *)
(* its own sends the file (fileServerHandler, 840-900).                    *)
(*                                                                         *)
(* The offer travels by UDP: a repeated datagram prompts the user again    *)
(* (MainWindow.cpp:249-277), every prompt can be accepted, and all accepts *)
(* of one offer share the FileTask and the FileContent that findTask finds *)
(* first (feiqmodel.cpp:94-107).  A file has fileSize units of 2048 bytes.   *)
(***************************************************************************)
EXTENDS Naturals, FiniteSets

CONSTANTS Accepts,      \* the accepted prompts of the offer, each with its worker
          Paths,        \* the paths a user may save to
          FileSizes,    \* what FileContent::size may be, in units
          NotifySize    \* FileTask::mNotifySize, in units

ASSUME FileTransferAssumption == /\ FileSizes \subseteq Nat /\ NotifySize \in Nat \ {0}

NoPath == "none"

VARIABLES known,        \* "yes" when the sender's model still has the upload task
          fileSize,     \* FileContent::size, in units
          path,         \* FileContent::path
          state,        \* FileTask::mState of the download
          lastProcess,  \* FileTask::mLastProcess
          cancel,       \* FileTask::mCancelPending
          pc,           \* where each worker stands
          asked,        \* the path the user has chosen at each prompt
          file,         \* the path each worker has opened
          recv,         \* its recv, in units
          timeoCnt,     \* its timeoCnt
          end,          \* how each worker ended
          disk,         \* which units of the file are on disk, for each path
          lost,         \* the units each worker has received and not got onto the disk
          opener,       \* the worker that opened each path last
          verdicts,     \* how many final messages the receiving user was shown
          overlap,      \* "yes" once two workers ran at the same time
          srv,          \* the sender's thread for each worker's connection
          readable,     \* the units its file really has, whatever was offered
          sent          \* its sent, in units

Units == 1..fileSize

offer == <<known, fileSize>>
taskVars == <<path, state, lastProcess, cancel, verdicts>>
fileSystem == <<disk, lost, opener>>
prompted == <<asked, overlap>>
workerVars == <<pc, file, recv, timeoCnt, end, fileSystem, prompted>>
serverVars == <<srv, readable, sent>>
fileVars == <<offer, taskVars, workerVars, serverVars>>

Final == {"Finish", "Error", "Canceled"}

FileInit == /\ known \in {"yes", "no"} /\ fileSize \in FileSizes
            /\ path = NoPath /\ state = "NotStart" /\ lastProcess = 0 /\ cancel = "no"
            /\ verdicts = 0 /\ overlap = "no"
            /\ pc = [d \in Accepts |-> "none"] /\ file = [d \in Accepts |-> NoPath]
            /\ asked = [d \in Accepts |-> NoPath] /\ lost = [d \in Accepts |-> {}]
            /\ recv = [d \in Accepts |-> 0] /\ timeoCnt = [d \in Accepts |-> 0]
            /\ end = [d \in Accepts |-> "none"]
            /\ disk = [p \in Paths |-> {}] /\ opener = [p \in Paths |-> NoPath]
            /\ srv = [d \in Accepts |-> "none"] /\ readable = [d \in Accepts |-> 0]
            /\ sent = [d \in Accepts |-> 0]
-----------------------------------------------------------------------------
(* FileTask (filetask.cpp:22-38): the observer is shown the state of the task as
   it is when setState or setProcess is called; MainWindow::handleFileTaskUpdated
   (MainWindow.cpp:284-323) writes a message for every final state it is shown. *)

Shown(s) == IF s \in Final THEN 1 ELSE 0

SetState(s) == /\ state' = s
               /\ verdicts' = verdicts + Shown(s)
               /\ UNCHANGED lastProcess

Notifies(n) == n >= fileSize \/ n >= lastProcess + NotifySize
SetProcess(n) == /\ lastProcess' = IF Notifies(n) THEN n ELSE lastProcess
                 /\ verdicts' = IF Notifies(n) THEN verdicts + Shown(state) ELSE verdicts
                 /\ UNCHANGED state

\* The end of a complete download: setProcess(total), then setState(Finish).
ProgressAfterFinish == Shown("Finish") + Shown("Finish")    \* slip: swapped
ProgressThenFinish == Shown(state) + Shown("Finish")
-----------------------------------------------------------------------------
(* The user-interface thread. *)

Working(d) == pc[d] \notin {"none", "done"}

\* acceptFile: store the path, start a worker; no look at the state of the task.
Accept(d, p) == /\ pc[d] = "none"
                /\ path' = p
                /\ asked' = [asked EXCEPT ![d] = p]
                /\ pc' = [pc EXCEPT ![d] = "connect"]
                /\ overlap' = IF \E c \in Accepts : Working(c) THEN "yes" ELSE overlap
                /\ UNCHANGED <<offer, state, lastProcess, cancel, verdicts, file, recv,
                               timeoCnt, end, fileSystem, serverVars>>

\* cancelFileTask (FeiqBackend.cpp:208-215): the flag is never taken back.
Cancel == /\ cancel = "no"
          /\ cancel' = "yes"
          /\ UNCHANGED <<offer, path, state, lastProcess, verdicts, workerVars, serverVars>>
-----------------------------------------------------------------------------
(* The worker of an accepted prompt. *)

EndAs(d, how) == pc' = [pc EXCEPT ![d] = "done"] /\ end' = [end EXCEPT ![d] = how]

\* requestFileData (feiqcommu.cpp:91-109): the connection and the request.
ConnectOk(d) == /\ pc[d] = "connect"
                /\ pc' = [pc EXCEPT ![d] = "open"]
                /\ srv' = [srv EXCEPT ![d] = "request"]
                /\ UNCHANGED <<offer, taskVars, file, recv, timeoCnt, end, fileSystem,
                               prompted, readable, sent>>

ConnectFails(d) == /\ pc[d] = "connect"
                   /\ SetState("Error")
                   /\ EndAs(d, "Error")
                   /\ UNCHANGED <<offer, path, cancel, file, recv, timeoCnt, fileSystem,
                                  prompted, serverVars>>

\* fopen(content->path, "w+"): the path as it is now, cut to nothing.
Open(d) == /\ pc[d] = "open"
           /\ file' = [file EXCEPT ![d] = path]
           /\ disk' = [disk EXCEPT ![path] = {}]
           /\ opener' = [opener EXCEPT ![path] = d]
           /\ SetState("Running")
           /\ pc' = [pc EXCEPT ![d] = "while"]
           /\ UNCHANGED <<offer, path, cancel, recv, timeoCnt, end, lost, prompted, serverVars>>

OpenFails(d) == /\ pc[d] = "open"
                /\ SetState("Error")
                /\ EndAs(d, "Error")
                /\ UNCHANGED <<offer, path, cancel, file, recv, timeoCnt, fileSystem,
                               prompted, serverVars>>

\* The head of the loop (582-589).
IgnoresCancel == FALSE                              \* slip: the flag is not looked at
CancelPending == cancel = "yes"
While(d) == /\ pc[d] = "while"
            /\ recv[d] < fileSize
            /\ ~CancelPending
            /\ pc' = [pc EXCEPT ![d] = "recv"]
            /\ UNCHANGED <<offer, taskVars, file, recv, timeoCnt, end, fileSystem, prompted,
                           serverVars>>

WhileCanceled(d) == /\ pc[d] = "while"
                    /\ recv[d] < fileSize
                    /\ CancelPending
                    /\ SetState("Canceled")
                    /\ EndAs(d, "Canceled")
                    /\ UNCHANGED <<offer, path, cancel, file, recv, timeoCnt, fileSystem,
                                   prompted, serverVars>>

\* Past the loop (616-618).
WhileEnds(d) == /\ pc[d] = "while"
                /\ recv[d] >= fileSize
                /\ state' = "Finish"
                /\ lastProcess' = fileSize
                /\ verdicts' = verdicts + ProgressThenFinish
                /\ EndAs(d, "Finish")
                /\ UNCHANGED <<offer, path, cancel, file, recv, timeoCnt, fileSystem,
                               prompted, serverVars>>

\* Bytes arrived (607-612).  What fwrite and fclose say of a full disk or a failing one
\* is not looked at: the bytes count as received, on disk or not.
NotAdded(d) == recv[d]                              \* slip: recv is not advanced
Added(d) == recv[d] + 1
Written(d, u) == disk' = [disk EXCEPT ![file[d]] = @ \cup {u}] /\ UNCHANGED lost
Unwritten(d, u) == lost' = [lost EXCEPT ![d] = @ \cup {u}] /\ UNCHANGED disk
RecvData(d) == /\ pc[d] = "recv"
               /\ recv[d] < sent[d]
               /\ recv' = [recv EXCEPT ![d] = Added(d)]
               /\ Written(d, recv[d] + 1) \/ Unwritten(d, recv[d] + 1)
               /\ SetProcess(Added(d))
               /\ pc' = [pc EXCEPT ![d] = "while"]
               /\ UNCHANGED <<offer, path, cancel, file, timeoCnt, end, opener, prompted,
                              serverVars>>

PeerClosed(d) == srv[d] \in {"refused", "failed", "crashed"} /\ recv[d] = sent[d]

\* recv returned 0, the sender has closed: not an error, the loop goes round.
CountsRequest(d) == recv[d] + 1                     \* slip: recv += request
CountsGot(d) == recv[d]
RecvClosed(d) == /\ pc[d] = "recv"
                 /\ PeerClosed(d)
                 /\ recv' = [recv EXCEPT ![d] = CountsGot(d)]
                 /\ SetProcess(CountsGot(d))
                 /\ pc' = [pc EXCEPT ![d] = "while"]
                 /\ UNCHANGED <<offer, path, cancel, file, timeoCnt, end, fileSystem,
                                prompted, serverVars>>

\* Nothing within two seconds: maxTimeoCnt is 3, but below it the second test,
\* "got < 0", catches the time-out as well (596-606), so the first one ends it.
RecvTimeout(d) == /\ pc[d] = "recv"
                  /\ ~PeerClosed(d)
                  /\ timeoCnt' = [timeoCnt EXCEPT ![d] = timeoCnt[d] + 1]
                  /\ SetState("Error")
                  /\ EndAs(d, "Timeout")
                  /\ UNCHANGED <<offer, path, cancel, file, recv, fileSystem, prompted,
                                 serverVars>>

\* The connection is lost.
RecvFails(d) == /\ pc[d] = "recv"
                /\ SetState("Error")
                /\ EndAs(d, "Error")
                /\ UNCHANGED <<offer, path, cancel, file, recv, timeoCnt, fileSystem,
                               prompted, serverVars>>
-----------------------------------------------------------------------------
(* The sender: one thread for each connection. *)

\* onTcpClientConnected and the look-up (feiqcommu.cpp:184-214, feiqengine.cpp:842-844):
\* without a task the connection is just closed.  The file may have shrunk or grown.
Serve(d, n) == /\ srv[d] = "request"
               /\ known = "yes"
               /\ srv' = [srv EXCEPT ![d] = "Running"]
               /\ readable' = [readable EXCEPT ![d] = n]
               /\ UNCHANGED <<offer, taskVars, workerVars, sent>>

ServeUnknown(d) == /\ srv[d] = "request"
                   /\ known = "no"
                   /\ srv' = [srv EXCEPT ![d] = "refused"]
                   /\ UNCHANGED <<offer, taskVars, workerVars, readable, sent>>

\* fopen failed: the Error is reported and the null FILE is used all the same
\* (848-852, 867): undefined behaviour, in practice the end of the process.
ServeUnreadable(d) == /\ srv[d] = "request"
                      /\ known = "yes"
                      /\ srv' = [srv EXCEPT ![d] = "crashed"]
                      /\ UNCHANGED <<offer, taskVars, workerVars, readable, sent>>

\* One round of the loop (867-881).
MoreToSend(d) == sent[d] < fileSize /\ sent[d] < readable[d]
SendUnit(d) == /\ srv[d] = "Running"
               /\ MoreToSend(d)
               /\ sent' = [sent EXCEPT ![d] = sent[d] + 1]
               /\ UNCHANGED <<offer, taskVars, workerVars, srv, readable>>

\* The worker has gone, or the connection is lost.
SendFails(d) == /\ srv[d] = "Running"
                /\ MoreToSend(d)
                /\ srv' = [srv EXCEPT ![d] = "failed"]
                /\ UNCHANGED <<offer, taskVars, workerVars, readable, sent>>

\* Past the loop (884-894): "finished" is Finish, "failed" is Error.
WholeFile(d) == sent[d] = readable[d]               \* slip: the size on disk
WholeOffer(d) == sent[d] = fileSize
ServeEnds(d) == /\ srv[d] = "Running"
                /\ ~MoreToSend(d)
                /\ srv' = [srv EXCEPT ![d] = IF WholeOffer(d) THEN "finished" ELSE "failed"]
                /\ UNCHANGED <<offer, taskVars, workerVars, readable, sent>>
-----------------------------------------------------------------------------
Worker(d) == \/ ConnectOk(d) \/ ConnectFails(d) \/ Open(d) \/ OpenFails(d)
             \/ While(d) \/ WhileCanceled(d) \/ WhileEnds(d)
             \/ RecvData(d) \/ RecvClosed(d) \/ RecvTimeout(d) \/ RecvFails(d)

Server(d) == \/ \E n \in 0..(fileSize + 1) : Serve(d, n)
             \/ ServeUnknown(d) \/ ServeUnreadable(d)
             \/ SendUnit(d) \/ SendFails(d) \/ ServeEnds(d)

FileNext == \/ \E d \in Accepts : (\E p \in Paths : Accept(d, p)) \/ Worker(d) \/ Server(d)
            \/ Cancel

\* Threads run; recv and connect return, with data, an end or an error.
FileFairness == \A d \in Accepts : WF_fileVars(Worker(d)) /\ WF_fileVars(Server(d))

FileSpec == FileInit /\ [][FileNext]_fileVars

FileFairSpec == FileSpec /\ FileFairness
-----------------------------------------------------------------------------
FileTypeOK == /\ known \in {"yes", "no"} /\ fileSize \in FileSizes
              /\ cancel \in {"yes", "no"} /\ overlap \in {"yes", "no"}
              /\ path \in Paths \cup {NoPath} /\ state \in Final \cup {"NotStart", "Running"}
              /\ lastProcess \in 0..fileSize /\ verdicts \in Nat
              /\ pc \in [Accepts -> {"none", "connect", "open", "while", "recv", "done"}]
              /\ file \in [Accepts -> Paths \cup {NoPath}]
              /\ recv \in [Accepts -> 0..fileSize] /\ timeoCnt \in [Accepts -> 0..1]
              /\ end \in [Accepts -> {"none", "Finish", "Error", "Timeout", "Canceled"}]
              /\ disk \in [Paths -> SUBSET Units] /\ opener \in [Paths -> Accepts \cup {NoPath}]
              /\ lost \in [Accepts -> SUBSET Units] /\ asked \in [Accepts -> Paths \cup {NoPath}]
              /\ srv \in [Accepts -> {"none", "request", "Running", "refused", "crashed",
                                      "finished", "failed"}]
              /\ readable \in [Accepts -> 0..(fileSize + 1)] /\ sent \in [Accepts -> 0..fileSize]

(* A download that ended well is on disk as a whole, but for what the disk did not take,
   unless another worker has opened its path since: nothing is Finish that the sender cut
   short, that was offered by someone who has forgotten it, or that lost its connection.
   As long as the workers of the offer do not run at the same time, it is where its user
   has asked for it. *)
FinishedIsOnDisk ==
  \A d \in Accepts : end[d] = "Finish" =>
    /\ opener[file[d]] = d => disk[file[d]] \cup lost[d] = Units
    /\ overlap = "no" => file[d] = asked[d]

(* The two ends do not disagree on success, unless the file is empty: when the sender's
   thread reports an error, its peer has not finished.  Of an empty file nothing is
   asked for (584), so it is Finish whatever the sender does. *)
AgreeOnSuccess == \A d \in Accepts : srv[d] \in {"failed", "refused", "crashed"} /\ fileSize # 0 =>
                                       end[d] # "Finish"

(* As long as the workers of an offer do not run at the same time, the user is
   told of each ended one exactly once; progress repeats no verdict. *)
OneVerdictEach == overlap = "no" => verdicts = Cardinality({d \in Accepts : pc[d] = "done"})

(* A worker ends, except when the sender closed early: recv then returns 0 for
   ever and the loop of downloadFile spins (594-613). *)
EndsUnlessPeerClosed ==
  \A d \in Accepts : Working(d) ~> (pc[d] = "done" \/ PeerClosed(d))

(* A cancel ends every worker, the spinning one too. *)
CancelEnds == \A d \in Accepts : (cancel = "yes" /\ Working(d)) ~> (pc[d] = "done")
=============================================================================
