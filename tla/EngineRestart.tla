--------------------------- MODULE EngineRestart ---------------------------
(***************************************************************************)
(* FeiqEngine::start and stop (feiqengine.cpp:636-673) over UdpCommu       *)
(* (udpcommu.cpp) and TcpServer::start, as the user interface drives them: *)
(* once at the beginning, and stop with start behind it whenever the       *)
(* settings were changed (MainWindow.cpp:497-525).  Two kinds of detached  *)
(* threads live through that without being waited for: the receiving       *)
(* threads (recvThread, 193-228), which sit up to three seconds in         *)
(* recvfrom, and the detection thread (feiqengine.cpp:708-721), which      *)
(* sleeps ten.                                                             *)
(*                                                                         *)
(* Attempt k to start makes socket k and, if mAsyncMode allows, receiving  *)
(* thread k.  The kernel keeps a socket alive as long as a recvfrom is in  *)
(* it: close does not end the wait.                                        *)
(***************************************************************************)
EXTENDS Naturals

CONSTANT MaxAttempts    \* bound: how many times start is tried

ASSUME EngineRestartAssumption == MaxAttempts \in Nat \ {0}

Attempts == 1..MaxAttempts

VARIABLES ui,           \* where the user-interface thread stands
          attempt,      \* how many starts were tried
          running,      \* FeiqBackend::m_running
          mStarted,     \* FeiqEngine::mStarted
          mSocket,      \* UdpCommu::mSocket, 0 for -1
          fd,           \* whether the descriptor in mSocket is "open" or "closed"
          timed,        \* the sockets whose SO_RCVTIMEO is set
          mAsyncMode,   \* UdpCommu::mAsyncMode
          tcp,          \* TcpServer::mStarted; never stopped
          pc,           \* where each receiving thread stands
          limited,      \* whether the recvfrom it is in ends by itself
          detector,     \* where the detection thread stands
          badBind,      \* history: bindTo failed after it made a socket
          refused,      \* history: bindTo said it was initialised already
          broken        \* history: recvfrom failed with another error than a time-out

socketVars == <<mSocket, fd, timed, mAsyncMode>>
faultVars == <<badBind, refused, broken>>
restartVars == <<ui, attempt, running, mStarted, socketVars, tcp, pc, limited, detector, faultVars>>

RestartInit == /\ ui = "idle" /\ attempt = 0 /\ running = "no" /\ mStarted = "no"
               /\ mSocket = 0 /\ fd = "closed" /\ timed = {} /\ mAsyncMode = "no" /\ tcp = "no"
               /\ pc = [t \in Attempts |-> "none"] /\ limited = [t \in Attempts |-> "no"]
               /\ detector = "none"
               /\ badBind = "no" /\ refused = "no" /\ broken = "no"
-----------------------------------------------------------------------------
(* Starting.  bindTo (36-70) is the first thing that can fail. *)

Starting == ui = "idle" /\ running = "no" /\ attempt < MaxAttempts

\* "已经初始化" (38-39).
Refused == /\ Starting
           /\ mSocket # 0
           /\ attempt' = attempt + 1
           /\ refused' = "yes"
           /\ UNCHANGED <<ui, running, mStarted, socketVars, tcp, pc, limited, detector,
                          badBind, broken>>

NoSocket == /\ Starting
            /\ mSocket = 0
            /\ attempt' = attempt + 1
            /\ UNCHANGED <<ui, running, mStarted, socketVars, tcp, pc, limited, detector,
                           faultVars>>

\* setsockopt or bind fails: mSocket keeps the descriptor, and start returns.
BindFails == /\ Starting
             /\ mSocket = 0
             /\ attempt' = attempt + 1
             /\ mSocket' = attempt + 1
             /\ fd' = "open"
             /\ badBind' = "yes"
             /\ UNCHANGED <<ui, running, mStarted, timed, mAsyncMode, tcp, pc, limited,
                            detector, refused, broken>>

Bind == /\ Starting
        /\ mSocket = 0
        /\ attempt' = attempt + 1
        /\ mSocket' = attempt + 1
        /\ fd' = "open"
        /\ ui' = "async"
        /\ UNCHANGED <<running, mStarted, timed, mAsyncMode, tcp, pc, limited, detector,
                       faultVars>>

\* startAsyncRecv (86-103): a thread, unless there is said to be one.
StartAsyncRecv == /\ ui = "async"
                  /\ ui' = "tcp"
                  /\ mAsyncMode' = "yes"
                  /\ pc' = IF mAsyncMode = "no" THEN [pc EXCEPT ![attempt] = "setopt"] ELSE pc
                  /\ UNCHANGED <<attempt, running, mStarted, mSocket, fd, timed, tcp, limited,
                                 detector, faultVars>>

TcpStart == /\ ui = "tcp"
            /\ tcp' = "yes"
            /\ ui' = "threads"
            /\ UNCHANGED <<attempt, running, mStarted, socketVars, pc, limited, detector,
                           faultVars>>

\* Without the file service the socket is closed again (feiqcommu.cpp:42-45).
Undone == "close"
TcpFails == /\ ui = "tcp"
            /\ tcp = "no"
            /\ ui' = Undone
            /\ UNCHANGED <<attempt, running, mStarted, socketVars, tcp, pc, limited, detector,
                           faultVars>>

\* The other threads are started and mStarted is set (647-655).  The main window
\* goes on to enable the detection, the first time only (MainWindow.cpp:97-104).
Run == /\ ui = "threads"
       /\ mStarted' = "yes"
       /\ running' = "yes"
       /\ ui' = IF attempt = 1 THEN "detect" ELSE "idle"
       /\ UNCHANGED <<attempt, socketVars, tcp, pc, limited, detector, faultVars>>

EnableIntervalDetect == /\ ui = "detect"
                        /\ ui' = "idle"
                        /\ detector' = "test"
                        /\ UNCHANGED <<attempt, running, mStarted, socketVars, tcp, pc,
                                       limited, faultVars>>
-----------------------------------------------------------------------------
(* Stopping: mStarted first, then UdpCommu::close (105-113), then the joins. *)

StopEngine == /\ ui = "idle"
              /\ running = "yes"
              /\ mStarted' = "no"
              /\ ui' = "close"
              /\ UNCHANGED <<attempt, running, socketVars, tcp, pc, limited, detector, faultVars>>

CloseDescriptor == /\ ui = "close"
                   /\ fd' = "closed"
                   /\ ui' = "clear"
                   /\ UNCHANGED <<attempt, running, mStarted, mSocket, timed, mAsyncMode, tcp,
                                  pc, limited, detector, faultVars>>

AsyncKept == mAsyncMode                             \* slip: the flag is not reset
AsyncCleared == "no"
ClearSocket == /\ ui = "clear"
               /\ mSocket' = 0
               /\ mAsyncMode' = AsyncCleared
               /\ ui' = IF running = "yes" THEN "join" ELSE "idle"
               /\ UNCHANGED <<attempt, running, mStarted, fd, timed, tcp, pc, limited,
                              detector, faultVars>>

\* AsynWait and MsgQueueThread are joined; FeiqBackend has stopped.
Join == /\ ui = "join"
        /\ ui' = "idle"
        /\ running' = "no"
        /\ UNCHANGED <<attempt, mStarted, socketVars, tcp, pc, limited, detector, faultVars>>
-----------------------------------------------------------------------------
(* A receiving thread (193-228).  It looks at mSocket anew at every step. *)

Usable == mSocket # 0 /\ fd = "open"

Goes(t, from, to) == pc[t] = from /\ pc' = [pc EXCEPT ![t] = to]

Rest == UNCHANGED <<ui, attempt, running, mStarted, mSocket, fd, tcp, detector, badBind, refused>>

SetTimeout(t) == /\ Usable
                 /\ Goes(t, "setopt", "test")
                 /\ timed' = timed \cup {mSocket}
                 /\ Rest /\ UNCHANGED <<mAsyncMode, limited, broken>>

SetTimeoutFails(t) == /\ ~Usable
                      /\ Goes(t, "setopt", "ending")
                      /\ Rest /\ UNCHANGED <<timed, mAsyncMode, limited, broken>>

Test(t) == /\ Goes(t, "test", IF mSocket # 0 THEN "call" ELSE "ending")
           /\ Rest /\ UNCHANGED <<timed, mAsyncMode, limited, broken>>

\* recvfrom takes the time-out the socket has on entry.
RecvFrom(t) == /\ Usable
               /\ Goes(t, "call", "recv")
               /\ limited' = [limited EXCEPT ![t] = IF mSocket \in timed THEN "yes" ELSE "no"]
               /\ Rest /\ UNCHANGED <<timed, mAsyncMode, broken>>

RecvFromClosed(t) == /\ ~Usable
                     /\ Goes(t, "call", "ending")
                     /\ Rest /\ UNCHANGED <<timed, mAsyncMode, limited, broken>>

RecvAgain == "recv"                                 \* slip: recvfrom again at once
Retested == "test"
RecvTimeout(t) == /\ limited[t] = "yes"
                  /\ Goes(t, "recv", Retested)
                  /\ Rest /\ UNCHANGED <<timed, mAsyncMode, limited, broken>>

RecvData(t) == /\ Goes(t, "recv", "handle")
               /\ Rest /\ UNCHANGED <<timed, mAsyncMode, limited, broken>>

\* Any other error, EINTR for one, ends the thread.
RecvError(t) == /\ Goes(t, "recv", "ending")
                /\ broken' = "yes"
                /\ Rest /\ UNCHANGED <<timed, mAsyncMode, limited>>

Handle(t) == /\ Goes(t, "handle", "test")
             /\ Rest /\ UNCHANGED <<timed, mAsyncMode, limited, broken>>

End(t) == /\ Goes(t, "ending", "ended")
          /\ mAsyncMode' = "no"
          /\ Rest /\ UNCHANGED <<timed, limited, broken>>
-----------------------------------------------------------------------------
(* The detection thread (feiqengine.cpp:708-721): it looks at mStarted before and
   after every sleep; the broadcast changes nothing here. *)

NeverEnds == FALSE                                  \* slip: while (true)
MustEnd == mStarted = "no"
DetectTest == /\ detector = "test"
              /\ detector' = IF MustEnd THEN "ended" ELSE "sleep"
              /\ UNCHANGED <<ui, attempt, running, mStarted, socketVars, tcp, pc, limited,
                             faultVars>>

DetectWake == /\ detector = "sleep"
              /\ detector' = IF MustEnd THEN "ended" ELSE "test"
              /\ UNCHANGED <<ui, attempt, running, mStarted, socketVars, tcp, pc, limited,
                             faultVars>>
-----------------------------------------------------------------------------
Ui == \/ StartAsyncRecv \/ TcpStart \/ TcpFails \/ Run \/ EnableIntervalDetect
      \/ CloseDescriptor \/ ClearSocket \/ Join

Runs(t) == \/ SetTimeout(t) \/ SetTimeoutFails(t) \/ Test(t) \/ RecvFrom(t)
           \/ RecvFromClosed(t) \/ RecvTimeout(t) \/ Handle(t) \/ End(t)

Receiver(t) == Runs(t) \/ RecvData(t) \/ RecvError(t)

RestartNext == \/ Refused \/ NoSocket \/ BindFails \/ Bind \/ StopEngine \/ Ui
               \/ \E t \in Attempts : Receiver(t)
               \/ DetectTest \/ DetectWake

\* Threads run and the time-out of recvfrom strikes; nobody has to start or stop, and
\* nothing has to arrive.
RestartFairness == /\ WF_restartVars(Ui) /\ WF_restartVars(DetectTest) /\ WF_restartVars(DetectWake)
                   /\ \A t \in Attempts : WF_restartVars(Runs(t))

RestartSpec == RestartInit /\ [][RestartNext]_restartVars

RestartFairSpec == RestartSpec /\ RestartFairness
-----------------------------------------------------------------------------
Receiving == {"setopt", "test", "call", "recv", "handle"}

RestartTypeOK ==
  /\ ui \in {"idle", "async", "tcp", "threads", "detect", "close", "clear", "join"}
  /\ attempt \in 0..MaxAttempts /\ mSocket \in 0..MaxAttempts
  /\ running \in {"yes", "no"} /\ mStarted \in {"yes", "no"} /\ tcp \in {"yes", "no"}
  /\ mAsyncMode \in {"yes", "no"} /\ fd \in {"open", "closed"}
  /\ timed \subseteq Attempts
  /\ pc \in [Attempts -> Receiving \cup {"none", "ending", "ended"}]
  /\ limited \in [Attempts -> {"yes", "no"}]
  /\ detector \in {"none", "test", "sleep", "ended"}
  /\ badBind \in {"yes", "no"} /\ refused \in {"yes", "no"} /\ broken \in {"yes", "no"}
  /\ mStarted = "yes" => running = "yes"

(* While the program is up it has a thread that receives, whatever the threads of
   earlier starts are doing to mAsyncMode; only an error of recvfrom ends that. *)
SomeoneReceives == running = "yes" /\ ui = "idle" /\ broken = "no" =>
                     \E t \in Attempts : pc[t] \in Receiving

(* A start is turned away as initialised already only because an earlier bindTo
   failed half way (which no later start gets over); neither a stop nor the
   failure of the file service leaves that behind. *)
RefusedOnlyAfterFailedBind == refused = "yes" => badBind = "yes"

(* Unless there is a new start, a receiving thread whose wait has a limit ends
   once the socket is closed, wherever stop caught it. *)
ReceiverEnds == \A t \in Attempts :
                  (mSocket = 0 /\ pc[t] \in Receiving /\ (pc[t] = "recv" => limited[t] = "yes"))
                    ~> (mSocket # 0 \/ pc[t] = "ended")

(* The detection thread of a stopped engine ends, unless it is started again. *)
DetectorEnds == (mStarted = "no" /\ detector # "none") ~>
                  (mStarted = "yes" \/ detector = "ended")
=============================================================================
