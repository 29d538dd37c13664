------------------------------ MODULE Detection ------------------------------
(***************************************************************************)
(* Object detection on the camera's frames: the streaming thread of the    *)
(* camera puts frames into the worker's mailbox (updateFrame), the worker  *)
(* runs them through the network (DetectionWorker, YoloV5Runner), the      *)
(* user-interface thread shows the results, samples the network's memory   *)
(* and asks for profiles (PerformanceMonitor), and each keeps its own      *)
(* account of a frame's way (m_pendingFrames, m_history).                  *)
(*                                                                         *)
(* Time is left out: a frame may be stale whenever the worker looks, and a *)
(* pending record may be too old whenever somebody prunes.                 *)
(***************************************************************************)
EXTENDS Naturals, Sequences

CONSTANTS MaxFrames,    \* bound: frames captured
          MaxAsked,     \* bound: how often profiles are asked for
          Inferences,   \* how many one snapshot profiles (5 in the program)
          HistorySize   \* kHistorySizeLimit

ASSUME DetectionAssumption == /\ MaxFrames \in Nat /\ MaxAsked \in Nat
                              /\ Inferences \in Nat \ {0} /\ HistorySize \in Nat \ {0}

Frames == 1..MaxFrames
NoCtx == "none"         \* no rknn_context: 0
Modes == {"normal", "perf"}     \* what a context was made for

VARIABLES
  \* the worker's mailbox and event loop
  mHasPending, mPendingPacket, mIsRunning,
  loops,                \* calls of processLoop in the thread's event queue
  mProfilingPending,
  worker,               \* "none", "running", "leaving": told to quit
  pc,                   \* where the worker stands
  packet,               \* the frame it works on, or worked on last
  reinit,               \* what the reload at hand is for: "open", "recover", "close"
  profiling,            \* profilingActive
  inferred,             \* inferenceOk
  ctx, ready,           \* YoloV5Runner::ctx_, by its mode, and ready_
  reloadFailed,         \* some reload failed since the model was loaded
  \* the performance monitor
  npuContext,           \* m_npuContext
  wanted, reports,      \* m_pendingProfilingInferences, m_npuPerfReports
  nextFrameId, pending, history,
  asked,
  unheard,              \* the last request for a profile reached no worker, or left with it
  \* the user-interface thread
  ui,                   \* "loop", or in sampleResourceUsage: the context it queries
  results               \* queued inferenceReady signals

mailbox == <<mHasPending, mPendingPacket, mIsRunning, loops>>
runner == <<ctx, ready, reloadFailed, npuContext>>
work == <<worker, pc, packet, reinit, profiling, inferred>>
profiles == <<mProfilingPending, wanted, reports, asked, unheard>>
frames == <<nextFrameId, pending, history>>
view == <<ui, results>>
detectionVars == <<mailbox, runner, work, profiles, frames, view>>

DetectionInit ==
  /\ mHasPending = FALSE /\ mPendingPacket = 0 /\ mIsRunning = FALSE /\ loops = 0
  /\ worker = "none" /\ pc = "idle" /\ packet = 0 /\ reinit = "close"
  /\ profiling = FALSE /\ inferred = FALSE
  /\ ctx = NoCtx /\ ready = FALSE /\ reloadFailed = FALSE /\ npuContext = NoCtx
  /\ mProfilingPending = FALSE /\ wanted = 0 /\ reports = 0 /\ asked = 0
  /\ unheard = FALSE
  /\ nextFrameId = 1 /\ pending = {} /\ history = <<>>
  /\ ui = "loop" /\ results = <<>>
-----------------------------------------------------------------------------
(* The monitor's account of frames, under m_mutex.  pruneStaleFrames drops what
   was captured more than five seconds ago: any number of the oldest. *)

Pruned(records) == {records \ {f \in records : f < g} : g \in records \cup {MaxFrames + 1}}

\* recordFrameCaptured (119-132).  The new frame is never too old.
Recorded == /\ nextFrameId' = nextFrameId + 1
            /\ \E left \in Pruned(pending) : pending' = left \cup {nextFrameId}
            /\ UNCHANGED history

\* recordDetectionStages (134-164) enters a frame that was pruned meanwhile again.
Redetected(f) == /\ \E left \in Pruned(pending \ {f}) : pending' = left \cup {f}
                 /\ UNCHANGED <<nextFrameId, history>>

\* recordRenderStage (166-219): only a frame that has a record gets into the history.
Limited(h) == IF Len(h) > HistorySize THEN Tail(h) ELSE h
HasRecord(f) == f \in pending
Rendered(f) == /\ IF HasRecord(f)
                  THEN /\ history' = Limited(Append(history, f))
                       /\ pending' = pending \ {f}
                  ELSE UNCHANGED <<history, pending>>
               /\ UNCHANGED nextFrameId
-----------------------------------------------------------------------------
(* The camera's streaming thread: onAppSinkNewSample and updateFrame.  Samples
   that cannot be read return earlier and change nothing. *)

StartsAlways == TRUE                                    \* slip: m_isRunning is not asked
StartsLoop == ~mIsRunning
UpdateFrame(f) == /\ mHasPending' = TRUE
                  /\ mPendingPacket' = f
                  /\ IF StartsLoop
                     THEN mIsRunning' = TRUE /\ loops' = loops + 1
                     ELSE UNCHANGED <<mIsRunning, loops>>

Capture == /\ worker = "running"
           /\ nextFrameId <= MaxFrames
           /\ Recorded
           /\ UpdateFrame(nextFrameId)
           /\ UNCHANGED <<runner, work, profiles, view>>
-----------------------------------------------------------------------------
(* The worker's thread. *)

MutexFree == ui = "loop"                                \* m_npuMutex

GoesOn == mIsRunning                                    \* slip: the flag stays
Rests == FALSE
ProcessLoop ==
  /\ pc = "idle"
  /\ loops > 0
  /\ loops' = loops - 1
  /\ IF mHasPending
     THEN /\ packet' = mPendingPacket
          /\ mHasPending' = FALSE
          /\ pc' = "look"
          /\ UNCHANGED mIsRunning
     ELSE /\ mIsRunning' = Rests
          /\ UNCHANGED <<mHasPending, packet, pc>>
  /\ UNCHANGED <<mPendingPacket, worker, reinit, profiling, inferred, runner, profiles, frames, view>>

\* Not ready, no valid frame, too old or not to be preprocessed: the frame is
\* given up, with at most an error for the status line.
GiveUp == /\ pc = "look"
          /\ pc' = "again"
          /\ UNCHANGED <<mailbox, worker, packet, reinit, profiling, inferred, runner,
                         profiles, frames, view>>

\* Preprocessed; is a profile wanted? (154-242)
TakeProfilingRequest ==
  /\ pc = "look"
  /\ ready
  /\ mProfilingPending' = FALSE
  /\ pc' = IF mProfilingPending THEN "read" ELSE "infer"
  /\ reinit' = IF mProfilingPending THEN "open" ELSE reinit
  /\ UNCHANGED <<mailbox, worker, packet, profiling, inferred, runner, wanted, reports, asked,
                 unheard, frames, view>>

\* submitNpuPerfDetail (258-277): counts down and asks for the next profile.
ForgetsNext == FALSE                                    \* slip: no request for the next
AsksNext == wanted > 1
Submit == /\ MutexFree
          /\ IF wanted > 0
             THEN /\ reports' = reports + 1
                  /\ wanted' = wanted - 1
                  /\ mProfilingPending' = (mProfilingPending \/ AsksNext)
             ELSE UNCHANGED <<reports, wanted, mProfilingPending>>
          /\ UNCHANGED <<asked, unheard>>

(* reinit (222-300): the file is read first; release takes the context from the
   monitor, under m_npuMutex, before it destroys it. *)

\* Back from reinit with a failure (229-240, 267): a failed profile is reported, and
\* a model that is gone loaded again, once.
ReinitFailed ==
  CASE reinit = "open" -> /\ Submit
                          /\ profiling' = FALSE
                          /\ IF ready' THEN pc' = "infer" /\ UNCHANGED reinit
                                       ELSE pc' = "read" /\ reinit' = "recover"
    [] reinit = "recover" -> pc' = "infer" /\ UNCHANGED <<reinit, profiling, profiles>>
    [] reinit = "close" -> pc' = "finish" /\ UNCHANGED <<reinit, profiling, profiles>>

ReadFails == /\ pc = "read"
             /\ reloadFailed' = TRUE
             /\ UNCHANGED <<ctx, ready, npuContext>>
             /\ ReinitFailed
             /\ UNCHANGED <<mailbox, worker, packet, inferred, frames, view>>

\* release (90-106).  Without a context there is nothing to take back.
KeptByMonitor == npuContext                             \* slip: no setNpuContext(0)
TakenFromMonitor == NoCtx
ReadModel == /\ pc = "read"
             /\ IF ctx = NoCtx THEN UNCHANGED npuContext
                               ELSE MutexFree /\ npuContext' = TakenFromMonitor
             /\ pc' = "destroy"
             /\ UNCHANGED <<mailbox, worker, packet, reinit, profiling, inferred, ctx, ready,
                            reloadFailed, profiles, frames, view>>

Destroy == /\ pc = "destroy"
           /\ ctx' = NoCtx
           /\ ready' = FALSE
           /\ pc' = "init"
           /\ UNCHANGED <<mailbox, worker, packet, reinit, profiling, inferred, reloadFailed,
                          npuContext, profiles, frames, view>>

\* rknn_init or a query failed (241-253).
InitFails == /\ pc = "init"
             /\ reloadFailed' = TRUE
             /\ UNCHANGED <<ctx, ready, npuContext>>
             /\ ReinitFailed
             /\ UNCHANGED <<mailbox, worker, packet, inferred, frames, view>>

PerfFlag(r) == IF r = "open" THEN "perf" ELSE "normal"
InitModel == /\ pc = "init"
             /\ ctx' = PerfFlag(reinit)
             /\ ready' = TRUE
             /\ pc' = "publish"
             /\ UNCHANGED <<mailbox, worker, packet, reinit, profiling, inferred, reloadFailed,
                            npuContext, profiles, frames, view>>

\* setNpuContext (298), and back from reinit with success.
Publish == /\ pc = "publish"
           /\ MutexFree
           /\ npuContext' = ctx
           /\ reloadFailed' = FALSE
           /\ profiling' = (reinit = "open")
           /\ pc' = IF reinit = "close" THEN "finish" ELSE "infer"
           /\ UNCHANGED <<mailbox, worker, packet, reinit, inferred, ctx, ready, profiles,
                          frames, view>>

\* inferFromRgbBuffer (391-596) and the end of a profile (258-268).
StaysInPerfMode == "finish"                             \* slip: no reinit(false)
AfterProfile == "read"
Infer == /\ pc = "infer"
         /\ inferred' \in IF ready THEN BOOLEAN ELSE {FALSE}
         /\ IF profiling
            THEN /\ Submit
                 /\ pc' = AfterProfile
                 /\ reinit' = "close"
            ELSE /\ pc' = "finish"
                 /\ UNCHANGED <<reinit, profiles>>
         /\ UNCHANGED <<mailbox, worker, packet, profiling, runner, frames, view>>

\* 270-342.  The image may be null: the display conversion needs the RGA.
Finish == /\ pc = "finish"
          /\ pc' = "again"
          /\ profiling' = FALSE /\ inferred' = FALSE /\ reinit' = "close"     \* locals
          /\ IF inferred
             THEN /\ Redetected(packet)
                  /\ \E image \in BOOLEAN :
                       results' = Append(results, [frame |-> packet, image |-> image])
             ELSE UNCHANGED <<frames, results>>
          /\ UNCHANGED <<mailbox, worker, packet, runner, profiles, ui>>

Again == /\ pc = "again"
         /\ loops' = loops + 1
         /\ pc' = "idle"
         /\ UNCHANGED <<mHasPending, mPendingPacket, mIsRunning, worker, packet, reinit, profiling,
                        inferred, runner, profiles, frames, view>>

\* The event loop was told to quit: what is in the mailbox and the queue goes with
\* the worker, whose runner releases the model (88), and the signals to the dialog
\* with the dialog, which waits for this.
WorkerLeaves ==
  /\ worker = "leaving" /\ pc = "idle"
  /\ worker' = "none"
  /\ mHasPending' = FALSE /\ mIsRunning' = FALSE /\ loops' = 0 /\ mProfilingPending' = FALSE
  /\ ctx' = NoCtx /\ ready' = FALSE /\ npuContext' = NoCtx /\ reloadFailed' = FALSE
  /\ unheard' = TRUE
  /\ results' = <<>>
  /\ UNCHANGED <<mPendingPacket, pc, packet, reinit, profiling, inferred, wanted, reports, asked,
                 frames, ui>>

WorkerStep == ProcessLoop \/ GiveUp \/ TakeProfilingRequest \/ ReadFails \/ ReadModel \/ Destroy
              \/ InitFails \/ InitModel \/ Publish \/ Infer \/ Finish \/ Again \/ WorkerLeaves
-----------------------------------------------------------------------------
(* The user-interface thread, one handler at a time. *)

\* It is not in a handler, nor waiting for the worker's thread to end.
UiFree == ui = "loop" /\ worker # "leaving"

\* ensureDetectionWorker (860-897): a model that cannot be loaded leaves nothing.
LoadWorker == /\ UiFree
              /\ worker = "none"
              /\ worker' = "running"
              /\ ctx' = "normal" /\ ready' = TRUE /\ npuContext' = "normal"
              /\ UNCHANGED <<mailbox, pc, packet, reinit, profiling, inferred, reloadFailed,
                             profiles, frames, view>>

\* disposeDetectionWorker (899-911): quit, then wait.
DisposeWorker == /\ UiFree
                 /\ worker = "running"
                 /\ worker' = "leaving"
                 /\ UNCHANGED <<mailbox, runner, pc, packet, reinit, profiling, inferred, profiles,
                                frames, view>>

\* onInferenceFrameReady (940-966).
OnInferenceFrameReady ==
  /\ UiFree
  /\ results # <<>>
  /\ results' = Tail(results)
  /\ IF Head(results).image
     THEN Rendered(Head(results).frame)
     ELSE UNCHANGED frames
  /\ UNCHANGED <<mailbox, runner, work, profiles, ui>>

\* sampleResourceUsage (602-633, 710-713) holds m_npuMutex during its query.
SampleBegin == /\ UiFree
               /\ ui' = npuContext
               /\ UNCHANGED <<mailbox, runner, work, profiles, frames, results>>

SampleEnd == /\ ui # "loop"
             /\ ui' = "loop"
             /\ pending' \in Pruned(pending)
             /\ UNCHANGED <<mailbox, runner, work, profiles, nextFrameId, history, results>>

\* The signal profilingRequested reaches a worker that exists, directly.
RequestProfiling == /\ mProfilingPending' = (worker = "running")
                    /\ unheard' = (worker # "running")

\* The button of the analysis (PerformanceAnalyticsDialog.cpp:212-217).
Analyze == /\ UiFree
           /\ asked < MaxAsked
           /\ asked' = asked + 1
           /\ RequestProfiling
           /\ UNCHANGED <<mailbox, runner, work, wanted, reports, frames, view>>

\* triggerNpuProfiling (801-813), for a snapshot.
TriggerNpuProfiling == /\ UiFree
                       /\ asked < MaxAsked
                       /\ asked' = asked + 1
                       /\ wanted' = Inferences
                       /\ reports' = 0
                       /\ RequestProfiling
                       /\ UNCHANGED <<mailbox, runner, work, frames, view>>

UiStep == LoadWorker \/ DisposeWorker \/ OnInferenceFrameReady \/ SampleBegin \/ SampleEnd
          \/ Analyze \/ TriggerNpuProfiling

DetectionNext == Capture \/ WorkerStep \/ UiStep

DetectionSpec == DetectionInit /\ [][DetectionNext]_detectionVars
-----------------------------------------------------------------------------
WorkerTypes ==
  /\ mHasPending \in BOOLEAN /\ mPendingPacket \in Frames \cup {0} /\ mIsRunning \in BOOLEAN
  /\ loops \in Nat /\ worker \in {"none", "running", "leaving"}
  /\ pc \in {"idle", "look", "read", "destroy", "init", "publish", "infer", "finish", "again"}
  /\ packet \in Frames \cup {0} /\ reinit \in {"open", "recover", "close"}
  /\ profiling \in BOOLEAN /\ inferred \in BOOLEAN
  /\ ctx \in Modes \cup {NoCtx} /\ npuContext \in Modes \cup {NoCtx}
  /\ ready \in BOOLEAN /\ reloadFailed \in BOOLEAN
  /\ mProfilingPending \in BOOLEAN /\ wanted \in 0..Inferences /\ reports \in 0..Inferences
  /\ unheard \in BOOLEAN /\ nextFrameId \in 1..(MaxFrames + 1)
  /\ ui \in {"loop", NoCtx} \cup Modes

TypeOK == /\ WorkerTypes
          /\ asked \in 0..MaxAsked /\ pending \subseteq Frames /\ history \in Seq(Frames)
          /\ results \in Seq([frame : Frames, image : BOOLEAN])

(* The flag m_isRunning and the calls of processLoop agree: while it is set there is
   exactly one call, queued or being made, and while a frame waits it is set.  Two
   calls would run the loop at double pace for ever, none would leave the frame
   until the next one comes. *)
OneLoop == /\ worker # "none" => loops + (IF pc = "idle" THEN 0 ELSE 1) = (IF mIsRunning THEN 1 ELSE 0)
           /\ mHasPending => mIsRunning

(* The sampler only ever queries a context that is alive, though the worker destroys
   and makes contexts in another thread (YoloV5Runner.cpp:93, PerformanceMonitor.cpp:603). *)
QueriesLiveContext == ui \in Modes => ui = ctx

(* Between frames the model is loaded, and not in the slow profiling mode, unless the
   last reload failed (YoloV5Runner.cpp:229: a file that cannot be read leaves the
   profiling context in use). *)
ModelIsBack == worker # "none" /\ pc \in {"idle", "look", "again"} /\ ~reloadFailed
                 => ready /\ ctx = "normal"

(* A snapshot that wants profiles has as many as it asked for, or is on its way to
   the next: no request is forgotten while a worker lives, whatever the failures,
   other requests and new triggers between. *)
ProfileAtHand == profiling \/ (pc \in {"read", "destroy", "init", "publish"} /\ reinit = "open")
EveryProfileIsReported == /\ reports + wanted \in {0, Inferences}
                          /\ wanted > 0 /\ ~unheard => mProfilingPending \/ ProfileAtHand

Ascending(s) == \A i \in 1..(Len(s) - 1) : s[i] < s[i + 1]
Worked == IF pc \in {"idle", "again"} THEN <<>> ELSE <<packet>>
Waiting == IF mHasPending THEN <<mPendingPacket>> ELSE <<>>

(* The mailbox is what its comment says: see Mailbox. *)
MB == INSTANCE Mailbox WITH slot <- IF mHasPending THEN mPendingPacket ELSE 0, taken <- packet
ImplementsMailbox == MB!Spec
=============================================================================
