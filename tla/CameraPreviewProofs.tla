------------------------ MODULE CameraPreviewProofs ------------------------
(***************************************************************************)
(* Proofs about the detection worker under the camera preview, for any     *)
(* number of frames, profiles and devices.  The dialog does nothing to the *)
(* worker that Detection has not, so the invariants are proved of the      *)
(* steps of Detection and carried over.                                    *)
(***************************************************************************)
EXTENDS CameraPreview, TLAPS

LEMMA StepsOfDetection == [PreviewNext]_previewVars => [DetectionNext]_detectionVars
<1> SUFFICES ASSUME [PreviewNext]_previewVars PROVE [DetectionNext]_detectionVars
  OBVIOUS
<1> USE DEF DetectionNext
<1>1. CASE GstAdvances \/ GstFails \/ Open \/ Close \/ BusFailure \/ BusStateChanged \/ ClickStop
  BY <1>1 DEF GstAdvances, GstFails, Open, Close, BusFailure, BusStateChanged, ClickStop
<1>2. CASE Film
  BY <1>2 DEF Film
<1>3. CASE Work
  BY <1>3 DEF Work
<1>4. CASE ClickStart
  BY <1>4 DEF ClickStart, PipelineStarts, StartFails, UiStep
<1>5. CASE \E d \in Devices : DeviceChanged(d)
  BY <1>5 DEF DeviceChanged, PipelineStarts, StartFails, UiStep
<1>6. CASE Show
  BY <1>6 DEF Show, UiStep
<1>7. CASE Delete
  BY <1>7 DEF Delete, UiStep
<1>8. CASE Elsewhere
  BY <1>8 DEF Elsewhere, UiStep
<1>9. CASE UNCHANGED previewVars
  BY <1>9 DEF previewVars
<1>10. QED BY <1>1, <1>2, <1>3, <1>4, <1>5, <1>6, <1>7, <1>8, <1>9 DEF PreviewNext
-----------------------------------------------------------------------------
(* What the steps below need of the types. *)
Types == /\ reinit \in {"open", "recover", "close"}
         /\ loops \in Nat /\ wanted \in Nat /\ reports \in Nat
         /\ packet \in Nat /\ mPendingPacket \in Nat /\ nextFrameId \in Nat \ {0}

(* One call of processLoop while the flag is set, counted with the one being made; none
   without a worker. *)
Busy == IF pc = "idle" THEN 0 ELSE 1
LoopInv == /\ loops + Busy = (IF mIsRunning THEN 1 ELSE 0)
           /\ mHasPending => mIsRunning
           /\ worker = "none" => ~mIsRunning

(* The monitor has the runner's context or none; while a context is taken down and made
   anew, nobody queries one.  A worker that is waited for is not sampled beside. *)
ContextInv == /\ npuContext \in {NoCtx, ctx}
              /\ pc \in {"destroy", "init", "publish"} => npuContext = NoCtx /\ ui \notin Modes
              /\ ui \in Modes => ui = ctx
              /\ worker = "leaving" => ui = "loop"

(* Where a profile is not at hand, the model is the normal one, or a reload failed. *)
Ordinary == \/ pc \in {"idle", "look", "finish", "again"}
            \/ pc = "infer" /\ ~profiling
ModelInv == /\ worker # "none" /\ ~reloadFailed /\ Ordinary => ready /\ ctx = "normal"
            /\ pc = "publish" => ready /\ ctx = PerfFlag(reinit)

(* The request for the next profile is there, but for the time between its being taken
   and the result being submitted. *)
ProfileUnderWay == \/ pc \in {"read", "destroy", "init", "publish"} /\ reinit = "open"
                   \/ pc = "infer" /\ profiling
ProfileInv == /\ reports + wanted \in {0, Inferences}
              /\ wanted > 0 /\ ~unheard => mProfilingPending \/ ProfileUnderWay

(* The next frame's number is above those on their way. *)
OrderInv == mPendingPacket < nextFrameId /\ packet < nextFrameId /\ (mHasPending => packet < mPendingPacket)

IInv == Types /\ LoopInv /\ ContextInv /\ ModelInv /\ ProfileInv /\ OrderInv

(* A failed reload, whatever it was for. *)
Failed == /\ pc \in {"read", "init"} /\ reloadFailed'
          /\ UNCHANGED <<mailbox, worker, packet, inferred, ctx, ready, npuContext, frames, view>>
          /\ \/ /\ reinit = "open" /\ Submit /\ ~profiling'
                \/ /\ reinit # "open" /\ UNCHANGED <<profiling, profiles>>
          /\ \/ pc' = "infer" /\ ready /\ reinit' = "open" /\ reinit = "open"
             \/ pc' = "read" /\ reinit' = "recover" /\ reinit = "open"
             \/ pc' = "infer" /\ reinit = "recover" /\ reinit' = "recover"
             \/ pc' = "finish" /\ reinit = "close" /\ reinit' = "close"

LEMMA FailureIs == reinit \in {"open", "recover", "close"} /\ (ReadFails \/ InitFails) => Failed
<1> SUFFICES ASSUME reinit \in {"open", "recover", "close"}, ReadFails \/ InitFails PROVE Failed
  OBVIOUS
<1> USE DEF ReadFails, InitFails, ReinitFailed, Failed, profiles
<1>1. CASE reinit = "open"
  BY <1>1
<1>2. CASE reinit = "recover"
  BY <1>2
<1>3. CASE reinit = "close"
  BY <1>3
<1>4. QED BY <1>1, <1>2, <1>3

(* What a submitted profile does to the account. *)
LEMMA SubmitTypes == Types /\ Submit => wanted' \in Nat /\ reports' \in Nat
BY DEF Types, Submit

LEMMA SubmitCounts == Types /\ ProfileInv /\ Submit =>
                         /\ reports' + wanted' \in {0, Inferences}
                         /\ wanted > 0 /\ wanted' > 0 => mProfilingPending'
                         /\ wanted = 0 => wanted' = 0
                         /\ unheard' = unheard
<1> SUFFICES ASSUME Types, ProfileInv, Submit
             PROVE /\ reports' + wanted' \in {0, Inferences}
                   /\ wanted > 0 /\ wanted' > 0 => mProfilingPending'
                   /\ wanted = 0 => wanted' = 0
                   /\ unheard' = unheard
  OBVIOUS
<1> USE DEF Types, Submit
<1>1. CASE wanted > 0
  <2>1. reports' = reports + 1 /\ wanted' = wanted - 1
    BY <1>1
  <2>2. reports' + wanted' = reports + wanted
    BY <2>1
  <2>3. wanted' > 0 => AsksNext
    BY <2>1 DEF AsksNext
  <2>4. mProfilingPending' = (mProfilingPending \/ AsksNext)
    BY <1>1
  <2>5. wanted' > 0 => mProfilingPending'
    BY <2>3, <2>4, Zenon
  <2>6. QED BY <1>1, <2>2, <2>5 DEF ProfileInv
<1>2. CASE ~(wanted > 0)
  BY <1>2 DEF ProfileInv
<1>3. QED BY <1>1, <1>2

LEMMA TypesStep == Types /\ [DetectionNext]_detectionVars => Types'
<1> SUFFICES ASSUME Types, [DetectionNext]_detectionVars PROVE Types'
  OBVIOUS
<1> USE DetectionAssumption DEF Types,
           mailbox, runner, work, profiles, frames, view, detectionVars
<1>1. CASE Capture
  BY <1>1 DEF Capture, Recorded, UpdateFrame, StartsLoop
<1>2. CASE ProcessLoop
  BY <1>2 DEF ProcessLoop, Rests
<1>3. CASE GiveUp
  BY <1>3 DEF GiveUp
<1>4. CASE TakeProfilingRequest
  BY <1>4 DEF TakeProfilingRequest
<1>5. CASE ReadFails
  BY <1>5, FailureIs, SubmitTypes DEF Failed
<1>6. CASE ReadModel
  BY <1>6 DEF ReadModel, TakenFromMonitor, MutexFree
<1>7. CASE Destroy
  BY <1>7 DEF Destroy
<1>8. CASE InitFails
  BY <1>8, FailureIs, SubmitTypes DEF Failed
<1>9. CASE InitModel
  BY <1>9 DEF InitModel, PerfFlag
<1>10. CASE Publish
  BY <1>10 DEF Publish, MutexFree
<1>11. CASE Infer
  BY <1>11, SubmitTypes DEF Infer, AfterProfile
<1>12. CASE Finish
  BY <1>12 DEF Finish, Redetected
<1>13. CASE Again
  BY <1>13 DEF Again
<1>14. CASE WorkerLeaves
  BY <1>14 DEF WorkerLeaves
<1>15. CASE LoadWorker
  BY <1>15 DEF LoadWorker, UiFree
<1>16. CASE DisposeWorker
  BY <1>16 DEF DisposeWorker, UiFree
<1>17. CASE OnInferenceFrameReady
  BY <1>17 DEF OnInferenceFrameReady, UiFree, Rendered
<1>18. CASE SampleBegin
  BY <1>18 DEF SampleBegin, UiFree
<1>19. CASE SampleEnd
  BY <1>19 DEF SampleEnd
<1>20. CASE Analyze
  BY <1>20 DEF Analyze, UiFree, RequestProfiling
<1>21. CASE TriggerNpuProfiling
  BY <1>21 DEF TriggerNpuProfiling, UiFree, RequestProfiling
<1>22. CASE UNCHANGED detectionVars
  BY <1>22
<1>23. QED
  BY <1>1, <1>2, <1>3, <1>4, <1>5, <1>6, <1>7, <1>8, <1>9, <1>10, <1>11,
     <1>12, <1>13, <1>14, <1>15, <1>16, <1>17, <1>18, <1>19, <1>20, <1>21, <1>22
     DEF DetectionNext, WorkerStep, UiStep

LEMMA LoopStep == Types /\ LoopInv /\ [DetectionNext]_detectionVars => LoopInv'
<1> SUFFICES ASSUME Types, LoopInv, [DetectionNext]_detectionVars PROVE LoopInv'
  OBVIOUS
<1> USE DetectionAssumption DEF Types, LoopInv, Busy,
           mailbox, runner, work, profiles, frames, view, detectionVars
<1>1. CASE Capture
  BY <1>1 DEF Capture, Recorded, UpdateFrame, StartsLoop
<1>2. CASE ProcessLoop
  BY <1>2 DEF ProcessLoop, Rests
<1>3. CASE GiveUp
  BY <1>3 DEF GiveUp
<1>4. CASE TakeProfilingRequest
  BY <1>4 DEF TakeProfilingRequest
<1>5. CASE ReadFails
  BY <1>5, FailureIs DEF Failed, Submit, AsksNext, MutexFree
<1>6. CASE ReadModel
  BY <1>6 DEF ReadModel, TakenFromMonitor, MutexFree
<1>7. CASE Destroy
  BY <1>7 DEF Destroy
<1>8. CASE InitFails
  BY <1>8, FailureIs DEF Failed, Submit, AsksNext, MutexFree
<1>9. CASE InitModel
  BY <1>9 DEF InitModel, PerfFlag
<1>10. CASE Publish
  BY <1>10 DEF Publish, MutexFree
<1>11. CASE Infer
  BY <1>11 DEF Infer, Submit, AsksNext, MutexFree, AfterProfile
<1>12. CASE Finish
  BY <1>12 DEF Finish, Redetected
<1>13. CASE Again
  BY <1>13 DEF Again
<1>14. CASE WorkerLeaves
  BY <1>14 DEF WorkerLeaves
<1>15. CASE LoadWorker
  BY <1>15 DEF LoadWorker, UiFree
<1>16. CASE DisposeWorker
  BY <1>16 DEF DisposeWorker, UiFree
<1>17. CASE OnInferenceFrameReady
  BY <1>17 DEF OnInferenceFrameReady, UiFree, Rendered
<1>18. CASE SampleBegin
  BY <1>18 DEF SampleBegin, UiFree
<1>19. CASE SampleEnd
  BY <1>19 DEF SampleEnd
<1>20. CASE Analyze
  BY <1>20 DEF Analyze, UiFree, RequestProfiling
<1>21. CASE TriggerNpuProfiling
  BY <1>21 DEF TriggerNpuProfiling, UiFree, RequestProfiling
<1>22. CASE UNCHANGED detectionVars
  BY <1>22
<1>23. QED
  BY <1>1, <1>2, <1>3, <1>4, <1>5, <1>6, <1>7, <1>8, <1>9, <1>10, <1>11,
     <1>12, <1>13, <1>14, <1>15, <1>16, <1>17, <1>18, <1>19, <1>20, <1>21, <1>22
     DEF DetectionNext, WorkerStep, UiStep

LEMMA ContextStep == Types /\ LoopInv /\ ContextInv /\ [DetectionNext]_detectionVars => ContextInv'
<1> SUFFICES ASSUME Types, LoopInv, ContextInv, [DetectionNext]_detectionVars PROVE ContextInv'
  OBVIOUS
<1> USE DetectionAssumption DEF Types, LoopInv, Busy, ContextInv, Modes, NoCtx,
           mailbox, runner, work, profiles, frames, view, detectionVars
<1>1. CASE Capture
  BY <1>1 DEF Capture, Recorded, UpdateFrame, StartsLoop
<1>2. CASE ProcessLoop
  BY <1>2 DEF ProcessLoop, Rests
<1>3. CASE GiveUp
  BY <1>3 DEF GiveUp
<1>4. CASE TakeProfilingRequest
  BY <1>4 DEF TakeProfilingRequest
<1>5. CASE ReadFails
  BY <1>5, FailureIs DEF Failed, Submit, AsksNext, MutexFree
<1>6. CASE ReadModel
  BY <1>6 DEF ReadModel, TakenFromMonitor, MutexFree
<1>7. CASE Destroy
  BY <1>7 DEF Destroy
<1>8. CASE InitFails
  BY <1>8, FailureIs DEF Failed, Submit, AsksNext, MutexFree
<1>9. CASE InitModel
  BY <1>9 DEF InitModel, PerfFlag
<1>10. CASE Publish
  BY <1>10 DEF Publish, MutexFree
<1>11. CASE Infer
  BY <1>11 DEF Infer, Submit, AsksNext, MutexFree, AfterProfile
<1>12. CASE Finish
  BY <1>12 DEF Finish, Redetected
<1>13. CASE Again
  BY <1>13 DEF Again
<1>14. CASE WorkerLeaves
  BY <1>14 DEF WorkerLeaves
<1>15. CASE LoadWorker
  BY <1>15 DEF LoadWorker, UiFree
<1>16. CASE DisposeWorker
  BY <1>16 DEF DisposeWorker, UiFree
<1>17. CASE OnInferenceFrameReady
  BY <1>17 DEF OnInferenceFrameReady, UiFree, Rendered
<1>18. CASE SampleBegin
  BY <1>18 DEF SampleBegin, UiFree
<1>19. CASE SampleEnd
  BY <1>19 DEF SampleEnd
<1>20. CASE Analyze
  BY <1>20 DEF Analyze, UiFree, RequestProfiling
<1>21. CASE TriggerNpuProfiling
  BY <1>21 DEF TriggerNpuProfiling, UiFree, RequestProfiling
<1>22. CASE UNCHANGED detectionVars
  BY <1>22
<1>23. QED
  BY <1>1, <1>2, <1>3, <1>4, <1>5, <1>6, <1>7, <1>8, <1>9, <1>10, <1>11,
     <1>12, <1>13, <1>14, <1>15, <1>16, <1>17, <1>18, <1>19, <1>20, <1>21, <1>22
     DEF DetectionNext, WorkerStep, UiStep

LEMMA ModelStep == Types /\ LoopInv /\ ModelInv /\ [DetectionNext]_detectionVars => ModelInv'
<1> SUFFICES ASSUME Types, LoopInv, ModelInv, [DetectionNext]_detectionVars PROVE ModelInv'
  OBVIOUS
<1> USE DetectionAssumption DEF Types, LoopInv, Busy, ModelInv, Ordinary, PerfFlag,
           mailbox, runner, work, profiles, frames, view, detectionVars
<1>1. CASE Capture
  BY <1>1 DEF Capture, Recorded, UpdateFrame, StartsLoop
<1>2. CASE ProcessLoop
  BY <1>2 DEF ProcessLoop, Rests
<1>3. CASE GiveUp
  BY <1>3 DEF GiveUp
<1>4. CASE TakeProfilingRequest
  BY <1>4 DEF TakeProfilingRequest
<1>5. CASE ReadFails
  BY <1>5, FailureIs DEF Failed, Submit, AsksNext, MutexFree
<1>6. CASE ReadModel
  BY <1>6 DEF ReadModel, TakenFromMonitor, MutexFree
<1>7. CASE Destroy
  BY <1>7 DEF Destroy
<1>8. CASE InitFails
  BY <1>8, FailureIs DEF Failed, Submit, AsksNext, MutexFree
<1>9. CASE InitModel
  BY <1>9 DEF InitModel, PerfFlag
<1>10. CASE Publish
  BY <1>10 DEF Publish, MutexFree
<1>11. CASE Infer
  BY <1>11 DEF Infer, Submit, AsksNext, MutexFree, AfterProfile
<1>12. CASE Finish
  BY <1>12 DEF Finish, Redetected
<1>13. CASE Again
  BY <1>13 DEF Again
<1>14. CASE WorkerLeaves
  BY <1>14 DEF WorkerLeaves
<1>15. CASE LoadWorker
  BY <1>15 DEF LoadWorker, UiFree
<1>16. CASE DisposeWorker
  BY <1>16 DEF DisposeWorker, UiFree
<1>17. CASE OnInferenceFrameReady
  BY <1>17 DEF OnInferenceFrameReady, UiFree, Rendered
<1>18. CASE SampleBegin
  BY <1>18 DEF SampleBegin, UiFree
<1>19. CASE SampleEnd
  BY <1>19 DEF SampleEnd
<1>20. CASE Analyze
  BY <1>20 DEF Analyze, UiFree, RequestProfiling
<1>21. CASE TriggerNpuProfiling
  BY <1>21 DEF TriggerNpuProfiling, UiFree, RequestProfiling
<1>22. CASE UNCHANGED detectionVars
  BY <1>22
<1>23. QED
  BY <1>1, <1>2, <1>3, <1>4, <1>5, <1>6, <1>7, <1>8, <1>9, <1>10, <1>11,
     <1>12, <1>13, <1>14, <1>15, <1>16, <1>17, <1>18, <1>19, <1>20, <1>21, <1>22
     DEF DetectionNext, WorkerStep, UiStep

LEMMA ProfileStep == Types /\ ProfileInv /\ [DetectionNext]_detectionVars => ProfileInv'
<1> SUFFICES ASSUME Types, ProfileInv, [DetectionNext]_detectionVars PROVE ProfileInv'
  OBVIOUS
<1> USE DetectionAssumption DEF Types, ProfileInv, ProfileUnderWay,
           mailbox, runner, work, profiles, frames, view, detectionVars
<1>1. CASE Capture
  BY <1>1 DEF Capture, Recorded, UpdateFrame, StartsLoop
<1>2. CASE ProcessLoop
  BY <1>2 DEF ProcessLoop, Rests
<1>3. CASE GiveUp
  BY <1>3 DEF GiveUp
<1>4. CASE TakeProfilingRequest
  BY <1>4 DEF TakeProfilingRequest
<1>5. CASE ReadFails
  BY <1>5, FailureIs, SubmitCounts DEF Failed
<1>6. CASE ReadModel
  BY <1>6 DEF ReadModel, TakenFromMonitor, MutexFree
<1>7. CASE Destroy
  BY <1>7 DEF Destroy
<1>8. CASE InitFails
  BY <1>8, FailureIs, SubmitCounts DEF Failed
<1>9. CASE InitModel
  BY <1>9 DEF InitModel, PerfFlag
<1>10. CASE Publish
  BY <1>10 DEF Publish, MutexFree
<1>11. CASE Infer
  BY <1>11, SubmitCounts DEF Infer, AfterProfile
<1>12. CASE Finish
  BY <1>12 DEF Finish, Redetected
<1>13. CASE Again
  BY <1>13 DEF Again
<1>14. CASE WorkerLeaves
  BY <1>14 DEF WorkerLeaves
<1>15. CASE LoadWorker
  BY <1>15 DEF LoadWorker, UiFree
<1>16. CASE DisposeWorker
  BY <1>16 DEF DisposeWorker, UiFree
<1>17. CASE OnInferenceFrameReady
  BY <1>17 DEF OnInferenceFrameReady, UiFree, Rendered
<1>18. CASE SampleBegin
  BY <1>18 DEF SampleBegin, UiFree
<1>19. CASE SampleEnd
  BY <1>19 DEF SampleEnd
<1>20. CASE Analyze
  BY <1>20 DEF Analyze, UiFree, RequestProfiling
<1>21. CASE TriggerNpuProfiling
  <2>1. reports' + wanted' = Inferences
    BY <1>21 DEF TriggerNpuProfiling
  <2>2. CASE worker = "running"
    <3>1. mProfilingPending'
      BY <1>21, <2>2 DEF TriggerNpuProfiling, RequestProfiling
    <3>2. QED BY <2>1, <3>1
  <2>3. CASE worker # "running"
    <3>1. unheard'
      BY <1>21, <2>3 DEF TriggerNpuProfiling, RequestProfiling
    <3>2. QED BY <2>1, <3>1
  <2>4. QED BY <2>2, <2>3
<1>22. CASE UNCHANGED detectionVars
  BY <1>22
<1>23. QED
  BY <1>1, <1>2, <1>3, <1>4, <1>5, <1>6, <1>7, <1>8, <1>9, <1>10, <1>11,
     <1>12, <1>13, <1>14, <1>15, <1>16, <1>17, <1>18, <1>19, <1>20, <1>21, <1>22
     DEF DetectionNext, WorkerStep, UiStep

LEMMA OrderStep == Types /\ OrderInv /\ [DetectionNext]_detectionVars => OrderInv'
<1> SUFFICES ASSUME Types, OrderInv, [DetectionNext]_detectionVars PROVE OrderInv'
  OBVIOUS
<1> USE DetectionAssumption DEF Types, OrderInv, Frames,
           mailbox, runner, work, profiles, frames, view, detectionVars
<1>1. CASE Capture
  BY <1>1 DEF Capture, Recorded, UpdateFrame, StartsLoop
<1>2. CASE ProcessLoop
  BY <1>2 DEF ProcessLoop, Rests
<1>3. CASE GiveUp
  BY <1>3 DEF GiveUp
<1>4. CASE TakeProfilingRequest
  BY <1>4 DEF TakeProfilingRequest
<1>5. CASE ReadFails
  BY <1>5, FailureIs DEF Failed, Submit, AsksNext, MutexFree
<1>6. CASE ReadModel
  BY <1>6 DEF ReadModel, TakenFromMonitor, MutexFree
<1>7. CASE Destroy
  BY <1>7 DEF Destroy
<1>8. CASE InitFails
  BY <1>8, FailureIs DEF Failed, Submit, AsksNext, MutexFree
<1>9. CASE InitModel
  BY <1>9 DEF InitModel, PerfFlag
<1>10. CASE Publish
  BY <1>10 DEF Publish, MutexFree
<1>11. CASE Infer
  BY <1>11 DEF Infer, Submit, AsksNext, MutexFree, AfterProfile
<1>12. CASE Finish
  BY <1>12 DEF Finish, Redetected
<1>13. CASE Again
  BY <1>13 DEF Again
<1>14. CASE WorkerLeaves
  BY <1>14 DEF WorkerLeaves
<1>15. CASE LoadWorker
  BY <1>15 DEF LoadWorker, UiFree
<1>16. CASE DisposeWorker
  BY <1>16 DEF DisposeWorker, UiFree
<1>17. CASE OnInferenceFrameReady
  BY <1>17 DEF OnInferenceFrameReady, UiFree, Rendered
<1>18. CASE SampleBegin
  BY <1>18 DEF SampleBegin, UiFree
<1>19. CASE SampleEnd
  BY <1>19 DEF SampleEnd
<1>20. CASE Analyze
  BY <1>20 DEF Analyze, UiFree, RequestProfiling
<1>21. CASE TriggerNpuProfiling
  BY <1>21 DEF TriggerNpuProfiling, UiFree, RequestProfiling
<1>22. CASE UNCHANGED detectionVars
  BY <1>22
<1>23. QED
  BY <1>1, <1>2, <1>3, <1>4, <1>5, <1>6, <1>7, <1>8, <1>9, <1>10, <1>11,
     <1>12, <1>13, <1>14, <1>15, <1>16, <1>17, <1>18, <1>19, <1>20, <1>21, <1>22
     DEF DetectionNext, WorkerStep, UiStep
-----------------------------------------------------------------------------
LEMMA InitIInv == PreviewInit => IInv
<1> SUFFICES ASSUME PreviewInit PROVE IInv
  OBVIOUS
<1> USE DEF PreviewInit, DetectionInit
<1>1. Types
  BY DEF Types
<1>2. LoopInv
  BY DEF LoopInv, Busy
<1>3. ContextInv
  BY DEF ContextInv, Modes, NoCtx
<1>4. ModelInv
  BY DEF ModelInv
<1>5. ProfileInv
  BY DEF ProfileInv
<1>6. OrderInv
  BY DEF OrderInv
<1>7. QED BY <1>1, <1>2, <1>3, <1>4, <1>5, <1>6 DEF IInv

LEMMA NextIInv == IInv /\ [PreviewNext]_previewVars => IInv'
BY StepsOfDetection, TypesStep, LoopStep, ContextStep, ModelStep, ProfileStep, OrderStep DEF IInv

LEMMA Inductive == PreviewSpec => []IInv
BY InitIInv, NextIInv, PTL DEF PreviewSpec

(* However often the camera, a new model and the end of a worker come between, there is
   one call of processLoop while the flag is set, and none while it is not. *)
THEOREM LoopsOnce == PreviewSpec => []OneLoop
<1>1. IInv => OneLoop
  BY DEF IInv, LoopInv, Busy, OneLoop
<1>2. QED BY <1>1, Inductive, PTL

(* The sampler never queries a context that the worker's thread has destroyed. *)
THEOREM ContextLives == PreviewSpec => []QueriesLiveContext
<1>1. IInv => QueriesLiveContext
  BY DEF IInv, ContextInv, QueriesLiveContext
<1>2. QED BY <1>1, Inductive, PTL

(* After a profile the detection goes on with the model it had before. *)
THEOREM ModelReturns == PreviewSpec => []ModelIsBack
<1>1. IInv => ModelIsBack
  BY DEF IInv, ModelInv, Ordinary, ModelIsBack
<1>2. QED BY <1>1, Inductive, PTL

(* No profile a snapshot asked for is forgotten while there is a worker to make it. *)
THEOREM ProfilesComplete == PreviewSpec => []EveryProfileIsReported
<1>1. IInv => EveryProfileIsReported
  BY DEF IInv, ProfileInv, ProfileUnderWay, ProfileAtHand, EveryProfileIsReported
<1>2. QED BY <1>1, Inductive, PTL
-----------------------------------------------------------------------------
(* The results on their way are of frames in the order of their capture, none newer
   than the worker's last, nor than the one it works on. *)
Working == pc \notin {"idle", "again"}
Result == [frame : Nat, image : BOOLEAN]
ResultsInv ==
  /\ results \in Seq(Result)
  /\ \A i \in 1..Len(results) :
       /\ results[i].frame <= packet
       /\ Working => results[i].frame < packet
       /\ \A j \in 1..Len(results) : i < j => results[i].frame < results[j].frame
  /\ worker = "none" => results = <<>>

(* The label is behind them all; and what may still come to it without a pipeline was
   between camera and label when the pipeline was stopped. *)
LabelInv ==
  /\ shown \in Nat /\ shown <= packet
  /\ Working => shown < packet
  /\ \A i \in 1..Len(results) : shown < results[i].frame
  /\ device = NoDevice => /\ gst = "null"
                          /\ shown \in inFlight \cup {0}
                          /\ worker # "leaving" => Between \subseteq inFlight

LabelledInv == IInv /\ ResultsInv /\ LabelInv

LEMMA FrameOf == \A r \in Result : r.frame \in Nat
BY DEF Result

LEMMA FramesAreNumbers == ResultsInv => \A i \in 1..Len(results) : results[i].frame \in Nat
BY FrameOf DEF ResultsInv

(* The steps that neither take a frame nor end one. *)
Plain == /\ \/ GiveUp \/ TakeProfilingRequest \/ ReadFails \/ ReadModel \/ Destroy
            \/ InitFails \/ InitModel \/ Publish \/ Infer \/ Again
         /\ IInv

LEMMA PlainSteps ==
  Plain => /\ UNCHANGED <<results, packet, worker, mHasPending, mPendingPacket>>
           /\ Working' => Working
<1> SUFFICES ASSUME Plain
             PROVE  /\ UNCHANGED <<results, packet, worker, mHasPending, mPendingPacket>>
                    /\ Working' => Working
  OBVIOUS
<1> USE DEF Working, mailbox, view
<1>1. CASE GiveUp \/ TakeProfilingRequest \/ ReadModel \/ Destroy \/ InitModel \/ Publish \/ Infer \/ Again
  BY <1>1 DEF GiveUp, TakeProfilingRequest, ReadModel, Destroy, InitModel, Publish, Infer, Again
<1>2. CASE ReadFails \/ InitFails
  BY <1>2, FailureIs DEF Failed, Plain, IInv, Types
<1>3. QED BY <1>1, <1>2 DEF Plain

LEMMA ResultsStep == IInv /\ ResultsInv /\ [DetectionNext]_detectionVars => ResultsInv'
<1> SUFFICES ASSUME IInv, ResultsInv, [DetectionNext]_detectionVars PROVE ResultsInv'
  OBVIOUS
<1> USE DEF ResultsInv, Working
<1> packet \in Nat /\ mPendingPacket \in Nat
  BY DEF IInv, Types
<1>1. CASE Capture
  BY <1>1 DEF Capture, work, view
<1>2. CASE ProcessLoop
  <2>1. packet <= packet' /\ (Working' => packet < packet')
    BY <1>2 DEF ProcessLoop, IInv, OrderInv
  <2>2. packet' \in Nat
    BY <1>2 DEF ProcessLoop
  <2>3. UNCHANGED <<results, worker>>
    BY <1>2 DEF ProcessLoop, view
  <2>4. \A i \in 1..Len(results) : results[i].frame \in Nat
    BY FramesAreNumbers
  <2>5. QED BY <2>1, <2>2, <2>3, <2>4
<1>3. CASE Finish
  <2> DEFINE new(b) == [frame |-> packet, image |-> b]
  <2>1. Working /\ ~Working' /\ packet' = packet /\ worker' = worker
    BY <1>3 DEF Finish
  <2>2. CASE results' = results
    BY <2>1, <2>2
  <2>3. ASSUME NEW b \in BOOLEAN, results' = Append(results, new(b)) PROVE ResultsInv'
    <3>1. worker # "none"
      BY <2>1 DEF IInv, Types, LoopInv, Busy
    <3>2. new(b) \in Result /\ new(b).frame = packet
      BY DEF Result
    <3> HIDE DEF new
    <3>3. /\ results' \in Seq(Result) /\ Len(results') = Len(results) + 1
          /\ \A i \in 1..Len(results) : results'[i] = results[i]
          /\ results'[Len(results) + 1] = new(b)
      BY <2>3, <3>2
    <3>4. ASSUME NEW i \in 1..Len(results')
          PROVE /\ results'[i].frame <= packet
                /\ \A j \in 1..Len(results') : i < j => results'[i].frame < results'[j].frame
      <4>1. CASE i = Len(results) + 1
        BY <4>1, <3>2, <3>3
      <4>2. CASE i # Len(results) + 1
        <5>1. i \in 1..Len(results) /\ results'[i] = results[i] /\ results[i].frame < packet
          BY <4>2, <3>3, <2>1
        <5>2. ASSUME NEW j \in 1..Len(results'), i < j PROVE results'[i].frame < results'[j].frame
          <6>1. CASE j = Len(results) + 1
            BY <6>1, <5>1, <3>2, <3>3
          <6>2. CASE j # Len(results) + 1
            BY <6>2, <5>1, <5>2, <3>3
          <6>3. QED BY <6>1, <6>2
        <5>3. results[i].frame \in Nat
          BY <5>1, FramesAreNumbers
        <5>4. QED BY <5>1, <5>2, <5>3
      <4>3. QED BY <4>1, <4>2
    <3>5. QED BY <3>1, <3>3, <3>4, <2>1
  <2>4. QED BY <1>3, <2>2, <2>3 DEF Finish
<1>4. CASE OnInferenceFrameReady
  <2>1. /\ UNCHANGED <<packet, worker, pc>> /\ results # <<>> /\ results' = Tail(results)
    BY <1>4 DEF OnInferenceFrameReady, work
  <2>2. /\ Tail(results) \in Seq(Result)
        /\ Len(Tail(results)) = Len(results) - 1
        /\ \A i \in 1..Len(Tail(results)) : Tail(results)[i] = results[i + 1] /\ i + 1 \in 1..Len(results)
    BY <2>1
  <2>3. worker # "none"
    BY <2>1
  <2>4. QED BY <2>1, <2>2, <2>3
<1>5. CASE WorkerLeaves
  <2>1. results' = <<>>
    BY <1>5 DEF WorkerLeaves
  <2>2. QED BY <2>1
<1>6. CASE LoadWorker \/ DisposeWorker \/ SampleBegin \/ SampleEnd \/ Analyze \/ TriggerNpuProfiling
  BY <1>6 DEF LoadWorker, DisposeWorker, SampleBegin, SampleEnd, Analyze, TriggerNpuProfiling, work, view
<1>7. CASE Plain
  BY <1>7, PlainSteps
<1>8. CASE UNCHANGED detectionVars
  BY <1>8 DEF detectionVars, work, view
<1>9. QED
  BY <1>1, <1>2, <1>3, <1>4, <1>5, <1>6, <1>7, <1>8 DEF DetectionNext, WorkerStep, UiStep, Plain

LEMMA LabelStep ==
  IInv /\ ResultsInv /\ LabelInv /\ [PreviewNext]_previewVars => LabelInv'
<1> SUFFICES ASSUME IInv, ResultsInv, LabelInv, [PreviewNext]_previewVars PROVE LabelInv'
  OBVIOUS
<1> packet \in Nat /\ mPendingPacket \in Nat
  BY DEF IInv, Types
<1>a. Between = {results[i].frame : i \in 1..Len(results)} \cup (IF Working THEN {packet} ELSE {})
                \cup (IF mHasPending THEN {mPendingPacket} ELSE {})
  BY DEF Between, Working, ResultsInv
<1>b. Between' = {results'[i].frame : i \in DOMAIN results'} \cup (IF Working' THEN {packet'} ELSE {})
                 \cup (IF mHasPending' THEN {mPendingPacket'} ELSE {})
  BY DEF Between, Working
<1>c. \A i \in 1..Len(results) : results[i].frame \in Nat
  BY FramesAreNumbers
<1> USE DEF LabelInv
\* Steps of the dialog that stop the pipeline, or change nothing of this.
<1>1. ASSUME UNCHANGED <<results, packet, pc, mHasPending, mPendingPacket>>
      PROVE  Working' = Working /\ Between' = Between
  BY <1>1 DEF Between, Working
<1>2. CASE GstAdvances \/ GstFails \/ BusStateChanged
  <2>1. UNCHANGED <<results, packet, pc, mHasPending, mPendingPacket, worker, shown, device, inFlight>>
    BY <1>2 DEF GstAdvances, GstFails, BusStateChanged, detectionVars, view, work, mailbox
  <2>2. device = NoDevice => gst' = gst
    BY <1>2 DEF GstAdvances, GstFails, BusStateChanged
  <2>3. QED BY <1>1, <2>1, <2>2
<1>3. ASSUME UNCHANGED <<results, packet, pc, mHasPending, mPendingPacket>>,
             gst' = "null", shown' = 0, inFlight' = Between
      PROVE  LabelInv'
  <2>1. \A i \in 1..Len(results) : 0 < results[i].frame
    BY <1>c
  <2>2. Working => 0 < packet
    OBVIOUS
  <2>3. QED BY <1>1, <1>3, <2>1, <2>2
<1>4. CASE ClickStop \/ BusFailure \/ Close
  <2>1. UNCHANGED <<results, packet, pc, mHasPending, mPendingPacket>>
    BY <1>4 DEF ClickStop, BusFailure, Close, detectionVars, view, work, mailbox
  <2>2. gst' = "null" /\ shown' = 0 /\ inFlight' = Between
    BY <1>4 DEF ClickStop, BusFailure, Close, StopPipeline, ClearedLabel
  <2>3. QED BY <2>1, <2>2, <1>3
<1>5. ASSUME StartFails \/ \E d \in Devices \cup {selected} : PipelineStarts(d) PROVE LabelInv'
  <2>1. UNCHANGED <<results, packet, pc, mHasPending, mPendingPacket>>
    BY <1>5 DEF StartFails, PipelineStarts, LoadWorker, detectionVars, view, work, mailbox
  <2>2. gst' = "null" /\ shown' = 0 /\ inFlight' = Between
    BY <1>5 DEF StartFails, PipelineStarts, StopPipeline, ClearedLabel
  <2>3. QED BY <2>1, <2>2, <1>3
<1>6. CASE ClickStart
  BY <1>6, <1>5 DEF ClickStart
<1>7. CASE \E d \in Devices : DeviceChanged(d)
  <2>1. CASE IsPipelineActive
    BY <1>7, <1>5, <2>1 DEF DeviceChanged
  <2>2. CASE ~IsPipelineActive
    <3>1. UNCHANGED <<detectionVars, pipelineVars, shown, inFlight>>
      BY <1>7, <2>2 DEF DeviceChanged
    <3>2. UNCHANGED <<results, packet, pc, mHasPending, mPendingPacket, worker, gst, device>>
      BY <3>1 DEF detectionVars, pipelineVars, view, work, mailbox
    <3>3. QED BY <1>1, <3>1, <3>2
  <2>3. QED BY <2>1, <2>2
<1>8. CASE Open
  <2>1. UNCHANGED <<results, packet, pc, mHasPending, mPendingPacket, worker, gst, device, shown, inFlight>>
    BY <1>8 DEF Open, detectionVars, pipelineVars, view, work, mailbox
  <2>2. QED BY <1>1, <2>1
<1>9. CASE Elsewhere
  <2>1. UNCHANGED <<results, packet, pc, mHasPending, mPendingPacket, worker, gst, device, shown, inFlight>>
    BY <1>9 DEF Elsewhere, SampleBegin, SampleEnd, Analyze, TriggerNpuProfiling,
                dialogVars, pipelineVars, view, work, mailbox
  <2>2. QED BY <1>1, <2>1
<1>10. CASE Film
  <2>1. UNCHANGED <<results, packet, pc, worker, gst, device, shown, inFlight>> /\ gst = "playing"
    BY <1>10 DEF Film, Capture, dialogVars, pipelineVars, view, work
  <2>2. device # NoDevice /\ Working' = Working
    BY <2>1 DEF Working
  <2>3. QED BY <2>1, <2>2
<1>11. CASE Delete
  <2>1. UNCHANGED <<results, packet, pc, mHasPending, mPendingPacket, gst, device>>
    BY <1>11 DEF Delete, DisposeWorker, detectionVars, pipelineVars, view, work, mailbox
  <2>2. shown' = 0 /\ inFlight' = {} /\ (worker' = "leaving" \/ worker = "none")
    BY <1>11 DEF Delete, DisposeWorker
  <2>3. worker = "none" => Between = {}
    BY <1>a DEF IInv, LoopInv, Types, Busy, Working, ResultsInv
  <2>4. \A i \in 1..Len(results) : 0 < results[i].frame
    BY <1>c
  <2>5. worker = "none" => worker' # "leaving"
    BY <1>11 DEF Delete, detectionVars, work
  <2>6. QED BY <1>1, <2>1, <2>2, <2>3, <2>4
<1>12. CASE Show
  <2>1. /\ UNCHANGED <<packet, pc, mHasPending, mPendingPacket, worker, gst, device, inFlight>>
        /\ results # <<>> /\ results' = Tail(results) /\ worker # "leaving"
        /\ shown' \in {shown, Head(results).frame}
    BY <1>12 DEF Show, OnInferenceFrameReady, UiFree, pipelineVars, mailbox, work
  <2>2. /\ Tail(results) \in Seq(Result)
        /\ Len(Tail(results)) = Len(results) - 1
        /\ 1 \in 1..Len(results) /\ Head(results) = results[1]
        /\ \A i \in 1..Len(Tail(results)) : Tail(results)[i] = results[i + 1] /\ i + 1 \in 1..Len(results)
    BY <2>1 DEF ResultsInv
  <2>3. DOMAIN results' = 1..Len(results') /\ Working' = Working
    BY <2>1, <2>2 DEF Working
  <2>4. Between' \subseteq Between /\ results[1].frame \in Between
    BY <1>a, <1>b, <2>1, <2>2, <2>3
  <2>5. /\ results[1].frame \in Nat /\ results[1].frame <= packet
        /\ Working => results[1].frame < packet
        /\ \A i \in 1..Len(results') : results[1].frame < results'[i].frame
    BY <2>1, <2>2, <1>c DEF ResultsInv
  <2>6. shown' \in Nat /\ shown' <= packet /\ (Working => shown' < packet)
    BY <2>1, <2>2, <2>5
  <2>7. \A i \in 1..Len(results') : shown' < results'[i].frame
    BY <2>1, <2>2, <2>5
  <2>8. device = NoDevice => shown' \in inFlight \cup {0} /\ Between' \subseteq inFlight
    BY <2>1, <2>2, <2>4
  <2>9. QED BY <2>1, <2>3, <2>6, <2>7, <2>8
<1>13. CASE Work
  <2>1. UNCHANGED <<shown, device, gst, inFlight>>
    BY <1>13 DEF Work, dialogVars, pipelineVars
  <2>2. CASE ProcessLoop
    <3>1. /\ packet <= packet' /\ packet' \in Nat /\ (Working' => packet < packet')
          /\ UNCHANGED <<results, worker>>
      BY <2>2 DEF ProcessLoop, IInv, OrderInv, Working, view
    <3>2. Between' \subseteq Between
      <4>1. mHasPending \/ (~Working' /\ ~mHasPending')
        BY <2>2 DEF ProcessLoop, Working
      <4>2. mHasPending => packet' = mPendingPacket /\ ~mHasPending'
        BY <2>2 DEF ProcessLoop
      <4>3. QED BY <4>1, <4>2, <3>1, <1>a, <1>b DEF ResultsInv
    <3>3. QED BY <2>1, <3>1, <3>2, <1>c
  <2>3. CASE Finish
    <3>1. Working /\ ~Working' /\ UNCHANGED <<packet, mHasPending, mPendingPacket, worker>>
      BY <2>3 DEF Finish, Working, mailbox
    <3>2. CASE results' = results
      <4>1. Between' \subseteq Between
        BY <3>1, <3>2, <1>a, <1>b DEF ResultsInv
      <4>2. QED BY <2>1, <3>1, <3>2, <4>1
    <3>3. ASSUME NEW b \in BOOLEAN, results' = Append(results, [frame |-> packet, image |-> b])
          PROVE LabelInv'
      <4>1. /\ Len(results') = Len(results) + 1 /\ DOMAIN results' = 1..Len(results')
            /\ \A i \in 1..Len(results) : results'[i] = results[i]
            /\ results'[Len(results) + 1].frame = packet
        BY <3>3 DEF ResultsInv
      <4>2. \A i \in 1..Len(results') : i \in 1..Len(results) \/ i = Len(results) + 1
        BY <4>1 DEF ResultsInv
      <4>3. Between' \subseteq Between
        BY <3>1, <4>1, <4>2, <1>a, <1>b
      <4>4. \A i \in 1..Len(results') : shown < results'[i].frame
        BY <3>1, <4>1, <4>2
      <4>5. QED BY <2>1, <3>1, <4>3, <4>4
    <3>4. QED BY <2>3, <3>2, <3>3 DEF Finish
  <2>4. CASE WorkerLeaves
    <3>1. /\ pc = "idle" /\ UNCHANGED <<pc, packet>> /\ results' = <<>> /\ ~mHasPending'
      BY <2>4 DEF WorkerLeaves
    <3>2. Between' = {} /\ ~Working'
      BY <3>1, <1>b DEF Working
    <3>3. QED BY <2>1, <3>1, <3>2
  <2>5. CASE Plain
    <3>1. /\ UNCHANGED <<results, packet, worker, mHasPending, mPendingPacket>>
          /\ Working' => Working
      BY <2>5, PlainSteps
    <3>2. Between' \subseteq Between
      BY <3>1, <1>a, <1>b DEF ResultsInv
    <3>3. QED BY <2>1, <3>1, <3>2
  <2>6. QED BY <1>13, <2>2, <2>3, <2>4, <2>5 DEF Work, WorkerStep, Plain
<1>14. CASE UNCHANGED previewVars
  <2>1. UNCHANGED <<results, packet, pc, mHasPending, mPendingPacket, worker, gst, device, shown, inFlight>>
    BY <1>14 DEF previewVars, detectionVars, dialogVars, pipelineVars, view, work, mailbox
  <2>2. QED BY <1>1, <2>1
<1>15. QED
  BY <1>2, <1>4, <1>6, <1>7, <1>8, <1>9, <1>10, <1>11, <1>12, <1>13, <1>14 DEF PreviewNext

LEMMA LabelInit == PreviewInit => ResultsInv /\ LabelInv
<1> SUFFICES ASSUME PreviewInit PROVE ResultsInv /\ LabelInv
  OBVIOUS
<1>1. /\ results = <<>> /\ pc = "idle" /\ packet = 0 /\ ~mHasPending
      /\ device = NoDevice /\ gst = "null" /\ shown = 0 /\ inFlight = {}
  BY DEF PreviewInit, DetectionInit
<1>2. Between = {}
  BY <1>1 DEF Between
<1>3. QED BY <1>1, <1>2 DEF ResultsInv, LabelInv, Working

LEMMA ConcatIs ==
  ASSUME NEW s \in Seq(Nat), NEW t \in Seq(Nat)
  PROVE  /\ s \o t \in Seq(Nat)
         /\ Len(s \o t) = Len(s) + Len(t)
         /\ \A i \in 1..Len(s) : (s \o t)[i] = s[i]
         /\ \A i \in 1..Len(t) : (s \o t)[Len(s) + i] = t[i]
OBVIOUS

LEMMA AscendingConcat ==
  ASSUME NEW s \in Seq(Nat), NEW t \in Seq(Nat), Ascending(s), Ascending(t),
         \A i \in 1..Len(s), j \in 1..Len(t) : s[i] < t[j]
  PROVE  Ascending(s \o t)
<1>1. /\ Len(s \o t) = Len(s) + Len(t)
      /\ \A i \in 1..Len(s) : (s \o t)[i] = s[i]
      /\ \A i \in 1..Len(t) : (s \o t)[Len(s) + i] = t[i]
  BY ConcatIs
<1>2. SUFFICES ASSUME NEW i \in 1..(Len(s \o t) - 1) PROVE (s \o t)[i] < (s \o t)[i + 1]
  BY DEF Ascending
<1>3. CASE i < Len(s)
  BY <1>1, <1>3 DEF Ascending
<1>4. CASE i = Len(s)
  <2>1. 1 \in 1..Len(t) /\ i \in 1..Len(s)
    BY <1>1, <1>4
  <2>2. QED BY <1>1, <1>4, <2>1
<1>5. CASE i > Len(s)
  <2>1. PICK k \in 1..(Len(t) - 1) : i = Len(s) + k
    <3>1. i - Len(s) \in 1..(Len(t) - 1) /\ i = Len(s) + (i - Len(s))
      BY <1>1, <1>5
    <3>2. QED BY <3>1
  <2>2. k \in 1..Len(t) /\ k + 1 \in 1..Len(t) /\ i + 1 = Len(s) + (k + 1)
    BY <2>1
  <2>3. (s \o t)[i] = t[k] /\ (s \o t)[i + 1] = t[k + 1]
    BY <1>1, <2>1, <2>2
  <2>4. QED BY <2>1, <2>3 DEF Ascending
<1>6. QED BY <1>3, <1>4, <1>5

(* After a stop the label shows at most a frame whose detection was under way then;
   frames come to it in the order of the camera. *)
THEOREM LabelIsInOrder == PreviewSpec => []ShownAfterStopWasInFlight
<1>1. LabelledInv => ShownAfterStopWasInFlight
  <2> SUFFICES ASSUME IInv, ResultsInv, LabelInv PROVE ShownAfterStopWasInFlight
    BY DEF LabelledInv
  <2> DEFINE fs == [i \in DOMAIN results |-> results[i].frame]
  <2>1. packet \in Nat /\ mPendingPacket \in Nat /\ shown \in Nat
    BY DEF IInv, Types, LabelInv
  <2>2. Len(fs) = Len(results) /\ fs \in Seq(Nat) /\ \A i \in 1..Len(fs) : fs[i] = results[i].frame
    BY FramesAreNumbers DEF ResultsInv
  <2>3. Ascending(fs)
    BY <2>2 DEF ResultsInv, Ascending
  <2>4. /\ \A i \in 1..Len(fs) : shown < fs[i] /\ fs[i] <= packet /\ (Working => fs[i] < packet)
    BY <2>2 DEF ResultsInv, LabelInv
  <2> HIDE DEF fs
  <2> DEFINE a == <<shown>>
             b == a \o fs
             c == b \o Worked
  <2>5. a \in Seq(Nat) /\ Len(a) = 1 /\ a[1] = shown /\ Ascending(a)
    BY <2>1 DEF Ascending
  <2> HIDE DEF a
  <2>6. Ascending(b)
    BY <2>2, <2>3, <2>4, <2>5, AscendingConcat
  <2>7. b \in Seq(Nat) /\ \A i \in 1..Len(b) : b[i] <= packet /\ (Working => b[i] < packet)
    <3>1. /\ b \in Seq(Nat) /\ Len(b) = 1 + Len(fs) /\ b[1] = shown
          /\ \A i \in 1..Len(fs) : b[1 + i] = fs[i]
      BY <2>2, <2>5, ConcatIs
    <3>2. SUFFICES ASSUME NEW i \in 1..Len(b) PROVE b[i] <= packet /\ (Working => b[i] < packet)
      BY <3>1
    <3> HIDE DEF b
    <3>3. CASE i = 1
      BY <3>1, <3>3 DEF LabelInv
    <3>4. CASE i # 1
      <4>1. i - 1 \in 1..Len(fs) /\ i = 1 + (i - 1)
        BY <3>1, <3>4, <2>2
      <4>2. b[i] = fs[i - 1]
        BY <4>1, <3>1
      <4>3. QED BY <4>1, <4>2, <2>4
    <3>5. QED BY <3>3, <3>4
  <2> HIDE DEF b
  <2>8. \/ ~Working /\ Worked = <<>>
        \/ Working /\ Worked = <<packet>>
    BY DEF Worked, Working
  <2>9. Ascending(c) /\ c \in Seq(Nat) /\ \A i \in 1..Len(c) : c[i] <= packet
    <3>1. CASE ~Working /\ Worked = <<>>
      <4>1. c = b
        BY <3>1, <2>7
      <4>2. QED BY <4>1, <2>6, <2>7
    <3>2. CASE Working /\ Worked = <<packet>>
      <4> DEFINE w == <<packet>>
      <4>1. w \in Seq(Nat) /\ Len(w) = 1 /\ w[1] = packet /\ Ascending(w)
        BY <2>1 DEF Ascending
      <4> HIDE DEF w
      <4>2. Ascending(b \o w)
        BY <4>1, <2>6, <2>7, <3>2, AscendingConcat
      <4>3. /\ b \o w \in Seq(Nat) /\ Len(b \o w) = Len(b) + 1
            /\ \A i \in 1..Len(b) : (b \o w)[i] = b[i]
            /\ (b \o w)[Len(b) + 1] = packet
        BY <4>1, <2>7, ConcatIs
      <4>4. \A i \in 1..Len(b \o w) : i \in 1..Len(b) \/ i = Len(b) + 1
        BY <4>3, <2>7
      <4>5. c = b \o w
        BY <3>2 DEF w
      <4>6. QED BY <4>2, <4>3, <4>4, <4>5, <2>1, <2>7
    <3>3. QED BY <2>8, <3>1, <3>2
  <2> HIDE DEF c
  <2>10. Ascending(c \o Waiting)
    <3>1. CASE mHasPending
      <4> DEFINE w == <<mPendingPacket>>
      <4>1. w \in Seq(Nat) /\ Len(w) = 1 /\ w[1] = mPendingPacket /\ Ascending(w)
        BY <2>1 DEF Ascending
      <4> HIDE DEF w
      <4>2. \A i \in 1..Len(c) : c[i] < w[1]
        BY <4>1, <2>1, <2>9, <3>1 DEF IInv, OrderInv
      <4>3. Ascending(c \o w)
        BY <4>1, <4>2, <2>9, AscendingConcat
      <4>4. Waiting = w
        BY <3>1 DEF Waiting, w
      <4>5. QED BY <4>3, <4>4
    <3>2. CASE ~mHasPending
      <4>1. c \o Waiting = c
        BY <2>9, <3>2 DEF Waiting
      <4>2. QED BY <4>1, <2>9
    <3>3. QED BY <3>1, <3>2
  <2>11. device = NoDevice => shown \in inFlight \cup {0}
    BY DEF LabelInv
  <2>12. QED BY <2>10, <2>11 DEF ShownAfterStopWasInFlight, a, b, c, fs
<1>2. PreviewInit => LabelledInv
  BY InitIInv, LabelInit DEF LabelledInv
<1>3. LabelledInv /\ [PreviewNext]_previewVars => LabelledInv'
  BY NextIInv, StepsOfDetection, ResultsStep, LabelStep DEF LabelledInv
<1>4. QED BY <1>1, <1>2, <1>3, PTL DEF PreviewSpec
-----------------------------------------------------------------------------
LEMMA MailboxInit == PreviewInit => MB!Init
BY DEF PreviewInit, DetectionInit, MB!Init

Slot == IF mHasPending THEN mPendingPacket ELSE 0

LEMMA MailboxStep ==
  IInv /\ [DetectionNext]_detectionVars => [MB!Next]_<<Slot, packet>>
<1> SUFFICES ASSUME IInv, [DetectionNext]_detectionVars PROVE [MB!Next]_<<Slot, packet>>
  OBVIOUS
<1> USE DEF Slot, MB!Next
<1>1. CASE Capture
  <2>1. nextFrameId \in Frames
    BY <1>1, DetectionAssumption DEF Capture, IInv, Types, Frames
  <2>2. Slot' = nextFrameId /\ packet' = packet
    BY <1>1 DEF Capture, UpdateFrame, work
  <2>3. nextFrameId > Slot /\ nextFrameId > packet
    BY DEF IInv, Types, OrderInv
  <2>4. QED BY <2>1, <2>2, <2>3 DEF MB!Put
<1>2. CASE ProcessLoop
  <2>1. CASE mHasPending
    BY <1>2, <2>1 DEF ProcessLoop, IInv, Types, OrderInv, MB!Take
  <2>2. CASE ~mHasPending
    BY <1>2, <2>2 DEF ProcessLoop
  <2>3. QED BY <2>1, <2>2
<1>3. CASE WorkerLeaves
  BY <1>3 DEF WorkerLeaves, MB!Close
<1>4. CASE \/ GiveUp \/ TakeProfilingRequest \/ ReadFails \/ ReadModel \/ Destroy
           \/ InitFails \/ InitModel \/ Publish \/ Infer \/ Finish \/ Again
  <2>1. UNCHANGED <<mHasPending, mPendingPacket, packet>>
    BY <1>4 DEF GiveUp, TakeProfilingRequest, ReadFails, ReadModel, Destroy, InitFails,
                InitModel, Publish, Infer, Finish, Again, mailbox
  <2>2. QED BY <2>1
<1>5. CASE UiStep
  BY <1>5 DEF UiStep, LoadWorker, DisposeWorker, OnInferenceFrameReady, SampleBegin, SampleEnd,
              Analyze, TriggerNpuProfiling, mailbox, work
<1>6. CASE UNCHANGED detectionVars
  BY <1>6 DEF detectionVars, mailbox, work
<1>7. QED BY <1>1, <1>2, <1>3, <1>4, <1>5, <1>6 DEF DetectionNext, WorkerStep

(* The mailbox does what its comment says: each frame is taken at most once, and never
   after a newer one.  That it is taken in the end is left to model checking. *)
THEOREM MailboxIsSafe == PreviewSpec => MB!SafeSpec
<1>1. IInv /\ [PreviewNext]_previewVars => [MB!Next]_<<Slot, packet>>
  BY StepsOfDetection, MailboxStep
<1>2. QED BY <1>1, MailboxInit, Inductive, PTL DEF PreviewSpec, MB!SafeSpec, Slot
=============================================================================
