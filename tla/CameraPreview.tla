---------------------------- MODULE CameraPreview ----------------------------
(***************************************************************************)
(* The camera preview dialog (src/ui/CameraPreviewDialog.cpp) over the     *)
(* detection worker (Detection): choosing a device, starting and stopping  *)
(* the GStreamer pipeline, the messages of its bus, the label and the      *)
(* button.  The pipeline is external: after a start it goes through its    *)
(* states on threads of its own, delivers frames when it plays, and may    *)
(* fail or end at any time.                                                *)
(*                                                                         *)
(* Every step is a step of Detection or leaves its variables alone.        *)
(*                                                                         *)
(* One dialog with its worker: each ChatWindow makes one of its own        *)
(* (ChatWindow.cpp:277-289), and those that are open share the monitor's   *)
(* context and its list of profiles, which is not modelled.                *)
(***************************************************************************)
EXTENDS Detection, FiniteSetsExt

CONSTANTS Devices,      \* indices of the combo box
          MaxMessages   \* bound: messages waiting on the bus

ASSUME CameraPreviewAssumption == /\ Devices \subseteq Nat \ {0} /\ Devices # {}
                                  /\ MaxMessages \in Nat \ {0}

NoDevice == 0
First == Min(Devices)   \* what a new combo box shows

VARIABLES dialog,       \* "closed", "open", "closing": closed, to be deleted
          selected,     \* the device chosen in the combo box
          device,       \* the one m_pipeline films with, NoDevice without a pipeline
          gst,          \* how far the pipeline is: "null", "paused", "playing"
          bus,          \* messages on m_bus
          mIsPlaying,
          button,       \* what the button offers: "start" or "stop"
          shown,        \* the frame on the label, 0 for none
          inFlight      \* the frames between camera and label when the pipeline was stopped last

pipelineVars == <<device, gst, bus, mIsPlaying>>
dialogVars == <<dialog, selected, pipelineVars, button, shown, inFlight>>
previewVars == <<detectionVars, dialogVars>>

PreviewInit == /\ DetectionInit
               /\ dialog = "closed" /\ selected = First
               /\ device = NoDevice /\ gst = "null" /\ bus = <<>> /\ mIsPlaying = FALSE
               /\ button = "start" /\ shown = 0 /\ inFlight = {}

UiIdle == UiFree /\ dialog = "open"
IsPipelineActive == device # NoDevice /\ mIsPlaying
-----------------------------------------------------------------------------
(* The pipeline and its bus. *)

\* READY and PAUSED, which differ in the status line only, are one state here.
NextState == [null |-> "paused", paused |-> "playing"]

GstAdvances == /\ device # NoDevice
               /\ gst # "playing"
               /\ Len(bus) < MaxMessages
               /\ gst' = NextState[gst]
               /\ bus' = Append(bus, NextState[gst])
               /\ UNCHANGED <<detectionVars, dialog, selected, device, mIsPlaying, button, shown,
                              inFlight>>

\* An error, or the end of the stream.
GstFails == /\ device # NoDevice
            /\ Len(bus) < MaxMessages
            /\ bus' = Append(bus, "error")
            /\ UNCHANGED <<detectionVars, dialog, selected, device, gst, mIsPlaying, button, shown,
                           inFlight>>

Film == gst = "playing" /\ Capture /\ UNCHANGED dialogVars
-----------------------------------------------------------------------------
(* Handlers of the user-interface thread. *)

\* stopPipeline (805-827): neither the mailbox nor the queued results are cleared.
KeptLabel == shown                                      \* slip: no clearVideoLabel
ClearedLabel == 0
Between == {results[i].frame : i \in DOMAIN results}
           \cup (IF pc \in {"idle", "again"} THEN {} ELSE {packet})
           \cup (IF mHasPending THEN {mPendingPacket} ELSE {})
StopPipeline == /\ device' = NoDevice /\ gst' = "null" /\ bus' = <<>> /\ mIsPlaying' = FALSE
                /\ shown' = ClearedLabel
                /\ inFlight' = Between

UpdateControls == button' = IF mIsPlaying' THEN "stop" ELSE "start"

\* startPipelineForIndex (622-803) that fails, at any point after stopPipeline: when
\* the model cannot be loaded, or with the worker there.  No updateControls.
StartFails == /\ StopPipeline
              /\ \/ UNCHANGED detectionVars
                 \/ LoadWorker

\* ... and that succeeds.  The result of the state change comes on the bus.
PipelineStarts(d) == /\ device' = d /\ gst' = "null" /\ bus' = <<>> /\ mIsPlaying' = TRUE
                     /\ shown' = ClearedLabel
                     /\ inFlight' = Between
                     /\ IF worker = "none" THEN LoadWorker ELSE UNCHANGED detectionVars
                     /\ UpdateControls

\* onStartStopClicked (545-562).
ClickStop == /\ UiIdle
             /\ IsPipelineActive
             /\ StopPipeline
             /\ UpdateControls
             /\ UNCHANGED <<detectionVars, dialog, selected>>

ClickStart == /\ UiIdle
              /\ ~IsPipelineActive
              /\ \/ PipelineStarts(selected)
                 \/ StartFails /\ UpdateControls
              /\ UNCHANGED <<dialog, selected>>

\* onDeviceChanged (533-543): a pipeline that is still opening is left as it is.
DeviceChanged(d) ==
  /\ UiIdle
  /\ d # selected
  /\ selected' = d
  /\ IF IsPipelineActive
     THEN \/ PipelineStarts(d)
          \/ StartFails /\ UNCHANGED button
     ELSE UNCHANGED <<detectionVars, pipelineVars, button, shown, inFlight>>
  /\ UNCHANGED dialog

\* processBusMessages (564-609).  That other handlers may come between two messages
\* only means that the second came later.
BusFailure == /\ UiIdle
              /\ bus # <<>> /\ Head(bus) = "error"
              /\ StopPipeline
              /\ UpdateControls
              /\ UNCHANGED <<detectionVars, dialog, selected>>

BusStateChanged == /\ UiIdle
                   /\ bus # <<>> /\ Head(bus) # "error"
                   /\ bus' = Tail(bus)
                   /\ mIsPlaying' = (Head(bus) = "playing")
                   /\ UpdateControls
                   /\ UNCHANGED <<detectionVars, dialog, selected, device, gst, shown, inFlight>>

\* onInferenceFrameReady: whatever the pipeline does.
Show == /\ dialog # "closed"
        /\ OnInferenceFrameReady
        /\ shown' = IF Head(results).image THEN Head(results).frame ELSE shown
        /\ UNCHANGED <<dialog, selected, pipelineVars, button, inFlight>>

\* A new dialog (362-393).
Open == /\ UiFree
        /\ dialog = "closed"
        /\ dialog' = "open"
        /\ button' = "start"
        /\ UNCHANGED <<detectionVars, selected, pipelineVars, shown, inFlight>>

\* closeEvent (407-411); the deletion (395-405) comes later.
Close == /\ UiIdle
         /\ dialog' = "closing"
         /\ StopPipeline
         /\ UNCHANGED <<detectionVars, selected, button>>

Delete == /\ UiFree
          /\ dialog = "closing"
          /\ dialog' = "closed"
          /\ UNCHANGED <<pipelineVars, button>>
          /\ IF worker = "none" THEN UNCHANGED detectionVars ELSE DisposeWorker
          /\ selected' = First /\ shown' = 0 /\ inFlight' = {}

Elsewhere == (SampleBegin \/ SampleEnd \/ Analyze \/ TriggerNpuProfiling) /\ UNCHANGED dialogVars

Work == WorkerStep /\ UNCHANGED dialogVars

PreviewNext == \/ GstAdvances \/ GstFails \/ Film \/ Work
               \/ ClickStop \/ ClickStart \/ (\E d \in Devices : DeviceChanged(d))
               \/ BusFailure \/ BusStateChanged \/ Show \/ Open \/ Close \/ Delete
               \/ Elsewhere

(* The worker's thread runs whenever it can; the sampler, once a second, holds its
   mutex for one query only, so the worker gets it in the end. *)
Fairness == SF_previewVars(Work) /\ WF_previewVars(SampleEnd /\ UNCHANGED dialogVars)

PreviewSpec == PreviewInit /\ [][PreviewNext]_previewVars /\ Fairness
-----------------------------------------------------------------------------
PreviewTypeOK == /\ TypeOK
                 /\ dialog \in {"closed", "open", "closing"} /\ selected \in Devices
                 /\ device \in Devices \cup {NoDevice} /\ gst \in {"null", "paused", "playing"}
                 /\ bus \in Seq({"paused", "playing", "error"}) /\ mIsPlaying \in BOOLEAN
                 /\ button \in {"start", "stop"} /\ shown \in Frames \cup {0}
                 /\ inFlight \subseteq Frames

(* After a stop the label may show a frame again, one whose detection was under way
   (line 940): never one that was shown before, and never out of order. *)
ShownAfterStopWasInFlight == /\ device = NoDevice => shown \in inFlight \cup {0}
                             /\ shown # 0 => Ascending(<<shown>> \o [i \in DOMAIN results |-> results[i].frame]
                                                       \o Worked \o Waiting)
=============================================================================
