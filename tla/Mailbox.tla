------------------------------- MODULE Mailbox -------------------------------
(***************************************************************************)
(* What the comments of the detection worker promise ("Mailbox mode",      *)
(* CameraPreviewDialog.cpp:79): a place for one frame between the camera   *)
(* and the detection.  A newer frame takes the place of an older one, the  *)
(* reader gets each frame at most once and never an older one after a      *)
(* newer one, and a frame that stays is read in the end.                   *)
(***************************************************************************)
EXTENDS Naturals

CONSTANT Frames             \* numbers of frames, in the order of capture

VARIABLES slot,             \* the frame in the mailbox, 0 for none
          taken             \* the frame read last

Init == slot = 0 /\ taken = 0

Put == \E f \in Frames : /\ f > slot /\ f > taken
                         /\ slot' = f
                         /\ UNCHANGED taken

Take == /\ slot # 0
        /\ taken' = slot
        /\ slot' = 0

\* The reader is disposed of, with what it has not read.
Close == slot' = 0 /\ UNCHANGED taken

Next == Put \/ Take \/ Close

SafeSpec == Init /\ [][Next]_<<slot, taken>>

Spec == SafeSpec /\ WF_<<slot, taken>>(Take)
=============================================================================
