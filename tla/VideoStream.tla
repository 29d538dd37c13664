----------------------------- MODULE VideoStream -----------------------------
(***************************************************************************)
(* The video stream: VideoStreamer cuts a JPEG frame into UDP chunks       *)
(* (VideoFrame.cpp:5-45, VideoStreamer.cpp), VideoReceiver puts the frame  *)
(* together again and drops what is not complete in time                   *)
(* (VideoReceiver.cpp).  Both run in the thread of the user interface of   *)
(* their own machine, so a slot is one step.                               *)
(*                                                                         *)
(* UDP loses, repeats and reorders chunks: every chunk is on the wire in   *)
(* Copies copies, each taken off it once, in any order, or lost.  Streams  *)
(* are the (re)starts of any streamer that sends to this receiver: each    *)
(* numbers its frames from 0, and the receiver knows frames by the number  *)
(* only.  Contents are abstracted to which frame a chunk is a part of.     *)
(***************************************************************************)
EXTENDS Integers, FiniteSets, FiniteSetsExt

CONSTANTS Streams,
          Sizes,        \* the sizes a JPEG frame may have
          MaxPayload,   \* VIDEO_MAX_CHUNK_SIZE less the header
          Copies,       \* how often the network delivers a chunk at most
          Timeout,      \* VIDEO_FRAME_TIMEOUT_MS, in timer periods of 50 ms
          MaxFrames     \* bound: frames sent, all streams together

ASSUME VideoAssumption == /\ Sizes \subseteq Nat \ {0} /\ MaxPayload \in Nat \ {0}
                          /\ Copies \in Nat \ {0} /\ Timeout \in Nat /\ MaxFrames \in Nat

VARIABLES streaming,    \* the streams that run
          ended,        \* the streams that have been stopped
          frameId,      \* m_frameId of each stream
          wire,         \* chunk copies on the wire
          listening,    \* VideoReceiver::m_listening
          buffers,      \* m_frameBuffers: partial frames by number
          fired,        \* "yes" when the timer has fired in this period
          delivered     \* the frames emitted with frameReceived

vars == <<streaming, ended, frameId, wire, listening, buffers, fired, delivered>>
-----------------------------------------------------------------------------
(* splitFrameToChunks (VideoFrame.cpp:16-41). *)

RoundedDown(size) == size \div MaxPayload           \* slip: the last part is forgotten
ChunkCount(size) == (size + MaxPayload - 1) \div MaxPayload

\* A frame is known by its stream, its number and its size; a chunk carries the
\* header fields and its frame (the ghost of its payload).
ChunksOf(f) == [frame : {f}, index : 0..(ChunkCount(f.size) - 1), copy : 1..Copies]

Init == /\ streaming = {} /\ ended = {} /\ frameId = [s \in Streams |-> 0]
        /\ wire = {} /\ listening = "no" /\ buffers = {} /\ fired = "no"
        /\ delivered = {}
-----------------------------------------------------------------------------
(* A stream: startStreaming resets the number (VideoStreamer.cpp:17-39). *)

StartStreaming(s) == /\ s \notin streaming \cup ended
                     /\ streaming' = streaming \cup {s}
                     /\ UNCHANGED <<ended, frameId, wire, listening, buffers, fired, delivered>>

StopStreaming(s) == /\ s \in streaming
                    /\ streaming' = streaming \ {s}
                    /\ ended' = ended \cup {s}
                    /\ UNCHANGED <<frameId, wire, listening, buffers, fired, delivered>>

\* sendFrame (61-108); a writeDatagram that fails is a chunk lost at once.
NextNumber(s) == frameId[s] + 1
SendFrame(s, size) ==
  /\ s \in streaming
  /\ MapThenSumSet(LAMBDA t : frameId[t], Streams) < MaxFrames
  /\ frameId' = [frameId EXCEPT ![s] = NextNumber(s)]
  /\ wire' = wire \cup ChunksOf([stream |-> s, id |-> frameId[s], size |-> size])
  /\ UNCHANGED <<streaming, ended, listening, buffers, fired, delivered>>
-----------------------------------------------------------------------------
(* The network. *)

Lose(c) == /\ c \in wire
           /\ wire' = wire \ {c}
           /\ UNCHANGED <<streaming, ended, frameId, listening, buffers, fired, delivered>>
-----------------------------------------------------------------------------
(* The receiver.  A buffer: the frame number, totalChunks, the stored chunks as
   a partial function from indices to frames, the periods since firstChunkTime,
   and the periods since its first chunk really came (for the properties). *)

StartListening == /\ listening = "no"
                  /\ listening' = "yes"
                  /\ UNCHANGED <<streaming, ended, frameId, wire, buffers, fired, delivered>>

StopListening == /\ listening = "yes"
                 /\ listening' = "no"
                 /\ buffers' = {}
                 /\ UNCHANGED <<streaming, ended, frameId, wire, fired, delivered>>

\* m_frameBuffers[frameId] makes a buffer whose frameId is 0, and 0 is the mark
\* of a new buffer (112-113): frame 0 stays new, and starts its time again with
\* every chunk.
BufferOf(id) == {b \in buffers : b.id = id}
AlwaysNew(b) == TRUE                                \* slip: no look at the mark
LooksNew(b) == b.id = 0
Opened(c) ==
  LET n == ChunkCount(c.frame.size) IN
  IF BufferOf(c.frame.id) = {}
  THEN [id |-> c.frame.id, total |-> n, got |-> <<>>, age |-> 0, trueAge |-> 0]
  ELSE LET b == CHOOSE b \in BufferOf(c.frame.id) : TRUE IN
       IF LooksNew(b)
       THEN [b EXCEPT !.total = n, !.age = 0,
                      !.got = [i \in DOMAIN b.got \cap 0..(n - 1) |-> b.got[i]]]
       ELSE b

\* processChunk and completeFrame (97-170): a chunk out of range or stored
\* already changes nothing; the last missing one completes the frame.
Storable(b, c) == c.index < b.total /\ c.index \notin DOMAIN b.got
Stored(b, c) ==
  IF Storable(b, c)
  THEN [b EXCEPT !.got = [i \in DOMAIN b.got \cup {c.index} |->
                            IF i = c.index THEN c.frame ELSE b.got[i]]]
  ELSE b
IsComplete(b) == DOMAIN b.got = 0..(b.total - 1)
Erased(b) == {}
Receive(c) ==
  /\ c \in wire
  /\ wire' = wire \ {c}
  /\ IF listening = "no"
     THEN UNCHANGED <<buffers, delivered>>
     ELSE LET opened == Opened(c)
              b      == Stored(opened, c)
              rest   == buffers \ BufferOf(c.frame.id)
          IN IF Storable(opened, c) /\ IsComplete(b)
             THEN /\ buffers' = rest \cup Erased(b)
                  /\ delivered' = delivered \cup {[id |-> b.id, parts |-> b.got]}
             ELSE /\ buffers' = rest \cup {b}
                  /\ UNCHANGED delivered
  /\ UNCHANGED <<streaming, ended, frameId, listening, fired>>

\* onTimeoutCheck (172-189); the statistics are left out.
NeverOld(b) == FALSE                                \* slip: nothing is collected
TimedOut(b) == b.age > Timeout
OnTimeoutCheck ==
  /\ listening = "yes" /\ fired = "no"
  /\ fired' = "yes"
  /\ buffers' = {b \in buffers : ~TimedOut(b)}
  /\ UNCHANGED <<streaming, ended, frameId, wire, listening, delivered>>

\* A timer period passes; the event loop is not late by more than that.  Ages well
\* past the timeout are not told apart.
Older(age) == IF age > Timeout + 1 THEN age ELSE age + 1
Tick ==
  /\ listening = "yes" => fired = "yes"
  /\ fired' = "no"
  /\ buffers' = {[b EXCEPT !.age = Older(@), !.trueAge = Older(@)] : b \in buffers}
  /\ UNCHANGED <<streaming, ended, frameId, wire, listening, delivered>>
-----------------------------------------------------------------------------
Next == \/ \E s \in Streams : \/ StartStreaming(s) \/ StopStreaming(s)
                              \/ \E size \in Sizes : SendFrame(s, size)
        \/ \E c \in wire : Lose(c) \/ Receive(c)
        \/ StartListening \/ StopListening \/ OnTimeoutCheck \/ Tick

\* Time passes and the timer of a listening receiver fires.
Fairness == WF_vars(OnTimeoutCheck) /\ WF_vars(Tick)

Spec == Init /\ [][Next]_vars

FairSpec == Spec /\ Fairness
-----------------------------------------------------------------------------
Frames == [stream : Streams, id : 0..(MaxFrames - 1), size : Sizes]

TypeOK ==
  /\ streaming \subseteq Streams /\ ended \subseteq Streams
  /\ frameId \in [Streams -> 0..MaxFrames]
  /\ \A c \in wire : c.frame \in Frames /\ c.index \in Nat /\ c.copy \in 1..Copies
  /\ listening \in {"yes", "no"} /\ fired \in {"yes", "no"}
  /\ \A b \in buffers :
       /\ \A a \in buffers : a.id = b.id => a = b
       /\ DOMAIN b.got \subseteq 0..(b.total - 1)
       /\ \A i \in DOMAIN b.got : b.got[i] \in Frames /\ b.got[i].id = b.id
       /\ b.age \in 0..(Timeout + 1)
  /\ \A g \in delivered : \A i \in DOMAIN g.parts : g.parts[i] \in Frames

(* What is shown is a frame that was sent, whole and unmixed, however chunks are
   lost, repeated and reordered and wherever the receiver joined: its parts are
   of one frame and add up to its size, or they come from two streams. *)
WholeFrames ==
  \A g \in delivered : \A i, j \in DOMAIN g.parts :
    LET f == g.parts[i] IN
      f.stream = g.parts[j].stream =>
        /\ f = g.parts[j]
        /\ (\A k \in DOMAIN g.parts : g.parts[k] = f) =>
             /\ DOMAIN g.parts = 0..(ChunkCount(f.size) - 1)
             /\ Cardinality(DOMAIN g.parts) * MaxPayload >= f.size

(* A partial frame other than number 0 is dropped at the first timer event past
   the timeout, whatever chunks still arrive for it. *)
DroppedInTime == \A b \in buffers : b.id # 0 => b.trueAge <= Timeout + 1

(* Partial frames do not pile up: each number's buffer is given back, also when
   the stream breaks off in the middle of a frame. *)
BuffersAreFreed ==
  \A id \in 0..(MaxFrames - 1) : (BufferOf(id) # {}) ~> (BufferOf(id) = {})

(* "超时100ms未收齐 → 丢弃该帧" (docs: 跨平台视频流协议实现, line 76): what is not complete
   in time is dropped; every frame, and the timer's period granted. *)
EveryFrameDroppedInTime == \A b \in buffers : b.trueAge <= Timeout + 1
=============================================================================
