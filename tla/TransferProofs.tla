--------------------------- MODULE TransferProofs ---------------------------
(***************************************************************************)
(* Proofs about what is transferred beside the messages: the video stream  *)
(* (VideoStream), for any streams, sizes of frames, number of copies the   *)
(* network makes and timeout, and files (FileTransfer), for any size, any  *)
(* accepts of an offer and any paths.                                      *)
(***************************************************************************)
EXTENDS VideoStream, FileTransfer, FiniteSetTheorems, TLAPS

-----------------------------------------------------------------------------
(* The video stream. *)

Parts(b) == {b.got[i] : i \in DOMAIN b.got}

\* The frames of which something is under way.
Present == {c.frame : c \in wire} \cup UNION {Parts(b) : b \in buffers}

(* A stream uses a number once: what is present with one stream and one number is
   one frame, and numbers to come are above those present. *)
Numbered == /\ frameId \in [Streams -> Nat]
            /\ \A x \in Present : /\ x.stream \in Streams /\ x.size \in Sizes /\ x.id \in Nat
                                  /\ x.id < frameId[x.stream]
            /\ \A x, y \in Present : x.stream = y.stream /\ x.id = y.id => x = y

InRange == \A c \in wire : c.index \in 0..(ChunkCount(c.frame.size) - 1)

(* A buffer keeps parts of its own number only; its total is that of a frame of which it
   has a part, but for number 0, whose total is that of the last chunk that came. *)
Fields(b) == /\ DOMAIN b = {"id", "total", "got", "age", "trueAge"}
             /\ b.age \in Nat /\ b.trueAge \in Nat
Sorted(b) == \A x \in Parts(b) : x.id = b.id
Measured(b) == b.id # 0 => \E x \in Parts(b) : b.total = ChunkCount(x.size)
Buffered == \A b \in buffers : Fields(b) /\ Sorted(b) /\ Measured(b)

(* What is shown is of one frame per stream, and as long as a frame it has a part of. *)
Whole(g) == LET parts == {g.parts[i] : i \in DOMAIN g.parts}
            IN  /\ \A x, y \in parts : x.stream = y.stream => x = y
                /\ \E x \in parts : x.size \in Sizes /\ DOMAIN g.parts = 0..(ChunkCount(x.size) - 1)
AllWhole == \A g \in delivered : Whole(g)

(* A buffer's time is that since its first chunk, but for number 0; when the timer has
   fired, none is left past the timeout. *)
Young(b) == b.id # 0 => /\ b.age = b.trueAge /\ b.age <= Timeout + 1
                        /\ fired = "yes" => b.age <= Timeout
Dated == /\ listening \in {"yes", "no"} /\ (listening # "yes" => buffers = {})
         /\ \A b \in buffers : Young(b)

IInv == Numbered /\ InRange /\ Buffered /\ AllWhole /\ Dated
-----------------------------------------------------------------------------
LEMMA CountType == ASSUME NEW size \in Sizes
                   PROVE ChunkCount(size) \in Nat \ {0} /\ ChunkCount(size) * MaxPayload >= size
<1> DEFINE a == size + MaxPayload - 1
           q == a \div MaxPayload
<1>1. size \in Nat \ {0} /\ MaxPayload \in Nat \ {0}
  BY VideoAssumption
<1>2. a \in Nat /\ a >= MaxPayload
  BY <1>1
<1> HIDE DEF a
<1>3. q \in Int /\ a = MaxPayload * q + (a % MaxPayload) /\ a % MaxPayload \in 0..(MaxPayload - 1)
  BY <1>1, <1>2
<1>4. MaxPayload * q > a - MaxPayload
  BY <1>1, <1>2, <1>3
<1> HIDE DEF q
<1>5. q > 0
  BY <1>1, <1>2, <1>3, <1>4
<1>6. MaxPayload * q = q * MaxPayload
  BY <1>1, <1>3
<1>7. a - MaxPayload >= size - 1
  BY <1>1 DEF a
<1>8. q * MaxPayload >= size
  BY <1>1, <1>2, <1>3, <1>4, <1>6, <1>7
<1>9. QED BY <1>3, <1>5, <1>8 DEF ChunkCount, q, a
-----------------------------------------------------------------------------
LEMMA InitIInv == Init => IInv
<1> SUFFICES ASSUME Init PROVE IInv
  OBVIOUS
<1> USE DEF Init
<1>1. Present = {}
  BY DEF Present
<1>2. QED BY <1>1 DEF IInv, Numbered, InRange, Buffered, AllWhole, Dated

(* Numbers stay as they are while nothing is sent. *)
LEMMA FewerPresent == ASSUME Numbered, UNCHANGED frameId, Present' \subseteq Present
                      PROVE Numbered'
BY DEF Numbered

(* Steps that leave wire or buffers as they are, or have less of them. *)
LEMMA LessPresent == ASSUME wire' \subseteq wire, buffers' \subseteq buffers
                     PROVE Present' \subseteq Present
BY DEF Present, Parts

LEMMA SameBuffers == ASSUME buffers' \subseteq buffers, Buffered PROVE Buffered'
BY DEF Buffered, Fields, Sorted, Measured, Parts

LEMMA SendStep == ASSUME IInv, NEW s \in Streams, NEW size \in Sizes, SendFrame(s, size)
                  PROVE IInv'
<1> DEFINE f == [stream |-> s, id |-> frameId[s], size |-> size]
<1>1. Present' \subseteq Present \cup {f}
  BY DEF SendFrame, Present, Parts, ChunksOf
<1>2. frameId' = [frameId EXCEPT ![s] = frameId[s] + 1] /\ frameId[s] \in Nat
  BY DEF SendFrame, NextNumber, IInv, Numbered
<1>3. Numbered'
  <2>1. frameId' \in [Streams -> Nat]
    BY <1>2 DEF IInv, Numbered
  <2>2. \A x \in Present : /\ x.stream \in Streams /\ x.size \in Sizes /\ x.id \in Nat
                           /\ x.id < frameId'[x.stream] /\ (x.stream = s => x.id < frameId[s])
    BY <1>2 DEF IInv, Numbered
  <2>3. f.stream = s /\ f.id = frameId[s] /\ f.size = size /\ f.id < frameId'[s]
    BY <1>2 DEF IInv, Numbered
  <2>4. ASSUME NEW x \in Present', NEW y \in Present', x.stream = y.stream, x.id = y.id
        PROVE x = y
    <3>1. CASE x \in Present /\ y \in Present
      BY <3>1, <2>4 DEF IInv, Numbered
    <3>2. CASE x = f /\ y \in Present
      BY <3>2, <2>2, <2>3, <2>4, <1>2
    <3>3. CASE y = f /\ x \in Present
      BY <3>3, <2>2, <2>3, <2>4, <1>2
    <3>4. QED BY <1>1, <3>1, <3>2, <3>3
  <2>5. \A x \in Present' : /\ x.stream \in Streams /\ x.size \in Sizes /\ x.id \in Nat
                            /\ x.id < frameId'[x.stream]
    BY <1>1, <1>2, <2>2, <2>3
  <2>6. QED BY <2>1, <2>4, <2>5 DEF Numbered
<1>4. InRange'
  BY DEF SendFrame, IInv, InRange, ChunksOf
<1>5. Buffered' /\ AllWhole' /\ Dated'
  BY SameBuffers DEF SendFrame, IInv, AllWhole, Whole, Dated, Young
<1>6. QED BY <1>3, <1>4, <1>5 DEF IInv

LEMMA LoseStep == ASSUME IInv, NEW c \in wire, Lose(c) PROVE IInv'
<1>1. Numbered'
  BY FewerPresent, LessPresent DEF Lose, IInv
<1>2. QED BY <1>1, SameBuffers DEF Lose, IInv, InRange, AllWhole, Whole, Dated, Young

LEMMA TimeoutStep == ASSUME IInv, OnTimeoutCheck PROVE IInv'
<1>1. buffers' \subseteq buffers /\ \A b \in buffers' : b.age <= Timeout
  <2>1. \A b \in buffers : b.age \in Nat
    BY DEF IInv, Buffered, Fields
  <2>2. QED BY <2>1, VideoAssumption DEF OnTimeoutCheck, TimedOut
<1>2. Numbered'
  BY <1>1, FewerPresent, LessPresent DEF OnTimeoutCheck, IInv
<1>3. Dated'
  BY <1>1 DEF OnTimeoutCheck, IInv, Dated, Young
<1>4. QED BY <1>1, <1>2, <1>3, SameBuffers DEF OnTimeoutCheck, IInv, InRange, AllWhole, Whole

LEMMA ListenStep == ASSUME IInv, StartListening \/ StopListening PROVE IInv'
<1>1. buffers' \subseteq buffers /\ (listening' # "yes" => buffers' = {})
  BY DEF StartListening, StopListening, IInv, Dated
<1>2. Numbered'
  BY <1>1, FewerPresent, LessPresent DEF StartListening, StopListening, IInv
<1>3. Dated'
  BY <1>1 DEF StartListening, StopListening, IInv, Dated, Young
<1>4. QED BY <1>1, <1>2, <1>3, SameBuffers
          DEF StartListening, StopListening, IInv, InRange, AllWhole, Whole

LEMMA StreamStep == ASSUME IInv, NEW s \in Streams, StartStreaming(s) \/ StopStreaming(s)
                    PROVE IInv'
<1>1. Numbered'
  BY FewerPresent, LessPresent DEF StartStreaming, StopStreaming, IInv
<1>2. QED BY <1>1, SameBuffers
          DEF StartStreaming, StopStreaming, IInv, InRange, AllWhole, Whole, Dated, Young

LEMMA TickStep == ASSUME IInv, Tick PROVE IInv'
<1> DEFINE Aged(b) == [b EXCEPT !.age = Older(b.age), !.trueAge = Older(b.trueAge)]
<1>1. buffers' = {Aged(b) : b \in buffers}
  BY DEF Tick
<1>2. ASSUME NEW b \in buffers
      PROVE /\ Aged(b).id = b.id /\ Aged(b).total = b.total /\ Aged(b).got = b.got
            /\ Aged(b).age = Older(b.age) /\ Aged(b).trueAge = Older(b.trueAge)
            /\ DOMAIN Aged(b) = DOMAIN b
  BY DEF IInv, Buffered, Fields
<1> HIDE DEF Aged
<1>3. \A b \in buffers : Parts(Aged(b)) = Parts(b)
  BY <1>2 DEF Parts
<1>4. Numbered'
  <2>1. Present' \subseteq Present
    <3>1. ASSUME NEW b \in buffers' PROVE \E a \in buffers : Parts(b) = Parts(a)
      BY <1>1, <1>3
    <3>2. QED BY <3>1 DEF Present, Tick
  <2>2. QED BY <2>1, FewerPresent DEF Tick, IInv
<1>5. Buffered'
  <2>1. ASSUME NEW b \in buffers PROVE Fields(Aged(b)) /\ Sorted(Aged(b)) /\ Measured(Aged(b))
    <3>1. Fields(Aged(b))
      BY <1>2, VideoAssumption DEF IInv, Buffered, Fields, Older
    <3>2. Sorted(Aged(b)) /\ Measured(Aged(b))
      BY <1>2, <1>3 DEF IInv, Buffered, Sorted, Measured
    <3>3. QED BY <3>1, <3>2
  <2>2. QED BY <1>1, <2>1 DEF Buffered, Fields, Sorted, Measured, Parts
<1>6. Dated'
  <2>1. ASSUME NEW b \in buffers, b.id # 0
        PROVE Aged(b).age = Aged(b).trueAge /\ Aged(b).age <= Timeout + 1
    <3>1. fired = "yes"
      BY DEF Tick, IInv, Dated
    <3>2. b.age = b.trueAge /\ b.age <= Timeout /\ b.age \in Nat
      BY <2>1, <3>1 DEF IInv, Dated, Young, Buffered, Fields
    <3>3. QED BY <1>2, <3>2, VideoAssumption DEF Older
  <2>2. /\ fired' = "no" /\ listening' \in {"yes", "no"}
        /\ listening' # "yes" => buffers' = {}
    BY <1>1 DEF Tick, IInv, Dated
  <2>3. QED BY <1>1, <1>2, <2>1, <2>2 DEF Dated, Young
<1>7. QED BY <1>4, <1>5, <1>6 DEF Tick, IInv, InRange, AllWhole, Whole
-----------------------------------------------------------------------------
(* The buffer a chunk finds or opens. *)
LEMMA OpenedIs ==
  ASSUME IInv, NEW c \in wire
  PROVE /\ Fields(Opened(c)) /\ Opened(c).id = c.frame.id
        /\ Parts(Opened(c)) \subseteq Present /\ Sorted(Opened(c)) /\ Young(Opened(c))
        /\ \/ Opened(c).total = ChunkCount(c.frame.size)
              /\ (Opened(c).id = 0 \/ Opened(c).got = <<>>)
           \/ Opened(c).id # 0 /\ Measured(Opened(c))
<1> DEFINE o == Opened(c)
           n == ChunkCount(c.frame.size)
<1>1. CASE BufferOf(c.frame.id) = {}
  <2>1. o = [id |-> c.frame.id, total |-> n, got |-> <<>>, age |-> 0, trueAge |-> 0]
    BY <1>1 DEF Opened
  <2>2. Fields(o) /\ o.id = c.frame.id /\ o.total = n /\ o.got = <<>> /\ o.age = 0 /\ o.trueAge = 0
    BY <2>1 DEF Fields
  <2>3. Parts(o) = {}
    BY <2>2 DEF Parts
  <2>4. QED BY <2>2, <2>3, VideoAssumption DEF Sorted, Young
<1>2. CASE BufferOf(c.frame.id) # {}
  <2> DEFINE a == CHOOSE a \in BufferOf(c.frame.id) : TRUE
  <2>1. a \in buffers /\ a.id = c.frame.id
    BY <1>2 DEF BufferOf
  <2>2. Fields(a) /\ Sorted(a) /\ Measured(a) /\ Young(a) /\ Parts(a) \subseteq Present
    BY <2>1 DEF IInv, Buffered, Dated, Present
  <2>3. CASE a.id = 0
    <3>1. o = [a EXCEPT !.total = n, !.age = 0, !.got = [i \in DOMAIN a.got \cap 0..(n - 1) |-> a.got[i]]]
      BY <1>2, <2>3 DEF Opened, LooksNew
    <3>2. Fields(o) /\ o.id = a.id /\ o.total = n
          /\ o.got = [i \in DOMAIN a.got \cap 0..(n - 1) |-> a.got[i]]
      BY <2>2, <3>1 DEF Fields
    <3>3. Parts(o) \subseteq Parts(a)
      BY <3>2 DEF Parts
    <3>4. QED BY <2>1, <2>2, <2>3, <3>2, <3>3 DEF Sorted, Young
  <2>4. CASE a.id # 0
    <3>1. o = a
      BY <1>2, <2>4 DEF Opened, LooksNew
    <3>2. QED BY <2>1, <2>2, <2>4, <3>1
  <2>5. QED BY <2>3, <2>4
<1>3. QED BY <1>1, <1>2

(* ... and what it is when the chunk is in it. *)
LEMMA StoredIs ==
  ASSUME IInv, NEW c \in wire
  PROVE LET o == Opened(c)
            b == Stored(o, c)
        IN  /\ Fields(b) /\ b.id = c.frame.id /\ Parts(b) \subseteq Present
            /\ Sorted(b) /\ Measured(b) /\ Young(b)
            /\ Storable(o, c) => \E x \in Parts(b) : b.total = ChunkCount(x.size)
<1> DEFINE o == Opened(c)
           b == Stored(o, c)
           n == ChunkCount(c.frame.size)
<1>1. /\ Fields(o) /\ o.id = c.frame.id /\ Parts(o) \subseteq Present /\ Sorted(o) /\ Young(o)
      /\ \/ o.total = n /\ (o.id = 0 \/ o.got = <<>>)
         \/ o.id # 0 /\ Measured(o)
  BY OpenedIs
<1>2. c.frame \in Present
  BY DEF Present
<1>3. c.index \in 0..(n - 1) /\ n \in Nat \ {0}
  BY <1>2, CountType DEF IInv, InRange, Numbered
<1> HIDE DEF o, n
<1>4. CASE Storable(o, c)
  <2>1. b = [o EXCEPT !.got = [i \in DOMAIN o.got \cup {c.index} |->
                                 IF i = c.index THEN c.frame ELSE o.got[i]]]
    BY <1>4 DEF Stored
  <2>2. /\ Fields(b) /\ b.id = o.id /\ b.total = o.total /\ b.age = o.age /\ b.trueAge = o.trueAge
        /\ b.got = [i \in DOMAIN o.got \cup {c.index} |-> IF i = c.index THEN c.frame ELSE o.got[i]]
    BY <1>1, <2>1 DEF Fields
  <2> HIDE DEF b
  <2>3. Parts(b) = Parts(o) \cup {c.frame}
    BY <1>4, <2>2 DEF Parts, Storable
  <2>4. \E x \in Parts(b) : b.total = ChunkCount(x.size)
    BY <1>1, <2>2, <2>3 DEF Measured, n
  <2>5. Sorted(b) /\ Measured(b) /\ Young(b)
    BY <1>1, <2>2, <2>3, <2>4 DEF Sorted, Measured, Young
  <2>6. QED BY <1>1, <1>2, <2>2, <2>3, <2>4, <2>5 DEF o, b
<1>5. CASE ~Storable(o, c)
  <2>1. b = o
    BY <1>5 DEF Stored
  <2>2. Measured(o)
    <3>1. CASE o.total = n /\ o.got = <<>>
      BY <1>3, <1>5, <3>1 DEF Storable
    <3>2. CASE o.id = 0
      BY <3>2 DEF Measured
    <3>3. QED BY <1>1, <3>1, <3>2
  <2>3. QED BY <1>1, <1>5, <2>1, <2>2 DEF o, b
<1>6. QED BY <1>4, <1>5

LEMMA ReceiveStep == ASSUME IInv, NEW c \in wire, Receive(c) PROVE IInv'
<1> DEFINE o == Opened(c)
           b == Stored(o, c)
           g == [id |-> b.id, parts |-> b.got]
<1>1. CASE listening = "no"
  <2>1. Numbered'
    BY <1>1, FewerPresent, LessPresent DEF Receive, IInv
  <2>2. QED BY <1>1, <2>1, SameBuffers DEF Receive, IInv, InRange, AllWhole, Whole, Dated, Young
<1>2. CASE listening # "no"
  <2>1. /\ Fields(b) /\ b.id = c.frame.id /\ Parts(b) \subseteq Present
        /\ Sorted(b) /\ Measured(b) /\ Young(b)
        /\ Storable(o, c) => \E x \in Parts(b) : b.total = ChunkCount(x.size)
    BY StoredIs
  <2>2. /\ wire' \subseteq wire /\ buffers' \subseteq buffers \cup {b}
        /\ UNCHANGED <<frameId, listening, fired>>
        /\ \/ UNCHANGED delivered
           \/ Storable(o, c) /\ IsComplete(b) /\ delivered' = delivered \cup {g}
    BY <1>2 DEF Receive, Erased
  <2> HIDE DEF o, b
  <2>3. Numbered'
    <3>1. Present' \subseteq Present
      <4>1. ASSUME NEW x \in buffers' PROVE Parts(x) \subseteq Present
        BY <2>1, <2>2 DEF Present
      <4>2. \A d \in wire' : d.frame \in Present
        BY <2>2 DEF Present
      <4>3. QED BY <4>1, <4>2 DEF Present
    <3>2. QED BY <2>2, <3>1, FewerPresent DEF IInv
  <2>4. InRange'
    BY <2>2 DEF IInv, InRange
  <2>5. \A x \in buffers' : Fields(x) /\ Sorted(x) /\ Measured(x)
    BY <2>1, <2>2 DEF IInv, Buffered
  <2>6. AllWhole'
    <3>1. CASE UNCHANGED delivered
      BY <3>1 DEF IInv, AllWhole
    <3>2. CASE Storable(o, c) /\ IsComplete(b) /\ delivered' = delivered \cup {g}
      <4>1. g.parts = b.got /\ {g.parts[i] : i \in DOMAIN g.parts} = Parts(b)
        BY DEF Parts
      <4>2. \A x, y \in Parts(b) : x.stream = y.stream => x = y
        BY <2>1 DEF Sorted, IInv, Numbered
      <4>3. \E x \in Parts(b) : x.size \in Sizes /\ DOMAIN b.got = 0..(ChunkCount(x.size) - 1)
        BY <2>1, <3>2 DEF IsComplete, IInv, Numbered
      <4>4. Whole(g)
        BY <4>1, <4>2, <4>3 DEF Whole
      <4>5. QED BY <3>2, <4>4 DEF IInv, AllWhole
    <3>3. QED BY <2>2, <3>1, <3>2
  <2>7. Dated'
    <3>1. \A x \in buffers' : Young(x)
      BY <2>1, <2>2 DEF IInv, Dated
    <3>2. listening = "yes"
      BY <1>2 DEF IInv, Dated
    <3>3. QED BY <2>2, <3>1, <3>2 DEF Dated, Young
  <2>8. QED BY <2>3, <2>4, <2>5, <2>6, <2>7 DEF IInv, Buffered
<1>3. QED BY <1>1, <1>2

LEMMA NextIInv == IInv /\ [Next]_vars => IInv'
<1> SUFFICES ASSUME IInv, [Next]_vars PROVE IInv'
  OBVIOUS
<1>1. CASE UNCHANGED vars
  <2>1. Numbered'
    BY <1>1, FewerPresent, LessPresent DEF vars, IInv
  <2>2. QED BY <1>1, <2>1, SameBuffers DEF vars, IInv, InRange, AllWhole, Whole, Dated, Young
<1>2. QED
  BY <1>1, SendStep, LoseStep, ReceiveStep, TimeoutStep, ListenStep, StreamStep, TickStep DEF Next

LEMMA Inductive == Spec => []IInv
BY InitIInv, NextIInv, PTL DEF Spec

(* However chunks are lost, repeated and reordered, what is shown is whole: its parts are
   of one frame of a stream, and all the parts of that frame. *)
THEOREM OnlyWholeFrames == Spec => []WholeFrames
<1>1. IInv => WholeFrames
  <2> SUFFICES ASSUME IInv, NEW g \in delivered, NEW i \in DOMAIN g.parts, NEW j \in DOMAIN g.parts,
                      g.parts[i].stream = g.parts[j].stream
               PROVE LET f == g.parts[i] IN
                       /\ f = g.parts[j]
                       /\ (\A k \in DOMAIN g.parts : g.parts[k] = f) =>
                            /\ DOMAIN g.parts = 0..(ChunkCount(f.size) - 1)
                            /\ Cardinality(DOMAIN g.parts) * MaxPayload >= f.size
    BY DEF WholeFrames
  <2>1. Whole(g)
    BY DEF IInv, AllWhole
  <2>2. g.parts[i] = g.parts[j]
    BY <2>1 DEF Whole
  <2>3. ASSUME \A k \in DOMAIN g.parts : g.parts[k] = g.parts[i]
        PROVE /\ DOMAIN g.parts = 0..(ChunkCount(g.parts[i].size) - 1)
              /\ Cardinality(DOMAIN g.parts) * MaxPayload >= g.parts[i].size
    <3>1. g.parts[i].size \in Sizes /\ DOMAIN g.parts = 0..(ChunkCount(g.parts[i].size) - 1)
      BY <2>1, <2>3 DEF Whole
    <3>2. ASSUME NEW n \in Nat \ {0} PROVE Cardinality(0..(n - 1)) = n
      <4>1. Cardinality(0..(n - 1)) = IF 0 > n - 1 THEN 0 ELSE (n - 1) - 0 + 1
        BY FS_Interval
      <4>2. QED BY <4>1
    <3>3. QED BY <3>1, <3>2, CountType
  <2>4. QED BY <2>2, <2>3
<1>2. QED BY <1>1, Inductive, PTL

(* A partial frame other than number 0 is gone at the first event of the timer past the
   timeout, whatever chunks still come for it. *)
THEOREM DropsInTime == Spec => []DroppedInTime
<1>1. IInv => DroppedInTime
  BY DEF IInv, Dated, Young, DroppedInTime
<1>2. QED BY <1>1, Inductive, PTL
-----------------------------------------------------------------------------
(* Files. *)
(* A worker has no path before it is accepted, nothing before it opens its file, and
   takes its end with it. *)
Stages ==
  \A d \in Accepts :
    /\ pc[d] # "none" => path \in Paths
    /\ pc[d] \in {"none", "connect"} => srv[d] = "none"
    /\ pc[d] \in {"none", "connect", "open"} => recv[d] = 0
    /\ pc[d] \in {"while", "recv"} => file[d] \in Paths
    /\ pc[d] # "done" => end[d] = "none" /\ timeoCnt[d] = 0

(* The worker never has more than was sent, and a sender that stops early, or has not
   begun, has not sent it all. *)
Sending ==
  \A d \in Accepts :
    /\ recv[d] <= sent[d]
    /\ srv[d] \in {"none", "request"} => sent[d] = 0
    /\ srv[d] \in {"refused", "crashed", "failed"} /\ fileSize # 0 => sent[d] < fileSize

(* What the worker that opened a path last has received is on disk, but for what the disk
   did not take, whatever other workers write there. *)
Kept ==
  \A d \in Accepts :
    /\ end[d] = "Finish" => pc[d] = "done" /\ recv[d] = fileSize /\ file[d] \in Paths
    /\ file[d] \in Paths /\ opener[file[d]] = d =>
         1..recv[d] \subseteq disk[file[d]] \cup lost[d]

(* One worker at a time: the path of the task is the one chosen at its prompt. *)
Chosen ==
  overlap = "no" =>
    \A d \in Accepts :
      /\ pc[d] \in {"connect", "open"} => path = asked[d]
      /\ pc[d] \in {"while", "recv"} \/ end[d] = "Finish" => file[d] = asked[d]

(* One worker at a time: the task is Running while its worker is in the loop. *)
Ended == {d \in Accepts : pc[d] = "done"}
Told ==
  /\ IsFiniteSet(Ended)
  /\ overlap = "no" =>
       /\ \A c, d \in Accepts : Working(c) /\ Working(d) => c = d
       /\ \A d \in Accepts : pc[d] \in {"while", "recv"} => state = "Running"
       /\ verdicts = Cardinality(Ended)

FileInv == FileTypeOK /\ Stages /\ Sending /\ Kept /\ Chosen /\ Told

LEMMA InitFileInv == FileInit => FileInv
<1> SUFFICES ASSUME FileInit PROVE FileInv
  OBVIOUS
<1> USE FileTransferAssumption DEF FileInit
<1>1. FileTypeOK
  BY DEF FileTypeOK, Units, Final
<1>2. Stages /\ Sending /\ Kept /\ Chosen
  BY DEF Stages, Sending, Kept, Chosen, NoPath
<1>3. Ended = {}
  BY DEF Ended
<1>4. Told
  BY <1>3, FS_EmptySet DEF Told, Working
<1>5. QED BY <1>1, <1>2, <1>4 DEF FileInv

LEMMA FileTypeStep == FileTypeOK /\ Stages /\ Sending /\ [FileNext]_fileVars => FileTypeOK'
<1> SUFFICES ASSUME FileTypeOK, Stages, Sending, [FileNext]_fileVars PROVE FileTypeOK'
  OBVIOUS
<1> USE FileTransferAssumption DEF FileTypeOK, Units, offer, taskVars, workerVars, fileSystem,
                                    prompted, serverVars
<1>1. ASSUME NEW d \in Accepts, NEW p \in Paths, Accept(d, p) PROVE FileTypeOK'
  BY <1>1 DEF Accept
<1>2. CASE Cancel
  BY <1>2 DEF Cancel
<1>3. ASSUME NEW d \in Accepts, ConnectOk(d) \/ While(d) PROVE FileTypeOK'
  BY <1>3 DEF ConnectOk, While
<1>4. ASSUME NEW d \in Accepts, ConnectFails(d) \/ OpenFails(d) \/ WhileCanceled(d) \/ RecvFails(d)
      PROVE  FileTypeOK'
  BY <1>4 DEF ConnectFails, OpenFails, WhileCanceled, RecvFails, SetState, Shown, EndAs, Final
<1>5. ASSUME NEW d \in Accepts, RecvTimeout(d) PROVE FileTypeOK'
  BY <1>5 DEF RecvTimeout, SetState, Shown, EndAs, Final, Stages
<1>6. ASSUME NEW d \in Accepts, Open(d) PROVE FileTypeOK'
  BY <1>6 DEF Open, SetState, Shown, Final, Stages
<1>7. ASSUME NEW d \in Accepts, WhileEnds(d) PROVE FileTypeOK'
  BY <1>7 DEF WhileEnds, ProgressThenFinish, Shown, EndAs, Final
<1>8. ASSUME NEW d \in Accepts, RecvData(d) PROVE FileTypeOK'
  <2>1. recv[d] + 1 \in 1..fileSize /\ file[d] \in Paths
    BY <1>8 DEF RecvData, Stages
  <2>2. /\ disk' \in [Paths -> SUBSET Units] /\ lost' \in [Accepts -> SUBSET Units]
        /\ fileSize' = fileSize
    BY <1>8, <2>1 DEF RecvData, Written, Unwritten
  <2>3. lastProcess' \in 0..fileSize /\ verdicts' \in Nat
    BY <1>8, <2>1 DEF RecvData, SetProcess, Added, Shown
  <2>4. /\ recv' \in [Accepts -> 0..fileSize] /\ state' = state
        /\ pc' \in [Accepts -> {"none", "connect", "open", "while", "recv", "done"}]
    BY <1>8, <2>1 DEF RecvData, SetProcess, Added
  <2>5. UNCHANGED <<known, path, cancel, file, timeoCnt, end, opener, prompted, serverVars>>
    BY <1>8 DEF RecvData
  <2>6. QED BY <2>2, <2>3, <2>4, <2>5
<1>9. ASSUME NEW d \in Accepts, RecvClosed(d) PROVE FileTypeOK'
  <2>1. lastProcess' \in 0..fileSize /\ verdicts' \in Nat
    BY <1>9 DEF RecvClosed, SetProcess, CountsGot, Shown
  <2>2. QED BY <1>9, <2>1 DEF RecvClosed, SetProcess, CountsGot
<1>10. ASSUME NEW d \in Accepts, Server(d) PROVE FileTypeOK'
  BY <1>10 DEF Server, Serve, ServeUnknown, ServeUnreadable, SendUnit, SendFails, ServeEnds,
               MoreToSend
<1>11. CASE UNCHANGED fileVars
  BY <1>11 DEF fileVars
<1>12. QED
  BY <1>1, <1>2, <1>3, <1>4, <1>5, <1>6, <1>7, <1>8, <1>9, <1>10, <1>11 DEF FileNext, Worker

LEMMA StagesStep == FileTypeOK /\ Stages /\ [FileNext]_fileVars => Stages'
<1> SUFFICES ASSUME FileTypeOK, Stages, [FileNext]_fileVars PROVE Stages'
  OBVIOUS
<1> USE FileTransferAssumption DEF FileTypeOK, Stages, offer, taskVars, workerVars,
                                    fileSystem, prompted, serverVars
<1>1. ASSUME NEW d \in Accepts, NEW p \in Paths, Accept(d, p) PROVE Stages'
  BY <1>1 DEF Accept
<1>2. CASE Cancel
  BY <1>2 DEF Cancel
<1>3. ASSUME NEW d \in Accepts, ConnectOk(d) \/ While(d) PROVE Stages'
  BY <1>3 DEF ConnectOk, While
<1>4. ASSUME NEW d \in Accepts, ConnectFails(d) \/ OpenFails(d) \/ WhileCanceled(d) \/ RecvFails(d)
      PROVE  Stages'
  BY <1>4 DEF ConnectFails, OpenFails, WhileCanceled, RecvFails, EndAs
<1>5. ASSUME NEW d \in Accepts, RecvTimeout(d) \/ WhileEnds(d) PROVE Stages'
  BY <1>5 DEF RecvTimeout, WhileEnds, EndAs
<1>6. ASSUME NEW d \in Accepts, Open(d) PROVE Stages'
  BY <1>6 DEF Open
<1>7. ASSUME NEW d \in Accepts, RecvData(d) \/ RecvClosed(d) PROVE Stages'
  BY <1>7 DEF RecvData, RecvClosed, Written, Unwritten
<1>8. ASSUME NEW d \in Accepts, Server(d) PROVE Stages'
  BY <1>8 DEF Server, Serve, ServeUnknown, ServeUnreadable, SendUnit, SendFails, ServeEnds
<1>9. CASE UNCHANGED fileVars
  BY <1>9 DEF fileVars
<1>10. QED
  BY <1>1, <1>2, <1>3, <1>4, <1>5, <1>6, <1>7, <1>8, <1>9 DEF FileNext, Worker

LEMMA SendingStep == FileTypeOK /\ Stages /\ Sending /\ [FileNext]_fileVars => Sending'
<1> SUFFICES ASSUME FileTypeOK, Stages, Sending, [FileNext]_fileVars PROVE Sending'
  OBVIOUS
<1> USE FileTransferAssumption DEF FileTypeOK, Sending, offer, taskVars, workerVars,
                                    fileSystem, prompted, serverVars
<1>1. ASSUME NEW d \in Accepts, NEW p \in Paths, Accept(d, p) PROVE Sending'
  BY <1>1 DEF Accept
<1>2. ASSUME NEW d \in Accepts, ConnectOk(d) PROVE Sending'
  BY <1>2 DEF ConnectOk, Stages
<1>3. ASSUME NEW d \in Accepts, RecvData(d) PROVE Sending'
  BY <1>3 DEF RecvData, Added
<1>4. ASSUME NEW d \in Accepts, RecvClosed(d) PROVE Sending'
  BY <1>4 DEF RecvClosed, CountsGot
<1>5. CASE \/ Cancel
          \/ \E d \in Accepts :
               \/ ConnectFails(d) \/ Open(d) \/ OpenFails(d) \/ While(d) \/ WhileCanceled(d)
               \/ WhileEnds(d) \/ RecvTimeout(d) \/ RecvFails(d)
          \/ UNCHANGED fileVars
  <2>1. UNCHANGED <<recv, sent, srv, fileSize>>
    BY <1>5 DEF Cancel, ConnectFails, Open, OpenFails, While, WhileCanceled, WhileEnds,
                RecvTimeout, RecvFails, fileVars
  <2>2. QED BY <2>1
<1>6. ASSUME NEW d \in Accepts, SendUnit(d) PROVE Sending'
  BY <1>6 DEF SendUnit, MoreToSend
<1>7. ASSUME NEW d \in Accepts, SendFails(d) \/ ServeEnds(d) PROVE Sending'
  BY <1>7 DEF SendFails, ServeEnds, MoreToSend, WholeOffer
<1>8. ASSUME NEW d \in Accepts,
             (\E n \in 0..(fileSize + 1) : Serve(d, n)) \/ ServeUnknown(d) \/ ServeUnreadable(d)
      PROVE  Sending'
  BY <1>8 DEF Serve, ServeUnknown, ServeUnreadable
<1>9. QED
  BY <1>1, <1>2, <1>3, <1>4, <1>5, <1>6, <1>7, <1>8 DEF FileNext, Worker, Server

LEMMA KeptStep == FileTypeOK /\ Stages /\ Sending /\ Kept /\ [FileNext]_fileVars => Kept'
<1> SUFFICES ASSUME FileTypeOK, Stages, Sending, Kept, [FileNext]_fileVars PROVE Kept'
  OBVIOUS
<1> USE FileTransferAssumption DEF FileTypeOK, Kept, offer, taskVars, workerVars,
                                    fileSystem, prompted, serverVars
<1>1. ASSUME NEW d \in Accepts, NEW p \in Paths, Accept(d, p) PROVE Kept'
  BY <1>1 DEF Accept
<1>2. CASE Cancel
  BY <1>2 DEF Cancel
<1>3. ASSUME NEW d \in Accepts, ConnectOk(d) \/ While(d) PROVE Kept'
  BY <1>3 DEF ConnectOk, While
<1>4. ASSUME NEW d \in Accepts, ConnectFails(d) \/ OpenFails(d) \/ WhileCanceled(d) \/ RecvFails(d)
      PROVE  Kept'
  BY <1>4 DEF ConnectFails, OpenFails, WhileCanceled, RecvFails, EndAs
<1>5. ASSUME NEW d \in Accepts, RecvTimeout(d) PROVE Kept'
  BY <1>5 DEF RecvTimeout, EndAs
<1>6. ASSUME NEW d \in Accepts, WhileEnds(d) PROVE Kept'
  BY <1>6 DEF WhileEnds, EndAs, Stages
<1>7. ASSUME NEW d \in Accepts, Open(d) PROVE Kept'
  <2>1. recv[d] = 0 /\ path \in Paths /\ end[d] = "none"
    BY <1>7 DEF Open, Stages
  <2>2. ASSUME NEW e \in Accepts, file'[e] \in Paths, opener'[file'[e]] = e
        PROVE  1..recv'[e] \subseteq disk'[file'[e]] \cup lost'[e]
    <3>1. CASE e = d
      BY <1>7, <2>1, <3>1 DEF Open
    <3>2. CASE e # d
      BY <1>7, <2>1, <2>2, <3>2 DEF Open
    <3>3. QED BY <3>1, <3>2
  <2>3. ASSUME NEW e \in Accepts, end'[e] = "Finish"
        PROVE  pc'[e] = "done" /\ recv'[e] = fileSize /\ file'[e] \in Paths
    BY <1>7, <2>1, <2>3 DEF Open
  <2>4. fileSize' = fileSize
    BY <1>7 DEF Open
  <2>5. QED BY <2>2, <2>3, <2>4
<1>8. ASSUME NEW d \in Accepts, RecvData(d) PROVE Kept'
  <2>1. file[d] \in Paths /\ end[d] = "none"
    BY <1>8 DEF RecvData, Stages
  <2>2. /\ recv' = [recv EXCEPT ![d] = recv[d] + 1]
        /\ \/ disk' = [disk EXCEPT ![file[d]] = disk[file[d]] \cup {recv[d] + 1}] /\ lost' = lost
           \/ lost' = [lost EXCEPT ![d] = lost[d] \cup {recv[d] + 1}] /\ disk' = disk
        /\ UNCHANGED <<file, end, opener, fileSize>> /\ pc' = [pc EXCEPT ![d] = "while"]
    BY <1>8 DEF RecvData, Added, Written, Unwritten
  <2>3. ASSUME NEW e \in Accepts, file[e] \in Paths, opener[file[e]] = e
        PROVE  1..recv'[e] \subseteq disk'[file[e]] \cup lost'[e]
    <3>1. /\ 1..recv[e] \subseteq disk[file[e]] \cup lost[e]
          /\ disk[file[e]] \subseteq disk'[file[e]] /\ lost[e] \subseteq lost'[e]
      BY <2>1, <2>2, <2>3
    <3>2. CASE e = d
      BY <2>1, <2>2, <3>1, <3>2
    <3>3. CASE e # d
      BY <2>2, <3>1, <3>3
    <3>4. QED BY <3>2, <3>3
  <2>4. ASSUME NEW e \in Accepts, end[e] = "Finish"
        PROVE  pc'[e] = "done" /\ recv'[e] = fileSize /\ file[e] \in Paths
    BY <2>1, <2>2, <2>4
  <2>5. QED BY <2>2, <2>3, <2>4
<1>9. ASSUME NEW d \in Accepts, RecvClosed(d) PROVE Kept'
  BY <1>9 DEF RecvClosed, CountsGot, Stages
<1>10. ASSUME NEW d \in Accepts, Server(d) PROVE Kept'
  BY <1>10 DEF Server, Serve, ServeUnknown, ServeUnreadable, SendUnit, SendFails, ServeEnds
<1>11. CASE UNCHANGED fileVars
  BY <1>11 DEF fileVars
<1>12. QED
  BY <1>1, <1>2, <1>3, <1>4, <1>5, <1>6, <1>7, <1>8, <1>9, <1>10, <1>11 DEF FileNext, Worker

(* A path is chosen for a worker that starts alone, and the next one waits for its end. *)
LEMMA ChosenStep == FileTypeOK /\ Stages /\ Chosen /\ [FileNext]_fileVars => Chosen'
<1> SUFFICES ASSUME FileTypeOK, Stages, Chosen, [FileNext]_fileVars PROVE Chosen'
  OBVIOUS
<1> USE DEF FileTypeOK, Chosen, offer, taskVars, workerVars, fileSystem, prompted, serverVars
<1>1. ASSUME NEW d \in Accepts, NEW p \in Paths, Accept(d, p) PROVE Chosen'
  BY <1>1 DEF Accept, Working, Stages
<1>2. CASE Cancel
  BY <1>2 DEF Cancel
<1>3. ASSUME NEW d \in Accepts, ConnectOk(d) \/ While(d) PROVE Chosen'
  BY <1>3 DEF ConnectOk, While
<1>4. ASSUME NEW d \in Accepts, ConnectFails(d) \/ OpenFails(d) \/ WhileCanceled(d) \/ RecvFails(d)
      PROVE  Chosen'
  BY <1>4 DEF ConnectFails, OpenFails, WhileCanceled, RecvFails, EndAs
<1>5. ASSUME NEW d \in Accepts, RecvTimeout(d) \/ WhileEnds(d) PROVE Chosen'
  BY <1>5 DEF RecvTimeout, WhileEnds, EndAs
<1>6. ASSUME NEW d \in Accepts, Open(d) PROVE Chosen'
  BY <1>6 DEF Open, Stages
<1>7. ASSUME NEW d \in Accepts, RecvData(d) \/ RecvClosed(d) PROVE Chosen'
  BY <1>7 DEF RecvData, RecvClosed
<1>8. ASSUME NEW d \in Accepts, Server(d) PROVE Chosen'
  BY <1>8 DEF Server, Serve, ServeUnknown, ServeUnreadable, SendUnit, SendFails, ServeEnds
<1>9. CASE UNCHANGED fileVars
  BY <1>9 DEF fileVars
<1>10. QED
  BY <1>1, <1>2, <1>3, <1>4, <1>5, <1>6, <1>7, <1>8, <1>9 DEF FileNext, Worker

(* A worker that ends, with one message shown, is one more that is done. *)
LEMMA EndsOnce ==
  ASSUME FileTypeOK, Told, NEW d \in Accepts, Working(d), NEW how,
         EndAs(d, how), UNCHANGED overlap, overlap = "no" => verdicts' = verdicts + 1
  PROVE  Told'
<1> USE DEF FileTypeOK, Told, Working, EndAs
<1>1. pc' = [pc EXCEPT ![d] = "done"] /\ d \notin Ended
  BY DEF Ended
<1>2. Ended' = Ended \cup {d}
  BY <1>1 DEF Ended
<1>3. IsFiniteSet(Ended') /\ Cardinality(Ended') = Cardinality(Ended) + 1
  BY <1>1, <1>2, FS_AddElement
<1>4. ASSUME overlap = "no" PROVE Told'
  <2>1. \A c \in Accepts : c # d => ~Working(c) /\ pc'[c] = pc[c]
    BY <1>1, <1>4
  <2>2. \A c \in Accepts : ~Working(c)'
    BY <1>1, <2>1
  <2>3. QED BY <1>3, <1>4, <2>2
<1>5. ASSUME overlap # "no" PROVE Told'
  BY <1>3, <1>5
<1>6. QED BY <1>4, <1>5

(* A worker that goes on, with nothing shown, changes nothing of the count. *)
LEMMA GoesOn ==
  ASSUME FileTypeOK, Told, NEW d \in Accepts, Working(d),
         NEW at \in {"open", "while", "recv"}, pc' = [pc EXCEPT ![d] = at], UNCHANGED overlap,
         overlap = "no" => verdicts' = verdicts,
         overlap = "no" => at = "open" \/ state' = "Running"
  PROVE  Told'
<1> USE DEF FileTypeOK, Told, Working
<1>1. Ended' = Ended
  BY DEF Ended
<1>2. ASSUME overlap = "no" PROVE Told'
  <2>1. \A c \in Accepts : c # d => ~Working(c) /\ pc'[c] = pc[c]
    BY <1>2
  <2>2. QED BY <1>1, <1>2, <2>1
<1>3. ASSUME overlap # "no" PROVE Told'
  BY <1>1, <1>3
<1>4. QED BY <1>2, <1>3

LEMMA ToldStep == FileTypeOK /\ Told /\ [FileNext]_fileVars => Told'
<1> SUFFICES ASSUME FileTypeOK, Told, [FileNext]_fileVars PROVE Told'
  OBVIOUS
<1>1. ASSUME NEW d \in Accepts, NEW p \in Paths, Accept(d, p) PROVE Told'
  <2>1. Ended' = Ended
    BY <1>1 DEF Accept, Ended, FileTypeOK
  <2>2. ASSUME overlap' = "no" PROVE Told'
    <3>1. overlap = "no" /\ \A c \in Accepts : ~Working(c)
      BY <1>1, <2>2 DEF Accept
    <3>2. \A c \in Accepts : Working(c)' => c = d
      BY <1>1, <3>1 DEF Accept, Working, FileTypeOK
    <3>3. \A c \in Accepts : pc'[c] \notin {"while", "recv"}
      BY <1>1, <3>1 DEF Accept, Working, FileTypeOK
    <3>4. QED BY <1>1, <2>1, <3>1, <3>2, <3>3 DEF Accept, Told
  <2>3. ASSUME overlap' # "no" PROVE Told'
    BY <2>1, <2>3 DEF Told
  <2>4. QED BY <2>2, <2>3
<1>2. ASSUME NEW d \in Accepts, ConnectFails(d) \/ OpenFails(d) \/ RecvFails(d) PROVE Told'
  <2>1. Working(d) /\ EndAs(d, "Error") /\ overlap' = overlap /\ verdicts' = verdicts + 1
    BY <1>2 DEF ConnectFails, OpenFails, RecvFails, Working, SetState, Shown, Final,
                workerVars, prompted
  <2>2. QED BY <2>1, EndsOnce
<1>3. ASSUME NEW d \in Accepts, RecvTimeout(d) PROVE Told'
  <2>1. Working(d) /\ EndAs(d, "Timeout") /\ overlap' = overlap /\ verdicts' = verdicts + 1
    BY <1>3 DEF RecvTimeout, Working, SetState, Shown, Final, prompted
  <2>2. QED BY <2>1, EndsOnce
<1>4. ASSUME NEW d \in Accepts, WhileCanceled(d) PROVE Told'
  <2>1. Working(d) /\ EndAs(d, "Canceled") /\ overlap' = overlap /\ verdicts' = verdicts + 1
    BY <1>4 DEF WhileCanceled, Working, SetState, Shown, Final, prompted
  <2>2. QED BY <2>1, EndsOnce
<1>5. ASSUME NEW d \in Accepts, WhileEnds(d) PROVE Told'
  <2>1. Working(d) /\ EndAs(d, "Finish") /\ overlap' = overlap
    BY <1>5 DEF WhileEnds, Working, prompted
  <2>2. ASSUME overlap = "no" PROVE verdicts' = verdicts + 1
    <3>1. state = "Running"
      BY <1>5, <2>2 DEF WhileEnds, Told
    <3>2. QED BY <1>5, <3>1 DEF WhileEnds, ProgressThenFinish, Shown, Final, FileTypeOK
  <2>3. QED BY <2>1, <2>2, EndsOnce
<1>6. ASSUME NEW d \in Accepts, ConnectOk(d) PROVE Told'
  <2>1. Working(d) /\ pc' = [pc EXCEPT ![d] = "open"] /\ UNCHANGED <<overlap, verdicts>>
    BY <1>6 DEF ConnectOk, Working, taskVars, prompted
  <2>2. QED BY <2>1, GoesOn
<1>7. ASSUME NEW d \in Accepts, Open(d) PROVE Told'
  <2>1. /\ Working(d) /\ pc' = [pc EXCEPT ![d] = "while"] /\ overlap' = overlap
        /\ verdicts' = verdicts /\ state' = "Running"
    BY <1>7 DEF Open, Working, SetState, Shown, Final, FileTypeOK, prompted
  <2>2. QED BY <2>1, GoesOn
<1>8. ASSUME NEW d \in Accepts, While(d) PROVE Told'
  <2>1. /\ Working(d) /\ pc' = [pc EXCEPT ![d] = "recv"]
        /\ UNCHANGED <<overlap, verdicts, state>>
    BY <1>8 DEF While, Working, taskVars, prompted
  <2>2. overlap = "no" => state' = "Running"
    BY <1>8, <2>1 DEF While, Told
  <2>3. QED BY <2>1, <2>2, GoesOn
<1>9. ASSUME NEW d \in Accepts, RecvData(d) \/ RecvClosed(d) PROVE Told'
  <2>1. /\ Working(d) /\ pc' = [pc EXCEPT ![d] = "while"] /\ UNCHANGED <<overlap, state>>
        /\ verdicts' \in {verdicts, verdicts + Shown(state)}
    BY <1>9 DEF RecvData, RecvClosed, Working, SetProcess, prompted
  <2>2. overlap = "no" => state = "Running"
    BY <1>9 DEF RecvData, RecvClosed, Told
  <2>3. overlap = "no" => verdicts' = verdicts
    BY <2>1, <2>2 DEF Shown, Final, FileTypeOK
  <2>4. QED BY <2>1, <2>2, <2>3, GoesOn
<1>10. CASE Cancel \/ (\E d \in Accepts : Server(d)) \/ UNCHANGED fileVars
  <2>1. UNCHANGED <<pc, overlap, verdicts, state>>
    BY <1>10 DEF Cancel, Server, Serve, ServeUnknown, ServeUnreadable, SendUnit, SendFails,
                 ServeEnds, fileVars, taskVars, workerVars, prompted
  <2>2. QED BY <2>1 DEF Told, Ended, Working
<1>11. QED
  BY <1>1, <1>2, <1>3, <1>4, <1>5, <1>6, <1>7, <1>8, <1>9, <1>10 DEF FileNext, Worker

LEMMA FileInvariance == FileSpec => []FileInv
<1>1. FileInv /\ [FileNext]_fileVars => FileInv'
  BY FileTypeStep, StagesStep, SendingStep, KeptStep, ChosenStep, ToldStep DEF FileInv
<1>2. FileInit => FileInv
  BY InitFileInv
<1>3. QED BY <1>1, <1>2, PTL DEF FileSpec

(* The variables hold what they are for, whatever workers and senders do. *)
THEOREM FileTypes == FileSpec => []FileTypeOK
<1>1. FileInv => FileTypeOK
  BY DEF FileInv
<1>2. QED BY <1>1, FileInvariance, PTL

(* A download that ended well is on disk as a whole, but for what the disk did not take, if
   no other worker has opened its path since; and it is at the path its user has chosen, if
   the workers of the offer ran one at a time: for any size, the empty file too, any number
   of accepts and paths, and any interleaving of them. *)
THEOREM FinishedFilesAreWhole == FileSpec => []FinishedIsOnDisk
<1>1. FileInv => FinishedIsOnDisk
  <2> SUFFICES ASSUME FileInv, NEW d \in Accepts, end[d] = "Finish"
               PROVE  /\ opener[file[d]] = d => disk[file[d]] \cup lost[d] = Units
                      /\ overlap = "no" => file[d] = asked[d]
    BY DEF FinishedIsOnDisk
  <2>1. file[d] \in Paths /\ recv[d] = fileSize
    BY DEF FileInv, Kept
  <2>2. disk[file[d]] \cup lost[d] \subseteq Units
    BY <2>1 DEF FileInv, FileTypeOK
  <2>3. opener[file[d]] = d => 1..recv[d] \subseteq disk[file[d]] \cup lost[d]
    BY <2>1 DEF FileInv, Kept
  <2>4. overlap = "no" => file[d] = asked[d]
    BY DEF FileInv, Chosen
  <2>5. QED BY <2>1, <2>2, <2>3, <2>4 DEF Units
<1>2. QED BY <1>1, FileInvariance, PTL

(* A worker of a file that is not empty has not finished when its sender reports an error. *)
THEOREM EndsAgree == FileSpec => []AgreeOnSuccess
<1>1. FileInv => AgreeOnSuccess
  <2> SUFFICES ASSUME FileInv, NEW d \in Accepts, srv[d] \in {"failed", "refused", "crashed"},
                      fileSize # 0, end[d] = "Finish"
               PROVE  FALSE
    BY DEF AgreeOnSuccess
  <2>1. recv[d] <= sent[d] /\ sent[d] < fileSize /\ recv[d] = fileSize
    BY DEF FileInv, Sending, Kept
  <2>2. fileSize \in Nat
    BY FileTransferAssumption DEF FileInv, FileTypeOK
  <2>3. recv[d] \in Nat /\ sent[d] \in Nat
    BY <2>2 DEF FileInv, FileTypeOK
  <2>4. QED BY <2>1, <2>2, <2>3
<1>2. QED BY <1>1, FileInvariance, PTL

(* The user is told once of each worker that has ended, as long as they work one at a time. *)
THEOREM ToldOfEachOnce == FileSpec => []OneVerdictEach
<1>1. FileInv => OneVerdictEach
  BY DEF FileInv, Told, Ended, OneVerdictEach
<1>2. QED BY <1>1, FileInvariance, PTL
=============================================================================
