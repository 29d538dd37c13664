# KyLink in TLA+

KyLink is a LAN messenger for the Kylin board: it speaks the IPMsg/Feiq protocol
over UDP and TCP (`cpp-chatroom/feiqlib`), shows users, chats and file transfers
in a Qt interface, runs object detection on camera frames on the board's NPU,
streams video to other machines, and comes with a kernel module for the board's
LEDs (`my_kylin_led_driver`).

This directory holds a specification of the parts of KyLink in which threads,
messages, restarts and timeouts meet, the TLC configurations that check it on
small instances, and TLAPS proofs of the theorems that matter most. Paths below
are relative to the repository's root; `feiqlib/` is `cpp-chatroom/feiqlib/`.

    tlc -workers 2 -config MsgQueueThreadMC.cfg MsgQueueThread
    tlapm MsgQueueThreadProofs.tla

## 1. The system

### Components, their state and operations

| component | state | operations |
|---|---|---|
| messages and packets, `feiqengine.cpp` (senders, receivers), `feiqcommu.cpp`, `utils.cpp` | none | `pack`, `dumpRaw`, the `Send…` and `Recv…` classes, `requestFileData`, `onTcpClientConnected`, `splitAllowSeperator` |
| protocol engine, `feiqlib/feiqengine.cpp` | `mStarted`, protocols, `mBroadcast` | `start`, `stop`, `send`, `downloadFile`, `fileServerHandler`, `enableIntervalDetect`, `addOrUpdateFellow`, one trigger per kind of datagram |
| UDP and TCP, `udpcommu.cpp`, `tcpserver.cpp`, `tcpsocket.cpp`, `feiqcommu.cpp` | `mSocket`, `mAsyncMode`, `mMac` | `bindTo`, `startAsyncRecv`, `close`, `recvThread`, `onRecv`, `pack`, `onTcpClientConnected` |
| packet numbers, `uniqueid.cpp` | an atomic counter | `get` |
| event queue, `msgqueuethread.h` | `mQueue`, `mRun`, `mHandler`, one thread | `start`, `stop`, `setHandler`, `sendMessage`, `loop` |
| answers awaited, `asynwait.cpp` | `mWaitPacks`, one thread | `addWaitPack`, `clearWaitPack`, `run`, `start`, `stop` |
| model, `feiqmodel.cpp`, `fellow.h`, `filetask.cpp` | fellows, file tasks | add, find, update, `setProcess`, `setState`, `cancel` |
| facade, `src/backend/FeiqBackend.cpp` | `m_running`, the engine | `start`, `stop`, `sendText`, `acceptFile`, `cancelFileTask`, `dispatchEvent` |
| main window and chats, `src/ui/MainWindow.cpp`, `ChatWindow.cpp`, `GroupChatDialog.cpp`, `ScreenshotTool.cpp` | `m_users`, `m_chatWindows` | handlers of the facade's signals, opening and closing windows, questions about files, group messages, screenshots, settings |
| video stream, `src/video/` | frame number, partial frames | `sendFrame`, `processChunk`, `completeFrame`, `onTimeoutCheck` |
| camera preview, `src/ui/CameraPreviewDialog.cpp` | pipeline, bus, device, label | start and stop, bus messages, `onInferenceFrameReady`, close |
| detection worker, the same file and `src/npu/YoloV5Runner.cpp` | one-place mailbox, `m_isRunning`, the runner's context | `updateFrame`, `processLoop`, `reinit`, `release`, `infer` |
| preprocessing and post-processing, `src/npu/` | none | letterbox, decoding, sorting, suppression, the way back |
| performance monitor, `src/backend/PerformanceMonitor.cpp` | frame records, the shared context, profiles wanted and reported | record per stage, prune, sample, ask for and submit profiles |
| LED driver, `my_kylin_led_driver/` | saved brightness, flag, mutex | `init`, `exit`, `write` |

### How they interact

A datagram is received by a detached thread (`recvThread`), parsed, filtered
(`onRecv`) and handed to the protocols; a protocol enters the sender into the
model and posts an event into the event queue. The thread of the event queue
calls `FeiqBackend::onEvent`, which emits a Qt signal queued to the
user-interface thread. The user interface calls straight into the engine: it
sends, accepts files, stops and starts again. File transfers and the interval
detection run in detached threads of their own; the wait thread calls timeout
handlers, which post events as well.

The camera's streaming thread puts a frame into the worker's mailbox; the worker,
in a thread with an event loop, takes the latest, runs the network and signals the
dialog. The monitor's sampler, a timer of the user interface, queries the same
network context under a mutex that the worker takes when it replaces it. Within
the user-interface thread handlers overlap too: a modal box runs the event loop
again inside the handler that opened it.

    network -> recvThread -> FeiqModel, AsynWait, event queue -> queue thread
            -> Qt's queue -> user interface -> engine -> network
    camera  -> mailbox -> worker and network context -> Qt's queue -> dialog
                               ^ sampler and profiles (monitor)

### What is hard

- Threads share flags without a lock (`mRun`, `mStarted`, `mSocket`, `mAsyncMode`),
  and detached threads outlive the stop they were meant to obey.
- UDP loses, repeats and reorders; the engine meets this with timeouts, and with
  prompts that can be accepted twice.
- Stop and start run while events, wait packs and receiving threads of the last
  session are still there.
- A window can be closed while a text for it is under way, or while a timer or a
  box still holds a bare pointer to it.
- Replacing the network for a profile can fail at each of its steps, while another
  thread queries it.
- The atomic counter, the two-step look-up of a fellow and the mark of a fresh
  video buffer are check-then-act sequences.

### What makes each component correct

- *Event queue*: events are handled in order, once; stop ends the thread; the
  handler is never called for an event that is not there.
- *Text delivery*: a text is reported at most once, never early, and never when
  its answer was handled in time.
- *Packet numbers*: two calls do not get the same number.
- *File transfer*: what is called finished is on disk; the ends agree; workers end.
- *Video*: only whole frames are shown; partial ones are dropped in time.
- *Engine*: while it runs somebody receives; after a stop the threads end.
- *Presence*: an address is one fellow; the list shows who is online.
- *Packets*: what is sent arrives as it was sent; a request gets the file it was
  made for.
- *Chats*: no text goes to a window on its way out; the main window comes back; a
  download is from the peer that offered it.
- *Detection*: one processing loop; the newest frame is taken, once; no query of a
  destroyed context; the normal model after a profile; no profile forgotten.
- *Boxes*: each keeps its score; suppression is by better boxes that stay.
- *LED driver*: the power LED comes back as it was.

`PROJECT.json` lists every component (`components`) and everything hard to test
at its line (`hazards`).

## 2. The modules

| module | code | state and actions |
|---|---|---|
| `EventChannel` | what `MsgQueueThread` promises | `state` (closed, open, closing, emptied), `posted`, `pending`, `taken`, `delivered`, `attached`; events are taken only while it is open, lost only when it is being closed or nobody is attached, and it is closed only when the last one taken is with the handler no more |
| `MsgQueueThread` | `msgqueuethread.h` | its three members and the place of the queue thread (`loop`) and of the control thread (`ctl`); one action per critical section, except that the look at `mRun` inside one is a step of its own |
| `TextDelivery` | `feiqengine.cpp` (send, start, stop, answers), `asynwait.cpp` | texts, wait packs, the wait thread; `Send` and `Arm` are the two halves of `send`, `Scan` is the critical section of the wait thread |
| `WaitList` | what `asynwait.h:20` and `feiqengine.h:79` promise | `fate` of each text; an answer or the timeout ends the wait, only the timeout is reported, once |
| `UniqueId` | `uniqueid.cpp` | the counter with its width, three steps per call |
| `Packets` | `pack`, `dumpRaw`, the sender and receiver classes, `Encoding::convert`, `onTcpClientConnected` | extends `UniqueId`; datagrams as sequences of tokens, converted to GBK and back, cut at `RcvSize`; what the peer shows, requests for files and what is found for them |
| `Chat` | `MainWindow.cpp`, `ChatWindow.cpp`, `GroupChatDialog.cpp`, `ScreenshotTool.cpp`, the test user of `FeiqBackend.cpp` | the event queue of the thread, the items the running handler has left, the stack of modal boxes with the rest of their handlers, all windows ever made, timers |
| `Mailbox` | what the comment at `CameraPreviewDialog.cpp:79` promises | `slot`, `taken`; `Put` replaces, `Take` empties, a frame that stays is taken |
| `Detection` | worker of `CameraPreviewDialog.cpp`, `YoloV5Runner.cpp`, `PerformanceMonitor.cpp` | mailbox, loop calls, the worker's place in one pass (`pc`), the context by its mode, records by stage, the sampler |
| `CameraPreview` | the dialog of `CameraPreviewDialog.cpp` | extends `Detection` by pipeline, bus, device, button and label; every step is one of `Detection` or leaves it alone |
| `PostProcess`, `PostProcessMC` | `postprocess.cpp`, `computeLetterbox` of `RgaPreprocessor.cpp` | one step per cell decoded, per loop, call and placing of the sort, per box suppressed and per box collected |
| `FileTransfer` | `downloadFile`, `fileServerHandler`, `filetask.cpp` | the task, one worker per accepted prompt and the path chosen at it, one sender thread per connection, the file at each path in units of a 2048-byte request, and what a failing write left out |
| `VideoStream` | `src/video/` | frame numbers, chunks on the wire, partial frames with their age |
| `LedDriver` | `my_kylin_led_driver.c` | both LEDs, saved brightness and flag, the mutex and the place of each writer |
| `EngineRestart` | `start` and `stop` of the engine, `udpcommu.cpp`, `tcpserver.cpp` | the socket and its descriptor, the receiving thread of each start, the detection thread |
| `Presence` | `onRecv`, `addOrUpdateFellow`, `feiqmodel.cpp`, `fellow.h`, `MainWindow.cpp` | machines with their MACs and addresses, which may change; fellows, receiving threads, event queue, signals, user list |
| `PresenceMC`, `PacketsMC` | | small networks and small messages for TLC |
| `MsgQueueThreadProofs`, `CameraPreviewProofs`, `PresenceProofs`, `ChatProofs` | | the theorems of the module they are named after |
| `TransferProofs` | | the theorems of `VideoStream` and `FileTransfer` |
| `EngineProofs` | | the theorems of `TextDelivery` and `EngineRestart` |
| `BoardProofs` | | the theorems of `PostProcess` and `LedDriver` |
| `PacketsProofs` | | the theorems of `Packets` and of the `UniqueId` it extends |

`FileTransfer`, `EngineRestart` and `LedDriver` name their specifications
`FileSpec`, `RestartSpec` and `LedSpec` (and so on), so that one module of proofs
can extend each of them beside the module it is grouped with.

Composition. `MsgQueueThread` is shown to implement `EventChannel` (`INSTANCE
... WITH`): pending is the event in hand followed by the queue. `TextDelivery`
and `Presence` use of the queue only what `EventChannel` promises (events are
kept until delivered, a stop discards them). `TextDelivery` composes the sending
thread, the receiving thread, the wait thread and the network, and is shown to
implement `WaitList`; `FileTransfer`
composes both ends of a transfer; `Packets` composes the sending thread, the
threads that share its counter, the network and the peer; `CameraPreview`
composes pipeline, dialog, worker and monitor, and is shown to implement
`Mailbox`; `Presence` composes receiving threads, queue
thread and user interface; `EngineRestart` composes the user interface with the
threads of all starts.

The order of actions in a module follows the code; a comment on a definition
gives its lines, and `map` in `PROJECT.json` gives them for all. Definitions
marked `\* slip:` are not part of a model: each is a plausible mistake (a dropped
guard, a missing reset, a wrong comparison) put in place of the definition that
follows it to see that a property notices.

### Abstractions

- A datagram of `Packets` is a sequence of tokens: separators stand for
  themselves, words for whatever is only passed on. A conversion is a table of
  words (`EncOut` to GBK, `EncIn` from it): a string is converted as a whole, or
  passed on as it is when a word of it is not in the table, which is what
  `Encoding::convert` does when `iconv` fails. Assumed of the tables is that ASCII
  is the same in both and that what was written is read back (`EncodingAssumption`).
  `MAX_RCV_SIZE` is counted in tokens (`RcvSize`), so a word is cut off whole and
  never in its middle; `HeaderFits` assumes that the five fields before the
  contents are within it, as a user's name of some 4000 bytes is not modelled.
  Numbers keep the width of an
  `int` (2 * IntMax + 2 values), so that sizes and times can overflow; the digits of a
  number are one word, `Numeral[n]`, of which only that no two are equal and that
  none is a separator is assumed (the configuration gives the decimal ones). Of
  texts and names it is assumed that they are sequences of tokens without a NUL.
- `PostProcess` calculates with integers in a unit small enough to be exact; the
  network's output is any choice of the outputs given.
- Contents (texts, file bytes, JPEG data, names) are identities. A file is a
  number of units; a chunk carries the frame it is a part of, so that mixing can
  be stated.
- The network is a set of datagrams that may be delivered again or never; in
  `VideoStream` each chunk has a number of copies, each delivered once or lost.
  In `Presence` any datagram of any machine can arrive at any time.
- Time is a counter of ticks (`TextDelivery`), an age (`VideoStream`), the choice
  between data and time-out (`FileTransfer`, `EngineRestart`), or left open: a
  frame may be too old whenever the worker looks (`Detection`), and a timer may
  fire at any time (`Chat`).
- A data race on a flag is the interleaving of its atomic reads and writes. Two
  uses go further: `front()` of an empty queue and a null `FILE` are undefined
  behaviour and end the actor (`loop = "undefined"`, `srv = "crashed"`).

## 3. What the runs check

| run | instance | distinct states | question |
|---|---|---|---|
| `MsgQueueThread` | 4 events, 3 starts | 8,947 | ends of the thread, lost wake-ups, refinement of `EventChannel` |
| `TextDelivery` | 2 texts, timeout 1, 5 instants, 1 restart | 137,582 | answers against timeouts through a restart, refinement of `WaitList` |
| `Packets` | 3 threads, 3 packets, 7 texts, 10 files (7 names, sizes and times), an `int` of 6 values, 30 tokens read | 2,200,302 | what arrives, what a request gets, numbers |
| `Camera` | 2 frames, 2 devices, 1 request for 2 profiles, 1 message on the bus | 931,888 | mailbox, profiles and reloads under the dialog |
| `PostProcess` | 4 cells, 2 classes, 4 shapes of frame, 2 results at most | 387,464 | sort, suppression, results, coordinates |
| `Chat` | 2 peers and the test user, 2 signals, 2 things the user begins | 5,008,423 | windows, boxes, timers, offers |
| `FileTransfer` | 2 accepts, 2 paths, 0 or 1 unit | 475,584 | both ends through every failure |
| `VideoStream` | 2 streams, 2 frames, 1 or 2 chunks, 2 copies, timeout 1 | 546,540 | reassembly under loss, repetition, reordering |
| `LedDriver` | 2 writers, values 0 to 3, 2 blinks | 9,922 | takeover of the power LED |
| `EngineRestart` | 2 starts | 11,229 | threads of two starts |
| `Presence` | 2 or 3 machines, 4 networks, 2 receiving threads, 1 settings change or 1 change of address | 329,364 | fellows and user list |

`TextDeliverySweep` looks for a state that a comment of the repository rules out,
and finds it (section 6).

### The properties

*MsgQueueThread.* `OnlySpuriousWakeupUnderflows`: `wait` has no predicate, so a
spurious wake-up reaches `front()` of an empty queue; nothing else does, neither
a posted event nor the notification of a stop. `StopReturnsOutsideTheWindow`:
`stop` clears `mRun` without the mutex, and a thread between its test of `mRun`
(line 56) and the mutex (57) then misses the notification; in every other place
`stop` returns. `QueuedIsTaken`: notifications of `sendMessage` are not lost.
`ImplementsChannel`: events are handled in order, once, and none between a stop
and the next start: `EventChannel` is closed when `stop` has returned, and takes and
delivers nothing then. What is posted after the drain stays pending, and is
delivered after the next start (`msgqueuethread.h:47`); the abstract channel says
so, as the code does.

*TextDelivery.* `AnsweredNeverTimesOut` and `KeepsItsFate` hold through restarts,
which keep the packs listed. `KeepsItsFate`: the code implements `WaitList`, so each
text comes to one end (answered, swept away by another's answer, lost, or told to
the user), which is final. The mapping gives a text the fate of the place it is in
and none when it is in two, so a second report, or one after an answer, is no step
of `WaitList`. `ExpiredIsShown` says that timeouts are not forgotten
while the engine runs. An answer handled before the pack is listed (`send` lists
it after the datagram) leads to a report although the peer has the text: the
first property excludes that case and says so.

*Packets.* `NeverReissued`: overlapping calls may share a number, others do not.
`ArrivesAsSent`: texts, names, ids, sizes and times of a datagram that is read whole
come out as they went in. What does not is named: a datagram longer than
`MAX_RCV_SIZE` (`Whole`); and (`Legible`) a text with a `{` and a `}` after it, an
empty one and what looks like an image, file names that begin with the separator or
hold the one of the list, ids, sizes and times an `int` does not hold, and a text or
name with a word GBK lacks, which is sent in UTF-8 and may be read as GBK. The
sender's name is shown in GBK, as `dumpRaw` does not convert it back
(`feiqcommu.cpp:256`), and each `HOSTLIST_DUMMY` of it comes out as the separator,
which is how the separator travels. What a cut datagram is shown as is left open
here, but `ReadsBack`, which is proved, says that no file is read from it but the
one packed.
`ServesWhatWasOffered`: a request finds one file, and that is the one the peer was
offered and asks for, or nothing before the sender has listed it, though packets,
texts and files draw their numbers from counters that other threads use.

*Camera.* `OneLoop`: the flag `m_isRunning`, set in one thread and cleared in
another, agrees with the calls of `processLoop` under way. `QueriesLiveContext`:
the sampler holds the mutex the worker needs to take the context away.
`ModelIsBack`: after a profile the normal model is loaded, unless the last reload
failed. `EveryProfileIsReported`: the chain of requests for profiles does not
break. `ShownAfterStopWasInFlight`: after a stop at most the frames that were
under way are shown, in order. `ImplementsMailbox`: with the liveness that a
frame which stays is taken.

*PostProcess.* `EachWithItsScore`: two of the parallel arrays are sorted, and each
box keeps its score; the results are of boxes that stay, the best when there are too
many. `GoesForOneThatStays`: suppression without its order of calculation; "of its
class" is decided by the wrong index, which the property states. `MapsBack`: the
letterbox and its inverse, also with the left padding aligned.

*Chat.* `MessagesAreSeen`: a text of a peer is not appended to a window on its way
out, except after a question about a file in the same message, and where the end
of a screenshot shows a closing window again. `OnlyScreenshotsHide`: a running
program without its main window takes a screenshot, or has given one up.
`UserNeverKills`: a window used after its deletion was closed by others than its
user. `FromTheOfferer`: a download is from the peer that offered it, unless
another offer has the same number.

*FileTransfer.* `FinishedIsOnDisk`: what is Finish is on disk as a whole, but for
what the disk did not take (`lost`; the results of `fwrite` and `fclose` are
ignored), unless another worker has opened the same path since; and it is at the
path its user chose, as long as workers do not overlap: a second accept moves the
path under a worker that has not opened it yet. `AgreeOnSuccess`: the receiver of a
file the sender refused or reports as an Error has not finished; of an empty file
the loop is not entered, and it has. `OneVerdictEach` (with workers that do not
overlap, the user gets one final message per worker).
`EndsUnlessPeerClosed`: a worker ends, except when the sender closes early; then
`recv` returns 0 for ever and the loop spins until a cancel, which always ends
it (`CancelEnds`).

*VideoStream.* `WholeFrames` for chunks of one stream; two streams number their
frames alike and can be mixed, which the property grants. `DroppedInTime` (every
frame but number 0), `BuffersAreFreed`.

*LedDriver.* `TakenOverOnlyWhileLit`, `PowerComesBack`.

*EngineRestart.* `SomeoneReceives`, `ReceiverEnds` (a receiving thread with a
limit on its wait ends after a stop; one that entered `recvfrom` before the
time-out was set has none), `DetectorEnds`.

*Presence.* `OneFellowPerAddress` until the settings are changed (then two
receiving threads can enter a fellow twice), `ListIsTheModel`, `ChangeIsShown`.
`AnswerReachesAsker`: an answer goes to an address the asker has or had. With fixed
addresses that is the asker; a machine that has got another address is answered at
the one it was first heard from, as `Fellow::update` never changes it, and the
property grants that. It rules out an address the asker never had, which sharing
addresses in turn, or a look-up that takes one machine for another, could lead to.

A property with an exception does not catch what it excepts: it shows that the
code keeps its promise everywhere else, and names the place where it does not.
The notes of `hazards` in `PROJECT.json` say of which hazards the case itself is
such an exception, and section 6 lists them.

The modules state a few more formulas than the runs name: type invariants and
lemmas of the proofs, and, at their ends, what a document says of the code where
the code does otherwise (`Distinct`, `EveryFrameDroppedInTime`,
`AnsweredIsDiscovered`). Added to the configuration of the module's run, the
last three are violated.

### Why the bounds are enough

The interesting cases need few actors. A lost wake-up needs one event and one
stop; what a stop leaves behind needs a second start; three starts and four
events let events of two sessions meet. Two texts are needed for one answer to
clear another's pack, with room for a timeout before and after a restart. Two
accepts share one task, and two paths let the second move the path of the first;
one unit can be received, lost on its way to the disk or never sent, and no unit is
the empty file; two units with one path were checked too (same properties, no
error). Two frames of different sizes, two chunks and two copies
give reordering, repetition and a late chunk of a dropped frame; they are of one
stream or of two, whose frames then meet under one number; a third chunk adds no
new relation. Two starts let a thread of the first meet the socket of
the second. Two receiving threads race on one list. The blink limit of 100 is
lowered to 2 with 3 among the values, so that it is met. In `Packets` the
counter does not wrap within the calls, as 2^64 calls are out of reach; the wrap
is covered by a theorem for a single caller.

Two machines suffice for an announcement and its answer, and a third for two that
share a MAC. One change of address lets a machine take one of its own or that of
another, and as datagrams may be late, both its addresses appear in any order.
In `Packets` each thread can be between the two halves of one call,
so three packets give two that overlap and one after them; every separator
appears first, last, doubled and inside, and sizes lie below, at the sign of, and
beyond an `int`; a text and a file name are longer than what is read, and the cut
falls into the name; one word has no GBK form and cannot be read as one, another can. Two frames let a newer one replace or follow an older one; a
second profile of one snapshot is the first that is asked for by a report; one
message on the bus is enough for it to be read late. Three cells in a row, each
overlapping its neighbours only, are the smallest case in which the order of
suppression matters, with two classes and one box of another tensor. In `Chat`
two things the user begins are what it takes to start a screenshot or a box and
close the window it belongs to, which is the case `UserNeverKills` is about; two
signals are an offer and what follows it. Three signals, for an offer, a message
after it and a departure in between, were checked with one thing begun, and with
one peer three things begun without a signal or with one (same properties, no
error). Three
clicks are what it takes to close a window that a screenshot has hidden, have its
end show the window again, and use it: the window is deleted all the same, and the
exception of `UserNeverKills` has to speak of the boxes (`Usable`) and tools
(`ToolPending`) that were there when it was closed.

`CHECK_DEADLOCK FALSE` stands in every configuration: all the modules bound
their inputs and come to rest when these are used up, and the queue thread may
sleep for ever on an empty queue.

### Fairness

Weak fairness of the threads: one that can take a step eventually does, which the
scheduler of the operating system provides. A mutex is weakly fair where its
critical sections are single steps. Time passes (`Tick`), and the time-out of
`recvfrom` strikes. No fairness is given to users (sending, stopping, accepting,
cancelling), to the network (delivering, answering), to failures or to spurious
wake-ups. In `FileTransfer`, `recv` and `connect` return, with data, an end or
an error, because both have time-outs. In `EngineRestart` data need not arrive,
so a thread may not rely on it to end.

In `CameraPreview` the worker's thread is strongly fair, as it competes with the
sampler for `m_npuMutex`: the sampler holds it for one query a second (weakly
fair `SampleEnd`), so the worker gets it in the end. Neither camera nor user
have fairness. `Chat`, `Packets`, `PostProcess` and `LedDriver` state safety only.

## 4. What is proved

TLAPS proves the following for every value of the constants, from the named
assumption of each module (typing of the constants; in `Packets` also what section 2
says of numerals, texts and names, of the two conversions, and of the header).

- `MsgQueueThreadProofs`: `TypeCorrect`, `UnderflowOnlyIfSpurious`, `InOrder`,
  `StopIsFinal`, `Implements`.
- `EngineProofs`: of `TextDelivery` `TypeCorrect`, `AnswerWins`, `AtMostOneReport`,
  `WholeTimeout`, `EndsAreFinal` (the refinement of `WaitList`); of `EngineRestart`
  `EngineTypes`, `NeverDeaf`, `RefusalHasItsCause`.
- `PacketsProofs`: of `UniqueId` `TypeCorrect`, `FreshNumbers` (assuming that the
  calls do not exhaust the counter), `AloneInRange` (assuming a single thread); of
  `Packets` `PacketsAreNumbered` (its steps are steps of `UniqueId` or leave it
  alone), hence `PacketsAreFresh`; `ParsersReadBack` (what the parsers make of a
  packed message), and with it `OffersAreServed` and `MessagesArriveAsSent`
  (assuming that the ids of the files are among the numbers that have a numeral).
- `ChatProofs`: `TypeCorrect`, `TextsReachTheirWindow`, `MainWindowStays`,
  `UsersCannotKill`, `FilesComeFromTheirPeer`.
- `TransferProofs`: of `FileTransfer` `FileTypes`, `FinishedFilesAreWhole`,
  `EndsAgree`, `ToldOfEachOnce`; of `VideoStream` `OnlyWholeFrames`, `DropsInTime`.
- `CameraPreviewProofs`: `LoopsOnce`, `ContextLives`, `ModelReturns`,
  `ProfilesComplete`, `MailboxIsSafe`, `LabelIsInOrder`.
- `BoardProofs`: of `PostProcess` `PostProcessTypes`, `SortKeepsScores`,
  `SuppressionIsDefined`, `LetterboxUndone`; of `LedDriver` `LedTypes`,
  `HeldOnlyWhileLit`, `GivesPowerBack`, `LeavesNothing`.
- `PresenceProofs`: `EnteredOnce`, `ListAgrees`, `AnswersTheAsker`.

Each follows from one inductive invariant per module:

- *MsgQueueThread*: `WorkAvailable` says that a thread past the wait, or notified
  in it, finds an event or `mRun` cleared, unless the wake-up was spurious: what
  `OnlySpuriousWakeupUnderflows` needs one step earlier. `Lifecycle` ties the
  existence of the thread to `mRun` and to where the control thread stands.
  `Ordered` extends the order of the handled events over the event in hand and
  the queue up to `posted`. The refinement takes each action to one of
  `EventChannel` or to a stutter under `IInv`.
- *TextDelivery*: what is not armed is nowhere (`Unarmed`), an answered text is
  nowhere (`AnsweredIsGone`), every text is in one place (`ReportedOnce`), and
  a deadline is at least the timeout after the datagram (`Clocked`). For the
  refinement, what an answer swept away is nowhere else and was listed (`Swept`);
  then the places give each text exactly one fate (`FateIs`), and each action is one
  of `WaitList` or leaves every fate alone (`FateStep`).
- *UniqueId*: the counter equals the number of calls begun, and everything given
  out lies at or below it (`Counting`); a call increments it before it returns.
- *Packets*: `ServingInv`. A file is numbered when its offer is begun and listed once
  the offer is sent; in between it is what the main thread packs (`Packing`). No two
  listed files share an id (`Unique`); an offer on the wire is of a file listed under
  the number of the packet, but for the one about to be listed (`Listed`), and holds
  what was packed (`OnWire`); a peer asks with what an offer told it (`Peers`). So the
  file asked for is found, and no other, or not yet. Its hypotheses
  say that neither counter wraps: 2^64 packets, and 2^32 files. For
  `ArrivesAsSent` the invariant is `ArrivingInv`: a thread packs what can be sent, and
  only the main thread a file (`Writing`), every datagram is the packing of its
  message under some number (`Written`), and only datagrams that were sent arrive;
  nothing is needed of the numbers, so it holds when the packet counter wraps.
- *The parsers* (`ParsersReadBack`): reading and writing are recursive functions over
  the places of a sequence. The induction theorems of the library are out of reach,
  so an induction takes the least place at which a claim fails (`LeastExists`, from
  the well-foundedness of < on Nat) and carries the claim over the step before it;
  that the functions exist (`SplitsExist`, `DoublesExist`) is shown by gluing the
  partial ones. The path: where each token of a name stands in its doubled form, and
  that no separator there stands alone, so that splitting gives the name back; the
  places of the separators in a packed file (`FilePlaces`), from which `ListingRead`
  finds its five values; if a name holds the separator of the list, the pieces it is
  cut into have 0, 1, 3 or 4 values, so that nothing is read from them; `HeaderIs` for the
  five fields before them; and `TextRead` for the braces. A conversion goes token by
  token (`ThroughJoins`) and keeps the places of the separators, so it makes no difference
  whether they are doubled before it or after (`DoubledConverts`). Of a datagram that is
  cut the beginning is read (`ReceivedIs`), in which the header is whole; and what stands
  before a bell in a list that is cut stands before the same bell in the whole list
  (`SpansOfCut`), so that no file is read but those of the whole list (`ListingCut`).
- *Chat*: the window of a text still to be appended is there, or an item before it
  opens it (`Seen`); every file spoken of, in an event, an item left to the handler
  or a question, is among the tasks under its peer (`Offered`); and while no window
  was closed by others than its user, one that is to be deleted, or was, is neither
  visible nor part of a screenshot (`Alive`).
- *FileTransfer*: `Stages` says what task, worker and sender have done at each
  place of the two programs; `Sending` that a worker has no more than was sent, and
  that a sender which stopped early has not sent it all; `Kept` that what the last
  worker to open a path has received is on disk or among what it lost; `Chosen` that
  a worker alone finds the path its user chose; `Told` that one worker at a time
  keeps the task Running, and one final message was given for each that ended.
- *PostProcess*: the array with the key put where the hole is (`Filled`) is only ever
  changed by swapping two entries of the range being sorted, so each box keeps its
  score and none is lost (`Ranking`); two entries are in order or in one range still
  to be sorted (`InOrder`), these ranges are disjoint and the calls take them from
  the left (`Ascending`), and the two loops part the range by the key (`Parted`).
  `Sifted` says of each class whether its suppression is over, at position `pos` or
  to come, and what has gone by then; `Gathered` what the results hold of the first
  `pos` boxes. `Fitting` says that the scale takes the frame to the content up to
  half a pixel; from it the way back follows by arithmetic (`ThereAndBack`).
- *LedDriver*: `Mutex` ties the lock to the place of each writer, `Takeover` the
  flag to the place of the holder, `Remembered` the saved brightness to what the
  others wanted.
- *EngineRestart*: without a socket `mAsyncMode` is down (`FlagIsDown`), the
  socket stands while the engine runs (`SocketStands`), and the thread of the
  latest start receives (`LatestReceives`).
- *CameraPreview*: its steps are steps of `Detection` (`StepsOfDetection`), so the
  invariant speaks of the worker alone. `LoopInv` counts the calls of
  `processLoop`, the one being made included; `ContextInv` says that nobody
  queries while the worker is between taking the context away and publishing the
  next; `ModelInv` extends `ModelIsBack` over the steps of a pass that are not
  part of a profile; `ProfileInv` follows the request for the next profile from
  its being taken to its report; `OrderInv` orders the frame taken, the one that
  waits and the next number, which the mailbox needs. A failed reload is put into
  one form for all its reasons first (`FailureIs`). `LabelIsInOrder` adds the
  dialog's side: results on their way are in the order of capture, none newer than
  the worker's packet (`ResultsInv`), the label is behind them all, and without a
  pipeline whatever lies between label and worker was in flight at the stop
  (`LabelInv`).
- *VideoStream*: chunks under way and parts in buffers that have one stream and one
  number are of one frame (`Numbered`); a buffer keeps parts of its number only,
  and its total is that of one of them, which number 0, whose total is written
  anew with every chunk, satisfies only when a frame is complete (`Buffered`); so
  what is shown is whole (`Shown`). `Dated` relates the age the receiver computes
  to the true one, and both to the timer.
- *Presence*: what a thread is about to add is not in the list yet (`Sought`, which
  holds only as long as one thread receives: `Alone`); a fellow has the MAC of its
  machine where MACs differ (`Owned`); and of a fellow of which no change is on its
  way to the queue thread, the last signal in Qt's queue, or the user list if there
  is none, says what the engine knows (`Told`). The list is the model when both
  queues are empty because this holds while they are not.

Only model-checked: all liveness (the prover handles neither fairness nor
`ENABLED`), so of `ImplementsMailbox` the part that a frame is taken in the end.

## 5. What is not modelled

- Pixels, tensors and the vendor libraries: reading and writing buffers, colour
  conversion, JPEG, the operations of the RGA and of the network. `PostProcess`
  takes the network's output as any choice of values.
- The making of GStreamer elements and the sending of preview frames to video
  peers (`CameraPreviewDialog.cpp:1103-1189`); the stream itself is `VideoStream`.
- Reading `/proc` and `/sys` and the arithmetic of performance reports.
- The bytes within a word (its encoding, a cut in its middle), and the images of the
  original client.
- More than one camera dialog: each chat window makes one of its own
  (`ChatWindow.cpp:277-289`), and those that are open share the monitor's context and
  its list of profiles.
- Dialogs that only present (settings, about, analytics, video player), styles,
  emoji, the tray, the selection of a screenshot; the history database, which
  nobody opens; vendored and generated files.
- The destruction of objects at program end, for which detached threads have no
  answer anyway.

## 6. Where code and documents disagree

| where | what |
|---|---|
| `asynwait.cpp:44` | an assignment for a comparison: one answer clears every wait pack (`TextDeliverySweep`) |
| `uniqueid.cpp:15` | the counter is read again to return it; `uniqueid.h:9` promises thread safety |
| `VideoReceiver.cpp:113` | frame 0 looks like a fresh buffer and outlives the timeout |
| `fellow.h:76` | machines that send an all-zero MAC are one fellow |
| `my_kylin_led_driver.c:207` | a 1 does take the power LED over; line 171 says it does not |
| `feiqengine.cpp:602` | the first time-out ends a download; line 576 allows three |
| `feiqengine.cpp:714` | the detection thread can end at a settings change and nothing starts it again; `MainWindow.cpp:102` relies on it |

The first is a run that ends with a counterexample. For the others the passing
runs hold the exact relation the code keeps, with the case of the table excepted
by name (`NeverReissued`, `DroppedInTime`, `AnswerReachesAsker`,
`TakenOverOnlyWhileLit`, `EndsUnlessPeerClosed`, `DetectorEnds`).

Modelling met more behaviour that no document speaks of, which the properties
state as their exceptions:

| where | what | stated in |
|---|---|---|
| `feiqengine.cpp:298` | of a text with a `{` and a `}` after it the rest is lost | `ArrivesAsSent` |
| `udpcommu.cpp:211` | a datagram is cut at `MAX_RCV_SIZE` (4096 bytes), and a cut text is acknowledged | `ArrivesAsSent` |
| `encoding.cpp:66` | a string with a word GBK lacks is sent as it is, and may be read as GBK | `ArrivesAsSent` |
| `feiqengine.cpp:610` | a write that fails is not noticed: the download is Finish | `FinishedIsOnDisk` |
| `feiqengine.cpp:584` | an empty file is Finish whatever its sender does | `AgreeOnSuccess` |
| `FeiqBackend.cpp:200` | a second accept changes the path of a worker that has not opened it | `FinishedIsOnDisk` |
| `fellow.h:47` | a machine with another address is answered at the one it had | `AnswerReachesAsker` |
| `feiqengine.cpp:62` | a file name that begins with `:` arrives as another | `ArrivesAsSent` |
| `feiqengine.cpp:361` | a size of 2 GiB or more (as an id or a time above `INT_MAX`, 359-363) throws in the receiving thread | `ArrivesAsSent` |
| `feiqengine.cpp:525` | a request can come before the file is listed | `ServesWhatWasOffered` |
| `feiqmodel.cpp:94` | offers of two peers with equal numbers are one task | `FromTheOfferer` |
| `MainWindow.cpp:551` | notices are appended to windows that are being closed | `MessagesAreSeen` |
| `ChatWindow.cpp:241` | a screenshot given up with Escape leaves the program without windows | `OnlyScreenshotsHide` |
| `ChatWindow.cpp:252` | timers and boxes use a window that was deleted when its peer left | `UserNeverKills` |
| `YoloV5Runner.cpp:229` | a model file that cannot be read after a profile leaves the profiling mode on | `ModelIsBack` |
| `postprocess.cpp:56` | suppression takes the class of another box | `GoesForOneThatStays` |
