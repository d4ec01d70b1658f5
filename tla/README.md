# A TLA+ model of the ESI runtime of CIRCT and of the hardware it emits

CIRCT is a compiler infrastructure: most of it rewrites an intermediate
representation, sequentially and without state that outlives a pass. Two parts
of it have behaviour over time. The **ESI runtime** under
`lib/Dialect/ESI/runtime` runs for hours, with several threads, two processes
and a piece of hardware at once: it connects a host program to an accelerator,
either a simulation (the cosim transport over a WebSocket) or a real device (the
DMA engines over host memory and MMIO). And the **latency-insensitive hardware**
that lowerings emit or instantiate (pipeline stages, FIFOs, the forks, joins and
selects of the DC dialect) moves tokens under a valid/ready hand-shake that any
side may stall in any cycle. This project models both. Paths below are relative
to the repository; `runtime/` stands for `lib/Dialect/ESI/runtime/`.

Contents

1. Inventory of the system
2. Modules and how they correspond to the code
3. Runs: what is checked, with which bounds, and what it shows
4. Disagreements between the code and what the repository says of it
5. Fairness
6. Proofs
7. What is assumed, and what is not modelled
8. Plan

## 1. Inventory

### The parts, their state and their operations

| Part | Source | State | Operations |
|---|---|---|---|
| Thread-safe queue | `runtime/cpp/include/esi/Utils.h` (`TSQueue`) | a queue, two mutexes, a notifier | `push` (rings the notifier after the unlock), `pop`, `pop(callback)` (shows the front without the lock) |
| Cosim server | `runtime/cpp/lib/backends/RpcServer.cpp` | channel table, write queues, `readyIds`, one `ClientSession` with its subscriptions, manifest | `registerReadPort`, `registerWritePort`, `setManifest`, `run`, `stop`; handlers for hello, subscribe, unsubscribe, binary frames, Open, Close; `transportLoop` |
| Cosim client | `runtime/cpp/lib/backends/RpcClient.cpp` | `readCallbacks`, one queue per connection of a channel, `pending` RPCs, `readyIds` | constructor (open, hello), `connectClientReceiver`, `disconnect`, `writeToServer`, `call` with its time-out, `onMessage`, `transportLoop`, destructor |
| Read port | `runtime/cpp/lib/Ports.cpp`, `runtime/cpp/include/esi/Ports.h` | mode, callback, `activeCallbacks`, a `PollingBuffer` | `connect` in two modes, `disconnect`, `invokeCallback`, `enqueue`, `readAsync` |
| Write port | same | connected, translation buffer | `connect`, `write`, `tryWrite`, `flush` |
| DMA from the host | `runtime/cpp/lib/Engines.cpp` 270-490, `runtime/python/esiaccel/bsp/dma.py` | frame queue, data buffer, completion byte, two mailboxes, device registers | `connectImpl`, `tryWriteImpl`, `enqueueFrames`, `pollImpl`, the device |
| DMA to the host | `runtime/cpp/lib/Engines.cpp` 55-240, `dma.py` | buffer with a valid byte, retained message, mailbox | `connectImpl`, `pollImpl`, `writeBufferPtr`, the device |
| Service thread | `runtime/cpp/lib/Accelerator.cpp` | listeners with their futures, tasks, a mutex, the shutdown flag | `addListener`, `addPoll`, one turn of the loop, `stop`, `disconnect` of the accelerator |
| Services | `runtime/cpp/lib/Services.cpp` | the mutex of a function | `Function::call`, `Callback::connect` (ordinary and quick), MMIO, telemetry, host memory |
| DPI entry points, endpoints | `runtime/cosim_dpi_server/` | endpoint registry, a future per endpoint, endpoint registers | tryget, tryput, finish, one clock step |
| Hardware primitives | `lib/Dialect/ESI/ESIPrimitives.sv` | output register, lookaside register, their valids, registered ready, delayed moves of data | one clock step |
| FIFO | `lib/Dialect/Seq/Transforms/LowerSeqFIFO.cpp` | counters, pointers, memory, slots waiting for a delayed read | one clock step |
| Dataflow units | `lib/Conversion/DCToHW/DCToHW.cpp`, `HandshakeToHW`, `PipelineToHW` | a flag per output of a fork, buffers, stall chains | one clock step |

`PROJECT.json` lists these and every other component of the repository (FIRRTL,
LLHD, Moore, Arc, HW/Comb/SV, the exporters, the tools, the scheduling library)
with the reason for leaving it out.

### How they interact

A message from the accelerator takes this way in the cosim transport:

```
simulator thread        server transport      client network       client transport
put -> writeQueue  ==>  drain, send     ~~~>  look up, push   ==>  drain -> callback
       (doorbell)       (subscribed?)   wire  (doorbell)           (retry set)
```

`==>` is a queue plus a doorbell (a `ReadyIdSet`) which is rung *after* the lock
of the queue is released; `~~~>` is the WebSocket. The read callback is usually
`ReadChannelPort::invokeCallback`. At the same time the server's network thread
serves subscribe and unsubscribe, and the user's thread connects and
disconnects. With a device instead of a simulation, host and hardware share
buffers in host memory and tell each other by single bytes and MMIO mailboxes.

Above the ports, a *function* is called by the host (an argument port down, a
result port up, and nothing in between that names the caller), and a *callback*
is called by the accelerator; its code runs on the service thread, which is also
the thread that polls DMA ports. Below them, the accelerator is a network of
valid/ready channels made of the units above.

### What is hard in it

* Every hand-over is two steps (queue, doorbell): early, late and doubled
  wake-ups are all possible, a lost one would strand a message for ever.
* `TSQueue::pop(callback)` unlocks between showing the front and popping it.
* Subscribe and unsubscribe race with the drain loop of the transport thread,
  and answers to timed-out calls arrive later than those of newer ones.
* A read callback may refuse a message, block its channel and must not block
  another.
* `disconnect()` must wait for callbacks it can no longer recall; it must
  neither miss one nor wait for one that is gone.
* The single session is shared by the threads of all connections, rejected ones
  included.
* Host and device each act on a flag the other one sets; a connect, a second
  poller or a second writer in between breaks the hand-shake.
* A windowed message is cut into frames which a backend may take one at a time,
  over several calls of the writer, into a reader that may refuse or reconnect.
* Answers of a function are matched to its callers by order alone.
* The service thread runs user code, arms reads and polls, and may have to wait
  for its own polls.
* Hardware takes its decision on the ready of the cycle before, moves data some
  cycles after the token, and serves the outputs of a fork in different cycles.

The `hazards` of `PROJECT.json` put each of these at its line, with the property
that would catch it, or a note where none does yet.

### What makes each part correct

| Part | Correct if |
|---|---|
| Accelerator-to-host path | nothing is lost while the port is connected, nothing is ever reordered or repeated, no message waits for a doorbell nobody rings, no call hangs |
| Sessions | the session is never a connection that is gone, clients do not inherit subscriptions, hello lists all channels, stop and hello return |
| Read port | after `disconnect()` no callback of that connection runs; reads are the messages in order; no read waits for a connection that is gone |
| DMA engines | every message is in exactly one place; a flag set means the other side is done; a consumer that stops stops the writers |
| Windows | what is read is what was written, whole, in order and once |
| Functions | every caller gets the answer to its own call |
| Callbacks | every call is run once and in order, nothing runs after `disconnect()` |
| Stages, FIFOs | a queue of tokens whose data arrives when it should; no assertion fires |
| Dataflow | buffers change when a token arrives, never which |

## 2. Modules

| Module | Models |
|---|---|
| `ToClientPath` | the accelerator-to-host direction: server, wire, client, user threads |
| `ToClientPathInv` | its inductive invariants |
| `ToClientPathStream` | the refinement mapping to `OrderedStream`, the order of messages along the path |
| `MCToClientPath` | instances, the isolation specification |
| `OrderedStream` | what a to_client channel promises, without threads |
| `RpcSession` | connections, the session, hello, stop |
| `ReadPort`, `MCReadPort` | `ReadChannelPort` and `PollingBuffer`; the kinds of port to check |
| `WindowPort` | `WriteChannelPort`, window translation in both directions |
| `FromHostBuffer` | `OneItemBuffersFromHost` with its device and host memory |
| `ToHostBuffer` | `OneItemBuffersToHost` with its device and host memory |
| `DmaLoopback` | both engines, joined by an accelerator that sends everything back |
| `ServiceThread` | the service thread, callbacks of the accelerator, the end of a connection |
| `FunctionCall` | a function called by several threads in cosimulation: socket, DPI, endpoints, pipeline stage |
| `PipelineStage` | `ESI_PipelineStage` |
| `SeqFifo` | the FIFO of `LowerSeqFIFO` with its memory |
| `EsiChannel` | buffer, FIFO and buffer with a data delay, as `ESILowerPhysical` connects them |
| `DcDiamond` | fork, branch, select, merge, join, sink and buffer of DC, wired as an if |
| `ToClientPath_proof`, `ReadPort_proof`, `RpcSession_proof`, `WindowPort_proof`, `DmaLoopback_proof`, `ServiceThread_proof`, `FunctionCall_proof` | the proofs, each about the module it is named after; the first has those of `OrderedStream` too |
| `Hardware_proof` | the proofs about `EsiChannel` and `DcDiamond`, both of which it extends |

Modules that compose: `ToClientPathStream` maps `ToClientPath` to `OrderedStream`;
`DmaLoopback` extends `FromHostBuffer` and instantiates `ToHostBuffer`;
`EsiChannel` instantiates `PipelineStage` twice and `SeqFifo`; `FunctionCall` and
`DcDiamond` instantiate `PipelineStage` (the latter once per edge). `FunctionCall`
takes the to_client path as an ordered stream, which is what `ToClientPath` is
shown to be.

One action is one critical section, or one stretch of code between two points
where another thread can come in. The `map` of `PROJECT.json` gives the source
lines of every definition. Operators whose name has an underscore and a suffix
(`ServerSend_NoRecheck`) are plausible bugs of the action they precede; nothing
uses them but the experiment that shows which property they break.

### ToClientPath

Messages of a channel are numbered by the order of their `put`. Its threads:

* *Simulator*: `Write` pushes, `RingDoorbell` runs the notifier.
* *Server transport thread* (`transportLoop`): `ServerWaitDrain` swaps the dirty
  set out, `ServerPick` takes an id of the batch in any order (a hash set),
  `ServerSend` is one turn of the drain loop under `sessionMutex` and
  `subscribedMutex`, `ServerLeave` its end.
* *Server network thread*: `handleSubscribe` in three steps (`ServerSubscribe`,
  `ServerSubscribeAck`, `ServerSubscribeKick`) because the locks are gone before
  the response is sent and the doorbell rung; `handleUnsubscribe` in one, since
  it keeps `sessionMutex` over the response; `ServerOnClose`.
* *Client network thread*: `ReceiveData`, `PushFrame`, `RingClient` for a binary
  frame (the entry is a `shared_ptr` copied under the lock and used after it),
  `ReceiveReply`, and `ClientOnClose`, which is `failAllPending`.
* *Client transport thread*: `ClientWaitDrain` joins the retry set with the dirty
  set; `ClientPick`, `ClientCheck` (reads `canceled`), `ClientPeek` (copies the
  front and unlocks), then `ClientConsume` or `ClientRefuse`.
* *Owner of the port*: `Register`, `Subscribe`, `SubscribeReturns` or
  `SubscribeThrows`; `Unregister`, `CancelEntry`, `Nudge`, `Unsubscribe`,
  `DisconnectReturns`; `CallTimeout`.
* `Drop` is the loss of the WebSocket with all frames under way.

### RpcSession

Each connection has a server thread (`Accept` or `Reject` on Open, then `Hello`,
`AnswerHello`, `HandleSubscribe`, at last `OnClose`), a client constructor
(`Connect`, `SendHello`, `HelloTimeout`), a client network thread (`Receive...`)
and a destructor (`Leave`). The simulator's thread has `RegisterPort`,
`SetManifest` and the three parts of `stop()`. `tableAtReady` is a history
variable: no guard reads it.

### ReadPort

`activeCallbacks` counts, `thread[t]` says which connection's callback thread `t`
has captured. `ConnectCallback` and `ConnectPolling` put the callback in place,
`Connected` sets the mode after `connectImpl` returned, `ConnectThrows` is the
exception out of it. `Capture` is the snapshot under `callbackMutex`; the call
ends with `CallbackReturns`, `CallbackThrows`, `Enqueue` or `EnqueueRefused`.
`CaptureThrows` is the exception for a malformed zero-width message, after the
count was raised. `ReadCheck` and `ReadAsync` are the two halves of `readAsync`.
The variable `kind` says which port it is and never changes: `zeroWidth`;
`retainsMessage` (a backend that offers the refused object itself again, as
`OneItemBuffersToHost` does, rather than a copy, as `TSQueue::pop(callback)`);
`concurrentReads` (a reader that is not the owner, as the service thread is);
`capacity`. `MCReadPort` has the three kinds that exist.

### WindowPort

`shape` is a window: some fixed frames, then perhaps a list with one item per frame, and
perhaps fixed frames after it. The writer sends those too, but the reader has its message at
the end of the list and takes what follows for the next one; `RoundTrip` is about windows
without them (section 4). A message is its number and the length of its list. `Write` and
`TryWrite` translate, `WriteFrame` and `FlushFrame` hand the backend a frame, `FlushRefused`
and `FlushDone` end a `flush()`, `TryWrite` flushes first. On the other side `TakeFrame`
translates a frame in, `AcceptMessage` and `RefuseMessage` are the answer of the user's
callback to a whole message, `Reconnect` resets the translation. A message too short for its
window throws before the first frame, an empty list after it: the exception leaves the
frames in the buffer, `clean` records that (see section 4). A frame holds the number of its
message and its place, so that a mix-up of two messages is seen.

### FromHostBuffer and ToHostBuffer

The host side is `Engines.cpp`, statement by statement where the device or
another thread can come in between. The device side is `dma.py`: mailboxes that
take a new value whether or not the old one was used, a read that is issued when
its answer can be buffered, a completion that is owed until its address is known.
Host memory answers requests in order, some time later. `NoFrameLost` and
`NoMessageLost` put the contents of every place a message can be in one sequence
and compare it with 1, 2, 3, ...; `FramesKeepOrder` is the two together.
`DmaLoopback` adds `Loop`, in which the
accelerator takes a frame from one device and gives it to the other through a
channel of `Channel` entries, so that a callback that refuses is felt by the
writers, and only there.

### ServiceThread

`thread` is where the service thread is: `Loop` takes the lock, `CheckListener`
collects a ready future and arms the next read, `ListenersDone` unlocks;
`RunCallback` and `WriteResult` run the callbacks, then `PollArg` and `PollResult`
are the tasks. `ConnectArg` and `AddListener` are the two halves of a connect; the
second is a step of the application (`Listen`) or of a callback. `Stop` sets the flag,
`Disconnect` joins the thread and goes on. Backends are *threaded* (cosim) or
*polled* (one item buffers). `SpinsOnItself` is the wait of `WriteResult` for a
poll that only the same thread makes; `Yield` is one turn of it. An arg port queues
`MaxQueued` calls and refuses the next (`Accepts`), which stays with the backend.

### FunctionCall

`Lock`, `WriteArg`, `ReadResult`, `Return` are a caller in `Function::call` and its
future; `FrameArrives`, `EpTryGet`, `Fetch` the way down; `Clock` is one clock edge
of the endpoint, its stage and the function; `ResultArrives` is the result port.
`Reset` resets the design: registers are cleared, queues on the host are not.

### PipelineStage, SeqFifo, EsiChannel

`stage` and `fifo` are the registers, `Clock` is a positive edge with the input
wires of that cycle as parameters; combinational wires (`AReady`, `Xmit`, `Full`,
`Empty`) are operators. Counters and pointers are modulo their width. The data of a
token is driven `Delay` cycles after the token, so a stage has two sets of moves
(`Contents` and `QueueStep` state the queue it is meant to be). In `EsiChannel` the
three parts make their step together, under every pattern of valid, ready and reset.

### DcDiamond

The wires of the emitted circuit are operators, `DiamondClock` is an edge. `buffered` is the
set of edges with a buffer and `merges` chooses between a select driven by the condition and
a merge with a sink, `crossed` which arm is the first operand of either. All three are
chosen at the start, so that one run covers all 64 circuits. `dc.branch` sends a token of
condition true to its first output, but the emitted select uses the condition as an index
into (trueToken, falseToken) and so takes the *second* operand for true (`Selected`). A
select can therefore undo a branch only if its operands are crossed; the documented wiring
is the other one (section 4). `CopiesConserved` and the order within an arm are checked for
both, the order over the arms and progress for crossed operands. The producer keeps a token
until it is taken, as the valid/ready protocol asks; it and the consumer are free otherwise.

## 3. Runs

All runs but `ServiceDeadlock` end without an error.

| Run | Instance | Shows |
|---|---|---|
| `ToClientSafety` | one channel, two messages, two connections, one timed-out RPC (410 k states) | `NoLostDoorbell`, `NoLostWakeup`: in every interleaving a queued message of a subscribed channel, or of a registered callback, has a wake-up under way; `PopsWhatItShowed`; `UnsubscribeAckIsLast` and `ConnectedIsSubscribed` with answers of two connections on the wire; `ImplementsStream`: the six threads implement `OrderedStream` |
| `ToClientLive` | one connection, two messages, a lost WebSocket (55 k states) | `ImplementsStream`, `EventuallyDelivered`, `CallsReturn` |
| `ToClientIsolation` | two channels, one of which refuses for ever (95 k states) | `OthersDelivered` |
| `Session` | two connections, one failure, one message (127 k states) | `SessionIsAlive`, `TableIsComplete`, `OnlyAskedFrames`; once the manifest is set `HelloReturns`, `SessionIsFreed`, `StopEnds` |
| `Port` | three kinds of port, two threads, three connections, four messages, three reads (409 k states) | `SlotsAreReleased` (with equality unless the port is zero-width), `NoCallbackOutlivesItsConnection`, `ReadsAreTheStream`, `NoOrphanedRead` (a reader that is the owner), `DisconnectEnds` (unless a slot leaked) |
| `Loopback` | two writers of five messages of two frames, a poller for each engine, one entry between the devices (54 k states) | `FramesKeepOrder` in both engines at once; `BackpressureReachesWriters`, a bound that is reached; `EveryFrameReturns` |
| `Channel` | a FIFO of depth 3 (no power of two) with a read latency of 3, six tokens (30 k states) | `DataIsTheTokens`, `AssertionsHold`, `BufferIsQueue`, `EveryTokenLeaves` |
| `Window` | up to two fixed frames, lists of up to two items and a frame after the list, three messages, a backend with room for two frames, one reconnect (298 k states) | `RoundTrip` (unless frames follow the list), `EveryMessageArrives` |
| `Service` | two callbacks of three calls each, one of them perhaps quick, arg ports that queue one call, both kinds of backend (145 k states) | `CallsInOrder` (calls run and results sent), `QuietAfterDisconnect`, `CallsAreRun`, `StopReturns` |
| `Calls` | three callers, five calls, a function that holds two, one reset (182 k states) | `OwnAnswer`, `EveryCallAnswered`, unless the reset destroyed a call |
| `Dataflow` | all 64 circuits, four tokens, one reset (57 k states) | `CopiesConserved`; `LatencyInsensitive` (with a select over both arms if its operands are crossed); `EveryInputLeaves` for a merge and a crossed select |
| `ServiceDeadlock` | one callback over a polled backend, four calls | a violation, see section 4 |

The type invariants of `ToClientPath` and `ReadPort` are what their proofs start from
(section 6); the first is checked in `ToClientSafety` too.
`CHECK_DEADLOCK` is off for `ToClient*`, `Session`, `Port` and `Loopback`: those
systems may stop, when the design writes nothing more and the bounds on connects
are used up. The other runs check deadlock; `WindowPort` names the state in which
all is done, and hardware is clocked for ever.

**Why the bounds are enough.** Channels share the dirty sets and the threads but
no data; one channel shows the races of a channel with its own threads, and
`ToClientIsolation` has the second one for the one question that is about two.
Two messages make a front and a successor, which reordering, a repeated pop and a
message behind an acknowledgement need. Two connections make an old entry and a
new one with frames of both on the wire; the third connection of `Port` starts
after one in each mode. One time-out leaves one answer nobody waits for.
The loss of the WebSocket is final for its client, so `ToClientLive` has it with
one connection (with two and a time-out the states are 1.0 M and the safety
properties hold as well). Two
clients are what it takes for one to be rejected, or to come after another; with
a third one the first fault of section 4 sets in, and `OnlyAskedFrames` would
fail for the same reason. In the engines there is
one buffer, so two messages are in the hand-shake at most; five messages fill both
engines and the channel between them and leave both writers waiting, which the
bound on back-pressure needs. Six tokens fill the two stages and the FIFO of
`Channel` and wrap its pointers. Three messages of a window are one in the reader,
one in the backend and one in the writer. Five calls are one for every place of the
path and one to wait; three callers are two in the mutex's queue behind a third.
Four tokens of `DcDiamond` are one more than a buffered arm holds. The proofs of
section 6 have no such bounds.

## 4. Where the code disagrees with the repository

`ServiceDeadlock` checks one sentence of the repository and ends with the behaviour
that breaks it; the finding in `PROJECT.json` quotes the sentence. *A callback is
code "which will be executed when the accelerator invokes the callback"*
(`runtime/cpp/include/esi/Services.h:447`): over the one item buffers the service
thread writes the result of a callback and, if the result before is not sent yet,
waits for a poll which only the service thread makes. `CallsAreRun` and
`StopReturns` therefore end in "or `SpinsOnItself`".

These are faults of the same kind, which the properties of the passing runs leave
out in a way that can be seen in their text. Each is reproduced by taking the
exception out.

| Sentence | What happens | Left out by |
|---|---|---|
| at most one client (`cosim-protocol.md:13`) | the Close of a rejected client resets the session of the accepted one, and a third client is accepted beside it | two `Conns` in `Session` |
| connections are closed promptly (`RpcServer.h:48-50`) | `stop()` before `setManifest` joins a thread that waits for the manifest | `manifestReady` in `StopEnds` |
| the slot is released on every exit path (`Ports.cpp:106-107`) | a refused zero-width message has lost its placeholder byte (`Ports.cpp:123`); when the same object is offered again, the exception is thrown outside the `try`, and the next `disconnect()` waits for ever | `ZeroWidth` in `SlotsAreReleased`, the leaked slot in `DisconnectEnds` |
| a disconnected port backpressures hardware (`Ports.h:469`) | the device still has an address and hands one message over; the next connect loses it | `MaxConnects` = 1 in `Loopback` |
| nothing is pending when `write()` begins (`Ports.h:329`) | a `write()` that throws at an empty list (`Ports.cpp:644`) leaves the frames before the list in the buffer, and the next one fails the assertion or sends them | `clean` in `WindowPort` |
| a window that gets past `requireTranslationSupported` can be translated (`Ports.h:239-241`) | `translateOutgoing` goes on to the frames after a list (`Ports.cpp:613-676`), `translateIncoming` completes the message at `last` and starts over (`Ports.cpp:544-563`): the frames after the list become the beginning of the next message | `shape.after = 0` in `RoundTrip` |
| `dc.select %c, %t, %f` of the outputs of `dc.branch %c` passes its token on (`RationaleDC.md:83-84`; folded to the branch's input in `DCOps.cpp:392-428` and `test/Dialect/DC/canonicalization.mlir:110-115`), and a channel may be buffered at will (`RationaleDC.md:65`) | the select emitted muxes (true, false) with the condition as the index (`DCToHW.cpp:381-388`, `603-633`; `test/Conversion/DCToHW/basic.mlir:133`): a condition of true takes the false token. Unbuffered, the first token waits for ever; with buffers on the condition, the token and the true arm a later token of the other arm leaves before it. A mux of Handshake takes its data by `arith.select` and its token by `dc.select` of one condition (`HandshakeToDC.cpp:612-626`), hence from different inputs | `crossed` in `LatencyInsensitive` and `EveryInputLeaves` |
| an empty list is one frame with `last` set (comment at `Ports.cpp:642`) | it throws | messages of kind other than "good" |

Other sentences that a reader of the models should not take literally. They are
easily reproduced with the instance given, and are not kept as runs:

* *Data comes after the subscribe response* (`RpcServer.cpp:686-690`,
  `cosim-protocol.md:157`). The channel is in `subscribed` before the response is
  sent, and the transport thread may already be draining it. One channel, one
  message: a data frame stands before the `subscribed` reply in `down`. The client
  of this repository is prepared for it, as it registers before it subscribes.
* *A frame without an entry is a server bug or misrouted* (`RpcClient.cpp:465-468`).
  `disconnect()` erases the entry before it unsubscribes.
* A `connectClientReceiver` that throws erases its entry but does not cancel it
  (unlike `disconnect()`), so a transport thread that is already at the entry goes
  on to offer it all of its queue. `OrderedStream` therefore lets several late
  messages follow a close; they are still in order.
* *Clients surface `server_busy` verbatim* (`cosim-protocol.md:17-18`). If the
  constructor wakes after the Close, `thrown` is "failed to send hello".
* *One message is buffered* (`Engines.cpp:444`). The check and the enqueue are two
  critical sections; what holds is `BackpressureReachesWriters`.
* *Nothing is written while the completion byte is 0* (`Engines.cpp:273-275`). With
  two `Pollers` both can find it 1 before either takes the lock, and `FramesKeepOrder`
  fails.
* *The polling state exists in polling mode* (`Ports.cpp:236`). With
  `concurrentReads` a reader can be at "checked" with `polling` = 0.
* A reset of a cosimulated design that destroys a call shifts the answers of all
  later ones: `lost` in `FunctionCall`.

## 5. Fairness

Weak fairness is per thread, for a thread that is not blocked: transport,
network and connection threads, the notifier call after a `put`, the user's
thread *inside* `connect` and `disconnect`, and the parts of `stop()` after it
began. Nobody owes a `put`, a connect, a disconnect, a subscribe, a manifest, a
stop, a time-out or the loss of a connection. In particular `CallsReturn` and
`HelloReturns` do not lean on `kCallTimeout`.

* A callback ends: it "is not allowed to block" (`Ports.h:501-502`).
* A callback does not refuse the same message for ever: strong fairness of
  `ClientConsume` and of `Accept`, since a refused message "should be tried again
  at some point in the future". Between two offers the action is disabled, so
  weak fairness would say nothing. `ToClientIsolation` drops the assumption for
  the busy channel.
* A port is polled again and again: without a thread of their own users "need to
  call this on each port occasionally" (`Ports.h:200-201`).
* Hardware is clocked; host memory answers; the consumer behind the device
  becomes ready. In `EsiChannel`, `DcDiamond` and `FunctionCall` this is weak
  fairness of a clock edge without reset on which the consumer is ready (and, in
  `FunctionCall`, the function gives an answer it has). No producer owes a token.
* `WindowPort`: a caller whose `tryWrite` is pending flushes again (`Ports.h` leaves
  that to the caller), the backend goes on offering the oldest frame.
* `ServiceThread`: the thread runs until it is stopped, a threaded backend delivers
  what it has, the device picks up what it is sent. Nobody owes a call or a
  disconnect, but a `stop()` that began is joined.
* `FunctionCall`: a caller inside `call()` goes on; nobody owes a call.

## 6. Proofs

Checked by TLAPS for every value of the constants that satisfies the `ASSUME` of
the module: any number of channels, messages, connections, time-outs, threads.

**ToClientPath_proof.** `TypeCorrect`; then `PopsWhatItShowedCorrect`,
`NoLostDoorbellCorrect`, `NoLostWakeupCorrect`. None of them is inductive alone:

* `PopsWhatItShowed` needs the types only, because pushes go to the other end and
  the transport thread is the only one that pops.
* `NoLostDoorbell` needs `DoorbellInv`: a transport thread that leaves a channel
  since there is no session leaves no subscribed channel, as a session that ends
  takes its subscriptions along. The argument for a put is the order *queue, then
  doorbell*; for a subscription it is the kick at the end of the handler.
* `NoLostWakeup` needs `EntryInv`: entries are numbered in the order they are
  registered, an entry that does not exist yet is empty, and the registered one
  is not canceled, so the transport thread leaves a registered entry only when it
  is empty or in the retry set.

The order of frames is in the same module. `UnsubscribeAckIsLastCorrect` from
`WireInv`: request
ids of a channel grow along the wire and no answer is from the future, so an
answer with the newest id says that the server has nothing left to handle for the
channel; it is out of `subscribed`, and no frame can follow.
`ConnectedIsSubscribedCorrect` from `ConnectInv` on top: whatever carries the id
of an outstanding subscribe is about that subscribe, so an `ok` is its answer and
no older unsubscribe is still in front of the server.

`ImplementsStreamCorrect` is the refinement: the six threads implement `OrderedStream`,
whose transit and late messages are sets of numbered messages. The mapping puts into
transit what is in the write queue, on the wire and in the entry of the registered
connection, and into late what an entry that is canceled may still hand over. The step
simulation needs `StreamInv`: the types, `EntryInv`, `OwnerInv` (the registered entry is the
newest one, and there is one exactly while the port is connected) and `OrderInv` (every
queue is in order, and whatever is in a later place, or of a later connection, is newer).
Step by step, `Write` enters a message; `Register` opens; `ClientConsume` delivers, from transit
or from what is late; `ClientPeek` and a refusal drop what is late or change nothing;
`SubscribeThrows`, `Unregister`, `CancelEntry` and the loss of the WebSocket lose messages of
closed streams only; so do `ServerSend` and the arrival of a frame for a connection
that is gone; every other step stutters.

`StreamIsInOrder` is about the abstract stream: what the readers of a channel consume
increases strictly over all connections. Its invariant `ChainInv` says that what is
consumed is older than what is late, and that older than what is in transit.
`ReadersSeeOrderCorrect` takes it back to the path along the refinement.

**ReadPort_proof.** `TypeCorrect`, which includes that `activeCallbacks` does not
go below zero (the assertion of `finish()`), and
`NoCallbackOutlivesItsConnectionCorrect`, for any finite set of threads and every
kind of port. The invariant is: at least as many slots are taken as threads are inside
(an inequality, as the zero-width exception leaks slots), a callback inside is of
the connection the port has, and the property itself. `disconnect()` returns at
zero slots, hence with nobody inside. `SlotsAreReleasedCorrect` adds the equality
(`NoSlotLeaks`) for a port that is not zero-width: every way in and out of a
callback moves the count and the set of threads inside together.

`ReadsAreTheStreamCorrect` needs `StreamInv`: the polling buffer holds messages or
promises, never both, and what is accepted and not read is in `dataQueue`, what is
read and not accepted in `promiseQueue`, each in order. So the n-th read of a
connection gets its n-th message, whichever comes first. `NoOrphanedReadCorrect` adds
`WaitInv` (a read waits only for a message that has not come, hence has its promise in
the queue) and `OwnReaderInv`: a reader who is the owner is not between the two halves of
`readAsync()` when he disconnects. With a concurrent reader the last does not hold,
which is the race of section 4.

**RpcSession_proof.** `SessionIsAliveCorrect` and `TableIsCompleteCorrect`, for any number
of connections. `SessionIsAlive` is inductive with the types and `LifeInv` (a connection
exists from its `Connect` on); `TableInv` follows the list of channels from the server
over the wire to the table. `OnlyAskedFramesCorrect` is conditional: *as long as the
single-client rule holds* (`SingleClient`) a message goes only to who subscribed. The
code breaks the rule with three connections (first row of section 4), so it cannot be
proved; `SingleClientOfTwo` proves it for a server that never has more than two, and
`OnlyAskedFramesOfTwo` is the property for those without a hypothesis. `AskInv` says why
it holds: whoever is not accepted has sent no subscribe, and the subscription of a
session ends with it.

**WindowPort_proof.** `RoundTripCorrect`, for any number of fixed frames, with or without
a list frame behind them, any length of the list, and any number of messages, frames in the
backend and reconnects. The property has three hypotheses of its own. The list frame is the
last of the window (`ListIsLast`; with frames after it the property is false, section 4). The
two others are history variables: no `write` has thrown halfway
(`clean`, section 4) and no reader has come in the middle of a message (`aligned`). Under
them the invariant has three parts. `FlowInv`: the frames on the way, those in the backend
and then those the writer still has, are numbered without a gap from the part the reader waits
for to the last part of the last message offered. `WriterInv`: where in its buffer the writer
is, for each place in `write`, `tryWrite` and `flush`, so that a frame the backend did not
take is the next one it is offered. `ReaderInv`: the state of the translation is what the
parts taken so far of the current message say (`PartsTaken`), and what was handed over is whole.
A frame is taken by the reader only at the head of this run, so it is the part it waits for;
an offer adds a message at the end. A reconnect that keeps `aligned` finds the
reader between two messages. The frames are cut from the messages by a function which the
invariant says exists (`Cut`), since a recursive one could not be reasoned about.

**FunctionCall_proof.** `OwnAnswerCorrect`. Nothing on the way carries the name of a
caller, so the invariant is about the whole path: from the results back to the last
call written, every place (futures, result port, to_client path, function, stage,
endpoint, socket) holds its stretch of *one* run of consecutive numbers (`CallRun`),
and the promises are those of the callers whose calls come next. `LockInv` joins the two
ends: between its write and its read a caller holds the mutex. As the property says, nothing
is claimed once a reset has destroyed a call. The only assumption is that `Free`, the
value of a mutex nobody has, is not a caller.

**ServiceThread_proof.** `CallsInOrderCorrect`, over both kinds of backend, with any number
of callbacks. For each port the calls are one run from those whose callback has run over
the work list, the future, the queue and the wire (`CallRun`), the results another one
(`ResultRun`). `WorkInv` and `TodoInv` say why the thread may read the next call before
it runs the one before: a pass takes one call of a port at most, and none of a port it has
yet to look at. `QuietAfterDisconnectCorrect` needs that the thread has ended (`Ended`).

**DmaLoopback_proof.** `FramesKeepOrderCorrect` and `BackpressureReachesWritersCorrect`, for
any number of writers, frames and places in the channel. Each buffer is in one stage of
its protocol: unconnected, free, filled, being read and answered on the way to the
device (`BufferInv`); not connected, offered, written, full and done on the way back
(`ToInv`). The stage says who may touch buffer, flag and mailbox. On top of it the frames
are one run from the queue of the write port to the consumer (`FrameRun`, `ChannelInv`),
and `QueueInv` counts the messages of writers who have seen the queue empty. The
hypotheses are *one thread polls the write port* (`OnePoller`) and *each port is connected
once* (`OneConnect`). Without either of them `FramesKeepOrder` fails (section 4); the
constants of the run `Loopback` satisfy both.

**Hardware_proof.** Of `EsiChannel`, `AssertionsHoldCorrect`: no assertion of either pipeline stage
ever fires; `BufferIsQueueCorrect`: the registers of the first stage are a queue,
whatever its neighbours do. Both are proved for every depth and
latency of the FIFO between the stages. A stage acts on the ready of the cycle
before, so neither holds by itself: `BufferInv` says of both stages that an occupied
lookaside register means an occupied output register and a consumer that was not
ready in the last cycle.

`DataIsTheTokensCorrect` is about the channel as a whole: `Latency` cycles after the
handshake of a token its data is on the wires. Since tokens are numbered, the tokens in the
first stage, the FIFO and the second stage are one run that ends at `sent`, and `First` and
`Oldest` (the next token to be popped, the oldest one in the memory) are functions of the
counters. `ChannelInv` has four parts:

* `FifoTypes` and `CountersStep`: counters and pointers never wrap where they should not.
  This needs `2^w >= n` for the width of a counter, which is shown by counting subsets,
  as powers are not induction the prover can do.
* `MemoryInv`: every token from `Oldest` on is in its slot of the ring. A write goes to a
  slot none of them uses, since `used` counts popped slots until they are read.
* `FlightInv`: the delayed addresses are those of the tokens popped 1, 2, ... cycles ago,
  each token between `Oldest` and `First` is one of them, and they are in order, so that
  what is released is `Oldest`.
* `HistoryInv`: the payload registers repeat the moves of the control registers `Latency`
  cycles later. The invariant therefore says *there is* a past (which tokens the control
  registers held and which left the FIFO in the last `Latency` cycles) that the delayed moves,
  the payload registers and `owed` agree with; a step shifts it by one.

Of `DcDiamond`, `CopiesConservedCorrect` and `LatencyInsensitiveCorrect`, for each of the 64
circuits at once, with a select wired either way round or a merge, any number of tokens and
resets, and every behaviour of producer and consumer. The proof speaks of sets of tokens.
`HeldInv`: an edge whose tokens leave holds what its output of the fork has emitted there
(`Got`) without what has left (`Gone`), and no token has left that the fork has not emitted
on every edge. One cycle of an edge is the same with a buffer and without one (`HeldEdge`):
it gets the current token if the fork and the edge agree, and gives its *oldest* one if its
sink is ready, since a buffer with an occupied lookaside register did not see a ready sink
in the last cycle (`StageOk`). By `HeldInv` the oldest token of an arm is the first one of
that arm that has not left, which is what `LatencyInsensitive` says, and with a select whose
operands are crossed the first token of all. Sets become sequences again at the end
(`ListsOfRange`).

**Only model-checked**:

* all liveness (`EventuallyDelivered`, `CallsReturn`, `HelloReturns`, `EveryMessageArrives`,
  `EveryTokenLeaves`, `EveryInputLeaves` and the like), which is out of the prover's reach;
* the isolation of channels (`OthersDelivered`), which is liveness too.

Every other property of a run that passes is a theorem.

## 7. Assumptions and limits

External code is modelled by how the repository uses it:

* *IXWebSocket*: frames of one direction arrive in the order they were sent;
  sends of several threads are serialised; each connection has one thread, which
  sees Open first, messages in order and Close last; a send on a closed WebSocket
  fails and does nothing; `stop()` closes and joins.
* *Host memory*: `allocate` returns a buffer that is not in use; requests of the
  device are served one at a time and in order; a freed buffer holds its old
  contents or nothing.
* *MMIO* writes take effect in program order.

* *The function* behind the endpoints answers its calls in order; *the accelerator*
  of `DmaLoopback` sends back what it gets; *the simulator* calls DPI from one thread.

Left out on purpose: payloads (a message is its number), the bit layout of window
frames, sizes and alignment (hence a DPI get whose message does not fit; the frames of a
window in `WindowPort` are all of one size, so a reader that is out of step is not told so by
the size check at `Ports.cpp:501`), JSON,
logging, the almost-full and almost-empty flags of the FIFO. Combinational wires are
functions of the registers: a circuit with a combinational cycle could not be
written in `DcDiamond`, and its absence in other graphs is not shown. Its merge
prefers its first operand, so a token of the other arm may be overtaken for as long as the
producer goes on choosing the first; the producer of the run stops, and everything
leaves. Memory is sequentially consistent, apart from
the unprotected `mode` and `pollingState` of `readAsync` and the completion byte,
which are steps of their own. A `connect` that races with a poller of the same
port, and two pollers of a `ToHostBuffer`, are races on plain pointers and are not
modelled: whoever connects or polls is taken to be alone at it.

Windows in `WindowPort` have one list frame at most. `precomputeFrameInfo` accepts several
lists with one item per frame; the reader never comes to the second one, for the reason
given in section 4 for frames after a list, and all of them would be cut from the same bytes of
the message (`Ports.cpp:638`). More than one item per frame is refused when the port is made,
and the bulk encoding when it is connected (`Ports.cpp:245-262`), so there is no behaviour to
model.

Not modelled for want of behaviour over time: the compiler (dialects, passes,
front ends, exporters, tools), whose correctness is about rewriting; the manifest,
types and values; typed port templates; the XRT and trace backends.

## 8. Plan

Built: the modules of section 2, in the order path, sessions, ports, engines,
windows, hardware, service thread, functions, dataflow, with the proofs of section 6.

Left, as modules:

1. The destructor of `RpcClient` against its transport thread, in `ToClientPath`.
2. `Finish` and the registration of endpoints in `DpiEntryPoints.cpp`.
3. The units of `HandshakeToHW` (control merge, buffers with a FIFO) and the stall
   chain of `PipelineToHW`.
4. The schedulers of `lib/Scheduling`, as pure algorithms.
