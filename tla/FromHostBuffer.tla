---------------------------- MODULE FromHostBuffer ----------------------------
(***************************************************************************)
(* The OneItemBuffersFromHost engine: a write port of the host (Engines.cpp)*)
(* and the hardware that empties it (bsp/dma.py), which share one data      *)
(* buffer and one completion byte in host memory and two MMIO mailboxes.    *)
(*                                                                          *)
(* Writer threads queue the frames of a message; a poller copies the next   *)
(* frame to the buffer when the completion byte is 1 and tells the device   *)
(* where both are; the device reads the frame into a register, sets the     *)
(* completion byte and forwards the frame when its consumer is ready.       *)
(* Frames are numbered in the order they are queued.                        *)
(***************************************************************************)
EXTENDS Integers, Sequences, FiniteSets

CONSTANTS
    Writers,       \* threads that call write or tryWrite
    Pollers,       \* threads that poll the port
    Frames,        \* frames of a message
    Addresses,     \* where allocate() can put the pair of buffers
    MaxWrites,     \* bound: messages written
    MaxConnects    \* bound: connects of the port

Null == "null"

ASSUME FromHostAssumption ==
    /\ Frames \in Nat \ {0}
    /\ {MaxWrites, MaxConnects} \subseteq Nat
    /\ Null \notin Addresses
    /\ IsFiniteSet(Writers)

VARIABLES
    connected,         \* WriteChannelPort::connected
    address,           \* of data_buffer and completion_buffer
    connects,          \* connects so far
    pendingFrames,     \* the queue behind bufferMutex
    writer,            \* per writer, where it is in tryWriteImpl
    poller,            \* per poller, where it is in pollImpl
    queued,            \* frames queued so far
    dataBuffer,        \* per address, the frame in the data buffer
    completion,        \* per address, the completion byte
    bufferLoc,         \* the device's mailbox for the data buffer
    completionLoc,     \* the device's mailbox for the completion byte
    readReqs,          \* host memory reads under way
    readResps,         \* their answers
    output,            \* the device's output register, 0 when not valid
    completionPending, \* a completion write is owed
    writeReqs,         \* completion writes under way to host memory
    delivered          \* the frames the device's consumer has taken

portVars   == <<connected, address, connects>>
hostVars   == <<pendingFrames, writer, poller, queued>>
memoryVars == <<dataBuffer, completion>>
deviceVars == <<bufferLoc, completionLoc, readReqs, readResps, output,
                completionPending, writeReqs, delivered>>
vars == <<connected, address, connects, pendingFrames, writer, poller, queued,
          dataBuffer, completion, bufferLoc, completionLoc, readReqs, readResps,
          output, completionPending, writeReqs, delivered>>

-----------------------------------------------------------------------------
\* bufferMutex is held across the two MMIO writes.
Unlocked == \A p \in Pollers : poller[p] \in {"idle", "ready"}

Init ==
    /\ connected = FALSE /\ address = Null /\ connects = 0
    /\ pendingFrames = <<>> /\ queued = 0
    /\ writer = [w \in Writers |-> "idle"]
    /\ poller = [p \in Pollers |-> "idle"]
    /\ dataBuffer = [a \in Addresses |-> 0]
    /\ completion = [a \in Addresses |-> 0]
    /\ bufferLoc = Null /\ completionLoc = Null
    /\ readReqs = <<>> /\ readResps = <<>> /\ writeReqs = <<>>
    /\ output = 0 /\ completionPending = FALSE
    /\ delivered = <<>>

-----------------------------------------------------------------------------
(* The port *)

\* connectImpl: new buffers, ready to be filled.  The old ones are freed when
\* the new ones exist, and nothing else of the port is reset.  Whoever connects
\* sees to it that nobody polls meanwhile: the pointers are not protected.
Connect(a) ==
    /\ connects < MaxConnects
    /\ a # address
    /\ \A p \in Pollers : poller[p] = "idle"
    /\ connected' = TRUE /\ address' = a /\ connects' = connects + 1
    /\ completion' = [completion EXCEPT ![a] = 1]
    /\ UNCHANGED <<hostVars, dataBuffer, deviceVars>>

Disconnect ==
    /\ connected
    /\ connected' = FALSE
    /\ UNCHANGED <<address, connects, hostVars, memoryVars, deviceVars>>

\* Mutant: the queue is filled whatever is in it.
TryWrite_NoLimit(w) ==
    /\ writer[w] = "idle" /\ Unlocked
    /\ queued < Frames * MaxWrites
    /\ writer' = [writer EXCEPT ![w] = "checked"]
    /\ UNCHANGED <<portVars, pendingFrames, poller, queued, memoryVars, deviceVars>>

\* tryWriteImpl finds the queue empty and unlocks it.  If it does not, tryWrite
\* returns false and write() tries again: no step.
TryWrite(w) ==
    /\ writer[w] = "idle" /\ Unlocked
    /\ pendingFrames = <<>>
    /\ queued < Frames * MaxWrites
    /\ writer' = [writer EXCEPT ![w] = "checked"]
    /\ UNCHANGED <<portVars, pendingFrames, poller, queued, memoryVars, deviceVars>>

\* enqueueFrames, under a lock of its own.
EnqueueFrames(w) ==
    /\ writer[w] = "checked" /\ Unlocked
    /\ pendingFrames' = pendingFrames \o [i \in 1..Frames |-> queued + i]
    /\ queued' = queued + Frames
    /\ writer' = [writer EXCEPT ![w] = "idle"]
    /\ UNCHANGED <<portVars, poller, memoryVars, deviceVars>>

-----------------------------------------------------------------------------
(* pollImpl *)

\* The completion byte is 1.  bufferMutex is not held yet.
PollCheck(p) ==
    /\ poller[p] = "idle" /\ connected
    /\ completion[address] = 1
    /\ poller' = [poller EXCEPT ![p] = "ready"]
    /\ UNCHANGED <<portVars, pendingFrames, writer, queued, memoryVars, deviceVars>>

\* Nothing to send.
PollEmpty(p) ==
    /\ poller[p] = "ready" /\ Unlocked
    /\ pendingFrames = <<>>
    /\ poller' = [poller EXCEPT ![p] = "idle"]
    /\ UNCHANGED <<portVars, pendingFrames, writer, queued, memoryVars, deviceVars>>

\* Mutant: front() without pop().
PollFill_NoPop(p) ==
    /\ poller[p] = "ready" /\ Unlocked
    /\ pendingFrames # <<>>
    /\ dataBuffer' = [dataBuffer EXCEPT ![address] = Head(pendingFrames)]
    /\ completion' = [completion EXCEPT ![address] = 0]
    /\ poller' = [poller EXCEPT ![p] = "filled"]
    /\ UNCHANGED <<portVars, pendingFrames, writer, queued, deviceVars>>

\* The next frame goes to the data buffer and the completion byte becomes 0.
PollFill(p) ==
    /\ poller[p] = "ready" /\ Unlocked
    /\ pendingFrames # <<>>
    /\ pendingFrames' = Tail(pendingFrames)
    /\ dataBuffer' = [dataBuffer EXCEPT ![address] = Head(pendingFrames)]
    /\ completion' = [completion EXCEPT ![address] = 0]
    /\ poller' = [poller EXCEPT ![p] = "filled"]
    /\ UNCHANGED <<portVars, writer, queued, deviceVars>>

\* The two MMIO writes.  A mailbox takes the new address whether or not the
\* old one was used.
PollBufferPtr(p) ==
    /\ poller[p] = "filled"
    /\ bufferLoc' = address
    /\ poller' = [poller EXCEPT ![p] = "sent"]
    /\ UNCHANGED <<portVars, pendingFrames, writer, queued, memoryVars, completionLoc,
                   readReqs, readResps, output, completionPending, writeReqs,
                   delivered>>

\* Mutant: the completion address is never sent.
PollCompletionPtr_Skipped(p) ==
    /\ poller[p] = "sent"
    /\ poller' = [poller EXCEPT ![p] = "idle"]
    /\ UNCHANGED <<portVars, pendingFrames, writer, queued, memoryVars, deviceVars>>

PollCompletionPtr(p) ==
    /\ poller[p] = "sent"
    /\ completionLoc' = address
    /\ poller' = [poller EXCEPT ![p] = "idle"]
    /\ UNCHANGED <<portVars, pendingFrames, writer, queued, memoryVars, bufferLoc,
                   readReqs, readResps, output, completionPending, writeReqs,
                   delivered>>

-----------------------------------------------------------------------------
(* The device *)

\* A read is issued once its answer can be buffered.
DeviceRead ==
    /\ bufferLoc # Null /\ output = 0
    /\ readReqs' = Append(readReqs, bufferLoc)
    /\ bufferLoc' = Null
    /\ UNCHANGED <<portVars, hostVars, memoryVars, completionLoc, readResps, output,
                   completionPending, writeReqs, delivered>>

\* serviceRead: host memory answers; a freed buffer may hold anything, of which
\* the model keeps the old frame and none.
ServeRead ==
    /\ readReqs # <<>>
    /\ \E frame \in {dataBuffer[Head(readReqs)]} \cup
                    (IF Head(readReqs) = address THEN {} ELSE {0}) :
           readResps' = Append(readResps, frame)
    /\ readReqs' = Tail(readReqs)
    /\ UNCHANGED <<portVars, hostVars, memoryVars, bufferLoc, completionLoc, output,
                   completionPending, writeReqs, delivered>>

\* The answer enters the output register, and a completion is owed.
DeviceBuffer ==
    /\ readResps # <<>> /\ output = 0
    /\ output' = Head(readResps)
    /\ readResps' = Tail(readResps)
    /\ completionPending' = TRUE
    /\ UNCHANGED <<portVars, hostVars, memoryVars, bufferLoc, completionLoc, readReqs,
                   writeReqs, delivered>>

DeviceComplete ==
    /\ completionLoc # Null /\ completionPending
    /\ writeReqs' = Append(writeReqs, completionLoc)
    /\ completionLoc' = Null /\ completionPending' = FALSE
    /\ UNCHANGED <<portVars, hostVars, memoryVars, bufferLoc, readReqs, readResps,
                   output, delivered>>

\* serviceWrite sets the byte.
ServeWrite ==
    /\ writeReqs # <<>>
    /\ completion' = [completion EXCEPT ![Head(writeReqs)] = 1]
    /\ writeReqs' = Tail(writeReqs)
    /\ UNCHANGED <<portVars, hostVars, dataBuffer, bufferLoc, completionLoc, readReqs,
                   readResps, output, completionPending, delivered>>

\* The consumer behind output_channel takes the frame.
DeviceForward ==
    /\ output # 0
    /\ delivered' = Append(delivered, output)
    /\ output' = 0
    /\ UNCHANGED <<portVars, hostVars, memoryVars, bufferLoc, completionLoc, readReqs,
                   readResps, completionPending, writeReqs>>

-----------------------------------------------------------------------------
Poll(p) == \/ PollCheck(p) \/ PollEmpty(p) \/ PollFill(p)
           \/ PollBufferPtr(p) \/ PollCompletionPtr(p)

Device == DeviceRead \/ DeviceBuffer \/ DeviceComplete \/ DeviceForward

HostMem == ServeRead \/ ServeWrite

Next == \/ \E a \in Addresses : Connect(a)
        \/ Disconnect
        \/ \E w \in Writers : TryWrite(w) \/ EnqueueFrames(w)
        \/ \E p \in Pollers : Poll(p)
        \/ Device \/ HostMem

Spec == Init /\ [][Next]_vars

-----------------------------------------------------------------------------
(* Properties *)

\* The device has not read the frame in the buffer yet.
Unread == \/ \E p \in Pollers : poller[p] = "filled"
          \/ bufferLoc # Null \/ readReqs # <<>>

InBuffer   == IF Unread THEN <<dataBuffer[address]>> ELSE <<>>
InRegister == IF output # 0 THEN <<output>> ELSE <<>>

\* Every frame that was queued is, in order and once, delivered, in the device,
\* in the buffer or still in the queue: the hand-over of the one buffer neither
\* drops, repeats nor overtakes a frame.
NoFrameLost ==
    delivered \o InRegister \o readResps \o InBuffer \o pendingFrames
        = [i \in 1..queued |-> i]

=============================================================================
