----------------------------- MODULE ToHostBuffer -----------------------------
(***************************************************************************)
(* The OneItemBuffersToHost engine: a read port of the host (Engines.cpp)   *)
(* and the hardware that fills it (bsp/dma.py), which share one buffer in   *)
(* host memory, whose last byte says that it is full, and one MMIO mailbox. *)
(*                                                                          *)
(* The host offers the address of the empty buffer; the device joins it     *)
(* with the next message of its channel and writes the message; the poller  *)
(* finds the byte set, hands the message to the callback until the callback *)
(* takes it, clears the byte and offers the address again.                  *)
(* Messages are numbered in the order the accelerator sends them.           *)
(***************************************************************************)
EXTENDS Integers, Sequences

CONSTANTS
    Addresses,     \* where allocate() can put the buffer
    MaxMessages,   \* bound: messages of the accelerator
    MaxConnects    \* bound: connects of the port

Null == "null"

VARIABLES
    connected,      \* ReadChannelPort::mode, but for the kind of callback
    address,        \* of `buffer`
    connects,       \* connects so far
    pendingMessage, \* the message retained for the callback, 0 for nullptr
    poller,         \* where the polling thread is in pollImpl
    data,           \* per address, the message in the buffer
    valid,          \* per address, the last byte of the buffer
    bufferLoc,      \* the device's mailbox
    produced,       \* messages the accelerator has sent
    taken,          \* messages the device has joined with an address
    writeReqs,      \* writes under way to host memory
    consumed        \* the messages callbacks have taken

portVars   == <<connected, address, connects>>
pollVars   == <<pendingMessage, poller, consumed>>
memoryVars == <<data, valid>>
deviceVars == <<bufferLoc, produced, taken, writeReqs>>
vars == <<connected, address, connects, pendingMessage, poller, data, valid,
          bufferLoc, produced, taken, writeReqs, consumed>>

-----------------------------------------------------------------------------
Init ==
    /\ connected = FALSE /\ address = Null /\ connects = 0
    /\ pendingMessage = 0 /\ poller = "idle" /\ consumed = <<>>
    /\ data = [a \in Addresses |-> 0]
    /\ valid = [a \in Addresses |-> 0]
    /\ bufferLoc = Null /\ produced = 0 /\ taken = 0
    /\ writeReqs = <<>>

\* connectImpl: a new buffer, marked empty and offered to the device; the old
\* one is freed, and pendingMessage is left as it is.
Connect(a) ==
    /\ ~connected
    /\ connects < MaxConnects
    /\ a # address
    /\ connected' = TRUE /\ address' = a /\ connects' = connects + 1
    /\ valid' = [valid EXCEPT ![a] = 0]
    /\ bufferLoc' = a
    /\ UNCHANGED <<pollVars, data, produced, taken, writeReqs>>

\* disconnect() waits for the callback in flight.
Disconnect ==
    /\ connected
    /\ poller # "callback"
    /\ connected' = FALSE
    /\ UNCHANGED <<address, connects, pollVars, memoryVars, deviceVars>>

-----------------------------------------------------------------------------
(* pollImpl, on the one thread that polls the port *)

\* The buffer is full: its message is copied out and retained.
PollBuffer ==
    /\ poller = "idle" /\ connected
    /\ pendingMessage = 0
    /\ valid[address] = 1
    /\ pendingMessage' = data[address]
    /\ poller' = "deliver"
    /\ UNCHANGED <<portVars, memoryVars, deviceVars, consumed>>

\* A message the callback refused is offered again.
PollPending ==
    /\ poller = "idle" /\ connected
    /\ pendingMessage # 0
    /\ poller' = "deliver"
    /\ UNCHANGED <<portVars, pendingMessage, memoryVars, deviceVars, consumed>>

\* invokeCallback: the port has been disconnected ...
DeliverDisconnected ==
    /\ poller = "deliver" /\ ~connected
    /\ poller' = "idle"
    /\ UNCHANGED <<portVars, pendingMessage, memoryVars, deviceVars, consumed>>

\* ... or the callback is called,
Deliver ==
    /\ poller = "deliver" /\ connected
    /\ poller' = "callback"
    /\ UNCHANGED <<portVars, pendingMessage, memoryVars, deviceVars, consumed>>

\* and refuses the message
Refuse ==
    /\ poller = "callback"
    /\ poller' = "idle"
    /\ UNCHANGED <<portVars, pendingMessage, memoryVars, deviceVars, consumed>>

\* or takes it.
Accept ==
    /\ poller = "callback"
    /\ consumed' = Append(consumed, pendingMessage)
    /\ pendingMessage' = 0
    /\ poller' = "accepted"
    /\ UNCHANGED <<portVars, memoryVars, deviceVars>>

\* writeBufferPtr: clear the byte, then offer the address.
ClearValid ==
    /\ poller = "accepted"
    /\ valid' = [valid EXCEPT ![address] = 0]
    /\ poller' = "cleared"
    /\ UNCHANGED <<portVars, pendingMessage, data, deviceVars, consumed>>

\* Mutant: the buffer is not offered again.
WriteBufferPtr_Skipped ==
    /\ poller = "cleared"
    /\ poller' = "idle"
    /\ UNCHANGED <<portVars, pendingMessage, memoryVars, deviceVars, consumed>>

WriteBufferPtr ==
    /\ poller = "cleared"
    /\ bufferLoc' = address
    /\ poller' = "idle"
    /\ UNCHANGED <<portVars, pendingMessage, memoryVars, produced, taken, writeReqs,
                   consumed>>

-----------------------------------------------------------------------------
(* The device *)

\* The accelerator sends a message on input_channel.
Produce ==
    /\ produced < MaxMessages
    /\ produced' = produced + 1
    /\ UNCHANGED <<portVars, pollVars, memoryVars, bufferLoc, taken, writeReqs>>

\* Channel.join of the mailbox and the input: one write to host memory.
DeviceWrite ==
    /\ bufferLoc # Null /\ taken < produced
    /\ taken' = taken + 1
    /\ writeReqs' = Append(writeReqs, [to |-> bufferLoc, n |-> taken + 1])
    /\ bufferLoc' = Null
    /\ UNCHANGED <<portVars, pollVars, memoryVars, produced>>

\* serviceWrite; a write to a buffer that was freed is nobody's message.
ServeWrite ==
    /\ writeReqs # <<>>
    /\ LET req == Head(writeReqs)
       IN  /\ data' = [data EXCEPT ![req.to] = req.n]
           /\ valid' = [valid EXCEPT ![req.to] = 1]
    /\ writeReqs' = Tail(writeReqs)
    /\ UNCHANGED <<portVars, pollVars, bufferLoc, produced, taken>>

-----------------------------------------------------------------------------
Poll == \/ PollBuffer \/ PollPending \/ DeliverDisconnected \/ Deliver
        \/ Refuse \/ Accept \/ ClearValid \/ WriteBufferPtr

Next == \/ \E a \in Addresses : Connect(a)
        \/ Disconnect
        \/ Poll
        \/ Produce \/ DeviceWrite \/ ServeWrite

Spec == Init /\ [][Next]_vars

-----------------------------------------------------------------------------
(* Properties *)

\* The message in the buffer, unless it has been consumed and the byte is just
\* about to be cleared.
InBuffer ==
    IF address # Null /\ valid[address] = 1 /\ poller # "accepted"
    THEN <<data[address]>> ELSE <<>>

\* The message retained for the callback is a copy of the one in the buffer.
InHand == IF pendingMessage # 0 /\ InBuffer = <<>> THEN <<pendingMessage>> ELSE <<>>

OnTheWay == [i \in 1..Len(writeReqs) |-> writeReqs[i].n]

\* Ports.h:469, "When the port is disconnected, it will backpressure hardware",
\* and the protocol at Engines.cpp:60-67: every message the device has taken from
\* its channel is, in order and once, consumed, in the buffer or on its way there.
NoMessageLost ==
    consumed \o InHand \o InBuffer \o OnTheWay = [i \in 1..taken |-> i]

=============================================================================
