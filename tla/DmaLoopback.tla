----------------------------- MODULE DmaLoopback -----------------------------
(***************************************************************************)
(* Both DMA engines with an accelerator between them that sends back what it *)
(* receives: writers of the host -> FromHostBuffer -> a channel of the       *)
(* accelerator -> ToHostBuffer -> a read callback of the host.  Frame n comes *)
(* back as message n.                                                        *)
(*                                                                          *)
(* The engines share nothing but the channel: each has its own buffers,      *)
(* mailboxes and ports to host memory, and pollImpl of either port runs in   *)
(* any order with that of the other.                                         *)
(***************************************************************************)
EXTENDS FromHostBuffer

CONSTANTS
    ReadAddresses, \* where allocate() can put the buffer of the read port
    Channel        \* messages the channel of the accelerator can hold

ASSUME LoopbackAssumption ==
    /\ Channel \in Nat \ {0}
    /\ Null \notin ReadAddresses

VARIABLES
    readConnected, readAddress, readConnects,        \* the read port
    pendingMessage, readPoller, consumed,
    readData, readValid,                             \* its buffer
    readLoc, produced, taken, readWriteReqs          \* its device

To == INSTANCE ToHostBuffer WITH
          Addresses <- ReadAddresses, MaxMessages <- Frames * MaxWrites,
          connected <- readConnected, address <- readAddress,
          connects <- readConnects, poller <- readPoller,
          data <- readData, valid <- readValid,
          bufferLoc <- readLoc, writeReqs <- readWriteReqs

readVars == <<readConnected, readAddress, readConnects, pendingMessage, readPoller,
              consumed, readData, readValid, readLoc, produced, taken, readWriteReqs>>
loopVars == <<vars, readVars>>

LoopInit == Init /\ To!Init

\* output_channel of one engine is input_channel of the other.
Loop ==
    /\ produced - taken < Channel
    /\ DeviceForward
    /\ To!Produce

FromHostStep ==
    /\ \/ \E a \in Addresses : Connect(a)
       \/ Disconnect
       \/ \E w \in Writers : TryWrite(w) \/ EnqueueFrames(w)
       \/ \E p \in Pollers : Poll(p)
       \/ DeviceRead \/ DeviceBuffer \/ DeviceComplete
       \/ HostMem
    /\ UNCHANGED readVars

ToHostStep ==
    /\ \/ \E a \in ReadAddresses : To!Connect(a)
       \/ To!Disconnect
       \/ To!Poll
       \/ To!DeviceWrite \/ To!ServeWrite
    /\ UNCHANGED vars

LoopNext == FromHostStep \/ ToHostStep \/ Loop

\* As in the two modules: ports are polled ("they need to call this on each port
\* occasionally", Ports.h:200-201), hardware runs, host memory answers and the
\* callback takes a message in the end.
LoopFairness ==
    /\ \A p \in Pollers : WF_loopVars(Poll(p) /\ UNCHANGED readVars)
    /\ WF_loopVars(DeviceRead /\ UNCHANGED readVars)
    /\ WF_loopVars(DeviceBuffer /\ UNCHANGED readVars)
    /\ WF_loopVars(DeviceComplete /\ UNCHANGED readVars)
    /\ WF_loopVars(ServeRead /\ UNCHANGED readVars)
    /\ WF_loopVars(ServeWrite /\ UNCHANGED readVars)
    /\ WF_loopVars(Loop)
    /\ WF_loopVars(To!Poll /\ UNCHANGED vars)
    /\ SF_loopVars(To!Accept /\ UNCHANGED vars)
    /\ WF_loopVars(To!DeviceWrite /\ UNCHANGED vars)
    /\ WF_loopVars(To!ServeWrite /\ UNCHANGED vars)

LoopSpec == LoopInit /\ [][LoopNext]_loopVars /\ LoopFairness

-----------------------------------------------------------------------------
(* Properties *)

\* The protocols at Engines.cpp:60-67 and 270-275: every frame the writers have queued
\* is, in order and once, in the queue, in one of the two engines, in the channel between
\* them or consumed.  Neither engine writes a buffer the other side has not read, or
\* reads one twice.
FramesKeepOrder == NoFrameLost /\ To!NoMessageLost

\* A callback that refuses stops the writers: Engines.cpp:444 ("limit it to one
\* message") lets each writer be one message ahead of the engines, which hold a frame
\* in the host's buffer, one in the device's register and one in the read buffer.
BackpressureReachesWriters ==
    queued + Frames * Cardinality({w \in Writers : writer[w] = "checked"}) - Len(consumed)
        <= Frames * Cardinality(Writers) + 3 + Channel

\* What is written comes back, as long as both ports are connected.
EveryFrameReturns ==
    \A n \in 1..(Frames * MaxWrites) :
        queued >= n ~> Len(consumed) >= n \/ ~connected \/ ~readConnected

=============================================================================
