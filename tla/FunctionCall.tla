----------------------------- MODULE FunctionCall ------------------------------
(***************************************************************************)
(* Threads of the host call a function of the accelerator in cosimulation.   *)
(*                                                                          *)
(*   Function::call (Services.cpp)  -> WriteCosimChannelPort, writeToServer  *)
(*   -> handleBinaryFrame, RpcServerReadPort (RpcServer.cpp)                 *)
(*   -> sv2cCosimserverEpTryGet (DpiEntryPoints.cpp)                         *)
(*   -> Cosim_Endpoint_FromHost with its ESI_PipelineStage                   *)
(*   -> the function, which answers in order (external)                      *)
(*   -> Cosim_Endpoint_ToHost, sv2cCosimserverEpTryPut -> the to_client path *)
(*      (an ordered stream, see ToClientPath) -> the result port             *)
(*                                                                          *)
(* Nothing on the way carries the name of the caller: the n-th result goes   *)
(* to the n-th reader.  Calls are numbered in the order their arguments are  *)
(* written, and the answer to call n is n.                                  *)
(***************************************************************************)
EXTENDS Integers, Sequences

CONSTANTS
    Callers,     \* threads of the host
    MaxCalls,    \* bound: calls
    MaxResets,   \* bound: resets of the design
    Capacity     \* calls the function can hold

Free == "free"

ASSUME CallAssumption ==
    /\ Free \notin Callers
    /\ {MaxCalls, MaxResets} \subseteq Nat
    /\ Capacity \in Nat \ {0}

VARIABLES
    callMutex,   \* the caller that holds it, or Free
    caller,      \* per caller: pc, its call, and what its future holds
    promises,    \* result port: callers whose futures wait, oldest first
    dataQueue,   \* result port: results nobody has asked for
    written,     \* calls written so far
    toServer,    \* frames on the socket
    epQueue,     \* the unbounded queue of the endpoint's read port
    epFuture,    \* what readFutures holds for it: a call, or Waiting
    aValid, a,   \* DataOut_a_valid and the DataOutBuffer
    stage,       \* the registers of out_pipe
    function,    \* calls in the function
    toClient,    \* results under way to the result port
    resets,
    lost         \* history: a reset has destroyed a call

hostVars == <<callMutex, caller, promises, dataQueue, written>>
simVars  == <<aValid, a, stage, function, resets, lost>>
vars == <<hostVars, toServer, epQueue, epFuture, simVars, toClient>>

Waiting == 0
Invalid == -1     \* a future after get()
Calls == 1..MaxCalls

Pipe == INSTANCE PipelineStage WITH Delay <- 0, Payload <- 0..MaxCalls

Init ==
    /\ callMutex = Free /\ promises = <<>> /\ dataQueue = <<>> /\ written = 0
    /\ caller = [c \in Callers |-> [pc |-> "idle", call |-> 0, result |-> 0]]
    /\ toServer = <<>> /\ epQueue = <<>> /\ epFuture = Waiting
    /\ aValid = FALSE /\ a = 0
    /\ Pipe!Init /\ stage.x = 0 /\ stage.l = 0
    /\ function = <<>> /\ toClient = <<>>
    /\ resets = 0 /\ lost = FALSE

-----------------------------------------------------------------------------
(* Function::call *)

Lock(c) ==
    /\ caller[c].pc = "idle" /\ written < MaxCalls
    /\ callMutex = Free /\ callMutex' = c
    /\ caller' = [caller EXCEPT ![c] = [pc |-> "write", call |-> 0, result |-> 0]]
    /\ UNCHANGED <<promises, dataQueue, written, toServer, epQueue, epFuture, simVars, toClient>>

\* Mutant: the lock covers only the write.
WriteArg_Unlocks(c) ==
    /\ caller[c].pc = "write"
    /\ written' = written + 1
    /\ toServer' = Append(toServer, written + 1)
    /\ caller' = [caller EXCEPT ![c].pc = "read", ![c].call = written + 1]
    /\ callMutex' = Free
    /\ UNCHANGED <<promises, dataQueue, epQueue, epFuture, simVars, toClient>>

\* arg->write: a frame on the socket.
WriteArg(c) ==
    /\ caller[c].pc = "write"
    /\ written' = written + 1
    /\ toServer' = Append(toServer, written + 1)
    /\ caller' = [caller EXCEPT ![c].pc = "read", ![c].call = written + 1]
    /\ UNCHANGED <<callMutex, promises, dataQueue, epQueue, epFuture, simVars, toClient>>

\* result->readAsync, and the lock is released: a result that is there already, or a
\* promise.
ReadResult(c) ==
    /\ caller[c].pc = "read"
    /\ callMutex' = IF callMutex = c THEN Free ELSE callMutex
    /\ IF dataQueue # <<>>
       THEN /\ caller' = [caller EXCEPT ![c].pc = "answered", ![c].result = Head(dataQueue)]
            /\ dataQueue' = Tail(dataQueue)
            /\ UNCHANGED promises
       ELSE /\ caller' = [caller EXCEPT ![c].pc = "waiting"]
            /\ promises' = Append(promises, c)
            /\ UNCHANGED dataQueue
    /\ UNCHANGED <<written, toServer, epQueue, epFuture, simVars, toClient>>

\* The caller takes the value out of its future and may call again.
Return(c) ==
    /\ caller[c].pc = "answered"
    /\ caller' = [caller EXCEPT ![c].pc = "idle"]
    /\ UNCHANGED <<callMutex, promises, dataQueue, written, toServer, epQueue, epFuture,
                   simVars, toClient>>

\* A result reaches the result port: the oldest promise, or the queue.
ResultArrives ==
    /\ toClient # <<>>
    /\ toClient' = Tail(toClient)
    /\ IF promises # <<>>
       THEN /\ caller' = [caller EXCEPT ![Head(promises)].pc = "answered",
                                        ![Head(promises)].result = Head(toClient)]
            /\ promises' = Tail(promises)
            /\ UNCHANGED dataQueue
       ELSE /\ dataQueue' = Append(dataQueue, Head(toClient))
            /\ UNCHANGED <<caller, promises>>
    /\ UNCHANGED <<callMutex, written, toServer, epQueue, epFuture, simVars>>

-----------------------------------------------------------------------------
(* The server: handleBinaryFrame delivers to the polling queue of the endpoint *)

FrameArrives ==
    /\ toServer # <<>>
    /\ toServer' = Tail(toServer)
    /\ IF epFuture = Waiting
       THEN epFuture' = Head(toServer) /\ UNCHANGED epQueue
       ELSE epQueue' = Append(epQueue, Head(toServer)) /\ UNCHANGED epFuture
    /\ UNCHANGED <<hostVars, simVars, toClient>>

-----------------------------------------------------------------------------
(* The simulation *)

\* Mutant: the future is not renewed.
EpTryGet_NoReadAsync ==
    IF epFuture \in Calls
    THEN aValid' = TRUE /\ a' = epFuture /\ epFuture' = Invalid /\ UNCHANGED epQueue
    ELSE UNCHANGED <<aValid, a, epFuture, epQueue>>

\* sv2cCosimserverEpTryGet with the endpoint's use of it: no message, or the value of
\* the future, which is replaced by that of the next read.
EpTryGet ==
    IF epFuture \in Calls
    THEN /\ aValid' = TRUE /\ a' = epFuture
         /\ epFuture' = IF epQueue = <<>> THEN Waiting ELSE Head(epQueue)
         /\ epQueue' = IF epQueue = <<>> THEN <<>> ELSE Tail(epQueue)
    ELSE UNCHANGED <<aValid, a, epFuture, epQueue>>

\* The always block of Cosim_Endpoint_FromHost, out of reset: hand over, or fetch.
Fetch ==
    IF aValid /\ Pipe!AReady
    THEN aValid' = FALSE /\ UNCHANGED <<a, epFuture, epQueue>>
    ELSE IF Pipe!AReady THEN EpTryGet
    ELSE UNCHANGED <<aValid, a, epFuture, epQueue>>

\* One clock edge.  ready: the function takes a call; done: it gives a result,
\* which Cosim_Endpoint_ToHost accepts in every cycle.
Clock(ready, done) ==
    /\ ready => Len(function) < Capacity
    /\ done => function # <<>>
    /\ Fetch
    /\ Pipe!Clock(FALSE, aValid, a, ready)
    /\ function' = (IF done THEN Tail(function) ELSE function)
                   \o (IF Pipe!Xmit(ready) THEN <<stage.x>> ELSE <<>>)
    /\ toClient' = IF done THEN Append(toClient, Head(function)) ELSE toClient
    /\ UNCHANGED <<hostVars, toServer, resets, lost>>

\* A clock edge in reset: the endpoint, its buffer and the function lose what they
\* hold; messages still in the server stay there.
Reset(ready) ==
    /\ resets < MaxResets
    /\ resets' = resets + 1
    /\ aValid' = FALSE
    /\ Pipe!Clock(TRUE, aValid, a, ready)
    /\ function' = <<>>
    /\ lost' = (lost \/ aValid \/ stage.xValid \/ function # <<>>)
    /\ UNCHANGED <<hostVars, toServer, epQueue, epFuture, a, toClient>>

-----------------------------------------------------------------------------
CallerStep(c) == WriteArg(c) \/ ReadResult(c) \/ Return(c)

Next ==
    \/ \E c \in Callers : Lock(c) \/ CallerStep(c)
    \/ ResultArrives \/ FrameArrives
    \/ \E ready, done \in BOOLEAN : Clock(ready, done)
    \/ \E ready \in BOOLEAN : Reset(ready)

\* Threads that have begun a call go on, transports deliver, and the simulation runs
\* with a function that takes a call when it has room and answers when it has one.
FairSpec ==
    /\ Init /\ [][Next]_vars
    /\ \A c \in Callers : WF_vars(CallerStep(c))
    /\ WF_vars(ResultArrives) /\ WF_vars(FrameArrives)
    /\ WF_vars(Clock(Len(function) < Capacity, function # <<>>))

-----------------------------------------------------------------------------
(* Properties *)

\* Every caller gets the result of its own call, although results carry no name,
\* unless a reset destroyed a call.
OwnAnswer ==
    ~lost => \A c \in Callers :
                 caller[c].pc = "answered" => caller[c].result = caller[c].call

\* Every call is answered, unless a reset destroyed one.
EveryCallAnswered ==
    \A c \in Callers : caller[c].pc = "write" ~> (caller[c].pc = "answered" \/ lost)

=============================================================================
