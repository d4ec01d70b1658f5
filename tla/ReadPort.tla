------------------------------- MODULE ReadPort -------------------------------
(***************************************************************************)
(* ReadChannelPort: the host's end of a channel from the accelerator.  Its *)
(* owner connects it with a callback or for polling and disconnects it;    *)
(* the threads of the backend (an RpcClient transport thread, the service  *)
(* thread and any user thread that calls poll()) deliver messages through  *)
(* invokeCallback; a reader collects futures from the PollingBuffer.       *)
(*                                                                         *)
(* callbackMutex protects the decision to call back, never the call: a     *)
(* thread that has captured the callback counts in activeCallbacks, and    *)
(* disconnect() waits for the count before it clears the connection.       *)
(***************************************************************************)
EXTENDS Integers, Sequences, FiniteSets

CONSTANTS
    Threads,         \* the backend's threads
    Kinds,           \* the kinds of port: see `kind`
    MaxConnects,     \* bound: connects of the port
    MaxMessages,     \* bound: messages from the accelerator
    MaxReads,        \* bound: readAsync calls
    MaxSlots         \* bound: activeCallbacks, where it can only grow

ASSUME PortAssumption ==
    /\ IsFiniteSet(Threads)
    /\ Kinds \subseteq [zeroWidth : BOOLEAN, retainsMessage : BOOLEAN,
                        concurrentReads : BOOLEAN, capacity : Nat]
    /\ {MaxConnects, MaxMessages, MaxReads, MaxSlots} \subseteq Nat

VARIABLES
    kind,            \* of the port, which never changes
    mode,            \* ReadChannelPort::mode
    callback,        \* the connection of `callback`, 0 for nullptr
    activeCallbacks, \* ReadChannelPort::activeCallbacks
    polling,         \* the connection of pollingState, 0 for nullopt
    dataQueue,       \* PollingBuffer::dataQueue
    promiseQueue,    \* PollingBuffer::promiseQueue, as indices of futures
    owner,           \* where the thread that owns the port is
    connects,        \* connects so far; the number of the last connection
    thread,          \* per thread, where it is in invokeCallback
    hand,            \* per thread, the message its backend offers
    arrived,         \* messages that have come from the accelerator
    reader,          \* where the thread that calls readAsync is
    futures,         \* the futures it was given, in order
    accepted,        \* history: what the polling callback of this connection took
    firstFuture      \* history: futures given before this connection

portVars    == <<mode, callback, activeCallbacks>>
bufferVars  == <<polling, dataQueue, promiseQueue, accepted, firstFuture>>
ownerVars   == <<owner, connects>>
backendVars == <<thread, hand, arrived>>
vars == <<mode, callback, activeCallbacks, polling, dataQueue, promiseQueue,
          owner, connects, thread, hand, arrived, reader, futures, accepted,
          firstFuture, kind>>

-----------------------------------------------------------------------------
ZeroWidth       == kind.zeroWidth       \* is its type zero bits wide
RetainsMessage  == kind.retainsMessage  \* is the refused object itself offered again
ConcurrentReads == kind.concurrentReads \* does another thread than its owner read
Capacity        == kind.capacity        \* ConnectOptions::bufferSize, 0 for no bound

NoMessage == [n |-> 0, size |-> 0]
Outside   == [pc |-> "outside", conn |-> 0, size |-> 0]

\* Every message is at least one byte; a zero-width one is a placeholder byte.
WireSize == 1
StrippedSize == IF ZeroWidth THEN 0 ELSE WireSize

Inside == {t \in Threads : thread[t].pc = "inside"}

\* The owner, unless it is the reader and busy with readAsync.
OwnerAt(place) == owner = place /\ (ConcurrentReads \/ reader = "idle")

Init ==
    /\ kind \in Kinds
    /\ mode = "disconnected" /\ callback = 0 /\ activeCallbacks = 0
    /\ polling = 0 /\ dataQueue = <<>> /\ promiseQueue = <<>>
    /\ owner = "idle" /\ connects = 0
    /\ thread = [t \in Threads |-> Outside]
    /\ hand = [t \in Threads |-> NoMessage]
    /\ arrived = 0
    /\ reader = "idle" /\ futures = <<>>
    /\ accepted = <<>> /\ firstFuture = 0

-----------------------------------------------------------------------------
(* connect *)

\* The futures of a PollingBuffer that goes away are broken promises.
Broken(queue) ==
    [i \in 1..Len(futures) |->
        IF \E k \in 1..Len(queue) : queue[k] = i
        THEN [futures[i] EXCEPT !.state = "broken"] ELSE futures[i]]

\* connect(ReadCallback): the callback is in place before connectImpl runs.
\* What a failed polling connect left in pollingState stays there.
ConnectCallback ==
    /\ OwnerAt("idle") /\ mode = "disconnected"
    /\ connects < MaxConnects
    /\ connects' = connects + 1
    /\ callback' = connects + 1
    /\ owner' = "connecting callback"
    /\ UNCHANGED <<mode, activeCallbacks, bufferVars, backendVars, reader, futures>>

\* connect(): polling mode, with a new PollingBuffer.
ConnectPolling ==
    /\ OwnerAt("idle") /\ mode = "disconnected"
    /\ connects < MaxConnects
    /\ connects' = connects + 1
    /\ callback' = connects + 1
    /\ polling' = connects + 1
    /\ dataQueue' = <<>> /\ promiseQueue' = <<>>
    /\ futures' = Broken(promiseQueue)
    /\ accepted' = <<>> /\ firstFuture' = Len(futures)
    /\ owner' = "connecting polling"
    /\ UNCHANGED <<mode, activeCallbacks, backendVars, reader>>

\* connectImpl returned; only now is the port connected.
Connected ==
    /\ \/ OwnerAt("connecting callback") /\ mode' = "callback"
       \/ OwnerAt("connecting polling") /\ mode' = "polling"
    /\ owner' = "idle"
    /\ UNCHANGED <<callback, activeCallbacks, bufferVars, connects, backendVars,
                   reader, futures>>

\* connectImpl threw: the port stays disconnected.
ConnectThrows ==
    /\ OwnerAt("connecting callback") \/ OwnerAt("connecting polling")
    /\ owner' = "idle"
    /\ UNCHANGED <<portVars, bufferVars, connects, backendVars, reader, futures>>

-----------------------------------------------------------------------------
(* disconnect *)

\* Under callbackMutex: revoke the callback and go to wait.  Nothing asks
\* whether the port was connected.
Disconnect ==
    /\ OwnerAt("idle")
    /\ callback' = 0
    /\ mode' = "disconnected"
    /\ owner' = "waiting"
    /\ UNCHANGED <<activeCallbacks, bufferVars, connects, backendVars, reader,
                   futures>>

\* Mutant: disconnect does not wait for the callbacks it cannot recall.
DisconnectReturns_NoWait ==
    /\ owner = "waiting"
    /\ polling' = 0 /\ dataQueue' = <<>> /\ promiseQueue' = <<>>
    /\ futures' = Broken(promiseQueue)
    /\ accepted' = <<>> /\ firstFuture' = Len(futures)
    /\ owner' = "idle"
    /\ UNCHANGED <<portVars, connects, backendVars, reader>>

\* Mutant: the polling state survives disconnect.
DisconnectReturns_KeepsBuffer ==
    /\ owner = "waiting"
    /\ activeCallbacks = 0
    /\ owner' = "idle"
    /\ UNCHANGED <<portVars, bufferVars, connects, backendVars, reader, futures>>

\* callbackCv: no callback is in flight; pollingState and its promises go.
DisconnectReturns ==
    /\ owner = "waiting"
    /\ activeCallbacks = 0
    /\ polling' = 0 /\ dataQueue' = <<>> /\ promiseQueue' = <<>>
    /\ futures' = Broken(promiseQueue)
    /\ accepted' = <<>> /\ firstFuture' = Len(futures)
    /\ owner' = "idle"
    /\ UNCHANGED <<portVars, connects, backendVars, reader>>

-----------------------------------------------------------------------------
(* The backend's threads and invokeCallback *)

\* A backend has a message to offer.
Arrive(t) ==
    /\ thread[t] = Outside /\ hand[t] = NoMessage
    /\ arrived < MaxMessages
    /\ arrived' = arrived + 1
    /\ hand' = [hand EXCEPT ![t] = [n |-> arrived + 1, size |-> WireSize]]
    /\ UNCHANGED <<portVars, bufferVars, ownerVars, thread, reader, futures>>

\* invokeCallback on a disconnected port returns false: RpcServer drops the
\* message, the other backends offer it again later (no step).
DropDisconnected(t) ==
    /\ thread[t] = Outside /\ hand[t] # NoMessage
    /\ mode = "disconnected"
    /\ hand' = [hand EXCEPT ![t] = NoMessage]
    /\ UNCHANGED <<portVars, bufferVars, ownerVars, thread, arrived, reader, futures>>

\* Snapshot the callback and take a slot; a zero-width message loses its
\* placeholder byte, in the object the backend owns.
Capture(t) ==
    /\ thread[t] = Outside /\ hand[t] # NoMessage
    /\ mode # "disconnected"
    /\ ZeroWidth => hand[t].size = WireSize
    /\ activeCallbacks' = activeCallbacks + 1
    /\ thread' = [thread EXCEPT ![t] = [pc |-> "inside", conn |-> callback,
                                        size |-> StrippedSize]]
    /\ UNCHANGED <<mode, callback, bufferVars, ownerVars, hand, arrived, reader,
                   futures>>

\* "zero-width message must use a single-byte placeholder payload" is thrown
\* between ++activeCallbacks and the try block.
CaptureThrows(t) ==
    /\ thread[t] = Outside /\ hand[t] # NoMessage
    /\ mode # "disconnected"
    /\ ZeroWidth /\ hand[t].size # WireSize
    /\ activeCallbacks < MaxSlots
    /\ activeCallbacks' = activeCallbacks + 1
    /\ UNCHANGED <<mode, callback, bufferVars, ownerVars, backendVars, reader, futures>>

\* The slot is released; a consumed message is gone, a refused one stays.
Leave(t, consumed) ==
    /\ activeCallbacks' = activeCallbacks - 1
    /\ thread' = [thread EXCEPT ![t] = Outside]
    /\ hand' = [hand EXCEPT ![t] =
                   IF consumed THEN NoMessage
                   ELSE IF RetainsMessage THEN [@ EXCEPT !.size = thread[t].size]
                   ELSE @]

InCallback(t) == thread[t].pc = "inside" /\ thread[t].conn # polling
InPolling(t)  == thread[t].pc = "inside" /\ thread[t].conn = polling

\* A user's callback returns true or false.
CallbackReturns(t) ==
    /\ InCallback(t)
    /\ \E consumed \in BOOLEAN : Leave(t, consumed)
    /\ UNCHANGED <<mode, callback, bufferVars, ownerVars, arrived, reader, futures>>

\* Mutant: an exception skips finish().
CallbackThrows_KeepsSlot(t) ==
    /\ InCallback(t)
    /\ thread' = [thread EXCEPT ![t] = Outside]
    /\ UNCHANGED <<portVars, bufferVars, ownerVars, hand, arrived, reader, futures>>

\* A user's callback throws: finish(), then the exception goes on.
CallbackThrows(t) ==
    /\ InCallback(t)
    /\ Leave(t, FALSE)
    /\ UNCHANGED <<mode, callback, bufferVars, ownerVars, arrived, reader, futures>>

\* The polling callback: PollingBuffer::enqueue fulfils the oldest promise or
\* buffers the message.
Enqueue(t) ==
    /\ InPolling(t)
    /\ \/ /\ promiseQueue # <<>>
          /\ futures' = [futures EXCEPT ![Head(promiseQueue)] =
                             [state |-> "ready", n |-> hand[t].n]]
          /\ promiseQueue' = Tail(promiseQueue)
          /\ UNCHANGED dataQueue
       \/ /\ promiseQueue = <<>>
          /\ Capacity = 0 \/ Len(dataQueue) < Capacity
          /\ dataQueue' = Append(dataQueue, hand[t].n)
          /\ UNCHANGED <<futures, promiseQueue>>
    /\ accepted' = Append(accepted, hand[t].n)
    /\ Leave(t, TRUE)
    /\ UNCHANGED <<mode, callback, polling, firstFuture, ownerVars, arrived, reader>>

\* Mutant: it waits for room when the bounded queue is full.
EnqueueRefused_Blocks(t) == InPolling(t) /\ UNCHANGED vars

\* It returns false when the bounded queue is full.
EnqueueRefused(t) ==
    /\ InPolling(t)
    /\ promiseQueue = <<>>
    /\ Capacity # 0 /\ Len(dataQueue) >= Capacity
    /\ Leave(t, FALSE)
    /\ UNCHANGED <<mode, callback, bufferVars, ownerVars, arrived, reader, futures>>

-----------------------------------------------------------------------------
(* readAsync *)

\* The checks of `mode`, without a lock.
ReadCheck ==
    /\ reader = "idle"
    /\ ConcurrentReads \/ owner = "idle"
    /\ mode = "polling"
    /\ Len(futures) < MaxReads
    /\ reader' = "checked"
    /\ UNCHANGED <<portVars, bufferVars, ownerVars, backendVars, futures>>

\* Mutant: front() without pop().
ReadAsync_NoPop ==
    /\ reader = "checked" /\ polling # 0
    /\ \/ /\ dataQueue # <<>>
          /\ futures' = Append(futures, [state |-> "ready", n |-> Head(dataQueue)])
          /\ UNCHANGED promiseQueue
       \/ /\ dataQueue = <<>>
          /\ futures' = Append(futures, [state |-> "waiting", n |-> 0])
          /\ promiseQueue' = Append(promiseQueue, Len(futures) + 1)
    /\ reader' = "idle"
    /\ UNCHANGED <<portVars, polling, dataQueue, accepted, firstFuture, ownerVars,
                   backendVars>>

\* pollingState->readAsync(): a buffered message, or a promise for a later one.
ReadAsync ==
    /\ reader = "checked" /\ polling # 0
    /\ \/ /\ dataQueue # <<>>
          /\ futures' = Append(futures, [state |-> "ready", n |-> Head(dataQueue)])
          /\ dataQueue' = Tail(dataQueue)
          /\ UNCHANGED promiseQueue
       \/ /\ dataQueue = <<>>
          /\ futures' = Append(futures, [state |-> "waiting", n |-> 0])
          /\ promiseQueue' = Append(promiseQueue, Len(futures) + 1)
          /\ UNCHANGED dataQueue
    /\ reader' = "idle"
    /\ UNCHANGED <<portVars, polling, accepted, firstFuture, ownerVars, backendVars>>

-----------------------------------------------------------------------------
Owner == \/ ConnectCallback \/ ConnectPolling \/ Connected \/ ConnectThrows
         \/ Disconnect \/ DisconnectReturns

CallbackEnds(t) == \/ CallbackReturns(t) \/ CallbackThrows(t)
                   \/ Enqueue(t) \/ EnqueueRefused(t)

Backend(t) == \/ Arrive(t) \/ DropDisconnected(t) \/ Capture(t) \/ CaptureThrows(t)
              \/ CallbackEnds(t)

Next == /\ \/ Owner
           \/ \E t \in Threads : Backend(t)
           \/ ReadCheck \/ ReadAsync
        /\ UNCHANGED kind

Spec == Init /\ [][Next]_vars

\* A callback "is not allowed to block" (Ports.h:501-502), and disconnect goes
\* on once it is notified.
Fairness == /\ WF_vars(DisconnectReturns /\ UNCHANGED kind)
            /\ \A t \in Threads : WF_vars(CallbackEnds(t) /\ UNCHANGED kind)

FairSpec == Spec /\ Fairness

-----------------------------------------------------------------------------
(* Properties *)

PortTypeOK ==
    /\ mode \in {"disconnected", "callback", "polling"}
    /\ callback \in 0..MaxConnects
    /\ activeCallbacks \in Nat
    /\ owner \in {"idle", "connecting callback", "connecting polling", "waiting"}
    /\ connects \in 0..MaxConnects
    /\ reader \in {"idle", "checked"}

BackendTypeOK ==
    /\ thread \in [Threads -> [pc : {"outside", "inside"}, conn : 0..MaxConnects,
                               size : {0, WireSize}]]
    /\ hand \in [Threads -> [n : Nat, size : {0, WireSize}]]
    /\ arrived \in Nat

BufferTypeOK ==
    /\ polling \in 0..MaxConnects
    /\ dataQueue \in Seq(Nat)
    /\ promiseQueue \in Seq(Nat)
    /\ futures \in Seq([state : {"waiting", "ready", "broken"}, n : Nat])
    /\ accepted \in Seq(Nat)
    /\ firstFuture \in Nat

\* Types of the variables, part by part.
TypeOK == PortTypeOK /\ BackendTypeOK /\ BufferTypeOK /\ kind \in Kinds

\* Ports.cpp:106-107, "Release the in-flight slot on every exit path": the
\* count disconnect() waits for is the number of threads in a callback.  On a
\* zero-width port it may be more (CaptureThrows), never less.
SlotsAreReleased ==
    /\ Cardinality(Inside) <= activeCallbacks
    /\ ~ZeroWidth => activeCallbacks = Cardinality(Inside)

\* A callback in flight belongs to the connection there is, or to the one
\* disconnect() is still waiting for: it never touches the state of another.
NoCallbackOutlivesItsConnection ==
    \A t \in Inside :
        /\ thread[t].conn = connects
        /\ mode # "disconnected" \/ owner = "waiting"

\* The i-th read of a connection is answered exactly when its callback has
\* accepted i messages, with the i-th of them; the others are in the buffer.
ReadsAreTheStream ==
    LET reads == Len(futures) - firstFuture
    IN  /\ \A i \in 1..reads :
               /\ futures[firstFuture + i].state = "ready" <=> i <= Len(accepted)
               /\ i <= Len(accepted) => futures[firstFuture + i].n = accepted[i]
        /\ dataQueue = SubSeq(accepted, reads + 1, Len(accepted))

\* A read that is still waiting has a connection to wait for: disconnect()
\* leaves no thread blocked in read(), if the port's owner is its reader.
NoOrphanedRead ==
    ~ConcurrentReads =>
        \A i \in 1..Len(futures) :
            futures[i].state = "waiting" => mode = "polling" \/ owner = "waiting"

\* disconnect() returns, unless a slot has leaked.
DisconnectEnds ==
    owner = "waiting" ~> owner = "idle" \/ activeCallbacks > Cardinality(Inside)

=============================================================================
