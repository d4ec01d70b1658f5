---------------------------- MODULE ToClientPath ----------------------------
(***************************************************************************)
(* The accelerator-to-host direction of the ESI cosim transport:           *)
(* RpcServer (in the simulator process) and RpcClient (in the host         *)
(* process), joined by one WebSocket.  A message travels                   *)
(*                                                                         *)
(*   DPI put -> writeQueue -> transport thread -> WebSocket                *)
(*           -> network thread -> entry queue -> transport thread          *)
(*           -> read callback                                              *)
(*                                                                         *)
(* Each hand-over is a queue plus a doorbell (ReadyIdSet) that is rung     *)
(* after the queue's lock has been released, so every thread below can be  *)
(* stopped between the two.  One action is one critical section, or one    *)
(* stretch of code between two of them.                                    *)
(*                                                                         *)
(* The messages of a channel are numbered in the order they were written.  *)
(***************************************************************************)
EXTENDS Naturals, Sequences

CONSTANTS
    Channels,      \* the to_client channels of the server's channel table
    MaxWrites,     \* bound: messages the design writes to one channel
    MaxConnects,   \* bound: connectClientReceiver calls per channel
    MaxTimeouts,   \* bound: RPCs that run into kCallTimeout
    MaxDrops       \* bound: 0 or 1, may the WebSocket be lost

NoChannel == "no channel"

ASSUME PathAssumption ==
    /\ NoChannel \notin Channels
    /\ MaxWrites \in Nat
    /\ MaxConnects \in Nat
    /\ MaxTimeouts \in Nat
    /\ MaxDrops \in {0, 1}

VARIABLES
    written,       \* per channel, the number of messages written so far
    writeQueue,    \* RpcServerWritePort::writeQueue
    doorbell,      \* channels with a put() between q.emplace and the notifier
    sReady,        \* RpcServer's readyIds
    sBatch,        \* server transport thread: ids of this round, not visited
    sCur,          \* server transport thread: the id it is draining
    session,       \* RpcServer: is there a ClientSession
    subscribed,    \* ClientSession::subscribed
    handler,       \* server network thread inside handleSubscribe
    up,            \* WebSocket, client to server: control requests
    down,          \* WebSocket, server to client: data frames and responses
    wsOpen,        \* the connection is up
    readCallbacks, \* RpcClient: the connection number registered, 0 for none
    connects,      \* per channel, connectClientReceiver calls so far
    queue,         \* ReadCallbackEntry::queue, per connection
    canceled,      \* ReadCallbackEntry::canceled, per connection
    rx,            \* client network thread inside handleBinaryFrame
    cReady,        \* RpcClient's readyIds
    cBatch,        \* client transport thread: ids of this round, not visited
    cRetry,        \* client transport thread: its retry set
    ct,            \* client transport thread: entry, message and place
    user,          \* per channel, where the thread that owns the port is
    call,          \* per channel, the last RPC of that thread
    timeouts,      \* RPCs that timed out so far
    delivered      \* per channel, what read callbacks have consumed

writerVars == <<written, doorbell>>
serverVars == <<sReady, sBatch, sCur, session, subscribed, handler>>
wireVars   == <<up, down, wsOpen>>
rxVars     == <<queue, rx>>
drainVars  == <<cBatch, cRetry, ct, delivered>>
userVars   == <<readCallbacks, connects, canceled, user, call, timeouts>>

vars == <<written, writeQueue, doorbell, sReady, sBatch, sCur, session,
          subscribed, handler, up, down, wsOpen, readCallbacks, connects,
          queue, canceled, rx, cReady, cBatch, cRetry, ct, user, call,
          timeouts, delivered>>

-----------------------------------------------------------------------------
Message == 1..MaxWrites
Conn    == 1..MaxConnects
Entry   == Channels \X Conn        \* one ReadCallbackEntry per connection

\* Frames of the server.  The wire does not carry the method of a response;
\* the kind of one records it for the properties and the client never reads
\* more of it than whether it is an error.
ReplyKind == {"subscribed", "unsubscribed", "error"}
Data(c, m)          == [kind |-> "data", ch |-> c, n |-> m]
Reply(k, c, req)    == [kind |-> k, ch |-> c, n |-> req]
Request(k, c, req)  == [method |-> k, ch |-> c, n |-> req]

NoHandler == [pc |-> "idle", ch |-> NoChannel, n |-> 0]
NoRx      == [pc |-> "idle", ch |-> NoChannel, conn |-> 0, msg |-> 0]
NoDrain   == [pc |-> "idle", ch |-> NoChannel, conn |-> 0, msg |-> 0]
NoCall    == [n |-> 0, state |-> "none"]

\* A frame handed to a WebSocket that is gone is lost: sendBinary and
\* sendUtf8Text report it and the server ignores the report.
Send(frame) == down' = IF wsOpen THEN Append(down, frame) ELSE down

-----------------------------------------------------------------------------
Init ==
    /\ written = [c \in Channels |-> 0]
    /\ writeQueue = [c \in Channels |-> <<>>]
    /\ doorbell = {}
    /\ sReady = {} /\ sBatch = {} /\ sCur = NoChannel
    /\ session = TRUE /\ subscribed = {}
    /\ handler = NoHandler
    /\ up = <<>> /\ down = <<>> /\ wsOpen = TRUE
    /\ readCallbacks = [c \in Channels |-> 0]
    /\ connects = [c \in Channels |-> 0]
    /\ queue = [e \in Entry |-> <<>>]
    /\ canceled = [e \in Entry |-> FALSE]
    /\ rx = NoRx
    /\ cReady = {} /\ cBatch = {} /\ cRetry = {} /\ ct = NoDrain
    /\ user = [c \in Channels |-> "idle"]
    /\ call = [c \in Channels |-> NoCall]
    /\ timeouts = 0
    /\ delivered = [c \in Channels |-> <<>>]

-----------------------------------------------------------------------------
(* The simulator: sv2cCosimserverEpTryPut -> WriteChannelPort::write ->     *)
(* TSQueue::push.  The queue's lock is released before the notifier runs.   *)

Write(c) ==
    /\ c \notin doorbell
    /\ written[c] < MaxWrites
    /\ written' = [written EXCEPT ![c] = @ + 1]
    /\ writeQueue' = [writeQueue EXCEPT ![c] = Append(@, written[c] + 1)]
    /\ doorbell' = doorbell \cup {c}
    /\ UNCHANGED <<serverVars, wireVars, rxVars, cReady, drainVars, userVars>>

RingDoorbell(c) ==
    /\ c \in doorbell
    /\ doorbell' = doorbell \ {c}
    /\ sReady' = sReady \cup {c}
    /\ UNCHANGED <<written, writeQueue, sBatch, sCur, session, subscribed,
                   handler, wireVars, rxVars, cReady, drainVars, userVars>>

-----------------------------------------------------------------------------
(* The server's transport thread: RpcServer::Impl::transportLoop.           *)

\* waitDrain swaps the whole dirty set out.
ServerWaitDrain ==
    /\ sCur = NoChannel /\ sBatch = {}
    /\ sReady # {}
    /\ sBatch' = sReady
    /\ sReady' = {}
    /\ UNCHANGED <<writerVars, writeQueue, sCur, session, subscribed, handler,
                   wireVars, rxVars, cReady, drainVars, userVars>>

\* The for loop goes through the batch in the order of a hash set.
ServerPick(c) ==
    /\ sCur = NoChannel
    /\ c \in sBatch
    /\ sBatch' = sBatch \ {c}
    /\ sCur' = c
    /\ UNCHANGED <<writerVars, writeQueue, sReady, session, subscribed, handler,
                   wireVars, rxVars, cReady, drainVars, userVars>>

\* Mutant: the subscription is not looked at again for each message.
ServerSend_NoRecheck(c) ==
    /\ sCur = c
    /\ writeQueue[c] # <<>>
    /\ writeQueue' = [writeQueue EXCEPT ![c] = Tail(@)]
    /\ Send(Data(c, Head(writeQueue[c])))
    /\ UNCHANGED <<writerVars, serverVars, up, wsOpen, rxVars, cReady,
                   drainVars, userVars>>

\* One iteration of the drain loop, under sessionMutex and subscribedMutex:
\* pop and send one message, or leave the channel.
ServerSend(c) ==
    /\ sCur = c
    /\ session /\ c \in subscribed
    /\ writeQueue[c] # <<>>
    /\ writeQueue' = [writeQueue EXCEPT ![c] = Tail(@)]
    /\ Send(Data(c, Head(writeQueue[c])))
    /\ UNCHANGED <<writerVars, serverVars, up, wsOpen, rxVars, cReady,
                   drainVars, userVars>>

\* Mutant: the message is popped before the subscription is looked at.
ServerLeave_PopsFirst(c) ==
    /\ sCur = c
    /\ ~session \/ c \notin subscribed \/ writeQueue[c] = <<>>
    /\ writeQueue' = [writeQueue EXCEPT ![c] = IF @ = <<>> THEN @ ELSE Tail(@)]
    /\ sCur' = NoChannel
    /\ UNCHANGED <<writerVars, sReady, sBatch, session, subscribed, handler,
                   wireVars, rxVars, cReady, drainVars, userVars>>

ServerLeave(c) ==
    /\ sCur = c
    /\ \/ ~session
       \/ c \notin subscribed
       \/ writeQueue[c] = <<>>
    /\ sCur' = NoChannel
    /\ UNCHANGED <<writerVars, writeQueue, sReady, sBatch, session, subscribed,
                   handler, wireVars, rxVars, cReady, drainVars, userVars>>

-----------------------------------------------------------------------------
(* The server's network thread.                                             *)

\* handleSubscribe, first half: record the subscription under the locks.
ServerSubscribe(c) ==
    /\ handler = NoHandler
    /\ up # <<>> /\ Head(up).method = "subscribe" /\ Head(up).ch = c
    /\ up' = Tail(up)
    /\ \/ /\ session
          /\ subscribed' = subscribed \cup {c}
          /\ handler' = [pc |-> "ack", ch |-> c, n |-> Head(up).n]
          /\ UNCHANGED down
       \/ /\ ~session
          /\ Send(Reply("error", c, Head(up).n))
          /\ UNCHANGED <<subscribed, handler>>
    /\ UNCHANGED <<writerVars, writeQueue, sReady, sBatch, sCur, session,
                   wsOpen, rxVars, cReady, drainVars, userVars>>

\* sendResult, once the locks are gone.
ServerSubscribeAck(c) ==
    /\ handler.pc = "ack" /\ handler.ch = c
    /\ Send(Reply("subscribed", c, handler.n))
    /\ handler' = [handler EXCEPT !.pc = "kick"]
    /\ UNCHANGED <<writerVars, writeQueue, sReady, sBatch, sCur, session,
                   subscribed, up, wsOpen, rxVars, cReady, drainVars, userVars>>

\* Mutant: subscribing does not flush what is already queued.
ServerSubscribeKick_NoFlush(c) ==
    /\ handler.pc = "kick" /\ handler.ch = c
    /\ handler' = NoHandler
    /\ UNCHANGED <<writerVars, writeQueue, sReady, sBatch, sCur, session,
                   subscribed, wireVars, rxVars, cReady, drainVars, userVars>>

\* readyIds.markReady: flush what was queued before the subscription.
ServerSubscribeKick(c) ==
    /\ handler.pc = "kick" /\ handler.ch = c
    /\ sReady' = sReady \cup {c}
    /\ handler' = NoHandler
    /\ UNCHANGED <<writerVars, writeQueue, sBatch, sCur, session, subscribed,
                   wireVars, rxVars, cReady, drainVars, userVars>>

\* handleUnsubscribe holds sessionMutex from the erase through the response.
ServerUnsubscribe(c) ==
    /\ handler = NoHandler
    /\ up # <<>> /\ Head(up).method = "unsubscribe" /\ Head(up).ch = c
    /\ up' = Tail(up)
    /\ subscribed' = subscribed \ {c}
    /\ Send(Reply(IF session /\ c \in subscribed THEN "unsubscribed" ELSE "error",
                  c, Head(up).n))
    /\ UNCHANGED <<writerVars, writeQueue, sReady, sBatch, sCur, session,
                   handler, wsOpen, rxVars, cReady, drainVars, userVars>>

\* onClose, on the same thread, after whatever it was handling.
ServerOnClose ==
    /\ ~wsOpen /\ session
    /\ handler = NoHandler
    /\ session' = FALSE
    /\ subscribed' = {}
    /\ UNCHANGED <<writerVars, writeQueue, sReady, sBatch, sCur, handler,
                   wireVars, rxVars, cReady, drainVars, userVars>>

-----------------------------------------------------------------------------
(* The WebSocket: frames in flight are lost with the connection.            *)

Drop ==
    /\ MaxDrops = 1
    /\ wsOpen
    /\ wsOpen' = FALSE
    /\ up' = <<>> /\ down' = <<>>
    /\ UNCHANGED <<writerVars, writeQueue, serverVars, rxVars, cReady,
                   drainVars, userVars>>

-----------------------------------------------------------------------------
(* The client's network thread.                                             *)

\* Mutant: the missing entry of an unregistered channel is not noticed.
ReceiveData_NoLookup(c) ==
    /\ rx = NoRx
    /\ down # <<>> /\ Head(down).kind = "data" /\ Head(down).ch = c
    /\ down' = Tail(down)
    /\ rx' = [pc |-> "push", ch |-> c, conn |-> readCallbacks[c],
              msg |-> Head(down).n]
    /\ UNCHANGED <<writerVars, writeQueue, serverVars, up, wsOpen, queue,
                   cReady, drainVars, userVars>>

\* handleBinaryFrame: look the channel up under readCallbacksMutex; a frame
\* for a channel without an entry is dropped with a warning.
ReceiveData(c) ==
    /\ rx = NoRx
    /\ down # <<>> /\ Head(down).kind = "data" /\ Head(down).ch = c
    /\ down' = Tail(down)
    /\ rx' = IF readCallbacks[c] = 0 THEN NoRx
             ELSE [pc |-> "push", ch |-> c, conn |-> readCallbacks[c],
                   msg |-> Head(down).n]
    /\ UNCHANGED <<writerVars, writeQueue, serverVars, up, wsOpen, queue,
                   cReady, drainVars, userVars>>

\* entry->queue.push: the entry is a shared_ptr copied out of the table.
PushFrame(c) ==
    /\ rx.pc = "push" /\ rx.ch = c
    /\ queue' = [queue EXCEPT ![<<c, rx.conn>>] = Append(@, rx.msg)]
    /\ rx' = [rx EXCEPT !.pc = "ring"]
    /\ UNCHANGED <<writerVars, writeQueue, serverVars, wireVars, cReady,
                   drainVars, userVars>>

RingClient(c) ==
    /\ rx.pc = "ring" /\ rx.ch = c
    /\ cReady' = cReady \cup {c}
    /\ rx' = NoRx
    /\ UNCHANGED <<writerVars, writeQueue, serverVars, wireVars, queue,
                   drainVars, userVars>>

\* Mutant: a response is taken for the answer to whatever call is pending.
ReceiveReply_AnyId(c) ==
    /\ rx = NoRx
    /\ down # <<>> /\ Head(down).kind \in ReplyKind /\ Head(down).ch = c
    /\ down' = Tail(down)
    /\ call' = IF call[c].state = "waiting"
               THEN [call EXCEPT ![c].state =
                         IF Head(down).kind = "error" THEN "error" ELSE "ok"]
               ELSE call
    /\ UNCHANGED <<writerVars, writeQueue, serverVars, up, wsOpen, rxVars,
                   cReady, drainVars, readCallbacks, connects, canceled, user,
                   timeouts>>

\* handleControlFrame: a response completes the pending request of its id; a
\* response nobody waits for any more is ignored.
ReceiveReply(c) ==
    /\ rx = NoRx
    /\ down # <<>> /\ Head(down).kind \in ReplyKind /\ Head(down).ch = c
    /\ down' = Tail(down)
    /\ call' = IF call[c] = [n |-> Head(down).n, state |-> "waiting"]
               THEN [call EXCEPT ![c].state =
                         IF Head(down).kind = "error" THEN "error" ELSE "ok"]
               ELSE call
    /\ UNCHANGED <<writerVars, writeQueue, serverVars, up, wsOpen, rxVars,
                   cReady, drainVars, readCallbacks, connects, canceled, user,
                   timeouts>>

\* Mutant: the Close event fails the pending subscribes only.
ClientOnClose_SubscribesOnly ==
    /\ rx = NoRx
    /\ ~wsOpen
    /\ \E c \in Channels : call[c].state = "waiting"
    /\ call' = [c \in Channels |->
                   IF call[c].state = "waiting" /\ user[c] = "subscribing"
                   THEN [call[c] EXCEPT !.state = "error"] ELSE call[c]]
    /\ UNCHANGED <<writerVars, writeQueue, serverVars, wireVars, rxVars, cReady,
                   drainVars, readCallbacks, connects, canceled, user, timeouts>>

\* The Close event fails every pending promise (failAllPending).
ClientOnClose ==
    /\ rx = NoRx
    /\ ~wsOpen
    /\ \E c \in Channels : call[c].state = "waiting"
    /\ call' = [c \in Channels |->
                   IF call[c].state = "waiting"
                   THEN [call[c] EXCEPT !.state = "error"] ELSE call[c]]
    /\ UNCHANGED <<writerVars, writeQueue, serverVars, wireVars, rxVars, cReady,
                   drainVars, readCallbacks, connects, canceled, user, timeouts>>

-----------------------------------------------------------------------------
(* The client's transport thread: RpcClient::Impl::transportLoop.           *)

\* Mutant: the retry set is cleared without joining the batch.
ClientWaitDrain_DropsRetries ==
    /\ ct = NoDrain /\ cBatch = {}
    /\ cReady \cup cRetry # {}
    /\ cBatch' = cReady
    /\ cReady' = {}
    /\ cRetry' = {}
    /\ UNCHANGED <<writerVars, writeQueue, serverVars, wireVars, rxVars, ct,
                   delivered, userVars>>

\* waitDrain; with a non-empty retry set it returns after a 1 ms backoff even
\* if nothing is ready.
ClientWaitDrain ==
    /\ ct = NoDrain /\ cBatch = {}
    /\ cReady \cup cRetry # {}
    /\ cBatch' = cReady \cup cRetry
    /\ cReady' = {}
    /\ cRetry' = {}
    /\ UNCHANGED <<writerVars, writeQueue, serverVars, wireVars, rxVars, ct,
                   delivered, userVars>>

\* Copy the entry out of readCallbacks, or go on to the next id.
ClientPick(c) ==
    /\ ct = NoDrain
    /\ c \in cBatch
    /\ cBatch' = cBatch \ {c}
    /\ ct' = IF readCallbacks[c] = 0 THEN NoDrain
             ELSE [pc |-> "check", ch |-> c, conn |-> readCallbacks[c],
                   msg |-> 0]
    /\ UNCHANGED <<writerVars, writeQueue, serverVars, wireVars, rxVars, cReady,
                   cRetry, delivered, userVars>>

\* The loop condition reads entry->canceled.
ClientCheck(c) ==
    /\ ct.pc = "check" /\ ct.ch = c
    /\ ct' = IF canceled[<<c, ct.conn>>] THEN NoDrain
             ELSE [ct EXCEPT !.pc = "peek"]
    /\ UNCHANGED <<writerVars, writeQueue, serverVars, wireVars, rxVars, cReady,
                   cBatch, cRetry, delivered, userVars>>

\* TSQueue::pop(callback) copies the front and unlocks the queue.
ClientPeek(c) ==
    /\ ct.pc = "peek" /\ ct.ch = c
    /\ ct' = IF queue[<<c, ct.conn>>] = <<>> THEN NoDrain
             ELSE [ct EXCEPT !.pc = "call",
                             !.msg = Head(queue[<<c, ct.conn>>])]
    /\ UNCHANGED <<writerVars, writeQueue, serverVars, wireVars, rxVars, cReady,
                   cBatch, cRetry, delivered, userVars>>

\* The read callback returned true: the message leaves the queue.
ClientConsume(c) ==
    /\ ct.pc = "call" /\ ct.ch = c
    /\ delivered' = [delivered EXCEPT ![c] = Append(@, ct.msg)]
    /\ queue' = [queue EXCEPT ![<<c, ct.conn>>] = Tail(@)]
    /\ ct' = [ct EXCEPT !.pc = "check", !.msg = 0]
    /\ UNCHANGED <<writerVars, writeQueue, serverVars, wireVars, rx, cReady,
                   cBatch, cRetry, userVars>>

\* Mutant: a refused channel is not remembered.
ClientRefuse_NoRetry(c) ==
    /\ ct.pc = "call" /\ ct.ch = c
    /\ ct' = NoDrain
    /\ UNCHANGED <<writerVars, writeQueue, serverVars, wireVars, rxVars, cReady,
                   cBatch, cRetry, delivered, userVars>>

\* Mutant: a refused message is tried again at once.
ClientRefuse_Spins(c) ==
    /\ ct.pc = "call" /\ ct.ch = c
    /\ ct' = [ct EXCEPT !.pc = "check", !.msg = 0]
    /\ UNCHANGED <<writerVars, writeQueue, serverVars, wireVars, rxVars, cReady,
                   cBatch, cRetry, delivered, userVars>>

\* It returned false: the message stays and the id joins the retry set.
ClientRefuse(c) ==
    /\ ct.pc = "call" /\ ct.ch = c
    /\ cRetry' = cRetry \cup {c}
    /\ ct' = NoDrain
    /\ UNCHANGED <<writerVars, writeQueue, serverVars, wireVars, rxVars, cReady,
                   cBatch, delivered, userVars>>

-----------------------------------------------------------------------------
(* The thread that owns the port of a channel: connectClientReceiver and   *)
(* ReadChannelConnectionImpl::disconnect.                                  *)

\* connectClientReceiver registers the callback before it subscribes.
Register(c) ==
    /\ user[c] = "idle"
    /\ connects[c] < MaxConnects
    /\ connects' = [connects EXCEPT ![c] = @ + 1]
    /\ readCallbacks' = [readCallbacks EXCEPT ![c] = connects[c] + 1]
    /\ user' = [user EXCEPT ![c] = "registered"]
    /\ UNCHANGED <<writerVars, writeQueue, serverVars, wireVars, rxVars, cReady,
                   drainVars, canceled, call, timeouts>>

\* RpcClient::Impl::call: a fresh id enters `pending` and the request is sent;
\* if the send fails the call throws.
StartCall(c, method) ==
    /\ call' = [call EXCEPT ![c] = [n |-> @.n + 1,
                                    state |-> IF wsOpen THEN "waiting" ELSE "error"]]
    /\ up' = IF wsOpen THEN Append(up, Request(method, c, call[c].n + 1)) ELSE up

Subscribe(c) ==
    /\ user[c] = "registered"
    /\ StartCall(c, "subscribe")
    /\ user' = [user EXCEPT ![c] = "subscribing"]
    /\ UNCHANGED <<writerVars, writeQueue, serverVars, down, wsOpen, rxVars,
                   cReady, drainVars, readCallbacks, connects, canceled,
                   timeouts>>

SubscribeReturns(c) ==
    /\ user[c] = "subscribing"
    /\ call[c].state = "ok"
    /\ user' = [user EXCEPT ![c] = "connected"]
    /\ UNCHANGED <<writerVars, writeQueue, serverVars, wireVars, rxVars, cReady,
                   drainVars, readCallbacks, connects, canceled, call, timeouts>>

\* The exception path erases the table entry and rethrows; the entry is not
\* marked canceled.
SubscribeThrows(c) ==
    /\ user[c] = "subscribing"
    /\ call[c].state \in {"error", "timedout"}
    /\ readCallbacks' = [readCallbacks EXCEPT ![c] = 0]
    /\ user' = [user EXCEPT ![c] = "idle"]
    /\ UNCHANGED <<writerVars, writeQueue, serverVars, wireVars, rxVars, cReady,
                   drainVars, connects, canceled, call, timeouts>>

\* unregisterCallback: erase under the lock, then set the flag, then nudge.
Unregister(c) ==
    /\ user[c] = "connected"
    /\ readCallbacks' = [readCallbacks EXCEPT ![c] = 0]
    /\ user' = [user EXCEPT ![c] = "erased"]
    /\ UNCHANGED <<writerVars, writeQueue, serverVars, wireVars, rxVars, cReady,
                   drainVars, connects, canceled, call, timeouts>>

\* Mutant: disconnecting also empties the queue of the entry.
CancelEntry_Clears(c) ==
    /\ user[c] = "erased"
    /\ canceled' = [canceled EXCEPT ![<<c, connects[c]>>] = TRUE]
    /\ queue' = [queue EXCEPT ![<<c, connects[c]>>] = <<>>]
    /\ user' = [user EXCEPT ![c] = "canceled"]
    /\ UNCHANGED <<writerVars, writeQueue, serverVars, wireVars, rx, cReady,
                   drainVars, readCallbacks, connects, call, timeouts>>

CancelEntry(c) ==
    /\ user[c] = "erased"
    /\ canceled' = [canceled EXCEPT ![<<c, connects[c]>>] = TRUE]
    /\ user' = [user EXCEPT ![c] = "canceled"]
    /\ UNCHANGED <<writerVars, writeQueue, serverVars, wireVars, rxVars, cReady,
                   drainVars, readCallbacks, connects, call, timeouts>>

Nudge(c) ==
    /\ user[c] = "canceled"
    /\ cReady' = cReady \cup {c}
    /\ user' = [user EXCEPT ![c] = "nudged"]
    /\ UNCHANGED <<writerVars, writeQueue, serverVars, wireVars, rxVars,
                   drainVars, readCallbacks, connects, canceled, call, timeouts>>

\* unsubscribe is skipped when the WebSocket is no longer open.
Unsubscribe(c) ==
    /\ user[c] = "nudged"
    /\ wsOpen
    /\ StartCall(c, "unsubscribe")
    /\ user' = [user EXCEPT ![c] = "unsubscribing"]
    /\ UNCHANGED <<writerVars, writeQueue, serverVars, down, wsOpen, rxVars,
                   cReady, drainVars, readCallbacks, connects, canceled,
                   timeouts>>

\* disconnect() returns; an exception of unsubscribe is only logged.
DisconnectReturns(c) ==
    /\ \/ user[c] = "nudged" /\ ~wsOpen
       \/ user[c] = "unsubscribing" /\ call[c].state # "waiting"
    /\ user' = [user EXCEPT ![c] = "idle"]
    /\ UNCHANGED <<writerVars, writeQueue, serverVars, wireVars, rxVars, cReady,
                   drainVars, readCallbacks, connects, canceled, call, timeouts>>

\* future.wait_for(kCallTimeout) expires and the pending slot is erased.
CallTimeout(c) ==
    /\ call[c].state = "waiting"
    /\ timeouts < MaxTimeouts
    /\ timeouts' = timeouts + 1
    /\ call' = [call EXCEPT ![c].state = "timedout"]
    /\ UNCHANGED <<writerVars, writeQueue, serverVars, wireVars, rxVars, cReady,
                   drainVars, readCallbacks, connects, canceled, user>>

-----------------------------------------------------------------------------
ServerTransport == ServerWaitDrain
                   \/ \E c \in Channels : ServerPick(c) \/ ServerSend(c) \/ ServerLeave(c)

ServerNetwork == ServerOnClose
                 \/ \E c \in Channels : \/ ServerSubscribe(c)
                                        \/ ServerSubscribeAck(c)
                                        \/ ServerSubscribeKick(c)
                                        \/ ServerUnsubscribe(c)

ClientNetwork == ClientOnClose
                 \/ \E c \in Channels : \/ ReceiveData(c) \/ PushFrame(c)
                                        \/ RingClient(c) \/ ReceiveReply(c)

ClientTransport == ClientWaitDrain
                   \/ \E c \in Channels : \/ ClientPick(c) \/ ClientCheck(c)
                                          \/ ClientPeek(c) \/ ClientConsume(c)
                                          \/ ClientRefuse(c)

\* The steps of a port's owner once it has entered the runtime.
UserInside(c) == \/ Subscribe(c) \/ SubscribeReturns(c) \/ SubscribeThrows(c)
                 \/ CancelEntry(c) \/ Nudge(c) \/ Unsubscribe(c)
                 \/ DisconnectReturns(c)

User(c) == Register(c) \/ Unregister(c) \/ UserInside(c) \/ CallTimeout(c)

Next ==
    \/ \E c \in Channels : Write(c) \/ RingDoorbell(c) \/ User(c)
    \/ ServerTransport
    \/ ServerNetwork
    \/ ClientNetwork
    \/ ClientTransport
    \/ Drop

Spec == Init /\ [][Next]_vars

\* Threads that are not blocked run; the design's puts, the user's connects,
\* disconnects and time-outs, and the loss of the connection are not owed.
\* A read callback may refuse a message, but not for ever (Ports.h: "should be
\* tried again at some point in the future").
Fairness ==
    /\ \A c \in Channels : WF_vars(RingDoorbell(c)) /\ WF_vars(UserInside(c))
    /\ WF_vars(ServerTransport)
    /\ WF_vars(ServerNetwork)
    /\ WF_vars(ClientNetwork)
    /\ WF_vars(ClientTransport)
    /\ \A c \in Channels : SF_vars(ClientConsume(c))

FairSpec == Spec /\ Fairness

-----------------------------------------------------------------------------
(* Properties *)

FrameKind == ReplyKind \cup {"data"}
Requests  == [method : {"subscribe", "unsubscribe"}, ch : Channels, n : Nat]
Frames    == [kind : FrameKind, ch : Channels, n : Nat]

\* A thread that is inside a function works for one entry of the table.
Working(places) == [pc : places, ch : Channels, conn : Conn, msg : Nat]

QueueTypeOK ==
    /\ written \in [Channels -> Nat]
    /\ writeQueue \in [Channels -> Seq(Nat)]
    /\ doorbell \subseteq Channels

ServerTypeOK ==
    /\ sReady \subseteq Channels /\ sBatch \subseteq Channels
    /\ sCur \in Channels \cup {NoChannel}
    /\ session \in BOOLEAN
    /\ subscribed \subseteq Channels
    /\ handler \in {NoHandler} \cup [pc : {"ack", "kick"}, ch : Channels, n : Nat]

WireTypeOK ==
    /\ up \in Seq(Requests)
    /\ down \in Seq(Frames)
    /\ wsOpen \in BOOLEAN

NetworkTypeOK ==
    /\ queue \in [Entry -> Seq(Nat)]
    /\ rx \in {NoRx} \cup Working({"push", "ring"})

TransportTypeOK ==
    /\ cReady \subseteq Channels /\ cBatch \subseteq Channels
    /\ cRetry \subseteq Channels
    /\ ct \in {NoDrain} \cup Working({"check", "peek", "call"})
    /\ delivered \in [Channels -> Seq(Nat)]

UserTypeOK ==
    /\ readCallbacks \in [Channels -> 0..MaxConnects]
    /\ connects \in [Channels -> 0..MaxConnects]
    /\ canceled \in [Entry -> BOOLEAN]
    /\ user \in [Channels -> {"idle", "registered", "subscribing", "connected",
                              "erased", "canceled", "nudged", "unsubscribing"}]
    /\ call \in [Channels -> [n : Nat, state : {"none", "waiting", "ok", "error",
                                                "timedout"}]]
    /\ timeouts \in Nat

\* Types of the variables, part by part.
TypeOK == /\ QueueTypeOK /\ ServerTypeOK /\ WireTypeOK
          /\ NetworkTypeOK /\ TransportTypeOK /\ UserTypeOK

\* Server side, TSQueue notifier + ReadyIdSet + transportLoop: a subscribed
\* channel with a queued message never waits for a doorbell that nobody is
\* going to ring.
NoLostDoorbell ==
    \A c \in subscribed :
        writeQueue[c] # <<>> =>
            \/ c \in sReady \cup sBatch \/ sCur = c
            \/ c \in doorbell
            \/ handler.pc # "idle" /\ handler.ch = c

\* Client side: the same of a registered callback whose queue is not empty,
\* with the retry set in place of the doorbell after a refusal.
NoLostWakeup ==
    \A c \in Channels : \A k \in Conn :
        readCallbacks[c] = k /\ queue[<<c, k>>] # <<>> =>
            \/ c \in cReady \cup cBatch \cup cRetry
            \/ ct.pc # "idle" /\ ct.ch = c /\ ct.conn = k
            \/ rx.pc = "ring" /\ rx.ch = c

\* TSQueue::pop(callback) copies the front, unlocks, and later pops the front:
\* what it pops is what it showed to the callback.
PopsWhatItShowed ==
    ct.pc = "call" =>
        /\ queue[<<ct.ch, ct.conn>>] # <<>>
        /\ Head(queue[<<ct.ch, ct.conn>>]) = ct.msg

\* RpcServer.cpp:775-778: the unsubscribe-ack is the last to_client frame on
\* its channel, until the client asks for the channel again.
UnsubscribeAckIsLast ==
    \A i, j \in 1..Len(down) :
        /\ i < j
        /\ down[i].kind = "unsubscribed"
        /\ down[i].n = call[down[i].ch].n
        /\ down[j].kind = "data"
        => down[j].ch # down[i].ch

\* connectClientReceiver returned, so the server has the subscription, whatever
\* answers to earlier, timed-out requests are still on their way.
ConnectedIsSubscribed ==
    \A c \in Channels : user[c] = "connected" /\ session => c \in subscribed

\* A message that waits in the server's queue while the port is connected is
\* consumed by the read callback, unless the port is disconnected or the
\* connection lost.
Queued(c, m) == \E i \in 1..Len(writeQueue[c]) : writeQueue[c][i] = m
Consumed(c, m) == \E i \in 1..Len(delivered[c]) : delivered[c][i] = m

EventuallyDelivered ==
    \A c \in Channels, m \in Message :
        (Queued(c, m) /\ user[c] = "connected")
            ~> (Consumed(c, m) \/ user[c] # "connected" \/ ~wsOpen)

\* No caller of subscribe or unsubscribe hangs, even when the connection is
\* lost while it waits and no time-out fires (failAllPending).
CallsReturn ==
    \A c \in Channels : call[c].state = "waiting" ~> call[c].state # "waiting"

=============================================================================
