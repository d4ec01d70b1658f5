------------------------------ MODULE RpcSession ------------------------------
(***************************************************************************)
(* The life of the connections of RpcServer: the single-client rule, the   *)
(* hello handshake that waits for the manifest, and stop().                *)
(*                                                                         *)
(* The simulator's thread registers ports, sets the manifest and stops the *)
(* server.  IXWebSocket gives every connection a thread of its own, which  *)
(* runs onClientMessage for Open, each Message and Close in turn.  On the  *)
(* other side of each connection a host process runs the RpcClient         *)
(* constructor on one thread and onMessage on another.                     *)
(*                                                                         *)
(* A connection is used once; a client that tries again is another one.    *)
(***************************************************************************)
EXTENDS Naturals, Sequences, FiniteSets

CONSTANTS
    Conns,         \* the connections clients open to the server
    MaxLive,       \* bound: connections that exist at the same time
    MaxChannels,   \* bound: ports the simulator registers
    MaxData,       \* bound: messages the transport thread sends
    MaxFailures    \* bound: connections lost, and hello calls timed out

NoConn == "no connection"

ASSUME SessionAssumption ==
    /\ NoConn \notin Conns
    /\ {MaxLive, MaxChannels, MaxData, MaxFailures} \subseteq Nat

VARIABLES
    conn,          \* per connection, where the server's thread for it is
    closing,       \* connections on which the server has called ws.close
    session,       \* the connection of ClientSession::ws, if there is one
    subscribed,    \* ClientSession::subscribed, of the one to_client channel
    manifestReady, \* Impl::manifestReady
    nextChannelId, \* Impl::nextChannelId
    stop,          \* where the simulator's thread is in Impl::stop
    toServer,      \* per connection, the frames under way to the server
    toClient,      \* per connection, the frames under way to the client
    sent,          \* messages sent by the transport thread so far
    failures,      \* lost connections and time-outs so far
    client,        \* per connection, where the RpcClient constructor is
    wsOpen,        \* connections whose client side is open
    serverError,   \* connections whose client has a lastServerError
    thrown,        \* per connection, what the constructor threw
    table,         \* per connection, the number of channels hello listed
    asked,         \* connections on which the client sent a subscribe
    tableAtReady   \* history: channels when the manifest became ready

serverVars  == <<conn, closing, session, subscribed>>
hostVars    == <<manifestReady, nextChannelId, stop, tableAtReady>>
wireVars    == <<toServer, toClient>>
clientVars  == <<client, wsOpen, serverError, thrown, table, asked>>
boundVars   == <<sent, failures>>
vars == <<conn, closing, session, subscribed, manifestReady, nextChannelId,
          stop, toServer, toClient, sent, failures, client, wsOpen,
          serverError, thrown, table, asked, tableAtReady>>

-----------------------------------------------------------------------------
Frame(kind, n) == [kind |-> kind, n |-> n]

Live(c) == conn[c] \notin {"none", "closed"}

\* A server-side send: nothing goes out on a WebSocket that is closing, and
\* nothing arrives at a client that is gone.
Sends(c, frames) ==
    toClient' = IF c \in closing \/ c \notin wsOpen THEN toClient
                ELSE [toClient EXCEPT ![c] = @ \o frames]

\* A client-side send, to a server that may be done with the connection.
Ships(c, frame) ==
    toServer' = IF Live(c) THEN [toServer EXCEPT ![c] = Append(@, frame)]
                ELSE toServer

\* The next frame the server's thread for c dispatches.
Arrives(c, kind) ==
    /\ conn[c] = "serving"
    /\ toServer[c] # <<>> /\ Head(toServer[c]) = kind
    /\ toServer' = [toServer EXCEPT ![c] = Tail(@)]

\* The next frame the client's network thread dispatches.
Receives(c, kind) ==
    /\ c \in wsOpen
    /\ toClient[c] # <<>> /\ Head(toClient[c]).kind = kind
    /\ toClient' = [toClient EXCEPT ![c] = Tail(@)]

Init ==
    /\ conn = [c \in Conns |-> "none"]
    /\ closing = {} /\ session = NoConn /\ subscribed = FALSE
    /\ manifestReady = FALSE /\ nextChannelId = 0 /\ stop = "running"
    /\ toServer = [c \in Conns |-> <<>>]
    /\ toClient = [c \in Conns |-> <<>>]
    /\ sent = 0 /\ failures = 0
    /\ client = [c \in Conns |-> "idle"]
    /\ wsOpen = {} /\ serverError = {}
    /\ thrown = [c \in Conns |-> "nothing"]
    /\ table = [c \in Conns |-> 0]
    /\ asked = {} /\ tableAtReady = 0

-----------------------------------------------------------------------------
(* The simulator's thread. *)

\* registerReadPort and registerWritePort: ids are dense from 0.
RegisterPort ==
    /\ stop = "running"
    /\ nextChannelId < MaxChannels
    /\ nextChannelId' = nextChannelId + 1
    /\ UNCHANGED <<serverVars, manifestReady, stop, tableAtReady, wireVars,
                   clientVars, boundVars>>

SetManifest ==
    /\ stop = "running"
    /\ ~manifestReady
    /\ manifestReady' = TRUE
    /\ tableAtReady' = nextChannelId
    /\ UNCHANGED <<serverVars, nextChannelId, stop, wireVars, clientVars,
                   boundVars>>

\* stop(): the ports are disconnected and the transport thread is joined.
StopTransport ==
    /\ stop = "running"
    /\ stop' = "transport"
    /\ UNCHANGED <<serverVars, manifestReady, nextChannelId, tableAtReady,
                   wireVars, clientVars, boundVars>>

\* Mutant: the connections are joined without being closed.
StopServer_KeepsConnections ==
    /\ stop = "transport"
    /\ stop' = "server"
    /\ UNCHANGED <<serverVars, manifestReady, nextChannelId, tableAtReady,
                   wireVars, clientVars, boundVars>>

\* server->stop() closes every connection ...
StopServer ==
    /\ stop = "transport"
    /\ stop' = "server"
    /\ closing' = {c \in Conns : Live(c)}
    /\ toClient' = [c \in Conns |->
                       IF Live(c) /\ c \notin closing /\ c \in wsOpen
                       THEN Append(toClient[c], Frame("close", 0))
                       ELSE toClient[c]]
    /\ UNCHANGED <<conn, session, subscribed, manifestReady, nextChannelId,
                   tableAtReady, toServer, clientVars, boundVars>>

\* ... and joins their threads; then the session goes.
StopReturns ==
    /\ stop = "server"
    /\ \A c \in Conns : ~Live(c)
    /\ stop' = "stopped"
    /\ session' = NoConn
    /\ UNCHANGED <<conn, closing, subscribed, manifestReady, nextChannelId, tableAtReady,
                   wireVars, clientVars, boundVars>>

-----------------------------------------------------------------------------
(* The transport thread: one iteration of the drain loop. *)

TransportSend ==
    /\ stop = "running"
    /\ session # NoConn /\ subscribed
    /\ sent < MaxData
    /\ sent' = sent + 1
    /\ Sends(session, <<Frame("data", 0)>>)
    /\ UNCHANGED <<serverVars, hostVars, toServer, clientVars, failures>>

-----------------------------------------------------------------------------
(* The server's thread for connection c. *)

\* Mutant: a new session starts with the subscriptions of the old one.
Accept_KeepsSubscriptions(c) ==
    /\ conn[c] = "open"
    /\ session = NoConn
    /\ conn' = [conn EXCEPT ![c] = "serving"]
    /\ session' = c
    /\ UNCHANGED <<closing, subscribed, hostVars, wireVars, clientVars, boundVars>>

\* Open: the first client gets the session, another one server_busy and 1013.
Accept(c) ==
    /\ conn[c] = "open"
    /\ session = NoConn
    /\ conn' = [conn EXCEPT ![c] = "serving"]
    /\ session' = c /\ subscribed' = FALSE
    /\ UNCHANGED <<closing, hostVars, wireVars, clientVars, boundVars>>

Reject(c) ==
    /\ conn[c] = "open"
    /\ session # NoConn
    /\ conn' = [conn EXCEPT ![c] = "serving"]
    /\ Sends(c, <<Frame("busy", 0), Frame("close", 0)>>)
    /\ closing' = closing \cup {c}
    /\ UNCHANGED <<session, subscribed, hostVars, toServer, clientVars,
                   boundVars>>

\* handleHello waits on manifestReadyCV, keeping the connection's thread.
Hello(c) ==
    /\ Arrives(c, "hello")
    /\ conn' = [conn EXCEPT ![c] = "hello"]
    /\ UNCHANGED <<closing, session, subscribed, hostVars, toClient, clientVars,
                   boundVars>>

\* Mutant: hello does not wait for the manifest.
AnswerHello_NoWait(c) ==
    /\ conn[c] = "hello"
    /\ conn' = [conn EXCEPT ![c] = "serving"]
    /\ Sends(c, <<Frame("hello", nextChannelId)>>)
    /\ UNCHANGED <<closing, session, subscribed, hostVars, toServer, clientVars,
                   boundVars>>

\* The response lists the channels registered by now.
AnswerHello(c) ==
    /\ conn[c] = "hello"
    /\ manifestReady
    /\ conn' = [conn EXCEPT ![c] = "serving"]
    /\ Sends(c, <<Frame("hello", nextChannelId)>>)
    /\ UNCHANGED <<closing, session, subscribed, hostVars, toServer, clientVars,
                   boundVars>>

\* handleSubscribe: the subscription goes to whatever session there is (the
\* set of a session that is gone is never read again).
HandleSubscribe(c) ==
    /\ Arrives(c, "subscribe")
    /\ subscribed' = (subscribed \/ session # NoConn)
    /\ Sends(c, <<Frame("reply", 0)>>)
    /\ UNCHANGED <<conn, closing, session, hostVars, clientVars, boundVars>>

\* Mutant: the session outlives its connection.
OnClose_KeepsSession(c) ==
    /\ conn[c] = "serving"
    /\ c \in closing \/ (toServer[c] # <<>> /\ Head(toServer[c]) = "close")
    /\ conn' = [conn EXCEPT ![c] = "closed"]
    /\ closing' = closing \ {c}
    /\ toServer' = [toServer EXCEPT ![c] = <<>>]
    /\ UNCHANGED <<session, subscribed, hostVars, toClient, clientVars, boundVars>>

\* Close, of any connection: onClose resets the session, and the thread and
\* its WebSocket are gone.  A close the server began needs no frame.
OnClose(c) ==
    /\ conn[c] = "serving"
    /\ c \in closing \/ (toServer[c] # <<>> /\ Head(toServer[c]) = "close")
    /\ conn' = [conn EXCEPT ![c] = "closed"]
    /\ closing' = closing \ {c}
    /\ toServer' = [toServer EXCEPT ![c] = <<>>]
    /\ session' = NoConn
    /\ UNCHANGED <<subscribed, hostVars, toClient, clientVars, boundVars>>

-----------------------------------------------------------------------------
(* The client: RpcClient::Impl::Impl and onMessage. *)

Connect(c) ==
    /\ client[c] = "idle"
    /\ stop \in {"running", "transport"}
    /\ Cardinality({d \in Conns : Live(d)}) < MaxLive
    /\ client' = [client EXCEPT ![c] = "opening"]
    /\ wsOpen' = wsOpen \cup {c}
    /\ conn' = [conn EXCEPT ![c] = "open"]
    /\ UNCHANGED <<closing, session, subscribed, hostVars, wireVars, serverError,
                   thrown, table, asked, boundVars>>

\* The constructor wakes on openCV some time after the Open event and calls
\* hello; if the WebSocket is closed by then, the send fails and call throws.
SendHello(c) ==
    /\ client[c] = "opening"
    /\ \/ /\ c \in wsOpen
          /\ Ships(c, "hello")
          /\ client' = [client EXCEPT ![c] = "hello"]
          /\ UNCHANGED thrown
       \/ /\ c \notin wsOpen
          /\ client' = [client EXCEPT ![c] = "failed"]
          /\ thrown' = [thrown EXCEPT ![c] = "failed to send hello"]
          /\ UNCHANGED toServer
    /\ UNCHANGED <<serverVars, hostVars, toClient, wsOpen, serverError, table,
                   asked, boundVars>>

\* handleControlFrame fulfils the promise if the call still waits for it, and
\* the constructor fills its channel table from the answer.
ReceiveHello(c) ==
    /\ Receives(c, "hello")
    /\ IF client[c] = "hello"
       THEN /\ client' = [client EXCEPT ![c] = "ready"]
            /\ table' = [table EXCEPT ![c] = Head(toClient[c]).n]
       ELSE UNCHANGED <<client, table>>
    /\ UNCHANGED <<serverVars, hostVars, toServer, wsOpen, serverError, thrown,
                   asked, boundVars>>

\* The unsolicited error is kept for the Close event that follows it.
ReceiveBusy(c) ==
    /\ Receives(c, "busy")
    /\ serverError' = serverError \cup {c}
    /\ UNCHANGED <<serverVars, hostVars, toServer, client, wsOpen, thrown, table,
                   asked, boundVars>>

ReceiveOther(c) ==
    /\ \E kind \in {"reply", "data"} : Receives(c, kind)
    /\ UNCHANGED <<serverVars, hostVars, toServer, clientVars, boundVars>>

\* Mutant: Close leaves the pending calls alone.
ReceiveClose_KeepsPending(c) ==
    /\ Receives(c, "close")
    /\ wsOpen' = wsOpen \ {c}
    /\ Ships(c, "close")
    /\ UNCHANGED <<serverVars, hostVars, client, thrown, serverError, table, asked,
                   boundVars>>

\* Close: failAllPending, with the server's words if there are any.
ReceiveClose(c) ==
    /\ Receives(c, "close")
    /\ wsOpen' = wsOpen \ {c}
    /\ Ships(c, "close")
    /\ IF client[c] = "hello"
       THEN /\ client' = [client EXCEPT ![c] = "failed"]
            /\ thrown' = [thrown EXCEPT ![c] =
                             IF c \in serverError THEN "server busy"
                             ELSE "websocket closed"]
       ELSE UNCHANGED <<client, thrown>>
    /\ UNCHANGED <<serverVars, hostVars, serverError, table, asked, boundVars>>

\* kCallTimeout runs out before the manifest is set.
HelloTimeout(c) ==
    /\ client[c] = "hello"
    /\ failures < MaxFailures
    /\ failures' = failures + 1
    /\ client' = [client EXCEPT ![c] = "failed"]
    /\ thrown' = [thrown EXCEPT ![c] = "timed out"]
    /\ UNCHANGED <<serverVars, hostVars, wireVars, wsOpen, serverError, table,
                   asked, sent>>

ClientSubscribe(c) ==
    /\ client[c] = "ready" /\ c \in wsOpen
    /\ c \notin asked
    /\ asked' = asked \cup {c}
    /\ Ships(c, "subscribe")
    /\ UNCHANGED <<serverVars, hostVars, toClient, client, wsOpen, serverError,
                   thrown, table, boundVars>>

\* Mutant: the RpcClient goes without ws.stop().
Leave_NoStop(c) ==
    /\ client[c] \in {"ready", "failed"}
    /\ client' = [client EXCEPT ![c] = "left"]
    /\ toClient' = [toClient EXCEPT ![c] = <<>>]
    /\ wsOpen' = wsOpen \ {c} /\ serverError' = serverError \ {c}
    /\ thrown' = [thrown EXCEPT ![c] = "nothing"]
    /\ table' = [table EXCEPT ![c] = 0]
    /\ asked' = asked \ {c}
    /\ UNCHANGED <<serverVars, hostVars, toServer, boundVars>>

\* The destructor, or the end of a constructor that threw: ws.stop(), and the
\* RpcClient is gone with all it held.
Leave(c) ==
    /\ client[c] \in {"ready", "failed"}
    /\ client' = [client EXCEPT ![c] = "left"]
    /\ IF c \in wsOpen THEN Ships(c, "close") ELSE UNCHANGED toServer
    /\ toClient' = [toClient EXCEPT ![c] = <<>>]
    /\ wsOpen' = wsOpen \ {c} /\ serverError' = serverError \ {c}
    /\ thrown' = [thrown EXCEPT ![c] = "nothing"]
    /\ table' = [table EXCEPT ![c] = 0]
    /\ asked' = asked \ {c}
    /\ UNCHANGED <<serverVars, hostVars, boundVars>>

-----------------------------------------------------------------------------
(* The connection is lost, with the frames under way; each side is told. *)

Lose(c) ==
    /\ c \in wsOpen /\ Live(c)
    /\ failures < MaxFailures
    /\ failures' = failures + 1
    /\ closing' = closing \cup {c}
    /\ toServer' = [toServer EXCEPT ![c] = <<"close">>]
    /\ toClient' = [toClient EXCEPT ![c] = <<Frame("close", 0)>>]
    /\ UNCHANGED <<conn, session, subscribed, hostVars, clientVars, sent>>

-----------------------------------------------------------------------------
Simulator == \/ RegisterPort \/ SetManifest
             \/ StopTransport \/ StopServer \/ StopReturns

ServerThread(c) == \/ Accept(c) \/ Reject(c) \/ Hello(c) \/ AnswerHello(c)
                   \/ HandleSubscribe(c) \/ OnClose(c)

ClientNetwork(c) == \/ ReceiveHello(c) \/ ReceiveBusy(c) \/ ReceiveOther(c)
                    \/ ReceiveClose(c)

ClientMain(c) == Connect(c) \/ SendHello(c) \/ HelloTimeout(c)
                 \/ ClientSubscribe(c) \/ Leave(c)

Next == \/ Simulator
        \/ TransportSend
        \/ \E c \in Conns : \/ ServerThread(c) \/ ClientNetwork(c)
                            \/ ClientMain(c) \/ Lose(c)

Spec == Init /\ [][Next]_vars

\* Threads that are not blocked run.  Nobody has to connect, subscribe, set the
\* manifest or begin to stop, and a time-out is not owed; a constructor that
\* threw destroys its WebSocket.
Fairness ==
    /\ WF_vars(StopServer) /\ WF_vars(StopReturns)
    /\ \A c \in Conns : /\ WF_vars(ServerThread(c))
                        /\ WF_vars(ClientNetwork(c))
                        /\ WF_vars(SendHello(c))
                        /\ WF_vars(client[c] = "failed" /\ Leave(c))

FairSpec == Spec /\ Fairness

-----------------------------------------------------------------------------
(* Properties *)

\* RpcServer.cpp:776-778 and the single-client rule: the WebSocket pointer of
\* the session, which the transport thread sends on, belongs to a connection
\* whose Close has not been handled.
SessionIsAlive == session # NoConn => conn[session] \in {"serving", "hello"}

\* cosim-protocol.md:144: hello lists at least the channels that existed when
\* the manifest became ready, however late the answer, and never fewer because
\* it came before the manifest.
TableIsComplete ==
    \A c \in Conns : client[c] = "ready" /\ manifestReady
                         => table[c] >= tableAtReady

\* A message only goes to a client that subscribed: no client inherits the
\* subscription of the one before it.
OnlyAskedFrames ==
    \A c \in Conns : \A i \in 1..Len(toClient[c]) :
        toClient[c][i].kind = "data" => c \in asked

\* A constructor that waits for hello gets an answer or an exception once the
\* manifest is set, without the help of kCallTimeout.
HelloReturns ==
    \A c \in Conns : (client[c] = "hello" /\ manifestReady) ~> client[c] # "hello"

\* A client that left does not hold the session for ever.
SessionIsFreed ==
    \A c \in Conns : (session = c /\ client[c] = "left" /\ manifestReady)
                         ~> session # c

\* stop() returns, once the manifest has been set.
StopEnds == (stop = "server" /\ manifestReady) ~> stop = "stopped"

=============================================================================
