----------------------------- MODULE ServiceThread -----------------------------
(***************************************************************************)
(* The service thread of an accelerator connection (Accelerator.cpp) and the *)
(* callbacks that the accelerator invokes through it (CallService,           *)
(* Services.cpp).  A callback has an arg port, from which calls come, and a  *)
(* result port.  An ordinary callback listens on the service thread; a quick *)
(* one is called by whoever delivers the call.                              *)
(*                                                                          *)
(* Backends are external and of two kinds.  A "threaded" one (cosim) has     *)
(* threads of its own that deliver calls, and its writes do not block.  A    *)
(* "polled" one (the one item DMA buffers) moves messages only when its     *)
(* ports are polled, which is a task of the service thread (addPoll), and a  *)
(* write to a result port waits until the message before it was sent.       *)
(* The calls of a port are numbered in the order the accelerator makes them. *)
(***************************************************************************)
EXTENDS Integers, Sequences, FiniteSets

CONSTANTS
    Ports,      \* the callbacks of the accelerator
    QuickSets,  \* the sets of them that may be connected as quick
    Backends,   \* subset of {"threaded", "polled"}
    MaxCalls,   \* bound: calls the accelerator makes of each
    MaxQueued   \* calls an arg port queues, 0 for any number

ASSUME ServiceAssumption ==
    /\ IsFiniteSet(Ports) /\ QuickSets \subseteq SUBSET Ports
    /\ {MaxCalls, MaxQueued} \subseteq Nat
    /\ Backends \subseteq {"threaded", "polled"}

VARIABLES
    backend, quick,   \* kind of the backend, the callbacks connected as quick
    called,           \* per port, calls the accelerator has made
    wire,             \* per port, calls under way to the host
    queue,            \* per port, the queue of the arg port
    future,           \* per port, the future of its listener
    thread,           \* the service thread: pc, ports left, worklist, back
    mutexHeld,        \* m is held by the service thread
    shutdown,         \* the flag
    app,              \* the application: "running", "joining", "disconnected"
    ran,              \* per port, the calls whose callback was run
    pendingFrames,    \* per port, results a polled backend has not sent
    sending,          \* per port, a result the device has not picked up, 0 if none
    results           \* per port, the results the accelerator has seen

hostVars == <<queue, future, thread, mutexHeld, shutdown, app, ran>>
linkVars == <<called, wire, pendingFrames, sending, results>>
vars == <<backend, quick, hostVars, linkVars>>

-----------------------------------------------------------------------------
\* States of the future of a listener; a number is the call it holds.
NotConnected == -2
NotListening == -1
Waiting == 0

Polled == backend = "polled"

PerPort(x) == [p \in Ports |-> x]

Init ==
    /\ backend \in Backends /\ quick \in QuickSets
    /\ called = PerPort(0) /\ wire = PerPort(<<>>) /\ queue = PerPort(<<>>)
    /\ future = [p \in Ports |-> IF p \in quick THEN NotListening ELSE NotConnected]
    /\ thread = [pc |-> "loop", todo |-> {}, work |-> <<>>, back |-> "loop"]
    /\ mutexHeld = FALSE /\ shutdown = FALSE /\ app = "running"
    /\ ran = PerPort(<<>>) /\ results = PerPort(<<>>)
    /\ pendingFrames = PerPort(<<>>) /\ sending = PerPort(0)

-----------------------------------------------------------------------------
(* The accelerator and the backend (external) *)

AcceleratorCalls(p) ==
    /\ called[p] < MaxCalls
    /\ called' = [called EXCEPT ![p] = @ + 1]
    /\ wire' = [wire EXCEPT ![p] = Append(@, called[p] + 1)]
    /\ UNCHANGED <<backend, quick, hostVars, pendingFrames, sending, results>>

\* The device picks up a result and writes the completion.
PickUp(p) ==
    /\ sending[p] # 0
    /\ results' = [results EXCEPT ![p] = Append(@, sending[p])]
    /\ sending' = [sending EXCEPT ![p] = 0]
    /\ UNCHANGED <<backend, quick, hostVars, called, wire, pendingFrames>>

\* The arg port has room for a call; a quick callback always accepts one.
Accepts(p) ==
    p \in quick \/ future[p] = Waiting \/ MaxQueued = 0 \/ Len(queue[p]) < MaxQueued

\* A call reaches the queue of the arg port (PollingBuffer::enqueue): the oldest
\* promise gets it, or the queue.
Enqueue(p, n) ==
    IF future[p] = Waiting
    THEN future' = [future EXCEPT ![p] = n] /\ UNCHANGED queue
    ELSE queue' = [queue EXCEPT ![p] = Append(@, n)] /\ UNCHANGED future

\* A thread of a threaded backend delivers a call, unless it is refused.  A quick
\* callback runs on it and writes its result.
Deliver(p) ==
    /\ ~Polled /\ wire[p] # <<>> /\ future[p] # NotConnected /\ app # "disconnected"
    /\ Accepts(p)
    /\ wire' = [wire EXCEPT ![p] = Tail(@)]
    /\ IF p \in quick
       THEN /\ ran' = [ran EXCEPT ![p] = Append(@, Head(wire[p]))]
            /\ results' = [results EXCEPT ![p] = Append(@, Head(wire[p]))]
            /\ UNCHANGED <<queue, future>>
       ELSE Enqueue(p, Head(wire[p])) /\ UNCHANGED <<ran, results>>
    /\ UNCHANGED <<backend, quick, thread, mutexHeld, shutdown, app, called,
                   pendingFrames, sending>>

-----------------------------------------------------------------------------
(* The application *)

\* Callback::connect of an ordinary callback: connect the arg port, ...
ConnectArg(p) ==
    /\ app = "running" /\ future[p] = NotConnected
    /\ future' = [future EXCEPT ![p] = NotListening]
    /\ UNCHANGED <<backend, quick, queue, thread, mutexHeld, shutdown, app, ran, linkVars>>

\* ... then addListener, under m.
AddListener(p) ==
    /\ ~mutexHeld
    /\ p \notin quick /\ future[p] = NotListening
    /\ IF queue[p] = <<>>
       THEN future' = [future EXCEPT ![p] = Waiting] /\ UNCHANGED queue
       ELSE /\ future' = [future EXCEPT ![p] = Head(queue[p])]
            /\ queue' = [queue EXCEPT ![p] = Tail(@)]

Listen(p) ==
    /\ app = "running" /\ AddListener(p)
    /\ UNCHANGED <<backend, quick, thread, mutexHeld, shutdown, app, ran, linkVars>>

\* AcceleratorConnection::disconnect: stop() and join, then drop the engines.
Stop ==
    /\ app = "running"
    /\ app' = "joining" /\ shutdown' = TRUE
    /\ UNCHANGED <<backend, quick, queue, future, thread, mutexHeld, ran, linkVars>>

\* Mutant: the engines are dropped without waiting for the thread.
Disconnect_NoJoin ==
    /\ app = "joining"
    /\ app' = "disconnected"
    /\ UNCHANGED <<backend, quick, queue, future, thread, mutexHeld, shutdown, ran, linkVars>>

Disconnect ==
    /\ app = "joining" /\ thread.pc = "ended"
    /\ app' = "disconnected"
    /\ UNCHANGED <<backend, quick, queue, future, thread, mutexHeld, shutdown, ran, linkVars>>

-----------------------------------------------------------------------------
(* The service thread *)

Listeners == {p \in Ports : future[p] \notin {NotConnected, NotListening}}

\* Mutant: only one listener is looked at.
Loop_First ==
    /\ thread.pc = "loop"
    /\ IF shutdown
       THEN thread' = [thread EXCEPT !.pc = "ended"] /\ UNCHANGED mutexHeld
       ELSE /\ thread' = [thread EXCEPT !.pc = "listeners",
                !.todo = IF Listeners = {} THEN {} ELSE {CHOOSE p \in Listeners : TRUE}]
            /\ mutexHeld' = TRUE
    /\ UNCHANGED <<backend, quick, queue, future, shutdown, app, ran, linkVars>>

\* loop(): leave, or take m and look at the listeners.
Loop ==
    /\ thread.pc = "loop"
    /\ IF shutdown
       THEN thread' = [thread EXCEPT !.pc = "ended"] /\ UNCHANGED mutexHeld
       ELSE /\ thread' = [thread EXCEPT !.pc = "listeners", !.todo = Listeners]
            /\ mutexHeld' = TRUE
    /\ UNCHANGED <<backend, quick, queue, future, shutdown, app, ran, linkVars>>

\* Mutant: the future is replaced before its value is taken.
CheckListener_Rearm(p) ==
    /\ thread.pc = "listeners" /\ p \in thread.todo
    /\ IF future[p] = Waiting
       THEN thread' = [thread EXCEPT !.todo = @ \ {p}] /\ UNCHANGED <<future, queue>>
       ELSE /\ thread' = [thread EXCEPT !.todo = @ \ {p},
                    !.work = IF queue[p] = <<>> THEN @
                             ELSE Append(@, [port |-> p, call |-> Head(queue[p])])]
            /\ future' = [future EXCEPT ![p] = Waiting]
            /\ queue' = [queue EXCEPT ![p] = IF @ = <<>> THEN @ ELSE Tail(@)]
    /\ UNCHANGED <<backend, quick, mutexHeld, shutdown, app, ran, linkVars>>

\* One listener: if its future is ready, put the call on the work list and read
\* again.
CheckListener(p) ==
    /\ thread.pc = "listeners" /\ p \in thread.todo
    /\ IF future[p] = Waiting
       THEN thread' = [thread EXCEPT !.todo = @ \ {p}] /\ UNCHANGED <<future, queue>>
       ELSE /\ thread' = [thread EXCEPT !.todo = @ \ {p},
                              !.work = Append(@, [port |-> p, call |-> future[p]])]
            /\ future' = [future EXCEPT ![p] =
                              IF queue[p] = <<>> THEN Waiting ELSE Head(queue[p])]
            /\ queue' = [queue EXCEPT ![p] = IF @ = <<>> THEN @ ELSE Tail(@)]
    /\ UNCHANGED <<backend, quick, mutexHeld, shutdown, app, ran, linkVars>>

\* All listeners are looked at: release m.
ListenersDone ==
    /\ thread.pc = "listeners" /\ thread.todo = {}
    /\ thread' = [thread EXCEPT !.pc = "callbacks"]
    /\ mutexHeld' = FALSE
    /\ UNCHANGED <<backend, quick, queue, future, shutdown, app, ran, linkVars>>

\* The callback of the first call on the work list runs, outside the lock.  It may
\* connect another callback (or itself call addListener).
RunCallback ==
    /\ thread.pc = "callbacks" /\ thread.work # <<>>
    /\ LET w == Head(thread.work) IN ran' = [ran EXCEPT ![w.port] = Append(@, w.call)]
    /\ thread' = [thread EXCEPT !.pc = "write", !.back = "callbacks"]
    /\ \/ \E p \in Ports : AddListener(p)
       \/ UNCHANGED <<queue, future>>
    /\ UNCHANGED <<backend, quick, mutexHeld, shutdown, app, linkVars>>

\* writeImpl of the result port: at once, or when the last result is gone.
PutResult(p, n) ==
    IF Polled
    THEN /\ pendingFrames[p] = <<>>
         /\ pendingFrames' = [pendingFrames EXCEPT ![p] = <<n>>]
         /\ UNCHANGED results
    ELSE results' = [results EXCEPT ![p] = Append(@, n)] /\ UNCHANGED pendingFrames

\* result->write of the callback that has run; the thread spins until it is done.
WriteResult ==
    /\ thread.pc = "write"
    /\ LET w == Head(thread.work) IN PutResult(w.port, w.call)
    /\ thread' = [thread EXCEPT !.pc = thread.back, !.work = Tail(@)]
    /\ UNCHANGED <<backend, quick, queue, future, mutexHeld, shutdown, app, ran,
                   called, wire, sending>>

\* The thread spins in the write of a result that only its own polling could send.
SpinsOnItself ==
    thread.pc = "write" /\ pendingFrames[Head(thread.work).port] # <<>>

\* writeImpl yields and tries again.
Yield == SpinsOnItself /\ UNCHANGED vars

\* All callbacks have run; the tasks are next: poll every port of a polled backend.
CallbacksDone ==
    /\ thread.pc = "callbacks" /\ thread.work = <<>>
    /\ ~mutexHeld
    /\ thread' = [thread EXCEPT !.pc = "tasks",
                      !.todo = IF Polled THEN Ports \X {"arg", "result"} ELSE {}]
    /\ UNCHANGED <<backend, quick, queue, future, mutexHeld, shutdown, app, ran, linkVars>>

\* poll() of an arg port: deliver a call if there is one, or leave it where it is if it
\* is refused.  A quick callback runs here.
PollArg(p) ==
    /\ thread.pc = "tasks" /\ <<p, "arg">> \in thread.todo
    /\ LET left == thread.todo \ {<<p, "arg">>}
       IN  IF wire[p] = <<>> \/ future[p] = NotConnected \/ ~Accepts(p)
           THEN /\ thread' = [thread EXCEPT !.todo = left]
                /\ UNCHANGED <<wire, queue, future, ran>>
           ELSE /\ wire' = [wire EXCEPT ![p] = Tail(@)]
                /\ IF p \in quick
                   THEN /\ ran' = [ran EXCEPT ![p] = Append(@, Head(wire[p]))]
                        /\ thread' = [pc |-> "write", back |-> "tasks", todo |-> left,
                                      work |-> <<[port |-> p, call |-> Head(wire[p])]>>]
                        /\ UNCHANGED <<queue, future>>
                   ELSE /\ Enqueue(p, Head(wire[p]))
                        /\ thread' = [thread EXCEPT !.todo = left]
                        /\ UNCHANGED ran
    /\ UNCHANGED <<backend, quick, mutexHeld, shutdown, app, called, pendingFrames,
                   sending, results>>

\* poll() of the result port, which comes second in its bundle: send the pending
\* result if the device has picked up the one before.
PollResult(p) ==
    /\ thread.pc = "tasks"
    /\ <<p, "result">> \in thread.todo /\ <<p, "arg">> \notin thread.todo
    /\ thread' = [thread EXCEPT !.todo = @ \ {<<p, "result">>}]
    /\ IF sending[p] = 0 /\ pendingFrames[p] # <<>>
       THEN /\ sending' = [sending EXCEPT ![p] = Head(pendingFrames[p])]
            /\ pendingFrames' = [pendingFrames EXCEPT ![p] = Tail(@)]
       ELSE UNCHANGED <<sending, pendingFrames>>
    /\ UNCHANGED <<backend, quick, queue, future, mutexHeld, shutdown, app, ran, called,
                   wire, results>>

\* Mutant: the next iteration begins without a look at the flag.
TasksDone_NoCheck ==
    /\ thread.pc = "tasks" /\ thread.todo = {}
    /\ thread' = [thread EXCEPT !.pc = "listeners", !.todo = Listeners]
    /\ mutexHeld' = TRUE
    /\ UNCHANGED <<backend, quick, queue, future, shutdown, app, ran, linkVars>>

TasksDone ==
    /\ thread.pc = "tasks" /\ thread.todo = {}
    /\ thread' = [thread EXCEPT !.pc = "loop"]
    /\ UNCHANGED <<backend, quick, queue, future, mutexHeld, shutdown, app, ran, linkVars>>

ServiceStep ==
    \/ Loop \/ ListenersDone \/ RunCallback \/ WriteResult \/ CallbacksDone \/ TasksDone
    \/ \E p \in Ports : CheckListener(p) \/ PollArg(p) \/ PollResult(p)

Next ==
    \/ ServiceStep \/ Stop \/ Disconnect
    \/ \E p \in Ports : AcceleratorCalls(p) \/ PickUp(p) \/ Deliver(p)
                        \/ ConnectArg(p) \/ Listen(p)
    \/ Yield
    \/ app = "disconnected" /\ UNCHANGED vars

\* The service thread runs, join returns when it has ended, and the backend and the
\* device go on.  Neither the calls nor the steps of the application need happen.
FairSpec ==
    /\ Init /\ [][Next]_vars
    /\ WF_vars(ServiceStep) /\ WF_vars(Disconnect)
    /\ \A p \in Ports : WF_vars(PickUp(p)) /\ WF_vars(Deliver(p))

-----------------------------------------------------------------------------
(* Properties *)

Counts(s) == s = [i \in 1..Len(s) |-> i]

\* A callback is run once for every call, in the order the accelerator made them,
\* although the thread takes at most one call of each port at a time and reads again
\* before the callback has run; and the n-th result the accelerator sees answers its
\* n-th call, also through a port that holds one message.
CallsInOrder == \A p \in Ports : Counts(ran[p]) /\ Counts(results[p])

\* "Stop polling before tearing down engines" (Accelerator.cpp:462): once the
\* application has disconnected, the thread runs no callback and touches no port.
QuietAfterDisconnect ==
    [][app = "disconnected" => UNCHANGED <<thread, ran, future, pendingFrames>>]_vars

\* Every call is run once the callback listens, until the thread is stopped or
\* spins on itself (which a threaded backend never makes it do).
CallsAreRun ==
    \A p \in Ports, n \in 1..MaxCalls :
        (called[p] >= n /\ (p \in quick \/ p \in Listeners))
            ~> (Len(ran[p]) >= n \/ shutdown \/ (Polled /\ SpinsOnItself))

\* disconnect() returns: the thread ends and is joined.
StopReturns ==
    app = "joining" ~> (app = "disconnected" \/ (Polled /\ SpinsOnItself))

\* "Connect a callback to code which will be executed when the accelerator invokes
\* the callback" (Services.h:447): every call is run, until the application stops.
CallbacksAreExecuted ==
    \A p \in Ports, n \in 1..MaxCalls :
        (called[p] >= n /\ (p \in quick \/ p \in Listeners))
            ~> (Len(ran[p]) >= n \/ shutdown)

=============================================================================
