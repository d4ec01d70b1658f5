------------------------- MODULE ToClientPath_proof -------------------------
(***************************************************************************)
(* Proofs about ToClientPath for every set of channels and every bound.    *)
(*                                                                         *)
(* Every theorem has the same shape: the initial states satisfy an         *)
(* inductive invariant, [Next]_vars preserves it, and it implies the       *)
(* property.  A preservation lemma takes the parts of Next that touch the  *)
(* variables it is about one by one; the others leave them unchanged.      *)
(***************************************************************************)
EXTENDS ToClientPathStream, OrderedStream, TLAPS

-----------------------------------------------------------------------------
(* Sequences *)

LEMMA EmptySeq == ASSUME NEW S PROVE <<>> \in Seq(S)
OBVIOUS

\* What the two ends of a non-empty queue are.
LEMMA HeadTail ==
  ASSUME NEW S, NEW s \in Seq(S), s # <<>>
  PROVE  /\ Head(s) \in S /\ Tail(s) \in Seq(S)
         /\ Len(Tail(s)) = Len(s) - 1
         /\ \A i \in 1..Len(Tail(s)) : Tail(s)[i] = s[i + 1]
         /\ Len(s) \in Nat \ {0} /\ Head(s) = s[1]
OBVIOUS

\* What appending to a queue does.
LEMMA AppendFacts ==
  ASSUME NEW S, NEW s \in Seq(S), NEW x \in S
  PROVE  /\ Append(s, x) \in Seq(S)
         /\ Append(s, x) # <<>>
         /\ Len(Append(s, x)) = Len(s) + 1
         /\ Append(s, x)[Len(s) + 1] = x
         /\ \A i \in 1..Len(s) : Append(s, x)[i] = s[i]
         /\ Len(s) \in Nat
OBVIOUS

-----------------------------------------------------------------------------
(* Type correctness *)

LEMMA InitTypeOK == Init => TypeOK
BY PathAssumption
   DEF Init, TypeOK, QueueTypeOK, ServerTypeOK, WireTypeOK, NetworkTypeOK,
       TransportTypeOK, UserTypeOK, NoCall, Conn

\* The queues of the write ports are touched by put() and the transport thread.
LEMMA QueueStep ==
  ASSUME TypeOK, [Next]_vars  PROVE  QueueTypeOK'
<1> USE DEF TypeOK, QueueTypeOK
<1> UNCHANGED <<written, writeQueue, doorbell>> => QueueTypeOK'
  OBVIOUS
<1>1. ASSUME NEW c \in Channels, Write(c) PROVE QueueTypeOK'
  BY <1>1 DEF Write
<1>2. ASSUME NEW c \in Channels, RingDoorbell(c) PROVE QueueTypeOK'
  BY <1>2 DEF RingDoorbell
<1>3. ASSUME NEW c \in Channels, ServerSend(c) PROVE QueueTypeOK'
  BY <1>3 DEF ServerSend, writerVars
<1>4. ASSUME NEW c \in Channels, User(c) PROVE QueueTypeOK'
  BY <1>4 DEF User, UserInside, Register, Unregister, CallTimeout, Subscribe,
     SubscribeReturns, SubscribeThrows, CancelEntry, Nudge, Unsubscribe,
     DisconnectReturns, writerVars
<1>5. ASSUME ServerTransport PROVE QueueTypeOK'
  BY <1>5, <1>3 DEF ServerTransport, ServerWaitDrain, ServerPick, ServerLeave,
     writerVars
<1>6. ASSUME ServerNetwork PROVE QueueTypeOK'
  BY <1>6 DEF ServerNetwork, ServerOnClose, ServerSubscribe, ServerSubscribeAck,
     ServerSubscribeKick, ServerUnsubscribe, writerVars
<1>7. ASSUME ClientNetwork PROVE QueueTypeOK'
  BY <1>7 DEF ClientNetwork, ClientOnClose, ReceiveData, PushFrame, RingClient,
     ReceiveReply, writerVars
<1>8. ASSUME ClientTransport PROVE QueueTypeOK'
  BY <1>8 DEF ClientTransport, ClientWaitDrain, ClientPick, ClientCheck,
     ClientPeek, ClientConsume, ClientRefuse, writerVars
<1>9. ASSUME Drop PROVE QueueTypeOK'
  BY <1>9 DEF Drop, writerVars
<1>10. CASE UNCHANGED vars
  BY <1>10 DEF vars
<1> QED
  BY <1>1, <1>2, <1>4, <1>5, <1>6, <1>7, <1>8, <1>9, <1>10 DEF Next

\* The server's readyIds, batch, session and handler.
LEMMA ServerStep ==
  ASSUME TypeOK, [Next]_vars  PROVE  ServerTypeOK'
<1> USE DEF TypeOK, ServerTypeOK
<1>0. UNCHANGED serverVars => ServerTypeOK'
  BY DEF serverVars
<1>1. ASSUME NEW c \in Channels, RingDoorbell(c) PROVE ServerTypeOK'
  BY <1>1 DEF RingDoorbell
<1>2. ASSUME ServerTransport PROVE ServerTypeOK'
  BY <1>2 DEF ServerTransport, ServerWaitDrain, ServerPick, ServerLeave,
     ServerSend, serverVars
<1>3. ASSUME ServerNetwork PROVE ServerTypeOK'
  <2>1. ASSUME NEW c \in Channels, ServerSubscribe(c) PROVE ServerTypeOK'
    <3>1. Head(up) \in Requests
      BY <2>1, HeadTail DEF ServerSubscribe, WireTypeOK
    <3>2. handler' \in {NoHandler} \cup [pc : {"ack", "kick"}, ch : Channels, n : Nat]
      BY <2>1, <3>1 DEF ServerSubscribe, Requests
    <3>3. subscribed' \subseteq Channels
      BY <2>1 DEF ServerSubscribe
    <3>4. UNCHANGED <<sReady, sBatch, sCur, session>>
      BY <2>1 DEF ServerSubscribe
    <3> QED
      BY <3>2, <3>3, <3>4
  <2>2. ASSUME NEW c \in Channels, ServerSubscribeAck(c) PROVE ServerTypeOK'
    BY <2>2 DEF ServerSubscribeAck, NoHandler
  <2> QED
    BY <1>3, <2>1, <2>2 DEF ServerNetwork, ServerOnClose, ServerSubscribeKick,
       ServerUnsubscribe
<1>4. ASSUME NEW c \in Channels, Write(c) \/ User(c) PROVE UNCHANGED serverVars
  BY <1>4 DEF Write, User, UserInside, Register, Unregister, CallTimeout,
     Subscribe, SubscribeReturns, SubscribeThrows, CancelEntry, Nudge,
     Unsubscribe, DisconnectReturns, serverVars
<1>5. ASSUME ClientNetwork \/ ClientTransport \/ Drop PROVE UNCHANGED serverVars
  BY <1>5 DEF ClientNetwork, ClientOnClose, ReceiveData, PushFrame, RingClient,
     ReceiveReply, ClientTransport, ClientWaitDrain, ClientPick, ClientCheck,
     ClientPeek, ClientConsume, ClientRefuse, Drop, serverVars
<1>6. CASE UNCHANGED vars
  BY <1>0, <1>6 DEF vars, serverVars
<1> QED
  BY <1>0, <1>1, <1>2, <1>3, <1>4, <1>5, <1>6 DEF Next

\* The two directions of the WebSocket.
LEMMA WireStep ==
  ASSUME TypeOK, [Next]_vars  PROVE  WireTypeOK'
<1> USE DEF TypeOK, WireTypeOK
<1>0. UNCHANGED wireVars => WireTypeOK'
  BY DEF wireVars
<1>send. ASSUME NEW f \in Frames, Send(f) PROVE down' \in Seq(Frames)
  <2>1. CASE wsOpen
    BY <2>1, <1>send, AppendFacts DEF Send
  <2>2. CASE ~wsOpen
    BY <2>2, <1>send DEF Send
  <2> QED
    BY <2>1, <2>2
<1>reply. ASSUME NEW c \in Channels, NEW n \in Nat, NEW k \in ReplyKind
          PROVE  Reply(k, c, n) \in Frames
  BY DEF Reply, Frames, FrameKind
<1>head. ASSUME up # <<>> PROVE Head(up).n \in Nat /\ Tail(up) \in Seq(Requests)
  <2>1. Head(up) \in Requests /\ Tail(up) \in Seq(Requests)
    BY <1>head, HeadTail
  <2> QED
    BY <2>1 DEF Requests
<1>1. ASSUME NEW c \in Channels, ServerSend(c) PROVE WireTypeOK'
  <2>1. Head(writeQueue[c]) \in Nat
    BY <1>1, HeadTail DEF ServerSend, QueueTypeOK
  <2>2. Data(c, Head(writeQueue[c])) \in Frames
    BY <2>1 DEF Data, Frames, FrameKind
  <2> QED
    BY <1>1, <1>send, <2>2 DEF ServerSend
<1>2. ASSUME NEW c \in Channels, ServerSubscribe(c) PROVE WireTypeOK'
  BY <1>2, <1>send, <1>reply, <1>head DEF ServerSubscribe, ReplyKind
<1>3. ASSUME NEW c \in Channels, ServerSubscribeAck(c) PROVE WireTypeOK'
  <2>1. handler.n \in Nat
    BY <1>3 DEF ServerSubscribeAck, ServerTypeOK, NoHandler
  <2> QED
    BY <1>3, <2>1, <1>send, <1>reply DEF ServerSubscribeAck, ReplyKind
<1>4. ASSUME NEW c \in Channels, ServerUnsubscribe(c) PROVE WireTypeOK'
  BY <1>4, <1>send, <1>reply, <1>head DEF ServerUnsubscribe, ReplyKind
<1>5. ASSUME NEW c \in Channels, ReceiveData(c) \/ ReceiveReply(c)
      PROVE  WireTypeOK'
  <2>1. Tail(down) \in Seq(Frames)
    BY <1>5, HeadTail DEF ReceiveData, ReceiveReply
  <2>2. down' = Tail(down) /\ UNCHANGED <<up, wsOpen>>
    BY <1>5 DEF ReceiveData, ReceiveReply
  <2> QED
    BY <2>1, <2>2
<1>6. ASSUME NEW c \in Channels, NEW m \in {"subscribe", "unsubscribe"},
             StartCall(c, m), UNCHANGED <<down, wsOpen>>
      PROVE  WireTypeOK'
  <2>1. Request(m, c, call[c].n + 1) \in Requests
    BY DEF Request, Requests, UserTypeOK
  <2> QED
    BY <1>6, <2>1, AppendFacts DEF StartCall
<1>7. ASSUME NEW c \in Channels, Write(c) \/ RingDoorbell(c) PROVE WireTypeOK'
  BY <1>7, <1>0 DEF Write, RingDoorbell
<1>8. ASSUME NEW c \in Channels, User(c) PROVE WireTypeOK'
  <2>1. CASE Subscribe(c) \/ Unsubscribe(c)
    BY <2>1, <1>6 DEF Subscribe, Unsubscribe
  <2> QED
    BY <1>8, <1>0, <2>1 DEF User, UserInside, Register, Unregister, CallTimeout,
       SubscribeReturns, SubscribeThrows, CancelEntry, Nudge, DisconnectReturns
<1>9. ASSUME ServerTransport PROVE WireTypeOK'
  BY <1>9, <1>0, <1>1 DEF ServerTransport, ServerWaitDrain, ServerPick, ServerLeave
<1>10. ASSUME ServerNetwork PROVE WireTypeOK'
  BY <1>10, <1>0, <1>2, <1>3, <1>4 DEF ServerNetwork, ServerOnClose,
     ServerSubscribeKick
<1>11. ASSUME ClientNetwork PROVE WireTypeOK'
  BY <1>11, <1>0, <1>5 DEF ClientNetwork, ClientOnClose, PushFrame, RingClient
<1>12. ASSUME ClientTransport PROVE WireTypeOK'
  BY <1>12, <1>0 DEF ClientTransport, ClientWaitDrain, ClientPick, ClientCheck,
     ClientPeek, ClientConsume, ClientRefuse
<1>13. ASSUME Drop PROVE WireTypeOK'
  <2>1. up' = <<>> /\ down' = <<>> /\ wsOpen' = FALSE
    BY <1>13 DEF Drop
  <2> QED
    BY <2>1, EmptySeq
<1>14. CASE UNCHANGED vars
  BY <1>0, <1>14 DEF vars, wireVars
<1> QED
  BY <1>7, <1>8, <1>9, <1>10, <1>11, <1>12, <1>13, <1>14 DEF Next

\* The client's table of entries, and the threads that own its ports.
LEMMA UserStep ==
  ASSUME TypeOK, [Next]_vars  PROVE  UserTypeOK'
<1> USE PathAssumption DEF TypeOK, UserTypeOK
<1>0. UNCHANGED userVars => UserTypeOK'
  BY DEF userVars
<1>1. ASSUME NEW c \in Channels, Register(c) PROVE UserTypeOK'
  BY <1>1 DEF Register
<1>2. ASSUME NEW c \in Channels, Subscribe(c) PROVE UserTypeOK'
  BY <1>2 DEF Subscribe, StartCall
<1>3. ASSUME NEW c \in Channels, SubscribeReturns(c) PROVE UserTypeOK'
  BY <1>3 DEF SubscribeReturns
<1>4. ASSUME NEW c \in Channels, SubscribeThrows(c) PROVE UserTypeOK'
  BY <1>4 DEF SubscribeThrows
<1>5. ASSUME NEW c \in Channels, Unregister(c) PROVE UserTypeOK'
  BY <1>5 DEF Unregister
<1>6. ASSUME NEW c \in Channels, CancelEntry(c) PROVE UserTypeOK'
  BY <1>6 DEF CancelEntry
<1>7. ASSUME NEW c \in Channels, Nudge(c) PROVE UserTypeOK'
  BY <1>7 DEF Nudge
<1>8. ASSUME NEW c \in Channels, Unsubscribe(c) PROVE UserTypeOK'
  BY <1>8 DEF Unsubscribe, StartCall
<1>9. ASSUME NEW c \in Channels, DisconnectReturns(c) PROVE UserTypeOK'
  BY <1>9 DEF DisconnectReturns
<1>10. ASSUME NEW c \in Channels, CallTimeout(c) PROVE UserTypeOK'
  BY <1>10 DEF CallTimeout
<1>11. ASSUME NEW c \in Channels, ReceiveReply(c) PROVE UserTypeOK'
  BY <1>11 DEF ReceiveReply
<1>12. ASSUME ClientOnClose PROVE UserTypeOK'
  BY <1>12 DEF ClientOnClose
<1>13. ASSUME NEW c \in Channels, User(c) PROVE UserTypeOK'
  BY <1>13, <1>1, <1>2, <1>3, <1>4, <1>5, <1>6, <1>7, <1>8, <1>9, <1>10
     DEF User, UserInside
<1>14. ASSUME ClientNetwork PROVE UserTypeOK'
  BY <1>14, <1>0, <1>11, <1>12 DEF ClientNetwork, ReceiveData, PushFrame,
     RingClient
<1>15. ASSUME NEW c \in Channels, Write(c) \/ RingDoorbell(c) PROVE UserTypeOK'
  BY <1>15, <1>0 DEF Write, RingDoorbell
<1>16. ASSUME ServerTransport \/ ServerNetwork \/ ClientTransport \/ Drop
       PROVE  UNCHANGED userVars
  BY <1>16 DEF ServerTransport, ServerWaitDrain, ServerPick, ServerSend,
     ServerLeave, ServerNetwork, ServerOnClose, ServerSubscribe,
     ServerSubscribeAck, ServerSubscribeKick, ServerUnsubscribe,
     ClientTransport, ClientWaitDrain, ClientPick, ClientCheck, ClientPeek,
     ClientConsume, ClientRefuse, Drop
<1>17. CASE UNCHANGED vars
  BY <1>0, <1>17 DEF vars, userVars
<1> QED
  BY <1>0, <1>13, <1>14, <1>15, <1>16, <1>17 DEF Next

\* The client's queues and its network thread.  ClientConsume pops a queue that
\* PopsWhatItShowed says is not empty.
LEMMA NetworkStep ==
  ASSUME TypeOK, PopsWhatItShowed, [Next]_vars  PROVE  NetworkTypeOK'
<1> USE PathAssumption DEF TypeOK, NetworkTypeOK
<1>0. UNCHANGED rxVars => NetworkTypeOK'
  BY DEF rxVars
<1>1. ASSUME NEW c \in Channels, ReceiveData(c) PROVE NetworkTypeOK'
  <2>1. Head(down) \in Frames
    BY <1>1, HeadTail DEF ReceiveData, WireTypeOK
  <2>2. readCallbacks[c] # 0 => readCallbacks[c] \in Conn
    BY DEF UserTypeOK, Conn
  <2>3. rx' \in {NoRx} \cup Working({"push", "ring"})
    BY <1>1, <2>1, <2>2 DEF ReceiveData, Working, Frames
  <2> QED
    BY <1>1, <2>3 DEF ReceiveData
<1>2. ASSUME NEW c \in Channels, PushFrame(c) PROVE NetworkTypeOK'
  <2>1. rx \in Working({"push", "ring"})
    BY <1>2 DEF PushFrame, NoRx
  <2>2. <<c, rx.conn>> \in Entry /\ rx.msg \in Nat
    BY <2>1 DEF Working, Entry
  <2>3. queue' \in [Entry -> Seq(Nat)]
    BY <1>2, <2>2, AppendFacts DEF PushFrame
  <2>4. rx' \in Working({"push", "ring"})
    BY <1>2, <2>1 DEF PushFrame, Working
  <2> QED
    BY <2>3, <2>4
<1>3. ASSUME NEW c \in Channels, RingClient(c) PROVE NetworkTypeOK'
  BY <1>3 DEF RingClient
<1>4. ASSUME NEW c \in Channels, ClientConsume(c) PROVE NetworkTypeOK'
  <2>1. ct \in Working({"check", "peek", "call"})
    BY <1>4 DEF ClientConsume, TransportTypeOK, NoDrain
  <2>2. <<c, ct.conn>> \in Entry
    BY <2>1 DEF Working, Entry
  <2>3. queue[<<c, ct.conn>>] # <<>>
    BY <1>4 DEF ClientConsume, PopsWhatItShowed
  <2>4. Tail(queue[<<c, ct.conn>>]) \in Seq(Nat)
    BY <2>2, <2>3, HeadTail
  <2> QED
    BY <1>4, <2>2, <2>4 DEF ClientConsume
<1>5. ASSUME ClientNetwork PROVE NetworkTypeOK'
  BY <1>0, <1>1, <1>2, <1>3, <1>5 DEF ClientNetwork, ClientOnClose, ReceiveReply
<1>6. ASSUME ClientTransport PROVE NetworkTypeOK'
  BY <1>0, <1>4, <1>6 DEF ClientTransport, ClientWaitDrain, ClientPick,
     ClientCheck, ClientPeek, ClientRefuse
<1>7. ASSUME NEW c \in Channels, Write(c) \/ RingDoorbell(c) \/ User(c)
      PROVE  UNCHANGED rxVars
  BY <1>7 DEF Write, RingDoorbell, User, UserInside, Register, Unregister,
     CallTimeout, Subscribe, SubscribeReturns, SubscribeThrows, CancelEntry,
     Nudge, Unsubscribe, DisconnectReturns
<1>8. ASSUME ServerTransport \/ ServerNetwork \/ Drop PROVE UNCHANGED rxVars
  BY <1>8 DEF ServerTransport, ServerWaitDrain, ServerPick, ServerSend,
     ServerLeave, ServerNetwork, ServerOnClose, ServerSubscribe,
     ServerSubscribeAck, ServerSubscribeKick, ServerUnsubscribe, Drop
<1>9. CASE UNCHANGED vars
  BY <1>0, <1>9 DEF vars, rxVars
<1> QED
  BY <1>0, <1>5, <1>6, <1>7, <1>8, <1>9 DEF Next

\* The client's transport thread.
LEMMA TransportStep ==
  ASSUME TypeOK, [Next]_vars  PROVE  TransportTypeOK'
<1> USE DEF TypeOK, TransportTypeOK
<1>0. UNCHANGED <<cReady, drainVars>> => TransportTypeOK'
  BY DEF drainVars
<1>1. ASSUME ClientWaitDrain PROVE TransportTypeOK'
  BY <1>1 DEF ClientWaitDrain
<1>2. ASSUME NEW c \in Channels, ClientPick(c) PROVE TransportTypeOK'
  <2>1. readCallbacks[c] # 0 => readCallbacks[c] \in Conn
    BY PathAssumption DEF UserTypeOK, Conn
  <2> QED
    BY <1>2, <2>1 DEF ClientPick, Working
<1>3. ASSUME NEW c \in Channels,
             ClientCheck(c) \/ ClientPeek(c) \/ ClientConsume(c) \/ ClientRefuse(c)
      PROVE  TransportTypeOK'
  <2>1. ct \in Working({"check", "peek", "call"}) /\ ct.ch = c
    BY <1>3 DEF ClientCheck, ClientPeek, ClientConsume, ClientRefuse, NoDrain
  <2>2. <<c, ct.conn>> \in Entry /\ ct.msg \in Nat
    BY <2>1 DEF Working, Entry
  <2>3. queue[<<c, ct.conn>>] # <<>> => Head(queue[<<c, ct.conn>>]) \in Nat
    BY <2>2, HeadTail DEF NetworkTypeOK
  <2>4. CASE ClientCheck(c)
    BY <2>1, <2>4 DEF ClientCheck, Working
  <2>5. CASE ClientPeek(c)
    BY <2>1, <2>3, <2>5 DEF ClientPeek, Working
  <2>6. CASE ClientConsume(c)
    <3>1. delivered' \in [Channels -> Seq(Nat)]
      BY <2>2, <2>6, AppendFacts DEF ClientConsume
    <3>2. ct' \in Working({"check", "peek", "call"})
      BY <2>1, <2>6 DEF ClientConsume, Working
    <3> QED
      BY <2>6, <3>1, <3>2 DEF ClientConsume
  <2>7. CASE ClientRefuse(c)
    BY <2>7 DEF ClientRefuse
  <2> QED
    BY <1>3, <2>4, <2>5, <2>6, <2>7
<1>4. ASSUME NEW c \in Channels, RingClient(c) \/ Nudge(c) PROVE TransportTypeOK'
  BY <1>4 DEF RingClient, Nudge, drainVars
<1>5. ASSUME ClientTransport PROVE TransportTypeOK'
  BY <1>1, <1>2, <1>3, <1>5 DEF ClientTransport
<1>6. ASSUME ClientNetwork PROVE TransportTypeOK'
  BY <1>0, <1>4, <1>6 DEF ClientNetwork, ClientOnClose, ReceiveData, PushFrame,
     ReceiveReply
<1>7. ASSUME NEW c \in Channels, Write(c) \/ RingDoorbell(c) \/ User(c)
      PROVE  TransportTypeOK'
  BY <1>0, <1>4, <1>7 DEF Write, RingDoorbell, User, UserInside, Register,
     Unregister, CallTimeout, Subscribe, SubscribeReturns, SubscribeThrows,
     CancelEntry, Unsubscribe, DisconnectReturns
<1>8. ASSUME ServerTransport \/ ServerNetwork \/ Drop
      PROVE  UNCHANGED <<cReady, drainVars>>
  BY <1>8 DEF ServerTransport, ServerWaitDrain, ServerPick, ServerSend,
     ServerLeave, ServerNetwork, ServerOnClose, ServerSubscribe,
     ServerSubscribeAck, ServerSubscribeKick, ServerUnsubscribe, Drop
<1>9. CASE UNCHANGED vars
  BY <1>0, <1>9 DEF vars, drainVars
<1> QED
  BY <1>0, <1>5, <1>6, <1>7, <1>8, <1>9 DEF Next

\* Only the transport thread pops, and the network thread appends behind what
\* it shows to the callback.
LEMMA PopsStep ==
  ASSUME TypeOK, PopsWhatItShowed, [Next]_vars  PROVE  PopsWhatItShowed'
<1> USE DEF TypeOK, PopsWhatItShowed
<1>0. UNCHANGED <<queue, ct>> => PopsWhatItShowed'
  OBVIOUS
<1>1. ASSUME NEW c \in Channels, PushFrame(c), ct.pc = "call"
      PROVE  PopsWhatItShowed'
  <2> DEFINE e == <<ct.ch, ct.conn>>
  <2>1. e \in Entry
    BY <1>1 DEF TransportTypeOK, NoDrain, Working, Entry
  <2>2. <<c, rx.conn>> \in Entry /\ rx.msg \in Nat
    BY <1>1 DEF PushFrame, NetworkTypeOK, NoRx, Working, Entry
  <2>3. queue[e] \in Seq(Nat) /\ queue[e] # <<>>
    BY <1>1, <2>1 DEF NetworkTypeOK
  <2>4. queue'[e] = queue[e] \/ queue'[e] = Append(queue[e], rx.msg)
    BY <1>1, <2>1, <2>2 DEF PushFrame, NetworkTypeOK
  <2>5. Append(queue[e], rx.msg) # <<>>
        /\ Head(Append(queue[e], rx.msg)) = Head(queue[e])
    BY <2>2, <2>3
  <2> QED
    BY <1>1, <2>4, <2>5 DEF PushFrame, drainVars
<1>2. ASSUME NEW c \in Channels, PushFrame(c), ct.pc # "call"
      PROVE  PopsWhatItShowed'
  BY <1>2 DEF PushFrame, drainVars
<1>3. ASSUME NEW c \in Channels, ClientPeek(c) PROVE PopsWhatItShowed'
  <2>1. ct \in Working({"check", "peek", "call"})
    BY <1>3 DEF ClientPeek, TransportTypeOK, NoDrain
  <2>2. CASE queue[<<c, ct.conn>>] = <<>>
    BY <1>3, <2>2 DEF ClientPeek, NoDrain
  <2>3. CASE queue[<<c, ct.conn>>] # <<>>
    <3>1. ct' = [ct EXCEPT !.pc = "call", !.msg = Head(queue[<<c, ct.conn>>])]
      BY <1>3, <2>3 DEF ClientPeek
    <3>2. ct'.ch = c /\ ct'.conn = ct.conn
          /\ ct'.msg = Head(queue[<<c, ct.conn>>])
      BY <1>3, <2>1, <3>1 DEF ClientPeek, Working
    <3> QED
      BY <1>3, <2>3, <3>2 DEF ClientPeek, rxVars
  <2> QED
    BY <2>2, <2>3
<1>4. ASSUME NEW c \in Channels,
             ClientPick(c) \/ ClientCheck(c) \/ ClientConsume(c) \/ ClientRefuse(c)
      PROVE  PopsWhatItShowed'
  <2>1. CASE ClientCheck(c) \/ ClientConsume(c)
    <3>1. ct \in Working({"check", "peek", "call"})
      BY <2>1 DEF ClientCheck, ClientConsume, TransportTypeOK, NoDrain
    <3>2. [ct EXCEPT !.pc = "peek"].pc = "peek"
          /\ [ct EXCEPT !.pc = "check", !.msg = 0].pc = "check"
          /\ NoDrain.pc = "idle"
      BY <3>1 DEF Working, NoDrain
    <3>3. ct' \in {NoDrain, [ct EXCEPT !.pc = "peek"],
                   [ct EXCEPT !.pc = "check", !.msg = 0]}
      BY <2>1 DEF ClientCheck, ClientConsume
    <3>4. ct'.pc # "call"
      BY <3>2, <3>3
    <3> QED
      BY <3>4
  <2>2. CASE ClientPick(c) \/ ClientRefuse(c)
    BY <2>2 DEF ClientPick, ClientRefuse, NoDrain
  <2> QED
    BY <1>4, <2>1, <2>2
<1>5. ASSUME ClientTransport PROVE PopsWhatItShowed'
  BY <1>0, <1>3, <1>4, <1>5 DEF ClientTransport, ClientWaitDrain, rxVars
<1>6. ASSUME ClientNetwork PROVE PopsWhatItShowed'
  BY <1>0, <1>1, <1>2, <1>6 DEF ClientNetwork, ClientOnClose, ReceiveData,
     RingClient, ReceiveReply, rxVars, drainVars
<1>7. ASSUME NEW c \in Channels, Write(c) \/ RingDoorbell(c) \/ User(c)
      PROVE  UNCHANGED <<queue, ct>>
  BY <1>7 DEF Write, RingDoorbell, User, UserInside, Register, Unregister,
     CallTimeout, Subscribe, SubscribeReturns, SubscribeThrows, CancelEntry,
     Nudge, Unsubscribe, DisconnectReturns, rxVars, drainVars
<1>8. ASSUME ServerTransport \/ ServerNetwork \/ Drop
      PROVE  UNCHANGED <<queue, ct>>
  BY <1>8 DEF ServerTransport, ServerWaitDrain, ServerPick, ServerSend,
     ServerLeave, ServerNetwork, ServerOnClose, ServerSubscribe,
     ServerSubscribeAck, ServerSubscribeKick, ServerUnsubscribe, Drop,
     rxVars, drainVars
<1>9. CASE UNCHANGED vars
  BY <1>0, <1>9 DEF vars
<1> QED
  BY <1>0, <1>5, <1>6, <1>7, <1>8, <1>9 DEF Next

\* Types and PopsWhatItShowed are inductive together.
TypeInv == TypeOK /\ PopsWhatItShowed

LEMMA TypeInvInductive == Init /\ [][Next]_vars => []TypeInv
<1>1. Init => TypeInv
  BY InitTypeOK DEF Init, TypeInv, PopsWhatItShowed, NoDrain
<1>2. TypeInv /\ [Next]_vars => TypeInv'
  BY QueueStep, ServerStep, WireStep, UserStep, NetworkStep, TransportStep,
     PopsStep DEF TypeInv, TypeOK
<1> QED
  BY <1>1, <1>2, PTL

\* Every variable keeps its type: no step of the path indexes an entry of the
\* table that does not exist or pops an empty queue.
THEOREM TypeCorrect == Spec => []TypeOK
BY TypeInvInductive, PTL DEF Spec, TypeInv

\* TSQueue::pop(callback) removes the message it showed to the callback.
THEOREM PopsWhatItShowedCorrect == Spec => []PopsWhatItShowed
BY TypeInvInductive, PTL DEF Spec, TypeInv

-----------------------------------------------------------------------------
(* The server's doorbell *)

DoorbellVars == <<writeQueue, doorbell, sReady, sBatch, sCur, session,
                  subscribed, handler>>

\* A step of Next keeps a doorbell pending for every subscribed channel with a
\* queued message: whoever takes the id out of one place puts it into the next.
LEMMA DoorbellStep ==
  ASSUME TypeOK, DoorbellInv, [Next]_vars  PROVE  DoorbellInv'
<1> USE DEF TypeOK, DoorbellInv, NoLostDoorbell
<1>0. UNCHANGED DoorbellVars => DoorbellInv'
  BY DEF DoorbellVars
<1>1. ASSUME NEW c \in Channels, Write(c) PROVE DoorbellInv'
  BY <1>1 DEF Write, serverVars, QueueTypeOK, ServerTypeOK
<1>2. ASSUME NEW c \in Channels, RingDoorbell(c) PROVE DoorbellInv'
  BY <1>2 DEF RingDoorbell
<1>3. ASSUME ServerWaitDrain PROVE DoorbellInv'
  BY <1>3 DEF ServerWaitDrain, writerVars
<1>4. ASSUME NEW c \in Channels, ServerPick(c) PROVE DoorbellInv'
  BY <1>4, PathAssumption DEF ServerPick, writerVars, ServerTypeOK
<1>5. ASSUME NEW c \in Channels, ServerSend(c) PROVE DoorbellInv'
  BY <1>5 DEF ServerSend, writerVars, serverVars, QueueTypeOK, ServerTypeOK
<1>6. ASSUME NEW c \in Channels, ServerLeave(c) PROVE DoorbellInv'
  BY <1>6, PathAssumption DEF ServerLeave, writerVars, ServerTypeOK
<1>7. ASSUME NEW c \in Channels, ServerSubscribe(c) PROVE DoorbellInv'
  <2>1. CASE session
    BY <1>7, <2>1 DEF ServerSubscribe, writerVars, NoHandler
  <2>2. CASE ~session
    BY <1>7, <2>2 DEF ServerSubscribe, writerVars
  <2> QED
    BY <2>1, <2>2
<1>8. ASSUME NEW c \in Channels, ServerSubscribeAck(c) PROVE DoorbellInv'
  <2>1. handler'.pc # "idle" /\ handler'.ch = handler.ch
    BY <1>8 DEF ServerSubscribeAck, ServerTypeOK, NoHandler
  <2>2. UNCHANGED <<writeQueue, doorbell, sReady, sBatch, sCur, session, subscribed>>
    BY <1>8 DEF ServerSubscribeAck, writerVars
  <2> QED
    BY <2>1, <2>2
<1>9. ASSUME NEW c \in Channels, ServerSubscribeKick(c) PROVE DoorbellInv'
  BY <1>9 DEF ServerSubscribeKick, writerVars, NoHandler
<1>10. ASSUME NEW c \in Channels, ServerUnsubscribe(c) PROVE DoorbellInv'
  BY <1>10 DEF ServerUnsubscribe, writerVars
<1>11. ASSUME ServerOnClose PROVE DoorbellInv'
  BY <1>11 DEF ServerOnClose
<1>12. ASSUME NEW c \in Channels, User(c) PROVE UNCHANGED DoorbellVars
  BY <1>12 DEF User, UserInside, Register, Unregister, CallTimeout, Subscribe,
     SubscribeReturns, SubscribeThrows, CancelEntry, Nudge, Unsubscribe,
     DisconnectReturns, writerVars, serverVars, DoorbellVars
<1>13. ASSUME ClientNetwork \/ ClientTransport \/ Drop
       PROVE  UNCHANGED DoorbellVars
  BY <1>13 DEF ClientNetwork, ClientOnClose, ReceiveData, PushFrame, RingClient,
     ReceiveReply, ClientTransport, ClientWaitDrain, ClientPick, ClientCheck,
     ClientPeek, ClientConsume, ClientRefuse, Drop, writerVars, serverVars,
     DoorbellVars
<1>14. CASE UNCHANGED vars
  BY <1>0, <1>14 DEF vars, DoorbellVars
<1> QED
  BY <1>0, <1>1, <1>2, <1>3, <1>4, <1>5, <1>6, <1>7, <1>8, <1>9, <1>10, <1>11,
     <1>12, <1>13, <1>14 DEF Next, ServerTransport, ServerNetwork

LEMMA DoorbellInductive == Init /\ [][Next]_vars => []DoorbellInv
<1>1. Init => DoorbellInv
  BY DEF Init, DoorbellInv, NoLostDoorbell
<1>2. TypeInv /\ DoorbellInv /\ [Next]_vars => DoorbellInv'
  BY DoorbellStep DEF TypeInv
<1> QED
  BY <1>1, <1>2, TypeInvInductive, PTL

\* RpcServer never loses a wake-up of its transport thread: a message of a
\* subscribed channel is always covered by a doorbell that is pending, being
\* rung or being served, for any number of channels and messages.
THEOREM NoLostDoorbellCorrect == Spec => []NoLostDoorbell
BY DoorbellInductive, PTL DEF Spec, DoorbellInv

-----------------------------------------------------------------------------
(* The client's doorbell *)

\* Entries that are not registered yet stay untouched.
LEMMA EntryStep ==
  ASSUME TypeOK, PopsWhatItShowed, EntryInv, [Next]_vars  PROVE  EntryInv'
<1> USE DEF TypeOK, EntryInv
<1> DEFINE entryVars == <<readCallbacks, connects, queue, canceled, rx, user>>
<1>0. UNCHANGED entryVars => EntryInv'
  OBVIOUS
<1>1. ASSUME NEW c \in Channels, ReceiveData(c) PROVE EntryInv'
  BY <1>1 DEF ReceiveData, userVars, UserTypeOK, NoRx
<1>2. ASSUME NEW c \in Channels, PushFrame(c) PROVE EntryInv'
  <2>1. rx \in Working({"push", "ring"})
    BY <1>2 DEF PushFrame, NetworkTypeOK, NoRx
  <2>2. rx' \in Working({"push", "ring"}) /\ rx'.ch = c /\ rx'.conn = rx.conn
    BY <1>2, <2>1 DEF PushFrame, Working
  <2>3. \A d \in Channels, k \in Conn :
           k > connects[d] => queue'[<<d, k>>] = queue[<<d, k>>]
    BY <1>2, <2>1 DEF PushFrame, NetworkTypeOK, UserTypeOK, Working, Entry, Conn
  <2>4. UNCHANGED <<readCallbacks, connects, canceled, user>>
    BY <1>2 DEF PushFrame, userVars
  <2>5. rx'.conn \leq connects'[rx'.ch]
    BY <1>2, <2>1, <2>2, <2>4 DEF PushFrame
  <2>6. \A d \in Channels : \A k \in Conn :
            k > connects'[d] => queue'[<<d, k>>] = <<>> /\ ~canceled'[<<d, k>>]
    BY <2>3, <2>4
  <2>7. \A d \in Channels : /\ readCallbacks'[d] \leq connects'[d]
                            /\ user'[d] = "erased" => readCallbacks'[d] = 0
                            /\ \A k \in Conn : readCallbacks'[d] = k
                                                => ~canceled'[<<d, k>>]
    BY <2>4
  <2> QED
    BY <2>5, <2>6, <2>7
<1>3. ASSUME NEW c \in Channels, RingClient(c) PROVE EntryInv'
  BY <1>3 DEF RingClient, userVars, NoRx
<1>4. ASSUME NEW c \in Channels, ClientConsume(c) PROVE EntryInv'
  <2>1. ct \in Working({"check", "peek", "call"}) /\ ct.ch = c
    BY <1>4 DEF ClientConsume, TransportTypeOK, NoDrain
  <2>2. queue[<<c, ct.conn>>] # <<>>
    BY <1>4, <2>1 DEF ClientConsume, PopsWhatItShowed
  <2>3. \A d \in Channels, k \in Conn :
           k > connects[d] => queue'[<<d, k>>] = queue[<<d, k>>]
    BY <1>4, <2>1, <2>2 DEF ClientConsume, NetworkTypeOK, Working, Entry
  <2>4. UNCHANGED <<readCallbacks, connects, canceled, user, rx>>
    BY <1>4 DEF ClientConsume, userVars
  <2> QED
    BY <2>3, <2>4
<1>5. ASSUME NEW c \in Channels, Register(c) PROVE EntryInv'
  BY <1>5, PathAssumption DEF Register, UserTypeOK, rxVars, NetworkTypeOK,
     Working, Conn, NoRx
<1>6. ASSUME NEW c \in Channels, CancelEntry(c) PROVE EntryInv'
  BY <1>6 DEF CancelEntry, UserTypeOK, rxVars, Conn, Entry
<1>7. ASSUME NEW c \in Channels, Unregister(c) \/ SubscribeThrows(c)
      PROVE  EntryInv'
  BY <1>7 DEF Unregister, SubscribeThrows, UserTypeOK, rxVars, Conn
<1>8. ASSUME NEW c \in Channels,
             \/ Subscribe(c) \/ SubscribeReturns(c) \/ Nudge(c)
             \/ Unsubscribe(c) \/ DisconnectReturns(c)
      PROVE  EntryInv'
  BY <1>8 DEF Subscribe, SubscribeReturns, Nudge, Unsubscribe,
     DisconnectReturns, UserTypeOK, rxVars
<1>9. ASSUME NEW c \in Channels, User(c) PROVE EntryInv'
  BY <1>0, <1>5, <1>6, <1>7, <1>8, <1>9 DEF User, UserInside, CallTimeout, rxVars
<1>10. ASSUME ClientNetwork PROVE EntryInv'
  BY <1>0, <1>1, <1>2, <1>3, <1>10 DEF ClientNetwork, ClientOnClose, ReceiveReply,
     rxVars
<1>11. ASSUME ClientTransport PROVE EntryInv'
  BY <1>0, <1>4, <1>11 DEF ClientTransport, ClientWaitDrain, ClientPick,
     ClientCheck, ClientPeek, ClientRefuse, rxVars, userVars
<1>12. ASSUME NEW c \in Channels, Write(c) \/ RingDoorbell(c) PROVE EntryInv'
  BY <1>0, <1>12 DEF Write, RingDoorbell, rxVars, userVars
<1>13. ASSUME ServerTransport \/ ServerNetwork \/ Drop
       PROVE  UNCHANGED entryVars
  BY <1>13 DEF ServerTransport, ServerWaitDrain, ServerPick, ServerSend,
     ServerLeave, ServerNetwork, ServerOnClose, ServerSubscribe,
     ServerSubscribeAck, ServerSubscribeKick, ServerUnsubscribe, Drop,
     rxVars, userVars
<1>14. CASE UNCHANGED vars
  BY <1>0, <1>14 DEF vars
<1> QED
  BY <1>0, <1>9, <1>10, <1>11, <1>12, <1>13, <1>14 DEF Next

\* A message in a registered entry's queue never waits for a wake-up that
\* nobody is going to give.
LEMMA WakeupStep ==
  ASSUME TypeOK, PopsWhatItShowed, WakeupInv, [Next]_vars
  PROVE  NoLostWakeup'
<1> USE DEF TypeOK, NoLostWakeup
<1> DEFINE wakeVars == <<readCallbacks, queue, rx, cReady, cBatch, cRetry, ct>>
<1>n. NoLostWakeup
  BY DEF WakeupInv
<1>0. UNCHANGED wakeVars => NoLostWakeup'
  BY <1>n
<1>1. ASSUME NEW c \in Channels, ReceiveData(c) PROVE NoLostWakeup'
  BY <1>n, <1>1 DEF ReceiveData, userVars, drainVars, NoRx
<1>2. ASSUME NEW c \in Channels, PushFrame(c) PROVE NoLostWakeup'
  <2>1. rx \in Working({"push", "ring"}) /\ rx.ch = c
    BY <1>2 DEF PushFrame, NetworkTypeOK, NoRx
  <2>2. rx'.pc = "ring" /\ rx'.ch = c
    BY <1>2, <2>1 DEF PushFrame, Working
  <2>3. \A d \in Channels, k \in Conn :
           d # c => queue'[<<d, k>>] = queue[<<d, k>>]
    BY <1>2, <2>1 DEF PushFrame, NetworkTypeOK, Working, Entry
  <2>4. UNCHANGED <<readCallbacks, cReady, cBatch, cRetry, ct>>
    BY <1>2 DEF PushFrame, userVars, drainVars
  <2>5. ~(rx.pc = "ring")
    BY <1>2 DEF PushFrame
  <2> QED
    BY <1>n, <2>2, <2>3, <2>4, <2>5
<1>3. ASSUME NEW c \in Channels, RingClient(c) PROVE NoLostWakeup'
  BY <1>n, <1>3 DEF RingClient, userVars, drainVars, NoRx
<1>4. ASSUME ClientWaitDrain PROVE NoLostWakeup'
  BY <1>n, <1>4 DEF ClientWaitDrain, userVars, rxVars, NoDrain
<1>5. ASSUME NEW c \in Channels, ClientPick(c) PROVE NoLostWakeup'
  <2>1. UNCHANGED <<readCallbacks, queue, rx, cReady, cRetry>>
        /\ cBatch' = cBatch \ {c} /\ ct.pc = "idle"
    BY <1>5 DEF ClientPick, userVars, rxVars, NoDrain
  <2>2. readCallbacks[c] # 0 =>
           ct'.pc # "idle" /\ ct'.ch = c /\ ct'.conn = readCallbacks[c]
    BY <1>5 DEF ClientPick
  <2>3. \A k \in Conn : k # 0
    BY PathAssumption DEF Conn
  <2> QED
    BY <1>n, <2>1, <2>2, <2>3
<1>6. ASSUME NEW c \in Channels, ClientCheck(c) PROVE NoLostWakeup'
  <2>1. ct \in Working({"check", "peek", "call"}) /\ ct.ch = c
    BY <1>6 DEF ClientCheck, TransportTypeOK, NoDrain
  <2>2. UNCHANGED <<readCallbacks, queue, rx, cReady, cBatch, cRetry>>
    BY <1>6 DEF ClientCheck, userVars, rxVars
  <2>3. CASE canceled[<<c, ct.conn>>]
    <3>1. readCallbacks[c] # ct.conn
      BY <2>1, <2>3 DEF WakeupInv, EntryInv, Working
    <3> QED
      BY <1>n, <2>1, <2>2, <3>1
  <2>4. CASE ~canceled[<<c, ct.conn>>]
    <3>1. ct' = [ct EXCEPT !.pc = "peek"]
      BY <1>6, <2>4 DEF ClientCheck
    <3>2. ct'.pc # "idle" /\ ct'.ch = ct.ch /\ ct'.conn = ct.conn
      BY <2>1, <3>1 DEF Working
    <3> QED
      BY <1>n, <2>2, <3>2
  <2> QED
    BY <2>3, <2>4
<1>7. ASSUME NEW c \in Channels, ClientPeek(c) PROVE NoLostWakeup'
  <2>1. ct \in Working({"check", "peek", "call"}) /\ ct.ch = c
    BY <1>7 DEF ClientPeek, TransportTypeOK, NoDrain
  <2>2. UNCHANGED <<readCallbacks, queue, rx, cReady, cBatch, cRetry>>
    BY <1>7 DEF ClientPeek, userVars, rxVars
  <2>3. CASE queue[<<c, ct.conn>>] = <<>>
    BY <1>n, <2>1, <2>2, <2>3
  <2>4. CASE queue[<<c, ct.conn>>] # <<>>
    <3>1. ct' = [ct EXCEPT !.pc = "call", !.msg = Head(queue[<<c, ct.conn>>])]
      BY <1>7, <2>4 DEF ClientPeek
    <3>2. ct'.pc # "idle" /\ ct'.ch = ct.ch /\ ct'.conn = ct.conn
      BY <2>1, <3>1 DEF Working
    <3> QED
      BY <1>n, <2>2, <3>2
  <2> QED
    BY <2>3, <2>4
<1>8. ASSUME NEW c \in Channels, ClientConsume(c) PROVE NoLostWakeup'
  <2>1. ct \in Working({"check", "peek", "call"}) /\ ct.ch = c
    BY <1>8 DEF ClientConsume, TransportTypeOK, NoDrain
  <2>2. UNCHANGED <<readCallbacks, rx, cReady, cBatch, cRetry>>
    BY <1>8 DEF ClientConsume, userVars
  <2>3. \A d \in Channels, k \in Conn :
           <<d, k>> # <<c, ct.conn>> => queue'[<<d, k>>] = queue[<<d, k>>]
    BY <1>8, <2>1 DEF ClientConsume, NetworkTypeOK, Working, Entry
  <2>4. ct'.pc # "idle" /\ ct'.ch = ct.ch /\ ct'.conn = ct.conn
    BY <1>8, <2>1 DEF ClientConsume, Working
  <2> QED
    BY <1>n, <2>1, <2>2, <2>3, <2>4
<1>9. ASSUME NEW c \in Channels, ClientRefuse(c) PROVE NoLostWakeup'
  BY <1>n, <1>9 DEF ClientRefuse, userVars, rxVars
<1>10. ASSUME NEW c \in Channels, Register(c) PROVE NoLostWakeup'
  <2>1. \A k \in Conn : readCallbacks'[c] = k => queue'[<<c, k>>] = <<>>
    BY <1>10, PathAssumption
       DEF Register, WakeupInv, EntryInv, UserTypeOK, rxVars, Conn
  <2>2. \A d \in Channels : d # c => readCallbacks'[d] = readCallbacks[d]
    BY <1>10 DEF Register, UserTypeOK
  <2>3. UNCHANGED <<queue, rx, cReady, cBatch, cRetry, ct>>
    BY <1>10 DEF Register, rxVars, drainVars
  <2> QED
    BY <1>n, <2>1, <2>2, <2>3
<1>11. ASSUME NEW c \in Channels, Unregister(c) \/ SubscribeThrows(c)
       PROVE  NoLostWakeup'
  <2>1. readCallbacks' = [readCallbacks EXCEPT ![c] = 0]
        /\ UNCHANGED <<queue, rx, cReady, cBatch, cRetry, ct>>
    BY <1>11 DEF Unregister, SubscribeThrows, rxVars, drainVars
  <2>2. /\ readCallbacks'[c] = 0
        /\ \A d \in Channels : d # c => readCallbacks'[d] = readCallbacks[d]
    BY <2>1 DEF UserTypeOK
  <2>3. \A k \in Conn : k # 0
    BY PathAssumption DEF Conn
  <2> QED
    BY <1>n, <2>1, <2>2, <2>3
<1>12. ASSUME NEW c \in Channels, Nudge(c) PROVE NoLostWakeup'
  BY <1>n, <1>12 DEF Nudge, rxVars, drainVars
<1>13. ASSUME NEW c \in Channels, User(c) PROVE NoLostWakeup'
  BY <1>0, <1>10, <1>11, <1>12, <1>13 DEF User, UserInside, CallTimeout,
     Subscribe, SubscribeReturns, CancelEntry, Unsubscribe, DisconnectReturns,
     rxVars, drainVars
<1>14. ASSUME ClientNetwork PROVE NoLostWakeup'
  BY <1>0, <1>1, <1>2, <1>3, <1>14 DEF ClientNetwork, ClientOnClose,
     ReceiveReply, rxVars, drainVars
<1>15. ASSUME ClientTransport PROVE NoLostWakeup'
  BY <1>4, <1>5, <1>6, <1>7, <1>8, <1>9, <1>15 DEF ClientTransport
<1>16. ASSUME NEW c \in Channels, Write(c) \/ RingDoorbell(c)
       PROVE  UNCHANGED wakeVars
  BY <1>16 DEF Write, RingDoorbell, rxVars, userVars, drainVars
<1>17. ASSUME ServerTransport \/ ServerNetwork \/ Drop
       PROVE  UNCHANGED wakeVars
  BY <1>17 DEF ServerTransport, ServerWaitDrain, ServerPick, ServerSend,
     ServerLeave, ServerNetwork, ServerOnClose, ServerSubscribe,
     ServerSubscribeAck, ServerSubscribeKick, ServerUnsubscribe, Drop,
     rxVars, userVars, drainVars
<1>18. CASE UNCHANGED vars
  BY <1>0, <1>18 DEF vars
<1> QED
  BY <1>0, <1>13, <1>14, <1>15, <1>16, <1>17, <1>18 DEF Next

LEMMA WakeupInductive == Init /\ [][Next]_vars => []WakeupInv
<1>1. Init => WakeupInv
  BY PathAssumption DEF Init, WakeupInv, EntryInv, NoLostWakeup, NoRx, Conn, Entry
<1>2. TypeInv /\ WakeupInv /\ [Next]_vars => WakeupInv'
  BY EntryStep, WakeupStep DEF TypeInv, WakeupInv
<1> QED
  BY <1>1, <1>2, TypeInvInductive, PTL

\* RpcClient never loses a wake-up of its transport thread either, with
\* callbacks that refuse, and ports that are disconnected and connected again
\* at any point.
THEOREM NoLostWakeupCorrect == Spec => []NoLostWakeup
BY WakeupInductive, PTL DEF Spec, WakeupInv

-----------------------------------------------------------------------------
(* The order of frames on the WebSocket: the unsubscribe-ack is the last     *)
(* frame of its channel, and a connected port is subscribed at the server.   *)


-----------------------------------------------------------------------------
(* What one step does to the wire *)

\* Receiving takes the first frame and moves the others up.
LEMMA ReceiveFacts ==
  ASSUME WireTypeOK, down # <<>>, down' = Tail(down)
  PROVE  /\ \A i \in 1..Len(down') : i + 1 \in 1..Len(down) /\ down'[i] = down[i + 1]
         /\ Len(down) \in Nat /\ Len(down') \in Nat
<1>1. down \in Seq(Frames)
  BY DEF WireTypeOK
<1> QED
  BY <1>1, HeadTail

\* The server handles the first request.
LEMMA HandleFacts ==
  ASSUME WireTypeOK, up # <<>>, up' = Tail(up)
  PROVE  /\ \A i \in 1..Len(up') : i + 1 \in 1..Len(up) /\ up'[i] = up[i + 1]
         /\ 1 \in 1..Len(up) /\ Head(up) = up[1] /\ Head(up) \in Requests
         /\ Len(up) \in Nat /\ Len(up') \in Nat
<1>1. up \in Seq(Requests)
  BY DEF WireTypeOK
<1> QED
  BY <1>1, HeadTail

\* A call sends its request behind the others, under a fresh id.
LEMMA StartCallFacts ==
  ASSUME WireTypeOK, UserTypeOK, NEW c \in Channels,
         NEW m \in {"subscribe", "unsubscribe"}, StartCall(c, m)
  PROVE  /\ \A i \in 1..Len(up') :
               \/ i \in 1..Len(up) /\ up'[i] = up[i]
               \/ i = Len(up) + 1 /\ up'[i] = Request(m, c, call[c].n + 1)
         /\ Len(up) \in Nat /\ Len(up') \in Nat
         /\ call'[c].n = call[c].n + 1
         /\ call'[c].state \in {"waiting", "error"}
         /\ \A d \in Channels : d # c => call'[d] = call[d]
         /\ \A d \in Channels : call[d].n \in Nat
<1>1. up \in Seq(Requests) /\ Request(m, c, call[c].n + 1) \in Requests
  BY DEF WireTypeOK, UserTypeOK, Request, Requests
<1>2. /\ call'[c].n = call[c].n + 1
      /\ call'[c].state \in {"waiting", "error"}
      /\ \A d \in Channels : d # c => call'[d] = call[d]
      /\ \A d \in Channels : call[d].n \in Nat
  BY DEF StartCall, UserTypeOK
<1>3. CASE wsOpen
  <2>1. up' = Append(up, Request(m, c, call[c].n + 1))
    BY <1>3 DEF StartCall
  <2> QED
    BY <1>1, <1>2, <2>1
<1>4. CASE ~wsOpen
  <2>1. up' = up
    BY <1>4 DEF StartCall
  <2> QED
    BY <1>1, <1>2, <2>1
<1> QED
  BY <1>3, <1>4

-----------------------------------------------------------------------------
(* Which steps touch the wire *)

\* The ids of the newest requests stay, except when a call starts.
SameIds == \A c \in Channels : call'[c].n = call[c].n

\* Steps that leave requests, frames, handler and subscriptions alone.
NoWireStep == /\ UNCHANGED <<up, down, handler, subscribed>>
              /\ SameIds

LEMMA WireCases ==
  ASSUME TypeOK, [Next]_vars
  PROVE  \/ \E c \in Channels : \/ ServerSend(c) \/ ServerSubscribe(c)
                                \/ ServerSubscribeAck(c) \/ ServerSubscribeKick(c)
                                \/ ServerUnsubscribe(c)
                                \/ ReceiveData(c) \/ ReceiveReply(c)
                                \/ Subscribe(c) \/ Unsubscribe(c)
         \/ ServerOnClose \/ Drop
         \/ NoWireStep
<1>1. ASSUME NEW c \in Channels, CallTimeout(c) PROVE NoWireStep
  BY <1>1 DEF CallTimeout, NoWireStep, SameIds, wireVars, serverVars, TypeOK,
     UserTypeOK
<1>2. ASSUME ClientOnClose PROVE NoWireStep
  BY <1>2 DEF ClientOnClose, NoWireStep, SameIds, wireVars, serverVars, TypeOK,
     UserTypeOK
<1>3. ASSUME NEW c \in Channels,
             \/ Write(c) \/ RingDoorbell(c)
             \/ Register(c) \/ Unregister(c)
             \/ SubscribeReturns(c) \/ SubscribeThrows(c)
             \/ CancelEntry(c) \/ Nudge(c) \/ DisconnectReturns(c)
      PROVE  NoWireStep
  BY <1>3 DEF Write, RingDoorbell, Register, Unregister, SubscribeReturns,
     SubscribeThrows, CancelEntry, Nudge, DisconnectReturns, NoWireStep,
     SameIds, wireVars, serverVars, userVars
<1>4. ASSUME NEW c \in Channels,
             \/ ServerPick(c) \/ ServerLeave(c) \/ PushFrame(c) \/ RingClient(c)
      PROVE  NoWireStep
  BY <1>4 DEF ServerPick, ServerLeave, PushFrame, RingClient, NoWireStep,
     SameIds, wireVars, serverVars, userVars
<1>5. ASSUME ServerWaitDrain \/ ClientTransport PROVE NoWireStep
  BY <1>5 DEF ServerWaitDrain, ClientTransport, ClientWaitDrain, ClientPick,
     ClientCheck, ClientPeek, ClientConsume, ClientRefuse, NoWireStep, SameIds,
     wireVars, serverVars, userVars
<1>6. CASE UNCHANGED vars
  BY <1>6 DEF vars, NoWireStep, SameIds
<1> QED
  BY <1>1, <1>2, <1>3, <1>4, <1>5, <1>6
     DEF Next, User, UserInside, ServerTransport, ServerNetwork, ClientNetwork

-----------------------------------------------------------------------------
(* The order of requests *)

\* A step that starts no call consumes the first request, loses them all, or
\* leaves them alone.
NoCallStarts == /\ SameIds
                /\ up' = up \/ up' = <<>> \/ (up # <<>> /\ up' = Tail(up))

CallStarts == \E c \in Channels, m \in {"subscribe", "unsubscribe"} : StartCall(c, m)

LEMMA UpCases ==
  ASSUME TypeOK, [Next]_vars  PROVE  NoCallStarts \/ CallStarts
<1>1. ASSUME NEW c \in Channels,
             \/ ServerSend(c) \/ ServerSubscribeAck(c) \/ ServerSubscribeKick(c)
             \/ ReceiveData(c)
      PROVE  NoCallStarts
  BY <1>1 DEF ServerSend, ServerSubscribeAck, ServerSubscribeKick, ReceiveData,
     userVars, wireVars, SameIds, NoCallStarts
<1>5. ASSUME NEW c \in Channels, ServerSubscribe(c) \/ ServerUnsubscribe(c)
      PROVE  NoCallStarts
  BY <1>5 DEF ServerSubscribe, ServerUnsubscribe, userVars, SameIds, NoCallStarts
<1>2. ASSUME NEW c \in Channels, ReceiveReply(c) PROVE NoCallStarts
  BY <1>2 DEF ReceiveReply, NoCallStarts, SameIds, TypeOK, UserTypeOK
<1>3. ASSUME ServerOnClose \/ Drop PROVE NoCallStarts
  BY <1>3 DEF ServerOnClose, Drop, userVars, wireVars, SameIds, NoCallStarts
<1>4. ASSUME NEW c \in Channels, Subscribe(c) \/ Unsubscribe(c)
      PROVE  CallStarts
  BY <1>4 DEF Subscribe, Unsubscribe, CallStarts
<1>6. CASE NoWireStep
  BY <1>6 DEF NoWireStep, NoCallStarts
<1> QED
  BY WireCases, <1>1, <1>2, <1>3, <1>4, <1>5, <1>6

\* The requests on the wire are requests.
LEMMA UpFacts ==
  ASSUME WireTypeOK
  PROVE  /\ up \in Seq(Requests) /\ Len(up) \in Nat
         /\ \A i \in 1..Len(up) : up[i].ch \in Channels /\ up[i].n \in Nat
<1>1. up \in Seq(Requests)
  BY DEF WireTypeOK
<1>2. ASSUME NEW i \in 1..Len(up) PROVE up[i].ch \in Channels /\ up[i].n \in Nat
  <2>1. up[i] \in Requests
    BY <1>1
  <2> QED
    BY <2>1 DEF Requests
<1> QED
  BY <1>1, <1>2

\* Requests keep their order, and their ids grow.
LEMMA RequestStep ==
  ASSUME TypeOK, RequestsInOrder, [Next]_vars
  PROVE  RequestsInOrder'
<1> USE DEF RequestsInOrder
<1>0. up \in Seq(Requests) /\ Len(up) \in Nat
      /\ \A i \in 1..Len(up) : up[i].ch \in Channels /\ up[i].n \in Nat
  BY UpFacts DEF TypeOK
<1>1. CASE SameIds /\ up' = up
  BY <1>0, <1>1 DEF SameIds
<1>2. CASE up' = <<>>
  BY <1>2
<1>3. CASE SameIds /\ up # <<>> /\ up' = Tail(up)
  <2>1. /\ \A i \in 1..Len(up') : i + 1 \in 1..Len(up) /\ up'[i] = up[i + 1]
        /\ Len(up') \in Nat
    BY <1>3, HandleFacts DEF TypeOK
  <2>2. \A i \in 1..Len(up') : up'[i].n \leq call'[up'[i].ch].n
    BY <1>0, <1>3, <2>1 DEF SameIds
  <2>3. ASSUME NEW i \in 1..Len(up'), NEW j \in 1..Len(up'), i < j,
               up'[i].ch = up'[j].ch
        PROVE  up'[i].n < up'[j].n
    <3>1. i + 1 < j + 1 /\ i + 1 \in 1..Len(up) /\ j + 1 \in 1..Len(up)
      BY <2>1, <2>3
    <3> QED
      BY <2>1, <2>3, <3>1
  <2> QED
    BY <2>2, <2>3
<1>4. ASSUME NEW c \in Channels, NEW m \in {"subscribe", "unsubscribe"}, StartCall(c, m)
      PROVE  RequestsInOrder'
  <2> DEFINE new == Request(m, c, call[c].n + 1)
  <2>1. /\ \A i \in 1..Len(up') :
              \/ i \in 1..Len(up) /\ up'[i] = up[i]
              \/ i = Len(up) + 1 /\ up'[i] = new
        /\ Len(up') \in Nat
        /\ call'[c].n = call[c].n + 1
        /\ \A d \in Channels : d # c => call'[d] = call[d]
        /\ \A d \in Channels : call[d].n \in Nat
    BY <1>4, StartCallFacts DEF TypeOK
  <2>2. new.ch = c /\ new.n = call[c].n + 1
    BY DEF Request
  <2> HIDE DEF new
  <2>3. ASSUME NEW i \in 1..Len(up') PROVE up'[i].n \leq call'[up'[i].ch].n
    <3>1. CASE i \in 1..Len(up) /\ up'[i] = up[i]
      <4>1. up[i].ch \in Channels /\ up[i].n \in Nat /\ up[i].n \leq call[up[i].ch].n
        BY <1>0, <3>1
      <4>2. call[up[i].ch].n \leq call'[up[i].ch].n
        BY <2>1, <4>1
      <4>3. call[up[i].ch].n \in Nat /\ call'[up[i].ch].n \in Nat
        BY <2>1, <4>1
      <4> QED
        BY <3>1, <4>1, <4>2, <4>3
    <3>2. CASE up'[i] = new
      BY <2>1, <2>2, <3>2
    <3> QED
      BY <2>1, <3>1, <3>2
  <2>4. ASSUME NEW i \in 1..Len(up'), NEW j \in 1..Len(up'), i < j,
               up'[i].ch = up'[j].ch
        PROVE  up'[i].n < up'[j].n
    <3>1. i \in 1..Len(up) /\ up'[i] = up[i]
      BY <1>0, <2>1, <2>4
    <3>2. CASE j \in 1..Len(up) /\ up'[j] = up[j]
      BY <2>4, <3>1, <3>2
    <3>3. CASE up'[j] = new
      <4>1. up[i].ch = c /\ up[i].n \leq call[c].n /\ up[i].n \in Nat
        BY <1>0, <2>2, <2>4, <3>1, <3>3
      <4> QED
        BY <2>1, <2>2, <3>1, <3>3, <4>1
    <3> QED
      BY <2>1, <3>2, <3>3
  <2> QED
    BY <2>3, <2>4
<1> QED
  BY UpCases, <1>1, <1>2, <1>3, <1>4 DEF NoCallStarts, CallStarts

-----------------------------------------------------------------------------
(* The order of frames *)

\* What is left of the frames on the wire is the end of them, in order.
FramesKept ==
    \E k \in {0, 1} : \A i \in 1..Len(down') :
        i + k \in 1..Len(down) /\ down'[i] = down[i + k]

FrameSent(f) ==
    \A i \in 1..Len(down') :
        \/ i \in 1..Len(down) /\ down'[i] = down[i]
        \/ i = Len(down) + 1 /\ down'[i] = f

\* Data goes out on subscribed channels only; "unsubscribed" is the answer of
\* handleUnsubscribe to the first request, "subscribed" that of a handler in
\* handleSubscribe; no answer is from the future.
DataSent == \E c \in subscribed, m \in Nat : FrameSent(Data(c, m))

ReplySent ==
    \E c \in Channels, n \in Nat, k \in ReplyKind :
        /\ FrameSent(Reply(k, c, n))
        /\ n \leq call[c].n
        /\ k = "unsubscribed" => ServerUnsubscribe(c) /\ n = Head(up).n
        /\ k = "subscribed" => handler = [pc |-> "ack", ch |-> c, n |-> n]

IdsGrow ==
    \A c \in Channels : /\ call[c].n \in Nat /\ call'[c].n \in Nat
                        /\ call[c].n \leq call'[c].n

\* Request ids of a channel never go back.
LEMMA IdsGrowStep ==
  ASSUME TypeOK, [Next]_vars  PROVE  IdsGrow
<1>1. \A c \in Channels : call[c].n \in Nat
  BY DEF TypeOK, UserTypeOK
<1>2. CASE SameIds
  BY <1>1, <1>2 DEF SameIds, IdsGrow
<1>3. ASSUME NEW c \in Channels, NEW m \in {"subscribe", "unsubscribe"}, StartCall(c, m)
      PROVE  IdsGrow
  <2>1. /\ call'[c].n = call[c].n + 1
        /\ \A d \in Channels : d # c => call'[d] = call[d]
    BY <1>3, StartCallFacts DEF TypeOK
  <2> QED
    BY <1>1, <2>1 DEF IdsGrow
<1> QED
  BY UpCases, <1>2, <1>3 DEF NoCallStarts, CallStarts

\* The frames on the wire are frames.
LEMMA DownFacts ==
  ASSUME WireTypeOK
  PROVE  /\ down \in Seq(Frames) /\ Len(down) \in Nat
         /\ \A i \in 1..Len(down) : down[i].ch \in Channels /\ down[i].n \in Nat
<1>1. down \in Seq(Frames)
  BY DEF WireTypeOK
<1>2. ASSUME NEW i \in 1..Len(down) PROVE down[i].ch \in Channels /\ down[i].n \in Nat
  <2>1. down[i] \in Frames
    BY <1>1
  <2> QED
    BY <2>1 DEF Frames
<1> QED
  BY <1>1, <1>2

\* A server's send adds at most one frame, at the end.
LEMMA SendOne ==
  ASSUME WireTypeOK, NEW f \in Frames, Send(f)  PROVE  FrameSent(f)
<1>1. down \in Seq(Frames)
  BY DEF WireTypeOK
<1>2. CASE wsOpen
  <2>1. down' = Append(down, f)
    BY <1>2 DEF Send
  <2> QED
    BY <1>1, <2>1 DEF FrameSent
<1>3. CASE ~wsOpen
  <2>1. down' = down
    BY <1>3 DEF Send
  <2> QED
    BY <1>1, <2>1 DEF FrameSent
<1> QED
  BY <1>2, <1>3

\* Every step keeps the frames, or sends one.
LEMMA FrameCases ==
  ASSUME TypeOK, RequestsInOrder, RepliesInOrder, [Next]_vars
  PROVE  FramesKept \/ DataSent \/ ReplySent
<1>1. CASE down' = down
  BY <1>1, DownFacts DEF FramesKept, TypeOK
<1>2. CASE down' = <<>>
  BY <1>2 DEF FramesKept
<1>3. CASE down # <<>> /\ down' = Tail(down)
  BY <1>3, ReceiveFacts DEF FramesKept, TypeOK
<1>4. ASSUME NEW c \in Channels, ServerSend(c) PROVE DataSent
  <2>1. c \in subscribed /\ Send(Data(c, Head(writeQueue[c])))
    BY <1>4 DEF ServerSend
  <2>2. Head(writeQueue[c]) \in Nat
    BY <1>4, HeadTail DEF ServerSend, TypeOK, QueueTypeOK
  <2>3. Data(c, Head(writeQueue[c])) \in Frames
    BY <2>2 DEF Data, Frames, FrameKind
  <2>4. FrameSent(Data(c, Head(writeQueue[c])))
    BY <2>1, <2>3, SendOne DEF Send, FrameSent, TypeOK
  <2> QED
    BY <2>1, <2>2, <2>4 DEF DataSent
<1>5. ASSUME NEW c \in Channels, NEW n \in Nat, NEW k \in ReplyKind, Send(Reply(k, c, n))
      PROVE  FrameSent(Reply(k, c, n))
  <2>1. Reply(k, c, n) \in Frames
    BY DEF Reply, Frames, FrameKind
  <2> QED
    BY <1>5, <2>1, SendOne DEF Send, FrameSent, TypeOK
<1>6. ASSUME up # <<>>
      PROVE  Head(up).n \in Nat /\ Head(up).ch \in Channels
             /\ Head(up).n \leq call[Head(up).ch].n
  <2>1. Head(up) = up[1] /\ 1 \in 1..Len(up)
    BY <1>6, UpFacts, HeadTail DEF TypeOK
  <2> QED
    BY <2>1, UpFacts DEF TypeOK, RequestsInOrder
<1>7. ASSUME NEW c \in Channels, ServerSubscribe(c) PROVE down' = down \/ ReplySent
  <2>1. /\ up # <<>> /\ Head(up).ch = c
        /\ down' = down \/ Send(Reply("error", c, Head(up).n))
    BY <1>7 DEF ServerSubscribe
  <2>2. ASSUME Send(Reply("error", c, Head(up).n)) PROVE ReplySent
    <3>1. FrameSent(Reply("error", c, Head(up).n))
      BY <2>1, <2>2, <1>5, <1>6 DEF ReplyKind
    <3> QED
      BY <2>1, <1>6, <3>1 DEF ReplySent, ReplyKind
  <2> QED
    BY <2>1, <2>2
<1>8. ASSUME NEW c \in Channels, ServerSubscribeAck(c) PROVE ReplySent
  <2>1. handler.n \in Nat /\ handler.n \leq call[c].n
        /\ handler = [pc |-> "ack", ch |-> c, n |-> handler.n]
    BY <1>8 DEF ServerSubscribeAck, TypeOK, ServerTypeOK, NoHandler, RepliesInOrder
  <2>2. FrameSent(Reply("subscribed", c, handler.n))
    BY <1>5, <1>8, <2>1 DEF ServerSubscribeAck, ReplyKind
  <2> QED
    BY <2>1, <2>2 DEF ReplySent, ReplyKind
<1>9. ASSUME NEW c \in Channels, ServerUnsubscribe(c) PROVE ReplySent
  <2>1. up # <<>> /\ Head(up).ch = c
    BY <1>9 DEF ServerUnsubscribe
  <2>2. PICK k \in {"unsubscribed", "error"} : Send(Reply(k, c, Head(up).n))
    <3>1. CASE session /\ c \in subscribed
      BY <1>9, <3>1 DEF ServerUnsubscribe
    <3>2. CASE ~(session /\ c \in subscribed)
      BY <1>9, <3>2 DEF ServerUnsubscribe
    <3> QED
      BY <3>1, <3>2
  <2>3. FrameSent(Reply(k, c, Head(up).n))
    BY <1>5, <1>6, <2>1, <2>2 DEF ReplyKind
  <2> QED
    BY <1>6, <1>9, <2>1, <2>3 DEF ReplySent, ReplyKind
<1>10. ASSUME NEW c \in Channels, ReceiveData(c) \/ ReceiveReply(c)
       PROVE  down # <<>> /\ down' = Tail(down)
  BY <1>10 DEF ReceiveData, ReceiveReply
<1>11. ASSUME NEW c \in Channels, ServerSubscribeKick(c) \/ Subscribe(c) \/ Unsubscribe(c)
       PROVE  down' = down
  BY <1>11 DEF ServerSubscribeKick, Subscribe, Unsubscribe, wireVars
<1>12. ASSUME ServerOnClose \/ Drop PROVE down' = down \/ down' = <<>>
  BY <1>12 DEF ServerOnClose, Drop, wireVars
<1>13. CASE NoWireStep
  BY <1>1, <1>13 DEF NoWireStep
<1> QED
  BY WireCases, <1>1, <1>2, <1>3, <1>4, <1>7, <1>8, <1>9, <1>10, <1>11, <1>12, <1>13

-----------------------------------------------------------------------------
(* The unsubscribe-ack is the last frame of its channel *)

\* A frame of the next state that carries the newest id of its channel is new,
\* or it carried the newest id before.
LEMMA NewestWasNewest ==
  ASSUME TypeOK, RepliesInOrder, IdsGrow,
         NEW i \in 1..Len(down), down[i].kind \in ReplyKind,
         down[i].n = call'[down[i].ch].n
  PROVE  /\ down[i].n = call[down[i].ch].n
         /\ call'[down[i].ch].n = call[down[i].ch].n
<1>1. down[i].ch \in Channels /\ down[i].n \in Nat
  BY DownFacts DEF TypeOK
<1>2. down[i].n \leq call[down[i].ch].n
  BY DEF RepliesInOrder
<1> QED
  BY <1>1, <1>2 DEF IdsGrow

\* No answer is from the future.
LEMMA RepliesStep ==
  ASSUME TypeOK, RequestsInOrder, RepliesInOrder, [Next]_vars
  PROVE  RepliesInOrder'
<1>0. IdsGrow
  BY IdsGrowStep
<1>1. ASSUME NEW i \in 1..Len(down), down[i].kind \in ReplyKind
      PROVE  down[i].n \leq call'[down[i].ch].n
  <2>1. down[i].ch \in Channels /\ down[i].n \in Nat
    BY DownFacts DEF TypeOK
  <2> QED
    BY <1>0, <1>1, <2>1 DEF RepliesInOrder, IdsGrow
<1>2. \A i \in 1..Len(down') :
         down'[i].kind \in ReplyKind => down'[i].n \leq call'[down'[i].ch].n
  <2>1. CASE FramesKept
    BY <1>1, <2>1 DEF FramesKept
  <2>2. CASE DataSent
    BY <1>1, <2>2 DEF DataSent, FrameSent, Data, ReplyKind
  <2>3. CASE ReplySent
    <3>1. PICK c \in Channels, n \in Nat, k \in ReplyKind :
             FrameSent(Reply(k, c, n)) /\ n \leq call[c].n
      BY <2>3 DEF ReplySent
    <3>2. n \leq call'[c].n
      BY <1>0, <3>1 DEF IdsGrow
    <3> QED
      BY <1>1, <3>1, <3>2 DEF FrameSent, Reply
  <2> QED
    BY <2>1, <2>2, <2>3, FrameCases
<1>3. handler'.pc # "idle" => handler'.n \leq call'[handler'.ch].n
  <2>1. CASE handler' = handler
    BY <1>0, <2>1 DEF RepliesInOrder, IdsGrow, TypeOK, ServerTypeOK, NoHandler
  <2>2. ASSUME NEW c \in Channels, ServerSubscribe(c)
        PROVE  handler' = handler \/ handler'.n \leq call'[handler'.ch].n
    <3>1. up # <<>> /\ Head(up).ch = c /\ UNCHANGED call
      BY <2>2 DEF ServerSubscribe, userVars
    <3>2. Head(up) = up[1] /\ 1 \in 1..Len(up)
      BY <3>1, UpFacts, HeadTail DEF TypeOK
    <3>3. Head(up).n \leq call[c].n
      BY <3>1, <3>2 DEF RequestsInOrder
    <3> QED
      BY <2>2, <3>1, <3>3 DEF ServerSubscribe
  <2>3. ASSUME NEW c \in Channels, ServerSubscribeAck(c)
        PROVE  handler'.n \leq call'[handler'.ch].n
    <3>1. handler.n \leq call[handler.ch].n /\ UNCHANGED call
      BY <2>3 DEF ServerSubscribeAck, RepliesInOrder, userVars
    <3>2. handler \in [pc : {"ack", "kick"}, ch : Channels, n : Nat]
      BY <2>3 DEF ServerSubscribeAck, TypeOK, ServerTypeOK, NoHandler
    <3>3. handler'.n = handler.n /\ handler'.ch = handler.ch
      BY <2>3, <3>2 DEF ServerSubscribeAck
    <3> QED
      BY <3>1, <3>3
  <2>4. ASSUME NEW c \in Channels, ServerSubscribeKick(c) PROVE handler'.pc = "idle"
    BY <2>4 DEF ServerSubscribeKick, NoHandler
  <2>5. ASSUME NEW c \in Channels,
               \/ ServerSend(c) \/ ServerUnsubscribe(c) \/ ReceiveData(c)
               \/ ReceiveReply(c) \/ Subscribe(c) \/ Unsubscribe(c)
        PROVE  handler' = handler
    BY <2>5 DEF ServerSend, ServerUnsubscribe, ReceiveData, ReceiveReply,
       Subscribe, Unsubscribe, serverVars
  <2>6. ASSUME ServerOnClose \/ Drop PROVE handler' = handler
    BY <2>6 DEF ServerOnClose, Drop, serverVars
  <2>7. CASE NoWireStep
    BY <2>1, <2>7 DEF NoWireStep
  <2> QED
    BY WireCases, <2>1, <2>2, <2>3, <2>4, <2>5, <2>6, <2>7
<1> QED
  BY <1>2, <1>3 DEF RepliesInOrder

\* After this step the server has nothing of channel d to handle.
SettledNext(d) ==
    /\ d \notin subscribed'
    /\ \A i \in 1..Len(up') : up'[i].ch # d
    /\ handler'.pc # "idle" => handler'.ch # d

\* The server does not resume a channel on its own.
LEMMA SettledStays ==
  ASSUME TypeOK, [Next]_vars, NEW d \in Channels,
         d \notin subscribed, Quiet(d), call'[d].n = call[d].n
  PROVE  d \notin subscribed' /\ Quiet(d)'
<1>0. up \in Seq(Requests) /\ Len(up) \in Nat
  BY UpFacts DEF TypeOK
<1>1. ASSUME \A i \in 1..Len(up') : up'[i].ch # d,
             handler'.pc # "idle" => handler'.ch # d
      PROVE  Quiet(d)'
  BY <1>1 DEF Quiet
<1>2. CASE /\ UNCHANGED <<up, handler>> \/ (up' = <<>> /\ UNCHANGED handler)
           /\ subscribed' \subseteq subscribed
  BY <1>2 DEF Quiet
<1>3. ASSUME up # <<>>, up' = Tail(up)
      PROVE  Head(up).ch # d /\ \A i \in 1..Len(up') : up'[i].ch # d
  BY <1>3, HandleFacts DEF TypeOK, Quiet
<1>4. ASSUME NEW c \in Channels, ServerSend(c) \/ ReceiveData(c) \/ ReceiveReply(c)
      PROVE  UNCHANGED <<up, handler, subscribed>>
  BY <1>4 DEF ServerSend, ReceiveData, ReceiveReply, serverVars
<1>5. ASSUME NEW c \in Channels, ServerSubscribe(c)
      PROVE  d \notin subscribed' /\ Quiet(d)'
  <2>1. c # d
    BY <1>3, <1>5 DEF ServerSubscribe
  <2>2. d \notin subscribed' /\ (handler'.pc # "idle" => handler'.ch # d)
    BY <1>5, <2>1 DEF ServerSubscribe, Quiet
  <2> QED
    BY <1>3, <1>5, <2>2, <1>1 DEF ServerSubscribe
<1>6. ASSUME NEW c \in Channels, ServerUnsubscribe(c)
      PROVE  d \notin subscribed' /\ Quiet(d)'
  <2>1. d \notin subscribed' /\ handler' = handler /\ up # <<>> /\ up' = Tail(up)
    BY <1>6 DEF ServerUnsubscribe
  <2> QED
    BY <1>3, <2>1, <1>1 DEF Quiet
<1>7. ASSUME NEW c \in Channels, ServerSubscribeAck(c) \/ ServerSubscribeKick(c)
      PROVE  d \notin subscribed' /\ Quiet(d)'
  <2>1. UNCHANGED <<subscribed, up>>
    BY <1>7 DEF ServerSubscribeAck, ServerSubscribeKick, wireVars
  <2>2. handler.pc # "idle" /\ handler \in [pc : {"ack", "kick"}, ch : Channels, n : Nat]
    BY <1>7 DEF ServerSubscribeAck, ServerSubscribeKick, TypeOK, ServerTypeOK, NoHandler
  <2>3. handler'.pc # "idle" => handler'.ch = handler.ch
    BY <1>7, <2>2 DEF ServerSubscribeAck, ServerSubscribeKick, NoHandler
  <2> QED
    BY <2>1, <2>2, <2>3 DEF Quiet
<1>8. ASSUME NEW c \in Channels, Subscribe(c) \/ Unsubscribe(c)
      PROVE  d \notin subscribed' /\ Quiet(d)'
  <2>1. PICK m \in {"subscribe", "unsubscribe"} : StartCall(c, m)
    BY <1>8 DEF Subscribe, Unsubscribe
  <2>2. UNCHANGED <<subscribed, handler>>
    BY <1>8 DEF Subscribe, Unsubscribe, serverVars
  <2>3. /\ \A i \in 1..Len(up') :
              \/ i \in 1..Len(up) /\ up'[i] = up[i]
              \/ i = Len(up) + 1 /\ up'[i] = Request(m, c, call[c].n + 1)
        /\ call'[c].n = call[c].n + 1 /\ call[c].n \in Nat
    BY <2>1, StartCallFacts DEF TypeOK
  <2>4. c # d
    BY <2>3
  <2>5. \A i \in 1..Len(up') : up'[i].ch # d
    BY <2>3, <2>4 DEF Quiet, Request
  <2> QED
    BY <1>1, <2>2, <2>5 DEF Quiet
<1>9. ASSUME ServerOnClose \/ Drop
      PROVE  /\ UNCHANGED handler
             /\ UNCHANGED up \/ up' = <<>>
             /\ subscribed' \subseteq subscribed
  BY <1>9 DEF ServerOnClose, Drop, wireVars, serverVars
<1>10. CASE NoWireStep
  BY <1>2, <1>10 DEF NoWireStep
<1> QED
  BY WireCases, <1>2, <1>4, <1>5, <1>6, <1>7, <1>8, <1>9, <1>10

\* After the newest request of a channel has been answered "unsubscribed",
\* neither a request nor a subscription of the channel is left.
LEMMA SettledStep ==
  ASSUME TypeOK, RequestsInOrder, RepliesInOrder, UnsubscribedIsSettled, [Next]_vars
  PROVE  UnsubscribedIsSettled'
<1>0. IdsGrow
  BY IdsGrowStep
<1>1. ASSUME NEW i \in 1..Len(down), down[i].kind = "unsubscribed",
             down[i].n = call'[down[i].ch].n
      PROVE  SettledNext(down[i].ch)
  <2>1. down[i].ch \in Channels
    BY DownFacts DEF TypeOK
  <2>2. down[i].n = call[down[i].ch].n /\ call'[down[i].ch].n = call[down[i].ch].n
    BY <1>0, <1>1, NewestWasNewest DEF ReplyKind
  <2>3. down[i].ch \notin subscribed /\ Quiet(down[i].ch)
    BY <1>1, <2>2 DEF UnsubscribedIsSettled
  <2> QED
    BY <2>1, <2>2, <2>3, SettledStays DEF SettledNext, Quiet
<1>2. ASSUME NEW c \in Channels, ServerUnsubscribe(c), Head(up).n = call'[c].n
      PROVE  SettledNext(c)
  <2>1. /\ c \notin subscribed' /\ handler' = NoHandler
        /\ up # <<>> /\ Head(up).ch = c /\ up' = Tail(up) /\ UNCHANGED call
    BY <1>2 DEF ServerUnsubscribe, userVars
  <2>2. /\ \A i \in 1..Len(up') : i + 1 \in 1..Len(up) /\ up'[i] = up[i + 1]
        /\ 1 \in 1..Len(up) /\ Head(up) = up[1] /\ Len(up') \in Nat
    BY <2>1, HandleFacts DEF TypeOK
  <2>3. ASSUME NEW i \in 1..Len(up'), up'[i].ch = c PROVE FALSE
    <3>1. i + 1 \in 1..Len(up) /\ up[i + 1].ch = c /\ 1 < i + 1 /\ up[1].ch = c
      BY <2>1, <2>2, <2>3
    <3>2. up[1].n < up[i + 1].n /\ up[i + 1].n \leq call[c].n
      BY <2>2, <3>1 DEF RequestsInOrder
    <3>3. up[1].n = call[c].n /\ up[i + 1].n \in Nat /\ call[c].n \in Nat
      BY <1>2, <2>1, <2>2, <3>1, UpFacts DEF TypeOK, UserTypeOK
    <3> QED
      BY <3>2, <3>3
  <2> QED
    BY <2>1, <2>3 DEF SettledNext, NoHandler
<1>3. ASSUME NEW i \in 1..Len(down'), down'[i].kind = "unsubscribed",
             down'[i].n = call'[down'[i].ch].n
      PROVE  SettledNext(down'[i].ch)
  <2>1. CASE FramesKept
    BY <1>1, <1>3, <2>1 DEF FramesKept
  <2>2. CASE DataSent
    BY <1>1, <1>3, <2>2 DEF DataSent, FrameSent, Data
  <2>3. CASE ReplySent
    <3>1. PICK c \in Channels, n \in Nat, k \in ReplyKind :
             /\ FrameSent(Reply(k, c, n))
             /\ k = "unsubscribed" => ServerUnsubscribe(c) /\ n = Head(up).n
      BY <2>3 DEF ReplySent
    <3>2. CASE down'[i] = Reply(k, c, n)
      <4>1. down'[i].ch = c /\ ServerUnsubscribe(c) /\ Head(up).n = call'[c].n
        BY <1>3, <3>1, <3>2 DEF Reply
      <4> QED
        BY <1>2, <4>1
    <3>3. CASE i \in 1..Len(down) /\ down'[i] = down[i]
      BY <1>1, <1>3, <3>3
    <3> QED
      BY <3>1, <3>2, <3>3 DEF FrameSent
  <2> QED
    BY <2>1, <2>2, <2>3, FrameCases
<1> QED
  BY <1>3 DEF UnsubscribedIsSettled, SettledNext, Quiet

\* Data goes out on subscribed channels only, so never behind such an answer.
LEMMA AckLastStep ==
  ASSUME TypeOK, RequestsInOrder, RepliesInOrder, UnsubscribedIsSettled,
         UnsubscribeAckIsLast, [Next]_vars
  PROVE  UnsubscribeAckIsLast'
<1>0. IdsGrow
  BY IdsGrowStep
<1>00. Len(down) \in Nat
  BY DownFacts DEF TypeOK
<1>1. ASSUME NEW i \in 1..Len(down), NEW j \in 1..Len(down), i < j,
             down[i].kind = "unsubscribed", down[i].n = call'[down[i].ch].n,
             down[j].kind = "data"
      PROVE  down[j].ch # down[i].ch
  <2>1. down[i].n = call[down[i].ch].n
    BY <1>0, <1>1, NewestWasNewest DEF ReplyKind
  <2> QED
    BY <1>1, <2>1 DEF UnsubscribeAckIsLast
<1>2. ASSUME NEW i \in 1..Len(down'), NEW j \in 1..Len(down'), i < j,
             down'[i].kind = "unsubscribed", down'[i].n = call'[down'[i].ch].n,
             down'[j].kind = "data"
      PROVE  down'[j].ch # down'[i].ch
  <2>1. CASE FramesKept
    <3>1. PICK k \in {0, 1} : \A x \in 1..Len(down') :
                 x + k \in 1..Len(down) /\ down'[x] = down[x + k]
      BY <2>1 DEF FramesKept
    <3>2. i \in Nat /\ j \in Nat
      BY <1>2, <3>1
    <3>3. /\ i + k \in 1..Len(down) /\ j + k \in 1..Len(down) /\ i + k < j + k
          /\ down'[i] = down[i + k] /\ down'[j] = down[j + k]
      BY <1>2, <3>1, <3>2
    <3> QED
      BY <1>1, <1>2, <3>3
  <2>2. ASSUME NEW f, FrameSent(f)
        PROVE  /\ i \in 1..Len(down) /\ down'[i] = down[i]
               /\ \/ j \in 1..Len(down) /\ down'[j] = down[j]
                  \/ down'[j] = f
    BY <1>00, <1>2, <2>2 DEF FrameSent
  <2>3. CASE DataSent
    <3>1. PICK c \in subscribed, m \in Nat : FrameSent(Data(c, m))
      BY <2>3 DEF DataSent
    <3>2. i \in 1..Len(down) /\ down'[i] = down[i]
      BY <2>2, <3>1
    <3>3. down[i].n = call[down[i].ch].n
      BY <1>0, <1>2, <3>2, NewestWasNewest DEF ReplyKind
    <3>4. down[i].ch \notin subscribed
      BY <1>2, <3>2, <3>3 DEF UnsubscribedIsSettled
    <3>5. CASE down'[j] = Data(c, m)
      BY <3>1, <3>2, <3>4, <3>5 DEF Data
    <3>6. CASE j \in 1..Len(down) /\ down'[j] = down[j]
      BY <1>1, <1>2, <3>2, <3>6
    <3> QED
      BY <2>2, <3>1, <3>5, <3>6
  <2>4. CASE ReplySent
    <3>1. PICK c \in Channels, n \in Nat, k \in ReplyKind : FrameSent(Reply(k, c, n))
      BY <2>4 DEF ReplySent
    <3>2. down'[j] # Reply(k, c, n)
      BY <1>2 DEF Reply, ReplyKind
    <3> QED
      BY <1>1, <1>2, <2>2, <3>1, <3>2
  <2> QED
    BY <2>1, <2>3, <2>4, FrameCases
<1> QED
  BY <1>2 DEF UnsubscribeAckIsLast

LEMMA WireInvStep ==
  ASSUME TypeOK, WireInv, [Next]_vars  PROVE  WireInv'
BY RequestStep, RepliesStep, SettledStep, AckLastStep DEF WireInv

LEMMA WireInvInductive == Spec => [](TypeOK /\ WireInv)
<1>1. Init => TypeOK /\ WireInv
  BY InitTypeOK DEF Init, WireInv, RequestsInOrder, RepliesInOrder,
     UnsubscribedIsSettled, UnsubscribeAckIsLast, NoHandler
<1>2. TypeOK /\ TypeOK' /\ WireInv /\ [Next]_vars => WireInv'
  BY WireInvStep
<1>3. Spec => []TypeOK
  BY TypeCorrect
<1> QED
  BY <1>1, <1>2, <1>3, PTL DEF Spec

\* RpcServer.cpp:770-778: whatever the transport thread is doing when the
\* client unsubscribes, no frame of the channel follows the answer, until the
\* client asks for the channel again.
THEOREM UnsubscribeAckIsLastCorrect == Spec => []UnsubscribeAckIsLast
<1>1. WireInv => UnsubscribeAckIsLast
  BY DEF WireInv
<1> QED
  BY <1>1, WireInvInductive, PTL

-----------------------------------------------------------------------------
(* A connected port is subscribed at the server *)

\* Nothing of channel c is waiting to be handled, and c is subscribed.
Established(c) == /\ \A i \in 1..Len(up) : up[i].ch # c
                  /\ session => c \in subscribed

\* The only request that ends a subscription is one of its channel.
LEMMA EstablishedStays ==
  ASSUME TypeOK, [Next]_vars, NEW c \in Channels, Established(c),
         call'[c].n = call[c].n
  PROVE  Established(c)'
<1> USE DEF Established
<1>1. \A i \in 1..Len(up') : up'[i].ch # c
  <2>1. CASE NoCallStarts
    BY <2>1, HandleFacts DEF NoCallStarts, TypeOK
  <2>2. ASSUME NEW d \in Channels, NEW m \in {"subscribe", "unsubscribe"}, StartCall(d, m)
        PROVE  \A i \in 1..Len(up') : up'[i].ch # c
    <3>1. /\ \A i \in 1..Len(up') :
                \/ i \in 1..Len(up) /\ up'[i] = up[i]
                \/ i = Len(up) + 1 /\ up'[i] = Request(m, d, call[d].n + 1)
          /\ call'[d].n = call[d].n + 1 /\ call[d].n \in Nat
      BY <2>2, StartCallFacts DEF TypeOK
    <3>2. c # d
      BY <3>1
    <3> QED
      BY <3>1, <3>2 DEF Request
  <2> QED
    BY UpCases, <2>1, <2>2 DEF CallStarts
<1>2. session' => c \in subscribed'
  <2>1. CASE UNCHANGED <<session, subscribed>>
    BY <2>1
  <2>2. ASSUME NEW d \in Channels, ServerSubscribe(d) PROVE session' => c \in subscribed'
    BY <2>2 DEF ServerSubscribe
  <2>3. ASSUME NEW d \in Channels, ServerUnsubscribe(d) PROVE session' => c \in subscribed'
    <3>1. c # d
      BY <2>3, HandleFacts DEF ServerUnsubscribe, TypeOK
    <3> QED
      BY <2>3, <3>1 DEF ServerUnsubscribe
  <2>4. ASSUME ServerOnClose PROVE session' => c \in subscribed'
    BY <2>4 DEF ServerOnClose
  <2>5. ASSUME NEW d \in Channels,
               \/ Write(d) \/ RingDoorbell(d) \/ ServerPick(d) \/ ServerSend(d)
               \/ ServerLeave(d) \/ ServerSubscribeAck(d) \/ ServerSubscribeKick(d)
        PROVE  UNCHANGED <<session, subscribed>>
    BY <2>5 DEF Write, RingDoorbell, ServerPick, ServerSend, ServerLeave,
       ServerSubscribeAck, ServerSubscribeKick, serverVars
  <2>6. ASSUME NEW d \in Channels, User(d) PROVE UNCHANGED <<session, subscribed>>
    BY <2>6 DEF User, UserInside, Register, Unregister, CallTimeout, Subscribe,
       SubscribeReturns, SubscribeThrows, CancelEntry, Nudge, Unsubscribe,
       DisconnectReturns, serverVars
  <2>7. ASSUME ServerWaitDrain \/ ClientNetwork \/ ClientTransport \/ Drop
        PROVE  UNCHANGED <<session, subscribed>>
    BY <2>7 DEF ServerWaitDrain, ClientNetwork, ClientOnClose, ReceiveData,
       PushFrame, RingClient, ReceiveReply, ClientTransport, ClientWaitDrain,
       ClientPick, ClientCheck, ClientPeek, ClientConsume, ClientRefuse, Drop,
       serverVars
  <2>8. CASE UNCHANGED vars
    BY <2>1, <2>8 DEF vars
  <2> QED
    BY <2>1, <2>2, <2>3, <2>4, <2>5, <2>6, <2>7, <2>8
       DEF Next, ServerTransport, ServerNetwork
<1> QED
  BY <1>1, <1>2

\* What a step can do to the owner of a port, subscribing aside.
UserStays(c) == user'[c] = user[c] /\ call'[c].n = call[c].n

OwnerMoves(c) ==
    \/ /\ UserStays(c)
       /\ call'[c].state = "ok" => call[c].state = "ok" \/ ReceiveReply(c)
    \/ SubscribeReturns(c)
    \/ user'[c] \notin {"subscribing", "connected"}

LEMMA OwnerCases ==
  ASSUME TypeOK, [Next]_vars, NEW c \in Channels, ~Subscribe(c)
  PROVE  OwnerMoves(c)
<1>0. /\ user \in [Channels -> {"idle", "registered", "subscribing", "connected",
                                "erased", "canceled", "nudged", "unsubscribing"}]
      /\ call \in [Channels -> [n : Nat, state : {"none", "waiting", "ok", "error",
                                                  "timedout"}]]
  BY DEF TypeOK, UserTypeOK
<1>1. CASE UNCHANGED <<user, call>>
  BY <1>1 DEF OwnerMoves, UserStays
<1>2. ASSUME NEW d \in Channels, ReceiveReply(d) PROVE OwnerMoves(c)
  BY <1>0, <1>2 DEF ReceiveReply, OwnerMoves, UserStays
<1>3. ASSUME ClientOnClose PROVE OwnerMoves(c)
  BY <1>0, <1>3 DEF ClientOnClose, OwnerMoves, UserStays
<1>4. ASSUME NEW d \in Channels, CallTimeout(d) PROVE OwnerMoves(c)
  BY <1>0, <1>4 DEF CallTimeout, OwnerMoves, UserStays
<1>5. ASSUME NEW d \in Channels, Subscribe(d) \/ Unsubscribe(d) PROVE OwnerMoves(c)
  BY <1>0, <1>5 DEF Subscribe, Unsubscribe, StartCall, OwnerMoves, UserStays
<1>6. ASSUME NEW d \in Channels,
             \/ Register(d) \/ SubscribeThrows(d) \/ Unregister(d)
             \/ CancelEntry(d) \/ Nudge(d) \/ DisconnectReturns(d)
      PROVE  OwnerMoves(c)
  BY <1>0, <1>6 DEF Register, SubscribeThrows, Unregister, CancelEntry, Nudge,
     DisconnectReturns, OwnerMoves, UserStays
<1>7. ASSUME NEW d \in Channels, SubscribeReturns(d) PROVE OwnerMoves(c)
  BY <1>0, <1>7 DEF SubscribeReturns, OwnerMoves, UserStays
<1>8. ASSUME NEW d \in Channels,
             \/ Write(d) \/ RingDoorbell(d) \/ ReceiveData(d)
             \/ PushFrame(d) \/ RingClient(d)
      PROVE  UNCHANGED <<user, call>>
  BY <1>8 DEF Write, RingDoorbell, ReceiveData, PushFrame, RingClient, userVars
<1>9. ASSUME ServerTransport \/ ServerNetwork \/ ClientTransport \/ Drop
      PROVE  UNCHANGED <<user, call>>
  BY <1>9 DEF ServerTransport, ServerWaitDrain, ServerPick, ServerSend,
     ServerLeave, ServerNetwork, ServerOnClose, ServerSubscribe,
     ServerSubscribeAck, ServerSubscribeKick, ServerUnsubscribe,
     ClientTransport, ClientWaitDrain, ClientPick, ClientCheck, ClientPeek,
     ClientConsume, ClientRefuse, Drop, userVars
<1>10. CASE UNCHANGED vars
  BY <1>1, <1>10 DEF vars
<1> QED
  BY <1>1, <1>2, <1>3, <1>4, <1>5, <1>6, <1>7, <1>8, <1>9, <1>10
     DEF Next, User, UserInside, ClientNetwork

\* While a subscribe is outstanding, what carries its id is about it.
LEMMA OutstandingStep ==
  ASSUME TypeOK, RequestsInOrder, RepliesInOrder, [Next]_vars,
         NEW c \in Channels, SubscribeOutstanding(c)
  PROVE  SubscribeOutstanding(c)'
<1> DEFINE Ups   == \A i \in 1..Len(up') :
                       up'[i].ch = c /\ up'[i].n = call'[c].n => up'[i].method = "subscribe"
           Downs == \A i \in 1..Len(down') :
                       /\ down'[i].ch = c /\ down'[i].n = call'[c].n
                       /\ down'[i].kind \in ReplyKind
                       => down'[i].kind \in {"subscribed", "error"}
<1>0. SubscribeOutstanding(c)' <=> (user'[c] = "subscribing" => Ups /\ Downs)
  BY DEF SubscribeOutstanding
<1>00. /\ \A i \in 1..Len(up) : up[i].ch \in Channels /\ up[i].n \in Nat
       /\ \A i \in 1..Len(down) : down[i].ch \in Channels /\ down[i].n \in Nat
       /\ call[c].n \in Nat
  BY UpFacts, DownFacts DEF TypeOK, UserTypeOK
<1>1. CASE Subscribe(c)
  <2>1. StartCall(c, "subscribe") /\ down' = down
    BY <1>1 DEF Subscribe
  <2>2. /\ \A i \in 1..Len(up') :
              \/ i \in 1..Len(up) /\ up'[i] = up[i]
              \/ i = Len(up) + 1 /\ up'[i] = Request("subscribe", c, call[c].n + 1)
        /\ call'[c].n = call[c].n + 1
    BY <2>1, StartCallFacts DEF TypeOK
  <2>3. Ups
    BY <1>00, <2>2 DEF RequestsInOrder, Request
  <2>4. Downs
    BY <1>00, <2>1, <2>2 DEF RepliesInOrder
  <2> QED
    BY <1>0, <2>3, <2>4
<1>2. CASE user'[c] = "subscribing" /\ ~Subscribe(c)
  <2>1. user[c] = "subscribing" /\ call'[c].n = call[c].n
    BY <1>2, OwnerCases DEF OwnerMoves, UserStays, SubscribeReturns, TypeOK, UserTypeOK
  <2>2. /\ \A i \in 1..Len(up) :
              up[i].ch = c /\ up[i].n = call[c].n => up[i].method = "subscribe"
        /\ \A i \in 1..Len(down) :
              /\ down[i].ch = c /\ down[i].n = call[c].n
              /\ down[i].kind \in ReplyKind
              => down[i].kind \in {"subscribed", "error"}
    BY <2>1 DEF SubscribeOutstanding
  <2>3. Ups
    <3>1. CASE NoCallStarts
      BY <2>1, <2>2, <3>1, HandleFacts DEF NoCallStarts, TypeOK
    <3>2. ASSUME NEW d \in Channels, NEW m \in {"subscribe", "unsubscribe"}, StartCall(d, m)
          PROVE  Ups
      <4>1. /\ \A i \in 1..Len(up') :
                  \/ i \in 1..Len(up) /\ up'[i] = up[i]
                  \/ i = Len(up) + 1 /\ up'[i] = Request(m, d, call[d].n + 1)
            /\ call'[d].n = call[d].n + 1
        BY <3>2, StartCallFacts DEF TypeOK
      <4>2. c # d
        BY <1>00, <2>1, <4>1
      <4> QED
        BY <2>1, <2>2, <4>1, <4>2 DEF Request
    <3> QED
      BY UpCases, <3>1, <3>2 DEF CallStarts
  <2>4. Downs
    <3>1. CASE FramesKept
      BY <2>1, <2>2, <3>1 DEF FramesKept
    <3>2. CASE DataSent
      BY <2>1, <2>2, <3>2 DEF DataSent, FrameSent, Data, ReplyKind
    <3>3. CASE ReplySent
      <4>1. PICK d \in Channels, n \in Nat, k \in ReplyKind :
               /\ FrameSent(Reply(k, d, n))
               /\ k = "unsubscribed" => ServerUnsubscribe(d) /\ n = Head(up).n
        BY <3>3 DEF ReplySent
      <4>2. ASSUME d = c, n = call[c].n, k = "unsubscribed" PROVE FALSE
        <5>1. Head(up).method = "unsubscribe" /\ Head(up).ch = c /\ up # <<>>
              /\ Head(up).n = call[c].n
          BY <4>1, <4>2 DEF ServerUnsubscribe
        <5>2. Head(up) = up[1] /\ 1 \in 1..Len(up)
          BY <5>1, UpFacts, HeadTail DEF TypeOK
        <5> QED
          BY <2>2, <5>1, <5>2
      <4>3. d = c /\ n = call[c].n => k \in {"subscribed", "error"}
        BY <4>2 DEF ReplyKind
      <4>4. /\ Reply(k, d, n).kind = k /\ Reply(k, d, n).ch = d
            /\ Reply(k, d, n).n = n
        BY DEF Reply
      <4> QED
        BY <2>1, <2>2, <4>1, <4>3, <4>4 DEF FrameSent
    <3> QED
      BY FrameCases, <3>1, <3>2, <3>3
  <2> QED
    BY <1>0, <2>3, <2>4
<1> QED
  BY <1>0, <1>1, <1>2

\* A subscribe becomes accepted when its handler records it, and by no other step.
LEMMA AcceptedStep ==
  ASSUME TypeOK, RequestsInOrder, RepliesInOrder, [Next]_vars,
         NEW c \in Channels, SubscribeOutstanding(c),
         Accepted(c) \/ user[c] = "connected" => Established(c),
         Accepted(c)' \/ user'[c] = "connected"
  PROVE  Established(c)'
<1>0. /\ \A i \in 1..Len(down) : down[i].ch \in Channels /\ down[i].n \in Nat
      /\ call[c].n \in Nat /\ Len(up) \in Nat
      /\ down \in Seq(Frames)
      /\ handler \in {NoHandler} \cup [pc : {"ack", "kick"}, ch : Channels, n : Nat]
  BY UpFacts, DownFacts DEF TypeOK, UserTypeOK, ServerTypeOK
<1>1. ASSUME Subscribe(c) PROVE FALSE
  <2>1. /\ StartCall(c, "subscribe") /\ down' = down /\ handler' = handler
        /\ user'[c] # "connected"
    BY <1>1 DEF Subscribe, serverVars, TypeOK, UserTypeOK
  <2>2. call'[c].n = call[c].n + 1 /\ call'[c].state # "ok"
    BY <2>1, StartCallFacts DEF TypeOK
  <2>3. ~(handler'.pc # "idle" /\ handler'.ch = c /\ handler'.n = call'[c].n)
    BY <1>0, <2>1, <2>2 DEF RepliesInOrder
  <2>4. ASSUME NEW i \in 1..Len(down), down[i] = Reply("subscribed", c, call'[c].n)
        PROVE  FALSE
    <3>1. /\ down[i].kind \in ReplyKind /\ down[i].ch = c
          /\ down[i].n = call[c].n + 1
      BY <2>2, <2>4 DEF Reply, ReplyKind
    <3> QED
      BY <1>0, <3>1 DEF RepliesInOrder
  <2> QED
    BY <2>1, <2>2, <2>3, <2>4 DEF Accepted
<1>2. ASSUME SubscribeReturns(c) PROVE Established(c)'
  <2>1. Accepted(c) /\ UNCHANGED <<up, session, subscribed>>
    BY <1>2 DEF SubscribeReturns, Accepted, serverVars, wireVars
  <2> QED
    BY <2>1 DEF Established
<1>3. ASSUME UserStays(c), Accepted(c) \/ user[c] = "connected" PROVE Established(c)'
  BY <1>3, EstablishedStays DEF UserStays
<1>4. ASSUME UserStays(c), user[c] = "subscribing", handler'.pc # "idle",
             handler'.ch = c, handler'.n = call[c].n
      PROVE  Accepted(c) \/ Established(c)'
  <2>1. ASSUME NEW d \in Channels, ServerSubscribe(d), handler' # handler
        PROVE  Established(c)'
    <3>1. /\ d = c /\ session' /\ c \in subscribed'
          /\ up # <<>> /\ Head(up).ch = c /\ Head(up).n = call[c].n /\ up' = Tail(up)
      BY <1>4, <2>1 DEF ServerSubscribe
    <3>2. /\ \A i \in 1..Len(up') : i + 1 \in 1..Len(up) /\ up'[i] = up[i + 1]
          /\ 1 \in 1..Len(up) /\ Head(up) = up[1] /\ Len(up') \in Nat
      BY <3>1, HandleFacts DEF TypeOK
    <3>3. ASSUME NEW i \in 1..Len(up'), up'[i].ch = c PROVE FALSE
      <4>1. i + 1 \in 1..Len(up) /\ up[i + 1].ch = c /\ 1 < i + 1 /\ up[1].ch = c
        BY <3>1, <3>2, <3>3
      <4>2. up[1].n < up[i + 1].n /\ up[i + 1].n \leq call[c].n
        BY <3>2, <4>1 DEF RequestsInOrder
      <4>3. up[1].n = call[c].n /\ up[i + 1].n \in Nat
        BY <3>1, <3>2, <4>1, UpFacts DEF TypeOK
      <4> QED
        BY <1>0, <4>2, <4>3
    <3> QED
      BY <3>1, <3>3 DEF Established
  <2>2. ASSUME NEW d \in Channels, ServerSubscribeAck(d) PROVE Accepted(c)
    <3>1. /\ handler.pc # "idle" /\ handler'.ch = handler.ch /\ handler'.n = handler.n
      BY <1>0, <2>2 DEF ServerSubscribeAck, NoHandler
    <3> QED
      BY <1>4, <3>1 DEF Accepted
  <2>3. CASE handler' = handler
    BY <1>4, <2>3 DEF Accepted
  <2>4. ASSUME NEW d \in Channels, ServerSubscribeKick(d) PROVE FALSE
    BY <1>4, <2>4 DEF ServerSubscribeKick, NoHandler
  <2>5. ASSUME NEW d \in Channels,
               \/ ServerSend(d) \/ ServerUnsubscribe(d) \/ ReceiveData(d)
               \/ ReceiveReply(d) \/ Subscribe(d) \/ Unsubscribe(d)
        PROVE  handler' = handler
    BY <2>5 DEF ServerSend, ServerUnsubscribe, ReceiveData, ReceiveReply,
       Subscribe, Unsubscribe, serverVars
  <2>6. ASSUME ServerOnClose \/ Drop PROVE handler' = handler
    BY <2>6 DEF ServerOnClose, Drop, serverVars
  <2>7. CASE NoWireStep
    BY <2>3, <2>7 DEF NoWireStep
  <2> QED
    BY WireCases, <2>1, <2>2, <2>3, <2>4, <2>5, <2>6, <2>7
<1>5. ASSUME user[c] = "subscribing", NEW i \in 1..Len(down'),
             down'[i] = Reply("subscribed", c, call[c].n)
      PROVE  Accepted(c)
  <2>1. ASSUME NEW j \in 1..Len(down), down[j] = down'[i] PROVE Accepted(c)
    BY <1>5, <2>1 DEF Accepted
  <2>2. CASE FramesKept
    BY <2>1, <2>2 DEF FramesKept
  <2>3. CASE DataSent
    <3>1. PICK d \in subscribed, m \in Nat : FrameSent(Data(d, m))
      BY <2>3 DEF DataSent
    <3>2. down'[i].kind = "subscribed" /\ Data(d, m).kind = "data"
      BY <1>5 DEF Reply, Data
    <3> QED
      BY <2>1, <3>1, <3>2 DEF FrameSent
  <2>4. CASE ReplySent
    <3>1. PICK d \in Channels, n \in Nat, k \in ReplyKind :
             /\ FrameSent(Reply(k, d, n))
             /\ k = "subscribed" => handler = [pc |-> "ack", ch |-> d, n |-> n]
      BY <2>4 DEF ReplySent
    <3>2. CASE down'[i] = Reply(k, d, n)
      <4>1. k = "subscribed" /\ d = c /\ n = call[c].n
        BY <1>5, <3>2 DEF Reply
      <4>2. handler.pc # "idle" /\ handler.ch = c /\ handler.n = call[c].n
        BY <3>1, <4>1
      <4> QED
        BY <1>5, <4>2 DEF Accepted
    <3> QED
      BY <2>1, <3>1, <3>2 DEF FrameSent
  <2> QED
    BY FrameCases, <2>2, <2>3, <2>4
<1>6. ASSUME user[c] = "subscribing", ReceiveReply(c), call'[c].state = "ok"
      PROVE  Accepted(c)
  <2>1. CASE call[c].state = "ok"
    BY <1>6, <2>1 DEF Accepted
  <2>2. CASE call[c].state # "ok"
    <3>1. /\ down # <<>> /\ Head(down).ch = c /\ Head(down).n = call[c].n
          /\ Head(down).kind \in ReplyKind /\ Head(down).kind # "error"
      BY <1>6, <2>2 DEF ReceiveReply, TypeOK, UserTypeOK
    <3>2. Head(down) = down[1] /\ 1 \in 1..Len(down) /\ Head(down) \in Frames
      BY <1>0, <3>1, HeadTail
    <3>3. Head(down).kind = "subscribed"
      BY <1>6, <3>1, <3>2 DEF SubscribeOutstanding
    <3>4. down[1] = Reply("subscribed", c, call[c].n)
      BY <3>1, <3>2, <3>3 DEF Frames, Reply
    <3> QED
      BY <1>6, <3>2, <3>4 DEF Accepted
  <2> QED
    BY <2>1, <2>2
<1>7. ASSUME UserStays(c), call'[c].state = "ok" => call[c].state = "ok" \/ ReceiveReply(c),
             Accepted(c)'
      PROVE  Accepted(c) \/ Established(c)'
  <2>1. user[c] = "subscribing" /\ call'[c].n = call[c].n
    BY <1>7 DEF UserStays, Accepted
  <2>2. CASE call'[c].state = "ok"
    BY <1>6, <1>7, <2>1, <2>2 DEF Accepted
  <2>3. CASE handler'.pc # "idle" /\ handler'.ch = c /\ handler'.n = call'[c].n
    BY <1>4, <1>7, <2>1, <2>3
  <2>4. CASE \E i \in 1..Len(down') : down'[i] = Reply("subscribed", c, call'[c].n)
    BY <1>5, <2>1, <2>4
  <2> QED
    BY <1>7, <2>2, <2>3, <2>4 DEF Accepted
<1>8. CASE user'[c] \notin {"subscribing", "connected"}
  BY <1>8 DEF Accepted
<1>9. CASE UserStays(c) /\ (call'[c].state = "ok" => call[c].state = "ok" \/ ReceiveReply(c))
  <2>1. CASE user'[c] = "connected"
    BY <1>3, <1>9, <2>1 DEF UserStays
  <2>2. CASE Accepted(c)'
    BY <1>3, <1>7, <1>9, <2>2
  <2> QED
    BY <2>1, <2>2
<1> QED
  BY OwnerCases, <1>1, <1>2, <1>8, <1>9 DEF OwnerMoves

LEMMA ConnectStep ==
  ASSUME TypeOK, WireInv, ConnectInv, [Next]_vars  PROVE  ConnectInv'
<1>1. ASSUME NEW c \in Channels
      PROVE  /\ SubscribeOutstanding(c)'
             /\ Accepted(c)' \/ user'[c] = "connected" => Established(c)'
  BY OutstandingStep, AcceptedStep DEF ConnectInv, WireInv, Established
<1> QED
  BY <1>1 DEF ConnectInv, Established

LEMMA ConnectInvInductive == Spec => []ConnectInv
<1>1. Init => ConnectInv
  BY DEF Init, ConnectInv, SubscribeOutstanding, Accepted
<1>2. TypeOK /\ WireInv /\ ConnectInv /\ [Next]_vars => ConnectInv'
  BY ConnectStep
<1> QED
  BY <1>1, <1>2, WireInvInductive, PTL DEF Spec

\* connectClientReceiver returns only when the server has the subscription, and
\* it keeps it: an answer to an earlier request, one that timed out, is never
\* taken for the answer to this one, and no request of the channel is left on
\* the wire that could end it.
THEOREM ConnectedIsSubscribedCorrect == Spec => []ConnectedIsSubscribed
<1>1. ConnectInv => ConnectedIsSubscribed
  BY DEF ConnectInv, ConnectedIsSubscribed
<1> QED
  BY <1>1, ConnectInvInductive, PTL

-----------------------------------------------------------------------------
(* The promise of OrderedStream: readers see the messages of a stream in the *)
(* order they entered, and none of them twice.                               *)

\* Appending to an ascending sequence something newer than all of it.
LEMMA AppendNewer ==
  ASSUME NEW s \in Seq(Nat), NEW m \in Nat, Increasing(s), Before(Elements(s), {m})
  PROVE  /\ Append(s, m) \in Seq(Nat) /\ Increasing(Append(s, m))
         /\ Elements(Append(s, m)) = Elements(s) \cup {m}
<1> DEFINE t == Append(s, m)
<1>1. /\ t \in Seq(Nat) /\ Len(t) = Len(s) + 1 /\ t[Len(s) + 1] = m
      /\ \A i \in 1..Len(s) : t[i] = s[i]
      /\ Len(s) \in Nat
  BY AppendFacts
<1> HIDE DEF t
<1>2. \A i \in 1..Len(s) : s[i] < m
  BY DEF Before, Elements
<1>3. \A i \in 1..Len(t) : i \in 1..Len(s) \/ i = Len(s) + 1
  BY <1>1
<1>4. ASSUME NEW i \in 1..Len(t), NEW j \in 1..Len(t), i < j PROVE t[i] < t[j]
  <2>1. i \in 1..Len(s)
    BY <1>1, <1>4
  <2>2. CASE j \in 1..Len(s)
    BY <1>1, <1>4, <2>1, <2>2 DEF Increasing
  <2>3. CASE j = Len(s) + 1
    BY <1>1, <1>2, <2>1, <2>3
  <2> QED
    BY <1>3, <2>2, <2>3
<1>5. Elements(t) = Elements(s) \cup {m}
  <2>1. \A i \in 1..Len(s) : i \in 1..Len(t)
    BY <1>1
  <2>2. Len(s) + 1 \in 1..Len(t)
    BY <1>1
  <2> QED
    BY <1>1, <1>3, <2>1, <2>2 DEF Elements
<1> QED
  BY <1>1, <1>4, <1>5 DEF Increasing, t

\* Consuming the oldest message keeps the chain.
LEMMA ConsumeOldest ==
  ASSUME NEW d \in Seq(Nat), NEW l \in SUBSET Nat, NEW t \in SUBSET Nat, NEW n \in Nat,
         Chain(d, l, t, n), NEW m \in Nat,
         \/ Oldest(m, l)
         \/ l = {} /\ Oldest(m, t)
  PROVE  Chain(Append(d, m), l \ {m}, t \ {m}, n)
<1> DEFINE e == Append(d, m)
<1>1. Increasing(d) /\ Before(Elements(d), {m}) /\ m \leq n
  BY DEF Chain, Before, UpTo, Oldest
<1>2. Increasing(e) /\ Elements(e) = Elements(d) \cup {m}
  BY <1>1, AppendNewer
<1> HIDE DEF e
<1>3. Before({m}, l \ {m}) /\ Before({m}, t \ {m})
  <2>1. ASSUME NEW x \in Nat, m \leq x, x # m PROVE m < x
    BY <2>1
  <2>2. CASE Oldest(m, l)
    BY <2>1, <2>2 DEF Chain, Before, Oldest
  <2>3. CASE l = {} /\ Oldest(m, t)
    BY <2>1, <2>3 DEF Chain, Before, Oldest
  <2> QED
    BY <2>2, <2>3
<1>4. Before(Elements(e), l \ {m}) /\ Before(Elements(e), t \ {m})
  BY <1>2, <1>3 DEF Chain, Before
<1>5. Before(l \ {m}, t \ {m})
  BY DEF Chain, Before
<1>6. UpTo(Elements(e), n) /\ UpTo(l \ {m}, n) /\ UpTo(t \ {m}, n)
  BY <1>1, <1>2 DEF Chain, UpTo
<1> QED
  BY <1>2, <1>4, <1>5, <1>6 DEF Chain, e

\* So does losing messages.
LEMMA LoseSome ==
  ASSUME NEW d, NEW l, NEW t, NEW n, NEW k, NEW u, Chain(d, l, t, n),
         k \cup u \subseteq l \cup t, Before(k, u)
  PROVE  Chain(d, k, u, n)
BY DEF Chain, Before, UpTo

\* So does the next message.
LEMMA EnterNewest ==
  ASSUME NEW d \in Seq(Nat), NEW l \in SUBSET Nat, NEW t \in SUBSET Nat, NEW n \in Nat,
         Chain(d, l, t, n)
  PROVE  Chain(d, l, t \cup {n + 1}, n + 1)
<1>1. \A x \in Elements(d) : x \in Nat
  BY DEF Elements
<1>2. \A x \in Nat : x \leq n => x < n + 1 /\ x \leq n + 1
  OBVIOUS
<1>3. /\ \A x \in Elements(d) : x < n + 1 /\ x \leq n + 1
      /\ \A x \in l : x < n + 1 /\ x \leq n + 1
      /\ \A x \in t : x \leq n + 1
      /\ n + 1 \leq n + 1
  BY <1>1, <1>2 DEF Chain, UpTo
<1> QED
  BY <1>3 DEF Chain, Before, UpTo

LEMMA StreamStep ==
  ASSUME StreamTypeOK, ChainInv, [StreamNext]_streamVars
  PROVE  StreamTypeOK' /\ ChainInv'
<1> USE DEF StreamTypeOK
<1>0. \A c \in Streams : Chain(consumed[c], late[c], transit[c], sent[c])
  BY DEF ChainInv
<1>1. ASSUME NEW c \in Streams, Enter(c) PROVE StreamTypeOK' /\ ChainInv'
  <2>1. StreamTypeOK'
    BY <1>1 DEF Enter
  <2>2. Chain(consumed[c], late[c], transit[c] \cup {sent[c] + 1}, sent[c] + 1)
    BY <1>0, EnterNewest
  <2>3. ASSUME NEW d \in Streams
        PROVE  Chain(consumed'[d], late'[d], transit'[d], sent'[d])
    <3>1. CASE d = c
      BY <1>1, <2>2, <3>1 DEF Enter
    <3>2. CASE d # c
      BY <1>0, <1>1, <3>2 DEF Enter
    <3> QED
      BY <3>1, <3>2
  <2> QED
    BY <2>1, <2>3 DEF ChainInv
<1>2. ASSUME NEW c \in Streams, Deliver(c) PROVE StreamTypeOK' /\ ChainInv'
  <2>1. PICK m \in transit[c] :
           /\ Oldest(m, transit[c])
           /\ consumed' = [consumed EXCEPT ![c] = Append(@, m)]
           /\ transit' = [transit EXCEPT ![c] = @ \ {m}]
    BY <1>2 DEF Deliver
  <2>2. late[c] = {} /\ UNCHANGED <<sent, late, open>> /\ m \in Nat
    BY <1>2 DEF Deliver
  <2>3. StreamTypeOK'
    BY <2>1, <2>2
  <2>4. Chain(Append(consumed[c], m), late[c] \ {m}, transit[c] \ {m}, sent[c])
    BY <1>0, <2>1, <2>2, ConsumeOldest
  <2>5. ASSUME NEW d \in Streams
        PROVE  Chain(consumed'[d], late'[d], transit'[d], sent'[d])
    <3>1. CASE d = c
      <4>1. late[c] \ {m} = late[c]
        BY <2>2
      <4> QED
        BY <2>1, <2>2, <2>4, <3>1, <4>1
    <3>2. CASE d # c
      BY <1>0, <2>1, <2>2, <3>2
    <3> QED
      BY <3>1, <3>2
  <2> QED
    BY <2>3, <2>5 DEF ChainInv
<1>3. ASSUME NEW c \in Streams, DeliverLate(c) PROVE StreamTypeOK' /\ ChainInv'
  <2>1. PICK m \in late[c] :
           /\ Oldest(m, late[c])
           /\ consumed' = [consumed EXCEPT ![c] = Append(@, m)]
           /\ late' \in {[late EXCEPT ![c] = @ \ {m}], [late EXCEPT ![c] = {}]}
    BY <1>3 DEF DeliverLate
  <2>2. UNCHANGED <<sent, transit, open>> /\ m \in Nat
    BY <1>3 DEF DeliverLate
  <2>3. StreamTypeOK'
    <3>1. late[c] \ {m} \in SUBSET Nat /\ {} \in SUBSET Nat
      OBVIOUS
    <3>2. late' \in [Streams -> SUBSET Nat]
      BY <2>1, <3>1
    <3>3. Append(consumed[c], m) \in Seq(Nat)
      BY <2>2
    <3>4. consumed' \in [Streams -> Seq(Nat)]
      BY <2>1, <3>3
    <3> QED
      BY <2>2, <3>2, <3>4
  <2>4. Chain(Append(consumed[c], m), late[c] \ {m}, transit[c] \ {m}, sent[c])
    BY <1>0, <2>1, <2>2, ConsumeOldest
  <2>5. transit[c] \ {m} = transit[c]
    <3>1. Before(late[c], transit[c])
      BY <1>0 DEF Chain
    <3> QED
      BY <2>2, <3>1 DEF Before
  <2>6. Chain(Append(consumed[c], m), {}, transit[c], sent[c])
    <3>1. Before({}, transit[c]) /\ {} \cup transit[c] \subseteq (late[c] \ {m}) \cup transit[c]
      BY DEF Before
    <3>2. Chain(Append(consumed[c], m), late[c] \ {m}, transit[c], sent[c])
      BY <2>4, <2>5
    <3> QED
      BY <3>1, <3>2, LoseSome
  <2>7. ASSUME NEW d \in Streams
        PROVE  Chain(consumed'[d], late'[d], transit'[d], sent'[d])
    <3>1. CASE d = c
      <4>1. late'[c] \in {late[c] \ {m}, {}}
        BY <2>1
      <4> QED
        BY <2>1, <2>2, <2>4, <2>5, <2>6, <3>1, <4>1
    <3>2. CASE d # c
      BY <1>0, <2>1, <2>2, <3>2
    <3> QED
      BY <3>1, <3>2
  <2> QED
    BY <2>3, <2>7 DEF ChainInv
<1>4. ASSUME NEW c \in Streams, DropLate(c) PROVE StreamTypeOK' /\ ChainInv'
  <2>1. Chain(consumed[c], {}, transit[c], sent[c])
    <3>1. Chain(consumed[c], late[c], transit[c], sent[c]) /\ Before({}, transit[c])
      BY <1>0 DEF Before
    <3> QED
      BY <3>1, LoseSome
  <2> QED
    BY <1>0, <1>4, <2>1 DEF DropLate, ChainInv
<1>5. ASSUME NEW c \in Streams, Open(c) PROVE StreamTypeOK' /\ ChainInv'
  BY <1>5 DEF Open, ChainInv
<1>6. ASSUME LoseWhileClosed PROVE StreamTypeOK' /\ ChainInv'
  <2>1. StreamTypeOK'
    BY <1>6 DEF LoseWhileClosed
  <2>2. ASSUME NEW d \in Streams
        PROVE  Chain(consumed'[d], late'[d], transit'[d], sent'[d])
    BY <1>0, <1>6, LoseSome DEF LoseWhileClosed
  <2> QED
    BY <2>1, <2>2 DEF ChainInv
<1>7. CASE UNCHANGED streamVars
  BY <1>7 DEF streamVars, ChainInv
<1> QED
  BY <1>1, <1>2, <1>3, <1>4, <1>5, <1>6, <1>7 DEF StreamNext

\* A stream keeps its promise for every number of streams and messages: what its
\* readers consume grows strictly, so nothing is reordered or repeated.
THEOREM StreamIsInOrder == StreamSpec => []InOrder
<1>1. StreamInit => StreamTypeOK /\ ChainInv
  BY DEF StreamInit, StreamTypeOK, ChainInv, Chain, Increasing, Before, UpTo, Elements
<1>2. StreamTypeOK /\ ChainInv /\ [StreamNext]_streamVars => StreamTypeOK' /\ ChainInv'
  BY StreamStep
<1>3. ChainInv => InOrder
  BY DEF ChainInv, Chain, InOrder
<1> QED
  BY <1>1, <1>2, <1>3, PTL DEF StreamSpec

-----------------------------------------------------------------------------
(* The path implements the stream.  First, what the steps of a queue and of   *)
(* the wire do to the set of messages in it.                                  *)

LEMMA RangeAppend ==
  ASSUME NEW s \in Seq(Nat), NEW m \in Nat, Ascending(s), Precedes(Range(s), {m})
  PROVE  /\ Append(s, m) \in Seq(Nat) /\ Ascending(Append(s, m))
         /\ Range(Append(s, m)) = Range(s) \cup {m}
<1>1. Increasing(s) /\ Before(Elements(s), {m})
  BY DEF Ascending, Precedes, Range, Increasing, Before, Elements
<1> QED
  BY <1>1, AppendNewer DEF Ascending, Range, Increasing, Elements

LEMMA RangeFacts ==
  ASSUME NEW s \in Seq(Nat)
  PROVE  Range(s) \subseteq Nat /\ (s = <<>> <=> Range(s) = {})
<1>0. \A i \in 1..Len(s) : s[i] \in Nat
  OBVIOUS
<1>3. Range(s) \subseteq Nat
  BY <1>0 DEF Range
<1>1. CASE s = <<>>
  BY <1>1 DEF Range
<1>2. CASE s # <<>>
  <2>1. 1 \in 1..Len(s)
    BY <1>2
  <2>2. s[1] \in Range(s)
    BY <2>1 DEF Range
  <2> QED
    BY <1>2, <1>3, <2>2
<1> QED
  BY <1>1, <1>2, <1>3

LEMMA RangeTail ==
  ASSUME NEW s \in Seq(Nat), s # <<>>, Ascending(s)
  PROVE  /\ Tail(s) \in Seq(Nat) /\ Ascending(Tail(s)) /\ Head(s) \in Nat
         /\ Range(Tail(s)) = Range(s) \ {Head(s)}
         /\ Head(s) \in Range(s) /\ \A x \in Range(s) : Head(s) \leq x
<1> DEFINE t == Tail(s)
<1>1. /\ Head(s) \in Nat /\ t \in Seq(Nat) /\ Len(t) = Len(s) - 1
      /\ \A i \in 1..Len(t) : t[i] = s[i + 1]
      /\ Len(s) \in Nat \ {0} /\ Head(s) = s[1]
      /\ \A i \in 1..Len(s) : s[i] \in Nat
  BY HeadTail
<1> HIDE DEF t
<1>2. \A i \in 1..Len(t) : i + 1 \in 1..Len(s) /\ t[i] = s[i + 1]
  BY <1>1
<1>3. ASSUME NEW i \in 1..Len(t), NEW j \in 1..Len(t), i < j PROVE t[i] < t[j]
  BY <1>2, <1>3 DEF Ascending
<1>4. \A i \in 1..Len(s) : i = 1 \/ (1 < i /\ s[1] < s[i])
  BY <1>1 DEF Ascending
<1>5. ASSUME NEW i \in 1..Len(s), i # 1 PROVE \E j \in 1..Len(t) : t[j] = s[i]
  <2>1. i - 1 \in 1..Len(t) /\ (i - 1) + 1 = i
    BY <1>1, <1>5
  <2>2. t[i - 1] = s[(i - 1) + 1]
    BY <1>2, <2>1
  <2> QED
    BY <2>1, <2>2
<1>6. ASSUME NEW i \in 1..Len(t) PROVE t[i] # s[1]
  <2>1. i + 1 \in 1..Len(s) /\ i + 1 # 1
    BY <1>1, <1>2
  <2>2. s[1] < s[i + 1] /\ s[1] \in Nat /\ s[i + 1] \in Nat
    BY <1>1, <1>4, <2>1
  <2> QED
    BY <1>2, <2>2
<1>7. Range(t) = Range(s) \ {Head(s)}
  <2>1. Range(t) \subseteq Range(s) \ {Head(s)}
    BY <1>1, <1>2, <1>6 DEF Range
  <2>2. Range(s) \ {Head(s)} \subseteq Range(t)
    <3>1. ASSUME NEW x \in Range(s), x # Head(s) PROVE x \in Range(t)
      <4>1. PICK i \in 1..Len(s) : s[i] = x
        BY DEF Range
      <4>2. i # 1
        BY <1>1, <3>1, <4>1
      <4>3. PICK j \in 1..Len(t) : t[j] = s[i]
        BY <1>5, <4>2
      <4> QED
        BY <4>1, <4>3 DEF Range
    <3> QED
      BY <3>1
  <2> QED
    BY <2>1, <2>2
<1>8. 1 \in 1..Len(s)
  BY <1>1
<1>9. Head(s) \in Range(s) /\ \A x \in Range(s) : Head(s) \leq x
  <2>1. \A i \in 1..Len(s) : s[1] \leq s[i]
    <3>1. \A a, b \in Nat : a < b => a \leq b
      OBVIOUS
    <3>2. \A a \in Nat : a \leq a
      OBVIOUS
    <3> QED
      BY <1>1, <1>4, <1>8, <3>1, <3>2
  <2> QED
    BY <1>1, <1>8, <2>1 DEF Range
<1> QED
  BY <1>1, <1>3, <1>7, <1>9 DEF Ascending, t

\* Frames have numbers.
LEMMA DataFacts ==
  ASSUME NEW d \in Seq(Frames), NEW c
  PROVE  DataIn(d, c) \subseteq Nat
<1>1. ASSUME NEW i \in 1..Len(d) PROVE d[i].n \in Nat
  <2>1. d[i] \in Frames
    OBVIOUS
  <2> QED
    BY <2>1 DEF Frames
<1> QED
  BY <1>1 DEF DataIn

\* A frame is sent.
LEMMA WireAppend ==
  ASSUME NEW d \in Seq(Frames), NEW f \in Frames, NEW c
  PROVE  /\ FramesAscend(d, c) /\ (IsData(f, c) => Precedes(DataIn(d, c), {f.n}))
               => FramesAscend(Append(d, f), c)
         /\ DataIn(Append(d, f), c) = DataIn(d, c) \cup (IF IsData(f, c) THEN {f.n} ELSE {})
<1> DEFINE t == Append(d, f)
<1>1. /\ Len(t) = Len(d) + 1 /\ t[Len(d) + 1] = f
      /\ \A i \in 1..Len(d) : t[i] = d[i]
      /\ Len(d) \in Nat
  BY AppendFacts
<1> HIDE DEF t
<1>2. \A i \in 1..Len(t) : i \in 1..Len(d) \/ i = Len(d) + 1
  BY <1>1
<1>3. (\A i \in 1..Len(d) : i \in 1..Len(t)) /\ Len(d) + 1 \in 1..Len(t)
  BY <1>1
<1>4. ASSUME FramesAscend(d, c), IsData(f, c) => Precedes(DataIn(d, c), {f.n}),
             NEW i \in 1..Len(t), NEW j \in 1..Len(t), i < j, IsData(t[i], c), IsData(t[j], c)
      PROVE  t[i].n < t[j].n
  <2>1. i \in 1..Len(d) /\ t[i] = d[i]
    BY <1>1, <1>4
  <2>2. CASE j \in 1..Len(d)
    BY <1>1, <1>4, <2>1, <2>2 DEF FramesAscend
  <2>3. CASE j = Len(d) + 1
    <3>1. t[j] = f /\ d[i].n \in DataIn(d, c)
      BY <1>1, <1>4, <2>1, <2>3 DEF DataIn
    <3> QED
      BY <1>4, <2>1, <3>1 DEF Precedes
  <2> QED
    BY <1>2, <2>2, <2>3
<1>5. ASSUME NEW x
      PROVE  x \in DataIn(t, c)
                <=> x \in DataIn(d, c) \cup (IF IsData(f, c) THEN {f.n} ELSE {})
  <2>1. x \in DataIn(t, c) <=> \E i \in 1..Len(t) : IsData(t[i], c) /\ x = t[i].n
    BY DEF DataIn
  <2>2. x \in DataIn(d, c) <=> \E i \in 1..Len(d) : IsData(d[i], c) /\ x = d[i].n
    BY DEF DataIn
  <2> QED
    BY <1>1, <1>2, <1>3, <2>1, <2>2
<1> QED
  BY <1>4, <1>5 DEF FramesAscend, t

\* A frame is received.
LEMMA WireTail ==
  ASSUME NEW d \in Seq(Frames), d # <<>>, NEW c
  PROVE  /\ FramesAscend(d, c) => FramesAscend(Tail(d), c)
         /\ ~IsData(Head(d), c) => DataIn(Tail(d), c) = DataIn(d, c)
         /\ FramesAscend(d, c) /\ IsData(Head(d), c) =>
               /\ DataIn(Tail(d), c) = DataIn(d, c) \ {Head(d).n}
               /\ Head(d).n \in DataIn(d, c)
               /\ Precedes({Head(d).n}, DataIn(d, c) \ {Head(d).n})
<1> DEFINE t == Tail(d)
<1>1. /\ Head(d) \in Frames /\ Len(t) = Len(d) - 1
      /\ \A i \in 1..Len(t) : t[i] = d[i + 1]
      /\ Len(d) \in Nat \ {0} /\ Head(d) = d[1]
      /\ \A i \in 1..Len(d) : d[i] \in Frames
  BY HeadTail
<1>0. \A i \in 1..Len(d) : d[i].n \in Nat
  BY <1>1 DEF Frames
<1> HIDE DEF t
<1>2. \A i \in 1..Len(t) : i + 1 \in 1..Len(d) /\ t[i] = d[i + 1]
  BY <1>1
<1>3. ASSUME FramesAscend(d, c),
             NEW i \in 1..Len(t), NEW j \in 1..Len(t), i < j, IsData(t[i], c), IsData(t[j], c)
      PROVE  t[i].n < t[j].n
  <2>1. i + 1 \in 1..Len(d) /\ j + 1 \in 1..Len(d) /\ i + 1 < j + 1
    BY <1>2, <1>3
  <2>2. t[i] = d[i + 1] /\ t[j] = d[j + 1]
    BY <1>2
  <2> QED
    BY <1>3, <2>1, <2>2 DEF FramesAscend
<1>4. 1 \in 1..Len(d)
  BY <1>1
<1>5. ASSUME NEW i \in 1..Len(d), i # 1 PROVE \E j \in 1..Len(t) : t[j] = d[i]
  <2>1. i - 1 \in 1..Len(t) /\ (i - 1) + 1 = i
    BY <1>1, <1>5
  <2>2. t[i - 1] = d[(i - 1) + 1]
    BY <1>2, <2>1
  <2> QED
    BY <2>1, <2>2
<1>6. ASSUME NEW x PROVE x \in DataIn(t, c) <=> \E i \in 1..Len(t) : IsData(t[i], c) /\ x = t[i].n
  BY DEF DataIn
<1>7. ASSUME NEW x PROVE x \in DataIn(d, c) <=> \E i \in 1..Len(d) : IsData(d[i], c) /\ x = d[i].n
  BY DEF DataIn
<1>8. ASSUME NEW x, x \in DataIn(t, c) PROVE \E i \in 1..Len(d) : 1 < i /\ IsData(d[i], c) /\ x = d[i].n
  <2>1. PICK i \in 1..Len(t) : IsData(t[i], c) /\ x = t[i].n
    BY <1>6, <1>8
  <2>2. i + 1 \in 1..Len(d) /\ 1 < i + 1 /\ t[i] = d[i + 1]
    BY <1>1, <1>2
  <2> QED
    BY <2>1, <2>2
<1>9. ASSUME NEW x, x \in DataIn(d, c), x \notin DataIn(t, c)
      PROVE  IsData(Head(d), c) /\ x = Head(d).n
  <2>1. PICK i \in 1..Len(d) : IsData(d[i], c) /\ x = d[i].n
    BY <1>7, <1>9
  <2>2. i = 1
    BY <1>5, <1>6, <1>9, <2>1
  <2> QED
    BY <1>1, <2>1, <2>2
<1>10. ASSUME FramesAscend(d, c), NEW x, x \in DataIn(t, c), IsData(Head(d), c) PROVE Head(d).n < x
  <2>1. PICK i \in 1..Len(d) : 1 < i /\ IsData(d[i], c) /\ x = d[i].n
    BY <1>8, <1>10
  <2> QED
    BY <1>1, <1>4, <1>10, <2>1 DEF FramesAscend
<1>11. DataIn(t, c) \subseteq DataIn(d, c)
  BY <1>7, <1>8
<1>12. Head(d).n \in Nat /\ \A x \in DataIn(t, c) : x \in Nat
  BY <1>0, <1>1, <1>4, <1>8
<1>13. FramesAscend(d, c) /\ IsData(Head(d), c) => DataIn(t, c) = DataIn(d, c) \ {Head(d).n}
  <2>1. ASSUME FramesAscend(d, c), IsData(Head(d), c), NEW x \in DataIn(t, c)
        PROVE  x # Head(d).n
    <3>1. Head(d).n < x
      BY <1>10, <2>1
    <3> QED
      BY <1>12, <3>1
  <2> QED
    BY <1>9, <1>11, <2>1
<1>14. IsData(Head(d), c) => Head(d).n \in DataIn(d, c)
  BY <1>1, <1>4, <1>7
<1>15. ~IsData(Head(d), c) => DataIn(t, c) = DataIn(d, c)
  BY <1>9, <1>11
<1>16. FramesAscend(d, c) /\ IsData(Head(d), c)
          => Precedes({Head(d).n}, DataIn(d, c) \ {Head(d).n})
  BY <1>10, <1>13 DEF Precedes
<1>17. FramesAscend(d, c) => FramesAscend(t, c)
  BY <1>3 DEF FramesAscend
<1> QED
  BY <1>13, <1>14, <1>15, <1>16, <1>17 DEF t

-----------------------------------------------------------------------------
(* Which steps move messages                                                 *)

\* The messages of channel d that are under way stay where they are.
Still(d) ==
    /\ written'[d] = written[d] /\ writeQueue'[d] = writeQueue[d]
    /\ DataIn(down', d) = DataIn(down, d)
    /\ FramesAscend(down, d) => FramesAscend(down', d)
    /\ \A k \in Conn : /\ queue'[<<d, k>>] = queue[<<d, k>>]
                       /\ InHand(rx', d, k) = InHand(rx, d, k)

\* No connection begins, ends or is worked for.
OwnersRest ==
    /\ UNCHANGED <<readCallbacks, connects, canceled>>
    /\ \A d \in Channels : user'[d] \in Opened <=> user[d] \in Opened

Rests == /\ \A d \in Channels : Still(d)
         /\ OwnersRest
         /\ UNCHANGED <<ct, delivered, wsOpen>>

LEMMA SameStill ==
  ASSUME UNCHANGED <<written, writeQueue, down, queue, rx>>, NEW d
  PROVE  Still(d)
BY DEF Still

\* A response moves no message.
LEMMA ReplyStill ==
  ASSUME TypeOK, NEW k \in ReplyKind, NEW c \in Channels, NEW n \in Nat,
         Send(Reply(k, c, n)), UNCHANGED <<written, writeQueue, queue, rx>>, NEW d
  PROVE  Still(d)
<1>1. Reply(k, c, n) \in Frames /\ ~IsData(Reply(k, c, n), d)
  BY DEF Reply, Frames, FrameKind, ReplyKind, IsData
<1>2. down \in Seq(Frames)
  BY DEF TypeOK, WireTypeOK
<1>3. CASE wsOpen
  <2>1. down' = Append(down, Reply(k, c, n))
    BY <1>3 DEF Send
  <2> QED
    BY <1>1, <1>2, <2>1, WireAppend DEF Still
<1>4. CASE ~wsOpen
  BY <1>4, SameStill DEF Send
<1> QED
  BY <1>3, <1>4

LEMMA ServerRests ==
  ASSUME TypeOK, ServerTransport \/ ServerNetwork, \A c \in Channels : ~ServerSend(c)
  PROVE  Rests
<1>1. UNCHANGED <<written, writeQueue, queue, rx>>
  BY DEF ServerTransport, ServerWaitDrain, ServerPick, ServerLeave, ServerNetwork,
     ServerOnClose, ServerSubscribe, ServerSubscribeAck, ServerSubscribeKick,
     ServerUnsubscribe, writerVars, rxVars
<1>2. OwnersRest /\ UNCHANGED <<ct, delivered, wsOpen>>
  BY DEF ServerTransport, ServerWaitDrain, ServerPick, ServerLeave, ServerNetwork,
     ServerOnClose, ServerSubscribe, ServerSubscribeAck, ServerSubscribeKick,
     ServerUnsubscribe, drainVars, userVars, wireVars, OwnersRest
<1>3. \/ down' = down
      \/ \E k \in ReplyKind, c \in Channels, n \in Nat : Send(Reply(k, c, n))
  <2>1. CASE ServerTransport \/ ServerOnClose
    BY <2>1 DEF ServerTransport, ServerWaitDrain, ServerPick, ServerLeave,
       ServerOnClose, wireVars
  <2>2. ASSUME NEW c \in Channels, ServerSubscribe(c) \/ ServerUnsubscribe(c)
        PROVE  \/ down' = down
               \/ \E k \in ReplyKind, n \in Nat : Send(Reply(k, c, n))
    <3>1. up # <<>> /\ up \in Seq(Requests)
      BY <2>2 DEF ServerSubscribe, ServerUnsubscribe, TypeOK, WireTypeOK
    <3>2. Head(up).n \in Nat
      <4>1. Head(up) \in Requests
        BY <3>1, HeadTail
      <4> QED
        BY <4>1 DEF Requests
    <3> QED
      BY <2>2, <3>2 DEF ServerSubscribe, ServerUnsubscribe, ReplyKind
  <2>3. ASSUME NEW c \in Channels, ServerSubscribeAck(c)
        PROVE  \E k \in ReplyKind, n \in Nat : Send(Reply(k, c, n))
    <3>1. handler.n \in Nat
      BY <2>3 DEF ServerSubscribeAck, TypeOK, ServerTypeOK, NoHandler
    <3> QED
      BY <2>3, <3>1 DEF ServerSubscribeAck, ReplyKind
  <2>4. ASSUME NEW c \in Channels, ServerSubscribeKick(c) PROVE down' = down
    BY <2>4 DEF ServerSubscribeKick, wireVars
  <2> QED
    BY <2>1, <2>2, <2>3, <2>4 DEF ServerNetwork
<1> QED
  BY <1>1, <1>2, <1>3, SameStill, ReplyStill DEF Rests

LEMMA ClientRests ==
  ASSUME TypeOK, NEW c \in Channels, RingClient(c) \/ ReceiveReply(c)
  PROVE  Rests
<1>1. /\ UNCHANGED <<written, writeQueue, queue, ct, delivered, wsOpen>> /\ OwnersRest
  BY DEF RingClient, ReceiveReply, writerVars, rxVars, drainVars, userVars, wireVars,
     OwnersRest
<1>2. CASE RingClient(c)
  <2>1. \A d, k : InHand(rx', d, k) = InHand(rx, d, k)
    BY <1>2 DEF RingClient, InHand, NoRx
  <2>2. down' = down
    BY <1>2 DEF RingClient, wireVars
  <2> QED
    BY <1>1, <2>1, <2>2 DEF Rests, Still
<1>3. CASE ReceiveReply(c)
  <2>1. down \in Seq(Frames) /\ down # <<>> /\ down' = Tail(down) /\ rx' = rx
    BY <1>3 DEF ReceiveReply, TypeOK, WireTypeOK, rxVars
  <2>2. \A d : ~IsData(Head(down), d)
    BY <1>3 DEF ReceiveReply, IsData, ReplyKind
  <2> QED
    BY <1>1, <2>1, <2>2, WireTail DEF Rests, Still
<1> QED
  BY <1>2, <1>3

LEMMA UserRests ==
  ASSUME TypeOK, NEW c \in Channels,
         \/ Subscribe(c) \/ SubscribeReturns(c) \/ Nudge(c) \/ Unsubscribe(c)
         \/ DisconnectReturns(c) \/ CallTimeout(c)
  PROVE  Rests
<1>1. /\ UNCHANGED <<written, writeQueue, down, queue, rx, ct, delivered, wsOpen>>
      /\ UNCHANGED <<readCallbacks, connects, canceled>>
  BY DEF Subscribe, SubscribeReturns, Nudge, Unsubscribe, DisconnectReturns,
     CallTimeout, writerVars, rxVars, drainVars, wireVars
<1>2. \A d \in Channels : user'[d] \in Opened <=> user[d] \in Opened
  BY DEF Subscribe, SubscribeReturns, Nudge, Unsubscribe, DisconnectReturns,
     CallTimeout, Opened, TypeOK, UserTypeOK
<1> QED
  BY <1>1, <1>2, SameStill DEF Rests, OwnersRest

MovesSomething ==
    \/ \E c \in Channels :
          \/ Write(c) \/ ServerSend(c) \/ ReceiveData(c) \/ PushFrame(c)
          \/ ClientPick(c) \/ ClientCheck(c) \/ ClientPeek(c) \/ ClientConsume(c)
          \/ ClientRefuse(c)
          \/ Register(c) \/ SubscribeThrows(c) \/ Unregister(c) \/ CancelEntry(c)
    \/ Drop

LEMMA MoveCases ==
  ASSUME TypeOK, [Next]_vars  PROVE  Rests \/ MovesSomething
<1>1. ASSUME NEW c \in Channels, RingDoorbell(c) PROVE Rests
  BY <1>1, SameStill DEF RingDoorbell, Rests, OwnersRest, rxVars, drainVars, userVars,
     wireVars
<1>2. ASSUME ClientOnClose \/ ClientWaitDrain PROVE Rests
  BY <1>2, SameStill DEF ClientOnClose, ClientWaitDrain, Rests, OwnersRest, writerVars,
     rxVars, drainVars, userVars, wireVars
<1>3. CASE UNCHANGED vars
  BY <1>3, SameStill DEF vars, Rests, OwnersRest
<1>4. ASSUME NEW c \in Channels, User(c) PROVE Rests \/ MovesSomething
  BY <1>4, UserRests DEF User, UserInside, MovesSomething
<1>5. CASE ServerTransport \/ ServerNetwork
  BY <1>5, ServerRests DEF MovesSomething
<1>6. CASE ClientNetwork
  BY <1>2, <1>6, ClientRests DEF ClientNetwork, MovesSomething
<1>7. CASE ClientTransport
  BY <1>2, <1>7 DEF ClientTransport, MovesSomething
<1> QED
  BY <1>1, <1>3, <1>4, <1>5, <1>6, <1>7 DEF Next, MovesSomething

-----------------------------------------------------------------------------
(* The order of the messages of a channel                                    *)

LEMMA OwnerStep ==
  ASSUME TypeOK, EntryInv, OwnerInv, [Next]_vars  PROVE  OwnerInv'
<1> USE DEF OwnerInv, Opened
<1>0. /\ readCallbacks \in [Channels -> 0..MaxConnects]
      /\ connects \in [Channels -> 0..MaxConnects]
      /\ user \in [Channels -> {"idle", "registered", "subscribing", "connected",
                                "erased", "canceled", "nudged", "unsubscribing"}]
      /\ ct \in {NoDrain} \cup Working({"check", "peek", "call"})
  BY DEF TypeOK, UserTypeOK, TransportTypeOK
<1>1. CASE Rests
  BY <1>1 DEF Rests, OwnersRest
<1>2. ASSUME UNCHANGED <<readCallbacks, connects, user, ct>> PROVE OwnerInv'
  BY <1>2
<1>3. ASSUME NEW c \in Channels, Write(c) \/ ServerSend(c) \/ ReceiveData(c) \/ PushFrame(c)
      PROVE  UNCHANGED <<readCallbacks, connects, user, ct>>
  BY <1>3 DEF Write, ServerSend, ReceiveData, PushFrame, drainVars, userVars
<1>4. CASE Drop
  BY <1>2, <1>4 DEF Drop, drainVars, userVars
<1>5. ASSUME NEW c \in Channels, ClientPick(c) PROVE OwnerInv'
  <2>1. readCallbacks[c] \leq connects[c]
    BY DEF EntryInv
  <2> QED
    BY <1>5, <2>1 DEF ClientPick, userVars, NoDrain
<1>6. ASSUME NEW c \in Channels,
             ClientCheck(c) \/ ClientPeek(c) \/ ClientConsume(c) \/ ClientRefuse(c)
      PROVE  OwnerInv'
  <2>1. /\ ct' = NoDrain \/ (ct'.ch = ct.ch /\ ct'.conn = ct.conn /\ ct.pc # "idle")
        /\ UNCHANGED <<readCallbacks, connects, user>>
    BY <1>0, <1>6 DEF ClientCheck, ClientPeek, ClientConsume, ClientRefuse, userVars, Working,
       NoDrain
  <2> QED
    BY <2>1 DEF NoDrain
<1>7. ASSUME NEW c \in Channels, Register(c) PROVE OwnerInv'
  <2>1. /\ connects' = [connects EXCEPT ![c] = @ + 1]
        /\ readCallbacks' = [readCallbacks EXCEPT ![c] = connects[c] + 1]
        /\ user' = [user EXCEPT ![c] = "registered"] /\ ct' = ct
    BY <1>7 DEF Register, drainVars
  <2>2. \A d \in Channels : connects[d] \in Nat /\ connects[d] \leq connects'[d]
    BY <1>0, <2>1, PathAssumption
  <2>3. ct.pc # "idle" => ct.ch \in Channels /\ ct.conn \in Nat
    BY <1>0, PathAssumption DEF Working, Conn, NoDrain
  <2>4. ct'.pc # "idle" => ct'.conn \leq connects'[ct'.ch]
    <3>1. \A x, y, z \in Nat : x \leq y /\ y \leq z => x \leq z
      OBVIOUS
    <3>2. \A d \in Channels : connects'[d] \in Nat
      BY <1>0, <2>1, <2>2
    <3> QED
      BY <2>1, <2>2, <2>3, <3>1, <3>2
  <2>5. connects[c] + 1 > 0
    BY <2>2
  <2>6. ASSUME NEW d \in Channels
        PROVE  /\ user'[d] \in Opened => readCallbacks'[d] = connects'[d] /\ connects'[d] > 0
               /\ user'[d] \notin Opened => readCallbacks'[d] = 0
    <3>1. CASE d = c
      BY <1>0, <2>1, <2>5, <3>1
    <3>2. CASE d # c
      BY <1>0, <2>1, <3>2
    <3> QED
      BY <3>1, <3>2
  <2> QED
    BY <2>4, <2>6
<1>8. ASSUME NEW c \in Channels, SubscribeThrows(c) \/ Unregister(c) \/ CancelEntry(c)
      PROVE  OwnerInv'
  <2>1. UNCHANGED <<connects, ct>>
    BY <1>8 DEF SubscribeThrows, Unregister, CancelEntry, drainVars
  <2>2. \/ /\ readCallbacks' = [readCallbacks EXCEPT ![c] = 0]
           /\ user' \in {[user EXCEPT ![c] = "idle"], [user EXCEPT ![c] = "erased"]}
        \/ /\ readCallbacks' = readCallbacks
           /\ user[c] = "erased" /\ user' = [user EXCEPT ![c] = "canceled"]
    BY <1>8 DEF SubscribeThrows, Unregister, CancelEntry
  <2> QED
    BY <1>0, <2>1, <2>2
<1> QED
  BY <1>1, <1>2, <1>3, <1>4, <1>5, <1>6, <1>7, <1>8, MoveCases DEF MovesSomething

\* What the type invariant says of the messages of a channel.
LEMMA MessageTypes ==
  ASSUME TypeOK, NEW c \in Channels
  PROVE  /\ written[c] \in Nat /\ writeQueue[c] \in Seq(Nat)
         /\ down \in Seq(Frames) /\ OnWire(c) \subseteq Nat
         /\ Range(writeQueue[c]) \subseteq Nat
         /\ \A k \in Conn : /\ queue[<<c, k>>] \in Seq(Nat)
                            /\ InHand(rx, c, k) \subseteq Nat
                            /\ Waiting(c, k) \subseteq Nat
         /\ rx.pc = "push" => rx \in Working({"push", "ring"})
         /\ delivered[c] \in Seq(Nat)
<1>1. /\ written[c] \in Nat /\ writeQueue[c] \in Seq(Nat) /\ down \in Seq(Frames)
      /\ delivered[c] \in Seq(Nat)
  BY DEF TypeOK, QueueTypeOK, WireTypeOK, TransportTypeOK
<1>2. \A k \in Conn : queue[<<c, k>>] \in Seq(Nat)
  BY DEF TypeOK, NetworkTypeOK, Entry
<1>3. rx.pc = "push" => rx \in Working({"push", "ring"})
  BY DEF TypeOK, NetworkTypeOK, NoRx
<1>4. \A k \in Conn : InHand(rx, c, k) \subseteq Nat
  BY <1>3 DEF InHand, Working
<1>5. \A k \in Conn : Waiting(c, k) \subseteq Nat
  BY <1>2, <1>4, RangeFacts DEF Waiting
<1> QED
  BY <1>1, <1>2, <1>3, <1>4, <1>5, RangeFacts, DataFacts DEF OnWire

LEMMA StillOrder ==
  ASSUME NEW d \in Channels, OrderInv(d), Still(d)  PROVE  OrderInv(d)'
<1>1. /\ written'[d] = written[d] /\ writeQueue'[d] = writeQueue[d]
      /\ OnWire(d)' = OnWire(d) /\ FramesAscend(down', d)
  BY DEF Still, OrderInv, OnWire
<1>2. ASSUME NEW k \in Conn
      PROVE  /\ queue'[<<d, k>>] = queue[<<d, k>>] /\ InHand(rx', d, k) = InHand(rx, d, k)
             /\ Waiting(d, k)' = Waiting(d, k)
  BY DEF Still, Waiting
<1> QED
  BY <1>1, <1>2 DEF OrderInv

\* put(): the new message is the newest.
LEMMA WriteOrder ==
  ASSUME TypeOK, NEW c \in Channels, Write(c), NEW d \in Channels, OrderInv(d)
  PROVE  OrderInv(d)'
<1>1. /\ written' = [written EXCEPT ![c] = @ + 1]
      /\ writeQueue' = [writeQueue EXCEPT ![c] = Append(@, written[c] + 1)]
      /\ UNCHANGED <<down, queue, rx>>
  BY DEF Write, wireVars, rxVars
<1>2. CASE d # c
  <2>1. Still(d)
    BY <1>1, <1>2 DEF Still
  <2> QED
    BY <2>1, StillOrder
<1>3. CASE d = c
  <2>0. /\ written \in [Channels -> Nat] /\ writeQueue \in [Channels -> Seq(Nat)]
    BY DEF TypeOK, QueueTypeOK
  <2> DEFINE n == written[c]
             w == writeQueue[c]
  <2>1. n \in Nat /\ w \in Seq(Nat) /\ OnWire(c) \subseteq Nat /\ Range(w) \subseteq Nat
        /\ \A k \in Conn : Waiting(c, k) \subseteq Nat
    BY MessageTypes
  <2>2. written'[c] = n + 1 /\ writeQueue'[c] = Append(w, n + 1)
    BY <1>1, <2>0
  <2>3. OnWire(c)' = OnWire(c) /\ \A k \in Conn : Waiting(c, k)' = Waiting(c, k)
    BY <1>1 DEF OnWire, Waiting
  <2>4. \A x \in Nat : x \leq n => x < n + 1 /\ x \leq n + 1
    BY <2>1
  <2>5. /\ \A x \in Range(w) \cup OnWire(c) : x < n + 1 /\ x \leq n + 1
        /\ \A k \in Conn : \A x \in Waiting(c, k) : x < n + 1 /\ x \leq n + 1
    BY <1>3, <2>1, <2>4 DEF OrderInv, NoneAfter
  <2>6. /\ Ascending(Append(w, n + 1)) /\ Range(Append(w, n + 1)) = Range(w) \cup {n + 1}
    <3>1. Ascending(w) /\ Precedes(Range(w), {n + 1}) /\ n + 1 \in Nat
      BY <1>3, <2>1, <2>5 DEF OrderInv, Precedes
    <3> QED
      BY <2>1, <3>1, RangeAppend
  <2> HIDE DEF n, w
  <2>7. n + 1 \leq n + 1
    BY <2>1
  <2>8. /\ NoneAfter(Range(Append(w, n + 1)) \cup OnWire(c), n + 1)
        /\ Precedes(OnWire(c), Range(Append(w, n + 1)))
    BY <1>3, <2>5, <2>6, <2>7 DEF OrderInv, NoneAfter, Precedes, w
  <2>9. ASSUME NEW k \in Conn
        PROVE  /\ Precedes(Waiting(c, k), OnWire(c) \cup Range(Append(w, n + 1)))
               /\ NoneAfter(Waiting(c, k), n + 1)
    BY <1>3, <2>5, <2>6 DEF OrderInv, NoneAfter, Precedes, w
  <2>10. ASSUME NEW k \in Conn
         PROVE  /\ Ascending(queue[<<c, k>>])'
                /\ Precedes(Range(queue[<<c, k>>]), InHand(rx, c, k))'
                /\ \A j \in Conn : j < k => Precedes(Waiting(c, j), Waiting(c, k))
    BY <1>1, <1>3 DEF OrderInv
  <2> QED
    BY <1>1, <1>3, <2>2, <2>3, <2>6, <2>8, <2>9, <2>10 DEF OrderInv
<1> QED
  BY <1>2, <1>3

\* The server's transport thread moves the oldest message of a queue to the wire,
\* or loses it with the connection.
LEMMA SendEffect ==
  ASSUME TypeOK, NEW c \in Channels, ServerSend(c), OrderInv(c),
         NEW m, m = Head(writeQueue[c])
  PROVE  /\ \A d \in Channels \ {c} : Still(d)
         /\ UNCHANGED <<written, queue, rx>>
         /\ m \in Range(writeQueue[c]) /\ Ascending(writeQueue'[c])
         /\ Range(writeQueue'[c]) = Range(writeQueue[c]) \ {m}
         /\ Precedes({m}, Range(writeQueue[c]) \ {m})
         /\ FramesAscend(down', c)
         /\ OnWire(c)' = OnWire(c) \cup (IF wsOpen THEN {m} ELSE {})
<1> DEFINE f == Data(c, m)
           w == writeQueue[c]
<1>0. /\ writeQueue' = [writeQueue EXCEPT ![c] = Tail(@)] /\ Send(f) /\ w # <<>>
      /\ UNCHANGED <<written, queue, rx>>
  BY DEF ServerSend, writerVars, rxVars
<1>1. w \in Seq(Nat) /\ down \in Seq(Frames) /\ Ascending(w) /\ FramesAscend(down, c)
      /\ writeQueue \in [Channels -> Seq(Nat)]
  BY MessageTypes DEF OrderInv, TypeOK, QueueTypeOK
<1>2. /\ Tail(w) \in Seq(Nat) /\ Ascending(Tail(w)) /\ m \in Nat
      /\ Range(Tail(w)) = Range(w) \ {m} /\ m \in Range(w)
      /\ \A x \in Range(w) : m \leq x
  BY <1>0, <1>1, RangeTail
<1>3. writeQueue'[c] = Tail(w)
  BY <1>0, <1>1
<1>4. f \in Frames /\ f.n = m /\ \A d : IsData(f, d) <=> d = c
  BY <1>2 DEF Data, Frames, FrameKind, IsData
<1>5. Precedes({m}, Range(w) \ {m})
  <2>1. \A x \in Nat : m \leq x /\ x # m => m < x
    BY <1>2
  <2>2. Range(w) \subseteq Nat
    BY <1>1, RangeFacts
  <2> QED
    BY <1>2, <2>1, <2>2 DEF Precedes
<1>6. Precedes(DataIn(down, c), {f.n})
  BY <1>2, <1>4 DEF OrderInv, Precedes, OnWire
<1> HIDE DEF f
<1>7. FramesAscend(down', c) /\ DataIn(down', c) = DataIn(down, c) \cup (IF wsOpen THEN {m} ELSE {})
  <2>1. CASE wsOpen
    <3>1. down' = Append(down, f)
      BY <1>0, <2>1 DEF Send
    <3> QED
      BY <1>1, <1>4, <1>6, <2>1, <3>1, WireAppend
  <2>2. CASE ~wsOpen
    BY <1>0, <1>1, <2>2 DEF Send
  <2> QED
    BY <2>1, <2>2
<1>8. ASSUME NEW d \in Channels \ {c} PROVE Still(d)
  <2>1. writeQueue'[d] = writeQueue[d]
    BY <1>0, <1>1
  <2>2. DataIn(down', d) = DataIn(down, d) /\ (FramesAscend(down, d) => FramesAscend(down', d))
    <3>1. CASE wsOpen
      <4>1. down' = Append(down, f) /\ ~IsData(f, d)
        BY <1>0, <1>4, <3>1 DEF Send
      <4>2. /\ DataIn(down', d) = DataIn(down, d) \cup (IF IsData(f, d) THEN {f.n} ELSE {})
            /\ FramesAscend(down, d) /\ (IsData(f, d) => Precedes(DataIn(down, d), {f.n}))
                   => FramesAscend(down', d)
        BY <1>1, <1>4, <4>1, WireAppend
      <4> QED
        BY <4>1, <4>2
    <3>2. CASE ~wsOpen
      BY <1>0, <3>2 DEF Send
    <3> QED
      BY <3>1, <3>2
  <2> QED
    BY <1>0, <2>1, <2>2 DEF Still
<1> QED
  BY <1>0, <1>2, <1>3, <1>5, <1>7, <1>8 DEF OnWire

\* The network thread takes the oldest message of a channel off the wire, for the
\* connection that is registered.
LEMMA ReceiveEffect ==
  ASSUME TypeOK, NEW c \in Channels, ReceiveData(c), OrderInv(c),
         NEW m, m = Head(down).n
  PROVE  /\ \A d \in Channels \ {c} : Still(d)
         /\ UNCHANGED <<written, writeQueue, queue>>
         /\ m \in OnWire(c) /\ FramesAscend(down', c)
         /\ OnWire(c)' = OnWire(c) \ {m}
         /\ Precedes({m}, OnWire(c) \ {m})
         /\ \A k \in Conn : /\ InHand(rx, c, k) = {}
                            /\ InHand(rx', c, k) = IF k = readCallbacks[c] THEN {m} ELSE {}
<1>0. /\ rx = NoRx /\ down # <<>> /\ IsData(Head(down), c) /\ down' = Tail(down)
      /\ rx' = IF readCallbacks[c] = 0 THEN NoRx
               ELSE [pc |-> "push", ch |-> c, conn |-> readCallbacks[c], msg |-> m]
      /\ UNCHANGED <<written, writeQueue, queue>>
  BY DEF ReceiveData, IsData, writerVars
<1>1. down \in Seq(Frames) /\ FramesAscend(down, c)
  BY MessageTypes DEF OrderInv
<1>2. /\ FramesAscend(down', c) /\ DataIn(down', c) = DataIn(down, c) \ {m}
      /\ m \in DataIn(down, c) /\ Precedes({m}, DataIn(down, c) \ {m})
  BY <1>0, <1>1, WireTail
<1>3. ASSUME NEW k \in Conn
      PROVE  /\ InHand(rx, c, k) = {}
             /\ InHand(rx', c, k) = IF k = readCallbacks[c] THEN {m} ELSE {}
  <2>1. k # 0
    BY PathAssumption DEF Conn
  <2> QED
    BY <1>0, <2>1 DEF InHand, NoRx
<1>4. ASSUME NEW d \in Channels \ {c} PROVE Still(d)
  <2>1. ~IsData(Head(down), d)
    BY <1>0 DEF IsData
  <2>2. DataIn(down', d) = DataIn(down, d) /\ (FramesAscend(down, d) => FramesAscend(down', d))
    BY <1>0, <1>1, <2>1, WireTail
  <2>3. \A k : InHand(rx, d, k) = {} /\ InHand(rx', d, k) = {}
    BY <1>0 DEF InHand, NoRx
  <2> QED
    BY <1>0, <2>2, <2>3 DEF Still
<1> QED
  BY <1>0, <1>2, <1>3, <1>4 DEF OnWire

\* ... and pushes it.
LEMMA PushEffect ==
  ASSUME TypeOK, NEW c \in Channels, PushFrame(c), OrderInv(c)
  PROVE  /\ \A d \in Channels \ {c} : Still(d)
         /\ UNCHANGED <<written, writeQueue, down>>
         /\ \A k \in Conn : /\ Waiting(c, k)' = Waiting(c, k)
                            /\ InHand(rx', c, k) = {}
                            /\ Ascending(queue'[<<c, k>>])
         /\ \A e \in Entry : queue[e] # <<>> => queue'[e] # <<>> /\ Head(queue'[e]) = Head(queue[e])
<1> DEFINE b == rx.conn
           m == rx.msg
<1>0. /\ rx.pc = "push" /\ rx.ch = c /\ b \in Conn /\ m \in Nat
      /\ queue' = [queue EXCEPT ![<<c, b>>] = Append(@, m)]
      /\ rx' = [rx EXCEPT !.pc = "ring"] /\ rx'.pc = "ring"
      /\ UNCHANGED <<written, writeQueue, down>>
  <2>1. rx \in Working({"push", "ring"})
    BY MessageTypes DEF PushFrame
  <2> QED
    BY <2>1 DEF PushFrame, Working, writerVars, wireVars
<1>1. queue \in [Entry -> Seq(Nat)] /\ <<c, b>> \in Entry
  BY <1>0 DEF TypeOK, NetworkTypeOK, Entry
<1> HIDE DEF b, m
<1>2. InHand(rx, c, b) = {m} /\ \A d, k : d # c \/ k # b => InHand(rx, d, k) = {}
  BY <1>0 DEF InHand, b, m
<1>3. \A d, k : InHand(rx', d, k) = {}
  BY <1>0 DEF InHand
<1>4. /\ queue'[<<c, b>>] = Append(queue[<<c, b>>], m)
      /\ \A e \in Entry : e # <<c, b>> => queue'[e] = queue[e]
  BY <1>0, <1>1
<1>5. /\ Ascending(queue'[<<c, b>>])
      /\ Range(queue'[<<c, b>>]) = Range(queue[<<c, b>>]) \cup {m}
  <2>1. Ascending(queue[<<c, b>>]) /\ Precedes(Range(queue[<<c, b>>]), {m})
    BY <1>0, <1>2 DEF OrderInv
  <2> QED
    BY <1>0, <1>1, <1>4, <2>1, RangeAppend
<1>6. ASSUME NEW k \in Conn
      PROVE  /\ Waiting(c, k)' = Waiting(c, k)
             /\ InHand(rx', c, k) = {}
             /\ Ascending(queue'[<<c, k>>])
  <2>1. CASE k = b
    BY <1>2, <1>3, <1>5, <2>1 DEF Waiting
  <2>2. CASE k # b
    <3>1. <<c, k>> \in Entry /\ <<c, k>> # <<c, b>>
      BY <2>2 DEF Entry
    <3> QED
      BY <1>2, <1>3, <1>4, <2>2, <3>1 DEF Waiting, OrderInv
  <2> QED
    BY <2>1, <2>2
<1>7. ASSUME NEW d \in Channels \ {c} PROVE Still(d)
  <2>1. \A k \in Conn : <<d, k>> \in Entry /\ <<d, k>> # <<c, b>>
    BY DEF Entry
  <2> QED
    BY <1>0, <1>2, <1>3, <1>4, <2>1 DEF Still
<1>8. ASSUME NEW e \in Entry, queue[e] # <<>>
      PROVE  queue'[e] # <<>> /\ Head(queue'[e]) = Head(queue[e])
  <2>1. queue[e] \in Seq(Nat)
    BY <1>1
  <2>2. Append(queue[e], m) # <<>> /\ Head(Append(queue[e], m)) = Head(queue[e])
    BY <1>0, <1>8, <2>1 DEF m
  <2> QED
    BY <1>4, <1>8, <2>2
<1> QED
  BY <1>0, <1>6, <1>7, <1>8

\* A callback that returned true consumes the oldest message of its queue.
LEMMA ConsumeEffect ==
  ASSUME TypeOK, PopsWhatItShowed, NEW c \in Channels, ClientConsume(c), OrderInv(c),
         NEW b, b = ct.conn, NEW m, m = ct.msg
  PROVE  /\ \A d \in Channels \ {c} : Still(d)
         /\ UNCHANGED <<written, writeQueue, down, rx>>
         /\ b \in Conn /\ m \in Range(queue[<<c, b>>]) /\ m \in Nat
         /\ Range(queue'[<<c, b>>]) = Range(queue[<<c, b>>]) \ {m}
         /\ Ascending(queue'[<<c, b>>])
         /\ Precedes({m}, Range(queue[<<c, b>>]) \ {m})
         /\ \A k \in Conn \ {b} : queue'[<<c, k>>] = queue[<<c, k>>]
<1>0. /\ ct.pc = "call" /\ ct.ch = c
      /\ queue' = [queue EXCEPT ![<<c, b>>] = Tail(@)]
      /\ UNCHANGED <<written, writeQueue, down, rx>>
  BY DEF ClientConsume, writerVars, wireVars
<1>1. ct \in Working({"check", "peek", "call"})
  BY <1>0 DEF TypeOK, TransportTypeOK, NoDrain
<1>2. b \in Conn /\ m \in Nat /\ queue \in [Entry -> Seq(Nat)] /\ <<c, b>> \in Entry
  BY <1>1 DEF Working, TypeOK, NetworkTypeOK, Entry
<1>3. queue[<<c, b>>] # <<>> /\ Head(queue[<<c, b>>]) = m
  BY <1>0 DEF PopsWhatItShowed
<1>4. Ascending(queue[<<c, b>>]) /\ queue[<<c, b>>] \in Seq(Nat)
  BY <1>2 DEF OrderInv
<1>5. /\ Ascending(Tail(queue[<<c, b>>])) /\ m \in Range(queue[<<c, b>>])
      /\ Range(Tail(queue[<<c, b>>])) = Range(queue[<<c, b>>]) \ {m}
      /\ \A x \in Range(queue[<<c, b>>]) : m \leq x
  BY <1>3, <1>4, RangeTail
<1>6. queue'[<<c, b>>] = Tail(queue[<<c, b>>])
      /\ \A e \in Entry : e # <<c, b>> => queue'[e] = queue[e]
  BY <1>0, <1>2
<1>7. Precedes({m}, Range(queue[<<c, b>>]) \ {m})
  <2>1. \A x \in Nat : m \leq x /\ x # m => m < x
    BY <1>2
  <2>2. Range(queue[<<c, b>>]) \subseteq Nat
    BY <1>4, RangeFacts
  <2> QED
    BY <1>5, <2>1, <2>2 DEF Precedes
<1>8. \A k \in Conn \ {b} : queue'[<<c, k>>] = queue[<<c, k>>]
  <2>1. \A k \in Conn \ {b} : <<c, k>> \in Entry /\ <<c, k>> # <<c, b>>
    BY DEF Entry
  <2> QED
    BY <1>6, <2>1
<1>9. ASSUME NEW d \in Channels \ {c} PROVE Still(d)
  <2>1. \A k \in Conn : <<d, k>> \in Entry /\ <<d, k>> # <<c, b>>
    BY DEF Entry
  <2> QED
    BY <1>0, <1>6, <2>1 DEF Still
<1> QED
  BY <1>0, <1>2, <1>5, <1>6, <1>7, <1>8, <1>9

\* Moving a message to the next place, or losing it, keeps all in order.
LEMMA OrderStep ==
  ASSUME TypeOK, PopsWhatItShowed, EntryInv, OwnerInv, [Next]_vars,
         NEW d \in Channels, \A e \in Channels : OrderInv(e)
  PROVE  OrderInv(d)'
<1> DEFINE W == Range(writeQueue[d])
<1>0. /\ Ascending(writeQueue[d]) /\ FramesAscend(down, d)
      /\ NoneAfter(W \cup OnWire(d), written[d])
      /\ Precedes(OnWire(d), W)
      /\ \A k \in Conn :
            /\ Ascending(queue[<<d, k>>])
            /\ Precedes(Range(queue[<<d, k>>]), InHand(rx, d, k))
            /\ Precedes(Waiting(d, k), OnWire(d) \cup W)
            /\ NoneAfter(Waiting(d, k), written[d])
            /\ \A j \in Conn : j < k => Precedes(Waiting(d, j), Waiting(d, k))
  BY DEF OrderInv
<1> HIDE DEF W
<1>1. ASSUME Still(d) PROVE OrderInv(d)'
  BY <1>1, StillOrder
<1>2. ASSUME NEW c \in Channels, ServerSend(c) PROVE OrderInv(d)'
  <2>1. CASE d # c
    BY <1>1, <1>2, <2>1, SendEffect
  <2>2. CASE d = c
    <3>1. PICK m : m = Head(writeQueue[c])
      OBVIOUS
    <3> DEFINE V == Range(writeQueue'[d])
    <3>2. /\ UNCHANGED <<written, queue, rx>>
          /\ m \in W /\ Ascending(writeQueue'[d]) /\ V = W \ {m}
          /\ Precedes({m}, W \ {m}) /\ FramesAscend(down', d)
          /\ OnWire(d)' \subseteq OnWire(d) \cup {m}
      BY <1>2, <2>2, <3>1, SendEffect DEF W
    <3> HIDE DEF V
    <3>3. \A k \in Conn : Waiting(d, k)' = Waiting(d, k)
      BY <3>2 DEF Waiting
    <3>4. /\ NoneAfter(V \cup OnWire(d)', written[d]) /\ Precedes(OnWire(d)', V)
          /\ \A k \in Conn : Precedes(Waiting(d, k), OnWire(d)' \cup V)
      BY <1>0, <3>2 DEF NoneAfter, Precedes
    <3> QED
      BY <1>0, <3>2, <3>3, <3>4 DEF OrderInv, V
  <2> QED
    BY <2>1, <2>2
<1>3. ASSUME NEW c \in Channels, ReceiveData(c) PROVE OrderInv(d)'
  <2>1. CASE d # c
    BY <1>1, <1>3, <2>1, ReceiveEffect
  <2>2. CASE d = c
    <3>1. PICK m : m = Head(down).n
      OBVIOUS
    <3>2. /\ UNCHANGED <<written, writeQueue, queue>>
          /\ m \in OnWire(d) /\ FramesAscend(down', d)
          /\ OnWire(d)' = OnWire(d) \ {m}
          /\ Precedes({m}, OnWire(d) \ {m})
          /\ \A k \in Conn : /\ InHand(rx, d, k) = {}
                             /\ InHand(rx', d, k) = IF k = readCallbacks[d] THEN {m} ELSE {}
      BY <1>3, <2>2, <3>1, ReceiveEffect
    <3>3. \A k \in Conn : /\ Waiting(d, k) = Range(queue[<<d, k>>])
                          /\ Waiting(d, k)' = Range(queue[<<d, k>>]) \cup InHand(rx', d, k)
      BY <3>2 DEF Waiting
    <3>4. \A k \in Conn : k > readCallbacks[d] /\ readCallbacks[d] # 0 => Range(queue[<<d, k>>]) = {}
      <4>1. ASSUME NEW k \in Conn, k > readCallbacks[d], readCallbacks[d] # 0
            PROVE  queue[<<d, k>>] = <<>>
        <5>1. readCallbacks[d] = connects[d]
          BY <4>1 DEF OwnerInv
        <5> QED
          BY <4>1, <5>1 DEF EntryInv
      <4> QED
        BY <4>1 DEF Range
    <3>5. NoneAfter(W \cup OnWire(d)', written[d]) /\ Precedes(OnWire(d)', W)
      BY <1>0, <3>2 DEF NoneAfter, Precedes
    <3>6. ASSUME NEW k \in Conn
          PROVE  /\ Precedes(Range(queue[<<d, k>>]), InHand(rx', d, k))
                 /\ Precedes(Waiting(d, k)', OnWire(d)' \cup W)
                 /\ NoneAfter(Waiting(d, k)', written[d])
      <4>1. /\ Precedes(Range(queue[<<d, k>>]), {m}) /\ Precedes({m}, OnWire(d)' \cup W)
            /\ NoneAfter({m}, written[d])
        BY <1>0, <3>2, <3>3 DEF Precedes, NoneAfter
      <4>2. Waiting(d, k)' \subseteq Waiting(d, k) \cup {m} /\ InHand(rx', d, k) \subseteq {m}
            /\ OnWire(d)' \subseteq OnWire(d)
        BY <3>2, <3>3
      <4> QED
        BY <1>0, <4>1, <4>2 DEF Precedes, NoneAfter
    <3>7. ASSUME NEW k \in Conn, NEW j \in Conn, j < k
          PROVE  Precedes(Waiting(d, j)', Waiting(d, k)')
      <4>1. CASE j = readCallbacks[d]
        <5>1. j # 0 /\ k # j
          BY <3>7, PathAssumption DEF Conn
        <5>2. Waiting(d, k)' = {}
          BY <3>2, <3>3, <3>4, <3>7, <4>1, <5>1, PathAssumption DEF Conn
        <5> QED
          BY <5>2 DEF Precedes
      <4>2. CASE j # readCallbacks[d]
        <5>0. InHand(rx', d, j) = {} /\ InHand(rx', d, k) \subseteq {m}
          BY <3>2, <4>2
        <5>1. Waiting(d, j)' = Waiting(d, j) /\ Waiting(d, k)' \subseteq Waiting(d, k) \cup {m}
          <6>1. /\ Waiting(d, j) = Range(queue[<<d, j>>])
                /\ Waiting(d, j)' = Range(queue[<<d, j>>]) \cup InHand(rx', d, j)
            BY <3>3
          <6>2. /\ Waiting(d, k) = Range(queue[<<d, k>>])
                /\ Waiting(d, k)' = Range(queue[<<d, k>>]) \cup InHand(rx', d, k)
            BY <3>3
          <6> QED
            BY <5>0, <6>1, <6>2
        <5>2. Precedes(Waiting(d, j), Waiting(d, k)) /\ Precedes(Waiting(d, j), {m})
          BY <1>0, <3>2, <3>7 DEF Precedes
        <5> QED
          BY <5>1, <5>2 DEF Precedes
      <4> QED
        BY <4>1, <4>2
    <3> QED
      BY <1>0, <3>2, <3>5, <3>6, <3>7 DEF OrderInv, W
  <2> QED
    BY <2>1, <2>2
<1>4. ASSUME NEW c \in Channels, PushFrame(c) PROVE OrderInv(d)'
  <2>1. CASE d # c
    BY <1>1, <1>4, <2>1, PushEffect
  <2>2. CASE d = c
    <3>1. /\ UNCHANGED <<written, writeQueue, down>>
          /\ \A k \in Conn : /\ Waiting(d, k)' = Waiting(d, k)
                             /\ InHand(rx', d, k) = {}
                             /\ Ascending(queue'[<<d, k>>])
      BY <1>4, <2>2, PushEffect
    <3>2. OnWire(d)' = OnWire(d)
      BY <3>1 DEF OnWire
    <3>3. \A k \in Conn : Precedes(Range(queue'[<<d, k>>]), InHand(rx', d, k))
      BY <3>1 DEF Precedes
    <3> QED
      BY <1>0, <3>1, <3>2, <3>3 DEF OrderInv, W
  <2> QED
    BY <2>1, <2>2
<1>5. ASSUME NEW c \in Channels, ClientConsume(c) PROVE OrderInv(d)'
  <2>1. PICK b, m : b = ct.conn /\ m = ct.msg
    OBVIOUS
  <2>2. CASE d # c
    BY <1>1, <1>5, <2>1, <2>2, ConsumeEffect
  <2>3. CASE d = c
    <3>1. /\ UNCHANGED <<written, writeQueue, down, rx>>
          /\ b \in Conn /\ Ascending(queue'[<<d, b>>])
          /\ Range(queue'[<<d, b>>]) = Range(queue[<<d, b>>]) \ {m}
          /\ \A k \in Conn \ {b} : queue'[<<d, k>>] = queue[<<d, k>>]
      BY <1>5, <2>1, <2>3, ConsumeEffect
    <3>2. OnWire(d)' = OnWire(d)
      BY <3>1 DEF OnWire
    <3>3. \A k \in Conn : /\ Range(queue'[<<d, k>>]) \subseteq Range(queue[<<d, k>>])
                          /\ InHand(rx', d, k) = InHand(rx, d, k)
                          /\ Ascending(queue'[<<d, k>>])
      BY <1>0, <3>1
    <3>4. \A k \in Conn : Waiting(d, k)' \subseteq Waiting(d, k)
      BY <3>3 DEF Waiting
    <3>5. ASSUME NEW k \in Conn
          PROVE  /\ Precedes(Range(queue'[<<d, k>>]), InHand(rx', d, k))
                 /\ Precedes(Waiting(d, k)', OnWire(d) \cup W)
                 /\ NoneAfter(Waiting(d, k)', written[d])
                 /\ \A j \in Conn : j < k => Precedes(Waiting(d, j)', Waiting(d, k)')
      BY <1>0, <3>3, <3>4 DEF Precedes, NoneAfter
    <3> QED
      BY <1>0, <3>1, <3>2, <3>3, <3>5 DEF OrderInv, W
  <2> QED
    BY <2>2, <2>3
<1>6. CASE Drop
  <2>1. /\ UNCHANGED <<written, writeQueue, queue, rx>> /\ down' = <<>>
    BY <1>6 DEF Drop, writerVars, rxVars
  <2>2. OnWire(d)' = {} /\ FramesAscend(down', d)
    BY <2>1 DEF OnWire, DataIn, FramesAscend
  <2>3. \A k \in Conn : Waiting(d, k)' = Waiting(d, k)
    BY <2>1 DEF Waiting
  <2>4. /\ NoneAfter(W \cup OnWire(d)', written[d]) /\ Precedes(OnWire(d)', W)
        /\ \A k \in Conn : Precedes(Waiting(d, k), OnWire(d)' \cup W)
    BY <1>0, <2>2 DEF NoneAfter, Precedes
  <2> QED
    BY <1>0, <2>1, <2>2, <2>3, <2>4 DEF OrderInv, W
<1>7. ASSUME NEW c \in Channels,
             \/ ClientPick(c) \/ ClientCheck(c) \/ ClientPeek(c) \/ ClientRefuse(c)
             \/ Register(c) \/ SubscribeThrows(c) \/ Unregister(c) \/ CancelEntry(c)
      PROVE  OrderInv(d)'
  BY <1>1, <1>7, SameStill DEF ClientPick, ClientCheck, ClientPeek, ClientRefuse, Register,
     SubscribeThrows, Unregister, CancelEntry, writerVars, wireVars, rxVars
<1>8. CASE Rests
  BY <1>1, <1>8 DEF Rests
<1>9. ASSUME NEW c \in Channels, Write(c) PROVE OrderInv(d)'
  BY <1>9, WriteOrder
<1> QED
  BY <1>2, <1>3, <1>4, <1>5, <1>6, <1>7, <1>8, <1>9, MoveCases DEF MovesSomething


-----------------------------------------------------------------------------
(* The invariant of the refinement                                           *)

StreamInv ==
    TypeInv /\ EntryInv /\ OwnerInv /\ \A c \in Channels : OrderInv(c)

LEMMA StreamInvStep == StreamInv /\ [Next]_vars /\ TypeInv' /\ EntryInv' => StreamInv'
BY OwnerStep, OrderStep DEF StreamInv, TypeInv

LEMMA InitStreamInv == Init => OwnerInv /\ \A c \in Channels : OrderInv(c)
<1> SUFFICES ASSUME Init PROVE OwnerInv /\ \A c \in Channels : OrderInv(c)
  OBVIOUS
<1>1. OwnerInv
  BY DEF Init, OwnerInv, Opened, NoDrain
<1>2. ASSUME NEW c \in Channels PROVE OrderInv(c)
  <2>1. /\ writeQueue[c] = <<>> /\ down = <<>> /\ rx = NoRx
        /\ \A k \in Conn : queue[<<c, k>>] = <<>>
    BY DEF Init, Entry
  <2>2. /\ Range(writeQueue[c]) = {} /\ OnWire(c) = {}
        /\ \A k \in Conn : Range(queue[<<c, k>>]) = {} /\ InHand(rx, c, k) = {}
    BY <2>1 DEF Range, OnWire, DataIn, InHand, NoRx
  <2>3. \A k \in Conn : Waiting(c, k) = {}
    BY <2>2 DEF Waiting
  <2> QED
    BY <2>1, <2>2, <2>3 DEF OrderInv, Ascending, FramesAscend, NoneAfter, Precedes
<1> QED
  BY <1>1, <1>2

\* The two sets of the mapping, and that late messages come first.
Maps ==
    /\ LateMap \in [Channels -> SUBSET Nat] /\ TransitMap \in [Channels -> SUBSET Nat]
    /\ \A d \in Channels : /\ LateMap[d] = Late(d) /\ TransitMap[d] = Transit(d)
                           /\ Precedes(Late(d), Transit(d))

\* Where the message is that the transport thread is about to hand over.
LEMMA WorkerFacts ==
  ASSUME TypeOK, PopsWhatItShowed, NEW c \in Channels, ct.pc # "idle", ct.ch = c
  PROVE  /\ ct \in Working({"check", "peek", "call"}) /\ ct.conn \in Conn
         /\ ct.pc \in {"check", "peek", "call"}
         /\ Waiting(c, ct.conn) \subseteq Nat
         /\ ct.pc = "call" => ct.msg \in Waiting(c, ct.conn)
<1>1. ct \in Working({"check", "peek", "call"})
  BY DEF TypeOK, TransportTypeOK, NoDrain
<1>2. ct.conn \in Conn /\ ct.pc \in {"check", "peek", "call"}
  BY <1>1 DEF Working
<1>3. PICK k \in Conn : k = ct.conn
  BY <1>2
<1>4. queue[<<c, k>>] \in Seq(Nat) /\ Waiting(c, k) \subseteq Nat
  BY MessageTypes
<1>5. ASSUME ct.pc = "call" PROVE ct.msg \in Waiting(c, k)
  <2>1. queue[<<c, k>>] # <<>> /\ Head(queue[<<c, k>>]) = ct.msg
    BY <1>3, <1>5 DEF PopsWhatItShowed
  <2>2. Head(queue[<<c, k>>]) = queue[<<c, k>>][1] /\ 1 \in 1..Len(queue[<<c, k>>])
    BY <1>4, <2>1, HeadTail
  <2> QED
    BY <2>1, <2>2 DEF Waiting, Range
<1> QED
  BY <1>1, <1>2, <1>3, <1>4, <1>5

LEMMA LateIsWaiting ==
  ASSUME TypeOK, PopsWhatItShowed, NEW c \in Channels
  PROVE  /\ ~OnOldEntry(c) => Late(c) = {}
         /\ OnOldEntry(c) => /\ ct.pc # "idle" /\ ct.ch = c /\ ct.conn # readCallbacks[c]
                             /\ ct.conn \in Conn
                             /\ Late(c) \subseteq Waiting(c, ct.conn)
<1>1. ~OnOldEntry(c) => Late(c) = {}
  BY DEF Late
<1>2. ASSUME OnOldEntry(c) PROVE Late(c) \subseteq Waiting(c, ct.conn)
  <2>1. /\ ct.pc \in {"check", "peek", "call"}
        /\ ct.pc = "call" => ct.msg \in Waiting(c, ct.conn)
    BY <1>2, WorkerFacts DEF OnOldEntry
  <2>2. CASE ~canceled[<<c, ct.conn>>]
    BY <1>2, <2>2 DEF Late, LateOf
  <2>3. CASE canceled[<<c, ct.conn>>] /\ ct.pc = "check"
    BY <1>2, <2>3 DEF Late, LateOf
  <2>4. CASE canceled[<<c, ct.conn>>] /\ ct.pc = "peek"
    BY <1>2, <2>4 DEF Late, LateOf
  <2>5. CASE canceled[<<c, ct.conn>>] /\ ct.pc = "call"
    BY <1>2, <2>1, <2>5 DEF Late, LateOf
  <2> QED
    BY <2>1, <2>2, <2>3, <2>4, <2>5
<1> QED
  BY <1>1, <1>2, WorkerFacts DEF OnOldEntry

LEMMA MapFacts == StreamInv => Maps
<1> SUFFICES ASSUME StreamInv PROVE Maps
  OBVIOUS
<1>0. TypeOK /\ PopsWhatItShowed /\ EntryInv /\ OwnerInv
  BY DEF StreamInv, TypeInv
<1>1. ASSUME NEW d \in Channels
      PROVE  /\ Late(d) \subseteq Nat /\ Transit(d) \subseteq Nat
             /\ Precedes(Late(d), Transit(d))
  <2>1. /\ OnWire(d) \subseteq Nat /\ Range(writeQueue[d]) \subseteq Nat
        /\ \A k \in Conn : Waiting(d, k) \subseteq Nat
    BY <1>0, MessageTypes
  <2>2. OrderInv(d)
    BY DEF StreamInv
  <2>3. /\ \A k \in Conn : Precedes(Waiting(d, k), OnWire(d) \cup Range(writeQueue[d]))
        /\ \A j, k \in Conn : j < k => Precedes(Waiting(d, j), Waiting(d, k))
    BY <2>2 DEF OrderInv
  <2>4. readCallbacks[d] \in 0..MaxConnects /\ connects[d] \in 0..MaxConnects
    BY <1>0 DEF TypeOK, UserTypeOK
  <2>5. readCallbacks[d] # 0 => readCallbacks[d] \in Conn
    BY <2>4, PathAssumption DEF Conn
  <2>6. Transit(d) \subseteq Nat
    BY <2>1, <2>5 DEF Transit, Registered
  <2>7. CASE ~OnOldEntry(d)
    BY <1>0, <2>6, <2>7, LateIsWaiting DEF Precedes
  <2>8. CASE OnOldEntry(d)
    <3>1. /\ ct.pc # "idle" /\ ct.ch = d /\ ct.conn # readCallbacks[d]
          /\ ct.conn \in Conn /\ Late(d) \subseteq Waiting(d, ct.conn)
      BY <1>0, <2>8, LateIsWaiting
    <3>2. PICK k \in Conn : k = ct.conn
      BY <3>1
    <3>3. k \leq connects[d] /\ k # readCallbacks[d]
      BY <1>0, <3>1, <3>2 DEF OwnerInv
    <3>4. readCallbacks[d] # 0 => readCallbacks[d] = connects[d]
      BY <1>0 DEF OwnerInv
    <3>5. readCallbacks[d] # 0 => k < readCallbacks[d]
      BY <2>4, <3>3, <3>4, PathAssumption DEF Conn
    <3>6. Precedes(Waiting(d, k), Transit(d))
      <4>1. CASE readCallbacks[d] = 0
        BY <2>3, <4>1 DEF Transit, Registered, Precedes
      <4>2. CASE readCallbacks[d] # 0
        <5>1. Precedes(Waiting(d, k), Waiting(d, readCallbacks[d]))
          BY <2>3, <2>5, <3>5, <4>2
        <5> QED
          BY <2>3, <4>2, <5>1 DEF Transit, Registered, Precedes
      <4> QED
        BY <4>1, <4>2
    <3> QED
      BY <2>1, <2>6, <3>1, <3>2, <3>6 DEF Precedes
  <2> QED
    BY <2>7, <2>8
<1> QED
  BY <1>1 DEF Maps, LateMap, TransitMap

-----------------------------------------------------------------------------
(* What has to be shown of a step for it to be one of the stream             *)

Same(d) == Late(d)' = Late(d) /\ Transit(d)' = Transit(d)

LEMMA PointUpdate ==
  ASSUME NEW S, NEW f, NEW g, NEW T, f \in [S -> T], g \in [S -> T], NEW c \in S, NEW v,
         g[c] = v, \A d \in S \ {c} : g[d] = f[d]
  PROVE  g = [f EXCEPT ![c] = v]
OBVIOUS

LEMMA ToStutter ==
  ASSUME Maps, Maps', UNCHANGED <<written, delivered, OpenChannels>>,
         \A d \in Channels : Same(d)
  PROVE  UNCHANGED Stream!streamVars
<1>1. LateMap' = LateMap /\ TransitMap' = TransitMap
  BY DEF Maps, Same
<1> QED
  BY <1>1 DEF Stream!streamVars

LEMMA ToLose ==
  ASSUME Maps, Maps', UNCHANGED <<written, delivered>>, OpenChannels' \subseteq OpenChannels,
         \A d \in Channels :
            \/ Same(d)
            \/ /\ d \notin OpenChannels'
               /\ Transit(d)' \subseteq Transit(d) /\ Late(d)' \subseteq Late(d) \cup Transit(d)
  PROVE  Stream!LoseWhileClosed
<1>1. ASSUME NEW d \in Channels
      PROVE  IF d \in OpenChannels'
             THEN LateMap'[d] = LateMap[d] /\ TransitMap'[d] = TransitMap[d]
             ELSE /\ TransitMap'[d] \subseteq TransitMap[d]
                  /\ LateMap'[d] \subseteq LateMap[d] \cup TransitMap[d]
                  /\ Stream!Before(LateMap'[d], TransitMap'[d])
  <2>1. LateMap[d] = Late(d) /\ TransitMap[d] = Transit(d)
    BY DEF Maps
  <2>2. /\ LateMap'[d] = Late(d)' /\ TransitMap'[d] = Transit(d)'
        /\ Precedes(LateMap'[d], TransitMap'[d])
    BY DEF Maps, Precedes
  <2>3. Stream!Before(LateMap'[d], TransitMap'[d])
    BY <2>2 DEF Precedes, Stream!Before
  <2> QED
    BY <2>1, <2>2, <2>3 DEF Same
<1>2. LateMap' \in [Channels -> SUBSET Nat] /\ TransitMap' \in [Channels -> SUBSET Nat]
  BY DEF Maps
<1> QED
  BY <1>1, <1>2 DEF Stream!LoseWhileClosed

LEMMA ToDropLate ==
  ASSUME Maps, Maps', UNCHANGED <<written, delivered, OpenChannels>>,
         NEW c \in Channels, Late(c)' = {}, Transit(c)' = Transit(c),
         \A d \in Channels \ {c} : Same(d)
  PROVE  Stream!DropLate(c)
<1>1. LateMap'[c] = {} /\ TransitMap' = TransitMap /\ \A d \in Channels \ {c} : LateMap'[d] = LateMap[d]
  BY DEF Maps, Same
<1>2. LateMap \in [Channels -> SUBSET Nat] /\ LateMap' \in [Channels -> SUBSET Nat]
  BY DEF Maps
<1>3. LateMap' = [LateMap EXCEPT ![c] = {}]
  BY <1>1, <1>2
<1> QED
  BY <1>1, <1>3 DEF Stream!DropLate

LEMMA ToEnter ==
  ASSUME Maps, Maps', UNCHANGED <<delivered, OpenChannels>>,
         NEW c \in Channels, written' = [written EXCEPT ![c] = @ + 1],
         Late(c)' = Late(c), Transit(c)' = Transit(c) \cup {written[c] + 1},
         \A d \in Channels \ {c} : Same(d)
  PROVE  Stream!Enter(c)
<1>1. /\ TransitMap'[c] = TransitMap[c] \cup {written[c] + 1}
      /\ LateMap' = LateMap /\ \A d \in Channels \ {c} : TransitMap'[d] = TransitMap[d]
  BY DEF Maps, Same
<1>2. TransitMap \in [Channels -> SUBSET Nat] /\ TransitMap' \in [Channels -> SUBSET Nat]
  BY DEF Maps
<1>3. TransitMap' = [TransitMap EXCEPT ![c] = @ \cup {written[c] + 1}]
  BY <1>1, <1>2
<1> QED
  BY <1>1, <1>3 DEF Stream!Enter

LEMMA ToOpen ==
  ASSUME Maps, Maps', UNCHANGED <<written, delivered>>, \A d \in Channels : Same(d),
         NEW c \in Channels, OpenChannels' = OpenChannels \cup {c}
  PROVE  Stream!Open(c)
<1>1. LateMap' = LateMap /\ TransitMap' = TransitMap
  BY DEF Maps, Same
<1> QED
  BY <1>1 DEF Stream!Open

LEMMA ToDeliver ==
  ASSUME Maps, Maps', UNCHANGED <<written, OpenChannels>>,
         NEW c \in Channels, NEW m \in Transit(c),
         delivered' = [delivered EXCEPT ![c] = Append(@, m)],
         \A x \in Transit(c) : m \leq x,
         Late(c) = {}, Late(c)' = {}, Transit(c)' = Transit(c) \ {m},
         \A d \in Channels \ {c} : Same(d)
  PROVE  Stream!Deliver(c)
<1>0. \A d \in Channels : /\ LateMap[d] = Late(d) /\ TransitMap[d] = Transit(d)
                           /\ LateMap'[d] = Late(d)' /\ TransitMap'[d] = Transit(d)'
  BY DEF Maps
<1>1. /\ TransitMap'[c] = TransitMap[c] \ {m} /\ LateMap[c] = {}
      /\ m \in TransitMap[c] /\ \A x \in TransitMap[c] : m \leq x
  BY <1>0
<1>5. \A d \in Channels \ {c} : TransitMap'[d] = TransitMap[d]
  BY <1>0 DEF Same
<1>6. LateMap' = LateMap
  <2>1. \A d \in Channels : LateMap'[d] = LateMap[d]
    BY <1>0 DEF Same
  <2> QED
    BY <2>1 DEF Maps
<1>2. TransitMap \in [Channels -> SUBSET Nat] /\ TransitMap' \in [Channels -> SUBSET Nat]
  BY DEF Maps
<1>3. TransitMap' = [TransitMap EXCEPT ![c] = @ \ {m}]
  BY <1>1, <1>2, <1>5
<1>4. Stream!Oldest(m, TransitMap[c])
  BY <1>1 DEF Stream!Oldest
<1> QED
  BY <1>1, <1>3, <1>4, <1>6 DEF Stream!Deliver

LEMMA ToDeliverLate ==
  ASSUME Maps, Maps', UNCHANGED <<written, OpenChannels>>,
         NEW c \in Channels, NEW m \in Late(c),
         delivered' = [delivered EXCEPT ![c] = Append(@, m)],
         \A x \in Late(c) : m \leq x,
         Late(c)' = Late(c) \ {m} \/ Late(c)' = {}, Transit(c)' = Transit(c),
         \A d \in Channels \ {c} : Same(d)
  PROVE  Stream!DeliverLate(c)
<1>1. /\ LateMap'[c] = LateMap[c] \ {m} \/ LateMap'[c] = {}
      /\ TransitMap' = TransitMap
      /\ m \in LateMap[c] /\ \A x \in LateMap[c] : m \leq x
      /\ \A d \in Channels \ {c} : LateMap'[d] = LateMap[d]
  BY DEF Maps, Same
<1>2. LateMap \in [Channels -> SUBSET Nat] /\ LateMap' \in [Channels -> SUBSET Nat]
  BY DEF Maps
<1>3. LateMap' \in {[LateMap EXCEPT ![c] = @ \ {m}], [LateMap EXCEPT ![c] = {}]}
  BY <1>1, <1>2
<1>4. Stream!Oldest(m, LateMap[c])
  BY <1>1 DEF Stream!Oldest
<1> QED
  BY <1>1, <1>3, <1>4 DEF Stream!DeliverLate

\* A channel whose messages, owner and worker stay is the same to the stream.
NotServed(d)  == ~(ct.pc # "idle" /\ ct.ch = d)

LEMMA SameTransit ==
  ASSUME TypeOK, NEW d \in Channels, Still(d), readCallbacks'[d] = readCallbacks[d]
  PROVE  Transit(d)' = Transit(d) /\ \A k \in Conn : Waiting(d, k)' = Waiting(d, k)
<1>1. \A k \in Conn : Waiting(d, k)' = Waiting(d, k)
  BY DEF Still, Waiting
<1>2. /\ OnWire(d)' = OnWire(d) /\ Range(writeQueue'[d]) = Range(writeQueue[d])
  BY DEF Still, OnWire
<1>3. readCallbacks[d] # 0 => readCallbacks[d] \in Conn
  BY PathAssumption DEF TypeOK, UserTypeOK, Conn
<1>4. PICK r : r = readCallbacks[d]
  OBVIOUS
<1>5. r # 0 => Waiting(d, r)' = Waiting(d, r)
  BY <1>1, <1>3, <1>4
<1>6. Registered(d)' = Registered(d)
  BY <1>4, <1>5 DEF Registered
<1> QED
  BY <1>1, <1>2, <1>6 DEF Transit

LEMMA LateIsLateOf ==
  ASSUME NEW d, NEW k, ct.conn = k, ct'.conn = k
  PROVE  /\ OnOldEntry(d) => Late(d) = LateOf(Waiting(d, k), canceled[<<d, k>>], ct)
         /\ OnOldEntry(d)' => Late(d)' = LateOf(Waiting(d, k)', canceled'[<<d, k>>], ct')
<1>1. Late(d) = IF ~OnOldEntry(d) THEN {} ELSE LateOf(Waiting(d, k), canceled[<<d, k>>], ct)
  BY DEF Late, Waiting
<1>2. Late(d)' = IF ~OnOldEntry(d)' THEN {}
                 ELSE LateOf(Waiting(d, k)', canceled'[<<d, k>>], ct')
  BY DEF Late, Waiting
<1> QED
  BY <1>1, <1>2

LEMMA SameLate ==
  ASSUME TypeOK, NEW d \in Channels,
         \A k \in Conn : Waiting(d, k)' = Waiting(d, k) /\ canceled'[<<d, k>>] = canceled[<<d, k>>],
         UNCHANGED ct, OnOldEntry(d)' <=> OnOldEntry(d)
  PROVE  Late(d)' = Late(d)
<1>1. CASE ~OnOldEntry(d)
  BY <1>1 DEF Late
<1>2. CASE OnOldEntry(d)
  <2>1. ct.conn \in Conn
    BY <1>2 DEF OnOldEntry, TypeOK, TransportTypeOK, Working, NoDrain
  <2>2. PICK k \in Conn : k = ct.conn
    BY <2>1
  <2>3. Waiting(d, k)' = Waiting(d, k) /\ canceled'[<<d, k>>] = canceled[<<d, k>>]
    OBVIOUS
  <2>4. /\ Late(d) = LateOf(Waiting(d, k), canceled[<<d, k>>], ct)
        /\ Late(d)' = LateOf(Waiting(d, k)', canceled'[<<d, k>>], ct')
    BY <1>2, <2>2, LateIsLateOf
  <2> QED
    BY <2>3, <2>4
<1> QED
  BY <1>1, <1>2

LEMMA SameStream ==
  ASSUME TypeOK, NEW d \in Channels, Still(d), readCallbacks'[d] = readCallbacks[d],
         \A k \in Conn : canceled'[<<d, k>>] = canceled[<<d, k>>],
         \/ UNCHANGED ct
         \/ NotServed(d) /\ NotServed(d)'
  PROVE  Same(d)
<1>1. Transit(d)' = Transit(d) /\ \A k \in Conn : Waiting(d, k)' = Waiting(d, k)
  BY SameTransit
<1>2. CASE UNCHANGED ct
  BY <1>1, <1>2, SameLate DEF Same, OnOldEntry
<1>3. CASE NotServed(d) /\ NotServed(d)'
  BY <1>1, <1>3 DEF Same, NotServed, Late, OnOldEntry
<1> QED
  BY <1>2, <1>3

-----------------------------------------------------------------------------
(* The steps of the path, as steps of the stream                             *)

LEMMA RestsMaps ==
  ASSUME StreamInv, Maps, Maps', TypeOK', Rests  PROVE  UNCHANGED Stream!streamVars
<1>0. TypeOK
  BY DEF StreamInv, TypeInv
<1>1. \A d \in Channels : Same(d)
  BY <1>0, SameStream DEF Rests, OwnersRest
<1>2. written' = written
  BY <1>0 DEF Rests, Still, TypeOK, QueueTypeOK
<1>3. OpenChannels' = OpenChannels
  BY DEF Rests, OwnersRest, OpenChannels
<1> QED
  BY <1>1, <1>2, <1>3, ToStutter DEF Rests

LEMMA WriteMaps ==
  ASSUME StreamInv, Maps, Maps', NEW c \in Channels, Write(c)  PROVE  Stream!Enter(c)
<1>0. TypeOK /\ written \in [Channels -> Nat] /\ writeQueue \in [Channels -> Seq(Nat)]
  BY DEF StreamInv, TypeInv, TypeOK, QueueTypeOK
<1>1. /\ written' = [written EXCEPT ![c] = @ + 1]
      /\ writeQueue' = [writeQueue EXCEPT ![c] = Append(@, written[c] + 1)]
      /\ UNCHANGED <<down, wsOpen, queue, rx, ct, delivered, readCallbacks, canceled, user>>
  BY DEF Write, wireVars, rxVars, drainVars, userVars
<1>2. ASSUME NEW d \in Channels \ {c} PROVE Same(d)
  <2>1. Still(d)
    BY <1>0, <1>1 DEF Still
  <2> QED
    BY <1>0, <1>1, <2>1, SameStream
<1>3. OpenChannels' = OpenChannels
  BY <1>1 DEF OpenChannels
<1>4. \A d \in Channels, k \in Conn : Waiting(d, k)' = Waiting(d, k)
  BY <1>1 DEF Waiting
<1>5. Late(c)' = Late(c)
  BY <1>0, <1>1, <1>4, SameLate DEF OnOldEntry
<1>6. Registered(c)' = Registered(c) /\ OnWire(c)' = OnWire(c)
  BY <1>1 DEF Registered, Waiting, OnWire
<1>7. Range(writeQueue'[c]) = Range(writeQueue[c]) \cup {written[c] + 1}
  <2>1. Ascending(writeQueue[c]) /\ NoneAfter(Range(writeQueue[c]), written[c])
    BY DEF StreamInv, OrderInv, NoneAfter
  <2>2. Range(writeQueue[c]) \subseteq Nat /\ written[c] \in Nat /\ writeQueue[c] \in Seq(Nat)
    BY <1>0, RangeFacts
  <2>3. Precedes(Range(writeQueue[c]), {written[c] + 1})
    BY <2>1, <2>2 DEF NoneAfter, Precedes
  <2>4. writeQueue'[c] = Append(writeQueue[c], written[c] + 1)
    BY <1>0, <1>1
  <2>5. written[c] + 1 \in Nat
    BY <2>2
  <2> QED
    BY <2>1, <2>2, <2>3, <2>4, <2>5, RangeAppend
<1>8. Transit(c)' = Transit(c) \cup {written[c] + 1}
  BY <1>6, <1>7 DEF Transit
<1> QED
  BY <1>1, <1>2, <1>3, <1>5, <1>8, ToEnter

LEMMA ServerSendMaps ==
  ASSUME StreamInv, Maps, Maps', NEW c \in Channels, ServerSend(c)
  PROVE  UNCHANGED Stream!streamVars \/ Stream!LoseWhileClosed
<1>0. TypeOK /\ OrderInv(c)
  BY DEF StreamInv, TypeInv
<1>1. UNCHANGED <<wsOpen, ct, delivered, readCallbacks, canceled, user>>
  BY DEF ServerSend, drainVars, userVars
<1>2. PICK m : m = Head(writeQueue[c])
  OBVIOUS
<1>3. /\ \A d \in Channels \ {c} : Still(d)
      /\ UNCHANGED <<written, queue, rx>>
      /\ m \in Range(writeQueue[c])
      /\ Range(writeQueue'[c]) = Range(writeQueue[c]) \ {m}
      /\ OnWire(c)' = OnWire(c) \cup (IF wsOpen THEN {m} ELSE {})
  BY <1>0, <1>2, SendEffect
<1>4. \A d \in Channels \ {c} : Same(d)
  BY <1>0, <1>1, <1>3, SameStream
<1>5. OpenChannels' = OpenChannels
  BY <1>1 DEF OpenChannels
<1>6. \A k \in Conn : Waiting(c, k)' = Waiting(c, k)
  BY <1>3 DEF Waiting
<1>7. Late(c)' = Late(c)
  BY <1>0, <1>1, <1>6, SameLate DEF OnOldEntry
<1>8. Registered(c)' = Registered(c)
  BY <1>1, <1>3 DEF Registered, Waiting
<1>9. CASE wsOpen
  <2>1. Transit(c)' = Transit(c)
    BY <1>3, <1>8, <1>9 DEF Transit
  <2>2. \A d \in Channels : Same(d)
    BY <1>4, <1>7, <2>1 DEF Same
  <2> QED
    BY <1>1, <1>3, <1>5, <2>2, ToStutter
<1>10. CASE ~wsOpen
  <2>1. Transit(c)' \subseteq Transit(c)
    BY <1>3, <1>8, <1>10 DEF Transit
  <2>2. c \notin OpenChannels'
    BY <1>1, <1>10 DEF OpenChannels
  <2> QED
    BY <1>1, <1>3, <1>4, <1>5, <1>7, <2>1, <2>2, ToLose
<1> QED
  BY <1>9, <1>10

LEMMA ReceiveMaps ==
  ASSUME StreamInv, Maps, Maps', NEW c \in Channels, ReceiveData(c)
  PROVE  UNCHANGED Stream!streamVars \/ Stream!LoseWhileClosed
<1>0. TypeOK /\ PopsWhatItShowed /\ OrderInv(c) /\ OwnerInv
  BY DEF StreamInv, TypeInv
<1>1. UNCHANGED <<wsOpen, ct, delivered, readCallbacks, canceled, user>>
  BY DEF ReceiveData, drainVars, userVars
<1>2. PICK m : m = Head(down).n
  OBVIOUS
<1>3. /\ \A d \in Channels \ {c} : Still(d)
      /\ UNCHANGED <<written, writeQueue, queue>>
      /\ m \in OnWire(c) /\ OnWire(c)' = OnWire(c) \ {m}
      /\ \A k \in Conn : /\ InHand(rx, c, k) = {}
                         /\ InHand(rx', c, k) = IF k = readCallbacks[c] THEN {m} ELSE {}
  BY <1>0, <1>2, ReceiveEffect
<1>4. \A d \in Channels \ {c} : Same(d)
  BY <1>0, <1>1, <1>3, SameStream
<1>5. OpenChannels' = OpenChannels
  BY <1>1 DEF OpenChannels
<1>6. \A k \in Conn : Waiting(c, k)' = Waiting(c, k) \cup (IF k = readCallbacks[c] THEN {m} ELSE {})
  BY <1>3 DEF Waiting
<1>7. Late(c)' = Late(c)
  <2>1. CASE ~OnOldEntry(c)
    BY <1>1, <2>1 DEF Late, OnOldEntry
  <2>2. CASE OnOldEntry(c)
    <3>1. ct.conn \in Conn /\ ct.conn # readCallbacks[c]
      BY <1>0, <2>2, LateIsWaiting
    <3>2. PICK k \in Conn : k = ct.conn
      BY <3>1
    <3>3. Waiting(c, k)' = Waiting(c, k)
      BY <1>6, <3>1, <3>2
    <3>4. /\ Late(c) = LateOf(Waiting(c, k), canceled[<<c, k>>], ct)
          /\ Late(c)' = LateOf(Waiting(c, k)', canceled'[<<c, k>>], ct')
      BY <1>1, <2>2, <3>2, LateIsLateOf DEF OnOldEntry
    <3> QED
      BY <1>1, <3>3, <3>4
  <2> QED
    BY <2>1, <2>2
<1>8. CASE readCallbacks[c] = 0
  <2>1. Registered(c) = {} /\ Registered(c)' = {}
    BY <1>1, <1>8 DEF Registered
  <2>2. Transit(c)' \subseteq Transit(c)
    BY <1>3, <2>1 DEF Transit
  <2>3. c \notin OpenChannels
    BY <1>0, <1>8 DEF OwnerInv, OpenChannels
  <2> QED
    BY <1>1, <1>3, <1>4, <1>5, <1>7, <2>2, <2>3, ToLose
<1>9. CASE readCallbacks[c] # 0
  <2>1. PICK r : r = readCallbacks[c]
    OBVIOUS
  <2>2. r \in Conn /\ r # 0
    BY <1>0, <1>9, <2>1, PathAssumption DEF TypeOK, UserTypeOK, Conn
  <2>3. Waiting(c, r)' = Waiting(c, r) \cup {m}
    BY <1>6, <2>1, <2>2
  <2>4. Registered(c) = Waiting(c, r) /\ Registered(c)' = Waiting(c, r)'
    BY <1>1, <2>1, <2>2 DEF Registered, Waiting
  <2>5. Transit(c)' = Transit(c)
    BY <1>3, <2>3, <2>4 DEF Transit
  <2>6. \A d \in Channels : Same(d)
    BY <1>4, <1>7, <2>5 DEF Same
  <2> QED
    BY <1>1, <1>3, <1>5, <2>6, ToStutter
<1> QED
  BY <1>8, <1>9

LEMMA PushMaps ==
  ASSUME StreamInv, Maps, Maps', NEW c \in Channels, PushFrame(c)
  PROVE  UNCHANGED Stream!streamVars
<1>0. TypeOK /\ OrderInv(c)
  BY DEF StreamInv, TypeInv
<1>1. UNCHANGED <<wsOpen, ct, delivered, readCallbacks, canceled, user>>
  BY DEF PushFrame, wireVars, drainVars, userVars
<1>2. /\ \A d \in Channels \ {c} : Still(d)
      /\ UNCHANGED <<written, writeQueue, down>>
      /\ \A k \in Conn : Waiting(c, k)' = Waiting(c, k)
  BY <1>0, PushEffect
<1>3. \A d \in Channels \ {c} : Same(d)
  BY <1>0, <1>1, <1>2, SameStream
<1>4. OpenChannels' = OpenChannels
  BY <1>1 DEF OpenChannels
<1>5. Late(c)' = Late(c)
  BY <1>0, <1>1, <1>2, SameLate DEF OnOldEntry
<1>6. PICK r : r = readCallbacks[c]
  OBVIOUS
<1>7. r # 0 => r \in Conn
  BY <1>0, <1>6, PathAssumption DEF TypeOK, UserTypeOK, Conn
<1>8. Registered(c)' = Registered(c)
  <2>1. Registered(c) = (IF r = 0 THEN {} ELSE Waiting(c, r))
    BY <1>6 DEF Registered
  <2>2. Registered(c)' = (IF r = 0 THEN {} ELSE Waiting(c, r)')
    BY <1>1, <1>6 DEF Registered, Waiting
  <2> QED
    BY <1>2, <1>7, <2>1, <2>2
<1>9. Transit(c)' = Transit(c)
  BY <1>2, <1>8 DEF Transit, OnWire
<1> QED
  BY <1>1, <1>2, <1>3, <1>4, <1>5, <1>9, ToStutter DEF Same

\* The transport thread looks up an entry, reads its flag, copies its front, or is
\* refused: no message moves, but the last late one may be given up.
LEMMA WorkerQuiet ==
  ASSUME TypeOK, NEW c \in Channels, ClientPick(c) \/ ClientCheck(c) \/ ClientPeek(c) \/ ClientRefuse(c)
  PROVE  /\ UNCHANGED <<written, delivered, OpenChannels, readCallbacks, canceled, queue>>
         /\ \A d \in Channels : Still(d) /\ Transit(d)' = Transit(d)
         /\ \A d \in Channels \ {c} : Same(d)
         /\ \A d \in Channels, k \in Conn : Waiting(d, k)' = Waiting(d, k)
<1>1. UNCHANGED <<written, writeQueue, down, queue, rx, delivered, wsOpen, readCallbacks, canceled, user>>
  BY DEF ClientPick, ClientCheck, ClientPeek, ClientRefuse, writerVars, wireVars, rxVars, userVars
<1>2. ASSUME NEW d \in Channels
      PROVE  /\ Still(d) /\ Transit(d)' = Transit(d)
             /\ \A k \in Conn : Waiting(d, k)' = Waiting(d, k)
  <2>1. Still(d)
    BY <1>1, SameStill
  <2> QED
    BY <1>1, <2>1, SameTransit
<1>3. ASSUME NEW d \in Channels \ {c} PROVE Same(d)
  <2>0. ct \in {NoDrain} \cup Working({"check", "peek", "call"})
    BY DEF TypeOK, TransportTypeOK
  <2>1. NotServed(d) /\ NotServed(d)'
    <3>1. CASE ClientPick(c)
      BY <3>1 DEF ClientPick, NotServed, NoDrain
    <3>2. CASE ClientRefuse(c)
      BY <3>2 DEF ClientRefuse, NotServed, NoDrain
    <3>3. CASE ClientCheck(c) \/ ClientPeek(c)
      <4>1. ct.pc # "idle" /\ ct.ch = c
        BY <3>3 DEF ClientCheck, ClientPeek
      <4>2. ct' = NoDrain \/ ct'.ch = c
        BY <2>0, <3>3, <4>1 DEF ClientCheck, ClientPeek, Working, NoDrain
      <4> QED
        BY <4>1, <4>2 DEF NotServed, NoDrain
    <3> QED
      BY <3>1, <3>2, <3>3
  <2> QED
    BY <1>1, <1>2, <2>1, SameStream
<1> QED
  BY <1>1, <1>2, <1>3 DEF OpenChannels

LEMMA PickMaps ==
  ASSUME StreamInv, Maps, Maps', NEW c \in Channels, ClientPick(c)
  PROVE  UNCHANGED Stream!streamVars
<1>0. TypeOK
  BY DEF StreamInv, TypeInv
<1>1. ~OnOldEntry(c) /\ ~OnOldEntry(c)'
  BY DEF ClientPick, OnOldEntry, NoDrain, userVars
<1>2. Late(c)' = Late(c)
  BY <1>1 DEF Late
<1> QED
  BY <1>0, <1>2, WorkerQuiet, ToStutter DEF Same

LEMMA CheckMaps ==
  ASSUME StreamInv, Maps, Maps', NEW c \in Channels, ClientCheck(c)
  PROVE  UNCHANGED Stream!streamVars
<1>0. TypeOK /\ PopsWhatItShowed
  BY DEF StreamInv, TypeInv
<1>1. /\ ct.pc = "check" /\ ct.ch = c
      /\ ct' = IF canceled[<<c, ct.conn>>] THEN NoDrain ELSE [ct EXCEPT !.pc = "peek"]
      /\ UNCHANGED <<readCallbacks, canceled>>
  BY DEF ClientCheck, userVars
<1>2. /\ \A d \in Channels, k \in Conn : Waiting(d, k)' = Waiting(d, k)
  BY <1>0, WorkerQuiet
<1>3. ct \in Working({"check", "peek", "call"})
  BY <1>0, <1>1, WorkerFacts
<1>4. PICK k \in Conn : k = ct.conn
  BY <1>3 DEF Working
<1>5. CASE canceled[<<c, k>>]
  <2>1. ct' = NoDrain /\ ~OnOldEntry(c)'
    BY <1>1, <1>4, <1>5 DEF OnOldEntry, NoDrain
  <2>2. Late(c) = {}
    BY <1>1, <1>4, <1>5 DEF Late, LateOf
  <2>3. Late(c)' = {}
    BY <2>1 DEF Late
  <2> QED
    BY <1>0, <2>2, <2>3, WorkerQuiet, ToStutter DEF Same
<1>6. CASE ~canceled[<<c, k>>]
  <2>1. ct'.pc = "peek" /\ ct'.ch = c /\ ct'.conn = k
    BY <1>1, <1>3, <1>4, <1>6 DEF Working
  <2>2. OnOldEntry(c)' <=> OnOldEntry(c)
    BY <1>1, <1>4, <2>1 DEF OnOldEntry
  <2>3. Late(c) = IF ~OnOldEntry(c) THEN {} ELSE Waiting(c, k)
    BY <1>4, <1>6 DEF Late, LateOf, Waiting
  <2>4. Late(c)' = IF ~OnOldEntry(c)' THEN {} ELSE Waiting(c, k)'
    BY <1>1, <1>6, <2>1 DEF Late, LateOf, Waiting
  <2>5. Late(c)' = Late(c)
    BY <1>2, <2>2, <2>3, <2>4
  <2> QED
    BY <1>0, <2>5, WorkerQuiet, ToStutter DEF Same
<1> QED
  BY <1>5, <1>6

LEMMA RefuseMaps ==
  ASSUME StreamInv, Maps, Maps', NEW c \in Channels,
         ClientPeek(c) \/ ClientRefuse(c), ct' = NoDrain
  PROVE  Stream!DropLate(c)
<1>0. TypeOK
  BY DEF StreamInv, TypeInv
<1>1. Late(c)' = {}
  BY DEF Late, OnOldEntry, NoDrain
<1> QED
  BY <1>0, <1>1, WorkerQuiet, ToDropLate

LEMMA PeekMaps ==
  ASSUME StreamInv, Maps, Maps', NEW c \in Channels, ClientPeek(c)
  PROVE  UNCHANGED Stream!streamVars \/ Stream!DropLate(c)
<1>0. TypeOK /\ PopsWhatItShowed /\ OrderInv(c)
  BY DEF StreamInv, TypeInv
<1>1. /\ ct.pc = "peek" /\ ct.ch = c
      /\ ct' = IF queue[<<c, ct.conn>>] = <<>> THEN NoDrain
               ELSE [ct EXCEPT !.pc = "call", !.msg = Head(queue[<<c, ct.conn>>])]
      /\ UNCHANGED <<readCallbacks, canceled, queue>>
  BY DEF ClientPeek, userVars, rxVars
<1>2. /\ \A d \in Channels, k \in Conn : Waiting(d, k)' = Waiting(d, k)
  BY <1>0, WorkerQuiet
<1>3. ct \in Working({"check", "peek", "call"})
  BY <1>0, <1>1, WorkerFacts
<1>4. PICK k \in Conn : k = ct.conn
  BY <1>3 DEF Working
<1>5. CASE queue[<<c, k>>] = <<>>
  BY <1>1, <1>4, <1>5, RefuseMaps
<1>6. CASE queue[<<c, k>>] # <<>>
  <2>1. PICK m : m = Head(queue[<<c, k>>])
    OBVIOUS
  <2>2. ct'.pc = "call" /\ ct'.ch = c /\ ct'.conn = k /\ ct'.msg = m
    BY <1>1, <1>3, <1>4, <1>6, <2>1 DEF Working
  <2>3. OnOldEntry(c)' <=> OnOldEntry(c)
    BY <1>1, <1>4, <2>2 DEF OnOldEntry
  <2>4. /\ Waiting(c, k) \subseteq Nat /\ queue[<<c, k>>] \in Seq(Nat)
        /\ Ascending(queue[<<c, k>>])
        /\ Precedes(Range(queue[<<c, k>>]), InHand(rx, c, k))
    BY <1>0, MessageTypes DEF OrderInv
  <2>5. m \in Range(queue[<<c, k>>]) /\ \A x \in Range(queue[<<c, k>>]) : m \leq x
    BY <1>6, <2>1, <2>4, RangeTail
  <2>6. m \in Waiting(c, k) /\ \A x \in Waiting(c, k) : m \leq x
    <3>1. \A a, b \in Nat : a < b => a \leq b
      OBVIOUS
    <3>2. m \in Waiting(c, k) /\ \A x \in InHand(rx, c, k) : m < x
      BY <2>4, <2>5 DEF Waiting, Precedes
    <3>3. \A x \in InHand(rx, c, k) : x \in Nat
      BY <2>4 DEF Waiting
    <3> QED
      BY <2>4, <2>5, <3>1, <3>2, <3>3 DEF Waiting
  <2>7. {n \in Waiting(c, k) : \A x \in Waiting(c, k) : n \leq x} = {m}
    BY <2>4, <2>6
  <2>8. Late(c) = IF ~OnOldEntry(c) THEN {} ELSE LateOf(Waiting(c, k), canceled[<<c, k>>], ct)
    BY <1>4 DEF Late
  <2>9. Late(c)' = IF ~OnOldEntry(c)' THEN {} ELSE LateOf(Waiting(c, k)', canceled'[<<c, k>>], ct')
    BY <2>2 DEF Late, Waiting
  <2>10. LateOf(Waiting(c, k), canceled[<<c, k>>], ct) = LateOf(Waiting(c, k), canceled[<<c, k>>], ct')
    <3>1. ct.pc = "peek"
      BY <1>1
    <3>2. LateOf(Waiting(c, k), TRUE, ct) = {n \in Waiting(c, k) : \A x \in Waiting(c, k) : n \leq x}
      BY <3>1 DEF LateOf
    <3>3. LateOf(Waiting(c, k), TRUE, ct') = {m}
      BY <2>2 DEF LateOf
    <3>4. CASE ~canceled[<<c, k>>]
      BY <3>4 DEF LateOf
    <3>5. CASE canceled[<<c, k>>]
      <4>1. canceled[<<c, k>>] = TRUE
        BY <1>0, <3>5 DEF TypeOK, UserTypeOK, Entry
      <4> QED
        BY <2>7, <3>2, <3>3, <4>1
    <3> QED
      BY <3>4, <3>5
  <2>11. Waiting(c, k)' = Waiting(c, k) /\ canceled' = canceled
    BY <1>1, <1>2
  <2>12. Late(c)' = Late(c)
    BY <2>3, <2>8, <2>9, <2>10, <2>11
  <2> QED
    BY <1>0, <2>12, WorkerQuiet, ToStutter DEF Same
<1> QED
  BY <1>5, <1>6

LEMMA ConsumeMaps ==
  ASSUME StreamInv, Maps, Maps', NEW c \in Channels, ClientConsume(c)
  PROVE  Stream!Deliver(c) \/ Stream!DeliverLate(c)
<1>0. TypeOK /\ PopsWhatItShowed /\ OrderInv(c)
  BY DEF StreamInv, TypeInv
<1>1. PICK b, m : b = ct.conn /\ m = ct.msg
  OBVIOUS
<1>2. /\ \A d \in Channels \ {c} : Still(d)
      /\ UNCHANGED <<written, writeQueue, down, rx>>
      /\ b \in Conn /\ m \in Range(queue[<<c, b>>]) /\ m \in Nat
      /\ Range(queue'[<<c, b>>]) = Range(queue[<<c, b>>]) \ {m}
      /\ Precedes({m}, Range(queue[<<c, b>>]) \ {m})
      /\ \A k \in Conn \ {b} : queue'[<<c, k>>] = queue[<<c, k>>]
  BY <1>0, <1>1, ConsumeEffect
<1>3. ct.pc = "call" /\ ct.ch = c
  BY DEF ClientConsume
<1>4. ct \in Working({"check", "peek", "call"})
  BY <1>0, <1>3, WorkerFacts
<1>5. /\ UNCHANGED <<wsOpen, readCallbacks, canceled, user>>
      /\ delivered' = [delivered EXCEPT ![c] = Append(@, m)]
      /\ ct'.pc = "check" /\ ct'.ch = c /\ ct'.conn = b
  BY <1>1, <1>3, <1>4 DEF ClientConsume, wireVars, userVars, Working
<1>6. OpenChannels' = OpenChannels
  BY <1>5 DEF OpenChannels
<1>7. ASSUME NEW d \in Channels \ {c} PROVE Same(d)
  <2>1. NotServed(d) /\ NotServed(d)'
    BY <1>3, <1>5 DEF NotServed
  <2> QED
    BY <1>0, <1>2, <1>5, <2>1, SameStream
<1>8. /\ Precedes(Range(queue[<<c, b>>]), InHand(rx, c, b))
      /\ Precedes(Waiting(c, b), OnWire(c) \cup Range(writeQueue[c]))
      /\ Waiting(c, b) \subseteq Nat
  BY <1>0, <1>2, MessageTypes DEF OrderInv
<1>9. m \notin InHand(rx, c, b) /\ m \in Waiting(c, b)
  BY <1>2, <1>8 DEF Precedes, Waiting
<1>10. \A x \in Waiting(c, b) : m \leq x
  <2>1. \A x \in Waiting(c, b) : x = m \/ m < x
    BY <1>2, <1>8 DEF Precedes, Waiting
  <2>2. \A x \in Nat : x = m \/ m < x => m \leq x
    BY <1>2
  <2> QED
    BY <1>8, <2>1, <2>2
<1>11. Waiting(c, b)' = Waiting(c, b) \ {m}
  BY <1>2, <1>9 DEF Waiting
<1>12. \A k \in Conn \ {b} : Waiting(c, k)' = Waiting(c, k)
  BY <1>2 DEF Waiting
<1>13. OnWire(c)' = OnWire(c)
  BY <1>2 DEF OnWire
<1>14. PICK r : r = readCallbacks[c]
  OBVIOUS
<1>15. r # 0 => r \in Conn
  BY <1>0, <1>14, PathAssumption DEF TypeOK, UserTypeOK, Conn
<1>16. /\ Registered(c) = (IF r = 0 THEN {} ELSE Waiting(c, r))
       /\ Registered(c)' = (IF r = 0 THEN {} ELSE Waiting(c, r)')
  <2>1. Registered(c) = (IF r = 0 THEN {} ELSE Waiting(c, r))
    BY <1>14 DEF Registered
  <2>2. Registered(c)' = (IF r = 0 THEN {} ELSE Waiting(c, r)')
    BY <1>5, <1>14 DEF Registered, Waiting
  <2> QED
    BY <2>1, <2>2
<1>17. CASE b = r
  <2>1. Late(c) = {} /\ Late(c)' = {}
    BY <1>1, <1>5, <1>14, <1>17 DEF Late, OnOldEntry
  <2>2. b # 0
    BY <1>2, PathAssumption DEF Conn
  <2>3. Registered(c) = Waiting(c, b) /\ Registered(c)' = Waiting(c, b) \ {m}
    BY <1>11, <1>16, <1>17, <2>2
  <2>4. m \notin OnWire(c) \cup Range(writeQueue[c])
        /\ \A x \in OnWire(c) \cup Range(writeQueue[c]) : m < x /\ x \in Nat
    BY <1>0, <1>2, <1>8, <1>9, MessageTypes DEF Precedes
  <2>5. Transit(c)' = Transit(c) \ {m}
    BY <1>2, <1>13, <2>3, <2>4 DEF Transit
  <2>6. m \in Transit(c) /\ \A x \in Transit(c) : m \leq x
    <3>1. \A x \in Nat : m < x => m \leq x
      BY <1>2
    <3> QED
      BY <1>9, <1>10, <2>3, <2>4, <3>1 DEF Transit
  <2> QED
    BY <1>2, <1>5, <1>6, <1>7, <2>1, <2>5, <2>6, ToDeliver
<1>18. CASE b # r
  <2>1. OnOldEntry(c) /\ OnOldEntry(c)'
    BY <1>1, <1>3, <1>5, <1>14, <1>18 DEF OnOldEntry
  <2>2. Late(c) = IF ~canceled[<<c, b>>] THEN Waiting(c, b) ELSE {m}
    BY <1>1, <1>3, <2>1 DEF Late, LateOf
  <2>3. Late(c)' = IF ~canceled[<<c, b>>] THEN Waiting(c, b)' ELSE {}
    BY <1>5, <2>1 DEF Late, LateOf, Waiting
  <2>4. m \in Late(c) /\ \A x \in Late(c) : m \leq x
    BY <1>2, <1>9, <1>10, <2>2
  <2>5. Late(c)' = Late(c) \ {m} \/ Late(c)' = {}
    BY <1>11, <2>2, <2>3
  <2>6. Registered(c)' = Registered(c)
    BY <1>12, <1>15, <1>16, <1>18
  <2>7. Transit(c)' = Transit(c)
    BY <1>2, <1>13, <2>6 DEF Transit
  <2> QED
    BY <1>2, <1>5, <1>6, <1>7, <2>4, <2>5, <2>7, ToDeliverLate
<1> QED
  BY <1>17, <1>18

LEMMA RegisterMaps ==
  ASSUME StreamInv, Maps, Maps', NEW c \in Channels, Register(c)
  PROVE  UNCHANGED Stream!streamVars \/ Stream!Open(c)
<1>0. /\ TypeOK /\ PopsWhatItShowed /\ EntryInv /\ OwnerInv
      /\ readCallbacks \in [Channels -> 0..MaxConnects]
      /\ connects \in [Channels -> 0..MaxConnects]
      /\ user \in [Channels -> {"idle", "registered", "subscribing", "connected",
                                "erased", "canceled", "nudged", "unsubscribing"}]
  BY DEF StreamInv, TypeInv, TypeOK, UserTypeOK
<1>1. /\ user[c] = "idle" /\ connects[c] < MaxConnects
      /\ readCallbacks' = [readCallbacks EXCEPT ![c] = connects[c] + 1]
      /\ user' = [user EXCEPT ![c] = "registered"]
      /\ UNCHANGED <<written, writeQueue, down, wsOpen, queue, rx, ct, delivered, canceled>>
  BY DEF Register, writerVars, wireVars, rxVars, drainVars
<1>2. \A d \in Channels : Still(d)
  BY <1>1, SameStill
<1>3. \A d \in Channels \ {c} : Same(d)
  BY <1>0, <1>1, <1>2, SameStream
<1>4. PICK k : k = connects[c] + 1
  OBVIOUS
<1>5. k \in Conn /\ k > connects[c] /\ k # 0
  BY <1>0, <1>1, <1>4, PathAssumption DEF Conn
<1>6. readCallbacks[c] = 0 /\ readCallbacks'[c] = k
  BY <1>0, <1>1, <1>4 DEF OwnerInv, Opened
<1>7. Waiting(c, k) = {}
  <2>1. queue[<<c, k>>] = <<>>
    BY <1>0, <1>5 DEF EntryInv
  <2>2. rx.pc = "push" /\ rx.ch = c => rx.conn # k
    <3>1. SUFFICES ASSUME rx.pc = "push", rx.ch = c PROVE rx.conn # k
      OBVIOUS
    <3>2. rx.conn \in Nat /\ rx.conn \leq connects[c]
      BY <1>0, <3>1, MessageTypes, PathAssumption DEF EntryInv, Working, Conn
    <3> QED
      BY <1>0, <1>4, <3>2, PathAssumption
  <2> QED
    BY <2>1, <2>2 DEF Waiting, InHand, Range
<1>8. Registered(c) = {} /\ Registered(c)' = {}
  <2>1. Registered(c)' = Waiting(c, k)'
    BY <1>5, <1>6 DEF Registered, Waiting
  <2>2. Waiting(c, k)' = Waiting(c, k)
    BY <1>1 DEF Waiting
  <2> QED
    BY <1>6, <1>7, <2>1, <2>2 DEF Registered
<1>9. Transit(c)' = Transit(c)
  BY <1>1, <1>8 DEF Transit, OnWire
<1>10. OnOldEntry(c)' <=> OnOldEntry(c)
  <2>1. SUFFICES ASSUME ct.pc # "idle", ct.ch = c PROVE ct.conn # 0 /\ ct.conn # k
    BY <1>1, <1>6 DEF OnOldEntry
  <2>2. ct.conn \in Conn /\ ct.conn \leq connects[c]
    BY <1>0, <2>1, WorkerFacts DEF OwnerInv
  <2> QED
    BY <1>0, <1>4, <2>2, PathAssumption DEF Conn
<1>11. Late(c)' = Late(c)
  <2>1. \A j \in Conn : Waiting(c, j)' = Waiting(c, j) /\ canceled'[<<c, j>>] = canceled[<<c, j>>]
    BY <1>1 DEF Waiting
  <2> QED
    BY <1>0, <1>1, <1>10, <2>1, SameLate
<1>12. \A d \in Channels : Same(d)
  BY <1>3, <1>9, <1>11 DEF Same
<1>13. OpenChannels' = IF wsOpen THEN OpenChannels \cup {c} ELSE OpenChannels
  BY <1>0, <1>1 DEF OpenChannels, Opened
<1> QED
  BY <1>1, <1>12, <1>13, ToStutter, ToOpen

\* The entry leaves the table: its messages are late if the transport thread works
\* for it, and lost if not.
LEMMA LeaveMaps ==
  ASSUME StreamInv, Maps, Maps', NEW c \in Channels, SubscribeThrows(c) \/ Unregister(c)
  PROVE  Stream!LoseWhileClosed
<1>0. /\ TypeOK /\ PopsWhatItShowed /\ OwnerInv
      /\ readCallbacks \in [Channels -> 0..MaxConnects]
      /\ user \in [Channels -> {"idle", "registered", "subscribing", "connected",
                                "erased", "canceled", "nudged", "unsubscribing"}]
  BY DEF StreamInv, TypeInv, TypeOK, UserTypeOK
<1>1. /\ readCallbacks' = [readCallbacks EXCEPT ![c] = 0]
      /\ user' = [user EXCEPT ![c] = "idle"] \/ user' = [user EXCEPT ![c] = "erased"]
      /\ UNCHANGED <<written, writeQueue, down, wsOpen, queue, rx, ct, delivered, canceled>>
  BY DEF SubscribeThrows, Unregister, writerVars, wireVars, rxVars, drainVars
<1>2. \A d \in Channels : Still(d)
  BY <1>1, SameStill
<1>3. \A d \in Channels \ {c} : Same(d)
  BY <1>0, <1>1, <1>2, SameStream
<1>4. c \notin OpenChannels' /\ OpenChannels' \subseteq OpenChannels
  <2>1. \A d \in Channels : user'[d] \in Opened => d # c /\ user[d] \in Opened
    BY <1>0, <1>1 DEF Opened
  <2> QED
    BY <1>1, <2>1 DEF OpenChannels
<1>5. readCallbacks'[c] = 0
  BY <1>0, <1>1
<1>6. Transit(c)' \subseteq Transit(c)
  BY <1>1, <1>5 DEF Transit, Registered, OnWire
<1>7. Late(c)' \subseteq Late(c) \cup Transit(c)
  <2>1. CASE NotServed(c)
    BY <1>1, <2>1 DEF NotServed, Late, OnOldEntry
  <2>2. CASE ~NotServed(c)
    <3>1. /\ ct.pc \in {"check", "peek", "call"} /\ ct.ch = c /\ ct.conn \in Conn
          /\ ct.pc = "call" => ct.msg \in Waiting(c, ct.conn)
      BY <1>0, <2>2, WorkerFacts DEF NotServed
    <3>2. PICK k \in Conn : k = ct.conn
      BY <3>1
    <3>3. Waiting(c, k)' = Waiting(c, k) /\ canceled' = canceled /\ ct' = ct
      BY <1>1 DEF Waiting
    <3>4. Late(c)' \subseteq LateOf(Waiting(c, k), canceled[<<c, k>>], ct)
      <4>1. OnOldEntry(c)' => Late(c)' = LateOf(Waiting(c, k)', canceled'[<<c, k>>], ct')
        BY <3>2, <3>3, LateIsLateOf
      <4>2. ~OnOldEntry(c)' => Late(c)' = {}
        BY DEF Late
      <4> QED
        BY <3>3, <4>1, <4>2
    <3>5. CASE k # readCallbacks[c]
      <4>1. OnOldEntry(c)
        BY <3>1, <3>2, <3>5 DEF OnOldEntry
      <4>2. Late(c) = LateOf(Waiting(c, k), canceled[<<c, k>>], ct)
        BY <3>2, <4>1 DEF Late
      <4> QED
        BY <3>4, <4>2
    <3>6. CASE k = readCallbacks[c]
      <4>1. LateOf(Waiting(c, k), canceled[<<c, k>>], ct) \subseteq Waiting(c, k)
        BY <3>1, <3>2 DEF LateOf
      <4>2. Waiting(c, k) \subseteq Transit(c)
        BY <3>2, <3>6, PathAssumption DEF Transit, Registered, Conn
      <4> QED
        BY <3>4, <4>1, <4>2
    <3> QED
      BY <3>5, <3>6
  <2> QED
    BY <2>1, <2>2
<1> QED
  BY <1>1, <1>3, <1>4, <1>6, <1>7, ToLose

LEMMA CancelMaps ==
  ASSUME StreamInv, Maps, Maps', NEW c \in Channels, CancelEntry(c)
  PROVE  Stream!LoseWhileClosed
<1>0. /\ TypeOK /\ PopsWhatItShowed /\ OwnerInv /\ EntryInv
      /\ canceled \in [Entry -> BOOLEAN]
      /\ user \in [Channels -> {"idle", "registered", "subscribing", "connected",
                                "erased", "canceled", "nudged", "unsubscribing"}]
  BY DEF StreamInv, TypeInv, TypeOK, UserTypeOK
<1>1. /\ user[c] = "erased" /\ user' = [user EXCEPT ![c] = "canceled"]
      /\ canceled' = [canceled EXCEPT ![<<c, connects[c]>>] = TRUE]
      /\ UNCHANGED <<written, writeQueue, down, wsOpen, queue, rx, ct, delivered, readCallbacks>>
  BY DEF CancelEntry, writerVars, wireVars, rxVars, drainVars
<1>2. \A d \in Channels : Still(d)
  BY <1>1, SameStill
<1>3. ASSUME NEW d \in Channels \ {c} PROVE Same(d)
  <2>1. \A k \in Conn : canceled'[<<d, k>>] = canceled[<<d, k>>]
    <3>1. \A k \in Conn : <<d, k>> \in Entry /\ <<d, k>> # <<c, connects[c]>>
      BY DEF Entry
    <3> QED
      BY <1>0, <1>1, <3>1
  <2> QED
    BY <1>0, <1>1, <1>2, <2>1, SameStream
<1>4. c \notin OpenChannels' /\ OpenChannels' \subseteq OpenChannels
  <2>1. \A d \in Channels : user'[d] \in Opened => d # c /\ user[d] \in Opened
    BY <1>0, <1>1 DEF Opened
  <2> QED
    BY <1>1, <2>1 DEF OpenChannels
<1>5. Transit(c)' = Transit(c)
  BY <1>0, <1>1, <1>2, SameTransit
<1>6. Late(c)' \subseteq Late(c)
  <2>1. CASE ~OnOldEntry(c)
    BY <1>1, <2>1 DEF Late, OnOldEntry
  <2>2. CASE OnOldEntry(c)
    <3>1. /\ ct.pc \in {"check", "peek", "call"} /\ ct.ch = c /\ ct.conn \in Conn
          /\ ct.pc = "call" => ct.msg \in Waiting(c, ct.conn)
      BY <1>0, <2>2, WorkerFacts DEF OnOldEntry
    <3>2. PICK k \in Conn : k = ct.conn
      BY <3>1
    <3>3. Waiting(c, k)' = Waiting(c, k) /\ ct' = ct
      BY <1>1 DEF Waiting
    <3>4. /\ Late(c) = LateOf(Waiting(c, k), canceled[<<c, k>>], ct)
          /\ Late(c)' = LateOf(Waiting(c, k)', canceled'[<<c, k>>], ct')
      BY <1>1, <2>2, <3>2, LateIsLateOf DEF OnOldEntry
    <3>5. \/ canceled'[<<c, k>>] = canceled[<<c, k>>]
          \/ canceled'[<<c, k>>] = TRUE
      <4>1. <<c, k>> \in Entry
        BY DEF Entry
      <4> QED
        BY <1>0, <1>1, <4>1
    <3>6. LateOf(Waiting(c, k), TRUE, ct) \subseteq Waiting(c, k)
      BY <3>1, <3>2 DEF LateOf
    <3>7. LateOf(Waiting(c, k), FALSE, ct) = Waiting(c, k)
      BY DEF LateOf
    <3>8. canceled[<<c, k>>] \in BOOLEAN
      BY <1>0 DEF Entry
    <3> QED
      BY <3>3, <3>4, <3>5, <3>6, <3>7, <3>8
  <2> QED
    BY <2>1, <2>2
<1> QED
  BY <1>1, <1>3, <1>4, <1>5, <1>6, ToLose

LEMMA DropMaps ==
  ASSUME StreamInv, Maps, Maps', Drop  PROVE  Stream!LoseWhileClosed
<1>0. TypeOK
  BY DEF StreamInv, TypeInv
<1>1. /\ wsOpen' = FALSE /\ down' = <<>>
      /\ UNCHANGED <<written, writeQueue, queue, rx, ct, delivered, canceled, readCallbacks>>
  BY DEF Drop, writerVars, rxVars, drainVars, userVars
<1>2. OpenChannels' = {}
  BY <1>1 DEF OpenChannels
<1>3. ASSUME NEW d \in Channels PROVE Transit(d)' \subseteq Transit(d) /\ Late(d)' \subseteq Late(d)
  <2>1. Late(d)' = Late(d)
    BY <1>1 DEF Late, OnOldEntry, Waiting
  <2>2. Registered(d)' = Registered(d)
    BY <1>1 DEF Registered, Waiting
  <2>3. OnWire(d)' = {}
    BY <1>1 DEF OnWire, DataIn
  <2>4. Transit(d)' \subseteq Transit(d)
    BY <1>1, <2>2, <2>3 DEF Transit
  <2> QED
    BY <2>1, <2>4
<1> QED
  BY <1>1, <1>2, <1>3, ToLose

LEMMA StreamRefines ==
  StreamInv /\ Maps /\ Maps' /\ TypeOK' /\ [Next]_vars
     => Stream!StreamNext \/ UNCHANGED Stream!streamVars
<1> SUFFICES ASSUME StreamInv, Maps, Maps', TypeOK', [Next]_vars
             PROVE  Stream!StreamNext \/ UNCHANGED Stream!streamVars
  OBVIOUS
<1>1. TypeOK
  BY DEF StreamInv, TypeInv
<1>2. CASE Rests
  BY <1>2, RestsMaps
<1>3. ASSUME NEW c \in Channels,
             \/ Stream!Enter(c) \/ Stream!Open(c) \/ Stream!Deliver(c)
             \/ Stream!DeliverLate(c) \/ Stream!DropLate(c)
      PROVE  Stream!StreamNext
  BY <1>3 DEF Stream!StreamNext
<1>4. Stream!LoseWhileClosed => Stream!StreamNext
  BY DEF Stream!StreamNext
<1>5. ASSUME NEW c \in Channels,
             \/ Write(c) \/ ServerSend(c) \/ ReceiveData(c) \/ PushFrame(c)
             \/ ClientPick(c) \/ ClientCheck(c) \/ ClientPeek(c) \/ ClientConsume(c)
      PROVE  Stream!StreamNext \/ UNCHANGED Stream!streamVars
  BY <1>3, <1>4, <1>5, WriteMaps, ServerSendMaps, ReceiveMaps, PushMaps, PickMaps,
     CheckMaps, PeekMaps, ConsumeMaps
<1>6. ASSUME NEW c \in Channels,
             \/ ClientRefuse(c) \/ Register(c) \/ SubscribeThrows(c) \/ Unregister(c)
             \/ CancelEntry(c)
      PROVE  Stream!StreamNext \/ UNCHANGED Stream!streamVars
  <2>1. ClientRefuse(c) => ct' = NoDrain
    BY DEF ClientRefuse
  <2> QED
    BY <1>3, <1>4, <1>6, <2>1, RefuseMaps, RegisterMaps, LeaveMaps, CancelMaps
<1>7. CASE Drop
  BY <1>4, <1>7, DropMaps
<1> QED
  BY <1>1, <1>2, <1>5, <1>6, <1>7, MoveCases DEF MovesSomething

LEMMA StreamStart == Init => Stream!StreamInit
<1> SUFFICES ASSUME Init PROVE Stream!StreamInit
  OBVIOUS
<1>1. ASSUME NEW d \in Channels PROVE Late(d) = {} /\ Transit(d) = {}
  <2>1. /\ writeQueue[d] = <<>> /\ down = <<>> /\ ct = NoDrain /\ readCallbacks[d] = 0
    BY DEF Init
  <2>2. ~OnOldEntry(d)
    BY <2>1 DEF OnOldEntry, NoDrain
  <2>3. Late(d) = {}
    BY <2>2 DEF Late
  <2>4. Registered(d) = {} /\ OnWire(d) = {} /\ Range(writeQueue[d]) = {}
    BY <2>1 DEF Registered, OnWire, DataIn, Range
  <2> QED
    BY <2>3, <2>4 DEF Transit
<1>2. LateMap = [d \in Channels |-> {}] /\ TransitMap = [d \in Channels |-> {}]
  BY <1>1 DEF LateMap, TransitMap
<1>3. OpenChannels = {}
  BY DEF Init, OpenChannels, Opened
<1> QED
  BY <1>2, <1>3 DEF Init, Stream!StreamInit

LEMMA StreamInvInductive == Init /\ [][Next]_vars => []StreamInv
<1>1. Init => OwnerInv /\ \A c \in Channels : OrderInv(c)
  BY InitStreamInv
<1>2. StreamInv /\ [Next]_vars /\ TypeInv' /\ EntryInv' => StreamInv'
  BY StreamInvStep
<1>3. TypeInv /\ EntryInv /\ OwnerInv /\ (\A c \in Channels : OrderInv(c)) => StreamInv
  BY DEF StreamInv
<1>4. WakeupInv => EntryInv
  BY DEF WakeupInv
<1> QED
  BY <1>1, <1>2, <1>3, <1>4, TypeInvInductive, WakeupInductive, PTL

\* The path implements OrderedStream: for any number of channels, messages, connections,
\* timeouts and drops, whatever its threads interleave, no message of a channel is
\* reordered or handed out twice, and none is lost while the channel's port is connected.
THEOREM ImplementsStreamCorrect == Spec => ImplementsStream
<1>1. Init /\ [][Next]_vars => []StreamInv
  BY StreamInvInductive
<1>2. StreamInv => Maps
  BY MapFacts
<1>3. StreamInv => TypeOK
  BY DEF StreamInv, TypeInv
<1>4. StreamInv /\ Maps /\ Maps' /\ TypeOK' /\ [Next]_vars
         => [Stream!StreamNext]_Stream!streamVars
  BY StreamRefines
<1>5. Init => Stream!StreamInit
  BY StreamStart
<1> QED
  BY <1>1, <1>2, <1>3, <1>4, <1>5, PTL DEF Spec, ImplementsStream, Stream!StreamSpec

-----------------------------------------------------------------------------
(* What the readers of a channel see *)

\* What was consumed of channel d, its late messages and the others came in this order.
Linked(d) == Chain(delivered[d], LateMap[d], TransitMap[d], written[d])

LinkedInv == \A d \in Channels : Linked(d)

LEMMA LinkedStep ==
  LinkedInv /\ Maps /\ Maps' /\ TypeOK
    /\ (Stream!StreamNext \/ UNCHANGED Stream!streamVars) => LinkedInv'
<1> SUFFICES ASSUME LinkedInv, Maps, Maps', TypeOK,
                    Stream!StreamNext \/ UNCHANGED Stream!streamVars
             PROVE  LinkedInv'
  OBVIOUS
<1>0. /\ LateMap \in [Channels -> SUBSET Nat] /\ TransitMap \in [Channels -> SUBSET Nat]
      /\ delivered \in [Channels -> Seq(Nat)] /\ written \in [Channels -> Nat]
  BY DEF Maps, TypeOK, TransportTypeOK, QueueTypeOK
<1>1. \A d \in Channels : Chain(delivered[d], LateMap[d], TransitMap[d], written[d])
  BY DEF Linked, LinkedInv
<1>2. SUFFICES ASSUME NEW d \in Channels
               PROVE  Chain(delivered'[d], LateMap'[d], TransitMap'[d], written'[d])
  BY DEF Linked, LinkedInv
<1>3. ASSUME NEW c \in Channels, Stream!Enter(c)
      PROVE  Chain(delivered'[d], LateMap'[d], TransitMap'[d], written'[d])
  <2>1. /\ written' = [written EXCEPT ![c] = @ + 1]
        /\ TransitMap' = [TransitMap EXCEPT ![c] = @ \cup {written[c] + 1}]
        /\ UNCHANGED <<LateMap, delivered>>
    BY <1>3 DEF Stream!Enter
  <2>2. CASE d = c
    <3>1. Chain(delivered[c], LateMap[c], TransitMap[c] \cup {written[c] + 1}, written[c] + 1)
      BY <1>0, <1>1, EnterNewest
    <3> QED
      BY <1>0, <2>1, <2>2, <3>1
  <2>3. CASE d # c
    BY <1>0, <1>1, <2>1, <2>3
  <2> QED
    BY <2>2, <2>3
<1>4. ASSUME NEW c \in Channels, Stream!Deliver(c)
      PROVE  Chain(delivered'[d], LateMap'[d], TransitMap'[d], written'[d])
  <2>1. PICK m \in TransitMap[c] :
           /\ Oldest(m, TransitMap[c])
           /\ delivered' = [delivered EXCEPT ![c] = Append(@, m)]
           /\ TransitMap' = [TransitMap EXCEPT ![c] = @ \ {m}]
    BY <1>4 DEF Stream!Deliver, Stream!Oldest, Oldest
  <2>2. LateMap[c] = {} /\ UNCHANGED <<written, LateMap>> /\ m \in Nat
    BY <1>0, <1>4 DEF Stream!Deliver
  <2>3. CASE d = c
    <3>1. Chain(Append(delivered[c], m), LateMap[c] \ {m}, TransitMap[c] \ {m}, written[c])
      BY <1>0, <1>1, <2>1, <2>2, ConsumeOldest
    <3>2. LateMap[c] \ {m} = LateMap[c]
      BY <2>2
    <3> QED
      BY <1>0, <2>1, <2>2, <2>3, <3>1, <3>2
  <2>4. CASE d # c
    BY <1>0, <1>1, <2>1, <2>2, <2>4
  <2> QED
    BY <2>3, <2>4
<1>5. ASSUME NEW c \in Channels, Stream!DeliverLate(c)
      PROVE  Chain(delivered'[d], LateMap'[d], TransitMap'[d], written'[d])
  <2>1. PICK m \in LateMap[c] :
           /\ Oldest(m, LateMap[c])
           /\ delivered' = [delivered EXCEPT ![c] = Append(@, m)]
           /\ LateMap' \in {[LateMap EXCEPT ![c] = @ \ {m}], [LateMap EXCEPT ![c] = {}]}
    BY <1>5 DEF Stream!DeliverLate, Stream!Oldest, Oldest
  <2>2. UNCHANGED <<written, TransitMap>> /\ m \in Nat
    BY <1>0, <1>5 DEF Stream!DeliverLate
  <2>3. CASE d = c
    <3>1. Chain(Append(delivered[c], m), LateMap[c] \ {m}, TransitMap[c] \ {m}, written[c])
      BY <1>0, <1>1, <2>1, <2>2, ConsumeOldest
    <3>2. TransitMap[c] \ {m} = TransitMap[c]
      <4>1. Before(LateMap[c], TransitMap[c])
        BY <1>1 DEF Chain
      <4> QED
        BY <2>2, <4>1 DEF Before
    <3>3. Chain(Append(delivered[c], m), LateMap[c] \ {m}, TransitMap[c], written[c])
      BY <3>1, <3>2
    <3>4. Chain(Append(delivered[c], m), {}, TransitMap[c], written[c])
      <4>1. /\ Before({}, TransitMap[c])
            /\ {} \cup TransitMap[c] \subseteq (LateMap[c] \ {m}) \cup TransitMap[c]
        BY DEF Before
      <4> QED
        BY <3>3, <4>1, LoseSome
    <3>5. LateMap'[c] \in {LateMap[c] \ {m}, {}}
      BY <1>0, <2>1
    <3>6. delivered'[c] = Append(delivered[c], m)
      BY <1>0, <2>1
    <3> QED
      BY <2>2, <2>3, <3>3, <3>4, <3>5, <3>6
  <2>4. CASE d # c
    <3>1. LateMap'[d] = LateMap[d] /\ delivered'[d] = delivered[d]
      BY <1>0, <2>1, <2>4
    <3> QED
      BY <1>1, <2>2, <3>1
  <2> QED
    BY <2>3, <2>4
<1>6. ASSUME NEW c \in Channels, Stream!DropLate(c)
      PROVE  Chain(delivered'[d], LateMap'[d], TransitMap'[d], written'[d])
  <2>1. LateMap' = [LateMap EXCEPT ![c] = {}] /\ UNCHANGED <<written, TransitMap, delivered>>
    BY <1>6 DEF Stream!DropLate
  <2>2. LateMap'[d] \in {LateMap[d], {}}
    BY <1>0, <2>1
  <2>3. Before({}, TransitMap[d]) /\ {} \cup TransitMap[d] \subseteq LateMap[d] \cup TransitMap[d]
    BY DEF Before
  <2>4. Chain(delivered[d], {}, TransitMap[d], written[d])
    BY <1>1, <2>3, LoseSome
  <2> QED
    BY <1>1, <2>1, <2>2, <2>4
<1>7. ASSUME NEW c \in Channels, Stream!Open(c)
      PROVE  Chain(delivered'[d], LateMap'[d], TransitMap'[d], written'[d])
  BY <1>1, <1>7 DEF Stream!Open
<1>8. ASSUME Stream!LoseWhileClosed
      PROVE  Chain(delivered'[d], LateMap'[d], TransitMap'[d], written'[d])
  <2>1. /\ UNCHANGED <<written, delivered>>
        /\ \/ LateMap'[d] = LateMap[d] /\ TransitMap'[d] = TransitMap[d]
           \/ /\ LateMap'[d] \cup TransitMap'[d] \subseteq LateMap[d] \cup TransitMap[d]
              /\ Before(LateMap'[d], TransitMap'[d])
    BY <1>8 DEF Stream!LoseWhileClosed, Stream!Before, Before
  <2> QED
    BY <1>1, <2>1, LoseSome
<1>9. CASE UNCHANGED Stream!streamVars
  BY <1>1, <1>9 DEF Stream!streamVars
<1> QED
  BY <1>3, <1>4, <1>5, <1>6, <1>7, <1>8, <1>9 DEF Stream!StreamNext

\* The readers of a channel see its messages in the order they were written and none of
\* them twice, over all connections, disconnects and losses of the channel together.
THEOREM ReadersSeeOrderCorrect == Spec => []ReadersSeeOrder
<1>1. Init /\ [][Next]_vars => []StreamInv
  BY StreamInvInductive
<1>2. StreamInv => Maps /\ TypeOK
  BY MapFacts DEF StreamInv, TypeInv
<1>3. StreamInv /\ Maps /\ Maps' /\ TypeOK' /\ [Next]_vars
         => Stream!StreamNext \/ UNCHANGED Stream!streamVars
  BY StreamRefines
<1>4. LinkedInv /\ Maps /\ Maps' /\ TypeOK
         /\ (Stream!StreamNext \/ UNCHANGED Stream!streamVars) => LinkedInv'
  BY LinkedStep
<1>5. Init => LinkedInv
  <2>1. SUFFICES ASSUME Init, NEW d \in Channels PROVE Linked(d)
    BY DEF LinkedInv
  <2>2. Stream!StreamInit
    BY <2>1, StreamStart
  <2>3. delivered[d] = <<>> /\ LateMap[d] = {} /\ TransitMap[d] = {} /\ written[d] = 0
    BY <2>2 DEF Stream!StreamInit
  <2> QED
    BY <2>3 DEF Linked, Chain, Increasing, Before, UpTo, Elements
<1>6. LinkedInv => ReadersSeeOrder
  BY DEF LinkedInv, Linked, Chain, ReadersSeeOrder, Increasing, Ascending
<1> QED
  BY <1>1, <1>2, <1>3, <1>4, <1>5, <1>6, PTL DEF Spec

===============================================================================
