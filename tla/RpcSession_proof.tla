--------------------------- MODULE RpcSession_proof ---------------------------
(***************************************************************************)
(* Proofs about RpcSession, for any set of connections and any number of    *)
(* channels, messages and failures.                                         *)
(*                                                                         *)
(* The threads of all connections share one session, so each argument asks  *)
(* what a step of one connection can do to another: nothing to its wires,   *)
(* and to the session only what Accept, HandleSubscribe and OnClose do.     *)
(***************************************************************************)
EXTENDS RpcSession, SequenceTheorems, TLAPS

-----------------------------------------------------------------------------
(* The elements of a sequence *)

Elems(s) == {s[i] : i \in 1..Len(s)}

LEMMA ElemsAppend ==
    ASSUME NEW S, NEW s \in Seq(S), NEW x \in S
    PROVE  Elems(Append(s, x)) = Elems(s) \cup {x}
<1>1. /\ Len(Append(s, x)) = Len(s) + 1 /\ Len(s) \in Nat
      /\ \A i \in 1..Len(s) : Append(s, x)[i] = s[i]
      /\ Append(s, x)[Len(s) + 1] = x
  BY AppendProperties
<1>2. 1..(Len(s) + 1) = (1..Len(s)) \cup {Len(s) + 1}
  BY <1>1
<1>3. QED
  BY <1>1, <1>2 DEF Elems

LEMMA ElemsTail ==
    ASSUME NEW S, NEW s \in Seq(S), s # <<>>
    PROVE  /\ Elems(Tail(s)) \subseteq Elems(s)
           /\ Head(s) \in Elems(s)
<1>1. /\ Len(Tail(s)) = Len(s) - 1 /\ Len(s) \in Nat \ {0}
      /\ \A i \in 1..Len(Tail(s)) : Tail(s)[i] = s[i + 1]
  BY HeadTailProperties, EmptySeq
<1>2. \A i \in 1..Len(Tail(s)) : i + 1 \in 1..Len(s)
  BY <1>1
<1>3. Head(s) = s[1] /\ 1 \in 1..Len(s)
  BY <1>1
<1>4. QED
  BY <1>1, <1>2, <1>3 DEF Elems

LEMMA ElemsConcat ==
    ASSUME NEW S, NEW s \in Seq(S), NEW t \in Seq(S)
    PROVE  Elems(s \o t) \subseteq Elems(s) \cup Elems(t)
<1>1. /\ Len(s \o t) = Len(s) + Len(t) /\ Len(s) \in Nat /\ Len(t) \in Nat
      /\ \A i \in 1..(Len(s) + Len(t)) :
            (s \o t)[i] = IF i <= Len(s) THEN s[i] ELSE t[i - Len(s)]
  BY ConcatProperties
<1>2. ASSUME NEW i \in 1..(Len(s) + Len(t)) PROVE (s \o t)[i] \in Elems(s) \cup Elems(t)
  <2>1. CASE i <= Len(s)
    <3>1. i \in 1..Len(s) /\ (s \o t)[i] = s[i]
      BY <1>1, <2>1
    <3>2. QED
      BY <3>1 DEF Elems
  <2>2. CASE ~(i <= Len(s))
    <3>1. i - Len(s) \in 1..Len(t) /\ (s \o t)[i] = t[i - Len(s)]
      BY <1>1, <2>2
    <3>2. QED
      BY <3>1 DEF Elems
  <2>3. QED
    BY <2>1, <2>2
<1>3. QED
  BY <1>1, <1>2 DEF Elems

-----------------------------------------------------------------------------
(* Types *)

FrameSet == [kind : {"hello", "busy", "close", "reply", "data"}, n : Nat]
Requests == {"hello", "subscribe", "close"}

Types ==
    /\ conn \in [Conns -> {"none", "open", "serving", "hello", "closed"}]
    /\ client \in [Conns -> {"idle", "opening", "hello", "ready", "failed", "left"}]
    /\ session \in Conns \cup {NoConn}
    /\ toServer \in [Conns -> Seq(Requests)]
    /\ toClient \in [Conns -> Seq(FrameSet)]
    /\ table \in [Conns -> Nat]
    /\ nextChannelId \in Nat /\ tableAtReady \in Nat

\* What a send of the server adds to the wires.
LEMMA SendsStep ==
    ASSUME Types, NEW c \in Conns, NEW frames \in Seq(FrameSet), Sends(c, frames)
    PROVE  /\ toClient' \in [Conns -> Seq(FrameSet)]
           /\ \A d \in Conns : Elems(toClient'[d]) \subseteq
                  Elems(toClient[d]) \cup
                  (IF d = c /\ c \notin closing /\ c \in wsOpen THEN Elems(frames) ELSE {})
<1>1. CASE c \in closing \/ c \notin wsOpen
  BY <1>1 DEF Sends, Types
<1>2. CASE c \notin closing /\ c \in wsOpen
  <2>1. toClient' = [toClient EXCEPT ![c] = @ \o frames]
    BY <1>2 DEF Sends
  <2>2. toClient[c] \in Seq(FrameSet)
    BY DEF Types
  <2>3. /\ toClient[c] \o frames \in Seq(FrameSet)
        /\ Elems(toClient[c] \o frames) \subseteq Elems(toClient[c]) \cup Elems(frames)
    BY <2>2, ConcatProperties, ElemsConcat
  <2>4. toClient'[c] = toClient[c] \o frames /\ \A d \in Conns \ {c} : toClient'[d] = toClient[d]
    BY <2>1 DEF Types
  <2>5. toClient' \in [Conns -> Seq(FrameSet)]
    BY <2>1, <2>3 DEF Types
  <2>6. QED
    BY <1>2, <2>3, <2>4, <2>5
<1>3. QED
  BY <1>1, <1>2

\* What a send of a client adds.
LEMMA ShipsStep ==
    ASSUME Types, NEW c \in Conns, NEW frame \in Requests, Ships(c, frame)
    PROVE  /\ toServer' \in [Conns -> Seq(Requests)]
           /\ \A d \in Conns : Elems(toServer'[d]) \subseteq
                  Elems(toServer[d]) \cup (IF d = c THEN {frame} ELSE {})
           /\ \A d \in Conns : toServer[d] # <<>> =>
                  toServer'[d] # <<>> /\ Head(toServer'[d]) = Head(toServer[d])
<1>1. CASE ~Live(c)
  BY <1>1 DEF Ships, Types
<1>2. CASE Live(c)
  <2>1. toServer' = [toServer EXCEPT ![c] = Append(@, frame)]
    BY <1>2 DEF Ships
  <2>2. toServer[c] \in Seq(Requests)
    BY DEF Types
  <2>3. /\ Append(toServer[c], frame) \in Seq(Requests)
        /\ Elems(Append(toServer[c], frame)) = Elems(toServer[c]) \cup {frame}
        /\ Append(toServer[c], frame) # <<>>
        /\ toServer[c] # <<>> => Head(Append(toServer[c], frame)) = Head(toServer[c])
    <3>1. Append(toServer[c], frame) \in Seq(Requests) /\ Append(toServer[c], frame) # <<>>
      BY <2>2, AppendProperties
    <3>2. Elems(Append(toServer[c], frame)) = Elems(toServer[c]) \cup {frame}
      BY <2>2, ElemsAppend
    <3>3. toServer[c] # <<>> => Head(Append(toServer[c], frame)) = Head(toServer[c])
      BY <2>2, HeadTailAppend
    <3>4. QED
      BY <3>1, <3>2, <3>3
  <2>4. toServer'[c] = Append(toServer[c], frame)
        /\ \A d \in Conns \ {c} : toServer'[d] = toServer[d]
    BY <2>1 DEF Types
  <2>5. toServer' \in [Conns -> Seq(Requests)]
    BY <2>1, <2>3 DEF Types
  <2>6. QED
    BY <2>3, <2>4, <2>5
<1>3. QED
  BY <1>1, <1>2

\* Dispatching a frame takes it off its wire.
LEMMA ArrivesStep ==
    ASSUME Types, NEW c \in Conns, NEW kind \in Requests, Arrives(c, kind)
    PROVE  /\ toServer' \in [Conns -> Seq(Requests)]
           /\ \A d \in Conns : Elems(toServer'[d]) \subseteq Elems(toServer[d])
           /\ kind \in Elems(toServer[c])
           /\ \A d \in Conns \ {c} : toServer'[d] = toServer[d]
<1>1. toServer[c] \in Seq(Requests) /\ toServer[c] # <<>> /\ Head(toServer[c]) = kind
  BY DEF Types, Arrives
<1>2. /\ Tail(toServer[c]) \in Seq(Requests)
      /\ Elems(Tail(toServer[c])) \subseteq Elems(toServer[c])
      /\ Head(toServer[c]) \in Elems(toServer[c])
  BY <1>1, HeadTailProperties, ElemsTail
<1>3. toServer' = [toServer EXCEPT ![c] = Tail(toServer[c])]
  BY DEF Arrives
<1>4. toServer'[c] = Tail(toServer[c]) /\ \A d \in Conns \ {c} : toServer'[d] = toServer[d]
  BY <1>3 DEF Types
<1>5. toServer' \in [Conns -> Seq(Requests)]
  BY <1>2, <1>3 DEF Types
<1>6. QED
  BY <1>1, <1>2, <1>4, <1>5

LEMMA ReceivesStep ==
    ASSUME Types, NEW c \in Conns, NEW kind, Receives(c, kind)
    PROVE  /\ toClient' \in [Conns -> Seq(FrameSet)]
           /\ \A d \in Conns : Elems(toClient'[d]) \subseteq Elems(toClient[d])
           /\ Head(toClient[c]) \in Elems(toClient[c]) /\ Head(toClient[c]) \in FrameSet
           /\ Head(toClient[c]).kind = kind
<1>1. toClient[c] \in Seq(FrameSet) /\ toClient[c] # <<>> /\ Head(toClient[c]).kind = kind
  BY DEF Types, Receives
<1>2. /\ Tail(toClient[c]) \in Seq(FrameSet) /\ Head(toClient[c]) \in FrameSet
      /\ Elems(Tail(toClient[c])) \subseteq Elems(toClient[c])
      /\ Head(toClient[c]) \in Elems(toClient[c])
  BY <1>1, HeadTailProperties, ElemsTail
<1>3. toClient' = [toClient EXCEPT ![c] = Tail(toClient[c])]
  BY DEF Receives
<1>4. toClient'[c] = Tail(toClient[c]) /\ \A d \in Conns \ {c} : toClient'[d] = toClient[d]
  BY <1>3 DEF Types
<1>5. toClient' \in [Conns -> Seq(FrameSet)]
  BY <1>2, <1>3 DEF Types
<1>6. QED
  BY <1>1, <1>2, <1>4, <1>5

-----------------------------------------------------------------------------
(* Who puts what on the wires *)

LEMMA OneFrame ==
    ASSUME NEW f \in FrameSet
    PROVE  <<f>> \in Seq(FrameSet) /\ Elems(<<f>>) = {f}
BY DEF Elems

LEMMA TwoFrames ==
    ASSUME NEW f \in FrameSet, NEW g \in FrameSet
    PROVE  <<f, g>> \in Seq(FrameSet) /\ Elems(<<f, g>>) = {f, g}
<1>1. Len(<<f, g>>) = 2 /\ <<f, g>>[1] = f /\ <<f, g>>[2] = g /\ 1..2 = {1, 2}
  OBVIOUS
<1>2. QED
  BY <1>1 DEF Elems

LEMMA NoFrames ==
    Elems(<<>>) = {}
BY DEF Elems

\* A frame is new on a wire to a client only if the server sent it: a hello answers a
\* hello once the manifest is there, a message goes to the session that subscribed.
LEMMA ToClientStep ==
    ASSUME Types, [Next]_vars
    PROVE  /\ toClient' \in [Conns -> Seq(FrameSet)]
           /\ \A c \in Conns : \A f \in Elems(toClient'[c]) :
                 \/ f \in Elems(toClient[c])
                 \/ f.kind \in {"busy", "close", "reply"}
                 \/ /\ f = Frame("hello", nextChannelId) /\ manifestReady
                    /\ conn[c] = "hello" /\ c \notin closing
                 \/ /\ f.kind = "data" /\ stop = "running" /\ session = c /\ subscribed
                    /\ c \in wsOpen
<1> DEFINE Goal == /\ toClient' \in [Conns -> Seq(FrameSet)]
                   /\ \A c \in Conns : \A f \in Elems(toClient'[c]) :
                         \/ f \in Elems(toClient[c])
                         \/ f.kind \in {"busy", "close", "reply"}
                         \/ /\ f = Frame("hello", nextChannelId) /\ manifestReady
                            /\ conn[c] = "hello" /\ c \notin closing
                         \/ /\ f.kind = "data" /\ stop = "running" /\ session = c
                            /\ subscribed /\ c \in wsOpen
<1>1. CASE UNCHANGED toClient
  BY <1>1 DEF Types
<1>2. CASE StopServer
  <2>1. /\ Frame("close", 0) \in FrameSet /\ Frame("close", 0).kind = "close"
    BY DEF Frame, FrameSet
  <2>2. ASSUME NEW c \in Conns
        PROVE  /\ Append(toClient[c], Frame("close", 0)) \in Seq(FrameSet)
               /\ Elems(Append(toClient[c], Frame("close", 0)))
                      = Elems(toClient[c]) \cup {Frame("close", 0)}
    <3>1. toClient[c] \in Seq(FrameSet)
      BY DEF Types
    <3>2. QED
      BY <2>1, <3>1, AppendProperties, ElemsAppend
  <2>3. \A c \in Conns : toClient'[c] \in {toClient[c], Append(toClient[c], Frame("close", 0))}
    BY <1>2 DEF StopServer
  <2>4. toClient' \in [Conns -> Seq(FrameSet)]
    <3>1. toClient' = [c \in Conns |-> toClient'[c]]
      BY <1>2 DEF StopServer
    <3>2. \A c \in Conns : toClient'[c] \in Seq(FrameSet)
      BY <2>2, <2>3 DEF Types
    <3>3. QED
      BY <3>1, <3>2
  <2>5. ASSUME NEW c \in Conns, NEW f \in Elems(toClient'[c])
        PROVE  f \in Elems(toClient[c]) \/ f.kind = "close"
    <3>1. CASE toClient'[c] = toClient[c]
      BY <2>5, <3>1
    <3>2. CASE toClient'[c] = Append(toClient[c], Frame("close", 0))
      <4>1. f \in Elems(toClient[c]) \cup {Frame("close", 0)}
        BY <2>2, <2>5, <3>2
      <4>2. QED
        BY <2>1, <4>1
    <3>3. QED
      BY <2>3, <3>1, <3>2
  <2>6. QED
    BY <2>4, <2>5
<1>3. CASE TransportSend
  <2>1. Frame("data", 0) \in FrameSet /\ Frame("data", 0).kind = "data"
    BY DEF Frame, FrameSet
  <2>2. session \in Conns /\ Sends(session, <<Frame("data", 0)>>)
    BY <1>3 DEF TransportSend, Types
  <2>3. /\ toClient' \in [Conns -> Seq(FrameSet)]
        /\ \A d \in Conns : Elems(toClient'[d]) \subseteq Elems(toClient[d]) \cup
               (IF d = session /\ session \notin closing /\ session \in wsOpen
                THEN {Frame("data", 0)} ELSE {})
    BY <2>1, <2>2, OneFrame, SendsStep
  <2>4. stop = "running" /\ subscribed
    BY <1>3 DEF TransportSend
  <2>5. QED
    BY <2>1, <2>3, <2>4
<1>4. ASSUME NEW c \in Conns, Reject(c) PROVE Goal
  <2>1. /\ Frame("busy", 0) \in FrameSet /\ Frame("busy", 0).kind = "busy"
        /\ Frame("close", 0) \in FrameSet /\ Frame("close", 0).kind = "close"
    BY DEF Frame, FrameSet
  <2>2. /\ <<Frame("busy", 0), Frame("close", 0)>> \in Seq(FrameSet)
        /\ Elems(<<Frame("busy", 0), Frame("close", 0)>>)
               = {Frame("busy", 0), Frame("close", 0)}
    BY <2>1, TwoFrames
  <2>3. Sends(c, <<Frame("busy", 0), Frame("close", 0)>>)
    BY <1>4 DEF Reject
  <2>4. /\ toClient' \in [Conns -> Seq(FrameSet)]
        /\ \A d \in Conns : Elems(toClient'[d]) \subseteq Elems(toClient[d]) \cup
               (IF d = c /\ c \notin closing /\ c \in wsOpen
                THEN {Frame("busy", 0), Frame("close", 0)} ELSE {})
    BY <2>2, <2>3, SendsStep
  <2>5. QED
    BY <2>1, <2>4
<1>5. ASSUME NEW c \in Conns, AnswerHello(c) PROVE Goal
  <2>1. Frame("hello", nextChannelId) \in FrameSet
    BY DEF Frame, FrameSet, Types
  <2>2. Sends(c, <<Frame("hello", nextChannelId)>>) /\ manifestReady /\ conn[c] = "hello"
    BY <1>5 DEF AnswerHello
  <2>3. /\ toClient' \in [Conns -> Seq(FrameSet)]
        /\ \A d \in Conns : Elems(toClient'[d]) \subseteq Elems(toClient[d]) \cup
               (IF d = c /\ c \notin closing /\ c \in wsOpen
                THEN {Frame("hello", nextChannelId)} ELSE {})
    BY <2>1, <2>2, OneFrame, SendsStep
  <2>4. QED
    BY <2>2, <2>3
<1>6. ASSUME NEW c \in Conns, HandleSubscribe(c) PROVE Goal
  <2>1. Frame("reply", 0) \in FrameSet /\ Frame("reply", 0).kind = "reply"
    BY DEF Frame, FrameSet
  <2>2. Sends(c, <<Frame("reply", 0)>>)
    BY <1>6 DEF HandleSubscribe
  <2>3. /\ toClient' \in [Conns -> Seq(FrameSet)]
        /\ \A d \in Conns : Elems(toClient'[d]) \subseteq Elems(toClient[d]) \cup
               (IF d = c /\ c \notin closing /\ c \in wsOpen
                THEN {Frame("reply", 0)} ELSE {})
    BY <2>1, <2>2, OneFrame, SendsStep
  <2>4. QED
    BY <2>1, <2>3
<1>7. ASSUME NEW c \in Conns, ClientNetwork(c) PROVE Goal
  <2>1. PICK kind : Receives(c, kind)
    BY <1>7 DEF ClientNetwork, ReceiveHello, ReceiveBusy, ReceiveOther, ReceiveClose
  <2>2. QED
    BY <2>1, ReceivesStep
<1>8. ASSUME NEW c \in Conns, Leave(c) PROVE Goal
  <2>1. toClient' = [toClient EXCEPT ![c] = <<>>]
    BY <1>8 DEF Leave
  <2>2. toClient'[c] = <<>> /\ \A d \in Conns \ {c} : toClient'[d] = toClient[d]
    BY <2>1 DEF Types
  <2>3. toClient' \in [Conns -> Seq(FrameSet)]
    BY <2>1 DEF Types
  <2>4. QED
    BY <2>2, <2>3, NoFrames
<1>9. ASSUME NEW c \in Conns, Lose(c) PROVE Goal
  <2>1. Frame("close", 0) \in FrameSet /\ Frame("close", 0).kind = "close"
    BY DEF Frame, FrameSet
  <2>2. toClient' = [toClient EXCEPT ![c] = <<Frame("close", 0)>>]
    BY <1>9 DEF Lose
  <2>3. /\ toClient'[c] = <<Frame("close", 0)>>
        /\ \A d \in Conns \ {c} : toClient'[d] = toClient[d]
    BY <2>2 DEF Types
  <2>4. toClient' \in [Conns -> Seq(FrameSet)]
    BY <2>1, <2>2, OneFrame DEF Types
  <2>5. QED
    BY <2>1, <2>3, <2>4, OneFrame
<1>10. ASSUME NEW c \in Conns,
              ServerThread(c) \/ ClientMain(c),
              ~Reject(c), ~AnswerHello(c), ~HandleSubscribe(c), ~Leave(c)
       PROVE  UNCHANGED toClient
  BY <1>10 DEF ServerThread, ClientMain, Accept, Hello, OnClose, Connect, SendHello,
     HelloTimeout, ClientSubscribe, wireVars
<1>11. Simulator /\ ~StopServer => UNCHANGED toClient
  BY DEF Simulator, RegisterPort, SetManifest, StopTransport, StopReturns, wireVars
<1>12. UNCHANGED vars => UNCHANGED toClient
  BY DEF vars
<1>13. QED
  BY <1>1, <1>2, <1>3, <1>4, <1>5, <1>6, <1>7, <1>8, <1>9, <1>10, <1>11, <1>12 DEF Next

\* The frame that ends the connection is the next one its thread dispatches.
CloseIsNext(c) == toServer[c] # <<>> /\ Head(toServer[c]) = "close"

\* A subscribe is on the wire only if the client sent it, after its hello was answered;
\* and only the end of the connection takes a close off the wire.
LEMMA ToServerStep ==
    ASSUME Types, [Next]_vars
    PROVE  /\ toServer' \in [Conns -> Seq(Requests)]
           /\ \A c \in Conns : "subscribe" \in Elems(toServer'[c]) =>
                 \/ "subscribe" \in Elems(toServer[c])
                 \/ client[c] = "ready" /\ c \in asked'
           /\ \A c \in Conns : CloseIsNext(c) =>
                 CloseIsNext(c)' \/ (conn'[c] = "closed" /\ c \notin closing')
<1> DEFINE Goal == /\ toServer' \in [Conns -> Seq(Requests)]
                   /\ \A c \in Conns : "subscribe" \in Elems(toServer'[c]) =>
                         \/ "subscribe" \in Elems(toServer[c])
                         \/ client[c] = "ready" /\ c \in asked'
                   /\ \A c \in Conns : CloseIsNext(c) =>
                         CloseIsNext(c)' \/ (conn'[c] = "closed" /\ c \notin closing')
<1>1. CASE UNCHANGED toServer
  BY <1>1 DEF Types, CloseIsNext
<1>2. ASSUME NEW c \in Conns, Hello(c) \/ HandleSubscribe(c) PROVE Goal
  <2>1. PICK kind \in {"hello", "subscribe"} : Arrives(c, kind)
    BY <1>2 DEF Hello, HandleSubscribe
  <2>2. kind \in Requests
    BY DEF Requests
  <2>3. /\ toServer' \in [Conns -> Seq(Requests)]
        /\ \A d \in Conns : Elems(toServer'[d]) \subseteq Elems(toServer[d])
        /\ \A d \in Conns \ {c} : toServer'[d] = toServer[d]
    BY <2>1, <2>2, ArrivesStep
  <2>4. ~CloseIsNext(c)
    BY <2>1 DEF Arrives, CloseIsNext
  <2>5. QED
    BY <2>3, <2>4 DEF CloseIsNext
<1>3. ASSUME NEW c \in Conns, OnClose(c) PROVE Goal
  <2>1. toServer' = [toServer EXCEPT ![c] = <<>>] /\ conn'[c] = "closed" /\ c \notin closing'
    BY <1>3 DEF OnClose, Types
  <2>2. toServer'[c] = <<>> /\ \A d \in Conns \ {c} : toServer'[d] = toServer[d]
    BY <2>1 DEF Types
  <2>3. toServer' \in [Conns -> Seq(Requests)]
    BY <2>1 DEF Types
  <2>4. QED
    BY <2>1, <2>2, <2>3, NoFrames DEF CloseIsNext
<1>4. ASSUME NEW c \in Conns, Lose(c) PROVE Goal
  <2>1. toServer' = [toServer EXCEPT ![c] = <<"close">>]
    BY <1>4 DEF Lose
  <2>2. toServer'[c] = <<"close">> /\ \A d \in Conns \ {c} : toServer'[d] = toServer[d]
    BY <2>1 DEF Types
  <2>3. <<"close">> \in Seq(Requests) /\ Elems(<<"close">>) = {"close"}
        /\ Head(<<"close">>) = "close" /\ <<"close">> # <<>>
    BY DEF Requests, Elems
  <2>4. toServer' \in [Conns -> Seq(Requests)]
    BY <2>1, <2>3 DEF Types
  <2>5. QED
    BY <2>2, <2>3, <2>4 DEF CloseIsNext
<1>5. ASSUME NEW c \in Conns, SendHello(c) \/ ReceiveClose(c) \/ Leave(c) PROVE Goal
  <2>1. CASE UNCHANGED toServer
    BY <1>1, <2>1
  <2>2. CASE ~UNCHANGED toServer
    <3>1. PICK frame \in {"hello", "close"} : Ships(c, frame)
      BY <1>5, <2>2 DEF SendHello, ReceiveClose, Leave
    <3>2. frame \in Requests
      BY DEF Requests
    <3>3. QED
      BY <3>1, <3>2, ShipsStep DEF CloseIsNext
  <2>3. QED
    BY <2>1, <2>2
<1>6. ASSUME NEW c \in Conns, ClientSubscribe(c) PROVE Goal
  <2>1. Ships(c, "subscribe") /\ client[c] = "ready" /\ c \in asked'
    BY <1>6 DEF ClientSubscribe
  <2>2. QED
    BY <2>1, ShipsStep DEF CloseIsNext, Requests
<1>7. ASSUME NEW c \in Conns,
             ServerThread(c) \/ ClientMain(c) \/ ClientNetwork(c),
             ~Hello(c), ~HandleSubscribe(c), ~OnClose(c), ~SendHello(c), ~ReceiveClose(c),
             ~Leave(c), ~ClientSubscribe(c)
      PROVE  UNCHANGED toServer
  BY <1>7 DEF ServerThread, ClientMain, ClientNetwork, Accept, Reject, AnswerHello,
     Connect, HelloTimeout, ReceiveHello, ReceiveBusy, ReceiveOther, wireVars
<1>8. Simulator \/ TransportSend => UNCHANGED toServer
  BY DEF Simulator, RegisterPort, SetManifest, StopTransport, StopServer, StopReturns,
     TransportSend, wireVars
<1>9. UNCHANGED vars => UNCHANGED toServer
  BY DEF vars
<1>10. QED
  BY <1>1, <1>2, <1>3, <1>4, <1>5, <1>6, <1>7, <1>8, <1>9 DEF Next

-----------------------------------------------------------------------------
(* The session *)

\* A connection exists from Connect on.
LifeInv == \A c \in Conns : client[c] = "idle" => conn[c] = "none"

Core == Types /\ LifeInv /\ SessionIsAlive

\* The way a connection's thread can go: only Connect opens a connection, only OnClose
\* ends one.
LEMMA ConnStep ==
    ASSUME Types, LifeInv, [Next]_vars
    PROVE  /\ conn' \in [Conns -> {"none", "open", "serving", "hello", "closed"}]
           /\ \A c \in Conns : conn'[c] \in {"none", "open"} => conn[c] \in {"none", "open"}
           /\ \A c \in Conns : conn'[c] # conn[c] =>
                 \/ /\ conn[c] = "none" /\ conn'[c] = "open" /\ client'[c] # "idle"
                    /\ session' = session
                 \/ /\ conn[c] \in {"open", "serving", "hello"}
                    /\ conn'[c] \in {"serving", "hello"}
                 \/ conn[c] = "serving" /\ session' = NoConn
<1> DEFINE Goal == /\ conn' \in [Conns -> {"none", "open", "serving", "hello", "closed"}]
                   /\ \A c \in Conns : conn'[c] \in {"none", "open"} => conn[c] \in {"none", "open"}
                   /\ \A c \in Conns : conn'[c] # conn[c] =>
                         \/ /\ conn[c] = "none" /\ conn'[c] = "open" /\ client'[c] # "idle"
                            /\ session' = session
                         \/ /\ conn[c] \in {"open", "serving", "hello"}
                            /\ conn'[c] \in {"serving", "hello"}
                         \/ conn[c] = "serving" /\ session' = NoConn
<1>1. CASE UNCHANGED conn
  BY <1>1 DEF Types
<1>2. ASSUME NEW c \in Conns, Accept(c) \/ Reject(c) \/ Hello(c) \/ AnswerHello(c) PROVE Goal
  <2>1. PICK k \in {"serving", "hello"} : conn' = [conn EXCEPT ![c] = k]
    BY <1>2 DEF Accept, Reject, Hello, AnswerHello
  <2>2. conn[c] \in {"open", "serving", "hello"}
    BY <1>2 DEF Accept, Reject, Hello, AnswerHello, Arrives
  <2>3. QED
    BY <2>1, <2>2 DEF Types
<1>3. ASSUME NEW c \in Conns, OnClose(c) PROVE Goal
  BY <1>3 DEF OnClose, Types
<1>4. ASSUME NEW c \in Conns, Connect(c) PROVE Goal
  <2>1. conn[c] = "none" /\ conn' = [conn EXCEPT ![c] = "open"] /\ client'[c] = "opening"
        /\ session' = session
    BY <1>4 DEF Connect, LifeInv, Types
  <2>2. QED
    BY <2>1 DEF Types
<1>5. ASSUME NEW c \in Conns,
             ServerThread(c) \/ ClientMain(c) \/ ClientNetwork(c) \/ Lose(c),
             ~Accept(c), ~Reject(c), ~Hello(c), ~AnswerHello(c), ~OnClose(c), ~Connect(c)
      PROVE  UNCHANGED conn
  BY <1>5 DEF ServerThread, ClientMain, ClientNetwork, HandleSubscribe, SendHello,
     HelloTimeout, ClientSubscribe, Leave, ReceiveHello, ReceiveBusy, ReceiveOther,
     ReceiveClose, Lose, serverVars
<1>6. Simulator \/ TransportSend => UNCHANGED conn
  BY DEF Simulator, RegisterPort, SetManifest, StopTransport, StopServer, StopReturns,
     TransportSend, serverVars
<1>7. UNCHANGED vars => UNCHANGED conn
  BY DEF vars
<1>8. QED
  BY <1>1, <1>2, <1>3, <1>4, <1>5, <1>6, <1>7 DEF Next

\* Only Accept gives the session away, and it starts without a subscription; only
\* HandleSubscribe subscribes.
LEMMA SessionStep ==
    ASSUME Types, [Next]_vars
    PROVE  \/ session' = session /\ (subscribed' = subscribed)
           \/ session' = NoConn
           \/ \E c \in Conns : /\ session' = c /\ conn'[c] = "serving" /\ ~subscribed'
           \/ /\ session' = session /\ asked' = asked /\ wsOpen' = wsOpen
              /\ \E c \in Conns : Arrives(c, "subscribe")
<1> DEFINE Goal == \/ session' = session /\ (subscribed' = subscribed)
                   \/ session' = NoConn
                   \/ \E c \in Conns : /\ session' = c /\ conn'[c] = "serving" /\ ~subscribed'
                   \/ /\ session' = session /\ asked' = asked /\ wsOpen' = wsOpen
                      /\ \E c \in Conns : Arrives(c, "subscribe")
<1>1. CASE UNCHANGED <<session, subscribed>>
  BY <1>1
<1>2. ASSUME NEW c \in Conns, Accept(c) PROVE Goal
  <2>1. session' = c /\ conn'[c] = "serving" /\ ~subscribed'
    BY <1>2 DEF Accept, Types
  <2>2. QED
    BY <2>1
<1>3. ASSUME NEW c \in Conns, OnClose(c) PROVE Goal
  BY <1>3 DEF OnClose
<1>4. ASSUME NEW c \in Conns, HandleSubscribe(c) PROVE Goal
  BY <1>4 DEF HandleSubscribe, clientVars
<1>5. ASSUME NEW c \in Conns,
             ServerThread(c) \/ ClientMain(c) \/ ClientNetwork(c) \/ Lose(c),
             ~Accept(c), ~HandleSubscribe(c), ~OnClose(c)
      PROVE  UNCHANGED <<session, subscribed>>
  BY <1>5 DEF ServerThread, ClientMain, ClientNetwork, Reject, Hello, AnswerHello,
     Connect, SendHello, HelloTimeout, ClientSubscribe, Leave, ReceiveHello, ReceiveBusy,
     ReceiveOther, ReceiveClose, Lose, serverVars
<1>6. CASE StopReturns
  BY <1>6 DEF StopReturns
<1>7. (Simulator \/ TransportSend) /\ ~StopReturns => UNCHANGED <<session, subscribed>>
  BY DEF Simulator, RegisterPort, SetManifest, StopTransport, StopServer,
     TransportSend, serverVars
<1>8. UNCHANGED vars => UNCHANGED <<session, subscribed>>
  BY DEF vars
<1>9. QED
  BY <1>1, <1>2, <1>3, <1>4, <1>5, <1>6, <1>7, <1>8 DEF Next

\* A constructor becomes ready by the hello it receives, whose channels it lists.
LEMMA ClientStep ==
    ASSUME Types, [Next]_vars
    PROVE  /\ client' \in [Conns -> {"idle", "opening", "hello", "ready", "failed", "left"}]
           /\ table' \in [Conns -> Nat]
           /\ \A c \in Conns : client'[c] = "idle" => client[c] = "idle"
           /\ \A c \in Conns : client'[c] = "ready" =>
                 \/ client[c] = "ready" /\ table'[c] = table[c]
                 \/ \E f \in Elems(toClient[c]) : f.kind = "hello" /\ table'[c] = f.n
<1> DEFINE Goal == /\ client' \in [Conns -> {"idle", "opening", "hello", "ready", "failed", "left"}]
                   /\ table' \in [Conns -> Nat]
                   /\ \A c \in Conns : client'[c] = "idle" => client[c] = "idle"
                   /\ \A c \in Conns : client'[c] = "ready" =>
                         \/ client[c] = "ready" /\ table'[c] = table[c]
                         \/ \E f \in Elems(toClient[c]) : f.kind = "hello" /\ table'[c] = f.n
<1>1. CASE UNCHANGED <<client, table>>
  BY <1>1 DEF Types
<1>2. ASSUME NEW c \in Conns, Connect(c) \/ SendHello(c) \/ ReceiveClose(c) \/ HelloTimeout(c)
      PROVE  Goal
  <2>1. CASE UNCHANGED <<client, table>>
    BY <1>1, <2>1
  <2>2. CASE ~UNCHANGED <<client, table>>
    <3>1. PICK k \in {"opening", "hello", "failed"} :
              client' = [client EXCEPT ![c] = k] /\ table' = table
      BY <1>2, <2>2 DEF Connect, SendHello, ReceiveClose, HelloTimeout
    <3>2. QED
      BY <3>1 DEF Types
  <2>3. QED
    BY <2>1, <2>2
<1>3. ASSUME NEW c \in Conns, ReceiveHello(c) PROVE Goal
  <2>1. CASE UNCHANGED <<client, table>>
    BY <1>1, <2>1
  <2>2. CASE ~UNCHANGED <<client, table>>
    <3> DEFINE f == Head(toClient[c])
    <3>1. client' = [client EXCEPT ![c] = "ready"] /\ table' = [table EXCEPT ![c] = f.n]
      BY <1>3, <2>2 DEF ReceiveHello
    <3>2. f \in Elems(toClient[c]) /\ f \in FrameSet /\ f.kind = "hello"
      BY <1>3, ReceivesStep DEF ReceiveHello
    <3>3. f.n \in Nat
      BY <3>2 DEF FrameSet
    <3>4. client'[c] = "ready" /\ table'[c] = f.n
          /\ \A d \in Conns \ {c} : client'[d] = client[d] /\ table'[d] = table[d]
      BY <3>1 DEF Types
    <3>5. /\ client' \in [Conns -> {"idle", "opening", "hello", "ready", "failed", "left"}]
          /\ table' \in [Conns -> Nat]
      BY <3>1, <3>3 DEF Types
    <3> HIDE DEF f
    <3>6. QED
      BY <3>2, <3>4, <3>5
  <2>3. QED
    BY <2>1, <2>2
<1>4. ASSUME NEW c \in Conns, Leave(c) PROVE Goal
  <2>1. client' = [client EXCEPT ![c] = "left"] /\ table' = [table EXCEPT ![c] = 0]
    BY <1>4 DEF Leave
  <2>2. QED
    BY <2>1 DEF Types
<1>5. ASSUME NEW c \in Conns,
             ServerThread(c) \/ ClientMain(c) \/ ClientNetwork(c) \/ Lose(c),
             ~Connect(c), ~SendHello(c), ~ReceiveClose(c), ~HelloTimeout(c),
             ~ReceiveHello(c), ~Leave(c)
      PROVE  UNCHANGED <<client, table>>
  BY <1>5 DEF ServerThread, ClientMain, ClientNetwork, Accept, Reject, Hello, AnswerHello,
     HandleSubscribe, OnClose, ClientSubscribe, ReceiveBusy, ReceiveOther, Lose, clientVars
<1>6. Simulator \/ TransportSend => UNCHANGED <<client, table>>
  BY DEF Simulator, RegisterPort, SetManifest, StopTransport, StopServer, StopReturns,
     TransportSend, clientVars
<1>7. UNCHANGED vars => UNCHANGED <<client, table>>
  BY DEF vars
<1>8. QED
  BY <1>1, <1>2, <1>3, <1>4, <1>5, <1>6, <1>7 DEF Next

\* The manifest is set once, with the channels of that moment; channels only come.
LEMMA HostStep ==
    ASSUME Types, [Next]_vars
    PROVE  /\ nextChannelId' \in Nat /\ tableAtReady' \in Nat
           /\ nextChannelId' >= nextChannelId
           /\ manifestReady => manifestReady' /\ tableAtReady' = tableAtReady
           /\ tableAtReady' \in {tableAtReady, nextChannelId}
           /\ stop' = "running" => stop = "running"
<1>1. CASE UNCHANGED hostVars
  BY <1>1 DEF Types, hostVars
<1>2. CASE RegisterPort \/ SetManifest \/ StopTransport \/ StopServer \/ StopReturns
  BY <1>2 DEF Types, RegisterPort, SetManifest, StopTransport, StopServer, StopReturns
<1>3. ASSUME NEW c \in Conns, ServerThread(c) \/ ClientMain(c) \/ ClientNetwork(c) \/ Lose(c)
      PROVE  UNCHANGED hostVars
  BY <1>3 DEF ServerThread, ClientMain, ClientNetwork, Accept, Reject, Hello, AnswerHello,
     HandleSubscribe, OnClose, Connect, SendHello, HelloTimeout, ClientSubscribe, Leave,
     ReceiveHello, ReceiveBusy, ReceiveOther, ReceiveClose, Lose
<1>4. TransportSend => UNCHANGED hostVars
  BY DEF TransportSend
<1>5. UNCHANGED vars => UNCHANGED hostVars
  BY DEF vars, hostVars
<1>6. QED
  BY <1>1, <1>2, <1>3, <1>4, <1>5 DEF Next, Simulator

\* The types, the lives of the connections and the session are an inductive invariant.
LEMMA CoreStep ==
    ASSUME Core, [Next]_vars
    PROVE  Core'
<1> USE DEF Core
<1>1. session' \in Conns \cup {NoConn}
  BY SessionStep DEF Types
<1>2. Types'
  BY <1>1, ConnStep, ClientStep, HostStep, ToClientStep, ToServerStep DEF Types
<1>3. LifeInv'
  <2>1. ASSUME NEW c \in Conns, client'[c] = "idle" PROVE conn'[c] = "none"
    <3>1. client[c] = "idle" /\ conn[c] = "none"
      BY <2>1, ClientStep DEF LifeInv
    <3>2. QED
      BY <2>1, <3>1, ConnStep
  <2>2. QED
    BY <2>1 DEF LifeInv
<1>4. SessionIsAlive'
  <2>1. SUFFICES ASSUME session' # NoConn PROVE conn'[session'] \in {"serving", "hello"}
    BY DEF SessionIsAlive
  <2>2. CASE session' = session
    <3>1. session \in Conns /\ conn[session] \in {"serving", "hello"}
      BY <2>1, <2>2 DEF SessionIsAlive, Types
    <3>2. conn'[session] = conn[session] \/ conn'[session] \in {"serving", "hello"}
      BY <2>1, <3>1, ConnStep
    <3>3. QED
      BY <2>2, <3>1, <3>2
  <2>3. CASE session' # session
    BY <2>1, <2>3, SessionStep
  <2>4. QED
    BY <2>2, <2>3
<1>5. QED
  BY <1>2, <1>3, <1>4

LEMMA CoreInit ==
    Init => Core
BY DEF Init, Core, Types, LifeInv, SessionIsAlive, Requests, FrameSet

LEMMA CoreInvariant ==
    Spec => []Core
BY CoreInit, CoreStep, PTL DEF Spec

\* The connection of the session, on which the transport thread sends, is one whose Close
\* has not been handled (RpcServer.cpp:776-778), for any number of connections.
THEOREM SessionIsAliveCorrect == Spec => []SessionIsAlive
<1>1. Core => SessionIsAlive
  BY DEF Core
<1>2. QED
  BY <1>1, CoreInvariant, PTL

-----------------------------------------------------------------------------
(* The channel table *)

\* What has been listed, on the wire or in a client's table, was listed after the manifest
\* became ready and so has no fewer channels than there were then.
TableInv ==
    /\ tableAtReady <= nextChannelId
    /\ \A c \in Conns : \A f \in Elems(toClient[c]) :
          f.kind = "hello" => manifestReady /\ f.n >= tableAtReady
    /\ \A c \in Conns : client[c] = "ready" => manifestReady /\ table[c] >= tableAtReady

LEMMA TableStep ==
    ASSUME Core, TableInv, [Next]_vars
    PROVE  TableInv'
<1>1. Types
  BY DEF Core
<1>2. tableAtReady' <= nextChannelId'
  <2>1. /\ nextChannelId \in Nat /\ tableAtReady \in Nat /\ tableAtReady <= nextChannelId
        /\ nextChannelId' \in Nat /\ nextChannelId' >= nextChannelId
        /\ tableAtReady' \in {tableAtReady, nextChannelId}
    BY <1>1, HostStep DEF Types, TableInv
  <2>2. QED
    BY ONLY <2>1
<1>3. manifestReady => manifestReady' /\ tableAtReady' = tableAtReady
  BY <1>1, HostStep
<1>4. ASSUME NEW c \in Conns, NEW f \in Elems(toClient'[c]), f.kind = "hello"
      PROVE  manifestReady' /\ f.n >= tableAtReady'
  <2>1. \/ f \in Elems(toClient[c])
        \/ f = Frame("hello", nextChannelId) /\ manifestReady
    BY <1>1, <1>4, ToClientStep
  <2>2. manifestReady /\ f.n >= tableAtReady
    <3>1. CASE f \in Elems(toClient[c])
      BY <1>4, <3>1 DEF TableInv
    <3>2. CASE f = Frame("hello", nextChannelId) /\ manifestReady
      <4>1. f.n = nextChannelId
        BY <3>2 DEF Frame
      <4>2. QED
        BY <1>1, <3>2, <4>1 DEF TableInv, Types
    <3>3. QED
      BY <2>1, <3>1, <3>2
  <2>3. QED
    BY <1>3, <2>2
<1>5. ASSUME NEW c \in Conns, client'[c] = "ready"
      PROVE  manifestReady' /\ table'[c] >= tableAtReady'
  <2>1. manifestReady /\ table'[c] >= tableAtReady
    <3>1. \/ client[c] = "ready" /\ table'[c] = table[c]
          \/ \E f \in Elems(toClient[c]) : f.kind = "hello" /\ table'[c] = f.n
      BY <1>1, <1>5, ClientStep
    <3>2. QED
      BY <3>1 DEF TableInv
  <2>2. QED
    BY <1>3, <2>1
<1>6. QED
  BY <1>2, <1>4, <1>5 DEF TableInv

\* A client that got its hello has in its table every channel that existed when the
\* manifest became ready (cosim-protocol.md:144), however late the answer came and
\* whatever the other connections did.
THEOREM TableIsCompleteCorrect == Spec => []TableIsComplete
<1>1. Init => TableInv
  <2>1. SUFFICES ASSUME Init PROVE TableInv
    OBVIOUS
  <2>2. tableAtReady <= nextChannelId
    BY <2>1 DEF Init
  <2>3. \A c \in Conns : Elems(toClient[c]) = {} /\ client[c] # "ready"
    BY <2>1, NoFrames DEF Init
  <2>4. QED
    BY <2>2, <2>3 DEF TableInv
<1>2. Core /\ TableInv /\ [Next]_vars => TableInv'
  BY TableStep
<1>3. TableInv => TableIsComplete
  BY DEF TableInv, TableIsComplete
<1>4. QED
  BY <1>1, <1>2, <1>3, CoreInvariant, PTL DEF Spec

-----------------------------------------------------------------------------
(* Messages go to those who asked *)

\* The single-client rule of cosim-protocol.md:13: while there is a session, a connection
\* that the server serves and has not begun to close is the session's.  The Close of a
\* rejected connection resets the session of the accepted one, and a third connection is
\* then accepted beside it; so the code does not keep the rule with three connections, and
\* it is a hypothesis of the last theorem.
SingleClient ==
    session # NoConn => \A c \in Conns :
        conn[c] \in {"serving", "hello"} /\ c \notin closing => c = session

\* The client has no answer to its hello and so has not subscribed.
Unanswered(c) ==
    /\ client[c] # "ready"
    /\ \A f \in Elems(toClient[c]) : f.kind # "hello"
    /\ "subscribe" \notin Elems(toServer[c])

\* A connection that the server has not accepted, or that it closes before the client has
\* closed it, is unanswered; whoever subscribed has asked, unless it is gone.
AskInv ==
    /\ \A c \in Conns :
          \/ conn[c] \in {"none", "open"}
          \/ stop = "running" /\ c \in closing /\ ~CloseIsNext(c)
          => Unanswered(c)
    /\ \A c \in Conns : "subscribe" \in Elems(toServer[c]) => c \in asked \/ c \notin wsOpen
    /\ stop = "running" /\ subscribed /\ session # NoConn
          => session \in asked \/ session \notin wsOpen

DataInv ==
    \A c \in Conns : \A f \in Elems(toClient[c]) : f.kind = "data" => c \in asked

LEMMA UnansweredStep ==
    ASSUME Core, [Next]_vars, NEW c \in Conns, Unanswered(c), conn[c] # "hello" \/ c \in closing
    PROVE  Unanswered(c)'
<1>1. Types
  BY DEF Core
<1>2. client'[c] # "ready"
  BY <1>1, ClientStep DEF Unanswered
<1>3. \A f \in Elems(toClient'[c]) : f.kind # "hello"
  BY <1>1, ToClientStep DEF Unanswered
<1>4. "subscribe" \notin Elems(toServer'[c])
  BY <1>1, ToServerStep DEF Unanswered
<1>5. QED
  BY <1>2, <1>3, <1>4 DEF Unanswered

\* How the server comes to close a connection.
LEMMA ClosingStep ==
    ASSUME Core, [Next]_vars, NEW c \in Conns, c \in closing', c \notin closing
    PROVE  conn[c] = "open" \/ CloseIsNext(c)' \/ stop' # "running"
<1>1. Types
  BY DEF Core
<1>2. closing' # closing
  OBVIOUS
<1>3. CASE StopServer
  BY <1>3 DEF StopServer
<1>4. ASSUME NEW d \in Conns, Reject(d) PROVE conn[c] = "open"
  BY <1>4 DEF Reject
<1>5. ASSUME NEW d \in Conns, OnClose(d) PROVE FALSE
  BY <1>5 DEF OnClose
<1>6. ASSUME NEW d \in Conns, Lose(d) PROVE CloseIsNext(c)'
  <2>1. d = c /\ toServer'[c] = <<"close">>
    BY <1>1, <1>6 DEF Lose, Types
  <2>2. QED
    BY <2>1 DEF CloseIsNext
<1>7. ASSUME NEW d \in Conns,
             ServerThread(d) \/ ClientMain(d) \/ ClientNetwork(d),
             ~Reject(d), ~OnClose(d)
      PROVE  UNCHANGED closing
  BY <1>7 DEF ServerThread, ClientMain, ClientNetwork, Accept, Hello, AnswerHello,
     HandleSubscribe, Connect, SendHello, HelloTimeout, ClientSubscribe, Leave,
     ReceiveHello, ReceiveBusy, ReceiveOther, ReceiveClose, serverVars
<1>8. (Simulator \/ TransportSend) /\ ~StopServer => UNCHANGED closing
  BY DEF Simulator, RegisterPort, SetManifest, StopTransport, StopReturns, TransportSend,
     serverVars
<1>9. UNCHANGED vars => UNCHANGED closing
  BY DEF vars
<1>10. QED
  BY <1>2, <1>3, <1>4, <1>5, <1>6, <1>7, <1>8, <1>9 DEF Next

\* A client that asked has asked until it leaves, and then nothing is on its wire.
LEMMA AskedStep ==
    ASSUME Core, [Next]_vars, NEW c \in Conns
    PROVE  /\ c \in asked => c \in asked' \/ (c \notin wsOpen' /\ toClient'[c] = <<>>)
           /\ c \notin wsOpen => c \notin wsOpen' \/ conn[c] = "none"
<1>1. Types /\ LifeInv
  BY DEF Core
<1> DEFINE Goal == /\ c \in asked => c \in asked' \/ (c \notin wsOpen' /\ toClient'[c] = <<>>)
                   /\ c \notin wsOpen => c \notin wsOpen' \/ conn[c] = "none"
<1>2. CASE UNCHANGED <<asked, wsOpen>>
  BY <1>2
<1>3. ASSUME NEW d \in Conns, Connect(d) PROVE Goal
  BY <1>1, <1>3 DEF Connect, LifeInv
<1>4. ASSUME NEW d \in Conns, ClientSubscribe(d) \/ ReceiveClose(d) PROVE Goal
  BY <1>4 DEF ClientSubscribe, ReceiveClose
<1>5. ASSUME NEW d \in Conns, Leave(d) PROVE Goal
  <2>1. asked' = asked \ {d} /\ wsOpen' = wsOpen \ {d} /\ toClient'[d] = <<>>
    BY <1>1, <1>5 DEF Leave, Types
  <2>2. QED
    BY <2>1
<1>6. ASSUME NEW d \in Conns,
             ServerThread(d) \/ ClientMain(d) \/ ClientNetwork(d) \/ Lose(d),
             ~Connect(d), ~ClientSubscribe(d), ~ReceiveClose(d), ~Leave(d)
      PROVE  UNCHANGED <<asked, wsOpen>>
  BY <1>6 DEF ServerThread, ClientMain, ClientNetwork, Accept, Reject, Hello, AnswerHello,
     HandleSubscribe, OnClose, SendHello, HelloTimeout, ReceiveHello, ReceiveBusy,
     ReceiveOther, Lose, clientVars
<1>7. Simulator \/ TransportSend => UNCHANGED <<asked, wsOpen>>
  BY DEF Simulator, RegisterPort, SetManifest, StopTransport, StopServer, StopReturns,
     TransportSend, clientVars
<1>8. UNCHANGED vars => UNCHANGED <<asked, wsOpen>>
  BY DEF vars
<1>9. QED
  BY <1>2, <1>3, <1>4, <1>5, <1>6, <1>7, <1>8 DEF Next

LEMMA AskStep ==
    ASSUME Core, SingleClient, AskInv, [Next]_vars
    PROVE  AskInv'
<1>1. Types /\ LifeInv /\ SessionIsAlive
  BY DEF Core
<1>2. stop' = "running" => stop = "running"
  BY <1>1, HostStep
<1>3. ASSUME NEW c \in Conns,
             \/ conn'[c] \in {"none", "open"}
             \/ stop' = "running" /\ c \in closing' /\ ~CloseIsNext(c)'
      PROVE  Unanswered(c)'
  <2>1. CASE conn'[c] \in {"none", "open"}
    <3>1. conn[c] \in {"none", "open"}
      BY <1>1, <2>1, ConnStep
    <3>2. Unanswered(c)
      BY <3>1 DEF AskInv
    <3>3. QED
      BY <3>1, <3>2, UnansweredStep
  <2>2. CASE stop' = "running" /\ c \in closing' /\ ~CloseIsNext(c)'
    <3>1. CASE c \in closing
      <4>1. ~CloseIsNext(c)
        BY <1>1, <2>2, ToServerStep
      <4>2. Unanswered(c)
        BY <1>2, <2>2, <3>1, <4>1 DEF AskInv
      <4>3. QED
        BY <3>1, <4>2, UnansweredStep
    <3>2. CASE c \notin closing
      <4>1. conn[c] = "open"
        BY <2>2, <3>2, ClosingStep
      <4>2. Unanswered(c)
        BY <4>1 DEF AskInv
      <4>3. QED
        BY <4>1, <4>2, UnansweredStep
    <3>3. QED
      BY <3>1, <3>2
  <2>3. QED
    BY <1>3, <2>1, <2>2
<1>4. ASSUME NEW c \in Conns, "subscribe" \in Elems(toServer'[c])
      PROVE  c \in asked' \/ c \notin wsOpen'
  <2>1. CASE "subscribe" \in Elems(toServer[c])
    <3>1. c \in asked \/ c \notin wsOpen
      BY <2>1 DEF AskInv
    <3>2. conn[c] # "none"
      BY <2>1 DEF AskInv, Unanswered
    <3>3. QED
      BY <3>1, <3>2, AskedStep
  <2>2. CASE "subscribe" \notin Elems(toServer[c])
    BY <1>1, <1>4, <2>2, ToServerStep
  <2>3. QED
    BY <2>1, <2>2
<1>5. ASSUME stop' = "running", subscribed', session' # NoConn
      PROVE  session' \in asked' \/ session' \notin wsOpen'
  <2>1. CASE session' = session /\ subscribed' = subscribed
    <3>1. session \in Conns /\ conn[session] # "none"
      BY <1>1, <1>5, <2>1 DEF SessionIsAlive, Types
    <3>2. session \in asked \/ session \notin wsOpen
      BY <1>2, <1>5, <2>1 DEF AskInv
    <3>3. QED
      BY <2>1, <3>1, <3>2, AskedStep
  <2>2. ASSUME NEW c \in Conns, Arrives(c, "subscribe"), session' = session,
               asked' = asked, wsOpen' = wsOpen
        PROVE  session' \in asked' \/ session' \notin wsOpen'
    <3>1. "subscribe" \in Elems(toServer[c]) /\ conn[c] = "serving"
      BY <1>1, <2>2, ArrivesStep DEF Requests, Arrives
    <3>2. ~CloseIsNext(c)
      BY <2>2 DEF Arrives, CloseIsNext
    <3>3. c \notin closing
      BY <1>2, <1>5, <3>1, <3>2 DEF AskInv, Unanswered
    <3>4. c = session
      BY <1>5, <2>2, <3>1, <3>3 DEF SingleClient
    <3>5. c \in asked \/ c \notin wsOpen
      BY <3>1 DEF AskInv
    <3>6. QED
      BY <2>2, <3>4, <3>5
  <2>3. QED
    BY <1>1, <1>5, <2>1, <2>2, SessionStep
<1>6. QED
  BY <1>3, <1>4, <1>5 DEF AskInv

LEMMA DataStep ==
    ASSUME Core, AskInv, DataInv, [Next]_vars
    PROVE  DataInv'
<1>1. Types
  BY DEF Core
<1>2. ASSUME NEW c \in Conns, NEW f \in Elems(toClient'[c]), f.kind = "data"
      PROVE  c \in asked'
  <2>1. c \in asked
    <3>1. \/ f \in Elems(toClient[c])
          \/ stop = "running" /\ session = c /\ subscribed /\ c \in wsOpen
      <4>1. f # Frame("hello", nextChannelId)
        BY <1>2 DEF Frame
      <4>2. QED
        BY <1>1, <1>2, <4>1, ToClientStep
    <3>2. CASE f \in Elems(toClient[c])
      BY <1>2, <3>2 DEF DataInv
    <3>3. CASE stop = "running" /\ session = c /\ subscribed /\ c \in wsOpen
      BY <3>3, SessionAssumption DEF AskInv
    <3>4. QED
      BY <3>1, <3>2, <3>3
  <2>2. toClient'[c] # <<>>
    BY <1>2, NoFrames
  <2>3. QED
    BY <2>1, <2>2, AskedStep
<1>3. QED
  BY <1>2 DEF DataInv

LEMMA AskInit ==
    Init => AskInv /\ DataInv
<1>1. SUFFICES ASSUME Init PROVE AskInv /\ DataInv
  OBVIOUS
<1>2. \A c \in Conns : Elems(toClient[c]) = {} /\ Elems(toServer[c]) = {}
  BY <1>1, NoFrames DEF Init
<1>3. ~subscribed /\ \A c \in Conns : client[c] # "ready"
  BY <1>1 DEF Init
<1>4. QED
  BY <1>2, <1>3 DEF AskInv, DataInv, Unanswered

\* While the server keeps the single-client rule, a message only goes to a client that
\* subscribed: the session that comes after another does not inherit its subscription,
\* and no late subscribe reaches a session that did not send it.
THEOREM OnlyAskedFramesCorrect == Spec /\ []SingleClient => []OnlyAskedFrames
<1>1. Core /\ SingleClient /\ AskInv /\ DataInv /\ [Next]_vars => (AskInv /\ DataInv)'
  BY AskStep, DataStep
<1>2. Core /\ DataInv => OnlyAskedFrames
  <2>1. SUFFICES ASSUME DataInv, NEW c \in Conns, NEW i \in 1..Len(toClient[c]),
                        toClient[c][i].kind = "data"
                 PROVE  c \in asked
    BY DEF OnlyAskedFrames
  <2>2. toClient[c][i] \in Elems(toClient[c])
    BY DEF Elems
  <2>3. QED
    BY <2>1, <2>2 DEF DataInv
<1>3. QED
  BY <1>1, <1>2, AskInit, CoreInvariant, PTL DEF Spec

-----------------------------------------------------------------------------
(* How long the single-client rule is kept *)

Served(c) == conn[c] \in {"serving", "hello"} /\ c \notin closing

\* Whoever is served has the session, until a connection has been closed.
RuleInv ==
    \A c \in Conns : Served(c) => c = session \/ \E d \in Conns : conn[d] = "closed"

LEMMA RuleStep ==
    ASSUME Core, RuleInv, [Next]_vars
    PROVE  RuleInv'
<1>1. Types /\ LifeInv
  BY DEF Core
<1>2. SUFFICES ASSUME NEW c \in Conns, Served(c)', \A d \in Conns : conn'[d] # "closed"
               PROVE  c = session'
  BY DEF RuleInv
<1>3. \A d \in Conns : conn[d] # "closed"
  BY <1>1, <1>2, ConnStep
<1>4. Served(c) => c = session
  BY <1>3 DEF RuleInv
<1>5. CASE UNCHANGED <<conn, closing, session>>
  BY <1>2, <1>4, <1>5 DEF Served
<1>6. ASSUME NEW d \in Conns, Accept(d) PROVE c = session'
  BY <1>1, <1>2, <1>4, <1>6, SessionAssumption DEF Accept, Served, Types
<1>7. ASSUME NEW d \in Conns, Reject(d) PROVE c = session'
  BY <1>1, <1>2, <1>4, <1>7 DEF Reject, Served, Types
<1>8. ASSUME NEW d \in Conns, Hello(d) \/ AnswerHello(d) PROVE c = session'
  BY <1>1, <1>2, <1>4, <1>8 DEF Hello, AnswerHello, Arrives, Served, Types
<1>9. ASSUME NEW d \in Conns, OnClose(d) PROVE FALSE
  BY <1>1, <1>2, <1>9 DEF OnClose, Types
<1>10. ASSUME NEW d \in Conns, Connect(d) PROVE c = session'
  BY <1>1, <1>2, <1>4, <1>10 DEF Connect, Served, Types
<1>11. ASSUME NEW d \in Conns, Lose(d) PROVE c = session'
  BY <1>2, <1>4, <1>11 DEF Lose, Served
<1>12. CASE StopServer
  BY <1>2, <1>12 DEF StopServer, Served, Live
<1>13. CASE StopReturns
  BY <1>2, <1>13 DEF StopReturns, Served, Live
<1>14. ASSUME NEW d \in Conns, ServerThread(d) \/ ClientMain(d) \/ ClientNetwork(d),
              ~Accept(d), ~Reject(d), ~Hello(d), ~AnswerHello(d), ~OnClose(d), ~Connect(d)
       PROVE  UNCHANGED <<conn, closing, session>>
  BY <1>14 DEF ServerThread, ClientMain, ClientNetwork, HandleSubscribe, SendHello,
     HelloTimeout, ClientSubscribe, Leave, ReceiveHello, ReceiveBusy, ReceiveOther,
     ReceiveClose, serverVars
<1>15. (Simulator \/ TransportSend) /\ ~StopServer /\ ~StopReturns
           => UNCHANGED <<conn, closing, session>>
  BY DEF Simulator, RegisterPort, SetManifest, StopTransport, TransportSend, serverVars
<1>16. UNCHANGED vars => UNCHANGED <<conn, closing, session>>
  BY DEF vars
<1>17. QED
  BY <1>5, <1>6, <1>7, <1>8, <1>9, <1>10, <1>11, <1>12, <1>13, <1>14, <1>15, <1>16 DEF Next

\* The server keeps the single-client rule as long as no connection has been closed, and
\* for ever if it never has more than two: the fault takes three connections.
THEOREM SingleClientOfTwo ==
    ASSUME NEW a, NEW b, Conns \subseteq {a, b}
    PROVE  Spec => []SingleClient
<1>1. Init => RuleInv
  BY DEF Init, RuleInv, Served
<1>2. Core /\ RuleInv /\ [Next]_vars => RuleInv'
  BY RuleStep
<1>3. Core /\ RuleInv => SingleClient
  <2>1. SUFFICES ASSUME Core, RuleInv, session # NoConn, NEW c \in Conns, Served(c),
                        c # session
                 PROVE  FALSE
    BY DEF SingleClient, Served
  <2>2. PICK d \in Conns : conn[d] = "closed"
    BY <2>1 DEF RuleInv
  <2>3. session \in Conns /\ conn[session] \in {"serving", "hello"}
    BY <2>1 DEF Core, Types, SessionIsAlive
  <2>4. d # session /\ d # c
    BY <2>1, <2>2, <2>3 DEF Served
  <2>5. QED
    BY <2>1, <2>3, <2>4
<1>4. QED
  BY <1>1, <1>2, <1>3, CoreInvariant, PTL DEF Spec

\* With at most two connections a message only goes to a client that subscribed, whatever
\* the server does.
THEOREM OnlyAskedFramesOfTwo ==
    ASSUME NEW a, NEW b, Conns \subseteq {a, b}
    PROVE  Spec => []OnlyAskedFrames
<1>1. Spec => []SingleClient
  BY SingleClientOfTwo
<1>2. QED
  BY <1>1, OnlyAskedFramesCorrect, PTL

=============================================================================
