---------------------------- MODULE ReadPort_proof ----------------------------
(***************************************************************************)
(* Proofs about ReadPort, for any number of threads, connects, messages    *)
(* and reads, and every kind of port.                                      *)
(*                                                                         *)
(* disconnect() waits for a number, not for threads.  So the argument is   *)
(* one of counting: the number of threads inside a callback never exceeds  *)
(* activeCallbacks (a leaked slot makes it smaller, never larger), and     *)
(* zero slots mean that nobody is inside.                                  *)
(***************************************************************************)
EXTENDS ReadPort, FiniteSetTheorems, SequenceTheorems, TLAPS

LEMMA MaxConnectsNat == MaxConnects \in Nat
BY PortAssumption DEF PortAssumption

-----------------------------------------------------------------------------
(* Counting the threads in a callback *)

\* A thread that enters a callback adds one to the threads inside.
LEMMA InsideAdds ==
    ASSUME BackendTypeOK, NEW t \in Threads, thread[t] = Outside,
           NEW k, thread' = [thread EXCEPT ![t] =
                                [pc |-> "inside", conn |-> k, size |-> StrippedSize]]
    PROVE  /\ Inside' = Inside \cup {t}
           /\ Cardinality(Inside) \in Nat
           /\ Cardinality(Inside') = Cardinality(Inside) + 1
<1>1. Inside' = Inside \cup {t}
  BY DEF Inside, BackendTypeOK
<1>2. t \notin Inside
  BY DEF Inside, Outside
<1>3. IsFiniteSet(Inside)
  BY FS_Subset, PortAssumption DEF Inside, PortAssumption
<1>4. QED
  BY <1>1, <1>2, <1>3, FS_AddElement, FS_CardinalityType

\* A thread that leaves one takes one away.
LEMMA InsideRemoves ==
    ASSUME BackendTypeOK, NEW t \in Threads, thread[t].pc = "inside",
           thread' = [thread EXCEPT ![t] = Outside]
    PROVE  /\ Inside' = Inside \ {t}
           /\ Cardinality(Inside) \in Nat \ {0}
           /\ Cardinality(Inside') = Cardinality(Inside) - 1
<1>1. Inside' = Inside \ {t}
  BY DEF Inside, Outside, BackendTypeOK
<1>2. t \in Inside
  BY DEF Inside
<1>3. IsFiniteSet(Inside)
  BY FS_Subset, PortAssumption DEF Inside, PortAssumption
<1>4. Cardinality(Inside) # 0
  BY <1>2, <1>3, FS_EmptySet
<1>5. QED
  BY <1>1, <1>2, <1>3, <1>4, FS_RemoveElement, FS_CardinalityType

\* Steps that leave the threads alone keep them where they are.
LEMMA InsideStays ==
    ASSUME UNCHANGED thread
    PROVE  Inside' = Inside
BY DEF Inside

-----------------------------------------------------------------------------
(* The inductive invariant *)

\* Every thread inside has a slot.
SlotsCover == Cardinality(Inside) <= activeCallbacks

\* `callback` is the one of the last connection whenever it can be captured.
CallbackIsCurrent ==
    /\ mode # "disconnected" => owner = "idle" /\ callback = connects
    /\ owner \in {"connecting callback", "connecting polling"}
           => mode = "disconnected" /\ callback = connects

IndInv == TypeOK /\ SlotsCover /\ CallbackIsCurrent /\ NoCallbackOutlivesItsConnection

\* What a thread that leaves its callback does to the types and the count.
LEMMA LeaveStep ==
    ASSUME IndInv, NEW t \in Threads, thread[t].pc = "inside",
           NEW consumed \in BOOLEAN, Leave(t, consumed)
    PROVE  /\ activeCallbacks' \in Nat
           /\ thread' \in [Threads -> [pc : {"outside", "inside"},
                                       conn : 0..MaxConnects, size : {0, WireSize}]]
           /\ hand' \in [Threads -> [n : Nat, size : {0, WireSize}]]
           /\ SlotsCover'
           /\ Inside' \subseteq Inside
           /\ \A u \in Inside' : thread'[u] = thread[u]
<1> USE DEF IndInv, TypeOK
<1>1. /\ Inside' = Inside \ {t}
      /\ Cardinality(Inside) \in Nat \ {0}
      /\ Cardinality(Inside') = Cardinality(Inside) - 1
  BY InsideRemoves DEF Leave
<1>2. activeCallbacks' \in Nat /\ SlotsCover'
  <2>1. Cardinality(Inside) <= activeCallbacks /\ activeCallbacks \in Nat
    BY DEF SlotsCover, PortTypeOK
  <2>2. activeCallbacks' = activeCallbacks - 1
    BY DEF Leave
  <2>3. activeCallbacks' \in Nat /\ Cardinality(Inside') <= activeCallbacks'
    BY <1>1, <2>1, <2>2
  <2>4. QED
    BY <2>3 DEF SlotsCover
<1>3. Outside \in [pc : {"outside", "inside"}, conn : 0..MaxConnects,
                   size : {0, WireSize}]
  BY PortAssumption DEF Outside, PortAssumption
<1>4. thread' \in [Threads -> [pc : {"outside", "inside"}, conn : 0..MaxConnects,
                               size : {0, WireSize}]]
  BY <1>3 DEF Leave, BackendTypeOK
<1>5. hand' \in [Threads -> [n : Nat, size : {0, WireSize}]]
  <2>1. thread[t].size \in {0, WireSize} /\ hand[t] \in [n : Nat, size : {0, WireSize}]
    BY DEF BackendTypeOK
  <2>2. NoMessage \in [n : Nat, size : {0, WireSize}]
    BY DEF NoMessage
  <2>3. [hand[t] EXCEPT !.size = thread[t].size] \in [n : Nat, size : {0, WireSize}]
    BY <2>1
  <2>4. QED
    BY <2>1, <2>2, <2>3 DEF Leave, BackendTypeOK
<1>6. \A u \in Inside' : thread'[u] = thread[u]
  BY <1>1 DEF Leave, BackendTypeOK, Inside
<1>7. QED
  BY <1>1, <1>2, <1>4, <1>5, <1>6

\* The initial state.
LEMMA InitInv == Init => IndInv
<1> SUFFICES ASSUME Init PROVE IndInv
  OBVIOUS
<1>1. Inside = {}
  BY DEF Init, Inside, Outside
<1>2. TypeOK
  BY PortAssumption DEF Init, TypeOK, PortTypeOK, BackendTypeOK, BufferTypeOK,
     Outside, NoMessage, PortAssumption
<1>3. SlotsCover
  BY <1>1, FS_EmptySet DEF SlotsCover, Init
<1>4. QED
  BY <1>1, <1>2, <1>3 DEF IndInv, CallbackIsCurrent,
     NoCallbackOutlivesItsConnection, Init

\* The buffer's types, the same whoever steps.
LEMMA BufferStep ==
    ASSUME TypeOK, [Next]_vars
    PROVE  BufferTypeOK'
<1> USE DEF TypeOK
<1> DEFINE Future == [state : {"waiting", "ready", "broken"}, n : Nat]
<1>1. ASSUME NEW q PROVE Broken(q) \in Seq(Future)
  <2>1. \A i \in 1..Len(futures) : futures[i] \in Future
    BY ElementOfSeq DEF BufferTypeOK
  <2>2. \A i \in 1..Len(futures) : [futures[i] EXCEPT !.state = "broken"] \in Future
    BY <2>1
  <2>3. Len(futures) \in Nat
    BY DEF BufferTypeOK
  <2>4. QED
    BY <2>1, <2>2, <2>3, IsASeq DEF Broken
<1>2. Len(futures) \in Nat
  BY DEF BufferTypeOK
<1>3. CASE ConnectPolling
  <2>1. polling' \in 0..MaxConnects
    <3>1. connects \in 0..MaxConnects /\ connects < MaxConnects
      BY <1>3 DEF ConnectPolling, PortTypeOK
    <3>2. polling' = connects + 1
      BY <1>3 DEF ConnectPolling
    <3>3. QED
      BY <3>1, <3>2, MaxConnectsNat
  <2>2. /\ dataQueue' \in Seq(Nat) /\ promiseQueue' \in Seq(Nat)
        /\ accepted' \in Seq(Nat) /\ firstFuture' \in Nat
    BY <1>2, <1>3, EmptySeq DEF ConnectPolling
  <2>3. futures' \in Seq(Future)
    BY <1>1, <1>3 DEF ConnectPolling
  <2>4. QED
    BY <2>1, <2>2, <2>3 DEF BufferTypeOK
<1>4. CASE DisconnectReturns
  BY <1>1, <1>2, <1>4, PortAssumption DEF DisconnectReturns, BufferTypeOK,
     PortAssumption
<1>5. ASSUME NEW t \in Threads, Enqueue(t) PROVE BufferTypeOK'
  <2>1. hand[t].n \in Nat
    BY DEF BackendTypeOK
  <2>2. accepted' \in Seq(Nat)
    BY <1>5, <2>1, AppendProperties DEF Enqueue, BufferTypeOK
  <2>3. CASE promiseQueue # <<>> /\ promiseQueue' = Tail(promiseQueue)
             /\ futures' = [futures EXCEPT ![Head(promiseQueue)] =
                                [state |-> "ready", n |-> hand[t].n]]
             /\ UNCHANGED dataQueue
    <3>1. [state |-> "ready", n |-> hand[t].n] \in Future
      BY <2>1
    <3>2. futures' \in Seq(Future)
      <4>1. Head(promiseQueue) \in 1..Len(futures)
               => futures' \in Seq(Future)
        BY <2>3, <3>1, ExceptSeq DEF BufferTypeOK
      <4>2. Head(promiseQueue) \notin 1..Len(futures) => futures' = futures
        BY <1>2, <2>3, LenProperties DEF BufferTypeOK
      <4>3. QED
        BY <4>1, <4>2 DEF BufferTypeOK
    <3>3. promiseQueue' \in Seq(Nat)
      BY <2>3, HeadTailProperties DEF BufferTypeOK
    <3>4. QED
      BY <1>5, <2>2, <2>3, <3>2, <3>3 DEF Enqueue, BufferTypeOK
  <2>4. CASE dataQueue' = Append(dataQueue, hand[t].n)
             /\ UNCHANGED <<futures, promiseQueue>>
    BY <1>5, <2>1, <2>2, <2>4, AppendProperties DEF Enqueue, BufferTypeOK
  <2>5. QED
    BY <1>5, <2>3, <2>4 DEF Enqueue
<1>6. CASE ReadAsync
  <2>1. CASE dataQueue # <<>> /\ dataQueue' = Tail(dataQueue)
             /\ futures' = Append(futures, [state |-> "ready", n |-> Head(dataQueue)])
             /\ UNCHANGED promiseQueue
    <3>1. Head(dataQueue) \in Nat /\ Tail(dataQueue) \in Seq(Nat)
      BY <2>1, HeadTailProperties DEF BufferTypeOK
    <3>2. [state |-> "ready", n |-> Head(dataQueue)] \in Future
      BY <3>1
    <3>3. futures' \in Seq(Future)
      BY <2>1, <3>2, AppendProperties DEF BufferTypeOK
    <3>4. QED
      BY <1>6, <2>1, <3>1, <3>3 DEF ReadAsync, BufferTypeOK
  <2>2. CASE futures' = Append(futures, [state |-> "waiting", n |-> 0])
             /\ promiseQueue' = Append(promiseQueue, Len(futures) + 1)
             /\ UNCHANGED dataQueue
    <3>1. [state |-> "waiting", n |-> 0] \in Future
      OBVIOUS
    <3>2. futures' \in Seq(Future)
      BY <2>2, <3>1, AppendProperties DEF BufferTypeOK
    <3>3. promiseQueue' \in Seq(Nat)
      BY <1>2, <2>2, AppendProperties DEF BufferTypeOK
    <3>4. QED
      BY <1>6, <2>2, <3>2, <3>3 DEF ReadAsync, BufferTypeOK
  <2>3. QED
    BY <1>6, <2>1, <2>2 DEF ReadAsync
<1>7. CASE UNCHANGED <<bufferVars, futures>>
  BY <1>7 DEF BufferTypeOK, bufferVars
<1>8. QED
  <2>1. ASSUME NEW t \in Threads, Backend(t), ~Enqueue(t)
        PROVE  UNCHANGED <<bufferVars, futures>>
    BY <2>1 DEF Backend, CallbackEnds, Arrive, DropDisconnected, Capture,
       CaptureThrows, CallbackReturns, CallbackThrows, EnqueueRefused
  <2>2. ASSUME Owner, ~ConnectPolling, ~DisconnectReturns
        PROVE  UNCHANGED <<bufferVars, futures>>
    BY <2>2 DEF Owner, ConnectCallback, Connected, ConnectThrows, Disconnect
  <2>3. ReadCheck => UNCHANGED <<bufferVars, futures>>
    BY DEF ReadCheck
  <2>4. UNCHANGED vars => UNCHANGED <<bufferVars, futures>>
    BY DEF vars, bufferVars
  <2>5. QED
    BY <1>3, <1>4, <1>5, <1>6, <1>7, <2>1, <2>2, <2>3, <2>4 DEF Next

-----------------------------------------------------------------------------
(* Every step keeps the invariant *)

\* All of IndInv but the types of the buffer.
Rest == /\ PortTypeOK /\ BackendTypeOK
        /\ SlotsCover /\ CallbackIsCurrent /\ NoCallbackOutlivesItsConnection

\* Steps that neither enter nor leave a callback, nor connect or disconnect.
LEMMA QuietStep ==
    ASSUME IndInv, UNCHANGED <<portVars, ownerVars, thread>>,
           hand' \in [Threads -> [n : Nat, size : {0, WireSize}]],
           arrived' \in Nat, reader' \in {"idle", "checked"}
    PROVE  Rest'
<1>1. Inside' = Inside
  BY InsideStays
<1>2. PortTypeOK' /\ BackendTypeOK'
  BY DEF IndInv, TypeOK, PortTypeOK, BackendTypeOK, portVars, ownerVars
<1>3. SlotsCover'
  BY <1>1 DEF IndInv, SlotsCover, portVars
<1>4. CallbackIsCurrent'
  BY DEF IndInv, CallbackIsCurrent, portVars, ownerVars
<1>5. NoCallbackOutlivesItsConnection'
  BY <1>1 DEF IndInv, NoCallbackOutlivesItsConnection, portVars, ownerVars
<1>6. QED
  BY <1>2, <1>3, <1>4, <1>5 DEF Rest

\* connect and disconnect.
LEMMA OwnerStep ==
    ASSUME IndInv, Owner
    PROVE  Rest'
<1> USE DEF IndInv, TypeOK
<1>1. UNCHANGED <<activeCallbacks, thread, hand, arrived, reader>>
  BY DEF Owner, ConnectCallback, ConnectPolling, Connected, ConnectThrows,
     Disconnect, DisconnectReturns, backendVars, portVars
<1>2. Inside' = Inside
  BY <1>1, InsideStays
<1>3. SlotsCover' /\ BackendTypeOK'
  BY <1>1, <1>2 DEF SlotsCover, BackendTypeOK
<1>4. CASE ConnectCallback \/ ConnectPolling
  <2>1. /\ connects' = connects + 1 /\ callback' = connects + 1
        /\ connects < MaxConnects
        /\ owner' \in {"connecting callback", "connecting polling"}
        /\ owner = "idle" /\ mode = "disconnected" /\ mode' = mode
    BY <1>4 DEF ConnectCallback, ConnectPolling, OwnerAt
  <2>2. connects' \in 0..MaxConnects /\ callback' \in 0..MaxConnects
    <3>1. connects \in 0..MaxConnects
      BY DEF PortTypeOK
    <3>2. connects < MaxConnects
      BY <2>1
    <3>3. connects + 1 \in 0..MaxConnects
      BY ONLY <3>1, <3>2, MaxConnectsNat
    <3>4. QED
      BY <2>1, <3>3
  <2>3. Inside = {}
    BY <2>1 DEF NoCallbackOutlivesItsConnection
  <2>4. PortTypeOK'
    BY <1>1, <2>1, <2>2 DEF PortTypeOK
  <2>5. CallbackIsCurrent' /\ NoCallbackOutlivesItsConnection'
    BY <1>2, <2>1, <2>3 DEF CallbackIsCurrent, NoCallbackOutlivesItsConnection
  <2>6. QED
    BY <1>3, <2>4, <2>5 DEF Rest
<1>5. CASE Connected
  <2>1. /\ owner \in {"connecting callback", "connecting polling"}
        /\ owner' = "idle" /\ mode' \in {"callback", "polling"}
        /\ UNCHANGED <<callback, connects>>
    BY <1>5 DEF Connected, OwnerAt
  <2>2. Inside = {}
    BY <2>1 DEF NoCallbackOutlivesItsConnection, CallbackIsCurrent
  <2>3. PortTypeOK'
    BY <1>1, <2>1 DEF PortTypeOK
  <2>4. CallbackIsCurrent' /\ NoCallbackOutlivesItsConnection'
    BY <1>2, <2>1, <2>2 DEF CallbackIsCurrent, NoCallbackOutlivesItsConnection
  <2>5. QED
    BY <1>3, <2>3, <2>4 DEF Rest
<1>6. CASE ConnectThrows
  <2>1. /\ owner \in {"connecting callback", "connecting polling"}
        /\ owner' = "idle"
        /\ UNCHANGED <<mode, callback, connects>>
    BY <1>6 DEF ConnectThrows, OwnerAt, portVars
  <2>2. Inside = {} /\ mode = "disconnected"
    BY <2>1 DEF NoCallbackOutlivesItsConnection, CallbackIsCurrent
  <2>3. PortTypeOK'
    BY <1>1, <2>1 DEF PortTypeOK
  <2>4. CallbackIsCurrent' /\ NoCallbackOutlivesItsConnection'
    BY <1>2, <2>1, <2>2 DEF CallbackIsCurrent, NoCallbackOutlivesItsConnection
  <2>5. QED
    BY <1>3, <2>3, <2>4 DEF Rest
<1>7. CASE Disconnect
  <2>1. /\ owner' = "waiting" /\ mode' = "disconnected" /\ callback' = 0
        /\ UNCHANGED connects
    BY <1>7 DEF Disconnect
  <2>2. PortTypeOK'
    <3>1. 0 \in 0..MaxConnects
      BY MaxConnectsNat
    <3>2. QED
      BY <1>1, <2>1, <3>1 DEF PortTypeOK
  <2>3. \A t \in Inside : thread'[t].conn = connects'
    BY <1>1, <2>1 DEF NoCallbackOutlivesItsConnection
  <2>4. CallbackIsCurrent' /\ NoCallbackOutlivesItsConnection'
    BY <1>2, <2>1, <2>3 DEF CallbackIsCurrent, NoCallbackOutlivesItsConnection
  <2>5. QED
    BY <1>3, <2>2, <2>4 DEF Rest
<1>8. CASE DisconnectReturns
  <2>1. /\ owner = "waiting" /\ owner' = "idle" /\ activeCallbacks = 0
        /\ UNCHANGED <<mode, callback, connects>>
    BY <1>8 DEF DisconnectReturns, portVars
  <2>2. Inside = {}
    <3>1. IsFiniteSet(Inside)
      BY FS_Subset, PortAssumption DEF Inside, PortAssumption
    <3>2. Cardinality(Inside) \in Nat /\ Cardinality(Inside) <= 0
      BY <2>1, <3>1, FS_CardinalityType DEF SlotsCover
    <3>3. Cardinality(Inside) = 0
      BY <3>2
    <3>4. QED
      BY <3>1, <3>3, FS_EmptySet
  <2>3. mode = "disconnected"
    BY <2>1 DEF CallbackIsCurrent
  <2>4. PortTypeOK'
    BY <1>1, <2>1 DEF PortTypeOK
  <2>5. CallbackIsCurrent' /\ NoCallbackOutlivesItsConnection'
    BY <1>2, <2>1, <2>2, <2>3 DEF CallbackIsCurrent, NoCallbackOutlivesItsConnection
  <2>6. QED
    BY <1>3, <2>4, <2>5 DEF Rest
<1>9. QED
  BY <1>4, <1>5, <1>6, <1>7, <1>8 DEF Owner

\* Entering a callback, or failing between the slot and the call.
LEMMA CaptureStep ==
    ASSUME IndInv, NEW t \in Threads, Capture(t) \/ CaptureThrows(t)
    PROVE  Rest'
<1> USE DEF IndInv, TypeOK
<1>1. /\ activeCallbacks' = activeCallbacks + 1
      /\ UNCHANGED <<mode, callback, owner, connects, hand, arrived, reader>>
      /\ mode # "disconnected" /\ thread[t] = Outside
  BY DEF Capture, CaptureThrows, ownerVars, backendVars
<1>2. PortTypeOK'
  <2>1. activeCallbacks \in Nat
    BY DEF PortTypeOK
  <2>2. activeCallbacks + 1 \in Nat
    BY <2>1
  <2>3. QED
    BY <1>1, <2>2 DEF PortTypeOK
<1>3. CallbackIsCurrent'
  BY <1>1 DEF CallbackIsCurrent
<1>4. CASE Capture(t)
  <2>1. thread' = [thread EXCEPT ![t] = [pc |-> "inside", conn |-> callback,
                                         size |-> StrippedSize]]
    BY <1>4 DEF Capture
  <2>2. /\ Inside' = Inside \cup {t}
        /\ Cardinality(Inside) \in Nat
        /\ Cardinality(Inside') = Cardinality(Inside) + 1
    BY <1>1, <2>1, InsideAdds
  <2>3. Cardinality(Inside) <= activeCallbacks /\ activeCallbacks \in Nat
    BY DEF SlotsCover, PortTypeOK
  <2>4. Cardinality(Inside') <= activeCallbacks'
    BY <1>1, <2>2, <2>3
  <2>5. StrippedSize \in {0, WireSize}
    BY DEF StrippedSize
  <2>6. [pc |-> "inside", conn |-> callback, size |-> StrippedSize]
            \in [pc : {"outside", "inside"}, conn : 0..MaxConnects, size : {0, WireSize}]
    BY <2>5 DEF PortTypeOK
  <2>7. BackendTypeOK'
    BY <1>1, <2>1, <2>6 DEF BackendTypeOK
  <2>8. thread'[t].conn = connects
    BY <1>1, <2>1 DEF CallbackIsCurrent, BackendTypeOK
  <2>9. \A u \in Inside : u # t => thread'[u] = thread[u]
    BY <2>1 DEF BackendTypeOK, Inside
  <2>10. t \notin Inside
    BY <1>1 DEF Inside, Outside
  <2>11. \A u \in Inside : thread'[u].conn = connects
    BY <2>9, <2>10 DEF NoCallbackOutlivesItsConnection
  <2>12. NoCallbackOutlivesItsConnection'
    BY <1>1, <2>2, <2>8, <2>11 DEF NoCallbackOutlivesItsConnection
  <2>13. QED
    BY <1>2, <1>3, <2>4, <2>7, <2>12 DEF Rest, SlotsCover
<1>5. CASE CaptureThrows(t)
  <2>1. UNCHANGED thread
    BY <1>5 DEF CaptureThrows, backendVars
  <2>2. Inside' = Inside
    BY <2>1, InsideStays
  <2>3. IsFiniteSet(Inside)
    BY FS_Subset, PortAssumption DEF Inside, PortAssumption
  <2>4. Cardinality(Inside) \in Nat
    BY <2>3, FS_CardinalityType
  <2>5. Cardinality(Inside') <= activeCallbacks'
    <3>1. Cardinality(Inside) <= activeCallbacks /\ activeCallbacks \in Nat
      BY DEF SlotsCover, PortTypeOK
    <3>2. QED
      BY <1>1, <2>2, <2>4, <3>1
  <2>6. BackendTypeOK'
    BY <1>1, <2>1 DEF BackendTypeOK
  <2>7. NoCallbackOutlivesItsConnection'
    BY <1>1, <2>1, <2>2 DEF NoCallbackOutlivesItsConnection
  <2>8. QED
    BY <1>2, <1>3, <2>5, <2>6, <2>7 DEF Rest, SlotsCover
<1>6. QED
  BY <1>4, <1>5

\* Leaving a callback, in whatever way.
LEMMA CallbackEndsStep ==
    ASSUME IndInv, NEW t \in Threads, CallbackEnds(t)
    PROVE  Rest'
<1>1. /\ thread[t].pc = "inside"
      /\ \E consumed \in BOOLEAN : Leave(t, consumed)
      /\ UNCHANGED <<mode, callback, ownerVars, arrived, reader>>
  BY DEF CallbackEnds, CallbackReturns, CallbackThrows, Enqueue, EnqueueRefused,
     InCallback, InPolling
<1>2. PICK consumed \in BOOLEAN : Leave(t, consumed)
  BY <1>1
<1>3. /\ activeCallbacks' \in Nat
      /\ thread' \in [Threads -> [pc : {"outside", "inside"},
                                  conn : 0..MaxConnects, size : {0, WireSize}]]
      /\ hand' \in [Threads -> [n : Nat, size : {0, WireSize}]]
      /\ SlotsCover'
      /\ Inside' \subseteq Inside
      /\ \A u \in Inside' : thread'[u] = thread[u]
  BY <1>1, <1>2, LeaveStep
<1>4. PortTypeOK' /\ BackendTypeOK'
  BY <1>1, <1>3 DEF IndInv, TypeOK, PortTypeOK, BackendTypeOK, ownerVars
<1>5. CallbackIsCurrent'
  BY <1>1 DEF IndInv, CallbackIsCurrent, ownerVars
<1>6. NoCallbackOutlivesItsConnection'
  BY <1>1, <1>3 DEF IndInv, NoCallbackOutlivesItsConnection, ownerVars
<1>7. QED
  BY <1>3, <1>4, <1>5, <1>6 DEF Rest

LEMMA IndStep ==
    ASSUME IndInv, [Next]_vars
    PROVE  IndInv'
<1>1. BufferTypeOK' /\ kind' \in Kinds
  <2>1. BufferTypeOK'
    BY BufferStep DEF IndInv
  <2>2. kind' = kind
    BY DEF Next, vars
  <2>3. QED
    BY <2>1, <2>2 DEF IndInv, TypeOK
<1>2. CASE Owner
  BY <1>1, <1>2, OwnerStep DEF Rest, IndInv, TypeOK
<1>3. ASSUME NEW t \in Threads, Backend(t) PROVE Rest'
  <2>1. CASE Capture(t) \/ CaptureThrows(t)
    BY <2>1, CaptureStep
  <2>2. CASE CallbackEnds(t)
    BY <2>2, CallbackEndsStep
  <2>3. CASE Arrive(t)
    <3>1. hand' \in [Threads -> [n : Nat, size : {0, WireSize}]]
      BY <2>3 DEF Arrive, IndInv, TypeOK, BackendTypeOK
    <3>2. UNCHANGED <<portVars, ownerVars, thread, reader>> /\ arrived' \in Nat
      BY <2>3 DEF Arrive, IndInv, TypeOK, BackendTypeOK
    <3>3. reader' \in {"idle", "checked"}
      BY <3>2 DEF IndInv, TypeOK, PortTypeOK
    <3>4. QED
      BY <3>1, <3>2, <3>3, QuietStep
  <2>4. CASE DropDisconnected(t)
    <3>1. hand' \in [Threads -> [n : Nat, size : {0, WireSize}]]
      BY <2>4 DEF DropDisconnected, NoMessage, IndInv, TypeOK, BackendTypeOK
    <3>2. UNCHANGED <<portVars, ownerVars, thread, reader, arrived>>
      BY <2>4 DEF DropDisconnected
    <3>3. reader' \in {"idle", "checked"} /\ arrived' \in Nat
      BY <3>2 DEF IndInv, TypeOK, PortTypeOK, BackendTypeOK
    <3>4. QED
      BY <3>1, <3>2, <3>3, QuietStep
  <2>5. QED
    BY <1>3, <2>1, <2>2, <2>3, <2>4 DEF Backend
<1>4. CASE ReadCheck \/ ReadAsync \/ UNCHANGED vars
  <2>1. UNCHANGED <<portVars, ownerVars, backendVars>>
    BY <1>4 DEF ReadCheck, ReadAsync, vars, portVars, ownerVars, backendVars
  <2>2. reader' \in {"idle", "checked"}
    BY <1>4 DEF ReadCheck, ReadAsync, vars, IndInv, TypeOK, PortTypeOK
  <2>3. /\ hand' \in [Threads -> [n : Nat, size : {0, WireSize}]]
        /\ arrived' \in Nat
    BY <2>1 DEF backendVars, IndInv, TypeOK, BackendTypeOK
  <2>4. QED
    BY <1>1, <2>1, <2>2, <2>3, QuietStep DEF backendVars, Rest, IndInv, TypeOK
<1>5. QED
  BY <1>1, <1>2, <1>3, <1>4 DEF Next, Rest, IndInv, TypeOK

-----------------------------------------------------------------------------
(* The exact count *)

\* Unless the port is zero-width, every slot is that of a thread inside.
NoSlotLeaks == ~ZeroWidth => activeCallbacks = Cardinality(Inside)

\* Each step moves the count and the threads together.  The exception is
\* CaptureThrows, which only a zero-width port can take.
LEMMA NoSlotLeaksStep ==
    ASSUME IndInv, NoSlotLeaks, [Next]_vars
    PROVE  NoSlotLeaks'
<1>1. ZeroWidth' = ZeroWidth
  BY DEF Next, vars, ZeroWidth
<1> SUFFICES ASSUME ~ZeroWidth PROVE activeCallbacks' = Cardinality(Inside')
  BY <1>1 DEF NoSlotLeaks
<1>2. activeCallbacks = Cardinality(Inside)
  BY DEF NoSlotLeaks
<1>3. BackendTypeOK
  BY DEF IndInv, TypeOK
<1>4. CASE UNCHANGED <<activeCallbacks, thread>>
  BY <1>2, <1>4, InsideStays
<1>5. ASSUME NEW t \in Threads, Capture(t) PROVE activeCallbacks' = Cardinality(Inside')
  <2>1. /\ thread[t] = Outside /\ activeCallbacks' = activeCallbacks + 1
        /\ thread' = [thread EXCEPT ![t] = [pc |-> "inside", conn |-> callback,
                                            size |-> StrippedSize]]
    BY <1>5 DEF Capture
  <2>2. Cardinality(Inside') = Cardinality(Inside) + 1
    BY <1>3, <2>1, InsideAdds
  <2>3. QED
    BY <1>2, <2>1, <2>2
<1>6. ASSUME NEW t \in Threads, CallbackEnds(t)
      PROVE  activeCallbacks' = Cardinality(Inside')
  <2>1. /\ thread[t].pc = "inside" /\ activeCallbacks' = activeCallbacks - 1
        /\ thread' = [thread EXCEPT ![t] = Outside]
    BY <1>6 DEF CallbackEnds, CallbackReturns, CallbackThrows, Enqueue,
       EnqueueRefused, InCallback, InPolling, Leave
  <2>2. Cardinality(Inside') = Cardinality(Inside) - 1
    BY <1>3, <2>1, InsideRemoves
  <2>3. QED
    BY <1>2, <2>1, <2>2
<1>7. ASSUME NEW t \in Threads, CaptureThrows(t) PROVE FALSE
  BY <1>7 DEF CaptureThrows
<1>8. ASSUME NEW t \in Threads, Arrive(t) \/ DropDisconnected(t)
      PROVE  UNCHANGED <<activeCallbacks, thread>>
  BY <1>8 DEF Arrive, DropDisconnected, portVars
<1>9. Owner => UNCHANGED <<activeCallbacks, thread>>
  BY DEF Owner, ConnectCallback, ConnectPolling, Connected, ConnectThrows,
     Disconnect, DisconnectReturns, backendVars, portVars
<1>10. ReadCheck \/ ReadAsync \/ UNCHANGED vars => UNCHANGED <<activeCallbacks, thread>>
  BY DEF ReadCheck, ReadAsync, vars, portVars, backendVars
<1>11. QED
  BY <1>4, <1>5, <1>6, <1>7, <1>8, <1>9, <1>10 DEF Next, Backend

-----------------------------------------------------------------------------
(* The polling buffer *)

\* The reads of the current connection.
Reads == Len(futures) - firstFuture

\* The buffer holds messages or promises, never both.  What is accepted and not read is
\* in dataQueue, what is read and not accepted is in promiseQueue, each in order, and the
\* other reads have their messages.
StreamInv ==
    /\ firstFuture <= Len(futures)
    /\ promiseQueue = <<>> \/ dataQueue = <<>>
    /\ Len(accepted) + Len(promiseQueue) = Reads + Len(dataQueue)
    /\ \A k \in 1..Len(dataQueue) : dataQueue[k] = accepted[Reads + k]
    /\ \A k \in 1..Len(promiseQueue) : promiseQueue[k] = firstFuture + Len(accepted) + k
    /\ \A i \in 1..Reads :
          /\ futures[firstFuture + i].state = "ready" <=> i <= Len(accepted)
          /\ i <= Len(accepted) => futures[firstFuture + i].n = accepted[i]

\* The steps that change the buffer.
LEMMA BufferSteps ==
    ASSUME [Next]_vars
    PROVE  \/ UNCHANGED <<bufferVars, futures>>
           \/ ConnectPolling \/ DisconnectReturns
           \/ \E t \in Threads : Enqueue(t)
           \/ ReadAsync
<1>1. ASSUME NEW t \in Threads, Backend(t), ~Enqueue(t)
      PROVE  UNCHANGED <<bufferVars, futures>>
  BY <1>1 DEF Backend, CallbackEnds, Arrive, DropDisconnected, Capture,
     CaptureThrows, CallbackReturns, CallbackThrows, EnqueueRefused
<1>2. ASSUME Owner, ~ConnectPolling, ~DisconnectReturns
      PROVE  UNCHANGED <<bufferVars, futures>>
  BY <1>2 DEF Owner, ConnectCallback, Connected, ConnectThrows, Disconnect
<1>3. ReadCheck => UNCHANGED <<bufferVars, futures>>
  BY DEF ReadCheck
<1>4. UNCHANGED vars => UNCHANGED <<bufferVars, futures>>
  BY DEF vars, bufferVars
<1>5. QED
  BY <1>1, <1>2, <1>3, <1>4 DEF Next

\* Breaking promises changes states, and neither how many futures there are nor which
\* of them are waiting elsewhere.
LEMMA BrokenFutures ==
    ASSUME BufferTypeOK, NEW q, futures' = Broken(q)
    PROVE  /\ Len(futures') = Len(futures)
           /\ \A i \in 1..Len(futures) :
                 futures'[i].state = "waiting" =>
                     /\ futures[i].state = "waiting"
                     /\ \A k \in 1..Len(q) : q[k] # i
<1>1. Len(futures) \in Nat /\ DOMAIN futures' = 1..Len(futures)
  BY DEF BufferTypeOK, Broken
<1>2. futures' = [i \in 1..Len(futures) |->
                     IF \E k \in 1..Len(q) : q[k] = i
                     THEN [futures[i] EXCEPT !.state = "broken"] ELSE futures[i]]
  BY DEF Broken
<1>3. ASSUME NEW i \in 1..Len(futures)
      PROVE  futures[i] \in [state : {"waiting", "ready", "broken"}, n : Nat]
  BY ElementOfSeq DEF BufferTypeOK
<1>4. ASSUME NEW i \in 1..Len(futures), futures'[i].state = "waiting"
      PROVE  futures[i].state = "waiting" /\ \A k \in 1..Len(q) : q[k] # i
  <2>1. CASE \E k \in 1..Len(q) : q[k] = i
    <3>1. futures'[i] = [futures[i] EXCEPT !.state = "broken"]
      BY <1>2, <2>1
    <3>2. futures'[i].state = "broken"
      BY <1>3, <3>1
    <3>3. QED
      BY <1>4, <3>2
  <2>2. CASE ~\E k \in 1..Len(q) : q[k] = i
    BY <1>2, <1>4, <2>2
  <2>3. QED
    BY <2>1, <2>2
<1>5. Len(futures') = Len(futures)
  BY <1>1, <1>2
<1>6. QED
  BY <1>4, <1>5

\* enqueue() with a promise waiting: the oldest one gets the message.
LEMMA FulfilStep ==
    ASSUME TypeOK, StreamInv, NEW n \in Nat,
           promiseQueue # <<>>,
           futures' = [futures EXCEPT ![Head(promiseQueue)] = [state |-> "ready", n |-> n]],
           promiseQueue' = Tail(promiseQueue),
           accepted' = Append(accepted, n),
           UNCHANGED <<dataQueue, firstFuture>>
    PROVE  StreamInv'
<1> DEFINE h == firstFuture + Len(accepted) + 1
<1>1. /\ Len(accepted) \in Nat /\ Len(promiseQueue) \in Nat \ {0} /\ firstFuture \in Nat
      /\ Len(futures) \in Nat /\ DOMAIN futures = 1..Len(futures)
  BY EmptySeq DEF TypeOK, BufferTypeOK
<1>2. dataQueue = <<>> /\ Len(dataQueue) = 0
  BY DEF StreamInv
<1>3. Len(accepted) + Len(promiseQueue) = Len(futures) - firstFuture
  BY <1>1, <1>2 DEF StreamInv, Reads
<1>4. Head(promiseQueue) = h /\ h \in 1..Len(futures)
  <2>1. Head(promiseQueue) = promiseQueue[1]
    BY DEF TypeOK, BufferTypeOK
  <2>2. promiseQueue[1] = firstFuture + Len(accepted) + 1
    BY <1>1 DEF StreamInv
  <2>3. QED
    BY <1>1, <1>3, <2>1, <2>2
<1>5. /\ Len(accepted') = Len(accepted) + 1
      /\ \A i \in 1..Len(accepted) : accepted'[i] = accepted[i]
      /\ accepted'[Len(accepted) + 1] = n
  BY AppendProperties DEF TypeOK, BufferTypeOK
<1>6. /\ Len(promiseQueue') = Len(promiseQueue) - 1
      /\ \A k \in 1..Len(promiseQueue') : promiseQueue'[k] = promiseQueue[k + 1]
  BY HeadTailProperties DEF TypeOK, BufferTypeOK
<1>7. /\ Len(futures') = Len(futures)
      /\ futures'[h] = [state |-> "ready", n |-> n]
      /\ \A i \in 1..Len(futures) : i # h => futures'[i] = futures[i]
  BY <1>1, <1>4 DEF TypeOK, BufferTypeOK
<1>8. \A k \in 1..Len(promiseQueue') :
          promiseQueue'[k] = firstFuture' + Len(accepted') + k
  <2> SUFFICES ASSUME NEW k \in 1..Len(promiseQueue')
               PROVE  promiseQueue'[k] = firstFuture' + Len(accepted') + k
    OBVIOUS
  <2>1. k \in Nat /\ k + 1 \in 1..Len(promiseQueue)
    BY <1>1, <1>6
  <2>2. promiseQueue[k + 1] = firstFuture + Len(accepted) + (k + 1)
    BY <2>1 DEF StreamInv
  <2>3. QED
    BY <1>1, <1>5, <1>6, <2>1, <2>2
<1>9. ASSUME NEW i \in 1..Reads'
      PROVE  /\ futures'[firstFuture' + i].state = "ready" <=> i <= Len(accepted')
             /\ i <= Len(accepted') => futures'[firstFuture' + i].n = accepted'[i]
  <2>1. i \in 1..Reads /\ Reads = Len(futures) - firstFuture
    BY <1>7 DEF Reads
  <2>2. i \in Nat /\ i >= 1 /\ firstFuture + i \in 1..Len(futures)
    BY <1>1, <2>1
  <2>3. CASE i = Len(accepted) + 1
    <3>1. firstFuture + i = h
      BY <1>1, <2>3
    <3>2. QED
      BY <1>1, <1>5, <1>7, <2>3, <3>1
  <2>4. CASE i # Len(accepted) + 1
    <3>1. firstFuture + i # h
      BY <1>1, <2>2, <2>4
    <3>2. futures'[firstFuture' + i] = futures[firstFuture + i]
      BY <1>7, <2>2, <3>1
    <3>3. /\ futures[firstFuture + i].state = "ready" <=> i <= Len(accepted)
          /\ i <= Len(accepted) => futures[firstFuture + i].n = accepted[i]
      BY <2>1 DEF StreamInv
    <3>4. i <= Len(accepted') <=> i <= Len(accepted)
      BY <1>1, <1>5, <2>2, <2>4
    <3>5. i <= Len(accepted) => accepted'[i] = accepted[i]
      BY <1>1, <1>5, <2>2
    <3>6. QED
      BY <3>2, <3>3, <3>4, <3>5
  <2>5. QED
    BY <2>3, <2>4
<1>10. /\ firstFuture' <= Len(futures')
       /\ Len(accepted') + Len(promiseQueue') = Reads' + Len(dataQueue')
  <2>1. firstFuture <= Len(futures) /\ Reads' = Len(futures') - firstFuture'
    BY DEF StreamInv, Reads
  <2>2. firstFuture' = firstFuture /\ dataQueue' = dataQueue
    OBVIOUS
  <2>3. QED
    <3>1. /\ Len(futures') = Len(futures)
          /\ Len(promiseQueue') = Len(promiseQueue) - 1
          /\ Len(accepted') = Len(accepted) + 1
          /\ Len(dataQueue') = 0
      BY <1>2, <1>5, <1>6, <1>7, <2>2
    <3>2. QED
      BY ONLY <1>1, <1>3, <2>1, <2>2, <3>1
<1>11. dataQueue' = <<>> /\ \A k \in 1..Len(dataQueue') : FALSE
  BY <1>2
<1>12. QED
  BY <1>8, <1>9, <1>10, <1>11 DEF StreamInv

\* enqueue() without a promise: the message joins the queue.
LEMMA BufferMessageStep ==
    ASSUME TypeOK, StreamInv, NEW n \in Nat,
           promiseQueue = <<>>,
           dataQueue' = Append(dataQueue, n),
           accepted' = Append(accepted, n),
           UNCHANGED <<futures, promiseQueue, firstFuture>>
    PROVE  StreamInv'
<1>1. /\ Len(accepted) \in Nat /\ Len(dataQueue) \in Nat /\ firstFuture \in Nat
      /\ Len(futures) \in Nat /\ Len(promiseQueue) = 0
  BY DEF TypeOK, BufferTypeOK
<1>2. Len(accepted) = Reads + Len(dataQueue) /\ Reads \in Nat /\ Reads' = Reads
  BY <1>1 DEF StreamInv, Reads
<1>3. /\ Len(accepted') = Len(accepted) + 1
      /\ \A i \in 1..Len(accepted) : accepted'[i] = accepted[i]
      /\ accepted'[Len(accepted) + 1] = n
  BY AppendProperties DEF TypeOK, BufferTypeOK
<1>4. /\ Len(dataQueue') = Len(dataQueue) + 1
      /\ \A i \in 1..Len(dataQueue) : dataQueue'[i] = dataQueue[i]
      /\ dataQueue'[Len(dataQueue) + 1] = n
  BY AppendProperties DEF TypeOK, BufferTypeOK
<1>5. ASSUME NEW k \in 1..Len(dataQueue')
      PROVE  dataQueue'[k] = accepted'[Reads' + k]
  <2>1. CASE k = Len(dataQueue) + 1
    <3>1. Reads' + k = Len(accepted) + 1
      BY <1>1, <1>2, <2>1
    <3>2. QED
      BY <1>3, <1>4, <2>1, <3>1
  <2>2. CASE k # Len(dataQueue) + 1
    <3>1. k \in 1..Len(dataQueue) /\ Reads + k \in 1..Len(accepted)
      BY <1>1, <1>2, <1>4, <2>2
    <3>2. dataQueue[k] = accepted[Reads + k]
      BY <3>1 DEF StreamInv
    <3>3. QED
      BY <1>2, <1>3, <1>4, <3>1, <3>2
  <2>3. QED
    BY <2>1, <2>2
<1>6. ASSUME NEW i \in 1..Reads'
      PROVE  /\ futures'[firstFuture' + i].state = "ready" <=> i <= Len(accepted')
             /\ i <= Len(accepted') => futures'[firstFuture' + i].n = accepted'[i]
  <2>1. i \in 1..Reads /\ i \in 1..Len(accepted) /\ i <= Len(accepted')
    BY <1>1, <1>2, <1>3
  <2>2. /\ futures[firstFuture + i].state = "ready"
        /\ futures[firstFuture + i].n = accepted[i]
    BY <2>1 DEF StreamInv
  <2>3. QED
    BY <1>3, <2>1, <2>2
<1>7. /\ firstFuture' <= Len(futures')
      /\ Len(accepted') + Len(promiseQueue') = Reads' + Len(dataQueue')
  BY <1>1, <1>2, <1>3, <1>4 DEF StreamInv
<1>8. promiseQueue' = <<>> /\ \A k \in 1..Len(promiseQueue') : FALSE
  BY <1>1
<1>9. QED
  BY <1>5, <1>6, <1>7, <1>8 DEF StreamInv

\* readAsync() with a message in the queue.
LEMMA ReadBufferedStep ==
    ASSUME TypeOK, StreamInv, dataQueue # <<>>,
           futures' = Append(futures, [state |-> "ready", n |-> Head(dataQueue)]),
           dataQueue' = Tail(dataQueue),
           UNCHANGED <<promiseQueue, accepted, firstFuture>>
    PROVE  StreamInv'
<1> DEFINE f == [state |-> "ready", n |-> Head(dataQueue)]
<1>1. /\ Len(accepted) \in Nat /\ Len(dataQueue) \in Nat \ {0} /\ firstFuture \in Nat
      /\ Len(futures) \in Nat
  BY EmptySeq DEF TypeOK, BufferTypeOK
<1>2. promiseQueue = <<>> /\ Len(promiseQueue) = 0
  BY DEF StreamInv
<1>3. Len(accepted) = Reads + Len(dataQueue) /\ Reads \in Nat
  BY <1>1, <1>2 DEF StreamInv, Reads
<1>4. Head(dataQueue) = accepted[Reads + 1] /\ Head(dataQueue) \in Nat
  <2>1. Head(dataQueue) = dataQueue[1] /\ 1 \in 1..Len(dataQueue)
    BY <1>1 DEF TypeOK, BufferTypeOK
  <2>2. QED
    BY <2>1, HeadTailProperties DEF StreamInv, TypeOK, BufferTypeOK
<1>5. /\ Len(futures') = Len(futures) + 1
      /\ \A i \in 1..Len(futures) : futures'[i] = futures[i]
      /\ futures'[Len(futures) + 1] = f
  <2>1. f \in [state : {"waiting", "ready", "broken"}, n : Nat]
    BY <1>4
  <2>2. QED
    BY <2>1, AppendProperties DEF TypeOK, BufferTypeOK
<1>6. Reads' = Reads + 1
  BY <1>1, <1>5 DEF Reads
<1>7. /\ Len(dataQueue') = Len(dataQueue) - 1
      /\ \A k \in 1..Len(dataQueue') : dataQueue'[k] = dataQueue[k + 1]
  BY HeadTailProperties DEF TypeOK, BufferTypeOK
<1>8. ASSUME NEW k \in 1..Len(dataQueue')
      PROVE  dataQueue'[k] = accepted'[Reads' + k]
  <2>1. k + 1 \in 1..Len(dataQueue) /\ Reads + (k + 1) = Reads' + k
    BY <1>1, <1>3, <1>6, <1>7
  <2>2. dataQueue[k + 1] = accepted[Reads + (k + 1)]
    BY <2>1 DEF StreamInv
  <2>3. QED
    BY <1>7, <2>1, <2>2
<1>9. ASSUME NEW i \in 1..Reads'
      PROVE  /\ futures'[firstFuture' + i].state = "ready" <=> i <= Len(accepted')
             /\ i <= Len(accepted') => futures'[firstFuture' + i].n = accepted'[i]
  <2>1. i \in Nat /\ i <= Len(accepted')
    BY <1>1, <1>3, <1>6
  <2>2. CASE i = Reads + 1
    <3>1. firstFuture' + i = Len(futures) + 1
      BY <1>1, <2>2 DEF Reads
    <3>2. QED
      BY <1>4, <1>5, <2>1, <2>2, <3>1
  <2>3. CASE i # Reads + 1
    <3>1. i \in 1..Reads
      BY <1>3, <1>6, <2>3
    <3>2. firstFuture + i \in 1..Len(futures)
      BY <1>1, <3>1 DEF Reads
    <3>3. /\ futures[firstFuture + i].state = "ready" <=> i <= Len(accepted)
          /\ i <= Len(accepted) => futures[firstFuture + i].n = accepted[i]
      BY <3>1 DEF StreamInv
    <3>4. QED
      BY <1>5, <3>2, <3>3
  <2>4. QED
    BY <2>2, <2>3
<1>10. /\ firstFuture' <= Len(futures')
       /\ Len(accepted') + Len(promiseQueue') = Reads' + Len(dataQueue')
  <2>1. firstFuture <= Len(futures)
    BY DEF StreamInv
  <2>2. /\ accepted' = accepted /\ firstFuture' = firstFuture
        /\ promiseQueue' = promiseQueue
    OBVIOUS
  <2>3. QED
    BY ONLY <1>1, <1>2, <1>3, <1>5, <1>6, <1>7, <2>1, <2>2
<1>11. promiseQueue' = <<>> /\ \A k \in 1..Len(promiseQueue') : FALSE
  BY <1>2
<1>12. QED
  BY <1>8, <1>9, <1>10, <1>11 DEF StreamInv

\* readAsync() with none: a promise.
LEMMA ReadPromiseStep ==
    ASSUME TypeOK, StreamInv, dataQueue = <<>>,
           futures' = Append(futures, [state |-> "waiting", n |-> 0]),
           promiseQueue' = Append(promiseQueue, Len(futures) + 1),
           UNCHANGED <<dataQueue, accepted, firstFuture>>
    PROVE  StreamInv'
<1>1. /\ Len(accepted) \in Nat /\ Len(dataQueue) = 0 /\ firstFuture \in Nat
      /\ Len(futures) \in Nat /\ Len(promiseQueue) \in Nat
  BY DEF TypeOK, BufferTypeOK
<1>2. Len(accepted) + Len(promiseQueue) = Reads /\ Reads \in Nat
  BY <1>1 DEF StreamInv, Reads
<1>3. /\ Len(futures') = Len(futures) + 1
      /\ \A i \in 1..Len(futures) : futures'[i] = futures[i]
      /\ futures'[Len(futures) + 1] = [state |-> "waiting", n |-> 0]
  <2>1. [state |-> "waiting", n |-> 0] \in [state : {"waiting", "ready", "broken"}, n : Nat]
    OBVIOUS
  <2>2. QED
    BY <2>1, AppendProperties DEF TypeOK, BufferTypeOK
<1>4. Reads' = Reads + 1
  BY <1>1, <1>3 DEF Reads
<1>5. /\ Len(promiseQueue') = Len(promiseQueue) + 1
      /\ \A k \in 1..Len(promiseQueue) : promiseQueue'[k] = promiseQueue[k]
      /\ promiseQueue'[Len(promiseQueue) + 1] = Len(futures) + 1
  BY <1>1, AppendProperties DEF TypeOK, BufferTypeOK
<1>6. ASSUME NEW k \in 1..Len(promiseQueue')
      PROVE  promiseQueue'[k] = firstFuture' + Len(accepted') + k
  <2>1. CASE k = Len(promiseQueue) + 1
    <3>1. Len(futures) + 1 = firstFuture + Len(accepted) + k
      <4>1. Reads = Len(futures) - firstFuture
        BY DEF Reads
      <4>2. QED
        BY ONLY <1>1, <1>2, <2>1, <4>1
    <3>2. QED
      BY <1>5, <2>1, <3>1
  <2>2. CASE k # Len(promiseQueue) + 1
    <3>1. k \in 1..Len(promiseQueue)
      BY <1>1, <1>5, <2>2
    <3>2. QED
      BY <1>5, <3>1 DEF StreamInv
  <2>3. QED
    BY <2>1, <2>2
<1>7. ASSUME NEW i \in 1..Reads'
      PROVE  /\ futures'[firstFuture' + i].state = "ready" <=> i <= Len(accepted')
             /\ i <= Len(accepted') => futures'[firstFuture' + i].n = accepted'[i]
  <2>1. CASE i = Reads + 1
    <3>1. firstFuture' + i = Len(futures) + 1 /\ ~(i <= Len(accepted'))
      BY <1>1, <1>2, <2>1 DEF Reads
    <3>2. futures'[firstFuture' + i].state = "waiting"
      BY <1>3, <3>1
    <3>3. QED
      BY <3>1, <3>2
  <2>2. CASE i # Reads + 1
    <3>1. i \in 1..Reads
      BY <1>2, <1>4, <2>2
    <3>2. firstFuture + i \in 1..Len(futures)
      BY <1>1, <3>1 DEF Reads
    <3>3. /\ futures[firstFuture + i].state = "ready" <=> i <= Len(accepted)
          /\ i <= Len(accepted) => futures[firstFuture + i].n = accepted[i]
      BY <3>1 DEF StreamInv
    <3>4. QED
      BY <1>3, <3>2, <3>3
  <2>3. QED
    BY <2>1, <2>2
<1>8. /\ firstFuture' <= Len(futures')
      /\ Len(accepted') + Len(promiseQueue') = Reads' + Len(dataQueue')
  <2>1. firstFuture <= Len(futures)
    BY DEF StreamInv
  <2>2. /\ accepted' = accepted /\ firstFuture' = firstFuture
        /\ dataQueue' = dataQueue
    OBVIOUS
  <2>3. QED
    <3>1. /\ Len(futures') = Len(futures) + 1
          /\ Len(promiseQueue') = Len(promiseQueue) + 1
      BY <1>3, <1>5
    <3>2. Len(accepted') = Len(accepted) /\ Len(dataQueue') = 0
      BY <1>1, <2>2
    <3>3. QED
      BY ONLY <1>1, <1>2, <1>4, <2>1, <2>2, <3>1, <3>2
<1>9. dataQueue' = <<>> /\ \A k \in 1..Len(dataQueue') : FALSE
  BY <1>1
<1>10. QED
  BY <1>6, <1>7, <1>8, <1>9 DEF StreamInv

\* A new PollingBuffer, or none: the stream begins anew behind the futures given so far.
LEMMA ResetStep ==
    ASSUME TypeOK, dataQueue' = <<>>, promiseQueue' = <<>>, accepted' = <<>>,
           firstFuture' = Len(futures), futures' = Broken(promiseQueue)
    PROVE  StreamInv'
<1>1. Len(futures') = Len(futures) /\ Len(futures) \in Nat
  BY BrokenFutures DEF TypeOK, BufferTypeOK
<1>2. Reads' = 0 /\ Len(accepted') = 0 /\ Len(promiseQueue') = 0 /\ Len(dataQueue') = 0
  BY <1>1 DEF Reads
<1>3. firstFuture' <= Len(futures')
  BY <1>1
<1>4. /\ \A i \in 1..Reads' : FALSE
      /\ \A k \in 1..Len(promiseQueue') : FALSE /\ \A j \in 1..Len(dataQueue') : FALSE
  BY <1>2
<1>5. QED
  BY <1>2, <1>3, <1>4 DEF StreamInv

LEMMA StreamStep ==
    ASSUME TypeOK, StreamInv, [Next]_vars
    PROVE  StreamInv'
<1>1. CASE UNCHANGED <<bufferVars, futures>>
  BY <1>1 DEF StreamInv, Reads, bufferVars
<1>2. CASE ConnectPolling \/ DisconnectReturns
  BY <1>2, ResetStep DEF ConnectPolling, DisconnectReturns
<1>3. ASSUME NEW t \in Threads, Enqueue(t) PROVE StreamInv'
  <2>1. hand[t].n \in Nat
    BY DEF TypeOK, BackendTypeOK
  <2>2. CASE promiseQueue # <<>>
    BY <1>3, <2>1, <2>2, FulfilStep DEF Enqueue
  <2>3. CASE promiseQueue = <<>>
    BY <1>3, <2>1, <2>3, BufferMessageStep DEF Enqueue
  <2>4. QED
    BY <2>2, <2>3
<1>4. CASE ReadAsync
  <2>1. CASE dataQueue # <<>>
    BY <1>4, <2>1, ReadBufferedStep DEF ReadAsync
  <2>2. CASE dataQueue = <<>>
    BY <1>4, <2>2, ReadPromiseStep DEF ReadAsync
  <2>3. QED
    BY <2>1, <2>2
<1>5. QED
  BY <1>1, <1>2, <1>3, <1>4, BufferSteps

-----------------------------------------------------------------------------
(* Reads that wait *)

\* A read is waiting only for a message that has not been accepted.
WaitInv ==
    \A i \in 1..Len(futures) :
        futures[i].state = "waiting" => i > firstFuture + Len(accepted)

\* Who reads his own port is not between the halves of readAsync() when he disconnects,
\* and no promise is left once he has.
OwnReaderInv ==
    ~ConcurrentReads =>
        /\ reader = "checked" => mode = "polling" /\ owner = "idle"
        /\ promiseQueue # <<>> => mode = "polling" \/ owner = "waiting"

\* So every read that waits has its promise in the queue.
LEMMA WaitingIsPromised ==
    ASSUME TypeOK, StreamInv, WaitInv, NEW i \in 1..Len(futures),
           futures[i].state = "waiting"
    PROVE  \E k \in 1..Len(promiseQueue) : promiseQueue[k] = i
<1>1. /\ Len(accepted) \in Nat /\ Len(dataQueue) \in Nat /\ firstFuture \in Nat
      /\ Len(futures) \in Nat /\ Len(promiseQueue) \in Nat
  BY DEF TypeOK, BufferTypeOK
<1>2. i \in Nat /\ i > firstFuture + Len(accepted) /\ i <= Len(futures)
  BY <1>1 DEF WaitInv
<1>3. Len(accepted) + Len(promiseQueue) = (Len(futures) - firstFuture) + Len(dataQueue)
  BY DEF StreamInv, Reads
<1>4. promiseQueue # <<>>
  BY <1>1, <1>2, <1>3
<1>5. Len(dataQueue) = 0
  BY <1>4 DEF StreamInv
<1> DEFINE k == i - (firstFuture + Len(accepted))
<1>6. k \in 1..Len(promiseQueue) /\ firstFuture + Len(accepted) + k = i
  BY <1>1, <1>2, <1>3, <1>5
<1>7. promiseQueue[k] = firstFuture + Len(accepted) + k
  BY <1>6 DEF StreamInv
<1>8. QED
  BY <1>6, <1>7

LEMMA WaitStep ==
    ASSUME TypeOK, StreamInv, WaitInv, [Next]_vars
    PROVE  WaitInv'
<1>1. /\ Len(accepted) \in Nat /\ Len(dataQueue) \in Nat /\ firstFuture \in Nat
      /\ Len(futures) \in Nat /\ Len(promiseQueue) \in Nat
  BY DEF TypeOK, BufferTypeOK
<1>2. CASE UNCHANGED <<bufferVars, futures>>
  BY <1>2 DEF WaitInv, bufferVars
<1>3. CASE ConnectPolling \/ DisconnectReturns
  <2>1. futures' = Broken(promiseQueue)
    BY <1>3 DEF ConnectPolling, DisconnectReturns
  <2>2. Len(futures') = Len(futures)
    BY <2>1, BrokenFutures DEF TypeOK
  <2>3. ASSUME NEW i \in 1..Len(futures), futures'[i].state = "waiting" PROVE FALSE
    <3>1. futures[i].state = "waiting" /\ \A k \in 1..Len(promiseQueue) : promiseQueue[k] # i
      BY <2>1, <2>3, BrokenFutures DEF TypeOK
    <3>2. QED
      BY <3>1, WaitingIsPromised
  <2>4. QED
    BY <2>2, <2>3 DEF WaitInv
<1>4. ASSUME NEW t \in Threads, Enqueue(t) PROVE WaitInv'
  <2>1. Len(accepted') = Len(accepted) + 1 /\ firstFuture' = firstFuture
    <3>1. hand[t].n \in Nat
      BY DEF TypeOK, BackendTypeOK
    <3>2. QED
      BY <1>4, <3>1, AppendProperties DEF Enqueue, TypeOK, BufferTypeOK
  <2>2. CASE promiseQueue # <<>>
    <3> DEFINE h == firstFuture + Len(accepted) + 1
    <3>1. Head(promiseQueue) = h
      <4>1. Head(promiseQueue) = promiseQueue[1] /\ 1 \in 1..Len(promiseQueue)
        BY <1>1, <2>2, EmptySeq DEF TypeOK, BufferTypeOK
      <4>2. QED
        BY <4>1 DEF StreamInv
    <3>2. futures' = [futures EXCEPT ![h] = [state |-> "ready", n |-> hand[t].n]]
      BY <1>4, <2>2, <3>1 DEF Enqueue
    <3>3. /\ DOMAIN futures = 1..Len(futures)
          /\ Len(futures') = Len(futures)
          /\ \A i \in 1..Len(futures) : i # h => futures'[i] = futures[i]
          /\ h \in 1..Len(futures) => futures'[h].state = "ready"
      BY <3>2 DEF TypeOK, BufferTypeOK
    <3>4. ASSUME NEW i \in 1..Len(futures), futures'[i].state = "waiting"
          PROVE  i > firstFuture' + Len(accepted')
      <4>1. i # h
        BY <3>3, <3>4
      <4>2. i > firstFuture + Len(accepted)
        BY <3>3, <3>4, <4>1 DEF WaitInv
      <4>3. QED
        BY <1>1, <2>1, <4>1, <4>2
    <3>5. QED
      BY <3>3, <3>4 DEF WaitInv
  <2>3. CASE promiseQueue = <<>>
    <3>1. futures' = futures
      BY <1>4, <2>3 DEF Enqueue
    <3>2. Len(promiseQueue) = 0
      BY <2>3
    <3>3. ASSUME NEW i \in 1..Len(futures), futures[i].state = "waiting" PROVE FALSE
      BY <3>2, <3>3, WaitingIsPromised
    <3>4. QED
      BY <3>1, <3>3 DEF WaitInv
  <2>4. QED
    BY <2>2, <2>3
<1>5. CASE ReadAsync
  <2>1. /\ UNCHANGED <<accepted, firstFuture>>
        /\ \/ dataQueue # <<>> /\ futures' =
                  Append(futures, [state |-> "ready", n |-> Head(dataQueue)])
           \/ dataQueue = <<>> /\ futures' = Append(futures, [state |-> "waiting", n |-> 0])
    BY <1>5 DEF ReadAsync
  <2>2. PICK f : /\ futures' = Append(futures, f)
                 /\ f \in [state : {"waiting", "ready", "broken"}, n : Nat]
                 /\ f.state = "waiting" => dataQueue = <<>>
    <3>1. dataQueue # <<>> => Head(dataQueue) \in Nat
      BY HeadTailProperties DEF TypeOK, BufferTypeOK
    <3>2. CASE dataQueue # <<>>
      BY <2>1, <3>1, <3>2
    <3>3. CASE dataQueue = <<>>
      BY <2>1, <3>3
    <3>4. QED
      BY <3>2, <3>3
  <2>3. /\ Len(futures') = Len(futures) + 1
        /\ \A i \in 1..Len(futures) : futures'[i] = futures[i]
        /\ futures'[Len(futures) + 1] = f
    BY <2>2, AppendProperties DEF TypeOK, BufferTypeOK
  <2>4. ASSUME NEW i \in 1..Len(futures'), futures'[i].state = "waiting"
        PROVE  i > firstFuture' + Len(accepted')
    <3>1. CASE i = Len(futures) + 1
      <4>1. Len(dataQueue) = 0
        BY <2>2, <2>3, <2>4, <3>1
      <4>2. Len(accepted) + Len(promiseQueue) = Len(futures) - firstFuture
        BY <1>1, <4>1 DEF StreamInv, Reads
      <4>3. QED
        BY <1>1, <2>1, <3>1, <4>2
    <3>2. CASE i # Len(futures) + 1
      <4>1. i \in 1..Len(futures)
        BY <1>1, <2>3, <3>2
      <4>2. QED
        BY <2>1, <2>3, <2>4, <4>1 DEF WaitInv
    <3>3. QED
      BY <3>1, <3>2
  <2>5. QED
    BY <2>4 DEF WaitInv
<1>6. QED
  BY <1>2, <1>3, <1>4, <1>5, BufferSteps

LEMMA OwnReaderStep ==
    ASSUME IndInv, OwnReaderInv, [Next]_vars
    PROVE  OwnReaderInv'
<1>1. ConcurrentReads' = ConcurrentReads
  BY DEF Next, vars, ConcurrentReads
<1> SUFFICES ASSUME ~ConcurrentReads
             PROVE  /\ reader' = "checked" => mode' = "polling" /\ owner' = "idle"
                    /\ promiseQueue' # <<>> => mode' = "polling" \/ owner' = "waiting"
  BY <1>1 DEF OwnReaderInv
<1>2. /\ reader = "checked" => mode = "polling" /\ owner = "idle"
      /\ promiseQueue # <<>> => mode = "polling" \/ owner = "waiting"
  BY DEF OwnReaderInv
<1>3. CASE Owner
  <2>1. CASE ConnectCallback \/ ConnectPolling \/ Connected \/ ConnectThrows
    <3>1. reader = "idle" /\ reader' = reader /\ mode = "disconnected" /\ owner # "waiting"
      BY <2>1 DEF ConnectCallback, ConnectPolling, Connected, ConnectThrows, OwnerAt,
         IndInv, CallbackIsCurrent
    <3>2. promiseQueue' = <<>>
      BY <1>2, <2>1, <3>1 DEF ConnectCallback, ConnectPolling, Connected, ConnectThrows,
         bufferVars
    <3>3. QED
      BY <3>1, <3>2
  <2>2. CASE Disconnect
    BY <2>2 DEF Disconnect, OwnerAt
  <2>3. CASE DisconnectReturns
    BY <1>2, <2>3 DEF DisconnectReturns
  <2>4. QED
    BY <1>3, <2>1, <2>2, <2>3 DEF Owner
<1>4. ASSUME NEW t \in Threads, Backend(t)
      PROVE  /\ UNCHANGED <<reader, mode, owner>>
             /\ promiseQueue' # <<>> => promiseQueue # <<>>
  <2>1. CASE Enqueue(t)
    BY <2>1 DEF Enqueue, ownerVars
  <2>2. CASE ~Enqueue(t)
    BY <1>4, <2>2 DEF Backend, CallbackEnds, Arrive, DropDisconnected, Capture,
       CaptureThrows, CallbackReturns, CallbackThrows, EnqueueRefused, bufferVars,
       ownerVars, portVars
  <2>3. QED
    BY <2>1, <2>2
<1>5. CASE ReadCheck
  BY <1>2, <1>5 DEF ReadCheck, portVars, ownerVars, bufferVars
<1>6. CASE ReadAsync
  BY <1>2, <1>6 DEF ReadAsync, portVars, ownerVars
<1>7. CASE UNCHANGED vars
  BY <1>2, <1>7 DEF vars
<1>8. QED
  BY <1>2, <1>3, <1>4, <1>5, <1>6, <1>7 DEF Next

-----------------------------------------------------------------------------
LEMMA Invariance == Spec => []IndInv
<1>1. Init => IndInv
  BY InitInv
<1>2. IndInv /\ [Next]_vars => IndInv'
  BY IndStep
<1>3. QED
  BY <1>1, <1>2, PTL DEF Spec

\* Every variable of the port keeps its type; in particular finish() never
\* takes activeCallbacks below zero (the assertion "Callback count underflow").
THEOREM TypeCorrect == Spec => []TypeOK
<1>1. IndInv => TypeOK
  BY DEF IndInv
<1>2. QED
  BY <1>1, Invariance, PTL

\* disconnect() returns only after every callback of its connection has, so no
\* callback ever runs against the state of another connection or of none, for
\* any number of delivering threads and even where a slot has leaked.
THEOREM NoCallbackOutlivesItsConnectionCorrect ==
    Spec => []NoCallbackOutlivesItsConnection
<1>1. IndInv => NoCallbackOutlivesItsConnection
  BY DEF IndInv
<1>2. QED
  BY <1>1, Invariance, PTL

\* The count disconnect() waits for is released on every way out of a callback: it is
\* the number of threads inside one, and on a zero-width port at least that.
THEOREM SlotsAreReleasedCorrect == Spec => []SlotsAreReleased
<1>1. Init => NoSlotLeaks
  <2>1. ASSUME Init PROVE Inside = {}
    BY <2>1 DEF Init, Inside, Outside
  <2>2. QED
    BY <2>1, FS_EmptySet DEF Init, NoSlotLeaks
<1>2. IndInv /\ NoSlotLeaks /\ [Next]_vars => NoSlotLeaks'
  BY NoSlotLeaksStep
<1>3. IndInv /\ NoSlotLeaks => SlotsAreReleased
  BY DEF IndInv, SlotsCover, NoSlotLeaks, SlotsAreReleased
<1>4. QED
  BY <1>1, <1>2, <1>3, Invariance, PTL DEF Spec

\* What reads return is what the callback accepted, message by message, in both orders in
\* which read and message can come.
THEOREM ReadsAreTheStreamCorrect == Spec => []ReadsAreTheStream
<1>1. Init => StreamInv
  <2> SUFFICES ASSUME Init PROVE StreamInv
    OBVIOUS
  <2>1. /\ Len(dataQueue) = 0 /\ Len(promiseQueue) = 0 /\ Len(futures) = 0
        /\ Len(accepted) = 0 /\ firstFuture = 0 /\ Reads = 0 /\ dataQueue = <<>>
    BY DEF Init, Reads
  <2>2. QED
    BY <2>1 DEF StreamInv
<1>2. TypeOK /\ StreamInv /\ [Next]_vars => StreamInv'
  BY StreamStep
<1>3. TypeOK /\ StreamInv => ReadsAreTheStream
  <2> SUFFICES ASSUME TypeOK, StreamInv PROVE ReadsAreTheStream
    OBVIOUS
  <2>1. /\ Len(accepted) \in Nat /\ Len(dataQueue) \in Nat /\ firstFuture \in Nat
        /\ Len(futures) \in Nat /\ Len(promiseQueue) \in Nat
    BY DEF TypeOK, BufferTypeOK
  <2>2. Len(accepted) + Len(promiseQueue) = Reads + Len(dataQueue) /\ Reads \in Nat
    BY <2>1 DEF StreamInv, Reads
  <2>3. dataQueue = SubSeq(accepted, Reads + 1, Len(accepted))
    <3>1. CASE dataQueue = <<>>
      <4>1. Len(accepted) < Reads + 1
        BY <2>1, <2>2, <3>1
      <4>2. QED
        BY <2>1, <2>2, <3>1, <4>1, SubSeqEmpty
    <3>2. CASE promiseQueue = <<>> /\ dataQueue # <<>>
      <4>1. Len(accepted) = Reads + Len(dataQueue)
        BY <2>1, <2>2, <3>2
      <4>2. \A i \in (Reads + 1)..Len(accepted) : accepted[i] \in Nat
        BY <2>1, <2>2, ElementOfSeq DEF TypeOK, BufferTypeOK
      <4> DEFINE rest == SubSeq(accepted, Reads + 1, Len(accepted))
      <4>3. /\ rest \in Seq(Nat)
            /\ Len(rest) = IF Reads + 1 <= Len(accepted)
                           THEN Len(accepted) - (Reads + 1) + 1 ELSE 0
            /\ \A i \in 1..(Len(accepted) - (Reads + 1) + 1) :
                   rest[i] = accepted[(Reads + 1) + i - 1]
        BY <2>1, <2>2, <4>2, SubSeqProperties
      <4> HIDE DEF rest
      <4>4. Len(rest) = Len(dataQueue)
        BY <2>1, <2>2, <4>1, <4>3
      <4>5. ASSUME NEW i \in 1..Len(dataQueue) PROVE dataQueue[i] = rest[i]
        <5>1. dataQueue[i] = accepted[Reads + i]
          BY DEF StreamInv
        <5>2. i \in 1..(Len(accepted) - (Reads + 1) + 1) /\ (Reads + 1) + i - 1 = Reads + i
          BY <2>1, <2>2, <4>1
        <5>3. rest[i] = accepted[(Reads + 1) + i - 1]
          BY <4>3, <5>2
        <5>4. QED
          BY <5>1, <5>2, <5>3
      <4>6. dataQueue = rest
        BY <4>3, <4>4, <4>5, SeqEqual DEF TypeOK, BufferTypeOK
      <4>7. QED
        BY <4>6 DEF rest
    <3>3. QED
      BY <3>1, <3>2 DEF StreamInv
  <2>4. QED
    BY <2>3 DEF ReadsAreTheStream, StreamInv, Reads
<1>4. QED
  BY <1>1, <1>2, <1>3, TypeCorrect, PTL DEF Spec

\* disconnect() leaves no read blocked, if the owner of the port is its reader.
THEOREM NoOrphanedReadCorrect == Spec => []NoOrphanedRead
<1> DEFINE Waits == StreamInv /\ WaitInv /\ OwnReaderInv
<1>1. Init => Waits
  <2> SUFFICES ASSUME Init PROVE Waits
    OBVIOUS
  <2>1. /\ Len(dataQueue) = 0 /\ Len(promiseQueue) = 0 /\ Len(futures) = 0
        /\ Len(accepted) = 0 /\ firstFuture = 0 /\ Reads = 0 /\ dataQueue = <<>>
        /\ reader = "idle" /\ promiseQueue = <<>>
    BY DEF Init, Reads
  <2>2. QED
    BY <2>1 DEF StreamInv, WaitInv, OwnReaderInv
<1>2. IndInv /\ Waits /\ [Next]_vars => Waits'
  BY StreamStep, WaitStep, OwnReaderStep DEF IndInv
<1>3. IndInv /\ Waits => NoOrphanedRead
  <2> SUFFICES ASSUME IndInv, Waits, ~ConcurrentReads, NEW i \in 1..Len(futures),
                      futures[i].state = "waiting"
               PROVE  mode = "polling" \/ owner = "waiting"
    BY DEF NoOrphanedRead
  <2>1. PICK k \in 1..Len(promiseQueue) : promiseQueue[k] = i
    BY WaitingIsPromised DEF IndInv
  <2>2. promiseQueue # <<>>
    BY <2>1
  <2>3. QED
    BY <2>2 DEF OwnReaderInv
<1> HIDE DEF Waits
<1>4. QED
  BY <1>1, <1>2, <1>3, Invariance, PTL DEF Spec

=============================================================================
