-------------------------- MODULE FunctionCall_proof --------------------------
(***************************************************************************)
(* Proofs about FunctionCall, for any number of callers, calls and resets    *)
(* and any capacity of the function.                                         *)
(*                                                                          *)
(* The calls between the callers and the results they wait for are one run   *)
(* of consecutive numbers, cut into the places a call passes through.  The   *)
(* invariant gives each place its stretch of the run, counted from the       *)
(* number n of results that have reached the result port.                   *)
(***************************************************************************)
EXTENDS FunctionCall, SequenceTheorems, TLAPS

-----------------------------------------------------------------------------
(* Runs of consecutive numbers *)

Bit(b) == IF b THEN 1 ELSE 0

\* s holds n + 1, n + 2 and so on.
Run(s, n) == \A i \in 1..Len(s) : s[i] = n + i

LEMMA RunTail ==
    ASSUME NEW s \in Seq(Nat), s # <<>>, NEW n \in Int, Run(s, n)
    PROVE  /\ Tail(s) \in Seq(Nat) /\ Head(s) \in Nat
           /\ Len(s) \in Nat /\ Len(s) >= 1 /\ Len(Tail(s)) = Len(s) - 1
           /\ Head(s) = n + 1 /\ Run(Tail(s), n + 1)
<1>1. /\ Len(Tail(s)) = Len(s) - 1 /\ Len(s) \in Nat /\ Len(s) >= 1
      /\ \A i \in 1..Len(Tail(s)) : Tail(s)[i] = s[i + 1]
      /\ Tail(s) \in Seq(Nat) /\ Head(s) \in Nat /\ Head(s) = s[1]
  BY HeadTailProperties, EmptySeq
<1>2. ASSUME NEW i \in 1..Len(Tail(s)) PROVE Tail(s)[i] = n + 1 + i
  <2>1. i + 1 \in 1..Len(s)
    BY <1>1
  <2>2. Tail(s)[i] = n + (i + 1)
    BY <1>1, <2>1 DEF Run
  <2>3. QED
    BY <2>2
<1>3. Head(s) = n + 1
  BY <1>1 DEF Run
<1>4. QED
  BY <1>1, <1>2, <1>3 DEF Run

LEMMA RunAppend ==
    ASSUME NEW s \in Seq(Nat), NEW n \in Int, NEW x \in Nat, Run(s, n), x = n + Len(s) + 1
    PROVE  /\ Append(s, x) \in Seq(Nat) /\ Append(s, x) # <<>>
           /\ Len(s) \in Nat /\ Len(Append(s, x)) = Len(s) + 1
           /\ Run(Append(s, x), n)
<1>1. /\ Len(Append(s, x)) = Len(s) + 1 /\ Len(s) \in Nat
      /\ Append(s, x) \in Seq(Nat) /\ Append(s, x) # <<>>
      /\ \A i \in 1..Len(s) : Append(s, x)[i] = s[i]
      /\ Append(s, x)[Len(s) + 1] = x
  BY AppendProperties
<1>2. ASSUME NEW i \in 1..(Len(s) + 1) PROVE Append(s, x)[i] = n + i
  <2>1. CASE i = Len(s) + 1
    BY <1>1, <2>1
  <2>2. CASE i # Len(s) + 1
    <3>1. i \in 1..Len(s)
      BY <1>1, <2>2
    <3>2. QED
      BY <1>1, <3>1 DEF Run
  <2>3. QED
    BY <2>1, <2>2
<1>3. QED
  BY <1>1, <1>2 DEF Run

LEMMA RunEmpty ==
    ASSUME NEW n \in Int
    PROVE  <<>> \in Seq(Nat) /\ Len(<<>>) = 0 /\ Run(<<>>, n)
BY DEF Run

-----------------------------------------------------------------------------
(* The invariant *)
Phases == {"idle", "write", "read", "waiting", "answered"}

Types ==
    /\ caller \in [Callers -> [pc : Phases, call : Nat, result : Nat]]
    /\ callMutex \in Callers \cup {Free}
    /\ promises \in Seq(Callers) /\ dataQueue \in Seq(Nat)
    /\ written \in Nat
    /\ toServer \in Seq(Nat) /\ epQueue \in Seq(Nat) /\ epFuture \in Nat
    /\ aValid \in BOOLEAN /\ a \in Nat
    /\ {stage.xValid, stage.lValid, stage.xReadyReg} \subseteq BOOLEAN
    /\ stage.x \in Nat /\ stage.l \in Nat
    /\ function \in Seq(Nat) /\ toClient \in Seq(Nat)
    /\ lost \in BOOLEAN

\* The lookaside register of the pipeline stage, as in EsiChannel.
StageInv == stage.lValid => stage.xValid /\ ~stage.xReadyReg

\* Between its write and its read a caller holds the mutex, so the call it reads the
\* result of is the last one written.
LockInv ==
    \A c \in Callers :
        /\ caller[c].pc \in {"write", "read"} => callMutex = c
        /\ caller[c].pc = "read" => caller[c].call = written

\* The number of the last call that has come as far as a place, or further: the function
\* has answered, taken; the stage has got, the endpoint has fetched, the future holds,
\* the server has received.
Done(n)     == n + Len(toClient)
Taken(n)    == Done(n) + Len(function)
Handed(n)   == Taken(n) + Bit(stage.xValid) + Bit(stage.lValid)
Fetched(n)  == Handed(n) + Bit(aValid)
Promised(n) == Fetched(n) + Bit(epFuture # Waiting)
Received(n) == Promised(n) + Len(epQueue)

\* The stretches of the design, ...
DesignRun(n) ==
    /\ Run(toClient, n) /\ Run(function, Done(n))
    /\ stage.xValid => stage.x = Taken(n) + 1
    /\ stage.lValid => stage.l = Taken(n) + 2

\* ... of the endpoint, the server and the socket, up to the last call written, ...
ServerRun(n) ==
    /\ aValid => a = Handed(n) + 1
    /\ epFuture # Waiting => epFuture = Fetched(n) + 1
    /\ epFuture = Waiting => epQueue = <<>>
    /\ Run(epQueue, Promised(n)) /\ Run(toServer, Received(n))
    /\ written = Received(n) + Len(toServer)

Reading == \E c \in Callers : caller[c].pc = "read"

\* ... and of the result port: n results have come, and as many reads as there were
\* calls, but for the one between its write and its read.
PortRun(n) ==
    /\ Run(dataQueue, n - Len(dataQueue))
    /\ dataQueue = <<>> \/ promises = <<>>
    /\ written = n - Len(dataQueue) + Len(promises) + Bit(Reading)
    /\ \A i \in 1..Len(promises) : /\ caller[promises[i]].pc = "waiting"
                                   /\ caller[promises[i]].call = n + i

CallRun(n) == DesignRun(n) /\ ServerRun(n) /\ PortRun(n)

CallInv ==
    /\ Types /\ StageInv /\ LockInv /\ OwnAnswer
    /\ ~lost => \E n \in Nat : CallRun(n)

-----------------------------------------------------------------------------
(* Types and the mutex *)

\* The types survive a clock edge, in reset or out of it.
LEMMA StageStep ==
    ASSUME Types, StageInv, NEW rst \in BOOLEAN, NEW xReady \in BOOLEAN,
           Pipe!Clock(rst, aValid, a, xReady)
    PROVE  /\ {stage'.xValid, stage'.lValid, stage'.xReadyReg} \subseteq BOOLEAN
           /\ stage'.x \in Nat /\ stage'.l \in Nat
           /\ StageInv'
           /\ rst => ~stage'.xValid /\ ~stage'.lValid
<1> DEFINE rcv  == Pipe!ARcv(aValid)
           xmit == Pipe!Xmit(xReady)
<1>1. /\ stage'.xValid = (~rst /\ (IF xmit THEN stage.lValid \/ rcv ELSE stage.xValid \/ rcv))
      /\ stage'.lValid = (~rst /\ (IF xmit THEN stage.lValid /\ rcv
                                           ELSE stage.lValid \/ (rcv /\ stage.xValid)))
      /\ stage'.xReadyReg = (~rst /\ xReady)
      /\ stage'.x \in {stage.x, stage.l, a} /\ stage'.l \in {stage.l, a}
  BY DEF Pipe!Clock, Pipe!Clocked
<1>2. /\ {stage.xValid, stage.lValid, stage.xReadyReg} \subseteq BOOLEAN /\ aValid \in BOOLEAN
      /\ stage.x \in Nat /\ stage.l \in Nat /\ a \in Nat
  BY DEF Types
<1>3. rcv = ((~stage.lValid \/ stage.xReadyReg) /\ aValid) /\ xmit = (stage.xValid /\ xReady)
  BY DEF Pipe!ARcv, Pipe!AReady, Pipe!Xmit
<1>4. stage.lValid => stage.xValid /\ ~stage.xReadyReg
  BY DEF StageInv
<1> HIDE DEF rcv, xmit
<1>5. {stage'.xValid, stage'.lValid, stage'.xReadyReg} \subseteq BOOLEAN
  BY <1>1, <1>2, <1>3
<1>6. StageInv'
  BY <1>1, <1>2, <1>3, <1>4 DEF StageInv
<1>7. QED
  BY <1>1, <1>2, <1>5, <1>6

LEMMA SeqTypes ==
    ASSUME NEW S, NEW s \in Seq(S)
    PROVE  /\ \A x \in S : Append(s, x) \in Seq(S)
           /\ s # <<>> => Tail(s) \in Seq(S) /\ Head(s) \in S
BY AppendProperties, HeadTailProperties

LEMMA TypesStep ==
    ASSUME Types, StageInv, Next
    PROVE  Types' /\ StageInv'
<1> USE DEF Types
<1>1. ASSUME NEW c \in Callers, Lock(c) \/ Return(c) PROVE Types' /\ StageInv'
  <2>1. callMutex' \in Callers \cup {Free}
    BY <1>1 DEF Lock, Return
  <2>2. caller' \in [Callers -> [pc : Phases, call : Nat, result : Nat]]
    <3>1. CASE Lock(c)
      BY <3>1 DEF Lock, Phases
    <3>2. CASE Return(c)
      BY <3>2 DEF Return, Phases
    <3>3. QED
      BY <1>1, <3>1, <3>2
  <2>3. QED
    BY <1>1, <2>1, <2>2 DEF Lock, Return, simVars, StageInv
<1>2. ASSUME NEW c \in Callers, WriteArg(c) PROVE Types' /\ StageInv'
  <2>1. written' \in Nat /\ toServer' \in Seq(Nat)
    BY <1>2, SeqTypes DEF WriteArg
  <2>2. caller' \in [Callers -> [pc : Phases, call : Nat, result : Nat]]
    <3>1. caller' = [caller EXCEPT ![c].pc = "read", ![c].call = written']
      BY <1>2 DEF WriteArg
    <3>2. QED
      BY <2>1, <3>1 DEF Phases
  <2>3. QED
    BY <1>2, <2>1, <2>2 DEF WriteArg, simVars, StageInv
<1>3. ASSUME NEW c \in Callers, ReadResult(c) PROVE Types' /\ StageInv'
  <2>1. callMutex' \in Callers \cup {Free}
    BY <1>3 DEF ReadResult
  <2>2. CASE dataQueue # <<>>
    <3>1. Head(dataQueue) \in Nat /\ Tail(dataQueue) \in Seq(Nat)
      BY <2>2, SeqTypes
    <3>2. caller' \in [Callers -> [pc : Phases, call : Nat, result : Nat]]
      BY <1>3, <2>2, <3>1 DEF ReadResult, Phases
    <3>3. QED
      BY <1>3, <2>1, <2>2, <3>1, <3>2 DEF ReadResult, simVars, StageInv
  <2>3. CASE dataQueue = <<>>
    <3>1. Append(promises, c) \in Seq(Callers)
      BY SeqTypes
    <3>2. caller' \in [Callers -> [pc : Phases, call : Nat, result : Nat]]
      BY <1>3, <2>3 DEF ReadResult, Phases
    <3>3. QED
      BY <1>3, <2>1, <2>3, <3>1, <3>2 DEF ReadResult, simVars, StageInv
  <2>4. QED
    BY <2>2, <2>3
<1>4. CASE ResultArrives
  <2>1. Head(toClient) \in Nat /\ Tail(toClient) \in Seq(Nat)
    BY <1>4, SeqTypes DEF ResultArrives
  <2>2. CASE promises # <<>>
    <3>1. Head(promises) \in Callers /\ Tail(promises) \in Seq(Callers)
      BY <2>2, SeqTypes
    <3>2. caller' \in [Callers -> [pc : Phases, call : Nat, result : Nat]]
      BY <1>4, <2>1, <2>2, <3>1 DEF ResultArrives, Phases
    <3>3. QED
      BY <1>4, <2>1, <2>2, <3>1, <3>2 DEF ResultArrives, simVars, StageInv
  <2>3. CASE promises = <<>>
    <3>1. Append(dataQueue, Head(toClient)) \in Seq(Nat)
      BY <2>1, SeqTypes
    <3>2. QED
      BY <1>4, <2>1, <2>3, <3>1 DEF ResultArrives, simVars, StageInv
  <2>4. QED
    BY <2>2, <2>3
<1>5. CASE FrameArrives
  <2>1. Head(toServer) \in Nat /\ Tail(toServer) \in Seq(Nat)
    BY <1>5, SeqTypes DEF FrameArrives
  <2>2. Append(epQueue, Head(toServer)) \in Seq(Nat)
    BY <2>1, SeqTypes
  <2>3. epFuture' \in Nat /\ epQueue' \in Seq(Nat)
    BY <1>5, <2>1, <2>2 DEF FrameArrives
  <2>4. QED
    BY <1>5, <2>1, <2>3 DEF FrameArrives, hostVars, simVars, StageInv
<1>6. ASSUME NEW ready \in BOOLEAN, NEW done \in BOOLEAN, Clock(ready, done)
      PROVE  Types' /\ StageInv'
  <2>1. /\ {stage'.xValid, stage'.lValid, stage'.xReadyReg} \subseteq BOOLEAN
        /\ stage'.x \in Nat /\ stage'.l \in Nat /\ StageInv'
    BY <1>6, StageStep DEF Clock
  <2>2. aValid' \in BOOLEAN /\ a' \in Nat /\ epFuture' \in Nat /\ epQueue' \in Seq(Nat)
    <3>1. Fetch
      BY <1>6 DEF Clock
    <3>2. epQueue # <<>> => Head(epQueue) \in Nat /\ Tail(epQueue) \in Seq(Nat)
      BY SeqTypes
    <3>3. <<>> \in Seq(Nat)
      OBVIOUS
    <3>4. CASE UNCHANGED <<a, epFuture, epQueue>>
      BY <3>1, <3>4 DEF Fetch, EpTryGet
    <3>5. CASE EpTryGet /\ ~UNCHANGED <<a, epFuture, epQueue>>
      <4>1. /\ aValid' = TRUE /\ a' = epFuture
            /\ epFuture' = IF epQueue = <<>> THEN Waiting ELSE Head(epQueue)
            /\ epQueue' = IF epQueue = <<>> THEN <<>> ELSE Tail(epQueue)
        BY <3>5 DEF EpTryGet
      <4>2. CASE epQueue = <<>>
        BY <3>3, <4>1, <4>2 DEF Waiting
      <4>3. CASE epQueue # <<>>
        BY <3>2, <4>1, <4>3
      <4>4. QED
        BY <4>2, <4>3
    <3>6. QED
      BY <3>1, <3>4, <3>5 DEF Fetch
  <2>3. function' \in Seq(Nat)
    <3>1. (IF done THEN Tail(function) ELSE function) \in Seq(Nat)
      BY <1>6, SeqTypes DEF Clock
    <3>2. (IF Pipe!Xmit(ready) THEN <<stage.x>> ELSE <<>>) \in Seq(Nat)
      OBVIOUS
    <3>3. QED
      BY <1>6, <3>1, <3>2, ConcatProperties DEF Clock
  <2>4. toClient' \in Seq(Nat)
    BY <1>6, SeqTypes DEF Clock
  <2>5. UNCHANGED <<hostVars, toServer, lost>>
    BY <1>6 DEF Clock
  <2>6. QED
    BY <2>1, <2>2, <2>3, <2>4, <2>5 DEF hostVars
<1>7. ASSUME NEW ready \in BOOLEAN, Reset(ready) PROVE Types' /\ StageInv'
  <2>1. /\ {stage'.xValid, stage'.lValid, stage'.xReadyReg} \subseteq BOOLEAN
        /\ stage'.x \in Nat /\ stage'.l \in Nat /\ StageInv'
    BY <1>7, StageStep DEF Reset
  <2>2. aValid' \in BOOLEAN /\ function' \in Seq(Nat)
    <3>1. aValid' = FALSE
      BY <1>7 DEF Reset
    <3>2. function' = <<>> /\ <<>> \in Seq(Nat)
      BY <1>7 DEF Reset
    <3>3. QED
      BY <3>1, <3>2
  <2>5. lost' \in BOOLEAN
    <3>1. lost' = (lost \/ aValid \/ stage.xValid \/ function # <<>>)
      BY <1>7 DEF Reset
    <3>2. (lost \/ aValid \/ stage.xValid \/ function # <<>>) \in BOOLEAN
      OBVIOUS
    <3>3. QED
      BY <3>1, <3>2
  <2>3. UNCHANGED <<hostVars, toServer, epQueue, epFuture, a, toClient>>
    BY <1>7 DEF Reset
  <2>4. QED
    BY <2>1, <2>2, <2>3, <2>5 DEF hostVars
<1>8. QED
  BY <1>1, <1>2, <1>3, <1>4, <1>5, <1>6, <1>7 DEF Next, CallerStep

\* Lock, WriteArg and ReadResult keep the mutex discipline; no other step moves a caller
\* into the critical section.
LEMMA LockStep ==
    ASSUME Types, LockInv, Next
    PROVE  LockInv'
<1>1. caller \in [Callers -> [pc : Phases, call : Nat, result : Nat]]
  BY DEF Types
<1>2. ASSUME NEW c \in Callers, Lock(c) PROVE LockInv'
  <2>1. \A d \in Callers : caller[d].pc \notin {"write", "read"}
    BY <1>2, CallAssumption DEF Lock, LockInv
  <2>2. callMutex' = c /\ caller'[c].pc = "write"
        /\ \A d \in Callers \ {c} : caller'[d] = caller[d]
    BY <1>1, <1>2 DEF Lock
  <2>3. QED
    BY <2>1, <2>2 DEF LockInv
<1>3. ASSUME NEW c \in Callers, WriteArg(c) PROVE LockInv'
  <2>1. callMutex = c /\ \A d \in Callers \ {c} : caller[d].pc \notin {"write", "read"}
    BY <1>3 DEF WriteArg, LockInv
  <2>2. /\ callMutex' = c /\ caller'[c].pc = "read" /\ caller'[c].call = written'
        /\ \A d \in Callers \ {c} : caller'[d] = caller[d]
    BY <1>1, <1>3, <2>1 DEF WriteArg
  <2>3. QED
    BY <2>1, <2>2 DEF LockInv
<1>4. ASSUME NEW c \in Callers, ReadResult(c) PROVE LockInv'
  <2>1. callMutex = c /\ \A d \in Callers \ {c} : caller[d].pc \notin {"write", "read"}
    BY <1>4 DEF ReadResult, LockInv
  <2>2. /\ caller'[c].pc \in {"answered", "waiting"}
        /\ \A d \in Callers \ {c} : caller'[d] = caller[d]
    BY <1>1, <1>4 DEF ReadResult
  <2>3. QED
    BY <2>1, <2>2 DEF LockInv
<1>5. ASSUME NEW c \in Callers, Return(c) PROVE LockInv'
  <2>1. /\ caller'[c].pc = "idle" /\ callMutex' = callMutex /\ written' = written
        /\ \A d \in Callers \ {c} : caller'[d] = caller[d]
    BY <1>1, <1>5 DEF Return
  <2>2. QED
    BY <2>1 DEF LockInv
<1>6. CASE ResultArrives
  <2>1. callMutex' = callMutex /\ written' = written
    BY <1>6 DEF ResultArrives
  <2>2. CASE promises = <<>>
    BY <1>6, <2>1, <2>2 DEF ResultArrives, LockInv
  <2>3. CASE promises # <<>>
    <3>1. Head(promises) \in Callers
      BY <2>3, SeqTypes DEF Types
    <3>2. /\ caller'[Head(promises)].pc = "answered"
          /\ \A d \in Callers \ {Head(promises)} : caller'[d] = caller[d]
      BY <1>1, <1>6, <2>3, <3>1 DEF ResultArrives
    <3>3. QED
      BY <2>1, <3>2 DEF LockInv
  <2>4. QED
    BY <2>2, <2>3
<1>7. UNCHANGED <<callMutex, caller, written>> => LockInv'
  BY DEF LockInv
<1>8. FrameArrives => UNCHANGED <<callMutex, caller, written>>
  BY DEF FrameArrives, hostVars
<1>9. ASSUME NEW ready, NEW done, Clock(ready, done) \/ Reset(ready)
      PROVE  UNCHANGED <<callMutex, caller, written>>
  BY <1>9 DEF Clock, Reset, hostVars
<1>10. QED
  BY <1>2, <1>3, <1>4, <1>5, <1>6, <1>7, <1>8, <1>9 DEF Next, CallerStep

-----------------------------------------------------------------------------
(* The host *)

\* The places are measured in natural numbers.
LEMMA Places ==
    ASSUME Types, NEW n \in Nat
    PROVE  /\ Done(n) \in Nat /\ Taken(n) \in Nat /\ Handed(n) \in Nat /\ Fetched(n) \in Nat
           /\ Promised(n) \in Nat /\ Received(n) \in Nat
           /\ Len(toClient) \in Nat /\ Len(function) \in Nat /\ Len(epQueue) \in Nat
           /\ Len(toServer) \in Nat /\ Len(dataQueue) \in Nat /\ Len(promises) \in Nat
           /\ \A i \in 1..Len(promises) : promises[i] \in Callers
<1>1. /\ Len(toClient) \in Nat /\ Len(function) \in Nat /\ Len(epQueue) \in Nat
      /\ Len(toServer) \in Nat /\ Len(dataQueue) \in Nat /\ Len(promises) \in Nat
  BY LenProperties DEF Types
<1>2. Done(n) \in Nat /\ Taken(n) \in Nat
  BY <1>1 DEF Done, Taken
<1>3. Handed(n) \in Nat
  BY <1>2 DEF Handed, Bit
<1>4. Fetched(n) \in Nat
  BY <1>3 DEF Fetched, Bit
<1>5. Promised(n) \in Nat
  BY <1>4 DEF Promised, Bit
<1>6. Received(n) \in Nat
  BY <1>1, <1>5 DEF Received
<1>7. \A i \in 1..Len(promises) : promises[i] \in Callers
  BY ElementOfSeq DEF Types
<1>8. QED
  BY <1>1, <1>2, <1>3, <1>4, <1>5, <1>6, <1>7

\* A step of the host alone leaves the design's stretches where they are, ...
LEMMA DesignStays ==
    ASSUME NEW n, DesignRun(n), UNCHANGED <<toClient, function, stage>>
    PROVE  DesignRun(n)'
BY DEF DesignRun, Run, Done, Taken

\* ... and the server's.
LEMMA ServerStays ==
    ASSUME NEW n, ServerRun(n), UNCHANGED <<toClient, function, stage>>,
           UNCHANGED <<aValid, a, epFuture, epQueue, toServer, written>>
    PROVE  ServerRun(n)'
BY DEF ServerRun, Run, Done, Taken, Handed, Fetched, Promised, Received

LEMMA PortStays ==
    ASSUME NEW n, PortRun(n), UNCHANGED <<dataQueue, promises, written, caller>>
    PROVE  PortRun(n)'
BY DEF PortRun, Run, Reading

\* The steps of a caller keep the run, and what ReadResult finds in the queue is the
\* result of the call it has just written.
LEMMA CallerRun ==
    ASSUME Types, LockInv, OwnAnswer, ~lost, NEW n \in Nat, CallRun(n), NEW c \in Callers,
           Lock(c) \/ CallerStep(c)
    PROVE  CallRun(n)' /\ OwnAnswer'
<1>1. caller \in [Callers -> [pc : Phases, call : Nat, result : Nat]]
  BY DEF Types
<1>2. DesignRun(n)'
  BY DesignStays DEF CallRun, CallerStep, Lock, WriteArg, ReadResult, Return, simVars
<1>3. ~lost'
  BY DEF CallerStep, Lock, WriteArg, ReadResult, Return, simVars
<1>4. CASE Lock(c) \/ Return(c)
  <2>1. ServerRun(n)'
    BY <1>4, ServerStays DEF CallRun, Lock, Return, simVars
  <2>2. /\ caller[c].pc \in {"idle", "answered"} /\ caller'[c].pc \in {"write", "idle"}
        /\ \A d \in Callers \ {c} : caller'[d] = caller[d]
    BY <1>1, <1>4 DEF Lock, Return
  <2>3. UNCHANGED <<dataQueue, promises, written>>
    BY <1>4 DEF Lock, Return
  <2>4. Reading' = Reading
    BY <2>2 DEF Reading
  <2>5. \A i \in 1..Len(promises) : promises[i] \in Callers /\ promises[i] # c
    BY <2>2, Places DEF CallRun, PortRun
  <2>6. PortRun(n)'
    BY <2>2, <2>3, <2>4, <2>5 DEF CallRun, PortRun, Run
  <2>7. OwnAnswer'
    BY <1>3, <2>2 DEF OwnAnswer
  <2>8. QED
    BY <1>2, <2>1, <2>6, <2>7 DEF CallRun
<1>5. CASE WriteArg(c)
  <2>1. /\ caller[c].pc = "write" /\ caller'[c].pc = "read"
        /\ \A d \in Callers \ {c} : caller'[d] = caller[d]
    BY <1>1, <1>5 DEF WriteArg
  <2>2. ~Reading /\ Reading'
    BY <2>1 DEF Reading, LockInv
  <2>3. /\ UNCHANGED <<dataQueue, promises>> /\ written' = written + 1
        /\ toServer' = Append(toServer, written + 1)
        /\ UNCHANGED <<aValid, a, epFuture, epQueue, toClient, function, stage>>
    BY <1>5 DEF WriteArg, simVars
  <2>4. \A i \in 1..Len(promises) : promises[i] \in Callers /\ promises[i] # c
    BY <2>1, Places DEF CallRun, PortRun
  <2>5. PortRun(n)'
    <3>1. written' = n - Len(dataQueue') + Len(promises') + Bit(Reading')
      <4>1. written = n - Len(dataQueue) + Len(promises)
        BY <2>2, Places DEF CallRun, PortRun, Bit
      <4>2. QED
        BY <2>2, <2>3, <4>1, Places DEF Bit
    <3>2. QED
      BY <2>1, <2>3, <2>4, <3>1 DEF CallRun, PortRun, Run
  <2>6. ServerRun(n)'
    <3>1. UNCHANGED <<Received(n), Promised(n), Fetched(n), Handed(n)>>
      BY <2>3 DEF Received, Promised, Fetched, Handed, Taken, Done
    <3>2. written + 1 = Received(n) + Len(toServer) + 1 /\ written + 1 \in Nat
      BY DEF CallRun, ServerRun, Types
    <3>6. Run(toServer, Received(n)) /\ toServer \in Seq(Nat) /\ Received(n) \in Nat
          /\ Len(toServer) \in Nat
      BY Places DEF CallRun, ServerRun, Types
    <3>3. Run(toServer', Received(n)) /\ Len(toServer') = Len(toServer) + 1
      BY <2>3, <3>2, <3>6, RunAppend
    <3>4. written' = Received(n)' + Len(toServer')
      BY <2>3, <3>1, <3>2, <3>3, <3>6
    <3>5. QED
      BY <2>3, <3>1, <3>3, <3>4 DEF CallRun, ServerRun, Run
  <2>7. OwnAnswer'
    BY <1>3, <2>1 DEF OwnAnswer
  <2>8. QED
    BY <1>2, <2>5, <2>6, <2>7 DEF CallRun
<1>6. CASE ReadResult(c)
  <2>1. ServerRun(n)'
    BY <1>6, ServerStays DEF CallRun, ReadResult, simVars
  <2>2. /\ caller[c].pc = "read" /\ caller'[c].pc \in {"answered", "waiting"}
        /\ caller'[c].call = caller[c].call
        /\ \A d \in Callers \ {c} : caller'[d] = caller[d]
    BY <1>1, <1>6 DEF ReadResult
  <2>3. Reading /\ ~Reading'
    BY <2>2 DEF Reading, LockInv
  <2>4. caller[c].call = n - Len(dataQueue) + Len(promises) + 1 /\ written' = written
        /\ written = n - Len(dataQueue) + Len(promises) + 1
    BY <1>6, <2>2, <2>3 DEF CallRun, PortRun, Bit, LockInv, ReadResult
  <2>5. \A i \in 1..Len(promises) : promises[i] \in Callers /\ promises[i] # c
    BY <2>2, Places DEF CallRun, PortRun
  <2>6. CASE dataQueue # <<>>
    <3>1. promises = <<>> /\ promises' = <<>> /\ Len(promises) = 0 /\ Len(promises') = 0
      BY <1>6, <2>6 DEF CallRun, PortRun, ReadResult
    <3>2. dataQueue' = Tail(dataQueue)
          /\ caller'[c].result = Head(dataQueue)
      BY <1>1, <1>6, <2>6 DEF ReadResult
    <3>3. n - Len(dataQueue) \in Int /\ Run(dataQueue, n - Len(dataQueue))
          /\ dataQueue \in Seq(Nat)
      BY Places DEF CallRun, PortRun, Types
    <3>4. /\ Len(dataQueue') = Len(dataQueue) - 1
          /\ Head(dataQueue) = n - Len(dataQueue) + 1
          /\ Run(dataQueue', n - Len(dataQueue) + 1)
      BY <2>6, <3>2, <3>3, RunTail
    <3>5. n - Len(dataQueue') = n - Len(dataQueue) + 1
      BY <3>4, Places
    <3>6. written' = n - Len(dataQueue') + Len(promises') + Bit(Reading')
      BY <2>3, <2>4, <3>1, <3>5, Places DEF Bit
    <3>7. PortRun(n)'
      BY <3>1, <3>4, <3>5, <3>6 DEF PortRun
    <3>8. caller'[c].result = caller'[c].call
      BY <2>2, <2>4, <3>1, <3>2, <3>4, Places
    <3>9. OwnAnswer'
      BY <1>3, <2>2, <3>8 DEF OwnAnswer
    <3>10. QED
      BY <1>2, <2>1, <3>7, <3>9 DEF CallRun
  <2>7. CASE dataQueue = <<>>
    <3>1. /\ dataQueue' = dataQueue /\ Len(dataQueue) = 0 /\ promises' = Append(promises, c)
          /\ caller'[c].pc = "waiting"
      BY <1>1, <1>6, <2>7 DEF ReadResult
    <3>2. /\ Len(promises') = Len(promises) + 1 /\ Len(promises) \in Nat
          /\ \A i \in 1..Len(promises) : promises'[i] = promises[i]
          /\ promises'[Len(promises) + 1] = c
      BY <3>1, AppendProperties, Places DEF Types
    <3>3. caller[c].call = n + (Len(promises) + 1)
      BY <2>4, <3>1, Places
    <3>4. written' = n - Len(dataQueue') + Len(promises') + Bit(Reading')
      <4>1. Bit(Reading') = 0
        BY <2>3 DEF Bit
      <4>2. QED
        BY <2>4, <3>1, <3>2, <4>1
    <3>5. ASSUME NEW i \in 1..Len(promises')
          PROVE  caller'[promises'[i]].pc = "waiting" /\ caller'[promises'[i]].call = n + i
      <4>1. CASE i = Len(promises) + 1
        BY <2>2, <3>1, <3>2, <3>3, <4>1
      <4>2. CASE i # Len(promises) + 1
        <5>1. i \in 1..Len(promises)
          BY <3>2, <4>2
        <5>2. promises'[i] = promises[i] /\ caller'[promises[i]] = caller[promises[i]]
          BY <2>2, <2>5, <3>2, <5>1
        <5>3. QED
          BY <5>1, <5>2 DEF CallRun, PortRun
      <4>3. QED
        BY <4>1, <4>2
    <3>6. PortRun(n)'
      BY <2>7, <3>1, <3>4, <3>5 DEF CallRun, PortRun, Run
    <3>7. OwnAnswer'
      BY <1>3, <2>2, <3>1 DEF OwnAnswer
    <3>8. QED
      BY <1>2, <2>1, <3>6, <3>7 DEF CallRun
  <2>8. QED
    BY <2>6, <2>7
<1>7. QED
  BY <1>4, <1>5, <1>6 DEF CallerStep

\* A result reaches the port: the stretches of the design and the server do not move, and
\* the oldest promise is that of the caller whose call it answers.
LEMMA ResultRun ==
    ASSUME Types, OwnAnswer, ~lost, NEW n \in Nat, CallRun(n), ResultArrives
    PROVE  CallRun(n + 1)' /\ OwnAnswer'
<1>1. caller \in [Callers -> [pc : Phases, call : Nat, result : Nat]]
  BY DEF Types
<1>2. /\ ~lost' /\ UNCHANGED <<function, stage, aValid, a, epFuture, epQueue, toServer, written>>
      /\ toClient' = Tail(toClient) /\ toClient # <<>>
  BY DEF ResultArrives, simVars
<1>3. Run(toClient, n) /\ toClient \in Seq(Nat) /\ Len(toClient) \in Nat
  BY Places DEF CallRun, DesignRun, Types
<1>4. /\ Head(toClient) = n + 1 /\ Run(toClient', n + 1) /\ Len(toClient') = Len(toClient) - 1
      /\ Head(toClient) \in Nat
  BY <1>2, <1>3, RunTail
<1>5. UNCHANGED Len(function)
  BY <1>2
<1>6. Done(n + 1)' = Done(n)
  BY <1>3, <1>4 DEF Done
<1>7. /\ Taken(n + 1)' = Taken(n) /\ Handed(n + 1)' = Handed(n)
      /\ Fetched(n + 1)' = Fetched(n) /\ Promised(n + 1)' = Promised(n)
      /\ Received(n + 1)' = Received(n)
  BY <1>2, <1>6 DEF Taken, Handed, Fetched, Promised, Received
<1>8. DesignRun(n + 1)'
  BY <1>2, <1>4, <1>6, <1>7 DEF CallRun, DesignRun, Run
<1>9. ServerRun(n + 1)'
  BY <1>2, <1>7 DEF CallRun, ServerRun, Run
<1>10. CASE promises # <<>>
  <2> DEFINE h == Head(promises)
  <2>1. /\ h \in Callers /\ Len(promises) \in Nat /\ Len(promises) >= 1
        /\ h = promises[1] /\ Len(promises') = Len(promises) - 1
        /\ \A i \in 1..Len(promises') : promises'[i] = promises[i + 1]
    <3>1. promises \in Seq(Callers) /\ promises' = Tail(promises)
      BY <1>10 DEF ResultArrives, Types
    <3>2. Len(promises) \in Nat /\ Len(promises) # 0
      BY <1>10, <3>1, EmptySeq, LenProperties
    <3>3. QED
      BY <1>10, <3>1, <3>2, HeadTailProperties
  <2>2. /\ caller'[h].pc = "answered" /\ caller'[h].result = n + 1
        /\ caller'[h].call = caller[h].call
        /\ \A d \in Callers \ {h} : caller'[d] = caller[d]
    BY <1>1, <1>4, <1>10, <2>1 DEF ResultArrives
  <2>3. dataQueue' = dataQueue /\ dataQueue = <<>> /\ Len(dataQueue) = 0
    BY <1>10 DEF ResultArrives, CallRun, PortRun
  <2>4. caller[h].pc = "waiting" /\ caller[h].call = n + 1
    BY <2>1 DEF CallRun, PortRun
  <2>5. Reading' = Reading
    BY <2>1, <2>2, <2>4 DEF Reading
  <2> HIDE DEF h
  <2>6. ASSUME NEW i \in 1..Len(promises')
        PROVE  caller'[promises'[i]].pc = "waiting" /\ caller'[promises'[i]].call = n + 1 + i
    <3>1. i + 1 \in 1..Len(promises) /\ i >= 1
      BY <2>1
    <3>2. /\ promises[i + 1] \in Callers /\ caller[promises[i + 1]].pc = "waiting"
          /\ caller[promises[i + 1]].call = n + (i + 1)
      BY <3>1, Places DEF CallRun, PortRun
    <3>3. promises[i + 1] # h
      BY <2>4, <3>1, <3>2
    <3>4. caller'[promises[i + 1]] = caller[promises[i + 1]] /\ promises'[i] = promises[i + 1]
      BY <2>1, <2>2, <3>2, <3>3
    <3>5. n + (i + 1) = n + 1 + i
      OBVIOUS
    <3>6. QED
      BY <3>2, <3>4, <3>5
  <2>7. written' = n + 1 - Len(dataQueue') + Len(promises') + Bit(Reading')
    <3>1. written = n - Len(dataQueue) + Len(promises) + Bit(Reading) /\ Bit(Reading) \in Nat
      BY DEF CallRun, PortRun, Bit
    <3>2. Bit(Reading') = Bit(Reading) /\ written' = written
      BY <1>2, <2>5
    <3>3. QED
      BY <2>1, <2>3, <3>1, <3>2
  <2>8. PortRun(n + 1)'
    BY <2>3, <2>6, <2>7 DEF PortRun, Run
  <2>9. OwnAnswer'
    BY <1>2, <2>2, <2>4 DEF OwnAnswer
  <2>10. QED
    BY <1>8, <1>9, <2>8, <2>9 DEF CallRun
<1>11. CASE promises = <<>>
  <2>1. /\ promises' = promises /\ caller' = caller /\ Len(promises) = 0
        /\ dataQueue' = Append(dataQueue, n + 1)
    BY <1>4, <1>11 DEF ResultArrives
  <2>2. /\ Run(dataQueue, n - Len(dataQueue)) /\ Len(dataQueue) \in Nat
        /\ dataQueue \in Seq(Nat)
    BY Places DEF CallRun, PortRun, Types
  <2>3. n - Len(dataQueue) \in Int /\ n + 1 \in Nat
        /\ n + 1 = n - Len(dataQueue) + Len(dataQueue) + 1
    BY <2>2
  <2>4. Run(dataQueue', n - Len(dataQueue)) /\ Len(dataQueue') = Len(dataQueue) + 1
    BY <2>1, <2>2, <2>3, RunAppend
  <2>5. n + 1 - Len(dataQueue') = n - Len(dataQueue)
    BY <2>2, <2>4
  <2>6. Reading' = Reading
    BY <2>1 DEF Reading
  <2>7. PortRun(n + 1)'
    <3>1. written' = n + 1 - Len(dataQueue') + Len(promises') + Bit(Reading')
      BY <1>2, <2>1, <2>5, <2>6 DEF CallRun, PortRun
    <3>2. QED
      BY <1>11, <2>1, <2>4, <2>5, <3>1 DEF PortRun
  <2>8. OwnAnswer'
    BY <1>2, <2>1 DEF OwnAnswer
  <2>9. QED
    BY <1>8, <1>9, <2>7, <2>8 DEF CallRun
<1>12. QED
  BY <1>10, <1>11

-----------------------------------------------------------------------------
(* The server and the design *)

\* A frame from the socket is the next call for the future, or for the queue behind it.
LEMMA FrameRun ==
    ASSUME Types, ~lost, NEW n \in Nat, CallRun(n), FrameArrives
    PROVE  CallRun(n)'
<1>1. UNCHANGED <<dataQueue, promises, written, caller, toClient, function, stage, aValid, a>>
  BY DEF FrameArrives, hostVars, simVars
<1>2. DesignRun(n)' /\ PortRun(n)'
  BY <1>1, DesignStays, PortStays DEF CallRun
<1>3. UNCHANGED <<Fetched(n), Handed(n)>>
  BY <1>1 DEF Fetched, Handed, Taken, Done
<1>4. /\ Run(toServer, Received(n)) /\ toServer \in Seq(Nat) /\ toServer # <<>>
      /\ Received(n) \in Nat /\ Promised(n) \in Nat /\ Fetched(n) \in Nat
      /\ Len(epQueue) \in Nat /\ epQueue \in Seq(Nat) /\ Run(epQueue, Promised(n))
      /\ written = Received(n) + Len(toServer) /\ Len(toServer) \in Nat
  BY Places DEF CallRun, ServerRun, Types, FrameArrives
<1>5. toServer' = Tail(toServer)
  BY DEF FrameArrives
<1>6. /\ Head(toServer) = Received(n) + 1 /\ Run(toServer', Received(n) + 1)
      /\ Len(toServer') = Len(toServer) - 1 /\ Head(toServer) \in Nat
  BY <1>4, <1>5, RunTail
<1>7. CASE epFuture = Waiting
  <2>1. epQueue = <<>> /\ Len(epQueue) = 0 /\ epQueue' = epQueue
        /\ epFuture' = Received(n) + 1
    BY <1>6, <1>7 DEF CallRun, ServerRun, FrameArrives
  <2>2. epFuture' # Waiting
    BY <1>4, <2>1 DEF Waiting
  <2>3. Promised(n) = Fetched(n) /\ Received(n) = Fetched(n)
    BY <1>4, <1>7, <2>1 DEF Promised, Received, Bit
  <2>4. Promised(n)' = Fetched(n) + 1
    BY <1>3, <2>2 DEF Promised, Bit
  <2>5. Received(n)' = Received(n) + 1
    BY <1>4, <2>1, <2>3, <2>4 DEF Received
  <2>6. ServerRun(n)'
    <3>1. written' = Received(n)' + Len(toServer')
      BY <1>1, <1>4, <1>6, <2>5
    <3>2. (aValid => a = Handed(n) + 1)'
      BY <1>1, <1>3 DEF CallRun, ServerRun
    <3>3. epFuture' = Fetched(n)' + 1
      BY <1>3, <2>1, <2>3
    <3>4. Run(epQueue', Promised(n)')
      BY <2>1 DEF Run
    <3>5. QED
      BY <1>6, <2>2, <2>5, <3>1, <3>2, <3>3, <3>4 DEF ServerRun, Run
  <2>7. QED
    BY <1>2, <2>6 DEF CallRun
<1>8. CASE epFuture # Waiting
  <2>1. epFuture' = epFuture /\ epQueue' = Append(epQueue, Head(toServer))
    BY <1>8 DEF FrameArrives
  <2>2. Promised(n)' = Promised(n)
    BY <1>3, <2>1 DEF Promised
  <2>3. Head(toServer) = Promised(n) + Len(epQueue) + 1
    BY <1>6 DEF Received
  <2>4. Run(epQueue', Promised(n)) /\ Len(epQueue') = Len(epQueue) + 1
    BY <1>4, <1>6, <2>1, <2>3, RunAppend
  <2>5. Received(n)' = Received(n) + 1
    BY <1>4, <2>2, <2>4 DEF Received
  <2>6. ServerRun(n)'
    <3>1. written' = Received(n)' + Len(toServer')
      BY <1>1, <1>4, <1>6, <2>5
    <3>2. (aValid => a = Handed(n) + 1)'
      BY <1>1, <1>3 DEF CallRun, ServerRun
    <3>3. epFuture' = Fetched(n)' + 1
      BY <1>3, <1>8, <2>1 DEF CallRun, ServerRun
    <3>4. QED
      BY <1>6, <1>8, <2>1, <2>2, <2>4, <2>5, <3>1, <3>2, <3>3 DEF ServerRun, Run
  <2>7. QED
    BY <1>2, <2>6 DEF CallRun
<1>9. QED
  BY <1>7, <1>8

\* The function takes the call that leaves the stage, and what it has answered is next on
\* its way to the host.
LEMMA FunctionRun ==
    ASSUME Types, NEW n \in Nat, DesignRun(n), NEW ready \in BOOLEAN, NEW done \in BOOLEAN,
           Clock(ready, done)
    PROVE  /\ Run(toClient, n)' /\ Run(function, Done(n))'
           /\ Taken(n)' = Taken(n) + Bit(Pipe!Xmit(ready))
<1>1. /\ toClient \in Seq(Nat) /\ function \in Seq(Nat) /\ stage.x \in Nat
      /\ Len(toClient) \in Nat /\ Len(function) \in Nat
      /\ Done(n) \in Nat /\ Taken(n) \in Nat /\ Done(n) = n + Len(toClient)
      /\ Taken(n) = Done(n) + Len(function)
      /\ Run(toClient, n) /\ Run(function, Done(n))
  BY Places DEF Types, Done, Taken, DesignRun
<1> DEFINE rest == IF done THEN Tail(function) ELSE function
<1>2. /\ rest \in Seq(Nat) /\ Len(rest) \in Nat
      /\ Done(n)' \in Nat /\ Run(toClient, n)' /\ Run(rest, Done(n)')
      /\ Taken(n) = Done(n)' + Len(rest)
  <2>1. CASE done
    <3>1. function # <<>> /\ toClient' = Append(toClient, Head(function))
          /\ rest = Tail(function)
      BY <2>1 DEF Clock
    <3>2. /\ Tail(function) \in Seq(Nat) /\ Head(function) \in Nat
          /\ Len(function) >= 1 /\ Len(Tail(function)) = Len(function) - 1
          /\ Head(function) = Done(n) + 1 /\ Run(Tail(function), Done(n) + 1)
      BY <1>1, <3>1, RunTail
    <3>3. Head(function) = n + Len(toClient) + 1
      BY <1>1, <3>2
    <3>4. Run(toClient', n) /\ Len(toClient') = Len(toClient) + 1
      <4>1. toClient \in Seq(Nat) /\ n \in Int /\ Run(toClient, n) /\ Head(function) \in Nat
        BY <1>1, <3>2
      <4>2. /\ Run(Append(toClient, Head(function)), n)
            /\ Len(Append(toClient, Head(function))) = Len(toClient) + 1
        BY <3>3, <4>1, RunAppend
      <4>3. QED
        BY <3>1, <4>2
    <3>5. Done(n)' = Done(n) + 1
      BY <1>1, <3>4 DEF Done
    <3>6. Taken(n) = Done(n)' + Len(rest) /\ Len(rest) \in Nat /\ Done(n)' \in Nat
      <4>1. /\ Len(rest) = Len(function) - 1 /\ Len(function) \in Nat /\ Len(function) >= 1
            /\ Taken(n) = Done(n) + Len(function) /\ Done(n) \in Nat
        BY <1>1, <3>1, <3>2
      <4>2. QED
        BY ONLY <3>5, <4>1
    <3>7. QED
      BY <3>1, <3>2, <3>4, <3>5, <3>6 DEF Run
  <2>2. CASE ~done
    <3>1. toClient' = toClient /\ rest = function
      BY <2>2 DEF Clock
    <3>2. Done(n)' = Done(n)
      BY <3>1 DEF Done
    <3>3. QED
      BY <1>1, <3>1, <3>2 DEF Run
  <2>3. QED
    BY <2>1, <2>2
<1>3. CASE Pipe!Xmit(ready)
  <2>1. stage.x = Taken(n) + 1
    BY <1>3 DEF DesignRun, Pipe!Xmit
  <2>2. function' = rest \o <<stage.x>>
    BY <1>3 DEF Clock
  <2> HIDE DEF rest
  <2>3. rest \o <<stage.x>> = Append(rest, stage.x)
    BY <1>1, <1>2, AppendIsConcat
  <2>4. stage.x = Done(n)' + Len(rest) + 1
    BY <1>2, <2>1
  <2>5. Run(function', Done(n)') /\ Len(function') = Len(rest) + 1
    <3>1. rest \in Seq(Nat) /\ Done(n)' \in Int /\ Run(rest, Done(n)') /\ stage.x \in Nat
      BY <1>1, <1>2
    <3>2. Run(Append(rest, stage.x), Done(n)') /\ Len(Append(rest, stage.x)) = Len(rest) + 1
      BY <2>4, <3>1, RunAppend
    <3>3. QED
      BY <2>2, <2>3, <3>2
  <2>6. Taken(n)' = Taken(n) + 1
    BY <1>2, <2>5 DEF Taken
  <2>7. QED
    BY <1>2, <1>3, <2>5, <2>6 DEF Run, Bit
<1>4. CASE ~Pipe!Xmit(ready)
  <2>1. function' = rest \o <<>>
    BY <1>4 DEF Clock
  <2> HIDE DEF rest
  <2>2. function' = rest
    BY <1>2, <2>1, ConcatEmptySeq
  <2>3. Taken(n)' = Taken(n)
    BY <1>2, <2>2 DEF Taken
  <2>4. QED
    BY <1>1, <1>2, <1>4, <2>2, <2>3 DEF Run, Bit
<1>5. QED
  BY <1>3, <1>4

\* The stage hands on its oldest call and takes the one in the endpoint's buffer behind
\* those it holds; a call in the lookaside register moves up.
LEMMA StageRun ==
    ASSUME Types, StageInv, NEW n \in Nat, DesignRun(n), ServerRun(n), NEW ready \in BOOLEAN,
           Pipe!Clock(FALSE, aValid, a, ready), Taken(n)' = Taken(n) + Bit(Pipe!Xmit(ready))
    PROVE  /\ stage'.xValid => stage'.x = Taken(n)' + 1
           /\ stage'.lValid => stage'.l = Taken(n)' + 2
           /\ Handed(n)' = Handed(n) + Bit(Pipe!ARcv(aValid))
<1> DEFINE rcv  == Pipe!ARcv(aValid)
           xmit == Pipe!Xmit(ready)
           Goal == /\ stage'.xValid => stage'.x = Taken(n)' + 1
                   /\ stage'.lValid => stage'.l = Taken(n)' + 2
                   /\ Handed(n)' = Handed(n) + Bit(rcv)
<1>1. /\ stage'.xValid = (IF xmit THEN stage.lValid \/ rcv ELSE stage.xValid \/ rcv)
      /\ stage'.lValid = (IF xmit THEN stage.lValid /\ rcv
                                  ELSE stage.lValid \/ (rcv /\ stage.xValid))
  BY DEF Pipe!Clock, Pipe!Clocked
<1>2. /\ stage'.x = IF xmit \/ (rcv /\ ~stage.xValid)
                    THEN (IF xmit /\ stage.lValid THEN stage.l ELSE a) ELSE stage.x
      /\ stage'.l = IF (xmit /\ stage.lValid) \/ (~xmit /\ rcv /\ stage.xValid)
                    THEN a ELSE stage.l
  BY DEF Pipe!Clock, Pipe!Clocked, Pipe!PayloadMoves, Pipe!Moves
<1>3. rcv = ((~stage.lValid \/ stage.xReadyReg) /\ aValid) /\ xmit = (stage.xValid /\ ready)
  BY DEF Pipe!ARcv, Pipe!AReady, Pipe!Xmit
<1>4. /\ stage.xValid \in BOOLEAN /\ stage.lValid \in BOOLEAN /\ stage.xReadyReg \in BOOLEAN
      /\ aValid \in BOOLEAN
      /\ stage.lValid => stage.xValid /\ ~stage.xReadyReg
  BY DEF Types, StageInv
<1>5. /\ stage.xValid => stage.x = Taken(n) + 1
      /\ stage.lValid => stage.l = Taken(n) + 2
      /\ aValid => a = Handed(n) + 1
      /\ Taken(n) \in Nat /\ Taken(n)' = Taken(n) + Bit(xmit)
  BY Places DEF DesignRun, ServerRun
<1>6. /\ Handed(n) = Taken(n) + Bit(stage.xValid) + Bit(stage.lValid)
      /\ Handed(n)' = Taken(n)' + Bit(stage'.xValid) + Bit(stage'.lValid)
  BY DEF Handed
<1> HIDE DEF rcv, xmit
<1>8. ASSUME ~stage.xValid /\ ~rcv PROVE Goal
  <2>1. /\ ~stage.xValid /\ ~stage.lValid /\ ~xmit /\ ~rcv
        /\ ~stage'.xValid /\ ~stage'.lValid
    BY <1>1, <1>3, <1>4, <1>8
  <2>2. /\ Bit(xmit) = 0 /\ Bit(rcv) = 0
        /\ Bit(stage.xValid) = 0 /\ Bit(stage.lValid) = 0
        /\ Bit(stage'.xValid) = 0 /\ Bit(stage'.lValid) = 0
    BY <2>1 DEF Bit
  <2>3. Taken(n) \in Nat /\ Taken(n)' = Taken(n) /\ Handed(n) = Taken(n)
        /\ Handed(n)' = Handed(n)
    BY <1>5, <1>6, <2>2
  <2>4. QED
    BY <2>1, <2>2, <2>3
<1>9. ASSUME ~stage.xValid /\ rcv PROVE Goal
  <2>1. /\ ~stage.xValid /\ ~stage.lValid /\ ~xmit /\ rcv
        /\ stage'.xValid /\ ~stage'.lValid /\ aValid
    BY <1>1, <1>3, <1>4, <1>9
  <2>2. /\ Bit(xmit) = 0 /\ Bit(rcv) = 1
        /\ Bit(stage.xValid) = 0 /\ Bit(stage.lValid) = 0
        /\ Bit(stage'.xValid) = 1 /\ Bit(stage'.lValid) = 0
    BY <2>1 DEF Bit
  <2>3. Taken(n) \in Nat /\ Taken(n)' = Taken(n) /\ Handed(n) = Taken(n)
        /\ Handed(n)' = Handed(n) + 1
    BY <1>5, <1>6, <2>2
  <2>4. stage'.x = a
    BY <1>2, <2>1
  <2>5. QED
    BY <1>5, <2>1, <2>2, <2>3, <2>4
<1>10. ASSUME stage.xValid /\ ~stage.lValid /\ xmit /\ ~rcv PROVE Goal
  <2>1. /\ stage.xValid /\ ~stage.lValid /\ xmit /\ ~rcv
        /\ ~stage'.xValid /\ ~stage'.lValid
    BY <1>1, <1>3, <1>4, <1>10
  <2>2. /\ Bit(xmit) = 1 /\ Bit(rcv) = 0
        /\ Bit(stage.xValid) = 1 /\ Bit(stage.lValid) = 0
        /\ Bit(stage'.xValid) = 0 /\ Bit(stage'.lValid) = 0
    BY <2>1 DEF Bit
  <2>3. Taken(n) \in Nat /\ Taken(n)' = Taken(n) + 1 /\ Handed(n) = Taken(n) + 1
        /\ Handed(n)' = Handed(n)
    BY <1>5, <1>6, <2>2
  <2>4. QED
    BY <2>1, <2>2, <2>3
<1>11. ASSUME stage.xValid /\ ~stage.lValid /\ xmit /\ rcv PROVE Goal
  <2>1. /\ stage.xValid /\ ~stage.lValid /\ xmit /\ rcv
        /\ stage'.xValid /\ ~stage'.lValid /\ aValid
    BY <1>1, <1>3, <1>4, <1>11
  <2>2. /\ Bit(xmit) = 1 /\ Bit(rcv) = 1
        /\ Bit(stage.xValid) = 1 /\ Bit(stage.lValid) = 0
        /\ Bit(stage'.xValid) = 1 /\ Bit(stage'.lValid) = 0
    BY <2>1 DEF Bit
  <2>3. Taken(n) \in Nat /\ Taken(n)' = Taken(n) + 1 /\ Handed(n) = Taken(n) + 1
        /\ Handed(n)' = Handed(n) + 1
    BY <1>5, <1>6, <2>2
  <2>4. stage'.x = a
    BY <1>2, <2>1
  <2>5. QED
    BY <1>5, <2>1, <2>2, <2>3, <2>4
<1>12. ASSUME stage.xValid /\ ~stage.lValid /\ ~xmit /\ ~rcv PROVE Goal
  <2>1. /\ stage.xValid /\ ~stage.lValid /\ ~xmit /\ ~rcv
        /\ stage'.xValid /\ ~stage'.lValid
    BY <1>1, <1>3, <1>4, <1>12
  <2>2. /\ Bit(xmit) = 0 /\ Bit(rcv) = 0
        /\ Bit(stage.xValid) = 1 /\ Bit(stage.lValid) = 0
        /\ Bit(stage'.xValid) = 1 /\ Bit(stage'.lValid) = 0
    BY <2>1 DEF Bit
  <2>3. Taken(n) \in Nat /\ Taken(n)' = Taken(n) /\ Handed(n) = Taken(n) + 1
        /\ Handed(n)' = Handed(n)
    BY <1>5, <1>6, <2>2
  <2>4. stage'.x = stage.x
    BY <1>2, <2>1
  <2>5. QED
    BY <1>5, <2>1, <2>2, <2>3, <2>4
<1>13. ASSUME stage.xValid /\ ~stage.lValid /\ ~xmit /\ rcv PROVE Goal
  <2>1. /\ stage.xValid /\ ~stage.lValid /\ ~xmit /\ rcv
        /\ stage'.xValid /\ stage'.lValid /\ aValid
    BY <1>1, <1>3, <1>4, <1>13
  <2>2. /\ Bit(xmit) = 0 /\ Bit(rcv) = 1
        /\ Bit(stage.xValid) = 1 /\ Bit(stage.lValid) = 0
        /\ Bit(stage'.xValid) = 1 /\ Bit(stage'.lValid) = 1
    BY <2>1 DEF Bit
  <2>3. Taken(n) \in Nat /\ Taken(n)' = Taken(n) /\ Handed(n) = Taken(n) + 1
        /\ Handed(n)' = Handed(n) + 1
    BY <1>5, <1>6, <2>2
  <2>4. stage'.x = stage.x /\ stage'.l = a
    BY <1>2, <2>1
  <2>5. stage'.x = Taken(n)' + 1 /\ stage'.l = Taken(n)' + 2
    <3>1. stage'.x = Taken(n) + 1 /\ stage'.l = Handed(n) + 1
      BY <1>5, <2>1, <2>4
    <3>2. QED
      BY ONLY <2>3, <3>1
  <2>6. QED
    BY <2>2, <2>3, <2>5
<1>14. ASSUME stage.lValid /\ xmit PROVE Goal
  <2>1. /\ stage.xValid /\ stage.lValid /\ xmit /\ ~rcv
        /\ stage'.xValid /\ ~stage'.lValid
    BY <1>1, <1>3, <1>4, <1>14
  <2>2. /\ Bit(xmit) = 1 /\ Bit(rcv) = 0
        /\ Bit(stage.xValid) = 1 /\ Bit(stage.lValid) = 1
        /\ Bit(stage'.xValid) = 1 /\ Bit(stage'.lValid) = 0
    BY <2>1 DEF Bit
  <2>3. Taken(n) \in Nat /\ Taken(n)' = Taken(n) + 1 /\ Handed(n) = Taken(n) + 2
        /\ Handed(n)' = Handed(n)
    BY <1>5, <1>6, <2>2
  <2>4. stage'.x = stage.l
    BY <1>2, <2>1
  <2>5. QED
    BY <1>5, <2>1, <2>2, <2>3, <2>4
<1>15. ASSUME stage.lValid /\ ~xmit PROVE Goal
  <2>1. /\ stage.xValid /\ stage.lValid /\ ~xmit /\ ~rcv
        /\ stage'.xValid /\ stage'.lValid
    BY <1>1, <1>3, <1>4, <1>15
  <2>2. /\ Bit(xmit) = 0 /\ Bit(rcv) = 0
        /\ Bit(stage.xValid) = 1 /\ Bit(stage.lValid) = 1
        /\ Bit(stage'.xValid) = 1 /\ Bit(stage'.lValid) = 1
    BY <2>1 DEF Bit
  <2>3. Taken(n) \in Nat /\ Taken(n)' = Taken(n) /\ Handed(n) = Taken(n) + 2
        /\ Handed(n)' = Handed(n)
    BY <1>5, <1>6, <2>2
  <2>4. stage'.x = stage.x /\ stage'.l = stage.l
    BY <1>2, <2>1
  <2>5. stage'.x = Taken(n)' + 1 /\ stage'.l = Taken(n)' + 2
    <3>1. stage'.x = Taken(n) + 1 /\ stage'.l = Taken(n) + 2 /\ Taken(n)' = Taken(n)
      BY <1>5, <2>1, <2>3, <2>4
    <3>2. QED
      BY ONLY <3>1
  <2>6. QED
    BY <2>2, <2>3, <2>5
<1>16. Goal
  BY <1>3, <1>4, <1>8, <1>9, <1>10, <1>11, <1>12, <1>13, <1>14, <1>15
<1>17. QED
  BY <1>16 DEF rcv

\* The endpoint fetches the call in the future, and the next one takes its place there.
LEMMA FetchRun ==
    ASSUME Types, NEW n \in Nat, ServerRun(n), Fetch, UNCHANGED <<toServer, written>>,
           Handed(n)' \in Nat, Handed(n)' = Handed(n) + Bit(Pipe!ARcv(aValid))
    PROVE  ServerRun(n)'
<1>1. /\ Handed(n) \in Nat /\ Fetched(n) \in Nat /\ Promised(n) \in Nat /\ Received(n) \in Nat
      /\ Len(epQueue) \in Nat /\ epQueue \in Seq(Nat) /\ aValid \in BOOLEAN
  BY Places DEF Types
<1>2. /\ aValid => a = Handed(n) + 1
      /\ epFuture # Waiting => epFuture = Fetched(n) + 1
      /\ epFuture = Waiting => epQueue = <<>>
      /\ Run(epQueue, Promised(n)) /\ Run(toServer, Received(n))
      /\ written = Received(n) + Len(toServer)
  BY DEF ServerRun
<1>3. Bit(TRUE) = 1 /\ Bit(FALSE) = 0
  BY DEF Bit
\* What is left to show once the endpoint has what it had, or one call more.
<1>4. ASSUME aValid' => a' = Handed(n)' + 1, Fetched(n)' = Fetched(n),
             UNCHANGED <<epFuture, epQueue>>
      PROVE  ServerRun(n)'
  <2>1. Promised(n)' = Promised(n) /\ Received(n)' = Received(n)
    BY <1>4 DEF Promised, Received
  <2>2. QED
    BY <1>2, <1>4, <2>1 DEF ServerRun, Run
<1>5. CASE aValid /\ Pipe!AReady
  <2>1. aValid' = FALSE /\ aValid = TRUE /\ UNCHANGED <<epFuture, epQueue>>
    BY <1>1, <1>5 DEF Fetch
  <2>2. Pipe!ARcv(aValid)
    BY <1>5 DEF Pipe!ARcv
  <2>3. Handed(n)' = Handed(n) + 1
    BY <2>2 DEF Bit
  <2>4. Fetched(n)' = Fetched(n)
    <3>1. Bit(aValid) = 1 /\ Bit(aValid') = 0
      BY <2>1 DEF Bit
    <3>2. QED
      BY <1>1, <2>3, <3>1 DEF Fetched
  <2>5. QED
    BY <1>4, <2>1, <2>4
<1>6. CASE ~(aValid /\ Pipe!AReady)
  <2>1. Handed(n)' = Handed(n)
    BY <1>1, <1>6 DEF Pipe!ARcv, Bit
  <2>2. CASE UNCHANGED <<aValid, a, epFuture, epQueue>>
    <3>1. Fetched(n)' = Fetched(n)
      BY <2>1, <2>2 DEF Fetched
    <3>2. QED
      BY <1>2, <1>4, <2>1, <2>2, <3>1
  <2>3. CASE ~UNCHANGED <<aValid, a, epFuture, epQueue>>
    <3>1. Pipe!AReady /\ EpTryGet
      BY <1>6, <2>3 DEF Fetch
    <3>2. /\ epFuture \in Calls /\ aValid' = TRUE /\ a' = epFuture
          /\ epFuture' = IF epQueue = <<>> THEN Waiting ELSE Head(epQueue)
          /\ epQueue' = IF epQueue = <<>> THEN <<>> ELSE Tail(epQueue)
      BY <2>3, <3>1 DEF EpTryGet
    <3>3. aValid = FALSE
      BY <1>1, <1>6, <3>1
    <3>4. epFuture # Waiting
      BY <3>2, CallAssumption DEF Calls, Waiting
    <3>5. Fetched(n) = Handed(n) /\ Promised(n) = Fetched(n) + 1
      BY <1>1, <1>3, <3>3, <3>4 DEF Fetched, Promised, Bit
    <3>6. Fetched(n)' = Fetched(n) + 1
      BY <1>1, <1>3, <2>1, <3>2, <3>5 DEF Fetched
    <3>7. a' = Handed(n)' + 1
      BY <1>2, <2>1, <3>2, <3>4, <3>5
    <3>8. CASE epQueue = <<>>
      <4>1. epFuture' = Waiting /\ epQueue' = <<>> /\ Len(epQueue) = 0 /\ Len(epQueue') = 0
        BY <3>2, <3>8
      <4>2. Promised(n)' = Promised(n)
        BY <1>1, <3>5, <3>6, <4>1 DEF Promised, Bit
      <4>3. Received(n)' = Received(n)
        BY <4>1, <4>2 DEF Received
      <4>4. Run(epQueue', Promised(n)')
        BY <4>1 DEF Run
      <4>5. QED
        BY <1>2, <3>7, <4>1, <4>3, <4>4 DEF ServerRun, Run
    <3>9. CASE epQueue # <<>>
      <4>1. /\ Head(epQueue) = Promised(n) + 1 /\ Run(Tail(epQueue), Promised(n) + 1)
            /\ Len(Tail(epQueue)) = Len(epQueue) - 1
        BY <1>1, <1>2, <3>9, RunTail
      <4>2. /\ epFuture' = Promised(n) + 1 /\ epQueue' = Tail(epQueue)
            /\ Len(epQueue') = Len(epQueue) - 1
        BY <3>2, <3>9, <4>1
      <4>3. epFuture' # Waiting
        BY <1>1, <4>2 DEF Waiting
      <4>4. Promised(n)' = Promised(n) + 1
        BY <1>1, <3>5, <3>6, <4>3 DEF Promised, Bit
      <4>5. Received(n)' = Received(n)
        <5>1. /\ Received(n) = Promised(n) + Len(epQueue)
              /\ Received(n)' = Promised(n)' + Len(epQueue')
          BY DEF Received
        <5>2. QED
          BY <1>1, <4>2, <4>4, <5>1
      <4>6. epFuture' = Fetched(n)' + 1
        BY <3>5, <3>6, <4>2
      <4>7. Run(epQueue', Promised(n)')
        BY <4>1, <4>2, <4>4
      <4>8. QED
        BY <1>2, <3>7, <4>3, <4>5, <4>6, <4>7 DEF ServerRun, Run
    <3>10. QED
      BY <3>8, <3>9
  <2>4. QED
    BY <2>2, <2>3
<1>7. QED
  BY <1>5, <1>6

LEMMA ClockRun ==
    ASSUME Types, StageInv, NEW n \in Nat, CallRun(n),
           NEW ready \in BOOLEAN, NEW done \in BOOLEAN, Clock(ready, done), Types'
    PROVE  CallRun(n)'
<1>1. DesignRun(n) /\ ServerRun(n) /\ PortRun(n)
  BY DEF CallRun
<1>2. /\ Run(toClient, n)' /\ Run(function, Done(n))'
      /\ Taken(n)' = Taken(n) + Bit(Pipe!Xmit(ready))
  BY <1>1, FunctionRun
<1>3. Pipe!Clock(FALSE, aValid, a, ready) /\ Fetch
  BY DEF Clock
<1>4. /\ stage'.xValid => stage'.x = Taken(n)' + 1
      /\ stage'.lValid => stage'.l = Taken(n)' + 2
      /\ Handed(n)' = Handed(n) + Bit(Pipe!ARcv(aValid))
  BY <1>1, <1>2, <1>3, StageRun
<1>5. DesignRun(n)'
  BY <1>2, <1>4 DEF DesignRun
<1>6. Handed(n)' \in Nat
  <2>1. Handed(n) \in Nat
    BY Places
  <2>2. QED
    BY <1>4, <2>1 DEF Bit
<1>7. ServerRun(n)'
  BY <1>1, <1>3, <1>4, <1>6, FetchRun DEF Clock, hostVars
<1>8. PortRun(n)'
  BY <1>1, PortStays DEF Clock, hostVars
<1>9. QED
  BY <1>5, <1>7, <1>8 DEF CallRun

\* A reset that finds no call in the design, the stage and the buffer destroys none.
LEMMA ResetRun ==
    ASSUME Types, StageInv, NEW n \in Nat, CallRun(n),
           NEW ready \in BOOLEAN, Reset(ready), ~lost'
    PROVE  CallRun(n)'
<1>1. DesignRun(n) /\ ServerRun(n) /\ PortRun(n)
  BY DEF CallRun
<1>2. ~aValid /\ ~stage.xValid /\ function = <<>>
  BY DEF Reset
<1>3. ~stage.lValid
  BY <1>2 DEF StageInv
<1>4. ~stage'.xValid /\ ~stage'.lValid
  BY StageStep DEF Reset
<1>5. ~aValid' /\ function' = <<>> /\ UNCHANGED <<hostVars, toServer, epQueue, epFuture, toClient>>
  BY DEF Reset
<1>6. Done(n)' = Done(n) /\ Taken(n)' = Taken(n)
  BY <1>2, <1>5 DEF Done, Taken
<1>7. Handed(n)' = Handed(n)
  BY <1>2, <1>3, <1>4, <1>6 DEF Handed, Bit
<1>8. Fetched(n)' = Fetched(n)
  BY <1>2, <1>5, <1>7 DEF Fetched, Bit
<1>9. Promised(n)' = Promised(n) /\ Received(n)' = Received(n)
  BY <1>5, <1>8 DEF Promised, Received
<1>10. DesignRun(n)'
  BY <1>1, <1>2, <1>4, <1>5, <1>6 DEF DesignRun, Run
<1>11. ServerRun(n)'
  BY <1>1, <1>5, <1>8, <1>9 DEF ServerRun, Run, hostVars
<1>12. PortRun(n)'
  BY <1>1, <1>5, PortStays DEF hostVars
<1>13. QED
  BY <1>10, <1>11, <1>12 DEF CallRun

-----------------------------------------------------------------------------
(* Every caller gets its own answer *)

LEMMA CallInit ==
    Init => CallInv
<1>1. SUFFICES ASSUME Init PROVE CallInv
  OBVIOUS
<1>2. PICK x0 \in 0..MaxCalls, l0 \in 0..MaxCalls : stage = Pipe!AfterReset(x0, l0)
  BY <1>1 DEF Init, Pipe!Init
<1>3. /\ stage.xValid = FALSE /\ stage.lValid = FALSE /\ stage.xReadyReg = FALSE
      /\ stage.x \in Nat /\ stage.l \in Nat
  BY <1>1, <1>2 DEF Init, Pipe!AfterReset
<1>4. Types /\ StageInv
  <2>1. caller \in [Callers -> [pc : Phases, call : Nat, result : Nat]]
    BY <1>1 DEF Init, Phases
  <2>2. /\ callMutex \in Callers \cup {Free}
        /\ promises \in Seq(Callers) /\ dataQueue \in Seq(Nat)
        /\ written \in Nat
    BY <1>1 DEF Init
  <2>3. /\ toServer \in Seq(Nat) /\ epQueue \in Seq(Nat) /\ epFuture \in Nat
        /\ a \in Nat /\ function \in Seq(Nat) /\ toClient \in Seq(Nat)
    BY <1>1 DEF Init, Waiting
  <2>4. aValid \in BOOLEAN /\ lost \in BOOLEAN
    BY <1>1 DEF Init
  <2>5. QED
    BY <1>3, <2>1, <2>2, <2>3, <2>4 DEF Types, StageInv
<1>5. LockInv /\ OwnAnswer
  BY <1>1 DEF Init, LockInv, OwnAnswer
<1>6. CallRun(0)
  <2>1. /\ toClient = <<>> /\ function = <<>> /\ epQueue = <<>> /\ toServer = <<>>
        /\ dataQueue = <<>> /\ promises = <<>> /\ written = 0 /\ epFuture = Waiting
        /\ aValid = FALSE /\ ~Reading
    BY <1>1 DEF Init, Reading
  <2>2. Done(0) = 0 /\ Taken(0) = 0
    BY <2>1 DEF Done, Taken
  <2>3. Handed(0) = 0
    BY <1>3, <2>2 DEF Handed, Bit
  <2>4. Fetched(0) = 0
    BY <2>1, <2>3 DEF Fetched, Bit
  <2>5. Promised(0) = 0
    BY <2>1, <2>4 DEF Promised, Bit
  <2>6. Received(0) = 0
    BY <2>1, <2>5 DEF Received
  <2>7. DesignRun(0)
    BY <1>3, <2>1 DEF DesignRun, Run
  <2>8. ServerRun(0)
    BY <2>1, <2>6 DEF ServerRun, Run
  <2>9. PortRun(0)
    BY <2>1 DEF PortRun, Run, Bit
  <2>10. QED
    BY <2>7, <2>8, <2>9 DEF CallRun
<1>7. QED
  BY <1>4, <1>5, <1>6 DEF CallInv

LEMMA CallStep ==
    ASSUME CallInv, [Next]_vars
    PROVE  CallInv'
<1> USE DEF CallInv
<1>1. CASE UNCHANGED vars
  <2>1. UNCHANGED <<callMutex, caller, promises, dataQueue, written, toServer, epQueue,
                    epFuture, aValid, a, stage, function, lost, toClient>>
    BY <1>1 DEF vars, hostVars, simVars
  <2>2. Types' /\ StageInv' /\ LockInv' /\ OwnAnswer'
    BY <2>1 DEF Types, StageInv, LockInv, OwnAnswer
  <2>3. ASSUME NEW n \in Nat, CallRun(n) PROVE CallRun(n)'
    BY <2>1, <2>3, DesignStays, ServerStays, PortStays DEF CallRun
  <2>4. QED
    BY <2>1, <2>2, <2>3
<1>2. CASE Next
  <2>1. Types' /\ StageInv' /\ LockInv'
    BY <1>2, TypesStep, LockStep
  <2>2. CASE lost'
    BY <2>1, <2>2 DEF OwnAnswer
  <2>3. CASE ~lost'
    <3>1. ~lost
      BY <1>2, <2>3 DEF Next, CallerStep, Lock, WriteArg, ReadResult, Return, ResultArrives,
         FrameArrives, Clock, Reset, simVars
    <3>2. PICK n \in Nat : CallRun(n)
      BY <3>1
    <3>3. UNCHANGED caller => OwnAnswer'
      BY <2>3, <3>1 DEF OwnAnswer
    <3>4. ASSUME NEW c \in Callers, Lock(c) \/ CallerStep(c) PROVE CallRun(n)' /\ OwnAnswer'
      BY <3>1, <3>2, <3>4, CallerRun
    <3>5. CASE ResultArrives
      BY <2>1, <3>1, <3>2, <3>5, ResultRun
    <3>6. CASE FrameArrives
      BY <2>1, <3>1, <3>2, <3>3, <3>6, FrameRun DEF FrameArrives, hostVars
    <3>7. ASSUME NEW ready \in BOOLEAN, NEW done \in BOOLEAN, Clock(ready, done)
          PROVE  CallRun(n)' /\ OwnAnswer'
      BY <2>1, <3>2, <3>3, <3>7, ClockRun DEF Clock, hostVars
    <3>8. ASSUME NEW ready \in BOOLEAN, Reset(ready) PROVE CallRun(n)' /\ OwnAnswer'
      BY <2>3, <3>2, <3>3, <3>8, ResetRun DEF Reset, hostVars
    <3>9. QED
      BY <1>2, <2>1, <3>4, <3>5, <3>6, <3>7, <3>8 DEF Next
  <2>4. QED
    BY <2>2, <2>3
<1>3. QED
  BY <1>1, <1>2

\* Every caller of a function gets the result of its own call, although nothing on the way
\* carries the name of the caller, for any number of threads and any timing of the
\* simulation, unless a reset destroyed a call (Services.cpp, Function::call).
THEOREM OwnAnswerCorrect == FairSpec => []OwnAnswer
<1>1. CallInv => OwnAnswer
  BY DEF CallInv
<1>2. QED
  BY <1>1, CallInit, CallStep, PTL DEF FairSpec

=============================================================================
