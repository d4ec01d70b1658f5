--------------------------- MODULE DmaLoopback_proof ---------------------------
(***************************************************************************)
(* Proofs about DmaLoopback, for any number of writers, frames of a message, *)
(* messages and places in the channel between the devices.                   *)
(*                                                                          *)
(* Each engine has one buffer, which goes round: the host has it, or it is    *)
(* offered to the device, in the hands of host memory, or done.  The stages   *)
(* say that it is in one of these places and that all others are empty.       *)
(* They need what the code asks of its users: one thread polls the port, and  *)
(* (section 4 of the README) a port that is connected once.                   *)
(***************************************************************************)
EXTENDS DmaLoopback, SequenceTheorems, FiniteSetTheorems, TLAPS

-----------------------------------------------------------------------------
(* Runs of consecutive numbers *)

Bit(b) == IF b THEN 1 ELSE 0

\* s holds n + 1, n + 2 and so on.
Run(s, n) == \A i \in 1..Len(s) : s[i] = n + i

LEMMA RunTail ==
    ASSUME NEW s \in Seq(Nat), s # <<>>, NEW n \in Int, Run(s, n)
    PROVE  /\ Tail(s) \in Seq(Nat) /\ Head(s) \in Nat
           /\ Len(s) \in Nat /\ Len(s) >= 1 /\ Len(Tail(s)) = Len(s) - 1
           /\ Head(s) = n + 1 /\ Run(Tail(s), n + 1)
<1>1. /\ Len(Tail(s)) = Len(s) - 1 /\ Len(s) \in Nat /\ Len(s) >= 1
      /\ \A i \in 1..Len(Tail(s)) : Tail(s)[i] = s[i + 1]
      /\ Tail(s) \in Seq(Nat) /\ Head(s) \in Nat /\ Head(s) = s[1]
  BY HeadTailProperties, EmptySeq
<1>2. ASSUME NEW i \in 1..Len(Tail(s)) PROVE Tail(s)[i] = n + 1 + i
  <2>1. i + 1 \in 1..Len(s)
    BY <1>1
  <2>2. Tail(s)[i] = n + (i + 1)
    BY <1>1, <2>1 DEF Run
  <2>3. QED
    BY <2>2
<1>3. Head(s) = n + 1
  BY <1>1 DEF Run
<1>4. QED
  BY <1>1, <1>2, <1>3 DEF Run

LEMMA RunAppend ==
    ASSUME NEW s \in Seq(Nat), NEW n \in Int, NEW x \in Nat, Run(s, n), x = n + Len(s) + 1
    PROVE  /\ Append(s, x) \in Seq(Nat) /\ Append(s, x) # <<>>
           /\ Len(s) \in Nat /\ Len(Append(s, x)) = Len(s) + 1
           /\ Run(Append(s, x), n)
<1>1. /\ Len(Append(s, x)) = Len(s) + 1 /\ Len(s) \in Nat
      /\ Append(s, x) \in Seq(Nat) /\ Append(s, x) # <<>>
      /\ \A i \in 1..Len(s) : Append(s, x)[i] = s[i]
      /\ Append(s, x)[Len(s) + 1] = x
  BY AppendProperties
<1>2. ASSUME NEW i \in 1..(Len(s) + 1) PROVE Append(s, x)[i] = n + i
  <2>1. CASE i = Len(s) + 1
    BY <1>1, <2>1
  <2>2. CASE i # Len(s) + 1
    <3>1. i \in 1..Len(s)
      BY <1>1, <2>2
    <3>2. QED
      BY <1>1, <3>1 DEF Run
  <2>3. QED
    BY <2>1, <2>2
<1>3. QED
  BY <1>1, <1>2 DEF Run

LEMMA RunEmpty ==
    ASSUME NEW n \in Int
    PROVE  <<>> \in Seq(Nat) /\ Len(<<>>) = 0 /\ Run(<<>>, n)
BY DEF Run

LEMMA RunConcat ==
    ASSUME NEW s \in Seq(Nat), NEW t \in Seq(Nat), NEW n \in Int, Run(s, n), Run(t, n + Len(s))
    PROVE  /\ s \o t \in Seq(Nat) /\ Len(s \o t) = Len(s) + Len(t)
           /\ Len(s) \in Nat /\ Len(t) \in Nat
           /\ Run(s \o t, n)
<1>1. /\ s \o t \in Seq(Nat) /\ Len(s \o t) = Len(s) + Len(t) /\ Len(s) \in Nat /\ Len(t) \in Nat
      /\ \A i \in 1..(Len(s) + Len(t)) :
            (s \o t)[i] = IF i <= Len(s) THEN s[i] ELSE t[i - Len(s)]
  BY ConcatProperties, LenProperties
<1>2. ASSUME NEW i \in 1..(Len(s) + Len(t)) PROVE (s \o t)[i] = n + i
  <2>1. CASE i <= Len(s)
    <3>1. i \in 1..Len(s) /\ (s \o t)[i] = s[i]
      BY <1>1, <2>1
    <3>2. QED
      BY <3>1 DEF Run
  <2>2. CASE ~(i <= Len(s))
    <3>1. i - Len(s) \in 1..Len(t) /\ (s \o t)[i] = t[i - Len(s)]
      BY <1>1, <2>2
    <3>2. t[i - Len(s)] = n + Len(s) + (i - Len(s))
      BY <3>1 DEF Run
    <3>3. QED
      BY <1>1, <3>1, <3>2
  <2>3. QED
    BY <2>1, <2>2
<1>3. QED
  BY <1>1, <1>2 DEF Run

LEMMA RunOne ==
    ASSUME NEW n \in Int, NEW x \in Nat, x = n + 1
    PROVE  <<x>> \in Seq(Nat) /\ Len(<<x>>) = 1 /\ Run(<<x>>, n)
<1>1. <<x>> \in Seq(Nat) /\ Len(<<x>>) = 1 /\ <<x>>[1] = x
  OBVIOUS
<1>2. QED
  BY <1>1 DEF Run

LEMMA RunIs ==
    ASSUME NEW s \in Seq(Nat), Run(s, 0), NEW n, n = Len(s)
    PROVE  s = [i \in 1..n |-> i]
<1>1. s = [i \in 1..Len(s) |-> s[i]]
  BY SeqDef
<1>2. \A i \in 1..Len(s) : s[i] = i
  BY DEF Run
<1>3. QED
  BY <1>1, <1>2

LEMMA RunNext ==
    ASSUME NEW n \in Nat, NEW k \in Nat
    PROVE  /\ [i \in 1..k |-> n + i] \in Seq(Nat) /\ Len([i \in 1..k |-> n + i]) = k
           /\ Run([i \in 1..k |-> n + i], n)
<1>1. [i \in 1..k |-> n + i] \in Seq(Nat)
  BY SeqDef
<1>2. Len([i \in 1..k |-> n + i]) = k
  <2>1. /\ Len([i \in 1..k |-> n + i]) \in Nat
        /\ 1..k = 1..Len([i \in 1..k |-> n + i])
    BY <1>1, LenProperties
  <2>2. QED
    BY <2>1
<1>3. QED
  BY <1>1, <1>2 DEF Run

-----------------------------------------------------------------------------
(* The frames of the write port *)

\* The frames of the write port, from those delivered to those in the queue: d are
\* delivered, out is in the output register, resps are answers of host memory, x is the
\* frame in the buffer if u says that it is unread, pf is the queue, q frames were queued.
FrameRun(d, out, resps, u, x, pf, q) ==
    /\ Run(d, 0)
    /\ out # 0 => out = Len(d) + 1
    /\ Run(resps, Len(d) + Bit(out # 0))
    /\ u => x = Len(d) + Bit(out # 0) + Len(resps) + 1
    /\ Run(pf, Len(d) + Bit(out # 0) + Len(resps) + Bit(u))
    /\ q = Len(d) + Bit(out # 0) + Len(resps) + Bit(u) + Len(pf)

LEMMA FrameTypes ==
    ASSUME NEW d \in Seq(Nat), NEW out \in Nat, NEW resps \in Seq(Nat), NEW u \in BOOLEAN,
           NEW x, NEW pf \in Seq(Nat), NEW q, FrameRun(d, out, resps, u, x, pf, q)
    PROVE  /\ Len(d) \in Nat /\ Len(resps) \in Nat /\ Len(pf) \in Nat
           /\ Bit(out # 0) \in Nat /\ Bit(u) \in Nat /\ q \in Nat
<1>1. /\ Len(d) \in Nat /\ Len(resps) \in Nat /\ Len(pf) \in Nat
      /\ Bit(out # 0) \in Nat /\ Bit(u) \in Nat
  BY LenProperties DEF Bit
<1>2. QED
  BY <1>1 DEF FrameRun

NextFrames(q, k) == [i \in 1..k |-> q + i]

\* A writer queues the frames of a message.
LEMMA FrameQueued ==
    ASSUME NEW d \in Seq(Nat), NEW out \in Nat, NEW resps \in Seq(Nat), NEW u \in BOOLEAN,
           NEW x, NEW pf \in Seq(Nat), NEW q \in Nat, NEW k \in Nat,
           FrameRun(d, out, resps, u, x, pf, q)
    PROVE  FrameRun(d, out, resps, u, x, pf \o NextFrames(q, k), q + k)
<1> DEFINE b == Len(d) + Bit(out # 0) + Len(resps) + Bit(u)
           s == NextFrames(q, k)
<1>1. Len(pf) \in Nat /\ b \in Nat /\ q \in Nat /\ q = b + Len(pf) /\ Run(pf, b)
  <2>1. /\ Len(d) \in Nat /\ Len(resps) \in Nat /\ Len(pf) \in Nat
        /\ Bit(out # 0) \in Nat /\ Bit(u) \in Nat /\ q \in Nat
    BY FrameTypes
  <2>2. b \in Nat
    BY <2>1
  <2>3. QED
    BY <2>1, <2>2 DEF FrameRun
<1>2. s \in Seq(Nat) /\ Len(s) = k /\ Run(s, q)
  BY <1>1, RunNext DEF NextFrames
<1> HIDE DEF b, s
<1>3. Run(s, b + Len(pf)) /\ b \in Int
  BY <1>1, <1>2
<1>4. pf \o s \in Seq(Nat) /\ Len(pf \o s) = Len(pf) + k /\ Run(pf \o s, b)
  BY <1>1, <1>2, <1>3, RunConcat
<1>5. q + k = b + Len(pf \o s)
  BY <1>1, <1>4
<1>6. FrameRun(d, out, resps, u, x, pf \o s, q + k)
  BY <1>4, <1>5 DEF FrameRun, b
<1>7. QED
  BY <1>4, <1>6 DEF s

\* The first frame of the queue goes to the buffer.
LEMMA FrameFilled ==
    ASSUME NEW d \in Seq(Nat), NEW out \in Nat, NEW resps \in Seq(Nat),
           NEW x, NEW pf \in Seq(Nat), NEW q, FrameRun(d, out, resps, FALSE, x, pf, q),
           pf # <<>>
    PROVE  /\ Head(pf) \in Nat /\ Tail(pf) \in Seq(Nat) /\ Len(Tail(pf)) = Len(pf) - 1
           /\ FrameRun(d, out, resps, TRUE, Head(pf), Tail(pf), q)
<1> DEFINE b == Len(d) + Bit(out # 0) + Len(resps)
<1>1. Len(pf) \in Nat /\ b \in Nat /\ q = b + Len(pf) /\ Run(pf, b)
  <2>1. /\ Len(pf) \in Nat /\ b \in Nat /\ Bit(FALSE) = 0
        /\ q = b + Bit(FALSE) + Len(pf) /\ Run(pf, b + Bit(FALSE))
    BY FrameTypes DEF FrameRun, Bit
  <2>2. b + 0 = b
    BY <2>1
  <2>3. QED
    BY <2>1, <2>2
<1> HIDE DEF b
<1>2. /\ Head(pf) = b + 1 /\ Head(pf) \in Nat /\ Tail(pf) \in Seq(Nat)
      /\ Len(Tail(pf)) = Len(pf) - 1 /\ Run(Tail(pf), b + 1)
  BY <1>1, RunTail
<1>3. q = b + 1 + Len(Tail(pf))
  BY <1>1, <1>2
<1>4. Bit(TRUE) = 1
  BY DEF Bit
<1>5. Run(Tail(pf), b + Bit(TRUE)) /\ q = b + Bit(TRUE) + Len(Tail(pf))
  BY <1>2, <1>3, <1>4
<1>6. FrameRun(d, out, resps, TRUE, Head(pf), Tail(pf), q)
  BY <1>2, <1>5 DEF FrameRun, b
<1>7. QED
  BY <1>2, <1>6

\* Host memory answers with it.
LEMMA FrameAnswered ==
    ASSUME NEW d \in Seq(Nat), NEW out \in Nat, NEW x \in Nat, NEW pf \in Seq(Nat), NEW q,
           FrameRun(d, out, <<>>, TRUE, x, pf, q), NEW y
    PROVE  <<x>> \in Seq(Nat) /\ Len(<<x>>) = 1 /\ FrameRun(d, out, <<x>>, FALSE, y, pf, q)
<1> DEFINE b == Len(d) + Bit(out # 0)
<1>1. Len(pf) \in Nat /\ b \in Nat /\ Bit(TRUE) = 1 /\ Bit(FALSE) = 0 /\ Len(<<>>) = 0
  BY LenProperties DEF Bit
<1>2. x = b + Len(<<>>) + 1 /\ q = b + Len(<<>>) + Bit(TRUE) + Len(pf)
      /\ Run(pf, b + Len(<<>>) + Bit(TRUE))
  BY DEF FrameRun
<1> HIDE DEF b
<1>3. b + 0 + 1 = b + 1 /\ b + 1 + 0 = b + 1
  BY <1>1
<1>4. x = b + 1 /\ q = b + 1 + Len(pf) /\ Run(pf, b + 1)
  BY <1>1, <1>2, <1>3
<1>5. <<x>> \in Seq(Nat) /\ Len(<<x>>) = 1 /\ Run(<<x>>, b)
  BY <1>1, <1>4, RunOne
<1>6. Run(pf, b + Len(<<x>>) + Bit(FALSE)) /\ q = b + Len(<<x>>) + Bit(FALSE) + Len(pf)
  BY <1>1, <1>3, <1>4, <1>5
<1>7. Run(d, 0) /\ (out # 0 => out = Len(d) + 1)
  BY DEF FrameRun
<1>8. QED
  BY <1>5, <1>6, <1>7 DEF FrameRun, b

\* The answer enters the output register.
LEMMA FrameBuffered ==
    ASSUME NEW d \in Seq(Nat), NEW resps \in Seq(Nat), NEW x, NEW pf \in Seq(Nat), NEW q,
           FrameRun(d, 0, resps, FALSE, x, pf, q), Len(resps) = 1
    PROVE  /\ Head(resps) \in Nat /\ Head(resps) # 0 /\ Tail(resps) = <<>>
           /\ FrameRun(d, Head(resps), <<>>, FALSE, x, pf, q)
<1>1. /\ Len(d) \in Nat /\ Len(pf) \in Nat /\ Bit(0 # 0) = 0 /\ Bit(FALSE) = 0
      /\ Len(<<>>) = 0 /\ resps # <<>>
  <2>1. /\ Len(d) \in Nat /\ Len(pf) \in Nat /\ Bit(0 # 0) = 0 /\ Bit(FALSE) = 0
        /\ Len(<<>>) = 0
    BY LenProperties DEF Bit
  <2>2. Len(resps) # 0
    OBVIOUS
  <2>3. resps # <<>>
    BY <2>1, <2>2
  <2>4. QED
    BY <2>1, <2>3
<1>2. /\ Run(resps, Len(d) + Bit(0 # 0)) /\ Run(pf, Len(d) + Bit(0 # 0) + Len(resps) + Bit(FALSE))
      /\ q = Len(d) + Bit(0 # 0) + Len(resps) + Bit(FALSE) + Len(pf) /\ Run(d, 0)
  BY DEF FrameRun
<1>3. Len(d) + 0 = Len(d) /\ Len(d) + 0 + 1 + 0 = Len(d) + 1 /\ Len(d) + 1 + 0 + 0 = Len(d) + 1
  BY <1>1
<1>4. Run(resps, Len(d)) /\ Run(pf, Len(d) + 1) /\ q = Len(d) + 1 + Len(pf)
  BY <1>1, <1>2, <1>3
<1>5. /\ Head(resps) = Len(d) + 1 /\ Head(resps) \in Nat
      /\ Tail(resps) \in Seq(Nat) /\ Len(Tail(resps)) = 0
  BY <1>1, <1>4, RunTail
<1>6. Head(resps) # 0 /\ Bit(Head(resps) # 0) = 1 /\ Tail(resps) = <<>>
  <2>1. Head(resps) # 0
    BY <1>1, <1>5
  <2>2. Tail(resps) = <<>>
    BY <1>5, EmptySeq
  <2>3. QED
    BY <2>1, <2>2 DEF Bit
<1>7. Run(<<>>, Len(d) + Bit(Head(resps) # 0))
  BY <1>1 DEF Run
<1>8. /\ Run(pf, Len(d) + Bit(Head(resps) # 0) + Len(<<>>) + Bit(FALSE))
      /\ q = Len(d) + Bit(Head(resps) # 0) + Len(<<>>) + Bit(FALSE) + Len(pf)
  BY <1>1, <1>3, <1>4, <1>6
<1>9. QED
  BY <1>2, <1>5, <1>6, <1>7, <1>8 DEF FrameRun

\* The consumer behind the device takes it.
LEMMA FrameForwarded ==
    ASSUME NEW d \in Seq(Nat), NEW out \in Nat, NEW resps \in Seq(Nat), NEW u \in BOOLEAN,
           NEW x, NEW pf \in Seq(Nat), NEW q, FrameRun(d, out, resps, u, x, pf, q), out # 0
    PROVE  /\ Append(d, out) \in Seq(Nat) /\ Len(Append(d, out)) = Len(d) + 1
           /\ FrameRun(Append(d, out), 0, resps, u, x, pf, q)
<1>1. /\ Len(d) \in Nat /\ Len(resps) \in Nat /\ Len(pf) \in Nat /\ Bit(u) \in Nat
      /\ Bit(out # 0) = 1 /\ Bit(0 # 0) = 0
  BY FrameTypes DEF Bit
<1>2. out = Len(d) + 1 /\ Run(d, 0) /\ 0 \in Int /\ out = 0 + Len(d) + 1
  BY <1>1 DEF FrameRun
<1>3. Append(d, out) \in Seq(Nat) /\ Len(Append(d, out)) = Len(d) + 1 /\ Run(Append(d, out), 0)
  BY <1>2, RunAppend
<1>4. Len(Append(d, out)) + Bit(0 # 0) = Len(d) + Bit(out # 0)
  BY <1>1, <1>3
<1>5. QED
  BY <1>3, <1>4 DEF FrameRun

-----------------------------------------------------------------------------
(* The invariant of the write port *)

FromTypes ==
    /\ address \in Addresses \cup {Null} /\ connects \in Nat /\ connected \in BOOLEAN
    /\ pendingFrames \in Seq(Nat) /\ queued \in Nat
    /\ writer \in [Writers -> {"idle", "checked"}]
    /\ poller \in [Pollers -> {"idle", "ready", "filled", "sent"}]
    /\ dataBuffer \in [Addresses -> Nat] /\ completion \in [Addresses -> {0, 1}]
    /\ bufferLoc \in Addresses \cup {Null} /\ completionLoc \in Addresses \cup {Null}
    /\ readReqs \in Seq(Addresses) /\ readResps \in Seq(Nat) /\ writeReqs \in Seq(Addresses)
    /\ output \in Nat /\ completionPending \in BOOLEAN /\ delivered \in Seq(Nat)

PollersAt(s) == \A p \in Pollers : poller[p] \in s

\* Where the address of the data buffer is in the device; the last place says that the
\* frame is in the register and the completion owed.
AtNone == bufferLoc = Null /\ readReqs = <<>> /\ readResps = <<>> /\ ~completionPending
AtMailbox == bufferLoc = address /\ readReqs = <<>> /\ readResps = <<>> /\ ~completionPending
AtRequest ==
    bufferLoc = Null /\ readReqs = <<address>> /\ readResps = <<>> /\ ~completionPending
AtAnswer ==
    bufferLoc = Null /\ readReqs = <<>> /\ Len(readResps) = 1 /\ ~completionPending
AtRegister == bufferLoc = Null /\ readReqs = <<>> /\ readResps = <<>> /\ completionPending

\* The stages of the buffer.  Unconnected: there is none.
Unconnected ==
    /\ address = Null /\ connects = 0 /\ ~connected
    /\ PollersAt({"idle"}) /\ AtNone /\ completionLoc = Null /\ writeReqs = <<>>

\* The host may fill it, ...
Free ==
    /\ address # Null /\ completion[address] = 1
    /\ PollersAt({"idle", "ready"}) /\ AtNone /\ completionLoc = Null /\ writeReqs = <<>>

\* ... has filled it, ...
Filled ==
    /\ address # Null /\ completion[address] = 0
    /\ PollersAt({"filled"}) /\ Pollers # {}
    /\ AtNone /\ completionLoc = Null /\ writeReqs = <<>>

\* ... has told the device, perhaps not yet where the completion byte is; ...
Reading ==
    /\ address # Null /\ completion[address] = 0
    /\ \/ PollersAt({"sent"}) /\ completionLoc = Null
       \/ PollersAt({"idle"}) /\ completionLoc = address
    /\ AtMailbox \/ AtRequest \/ AtAnswer \/ AtRegister
    /\ writeReqs = <<>>

\* ... and the device has read it.
Answered ==
    /\ address # Null /\ completion[address] = 0
    /\ PollersAt({"idle"}) /\ AtNone /\ completionLoc = Null /\ writeReqs = <<address>>

BufferInv ==
    /\ Unconnected \/ Free \/ Filled \/ Reading \/ Answered
    /\ address # Null => connects = 1

FrameInv ==
    FrameRun(delivered, output, readResps, Unread, dataBuffer[address], pendingFrames, queued)

Checked == {w \in Writers : writer[w] = "checked"}

\* A writer that has found the queue empty may find the others' messages in it, but each
\* writer puts one there at most.
QueueInv ==
    Len(pendingFrames) + Frames * Cardinality(Checked) <= Frames * Cardinality(Writers)

FromInv == FromTypes /\ BufferInv /\ FrameInv /\ QueueInv

-----------------------------------------------------------------------------
(* The invariant of the read port *)

ToTypes ==
    /\ readAddress \in ReadAddresses \cup {To!Null} /\ readConnects \in Nat
    /\ readConnected \in BOOLEAN
    /\ pendingMessage \in Nat /\ consumed \in Seq(Nat)
    /\ readPoller \in {"idle", "deliver", "callback", "accepted", "cleared"}
    /\ readData \in [ReadAddresses -> Nat] /\ readValid \in [ReadAddresses -> {0, 1}]
    /\ readLoc \in ReadAddresses \cup {To!Null} /\ produced \in Nat /\ taken \in Nat
    /\ readWriteReqs \in Seq([to : ReadAddresses, n : Nat])

NotConnectedYet ==
    /\ readAddress = To!Null /\ readConnects = 0 /\ ~readConnected
    /\ readLoc = To!Null /\ readWriteReqs = <<>> /\ readPoller = "idle"
    /\ pendingMessage = 0 /\ taken = 0 /\ Len(consumed) = 0

\* The empty buffer is offered, ...
Offered ==
    /\ readAddress # To!Null /\ readValid[readAddress] = 0
    /\ readLoc = readAddress /\ readWriteReqs = <<>> /\ readPoller = "idle"
    /\ pendingMessage = 0 /\ taken = Len(consumed)

\* ... the device has written a message, ...
Written ==
    /\ readAddress # To!Null /\ readValid[readAddress] = 0
    /\ readLoc = To!Null /\ readWriteReqs = <<[to |-> readAddress, n |-> taken]>>
    /\ readPoller = "idle" /\ pendingMessage = 0 /\ taken = Len(consumed) + 1

\* ... which is in the buffer, and perhaps offered to the callback, ...
Full ==
    /\ readAddress # To!Null /\ readValid[readAddress] = 1 /\ readData[readAddress] = taken
    /\ readLoc = To!Null /\ readWriteReqs = <<>>
    /\ readPoller \in {"idle", "deliver", "callback"}
    /\ pendingMessage \in {0, taken} /\ (readPoller # "idle" => pendingMessage = taken)
    /\ taken = Len(consumed) + 1

\* ... and taken by it.
Done ==
    /\ readAddress # To!Null
    /\ \/ readPoller = "accepted" /\ readValid[readAddress] = 1
       \/ readPoller = "cleared" /\ readValid[readAddress] = 0
    /\ readLoc = To!Null /\ readWriteReqs = <<>> /\ pendingMessage = 0
    /\ taken = Len(consumed)

ToInv ==
    /\ ToTypes
    /\ NotConnectedYet \/ Offered \/ Written \/ Full \/ Done
    /\ readAddress # To!Null => readConnects = 1
    /\ Run(consumed, 0)

\* The channel between the devices.
ChannelInv ==
    /\ produced = Len(delivered)
    /\ taken <= produced /\ produced <= taken + Channel

DmaInv == FromInv /\ ToInv /\ ChannelInv

-----------------------------------------------------------------------------
(* The steps of the write port *)

OnePoller == \A p, q \in Pollers : p = q

\* There is one poller: where it is, all are.
LEMMA PollerAt ==
    ASSUME OnePoller, FromTypes, NEW p \in Pollers
    PROVE  /\ PollersAt({poller[p]}) /\ Pollers # {}
           /\ \A s : PollersAt(s) => poller[p] \in s
           /\ Unlocked <=> poller[p] \in {"idle", "ready"}
BY DEF OnePoller, PollersAt, Unlocked

LEMMA PollerMoves ==
    ASSUME OnePoller, FromTypes, NEW p \in Pollers, NEW s,
           poller' = [poller EXCEPT ![p] = s], s \in {"idle", "ready", "filled", "sent"}
    PROVE  /\ poller' \in [Pollers -> {"idle", "ready", "filled", "sent"}]
           /\ \A q \in Pollers : poller'[q] = s
<1>1. poller \in [Pollers -> {"idle", "ready", "filled", "sent"}]
  BY DEF FromTypes
<1>2. \A q \in Pollers : q = p
  BY DEF OnePoller
<1>3. QED
  BY <1>1, <1>2

\* What a stage says of the frame.
LEMMA StageFacts ==
    ASSUME BufferInv, OnePoller, FromTypes
    PROVE  /\ Unconnected \/ Free \/ Answered => Unread = FALSE /\ readResps = <<>>
           /\ Filled => Unread = TRUE /\ readResps = <<>>
           /\ Reading /\ (AtMailbox \/ AtRequest) => Unread = TRUE /\ readResps = <<>>
           /\ Reading /\ (AtAnswer \/ AtRegister) => Unread = FALSE
           /\ Unread \in BOOLEAN
<1>1. Unread \in BOOLEAN
  BY DEF Unread
<1>2. Unconnected \/ Free \/ Answered => Unread = FALSE /\ readResps = <<>>
  BY DEF Unconnected, Free, Answered, AtNone, PollersAt, Unread
<1>3. Filled => Unread = TRUE /\ readResps = <<>>
  BY <1>1 DEF Filled, AtNone, PollersAt, Unread
<1>4. Reading /\ (AtMailbox \/ AtRequest) => Unread = TRUE /\ readResps = <<>>
  BY <1>1 DEF Reading, AtMailbox, AtRequest, Unread
<1>5. Reading /\ (AtAnswer \/ AtRegister) => Unread = FALSE
  BY DEF Reading, AtAnswer, AtRegister, PollersAt, Unread
<1>6. QED
  BY <1>1, <1>2, <1>3, <1>4, <1>5

\* The contents of the buffer matter while it is unread.
LEMMA FrameStays ==
    ASSUME FrameInv, Unread' = Unread, UNCHANGED <<delivered, output, readResps, pendingFrames, queued>>,
           Unread => dataBuffer'[address'] = dataBuffer[address]
    PROVE  FrameInv'
BY DEF FrameInv, FrameRun

LEMMA ProductGrows ==
    ASSUME NEW f \in Nat, NEW m \in Nat, NEW k \in Nat, m <= k
    PROVE  f * m <= f * k
<1>1. f * k = f * m + f * (k - m)
  OBVIOUS
<1>2. k - m \in Nat
  OBVIOUS
<1>3. f * (k - m) \in Nat
  BY <1>2
<1>4. f * m \in Nat /\ f * k \in Nat
  OBVIOUS
<1>5. QED
  BY ONLY <1>1, <1>3, <1>4

LEMMA QueueStays ==
    ASSUME QueueInv, UNCHANGED <<writer, pendingFrames>>
    PROVE  QueueInv'
BY DEF QueueInv, Checked

\* The one connect finds nothing of an earlier connection.
LEMMA ConnectStep ==
    ASSUME FromInv, OnePoller, MaxConnects \in Nat, MaxConnects <= 1,
           NEW a \in Addresses, Connect(a)
    PROVE  FromInv'
<1>1. FromTypes /\ BufferInv /\ FrameInv /\ QueueInv /\ connects \in Nat
  BY DEF FromInv, FromTypes
<1>2. /\ UNCHANGED hostVars /\ UNCHANGED deviceVars /\ dataBuffer' = dataBuffer
      /\ connected' = TRUE /\ address' = a /\ connects' = connects + 1
      /\ completion' = [completion EXCEPT ![a] = 1] /\ connects < MaxConnects
  BY DEF Connect
<1>3. connects = 0 /\ Unconnected
  BY <1>1, <1>2 DEF BufferInv, Free, Filled, Reading, Answered
<1>4. /\ UNCHANGED <<pendingFrames, writer, poller, queued>>
      /\ UNCHANGED <<bufferLoc, completionLoc, readReqs, readResps, output, completionPending,
                     writeReqs, delivered>>
  BY <1>2 DEF hostVars, deviceVars
<1>5. completion \in [Addresses -> {0, 1}] /\ completion'[a] = 1
      /\ completion' \in [Addresses -> {0, 1}]
  BY <1>1, <1>2 DEF FromTypes
<1>6. FromTypes'
  BY <1>1, <1>2, <1>4, <1>5 DEF FromTypes
<1>7. a # Null
  BY FromHostAssumption
<1>8. Free' /\ connects' = 1
  BY <1>2, <1>3, <1>4, <1>5, <1>7 DEF Unconnected, Free, AtNone, PollersAt
<1>9. BufferInv'
  BY <1>8 DEF BufferInv
<1>10. Unread = FALSE /\ Unread' = FALSE
  BY <1>1, <1>3, <1>4, StageFacts DEF Unread
<1>11. FrameInv' /\ QueueInv'
  BY <1>1, <1>4, <1>10, FrameStays, QueueStays
<1>12. QED
  BY <1>6, <1>9, <1>11 DEF FromInv

\* A step that changes nothing the stages or the frames speak of.
LEMMA FromIdleStep ==
    ASSUME FromInv, connected' \in BOOLEAN, address = Null => connected' = connected,
           UNCHANGED <<address, connects>>, UNCHANGED hostVars, UNCHANGED memoryVars,
           UNCHANGED deviceVars
    PROVE  FromInv'
<1>1. FromTypes /\ BufferInv /\ FrameInv /\ QueueInv
  BY DEF FromInv
<1>2. /\ UNCHANGED <<pendingFrames, writer, poller, queued, dataBuffer, completion>>
      /\ UNCHANGED <<bufferLoc, completionLoc, readReqs, readResps, output, completionPending,
                     writeReqs, delivered>>
  BY DEF hostVars, deviceVars, memoryVars
<1>3. FromTypes'
  BY <1>1, <1>2 DEF FromTypes
<1>4. PollersAt({"idle"})' = PollersAt({"idle"}) /\ AtNone' = AtNone
  BY <1>2 DEF PollersAt, AtNone
<1>5. BufferInv'
  <2>1. Unconnected => Unconnected'
    BY <1>2, <1>4 DEF Unconnected
  <2>2. Free => Free'
    BY <1>2, <1>4 DEF Free, PollersAt
  <2>3. Filled => Filled'
    BY <1>2, <1>4 DEF Filled, PollersAt
  <2>4. Reading => Reading'
    BY <1>2, <1>4 DEF Reading, PollersAt, AtMailbox, AtRequest, AtAnswer, AtRegister
  <2>5. Answered => Answered'
    BY <1>2, <1>4 DEF Answered
  <2>6. QED
    BY <1>1, <2>1, <2>2, <2>3, <2>4, <2>5 DEF BufferInv
<1>6. Unread' = Unread
  BY <1>2 DEF Unread
<1>7. FrameInv' /\ QueueInv'
  BY <1>1, <1>2, <1>6, FrameStays, QueueStays
<1>8. QED
  BY <1>3, <1>5, <1>7 DEF FromInv

\* tryWriteImpl and enqueueFrames: a writer that found the queue empty is one of those
\* counted, and leaves the count with its frames.
LEMMA WriterStep ==
    ASSUME FromInv, NEW w \in Writers, TryWrite(w) \/ EnqueueFrames(w)
    PROVE  FromInv'
<1>1. FromTypes /\ BufferInv /\ FrameInv /\ QueueInv
  BY DEF FromInv
<1>2. /\ UNCHANGED <<address, connects, connected, poller, dataBuffer, completion>>
      /\ UNCHANGED <<bufferLoc, completionLoc, readReqs, readResps, output, completionPending,
                     writeReqs, delivered>>
  BY DEF TryWrite, EnqueueFrames, portVars, memoryVars, deviceVars
<1>3. PollersAt({"idle"})' = PollersAt({"idle"}) /\ AtNone' = AtNone
  BY <1>2 DEF PollersAt, AtNone
<1>4. BufferInv'
  <2>1. Unconnected => Unconnected'
    BY <1>2, <1>3 DEF Unconnected
  <2>2. Free => Free'
    BY <1>2, <1>3 DEF Free, PollersAt
  <2>3. Filled => Filled'
    BY <1>2, <1>3 DEF Filled, PollersAt
  <2>4. Reading => Reading'
    BY <1>2, <1>3 DEF Reading, PollersAt, AtMailbox, AtRequest, AtAnswer, AtRegister
  <2>5. Answered => Answered'
    BY <1>2, <1>3 DEF Answered
  <2>6. QED
    BY <1>1, <1>2, <2>1, <2>2, <2>3, <2>4, <2>5 DEF BufferInv
<1>5. Unread' = Unread
  BY <1>2 DEF Unread
<1>6. /\ IsFiniteSet(Writers) /\ IsFiniteSet(Checked) /\ Checked \subseteq Writers
      /\ Cardinality(Writers) \in Nat /\ Cardinality(Checked) \in Nat
      /\ Frames \in Nat /\ Frames >= 1
  <2>1. IsFiniteSet(Writers) /\ Frames \in Nat \ {0}
    BY FromHostAssumption
  <2>2. Checked \subseteq Writers
    BY DEF Checked
  <2>3. QED
    BY <2>1, <2>2, FS_Subset, FS_CardinalityType
<1>7. CASE TryWrite(w)
  <2>1. /\ pendingFrames = <<>> /\ UNCHANGED <<pendingFrames, queued>>
        /\ writer[w] = "idle" /\ writer' = [writer EXCEPT ![w] = "checked"]
    BY <1>7 DEF TryWrite
  <2>2. FromTypes'
    BY <1>1, <1>2, <2>1 DEF FromTypes
  <2>3. FrameInv'
    BY <1>1, <1>2, <1>5, <2>1, FrameStays
  <2>4. Checked' \subseteq Writers
    BY DEF Checked
  <2>5. Cardinality(Checked') <= Cardinality(Writers) /\ Cardinality(Checked') \in Nat
    BY <1>6, <2>4, FS_Subset, FS_CardinalityType
  <2>6. Len(pendingFrames') = 0
    BY <2>1
  <2>7. Frames * Cardinality(Checked') <= Frames * Cardinality(Writers)
    BY <1>6, <2>5, ProductGrows
  <2>8. Frames * Cardinality(Checked') \in Nat
    BY <1>6, <2>5
  <2>9. 0 + Frames * Cardinality(Checked') <= Frames * Cardinality(Writers)
    BY <2>7, <2>8
  <2>10. QueueInv'
    BY <2>6, <2>9 DEF QueueInv
  <2>11. QED
    BY <1>4, <2>2, <2>3, <2>10 DEF FromInv
<1>8. CASE EnqueueFrames(w)
  <2>1. /\ pendingFrames' = pendingFrames \o NextFrames(queued, Frames)
        /\ queued' = queued + Frames
        /\ writer[w] = "checked" /\ writer' = [writer EXCEPT ![w] = "idle"]
    BY <1>8 DEF EnqueueFrames, NextFrames
  <2>2. /\ FrameRun(delivered, output, readResps, Unread, dataBuffer[address], pendingFrames, queued)
        /\ delivered \in Seq(Nat) /\ output \in Nat /\ readResps \in Seq(Nat)
        /\ Unread \in BOOLEAN /\ pendingFrames \in Seq(Nat) /\ queued \in Nat
    BY <1>1 DEF FrameInv, FromTypes, Unread
  <2>3. /\ pendingFrames' \in Seq(Nat) /\ Len(pendingFrames') = Len(pendingFrames) + Frames
        /\ FrameRun(delivered, output, readResps, Unread, dataBuffer[address],
                    pendingFrames', queued')
    <3> DEFINE s == pendingFrames \o NextFrames(queued, Frames)
    <3>1. FrameRun(delivered, output, readResps, Unread, dataBuffer[address], s, queued + Frames)
      BY <1>6, <2>2, FrameQueued
    <3>2. s \in Seq(Nat) /\ Len(s) = Len(pendingFrames) + Frames
      <4>1. /\ NextFrames(queued, Frames) \in Seq(Nat)
            /\ Len(NextFrames(queued, Frames)) = Frames
        BY <1>6, <2>2, RunNext DEF NextFrames
      <4>2. /\ s \in Seq(Nat)
            /\ Len(s) = Len(pendingFrames) + Len(NextFrames(queued, Frames))
        BY <2>2, <4>1, ConcatProperties
      <4>3. QED
        BY <4>1, <4>2
    <3>3. QED
      BY <2>1, <3>1, <3>2
  <2>4. queued' \in Nat
    BY <1>6, <2>1, <2>2
  <2>5. FromTypes'
    BY <1>1, <1>2, <2>1, <2>3, <2>4 DEF FromTypes
  <2>6. FrameInv'
    BY <1>2, <1>5, <2>3 DEF FrameInv
  <2>7. Checked' = Checked \ {w} /\ w \in Checked
    <3>1. writer \in [Writers -> {"idle", "checked"}]
      BY <1>1 DEF FromTypes
    <3>2. \A v \in Writers : writer'[v] = "checked" <=> writer[v] = "checked" /\ v # w
      BY <2>1, <3>1
    <3>3. QED
      BY <2>1, <3>2 DEF Checked
  <2>8. Cardinality(Checked') = Cardinality(Checked) - 1
    BY <1>6, <2>7, FS_RemoveElement
  <2> DEFINE n == Len(pendingFrames)
             m == Cardinality(Checked)
             k == Cardinality(Writers)
  <2>9. n \in Nat /\ m \in Nat /\ k \in Nat /\ n + Frames * m <= Frames * k
    BY <1>1, <1>6, <2>2, LenProperties DEF QueueInv
  <2> HIDE DEF n, m, k
  <2>10. Frames * (m - 1) = Frames * m - Frames /\ Frames * m \in Nat
    BY <1>6, <2>9
  <2>11. n + Frames + Frames * (m - 1) <= Frames * k
    <3>1. Frames * k \in Nat
      BY <1>6, <2>9
    <3>2. QED
      BY ONLY <1>6, <2>9, <2>10, <3>1
  <2>12. QueueInv'
    BY <2>3, <2>8, <2>11 DEF QueueInv, n, m, k
  <2>13. QED
    BY <1>4, <2>5, <2>6, <2>12 DEF FromInv
<1>9. QED
  BY <1>7, <1>8

-----------------------------------------------------------------------------
(* pollImpl *)

LEMMA PollStep ==
    ASSUME FromInv, OnePoller, NEW p \in Pollers, Poll(p)
    PROVE  FromInv'
<1>1. FromTypes /\ BufferInv /\ FrameInv /\ QueueInv
  BY DEF FromInv
<1>2. /\ UNCHANGED <<address, connects, connected, writer, queued>>
      /\ UNCHANGED <<readReqs, readResps, output, completionPending, writeReqs, delivered>>
  BY DEF Poll, PollCheck, PollEmpty, PollFill, PollBufferPtr, PollCompletionPtr, portVars,
         memoryVars, deviceVars
<1>3. CASE PollCheck(p) \/ PollEmpty(p)
  <2> DEFINE s == IF PollCheck(p) THEN "ready" ELSE "idle"
  <2>1. /\ UNCHANGED <<pendingFrames, dataBuffer, completion, bufferLoc, completionLoc>>
        /\ poller' = [poller EXCEPT ![p] = s] /\ s \in {"idle", "ready"}
        /\ (connected /\ completion[address] = 1) \/ poller[p] = "ready"
    BY <1>3 DEF PollCheck, PollEmpty, memoryVars, deviceVars
  <2> HIDE DEF s
  <2>2. /\ poller' \in [Pollers -> {"idle", "ready", "filled", "sent"}]
        /\ \A q \in Pollers : poller'[q] \in {"idle", "ready"}
    BY <1>1, <2>1, PollerMoves
  <2>3. Free
    <3>1. ~Unconnected
      BY <1>1, <2>1, PollerAt DEF Unconnected
    <3>2. ~Filled /\ ~Reading /\ ~Answered
      <4>1. completion[address] = 1 \/ poller[p] = "ready"
        BY <2>1
      <4>2. \A t \in {{"filled"}, {"sent"}, {"idle"}} : PollersAt(t) => poller[p] \in t
        BY <1>1, PollerAt
      <4>3. QED
        BY <4>1, <4>2 DEF Filled, Reading, Answered
    <3>3. QED
      BY <1>1, <3>1, <3>2 DEF BufferInv
  <2>4. Free'
    BY <1>2, <2>1, <2>2, <2>3 DEF Free, AtNone, PollersAt
  <2>5. BufferInv'
    BY <1>1, <1>2, <2>4 DEF BufferInv
  <2>6. FromTypes'
    BY <1>1, <1>2, <2>1, <2>2 DEF FromTypes
  <2>7. Unread = FALSE /\ Unread' = FALSE
    <3>1. Unread = FALSE
      BY <1>1, <2>3, StageFacts
    <3>2. Unread' = FALSE
      BY <2>4 DEF Free, AtNone, PollersAt, Unread
    <3>3. QED
      BY <3>1, <3>2
  <2>8. FrameInv' /\ QueueInv'
    BY <1>1, <1>2, <2>1, <2>7, FrameStays, QueueStays
  <2>9. QED
    BY <2>5, <2>6, <2>8 DEF FromInv
<1>4. CASE PollFill(p)
  <2>1. /\ UNCHANGED <<bufferLoc, completionLoc>> /\ poller[p] = "ready"
        /\ poller' = [poller EXCEPT ![p] = "filled"]
        /\ pendingFrames # <<>> /\ pendingFrames' = Tail(pendingFrames)
        /\ dataBuffer' = [dataBuffer EXCEPT ![address] = Head(pendingFrames)]
        /\ completion' = [completion EXCEPT ![address] = 0]
    BY <1>4 DEF PollFill, deviceVars
  <2>2. /\ poller' \in [Pollers -> {"idle", "ready", "filled", "sent"}]
        /\ \A q \in Pollers : poller'[q] = "filled"
    BY <1>1, <2>1, PollerMoves
  <2>3. Free /\ Unread = FALSE /\ readResps = <<>> /\ address \in Addresses
    <3>1. Free
      BY <1>1, <2>1, PollerAt DEF BufferInv, Unconnected, Filled, Reading, Answered
    <3>2. QED
      BY <1>1, <3>1, StageFacts DEF Free, FromTypes
  <2>4. /\ pendingFrames \in Seq(Nat) /\ delivered \in Seq(Nat) /\ output \in Nat
        /\ FrameRun(delivered, output, readResps, FALSE, dataBuffer[address], pendingFrames, queued)
        /\ readResps \in Seq(Nat)
    BY <1>1, <2>3 DEF FrameInv, FromTypes
  <2>5. /\ Head(pendingFrames) \in Nat /\ Tail(pendingFrames) \in Seq(Nat)
        /\ Len(Tail(pendingFrames)) = Len(pendingFrames) - 1
        /\ FrameRun(delivered, output, readResps, TRUE, Head(pendingFrames),
                    Tail(pendingFrames), queued)
    BY <2>1, <2>4, FrameFilled
  <2>6. /\ dataBuffer' \in [Addresses -> Nat] /\ dataBuffer'[address] = Head(pendingFrames)
        /\ completion' \in [Addresses -> {0, 1}] /\ completion'[address] = 0
    BY <1>1, <2>1, <2>3, <2>5 DEF FromTypes
  <2>7. FromTypes'
    BY <1>1, <1>2, <2>1, <2>2, <2>5, <2>6 DEF FromTypes
  <2>8. Filled'
    BY <1>2, <2>1, <2>2, <2>3, <2>6 DEF Free, Filled, AtNone, PollersAt
  <2>9. Unread' = TRUE
    BY <2>2 DEF Unread
  <2>10. FrameInv'
    BY <1>2, <2>1, <2>5, <2>6, <2>9 DEF FrameInv
  <2>11. QueueInv'
    <3> DEFINE m == Frames * Cardinality(Checked)
               k == Frames * Cardinality(Writers)
    <3>1. Len(pendingFrames) + m <= k /\ Len(pendingFrames) \in Nat
      BY <1>1, <2>4, LenProperties DEF QueueInv
    <3>2. m \in Int /\ k \in Int
      <4>1. IsFiniteSet(Writers) /\ Checked \subseteq Writers /\ Frames \in Nat
        BY FromHostAssumption DEF Checked
      <4>2. Cardinality(Checked) \in Nat /\ Cardinality(Writers) \in Nat
        BY <4>1, FS_Subset, FS_CardinalityType
      <4>3. QED
        BY <4>1, <4>2
    <3> HIDE DEF m, k
    <3>3. Len(pendingFrames) - 1 + m <= k
      BY <3>1, <3>2
    <3>4. Checked' = Checked
      BY <1>2 DEF Checked
    <3>5. QED
      BY <2>1, <2>5, <3>3, <3>4 DEF QueueInv, m, k
  <2>12. QED
    BY <1>1, <1>2, <2>7, <2>8, <2>10, <2>11 DEF FromInv, BufferInv
<1>5. CASE PollBufferPtr(p)
  <2>1. /\ UNCHANGED <<pendingFrames, dataBuffer, completion, completionLoc>>
        /\ poller[p] = "filled" /\ poller' = [poller EXCEPT ![p] = "sent"]
        /\ bufferLoc' = address
    BY <1>5 DEF PollBufferPtr, memoryVars
  <2>2. /\ poller' \in [Pollers -> {"idle", "ready", "filled", "sent"}]
        /\ \A q \in Pollers : poller'[q] = "sent"
    BY <1>1, <2>1, PollerMoves
  <2>3. Filled /\ Unread = TRUE
    <3>1. Filled
      BY <1>1, <2>1, PollerAt DEF BufferInv, Unconnected, Free, Reading, Answered
    <3>2. QED
      BY <1>1, <3>1, StageFacts
  <2>4. Reading' /\ AtMailbox'
    BY <1>2, <2>1, <2>2, <2>3 DEF Filled, Reading, AtNone, AtMailbox, PollersAt
  <2>5. FromTypes'
    BY <1>1, <1>2, <2>1, <2>2 DEF FromTypes
  <2>6. Unread' = TRUE
    BY <2>4 DEF Reading, AtMailbox, Unread
  <2>7. FrameInv' /\ QueueInv'
    BY <1>1, <1>2, <2>1, <2>3, <2>6, FrameStays, QueueStays
  <2>8. QED
    BY <1>1, <1>2, <2>4, <2>5, <2>7 DEF FromInv, BufferInv
<1>6. CASE PollCompletionPtr(p)
  <2>1. /\ UNCHANGED <<pendingFrames, dataBuffer, completion, bufferLoc>>
        /\ poller[p] = "sent" /\ poller' = [poller EXCEPT ![p] = "idle"]
        /\ completionLoc' = address
    BY <1>6 DEF PollCompletionPtr, memoryVars
  <2>2. /\ poller' \in [Pollers -> {"idle", "ready", "filled", "sent"}]
        /\ \A q \in Pollers : poller'[q] = "idle"
    BY <1>1, <2>1, PollerMoves
  <2>3. Reading
    BY <1>1, <2>1, PollerAt DEF BufferInv, Unconnected, Free, Filled, Answered
  <2>4. /\ AtMailbox' = AtMailbox /\ AtRequest' = AtRequest /\ AtAnswer' = AtAnswer
        /\ AtRegister' = AtRegister
    BY <1>2, <2>1 DEF AtMailbox, AtRequest, AtAnswer, AtRegister
  <2>5. Reading'
    BY <1>2, <2>1, <2>2, <2>3, <2>4 DEF Reading, PollersAt
  <2>6. FromTypes'
    BY <1>1, <1>2, <2>1, <2>2 DEF FromTypes
  <2>7. Unread' = Unread
    <3>1. \A q \in Pollers : poller[q] # "filled"
      BY <1>1, <2>1, PollerAt DEF PollersAt
    <3>2. QED
      BY <1>2, <2>1, <2>2, <3>1 DEF Unread
  <2>8. FrameInv' /\ QueueInv'
    BY <1>1, <1>2, <2>1, <2>7, FrameStays, QueueStays
  <2>9. QED
    BY <1>1, <1>2, <2>5, <2>6, <2>8 DEF FromInv, BufferInv
<1>7. QED
  BY <1>3, <1>4, <1>5, <1>6 DEF Poll

-----------------------------------------------------------------------------
(* The device and host memory *)

\* Stages with nothing in the device.
LEMMA StageWithout ==
    ASSUME BufferInv, bufferLoc # Null \/ readReqs # <<>> \/ readResps # <<>>
                      \/ completionLoc # Null \/ completionPending
    PROVE  Reading
BY DEF BufferInv, Unconnected, Free, Filled, Answered, AtNone

\* The address goes from the mailbox to host memory.
LEMMA DeviceReadStep ==
    ASSUME FromInv, OnePoller, DeviceRead
    PROVE  FromInv'
<1>1. FromTypes /\ BufferInv /\ FrameInv /\ QueueInv
  BY DEF FromInv
<1>2. /\ UNCHANGED <<address, connects, connected, pendingFrames, writer, poller, queued>>
      /\ UNCHANGED <<dataBuffer, completion, completionLoc, readResps, output,
                     completionPending, writeReqs, delivered>>
      /\ bufferLoc # Null /\ bufferLoc' = Null /\ readReqs' = Append(readReqs, bufferLoc)
  BY DEF DeviceRead, portVars, hostVars, memoryVars
<1>3. Reading /\ AtMailbox /\ bufferLoc = address
  <2>1. Reading
    BY <1>1, <1>2, StageWithout
  <2>2. QED
    BY <1>2, <2>1 DEF Reading, AtMailbox, AtRequest, AtAnswer, AtRegister
<1>4. readReqs' = <<address>> /\ address \in Addresses /\ readReqs' \in Seq(Addresses)
  BY <1>1, <1>2, <1>3 DEF AtMailbox, FromTypes
<1>5. AtRequest'
  BY <1>2, <1>3, <1>4 DEF AtMailbox, AtRequest
<1>6. Reading'
  BY <1>2, <1>3, <1>5 DEF Reading, PollersAt
<1>7. FromTypes'
  BY <1>1, <1>2, <1>4 DEF FromTypes
<1>8. Unread = TRUE /\ Unread' = TRUE
  <2>1. Unread = TRUE
    BY <1>1, <1>3, StageFacts
  <2>2. readReqs' # <<>>
    BY <1>4
  <2>3. QED
    BY <2>1, <2>2 DEF Unread
<1>9. FrameInv' /\ QueueInv'
  BY <1>1, <1>2, <1>8, FrameStays, QueueStays
<1>10. QED
  BY <1>1, <1>2, <1>6, <1>7, <1>9 DEF FromInv, BufferInv

\* Host memory answers with the frame.
LEMMA ServeReadStep ==
    ASSUME FromInv, OnePoller, ServeRead
    PROVE  FromInv'
<1>1. FromTypes /\ BufferInv /\ FrameInv /\ QueueInv
  BY DEF FromInv
<1>2. /\ UNCHANGED <<address, connects, connected, pendingFrames, writer, poller, queued>>
      /\ UNCHANGED <<dataBuffer, completion, bufferLoc, completionLoc, output,
                     completionPending, writeReqs, delivered>>
      /\ readReqs # <<>> /\ readReqs' = Tail(readReqs)
  BY DEF ServeRead, portVars, hostVars, memoryVars
<1>3. Reading /\ AtRequest /\ readReqs = <<address>> /\ readResps = <<>>
  <2>1. Reading
    BY <1>1, <1>2, StageWithout
  <2>2. QED
    BY <1>2, <2>1 DEF Reading, AtMailbox, AtRequest, AtAnswer, AtRegister
<1>4. Head(readReqs) = address /\ readReqs' = <<>> /\ address \in Addresses
  BY <1>1, <1>2, <1>3 DEF Reading, FromTypes
<1>5. readResps' = <<dataBuffer[address]>>
  BY <1>3, <1>4 DEF ServeRead
<1>6. /\ FrameRun(delivered, output, <<>>, TRUE, dataBuffer[address], pendingFrames, queued)
      /\ dataBuffer[address] \in Nat /\ delivered \in Seq(Nat) /\ output \in Nat
      /\ pendingFrames \in Seq(Nat)
  <2>1. Unread = TRUE /\ readResps = <<>>
    BY <1>1, <1>3, StageFacts
  <2>2. FrameRun(delivered, output, readResps, Unread, dataBuffer[address], pendingFrames, queued)
    BY <1>1 DEF FrameInv
  <2>3. QED
    BY <1>1, <1>4, <2>1, <2>2 DEF FromTypes
<1>7. /\ readResps' \in Seq(Nat) /\ Len(readResps') = 1
      /\ FrameRun(delivered, output, readResps', FALSE, dataBuffer[address], pendingFrames, queued)
  BY <1>5, <1>6, FrameAnswered
<1>8. AtAnswer'
  BY <1>2, <1>3, <1>4, <1>7 DEF AtRequest, AtAnswer
<1>9. Reading'
  BY <1>2, <1>3, <1>8 DEF Reading, PollersAt
<1>10. FromTypes'
  BY <1>1, <1>2, <1>4, <1>7 DEF FromTypes
<1>11. Unread' = FALSE
  BY <1>8, <1>9 DEF Reading, AtAnswer, PollersAt, Unread
<1>12. FrameInv' /\ QueueInv'
  BY <1>1, <1>2, <1>7, <1>11, QueueStays DEF FrameInv
<1>13. QED
  BY <1>1, <1>2, <1>9, <1>10, <1>12 DEF FromInv, BufferInv

\* The frame enters the register.
LEMMA DeviceBufferStep ==
    ASSUME FromInv, OnePoller, DeviceBuffer
    PROVE  FromInv'
<1>1. FromTypes /\ BufferInv /\ FrameInv /\ QueueInv
  BY DEF FromInv
<1>2. /\ UNCHANGED <<address, connects, connected, pendingFrames, writer, poller, queued>>
      /\ UNCHANGED <<dataBuffer, completion, bufferLoc, completionLoc, readReqs,
                     writeReqs, delivered>>
      /\ readResps # <<>> /\ output = 0 /\ output' = Head(readResps)
      /\ readResps' = Tail(readResps) /\ completionPending' = TRUE
  BY DEF DeviceBuffer, portVars, hostVars, memoryVars
<1>3. Reading /\ AtAnswer /\ Len(readResps) = 1 /\ Unread = FALSE
  <2>1. Reading
    BY <1>1, <1>2, StageWithout
  <2>2. AtAnswer
    BY <1>2, <2>1 DEF Reading, AtMailbox, AtRequest, AtAnswer, AtRegister
  <2>3. QED
    BY <1>1, <2>1, <2>2, StageFacts DEF AtAnswer
<1>4. /\ FrameRun(delivered, 0, readResps, FALSE, dataBuffer[address], pendingFrames, queued)
      /\ delivered \in Seq(Nat) /\ readResps \in Seq(Nat) /\ pendingFrames \in Seq(Nat)
  BY <1>1, <1>2, <1>3 DEF FrameInv, FromTypes
<1>5. /\ output' \in Nat /\ readResps' = <<>>
      /\ FrameRun(delivered, output', <<>>, FALSE, dataBuffer[address], pendingFrames, queued)
  BY <1>2, <1>3, <1>4, FrameBuffered
<1>6. AtRegister'
  BY <1>2, <1>3, <1>5 DEF AtAnswer, AtRegister
<1>7. Reading'
  BY <1>2, <1>3, <1>6 DEF Reading, PollersAt
<1>8. FromTypes'
  <2>1. readResps' \in Seq(Nat)
    BY <1>5
  <2>2. QED
    BY <1>1, <1>2, <1>5, <2>1 DEF FromTypes
<1>9. Unread' = FALSE
  BY <1>6, <1>7 DEF Reading, AtRegister, PollersAt, Unread
<1>10. FrameInv' /\ QueueInv'
  BY <1>1, <1>2, <1>5, <1>9, QueueStays DEF FrameInv
<1>11. QED
  BY <1>1, <1>2, <1>7, <1>8, <1>10 DEF FromInv, BufferInv

\* The completion goes to host memory once its address is known, and sets the byte.
LEMMA DeviceCompleteStep ==
    ASSUME FromInv, OnePoller, DeviceComplete
    PROVE  FromInv'
<1>1. FromTypes /\ BufferInv /\ FrameInv /\ QueueInv
  BY DEF FromInv
<1>2. /\ UNCHANGED <<address, connects, connected, pendingFrames, writer, poller, queued>>
      /\ UNCHANGED <<dataBuffer, completion, bufferLoc, readReqs, readResps, output, delivered>>
      /\ completionLoc # Null /\ completionPending /\ completionLoc' = Null
      /\ completionPending' = FALSE /\ writeReqs' = Append(writeReqs, completionLoc)
  BY DEF DeviceComplete, portVars, hostVars, memoryVars
<1>3. Reading /\ AtRegister /\ completionLoc = address /\ PollersAt({"idle"}) /\ Unread = FALSE
  <2>1. Reading
    BY <1>1, <1>2, StageWithout
  <2>2. AtRegister /\ completionLoc = address /\ PollersAt({"idle"})
    BY <1>2, <2>1 DEF Reading, AtMailbox, AtRequest, AtAnswer, AtRegister
  <2>3. QED
    BY <1>1, <2>1, <2>2, StageFacts
<1>4. writeReqs' = <<address>> /\ address \in Addresses /\ writeReqs' \in Seq(Addresses)
  BY <1>1, <1>2, <1>3 DEF Reading, FromTypes
<1>5. Answered'
  BY <1>2, <1>3, <1>4 DEF Reading, AtRegister, Answered, AtNone, PollersAt
<1>6. FromTypes'
  BY <1>1, <1>2, <1>4 DEF FromTypes
<1>7. Unread' = FALSE
  BY <1>5 DEF Answered, AtNone, PollersAt, Unread
<1>8. FrameInv' /\ QueueInv'
  BY <1>1, <1>2, <1>3, <1>7, FrameStays, QueueStays
<1>9. QED
  BY <1>1, <1>2, <1>5, <1>6, <1>8 DEF FromInv, BufferInv

LEMMA ServeWriteStep ==
    ASSUME FromInv, OnePoller, ServeWrite
    PROVE  FromInv'
<1>1. FromTypes /\ BufferInv /\ FrameInv /\ QueueInv
  BY DEF FromInv
<1>2. /\ UNCHANGED <<address, connects, connected, pendingFrames, writer, poller, queued>>
      /\ UNCHANGED <<dataBuffer, bufferLoc, completionLoc, readReqs, readResps, output,
                     completionPending, delivered>>
      /\ writeReqs # <<>> /\ writeReqs' = Tail(writeReqs)
      /\ completion' = [completion EXCEPT ![Head(writeReqs)] = 1]
  BY DEF ServeWrite, portVars, hostVars
<1>3. Answered /\ Unread = FALSE
  <2>1. Answered
    BY <1>1, <1>2 DEF BufferInv, Unconnected, Free, Filled, Reading
  <2>2. QED
    BY <1>1, <2>1, StageFacts
<1>4. Head(writeReqs) = address /\ writeReqs' = <<>> /\ address \in Addresses
  BY <1>1, <1>2, <1>3 DEF Answered, FromTypes
<1>5. completion' \in [Addresses -> {0, 1}] /\ completion'[address] = 1
  BY <1>1, <1>2, <1>4 DEF FromTypes
<1>6. Free'
  BY <1>2, <1>3, <1>4, <1>5 DEF Answered, Free, AtNone, PollersAt
<1>7. FromTypes'
  BY <1>1, <1>2, <1>4, <1>5 DEF FromTypes
<1>8. Unread' = FALSE
  BY <1>6 DEF Free, AtNone, PollersAt, Unread
<1>9. FrameInv' /\ QueueInv'
  BY <1>1, <1>2, <1>3, <1>8, FrameStays, QueueStays
<1>10. QED
  BY <1>1, <1>2, <1>6, <1>7, <1>9 DEF FromInv, BufferInv

\* The consumer takes the frame in the register, whatever the stage.
LEMMA ForwardStep ==
    ASSUME FromInv, OnePoller, DeviceForward
    PROVE  FromInv' /\ Len(delivered') = Len(delivered) + 1
<1>1. FromTypes /\ BufferInv /\ FrameInv /\ QueueInv
  BY DEF FromInv
<1>2. /\ UNCHANGED <<address, connects, connected, pendingFrames, writer, poller, queued>>
      /\ UNCHANGED <<dataBuffer, completion, bufferLoc, completionLoc, readReqs, readResps,
                     completionPending, writeReqs>>
      /\ output # 0 /\ output' = 0 /\ delivered' = Append(delivered, output)
  BY DEF DeviceForward, portVars, hostVars, memoryVars
<1>3. /\ FrameRun(delivered, output, readResps, Unread, dataBuffer[address], pendingFrames, queued)
      /\ delivered \in Seq(Nat) /\ output \in Nat /\ readResps \in Seq(Nat)
      /\ Unread \in BOOLEAN /\ pendingFrames \in Seq(Nat)
  BY <1>1 DEF FrameInv, FromTypes, Unread
<1>4. /\ delivered' \in Seq(Nat) /\ Len(delivered') = Len(delivered) + 1
      /\ FrameRun(delivered', 0, readResps, Unread, dataBuffer[address], pendingFrames, queued)
  BY <1>2, <1>3, FrameForwarded
<1>5. Unread' = Unread
  BY <1>2 DEF Unread
<1>6. FrameInv' /\ QueueInv'
  BY <1>1, <1>2, <1>4, <1>5, QueueStays DEF FrameInv
<1>7. FromTypes'
  BY <1>1, <1>2, <1>4 DEF FromTypes
<1>8. PollersAt({"idle"})' = PollersAt({"idle"}) /\ AtNone' = AtNone
  BY <1>2 DEF PollersAt, AtNone
<1>9. BufferInv'
  <2>1. Unconnected => Unconnected'
    BY <1>2, <1>8 DEF Unconnected
  <2>2. Free => Free'
    BY <1>2, <1>8 DEF Free, PollersAt
  <2>3. Filled => Filled'
    BY <1>2, <1>8 DEF Filled, PollersAt
  <2>4. Reading => Reading'
    BY <1>2, <1>8 DEF Reading, PollersAt, AtMailbox, AtRequest, AtAnswer, AtRegister
  <2>5. Answered => Answered'
    BY <1>2, <1>8 DEF Answered
  <2>6. QED
    BY <1>1, <1>2, <2>1, <2>2, <2>3, <2>4, <2>5 DEF BufferInv
<1>10. QED
  BY <1>4, <1>6, <1>7, <1>9 DEF FromInv

-----------------------------------------------------------------------------
(* The steps of the read port *)

\* The one connect finds a device that has not been offered anything.
LEMMA ToConnectStep ==
    ASSUME ToInv, MaxConnects \in Nat, MaxConnects <= 1,
           NEW a \in ReadAddresses, To!Connect(a)
    PROVE  ToInv' /\ taken' = taken /\ produced' = produced
<1>1. ToTypes /\ readConnects \in Nat /\ Run(consumed, 0)
  BY DEF ToInv, ToTypes
<1>2. /\ UNCHANGED <<pendingMessage, readPoller, consumed, readData, produced, taken, readWriteReqs>>
      /\ readConnected' = TRUE /\ readAddress' = a /\ readConnects' = readConnects + 1
      /\ readValid' = [readValid EXCEPT ![a] = 0] /\ readLoc' = a /\ readConnects < MaxConnects
  BY DEF To!Connect, To!pollVars
<1>3. readConnects = 0 /\ NotConnectedYet
  BY <1>1, <1>2 DEF ToInv, Offered, Written, Full, Done
<1>4. readValid' \in [ReadAddresses -> {0, 1}] /\ readValid'[a] = 0 /\ a # To!Null
  BY <1>1, <1>2, LoopbackAssumption DEF ToTypes, Null, To!Null
<1>5. ToTypes'
  BY <1>1, <1>2, <1>4 DEF ToTypes
<1>6. Offered'
  BY <1>2, <1>3, <1>4 DEF NotConnectedYet, Offered
<1>7. QED
  BY <1>1, <1>2, <1>3, <1>5, <1>6 DEF ToInv

LEMMA ToDisconnectStep ==
    ASSUME ToInv, To!Disconnect
    PROVE  ToInv' /\ taken' = taken /\ produced' = produced
<1>1. /\ UNCHANGED <<readAddress, readConnects, pendingMessage, readPoller, consumed, readData,
                     readValid, readLoc, produced, taken, readWriteReqs>>
      /\ readConnected /\ readConnected' = FALSE
  BY DEF To!Disconnect, To!pollVars, To!memoryVars, To!deviceVars
<1>2. ToTypes /\ Run(consumed, 0) /\ ~NotConnectedYet
  BY <1>1 DEF ToInv, NotConnectedYet
<1>3. ToTypes'
  BY <1>1, <1>2 DEF ToTypes
<1>4. (Offered \/ Written \/ Full \/ Done)'
  BY <1>1, <1>2 DEF ToInv, Offered, Written, Full, Done
<1>5. QED
  BY <1>1, <1>2, <1>3, <1>4 DEF ToInv

\* The steps around the callback; the message leaves the buffer with Accept.
LEMMA ToPollStep ==
    ASSUME ToInv, To!Poll
    PROVE  ToInv' /\ taken' = taken /\ produced' = produced
<1>1. ToTypes /\ Run(consumed, 0)
  BY DEF ToInv
<1>2. UNCHANGED <<readConnected, readAddress, readConnects, readData, produced, taken, readWriteReqs>>
  BY DEF To!Poll, To!PollBuffer, To!PollPending, To!DeliverDisconnected, To!Deliver, To!Refuse,
         To!Accept, To!ClearValid, To!WriteBufferPtr, To!portVars, To!memoryVars, To!deviceVars
<1>3. CASE To!PollBuffer \/ To!PollPending \/ To!DeliverDisconnected \/ To!Deliver \/ To!Refuse
  <2>1. /\ UNCHANGED <<consumed, readValid, readLoc>>
        /\ readPoller' \in {"idle", "deliver", "callback"}
        /\ \/ readPoller = "idle" /\ readConnected /\ readValid[readAddress] = 1
              /\ pendingMessage' = readData[readAddress] /\ pendingMessage = 0
           \/ readPoller = "idle" /\ pendingMessage # 0 /\ pendingMessage' = pendingMessage
           \/ readPoller \in {"deliver", "callback"} /\ pendingMessage' = pendingMessage
    BY <1>3 DEF To!PollBuffer, To!PollPending, To!DeliverDisconnected, To!Deliver, To!Refuse,
                To!memoryVars, To!deviceVars
  <2>2. Full
    <3>1. ~NotConnectedYet /\ ~Offered /\ ~Written
      BY <2>1 DEF NotConnectedYet, Offered, Written
    <3>2. ~Done
      BY <2>1 DEF Done
    <3>3. QED
      BY <3>1, <3>2 DEF ToInv
  <2>3. pendingMessage' = taken
    BY <1>1, <2>1, <2>2 DEF Full
  <2>4. Full'
    BY <1>2, <2>1, <2>2, <2>3 DEF Full
  <2>5. ToTypes'
    BY <1>1, <1>2, <2>1, <2>3 DEF ToTypes
  <2>6. QED
    BY <1>1, <1>2, <2>1, <2>2, <2>4, <2>5 DEF ToInv, Full
<1>4. CASE To!Accept
  <2>1. /\ UNCHANGED <<readValid, readLoc>>
        /\ readPoller = "callback" /\ consumed' = Append(consumed, pendingMessage)
        /\ pendingMessage' = 0 /\ readPoller' = "accepted"
    BY <1>4 DEF To!Accept, To!memoryVars, To!deviceVars
  <2>2. Full /\ pendingMessage = taken /\ taken = Len(consumed) + 1
    BY <2>1 DEF ToInv, NotConnectedYet, Offered, Written, Full, Done
  <2>3. consumed \in Seq(Nat) /\ pendingMessage \in Nat /\ Len(consumed) \in Nat
    BY <1>1, LenProperties DEF ToTypes
  <2>4. pendingMessage = 0 + Len(consumed) + 1
    BY <2>2, <2>3
  <2>5. consumed' \in Seq(Nat) /\ Len(consumed') = Len(consumed) + 1 /\ Run(consumed', 0)
    BY <1>1, <2>1, <2>3, <2>4, RunAppend
  <2>6. Done'
    BY <1>2, <2>1, <2>2, <2>5 DEF Full, Done
  <2>7. ToTypes'
    BY <1>1, <1>2, <2>1, <2>5 DEF ToTypes
  <2>8. QED
    BY <1>2, <2>2, <2>5, <2>6, <2>7 DEF ToInv, Full
<1>5. CASE To!ClearValid
  <2>1. /\ UNCHANGED <<pendingMessage, consumed, readLoc>>
        /\ readPoller = "accepted" /\ readValid' = [readValid EXCEPT ![readAddress] = 0]
        /\ readPoller' = "cleared"
    BY <1>5 DEF To!ClearValid, To!deviceVars
  <2>2. Done
    BY <2>1 DEF ToInv, NotConnectedYet, Offered, Written, Full
  <2>3. readValid' \in [ReadAddresses -> {0, 1}] /\ readValid'[readAddress] = 0
    BY <1>1, <2>1, <2>2 DEF ToTypes, Done
  <2>4. Done'
    BY <1>2, <2>1, <2>2, <2>3 DEF Done
  <2>5. ToTypes'
    BY <1>1, <1>2, <2>1, <2>3 DEF ToTypes
  <2>6. QED
    BY <1>1, <1>2, <2>1, <2>2, <2>4, <2>5 DEF ToInv, Done
<1>6. CASE To!WriteBufferPtr
  <2>1. /\ UNCHANGED <<pendingMessage, consumed, readValid>>
        /\ readPoller = "cleared" /\ readLoc' = readAddress /\ readPoller' = "idle"
    BY <1>6 DEF To!WriteBufferPtr, To!memoryVars
  <2>2. Done
    BY <2>1 DEF ToInv, NotConnectedYet, Offered, Written, Full
  <2>3. Offered'
    BY <1>2, <2>1, <2>2 DEF Done, Offered
  <2>4. ToTypes'
    BY <1>1, <1>2, <2>1, <2>2 DEF ToTypes, Done
  <2>5. QED
    BY <1>1, <1>2, <2>1, <2>2, <2>3, <2>4 DEF ToInv, Done
<1>7. QED
  BY <1>2, <1>3, <1>4, <1>5, <1>6 DEF To!Poll

\* The device joins the offered address with a message of the channel.
LEMMA ToDeviceWriteStep ==
    ASSUME ToInv, To!DeviceWrite
    PROVE  ToInv' /\ taken' = taken + 1 /\ taken < produced /\ produced' = produced
<1>1. ToTypes /\ Run(consumed, 0) /\ taken \in Nat
  BY DEF ToInv, ToTypes
<1>2. /\ UNCHANGED <<readConnected, readAddress, readConnects, pendingMessage, readPoller, consumed,
                     readData, readValid, produced>>
      /\ readLoc # To!Null /\ taken < produced /\ taken' = taken + 1 /\ readLoc' = To!Null
      /\ readWriteReqs' = Append(readWriteReqs, [to |-> readLoc, n |-> taken + 1])
  BY DEF To!DeviceWrite, To!portVars, To!pollVars, To!memoryVars
<1>3. Offered /\ readAddress \in ReadAddresses
  BY <1>1, <1>2 DEF ToInv, NotConnectedYet, Offered, Written, Full, Done, ToTypes
<1>4. readWriteReqs' = <<[to |-> readAddress, n |-> taken']>>
  BY <1>2, <1>3 DEF Offered
<1>5. readWriteReqs' \in Seq([to : ReadAddresses, n : Nat]) /\ taken' \in Nat
  <2>1. taken' \in Nat
    BY <1>1, <1>2
  <2>2. [to |-> readAddress, n |-> taken'] \in [to : ReadAddresses, n : Nat]
    BY <1>3, <2>1
  <2>3. QED
    BY <1>4, <2>1, <2>2
<1>6. Written'
  BY <1>2, <1>3, <1>4 DEF Offered, Written
<1>7. ToTypes'
  BY <1>1, <1>2, <1>5 DEF ToTypes
<1>8. QED
  BY <1>1, <1>2, <1>3, <1>6, <1>7 DEF ToInv, Offered

\* Host memory has written it, and its last byte.
LEMMA ToServeWriteStep ==
    ASSUME ToInv, To!ServeWrite
    PROVE  ToInv' /\ taken' = taken /\ produced' = produced
<1>1. ToTypes /\ Run(consumed, 0)
  BY DEF ToInv
<1>2. /\ UNCHANGED <<readConnected, readAddress, readConnects, pendingMessage, readPoller, consumed,
                     readLoc, produced, taken>>
      /\ readWriteReqs # <<>> /\ readWriteReqs' = Tail(readWriteReqs)
      /\ readData' = [readData EXCEPT ![Head(readWriteReqs).to] = Head(readWriteReqs).n]
      /\ readValid' = [readValid EXCEPT ![Head(readWriteReqs).to] = 1]
  BY DEF To!ServeWrite, To!portVars, To!pollVars
<1>3. Written /\ readAddress \in ReadAddresses
  BY <1>1, <1>2 DEF ToInv, NotConnectedYet, Offered, Written, Full, Done, ToTypes
<1>4. /\ Head(readWriteReqs).to = readAddress /\ Head(readWriteReqs).n = taken
      /\ readWriteReqs' = <<>>
  BY <1>2, <1>3 DEF Written
<1>5. /\ readData' \in [ReadAddresses -> Nat] /\ readData'[readAddress] = taken
      /\ readValid' \in [ReadAddresses -> {0, 1}] /\ readValid'[readAddress] = 1
  BY <1>1, <1>2, <1>3, <1>4 DEF ToTypes
<1>6. Full'
  BY <1>2, <1>3, <1>4, <1>5 DEF Written, Full
<1>7. readWriteReqs' \in Seq([to : ReadAddresses, n : Nat])
  BY <1>4
<1>8. ToTypes'
  BY <1>1, <1>2, <1>5, <1>7 DEF ToTypes
<1>9. QED
  BY <1>1, <1>2, <1>3, <1>6, <1>8 DEF ToInv, Written

LEMMA ToProduceStep ==
    ASSUME ToInv, To!Produce
    PROVE  ToInv' /\ taken' = taken /\ produced' = produced + 1
<1>1. ToTypes /\ Run(consumed, 0) /\ produced \in Nat
  BY DEF ToInv, ToTypes
<1>2. /\ UNCHANGED <<readConnected, readAddress, readConnects, pendingMessage, readPoller, consumed,
                     readData, readValid, readLoc, taken, readWriteReqs>>
      /\ produced' = produced + 1
  BY DEF To!Produce, To!portVars, To!pollVars, To!memoryVars
<1>3. ToTypes'
  BY <1>1, <1>2 DEF ToTypes
<1>4. (NotConnectedYet \/ Offered \/ Written \/ Full \/ Done)'
  BY <1>2 DEF ToInv, NotConnectedYet, Offered, Written, Full, Done
<1>5. QED
  BY <1>1, <1>2, <1>3, <1>4 DEF ToInv

-----------------------------------------------------------------------------
(* The two engines and the channel between them *)

OneConnect == MaxConnects \in Nat /\ MaxConnects <= 1

LEMMA DmaInit ==
    ASSUME LoopInit
    PROVE  DmaInv
<1>1. /\ connected = FALSE /\ address = Null /\ connects = 0
      /\ pendingFrames = <<>> /\ queued = 0
      /\ writer = [w \in Writers |-> "idle"] /\ poller = [p \in Pollers |-> "idle"]
      /\ dataBuffer = [a \in Addresses |-> 0] /\ completion = [a \in Addresses |-> 0]
      /\ bufferLoc = Null /\ completionLoc = Null
      /\ readReqs = <<>> /\ readResps = <<>> /\ writeReqs = <<>>
      /\ output = 0 /\ completionPending = FALSE /\ delivered = <<>>
  BY DEF LoopInit, Init
<1>2. /\ readConnected = FALSE /\ readAddress = To!Null /\ readConnects = 0
      /\ pendingMessage = 0 /\ readPoller = "idle" /\ consumed = <<>>
      /\ readData = [a \in ReadAddresses |-> 0] /\ readValid = [a \in ReadAddresses |-> 0]
      /\ readLoc = To!Null /\ produced = 0 /\ taken = 0 /\ readWriteReqs = <<>>
  BY DEF LoopInit, To!Init
<1>3. FromTypes
  <2>1. /\ address \in Addresses \cup {Null} /\ connects \in Nat /\ connected \in BOOLEAN
        /\ queued \in Nat /\ output \in Nat /\ completionPending \in BOOLEAN
        /\ bufferLoc \in Addresses \cup {Null} /\ completionLoc \in Addresses \cup {Null}
    BY <1>1
  <2>2. /\ writer \in [Writers -> {"idle", "checked"}]
        /\ poller \in [Pollers -> {"idle", "ready", "filled", "sent"}]
        /\ dataBuffer \in [Addresses -> Nat] /\ completion \in [Addresses -> {0, 1}]
    BY <1>1
  <2>3. /\ pendingFrames \in Seq(Nat) /\ delivered \in Seq(Nat) /\ readResps \in Seq(Nat)
        /\ readReqs \in Seq(Addresses) /\ writeReqs \in Seq(Addresses)
    BY <1>1
  <2>4. QED
    BY <2>1, <2>2, <2>3 DEF FromTypes
<1>4. Unconnected
  BY <1>1 DEF Unconnected, AtNone, PollersAt
<1>5. Unread = FALSE
  BY <1>4 DEF Unconnected, AtNone, PollersAt, Unread
<1>6. FrameInv
  <2>1. Len(<<>>) = 0 /\ Bit(FALSE) = 0 /\ Bit(0 # 0) = 0 /\ 0 + 0 + 0 + 0 + 0 = 0
    BY DEF Bit
  <2>2. \A n : Run(<<>>, n)
    BY <2>1 DEF Run
  <2>3. FrameRun(<<>>, 0, <<>>, FALSE, dataBuffer[address], <<>>, 0)
    BY <2>1, <2>2 DEF FrameRun
  <2>4. QED
    BY <1>1, <1>5, <2>3 DEF FrameInv
<1>7. QueueInv
  <2>1. Checked = {}
    BY <1>1 DEF Checked
  <2>2. Cardinality(Checked) = 0
    BY <2>1, FS_EmptySet
  <2>3. Frames \in Nat /\ Cardinality(Writers) \in Nat
    BY FromHostAssumption, FS_CardinalityType
  <2>4. Frames * 0 = 0 /\ Frames * Cardinality(Writers) >= 0
    <3>1. Frames * Cardinality(Writers) \in Nat
      BY <2>3
    <3>2. QED
      BY <2>3, <3>1
  <2>5. Len(pendingFrames) = 0
    BY <1>1
  <2>6. Frames * Cardinality(Writers) \in Nat
    BY <2>3
  <2>7. 0 + 0 <= Frames * Cardinality(Writers)
    BY <2>6
  <2>8. QED
    BY <2>2, <2>4, <2>5, <2>7 DEF QueueInv
<1>8. ToInv
  <2>1. ToTypes
    <3>1. /\ readAddress \in ReadAddresses \cup {To!Null} /\ readConnects \in Nat
          /\ readConnected \in BOOLEAN /\ pendingMessage \in Nat
          /\ readPoller \in {"idle", "deliver", "callback", "accepted", "cleared"}
          /\ readLoc \in ReadAddresses \cup {To!Null} /\ produced \in Nat /\ taken \in Nat
      BY <1>2
    <3>2. readData \in [ReadAddresses -> Nat] /\ readValid \in [ReadAddresses -> {0, 1}]
      BY <1>2
    <3>3. consumed \in Seq(Nat) /\ readWriteReqs \in Seq([to : ReadAddresses, n : Nat])
      BY <1>2
    <3>4. QED
      BY <3>1, <3>2, <3>3 DEF ToTypes
  <2>2. NotConnectedYet
    BY <1>2 DEF NotConnectedYet
  <2>3. Run(consumed, 0)
    BY <1>2 DEF Run
  <2>4. QED
    BY <1>2, <2>1, <2>2, <2>3 DEF ToInv
<1>9. ChannelInv
  <2>1. Channel \in Nat
    BY LoopbackAssumption
  <2>2. QED
    BY <1>1, <1>2, <2>1 DEF ChannelInv
<1>10. QED
  BY <1>1, <1>3, <1>4, <1>6, <1>7, <1>8, <1>9 DEF DmaInv, FromInv, BufferInv

\* ToInv speaks of the variables of the read port only, FromInv of those of the write port.
LEMMA ToStays ==
    ASSUME ToInv, UNCHANGED readVars
    PROVE  ToInv' /\ taken' = taken /\ produced' = produced
<1>1. UNCHANGED <<readConnected, readAddress, readConnects, pendingMessage, readPoller, consumed,
                  readData, readValid, readLoc, produced, taken, readWriteReqs>>
  BY DEF readVars
<1>2. ToTypes'
  BY <1>1 DEF ToInv, ToTypes
<1>3. (NotConnectedYet \/ Offered \/ Written \/ Full \/ Done)'
  BY <1>1 DEF ToInv, NotConnectedYet, Offered, Written, Full, Done
<1>4. QED
  BY <1>1, <1>2, <1>3 DEF ToInv

LEMMA FromStays ==
    ASSUME FromInv, UNCHANGED vars
    PROVE  FromInv' /\ delivered' = delivered
<1>1. /\ UNCHANGED <<address, connects>> /\ UNCHANGED hostVars /\ UNCHANGED memoryVars
      /\ UNCHANGED deviceVars /\ connected' = connected /\ delivered' = delivered
  BY DEF vars, hostVars, memoryVars, deviceVars
<1>2. connected' \in BOOLEAN
  BY <1>1 DEF FromInv, FromTypes
<1>3. QED
  BY <1>1, <1>2, FromIdleStep

LEMMA FromStep ==
    ASSUME FromInv, OnePoller, OneConnect, FromHostStep
    PROVE  FromInv' /\ delivered' = delivered
<1>1. CASE \E a \in Addresses : Connect(a)
  BY <1>1, ConnectStep DEF OneConnect, Connect, deviceVars
<1>2. CASE Disconnect
  <2>1. /\ connected /\ connected' = FALSE /\ UNCHANGED <<address, connects>>
        /\ UNCHANGED hostVars /\ UNCHANGED memoryVars /\ UNCHANGED deviceVars
    BY <1>2 DEF Disconnect
  <2>2. address # Null
    BY <2>1 DEF FromInv, BufferInv, Unconnected, Free, Filled, Reading, Answered
  <2>3. FromInv'
    BY <2>1, <2>2, FromIdleStep
  <2>4. QED
    BY <2>1, <2>3 DEF deviceVars
<1>3. CASE \E w \in Writers : TryWrite(w) \/ EnqueueFrames(w)
  BY <1>3, WriterStep DEF TryWrite, EnqueueFrames, deviceVars
<1>4. CASE \E p \in Pollers : Poll(p)
  <2>1. PICK p \in Pollers : Poll(p)
    BY <1>4
  <2>2. FromInv'
    BY <2>1, PollStep
  <2>3. delivered' = delivered
    BY <2>1 DEF Poll, PollCheck, PollEmpty, PollFill, PollBufferPtr, PollCompletionPtr, deviceVars
  <2>4. QED
    BY <2>2, <2>3
<1>5. CASE DeviceRead
  BY <1>5, DeviceReadStep DEF DeviceRead
<1>6. CASE DeviceBuffer
  BY <1>6, DeviceBufferStep DEF DeviceBuffer
<1>7. CASE DeviceComplete
  BY <1>7, DeviceCompleteStep DEF DeviceComplete
<1>8. CASE HostMem
  BY <1>8, ServeReadStep, ServeWriteStep DEF HostMem, ServeRead, ServeWrite
<1>9. QED
  BY <1>1, <1>2, <1>3, <1>4, <1>5, <1>6, <1>7, <1>8 DEF FromHostStep

\* The devices take turns on the channel: one puts a message there when there is room, the
\* other takes one that is there.
LEMMA DmaStep ==
    ASSUME DmaInv, OnePoller, OneConnect, [LoopNext]_loopVars
    PROVE  DmaInv'
<1>1. FromInv /\ ToInv /\ ChannelInv
  BY DEF DmaInv
<1>2. /\ Len(delivered) \in Nat /\ taken \in Nat /\ Channel \in Nat /\ produced \in Nat
      /\ produced = Len(delivered) /\ taken <= produced /\ produced <= taken + Channel
  <2>1. delivered \in Seq(Nat) /\ taken \in Nat
    BY <1>1 DEF FromInv, FromTypes, ToInv, ToTypes
  <2>2. Len(delivered) \in Nat
    BY <2>1, LenProperties
  <2>3. QED
    BY <1>1, <2>1, <2>2, LoopbackAssumption DEF ChannelInv
<1>3. CASE FromHostStep
  <2>1. UNCHANGED readVars
    BY <1>3 DEF FromHostStep
  <2>2. FromInv' /\ delivered' = delivered /\ ToInv' /\ taken' = taken /\ produced' = produced
    BY <1>1, <1>3, <2>1, FromStep, ToStays
  <2>3. QED
    BY <1>2, <2>2 DEF DmaInv, ChannelInv
<1>4. CASE ToHostStep
  <2>1. UNCHANGED vars
    BY <1>4 DEF ToHostStep
  <2>2. FromInv' /\ delivered' = delivered
    BY <1>1, <2>1, FromStays
  <2>3. /\ ToInv' /\ produced' = produced
        /\ taken' = taken \/ (taken' = taken + 1 /\ taken < produced)
    BY <1>1, <1>4, ToConnectStep, ToDisconnectStep, ToPollStep, ToDeviceWriteStep,
       ToServeWriteStep DEF ToHostStep, OneConnect
  <2>4. taken' <= produced /\ produced <= taken' + Channel
    BY <1>2, <2>3
  <2>5. QED
    BY <1>2, <2>2, <2>3, <2>4 DEF DmaInv, ChannelInv
<1>5. CASE Loop
  <2>1. produced - taken < Channel /\ DeviceForward /\ To!Produce
    BY <1>5 DEF Loop
  <2>2. FromInv' /\ Len(delivered') = Len(delivered) + 1
    BY <1>1, <2>1, ForwardStep
  <2>3. ToInv' /\ taken' = taken /\ produced' = produced + 1
    BY <1>1, <2>1, ToProduceStep
  <2>4. produced + 1 = Len(delivered) + 1 /\ taken <= produced + 1 /\ produced + 1 <= taken + Channel
    BY <1>2, <2>1
  <2>5. QED
    BY <2>2, <2>3, <2>4 DEF DmaInv, ChannelInv
<1>6. CASE UNCHANGED loopVars
  <2>1. UNCHANGED vars /\ UNCHANGED readVars
    BY <1>6 DEF loopVars
  <2>2. FromInv' /\ delivered' = delivered /\ ToInv' /\ taken' = taken /\ produced' = produced
    BY <1>1, <2>1, FromStays, ToStays
  <2>3. QED
    BY <1>2, <2>2 DEF DmaInv, ChannelInv
<1>7. QED
  BY <1>3, <1>4, <1>5, <1>6 DEF LoopNext

-----------------------------------------------------------------------------
(* What the invariant says *)

LEMMA RunJoin ==
    ASSUME NEW s \in Seq(Nat), NEW t \in Seq(Nat), NEW n, n = Len(s), Run(s, 0), Run(t, n)
    PROVE  Run(s \o t, 0)
<1>1. 0 + Len(s) = n
  BY LenProperties
<1>2. QED
  BY <1>1, RunConcat

LEMMA RunsJoin ==
    ASSUME NEW a \in Seq(Nat), NEW b \in Seq(Nat), NEW c \in Seq(Nat), NEW d \in Seq(Nat),
           Run(a, 0), Run(b, Len(a)), Run(c, Len(a) + Len(b)), Run(d, Len(a) + Len(b) + Len(c))
    PROVE  /\ a \o b \o c \o d \in Seq(Nat) /\ Run(a \o b \o c \o d, 0)
           /\ Len(a \o b \o c \o d) = Len(a) + Len(b) + Len(c) + Len(d)
<1>1. a \o b \in Seq(Nat) /\ Len(a \o b) = Len(a) + Len(b)
  BY ConcatProperties
<1>2. (a \o b) \o c \in Seq(Nat) /\ Len((a \o b) \o c) = Len(a) + Len(b) + Len(c)
  BY <1>1, ConcatProperties
<1>3. /\ ((a \o b) \o c) \o d \in Seq(Nat)
      /\ Len(((a \o b) \o c) \o d) = Len(a) + Len(b) + Len(c) + Len(d)
  BY <1>2, ConcatProperties
<1>4. Run(a \o b, 0)
  BY RunJoin
<1>5. Run((a \o b) \o c, 0)
  BY <1>1, <1>4, RunJoin
<1>6. Run(((a \o b) \o c) \o d, 0)
  BY <1>2, <1>5, RunJoin
<1>7. QED
  BY <1>3, <1>6

LEMMA FramesInOrder ==
    ASSUME FromInv, OnePoller
    PROVE  NoFrameLost
<1> DEFINE b == Len(delivered) + Bit(output # 0)
<1>1. /\ FrameRun(delivered, output, readResps, Unread, dataBuffer[address], pendingFrames, queued)
      /\ delivered \in Seq(Nat) /\ output \in Nat /\ readResps \in Seq(Nat)
      /\ Unread \in BOOLEAN /\ pendingFrames \in Seq(Nat)
  BY DEF FromInv, FrameInv, FromTypes, Unread
<1>2. /\ Len(delivered) \in Nat /\ Len(readResps) \in Nat /\ Len(pendingFrames) \in Nat
      /\ Bit(output # 0) \in Nat /\ Bit(Unread) \in Nat
  BY <1>1, FrameTypes
<1>3. /\ InRegister \in Seq(Nat) /\ Len(InRegister) = Bit(output # 0)
      /\ Run(InRegister, Len(delivered))
  <2>1. CASE output # 0
    <3>1. output = Len(delivered) + 1
      BY <1>1, <2>1 DEF FrameRun
    <3>2. InRegister = <<output>> /\ Bit(output # 0) = 1
      BY <2>1 DEF InRegister, Bit
    <3>3. QED
      BY <1>1, <1>2, <3>1, <3>2, RunOne
  <2>2. CASE output = 0
    <3>1. InRegister = <<>> /\ Bit(output # 0) = 0
      BY <2>2 DEF InRegister, Bit
    <3>2. QED
      BY <1>2, <3>1, RunEmpty
  <2>3. QED
    BY <2>1, <2>2
<1>4. /\ InBuffer \in Seq(Nat) /\ Len(InBuffer) = Bit(Unread)
      /\ Run(InBuffer, b + Len(readResps))
  <2>1. b + Len(readResps) \in Nat
    BY <1>2
  <2>2. CASE Unread
    <3>1. dataBuffer[address] = b + Len(readResps) + 1
      BY <1>1, <2>2 DEF FrameRun
    <3>2. InBuffer = <<dataBuffer[address]>> /\ Bit(Unread) = 1
      BY <2>2 DEF InBuffer, Bit
    <3> HIDE DEF b
    <3>3. dataBuffer[address] \in Nat
      BY <2>1, <3>1
    <3>4. QED
      BY <2>1, <3>1, <3>2, <3>3, RunOne
  <2>3. CASE ~Unread
    <3>1. InBuffer = <<>> /\ Bit(Unread) = 0
      BY <2>3 DEF InBuffer, Bit
    <3> HIDE DEF b
    <3>2. QED
      BY <2>1, <3>1, RunEmpty
  <2>4. QED
    BY <2>2, <2>3
<1> DEFINE s == delivered \o InRegister \o readResps \o InBuffer
<1>5. s \in Seq(Nat) /\ Run(s, 0) /\ Len(s) = b + Len(readResps) + Bit(Unread)
  <2>1. /\ Run(delivered, 0) /\ Run(readResps, Len(delivered) + Len(InRegister))
        /\ Run(InBuffer, Len(delivered) + Len(InRegister) + Len(readResps))
    BY <1>1, <1>3, <1>4 DEF FrameRun
  <2>2. /\ delivered \in Seq(Nat) /\ InRegister \in Seq(Nat) /\ readResps \in Seq(Nat)
        /\ InBuffer \in Seq(Nat) /\ Run(InRegister, Len(delivered))
    BY <1>1, <1>3, <1>4
  <2>3. /\ s \in Seq(Nat) /\ Run(s, 0)
        /\ Len(s) = Len(delivered) + Len(InRegister) + Len(readResps) + Len(InBuffer)
    BY ONLY <2>1, <2>2, RunsJoin
  <2>4. QED
    BY <1>3, <1>4, <2>3
<1>6. Run(pendingFrames, 0 + Len(s)) /\ queued = Len(s) + Len(pendingFrames)
  <2>1. 0 + Len(s) = Len(s)
    BY <1>2, <1>5
  <2>2. QED
    BY <1>1, <1>5, <2>1 DEF FrameRun
<1> HIDE DEF s
<1>7. /\ s \o pendingFrames \in Seq(Nat) /\ Run(s \o pendingFrames, 0)
      /\ queued = Len(s \o pendingFrames)
  BY <1>1, <1>5, <1>6, RunConcat
<1>8. s \o pendingFrames = [i \in 1..queued |-> i]
  BY <1>7, RunIs
<1>9. QED
  BY <1>8 DEF NoFrameLost, s

LEMMA MessagesInOrder ==
    ASSUME ToInv
    PROVE  To!NoMessageLost
<1>1. /\ consumed \in Seq(Nat) /\ Len(consumed) \in Nat /\ Run(consumed, 0) /\ taken \in Nat
      /\ pendingMessage \in Nat /\ readWriteReqs \in Seq([to : ReadAddresses, n : Nat])
  BY LenProperties DEF ToInv, ToTypes
<1>2. Len(<<>>) = 0 /\ <<>> \in Seq(Nat) /\ \A n : Run(<<>>, n)
  BY DEF Run
<1>3. /\ To!InHand \in Seq(Nat) /\ To!InBuffer \in Seq(Nat) /\ To!OnTheWay \in Seq(Nat)
      /\ Run(To!InHand, Len(consumed)) /\ Run(To!InBuffer, Len(consumed) + Len(To!InHand))
      /\ Run(To!OnTheWay, Len(consumed) + Len(To!InHand) + Len(To!InBuffer))
      /\ taken = Len(consumed) + Len(To!InHand) + Len(To!InBuffer) + Len(To!OnTheWay)
  <2>1. ASSUME readWriteReqs = <<>> PROVE To!OnTheWay = <<>>
    <3>1. Len(readWriteReqs) = 0
      BY <2>1
    <3>2. QED
      BY <3>1 DEF To!OnTheWay
  <2>2. CASE NotConnectedYet \/ Offered \/ Done
    <3>1. To!InBuffer = <<>> /\ To!InHand = <<>> /\ To!OnTheWay = <<>>
      BY <2>1, <2>2 DEF NotConnectedYet, Offered, Done, To!InBuffer, To!InHand
    <3>2. taken = Len(consumed)
      BY <2>2 DEF NotConnectedYet, Offered, Done
    <3>3. Len(consumed) + 0 + 0 + 0 = Len(consumed)
      BY <1>1
    <3>4. QED
      BY <1>2, <3>1, <3>2, <3>3
  <2>3. CASE Written
    <3>1. To!InBuffer = <<>> /\ To!InHand = <<>>
      BY <2>3 DEF Written, To!InBuffer, To!InHand
    <3>2. To!OnTheWay = <<taken>>
      <4>1. Len(readWriteReqs) = 1 /\ readWriteReqs[1].n = taken
        BY <2>3 DEF Written
      <4>2. To!OnTheWay = [i \in 1..1 |-> readWriteReqs[i].n]
        BY <4>1 DEF To!OnTheWay
      <4>3. <<taken>> = [i \in 1..1 |-> taken]
        OBVIOUS
      <4>4. QED
        BY <4>1, <4>2, <4>3
    <3>3. taken = Len(consumed) + 1 /\ Len(consumed) + 0 + 0 = Len(consumed)
      BY <1>1, <2>3 DEF Written
    <3>4. <<taken>> \in Seq(Nat) /\ Len(<<taken>>) = 1 /\ Run(<<taken>>, Len(consumed))
      BY <1>1, <3>3, RunOne
    <3>5. QED
      BY <1>1, <1>2, <3>1, <3>2, <3>3, <3>4
  <2>4. CASE Full
    <3>1. To!InBuffer = <<taken>>
      BY <2>4 DEF Full, To!InBuffer, Null, To!Null
    <3>2. To!InHand = <<>> /\ To!OnTheWay = <<>>
      <4>1. To!InBuffer # <<>>
        BY <3>1
      <4>2. QED
        BY <2>1, <2>4, <4>1 DEF Full, To!InHand
    <3>3. taken = Len(consumed) + 1 /\ Len(consumed) + 0 = Len(consumed)
          /\ Len(consumed) + 0 + 1 + 0 = Len(consumed) + 1
      BY <1>1, <2>4 DEF Full
    <3>4. <<taken>> \in Seq(Nat) /\ Len(<<taken>>) = 1 /\ Run(<<taken>>, Len(consumed))
      BY <1>1, <3>3, RunOne
    <3>5. QED
      BY <1>1, <1>2, <3>1, <3>2, <3>3, <3>4
  <2>5. QED
    BY <2>2, <2>3, <2>4 DEF ToInv
<1> DEFINE s == consumed \o To!InHand \o To!InBuffer \o To!OnTheWay
<1>4. s \in Seq(Nat) /\ Run(s, 0) /\ taken = Len(s)
  BY <1>1, <1>3, RunsJoin
<1> HIDE DEF s
<1>5. s = [i \in 1..taken |-> i]
  BY <1>4, RunIs
<1>6. QED
  BY <1>5 DEF To!NoMessageLost, s

\* The device or host memory holds one frame of the buffer at most.
LEMMA OneInTheBuffer ==
    ASSUME FromInv, OnePoller
    PROVE  Len(readResps) + Bit(Unread) <= 1
<1>1. FromTypes /\ BufferInv
  BY DEF FromInv
<1>2. CASE Unread = TRUE
  <2>1. readResps = <<>>
    BY <1>1, <1>2, StageFacts DEF BufferInv, Reading
  <2>2. Len(readResps) = 0 /\ Bit(Unread) = 1
    BY <1>2, <2>1 DEF Bit
  <2>3. QED
    BY <2>2
<1>3. CASE Unread = FALSE
  <2>1. readResps = <<>> \/ Len(readResps) = 1
    BY <1>1, <1>3, StageFacts DEF BufferInv, Reading, AtMailbox, AtRequest, AtAnswer, AtRegister
  <2>2. (Len(readResps) = 0 \/ Len(readResps) = 1) /\ Bit(Unread) = 0
    BY <1>3, <2>1 DEF Bit
  <2>3. QED
    BY <2>2
<1>4. QED
  BY <1>1, <1>2, <1>3, StageFacts

LEMMA WritersStop ==
    ASSUME DmaInv, OnePoller
    PROVE  BackpressureReachesWriters
<1> DEFINE d == Len(delivered)
           o == Bit(output # 0)
           r == Len(readResps)
           u == Bit(Unread)
           f == Len(pendingFrames)
           c == Len(consumed)
           m == Frames * Cardinality(Checked)
           k == Frames * Cardinality(Writers)
<1>1. /\ FrameRun(delivered, output, readResps, Unread, dataBuffer[address], pendingFrames, queued)
      /\ delivered \in Seq(Nat) /\ output \in Nat /\ readResps \in Seq(Nat)
      /\ Unread \in BOOLEAN /\ pendingFrames \in Seq(Nat)
  BY DEF DmaInv, FromInv, FrameInv, FromTypes, Unread
<1>2. d \in Nat /\ r \in Nat /\ f \in Nat /\ o \in Nat /\ u \in Nat /\ o <= 1
  <2>1. o <= 1
    BY DEF Bit
  <2>2. QED
    BY <1>1, <2>1, FrameTypes
<1>3. queued = d + o + r + u + f
  BY <1>1 DEF FrameRun
<1>4. r + u <= 1
  BY OneInTheBuffer DEF DmaInv
<1>5. f + m <= k
  BY DEF DmaInv, FromInv, QueueInv
<1>6. m \in Nat /\ k \in Nat /\ Channel \in Nat
  <2>1. IsFiniteSet(Writers) /\ Checked \subseteq Writers /\ Frames \in Nat /\ Channel \in Nat
    BY FromHostAssumption, LoopbackAssumption DEF Checked
  <2>2. Cardinality(Checked) \in Nat /\ Cardinality(Writers) \in Nat
    BY <2>1, FS_Subset, FS_CardinalityType
  <2>3. QED
    BY <2>1, <2>2
<1>7. taken \in Nat /\ c \in Nat /\ taken <= c + 1
  <2>1. taken \in Nat /\ c \in Nat
    BY LenProperties DEF DmaInv, ToInv, ToTypes
  <2>2. taken = c \/ taken = c + 1
    BY DEF DmaInv, ToInv, NotConnectedYet, Offered, Written, Full, Done
  <2>3. QED
    BY <2>1, <2>2
<1>8. d <= taken + Channel
  BY DEF DmaInv, ChannelInv
<1> HIDE DEF d, o, r, u, f, c, m, k
<1>9. queued + m - c <= k + 3 + Channel
  BY ONLY <1>2, <1>3, <1>4, <1>5, <1>6, <1>7, <1>8
<1>10. QED
  BY <1>9 DEF BackpressureReachesWriters, Checked, c, m, k

-----------------------------------------------------------------------------
(* The theorems *)

\* For any number of writers and frames of a message and any channel between the devices,
\* a frame is neither lost, repeated nor overtaken in either engine (the protocols at
\* Engines.cpp:60-67 and 270-275), as long as one thread polls the write port and each
\* port is connected once.
THEOREM FramesKeepOrderCorrect ==
    ASSUME OnePoller, OneConnect
    PROVE  LoopSpec => []FramesKeepOrder
<1>1. LoopInit => DmaInv
  BY DmaInit
<1>2. DmaInv /\ [LoopNext]_loopVars => DmaInv'
  BY DmaStep
<1>3. DmaInv => FramesKeepOrder
  BY FramesInOrder, MessagesInOrder DEF DmaInv, FramesKeepOrder
<1>4. QED
  BY <1>1, <1>2, <1>3, PTL DEF LoopSpec

\* Under the same conditions the writers are ahead of the callback by a message each, three
\* frames in the buffers and registers and the channel (Engines.cpp:444).
THEOREM BackpressureReachesWritersCorrect ==
    ASSUME OnePoller, OneConnect
    PROVE  LoopSpec => []BackpressureReachesWriters
<1>1. LoopInit => DmaInv
  BY DmaInit
<1>2. DmaInv /\ [LoopNext]_loopVars => DmaInv'
  BY DmaStep
<1>3. DmaInv => BackpressureReachesWriters
  BY WritersStop
<1>4. QED
  BY <1>1, <1>2, <1>3, PTL DEF LoopSpec

=============================================================================
