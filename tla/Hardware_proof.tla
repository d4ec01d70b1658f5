---------------------------- MODULE Hardware_proof ----------------------------
(***************************************************************************)
(* Proofs about the hardware.  EsiChannel, for every depth and latency of   *)
(* the FIFO and every number of tokens: about the buffers alone, and about  *)
(* the channel of buffer, FIFO and buffer, where the data of a token        *)
(* arrives Latency cycles after its handshake.  DcDiamond, for every        *)
(* placement of buffers on the edges and either wiring of select and merge: *)
(* what each edge holds, and that the order of the tokens does not depend   *)
(* on the buffers.                                                          *)
(***************************************************************************)
EXTENDS EsiChannel, DcDiamond, SequenceTheorems, FiniteSetTheorems, FunctionTheorems,
        WellFoundedInduction, TLAPS

\* The control registers of a buffer: an occupied lookaside register stands behind an
\* occupied output register, and the output was stalled in the last cycle.  Without the
\* second half, a_ready could be true with no room left.
LookasideInv(s) == s.lValid => s.xValid /\ ~s.xReadyReg

Control(s) == {s.xValid, s.lValid, s.xReadyReg} \subseteq BOOLEAN

StageInv(s) == Control(s) /\ LookasideInv(s)

\* The inductive invariant: both buffers, and the payloads of the first one.
BufferInv ==
    /\ StageInv(s1) /\ StageInv(s2)
    /\ s1.x \in Tokens /\ s1.l \in Tokens
    /\ sent \in 0..MaxTokens

-----------------------------------------------------------------------------
(* One stage *)

\* A clock edge leaves the control registers of the first buffer as LookasideInv says,
\* whatever its wires carry.
LEMMA InStageStep ==
    ASSUME StageInv(s1), NEW rst \in BOOLEAN, NEW aValid \in BOOLEAN, NEW a,
           NEW xReady \in BOOLEAN, In!Clock(rst, aValid, a, xReady)
    PROVE  StageInv(s1')
<1> DEFINE rcv  == In!ARcv(aValid)
           xmit == In!Xmit(xReady)
<1>1. /\ s1'.xValid = (~rst /\ (IF xmit THEN s1.lValid \/ rcv ELSE s1.xValid \/ rcv))
      /\ s1'.lValid = (~rst /\ (IF xmit THEN s1.lValid /\ rcv
                                        ELSE s1.lValid \/ (rcv /\ s1.xValid)))
      /\ s1'.xReadyReg = (~rst /\ xReady)
  BY DEF In!Clock, In!Clocked
<1>2. {s1.xValid, s1.lValid, s1.xReadyReg} \subseteq BOOLEAN
  BY DEF StageInv, Control
<1>3. rcv = ((~s1.lValid \/ s1.xReadyReg) /\ aValid) /\ xmit = (s1.xValid /\ xReady)
  BY DEF In!ARcv, In!AReady, In!Xmit
<1>4. s1.lValid => s1.xValid /\ ~s1.xReadyReg
  BY DEF StageInv, LookasideInv
<1> HIDE DEF rcv, xmit
<1>5. Control(s1')
  BY <1>1, <1>2, <1>3 DEF Control
<1>6. LookasideInv(s1')
  BY <1>1, <1>2, <1>3, <1>4 DEF LookasideInv
<1> QED BY <1>5, <1>6 DEF StageInv

\* The same of the second buffer, with its data delay.
LEMMA OutStageStep ==
    ASSUME StageInv(s2), NEW rst \in BOOLEAN, NEW aValid \in BOOLEAN, NEW a,
           NEW xReady \in BOOLEAN, Out!Clock(rst, aValid, a, xReady)
    PROVE  StageInv(s2')
<1> DEFINE rcv  == Out!ARcv(aValid)
           xmit == Out!Xmit(xReady)
<1>1. /\ s2'.xValid = (~rst /\ (IF xmit THEN s2.lValid \/ rcv ELSE s2.xValid \/ rcv))
      /\ s2'.lValid = (~rst /\ (IF xmit THEN s2.lValid /\ rcv
                                        ELSE s2.lValid \/ (rcv /\ s2.xValid)))
      /\ s2'.xReadyReg = (~rst /\ xReady)
  BY DEF Out!Clock, Out!Clocked
<1>2. {s2.xValid, s2.lValid, s2.xReadyReg} \subseteq BOOLEAN
  BY DEF StageInv, Control
<1>3. rcv = ((~s2.lValid \/ s2.xReadyReg) /\ aValid) /\ xmit = (s2.xValid /\ xReady)
  BY DEF Out!ARcv, Out!AReady, Out!Xmit
<1>4. s2.lValid => s2.xValid /\ ~s2.xReadyReg
  BY DEF StageInv, LookasideInv
<1> HIDE DEF rcv, xmit
<1>5. Control(s2')
  BY <1>1, <1>2, <1>3 DEF Control
<1>6. LookasideInv(s2')
  BY <1>1, <1>2, <1>3, <1>4 DEF LookasideInv
<1> QED BY <1>5, <1>6 DEF StageInv

-----------------------------------------------------------------------------
(* The channel *)

LEMMA BufferInit == Init => BufferInv
<1> SUFFICES ASSUME Init PROVE BufferInv
  OBVIOUS
<1>1. PICK x1, l1 \in Tokens : s1 = In!AfterReset(x1, l1)
  BY DEF Init, In!Init
<1>2. PICK x2, l2 \in Tokens : s2 = Out!AfterReset(x2, l2)
  BY DEF Init, Out!Init
<1>3. StageInv(s1) /\ s1.x \in Tokens /\ s1.l \in Tokens
  BY <1>1 DEF In!AfterReset, StageInv, Control, LookasideInv
<1>4. StageInv(s2)
  BY <1>2 DEF Out!AfterReset, StageInv, Control, LookasideInv
<1>5. sent \in 0..MaxTokens
  BY ChannelAssumption DEF Init
<1> QED BY <1>3, <1>4, <1>5 DEF BufferInv

LEMMA BufferStep == BufferInv /\ [Next]_vars => BufferInv'
<1> SUFFICES ASSUME BufferInv, [Next]_vars PROVE BufferInv'
  OBVIOUS
<1>1. CASE UNCHANGED vars
  BY <1>1 DEF BufferInv, StageInv, Control, LookasideInv, vars
<1>2. CASE Next
  <2>1. PICK rst, upValid, ready \in BOOLEAN : Clock(rst, upValid, ready)
    BY <1>2 DEF Next
  <2>2. /\ upValid => sent < MaxTokens
        /\ In!Clock(rst, upValid, sent + 1, InputEn)
        /\ Out!Clock(rst, ~Fifo!Empty, Fifo!Output, ready)
        /\ sent' = IF ~rst /\ In!ARcv(upValid) THEN sent + 1 ELSE sent
    BY <2>1 DEF Clock
  <2>3. StageInv(s1')
    <3>1. InputEn \in BOOLEAN
      BY DEF InputEn
    <3> QED BY <2>2, <3>1, InStageStep DEF BufferInv
  <2>4. StageInv(s2')
    <3>1. (~Fifo!Empty) \in BOOLEAN
      BY DEF Fifo!Empty
    <3> QED BY <2>2, <3>1, OutStageStep DEF BufferInv
  <2>5. sent' \in 0..MaxTokens
    <3>1. In!ARcv(upValid) => upValid
      BY DEF In!ARcv
    <3> QED BY <2>2, <3>1, ChannelAssumption DEF BufferInv
  <2>6. sent + 1 \in Tokens
    BY ChannelAssumption DEF BufferInv, Tokens
  <2>7. s1'.x \in {s1.x, s1.l, sent + 1} /\ s1'.l \in {s1.l, sent + 1}
    BY <2>2 DEF In!Clock, In!Clocked
  <2> QED BY <2>3, <2>4, <2>5, <2>6, <2>7 DEF BufferInv
<1> QED BY <1>1, <1>2

\* The assertion of ESI_PipelineStage (ESIPrimitives.sv:112-114) never fires, in either
\* buffer: when a token is accepted and none transmitted, the lookaside register is free.
THEOREM AssertionsHoldCorrect == Spec => []AssertionsHold
<1>1. BufferInv => AssertionsHold
  <2> SUFFICES ASSUME BufferInv PROVE AssertionsHold
    OBVIOUS
  <2>1. In!LookasideHasSpace
    BY DEF BufferInv, StageInv, LookasideInv, In!LookasideHasSpace, In!ARcv, In!AReady,
           In!Xmit
  <2>2. Out!LookasideHasSpace
    BY DEF BufferInv, StageInv, LookasideInv, Out!LookasideHasSpace, Out!ARcv,
           Out!AReady, Out!Xmit
  <2> QED BY <2>1, <2>2 DEF AssertionsHold
<1> QED BY <1>1, BufferInit, BufferStep, PTL DEF Spec

-----------------------------------------------------------------------------
(* The first buffer is a queue *)

\* One edge, by the cases of what the two registers hold.
LEMMA QueueLemma == BufferInv => In!QueueStep
<1> SUFFICES ASSUME BufferInv,
                    NEW rst \in BOOLEAN, NEW aValid \in BOOLEAN, NEW xReady \in BOOLEAN,
                    NEW a \in Tokens, In!Clock(rst, aValid, a, xReady)
             PROVE  In!Contents' = IF rst THEN <<>>
                        ELSE (IF In!Xmit(xReady) THEN Tail(In!Contents) ELSE In!Contents)
                             \o (IF In!ARcv(aValid) THEN <<a>> ELSE <<>>)
  BY DEF In!QueueStep
<1> DEFINE rcv  == In!ARcv(aValid)
           xmit == In!Xmit(xReady)
<1>1. /\ s1'.xValid = (~rst /\ (IF xmit THEN s1.lValid \/ rcv ELSE s1.xValid \/ rcv))
      /\ s1'.lValid = (~rst /\ (IF xmit THEN s1.lValid /\ rcv
                                        ELSE s1.lValid \/ (rcv /\ s1.xValid)))
  BY DEF In!Clock, In!Clocked
<1>2. /\ s1'.x = IF xmit \/ (rcv /\ ~s1.xValid)
                 THEN (IF xmit /\ s1.lValid THEN s1.l ELSE a) ELSE s1.x
      /\ s1'.l = IF (xmit /\ s1.lValid) \/ (~xmit /\ rcv /\ s1.xValid) THEN a ELSE s1.l
  BY DEF In!Clock, In!Clocked, In!PayloadMoves, In!Moves
<1>3. rcv = ((~s1.lValid \/ s1.xReadyReg) /\ aValid) /\ xmit = (s1.xValid /\ xReady)
  BY DEF In!ARcv, In!AReady, In!Xmit
<1>4. /\ s1.xValid \in BOOLEAN /\ s1.lValid \in BOOLEAN /\ s1.xReadyReg \in BOOLEAN
      /\ s1.lValid => s1.xValid /\ ~s1.xReadyReg
      /\ s1.x \in Tokens /\ s1.l \in Tokens
  BY DEF BufferInv, StageInv, Control, LookasideInv
<1>5. /\ In!Contents = (IF s1.xValid THEN <<s1.x>> ELSE <<>>)
                       \o (IF s1.lValid THEN <<s1.l>> ELSE <<>>)
      /\ In!Contents' = (IF s1'.xValid THEN <<s1'.x>> ELSE <<>>)
                        \o (IF s1'.lValid THEN <<s1'.l>> ELSE <<>>)
  BY DEF In!Contents
<1>6. ASSUME NEW x \in Tokens, NEW y \in Tokens
      PROVE  /\ <<>> \o <<x>> = <<x>> /\ <<x>> \o <<>> = <<x>>
             /\ <<x>> \o <<y>> = <<x, y>>
             /\ Tail(<<x>>) = <<>> /\ Tail(<<x, y>>) = <<y>>
  <2>1. <<>> \o <<x>> = <<x>> /\ <<x>> \o <<>> = <<x>>
    OBVIOUS
  <2>2. <<x>> \o <<y>> = <<x, y>>
    <3>1. <<x>> \o <<y>> \in Seq(Tokens) /\ <<x, y>> \in Seq(Tokens)
      OBVIOUS
    <3>2. Len(<<x>> \o <<y>>) = 2 /\ Len(<<x, y>>) = 2
      OBVIOUS
    <3>3. /\ (<<x>> \o <<y>>)[1] = x /\ (<<x>> \o <<y>>)[2] = y
          /\ <<x, y>>[1] = x /\ <<x, y>>[2] = y
      OBVIOUS
    <3>4. \A i \in 1..2 : (<<x>> \o <<y>>)[i] = <<x, y>>[i]
      BY <3>3
    <3> QED BY <3>1, <3>2, <3>4, SeqEqual
  <2>3. Tail(<<x>>) = <<>>
    OBVIOUS
  <2>4. Tail(<<x, y>>) = <<y>>
    OBVIOUS
  <2> QED BY <2>1, <2>2, <2>3, <2>4
<1>7. <<>> \o <<>> = <<>>
  OBVIOUS
<1> HIDE DEF rcv, xmit
<1>8. CASE rst
  BY <1>1, <1>5, <1>7, <1>8
<1>9. CASE ~rst /\ ~s1.xValid
  BY <1>1, <1>2, <1>3, <1>4, <1>5, <1>6, <1>7, <1>9 DEF rcv, xmit
<1>10. CASE ~rst /\ s1.xValid /\ ~s1.lValid
  BY <1>1, <1>2, <1>3, <1>4, <1>5, <1>6, <1>7, <1>10 DEF rcv, xmit
<1>11. CASE ~rst /\ s1.xValid /\ s1.lValid
  <2>1. ~rcv /\ In!Contents = <<s1.x, s1.l>>
    BY <1>3, <1>4, <1>5, <1>6, <1>11
  <2>2. CASE xmit
    <3>1. s1'.xValid /\ ~s1'.lValid /\ s1'.x = s1.l
      BY <1>1, <1>2, <1>11, <2>1, <2>2
    <3>2. In!Contents' = <<s1.l>>
      BY <1>4, <1>5, <1>6, <3>1
    <3>3. Tail(In!Contents) \o <<>> = <<s1.l>>
      BY <1>4, <1>6, <2>1
    <3> QED BY <1>11, <2>1, <2>2, <3>2, <3>3 DEF rcv, xmit
  <2>3. CASE ~xmit
    <3>1. s1'.xValid /\ s1'.lValid /\ s1'.x = s1.x /\ s1'.l = s1.l
      BY <1>1, <1>2, <1>11, <2>1, <2>3
    <3>2. In!Contents' = <<s1.x, s1.l>>
      BY <1>4, <1>5, <1>6, <3>1
    <3>3. <<s1.x, s1.l>> \o <<>> = <<s1.x, s1.l>>
      BY <1>4
    <3> QED BY <1>11, <2>1, <2>3, <3>2, <3>3 DEF rcv, xmit
  <2> QED BY <2>2, <2>3
<1> QED BY <1>4, <1>8, <1>9, <1>10, <1>11

\* ESIPrimitives.sv:10: a buffer without data delay drops, repeats and reorders nothing,
\* for every FIFO behind it and whatever its neighbours do.
THEOREM BufferIsQueueCorrect == Spec => BufferIsQueue
<1>1. BufferInv /\ [Next]_vars => [In!QueueStep]_vars
  BY QueueLemma
<1> QED BY <1>1, BufferInit, BufferStep, PTL DEF Spec, BufferIsQueue

-----------------------------------------------------------------------------
(* Sizes of pointers and counters *)

\* 2^n is the number of subsets of a set of n elements, one of which is {x} for each x.
LEMMA PowerBound ==
    ASSUME NEW n \in Nat
    PROVE  2^n \in Nat /\ n <= 2^n
<1> DEFINE S == 1..n
           f == [x \in S |-> {x}]
<1>1. IsFiniteSet(S) /\ Cardinality(S) = n
  <2>1. IsFiniteSet(1..n) /\ Cardinality(1..n) = IF 1 > n THEN 0 ELSE n - 1 + 1
    BY FS_Interval
  <2>2. QED
    BY <2>1
<1>2. IsFiniteSet(SUBSET S) /\ Cardinality(SUBSET S) = 2^n
  BY <1>1, FS_SUBSET
<1>3. f \in Injection(S, SUBSET S)
  BY DEF Injection, IsInjective
<1>4. Cardinality(S) <= Cardinality(SUBSET S) /\ Cardinality(SUBSET S) \in Nat
  BY <1>2, <1>3, FS_Injection, FS_CardinalityType
<1>5. QED
  BY <1>1, <1>2, <1>4

\* The CHOOSE of Log2Ceil has something to choose.
LEMMA Log2CeilBound ==
    ASSUME NEW n \in Nat
    PROVE  2^Fifo!Log2Ceil(n) \in Nat /\ 2^Fifo!Log2Ceil(n) >= n
<1> DEFINE T == {w \in 0..n : 2^w >= n}
<1>1. T \subseteq Nat /\ T # {}
  <2>1. n \in T
    BY PowerBound
  <2>2. QED
    BY <2>1
<1>2. PICK w \in T : \A v \in T : ~(<<v, w>> \in OpToRel(<, Nat))
  BY <1>1, NatLessThanWellFounded, WFMin
<1>3. \A v \in T : ~(v < w)
  BY <1>1, <1>2 DEF OpToRel
<1>4. w \in 0..n /\ 2^w >= n
  OBVIOUS
<1>5. ASSUME NEW v \in 0..(w - 1) PROVE 2^v < n
  <2>1. v \in 0..n /\ v < w /\ v \in Nat
    BY <1>4
  <2>2. ~(2^v >= n)
    BY <1>3, <2>1
  <2>3. QED
    BY <2>1, <2>2, PowerBound
<1>6. \E x \in 0..n : 2^x >= n /\ \A v \in 0..(x - 1) : 2^v < n
  BY <1>4, <1>5
<1>7. Fifo!Log2Ceil(n) \in 0..n /\ 2^Fifo!Log2Ceil(n) >= n
  BY <1>6 DEF Fifo!Log2Ceil
<1>8. QED
  BY <1>7, PowerBound

LEMMA SizeBounds ==
    /\ Fifo!PtrSize \in Nat /\ Fifo!PtrSize >= Depth
    /\ Fifo!CountSize \in Nat /\ Fifo!CountSize >= Depth + 1
<1>1. Depth \in Nat /\ Depth + 1 \in Nat
  BY ChannelAssumption
<1>2. QED
  BY <1>1, Log2CeilBound DEF Fifo!PtrSize, Fifo!CountSize

LEMMA ModLess == ASSUME NEW n \in Nat, NEW m \in Nat, n < m PROVE n % m = n
OBVIOUS

LEMMA ModSelf == ASSUME NEW m \in Nat, m > 0 PROVE m % m = 0
OBVIOUS

-----------------------------------------------------------------------------
(* Where the tokens are *)

Bit(b) == IF b THEN 1 ELSE 0

LEMMA BitIs == ASSUME NEW b PROVE Bit(b) \in {0, 1} /\ (b => Bit(b) = 1) /\ (~b => Bit(b) = 0)
BY DEF Bit

\* How many tokens the buffers hold.
N1 == Bit(s1.xValid) + Bit(s1.lValid)
N2 == Bit(s2.xValid) + Bit(s2.lValid)

\* The number of the next token to leave the FIFO, and the oldest token in a slot of its
\* memory: popped ones are still there until they are read.
First  == sent - N1 - fifo.count + 1
Oldest == First - (Fifo!Used - fifo.count)

Addresses == 0..(Depth - 1)

\* The slots are a ring.
Around(n) == IF n < 0 THEN n + Depth ELSE IF n >= Depth THEN n - Depth ELSE n
Slot(t) == Around(fifo.rdAddr + t - First)

FirstBufferInv ==
    /\ s1.xValid => s1.x = sent - N1 + 1
    /\ s1.lValid => s1.l = sent

FifoTypes ==
    /\ fifo.count \in Nat /\ Fifo!Used \in Nat
    /\ fifo.count <= Fifo!Used /\ Fifo!Used <= Depth
    /\ fifo.rdAddr \in Addresses /\ fifo.wrAddr \in Addresses
    /\ fifo.mem \in [Addresses -> Tokens]
    /\ fifo.inflight \in [1..Fifo!Inflight -> BOOLEAN]
    /\ fifo.rdAddrDly \in [1..Fifo!Inflight -> Addresses]

MemoryInv ==
    /\ fifo.wrAddr = Slot(First + fifo.count)
    /\ \A t \in Oldest..(First + fifo.count - 1) : fifo.mem[Slot(t)] = t
    /\ Oldest >= 1 /\ First - N2 >= 1

InsideInv ==
    /\ inside \in Seq(Nat) /\ Len(inside) = N1 + fifo.count + N2
    /\ \A i \in 1..Len(inside) : inside[i] = First - N2 - 1 + i

-----------------------------------------------------------------------------
(* The edge without reset, part by part *)

\* The first buffer.
LEMMA FirstBufferStep ==
    ASSUME BufferInv, FirstBufferInv, NEW upValid \in BOOLEAN,
           In!Clock(FALSE, upValid, sent + 1, InputEn),
           sent' = sent + Bit(In!ARcv(upValid))
    PROVE  /\ FirstBufferInv'
           /\ N1' = N1 + Bit(In!ARcv(upValid)) - Bit(InputEn)
           /\ InputEn => s1.x = sent - N1 + 1 /\ N1 >= 1
           /\ N1 \in 0..2
<1> DEFINE rcv  == In!ARcv(upValid)
           xmit == In!Xmit(InputEn)
<1>1. /\ s1'.xValid = (IF xmit THEN s1.lValid \/ rcv ELSE s1.xValid \/ rcv)
      /\ s1'.lValid = (IF xmit THEN s1.lValid /\ rcv
                               ELSE s1.lValid \/ (rcv /\ s1.xValid))
  BY DEF In!Clock, In!Clocked
<1>2. /\ s1'.x = IF xmit \/ (rcv /\ ~s1.xValid)
                 THEN (IF xmit /\ s1.lValid THEN s1.l ELSE sent + 1) ELSE s1.x
      /\ s1'.l = IF (xmit /\ s1.lValid) \/ (~xmit /\ rcv /\ s1.xValid) THEN sent + 1 ELSE s1.l
  BY DEF In!Clock, In!Clocked, In!PayloadMoves, In!Moves
<1>3. /\ rcv = ((~s1.lValid \/ s1.xReadyReg) /\ upValid) /\ xmit = InputEn
      /\ InputEn => s1.xValid
  BY DEF In!ARcv, In!AReady, In!Xmit, InputEn
<1>4. /\ s1.xValid \in BOOLEAN /\ s1.lValid \in BOOLEAN /\ s1.xReadyReg \in BOOLEAN
      /\ s1.lValid => s1.xValid /\ ~s1.xReadyReg
      /\ sent \in Nat
  BY ChannelAssumption DEF BufferInv, StageInv, Control, LookasideInv
<1>5. /\ N1 = Bit(s1.xValid) + Bit(s1.lValid)
      /\ N1' = Bit(s1'.xValid) + Bit(s1'.lValid)
  BY DEF N1
<1>6. (s1.xValid => s1.x = sent - N1 + 1) /\ (s1.lValid => s1.l = sent)
  BY DEF FirstBufferInv
<1>7. rcv \in BOOLEAN /\ xmit \in BOOLEAN /\ InputEn \in BOOLEAN
  BY DEF In!ARcv, In!Xmit, InputEn
<1>8. sent' = sent + Bit(rcv)
  OBVIOUS
<1> HIDE DEF rcv, xmit
<1> SUFFICES /\ (s1'.xValid => s1'.x = sent' - N1' + 1) /\ (s1'.lValid => s1'.l = sent')
             /\ N1' = N1 + Bit(rcv) - Bit(xmit)
             /\ xmit => s1.x = sent - N1 + 1 /\ N1 >= 1
             /\ N1 \in 0..2
  BY <1>3 DEF FirstBufferInv, rcv
<1>9. CASE ~s1.xValid
  BY <1>1, <1>2, <1>3, <1>4, <1>5, <1>7, <1>8, <1>9 DEF Bit
<1>12. /\ s1'.xValid /\ ~s1'.lValid => N1' = 1
       /\ s1'.xValid /\ s1'.lValid => N1' = 2
       /\ ~s1'.xValid /\ ~s1'.lValid => N1' = 0
  BY <1>5 DEF Bit
<1>13. /\ rcv => Bit(rcv) = 1 /\ sent' = sent + 1
       /\ ~rcv => Bit(rcv) = 0 /\ sent' = sent
       /\ xmit => Bit(xmit) = 1
       /\ ~xmit => Bit(xmit) = 0
  BY <1>4, <1>8 DEF Bit
<1>10. CASE s1.xValid /\ ~s1.lValid
  <2>1. N1 = 1 /\ s1.x = sent
    BY <1>4, <1>5, <1>6, <1>10 DEF Bit
  <2>2. CASE xmit /\ rcv
    <3>1. s1'.xValid /\ ~s1'.lValid /\ s1'.x = sent + 1
      BY <1>1, <1>2, <1>4, <1>10, <2>1, <2>2
    <3>2. N1' = 1 /\ sent' = sent + 1 /\ Bit(rcv) = 1 /\ Bit(xmit) = 1
      BY <1>12, <1>13, <1>10, <2>1, <2>2, <3>1
    <3>3. N1' = N1 + Bit(rcv) - Bit(xmit) /\ N1 \in 0..2
      BY <2>1, <3>2
    <3>4. (s1'.xValid => s1'.x = sent' - N1' + 1) /\ (s1'.lValid => s1'.l = sent')
      BY <1>4, <2>1, <3>1, <3>2
    <3>5. s1.x = sent - N1 + 1 /\ N1 >= 1
      BY <1>4, <2>1
    <3>6. QED
      BY <3>3, <3>4, <3>5
  <2>3. CASE xmit /\ ~rcv
    <3>1. ~s1'.xValid /\ ~s1'.lValid
      BY <1>1, <1>2, <1>4, <1>10, <2>1, <2>3
    <3>2. N1' = 0 /\ sent' = sent /\ Bit(rcv) = 0 /\ Bit(xmit) = 1
      BY <1>12, <1>13, <1>10, <2>1, <2>3, <3>1
    <3>3. N1' = N1 + Bit(rcv) - Bit(xmit) /\ N1 \in 0..2
      BY <2>1, <3>2
    <3>4. (s1'.xValid => s1'.x = sent' - N1' + 1) /\ (s1'.lValid => s1'.l = sent')
      BY <1>4, <2>1, <3>1, <3>2
    <3>5. s1.x = sent - N1 + 1 /\ N1 >= 1
      BY <1>4, <2>1
    <3>6. QED
      BY <3>3, <3>4, <3>5
  <2>4. CASE ~xmit /\ rcv
    <3>1. s1'.xValid /\ s1'.lValid /\ s1'.x = s1.x /\ s1'.l = sent + 1
      BY <1>1, <1>2, <1>4, <1>10, <2>1, <2>4
    <3>2. N1' = 2 /\ sent' = sent + 1 /\ Bit(rcv) = 1 /\ Bit(xmit) = 0
      BY <1>12, <1>13, <1>10, <2>1, <2>4, <3>1
    <3>3. N1' = N1 + Bit(rcv) - Bit(xmit) /\ N1 \in 0..2
      BY <2>1, <3>2
    <3>4. (s1'.xValid => s1'.x = sent' - N1' + 1) /\ (s1'.lValid => s1'.l = sent')
      BY <1>4, <2>1, <3>1, <3>2
    <3>5. s1.x = sent - N1 + 1 /\ N1 >= 1
      BY <1>4, <2>1
    <3>6. QED
      BY <3>3, <3>4, <3>5
  <2>5. CASE ~xmit /\ ~rcv
    <3>1. s1'.xValid /\ ~s1'.lValid /\ s1'.x = s1.x
      BY <1>1, <1>2, <1>4, <1>10, <2>1, <2>5
    <3>2. N1' = 1 /\ sent' = sent /\ Bit(rcv) = 0 /\ Bit(xmit) = 0
      BY <1>12, <1>13, <1>10, <2>1, <2>5, <3>1
    <3>3. N1' = N1 + Bit(rcv) - Bit(xmit) /\ N1 \in 0..2
      BY <2>1, <3>2
    <3>4. (s1'.xValid => s1'.x = sent' - N1' + 1) /\ (s1'.lValid => s1'.l = sent')
      BY <1>4, <2>1, <3>1, <3>2
    <3>5. s1.x = sent - N1 + 1 /\ N1 >= 1
      BY <1>4, <2>1
    <3>6. QED
      BY <3>3, <3>4, <3>5
  <2>6. QED
    BY <1>7, <2>2, <2>3, <2>4, <2>5
<1>11. CASE s1.lValid
  <2>1. s1.xValid /\ N1 = 2 /\ s1.x = sent - 1 /\ s1.l = sent /\ ~rcv
    BY <1>3, <1>4, <1>5, <1>6, <1>11 DEF Bit
  <2>2. CASE xmit
    <3>1. s1'.xValid /\ ~s1'.lValid /\ s1'.x = s1.l
      BY <1>1, <1>2, <1>4, <1>11, <2>1, <2>2
    <3>2. N1' = 1 /\ sent' = sent /\ Bit(rcv) = 0 /\ Bit(xmit) = 1
      BY <1>12, <1>13, <1>11, <2>1, <2>2, <3>1
    <3>3. N1' = N1 + Bit(rcv) - Bit(xmit) /\ N1 \in 0..2
      BY <2>1, <3>2
    <3>4. (s1'.xValid => s1'.x = sent' - N1' + 1) /\ (s1'.lValid => s1'.l = sent')
      BY <1>4, <2>1, <3>1, <3>2
    <3>5. s1.x = sent - N1 + 1 /\ N1 >= 1
      BY <1>4, <2>1
    <3>6. QED
      BY <3>3, <3>4, <3>5
  <2>3. CASE ~xmit
    <3>1. s1'.xValid /\ s1'.lValid /\ s1'.x = s1.x /\ s1'.l = s1.l
      BY <1>1, <1>2, <1>4, <1>11, <2>1, <2>3
    <3>2. N1' = 2 /\ sent' = sent /\ Bit(rcv) = 0 /\ Bit(xmit) = 0
      BY <1>12, <1>13, <1>11, <2>1, <2>3, <3>1
    <3>3. N1' = N1 + Bit(rcv) - Bit(xmit) /\ N1 \in 0..2
      BY <2>1, <3>2
    <3>4. (s1'.xValid => s1'.x = sent' - N1' + 1) /\ (s1'.lValid => s1'.l = sent')
      BY <1>4, <2>1, <3>1, <3>2
    <3>5. s1.x = sent - N1 + 1 /\ N1 >= 1
      BY <1>4, <2>1
    <3>6. QED
      BY <3>3, <3>4, <3>5
  <2>4. QED
    BY <1>7, <2>2, <2>3
<1>14. QED
  BY <1>4, <1>9, <1>10, <1>11

\* A pointer after an edge.
LEMMA AdvanceIs ==
    ASSUME NEW ptr \in Addresses, NEW en \in BOOLEAN
    PROVE  Fifo!Advance(ptr, en) = Around(ptr + Bit(en)) /\ Around(ptr + Bit(en)) \in Addresses
<1>1. /\ Depth \in Nat /\ Depth >= 1 /\ Fifo!PtrSize \in Nat /\ Fifo!PtrSize >= Depth
      /\ ptr \in Nat /\ ptr + 1 <= Depth
  BY ChannelAssumption, SizeBounds DEF Addresses
<1>2. CASE ~en
  <2>1. Fifo!Advance(ptr, en) = IF ptr = Depth % Fifo!PtrSize THEN 0 ELSE ptr
    BY <1>2 DEF Fifo!Advance
  <2>2. ptr = Depth % Fifo!PtrSize => ptr = 0
    BY <1>1, ModLess, ModSelf
  <2>3. Around(ptr + 0) = ptr
    BY <1>1 DEF Around
  <2>4. QED
    BY <1>1, <1>2, <2>1, <2>2, <2>3 DEF Bit, Addresses
<1>3. CASE en
  <2>1. Fifo!Advance(ptr, en) = IF (ptr + 1) % Fifo!PtrSize = Depth % Fifo!PtrSize THEN 0
                                ELSE (ptr + 1) % Fifo!PtrSize
    BY <1>3 DEF Fifo!Advance
  <2>2. Around(ptr + 1) = IF ptr + 1 = Depth THEN 0 ELSE ptr + 1
    BY <1>1 DEF Around
  <2>3. CASE ptr + 1 = Depth
    <3>1. Fifo!Advance(ptr, en) = 0 /\ Around(ptr + 1) = 0 /\ 0 \in Addresses
      BY <1>1, <2>1, <2>2, <2>3 DEF Addresses
    <3>2. QED
      BY <1>3, <3>1 DEF Bit
  <2>4. CASE ptr + 1 # Depth
    <3>1. ptr + 1 < Fifo!PtrSize /\ ptr + 1 \in Nat
      BY <1>1, <2>4
    <3>2. (ptr + 1) % Fifo!PtrSize = ptr + 1
      BY <1>1, <3>1, ModLess
    <3>3. ptr + 1 # Depth % Fifo!PtrSize
      <4>1. CASE Depth = Fifo!PtrSize
        BY <1>1, <4>1, ModSelf
      <4>2. CASE Depth < Fifo!PtrSize
        BY <1>1, <2>4, <4>2, ModLess
      <4>3. QED
        BY <1>1, <4>1, <4>2
    <3>4. ptr + 1 \in Addresses
      BY <1>1, <2>4 DEF Addresses
    <3>5. Fifo!Advance(ptr, en) = ptr + 1 /\ Around(ptr + 1) = ptr + 1
      BY <2>1, <2>2, <2>4, <3>2, <3>3
    <3>6. QED
      BY <1>3, <3>4, <3>5 DEF Bit
  <2>5. QED
    BY <2>3, <2>4
<1>4. QED
  BY <1>2, <1>3

\* Going round by b and back does not matter, ...
LEMMA AroundMoves ==
    ASSUME NEW r \in Addresses, NEW d \in Int, NEW b \in {0, 1},
           -Depth <= d - b, d <= Depth
    PROVE  /\ Around(r + d) \in Addresses
           /\ Around(Around(r + b) + (d - b)) = Around(r + d)
<1>1. Depth \in Nat /\ Depth >= 1 /\ r \in Nat /\ r + 1 <= Depth
  BY ChannelAssumption DEF Addresses
<1>2. Around(r + d) \in Addresses
  BY <1>1 DEF Around, Addresses
<1>3. CASE b = 0
  <2>1. Around(r + 0) = r /\ d - 0 = d
    BY <1>1 DEF Around
  <2>2. QED
    BY <1>2, <1>3, <2>1
<1>4. CASE b = 1
  <2>1. CASE r + 1 = Depth
    <3>1. Around(r + 1) = 0
      BY <1>1, <2>1 DEF Around
    <3>2. Around(0 + (d - 1)) = Around(r + d)
      BY <1>1, <1>4, <2>1 DEF Around
    <3>3. QED
      BY <1>2, <1>4, <3>1, <3>2
  <2>2. CASE r + 1 # Depth
    <3>1. Around(r + 1) = r + 1 /\ (r + 1) + (d - 1) = r + d
      BY <1>1, <2>2 DEF Around
    <3>2. QED
      BY <1>2, <1>4, <3>1
  <2>3. QED
    BY <2>1, <2>2
<1>5. QED
  BY <1>3, <1>4

\* ... and slots less than a round apart differ.
LEMMA AroundApart ==
    ASSUME NEW r \in Addresses, NEW d \in Int, NEW e \in Int,
           -Depth <= d, d < e, e <= Depth, e - d < Depth
    PROVE  Around(r + d) # Around(r + e)
<1>1. Depth \in Nat /\ Depth >= 1 /\ r \in Nat /\ r + 1 <= Depth
  BY ChannelAssumption DEF Addresses
<1>2. QED
  BY <1>1 DEF Around

LEMMA InflightIs == Fifo!Inflight \in Nat /\ (Fifo!Inflight > 0 => Fifo!Inflight = Latency - 1)
                    /\ (Fifo!Inflight = 0 => Latency \in {0, 1})
BY ChannelAssumption DEF Fifo!Inflight

\* The counters and pointers of the FIFO.
LEMMA CountersStep ==
    ASSUME FifoTypes, NEW input \in Tokens, Fifo!Clock(FALSE, InputEn, input, OutputRdEn),
           Fifo!Inflight > 0 /\ fifo.inflight[Fifo!Inflight] => fifo.count < Fifo!Used
    PROVE  /\ fifo'.count = fifo.count + Bit(InputEn) - Bit(OutputRdEn)
           /\ Fifo!Used' = Fifo!Used + Bit(InputEn) - Bit(Fifo!Retire(OutputRdEn))
           /\ fifo'.rdAddr = Around(fifo.rdAddr + Bit(OutputRdEn))
           /\ fifo'.wrAddr = Around(fifo.wrAddr + Bit(InputEn))
           /\ InputEn => Fifo!Used < Depth
           /\ OutputRdEn => fifo.count >= 1
           /\ FifoTypes'
           /\ Fifo!Pop(OutputRdEn) = OutputRdEn
<1>1. /\ fifo'.count = Fifo!NextCount(InputEn, OutputRdEn)
      /\ fifo'.used = (IF Fifo!Inflight = 0 THEN 0 ELSE Fifo!NextUsed(InputEn, OutputRdEn))
      /\ fifo'.rdAddr = Fifo!Advance(fifo.rdAddr, Fifo!Pop(OutputRdEn))
      /\ fifo'.wrAddr = Fifo!Advance(fifo.wrAddr, Fifo!Push(InputEn))
      /\ fifo'.mem = (IF InputEn THEN [fifo.mem EXCEPT ![fifo.wrAddr] = input] ELSE fifo.mem)
      /\ fifo'.inflight = [i \in 1..Fifo!Inflight |->
             IF i = 1 THEN Fifo!Pop(OutputRdEn) ELSE fifo.inflight[i - 1]]
      /\ fifo'.rdAddrDly = [i \in 1..Fifo!Inflight |->
             IF i = 1 THEN fifo.rdAddr ELSE fifo.rdAddrDly[i - 1]]
  <2>1. \A b \in BOOLEAN : (~FALSE /\ b) = b
    OBVIOUS
  <2>2. \A i \in 1..Fifo!Inflight :
            (IF i = 1 THEN Fifo!Pop(OutputRdEn) ELSE fifo.inflight[i - 1]) \in BOOLEAN
    <3>1. Fifo!Pop(OutputRdEn) \in BOOLEAN
      BY DEF Fifo!Pop, OutputRdEn
    <3>2. \A i \in 1..Fifo!Inflight : i # 1 => i - 1 \in 1..Fifo!Inflight
      BY InflightIs
    <3>3. QED
      BY <3>1, <3>2 DEF FifoTypes
  <2>3. fifo'.inflight = [i \in 1..Fifo!Inflight |->
             ~FALSE /\ (IF i = 1 THEN Fifo!Pop(OutputRdEn) ELSE fifo.inflight[i - 1])]
    BY DEF Fifo!Clock
  <2>4. fifo'.inflight = [i \in 1..Fifo!Inflight |->
             IF i = 1 THEN Fifo!Pop(OutputRdEn) ELSE fifo.inflight[i - 1]]
    BY <2>1, <2>2, <2>3
  <2>5. QED
    BY <2>4 DEF Fifo!Clock
<1>2. /\ InputEn \in BOOLEAN /\ OutputRdEn \in BOOLEAN
      /\ Fifo!Push(InputEn) = InputEn /\ Fifo!Pop(OutputRdEn) = OutputRdEn
      /\ InputEn => Fifo!Used # Depth
      /\ OutputRdEn => fifo.count # 0
  BY DEF InputEn, OutputRdEn, Fifo!Push, Fifo!Pop, Fifo!Full, Fifo!Empty
<1>3. /\ fifo.count \in Nat /\ Fifo!Used \in Nat /\ fifo.count <= Fifo!Used /\ Fifo!Used <= Depth
      /\ fifo.rdAddr \in Addresses /\ fifo.wrAddr \in Addresses
      /\ fifo.mem \in [Addresses -> Tokens]
      /\ Depth \in Nat /\ Fifo!CountSize \in Nat /\ Fifo!CountSize >= Depth + 1
  BY ChannelAssumption, SizeBounds DEF FifoTypes
<1>4. (InputEn => Fifo!Used < Depth /\ fifo.count < Depth) /\ (OutputRdEn => fifo.count >= 1)
  BY <1>2, <1>3
<1>5. fifo'.count = fifo.count + Bit(InputEn) - Bit(OutputRdEn)
  <2>1. fifo'.count = IF InputEn /\ ~OutputRdEn THEN (fifo.count + 1) % Fifo!CountSize
                      ELSE IF OutputRdEn /\ ~InputEn THEN fifo.count - 1 ELSE fifo.count
    BY <1>1, <1>2, <1>4 DEF Fifo!NextCount, Fifo!Full, Fifo!Empty
  <2>2. InputEn => (fifo.count + 1) % Fifo!CountSize = fifo.count + 1
    <3>1. InputEn => fifo.count + 1 < Fifo!CountSize /\ fifo.count + 1 \in Nat
      BY <1>3, <1>4
    <3>2. QED
      BY <1>3, <3>1, ModLess
  <2>3. QED
    BY <1>2, <1>3, <2>1, <2>2 DEF Bit
<1>6. Fifo!Retire(OutputRdEn) \in BOOLEAN
      /\ (Fifo!Inflight = 0 => Fifo!Retire(OutputRdEn) = OutputRdEn)
      /\ (Fifo!Inflight # 0 => Fifo!Retire(OutputRdEn) = fifo.inflight[Fifo!Inflight])
  BY <1>2, InflightIs DEF Fifo!Retire, FifoTypes
<1>7. /\ Fifo!Used' = Fifo!Used + Bit(InputEn) - Bit(Fifo!Retire(OutputRdEn))
      /\ fifo'.count <= Fifo!Used'
  <2>1. CASE Fifo!Inflight = 0
    <3>1. Fifo!Used = fifo.count /\ Fifo!Used' = fifo'.count
      BY <2>1 DEF Fifo!Used
    <3>2. Bit(InputEn) \in Nat /\ Bit(OutputRdEn) \in Nat
      BY DEF Bit
    <3>3. fifo'.count \in Int
      BY <1>3, <1>5, <3>2
    <3>4. QED
      BY <1>5, <1>6, <2>1, <3>1, <3>3
  <2>2. CASE Fifo!Inflight # 0
    <3>1. Fifo!Inflight > 0
      BY <2>2, InflightIs
    <3>2. Fifo!Used = fifo.used /\ Fifo!Used' = fifo'.used
      BY <3>1 DEF Fifo!Used
    <3> DEFINE u == Fifo!Used
               r == Fifo!Retire(OutputRdEn)
    <3>3. fifo'.used = IF InputEn /\ ~r THEN (u + 1) % Fifo!CountSize
                       ELSE IF r /\ ~InputEn THEN (u - 1) % Fifo!CountSize ELSE u
      BY <1>1, <1>2, <2>2, <3>2 DEF Fifo!NextUsed
    <3>4. r => fifo.count < u
      BY <1>6, <2>2, <3>1
    <3>5. u \in Nat /\ u <= Depth /\ r \in BOOLEAN
      BY <1>3, <1>6
    <3> HIDE DEF u, r
    <3>6. InputEn => (u + 1) % Fifo!CountSize = u + 1
      <4>1. InputEn => u + 1 < Fifo!CountSize /\ u + 1 \in Nat
        BY <1>3, <1>4, <3>5 DEF u
      <4>2. QED
        BY <1>3, <4>1, ModLess
    <3>7. r => (u - 1) % Fifo!CountSize = u - 1
      <4>1. r => u - 1 < Fifo!CountSize /\ u - 1 \in Nat
        BY <1>3, <3>4, <3>5
      <4>2. QED
        BY <1>3, <4>1, ModLess
    <3>8. fifo'.used = u + Bit(InputEn) - Bit(r)
      BY <1>2, <3>3, <3>5, <3>6, <3>7 DEF Bit
    <3>9. fifo.count <= u /\ fifo.count \in Nat
      BY <1>3 DEF u
    <3>10. fifo.count + Bit(InputEn) - Bit(OutputRdEn) <= u + Bit(InputEn) - Bit(r)
      BY <1>2, <3>4, <3>5, <3>9 DEF Bit
    <3>11. QED
      BY <1>5, <3>2, <3>8, <3>10 DEF u, r
  <2>3. QED
    BY <2>1, <2>2
<1>8. fifo'.count \in Nat /\ Fifo!Used' \in Nat /\ Fifo!Used' <= Depth
  <2>1. Bit(InputEn) \in {0, 1} /\ Bit(OutputRdEn) \in {0, 1}
        /\ Bit(Fifo!Retire(OutputRdEn)) \in {0, 1}
        /\ (InputEn => Bit(InputEn) = 1) /\ (~InputEn => Bit(InputEn) = 0)
        /\ (~OutputRdEn => Bit(OutputRdEn) = 0)
    BY DEF Bit
  <2>2. fifo'.count \in Nat
    BY <1>2, <1>3, <1>4, <1>5, <2>1
  <2>3. Fifo!Used' <= Depth /\ Fifo!Used' \in Int
    BY <1>2, <1>3, <1>4, <1>7, <2>1
  <2>4. QED
    BY <1>7, <2>2, <2>3
<1>9. /\ fifo'.rdAddr = Around(fifo.rdAddr + Bit(OutputRdEn)) /\ fifo'.rdAddr \in Addresses
      /\ fifo'.wrAddr = Around(fifo.wrAddr + Bit(InputEn)) /\ fifo'.wrAddr \in Addresses
  BY <1>1, <1>2, <1>3, AdvanceIs
<1>10. fifo'.mem \in [Addresses -> Tokens]
  BY <1>1, <1>2, <1>3
<1>11. /\ fifo'.inflight \in [1..Fifo!Inflight -> BOOLEAN]
       /\ fifo'.rdAddrDly \in [1..Fifo!Inflight -> Addresses]
  <2>1. \A i \in 1..Fifo!Inflight : i # 1 => i - 1 \in 1..Fifo!Inflight
    BY InflightIs
  <2>2. /\ fifo.inflight \in [1..Fifo!Inflight -> BOOLEAN]
        /\ fifo.rdAddrDly \in [1..Fifo!Inflight -> Addresses]
    BY DEF FifoTypes
  <2>3. \A i \in 1..Fifo!Inflight :
            (IF i = 1 THEN OutputRdEn ELSE fifo.inflight[i - 1]) \in BOOLEAN
    BY <1>2, <2>1, <2>2
  <2>4. \A i \in 1..Fifo!Inflight :
            (IF i = 1 THEN fifo.rdAddr ELSE fifo.rdAddrDly[i - 1]) \in Addresses
    BY <1>3, <2>1, <2>2
  <2>5. fifo'.inflight \in [1..Fifo!Inflight -> BOOLEAN]
    BY <1>1, <1>2, <2>3
  <2>6. fifo'.rdAddrDly \in [1..Fifo!Inflight -> Addresses]
    BY <1>1, <2>4
  <2>7. QED
    BY <2>5, <2>6
<1>12. QED
  BY <1>2, <1>4, <1>5, <1>7, <1>8, <1>9, <1>10, <1>11 DEF FifoTypes


-----------------------------------------------------------------------------
(* What the registers of the second buffer held *)

\* The tokens that are in the registers of the second buffer by its control registers,
\* and the one that leaves the FIFO in this cycle; 0 is none.
XNow == IF s2.xValid THEN First - N2 ELSE 0
YNow == IF s2.lValid THEN First - 1 ELSE 0
PNow == IF OutputRdEn THEN First ELSE 0

\* What one cycle of the control registers does to the tokens: from x and y, with p
\* leaving the FIFO, to x2 and y2.
Moved(mv, x, y, p, x2, y2) ==
    /\ x2 # 0 => x2 = IF mv.xLoad THEN (IF mv.xFromL THEN y ELSE p) ELSE x
    /\ y2 # 0 => y2 = IF mv.lLoad THEN p ELSE y

\* The control registers move tokens the way the payload registers will move payloads.
LEMMA SecondBufferStep ==
    ASSUME BufferInv, First \in Int, First' = First + Bit(OutputRdEn),
           NEW ready \in BOOLEAN, NEW a, Out!Clock(FALSE, ~Fifo!Empty, a, ready)
    PROVE  /\ N2' = N2 + Bit(OutputRdEn) - Bit(Out!Xmit(ready))
           /\ N2 \in 0..2 /\ (Out!Xmit(ready) => N2 >= 1) /\ (s2.lValid => N2 = 2)
           /\ Moved(Out!Moves(~Fifo!Empty, ready), XNow, YNow, PNow, XNow', YNow')
<1> DEFINE rcv  == Out!ARcv(~Fifo!Empty)
           xmit == Out!Xmit(ready)
           mv   == Out!Moves(~Fifo!Empty, ready)
<1>1. /\ s2'.xValid = (IF xmit THEN s2.lValid \/ rcv ELSE s2.xValid \/ rcv)
      /\ s2'.lValid = (IF xmit THEN s2.lValid /\ rcv
                               ELSE s2.lValid \/ (rcv /\ s2.xValid))
  BY DEF Out!Clock, Out!Clocked
<1>2. /\ mv.xLoad = (xmit \/ (rcv /\ ~s2.xValid))
      /\ mv.xFromL = (xmit /\ s2.lValid)
      /\ mv.lLoad = ((xmit /\ s2.lValid) \/ (~xmit /\ rcv /\ s2.xValid))
  BY DEF Out!Moves
<1>3. /\ rcv = OutputRdEn
      /\ rcv => ~s2.lValid \/ s2.xReadyReg
      /\ xmit => s2.xValid
      /\ rcv \in BOOLEAN /\ xmit \in BOOLEAN
  BY DEF Out!ARcv, Out!AReady, Out!Xmit, OutputRdEn
<1>4. /\ s2.xValid \in BOOLEAN /\ s2.lValid \in BOOLEAN
      /\ s2.lValid => s2.xValid /\ ~rcv
  BY <1>3 DEF BufferInv, StageInv, Control, LookasideInv
<1>5. /\ N2 = Bit(s2.xValid) + Bit(s2.lValid)
      /\ N2' = Bit(s2'.xValid) + Bit(s2'.lValid)
      /\ XNow = IF s2.xValid THEN First - N2 ELSE 0
      /\ YNow = IF s2.lValid THEN First - 1 ELSE 0
      /\ PNow = IF rcv THEN First ELSE 0
      /\ XNow' = IF s2'.xValid THEN First' - N2' ELSE 0
      /\ YNow' = IF s2'.lValid THEN First' - 1 ELSE 0
  BY <1>3 DEF N2, XNow, YNow, PNow
<1>6. /\ rcv => First' - 1 = First /\ First' - 2 = First - 1 /\ Bit(rcv) = 1
      /\ ~rcv => First' = First /\ Bit(rcv) = 0
      /\ xmit => Bit(xmit) = 1
      /\ ~xmit => Bit(xmit) = 0
  BY <1>3 DEF Bit
<1>7. /\ s2.xValid /\ s2.lValid => N2 = 2
      /\ s2.xValid /\ ~s2.lValid => N2 = 1
      /\ ~s2.xValid /\ ~s2.lValid => N2 = 0
      /\ s2'.xValid /\ s2'.lValid => N2' = 2
      /\ s2'.xValid /\ ~s2'.lValid => N2' = 1
      /\ ~s2'.xValid /\ ~s2'.lValid => N2' = 0
  BY <1>5 DEF Bit
<1> HIDE DEF rcv, xmit, mv
<1> DEFINE Goal == /\ N2' = N2 + Bit(rcv) - Bit(xmit)
                   /\ Moved(mv, XNow, YNow, PNow, XNow', YNow')
<1> SUFFICES Goal
  BY <1>3, <1>4, <1>7 DEF rcv, xmit, mv
<1>8. CASE ~s2.xValid /\ ~rcv
  <2>1. ~s2'.xValid /\ ~s2'.lValid /\ ~xmit
    BY <1>1, <1>3, <1>4, <1>8
  <2>2. N2 = 0 /\ N2' = 0 /\ XNow' = 0 /\ YNow' = 0 /\ Bit(rcv) = 0 /\ Bit(xmit) = 0
    BY <1>4, <1>5, <1>6, <1>7, <1>8, <2>1
  <2>3. QED
    BY <2>2 DEF Moved
<1>9. CASE ~s2.xValid /\ rcv
  <2>1. s2'.xValid /\ ~s2'.lValid /\ ~xmit
    BY <1>1, <1>3, <1>4, <1>9
  <2>2. /\ N2 = 0 /\ N2' = 1 /\ Bit(rcv) = 1 /\ Bit(xmit) = 0
        /\ XNow' = First' - 1 /\ YNow' = 0 /\ PNow = First /\ First' - 1 = First
    BY <1>4, <1>5, <1>6, <1>7, <1>9, <2>1
  <2>3. mv.xLoad /\ ~mv.xFromL
    BY <1>2, <1>9, <2>1
  <2>4. QED
    BY <2>2, <2>3 DEF Moved
<1>10. CASE s2.xValid /\ ~s2.lValid
  <2>1. N2 = 1 /\ XNow = First - 1 /\ YNow = 0 /\ ~mv.xFromL
    BY <1>2, <1>5, <1>7, <1>10
  <2>2. CASE xmit /\ rcv
    <3>1. s2'.xValid /\ ~s2'.lValid /\ mv.xLoad
      BY <1>1, <1>2, <1>4, <1>10, <2>2
    <3>2. /\ N2' = 1 /\ Bit(rcv) = 1 /\ Bit(xmit) = 1
          /\ XNow' = First' - 1 /\ YNow' = 0 /\ PNow = First /\ First' - 1 = First
      BY <1>5, <1>6, <1>7, <2>2, <3>1
    <3>3. QED
      BY <2>1, <3>1, <3>2 DEF Moved
  <2>3. CASE xmit /\ ~rcv
    <3>1. ~s2'.xValid /\ ~s2'.lValid
      BY <1>1, <1>4, <1>10, <2>3
    <3>2. /\ N2' = 0 /\ Bit(rcv) = 0 /\ Bit(xmit) = 1 /\ XNow' = 0 /\ YNow' = 0
      BY <1>5, <1>6, <1>7, <2>3, <3>1
    <3>3. QED
      BY <2>1, <3>2 DEF Moved
  <2>4. CASE ~xmit /\ rcv
    <3>1. s2'.xValid /\ s2'.lValid /\ ~mv.xLoad /\ mv.lLoad
      BY <1>1, <1>2, <1>4, <1>10, <2>4
    <3>2. /\ N2' = 2 /\ Bit(rcv) = 1 /\ Bit(xmit) = 0
          /\ XNow' = First' - 2 /\ YNow' = First' - 1 /\ PNow = First
          /\ First' - 1 = First /\ First' - 2 = First - 1
      BY <1>5, <1>6, <1>7, <2>4, <3>1
    <3>3. QED
      BY <2>1, <3>1, <3>2 DEF Moved
  <2>5. CASE ~xmit /\ ~rcv
    <3>1. s2'.xValid /\ ~s2'.lValid /\ ~mv.xLoad
      BY <1>1, <1>2, <1>4, <1>10, <2>5
    <3>2. /\ N2' = 1 /\ Bit(rcv) = 0 /\ Bit(xmit) = 0
          /\ XNow' = First - 1 /\ YNow' = 0
      BY <1>5, <1>6, <1>7, <2>5, <3>1
    <3>3. QED
      BY <2>1, <3>1, <3>2 DEF Moved
  <2>6. QED
    BY <1>3, <2>2, <2>3, <2>4, <2>5
<1>11. CASE s2.lValid
  <2>1. /\ s2.xValid /\ ~rcv /\ N2 = 2 /\ Bit(rcv) = 0
        /\ XNow = First - 2 /\ YNow = First - 1 /\ First' = First
    BY <1>4, <1>5, <1>6, <1>7, <1>11
  <2>2. CASE xmit
    <3>1. s2'.xValid /\ ~s2'.lValid /\ mv.xLoad /\ mv.xFromL
      BY <1>1, <1>2, <1>11, <2>1, <2>2
    <3>2. /\ N2' = 1 /\ Bit(xmit) = 1 /\ XNow' = First - 1 /\ YNow' = 0
      BY <1>5, <1>6, <1>7, <2>1, <2>2, <3>1
    <3>3. QED
      BY <2>1, <3>1, <3>2 DEF Moved
  <2>3. CASE ~xmit
    <3>1. s2'.xValid /\ s2'.lValid /\ ~mv.xLoad /\ ~mv.lLoad
      BY <1>1, <1>2, <1>11, <2>1, <2>3
    <3>2. /\ N2' = 2 /\ Bit(xmit) = 0 /\ XNow' = First - 2 /\ YNow' = First - 1
      BY <1>5, <1>6, <1>7, <2>1, <2>3, <3>1
    <3>3. QED
      BY <2>1, <3>1, <3>2 DEF Moved
  <2>4. QED
    BY <1>3, <2>2, <2>3
<1>12. QED
  BY <1>3, <1>4, <1>8, <1>9, <1>10, <1>11

-----------------------------------------------------------------------------
(* The memory of the FIFO *)

LEMMA PlaceTypes ==
    ASSUME BufferInv, FifoTypes
    PROVE  /\ N1 \in Int /\ First \in Int /\ Oldest \in Int
           /\ First + fifo.count = sent - N1 + 1
           /\ First - Oldest = Fifo!Used - fifo.count
           /\ Oldest <= First
<1>1. Bit(s1.xValid) \in Int /\ Bit(s1.lValid) \in Int
  BY DEF Bit
<1>2. N1 \in Int
  BY <1>1 DEF N1
<1>3. sent \in Int /\ fifo.count \in Nat /\ Fifo!Used \in Nat /\ fifo.count <= Fifo!Used
  BY ChannelAssumption DEF BufferInv, FifoTypes
<1>4. First = sent - N1 - fifo.count + 1 /\ Oldest = First - (Fifo!Used - fifo.count)
  BY DEF First, Oldest
<1>5. First \in Int /\ First + fifo.count = sent - N1 + 1
  BY <1>2, <1>3, <1>4
<1>6. QED
  BY <1>2, <1>3, <1>4, <1>5

\* Tokens move on by what enters and leaves the FIFO.
LEMMA PlacesStep ==
    ASSUME BufferInv, FifoTypes, NEW accepted \in BOOLEAN,
           sent' = sent + Bit(accepted),
           N1' = N1 + Bit(accepted) - Bit(InputEn),
           fifo'.count = fifo.count + Bit(InputEn) - Bit(OutputRdEn),
           Fifo!Used' = Fifo!Used + Bit(InputEn) - Bit(Fifo!Retire(OutputRdEn))
    PROVE  /\ First' = First + Bit(OutputRdEn)
           /\ Oldest' = Oldest + Bit(Fifo!Retire(OutputRdEn))
           /\ First' + fifo'.count = First + fifo.count + Bit(InputEn)
<1>1. /\ Bit(accepted) \in Int /\ Bit(InputEn) \in Int /\ Bit(OutputRdEn) \in Int
      /\ Bit(Fifo!Retire(OutputRdEn)) \in Int
  BY DEF Bit
<1>2. sent \in Int /\ fifo.count \in Int /\ Fifo!Used \in Int /\ N1 \in Int
  BY ChannelAssumption, PlaceTypes DEF BufferInv, FifoTypes
<1>3. /\ First = sent - N1 - fifo.count + 1 /\ Oldest = First - (Fifo!Used - fifo.count)
      /\ First' = sent' - N1' - fifo'.count + 1
      /\ Oldest' = First' - (Fifo!Used' - fifo'.count)
  BY DEF First, Oldest
<1>4. First' = First + Bit(OutputRdEn)
  BY <1>1, <1>2, <1>3
<1>5. First \in Int /\ First' \in Int
  BY <1>1, <1>4, PlaceTypes
<1>6. Oldest' = Oldest + Bit(Fifo!Retire(OutputRdEn))
  BY <1>1, <1>2, <1>3, <1>4, <1>5
<1>7. First' + fifo'.count = First + fifo.count + Bit(InputEn)
  BY <1>1, <1>2, <1>4, <1>5
<1>8. QED
  BY <1>4, <1>6, <1>7

\* A token stays in its slot.
LEMMA SlotStays ==
    ASSUME First \in Int, fifo.rdAddr \in Addresses, NEW t \in Int, NEW b \in {0, 1},
           First' = First + b, fifo'.rdAddr = Around(fifo.rdAddr + b),
           -Depth <= (t - First) - b, t - First <= Depth
    PROVE  Slot(t) \in Addresses /\ Slot(t)' = Slot(t)
<1> DEFINE d == t - First
<1>1. d \in Int /\ -Depth <= d - b /\ d <= Depth
  OBVIOUS
<1>2. /\ Around(fifo.rdAddr + d) \in Addresses
      /\ Around(Around(fifo.rdAddr + b) + (d - b)) = Around(fifo.rdAddr + d)
  <2> HIDE DEF d
  <2>1. QED
    BY <1>1, AroundMoves
<1>3. fifo.rdAddr \in Int /\ fifo'.rdAddr \in Int
  <2>1. fifo.rdAddr \in Int /\ Depth \in Int
    BY ChannelAssumption DEF Addresses
  <2>2. QED
    BY <2>1 DEF Around
<1>4. fifo.rdAddr + t - First = fifo.rdAddr + d
  BY <1>3
<1>5. fifo'.rdAddr + t - First' = Around(fifo.rdAddr + b) + (d - b)
  BY <1>3
<1>6. Slot(t) = Around(fifo.rdAddr + t - First) /\ Slot(t)' = Around(fifo'.rdAddr + t - First')
  BY DEF Slot, Around
<1>7. QED
  BY <1>2, <1>4, <1>5, <1>6

\* The slot behind the newest token is the next one round.
LEMMA AroundNext ==
    ASSUME NEW r \in Addresses, NEW n \in 0..(Depth - 1)
    PROVE  Around(Around(r + n) + 1) = Around(r + (n + 1))
<1>1. Depth \in Nat /\ Depth >= 1 /\ r \in Nat /\ r + 1 <= Depth /\ n \in Nat /\ n + 1 <= Depth
  BY ChannelAssumption DEF Addresses
<1>2. QED
  BY <1>1 DEF Around

MemoryStepHypotheses ==
    /\ First \in Int /\ First - Oldest = Fifo!Used - fifo.count /\ Oldest \in Int
    /\ fifo'.count = fifo.count + Bit(InputEn) - Bit(OutputRdEn)
    /\ First' = First + Bit(OutputRdEn)
    /\ Oldest' = Oldest + Bit(Fifo!Retire(OutputRdEn))
    /\ First' + fifo'.count = First + fifo.count + Bit(InputEn)
    /\ fifo'.rdAddr = Around(fifo.rdAddr + Bit(OutputRdEn))
    /\ fifo'.wrAddr = Around(fifo.wrAddr + Bit(InputEn))
    /\ InputEn => Fifo!Used < Depth
    /\ OutputRdEn => fifo.count >= 1
    /\ fifo'.mem = IF InputEn THEN [fifo.mem EXCEPT ![fifo.wrAddr] = First + fifo.count]
                   ELSE fifo.mem

\* Every token of the FIFO is in its slot, popped ones until their slot has been read:
\* what is written goes to a slot that none of them uses.
LEMMA MemoryStep ==
    ASSUME FifoTypes, MemoryInv, MemoryStepHypotheses
    PROVE  /\ fifo'.wrAddr = Slot(First + fifo.count)'
           /\ \A t \in Int : Oldest' <= t /\ t < First' + fifo'.count => fifo'.mem[Slot(t)'] = t
           /\ \A t \in Oldest..First : Slot(t)' = Slot(t)
           /\ Slot(First) = fifo.rdAddr
<1> DEFINE b == Bit(OutputRdEn)
           w == Bit(InputEn)
           end == First + fifo.count
<1>1. /\ b \in {0, 1} /\ (OutputRdEn => b = 1) /\ (~OutputRdEn => b = 0)
      /\ w \in {0, 1} /\ (InputEn => w = 1) /\ (~InputEn => w = 0)
      /\ Bit(Fifo!Retire(OutputRdEn)) \in {0, 1}
  BY DEF Bit
<1>2. /\ fifo.count \in Nat /\ Fifo!Used \in Nat /\ fifo.count <= Fifo!Used /\ Fifo!Used <= Depth
      /\ fifo.rdAddr \in Addresses /\ fifo.wrAddr \in Addresses
      /\ fifo.mem \in [Addresses -> Tokens] /\ Depth \in Nat /\ Depth >= 1
  BY ChannelAssumption DEF FifoTypes
<1>3. /\ First \in Int /\ Oldest \in Int /\ First - Oldest = Fifo!Used - fifo.count
      /\ First' = First + b /\ fifo'.rdAddr = Around(fifo.rdAddr + b)
      /\ fifo'.wrAddr = Around(fifo.wrAddr + w)
      /\ First' + fifo'.count = end + w
      /\ InputEn => Fifo!Used < Depth
      /\ OutputRdEn => fifo.count >= 1
      /\ fifo'.mem = IF InputEn THEN [fifo.mem EXCEPT ![fifo.wrAddr] = end] ELSE fifo.mem
  BY DEF MemoryStepHypotheses
<1>4. Oldest' \in Int /\ Oldest' >= Oldest
  BY <1>1, <1>3 DEF MemoryStepHypotheses
<1>5. fifo.wrAddr = Slot(end)
  BY DEF MemoryInv
<1>10. ASSUME NEW t \in Int, Oldest <= t, t < end PROVE fifo.mem[Slot(t)] = t
  <2>1. \A u \in Oldest..(First + fifo.count - 1) : fifo.mem[Slot(u)] = u
    BY DEF MemoryInv
  <2>2. t \in Oldest..(First + fifo.count - 1)
    BY <1>2, <1>3, <1>10
  <2>3. QED
    BY <2>1, <2>2
<1>6. ASSUME NEW t \in Int, Oldest <= t, t <= end + w
      PROVE  Slot(t) \in Addresses /\ Slot(t)' = Slot(t)
  <2>1. -Depth <= (t - First) - b
    BY <1>1, <1>2, <1>3, <1>6
  <2>2. t - First <= Depth
    BY <1>1, <1>2, <1>3, <1>6
  <2> HIDE DEF b
  <2>3. QED
    BY <1>1, <1>2, <1>3, <2>1, <2>2, SlotStays
<1>7. end \in Int /\ Oldest <= First /\ First <= end
  BY <1>2, <1>3
<1>8. Slot(First) = fifo.rdAddr
  <2>1. fifo.rdAddr \in Nat /\ fifo.rdAddr + 1 <= Depth
    BY <1>2 DEF Addresses
  <2>2. fifo.rdAddr + First - First = fifo.rdAddr
    BY <1>3, <2>1
  <2>3. Around(fifo.rdAddr) = fifo.rdAddr
    BY <1>2, <2>1 DEF Around
  <2>4. QED
    BY <2>2, <2>3 DEF Slot
<1>9. fifo'.wrAddr = Slot(end)'
  <2>1. fifo.wrAddr = Around(fifo.rdAddr + fifo.count)
    <3>1. fifo.rdAddr \in Nat
      BY <1>2 DEF Addresses
    <3>2. fifo.rdAddr + end - First = fifo.rdAddr + fifo.count
      BY <1>2, <1>3, <3>1
    <3>3. QED
      BY <1>5, <3>2 DEF Slot
  <2>2. fifo'.wrAddr = Around(fifo.rdAddr + (fifo.count + w))
    <3>1. CASE InputEn
      <4>1. fifo.count \in 0..(Depth - 1)
        BY <1>2, <1>3, <3>1
      <4>2. Around(Around(fifo.rdAddr + fifo.count) + 1) = Around(fifo.rdAddr + (fifo.count + 1))
        BY <1>2, <4>1, AroundNext
      <4>3. QED
        BY <1>1, <1>3, <2>1, <3>1, <4>2
    <3>2. CASE ~InputEn
      <4>1. Around(fifo.wrAddr + 0) = fifo.wrAddr /\ fifo.count + 0 = fifo.count
        BY <1>2 DEF Around, Addresses
      <4>2. QED
        BY <1>1, <1>3, <2>1, <3>2, <4>1
    <3>3. QED
      BY <3>1, <3>2
  <2>3. PICK e \in Int : e = end + w
    BY <1>1, <1>7
  <2>4. Slot(e)' = Slot(e)
    <3>1. w >= 0 /\ w \in Int
      BY <1>1
    <3>2. Oldest <= end
      BY <1>2, <1>3
    <3>3. Oldest <= e /\ e <= end + w
      BY <1>3, <1>7, <2>3, <3>1, <3>2
    <3>4. QED
      BY <1>6, <3>3
  <2>5. Slot(e) = Around(fifo.rdAddr + (fifo.count + w))
    <3>1. fifo.rdAddr \in Nat
      BY <1>2 DEF Addresses
    <3>2. fifo.rdAddr + e - First = fifo.rdAddr + (fifo.count + w)
      BY <1>1, <1>2, <1>3, <2>3, <3>1
    <3>3. QED
      BY <3>2 DEF Slot
  <2>6. Slot(end)' = Slot(e)'
    <3>1. end' = e
      BY <1>3, <2>3
    <3>2. Slot(end)' = Around(fifo'.rdAddr + end' - First')
      BY DEF Slot, Around
    <3>3. Slot(e)' = Around(fifo'.rdAddr + e - First')
      BY DEF Slot, Around
    <3>4. QED
      BY <3>1, <3>2, <3>3
  <2>7. QED
    BY <2>2, <2>4, <2>5, <2>6
<1>11. ASSUME NEW t \in Int, Oldest' <= t, t < First' + fifo'.count
       PROVE  fifo'.mem[Slot(t)'] = t
  <2>1. t \in Int /\ Oldest <= t /\ t < end + w
    <3>1. t < end + w
      BY <1>3, <1>11
    <3>2. Oldest <= t
      BY <1>3, <1>4, <1>11
    <3>3. QED
      BY <3>1, <3>2
  <2>2. Slot(t) \in Addresses /\ Slot(t)' = Slot(t)
    BY <1>1, <1>6, <1>7, <2>1
  <2>3. CASE t < end
    <3>1. fifo.mem[Slot(t)] = t
      BY <1>10, <2>1, <2>3
    <3>2. InputEn => Slot(t) # fifo.wrAddr
      <4>1. SUFFICES ASSUME InputEn PROVE Slot(t) # fifo.wrAddr
        OBVIOUS
      <4> DEFINE d == t - First
      <4>2. d \in Int /\ fifo.count \in Int /\ -Depth <= d /\ d < fifo.count
            /\ fifo.count <= Depth /\ fifo.count - d < Depth
        BY <1>2, <1>3, <2>1, <2>3, <4>1
      <4>3. fifo.rdAddr \in Nat
        BY <1>2 DEF Addresses
      <4>4. fifo.rdAddr + t - First = fifo.rdAddr + d /\ fifo.rdAddr + end - First = fifo.rdAddr + fifo.count
        BY <1>2, <1>3, <2>1, <4>3
      <4>5. Slot(t) = Around(fifo.rdAddr + d) /\ fifo.wrAddr = Around(fifo.rdAddr + fifo.count)
        BY <1>5, <4>4 DEF Slot
      <4> HIDE DEF d
      <4>6. Around(fifo.rdAddr + d) # Around(fifo.rdAddr + fifo.count)
        BY <1>2, <4>2, AroundApart
      <4>7. QED
        BY <4>5, <4>6
    <3>3. fifo'.mem[Slot(t)] = fifo.mem[Slot(t)]
      BY <1>2, <1>3, <2>2, <3>2
    <3>4. QED
      BY <2>2, <3>1, <3>3
  <2>4. CASE t = end
    <3>1. InputEn
      BY <1>1, <1>7, <2>1, <2>4
    <3>2. fifo'.mem[fifo.wrAddr] = end
      BY <1>2, <1>3, <3>1
    <3>3. Slot(t) = fifo.wrAddr
      BY <1>5, <2>4
    <3>4. QED
      BY <2>2, <2>4, <3>2, <3>3
  <2>5. QED
    BY <1>1, <1>7, <2>1, <2>3, <2>4
<1>12. ASSUME NEW t \in Oldest..First PROVE Slot(t)' = Slot(t)
  <2>1. t \in Int /\ Oldest <= t /\ t <= First
    BY <1>3, <1>12
  <2>2. t <= end + w
    BY <1>1, <1>2, <1>3, <2>1
  <2>3. QED
    BY <1>6, <2>1, <2>2
<1>13. QED
  BY <1>8, <1>9, <1>11, <1>12

-----------------------------------------------------------------------------
(* Popped tokens on their way to the output register of the memory *)

\* P[i] is the token that was popped i cycles ago, or 0.
FlightInv(P) ==
    /\ \A i \in 1..Fifo!Inflight :
          /\ fifo.inflight[i] = (P[i] # 0)
          /\ P[i] # 0 => P[i] \in Oldest..(First - 1) /\ fifo.rdAddrDly[i] = Slot(P[i])
    /\ \A t \in Oldest..(First - 1) : \E i \in 1..Fifo!Inflight : P[i] = t
    /\ \A i, j \in 1..Fifo!Inflight : i < j /\ P[i] # 0 /\ P[j] # 0 => P[j] < P[i]

\* The pop whose slot is read next is the oldest one.
LEMMA RetireIsOldest ==
    ASSUME First \in Int, Oldest \in Int, Oldest >= 1, NEW P, FlightInv(P),
           Fifo!Inflight > 0, fifo.inflight[Fifo!Inflight]
    PROVE  P[Fifo!Inflight] = Oldest /\ Oldest < First
<1> DEFINE n == Fifo!Inflight
<1>1. n \in Nat /\ n \in 1..n
  BY InflightIs
<1>2. P[n] # 0 /\ P[n] \in Oldest..(First - 1)
  BY <1>1 DEF FlightInv
<1>3. Oldest \in Oldest..(First - 1) /\ Oldest # 0
  BY <1>2
<1>4. PICK i \in 1..n : P[i] = Oldest
  BY <1>3 DEF FlightInv
<1>5. ~(i < n)
  <2>1. i < n => P[n] < P[i]
    BY <1>1, <1>2, <1>3, <1>4 DEF FlightInv
  <2>2. QED
    BY <1>2, <1>4, <2>1
<1>6. i = n
  BY <1>1, <1>5
<1>7. QED
  BY <1>2, <1>4, <1>6

LEMMA FlightStep ==
    ASSUME FifoTypes, MemoryStepHypotheses, Oldest >= 1,
           \A t \in Oldest..First : Slot(t)' = Slot(t), Slot(First) = fifo.rdAddr,
           Fifo!Pop(OutputRdEn) = OutputRdEn,
           NEW input, Fifo!Clock(FALSE, InputEn, input, OutputRdEn),
           NEW P \in [1..Latency -> Nat], FlightInv(P),
           NEW p \in Nat, p = PNow,
           NEW P2, P2 = [i \in 1..Latency |-> IF i = 1 THEN p ELSE P[i - 1]]
    PROVE  FlightInv(P2)'
<1> DEFINE n == Fifo!Inflight
           r == Bit(Fifo!Retire(OutputRdEn))
<1>1. n \in Nat /\ n <= Latency /\ Latency \in Nat /\ (n = 0 \/ n = Latency - 1)
  BY ChannelAssumption DEF Fifo!Inflight
<1>2. /\ First \in Int /\ Oldest \in Int /\ Oldest >= 1
      /\ First' = First + Bit(OutputRdEn) /\ Oldest' = Oldest + r
      /\ First - Oldest = Fifo!Used - fifo.count
  BY DEF MemoryStepHypotheses
<1>3. Oldest <= First
  <2>1. Fifo!Used \in Nat /\ fifo.count \in Nat /\ fifo.count <= Fifo!Used
    BY DEF FifoTypes
  <2>2. QED
    BY <1>2, <2>1
<1>4. OutputRdEn \in BOOLEAN /\ p = IF OutputRdEn THEN First ELSE 0
  BY DEF PNow, OutputRdEn
<1>5. \A i \in 1..n : i # 1 => i - 1 \in 1..n /\ P2[i] = P[i - 1]
  BY <1>1
<1>6. 1 \in 1..n => P2[1] = p
  BY <1>1
<1>7. \A i \in 1..n : /\ fifo'.inflight[i] = (IF i = 1 THEN OutputRdEn ELSE fifo.inflight[i - 1])
                      /\ fifo'.rdAddrDly[i] = (IF i = 1 THEN fifo.rdAddr ELSE fifo.rdAddrDly[i - 1])
  <2>1. fifo'.inflight = [i \in 1..n |-> ~FALSE /\ (IF i = 1 THEN OutputRdEn ELSE fifo.inflight[i - 1])]
    BY DEF Fifo!Clock
  <2>2. fifo'.rdAddrDly = [i \in 1..n |-> IF i = 1 THEN fifo.rdAddr ELSE fifo.rdAddrDly[i - 1]]
    BY DEF Fifo!Clock
  <2>3. \A i \in 1..n : (IF i = 1 THEN OutputRdEn ELSE fifo.inflight[i - 1]) \in BOOLEAN
    BY <1>4, <1>5 DEF FifoTypes
  <2>4. \A i \in 1..n : fifo'.inflight[i] = (IF i = 1 THEN OutputRdEn ELSE fifo.inflight[i - 1])
    BY <2>1, <2>3
  <2>5. QED
    BY <2>2, <2>4
<1>8. /\ r \in {0, 1} /\ (n = 0 => r = Bit(OutputRdEn))
      /\ n > 0 => (fifo.inflight[n] => r = 1) /\ (~fifo.inflight[n] => r = 0)
  <2>1. n = 0 => Fifo!Retire(OutputRdEn) = OutputRdEn
    BY DEF Fifo!Retire
  <2>2. n > 0 => Fifo!Retire(OutputRdEn) = fifo.inflight[n]
    BY DEF Fifo!Retire
  <2>3. QED
    BY <2>1, <2>2 DEF Bit
<1>9. n > 0 /\ fifo.inflight[n] => P[n] = Oldest /\ Oldest < First
  BY <1>2, RetireIsOldest
<1>10. /\ OutputRdEn => Bit(OutputRdEn) = 1 /\ First' = First + 1 /\ First' - 1 = First
       /\ ~OutputRdEn => Bit(OutputRdEn) = 0 /\ First' = First
  BY <1>2, <1>4 DEF Bit
<1>11. \A i \in 1..n : /\ fifo.inflight[i] = (P[i] # 0)
                       /\ P[i] # 0 => P[i] \in Oldest..(First - 1) /\ fifo.rdAddrDly[i] = Slot(P[i])
  BY DEF FlightInv
<1>12. \A i, j \in 1..n : i < j /\ P[i] # 0 /\ P[j] # 0 => P[j] < P[i]
  BY DEF FlightInv
<1>13. \A t \in Oldest..(First - 1) : \E i \in 1..n : P[i] = t
  BY DEF FlightInv
<1>14. ASSUME NEW t \in Int, Oldest <= t, t <= First PROVE Slot(t)' = Slot(t)
  BY <1>2, <1>14
<1> HIDE DEF n, r
<1>15. ASSUME NEW i \in 1..n
       PROVE  /\ fifo'.inflight[i] = (P2[i] # 0)
              /\ P2[i] # 0 => /\ P2[i] \in Oldest'..(First' - 1)
                              /\ fifo'.rdAddrDly[i] = Slot(P2[i])'
  <2>1. n > 0 /\ First >= 1 /\ First # 0
    BY <1>1, <1>2, <1>3
  <2>2. Oldest' \in Int /\ First' \in Int /\ First <= First'
    BY <1>2, <1>4, <1>8, <1>10
  <2>3. CASE i = 1
    <3>1. P2[i] = p /\ fifo'.inflight[i] = OutputRdEn /\ fifo'.rdAddrDly[i] = fifo.rdAddr
      BY <1>6, <1>7, <2>3
    <3>2. CASE ~OutputRdEn
      BY <1>4, <3>1, <3>2
    <3>3. CASE OutputRdEn
      <4>1. p = First /\ p # 0 /\ First' - 1 = First
        BY <1>4, <1>10, <2>1, <3>3
      <4>2. Oldest' <= First
        BY <1>2, <1>3, <1>8, <1>9, <2>1
      <4>3. p \in Oldest'..(First' - 1)
        BY <1>2, <2>2, <4>1, <4>2
      <4>4. Slot(p)' = Slot(p)
        BY <1>2, <1>3, <1>14, <4>1
      <4>5. Slot(p) = fifo.rdAddr
        BY <4>1
      <4>6. QED
        BY <3>1, <3>3, <4>1, <4>3, <4>4, <4>5
    <3>4. QED
      BY <1>4, <3>2, <3>3
  <2>4. CASE i # 1
    <3> DEFINE j == i - 1
    <3>1. j \in 1..n /\ i \in Int /\ j < n /\ n \in 1..n
      BY <1>1, <2>4
    <3>2. P2[i] = P[j] /\ fifo'.inflight[i] = fifo.inflight[j]
          /\ fifo'.rdAddrDly[i] = fifo.rdAddrDly[j]
      BY <1>5, <1>7, <2>4
    <3> HIDE DEF j
    <3>3. fifo'.inflight[i] = (P2[i] # 0)
      BY <1>11, <3>1, <3>2
    <3>4. ASSUME P[j] # 0
          PROVE  P[j] \in Oldest'..(First' - 1) /\ fifo'.rdAddrDly[i] = Slot(P[j])'
      <4>1. P[j] \in Oldest..(First - 1) /\ fifo.rdAddrDly[j] = Slot(P[j])
        BY <1>11, <3>1, <3>4
      <4>2. P[j] \in Int /\ Oldest <= P[j] /\ P[j] < First
        BY <1>2, <4>1
      <4>3. Oldest' <= P[j]
        <5>1. CASE fifo.inflight[n]
          <6>1. P[n] = Oldest /\ P[n] # 0
            BY <1>2, <1>9, <2>1, <5>1
          <6>2. P[n] < P[j]
            BY <1>12, <3>1, <3>4, <6>1
          <6>3. QED
            BY <1>2, <1>8, <4>2, <6>1, <6>2
        <5>2. CASE ~fifo.inflight[n]
          BY <1>2, <1>8, <2>1, <4>2, <5>2
        <5>3. QED
          BY <5>1, <5>2
      <4>4. P[j] \in Oldest'..(First' - 1)
        BY <1>2, <2>2, <4>2, <4>3
      <4>5. Slot(P[j])' = Slot(P[j])
        BY <1>2, <1>14, <4>2
      <4>6. QED
        BY <3>2, <4>1, <4>4, <4>5
    <3>5. QED
      BY <3>2, <3>3, <3>4
  <2>5. QED
    BY <2>3, <2>4
<1>16. ASSUME NEW t \in Oldest'..(First' - 1) PROVE \E i \in 1..n : P2[i] = t
  <2>1. Oldest' \in Int /\ First' \in Int
    BY <1>2, <1>4, <1>8, <1>10
  <2>2. t \in Int /\ Oldest' <= t /\ t < First' /\ Oldest <= t
    BY <1>2, <1>8, <2>1
  <2>3. CASE t < First
    <3>1. PICK i \in 1..n : P[i] = t
      BY <1>2, <1>13, <2>2, <2>3
    <3>2. CASE i = n
      <4>1. P[i] # 0 /\ n > 0
        BY <1>1, <1>2, <2>2, <3>1
      <4>2. fifo.inflight[n]
        BY <1>11, <3>2, <4>1
      <4>3. P[n] = Oldest /\ Oldest' = Oldest + 1
        BY <1>2, <1>8, <1>9, <4>1, <4>2
      <4>4. QED
        BY <1>2, <2>2, <3>1, <3>2, <4>3
    <3>3. CASE i # n
      <4>1. i + 1 \in 1..n /\ i + 1 # 1 /\ (i + 1) - 1 = i
        BY <1>1, <3>3
      <4>2. P2[i + 1] = P[i]
        BY <1>5, <4>1
      <4>3. QED
        BY <3>1, <4>1, <4>2
    <3>4. QED
      BY <3>2, <3>3
  <2>4. CASE t >= First
    <3>1. OutputRdEn /\ t = First
      BY <1>2, <1>4, <1>10, <2>1, <2>2, <2>4
    <3>2. n > 0
      <4>1. n = 0 => Oldest' = Oldest + 1 /\ Oldest' <= First
        BY <1>2, <1>8, <1>10, <2>2, <3>1
      <4>2. n = 0 => ~(Oldest \in Oldest..(First - 1))
        BY <1>1, <1>13
      <4>3. QED
        BY <1>1, <1>2, <4>1, <4>2
    <3>3. 1 \in 1..n /\ P2[1] = t
      BY <1>1, <1>4, <1>6, <3>1, <3>2
    <3>4. QED
      BY <3>3
  <2>5. QED
    BY <1>2, <2>2, <2>3, <2>4
<1>17. ASSUME NEW i \in 1..n, NEW j \in 1..n, i < j, P2[i] # 0, P2[j] # 0
       PROVE  P2[j] < P2[i]
  <2>1. j # 1 /\ j - 1 \in 1..n /\ P2[j] = P[j - 1]
    BY <1>1, <1>5, <1>17
  <2>2. CASE i = 1
    <3>1. P2[i] = First
      BY <1>4, <1>6, <1>17, <2>2
    <3>2. P[j - 1] \in Oldest..(First - 1)
      BY <1>11, <1>17, <2>1
    <3>3. QED
      BY <1>2, <2>1, <3>1, <3>2
  <2>3. CASE i # 1
    <3>1. i - 1 \in 1..n /\ P2[i] = P[i - 1]
      BY <1>5, <2>3
    <3>2. i - 1 < j - 1
      BY <1>1, <1>17
    <3>3. P[j - 1] < P[i - 1]
      BY <1>12, <1>17, <2>1, <3>1, <3>2
    <3>4. QED
      BY <2>1, <3>1, <3>3
  <2>4. QED
    BY <2>2, <2>3
<1>18. QED
  BY <1>15, <1>16, <1>17 DEF FlightInv, n

-----------------------------------------------------------------------------
(* The payload registers *)

\* X[i] and Y[i] are the tokens that the control registers of the second buffer held i
\* cycles ago.  Latency cycles late the payload registers make the same moves.
HistoryInv(X, Y, P) ==
    /\ X[0] = XNow /\ Y[0] = YNow
    /\ \A i \in 1..Latency : Moved(s2.movesDly[i], X[i], Y[i], P[i], X[i - 1], Y[i - 1])
    /\ X[Latency] # 0 => s2.x = X[Latency]
    /\ Y[Latency] # 0 => s2.l = Y[Latency]
    /\ Latency > 0 /\ P[Latency] # 0 => fifo.rdReg = P[Latency]
    /\ \A i \in 1..Latency : owed[i] \in {0, X[i]}

Delayed(new, h) == [i \in 1..Latency |-> IF i = 1 THEN new ELSE h[i - 1]]
Later(new, h)   == [i \in 0..Latency |-> IF i = 0 THEN new ELSE h[i - 1]]

\* The memory is read where the token that is due is.
LEMMA ReadStep ==
    ASSUME FifoTypes, MemoryInv, First \in Int, Oldest \in Int, Oldest <= First,
           Slot(First) = fifo.rdAddr, OutputRdEn => fifo.count >= 1,
           NEW input, Fifo!Clock(FALSE, InputEn, input, OutputRdEn),
           NEW P \in [1..Latency -> Nat], FlightInv(P),
           NEW p \in Nat, p = PNow
    PROVE  /\ Latency = 0 /\ p # 0 => Fifo!Output = p
           /\ Latency > 0 /\ Delayed(p, P)[Latency] # 0 => fifo'.rdReg = Delayed(p, P)[Latency]
<1>1. ASSUME NEW t \in Int, Oldest <= t, t < First + fifo.count PROVE fifo.mem[Slot(t)] = t
  <2>1. fifo.count \in Nat
    BY DEF FifoTypes
  <2>2. t \in Oldest..(First + fifo.count - 1)
    BY <1>1, <2>1
  <2>3. QED
    BY <2>2 DEF MemoryInv
<1>2. fifo.count \in Nat /\ Latency \in Nat
  BY ChannelAssumption DEF FifoTypes
<1>3. fifo'.rdReg = fifo.mem[Fifo!ReadAddress]
  BY DEF Fifo!Clock
<1>4. p # 0 => p = First /\ fifo.mem[fifo.rdAddr] = p
  <2>1. p # 0 => OutputRdEn /\ p = First
    BY DEF PNow
  <2>2. p # 0 => fifo.mem[Slot(p)] = p
    BY <1>1, <1>2, <2>1
  <2>3. QED
    BY <2>1, <2>2
<1>5. Latency = 0 /\ p # 0 => Fifo!Output = p
  BY <1>4 DEF Fifo!Output
<1>6. CASE Latency = 1
  <2>1. Delayed(p, P)[Latency] = p
    BY <1>6 DEF Delayed
  <2>2. Fifo!ReadAddress = fifo.rdAddr
    BY <1>6 DEF Fifo!ReadAddress, Fifo!Inflight
  <2>3. QED
    BY <1>3, <1>4, <1>5, <2>1, <2>2
<1>7. CASE Latency > 1
  <2> DEFINE n == Fifo!Inflight
  <2>1. n = Latency - 1 /\ n \in 1..n /\ n > 0
    BY <1>2, <1>7 DEF Fifo!Inflight
  <2>2. Delayed(p, P)[Latency] = P[n]
    BY <1>2, <1>7, <2>1 DEF Delayed
  <2>3. Fifo!ReadAddress = fifo.rdAddrDly[n]
    BY <2>1 DEF Fifo!ReadAddress
  <2>4. P[n] # 0 => P[n] \in Oldest..(First - 1) /\ fifo.rdAddrDly[n] = Slot(P[n])
    BY <2>1 DEF FlightInv
  <2>5. P[n] # 0 => fifo.mem[Slot(P[n])] = P[n]
    BY <1>1, <1>2, <2>4
  <2>6. QED
    BY <1>2, <1>3, <1>7, <2>2, <2>3, <2>4, <2>5
<1>8. QED
  BY <1>2, <1>5, <1>6, <1>7

LEMMA HistoryStep ==
    ASSUME NEW ready \in BOOLEAN, Out!Clock(FALSE, ~Fifo!Empty, Fifo!Output, ready),
           Moved(Out!Moves(~Fifo!Empty, ready), XNow, YNow, PNow, XNow', YNow'),
           NEW X \in [0..Latency -> Nat], NEW Y \in [0..Latency -> Nat],
           NEW P \in [1..Latency -> Nat], HistoryInv(X, Y, P),
           NEW x \in Nat, NEW y \in Nat, NEW p \in Nat, x = XNow', y = YNow', p = PNow,
           Latency = 0 /\ p # 0 => Fifo!Output = p,
           Latency > 0 /\ Delayed(p, P)[Latency] # 0 => fifo'.rdReg = Delayed(p, P)[Latency],
           Out!Xmit(ready) => Head(inside) = XNow,
           owed' = [i \in 1..Latency |->
                       IF i > 1 THEN owed[i - 1]
                       ELSE IF Out!Xmit(ready) THEN Head(inside) ELSE 0]
    PROVE  HistoryInv(Later(x, X), Later(y, Y), Delayed(p, P))'
<1> DEFINE mv == Out!Moves(~Fifo!Empty, ready)
           X2 == Later(x, X)
           Y2 == Later(y, Y)
           P2 == Delayed(p, P)
<1>1. Latency \in Nat
  BY ChannelAssumption
<1>2. /\ X2[0] = x /\ Y2[0] = y
      /\ \A i \in 1..Latency : X2[i] = X[i - 1] /\ Y2[i] = Y[i - 1]
      /\ \A i \in 1..Latency : P2[i] = IF i = 1 THEN p ELSE P[i - 1]
  <2>1. X2[0] = x /\ Y2[0] = y
    BY <1>1 DEF Later
  <2>2. \A i \in 1..Latency : i \in 0..Latency /\ i # 0
    BY <1>1
  <2>3. \A i \in 1..Latency : X2[i] = X[i - 1] /\ Y2[i] = Y[i - 1]
    BY <2>2 DEF Later
  <2>4. \A i \in 1..Latency : P2[i] = IF i = 1 THEN p ELSE P[i - 1]
    BY DEF Delayed
  <2>5. QED
    BY <2>1, <2>3, <2>4
<1>3. /\ X[0] = XNow /\ Y[0] = YNow
      /\ X[Latency] # 0 => s2.x = X[Latency]
      /\ Y[Latency] # 0 => s2.l = Y[Latency]
      /\ Latency > 0 /\ P[Latency] # 0 => fifo.rdReg = P[Latency]
  BY DEF HistoryInv
<1>4. \A i \in 1..Latency : Moved(s2.movesDly[i], X[i], Y[i], P[i], X[i - 1], Y[i - 1])
  BY DEF HistoryInv
<1>5. \A i \in 1..Latency : owed[i] \in {0, X[i]}
  BY DEF HistoryInv
<1>6. s2'.movesDly = [i \in 1..Latency |-> IF i = 1 THEN mv ELSE s2.movesDly[i - 1]]
  BY DEF Out!Clock, Out!Clocked
<1>7. /\ s2'.x = IF Out!PayloadMoves(~Fifo!Empty, ready).xLoad
                 THEN (IF Out!PayloadMoves(~Fifo!Empty, ready).xFromL THEN s2.l ELSE Fifo!Output)
                 ELSE s2.x
      /\ s2'.l = IF Out!PayloadMoves(~Fifo!Empty, ready).lLoad THEN Fifo!Output ELSE s2.l
  BY DEF Out!Clock, Out!Clocked
<1>8. Out!PayloadMoves(~Fifo!Empty, ready) = IF Latency = 0 THEN mv ELSE s2.movesDly[Latency]
  BY DEF Out!PayloadMoves
<1>9. Moved(mv, X[0], Y[0], p, x, y)
  BY <1>3
<1> HIDE DEF mv, X2, Y2, P2
<1>10. \A i \in 1..Latency : Moved(s2'.movesDly[i], X2[i], Y2[i], P2[i], X2[i - 1], Y2[i - 1])
  <2> SUFFICES ASSUME NEW i \in 1..Latency
               PROVE  Moved(s2'.movesDly[i], X2[i], Y2[i], P2[i], X2[i - 1], Y2[i - 1])
    OBVIOUS
  <2>1. CASE i = 1
    <3>1. /\ s2'.movesDly[i] = mv /\ X2[i] = X[0] /\ Y2[i] = Y[0] /\ P2[i] = p
          /\ X2[i - 1] = x /\ Y2[i - 1] = y
      BY <1>2, <1>6, <2>1
    <3>2. QED
      BY <1>9, <3>1
  <2>2. CASE i # 1
    <3>1. i - 1 \in 1..Latency
      BY <1>1, <2>2
    <3>2. /\ s2'.movesDly[i] = s2.movesDly[i - 1]
          /\ X2[i] = X[i - 1] /\ Y2[i] = Y[i - 1] /\ P2[i] = P[i - 1]
          /\ X2[i - 1] = X[(i - 1) - 1] /\ Y2[i - 1] = Y[(i - 1) - 1]
      BY <1>2, <1>6, <2>2, <3>1
    <3>3. Moved(s2.movesDly[i - 1], X[i - 1], Y[i - 1], P[i - 1], X[(i - 1) - 1], Y[(i - 1) - 1])
      BY <1>4, <3>1
    <3>4. QED
      BY <3>2, <3>3
  <2>3. QED
    BY <2>1, <2>2
<1>11. /\ X2[Latency] # 0 => s2'.x = X2[Latency]
       /\ Y2[Latency] # 0 => s2'.l = Y2[Latency]
  <2>1. CASE Latency = 0
    <3>1. p # 0 => Fifo!Output = p
      BY <2>1
    <3>2. (X[0] # 0 => s2.x = X[0]) /\ (Y[0] # 0 => s2.l = Y[0])
      BY <1>3, <2>1
    <3>3. /\ s2'.x = IF mv.xLoad THEN (IF mv.xFromL THEN s2.l ELSE Fifo!Output) ELSE s2.x
          /\ s2'.l = IF mv.lLoad THEN Fifo!Output ELSE s2.l
      BY <1>7, <1>8, <2>1
    <3>4. (x # 0 => s2'.x = x) /\ (y # 0 => s2'.l = y)
      BY <1>9, <3>1, <3>2, <3>3 DEF Moved
    <3>5. QED
      BY <1>2, <2>1, <3>4
  <2>2. CASE Latency > 0
    <3> DEFINE m == s2.movesDly[Latency]
    <3>1. Latency \in 1..Latency
      BY <1>1, <2>2
    <3>2. P[Latency] # 0 => Fifo!Output = P[Latency]
      BY <1>3, <2>2 DEF Fifo!Output
    <3>3. Moved(m, X[Latency], Y[Latency], P[Latency], X[Latency - 1], Y[Latency - 1])
      BY <1>4, <3>1
    <3>4. /\ s2'.x = IF m.xLoad THEN (IF m.xFromL THEN s2.l ELSE Fifo!Output) ELSE s2.x
          /\ s2'.l = IF m.lLoad THEN Fifo!Output ELSE s2.l
      BY <1>7, <1>8, <2>2
    <3> HIDE DEF m
    <3>5. /\ X[Latency - 1] # 0 => s2'.x = X[Latency - 1]
          /\ Y[Latency - 1] # 0 => s2'.l = Y[Latency - 1]
      BY <1>3, <2>2, <3>2, <3>3, <3>4 DEF Moved
    <3>6. QED
      BY <1>2, <3>1, <3>5
  <2>3. QED
    BY <1>1, <2>1, <2>2
<1>12. \A i \in 1..Latency : owed'[i] \in {0, X2[i]}
  <2> SUFFICES ASSUME NEW i \in 1..Latency PROVE owed'[i] \in {0, X2[i]}
    OBVIOUS
  <2>1. CASE i = 1
    BY <1>2, <1>3, <2>1
  <2>2. CASE i # 1
    <3>1. i - 1 \in 1..Latency /\ i > 1
      BY <1>1, <2>2
    <3>2. owed'[i] = owed[i - 1]
      BY <3>1
    <3>3. QED
      BY <1>2, <1>5, <3>1, <3>2
  <2>3. QED
    BY <2>1, <2>2
<1>13. Latency > 0 /\ P2[Latency] # 0 => fifo'.rdReg = P2[Latency]
  BY DEF P2
<1>14. HistoryInv(X2, Y2, P2)'
  <2>1. X2' = X2 /\ Y2' = Y2 /\ P2' = P2
    BY DEF X2, Y2, P2, Later, Delayed
  <2>2. QED
    BY <1>2, <1>10, <1>11, <1>12, <1>13, <2>1 DEF HistoryInv
<1>15. QED
  BY <1>14 DEF X2, Y2, P2

-----------------------------------------------------------------------------
(* The tokens inside the channel *)

LEMMA InsideStep ==
    ASSUME BufferInv, FifoTypes, InsideInv, N1 \in 0..2, N2 \in 0..2,
           NEW accepted \in BOOLEAN, NEW handed \in BOOLEAN, handed => N2 >= 1,
           N1' = N1 + Bit(accepted) - Bit(InputEn),
           fifo'.count = fifo.count + Bit(InputEn) - Bit(OutputRdEn),
           N2' = N2 + Bit(OutputRdEn) - Bit(handed),
           First' = First + Bit(OutputRdEn),
           inside' = (IF handed THEN Tail(inside) ELSE inside)
                     \o (IF accepted THEN <<sent + 1>> ELSE <<>>)
    PROVE  InsideInv' /\ (handed => Head(inside) = First - N2)
<1> DEFINE h == Bit(handed)
           a == Bit(accepted)
           base == First - N2 - 1
           mid == IF handed THEN Tail(inside) ELSE inside
<1>1. /\ h \in Int /\ (handed => h = 1) /\ (~handed => h = 0)
      /\ a \in Int /\ (accepted => a = 1) /\ (~accepted => a = 0)
      /\ Bit(InputEn) \in Int /\ Bit(OutputRdEn) \in Int
  BY DEF Bit
<1>2. /\ First \in Int /\ sent \in Nat /\ fifo.count \in Nat
      /\ First + fifo.count = sent - N1 + 1
  BY PlaceTypes, ChannelAssumption DEF BufferInv, FifoTypes
<1>3. /\ inside \in Seq(Nat) /\ Len(inside) = N1 + fifo.count + N2
      /\ \A i \in 1..Len(inside) : inside[i] = base + i
  BY DEF InsideInv
<1>14. N1 \in Int /\ N2 \in Int /\ Len(inside) \in Nat
  BY <1>3
<1>15. h \in Int /\ a \in Int /\ Bit(InputEn) \in Int /\ Bit(OutputRdEn) \in Int
  BY <1>1
<1>4. base \in Int /\ base + Len(inside) = sent
  <2>1. base \in Int
    BY <1>2, <1>14
  <2>2. First - N2 - 1 + (N1 + fifo.count + N2) = sent
    BY ONLY <1>2, <1>14
  <2>3. QED
    BY <1>3, <2>1, <2>2
<1>5. /\ N1' + fifo'.count + N2' = Len(inside) - h + a
      /\ First' - N2' - 1 = base + h
  <2>6. N1' = N1 + a - Bit(InputEn)
    OBVIOUS
  <2>8. N2' = N2 + Bit(OutputRdEn) - h
    OBVIOUS
  <2>10. fifo'.count = fifo.count + Bit(InputEn) - Bit(OutputRdEn)
    OBVIOUS
  <2>4. N1' + fifo'.count + N2' = (N1 + fifo.count + N2) - h + a
    <3>1. N1' + fifo'.count + N2' =
              (N1 + a - Bit(InputEn)) + (fifo.count + Bit(InputEn) - Bit(OutputRdEn))
              + (N2 + Bit(OutputRdEn) - h)
      BY ONLY <2>6, <2>8, <2>10
    <3>2. (N1 + a - Bit(InputEn)) + (fifo.count + Bit(InputEn) - Bit(OutputRdEn))
              + (N2 + Bit(OutputRdEn) - h) = (N1 + fifo.count + N2) - h + a
      <4>1. N1 \in Int /\ N2 \in Int /\ fifo.count \in Int
        BY <1>2, <1>14
      <4>2. h \in Int /\ a \in Int
        BY <1>15
      <4> HIDE DEF h, a
      <4>3. QED
        BY ONLY <1>15, <4>1, <4>2
    <3>3. QED
      BY ONLY <3>1, <3>2
  <2>5. First' - N2' - 1 = (First - N2 - 1) + h
    <3>1. First' = First + Bit(OutputRdEn)
      OBVIOUS
    <3>2. First' - N2' - 1 = (First + Bit(OutputRdEn)) - (N2 + Bit(OutputRdEn) - h) - 1
      BY ONLY <2>8, <3>1
    <3>3. (First + Bit(OutputRdEn)) - (N2 + Bit(OutputRdEn) - h) - 1 = (First - N2 - 1) + h
      BY ONLY <1>2, <1>14, <1>15
    <3>4. QED
      BY ONLY <3>2, <3>3
  <2>3. QED
    BY <1>3, <2>4, <2>5
<1>6. handed => Len(inside) >= 1
  BY <1>2, <1>3
<1> HIDE DEF base
<1>7. /\ mid \in Seq(Nat) /\ Len(mid) = Len(inside) - h
      /\ \A i \in 1..Len(mid) : mid[i] = base + h + i
  <2>1. CASE handed
    <3>1. inside # <<>>
      BY <1>3, <1>6, <2>1
    <3>2. /\ Tail(inside) \in Seq(Nat) /\ Len(Tail(inside)) = Len(inside) - 1
          /\ \A i \in 1..Len(Tail(inside)) : Tail(inside)[i] = inside[i + 1]
      BY <1>3, <3>1, HeadTailProperties
    <3>3. ASSUME NEW i \in 1..Len(Tail(inside)) PROVE Tail(inside)[i] = base + 1 + i
      <4>1. i + 1 \in 1..Len(inside)
        BY <1>3, <3>2
      <4>2. QED
        BY <1>3, <1>4, <3>2, <4>1
    <3>4. QED
      BY <1>1, <2>1, <3>2, <3>3
  <2>2. CASE ~handed
    <3>1. mid = inside /\ h = 0
      BY <1>1, <2>2
    <3>2. Len(inside) - 0 = Len(inside) /\ base + 0 = base
      BY <1>3, <1>4
    <3>3. QED
      BY <1>3, <3>1, <3>2
  <2>3. QED
    BY <2>1, <2>2
<1>8. handed => Head(inside) = First - N2
  <2>1. handed => Head(inside) = inside[1]
    BY <1>3, <1>6
  <2>2. handed => inside[1] = base + 1
    BY <1>3, <1>6
  <2>3. base + 1 = First - N2
    BY <1>2 DEF base
  <2>4. QED
    BY <2>1, <2>2, <2>3
<1> HIDE DEF mid
<1>9. inside' = mid \o (IF accepted THEN <<sent + 1>> ELSE <<>>)
  BY DEF mid
<1>10. /\ inside' \in Seq(Nat) /\ Len(inside') = Len(mid) + a
       /\ \A i \in 1..Len(inside') : inside'[i] = base + h + i
  <2>1. CASE accepted
    <3> DEFINE new == sent + 1
    <3>1. new \in Nat /\ inside' = mid \o <<new>>
      <4>1. new \in Nat
        BY <1>2
      <4>2. inside' = mid \o <<new>>
        BY <1>9, <2>1
      <4>3. QED
        BY <4>1, <4>2
    <3>5. new = base + Len(inside) + 1
      BY <1>4
    <3> HIDE DEF new
    <3>6. <<new>> \in Seq(Nat) /\ Len(<<new>>) = 1 /\ <<new>>[1] = new
      BY <3>1
    <3>2. /\ inside' \in Seq(Nat) /\ Len(inside') = Len(mid) + 1
          /\ \A i \in 1..(Len(mid) + 1) :
                inside'[i] = IF i <= Len(mid) THEN mid[i] ELSE <<new>>[i - Len(mid)]
      <4>1. /\ mid \o <<new>> \in Seq(Nat) /\ Len(mid \o <<new>>) = Len(mid) + Len(<<new>>)
            /\ \A i \in 1..(Len(mid) + Len(<<new>>)) :
                   (mid \o <<new>>)[i] = IF i <= Len(mid) THEN mid[i] ELSE <<new>>[i - Len(mid)]
        BY <1>7, <3>6, ConcatProperties
      <4>2. QED
        BY <3>1, <3>6, <4>1
    <3>3. ASSUME NEW i \in 1..(Len(mid) + 1) PROVE inside'[i] = base + h + i
      <4>1. Len(mid) \in Nat
        BY <1>7
      <4>2. CASE i <= Len(mid)
        <5>1. i \in 1..Len(mid)
          BY <4>1, <4>2
        <5>2. inside'[i] = mid[i]
          BY <3>2, <4>2
        <5>3. QED
          BY <1>7, <5>1, <5>2
      <4>3. CASE i > Len(mid)
        <5>1. i = Len(mid) + 1 /\ i - Len(mid) = 1 /\ ~(i <= Len(mid))
          BY <4>1, <4>3
        <5>2. inside'[i] = new
          BY <3>2, <3>6, <5>1
        <5>3. base + h + i = new
          <6> HIDE DEF h
          <6>1. QED
            BY <1>1, <1>4, <1>7, <1>14, <3>5, <5>1
        <5>4. QED
          BY <5>2, <5>3
      <4>4. QED
        <5>1. i <= Len(mid) \/ i > Len(mid)
          BY <4>1
        <5>2. QED
          BY <4>2, <4>3, <5>1
    <3>4. QED
      BY <1>1, <2>1, <3>2, <3>3
  <2>2. CASE ~accepted
    <3>1. inside' = mid
      <4>1. mid \o <<>> = mid
        BY <1>7, ConcatEmptySeq
      <4>2. QED
        BY <1>9, <2>2, <4>1
    <3>2. Len(mid) + a = Len(mid)
      BY <1>1, <1>7, <2>2
    <3>3. QED
      BY <1>7, <3>1, <3>2
  <2>3. QED
    BY <2>1, <2>2
<1>11. Len(inside') = N1' + fifo'.count + N2'
  BY <1>1, <1>3, <1>5, <1>7, <1>10
<1>12. \A i \in 1..Len(inside') : inside'[i] = First' - N2' - 1 + i
  BY <1>5, <1>10
<1>13. QED
  BY <1>8, <1>10, <1>11, <1>12 DEF InsideInv

-----------------------------------------------------------------------------
(* The whole channel *)

Histories(X, Y, P) ==
    /\ X \in [0..Latency -> Nat] /\ Y \in [0..Latency -> Nat] /\ P \in [1..Latency -> Nat]
    /\ HistoryInv(X, Y, P) /\ FlightInv(P)

\* The inductive invariant: every token is where it should be, from the consumer's end of
\* the channel to the producer's, and there is a past that explains what the delayed
\* registers are going to do.
ChannelInv ==
    /\ BufferInv /\ FirstBufferInv /\ FifoTypes /\ MemoryInv /\ InsideInv
    /\ \E X, Y, P : Histories(X, Y, P)

\* An empty channel, after a reset and at the start.
EmptyChannel ==
    /\ ~s1.xValid /\ ~s1.lValid /\ ~s2.xValid /\ ~s2.lValid
    /\ fifo.count = 0 /\ fifo.used = 0 /\ fifo.rdAddr = 0 /\ fifo.wrAddr = 0
    /\ fifo.mem \in [Addresses -> Tokens]
    /\ fifo.inflight = [i \in 1..Fifo!Inflight |-> FALSE]
    /\ fifo.rdAddrDly \in [1..Fifo!Inflight -> Addresses]
    /\ inside = <<>> /\ owed = None
    /\ sent \in Nat

LEMMA EmptyIsChannel == BufferInv /\ EmptyChannel => ChannelInv
<1> SUFFICES ASSUME BufferInv, EmptyChannel PROVE ChannelInv
  OBVIOUS
<1>1. Depth \in Nat /\ Depth >= 1 /\ Latency \in Nat /\ sent \in Nat
  BY ChannelAssumption DEF EmptyChannel
<1>2. N1 = 0 /\ N2 = 0 /\ Fifo!Used = 0 /\ fifo.count = 0
  BY DEF EmptyChannel, N1, N2, Bit, Fifo!Used
<1>3. First = sent + 1 /\ Oldest = First
  BY <1>1, <1>2 DEF First, Oldest
<1>4. First \in Nat /\ First >= 1
  BY <1>1, <1>3
<1>5. FifoTypes
  <2>1. 0 \in Addresses
    BY <1>1 DEF Addresses
  <2>2. fifo.inflight \in [1..Fifo!Inflight -> BOOLEAN]
    BY DEF EmptyChannel
  <2>3. QED
    BY <1>1, <1>2, <2>1, <2>2 DEF EmptyChannel, FifoTypes
<1>6. FirstBufferInv
  BY DEF EmptyChannel, FirstBufferInv
<1>7. MemoryInv
  <2>1. Slot(First + fifo.count) = 0
    <3>1. fifo.rdAddr + (First + fifo.count) - First = 0
      BY <1>2, <1>4 DEF EmptyChannel
    <3>2. Around(0) = 0
      BY <1>1 DEF Around
    <3>3. QED
      BY <3>1, <3>2 DEF Slot
  <2>2. \A t \in Oldest..(First + fifo.count - 1) : fifo.mem[Slot(t)] = t
    <3>1. ~\E t : t \in Oldest..(First + fifo.count - 1)
      BY <1>2, <1>3, <1>4
    <3>2. QED
      BY <3>1
  <2>3. Oldest >= 1 /\ First - N2 >= 1
    BY <1>2, <1>3, <1>4
  <2>4. QED
    BY <2>1, <2>2, <2>3 DEF EmptyChannel, MemoryInv
<1>8. InsideInv
  BY <1>2 DEF EmptyChannel, InsideInv
<1> DEFINE X == [i \in 0..Latency |-> 0]
           P == [i \in 1..Latency |-> 0]
<1>9. HistoryInv(X, X, P)
  <2>1. XNow = 0 /\ YNow = 0
    BY DEF EmptyChannel, XNow, YNow
  <2>2. /\ \A i \in 0..Latency : X[i] = 0
        /\ \A i \in 1..Latency : P[i] = 0
        /\ \A i \in 1..Latency : i - 1 \in 0..Latency
        /\ 0 \in 0..Latency /\ Latency \in 0..Latency
        /\ Latency > 0 => Latency \in 1..Latency
    BY <1>1
  <2> HIDE DEF X, P
  <2>3. \A i \in 1..Latency : owed[i] \in {0, X[i]}
    BY DEF EmptyChannel, None
  <2>4. \A i \in 1..Latency : Moved(s2.movesDly[i], X[i], X[i], P[i], X[i - 1], X[i - 1])
    BY <2>2 DEF Moved
  <2>5. QED
    BY <2>1, <2>2, <2>3, <2>4 DEF HistoryInv
<1>10. FlightInv(P)
  <2>1. Fifo!Inflight \in Nat /\ \A i \in 1..Fifo!Inflight : i \in 1..Latency
    BY <1>1 DEF Fifo!Inflight
  <2>2. \A i \in 1..Fifo!Inflight : P[i] = 0 /\ fifo.inflight[i] = FALSE
    BY <2>1 DEF EmptyChannel
  <2>3. ~\E t : t \in Oldest..(First - 1)
    BY <1>3, <1>4
  <2> HIDE DEF P
  <2>4. QED
    BY <2>2, <2>3 DEF FlightInv
<1>11. Histories(X, X, P)
  BY <1>9, <1>10 DEF Histories
<1>12. QED
  BY <1>5, <1>6, <1>7, <1>8, <1>11 DEF ChannelInv

LEMMA ChannelInit == Init => ChannelInv
<1> SUFFICES ASSUME Init PROVE ChannelInv
  OBVIOUS
<1>1. BufferInv
  BY BufferInit
<1>2. PICK d \in Tokens :
        fifo = [count |-> 0, used |-> 0, rdAddr |-> 0, wrAddr |-> 0,
                mem |-> [a \in 0..(Depth - 1) |-> d],
                inflight |-> [i \in 1..Fifo!Inflight |-> FALSE],
                rdAddrDly |-> [i \in 1..Fifo!Inflight |-> 0],
                rdReg |-> d]
  BY DEF Init, Fifo!Init
<1>3. ~s1.xValid /\ ~s1.lValid
  BY DEF Init, In!Init, In!AfterReset
<1>4. ~s2.xValid /\ ~s2.lValid
  BY DEF Init, Out!Init, Out!AfterReset
<1>5. 0 \in Addresses
  BY ChannelAssumption DEF Addresses
<1>6. EmptyChannel
  BY <1>2, <1>3, <1>4, <1>5 DEF Init, EmptyChannel, Addresses
<1>7. QED
  BY <1>1, <1>6, EmptyIsChannel

LEMMA ResetStep ==
    ASSUME ChannelInv, NEW upValid \in BOOLEAN, NEW ready \in BOOLEAN,
           Clock(TRUE, upValid, ready)
    PROVE  EmptyChannel'
<1>1. /\ In!Clock(TRUE, upValid, sent + 1, InputEn)
      /\ Fifo!Clock(TRUE, InputEn, s1.x, OutputRdEn)
      /\ Out!Clock(TRUE, ~Fifo!Empty, Fifo!Output, ready)
      /\ sent' = sent /\ inside' = <<>>
      /\ owed' = [i \in 1..Latency |-> 0]
  BY DEF Clock
<1>2. ~s1'.xValid /\ ~s1'.lValid
  BY <1>1 DEF In!Clock, In!Clocked
<1>3. ~s2'.xValid /\ ~s2'.lValid
  BY <1>1 DEF Out!Clock, Out!Clocked
<1>4. /\ fifo'.count = 0 /\ fifo'.used = 0 /\ fifo'.rdAddr = 0 /\ fifo'.wrAddr = 0
      /\ fifo'.mem = fifo.mem
      /\ fifo'.inflight = [i \in 1..Fifo!Inflight |-> FALSE]
      /\ fifo'.rdAddrDly = [i \in 1..Fifo!Inflight |->
             IF i = 1 THEN fifo.rdAddr ELSE fifo.rdAddrDly[i - 1]]
  BY <1>1 DEF Fifo!Clock
<1>5. FifoTypes /\ sent \in Nat
  BY ChannelAssumption DEF ChannelInv, BufferInv
<1>6. fifo'.rdAddrDly \in [1..Fifo!Inflight -> Addresses]
  <2>1. fifo.rdAddr \in Addresses /\ fifo.rdAddrDly \in [1..Fifo!Inflight -> Addresses]
    BY <1>5 DEF FifoTypes
  <2>2. \A i \in 1..Fifo!Inflight : i # 1 => i - 1 \in 1..Fifo!Inflight
    BY InflightIs
  <2>3. \A i \in 1..Fifo!Inflight :
            (IF i = 1 THEN fifo.rdAddr ELSE fifo.rdAddrDly[i - 1]) \in Addresses
    BY <2>1, <2>2
  <2>4. QED
    BY <1>4, <2>3
<1>7. fifo'.mem \in [Addresses -> Tokens]
  BY <1>4, <1>5 DEF FifoTypes
<1>8. owed' = None
  BY <1>1 DEF None
<1>9. QED
  BY <1>1, <1>2, <1>3, <1>4, <1>5, <1>6, <1>7, <1>8 DEF EmptyChannel

\* An edge without reset: the parts put together.
LEMMA EdgeStep ==
    ASSUME ChannelInv, BufferInv', NEW upValid \in BOOLEAN, NEW ready \in BOOLEAN,
           Clock(FALSE, upValid, ready)
    PROVE  ChannelInv'
<1> DEFINE accepted == In!ARcv(upValid)
           handed   == Out!Xmit(ready)
<1>1. /\ In!Clock(FALSE, upValid, sent + 1, InputEn)
      /\ Fifo!Clock(FALSE, InputEn, s1.x, OutputRdEn)
      /\ Out!Clock(FALSE, ~Fifo!Empty, Fifo!Output, ready)
      /\ sent' = IF accepted THEN sent + 1 ELSE sent
      /\ inside' = (IF handed THEN Tail(inside) ELSE inside)
                   \o (IF accepted THEN <<sent + 1>> ELSE <<>>)
      /\ owed' = [i \in 1..Latency |->
                     IF i > 1 THEN owed[i - 1] ELSE IF handed THEN Head(inside) ELSE 0]
  BY DEF Clock
<1>2. BufferInv /\ FirstBufferInv /\ FifoTypes /\ MemoryInv /\ InsideInv
  BY DEF ChannelInv
<1>3. PICK X, Y, P : Histories(X, Y, P)
  BY DEF ChannelInv
<1>4. /\ X \in [0..Latency -> Nat] /\ Y \in [0..Latency -> Nat] /\ P \in [1..Latency -> Nat]
      /\ HistoryInv(X, Y, P) /\ FlightInv(P)
  BY <1>3 DEF Histories
<1>5. accepted \in BOOLEAN /\ handed \in BOOLEAN /\ InputEn \in BOOLEAN
  BY DEF In!ARcv, Out!Xmit, InputEn
<1>6. sent' = sent + Bit(accepted)
  <2>1. sent \in Nat
    BY <1>2, ChannelAssumption DEF BufferInv
  <2>2. QED
    BY <1>1, <2>1 DEF Bit
<1>7. /\ FirstBufferInv'
      /\ N1' = N1 + Bit(accepted) - Bit(InputEn)
      /\ InputEn => s1.x = sent - N1 + 1
      /\ N1 \in 0..2
  BY <1>1, <1>2, <1>6, FirstBufferStep
<1>8. /\ First \in Int /\ Oldest \in Int /\ Oldest <= First
      /\ First + fifo.count = sent - N1 + 1
      /\ First - Oldest = Fifo!Used - fifo.count
  BY <1>2, PlaceTypes
<1>9. Oldest >= 1 /\ First - N2 >= 1
  BY <1>2 DEF MemoryInv
<1>10. Fifo!Inflight > 0 /\ fifo.inflight[Fifo!Inflight] => Oldest < First
  BY <1>4, <1>8, <1>9, RetireIsOldest
<1>11. Fifo!Inflight > 0 /\ fifo.inflight[Fifo!Inflight] => fifo.count < Fifo!Used
  <2>1. fifo.count \in Nat /\ Fifo!Used \in Nat
    BY <1>2 DEF FifoTypes
  <2>2. Oldest < First => fifo.count < Fifo!Used
    BY <1>8, <2>1
  <2>3. QED
    BY <1>10, <2>2
<1>12. /\ fifo'.count = fifo.count + Bit(InputEn) - Bit(OutputRdEn)
       /\ Fifo!Used' = Fifo!Used + Bit(InputEn) - Bit(Fifo!Retire(OutputRdEn))
       /\ fifo'.rdAddr = Around(fifo.rdAddr + Bit(OutputRdEn))
       /\ fifo'.wrAddr = Around(fifo.wrAddr + Bit(InputEn))
       /\ InputEn => Fifo!Used < Depth
       /\ OutputRdEn => fifo.count >= 1
       /\ FifoTypes'
       /\ Fifo!Pop(OutputRdEn) = OutputRdEn
  <2>1. s1.x \in Tokens
    BY <1>2 DEF BufferInv
  <2>2. QED
    BY <1>1, <1>2, <1>11, <2>1, CountersStep
<1>13. /\ First' = First + Bit(OutputRdEn)
       /\ Oldest' = Oldest + Bit(Fifo!Retire(OutputRdEn))
       /\ First' + fifo'.count = First + fifo.count + Bit(InputEn)
  BY <1>2, <1>5, <1>6, <1>7, <1>12, PlacesStep
<1>14. MemoryStepHypotheses
  <2>1. fifo'.mem = IF InputEn THEN [fifo.mem EXCEPT ![fifo.wrAddr] = s1.x] ELSE fifo.mem
    BY <1>1 DEF Fifo!Clock
  <2>2. InputEn => s1.x = First + fifo.count
    BY <1>7, <1>8
  <2>3. fifo'.mem = IF InputEn THEN [fifo.mem EXCEPT ![fifo.wrAddr] = First + fifo.count]
                    ELSE fifo.mem
    BY <2>1, <2>2
  <2>4. QED
    BY <1>8, <1>12, <1>13, <2>3 DEF MemoryStepHypotheses
<1>15. /\ fifo'.wrAddr = Slot(First + fifo.count)'
       /\ \A t \in Int : Oldest' <= t /\ t < First' + fifo'.count => fifo'.mem[Slot(t)'] = t
       /\ \A t \in Oldest..First : Slot(t)' = Slot(t)
       /\ Slot(First) = fifo.rdAddr
  BY <1>2, <1>14, MemoryStep
<1>16. /\ N2' = N2 + Bit(OutputRdEn) - Bit(handed)
       /\ N2 \in 0..2 /\ (handed => N2 >= 1) /\ (s2.lValid => N2 = 2)
       /\ Moved(Out!Moves(~Fifo!Empty, ready), XNow, YNow, PNow, XNow', YNow')
  BY <1>1, <1>2, <1>8, <1>13, SecondBufferStep
<1>17. /\ Bit(OutputRdEn) \in {0, 1} /\ Bit(handed) \in {0, 1} /\ Bit(InputEn) \in {0, 1}
       /\ Bit(Fifo!Retire(OutputRdEn)) \in {0, 1}
  BY DEF Bit
<1>18. Oldest' \in Int /\ First' \in Int /\ Oldest' >= 1 /\ First' - N2' >= 1
  <2>1. Oldest' \in Int /\ Oldest' >= 1 /\ First' \in Int
    BY <1>8, <1>9, <1>13, <1>17
  <2>2. First' - N2' = (First - N2) + Bit(handed)
    BY ONLY <1>8, <1>13, <1>16, <1>17
  <2>3. First - N2 \in Int
    BY <1>8, <1>16
  <2>4. QED
    BY <1>9, <1>17, <2>1, <2>2, <2>3
<1> HIDE DEF accepted, handed
<1>19. MemoryInv'
  <2>1. fifo'.count \in Nat
    BY <1>12 DEF FifoTypes
  <2>2. \A t \in Oldest'..(First' + fifo'.count - 1) : fifo'.mem[Slot(t)'] = t
    <3>1. ASSUME NEW t \in Oldest'..(First' + fifo'.count - 1) PROVE fifo'.mem[Slot(t)'] = t
      <4>1. t \in Int /\ Oldest' <= t /\ t < First' + fifo'.count
        BY <1>18, <2>1
      <4>2. QED
        BY <1>15, <4>1
    <3>2. QED
      BY <3>1
  <2>3. QED
    BY <1>15, <1>18, <2>2 DEF MemoryInv
<1>20. InsideInv' /\ (handed => Head(inside) = First - N2)
  BY <1>1, <1>2, <1>5, <1>7, <1>12, <1>13, <1>16, InsideStep
<1>21. PICK x, y, p \in Nat : x = XNow' /\ y = YNow' /\ p = PNow
  <2>1. XNow' \in Nat
    <3>1. XNow' = IF s2'.xValid THEN First' - N2' ELSE 0
      BY DEF XNow
    <3>2. N2' \in Int
      BY <1>16, <1>17
    <3>3. First' - N2' \in Nat
      <4>1. First' \in Int /\ N2' \in Int /\ First' - N2' >= 1
        BY <1>18, <3>2
      <4>2. \A u, v \in Int : u - v >= 1 => u - v \in Nat
        OBVIOUS
      <4>3. QED
        BY ONLY <4>1, <4>2
    <3>4. QED
      BY ONLY <3>1, <3>3
  <2>2. YNow' \in Nat
    <3>1. YNow' = IF s2'.lValid THEN First' - 1 ELSE 0
      BY DEF YNow
    <3>2. N2' \in Nat
      <4>1. N2' = Bit(s2'.xValid) + Bit(s2'.lValid)
        BY DEF N2
      <4>2. Bit(s2'.xValid) \in Nat /\ Bit(s2'.lValid) \in Nat
        BY DEF Bit
      <4>3. QED
        BY <4>1, <4>2
    <3>3. First' - 1 \in Nat
      <4>1. First' \in Int /\ N2' \in Nat /\ First' - N2' >= 1
        BY <1>18, <3>2
      <4>2. \A u \in Int, v \in Nat : u - v >= 1 => u - 1 \in Nat
        OBVIOUS
      <4>3. QED
        BY ONLY <4>1, <4>2
    <3>4. QED
      BY ONLY <3>1, <3>3
  <2>3. PNow \in Nat
    BY <1>8, <1>9 DEF PNow
  <2>4. QED
    BY <2>1, <2>2, <2>3
<1>22. FlightInv(Delayed(p, P))'
  BY <1>1, <1>2, <1>4, <1>9, <1>12, <1>14, <1>15, <1>21, FlightStep DEF Delayed
<1>23. /\ Latency = 0 /\ p # 0 => Fifo!Output = p
       /\ Latency > 0 /\ Delayed(p, P)[Latency] # 0 => fifo'.rdReg = Delayed(p, P)[Latency]
  BY <1>1, <1>2, <1>4, <1>8, <1>12, <1>15, <1>21, ReadStep
<1>24. handed => Head(inside) = XNow
  <2>1. handed => s2.xValid
    BY DEF handed, Out!Xmit
  <2>2. QED
    BY <1>20, <2>1 DEF XNow
<1>25. HistoryInv(Later(x, X), Later(y, Y), Delayed(p, P))'
  BY <1>1, <1>4, <1>16, <1>21, <1>23, <1>24, HistoryStep DEF handed
<1>26. Histories(Later(x, X), Later(y, Y), Delayed(p, P))'
  <2>1. Later(x, X) \in [0..Latency -> Nat] /\ Later(y, Y) \in [0..Latency -> Nat]
    <3>1. \A i \in 0..Latency : i # 0 => i - 1 \in 0..Latency
      BY ChannelAssumption
    <3>2. QED
      BY <1>4, <1>21, <3>1 DEF Later
  <2>2. Delayed(p, P) \in [1..Latency -> Nat]
    <3>1. \A i \in 1..Latency : i # 1 => i - 1 \in 1..Latency
      BY ChannelAssumption
    <3>2. QED
      BY <1>4, <1>21, <3>1 DEF Delayed
  <2>3. /\ Later(x, X)' = Later(x, X) /\ Later(y, Y)' = Later(y, Y)
        /\ Delayed(p, P)' = Delayed(p, P)
    BY DEF Later, Delayed
  <2>4. QED
    BY <1>22, <1>25, <2>1, <2>2, <2>3 DEF Histories
<1>27. (\E X2, Y2, P2 : Histories(X2, Y2, P2))'
  BY <1>26
<1>28. QED
  BY <1>7, <1>12, <1>19, <1>20, <1>27 DEF ChannelInv

LEMMA ChannelStep == ChannelInv /\ [Next]_vars => ChannelInv'
<1> SUFFICES ASSUME ChannelInv, [Next]_vars PROVE ChannelInv'
  OBVIOUS
<1>1. BufferInv'
  BY BufferStep DEF ChannelInv
<1>2. CASE UNCHANGED vars
  <2>1. /\ s1' = s1 /\ s2' = s2 /\ fifo' = fifo /\ sent' = sent /\ inside' = inside
        /\ owed' = owed
    BY <1>2 DEF vars
  <2>2. N1' = N1 /\ N2' = N2 /\ Fifo!Used' = Fifo!Used
    BY <2>1 DEF N1, N2, Fifo!Used
  <2>3. First' = First /\ Oldest' = Oldest
    BY <2>1, <2>2 DEF First, Oldest
  <2>4. FifoTypes' /\ FirstBufferInv' /\ InsideInv'
    BY <2>1, <2>2, <2>3 DEF ChannelInv, FifoTypes, FirstBufferInv, InsideInv
  <2>5. \A t : Slot(t)' = Slot(t)
    BY <2>1, <2>3 DEF Slot, Around
  <2>6. MemoryInv'
    BY <2>1, <2>2, <2>3, <2>5 DEF ChannelInv, MemoryInv, Slot, Around
  <2>7. XNow' = XNow /\ YNow' = YNow
    BY <2>1, <2>2, <2>3 DEF XNow, YNow
  <2>8. PICK X, Y, P : Histories(X, Y, P)
    BY DEF ChannelInv
  <2>9. HistoryInv(X, Y, P)'
    BY <2>1, <2>7, <2>8 DEF Histories, HistoryInv
  <2>10. FlightInv(P)'
    BY <2>1, <2>3, <2>5, <2>8 DEF Histories, FlightInv
  <2>11. Histories(X, Y, P)'
    BY <2>8, <2>9, <2>10 DEF Histories
  <2>12. (\E X2, Y2, P2 : Histories(X2, Y2, P2))'
    BY <2>11
  <2>13. QED
    BY <1>1, <2>4, <2>6, <2>12 DEF ChannelInv
<1>3. CASE Next
  <2>1. PICK rst, upValid, ready \in BOOLEAN : Clock(rst, upValid, ready)
    BY <1>3 DEF Next
  <2>2. CASE rst = TRUE
    <3>1. EmptyChannel'
      BY <2>1, <2>2, ResetStep
    <3>2. QED
      BY <1>1, <3>1, EmptyIsChannel, PTL
  <2>3. CASE rst = FALSE
    BY <1>1, <2>1, <2>3, EdgeStep
  <2>4. QED
    BY <2>2, <2>3
<1>4. QED
  BY <1>2, <1>3

\* LowerSeqFIFO.cpp and ESIPrimitives.sv together: Latency cycles after the handshake of a
\* token its data is on the wires, for every depth, every latency, every way the producer
\* and the consumer stall, and whatever resets destroyed before.
THEOREM DataIsTheTokensCorrect == Spec => []DataIsTheTokens
<1>1. ChannelInv => DataIsTheTokens
  <2> SUFFICES ASSUME ChannelInv PROVE DataIsTheTokens
    OBVIOUS
  <2>1. BufferInv /\ FifoTypes /\ MemoryInv /\ InsideInv
    BY DEF ChannelInv
  <2>2. PICK X, Y, P : Histories(X, Y, P)
    BY DEF ChannelInv
  <2>3. HistoryInv(X, Y, P) /\ Latency \in Nat
    BY <2>2, ChannelAssumption DEF Histories
  <2>4. CASE Latency = 0
    <3>1. XNow # 0 => s2.x = XNow
      BY <2>3, <2>4 DEF HistoryInv
    <3>2. s2.xValid => N2 >= 1 /\ N2 \in Int
      BY DEF N2, Bit
    <3>3. N1 \in Int /\ N1 >= 0
      BY DEF N1, Bit
    <3>4. First \in Int /\ fifo.count \in Nat
      BY <2>1, PlaceTypes DEF FifoTypes
    <3>5. First - N2 >= 1
      BY <2>1 DEF MemoryInv
    <3>6. s2.xValid => s2.x = First - N2
      BY <3>1, <3>2, <3>4, <3>5 DEF XNow
    <3>7. /\ inside \in Seq(Nat) /\ Len(inside) = N1 + fifo.count + N2
          /\ \A i \in 1..Len(inside) : inside[i] = First - N2 - 1 + i
      BY <2>1 DEF InsideInv
    <3>8. s2.xValid => 1 \in 1..Len(inside)
      BY <3>2, <3>3, <3>4, <3>7
    <3>9. s2.xValid => Head(inside) = First - N2
      <4>1. s2.xValid => Head(inside) = inside[1] /\ inside[1] = First - N2 - 1 + 1
        BY <3>7, <3>8
      <4>2. s2.xValid => First - N2 - 1 + 1 = First - N2
        BY <3>2, <3>4
      <4>3. QED
        BY <4>1, <4>2
    <3>10. QED
      BY <2>4, <3>6, <3>9 DEF DataIsTheTokens
  <2>5. CASE Latency > 0
    <3>1. owed[Latency] \in {0, X[Latency]}
      BY <2>3, <2>5 DEF HistoryInv
    <3>2. X[Latency] # 0 => s2.x = X[Latency]
      BY <2>3 DEF HistoryInv
    <3>3. QED
      BY <2>5, <3>1, <3>2 DEF DataIsTheTokens
  <2>6. QED
    BY <2>3, <2>4, <2>5
<1>2. QED
  BY <1>1, ChannelInit, ChannelStep, PTL DEF Spec

-----------------------------------------------------------------------------
(* Dataflow: tokens as sets *)

\* The registers of a buffer, and the tokens in them.
StageOk(s) ==
    /\ {s.xValid, s.lValid, s.xReadyReg} \subseteq BOOLEAN
    /\ s.lValid => s.xValid /\ ~s.xReadyReg /\ s.x < s.l

InStage(s) == (IF s.xValid THEN {s.x} ELSE {}) \cup (IF s.lValid THEN {s.l} ELSE {})

\* One clock edge of a buffer without reset, from s to t.
StageStep(s, t, c, aValid, xReady, rcv, xmit) ==
    /\ rcv <=> ((~s.lValid \/ s.xReadyReg) /\ aValid)
    /\ xmit <=> (s.xValid /\ xReady)
    /\ t.xValid = (IF xmit THEN s.lValid \/ rcv ELSE s.xValid \/ rcv)
    /\ t.lValid = (IF xmit THEN s.lValid /\ rcv ELSE s.lValid \/ (rcv /\ s.xValid))
    /\ t.x = (IF xmit \/ (rcv /\ ~s.xValid) THEN (IF xmit /\ s.lValid THEN s.l ELSE c)
              ELSE s.x)
    /\ t.l = (IF (xmit /\ s.lValid) \/ (~xmit /\ rcv /\ s.xValid) THEN c ELSE s.l)
    /\ t.xReadyReg = xReady

\* What that does to its tokens: it gets token c if rcv, and gives its oldest one if xmit.
StageGives(s, t, c, rcv, xmit) ==
    LET all == InStage(s) \cup (IF rcv THEN {c} ELSE {})
    IN  /\ StageOk(t)
        /\ InStage(t) = all \ (IF xmit THEN {s.x} ELSE {})
        /\ xmit => s.x \in all /\ \A n \in all : s.x \leq n

\* Token c is newer than the tokens in S, if it comes.
Newer(S, c, comes) == \A n \in S : n \in Nat /\ (comes => n < c)

Held(e) == IF e \in buffered THEN InStage(stages[e]) ELSE {}

\* The tokens edge e has got from the fork, and those of them that have left, or more.
Got(e) == IF e \in Arms THEN {n \in 1..LastTaken("branch") : Arm(n) = e} ELSE 1..LastTaken(e)
Gone(e) == IF e \in Arms THEN Left ELSE 1..Len(out)

\* Edges whose tokens leave through the join; the condition of a merge goes to a sink.
Joined == IF merges THEN Edges \ {"cond"} ELSE Edges

DiamondTypes ==
    /\ conds \in Seq(BOOLEAN) /\ out \in Seq(Nat)
    /\ offered \in BOOLEAN /\ merges \in BOOLEAN /\ crossed \in BOOLEAN
    /\ emitted \in [Outputs -> BOOLEAN]
    /\ \A e \in Edges : StageOk(stages[e])
    /\ IF offered THEN Len(conds) > 0 ELSE \A o \in Outputs : ~emitted[o]

\* Every edge whose tokens leave holds what it has got and what has not left; no token
\* has left that the fork has not emitted on every edge.
HeldInv ==
    /\ \A e \in Edges : Held(e) \subseteq Got(e)
    /\ \A e \in Joined : Held(e) = Got(e) \ Gone(e)
    /\ \A e \in Joined \ Arms : Len(out) \leq LastTaken(e)
    /\ Left \subseteq 1..LastTaken("branch")

DiamondInv == DiamondTypes /\ HeldInv /\ LatencyInsensitive

\* The handshakes of a cycle: at the source of an edge, at its sink, at an output of the
\* fork, and at the output of the circuit.
Take(e, ready) == SourceValid(e) /\ Ready(e, ready)
Give(e, ready) == Valid(e) /\ SinkReady(e, ready)
Took(o, ready) == ForkValid(o) /\ ForkReady(o, ready)
Fire(ready) == ready /\ OutValid

\* The wires of an edge are high or low.
LEMMA HandshakeTypes ==
  ASSUME NEW e \in Edges, NEW ready \in BOOLEAN
  PROVE  SourceValid(e) \in BOOLEAN /\ SinkReady(e, ready) \in BOOLEAN
<1>1. \A o : ForkValid(o) \in BOOLEAN
  BY DEF ForkValid
<1>2. SourceValid(e) \in BOOLEAN
  BY <1>1 DEF SourceValid
<1>3. JoinReady(ready) \in BOOLEAN /\ ArmsReady(ready) \in BOOLEAN
  BY DEF JoinReady, ArmsReady
<1>4. CASE e \in Arms
  <2>1. SinkReady(e, ready) = (ArmsReady(ready) /\ e = Chosen)
    BY <1>4 DEF SinkReady, Arms
  <2> QED
    BY <1>2, <2>1
<1>5. CASE e = "cond"
  <2>1. SinkReady(e, ready) = (merges \/ ArmsReady(ready))
    BY <1>5 DEF SinkReady, Arms
  <2> QED
    BY <1>2, <2>1
<1>6. CASE e = "token"
  <2>1. SinkReady(e, ready) = JoinReady(ready)
    BY <1>6 DEF SinkReady, Arms
  <2> QED
    BY <1>2, <1>3, <2>1
<1> QED
  BY <1>4, <1>5, <1>6 DEF Edges

\* A clock edge of a buffer: it gets token c if its source offers one and it has room, and
\* gives its oldest one if its sink is ready.
LEMMA HeldStage ==
  ASSUME NEW s, NEW t, NEW c \in Nat, NEW aValid \in BOOLEAN, NEW xReady \in BOOLEAN,
         NEW rcv \in BOOLEAN, NEW xmit \in BOOLEAN, StageOk(s), Newer(InStage(s), c, rcv),
         StageStep(s, t, c, aValid, xReady, rcv, xmit)
  PROVE  StageGives(s, t, c, rcv, xmit)
<1> SUFFICES /\ StageOk(t)
             /\ InStage(t) = (InStage(s) \cup (IF rcv THEN {c} ELSE {}))
                                \ (IF xmit THEN {s.x} ELSE {})
             /\ xmit => /\ s.x \in InStage(s) \cup (IF rcv THEN {c} ELSE {})
                        /\ \A n \in InStage(s) \cup (IF rcv THEN {c} ELSE {}) : s.x \leq n
  BY DEF StageGives
<1>0. /\ rcv <=> ((~s.lValid \/ s.xReadyReg) /\ aValid)
      /\ xmit <=> (s.xValid /\ xReady)
      /\ t.xValid = (IF xmit THEN s.lValid \/ rcv ELSE s.xValid \/ rcv)
      /\ t.lValid = (IF xmit THEN s.lValid /\ rcv ELSE s.lValid \/ (rcv /\ s.xValid))
      /\ t.x = (IF xmit \/ (rcv /\ ~s.xValid) THEN (IF xmit /\ s.lValid THEN s.l ELSE c)
                ELSE s.x)
      /\ t.l = (IF (xmit /\ s.lValid) \/ (~xmit /\ rcv /\ s.xValid) THEN c ELSE s.l)
      /\ t.xReadyReg = xReady
  BY DEF StageStep
<1> USE <1>0
<1>1. /\ s.xValid \in BOOLEAN /\ s.lValid \in BOOLEAN /\ s.xReadyReg \in BOOLEAN
      /\ s.lValid => s.xValid /\ ~s.xReadyReg /\ s.x < s.l
  BY DEF StageOk
<1>2. /\ s.xValid => s.x \in Nat /\ (rcv => s.x < c)
      /\ s.lValid => s.l \in Nat /\ (rcv => s.l < c)
  BY DEF InStage, Newer
<1>3. s.lValid => ~rcv
  BY <1>1
<1>4. CASE xmit
  <2>1. s.xValid /\ xReady
    BY <1>4
  <2>2. CASE s.lValid
    <3>1. t.xValid = TRUE /\ t.lValid = FALSE /\ t.x = s.l /\ t.xReadyReg = TRUE /\ ~rcv
      BY <1>3, <1>4, <2>1, <2>2
    <3>2. StageOk(t)
      BY <3>1 DEF StageOk
    <3>3. InStage(t) = {s.l} /\ InStage(s) = {s.x, s.l}
      BY <2>1, <2>2, <3>1 DEF InStage
    <3>4. s.x < s.l /\ s.x \in Nat /\ s.l \in Nat
      BY <1>1, <1>2, <2>1, <2>2
    <3> QED
      BY <1>4, <3>1, <3>2, <3>3, <3>4
  <2>3. CASE ~s.lValid
    <3>1. t.xValid = rcv /\ t.lValid = FALSE /\ t.x = c /\ t.xReadyReg = TRUE
      BY <1>4, <2>1, <2>3
    <3>2. StageOk(t)
      BY <3>1 DEF StageOk
    <3>3. InStage(t) = (IF rcv THEN {c} ELSE {}) /\ InStage(s) = {s.x}
      BY <2>1, <2>3, <3>1 DEF InStage
    <3>4. (rcv => s.x < c) /\ s.x \in Nat
      BY <1>2, <2>1
    <3> QED
      BY <1>4, <3>2, <3>3, <3>4
  <2> QED
    BY <1>1, <2>2, <2>3
<1>5. CASE ~xmit
  <2>1. CASE rcv /\ s.xValid
    <3>1. ~s.lValid /\ ~xReady
      BY <1>3, <1>5, <2>1
    <3>2. /\ t.xValid = TRUE /\ t.lValid = TRUE /\ t.x = s.x /\ t.l = c /\ t.xReadyReg = FALSE
      BY <1>5, <2>1, <3>1
    <3>3. s.x < c
      BY <1>2, <2>1
    <3>4. StageOk(t)
      BY <3>2, <3>3 DEF StageOk
    <3>5. InStage(t) = {s.x, c} /\ InStage(s) = {s.x}
      BY <2>1, <3>1, <3>2 DEF InStage
    <3> QED
      BY <1>5, <2>1, <3>4, <3>5
  <2>2. CASE rcv /\ ~s.xValid
    <3>1. ~s.lValid
      BY <1>1, <2>2
    <3>2. t.xValid = TRUE /\ t.lValid = FALSE /\ t.x = c
      BY <1>5, <2>2, <3>1
    <3>4. StageOk(t)
      BY <3>2 DEF StageOk
    <3>5. InStage(t) = {c} /\ InStage(s) = {}
      BY <2>2, <3>1, <3>2 DEF InStage
    <3> QED
      BY <1>5, <2>2, <3>4, <3>5
  <2>3. CASE ~rcv
    <3>1. t.xValid = s.xValid /\ t.lValid = s.lValid /\ t.x = s.x /\ t.l = s.l
      BY <1>1, <1>5, <2>3
    <3>2. s.lValid => ~xReady
      BY <1>1, <1>5
    <3>3. StageOk(t)
      BY <1>1, <3>1, <3>2 DEF StageOk
    <3>4. InStage(t) = InStage(s)
      BY <3>1 DEF InStage
    <3> QED
      BY <1>5, <2>3, <3>3, <3>4
  <2> QED
    BY <1>1, <2>1, <2>2, <2>3
<1> QED
  BY <1>4, <1>5

\* The same of an edge, with a buffer or without.
LEMMA HeldStep ==
  ASSUME NEW ready \in BOOLEAN, NEW offer \in BOOLEAN, NEW cond \in BOOLEAN,
         DiamondClock(FALSE, ready, offer, cond), NEW e \in Edges, StageOk(stages[e]),
         Current \in Nat,
         Newer(Held(e), Current, Take(e, ready))
  PROVE  /\ StageOk(stages'[e])
         /\ Held(e)' = (Held(e) \cup (IF Take(e, ready) THEN {Current} ELSE {}))
                          \ (IF Give(e, ready) THEN {Data(e)} ELSE {})
         /\ Give(e, ready) =>
               /\ Data(e) \in Held(e) \cup (IF Take(e, ready) THEN {Current} ELSE {})
               /\ \A n \in Held(e) \cup (IF Take(e, ready) THEN {Current} ELSE {}) : Data(e) \leq n
<1>0. buffered' = buffered
  BY DEF DiamondClock
<1>1. CASE e \notin buffered
  <2>1. stages'[e] = stages[e] /\ Held(e) = {} /\ Held(e)' = {}
    BY <1>0, <1>1 DEF DiamondClock, Held
  <2>2. (Take(e, ready) <=> Give(e, ready)) /\ Data(e) = Current
    BY <1>1 DEF Take, Give, Valid, Ready, Data
  <2> QED
    BY <2>1, <2>2
<1>2. CASE e \in buffered
  <2>0. PICK c \in Nat : c = Current
    OBVIOUS
  <2>1. PICK s, t : s = stages[e] /\ t = stages'[e] /\ c = Current
    BY <2>0
  <2>2. PICK aValid \in BOOLEAN, xReady \in BOOLEAN :
           (aValid <=> SourceValid(e)) /\ (xReady <=> SinkReady(e, ready))
    OBVIOUS
  <2>3. t = Stage(e)!Clocked(FALSE, aValid, c, xReady)
    <3>1. t = Stage(e)!Clocked(FALSE, SourceValid(e), Current, SinkReady(e, ready))
      BY <1>2, <2>1 DEF DiamondClock
    <3>2. SourceValid(e) = aValid /\ SinkReady(e, ready) = xReady
      BY <2>2, HandshakeTypes
    <3> QED
      BY <2>1, <3>1, <3>2
  <2>4. PICK rcv \in BOOLEAN, xmit \in BOOLEAN :
           /\ rcv <=> ((~s.lValid \/ s.xReadyReg) /\ aValid)
           /\ xmit <=> (s.xValid /\ xReady)
    OBVIOUS
  <2>5. StageOk(s)
    BY <2>1
  <2>6. /\ t.xValid = (IF xmit THEN s.lValid \/ rcv ELSE s.xValid \/ rcv)
        /\ t.lValid = (IF xmit THEN s.lValid /\ rcv ELSE s.lValid \/ (rcv /\ s.xValid))
        /\ t.xReadyReg = xReady
    BY <2>1, <2>3, <2>4, <2>5 DEF Stage!Clocked, Stage!ARcv, Stage!AReady, Stage!Xmit, StageOk
  <2>7. /\ t.x = (IF xmit \/ (rcv /\ ~s.xValid) THEN (IF xmit /\ s.lValid THEN s.l ELSE c)
                  ELSE s.x)
        /\ t.l = (IF (xmit /\ s.lValid) \/ (~xmit /\ rcv /\ s.xValid) THEN c ELSE s.l)
    BY <2>1, <2>3, <2>4, <2>5 DEF Stage!Clocked, Stage!ARcv, Stage!AReady, Stage!Xmit,
       Stage!PayloadMoves, Stage!Moves, StageOk
  <2>8. Held(e) = InStage(s) /\ Held(e)' = InStage(t)
    BY <1>0, <1>2, <2>1 DEF Held
  <2>9. Take(e, ready) <=> rcv
    BY <1>2, <2>1, <2>2, <2>4 DEF Take, Ready, Stage!AReady
  <2>11. Newer(InStage(s), c, rcv)
    BY <2>1, <2>8, <2>9 DEF Newer
  <2>10. StageGives(s, t, c, rcv, xmit)
    <3>1. StageStep(s, t, c, aValid, xReady, rcv, xmit)
      BY <2>4, <2>6, <2>7 DEF StageStep
    <3> QED
      BY <2>0, <2>2, <2>4, <2>5, <2>11, <3>1, HeldStage
  <2>12. Give(e, ready) <=> xmit
    BY <1>2, <2>1, <2>2, <2>4 DEF Give, Valid
  <2>13. Data(e) = s.x
    BY <1>2, <2>1 DEF Data
  <2> QED
    BY <2>1, <2>8, <2>9, <2>10, <2>12, <2>13 DEF StageGives
<1> QED
  BY <1>1, <1>2

\* A sequence with one more element at its end.
LEMMA AppendIsLonger ==
  ASSUME NEW S, NEW s \in Seq(S), NEW d \in S
  PROVE  /\ Append(s, d) \in Seq(S) /\ Len(s) \in Nat /\ Len(Append(s, d)) = Len(s) + 1
         /\ Append(s, d)[Len(s) + 1] = d
         /\ \A i \in 1..Len(s) : Append(s, d)[i] = s[i]
OBVIOUS

\* The fork: output o has one token more when it takes one, which is the current one.
LEMMA ForkStep ==
  ASSUME DiamondTypes, NEW ready \in BOOLEAN, NEW offer \in BOOLEAN, NEW cond \in BOOLEAN,
         DiamondClock(FALSE, ready, offer, cond)
  PROVE  /\ \A o \in Outputs :
               /\ LastTaken(o) \in Nat
               /\ LastTaken(o)' = LastTaken(o) + (IF Took(o, ready) THEN 1 ELSE 0)
               /\ Took(o, ready) => Current = LastTaken(o) + 1
         /\ offered' \in BOOLEAN /\ emitted' \in [Outputs -> BOOLEAN]
         /\ conds' \in Seq(BOOLEAN)
         /\ IF offered' THEN Len(conds') > 0 ELSE \A o \in Outputs : ~emitted'[o]
         /\ \A n \in 1..Current : n \in 1..Current' /\ Arm(n)' = Arm(n)
<1>1. PICK c \in Nat : c = Len(conds)
  BY DEF DiamondTypes
<1>2. \A o \in Outputs : emitted[o] \in BOOLEAN
  BY DEF DiamondTypes
<1>3. /\ offered \in BOOLEAN /\ (offered => c > 0) /\ (~offered => \A o \in Outputs : ~emitted[o])
  BY <1>1 DEF DiamondTypes
<1>4. PICK all \in BOOLEAN : all <=> InReady(ready)
  OBVIOUS
<1>5. \A o \in Outputs : Done(o, ready) <=> Took(o, ready) \/ emitted[o]
  BY DEF Done, Took
<1>6. all <=> \A o \in Outputs : Took(o, ready) \/ emitted[o]
  BY <1>4, <1>5 DEF InReady
<1>7. \A o \in Outputs : Took(o, ready) => ~emitted[o] /\ offered
  BY DEF Took, ForkValid
<1>8. /\ emitted' = EmittedNext(FALSE, ready)
      /\ offered' = (offer \/ (offered /\ ~(offered /\ InReady(ready))))
      /\ offer => (offered /\ InReady(ready)) \/ ~offered
      /\ conds' = IF offer THEN Append(conds, cond) ELSE conds
  BY DEF DiamondClock
<1>9. /\ emitted' \in [Outputs -> BOOLEAN]
      /\ \A o \in Outputs : emitted'[o] <=> (Took(o, ready) \/ emitted[o]) /\ ~all
  <2>1. emitted' = [o \in Outputs |-> ~FALSE /\ Done(o, ready) /\ ~InReady(ready)]
    BY <1>8 DEF EmittedNext
  <2>2. \A o \in Outputs : (~FALSE /\ Done(o, ready) /\ ~InReady(ready)) \in BOOLEAN
    OBVIOUS
  <2>3. emitted' \in [Outputs -> BOOLEAN]
    BY <2>1, <2>2
  <2>4. \A o \in Outputs : emitted'[o] <=> Done(o, ready) /\ ~InReady(ready)
    BY <2>1
  <2> QED
    BY <1>4, <1>5, <2>3, <2>4
<1>10. /\ offered' \in BOOLEAN
       /\ offered' <=> offer \/ (offered /\ ~all)
       /\ offer => (offered /\ all) \/ ~offered
  BY <1>4, <1>8
<1>11. /\ conds' \in Seq(BOOLEAN) /\ Len(conds') = c + (IF offer THEN 1 ELSE 0)
       /\ \A n \in 1..c : conds'[n] = conds[n]
  <2>1. CASE offer
    <3>1. conds' = Append(conds, cond)
      BY <1>8, <2>1
    <3>2. conds \in Seq(BOOLEAN)
      BY DEF DiamondTypes
    <3>3. /\ Append(conds, cond) \in Seq(BOOLEAN) /\ Len(Append(conds, cond)) = Len(conds) + 1
          /\ \A n \in 1..Len(conds) : Append(conds, cond)[n] = conds[n]
      BY <3>2, AppendIsLonger
    <3> QED
      BY <1>1, <2>1, <3>1, <3>3
  <2>2. CASE ~offer
    BY <1>1, <1>8, <2>2 DEF DiamondTypes
  <2> QED
    BY <2>1, <2>2
<1>12. Current = c /\ Current' = c + (IF offer THEN 1 ELSE 0)
  BY <1>1, <1>11 DEF Current
<1>13. \A n \in 1..Current : n \in 1..Current' /\ Arm(n)' = Arm(n)
  <2>1. \A n \in 1..c : Arm(n)' = Arm(n)
    BY <1>11 DEF Arm
  <2>2. \A n \in 1..c : n \in 1..(c + (IF offer THEN 1 ELSE 0))
    OBVIOUS
  <2> QED
    BY <1>12, <2>1, <2>2
<1>14. IF offered' THEN Len(conds') > 0 ELSE \A o \in Outputs : ~emitted'[o]
  <2>1. CASE offered'
    <3>1. offer \/ c > 0
      BY <1>3, <1>10, <2>1
    <3> QED
      BY <1>11, <2>1, <3>1
  <2>2. CASE ~offered'
    <3>1. ~offered \/ all
      BY <1>3, <1>10, <2>2
    <3> QED
      BY <1>3, <1>7, <1>9, <2>2, <3>1
  <2> QED
    BY <2>1, <2>2
<1>15. ASSUME NEW o \in Outputs
       PROVE  /\ LastTaken(o) \in Nat
              /\ LastTaken(o)' = LastTaken(o) + (IF Took(o, ready) THEN 1 ELSE 0)
              /\ Took(o, ready) => Current = LastTaken(o) + 1
  <2>1. LastTaken(o) = IF offered /\ ~emitted[o] THEN c - 1 ELSE c
    BY <1>12 DEF LastTaken
  <2>2. LastTaken(o)' = IF offered' /\ ~emitted'[o]
                        THEN c + (IF offer THEN 1 ELSE 0) - 1
                        ELSE c + (IF offer THEN 1 ELSE 0)
    BY <1>12 DEF LastTaken
  <2>3. LastTaken(o) \in Nat
    BY <1>3, <2>1
  <2>4. Took(o, ready) => Current = LastTaken(o) + 1
    BY <1>7, <1>12, <2>1
  <2>5. CASE ~offered
    <3>1. ~Took(o, ready) /\ ~emitted[o] /\ ~all /\ ~emitted'[o] /\ (offered' <=> offer)
      BY <1>3, <1>6, <1>7, <1>9, <1>10, <2>5
    <3>2. LastTaken(o) = c /\ LastTaken(o)' = c
      BY <2>1, <2>2, <2>5, <3>1
    <3> QED
      BY <2>3, <2>4, <3>1, <3>2
  <2>6. CASE offered /\ all
    <3>1. ~emitted'[o] /\ (offered' <=> offer)
      BY <1>9, <1>10, <2>6
    <3>2. LastTaken(o)' = c
      BY <2>2, <3>1
    <3>3. CASE emitted[o]
      <4>1. ~Took(o, ready) /\ LastTaken(o) = c
        BY <1>7, <2>1, <3>3
      <4> QED
        BY <2>3, <2>4, <3>2, <4>1
    <3>4. CASE ~emitted[o]
      <4>1. Took(o, ready) /\ LastTaken(o) = c - 1
        BY <1>6, <2>1, <2>6, <3>4
      <4> QED
        BY <2>3, <2>4, <3>2, <4>1
    <3> QED
      BY <3>3, <3>4
  <2>7. CASE offered /\ ~all
    <3>1. ~offer /\ offered' /\ (emitted'[o] <=> Took(o, ready) \/ emitted[o])
      BY <1>9, <1>10, <2>7
    <3>2. LastTaken(o)' = IF emitted'[o] THEN c ELSE c - 1
      BY <2>2, <3>1
    <3>3. CASE emitted[o]
      <4>1. ~Took(o, ready) /\ LastTaken(o) = c /\ LastTaken(o)' = c
        BY <1>7, <2>1, <3>1, <3>2, <3>3
      <4> QED
        BY <2>3, <2>4, <4>1
    <3>4. CASE ~emitted[o] /\ Took(o, ready)
      <4>1. LastTaken(o)' = c /\ LastTaken(o) = c - 1
        BY <2>1, <2>7, <3>1, <3>2, <3>4
      <4> QED
        BY <2>3, <2>4, <3>4, <4>1
    <3>5. CASE ~emitted[o] /\ ~Took(o, ready)
      <4>1. LastTaken(o)' = c - 1 /\ LastTaken(o) = c - 1
        BY <2>1, <2>7, <3>1, <3>2, <3>5
      <4> QED
        BY <2>3, <2>4, <3>5, <4>1
    <3> QED
      BY <3>3, <3>4, <3>5
  <2> QED
    BY <1>3, <2>5, <2>6, <2>7
<1> QED
  BY <1>9, <1>10, <1>11, <1>13, <1>14, <1>15

\* The edges of an output of the fork get what it takes.
LEMMA GotStep ==
  ASSUME DiamondTypes, NEW ready \in BOOLEAN, NEW offer \in BOOLEAN, NEW cond \in BOOLEAN,
         DiamondClock(FALSE, ready, offer, cond), NEW e \in Edges
  PROVE  /\ Got(e)' = Got(e) \cup (IF Take(e, ready) THEN {Current} ELSE {})
         /\ Take(e, ready) => LastTaken(IF e \in Arms THEN "branch" ELSE e) = Current - 1
<1>1. CASE e \in Arms
  <2>1. Take(e, ready) <=> Took("branch", ready) /\ Arm(Current) = e
    BY <1>1 DEF Take, Took, SourceValid, ForkReady
  <2>a. /\ LastTaken("branch") \in Nat
        /\ LastTaken("branch")' = LastTaken("branch") + (IF Took("branch", ready) THEN 1 ELSE 0)
    BY ForkStep DEF Outputs
  <2>b. PICK l \in Nat, c \in Nat : l = LastTaken("branch") /\ c = Current
    BY <2>a DEF Current, DiamondTypes
  <2>2. PICK k \in Nat : l = LastTaken("branch") /\ k = LastTaken("branch")' /\ c = Current
    BY <2>a, <2>b
  <2>3. /\ k = l + (IF Took("branch", ready) THEN 1 ELSE 0)
        /\ Took("branch", ready) => c = l + 1
    BY <2>2, ForkStep DEF Outputs
  <2>4. l \leq c
    BY <2>2 DEF LastTaken
  <2>5. \A n \in 1..c : Arm(n)' = Arm(n)
    BY <2>2, ForkStep
  <2>6. Got(e) = {n \in 1..l : Arm(n) = e} /\ Got(e)' = {n \in 1..k : Arm(n)' = e}
    BY <1>1, <2>2 DEF Got
  <2>7. CASE Took("branch", ready)
    <3>1. 1..k = (1..l) \cup {c} /\ l = c - 1 /\ c \in 1..c /\ \A n \in 1..l : n \in 1..c
      BY <2>2, <2>3, <2>4, <2>7
    <3>2. Got(e)' = {n \in (1..l) \cup {c} : Arm(n) = e}
      BY <2>5, <2>6, <3>1
    <3>3. Take(e, ready) <=> Arm(c) = e
      BY <2>1, <2>2, <2>7
    <3>4. Got(e)' = Got(e) \cup (IF Take(e, ready) THEN {c} ELSE {})
      BY <2>6, <3>2, <3>3
    <3> QED
      BY <1>1, <2>2, <3>1, <3>4
  <2>8. CASE ~Took("branch", ready)
    <3>1. k = l /\ \A n \in 1..l : n \in 1..c
      BY <2>2, <2>3, <2>4, <2>8
    <3>2. Got(e)' = Got(e)
      BY <2>5, <2>6, <3>1
    <3> QED
      BY <2>1, <2>8, <3>2
  <2> QED
    BY <2>7, <2>8
<1>2. CASE e \in Outputs /\ e \notin Arms /\ e # "branch"
  <2>1. Take(e, ready) <=> Took(e, ready)
    BY <1>2 DEF Take, Took, SourceValid, ForkReady
  <2>a. /\ LastTaken(e) \in Nat
        /\ LastTaken(e)' = LastTaken(e) + (IF Took(e, ready) THEN 1 ELSE 0)
    BY <1>2, ForkStep
  <2>b. PICK l \in Nat, c \in Nat : l = LastTaken(e) /\ c = Current
    BY <2>a DEF Current, DiamondTypes
  <2>2. PICK k \in Nat : l = LastTaken(e) /\ k = LastTaken(e)' /\ c = Current
    BY <2>a, <2>b
  <2>3. /\ k = l + (IF Took(e, ready) THEN 1 ELSE 0)
        /\ Took(e, ready) => c = l + 1
    BY <1>2, <2>2, ForkStep
  <2>4. Got(e) = 1..l /\ Got(e)' = 1..k
    BY <1>2, <2>2 DEF Got
  <2> QED
    BY <1>2, <2>1, <2>2, <2>3, <2>4
<1>3. e \in Arms \/ (e \in Outputs /\ e \notin Arms /\ e # "branch")
  BY DEF Edges, Arms, Outputs
<1> QED
  BY <1>1, <1>2, <1>3

\* What leaves in a cycle leaves by the chosen arm, and with it a copy by every other edge
\* of the join.
LEMMA FireStep ==
  ASSUME NEW ready \in BOOLEAN
  PROVE  /\ Chosen \in Arms
         /\ \A e \in Arms : Give(e, ready) <=> Fire(ready) /\ e = Chosen
         /\ Give("token", ready) <=> Fire(ready)
         /\ ~merges => (Give("cond", ready) <=> Fire(ready))
         /\ ~merges /\ crossed => Chosen = Arm(Data("cond"))
<1>0. {Operand(1), Operand(2)} = Arms
  BY DEF Operand, Arms
<1>1. Chosen \in Arms
  BY <1>0 DEF Chosen, Winner, Selected
<1>2. ArmsValid => Valid(Chosen) /\ (~merges => Valid("cond"))
  <2>1. CASE merges
    BY <1>0, <2>1 DEF ArmsValid, Chosen, Winner
  <2>2. CASE ~merges
    BY <2>2 DEF ArmsValid, Chosen, SelectValid
  <2> QED
    BY <2>1, <2>2
<1>3. Fire(ready) <=> ready /\ ArmsValid /\ Valid("token")
  BY DEF Fire, OutValid
<1>4. /\ ArmsReady(ready) <=> Fire(ready)
      /\ JoinReady(ready) <=> Fire(ready)
  BY <1>3 DEF ArmsReady, JoinReady, OutValid
<1>5. ASSUME NEW e \in Arms
      PROVE  Give(e, ready) <=> Fire(ready) /\ e = Chosen
  <2>1. SinkReady(e, ready) <=> ArmsReady(ready) /\ e = Chosen
    BY DEF SinkReady, Arms
  <2> QED
    BY <1>2, <1>3, <1>4, <2>1 DEF Give
<1>6. Give("token", ready) <=> Fire(ready)
  <2>1. SinkReady("token", ready) <=> JoinReady(ready)
    BY DEF SinkReady, Arms
  <2> QED
    BY <1>3, <1>4, <2>1 DEF Give
<1>7. ASSUME ~merges
      PROVE  Give("cond", ready) <=> Fire(ready)
  <2>1. SinkReady("cond", ready) <=> ArmsReady(ready)
    BY <1>7 DEF SinkReady, Arms
  <2> QED
    BY <1>2, <1>3, <1>4, <1>7, <2>1 DEF Give
<1>8. ASSUME ~merges, crossed
      PROVE  Chosen = Arm(Data("cond"))
  <2>1. Operand(1) = "false" /\ Operand(2) = "true"
    BY <1>8 DEF Operand
  <2> QED
    BY <1>8, <2>1 DEF Chosen, Selected, Arm
<1> QED
  BY <1>1, <1>5, <1>6, <1>7, <1>8

\* One clock edge at an edge whose tokens leave: it gives its oldest token, if any.
LEMMA HeldEdge ==
  ASSUME DiamondTypes, HeldInv, NEW ready \in BOOLEAN, NEW offer \in BOOLEAN,
         NEW cond \in BOOLEAN, DiamondClock(FALSE, ready, offer, cond), NEW e \in Edges
  PROVE  /\ StageOk(stages'[e]) /\ Held(e)' \subseteq Got(e)'
         /\ \A n \in Got(e)' : n \in Nat \ {0}
         /\ e \in Joined =>
               /\ Held(e)' = (Got(e)' \ Gone(e)) \ (IF Give(e, ready) THEN {Data(e)} ELSE {})
               /\ Give(e, ready) => /\ Data(e) \in Got(e)' \ Gone(e)
                                    /\ \A n \in Got(e)' \ Gone(e) : Data(e) \leq n
<1>1. PICK o : o = (IF e \in Arms THEN "branch" ELSE e)
  OBVIOUS
<1>2. o \in Outputs
  BY <1>1 DEF Edges, Arms, Outputs
<1>a. LastTaken(o) \in Nat
  BY <1>2, ForkStep
<1>b. PICK l \in Nat, c \in Nat : l = LastTaken(o) /\ c = Current
  BY <1>a DEF Current, DiamondTypes
<1>3. PICK k \in Nat : k = LastTaken(o)'
  <2>1. LastTaken(o)' = LastTaken(o) + (IF Took(o, ready) THEN 1 ELSE 0)
    BY <1>2, ForkStep
  <2> QED
    BY <1>a, <2>1
<1>4. PICK T, X, H, G, O : /\ T = (IF Take(e, ready) THEN {c} ELSE {})
                           /\ X = (IF Give(e, ready) THEN {Data(e)} ELSE {})
                           /\ H = Held(e) /\ G = Got(e) /\ O = Gone(e)
  OBVIOUS
<1>5. PICK H2, G2 : H2 = Held(e)' /\ G2 = Got(e)'
  OBVIOUS
<1>6. /\ G2 = G \cup T
      /\ Take(e, ready) => l = c - 1
  <2>1. /\ Got(e)' = Got(e) \cup (IF Take(e, ready) THEN {Current} ELSE {})
        /\ Take(e, ready) => LastTaken(IF e \in Arms THEN "branch" ELSE e) = Current - 1
    BY GotStep
  <2> QED
    BY <2>1, <1>1, <1>b, <1>4, <1>5
<1>7. G \subseteq 1..l /\ G2 \subseteq 1..k
  BY <1>1, <1>b, <1>3, <1>4, <1>5 DEF Got
<1>8. H \subseteq G
  BY <1>4 DEF HeldInv
<1>9. Newer(Held(e), Current, Take(e, ready))
  <2>1. \A n \in H : n \in Nat /\ n \leq l
    BY <1>7, <1>8
  <2> QED
    BY <1>b, <1>4, <1>6, <2>1 DEF Newer
<1>10. /\ StageOk(stages'[e])
       /\ H2 = (H \cup T) \ X
       /\ Give(e, ready) => Data(e) \in H \cup T /\ \A n \in H \cup T : Data(e) \leq n
  <2>1. StageOk(stages[e]) /\ Current \in Nat
    BY <1>b DEF DiamondTypes
  <2>2. /\ StageOk(stages'[e])
        /\ Held(e)' = (Held(e) \cup (IF Take(e, ready) THEN {Current} ELSE {}))
                          \ (IF Give(e, ready) THEN {Data(e)} ELSE {})
        /\ Give(e, ready) =>
               /\ Data(e) \in Held(e) \cup (IF Take(e, ready) THEN {Current} ELSE {})
               /\ \A n \in Held(e) \cup (IF Take(e, ready) THEN {Current} ELSE {}) : Data(e) \leq n
    BY <1>9, <2>1, HeldStep
  <2> QED
    BY <1>b, <1>4, <1>5, <2>2
<1>11. H2 \subseteq G2 /\ \A n \in G2 : n \in Nat \ {0}
  <2>1. H2 \subseteq G2
    BY <1>6, <1>8, <1>10
  <2>2. \A n \in 1..k : n \in Nat \ {0}
    OBVIOUS
  <2> QED
    BY <1>7, <2>1, <2>2
<1>12. ASSUME e \in Joined
       PROVE  H \cup T = G2 \ O
  <2>1. H = G \ O
    BY <1>4, <1>12 DEF HeldInv
  <2>2. \A n \in O : n \leq l
    <3>1. CASE e \in Arms
      BY <1>1, <1>b, <1>4, <3>1 DEF HeldInv, Gone
    <3>2. CASE e \notin Arms
      <4>1. PICK m \in Nat : m = Len(out)
        BY DEF DiamondTypes
      <4>2. m \leq l
        BY <1>1, <1>b, <1>12, <3>2, <4>1 DEF HeldInv
      <4>3. O = 1..m
        BY <1>4, <3>2, <4>1 DEF Gone
      <4> QED
        BY <4>2, <4>3
    <3> QED
      BY <3>1, <3>2
  <2>3. T \cap O = {}
    BY <1>4, <1>6, <2>2
  <2> QED
    BY <1>6, <2>1, <2>3
<1>13. ASSUME e \in Joined
       PROVE  /\ H2 = (G2 \ O) \ X
              /\ Give(e, ready) => /\ Data(e) \in G2 \ O
                                   /\ \A n \in G2 \ O : Data(e) \leq n
  BY <1>10, <1>12, <1>13
<1> QED
  BY <1>4, <1>5, <1>10, <1>11, <1>13

\* The tokens of an arm are out in order, each once; the arms are in f.
Ordered(o, f) ==
    \A i \in 1..Len(o) :
        {n \in {o[k] : k \in 1..(i - 1)} : f[n] = f[o[i]]} = {n \in 1..(o[i] - 1) : f[n] = f[o[i]]}

\* The order of the tokens depends on the arms of those that have left only.
LEMMA OrderKept ==
  ASSUME NEW f, NEW g, NEW c \in Nat, NEW o \in Seq(Nat), Ordered(o, f),
         \A i \in 1..Len(o) : o[i] \in 1..c, \A n \in 1..c : g[n] = f[n]
  PROVE  Ordered(o, g)
<1>1. PICK m \in Nat : m = Len(o)
  OBVIOUS
<1>2. ASSUME NEW i \in 1..m
      PROVE  {n \in {o[k] : k \in 1..(i - 1)} : g[n] = g[o[i]]}
                = {n \in 1..(o[i] - 1) : g[n] = g[o[i]]}
  <2>1. PICK d \in 1..c : d = o[i]
    BY <1>1
  <2>2. PICK S : S = {o[k] : k \in 1..(i - 1)}
    OBVIOUS
  <2>3. S \subseteq 1..c
    BY <1>1, <2>2
  <2>4. {n \in S : f[n] = f[d]} = {n \in 1..(d - 1) : f[n] = f[d]}
    BY <1>1, <2>1, <2>2 DEF Ordered
  <2>5. {n \in S : g[n] = g[d]} = {n \in S : f[n] = f[d]}
    BY <2>1, <2>3
  <2>6. {n \in 1..(d - 1) : g[n] = g[d]} = {n \in 1..(d - 1) : f[n] = f[d]}
    BY <2>1
  <2> QED
    BY <2>1, <2>2, <2>4, <2>5, <2>6
<1> QED
  BY <1>1, <1>2 DEF Ordered

\* The order is kept by the first token of an arm that has not left.
LEMMA OrderAppend ==
  ASSUME NEW g, NEW o \in Seq(Nat), NEW d \in Nat \ {0}, Ordered(o, g),
         \A i \in 1..Len(o) : o[i] \in Nat \ {0} /\ o[i] # d,
         \A n \in 1..(d - 1) : g[n] = g[d] => \E i \in 1..Len(o) : o[i] = n
  PROVE  Ordered(Append(o, d), g)
<1>1. PICK m \in Nat : m = Len(o)
  OBVIOUS
<1>2. PICK p : p = Append(o, d)
  OBVIOUS
<1>3. Len(p) = m + 1 /\ p[m + 1] = d /\ \A i \in 1..m : p[i] = o[i]
  BY <1>1, <1>2, AppendIsLonger
<1>4. ASSUME NEW i \in 1..(m + 1)
      PROVE  {n \in {p[k] : k \in 1..(i - 1)} : g[n] = g[p[i]]}
                = {n \in 1..(p[i] - 1) : g[n] = g[p[i]]}
  <2>1. {p[k] : k \in 1..(i - 1)} = {o[k] : k \in 1..(i - 1)}
    BY <1>3
  <2>2. CASE i \in 1..m
    <3>1. p[i] = o[i]
      BY <1>3, <2>2
    <3>2. {n \in {o[k] : k \in 1..(i - 1)} : g[n] = g[o[i]]}
            = {n \in 1..(o[i] - 1) : g[n] = g[o[i]]}
      BY <1>1, <2>2 DEF Ordered
    <3> QED
      BY <2>1, <3>1, <3>2
  <2>3. CASE i = m + 1
    <3>1. p[i] = d /\ i - 1 = m
      BY <1>3, <2>3
    <3>2. PICK S : S = {o[k] : k \in 1..m}
      OBVIOUS
    <3>3. \A n \in S : n \in Nat \ {0} /\ n # d
      BY <1>1, <3>2
    <3>4. ASSUME NEW n \in S, g[n] = g[d]
          PROVE  n \in 1..(d - 1)
      <4>1. PICK j \in 1..m : o[j] = n
        BY <3>2
      <4>2. CASE n < d
        BY <3>3, <4>2
      <4>3. CASE ~(n < d)
        <5>1. d \in 1..(n - 1)
          BY <3>3, <4>3
        <5>2. {k \in {o[h] : h \in 1..(j - 1)} : g[k] = g[o[j]]}
                = {k \in 1..(o[j] - 1) : g[k] = g[o[j]]}
          BY <1>1, <4>1 DEF Ordered
        <5>3. {k \in {o[h] : h \in 1..(j - 1)} : g[k] = g[n]} = {k \in 1..(n - 1) : g[k] = g[n]}
          BY <4>1, <5>2
        <5>4. d \in {o[h] : h \in 1..(j - 1)}
          BY <3>4, <5>1, <5>3
        <5>5. d \in S
          BY <3>2, <4>1, <5>4
        <5> QED
          BY <3>3, <5>5
      <4> QED
        BY <4>2, <4>3
    <3>5. \A n \in 1..(d - 1) : g[n] = g[d] => n \in S
      BY <1>1, <3>2
    <3>6. {n \in S : g[n] = g[d]} = {n \in 1..(d - 1) : g[n] = g[d]}
      BY <3>4, <3>5
    <3> QED
      BY <2>1, <3>1, <3>2, <3>6
  <2> QED
    BY <2>2, <2>3
<1>5. Ordered(p, g)
  BY <1>3, <1>4 DEF Ordered
<1> QED
  BY <1>2, <1>5

\* What leaves the circuit in a cycle without reset.
LEMMA OutStep ==
  ASSUME DiamondInv, NEW ready \in BOOLEAN, NEW offer \in BOOLEAN,
         NEW cond \in BOOLEAN, DiamondClock(FALSE, ready, offer, cond)
  PROVE  /\ ~Fire(ready) => out' = out
         /\ Fire(ready) => out' = Append(out, Data(Chosen))
         /\ \A a \in Arms : Fire(ready) /\ a = Chosen =>
               Data(a) \in Got(a)' \ Left /\ \A n \in Got(a)' \ Left : Data(a) \leq n
         /\ \A e \in Joined \ Arms :
               Fire(ready) => Data(e) = Len(out) + 1 /\ Len(out) + 1 \in Got(e)'
<1>1. \A e \in Joined : Give(e, ready) =>
         Data(e) \in Got(e)' \ Gone(e) /\ \A n \in Got(e)' \ Gone(e) : Data(e) \leq n
  BY HeldEdge DEF DiamondInv, Joined
<1>2. /\ Chosen \in Arms /\ Arms \subseteq Joined
      /\ \A e \in Arms : Give(e, ready) <=> Fire(ready) /\ e = Chosen
      /\ \A e \in Joined \ Arms : Give(e, ready) <=> Fire(ready)
  BY FireStep DEF Joined, Edges, Arms
<1>3. out' = IF ready /\ OutValid THEN Append(out, Data(Chosen)) ELSE out
  BY DEF DiamondClock
<1>4. ASSUME NEW a \in Arms, Fire(ready), a = Chosen
      PROVE  Data(a) \in Got(a)' \ Left /\ \A n \in Got(a)' \ Left : Data(a) \leq n
  <2>1. Gone(a) = Left
    BY DEF Gone
  <2>2. Give(a, ready) /\ a \in Joined
    BY <1>2, <1>4
  <2>3. Data(a) \in Got(a)' \ Gone(a) /\ \A n \in Got(a)' \ Gone(a) : Data(a) \leq n
    BY <1>1, <2>2
  <2> QED
    BY <2>1, <2>3
<1>5. ASSUME NEW e \in Joined \ Arms, Fire(ready)
      PROVE  Data(e) = Len(out) + 1 /\ Len(out) + 1 \in Got(e)'
  <2>0. PICK l \in Nat : l = LastTaken(e)'
    <3>1. e \in Outputs
      BY DEF Joined, Edges, Outputs
    <3>2. LastTaken(e) \in Nat /\ LastTaken(e)' = LastTaken(e) + (IF Took(e, ready) THEN 1 ELSE 0)
      BY <3>1, ForkStep DEF DiamondInv
    <3> QED
      BY <3>2
  <2>1. PICK m \in Nat, d \in Nat : m = Len(out) /\ d = Data(e)
    <3>1. Data(e) \in Got(e)'
      BY <1>1, <1>2, <1>5
    <3>2. Got(e)' = 1..l
      BY <2>0 DEF Got
    <3> QED
      BY <3>1, <3>2 DEF DiamondInv, DiamondTypes
  <2>2. Got(e)' = 1..l /\ Gone(e) = 1..m
    BY <2>0, <2>1 DEF Got, Gone
  <2>3. d \in (1..l) \ (1..m) /\ \A n \in (1..l) \ (1..m) : d \leq n
    BY <1>1, <1>2, <1>5, <2>1, <2>2
  <2>4. d > m /\ d \leq l /\ m + 1 \in (1..l) \ (1..m)
    BY <2>3
  <2>5. d = m + 1
    BY <2>3, <2>4
  <2> QED
    BY <2>1, <2>2, <2>4, <2>5
<1> QED
  BY <1>3, <1>4, <1>5 DEF Fire

\* The tokens that have left after a token has.
LEMMA LeftGrows ==
  ASSUME NEW o \in Seq(Nat), NEW d \in Nat, NEW p, p = Append(o, d)
  PROVE  {p[i] : i \in 1..Len(p)} = {o[i] : i \in 1..Len(o)} \cup {d}
<1>1. PICK m \in Nat : m = Len(o)
  OBVIOUS
<1>2. Len(p) = m + 1 /\ p[m + 1] = d /\ \A i \in 1..m : p[i] = o[i]
  BY <1>1, AppendIsLonger
<1>3. 1..(m + 1) = (1..m) \cup {m + 1}
  OBVIOUS
<1>4. {p[i] : i \in 1..(m + 1)} = {p[i] : i \in 1..m} \cup {p[m + 1]}
  BY <1>3
<1>5. {p[i] : i \in 1..m} = {o[i] : i \in 1..m}
  BY <1>2
<1> QED
  BY <1>1, <1>2, <1>4, <1>5

\* No edge, condition or token is lost in a cycle without reset, and the order is kept.
LEMMA HeldClock ==
  ASSUME DiamondInv, NEW ready \in BOOLEAN, NEW offer \in BOOLEAN,
         NEW cond \in BOOLEAN, DiamondClock(FALSE, ready, offer, cond)
  PROVE  DiamondInv'
<1>1. PICK k \in Nat, b \in Nat : k = Len(out) /\ b = LastTaken("branch")
  <2>1. LastTaken("branch") \in Nat
    BY ForkStep DEF DiamondInv, Outputs
  <2> QED
    BY <2>1 DEF DiamondInv, DiamondTypes
<1>2. PICK c \in Nat : c = Current /\ b \leq c
  BY <1>1 DEF LastTaken, Current, DiamondInv, DiamondTypes
<1>3. PICK a : a = Chosen /\ a \in Arms
  BY FireStep
<1>4. PICK d, L : d = Data(a) /\ L = Left
  OBVIOUS
<1>5. PICK f, g : f = [n \in Nat |-> Arm(n)] /\ g = [n \in Nat |-> Arm(n)']
  OBVIOUS
<1>6. PICK h \in Nat : h = LastTaken("branch")' /\ b \leq h
  <2>1. /\ LastTaken("branch")' = LastTaken("branch") + (IF Took("branch", ready) THEN 1 ELSE 0)
    BY ForkStep DEF DiamondInv, Outputs
  <2> QED
    BY <1>1, <2>1
<1>7. PICK o, p : o = out /\ p = out'
  OBVIOUS
<1>8. /\ o \in Seq(Nat) /\ k = Len(o) /\ L = {o[i] : i \in 1..k} /\ L \subseteq 1..b
  BY <1>1, <1>4, <1>7 DEF DiamondInv, DiamondTypes, HeldInv, Left
<1>9. /\ merges' = merges /\ crossed' = crossed /\ buffered' = buffered
      /\ merges \in BOOLEAN /\ crossed \in BOOLEAN
  BY DEF DiamondClock, DiamondInv, DiamondTypes
<1>10. PICK G : G = Got(a)' /\ G = {n \in 1..h : g[n] = a}
  <2>1. Got(a)' = {n \in 1..h : Arm(n)' = a}
    BY <1>3, <1>6 DEF Got
  <2> QED
    BY <1>5, <2>1
<1>11. /\ ~Fire(ready) => p = o
       /\ Fire(ready) => p = Append(o, d) /\ d \in G \ L /\ \A n \in G \ L : d \leq n
  BY <1>3, <1>4, <1>7, <1>10, OutStep
<1>12. \A n \in 1..c : g[n] = f[n]
  <2>1. \A n \in 1..Current : Arm(n)' = Arm(n)
    BY ForkStep DEF DiamondInv
  <2>2. \A n \in 1..c : n \in Nat /\ Arm(n)' = Arm(n)
    BY <1>2, <2>1
  <2> QED
    BY <1>5, <2>2
<1>13. Ordered(o, f)
  <2>1. ASSUME NEW i \in 1..k
        PROVE  {n \in {o[j] : j \in 1..(i - 1)} : f[n] = f[o[i]]}
                  = {n \in 1..(o[i] - 1) : f[n] = f[o[i]]}
    <3>1. PICK S, D : S = {o[j] : j \in 1..(i - 1)} /\ D = 1..(o[i] - 1)
      OBVIOUS
    <3>2. {n \in S : Arm(n) = Arm(o[i])} = {n \in D : Arm(n) = Arm(o[i])}
      BY <1>1, <1>7, <3>1 DEF DiamondInv, LatencyInsensitive
    <3>3. o[i] \in Nat /\ S \subseteq Nat /\ D \subseteq Nat
      BY <1>8, <3>1
    <3>4. /\ {n \in S : Arm(n) = Arm(o[i])} = {n \in S : f[n] = f[o[i]]}
          /\ {n \in D : Arm(n) = Arm(o[i])} = {n \in D : f[n] = f[o[i]]}
      BY <1>5, <3>3
    <3> QED
      BY <3>1, <3>2, <3>4
  <2> QED
    BY <1>8, <2>1 DEF Ordered
<1>14. Ordered(o, g)
  <2>1. \A i \in 1..Len(o) : o[i] \in 1..c
    <3>1. 1..b \subseteq 1..c
      BY <1>2
    <3> QED
      BY <1>8, <3>1
  <2>2. o \in Seq(Nat)
    BY <1>8
  <2> QED
    BY <1>12, <1>13, <2>1, <2>2, OrderKept
<1>15. Fire(ready) => d \in Nat \ {0} /\ d \in 1..h /\ d \notin L /\ g[d] = a
  BY <1>10, <1>11
<1>16. p \in Seq(Nat) /\ Ordered(p, g)
  <2>1. CASE Fire(ready)
    <3>1. \A n \in 1..(d - 1) : g[n] = g[d] => n \in L
      BY <1>10, <1>11, <1>15, <2>1
    <3>2. \A i \in 1..Len(o) : o[i] \in Nat \ {0} /\ o[i] # d
      BY <1>8, <1>15, <2>1
    <3>3. \A n \in 1..(d - 1) : g[n] = g[d] => \E i \in 1..Len(o) : o[i] = n
      BY <1>8, <3>1
    <3>4. o \in Seq(Nat) /\ d \in Nat \ {0} /\ p = Append(o, d)
      BY <1>8, <1>11, <1>15, <2>1
    <3>5. Ordered(Append(o, d), g)
      BY <1>14, <3>2, <3>3, <3>4, OrderAppend
    <3>6. Append(o, d) \in Seq(Nat)
      BY <3>4, AppendIsLonger
    <3> QED
      BY <3>4, <3>5, <3>6
  <2>2. CASE ~Fire(ready)
    BY <1>8, <1>11, <1>14, <2>2
  <2> QED
    BY <2>1, <2>2
<1>17. PICK M : M = Left' /\ M = {p[i] : i \in 1..Len(p)}
  BY <1>7 DEF Left
<1>18. M = L \cup (IF Fire(ready) THEN {d} ELSE {}) /\ M \subseteq 1..h
  <2>1. CASE Fire(ready)
    <3>1. M = L \cup {d}
      <4>1. o \in Seq(Nat) /\ d \in Nat /\ p = Append(o, d)
        BY <1>8, <1>11, <1>15, <2>1
      <4>2. {p[i] : i \in 1..Len(p)} = {o[i] : i \in 1..Len(o)} \cup {d}
        BY <4>1, LeftGrows
      <4> QED
        BY <1>8, <1>17, <4>2
    <3> QED
      BY <1>6, <1>8, <1>15, <2>1, <3>1
  <2>2. CASE ~Fire(ready)
    BY <1>6, <1>8, <1>11, <1>17, <2>2
  <2> QED
    BY <2>1, <2>2
<1>19. Len(p) = k + (IF Fire(ready) THEN 1 ELSE 0)
  BY <1>8, <1>11, <1>15, AppendIsLonger
<1>20. DiamondTypes'
  <2>1. /\ offered' \in BOOLEAN /\ emitted' \in [Outputs -> BOOLEAN] /\ conds' \in Seq(BOOLEAN)
        /\ IF offered' THEN Len(conds') > 0 ELSE \A x \in Outputs : ~emitted'[x]
    BY ForkStep DEF DiamondInv
  <2>2. \A e \in Edges : StageOk(stages'[e])
    BY HeldEdge DEF DiamondInv
  <2> QED
    BY <1>7, <1>9, <1>16, <2>1, <2>2 DEF DiamondTypes
<1>21. ASSUME NEW e \in Joined \ Arms
       PROVE  Held(e)' = Got(e)' \ Gone(e)' /\ Len(out)' \leq LastTaken(e)'
  <2>1. PICK l \in Nat : l = LastTaken(e)' /\ LastTaken(e) \in Nat /\ LastTaken(e) \leq l
    <3>1. e \in Outputs
      BY DEF Joined, Edges, Outputs
    <3>2. LastTaken(e) \in Nat /\ LastTaken(e)' = LastTaken(e) + (IF Took(e, ready) THEN 1 ELSE 0)
      BY <3>1, ForkStep DEF DiamondInv
    <3> QED
      BY <3>2
  <2>2. Got(e)' = 1..l /\ Gone(e) = 1..k /\ Gone(e)' = 1..Len(p)
    BY <1>1, <1>7, <2>1 DEF Got, Gone
  <2>3. k \leq LastTaken(e)
    BY <1>1 DEF DiamondInv, HeldInv
  <2>4. Held(e)' = (Got(e)' \ Gone(e)) \ (IF Give(e, ready) THEN {Data(e)} ELSE {})
    BY HeldEdge DEF DiamondInv, Joined
  <2>5. Give(e, ready) <=> Fire(ready)
    BY FireStep DEF Joined, Edges
  <2>6. Fire(ready) => Data(e) = k + 1 /\ k + 1 \in 1..l
    BY <1>1, <2>2, OutStep
  <2>7. PICK H : H = Held(e)'
    OBVIOUS
  <2>8. H = 1..l \ 1..Len(p) /\ Len(p) \leq l
    <3>1. CASE Fire(ready)
      <4>1. H = ((1..l) \ (1..k)) \ {k + 1} /\ k + 1 \leq l /\ Len(p) = k + 1
        BY <1>19, <2>2, <2>4, <2>5, <2>6, <2>7, <3>1
      <4>2. ((1..l) \ (1..k)) \ {k + 1} = (1..l) \ (1..(k + 1))
        OBVIOUS
      <4> QED
        BY <4>1, <4>2
    <3>2. CASE ~Fire(ready)
      <4>1. H = (1..l) \ (1..k) /\ Len(p) = k
        BY <1>19, <2>2, <2>4, <2>5, <2>7, <3>2
      <4> QED
        BY <2>1, <2>3, <4>1
    <3> QED
      BY <3>1, <3>2
  <2> QED
    BY <1>7, <2>1, <2>2, <2>7, <2>8
<1>22. ASSUME NEW e \in Arms
       PROVE  Held(e)' = Got(e)' \ Gone(e)'
  <2>1. PICK H, E : H = Held(e)' /\ E = Got(e)'
    OBVIOUS
  <2>2. E = {n \in 1..h : g[n] = e}
    <3>1. Got(e)' = {n \in 1..h : Arm(n)' = e}
      BY <1>6 DEF Got
    <3> QED
      BY <1>5, <2>1, <3>1
  <2>3. Gone(e) = L /\ Gone(e)' = M
    BY <1>4, <1>17 DEF Gone
  <2>4. H = (E \ L) \ (IF Give(e, ready) THEN {Data(e)} ELSE {})
    BY <2>1, <2>3, HeldEdge DEF DiamondInv, Joined, Edges, Arms
  <2>5. Give(e, ready) <=> Fire(ready) /\ e = a
    BY <1>3, FireStep
  <2>6. H = E \ M
    <3>1. CASE Fire(ready) /\ e = a
      BY <1>4, <1>18, <2>4, <2>5, <3>1
    <3>2. CASE Fire(ready) /\ e # a
      <4>1. d \notin E
        BY <1>15, <2>2, <3>2
      <4> QED
        BY <1>18, <2>4, <2>5, <3>2, <4>1
    <3>3. CASE ~Fire(ready)
      BY <1>18, <2>4, <2>5, <3>3
    <3> QED
      BY <3>1, <3>2, <3>3
  <2> QED
    BY <2>1, <2>3, <2>6
<1>23. HeldInv'
  <2>1. \A e \in Edges : Held(e)' \subseteq Got(e)'
    BY HeldEdge DEF DiamondInv
  <2>2. \A e \in Joined : Held(e)' = Got(e)' \ Gone(e)'
    BY <1>21, <1>22
  <2>3. Joined' = Joined
    BY <1>9 DEF Joined
  <2>4. Left' \subseteq 1..LastTaken("branch")'
    BY <1>6, <1>17, <1>18
  <2> QED
    BY <1>21, <2>1, <2>2, <2>3, <2>4 DEF HeldInv
<1>24. LatencyInsensitive'
  <2>1. ASSUME NEW i \in 1..Len(p)
        PROVE  {n \in {p[j] : j \in 1..(i - 1)} : Arm(n)' = Arm(p[i])'}
                  = {n \in 1..(p[i] - 1) : Arm(n)' = Arm(p[i])'}
    <3>1. PICK S, D : S = {p[j] : j \in 1..(i - 1)} /\ D = 1..(p[i] - 1)
      OBVIOUS
    <3>2. {n \in S : g[n] = g[p[i]]} = {n \in D : g[n] = g[p[i]]}
      BY <1>16, <3>1 DEF Ordered
    <3>3. p[i] \in Nat /\ S \subseteq Nat /\ D \subseteq Nat
      BY <1>16, <3>1
    <3>4. g[p[i]] = Arm(p[i])' /\ \A n \in Nat : g[n] = Arm(n)'
      BY <1>5, <3>3
    <3>5. /\ {n \in S : Arm(n)' = Arm(p[i])'} = {n \in S : g[n] = g[p[i]]}
          /\ {n \in D : Arm(n)' = Arm(p[i])'} = {n \in D : g[n] = g[p[i]]}
      BY <3>3, <3>4
    <3> QED
      BY <3>1, <3>2, <3>5
  <2>2. ASSUME ~merges, crossed
        PROVE  p = [n \in 1..Len(p) |-> n]
    <3>1. o = [n \in 1..k |-> n] /\ L = 1..k
      <4>1. o = [n \in 1..k |-> n]
        BY <1>1, <1>7, <2>2 DEF DiamondInv, LatencyInsensitive
      <4> QED
        BY <1>8, <4>1
    <3>2. CASE Fire(ready)
      <4>1. "cond" \in Joined \ Arms
        BY <2>2 DEF Joined, Edges, Arms
      <4>2. Data("cond") = k + 1
        BY <1>1, <3>2, <4>1, OutStep
      <4>3. k + 1 \in 1..c
        <5>1. PICK m \in Nat : m = LastTaken("cond")'
          <6>1. /\ LastTaken("cond") \in Nat
                /\ LastTaken("cond")' = LastTaken("cond") + (IF Took("cond", ready) THEN 1 ELSE 0)
            BY ForkStep DEF DiamondInv, Outputs
          <6> QED
            BY <6>1
        <5>2. Got("cond")' = 1..m
          BY <4>1, <5>1 DEF Got
        <5>3. k + 1 \in 1..m
          BY <1>1, <3>2, <4>1, <5>2, OutStep
        <5>4. m \leq c
          <6>1. /\ LastTaken("cond") \in Nat
                /\ LastTaken("cond")' = LastTaken("cond") + (IF Took("cond", ready) THEN 1 ELSE 0)
                /\ Took("cond", ready) => Current = LastTaken("cond") + 1
            BY ForkStep DEF DiamondInv, Outputs
          <6>2. LastTaken("cond") \leq Current
            BY <1>2 DEF LastTaken
          <6> QED
            BY <1>2, <5>1, <6>1, <6>2
        <5> QED
          BY <5>1, <5>3, <5>4
      <4>4. Arm(k + 1) = a
        BY <1>3, <2>2, <4>2, FireStep
      <4>5. g[k + 1] = a
        <5>1. f[k + 1] = Arm(k + 1)
          BY <1>5
        <5> QED
          BY <1>12, <4>3, <4>4, <5>1
      <4>6. d > k
        BY <1>15, <3>1, <3>2
      <4>7. k + 1 \in G \ L
        BY <1>10, <1>15, <3>1, <3>2, <4>5, <4>6
      <4>8. d = k + 1
        BY <1>11, <1>15, <3>2, <4>6, <4>7
      <4>9. Append([n \in 1..k |-> n], k + 1) = [n \in 1..(k + 1) |-> n]
        OBVIOUS
      <4> QED
        BY <1>11, <1>19, <3>1, <3>2, <4>8, <4>9
    <3>3. CASE ~Fire(ready)
      BY <1>11, <1>19, <3>1, <3>3
    <3> QED
      BY <3>2, <3>3
  <2> QED
    BY <1>7, <1>9, <2>1, <2>2 DEF LatencyInsensitive
<1> QED
  BY <1>20, <1>23, <1>24 DEF DiamondInv

\* A reset empties every buffer, and what it destroys counts as out.
LEMMA HeldReset ==
  ASSUME DiamondInv, NEW ready \in BOOLEAN, NEW offer \in BOOLEAN,
         NEW cond \in BOOLEAN, DiamondClock(TRUE, ready, offer, cond)
  PROVE  DiamondInv'
<1>1. PICK c \in Nat : c = Len(conds) /\ (offered => c > 0) /\ offered \in BOOLEAN
  BY DEF DiamondInv, DiamondTypes
<1>2. PICK k \in Nat : k = c - IF offered THEN 1 ELSE 0
  BY <1>1
<1>3. PICK p : p = out' /\ p = [n \in 1..k |-> n]
  BY <1>1, <1>2 DEF DiamondClock, Current
<1>4. p \in Seq(Nat) /\ Len(p) = k /\ {p[i] : i \in 1..Len(p)} = 1..k
  BY <1>3
<1>5. emitted' = [o \in Outputs |-> FALSE]
  BY DEF DiamondClock, EmittedNext
<1>6. /\ offered' \in BOOLEAN /\ (offered' <=> offer \/ offered)
      /\ offer => ~offered
      /\ conds' = IF offer THEN Append(conds, cond) ELSE conds
  BY <1>1 DEF DiamondClock
<1>7. conds' \in Seq(BOOLEAN) /\ Len(conds') = c + (IF offer THEN 1 ELSE 0)
  <2>1. conds \in Seq(BOOLEAN)
    BY DEF DiamondInv, DiamondTypes
  <2>2. Append(conds, cond) \in Seq(BOOLEAN) /\ Len(Append(conds, cond)) = Len(conds) + 1
    BY <2>1, AppendIsLonger
  <2>3. CASE offer
    BY <1>1, <1>6, <2>2, <2>3
  <2>4. CASE ~offer
    BY <1>1, <1>6, <2>1, <2>4
  <2> QED
    BY <2>3, <2>4
<1>8. k = Len(conds') - IF offered' THEN 1 ELSE 0
  <2>1. PICK d \in Nat : d = Len(conds')
    BY <1>7
  <2>2. CASE offer
    BY <1>2, <1>6, <1>7, <2>1, <2>2
  <2>3. CASE ~offer
    BY <1>2, <1>6, <1>7, <2>1, <2>3
  <2> QED
    BY <2>2, <2>3
<1>9. \A o \in Outputs : LastTaken(o)' = k
  BY <1>1, <1>5, <1>7, <1>8 DEF LastTaken, Current
<1>10. /\ merges' = merges /\ crossed' = crossed /\ buffered' = buffered
       /\ merges \in BOOLEAN /\ crossed \in BOOLEAN
  BY DEF DiamondClock, DiamondInv, DiamondTypes
<1>11. ASSUME NEW e \in Edges
       PROVE  StageOk(stages'[e]) /\ Held(e)' = {}
  <2>1. CASE e \in buffered
    <3>1. PICK t, x, l, m : t = stages'[e]
                            /\ t = [xValid |-> FALSE, x |-> x, lValid |-> FALSE, l |-> l,
                                    xReadyReg |-> FALSE, movesDly |-> m]
      <4>1. stages'[e] = Stage(e)!Clocked(TRUE, SourceValid(e), Current, SinkReady(e, ready))
        BY <2>1 DEF DiamondClock
      <4> QED
        BY <4>1 DEF Stage!Clocked
    <3>2. t.xValid = FALSE /\ t.lValid = FALSE /\ t.xReadyReg = FALSE
      BY <3>1
    <3>3. StageOk(t) /\ InStage(t) = {}
      BY <3>2 DEF StageOk, InStage
    <3> QED
      BY <1>10, <2>1, <3>1, <3>3 DEF Held
  <2>2. CASE e \notin buffered
    <3>1. stages'[e] = stages[e]
      BY <2>2 DEF DiamondClock
    <3> QED
      BY <1>10, <2>2, <3>1 DEF Held, DiamondInv, DiamondTypes
  <2> QED
    BY <2>1, <2>2
<1>12. DiamondTypes'
  <2>1. emitted' \in [Outputs -> BOOLEAN] /\ \A o \in Outputs : ~emitted'[o]
    BY <1>5
  <2>2. offered' => Len(conds') > 0
    BY <1>1, <1>6, <1>7
  <2> QED
    BY <1>3, <1>4, <1>6, <1>7, <1>10, <1>11, <2>1, <2>2 DEF DiamondTypes
<1>13. HeldInv'
  <2>1. LastTaken("branch")' = k /\ \A e \in Edges \ Arms : LastTaken(e)' = k
    BY <1>9 DEF Outputs, Edges
  <2>2. Left' = 1..k /\ Len(out') = k
    BY <1>3, <1>4 DEF Left
  <2>3. \A e \in Edges : Got(e)' \subseteq 1..k
    BY <2>1 DEF Got
  <2>4. \A e \in Edges : Gone(e)' = 1..k
    BY <2>2 DEF Gone
  <2>5. \A e \in Edges : Held(e)' = {} /\ Got(e)' \ Gone(e)' = {}
    BY <1>11, <2>3, <2>4
  <2>6. Joined' = Joined /\ Joined \subseteq Edges
    BY <1>10 DEF Joined
  <2>7. k \leq k
    OBVIOUS
  <2> QED
    BY <2>1, <2>2, <2>5, <2>6, <2>7 DEF HeldInv
<1>14. LatencyInsensitive'
  <2>1. \A i \in 1..k : {p[j] : j \in 1..(i - 1)} = 1..(i - 1) /\ p[i] = i
    BY <1>3
  <2> QED
    BY <1>3, <1>4, <2>1 DEF LatencyInsensitive
<1> QED
  BY <1>12, <1>13, <1>14 DEF DiamondInv

\* Empty buffers hold what empty edges have got.
LEMMA HeldInit == DiamondInit => DiamondInv
<1> SUFFICES ASSUME DiamondInit PROVE DiamondInv
  OBVIOUS
<1>1. /\ conds = <<>> /\ out = <<>> /\ offered = FALSE /\ merges \in BOOLEAN /\ crossed \in BOOLEAN
      /\ emitted = [o \in Outputs |-> FALSE]
  BY DEF DiamondInit
<1>2. ASSUME NEW e \in Edges
      PROVE  StageOk(stages[e]) /\ Held(e) = {}
  <2>1. PICK t, m : t = stages[e] /\ t = [xValid |-> FALSE, x |-> 0, lValid |-> FALSE, l |-> 0,
                                          xReadyReg |-> FALSE, movesDly |-> m]
    BY DEF DiamondInit, Empty, Stage!AfterReset
  <2>2. t.xValid = FALSE /\ t.lValid = FALSE /\ t.xReadyReg = FALSE
    BY <2>1
  <2>3. StageOk(t) /\ InStage(t) = {}
    BY <2>2 DEF StageOk, InStage
  <2> QED
    BY <2>1, <2>3 DEF Held
<1>3. \A o \in Outputs : LastTaken(o) = 0
  BY <1>1 DEF LastTaken, Current
<1>4. DiamondTypes
  <2>1. <<>> \in Seq(BOOLEAN) /\ <<>> \in Seq(Nat) /\ FALSE \in BOOLEAN
    OBVIOUS
  <2>2. emitted \in [Outputs -> BOOLEAN] /\ \A o \in Outputs : ~emitted[o]
    BY <1>1
  <2> QED
    BY <1>1, <1>2, <2>1, <2>2 DEF DiamondTypes
<1>5. HeldInv
  <2>1. LastTaken("branch") = 0 /\ \A e \in Edges \ Arms : LastTaken(e) = 0
    BY <1>3 DEF Outputs, Edges
  <2>2. Left = {} /\ Len(out) = 0
    BY <1>1 DEF Left
  <2>3. \A e \in Edges : Got(e) = {}
    BY <2>1 DEF Got
  <2>4. Joined \subseteq Edges
    BY DEF Joined
  <2> QED
    BY <1>2, <2>1, <2>2, <2>3, <2>4 DEF HeldInv
<1>6. LatencyInsensitive
  <2>1. out = [n \in 1..Len(out) |-> n] /\ 1..Len(out) = {}
    BY <1>1
  <2> QED
    BY <2>1 DEF LatencyInsensitive
<1> QED
  BY <1>4, <1>5, <1>6 DEF DiamondInv

\* Every clock edge keeps the invariant, in reset or not.
LEMMA HeldNext == DiamondInv /\ [DiamondNext]_diamondVars => DiamondInv'
<1> SUFFICES ASSUME DiamondInv, [DiamondNext]_diamondVars PROVE DiamondInv'
  OBVIOUS
<1>1. CASE DiamondNext
  <2>1. PICK rst, ready, offer, cond \in BOOLEAN : DiamondClock(rst, ready, offer, cond)
    BY <1>1 DEF DiamondNext
  <2>2. CASE rst
    <3>1. DiamondClock(TRUE, ready, offer, cond)
      BY <2>1, <2>2
    <3> QED
      BY <3>1, HeldReset
  <2>3. CASE ~rst
    <3>1. DiamondClock(FALSE, ready, offer, cond)
      BY <2>1, <2>3
    <3> QED
      BY <3>1, HeldClock
  <2> QED
    BY <2>2, <2>3
<1>2. CASE UNCHANGED diamondVars
  <2>1. /\ buffered' = buffered /\ merges' = merges /\ crossed' = crossed
        /\ offered' = offered /\ conds' = conds /\ emitted' = emitted /\ stages' = stages /\ out' = out
    BY <1>2 DEF diamondVars
  <2>2. DiamondTypes'
    BY <2>1 DEF DiamondInv, DiamondTypes
  <2>3. HeldInv'
    BY <2>1 DEF DiamondInv, HeldInv, Held, Got, Gone, Left, Joined, LastTaken, Current, Arm
  <2>4. LatencyInsensitive'
    BY <2>1 DEF DiamondInv, LatencyInsensitive, Arm
  <2> QED
    BY <2>2, <2>3, <2>4 DEF DiamondInv
<1> QED
  BY <1>1, <1>2

\* Two sequences of one element each.
LEMMA ConcatPair ==
  ASSUME NEW u \in Seq(Nat), NEW v \in Seq(Nat), Len(u) = 1, Len(v) = 1
  PROVE  /\ u \o v \in Seq(Nat) /\ Len(u \o v) = 2
         /\ (u \o v)[1] = u[1] /\ (u \o v)[2] = v[1]
<1>1. PICK w : w = u \o v
  OBVIOUS
<1>2. /\ w \in Seq(Nat) /\ Len(w) = Len(u) + Len(v)
      /\ \A i \in 1..(Len(u) + Len(v)) : w[i] = IF i \leq Len(u) THEN u[i] ELSE v[i - Len(u)]
  BY <1>1, ConcatProperties
<1>3. 1 \in 1..(Len(u) + Len(v)) /\ 2 \in 1..(Len(u) + Len(v))
  OBVIOUS
<1>4. w[1] = u[1]
  BY <1>2, <1>3
<1>5. w[2] = v[2 - Len(u)]
  BY <1>2, <1>3
<1> QED
  BY <1>1, <1>2, <1>4, <1>5

\* The tokens in a buffer as a sequence.
LEMMA ListsOfStage ==
  ASSUME NEW s, StageOk(s), \A n \in InStage(s) : n \in Nat,
         NEW q, q = (IF s.xValid THEN <<s.x>> ELSE <<>>) \o (IF s.lValid THEN <<s.l>> ELSE <<>>)
  PROVE  q \in Seq(Nat) /\ Len(q) \in 0..2 /\ Lists(q, InStage(s))
<1>0. s.xValid \in BOOLEAN /\ s.lValid \in BOOLEAN /\ (s.lValid => s.xValid /\ s.x < s.l)
  BY DEF StageOk
<1>1. CASE ~s.xValid
  <2>1. q = <<>> /\ InStage(s) = {}
    BY <1>0, <1>1 DEF InStage
  <2> QED
    BY <2>1 DEF Lists
<1>2. CASE s.xValid /\ ~s.lValid
  <2>1. PICK x \in Nat : x = s.x /\ InStage(s) = {x}
    BY <1>2 DEF InStage
  <2>2. q = <<x>>
    BY <1>2, <2>1
  <2>3. q \in Seq(Nat) /\ Len(q) = 1 /\ q[1] = x
    <3>1. <<x>> \in Seq(Nat) /\ Len(<<x>>) = 1 /\ <<x>>[1] = x
      OBVIOUS
    <3> QED
      BY <2>2, <3>1
  <2>4. {q[i] : i \in 1..1} = {x}
    BY <2>3
  <2> QED
    BY <2>1, <2>3, <2>4 DEF Lists
<1>3. CASE s.xValid /\ s.lValid
  <2>1. PICK x \in Nat, l \in Nat : x = s.x /\ l = s.l /\ InStage(s) = {x, l} /\ x < l
    BY <1>0, <1>3 DEF InStage
  <2>2. q = <<x>> \o <<l>>
    BY <1>3, <2>1
  <2>4. q \in Seq(Nat) /\ Len(q) = 2 /\ q[1] = x /\ q[2] = l
    <3>1. PICK u, v : u = <<x>> /\ v = <<l>>
      OBVIOUS
    <3>2. /\ u \in Seq(Nat) /\ Len(u) = 1 /\ u[1] = x
          /\ v \in Seq(Nat) /\ Len(v) = 1 /\ v[1] = l
      BY <3>1
    <3>3. /\ u \o v \in Seq(Nat) /\ Len(u \o v) = 2
          /\ (u \o v)[1] = u[1] /\ (u \o v)[2] = v[1]
      BY <3>2, ConcatPair
    <3> QED
      BY <2>2, <3>1, <3>2, <3>3
  <2>5. {q[i] : i \in 1..2} = {x, l}
    <3>1. 1..2 = {1, 2}
      OBVIOUS
    <3> QED
      BY <2>4, <3>1
  <2>6. \A i, j \in 1..2 : i < j => i = 1 /\ j = 2
    OBVIOUS
  <2> QED
    BY <2>1, <2>4, <2>5, <2>6 DEF Lists
<1> QED
  BY <1>0, <1>1, <1>2, <1>3

\* A sequence that lists the numbers above k up to l has them at their places.
LEMMA ListsOfRange ==
  ASSUME NEW k \in Nat, NEW l \in Nat, k \leq l, NEW q \in Seq(Nat), Len(q) \in 0..2,
         Lists(q, (1..l) \ (1..k))
  PROVE  q = [i \in 1..(l - k) |-> k + i]
<1>1. PICK m \in 0..2 : m = Len(q)
  OBVIOUS
<1>2. PICK S : S = (1..l) \ (1..k)
  OBVIOUS
<1>3. {q[i] : i \in 1..m} = S /\ \A i, j \in 1..m : i < j => q[i] < q[j]
  BY <1>1, <1>2 DEF Lists
<1>4. \A n \in Nat : n \in S <=> k < n /\ n \leq l
  BY <1>2
<1>5. q = [i \in 1..m |-> q[i]] /\ \A i \in 1..m : q[i] \in Nat
  BY <1>1
<1>6. CASE m = 0
  <2>1. S = {}
    BY <1>3, <1>6
  <2>2. k = l
    <3>1. ~(k + 1 \in S)
      BY <2>1
    <3> QED
      BY <1>4, <3>1
  <2> QED
    BY <1>5, <1>6, <2>2
<1>7. CASE m = 1
  <2>1. 1..m = {1}
    BY <1>7
  <2>2. S = {q[1]} /\ q[1] \in Nat
    BY <1>3, <1>5, <2>1
  <2>3. PICK x \in Nat : x = q[1]
    BY <2>2
  <2>4. k < x /\ x \leq l
    BY <1>4, <2>2, <2>3
  <2>5. k + 1 \in S /\ l \in S
    BY <1>4, <2>4
  <2>6. x = k + 1 /\ l = k + 1
    BY <2>2, <2>3, <2>5
  <2>7. \A i \in 1..m : q[i] = k + i
    BY <2>1, <2>3, <2>6
  <2>8. l - k = m
    BY <1>7, <2>6
  <2> QED
    BY <1>5, <2>7, <2>8
<1>8. CASE m = 2
  <2>1. 1..m = {1, 2}
    BY <1>8
  <2>2. S = {q[1], q[2]} /\ q[1] \in Nat /\ q[2] \in Nat /\ q[1] < q[2]
    BY <1>3, <1>5, <2>1
  <2>3. PICK x \in Nat, y \in Nat : x = q[1] /\ y = q[2]
    BY <2>2
  <2>4. k < x /\ x \leq l /\ k < y /\ y \leq l /\ x < y /\ S = {x, y}
    BY <1>4, <2>2, <2>3
  <2>5. k + 1 \in S /\ l \in S /\ k + 2 \in S
    BY <1>4, <2>4
  <2>6. x = k + 1 /\ y = k + 2 /\ l = k + 2
    BY <2>4, <2>5
  <2>7. \A i \in 1..m : q[i] = k + i
    BY <2>1, <2>3, <2>6
  <2>8. l - k = m
    BY <1>8, <2>6
  <2> QED
    BY <1>5, <2>7, <2>8
<1> QED
  BY <1>6, <1>7, <1>8

\* What an edge holds as a set is what it holds as a sequence.
LEMMA HeldConserves == DiamondInv => CopiesConserved
<1> SUFFICES ASSUME DiamondInv PROVE CopiesConserved
  OBVIOUS
<1>1. PICK k \in Nat, c \in Nat : k = Len(out) /\ c = Current
  BY DEF DiamondInv, DiamondTypes, Current
<1>2. ASSUME NEW e \in Edges
      PROVE  Content(e) \in Seq(Nat) /\ Len(Content(e)) \in 0..2 /\ Lists(Content(e), Held(e))
  <2>1. CASE e \in buffered
    <3>1. PICK s : s = stages[e]
      OBVIOUS
    <3>2. Content(e) = (IF s.xValid THEN <<s.x>> ELSE <<>>) \o (IF s.lValid THEN <<s.l>> ELSE <<>>)
      BY <2>1, <3>1 DEF Content, Stage!Contents
    <3>3. StageOk(s) /\ Held(e) = InStage(s)
      BY <2>1, <3>1 DEF DiamondInv, DiamondTypes, Held
    <3>4. \A n \in InStage(s) : n \in Nat
      BY <3>3 DEF DiamondInv, HeldInv, Got
    <3> QED
      BY <3>2, <3>3, <3>4, ListsOfStage
  <2>2. CASE e \notin buffered
    <3>1. Content(e) = <<>> /\ Held(e) = {}
      BY <2>2 DEF Content, Held
    <3> QED
      BY <3>1 DEF Lists
  <2> QED
    BY <2>1, <2>2
<1>3. ASSUME NEW e \in Joined \ Arms
      PROVE  Content(e) = Pending(e)
  <2>1. e \in Edges /\ Held(e) = Got(e) \ Gone(e) /\ Len(out) \leq LastTaken(e)
    BY DEF Joined, DiamondInv, HeldInv
  <2>2. PICK l \in Nat : l = LastTaken(e) /\ k \leq l
    <3>1. LastTaken(e) \in Nat
      <4>1. e \in Outputs
        BY DEF Joined, Edges, Outputs
      <4> QED
        BY <1>1, <4>1 DEF LastTaken, DiamondInv, DiamondTypes, Current
    <3> QED
      BY <1>1, <2>1, <3>1
  <2>3. Held(e) = (1..l) \ (1..k)
    BY <1>1, <2>1, <2>2 DEF Got, Gone
  <2>4. PICK q : q = Content(e)
    OBVIOUS
  <2>5. q = [i \in 1..(l - k) |-> k + i]
    <3>1. q \in Seq(Nat) /\ Len(q) \in 0..2 /\ Lists(q, (1..l) \ (1..k))
      BY <1>2, <2>1, <2>3, <2>4
    <3> QED
      BY <2>2, <3>1, ListsOfRange
  <2> QED
    BY <1>1, <2>2, <2>4, <2>5 DEF Pending
<1>4. "token" \in Joined \ Arms /\ (~merges => "cond" \in Joined \ Arms)
  BY DEF Joined, Edges, Arms
<1>5. ASSUME NEW e \in Arms
      PROVE  Lists(Content(e), {n \in 1..LastTaken("branch") : Arm(n) = e} \ Left)
  <2>1. e \in Edges /\ e \in Joined
    BY DEF Joined, Edges, Arms
  <2>2. Held(e) = {n \in 1..LastTaken("branch") : Arm(n) = e} \ Left
    BY <2>1 DEF DiamondInv, HeldInv, Got, Gone
  <2> QED
    BY <1>2, <2>1, <2>2
<1> QED
  BY <1>3, <1>4, <1>5 DEF CopiesConserved

\* However the edges are buffered and wired and whoever stalls: each edge holds exactly
\* the copies the fork has put there and that have not left, in order.
THEOREM CopiesConservedCorrect == DiamondSpec => []CopiesConserved
<1>1. DiamondSpec => []DiamondInv
  BY HeldInit, HeldNext, PTL DEF DiamondSpec
<1> QED
  BY <1>1, HeldConserves, PTL

\* Buffers may be placed at will: the tokens of either arm leave in order, each once, and
\* with a select that the branch feeds crosswise, as the emitted one needs, all of them do.
THEOREM LatencyInsensitiveCorrect == DiamondSpec => []LatencyInsensitive
<1>1. DiamondSpec => []DiamondInv
  BY HeldInit, HeldNext, PTL DEF DiamondSpec
<1>2. DiamondInv => LatencyInsensitive
  BY DEF DiamondInv
<1> QED
  BY <1>1, <1>2, PTL

===============================================================================
