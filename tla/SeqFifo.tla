------------------------------- MODULE SeqFifo --------------------------------
(***************************************************************************)
(* The FIFO that LowerSeqFIFO.cpp emits for seq.fifo, with the memory that  *)
(* LowerSeqHLMem.cpp emits for it.  One action, Clock, is one positive edge *)
(* of the clock; its parameters are the input wires of that cycle.          *)
(***************************************************************************)
EXTENDS Integers, Sequences

CONSTANTS
    Depth,        \* depth of the seq.fifo
    RdLatency,    \* cycles from rdEn to the data
    Payload

VARIABLE fifo     \* the registers and the memory

Log2Ceil(n) == CHOOSE w \in 0..n : 2^w >= n /\ \A v \in 0..(w - 1) : 2^v < n

\* Sizes of the pointers and of the counters: arithmetic is modulo these.
PtrSize   == 2^Log2Ceil(Depth)
CountSize == 2^Log2Ceil(Depth + 1)

\* A popped slot is read this many cycles after the pop.
Inflight == IF RdLatency > 1 THEN RdLatency - 1 ELSE 0

Init == \E d \in Payload :
    fifo = [count |-> 0, used |-> 0, rdAddr |-> 0, wrAddr |-> 0,
            mem |-> [a \in 0..(Depth - 1) |-> d],
            inflight |-> [i \in 1..Inflight |-> FALSE],     \* fifo_rd_inflight_dly
            rdAddrDly |-> [i \in 1..Inflight |-> 0],        \* fifo_mem_rdaddr0_dly
            rdReg |-> d]                                    \* fifo_mem_rd0_reg

-----------------------------------------------------------------------------
\* Slots that hold data or wait for their delayed read.
Used == IF Inflight > 0 THEN fifo.used ELSE fifo.count

\* Mutant: fullness does not know about slots that are still to be read.
Full_CountOnly == fifo.count = Depth

Full  == Used = Depth
Empty == fifo.count = 0

Output == IF RdLatency = 0 THEN fifo.mem[fifo.rdAddr] ELSE fifo.rdReg

NextCount(wrEn, rdEn) ==
    IF wrEn /\ ~rdEn /\ ~Full THEN (fifo.count + 1) % CountSize
    ELSE IF rdEn /\ ~wrEn /\ ~Empty THEN fifo.count - 1
    ELSE fifo.count

\* The next value of a pointer, with the rollover at Depth.
Advance(ptr, en) ==
    LET next == IF en THEN (ptr + 1) % PtrSize ELSE ptr
    IN  IF next = Depth % PtrSize THEN 0 ELSE next

Pop(rdEn)  == rdEn /\ ~Empty
Push(wrEn) == wrEn /\ ~Full

\* The pop whose slot is read on this edge.
Retire(rdEn) == IF Inflight = 0 THEN Pop(rdEn) ELSE fifo.inflight[Inflight]

\* Mutant: a slot whose read is over is not released.
NextUsed_NoRelease(wrEn, rdEn) ==
    IF Push(wrEn) THEN (fifo.used + 1) % CountSize ELSE fifo.used

NextUsed(wrEn, rdEn) ==
    IF Push(wrEn) /\ ~Retire(rdEn) THEN (fifo.used + 1) % CountSize
    ELSE IF Retire(rdEn) /\ ~Push(wrEn) THEN (fifo.used - 1) % CountSize
    ELSE fifo.used

\* The address the memory is read at.
ReadAddress == IF Inflight = 0 THEN fifo.rdAddr ELSE fifo.rdAddrDly[Inflight]

\* One clock edge.  Reset clears the control registers; the memory is written
\* by the raw write enable, and not during reset.
Clock(rst, wrEn, input, rdEn) ==
    fifo' =
      [count |-> IF rst THEN 0 ELSE NextCount(wrEn, rdEn),
       used |-> IF rst \/ Inflight = 0 THEN 0 ELSE NextUsed(wrEn, rdEn),
       rdAddr |-> IF rst THEN 0 ELSE Advance(fifo.rdAddr, Pop(rdEn)),
       wrAddr |-> IF rst THEN 0 ELSE Advance(fifo.wrAddr, Push(wrEn)),
       mem |-> IF wrEn /\ ~rst THEN [fifo.mem EXCEPT ![fifo.wrAddr] = input]
               ELSE fifo.mem,
       inflight |-> [i \in 1..Inflight |->
           ~rst /\ (IF i = 1 THEN Pop(rdEn) ELSE fifo.inflight[i - 1])],
       rdAddrDly |-> [i \in 1..Inflight |->
           IF i = 1 THEN fifo.rdAddr ELSE fifo.rdAddrDly[i - 1]],
       rdReg |-> fifo.mem[ReadAddress]]

=============================================================================
