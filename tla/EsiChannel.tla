------------------------------ MODULE EsiChannel ------------------------------
(***************************************************************************)
(* A channel of hardware as ESILowerPhysical.cpp builds it: an esi.buffer   *)
(* (a pipeline stage), an esi.fifo (a seq.fifo between two handshakes) and  *)
(* another esi.buffer, which carries the data delay of the FIFO's output,   *)
(* with a producer, a consumer and a reset that do as they like.            *)
(*                                                                          *)
(* The three parts make their clock step together.  Tokens are numbered in  *)
(* the order the channel accepts them, over resets too, so that a payload   *)
(* from before a reset is never mistaken for a new one.                     *)
(***************************************************************************)
EXTENDS Integers, Sequences, SequencesExt

CONSTANTS
    Depth,       \* of the FIFO
    Latency,     \* data delay of the FIFO's output channel
    MaxTokens    \* bound: tokens of the producer

ASSUME ChannelAssumption ==
    Depth \in Nat \ {0} /\ Latency \in Nat /\ MaxTokens \in Nat

VARIABLES
    s1, fifo, s2,   \* the parts
    sent,           \* tokens accepted so far
    inside,         \* history: the tokens accepted and not yet handed over
    owed            \* history: the tokens handed over in the last cycles, whose
                    \* data is still to come; 0 for a cycle without a handshake

vars == <<s1, fifo, s2, sent, inside, owed>>

\* 0 is no token; the data wires may carry the next number ahead of its token.
Tokens == 0..(MaxTokens + 1)

In   == INSTANCE PipelineStage WITH stage <- s1, Delay <- 0, Payload <- Tokens
Fifo == INSTANCE SeqFifo WITH RdLatency <- Latency, Payload <- Tokens
Out  == INSTANCE PipelineStage WITH stage <- s2, Delay <- Latency, Payload <- Tokens

None == [i \in 1..Latency |-> 0]

Init ==
    /\ In!Init /\ s1.x = 0 /\ s1.l = 0
    /\ Out!Init /\ s2.x = 0 /\ s2.l = 0
    /\ Fifo!Init /\ fifo.rdReg = 0
    /\ sent = 0 /\ inside = <<>> /\ owed = None

-----------------------------------------------------------------------------
\* inputEn: the handshake between the first buffer and the FIFO, which is also
\* the write enable and the ready of the buffer's output.
InputEn == s1.xValid /\ ~Fifo!Full

\* outputRdEn: valid and ready of the channel behind the FIFO.
OutputRdEn == ~Fifo!Empty /\ Out!AReady

\* One clock edge of the whole channel.
Clock(rst, upValid, ready) ==
    LET accepted == ~rst /\ In!ARcv(upValid)
        handed   == ~rst /\ Out!Xmit(ready)
    IN  /\ upValid => sent < MaxTokens
        /\ In!Clock(rst, upValid, sent + 1, InputEn)
        /\ Fifo!Clock(rst, InputEn, s1.x, OutputRdEn)
        /\ Out!Clock(rst, ~Fifo!Empty, Fifo!Output, ready)
        /\ sent' = IF accepted THEN sent + 1 ELSE sent
        /\ inside' = IF rst THEN <<>>
                     ELSE (IF handed THEN Tail(inside) ELSE inside)
                          \o (IF accepted THEN <<sent + 1>> ELSE <<>>)
        /\ owed' = [i \in 1..Latency |->
                       IF rst THEN 0
                       ELSE IF i > 1 THEN owed[i - 1]
                       ELSE IF handed THEN Head(inside) ELSE 0]

Next == \E rst, upValid, ready \in BOOLEAN : Clock(rst, upValid, ready)

Spec == Init /\ [][Next]_vars

\* The clock runs, reset is over and the consumer is ready again and again.
FairSpec == Spec /\ WF_vars(\E upValid \in BOOLEAN : Clock(FALSE, upValid, TRUE))

-----------------------------------------------------------------------------
(* Properties *)

\* The data on the output wires is that of the token the consumer expects in this
\* cycle: Latency cycles after its handshake, however the consumer stalled before
\* and after, and whatever was written to the FIFO meanwhile.
DataIsTheTokens ==
    IF Latency = 0 THEN s2.xValid => s2.x = Head(inside)
    ELSE owed[Latency] # 0 => s2.x = owed[Latency]

\* The assertion of ESIPrimitives.sv:112-114, in both buffers: a token that is
\* accepted while none is transmitted finds the lookaside register empty, although
\* ready is computed from what the output did a cycle ago.
AssertionsHold == In!LookasideHasSpace /\ Out!LookasideHasSpace

\* ESIPrimitives.sv:10, "won't drop tokens": the registers of the first buffer are a
\* queue.  What is transmitted is the oldest token, what is accepted becomes the
\* newest, and nothing else changes.
BufferIsQueue == [][In!QueueStep]_vars

\* A token leaves the channel (or is dropped by a reset).
EveryTokenLeaves ==
    \A n \in 1..MaxTokens : Contains(inside, n) ~> ~Contains(inside, n)

=============================================================================
