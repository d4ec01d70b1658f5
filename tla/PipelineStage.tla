---------------------------- MODULE PipelineStage -----------------------------
(***************************************************************************)
(* ESI_PipelineStage (ESIPrimitives.sv): the double-buffered relay station  *)
(* that every esi.buffer and the output of a cosim endpoint are made of.    *)
(* One action, Clock, is one positive edge of the clock; its parameters are *)
(* the input wires of that cycle.  With a data delay D the payload of a     *)
(* token follows D cycles after its handshake, and the payload registers    *)
(* repeat the moves of the control registers D cycles later.                *)
(***************************************************************************)
EXTENDS Integers, Sequences

CONSTANTS
    Delay,     \* DATA_DELAY
    Payload    \* what the data wires carry

VARIABLE stage   \* the registers of the stage

\* The decoded payload moves of one cycle: x_load, x_from_l, l_load.
NoMoves == [xLoad |-> FALSE, xFromL |-> FALSE, lLoad |-> FALSE]

\* The registers after reset.  Payload registers keep whatever they held.
AfterReset(x, l) ==
    [xValid |-> FALSE, x |-> x,          \* x_valid_reg, x_reg
     lValid |-> FALSE, l |-> l,          \* the lookaside register
     xReadyReg |-> FALSE,
     movesDly |-> [i \in 1..Delay |-> NoMoves]]

Init == \E x, l \in Payload : stage = AfterReset(x, l)

-----------------------------------------------------------------------------
\* Mutant: the room in the lookaside register is not looked at.
AReady_Always == TRUE

\* a_ready: there is room, or the output could accept a token last cycle.
AReady == ~stage.lValid \/ stage.xReadyReg

Xmit(xReady) == stage.xValid /\ xReady

ARcv(aValid) == AReady /\ aValid

Moves(aValid, xReady) ==
    [xLoad  |-> Xmit(xReady) \/ (ARcv(aValid) /\ ~stage.xValid),
     xFromL |-> Xmit(xReady) /\ stage.lValid,
     lLoad  |-> \/ Xmit(xReady) /\ stage.lValid
                \/ ~Xmit(xReady) /\ ARcv(aValid) /\ stage.xValid]

\* Mutant: two of the moves are swapped where there is no delay.
PayloadMoves_Swapped(aValid, xReady) ==
    LET mv == Moves(aValid, xReady)
    IN  IF Delay = 0 THEN [mv EXCEPT !.xFromL = mv.lLoad, !.lLoad = mv.xFromL]
        ELSE stage.movesDly[Delay]

\* The moves the payload registers make in this cycle.
PayloadMoves(aValid, xReady) ==
    IF Delay = 0 THEN Moves(aValid, xReady) ELSE stage.movesDly[Delay]

\* The registers after a clock edge.
Clocked(rst, aValid, a, xReady) ==
    LET rcv  == ARcv(aValid)
        xmit == Xmit(xReady)
        p    == PayloadMoves(aValid, xReady)
    IN  [xValid |-> ~rst /\ (IF xmit THEN stage.lValid \/ rcv ELSE stage.xValid \/ rcv),
         lValid |-> ~rst /\ (IF xmit THEN stage.lValid /\ rcv
                                     ELSE stage.lValid \/ (rcv /\ stage.xValid)),
         x |-> IF p.xLoad THEN (IF p.xFromL THEN stage.l ELSE a) ELSE stage.x,
         l |-> IF p.lLoad THEN a ELSE stage.l,
         xReadyReg |-> ~rst /\ xReady,
         movesDly |-> [i \in 1..Delay |->
             IF rst THEN NoMoves
             ELSE IF i = 1 THEN Moves(aValid, xReady) ELSE stage.movesDly[i - 1]]]

\* One clock edge.
Clock(rst, aValid, a, xReady) == stage' = Clocked(rst, aValid, a, xReady)

-----------------------------------------------------------------------------
(* Properties *)

\* The assertion of ESIPrimitives.sv:112-114: a token that is accepted while none
\* is transmitted finds the lookaside register empty, whatever the wires do.
LookasideHasSpace ==
    \A aValid, xReady \in BOOLEAN :
        ARcv(aValid) /\ ~Xmit(xReady) => ~stage.lValid

\* The tokens in the stage, oldest first (payloads are in place if Delay = 0).
Contents == (IF stage.xValid THEN <<stage.x>> ELSE <<>>)
            \o (IF stage.lValid THEN <<stage.l>> ELSE <<>>)

\* A stage without data delay is a queue: what is transmitted is the oldest token,
\* what is accepted becomes the newest, and nothing else changes.
QueueStep ==
    \A rst, aValid, xReady \in BOOLEAN, a \in Payload :
        Clock(rst, aValid, a, xReady) =>
            Contents' = IF rst THEN <<>>
                        ELSE (IF Xmit(xReady) THEN Tail(Contents) ELSE Contents)
                             \o (IF ARcv(aValid) THEN <<a>> ELSE <<>>)

=============================================================================
