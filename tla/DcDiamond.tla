------------------------------ MODULE DcDiamond -------------------------------
(***************************************************************************)
(* The circuits DCToHW.cpp emits for dc.fork, dc.branch, dc.select, dc.merge, *)
(* dc.join, dc.sink and dc.buffer, in the dataflow graph of an if:           *)
(*                                                                          *)
(*           +-> branch -> true, false --> select ---+                      *)
(*   in -> fork ---------- cond ----------> select    join -> out            *)
(*           +------------ token --------------------+                      *)
(*                                                                          *)
(* or with a merge of the two arms instead of the select and a sink of cond. *)
(* The select that is emitted takes its trueToken when the condition is      *)
(* false and its falseToken when it is true, the opposite of dc.branch: the  *)
(* wires between the two cross, or the select waits for the arm that got no  *)
(* token.  Both wirings are modelled.                                        *)
(* Any of the four edges may hold a buffer (an ESI_PipelineStage); the       *)
(* producer and the consumer do as they like, except that a token that is    *)
(* offered stays until it is taken.  Tokens are numbered in that order.      *)
(***************************************************************************)
EXTENDS Integers, Sequences

CONSTANTS
    MaxInputs,   \* bound: tokens of the producer
    MaxResets    \* bound: resets

ASSUME DiamondAssumption == {MaxInputs, MaxResets} \subseteq Nat

Arms  == {"true", "false"}
Edges == Arms \cup {"cond", "token"}

VARIABLES
    buffered,   \* the edges with a buffer, which never change
    merges,     \* whether the arms are merged, which never changes either
    crossed,    \* whether the false arm is the first operand, nor does this
    offered,    \* is a token on the input wires
    conds,      \* history: the condition of every token offered
    emitted,    \* the emitted registers of the fork, by output
    stages,     \* the registers of the buffers
    out,        \* history: the arm tokens that have left
    resets

diamondVars == <<buffered, merges, crossed, offered, conds, emitted, stages, out, resets>>

Outputs == {"branch", "cond", "token"}

Stage(e) == INSTANCE PipelineStage WITH
                stage <- stages[e], Delay <- 0, Payload <- 0..MaxInputs

Empty == Stage("token")!AfterReset(0, 0)

DiamondInit ==
    /\ buffered \in SUBSET Edges /\ merges \in BOOLEAN /\ crossed \in BOOLEAN
    /\ offered = FALSE /\ conds = <<>>
    /\ emitted = [o \in Outputs |-> FALSE]
    /\ stages = [e \in Edges |-> Empty]
    /\ out = <<>> /\ resets = 0

-----------------------------------------------------------------------------
(* Valid and data, from the input to the output *)

Current == Len(conds)
Arm(n)  == IF conds[n] THEN "true" ELSE "false"

\* Mutant: an output that was served is offered the token again.
ForkValid_NoEmitted(o) == offered

\* dc.fork: an output is valid until it has taken the token.
ForkValid(o) == ~emitted[o] /\ offered

\* dc.branch: the arm the condition names.
SourceValid(e) ==
    IF e \in Arms THEN ForkValid("branch") /\ Arm(Current) = e ELSE ForkValid(e)

Valid(e) == IF e \in buffered THEN stages[e].xValid ELSE SourceValid(e)
Data(e)  == IF e \in buffered THEN stages[e].x ELSE Current

\* The arm wired to an operand of the select (trueToken, falseToken) or the merge.
Operand(i) == IF crossed <=> i = 1 THEN "false" ELSE "true"

\* dc.merge: "priority first >> second".
Winner == IF Valid(Operand(1)) THEN Operand(1) ELSE Operand(2)

\* dc.select: the condition is the index of the operand, from 0, in mux and decoder.
Selected == Operand(IF conds[Data("cond")] THEN 2 ELSE 1)

\* dc.select: the select input and the operand it names are valid.
SelectValid == Valid("cond") /\ Valid(Selected)

\* Mutant: the first valid arm, whatever the condition says.
Chosen_First == Winner

\* The arm whose token is on the way out.
Chosen == IF merges THEN Winner ELSE Selected

ArmsValid == IF merges THEN \E e \in Arms : Valid(e) ELSE SelectValid

\* dc.join.
OutValid == ArmsValid /\ Valid("token")

-----------------------------------------------------------------------------
(* Ready, from the output to the input *)

\* dc.join: all inputs at once.
JoinReady(ready) == ready /\ OutValid

ArmsReady(ready) == ArmsValid /\ JoinReady(ready)

\* Mutant: a dc.sink that is never ready.
SinkReady_NoSink(e, ready) ==
    CASE e \in Arms   -> ArmsReady(ready) /\ e = Chosen
      [] e = "cond"  -> ~merges /\ ArmsReady(ready)
      [] e = "token" -> JoinReady(ready)

\* dc.select and dc.merge take the chosen arm; select also its condition, which is
\* a dc.sink's in the other graph.
SinkReady(e, ready) ==
    CASE e \in Arms   -> ArmsReady(ready) /\ e = Chosen
      [] e = "cond"  -> merges \/ ArmsReady(ready)
      [] e = "token" -> JoinReady(ready)

Ready(e, ready) == IF e \in buffered THEN Stage(e)!AReady ELSE SinkReady(e, ready)

\* dc.branch: the arm the condition names is ready.
ForkReady(o, ready) ==
    IF o = "branch" THEN ForkValid(o) /\ Ready(Arm(Current), ready) ELSE Ready(o, ready)

Done(o, ready) == (ForkValid(o) /\ ForkReady(o, ready)) \/ emitted[o]

\* dc.fork: the token is taken when every output has it.
InReady(ready) == \A o \in Outputs : Done(o, ready)

-----------------------------------------------------------------------------
EmittedNext(rst, ready) ==
    [o \in Outputs |-> ~rst /\ Done(o, ready) /\ ~InReady(ready)]

\* One clock edge: the consumer is ready or not, the design may be in reset, and
\* the producer may offer its next token when it has none to offer any more.  Tokens
\* that a reset destroys count as out.
DiamondClock(rst, ready, offer, cond) ==
    LET taken == offered /\ ~rst /\ InReady(ready)
    IN  /\ rst => resets < MaxResets
        /\ offer => Current < MaxInputs /\ (taken \/ ~offered)
        /\ offered' = (offer \/ (offered /\ ~taken))
        /\ conds' = IF offer THEN Append(conds, cond) ELSE conds
        /\ emitted' = EmittedNext(rst, ready)
        /\ stages' = [e \in Edges |->
               IF e \in buffered
               THEN Stage(e)!Clocked(rst, SourceValid(e), Current, SinkReady(e, ready))
               ELSE stages[e]]
        /\ out' = IF rst THEN [n \in 1..(Current - IF offered THEN 1 ELSE 0) |-> n]
                  ELSE IF ready /\ OutValid THEN Append(out, Data(Chosen)) ELSE out
        /\ resets' = IF rst THEN resets + 1 ELSE resets
        /\ UNCHANGED <<buffered, merges, crossed>>

DiamondNext ==
    \E rst, ready, offer, cond \in BOOLEAN :
        (offer \/ ~cond) /\ DiamondClock(rst, ready, offer, cond)

\* The clock runs, reset is over and the consumer is ready again and again.
DiamondSpec ==
    /\ DiamondInit /\ [][DiamondNext]_diamondVars
    /\ WF_diamondVars(\E offer, cond \in BOOLEAN :
                          (offer \/ ~cond) /\ DiamondClock(FALSE, TRUE, offer, cond))

-----------------------------------------------------------------------------
(* Properties *)

\* The last token that output o of the fork has taken, and those it has taken and
\* that have not left.
LastTaken(o) == IF offered /\ ~emitted[o] THEN Current - 1 ELSE Current
Pending(o) == [i \in 1..(LastTaken(o) - Len(out)) |-> Len(out) + i]

\* The tokens that have left, each by its arm.
Left == {out[i] : i \in 1..Len(out)}

Content(e) == IF e \in buffered THEN Stage(e)!Contents ELSE <<>>

\* s lists the tokens of set S in order, each once.
Lists(s, S) ==
    /\ {s[i] : i \in 1..Len(s)} = S
    /\ \A i, j \in 1..Len(s) : i < j => s[i] < s[j]

\* However the edges are buffered, each holds exactly the tokens that the fork has
\* emitted there and that have not left (the arms each their own): copies are neither
\* lost, repeated nor reordered, although outputs take them in different cycles.
CopiesConserved ==
    /\ Content("token") = Pending("token")
    /\ ~merges => Content("cond") = Pending("cond")
    /\ \A e \in Arms :
          Lists(Content(e), {n \in 1..LastTaken("branch") : Arm(n) = e} \ Left)

\* RationaleDC.md:65, "a channel can be arbitrarily buffered without changing the
\* semantics of the program": for every placement of buffers the tokens of either arm
\* leave in order, each once (what has left when a token does are the tokens of its arm
\* before it), and with a select so do all of them, if its wires are crossed.
LatencyInsensitive ==
    /\ \A i \in 1..Len(out) :
          {n \in {out[k] : k \in 1..(i - 1)} : Arm(n) = Arm(out[i])}
              = {n \in 1..(out[i] - 1) : Arm(n) = Arm(out[i])}
    /\ ~merges /\ crossed => out = [n \in 1..Len(out) |-> n]

\* Neither the valids that wait for each other in the join and the select nor the
\* readys that wait for valids in every unit block for ever: a token that is offered is
\* taken from the input and leaves, through a merge or a select whose wires are crossed.
EveryInputLeaves ==
    \A n \in 1..MaxInputs :
        Current >= n /\ (merges \/ crossed) ~> Len(out) >= n /\ (Current > n \/ ~offered)

=============================================================================
