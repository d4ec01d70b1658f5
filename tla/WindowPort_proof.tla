--------------------------- MODULE WindowPort_proof ---------------------------
(***************************************************************************)
(* Proof that what is read from a window port is what was written to the   *)
(* other one, for every window with at most one list frame and no frame    *)
(* after it, every room and any number of messages.                        *)
(***************************************************************************)
EXTENDS WindowPort, TLAPS

\* Windows with no frame after the list frame.
ListIsLast == {s \in Shapes : s.after = 0}

\* How many frames a message is cut into in window s of these, and the p-th of them.
Size(s, msg) == s.fixed + (IF s.list THEN msg.len ELSE 0)

FrameAt(s, msg, p) ==
    IF p \leq s.fixed
    THEN [id |-> msg.id, place |-> p, elem |-> 0, last |-> FALSE]
    ELSE [id |-> msg.id, place |-> s.fixed + 1, elem |-> p - s.fixed,
          last |-> (p - s.fixed = msg.len)]

\* Messages that are cut as a whole, and the frames of all messages.
WholeMessages ==
    {msg \in [id : Nat, kind : {"good"}, len : Nat] : shape.list => msg.len > 0}
AnyMessage == [id : Nat, kind : {"good", "badList", "short"}, len : Nat]
AnyFrame == [id : Nat, place : Nat, elem : Nat, last : BOOLEAN]

\* The frames on their way: those in the backend and those of the translation buffer
\* that have not been handed to it.
Unsent == IF call.pc = "write" THEN call.i ELSE wport.idx
FlowLen == Len(link) + (Len(wport.buf) + 1 - Unsent)
FlowAt(i) == IF i \leq Len(link) THEN link[i] ELSE wport.buf[i - Len(link) + Unsent - 1]

\* The message the reader waits for, and which of its frames comes next.
Current == Len(received) + 1
NextPart == IF rport.translated = NoMessage THEN rport.nextFrame + Len(rport.list)
            ELSE Size(shape, offered[Current])

\* Of g frames F, the i-th is part P[i] of message N[i]; parts and messages follow each
\* other without a gap, from part q of message c to the end of the last message.
Tagged(s, msgs, g, F, c, q, N, P) ==
    /\ \A i \in 1..g :
          /\ N[i] \in 1..Len(msgs) /\ P[i] \in 1..Size(s, msgs[N[i]])
          /\ F[i] = FrameAt(s, msgs[N[i]], P[i])
    /\ \A i \in 1..(g - 1) :
          \/ N[i + 1] = N[i] /\ P[i + 1] = P[i] + 1
          \/ P[i] = Size(s, msgs[N[i]]) /\ N[i + 1] = N[i] + 1 /\ P[i + 1] = 1
    /\ IF g = 0
       THEN c = Len(msgs) + 1 /\ q = 1
       ELSE /\ N[1] = c /\ P[1] = q
            /\ N[g] = Len(msgs) /\ P[g] = Size(s, msgs[Len(msgs)])

Cut(s, msgs, g, F, c, q) ==
    \E N, P \in [Nat -> Nat] : Tagged(s, msgs, g, F, c, q, N, P)

Flow == [i \in 1..FlowLen |-> FlowAt(i)]
FlowInv == Cut(shape, offered, FlowLen, Flow, Current, NextPart)

WriterInv ==
    /\ wport.buf \in Seq(AnyFrame) /\ wport.idx \in 1..(Len(wport.buf) + 1)
    /\ wport = [buf |-> wport.buf, idx |-> wport.idx]
    /\ link \in Seq(AnyFrame) /\ offered \in Seq(WholeMessages)
    /\ calls \in Nat /\ pending \in BOOLEAN
    /\ call.pc \in {"idle", "write", "tryOld", "tryNew", "flush"}
    /\ call = [pc |-> call.pc, msg |-> call.msg, i |-> call.i]
    /\ call.pc \in {"idle", "tryOld", "flush"} /\ ~pending => wport = NoFrames
    /\ call.pc = "write" => wport.idx = 1 /\ ~pending /\ call.i \in 1..(Len(wport.buf) + 1)
    /\ call.pc = "tryOld" =>
          call.msg \in AnyMessage /\ (shape.list /\ call.msg.kind = "good" => call.msg.len > 0)

\* The frames of window s, the message a reader should see in it, and the reader
\* that has parts 1 to nextFrame + Len(list) - 1 of message msg.
Frames(s) == s.fixed + (IF s.list THEN 1 ELSE 0)
FieldsOf(s) == [1..Frames(s) -> [id : Nat, place : Nat]]

Whole(s, msg) ==
    [fields |-> [i \in 1..Frames(s) |-> [id |-> msg.id, place |-> i]],
     list |-> IF s.list THEN [k \in 1..msg.len |-> [id |-> msg.id, elem |-> k]]
              ELSE <<>>]

Reset(s, translated) ==
    [nextFrame |-> 1, accumulating |-> FALSE,
     fields |-> [i \in 1..Frames(s) |-> [id |-> 0, place |-> 0]], list |-> <<>>,
     translated |-> translated]

PartsTaken(s, r, msg) ==
    /\ r = [nextFrame |-> r.nextFrame, accumulating |-> r.accumulating,
            fields |-> r.fields, list |-> r.list, translated |-> NoMessage]
    /\ r.nextFrame \in 1..Frames(s) /\ r.accumulating \in BOOLEAN
    /\ r.fields \in FieldsOf(s) /\ r.list \in Seq([id : Nat, elem : Nat])
    /\ IF r.accumulating THEN s.list /\ r.nextFrame = s.fixed + 1 /\ r.list # <<>>
       ELSE r.list = <<>>
    /\ \A i \in 1..(r.nextFrame - 1) : r.fields[i] = [id |-> msg.id, place |-> i]
    /\ \A k \in 1..Len(r.list) : r.list[k] = [id |-> msg.id, elem |-> k]

\* What has been received is right, and the state of the reader is what the parts it
\* has taken of its message say.
ReaderInv ==
    /\ received \in Seq([fields : FieldsOf(shape), list : Seq([id : Nat, elem : Nat])])
    /\ Len(received) \leq Len(offered)
    /\ \A n \in 1..Len(received) : received[n] = Whole(shape, offered[n])
    /\ IF rport.translated = NoMessage THEN PartsTaken(shape, rport, offered[Current])
       ELSE /\ Current \leq Len(offered)
            /\ rport = Reset(shape, Whole(shape, offered[Current]))

Core == WriterInv /\ ReaderInv /\ FlowInv

RoundTripInv == shape \in Shapes /\ (shape.after = 0 /\ clean /\ aligned => Core)

-----------------------------------------------------------------------------
(* Sequences, sizes *)

LEMMA AppendFacts ==
  ASSUME NEW S, NEW s \in Seq(S), NEW e \in S
  PROVE  /\ Append(s, e) \in Seq(S)
         /\ Len(s) \in Nat /\ Len(Append(s, e)) = Len(s) + 1
         /\ Append(s, e)[Len(s) + 1] = e
         /\ \A i \in 1..Len(s) : Append(s, e)[i] = s[i]
OBVIOUS

LEMMA TailFacts ==
  ASSUME NEW S, NEW s \in Seq(S), s # <<>>
  PROVE  /\ Tail(s) \in Seq(S) /\ Len(s) \in Nat \ {0} /\ Len(Tail(s)) = Len(s) - 1
         /\ Head(s) = s[1] /\ Head(s) \in S
         /\ \A i \in 1..(Len(s) - 1) : Tail(s)[i] = s[i + 1]
<1>1. Len(s) \in Nat \ {0} /\ Head(s) = s[1] /\ Head(s) \in S
  OBVIOUS
<1>2. Tail(s) \in Seq(S) /\ Len(Tail(s)) = Len(s) - 1
  OBVIOUS
<1>3. ASSUME NEW i \in 1..(Len(s) - 1)
      PROVE  Tail(s)[i] = s[i + 1]
  <2>1. i \in 1..Len(Tail(s))
    BY <1>2
  <2> QED
    BY <1>1, <2>1
<1> QED
  BY <1>1, <1>2, <1>3

LEMMA ConcatFacts ==
  ASSUME NEW S, NEW s \in Seq(S), NEW t \in Seq(S)
  PROVE  /\ s \o t \in Seq(S) /\ Len(s) \in Nat /\ Len(t) \in Nat
         /\ Len(s \o t) = Len(s) + Len(t)
         /\ \A i \in 1..Len(s) : (s \o t)[i] = s[i]
         /\ \A i \in 1..Len(t) : (s \o t)[Len(s) + i] = t[i]
<1>1. s \o t \in Seq(S) /\ Len(s) \in Nat /\ Len(t) \in Nat
      /\ Len(s \o t) = Len(s) + Len(t)
  OBVIOUS
<1>2. \A i \in 1..Len(s) : (s \o t)[i] = s[i]
  BY <1>1
<1>3. \A i \in 1..Len(t) : (s \o t)[Len(s) + i] = t[i]
  BY <1>1
<1> QED
  BY <1>1, <1>2, <1>3

\* Every such window has a frame, and so has every message cut as a whole.
LEMMA ShapeFacts ==
  ASSUME NEW s \in ListIsLast
  PROVE  s.fixed \in Nat /\ s.list \in BOOLEAN /\ (s.fixed > 0 \/ s.list) /\ s.after = 0
<1>1. MaxFixed \in Nat
  BY WindowAssumption
<1> QED
  BY <1>1 DEF ListIsLast, Shapes

LEMMA SizeFacts ==
  ASSUME NEW s \in ListIsLast, NEW msg, msg.len \in Nat, s.list => msg.len > 0
  PROVE  Size(s, msg) \in Nat \ {0}
<1>1. CASE s.list
  BY <1>1, ShapeFacts DEF Size
<1>2. CASE ~s.list
  BY <1>2, ShapeFacts DEF Size
<1> QED
  BY <1>1, <1>2, ShapeFacts

-----------------------------------------------------------------------------
(* The flow of frames *)

\* It rests.
LEMMA CutSame ==
  ASSUME NEW s, NEW msgs, NEW g, NEW F, NEW G, NEW c, NEW q,
         Cut(s, msgs, g, F, c, q), \A i \in 1..g : G[i] = F[i]
  PROVE  Cut(s, msgs, g, G, c, q)
<1>1. PICK N, P \in [Nat -> Nat] : Tagged(s, msgs, g, F, c, q, N, P)
  BY DEF Cut
<1>2. Tagged(s, msgs, g, G, c, q, N, P)
  BY <1>1 DEF Tagged
<1> QED
  BY <1>2 DEF Cut

\* The first frame of it is part q of message c.
LEMMA CutHead ==
  ASSUME NEW s, NEW msgs, NEW g \in Nat, NEW F, NEW c, NEW q,
         Cut(s, msgs, g, F, c, q), g > 0
  PROVE  /\ c \in 1..Len(msgs) /\ q \in 1..Size(s, msgs[c])
         /\ F[1] = FrameAt(s, msgs[c], q)
<1>1. PICK N, P \in [Nat -> Nat] : Tagged(s, msgs, g, F, c, q, N, P)
  BY DEF Cut
<1>2. 1 \in 1..g /\ g # 0
  OBVIOUS
<1> QED
  BY <1>1, <1>2 DEF Tagged

\* It leaves the flow.
LEMMA CutTail ==
  ASSUME NEW s, NEW msgs, NEW g \in Nat, NEW F, NEW G, NEW c \in Nat, NEW q \in Nat,
         NEW d, NEW r, Cut(s, msgs, g, F, c, q), g > 0,
         \A i \in 1..(g - 1) : G[i] = F[i + 1],
         \/ q # Size(s, msgs[c]) /\ d = c /\ r = q + 1
         \/ q = Size(s, msgs[c]) /\ d = c + 1 /\ r = 1
  PROVE  Cut(s, msgs, g - 1, G, d, r)
<1>1. PICK N, P \in [Nat -> Nat] : Tagged(s, msgs, g, F, c, q, N, P)
  BY DEF Cut
<1>2. /\ \A i \in 1..g :
            /\ N[i] \in 1..Len(msgs) /\ P[i] \in 1..Size(s, msgs[N[i]])
            /\ F[i] = FrameAt(s, msgs[N[i]], P[i])
      /\ \A i \in 1..(g - 1) :
            \/ N[i + 1] = N[i] /\ P[i + 1] = P[i] + 1
            \/ P[i] = Size(s, msgs[N[i]]) /\ N[i + 1] = N[i] + 1 /\ P[i + 1] = 1
      /\ N[1] = c /\ P[1] = q
      /\ N[g] = Len(msgs) /\ P[g] = Size(s, msgs[Len(msgs)])
  BY <1>1 DEF Tagged
<1> DEFINE M == [i \in Nat |-> N[i + 1]]
           Q == [i \in Nat |-> P[i + 1]]
<1>3. M \in [Nat -> Nat] /\ Q \in [Nat -> Nat]
  <2>1. \A i \in Nat : i + 1 \in Nat
    OBVIOUS
  <2>2. \A i \in Nat : N[i + 1] \in Nat /\ P[i + 1] \in Nat
    BY <2>1
  <2> QED
    BY <2>2
<1>4. \A i \in Nat : M[i] = N[i + 1] /\ Q[i] = P[i + 1]
  OBVIOUS
<1> HIDE DEF M, Q
<1>5. ASSUME NEW i \in 1..(g - 1)
      PROVE  /\ M[i] \in 1..Len(msgs) /\ Q[i] \in 1..Size(s, msgs[M[i]])
             /\ G[i] = FrameAt(s, msgs[M[i]], Q[i])
  <2>1. i \in Nat /\ i + 1 \in 1..g
    OBVIOUS
  <2> QED
    BY <1>2, <1>4, <2>1
<1>6. ASSUME NEW i \in 1..(g - 2)
      PROVE  \/ M[i + 1] = M[i] /\ Q[i + 1] = Q[i] + 1
             \/ Q[i] = Size(s, msgs[M[i]]) /\ M[i + 1] = M[i] + 1 /\ Q[i + 1] = 1
  <2>1. i \in Nat /\ i + 1 \in Nat /\ i + 1 \in 1..(g - 1)
    OBVIOUS
  <2> QED
    BY <1>2, <1>4, <2>1
<1>7. CASE g = 1
  <2>1. c = Len(msgs) /\ q = Size(s, msgs[c])
    BY <1>2, <1>7
  <2>2. d = Len(msgs) + 1 /\ r = 1
    BY <2>1
  <2>3. g - 1 = 0 /\ 1..(g - 1) = {} /\ 1..(g - 1 - 1) = {}
    BY <1>7
  <2>4. Tagged(s, msgs, g - 1, G, d, r, M, Q)
    BY <2>2, <2>3 DEF Tagged
  <2> QED
    BY <1>3, <2>4 DEF Cut
<1>8. CASE g # 1
  <2>1. 1 \in 1..(g - 1) /\ 1 + 1 = 2 /\ g - 1 \in Nat /\ 1 \in Nat
        /\ g - 1 # 0 /\ (g - 1) + 1 = g /\ 2 \in 1..g /\ g - 1 - 1 = g - 2
    BY <1>8
  <2>2. M[1] = N[2] /\ Q[1] = P[2]
    BY <1>4, <2>1
  <2>3. \/ N[2] = c /\ P[2] = q + 1
        \/ q = Size(s, msgs[c]) /\ N[2] = c + 1 /\ P[2] = 1
    BY <1>2, <2>1
  <2>4. ~(N[2] = c /\ P[2] = q + 1 /\ q = Size(s, msgs[c]))
    <3>1. P[2] \in 1..Size(s, msgs[N[2]])
      BY <1>2, <2>1
    <3>2. N[2] = c /\ q = Size(s, msgs[c]) => P[2] \in 1..q
      BY <3>1
    <3> QED
      BY <3>2
  <2>5. M[1] = d /\ Q[1] = r
    BY <2>2, <2>3, <2>4
  <2>6. M[g - 1] = Len(msgs) /\ Q[g - 1] = Size(s, msgs[Len(msgs)])
    BY <1>2, <1>4, <2>1
  <2>7. Tagged(s, msgs, g - 1, G, d, r, M, Q)
    <3>1. \A i \in 1..(g - 1 - 1) :
             \/ M[i + 1] = M[i] /\ Q[i + 1] = Q[i] + 1
             \/ Q[i] = Size(s, msgs[M[i]]) /\ M[i + 1] = M[i] + 1 /\ Q[i + 1] = 1
      BY <1>6, <2>1
    <3> QED
      BY <1>5, <3>1, <2>1, <2>5, <2>6 DEF Tagged
  <2> QED
    BY <1>3, <2>7 DEF Cut
<1> QED
  BY <1>7, <1>8

\* A message is cut into n frames at the end of it.
LEMMA CutAppend ==
  ASSUME NEW s, NEW A, NEW msgs \in Seq(A), NEW g \in Nat, NEW F, NEW c, NEW q,
         NEW msg \in A, NEW n \in Nat, n > 0, NEW G,
         Cut(s, msgs, g, F, c, q),
         \A i \in 1..g : G[i] = F[i],
         \A p \in 1..n : G[g + p] = FrameAt(s, msg, p)
  PROVE  Size(s, msg) = n => Cut(s, Append(msgs, msg), g + n, G, c, q)
<1>0. SUFFICES ASSUME Size(s, msg) = n
               PROVE  Cut(s, Append(msgs, msg), g + n, G, c, q)
  OBVIOUS
<1>1. PICK N, P \in [Nat -> Nat] : Tagged(s, msgs, g, F, c, q, N, P)
  BY DEF Cut
<1>2. /\ \A i \in 1..g :
            /\ N[i] \in 1..Len(msgs) /\ P[i] \in 1..Size(s, msgs[N[i]])
            /\ F[i] = FrameAt(s, msgs[N[i]], P[i])
      /\ \A i \in 1..(g - 1) :
            \/ N[i + 1] = N[i] /\ P[i + 1] = P[i] + 1
            \/ P[i] = Size(s, msgs[N[i]]) /\ N[i + 1] = N[i] + 1 /\ P[i + 1] = 1
      /\ IF g = 0
         THEN c = Len(msgs) + 1 /\ q = 1
         ELSE /\ N[1] = c /\ P[1] = q
              /\ N[g] = Len(msgs) /\ P[g] = Size(s, msgs[Len(msgs)])
  BY <1>1 DEF Tagged
<1>3. PICK L \in Nat : L = Len(msgs)
  BY AppendFacts
<1>4. PICK more : more = Append(msgs, msg)
  OBVIOUS
<1>5. Len(more) = L + 1 /\ more[L + 1] = msg /\ \A k \in 1..L : more[k] = msgs[k]
  BY <1>3, <1>4, AppendFacts
<1> DEFINE M == [i \in Nat |-> IF i \leq g THEN N[i] ELSE L + 1]
           Q == [i \in Nat |-> IF i \leq g THEN P[i] ELSE i - g]
<1>6. /\ M \in [Nat -> Nat] /\ Q \in [Nat -> Nat]
      /\ \A i \in Nat : i \leq g => M[i] = N[i] /\ Q[i] = P[i]
      /\ \A i \in Nat : ~(i \leq g) => M[i] = L + 1 /\ Q[i] = i - g
  <2>1. M \in [Nat -> Nat]
    <3>1. \A i \in Nat : (IF i \leq g THEN N[i] ELSE L + 1) \in Nat
      <4>1. \A i \in Nat : N[i] \in Nat
        OBVIOUS
      <4>2. L + 1 \in Nat
        OBVIOUS
      <4> QED
        BY <4>1, <4>2
    <3> QED
      BY <3>1
  <2>2. Q \in [Nat -> Nat]
    <3>1. \A i \in Nat : (IF i \leq g THEN P[i] ELSE i - g) \in Nat
      <4>1. \A i \in Nat : P[i] \in Nat
        OBVIOUS
      <4>2. \A i \in Nat : ~(i \leq g) => i - g \in Nat
        OBVIOUS
      <4> QED
        BY <4>1, <4>2
    <3> QED
      BY <3>1
  <2>3. \A i \in Nat : i \leq g => M[i] = N[i] /\ Q[i] = P[i]
    OBVIOUS
  <2>4. \A i \in Nat : ~(i \leq g) => M[i] = L + 1 /\ Q[i] = i - g
    OBVIOUS
  <2> QED
    BY <2>1, <2>2, <2>3, <2>4
<1> HIDE DEF M, Q
<1>8. ASSUME NEW i \in 1..(g + n)
      PROVE  /\ M[i] \in 1..(L + 1) /\ Q[i] \in 1..Size(s, more[M[i]])
             /\ G[i] = FrameAt(s, more[M[i]], Q[i])
  <2>1. CASE i \leq g
    <3>1. i \in 1..g /\ i \in Nat
      BY <2>1
    <3>2. M[i] = N[i] /\ Q[i] = P[i] /\ N[i] \in 1..L
      BY <1>2, <1>3, <1>6, <2>1, <3>1
    <3>3. more[M[i]] = msgs[N[i]]
      <4>1. \A k \in 1..L : more[k] = msgs[k]
        BY <1>5
      <4>2. more[N[i]] = msgs[N[i]]
        BY <3>2, <4>1
      <4> QED
        BY <3>2, <4>2
    <3>4. N[i] \in 1..(L + 1)
      <4>1. PICK k \in 1..L : k = N[i]
        BY <3>2
      <4>2. k \in 1..(L + 1)
        OBVIOUS
      <4> QED
        BY <4>1, <4>2
    <3>5. Q[i] \in 1..Size(s, more[M[i]]) /\ F[i] = FrameAt(s, more[M[i]], Q[i])
      BY <1>2, <3>1, <3>2, <3>3
    <3> QED
      BY <3>1, <3>2, <3>4, <3>5
  <2>2. CASE ~(i \leq g)
    <3>1. i \in Nat /\ i - g \in 1..n
      BY <2>2
    <3>2. M[i] = L + 1 /\ Q[i] = i - g /\ more[M[i]] = msg
      BY <1>5, <1>6, <2>2, <3>1
    <3>3. PICK p \in 1..n : p = i - g
      BY <3>1
    <3>5. g + p = i /\ L + 1 \in 1..(L + 1)
      BY <3>1, <3>3
    <3>6. G[i] = FrameAt(s, msg, p)
      BY <3>5
    <3> QED
      BY <1>0, <3>2, <3>3, <3>5, <3>6
  <2> QED
    BY <2>1, <2>2
<1>9. ASSUME NEW i \in 1..(g + n - 1)
      PROVE  \/ M[i + 1] = M[i] /\ Q[i + 1] = Q[i] + 1
             \/ Q[i] = Size(s, more[M[i]]) /\ M[i + 1] = M[i] + 1 /\ Q[i + 1] = 1
  <2>1. i \in Nat /\ i + 1 \in Nat
    OBVIOUS
  <2>2. CASE i < g
    <3>1. i \in 1..g /\ i \in 1..(g - 1) /\ i \leq g /\ i + 1 \leq g
      BY <2>2
    <3>2. M[i] = N[i] /\ Q[i] = P[i] /\ M[i + 1] = N[i + 1] /\ Q[i + 1] = P[i + 1]
      BY <1>6, <2>1, <3>1
    <3>3. more[M[i]] = msgs[N[i]]
      <4>1. \A k \in 1..L : more[k] = msgs[k]
        BY <1>5
      <4>2. N[i] \in 1..L
        BY <1>2, <1>3, <3>1
      <4>3. more[N[i]] = msgs[N[i]]
        BY <4>1, <4>2
      <4> QED
        BY <3>2, <4>3
    <3> QED
      BY <1>2, <3>1, <3>2, <3>3
  <2>3. CASE i = g
    <3>1. i \leq g /\ ~(i + 1 \leq g) /\ (i + 1) - g = 1 /\ g # 0
      BY <2>3
    <3>2. M[i] = N[g] /\ Q[i] = P[g] /\ M[i + 1] = L + 1 /\ Q[i + 1] = 1
      BY <1>6, <2>1, <2>3, <3>1
    <3>3. N[g] = L /\ P[g] = Size(s, msgs[L]) /\ L \in 1..L
      <4>1. g \in 1..g
        BY <3>1
      <4>2. N[g] = Len(msgs) /\ N[g] \in 1..Len(msgs) /\ P[g] = Size(s, msgs[Len(msgs)])
        BY <1>2, <3>1, <4>1
      <4> QED
        BY <1>3, <4>2
    <3> QED
      <4>1. more[L] = msgs[L]
        BY <1>5, <3>3
      <4> QED
        BY <3>2, <3>3, <4>1
  <2>4. CASE i > g
    <3>1. ~(i \leq g) /\ ~(i + 1 \leq g) /\ (i + 1) - g = (i - g) + 1
      BY <2>1, <2>4
    <3> QED
      BY <1>6, <2>1, <3>1
  <2> QED
    BY <2>1, <2>2, <2>3, <2>4
<1>10. M[1] = c /\ Q[1] = q
  <2>1. CASE g = 0
    <3>1. ~(1 \leq g) /\ 1 - g = 1 /\ 1 \in Nat
      BY <2>1
    <3>2. M[1] = L + 1 /\ Q[1] = 1
      BY <1>6, <3>1
    <3> QED
      BY <1>2, <1>3, <2>1, <3>2
  <2>2. CASE g # 0
    <3>1. 1 \leq g /\ 1 \in Nat
      BY <2>2
    <3> QED
      BY <1>2, <1>6, <2>2, <3>1
  <2> QED
    BY <2>1, <2>2
<1>11. M[g + n] = L + 1 /\ Q[g + n] = n
  <2>1. g + n \in Nat /\ ~(g + n \leq g) /\ (g + n) - g = n
    OBVIOUS
  <2> QED
    BY <1>6, <2>1
<1>12. Tagged(s, more, g + n, G, c, q, M, Q)
  <2>1. g + n # 0
    OBVIOUS
  <2> QED
    BY <1>0, <1>5, <1>8, <1>9, <1>10, <1>11, <2>1 DEF Tagged
<1> QED
  BY <1>4, <1>6, <1>12 DEF Cut

-----------------------------------------------------------------------------
(* The writer *)

LEMMA FlowTypes ==
  ASSUME WriterInv
  PROVE  /\ Unsent \in 1..(Len(wport.buf) + 1) /\ Len(link) \in Nat /\ Len(wport.buf) \in Nat
         /\ FlowLen \in Nat /\ FlowLen \geq Len(link)
<1>1. Len(link) \in Nat /\ Len(wport.buf) \in Nat
  BY DEF WriterInv
<1>2. Unsent \in 1..(Len(wport.buf) + 1)
  BY DEF WriterInv, Unsent
<1> QED
  BY <1>1, <1>2 DEF FlowLen

\* A step that leaves the frames, the messages and the reader as they are.
LEMMA FlowRests ==
  ASSUME FlowInv, UNCHANGED <<shape, offered>>, Current' = Current, NextPart' = NextPart,
         FlowLen' = FlowLen, \A i \in 1..FlowLen : FlowAt(i)' = FlowAt(i)
  PROVE  FlowInv'
<1>1. PICK g, F, c, q : g = FlowLen /\ F = Flow /\ c = Current /\ q = NextPart
  OBVIOUS
<1>2. PICK G : G = Flow'
  OBVIOUS
<1>3. Cut(shape, offered, g, F, c, q)
  BY <1>1 DEF FlowInv
<1>4. \A i \in 1..g : G[i] = F[i]
  BY <1>1, <1>2 DEF Flow
<1>5. Cut(shape, offered, g, G, c, q)
  BY <1>3, <1>4, CutSame
<1> QED
  BY <1>1, <1>2, <1>5 DEF FlowInv

\* A step of the writer that cuts no message leaves the reader as it is.
LEMMA ReaderStill ==
  ASSUME UNCHANGED <<shape, rport, received, offered>>
  PROVE  /\ Current' = Current /\ NextPart' = NextPart
         /\ ReaderInv => ReaderInv'
BY DEF Current, NextPart, ReaderInv, Size

\* A frame is handed to the backend.
LEMMA MoveFrame ==
  ASSUME WriterInv, FlowInv, UNCHANGED <<shape, rport, received, offered>>,
         Unsent \leq Len(wport.buf), link' = Append(link, wport.buf[Unsent]),
         wport'.buf = wport.buf, Unsent' = Unsent + 1
  PROVE  FlowInv' /\ link' \in Seq(AnyFrame)
<1>1. Unsent \in 1..Len(wport.buf) /\ Unsent \in Nat /\ Len(link) \in Nat
      /\ Len(wport.buf) \in Nat
  BY FlowTypes
<1>2. link \in Seq(AnyFrame) /\ wport.buf[Unsent] \in AnyFrame
  BY <1>1 DEF WriterInv
<1>3. /\ link' \in Seq(AnyFrame) /\ Len(link') = Len(link) + 1
      /\ link'[Len(link) + 1] = wport.buf[Unsent]
      /\ \A i \in 1..Len(link) : link'[i] = link[i]
  BY <1>2, AppendFacts
<1>4. FlowLen' = FlowLen
  <2>1. FlowLen' = Len(link') + (Len(wport.buf) + 1 - (Unsent + 1))
    BY DEF FlowLen
  <2>2. PICK l, b, u \in Nat : l = Len(link) /\ b = Len(wport.buf) /\ u = Unsent
    BY <1>1
  <2>3. FlowLen' = (l + 1) + (b + 1 - (u + 1)) /\ FlowLen = l + (b + 1 - u)
    BY <1>3, <2>1, <2>2 DEF FlowLen
  <2> QED
    BY <2>3
<1>5. ASSUME NEW i \in 1..FlowLen
      PROVE  FlowAt(i)' = FlowAt(i)
  <2>0. i \in Nat /\ i \geq 1
    BY FlowTypes
  <2>1. CASE i \leq Len(link)
    BY <1>1, <1>3, <2>0, <2>1 DEF FlowAt
  <2>2. CASE i = Len(link) + 1
    <3>1. FlowAt(i)' = wport.buf[Unsent]
      BY <1>1, <1>3, <2>2 DEF FlowAt
    <3>2. i - Len(link) + Unsent - 1 = Unsent /\ ~(i \leq Len(link))
      BY <1>1, <2>2
    <3> QED
      BY <3>1, <3>2 DEF FlowAt
  <2>3. CASE i > Len(link) + 1
    <3>1. ~(i \leq Len(link)) /\ ~(i \leq Len(link'))
      BY <1>1, <1>3, <2>0, <2>3
    <3>2. i - Len(link') + (Unsent + 1) - 1 = i - Len(link) + Unsent - 1
      BY <1>1, <1>3, <2>0
    <3> QED
      BY <3>1, <3>2 DEF FlowAt
  <2> QED
    BY <1>1, <2>0, <2>1, <2>2, <2>3
<1> QED
  BY <1>3, <1>4, <1>5, FlowRests, ReaderStill

LEMMA WriteFrameCore == Core /\ WriteFrame => Core'
<1> SUFFICES ASSUME Core, WriteFrame PROVE Core'
  OBVIOUS
<1>1. WriterInv /\ ReaderInv /\ FlowInv
  BY DEF Core
<1>2. Unsent = call.i /\ call.i \leq Len(wport.buf)
  BY DEF WriteFrame, Unsent
<1>3. call' = [pc |-> "write", msg |-> call.msg, i |-> call.i + 1]
  BY <1>1 DEF WriterInv, WriteFrame
<1>4. wport' = wport /\ link' = Append(link, wport.buf[Unsent]) /\ Unsent' = Unsent + 1
  BY <1>2, <1>3 DEF WriteFrame, Unsent
<1>5. UNCHANGED <<shape, rport, received, offered, pending, calls>>
  BY DEF WriteFrame, readerVars
<1>6. FlowInv' /\ link' \in Seq(AnyFrame)
  BY <1>1, <1>2, <1>4, <1>5, MoveFrame
<1>7. call.i \in 1..(Len(wport.buf) + 1) /\ Len(wport.buf) \in Nat
  BY <1>1, <1>2, FlowTypes
<1>8. call.i + 1 \in 1..(Len(wport.buf) + 1)
  BY <1>2, <1>7
<1>9. WriterInv'
  <2>1. /\ wport'.buf \in Seq(AnyFrame) /\ wport'.idx \in 1..(Len(wport'.buf) + 1)
        /\ wport' = [buf |-> wport'.buf, idx |-> wport'.idx]
        /\ offered' \in Seq(WholeMessages)'
        /\ calls' \in Nat /\ pending' \in BOOLEAN
    BY <1>1, <1>4, <1>5 DEF WriterInv, WholeMessages
  <2>2. wport'.idx = 1 /\ ~pending'
    BY <1>1, <1>4, <1>5 DEF WriterInv, WriteFrame
  <2>3. /\ call'.pc = "write" /\ call' = [pc |-> call'.pc, msg |-> call'.msg, i |-> call'.i]
        /\ call'.i \in 1..(Len(wport'.buf) + 1)
    BY <1>3, <1>4, <1>8
  <2> QED
    BY <1>6, <2>1, <2>2, <2>3 DEF WriterInv, AnyFrame
<1>10. ReaderInv'
  BY <1>1, <1>5, ReaderStill
<1> QED
  BY <1>6, <1>9, <1>10 DEF Core

LEMMA FlushFrameCore == Core /\ FlushFrame => Core'
<1> SUFFICES ASSUME Core, FlushFrame PROVE Core'
  OBVIOUS
<1>1. WriterInv /\ ReaderInv /\ FlowInv
  BY DEF Core
<1>2. Unsent = wport.idx /\ wport.idx \leq Len(wport.buf) /\ call' = call
  BY DEF FlushFrame, Flushing, Unsent
<1>3. wport' = [buf |-> wport.buf, idx |-> wport.idx + 1]
  BY <1>1 DEF WriterInv, FlushFrame
<1>4. link' = Append(link, wport.buf[Unsent]) /\ Unsent' = Unsent + 1
      /\ wport'.buf = wport.buf
  BY <1>2, <1>3 DEF FlushFrame, Flushing, Unsent
<1>5. UNCHANGED <<shape, rport, received, offered, pending, calls>>
  BY DEF FlushFrame, readerVars
<1>6. FlowInv' /\ link' \in Seq(AnyFrame)
  BY <1>1, <1>2, <1>4, <1>5, MoveFrame
<1>7. wport.idx \in 1..(Len(wport.buf) + 1) /\ Len(wport.buf) \in Nat
  BY <1>1, <1>2, FlowTypes
<1>8. wport.idx + 1 \in 1..(Len(wport.buf) + 1)
  BY <1>2, <1>7
<1>9. WriterInv'
  <2>1. /\ wport'.buf \in Seq(AnyFrame) /\ wport'.idx \in 1..(Len(wport'.buf) + 1)
        /\ wport' = [buf |-> wport'.buf, idx |-> wport'.idx]
    BY <1>1, <1>3, <1>8 DEF WriterInv
  <2>2. /\ offered' \in Seq(WholeMessages)' /\ calls' \in Nat /\ pending' \in BOOLEAN
        /\ call'.pc \in {"tryOld", "tryNew", "flush"}
        /\ call' = [pc |-> call'.pc, msg |-> call'.msg, i |-> call'.i]
    BY <1>1, <1>2, <1>5 DEF WriterInv, WholeMessages, FlushFrame, Flushing
  <2>3. ~(call.pc \in {"tryOld", "flush"} /\ ~pending)
    <3>1. SUFFICES ASSUME call.pc \in {"tryOld", "flush"}, ~pending PROVE FALSE
      OBVIOUS
    <3>2. wport = NoFrames
      BY <1>1, <3>1 DEF WriterInv
    <3> QED
      BY <1>2, <3>2 DEF NoFrames
  <2>4. call'.pc = "tryOld" =>
          call'.msg \in AnyMessage
          /\ (shape'.list /\ call'.msg.kind = "good" => call'.msg.len > 0)
    BY <1>1, <1>2, <1>5 DEF WriterInv
  <2> QED
    BY <1>2, <1>5, <1>6, <2>1, <2>2, <2>3, <2>4 DEF WriterInv, AnyFrame, AnyMessage
<1>10. ReaderInv'
  BY <1>1, <1>5, ReaderStill
<1> QED
  BY <1>6, <1>9, <1>10 DEF Core

\* A step of the writer that changes neither the frames nor the messages.
LEMMA FlowKept ==
  ASSUME FlowInv, UNCHANGED <<shape, rport, received, offered, link>>,
         wport'.buf = wport.buf, Unsent' = Unsent
  PROVE  FlowInv'
<1>1. FlowLen' = FlowLen
  BY DEF FlowLen
<1>2. \A i \in 1..FlowLen : FlowAt(i)' = FlowAt(i)
  BY DEF FlowAt
<1> QED
  BY <1>1, <1>2, FlowRests, ReaderStill

\* One that empties a buffer of which everything has been handed over.
LEMMA FlowEmptied ==
  ASSUME WriterInv, FlowInv, UNCHANGED <<shape, rport, received, offered, link>>,
         Unsent = Len(wport.buf) + 1, wport'.buf = <<>>, Unsent' = 1
  PROVE  FlowInv'
<1>1. Len(link) \in Nat /\ Len(wport.buf) \in Nat
  BY FlowTypes
<1>2. FlowLen = Len(link) /\ FlowLen' = Len(link)
  BY <1>1 DEF FlowLen
<1>3. \A i \in 1..FlowLen : FlowAt(i)' = FlowAt(i)
  BY <1>1, <1>2 DEF FlowAt
<1> QED
  BY <1>2, <1>3, FlowRests, ReaderStill

LEMMA WriteReturnsCore == Core /\ WriteReturns => Core'
<1> SUFFICES ASSUME Core, WriteReturns PROVE Core'
  OBVIOUS
<1>1. WriterInv /\ ReaderInv /\ FlowInv
  BY DEF Core
<1>2. UNCHANGED <<shape, rport, received, offered, link, pending, calls>>
  BY DEF WriteReturns, readerVars
<1>3. wport' = [buf |-> <<>>, idx |-> 1] /\ call' = Idle /\ ~pending
  BY <1>1 DEF WriterInv, WriteReturns
<1>4. Unsent = Len(wport.buf) + 1
  <2>1. Unsent = call.i /\ call.i > Len(wport.buf)
    BY DEF Unsent, WriteReturns
  <2> QED
    BY <1>1, <2>1, FlowTypes
<1>5. Unsent' = 1 /\ wport'.buf = <<>>
  BY <1>3 DEF Unsent, Idle
<1>6. FlowInv'
  BY <1>1, <1>2, <1>4, <1>5, FlowEmptied
<1>7. WriterInv'
  <2>1. /\ link' \in Seq(AnyFrame)' /\ offered' \in Seq(WholeMessages)'
        /\ calls' \in Nat /\ pending' \in BOOLEAN
    BY <1>1, <1>2 DEF WriterInv, WholeMessages, AnyFrame
  <2>2. /\ wport'.buf \in Seq(AnyFrame)' /\ wport'.idx \in 1..(Len(wport'.buf) + 1)
        /\ wport' = [buf |-> wport'.buf, idx |-> wport'.idx] /\ wport' = NoFrames'
    BY <1>3 DEF NoFrames
  <2>3. call'.pc = "idle" /\ call' = [pc |-> call'.pc, msg |-> call'.msg, i |-> call'.i]
    BY <1>3 DEF Idle
  <2> QED
    BY <2>1, <2>2, <2>3 DEF WriterInv
<1>8. ReaderInv'
  BY <1>1, <1>2, ReaderStill
<1> QED
  BY <1>6, <1>7, <1>8 DEF Core

\* What callers pass.
LEMMA MessageFacts ==
  ASSUME shape \in ListIsLast, calls \in Nat, NEW source \in Sources
  PROVE  /\ Message(source) \in AnyMessage
         /\ shape.list /\ Message(source).kind = "good" => Message(source).len > 0
<1>1. MaxList \in Nat
  BY WindowAssumption
<1>2. calls + 1 \in Nat
  OBVIOUS
<1>3. /\ source.kind \in {"good", "badList", "short"} /\ source.len \in Nat
      /\ shape.list /\ source.kind = "good" => source.len > 0
  BY <1>1 DEF Sources
<1> QED
  BY <1>2, <1>3 DEF Message, AnyMessage

LEMMA TryWriteCore == shape \in ListIsLast /\ Core /\ TryWrite => Core'
<1> SUFFICES ASSUME shape \in ListIsLast, Core, TryWrite PROVE Core'
  OBVIOUS
<1>1. WriterInv /\ ReaderInv /\ FlowInv
  BY DEF Core
<1>2. UNCHANGED <<shape, rport, received, offered, link, pending, wport>>
  BY DEF TryWrite, readerVars
<1>3. PICK source \in Sources : call' = [pc |-> "tryOld", msg |-> Message(source), i |-> 0]
  BY DEF TryWrite
<1>4. Unsent' = Unsent
  BY <1>2, <1>3 DEF Unsent, TryWrite
<1>5. FlowInv'
  BY <1>1, <1>2, <1>4, FlowKept
<1>6. WriterInv'
  <2>1. calls \in Nat /\ calls' \in Nat
    BY <1>1 DEF WriterInv, TryWrite
  <2>2. PICK msg : msg = Message(source)
    OBVIOUS
  <2>3. msg \in AnyMessage /\ (shape.list /\ msg.kind = "good" => msg.len > 0)
    BY <2>1, <2>2, MessageFacts
  <2>4. call'.pc = "tryOld" /\ call'.msg = msg
        /\ call' = [pc |-> call'.pc, msg |-> call'.msg, i |-> call'.i]
    BY <1>3, <2>2
  <2>5. ~pending' => wport' = NoFrames'
    BY <1>1, <1>2 DEF WriterInv, NoFrames, TryWrite
  <2>6. /\ wport'.buf \in Seq(AnyFrame)' /\ wport'.idx \in 1..(Len(wport'.buf) + 1)
        /\ wport' = [buf |-> wport'.buf, idx |-> wport'.idx]
        /\ link' \in Seq(AnyFrame)' /\ offered' \in Seq(WholeMessages)'
        /\ pending' \in BOOLEAN
    BY <1>1, <1>2 DEF WriterInv, WholeMessages, AnyFrame
  <2>7. call'.msg \in AnyMessage'
        /\ (shape'.list /\ call'.msg.kind = "good" => call'.msg.len > 0)
    BY <1>2, <2>3, <2>4 DEF AnyMessage
  <2> QED
    BY <2>1, <2>4, <2>5, <2>6, <2>7 DEF WriterInv
<1>7. ReaderInv'
  BY <1>1, <1>2, ReaderStill
<1> QED
  BY <1>5, <1>6, <1>7 DEF Core

\* The steps that change the call and nothing else the invariant speaks of.
LEMMA FlushCore == Core /\ (Flush \/ FlushRefused) => Core'
<1> SUFFICES ASSUME Core, Flush \/ FlushRefused PROVE Core'
  OBVIOUS
<1>1. WriterInv /\ ReaderInv /\ FlowInv
  BY DEF Core
<1>2. UNCHANGED <<shape, rport, received, offered, link, wport, calls>>
  BY DEF Flush, FlushRefused, readerVars
<1>3. /\ call'.pc \in {"idle", "flush"} /\ call.pc # "write"
      /\ call' = [pc |-> call'.pc, msg |-> call'.msg, i |-> call'.i]
  BY DEF Flush, FlushRefused, Flushing, Idle
<1>4. Unsent' = Unsent
  BY <1>2, <1>3 DEF Unsent
<1>5. FlowInv'
  BY <1>1, <1>2, <1>4, FlowKept
<1>6. WriterInv'
  <2>1. /\ wport'.buf \in Seq(AnyFrame)' /\ wport'.idx \in 1..(Len(wport'.buf) + 1)
        /\ wport' = [buf |-> wport'.buf, idx |-> wport'.idx]
        /\ link' \in Seq(AnyFrame)' /\ offered' \in Seq(WholeMessages)'
        /\ calls' \in Nat
    BY <1>1, <1>2 DEF WriterInv, WholeMessages, AnyFrame
  <2>2. pending' \in BOOLEAN
    BY <1>1 DEF WriterInv, Flush, FlushRefused
  <2>3. ~pending' => wport' = NoFrames'
    <3>1. CASE Flush
      BY <3>1 DEF Flush
    <3>2. CASE FlushRefused
      <4>1. SUFFICES ASSUME ~pending' PROVE FALSE
        OBVIOUS
      <4>2. ~pending /\ call.pc # "tryNew"
        BY <3>2, <4>1 DEF FlushRefused
      <4>3. call.pc \in {"tryOld", "flush"} /\ wport.idx \leq Len(wport.buf)
        BY <3>2, <4>2 DEF FlushRefused, Flushing
      <4>4. wport = NoFrames
        BY <1>1, <4>2, <4>3 DEF WriterInv
      <4> QED
        BY <4>3, <4>4 DEF NoFrames
    <3> QED
      BY <3>1, <3>2
  <2> QED
    BY <1>3, <2>1, <2>2, <2>3 DEF WriterInv
<1>7. ReaderInv'
  BY <1>1, <1>2, ReaderStill
<1> QED
  BY <1>5, <1>6, <1>7 DEF Core

\* translateOutgoing cuts a message as a whole into its frames.
LEMMA FramesFacts ==
  ASSUME shape \in ListIsLast, NEW msg \in AnyMessage, ~Throws(msg)
  PROVE  /\ FramesOf(msg) \in Seq(AnyFrame) /\ Len(FramesOf(msg)) = Size(shape, msg)
         /\ \A p \in 1..Size(shape, msg) : FramesOf(msg)[p] = FrameAt(shape, msg, p)
<1>1. msg.id \in Nat /\ msg.len \in Nat /\ msg.kind = "good"
  BY DEF AnyMessage, Throws
<1>2. shape.fixed \in Nat /\ shape.list \in BOOLEAN /\ shape.after = 0
  BY ShapeFacts
<1>3. PICK A : A = [i \in 1..shape.fixed |-> [id |-> msg.id, place |-> i, elem |-> 0,
                                              last |-> FALSE]]
  OBVIOUS
<1>0. FixedFrames(msg, 0, shape.fixed) = A
  <2>1. \A i \in 1..shape.fixed : 0 + i = i
    BY <1>2
  <2> QED
    BY <1>3, <2>1 DEF FixedFrames
<1>4. A \in Seq(AnyFrame) /\ Len(A) = shape.fixed
  <2>1. \A i \in 1..shape.fixed : [id |-> msg.id, place |-> i, elem |-> 0, last |-> FALSE]
                                      \in AnyFrame
    BY <1>1, <1>2 DEF AnyFrame
  <2> QED
    BY <1>2, <1>3, <2>1
<1>5. \A p \in 1..shape.fixed : A[p] = FrameAt(shape, msg, p)
  BY <1>2, <1>3 DEF FrameAt
<1>6. CASE ~shape.list
  <2>1. FramesOf(msg) = A \o <<>>
    BY <1>0, <1>1, <1>6 DEF FramesOf
  <2>2. A \o <<>> = A
    BY <1>4
  <2>3. Size(shape, msg) = shape.fixed
    BY <1>2, <1>6 DEF Size
  <2> QED
    BY <1>4, <1>5, <2>1, <2>2, <2>3
<1>7. CASE shape.list
  <2>1. PICK B : B = ListFrames(msg)
    OBVIOUS
  <2>2. B \in Seq(AnyFrame) /\ Len(B) = msg.len
    <3>1. shape.fixed + 1 \in Nat
      BY <1>2
    <3>2. \A k \in 1..msg.len : [id |-> msg.id, place |-> shape.fixed + 1, elem |-> k,
                                  last |-> (k = msg.len)] \in AnyFrame
      BY <1>1, <3>1 DEF AnyFrame
    <3> QED
      BY <1>1, <2>1, <3>2 DEF ListFrames
  <2>3. FramesOf(msg) = A \o B
    <3>1. FixedFrames(msg, shape.fixed + 1, shape.after) = <<>>
      BY <1>2 DEF FixedFrames
    <3>2. B \o <<>> = B
      BY <2>2
    <3> QED
      BY <1>0, <1>1, <1>7, <2>1, <3>1, <3>2 DEF FramesOf, Throws
  <2>4. PICK C : C = A \o B
    OBVIOUS
  <2>5. /\ C \in Seq(AnyFrame) /\ Len(C) = shape.fixed + msg.len
        /\ \A i \in 1..shape.fixed : C[i] = A[i]
        /\ \A k \in 1..msg.len : C[shape.fixed + k] = B[k]
    <3>1. /\ A \o B \in Seq(AnyFrame) /\ Len(A \o B) = Len(A) + Len(B)
          /\ \A i \in 1..Len(A) : (A \o B)[i] = A[i]
          /\ \A k \in 1..Len(B) : (A \o B)[Len(A) + k] = B[k]
      <4>1. A \in Seq(AnyFrame) /\ B \in Seq(AnyFrame)
        BY <1>4, <2>2
      <4> QED
        BY <4>1, ConcatFacts
    <3>2. /\ C \in Seq(AnyFrame) /\ Len(C) = Len(A) + Len(B)
          /\ \A i \in 1..Len(A) : C[i] = A[i]
          /\ \A k \in 1..Len(B) : C[Len(A) + k] = B[k]
      BY <2>4, <3>1
    <3> QED
      BY <1>4, <2>2, <3>2
  <2>6. Size(shape, msg) = shape.fixed + msg.len
    BY <1>7 DEF Size
  <2>7. ASSUME NEW p \in 1..(shape.fixed + msg.len)
        PROVE  C[p] = FrameAt(shape, msg, p)
    <3>1. CASE p \leq shape.fixed
      <4>1. p \in 1..shape.fixed
        BY <1>2, <3>1
      <4> QED
        BY <1>5, <2>5, <4>1
    <3>2. CASE ~(p \leq shape.fixed)
      <4>1. PICK k \in 1..msg.len : k = p - shape.fixed
        BY <1>1, <1>2, <3>2
      <4>2. shape.fixed + k = p
        BY <1>1, <1>2, <4>1
      <4>3. C[p] = B[k]
        BY <2>5, <4>2
      <4>4. B[k] = [id |-> msg.id, place |-> shape.fixed + 1, elem |-> k,
                    last |-> (k = msg.len)]
        BY <2>1 DEF ListFrames
      <4>5. FrameAt(shape, msg, p) = [id |-> msg.id, place |-> shape.fixed + 1, elem |-> k,
                    last |-> (k = msg.len)]
        BY <3>2, <4>1 DEF FrameAt
      <4> QED
        BY <4>3, <4>4, <4>5
    <3> QED
      BY <3>1, <3>2
  <2> QED
    BY <2>3, <2>4, <2>5, <2>6, <2>7
<1> QED
  BY <1>2, <1>6, <1>7

\* Where the message the reader waits for is: among those offered, or the next.
LEMMA CutCurrent ==
  ASSUME NEW s, NEW msgs, NEW g \in Nat, NEW F, NEW c, NEW q,
         Cut(s, msgs, g, F, c, q), ~(c \in 1..Len(msgs))
  PROVE  g = 0 /\ c = Len(msgs) + 1 /\ q = 1
<1>1. g = 0
  BY CutHead
<1>2. PICK N, P \in [Nat -> Nat] : Tagged(s, msgs, g, F, c, q, N, P)
  BY DEF Cut
<1> QED
  BY <1>1, <1>2 DEF Tagged

\* The reader is not disturbed by a message that is cut.
LEMMA ReaderAppend ==
  ASSUME WriterInv, ReaderInv, FlowInv, UNCHANGED <<shape, rport, received>>,
         NEW msg \in WholeMessages, offered' = Append(offered, msg)
  PROVE  ReaderInv' /\ Current' = Current /\ NextPart' = NextPart
<1>1. /\ Len(offered) \in Nat /\ Len(offered') = Len(offered) + 1
      /\ \A n \in 1..Len(offered) : offered'[n] = offered[n]
  BY AppendFacts DEF WriterInv
<1>2. Current' = Current /\ Current = Len(received) + 1 /\ Len(received) \in Nat
  BY DEF Current, ReaderInv
<1>3. Current \leq Len(offered) => offered'[Current'] = offered[Current]
  BY <1>1, <1>2
<1>4. rport.translated # NoMessage => Current \leq Len(offered)
  BY DEF ReaderInv
<1>5. NextPart' = NextPart
  BY <1>3, <1>4 DEF NextPart
<1>6. received' \in Seq([fields : FieldsOf(shape'), list : Seq([id : Nat, elem : Nat])])
      /\ Len(received') \leq Len(offered')
  BY <1>1, <1>2 DEF ReaderInv
<1>7. ASSUME NEW n \in 1..Len(received') PROVE received'[n] = Whole(shape', offered'[n])
  <2>1. n \in 1..Len(received) /\ n \in 1..Len(offered)
    BY <1>1, <1>2 DEF ReaderInv
  <2> QED
    BY <1>1, <2>1 DEF ReaderInv
<1>8. ASSUME rport.translated = NoMessage
      PROVE  PartsTaken(shape, rport, offered'[Current'])
  <2>1. PartsTaken(shape, rport, offered[Current])
    BY <1>8 DEF ReaderInv
  <2>2. CASE Current \leq Len(offered)
    BY <1>3, <2>1, <2>2
  <2>3. CASE ~(Current \leq Len(offered))
    <3>0. PICK g \in Nat : g = FlowLen
      BY FlowTypes
    <3>1. PICK c, q : g = FlowLen /\ c = Current /\ q = NextPart
      BY <3>0
    <3>2. Cut(shape, offered, g, Flow, c, q)
      BY <3>1 DEF FlowInv
    <3>3. ~(c \in 1..Len(offered))
      BY <1>1, <1>2, <2>3, <3>1
    <3>4. q = 1
      BY <3>2, <3>3, CutCurrent
    <3>5. rport.nextFrame + Len(rport.list) = 1
      BY <1>8, <3>1, <3>4 DEF NextPart
    <3>6. rport.nextFrame \in Nat /\ rport.nextFrame \geq 1 /\ Len(rport.list) \in Nat
      <4>1. rport.nextFrame \in 1..Frames(shape) /\ rport.list \in Seq([id : Nat, elem : Nat])
        BY <2>1 DEF PartsTaken
      <4> QED
        BY <4>1
    <3>7. rport.nextFrame = 1 /\ Len(rport.list) = 0
      BY <3>5, <3>6
    <3>8. 1..(rport.nextFrame - 1) = {} /\ 1..Len(rport.list) = {}
      BY <3>7
    <3> QED
      BY <2>1, <3>8 DEF PartsTaken
  <2> QED
    BY <2>2, <2>3
<1>9. ASSUME rport.translated # NoMessage
      PROVE  Current' \leq Len(offered') /\ rport = Reset(shape, Whole(shape, offered'[Current']))
  <2>1. Current \leq Len(offered) /\ rport = Reset(shape, Whole(shape, offered[Current]))
    BY <1>9 DEF ReaderInv
  <2> QED
    BY <1>1, <1>2, <1>3, <2>1
<1>10. ReaderInv'
  BY <1>6, <1>7, <1>8, <1>9 DEF ReaderInv, NoMessage
<1> QED
  BY <1>2, <1>5, <1>10

\* A message that is cut as a whole, while everything cut before is in the backend.
LEMMA TranslateCore ==
  ASSUME shape \in ListIsLast, WriterInv, ReaderInv, FlowInv,
         UNCHANGED <<shape, rport, received, link>>, Unsent = Len(wport.buf) + 1,
         NEW msg \in AnyMessage, shape.list /\ msg.kind = "good" => msg.len > 0,
         ~Throws(msg), wport' = [buf |-> FramesOf(msg), idx |-> 1], Unsent' = 1,
         offered' = Append(offered, msg)
  PROVE  /\ FlowInv' /\ ReaderInv' /\ offered' \in Seq(WholeMessages)
         /\ wport'.buf \in Seq(AnyFrame) /\ wport'.idx \in 1..(Len(wport'.buf) + 1)
         /\ Len(wport'.buf) \in Nat
<1>1. msg \in WholeMessages /\ msg.kind = "good" /\ msg.len \in Nat
  BY DEF AnyMessage, WholeMessages, Throws
<1>2. offered \in Seq(WholeMessages) /\ Len(link) \in Nat /\ Len(wport.buf) \in Nat
  BY FlowTypes DEF WriterInv
<1>3. offered' \in Seq(WholeMessages)
  BY <1>1, <1>2, AppendFacts
<1>4. PICK n \in Nat : n = Size(shape, msg) /\ n > 0
  BY <1>1, SizeFacts
<1>5. PICK B : B = FramesOf(msg)
  OBVIOUS
<1>6. B \in Seq(AnyFrame) /\ Len(B) = n /\ \A p \in 1..n : B[p] = FrameAt(shape, msg, p)
  BY <1>4, <1>5, FramesFacts
<1>7. wport'.buf = B /\ wport'.idx = 1
  BY <1>5
<1>8. 1 \in 1..(n + 1)
  OBVIOUS
<1>9. PICK g \in Nat : g = Len(link)
  BY <1>2
<1>10. FlowLen = g
  BY <1>2, <1>9 DEF FlowLen
<1>11. FlowLen' = g + n
  <2>1. FlowLen' = Len(link') + (Len(wport'.buf) + 1 - Unsent')
    BY DEF FlowLen
  <2>2. FlowLen' = g + (n + 1 - 1)
    BY <1>6, <1>7, <1>9, <2>1
  <2> QED
    BY <2>2
<1>12. PICK F, G : F = Flow /\ G = Flow'
  OBVIOUS
<1>13. ASSUME NEW i \in 1..g PROVE G[i] = F[i]
  <2>1. i \in 1..FlowLen /\ i \in 1..FlowLen' /\ i \leq Len(link)
    BY <1>4, <1>9, <1>10, <1>11
  <2>2. FlowAt(i) = link[i] /\ FlowAt(i)' = link[i]
    BY <2>1 DEF FlowAt
  <2> QED
    BY <1>12, <2>1, <2>2 DEF Flow
<1>14. ASSUME NEW p \in 1..n PROVE G[g + p] = FrameAt(shape, msg, p)
  <2>1. PICK i \in 1..(g + n) : i = g + p
    BY <1>4
  <2>2. G[i] = FlowAt(i)'
    BY <1>11, <1>12, <2>1 DEF Flow
  <2>3. ~(i \leq g) /\ i - g + 1 - 1 = p
    BY <2>1
  <2>4. FlowAt(i)' = B[p]
    <3>1. FlowAt(i)' = IF i \leq Len(link') THEN link'[i]
                       ELSE wport'.buf[i - Len(link') + Unsent' - 1]
      BY DEF FlowAt
    <3>2. FlowAt(i)' = IF i \leq g THEN link'[i] ELSE B[i - g + 1 - 1]
      BY <1>7, <1>9, <3>1
    <3> QED
      BY <2>3, <3>2
  <2> QED
    BY <1>6, <2>1, <2>2, <2>4
<1>15. PICK c, q : c = Current /\ q = NextPart
  OBVIOUS
<1>16. Cut(shape, offered, g, F, c, q)
  BY <1>10, <1>12, <1>15 DEF FlowInv
<1>17. Cut(shape, Append(offered, msg), g + n, G, c, q)
  BY <1>1, <1>2, <1>4, <1>13, <1>14, <1>16, CutAppend
<1>18. ReaderInv' /\ Current' = c /\ NextPart' = q
  BY <1>1, <1>15, ReaderAppend
<1>19. FlowInv'
  BY <1>11, <1>12, <1>17, <1>18 DEF FlowInv
<1> QED
  BY <1>3, <1>6, <1>7, <1>8, <1>18, <1>19

\* What translateOutgoing may throw leaves no frame behind when the call stays clean.
LEMMA ThrowsClean ==
  ASSUME NEW w, NEW msg, NEW pc, TranslateOutgoing(w, msg, pc), clean', Throws(msg),
         w = NoFrames
  PROVE  wport' = NoFrames /\ call' = Idle /\ offered' = offered
<1>1. FramesOf(msg) = <<>>
  BY DEF TranslateOutgoing
<1>2. wport' = [w EXCEPT !.buf = w.buf \o <<>>]
  BY <1>1 DEF TranslateOutgoing
<1>3. <<>> \o <<>> = <<>>
  OBVIOUS
<1>4. wport' = [buf |-> <<>> \o <<>>, idx |-> 1]
  BY <1>2 DEF NoFrames
<1> QED
  BY <1>3, <1>4 DEF TranslateOutgoing, NoFrames

LEMMA TranslatesAll ==
  ASSUME shape \in ListIsLast, NEW w, NEW msg \in AnyMessage, NEW pc, TranslateOutgoing(w, msg, pc),
         ~Throws(msg), w = NoFrames
  PROVE  /\ wport' = [buf |-> FramesOf(msg), idx |-> 1]
         /\ call' = [pc |-> pc, msg |-> msg, i |-> 1] /\ offered' = Append(offered, msg)
<1>1. PICK B \in Seq(AnyFrame) : B = FramesOf(msg)
  BY FramesFacts
<1>2. wport' = [buf |-> <<>> \o B, idx |-> 1]
  BY <1>1 DEF TranslateOutgoing, NoFrames
<1>3. <<>> \o B = B
  OBVIOUS
<1> QED
  BY <1>1, <1>2, <1>3 DEF TranslateOutgoing

LEMMA WriteCore == shape \in ListIsLast /\ Core /\ Write /\ clean' => Core'
<1> SUFFICES ASSUME shape \in ListIsLast, Core, Write, clean' PROVE Core'
  OBVIOUS
<1>1. WriterInv /\ ReaderInv /\ FlowInv
  BY DEF Core
<1>2. UNCHANGED <<shape, link, pending, rport, received>> /\ calls' = calls + 1
      /\ ~pending /\ call.pc = "idle"
  BY DEF Write, readerVars
<1>3. PICK msg : /\ msg \in AnyMessage /\ (shape.list /\ msg.kind = "good" => msg.len > 0)
                 /\ TranslateOutgoing(wport, msg, "write")
  <2>1. PICK source \in Sources : TranslateOutgoing(wport, Message(source), "write")
    BY DEF Write
  <2>2. calls \in Nat
    BY <1>1 DEF WriterInv
  <2> QED
    BY <2>1, <2>2, MessageFacts
<1>4. wport = NoFrames
  BY <1>1, <1>2 DEF WriterInv
<1>5. Unsent = Len(wport.buf) + 1 /\ Unsent = 1
  BY <1>2, <1>4 DEF Unsent, NoFrames
<1>6. /\ link' \in Seq(AnyFrame)' /\ calls' \in Nat /\ pending' \in BOOLEAN
  BY <1>1, <1>2 DEF WriterInv, AnyFrame
<1>7. CASE Throws(msg)
  <2>1. wport' = wport /\ call' = Idle /\ offered' = offered
    BY <1>3, <1>4, <1>7, ThrowsClean
  <2>2. Unsent' = Unsent
    BY <1>4, <1>5, <2>1 DEF Unsent, Idle, NoFrames
  <2>3. FlowInv'
    BY <1>1, <1>2, <2>1, <2>2, FlowKept
  <2>4. ReaderInv'
    BY <1>1, <1>2, <2>1, ReaderStill
  <2>5. WriterInv'
    <3>1. call'.pc = "idle" /\ call' = [pc |-> call'.pc, msg |-> call'.msg, i |-> call'.i]
      BY <2>1 DEF Idle
    <3>2. /\ wport'.buf \in Seq(AnyFrame)' /\ wport'.idx \in 1..(Len(wport'.buf) + 1)
          /\ wport' = [buf |-> wport'.buf, idx |-> wport'.idx]
          /\ offered' \in Seq(WholeMessages)' /\ wport' = NoFrames'
      BY <1>1, <1>2, <1>4, <2>1 DEF WriterInv, WholeMessages, AnyFrame, NoFrames
    <3> QED
      BY <1>6, <3>1, <3>2 DEF WriterInv
  <2> QED
    BY <2>3, <2>4, <2>5 DEF Core
<1>8. CASE ~Throws(msg)
  <2>1. /\ wport' = [buf |-> FramesOf(msg), idx |-> 1]
        /\ call' = [pc |-> "write", msg |-> msg, i |-> 1] /\ offered' = Append(offered, msg)
    BY <1>3, <1>4, <1>8, TranslatesAll
  <2>2. Unsent' = 1
    BY <2>1 DEF Unsent
  <2>3. /\ FlowInv' /\ ReaderInv' /\ offered' \in Seq(WholeMessages)
        /\ wport'.buf \in Seq(AnyFrame) /\ wport'.idx \in 1..(Len(wport'.buf) + 1)
        /\ Len(wport'.buf) \in Nat
    BY <1>1, <1>2, <1>3, <1>5, <1>8, <2>1, <2>2, TranslateCore
  <2>4. WriterInv'
    <3>1. /\ call'.pc = "write" /\ call' = [pc |-> call'.pc, msg |-> call'.msg, i |-> call'.i]
          /\ wport'.idx = 1 /\ ~pending' /\ call'.i \in 1..(Len(wport'.buf) + 1)
      BY <1>2, <2>1, <2>3
    <3>2. wport' = [buf |-> wport'.buf, idx |-> wport'.idx]
      BY <2>1
    <3>3. WholeMessages' = WholeMessages /\ AnyFrame' = AnyFrame
      BY <1>2 DEF WholeMessages, AnyFrame
    <3> QED
      BY <1>6, <2>3, <3>1, <3>2, <3>3 DEF WriterInv
  <2> QED
    BY <2>3, <2>4 DEF Core
<1> QED
  BY <1>7, <1>8

LEMMA FlushDoneCore == shape \in ListIsLast /\ Core /\ FlushDone /\ clean' => Core'
<1> SUFFICES ASSUME shape \in ListIsLast, Core, FlushDone, clean' PROVE Core'
  OBVIOUS
<1>1. WriterInv /\ ReaderInv /\ FlowInv
  BY DEF Core
<1>2. UNCHANGED <<shape, link, calls, rport, received>> /\ wport.idx > Len(wport.buf)
      /\ call.pc \in {"tryOld", "tryNew", "flush"}
  BY DEF FlushDone, Flushing, readerVars
<1>3. Unsent = Len(wport.buf) + 1
  <2>1. Unsent = wport.idx
    BY <1>2 DEF Unsent
  <2> QED
    BY <1>1, <1>2, <2>1, FlowTypes
<1>4. /\ link' \in Seq(AnyFrame)' /\ calls' \in Nat
  BY <1>1, <1>2 DEF WriterInv, AnyFrame
<1>5. ASSUME wport' = NoFrames, call' = Idle, offered' = offered, pending' \in BOOLEAN
      PROVE  Core'
  <2>1. Unsent' = 1 /\ wport'.buf = <<>>
    BY <1>5 DEF Unsent, Idle, NoFrames
  <2>2. FlowInv'
    BY <1>1, <1>2, <1>3, <1>5, <2>1, FlowEmptied
  <2>3. ReaderInv'
    BY <1>1, <1>2, <1>5, ReaderStill
  <2>4. WriterInv'
    <3>1. call'.pc = "idle" /\ call' = [pc |-> call'.pc, msg |-> call'.msg, i |-> call'.i]
      BY <1>5 DEF Idle
    <3>2. /\ wport'.buf \in Seq(AnyFrame)' /\ wport'.idx \in 1..(Len(wport'.buf) + 1)
          /\ wport' = [buf |-> wport'.buf, idx |-> wport'.idx] /\ wport' = NoFrames'
      BY <1>5 DEF NoFrames
    <3>3. offered' \in Seq(WholeMessages)'
      BY <1>1, <1>2, <1>5 DEF WriterInv, WholeMessages
    <3> QED
      BY <1>4, <1>5, <3>1, <3>2, <3>3 DEF WriterInv
  <2> QED
    BY <2>2, <2>3, <2>4 DEF Core
<1>6. CASE call.pc # "tryOld"
  <2>1. wport' = NoFrames /\ call' = Idle /\ offered' = offered /\ pending' \in BOOLEAN
    BY <1>6 DEF FlushDone
  <2> QED
    BY <1>5, <2>1
<1>7. CASE call.pc = "tryOld"
  <2>1. PICK msg : /\ msg \in AnyMessage /\ (shape.list /\ msg.kind = "good" => msg.len > 0)
                   /\ TranslateOutgoing(NoFrames, msg, "tryNew")
    BY <1>1, <1>7 DEF WriterInv, FlushDone
  <2>2. pending' \in BOOLEAN
    BY <1>1, <1>7 DEF WriterInv, FlushDone
  <2>3. CASE Throws(msg)
    <3>1. wport' = NoFrames /\ call' = Idle /\ offered' = offered
      BY <2>1, <2>3, ThrowsClean
    <3> QED
      BY <1>5, <2>2, <3>1
  <2>4. CASE ~Throws(msg)
    <3>1. /\ wport' = [buf |-> FramesOf(msg), idx |-> 1]
          /\ call' = [pc |-> "tryNew", msg |-> msg, i |-> 1] /\ offered' = Append(offered, msg)
      BY <2>1, <2>4, TranslatesAll
    <3>2. Unsent' = 1
      BY <3>1 DEF Unsent
    <3>3. /\ FlowInv' /\ ReaderInv' /\ offered' \in Seq(WholeMessages)
          /\ wport'.buf \in Seq(AnyFrame) /\ wport'.idx \in 1..(Len(wport'.buf) + 1)
      BY <1>1, <1>2, <1>3, <2>1, <2>4, <3>1, <3>2, TranslateCore
    <3>4. WriterInv'
      <4>1. /\ call'.pc = "tryNew" /\ call' = [pc |-> call'.pc, msg |-> call'.msg, i |-> call'.i]
        BY <3>1
      <4>2. wport' = [buf |-> wport'.buf, idx |-> wport'.idx]
        BY <3>1
      <4>3. WholeMessages' = WholeMessages /\ AnyFrame' = AnyFrame
        BY <1>2 DEF WholeMessages, AnyFrame
      <4> QED
        BY <1>4, <2>2, <3>3, <4>1, <4>2, <4>3 DEF WriterInv
    <3> QED
      BY <3>3, <3>4 DEF Core
  <2> QED
    BY <2>3, <2>4
<1> QED
  BY <1>6, <1>7

-----------------------------------------------------------------------------
(* The reader *)

LEMMA WindowFacts ==
  ASSUME shape \in ListIsLast
  PROVE  /\ Frames(shape) \in Nat \ {0} /\ NumFrames = Frames(shape) /\ Places = 1..Frames(shape)
         /\ \A msg : Translated(msg) = Whole(shape, msg)
         /\ ResetReader = Reset(shape, NoMessage)
<1>1. Frames(shape) \in Nat \ {0}
  <2>1. CASE shape.list
    BY <2>1, ShapeFacts DEF Frames
  <2>2. CASE ~shape.list
    BY <2>2, ShapeFacts DEF Frames
  <2> QED
    BY <2>1, <2>2
<1>2. NumFrames = Frames(shape) /\ Places = 1..Frames(shape)
  BY ShapeFacts DEF NumFrames, Frames, Places
<1>3. \A msg : Translated(msg) = Whole(shape, msg)
  BY <1>2 DEF Translated, Whole
<1>4. ResetReader = Reset(shape, NoMessage)
  BY <1>2 DEF ResetReader, Reset, Blank
<1> QED
  BY <1>1, <1>2, <1>3, <1>4

LEMMA WholeFacts ==
  ASSUME NEW s, NEW msg, msg.id \in Nat, msg.len \in Nat, Frames(s) \in Nat
  PROVE  /\ Whole(s, msg) \in [fields : FieldsOf(s), list : Seq([id : Nat, elem : Nat])]
         /\ Whole(s, msg) # NoMessage
<1>1. [i \in 1..Frames(s) |-> [id |-> msg.id, place |-> i]] \in FieldsOf(s)
  BY DEF FieldsOf
<1>2. [k \in 1..msg.len |-> [id |-> msg.id, elem |-> k]] \in Seq([id : Nat, elem : Nat])
  <2>0. PICK n \in Nat : n = msg.len
    OBVIOUS
  <2>1. PICK S, e : /\ n = msg.len /\ S = [id : Nat, elem : Nat]
                    /\ e = [k \in 1..n |-> [id |-> msg.id, elem |-> k]]
    BY <2>0
  <2>2. \A k \in 1..n : e[k] \in S
    BY <2>1
  <2>3. e = [k \in 1..n |-> e[k]]
    BY <2>1
  <2>4. e \in Seq(S)
    BY <2>2, <2>3
  <2> QED
    BY <2>1, <2>4
<1>3. (IF s.list THEN [k \in 1..msg.len |-> [id |-> msg.id, elem |-> k]] ELSE <<>>)
        \in Seq([id : Nat, elem : Nat])
  BY <1>2
<1>4. Whole(s, msg) \in [fields : FieldsOf(s), list : Seq([id : Nat, elem : Nat])]
  BY <1>1, <1>3 DEF Whole
<1>5. DOMAIN Whole(s, msg) = {"fields", "list"} /\ DOMAIN NoMessage = {"none"}
  BY DEF Whole, NoMessage
<1>6. "fields" # "none"
  OBVIOUS
<1> QED
  BY <1>4, <1>5, <1>6

\* A reader that was reset has taken no part of any message.
LEMMA ResetTakesNone ==
  ASSUME NEW s, NEW msg, Frames(s) \in Nat \ {0}
  PROVE  PartsTaken(s, Reset(s, NoMessage), msg)
<1>1. PICK r : r = Reset(s, NoMessage)
  OBVIOUS
<1>2. /\ r.nextFrame = 1 /\ r.accumulating = FALSE /\ r.list = <<>>
      /\ r.fields = [i \in 1..Frames(s) |-> [id |-> 0, place |-> 0]]
      /\ r = [nextFrame |-> r.nextFrame, accumulating |-> r.accumulating,
              fields |-> r.fields, list |-> r.list, translated |-> NoMessage]
  BY <1>1 DEF Reset
<1>3. r.fields \in FieldsOf(s) /\ r.nextFrame \in 1..Frames(s)
  BY <1>2 DEF FieldsOf
<1>4. 1..(r.nextFrame - 1) = {} /\ 1..Len(r.list) = {}
  BY <1>2
<1>5. PartsTaken(s, r, msg)
  <2>1. r.accumulating \in BOOLEAN /\ ~r.accumulating
    BY <1>2
  <2>2. \A i \in 1..(r.nextFrame - 1) : r.fields[i] = [id |-> msg.id, place |-> i]
    BY <1>4
  <2>3. \A k \in 1..Len(r.list) : r.list[k] = [id |-> msg.id, elem |-> k]
    BY <1>4
  <2>4. r.list = <<>>
    BY <1>2
  <2>6. r.list \in Seq([id : Nat, elem : Nat])
    <3>1. <<>> \in Seq([id : Nat, elem : Nat])
      OBVIOUS
    <3> QED
      BY <2>4, <3>1
  <2>5. r = [nextFrame |-> r.nextFrame, accumulating |-> r.accumulating,
             fields |-> r.fields, list |-> r.list, translated |-> NoMessage]
    BY <1>2
  <2> QED
    BY <1>3, <2>1, <2>2, <2>3, <2>4, <2>5, <2>6 DEF PartsTaken
<1> QED
  BY <1>1, <1>5

\* The part the reader waits for, when it is not in the list.
LEMMA ReadFixed ==
  ASSUME shape \in ListIsLast, NEW m \in WholeMessages, NEW q \in 1..shape.fixed,
         PartsTaken(shape, rport, m), q = rport.nextFrame + Len(rport.list),
         NEW r \in Incoming(FrameAt(shape, m, q))
  PROVE  IF q = Size(shape, m) THEN r = Reset(shape, Whole(shape, m))
         ELSE PartsTaken(shape, r, m) /\ r.nextFrame + Len(r.list) = q + 1
<1>1. /\ shape.fixed \in Nat /\ shape.list \in BOOLEAN /\ q \in Nat
      /\ m.id \in Nat /\ m.len \in Nat /\ (shape.list => m.len > 0)
  BY ShapeFacts DEF WholeMessages
<1>2. ~rport.accumulating /\ rport.list = <<>> /\ rport.nextFrame = q
  <2>1. rport.list \in Seq([id : Nat, elem : Nat]) /\ rport.nextFrame \in 1..Frames(shape)
    BY DEF PartsTaken
  <2>2. Len(rport.list) \in Nat /\ rport.nextFrame \in Int
    BY <2>1
  <2>3. rport.nextFrame # shape.fixed + 1
    BY <1>1, <2>2
  <2>4. ~rport.accumulating /\ rport.list = <<>>
    BY <2>3 DEF PartsTaken
  <2> QED
    BY <2>2, <2>4
<1>3. PICK base \in FieldsOf(shape) :
         /\ base = (IF rport.nextFrame = 1 /\ ~rport.accumulating THEN Blank ELSE rport.fields)
         /\ \A i \in 1..(q - 1) : base[i] = [id |-> m.id, place |-> i]
  <2>1. CASE q = 1
    <3>1. Blank \in FieldsOf(shape)
      BY WindowFacts DEF Blank, FieldsOf
    <3>2. 1..(q - 1) = {}
      BY <2>1
    <3> QED
      BY <1>2, <2>1, <3>1, <3>2
  <2>2. CASE q # 1
    <3>1. \A i \in 1..(q - 1) : rport.fields[i] = [id |-> m.id, place |-> i]
      BY <1>2 DEF PartsTaken
    <3>2. rport.fields \in FieldsOf(shape)
      BY DEF PartsTaken
    <3> QED
      BY <1>2, <2>2, <3>1, <3>2
  <2> QED
    BY <2>1, <2>2
<1>4. PICK fields : fields = [base EXCEPT ![q] = [id |-> m.id, place |-> q]]
  OBVIOUS
<1>5. Frames(shape) \in Nat /\ q \in 1..Frames(shape)
  BY <1>1, WindowFacts DEF Frames
<1>6. /\ fields \in FieldsOf(shape)
      /\ \A i \in 1..q : fields[i] = [id |-> m.id, place |-> i]
  <2>1. base \in [1..Frames(shape) -> [id : Nat, place : Nat]]
        /\ [id |-> m.id, place |-> q] \in [id : Nat, place : Nat]
    BY <1>1 DEF FieldsOf
  <2>2. fields \in FieldsOf(shape)
    BY <1>4, <2>1 DEF FieldsOf
  <2>3. ASSUME NEW i \in 1..q PROVE fields[i] = [id |-> m.id, place |-> i]
    <3>1. i \in 1..Frames(shape)
      BY <1>1, <1>5
    <3>2. CASE i = q
      BY <1>4, <1>5, <2>1, <3>2
    <3>3. CASE i # q
      <4>1. i \in 1..(q - 1)
        BY <1>1, <3>3
      <4>2. fields[i] = base[i]
        BY <1>4, <2>1, <3>1, <3>3
      <4> QED
        BY <1>3, <4>1, <4>2
    <3> QED
      BY <3>2, <3>3
  <2> QED
    BY <2>2, <2>3
<1>7. PICK f : f = FrameAt(shape, m, q)
  OBVIOUS
<1>8. f.id = m.id /\ f.place = q
  BY <1>7 DEF FrameAt
<1>9. ~(shape.list /\ rport.nextFrame = shape.fixed + 1)
  BY <1>1, <1>2
<1>10. r = IF q = Frames(shape)
           THEN [ResetReader EXCEPT !.translated = [fields |-> fields, list |-> <<>>]]
           ELSE [nextFrame |-> q + 1, accumulating |-> FALSE, fields |-> fields,
                 list |-> <<>>, translated |-> NoMessage]
  <2>1. WasLastFixed <=> q = Frames(shape)
    BY <1>2, WindowFacts DEF WasLastFixed
  <2>2. r \in Incoming(f)
    BY <1>7
  <2> QED
    BY <1>2, <1>3, <1>4, <1>8, <1>9, <2>1, <2>2 DEF Incoming
<1>11. q = Size(shape, m) <=> q = Frames(shape)
  BY <1>1 DEF Size, Frames
<1>12. CASE q = Frames(shape)
  <2>1. ~shape.list
    BY <1>1, <1>12 DEF Frames
  <2>2. fields = [i \in 1..Frames(shape) |-> [id |-> m.id, place |-> i]]
    BY <1>6, <1>12 DEF FieldsOf
  <2>3. [fields |-> fields, list |-> <<>>] = Whole(shape, m)
    BY <2>1, <2>2 DEF Whole
  <2>4. r = [ResetReader EXCEPT !.translated = Whole(shape, m)]
    BY <1>10, <1>12, <2>3
  <2>5. r = Reset(shape, Whole(shape, m))
    <3>1. ResetReader = Reset(shape, NoMessage)
      BY WindowFacts
    <3> QED
      BY <2>4, <3>1 DEF Reset
  <2> QED
    BY <1>11, <1>12, <2>5
<1>13. CASE q # Frames(shape)
  <2>1. r = [nextFrame |-> q + 1, accumulating |-> FALSE, fields |-> fields,
             list |-> <<>>, translated |-> NoMessage]
    BY <1>10, <1>13
  <2>2. q + 1 \in 1..Frames(shape) /\ (q + 1) - 1 = q /\ Len(<<>>) = 0
    BY <1>1, <1>5, <1>13
  <2>3. PartsTaken(shape, r, m)
    BY <1>6, <2>1, <2>2 DEF PartsTaken
  <2>4. r.nextFrame + Len(r.list) = q + 1
    BY <1>1, <2>1, <2>2
  <2> QED
    BY <1>11, <1>13, <2>3, <2>4
<1> QED
  BY <1>12, <1>13

\* The part the reader waits for, when it is an element of the list.
LEMMA ReadElement ==
  ASSUME shape \in ListIsLast, NEW m \in WholeMessages, NEW q \in 1..Size(shape, m),
         q > shape.fixed,
         PartsTaken(shape, rport, m), q = rport.nextFrame + Len(rport.list),
         NEW r \in Incoming(FrameAt(shape, m, q))
  PROVE  IF q = Size(shape, m) THEN r = Reset(shape, Whole(shape, m))
         ELSE PartsTaken(shape, r, m) /\ r.nextFrame + Len(r.list) = q + 1
<1>1. /\ shape.fixed \in Nat /\ shape.list \in BOOLEAN
      /\ m.id \in Nat /\ m.len \in Nat /\ (shape.list => m.len > 0)
  BY ShapeFacts DEF WholeMessages
<1>2. shape.list /\ Size(shape, m) = shape.fixed + m.len /\ q \in Nat
      /\ Frames(shape) = shape.fixed + 1
  BY <1>1 DEF Size, Frames
<1>3. PICK d \in Nat : d = shape.fixed
  BY <1>1
<1>4. PICK l \in Seq([id : Nat, elem : Nat]) : l = rport.list
  BY DEF PartsTaken
<1>5. rport.nextFrame = d + 1 /\ Len(l) = q - d - 1 /\ Len(l) \in Nat
  <2>1. rport.nextFrame \in 1..(d + 1)
    BY <1>2, <1>3 DEF PartsTaken
  <2>2. CASE rport.accumulating
    <3>1. rport.nextFrame = d + 1
      BY <1>3, <2>2 DEF PartsTaken
    <3>2. PICK n \in Nat : n = Len(l)
      BY <1>4
    <3>3. q = (d + 1) + n
      BY <1>4, <3>1, <3>2
    <3>4. n = q - d - 1
      BY <3>3
    <3> QED
      BY <3>1, <3>2, <3>4
  <2>3. CASE ~rport.accumulating
    <3>1. l = <<>>
      BY <1>4, <2>3 DEF PartsTaken
    <3>2. rport.nextFrame = q
      BY <1>4, <2>1, <3>1
    <3> QED
      BY <1>2, <1>3, <2>1, <3>1, <3>2
  <2> QED
    BY <2>2, <2>3
<1>6. (rport.nextFrame = 1 /\ ~rport.accumulating) => l = <<>>
  BY <1>4 DEF PartsTaken
<1>7. PICK base \in FieldsOf(shape) :
         /\ base = (IF rport.nextFrame = 1 /\ ~rport.accumulating THEN Blank ELSE rport.fields)
         /\ \A i \in 1..d : base[i] = [id |-> m.id, place |-> i]
  <2>1. CASE rport.nextFrame = 1 /\ ~rport.accumulating
    <3>1. Blank \in FieldsOf(shape)
      BY WindowFacts DEF Blank, FieldsOf
    <3>2. 1..d = {}
      BY <1>5, <2>1
    <3> QED
      BY <2>1, <3>1, <3>2
  <2>2. CASE ~(rport.nextFrame = 1 /\ ~rport.accumulating)
    <3>0. rport.nextFrame - 1 = d
      BY <1>5
    <3>1. \A i \in 1..d : rport.fields[i] = [id |-> m.id, place |-> i]
      BY <3>0 DEF PartsTaken
    <3>2. rport.fields \in FieldsOf(shape)
      BY DEF PartsTaken
    <3> QED
      BY <2>2, <3>1, <3>2
  <2> QED
    BY <2>1, <2>2
<1>8. PICK fields : fields = [base EXCEPT ![d + 1] = [id |-> m.id, place |-> d + 1]]
  OBVIOUS
<1>9. /\ fields \in FieldsOf(shape)
      /\ \A i \in 1..(d + 1) : fields[i] = [id |-> m.id, place |-> i]
  <2>1. base \in [1..(d + 1) -> [id : Nat, place : Nat]]
        /\ [id |-> m.id, place |-> d + 1] \in [id : Nat, place : Nat] /\ d + 1 \in 1..(d + 1)
    BY <1>1, <1>2, <1>3 DEF FieldsOf
  <2>2. fields \in FieldsOf(shape)
    BY <1>2, <1>3, <1>8, <2>1 DEF FieldsOf
  <2>3. ASSUME NEW i \in 1..(d + 1) PROVE fields[i] = [id |-> m.id, place |-> i]
    <3>2. CASE i = d + 1
      BY <1>8, <2>1, <3>2
    <3>3. CASE i # d + 1
      <4>1. i \in 1..d
        BY <3>3
      <4>2. fields[i] = base[i]
        BY <1>8, <2>1, <3>3
      <4> QED
        BY <1>7, <4>1, <4>2
    <3> QED
      BY <3>2, <3>3
  <2> QED
    BY <2>2, <2>3
<1>10. PICK f : f = FrameAt(shape, m, q)
  OBVIOUS
<1>11. /\ f.id = m.id /\ f.place = d + 1 /\ f.elem = q - d
       /\ f.last = (q = Size(shape, m))
  <2>1. ~(q \leq shape.fixed)
    BY <1>1, <1>2
  <2>2. f = [id |-> m.id, place |-> d + 1, elem |-> q - d, last |-> (q - d = m.len)]
    BY <1>3, <1>10, <2>1 DEF FrameAt
  <2>3. (q - d = m.len) = (q = Size(shape, m))
    BY <1>1, <1>2, <1>3
  <2> QED
    BY <2>2, <2>3
<1>12. PICK list : list = Append(l, [id |-> m.id, elem |-> q - d])
  OBVIOUS
<1>13. /\ list \in Seq([id : Nat, elem : Nat]) /\ Len(list) = q - d
       /\ \A k \in 1..(q - d) : list[k] = [id |-> m.id, elem |-> k]
  <2>1. [id |-> m.id, elem |-> q - d] \in [id : Nat, elem : Nat]
    BY <1>1, <1>2, <1>3
  <2>2. PICK e \in [id : Nat, elem : Nat] : e = [id |-> m.id, elem |-> q - d]
    BY <2>1
  <2>3. /\ list \in Seq([id : Nat, elem : Nat]) /\ Len(list) = Len(l) + 1
        /\ list[Len(l) + 1] = e /\ \A k \in 1..Len(l) : list[k] = l[k]
    BY <1>12, <2>2, AppendFacts
  <2>4. Len(list) = q - d
    BY <1>2, <1>5, <2>3
  <2>5. \A k \in 1..Len(l) : l[k] = [id |-> m.id, elem |-> k]
    BY <1>4 DEF PartsTaken
  <2>6. ASSUME NEW k \in 1..(q - d) PROVE list[k] = [id |-> m.id, elem |-> k]
    <3>1. CASE k = q - d
      <4>1. k = Len(l) + 1
        BY <1>2, <1>5, <3>1
      <4> QED
        BY <2>2, <2>3, <3>1, <4>1
    <3>2. CASE k # q - d
      <4>0. PICK n \in Nat, p \in Nat : n = Len(l) /\ p = q
        BY <1>2, <1>5
      <4>1. n + 1 = q - d
        <5>1. n = p - d - 1
          BY <1>5, <4>0
        <5>2. n + 1 = p - d
          BY <5>1
        <5> QED
          BY <4>0, <5>2
      <4>2. k \in 1..(n + 1) /\ k # n + 1
        BY <3>2, <4>1
      <4>3. k \in 1..n
        BY <4>2
      <4> QED
        BY <2>3, <2>5, <4>0, <4>3
    <3> QED
      BY <3>1, <3>2
  <2> QED
    BY <2>3, <2>4, <2>6
<1>14. shape.list /\ rport.nextFrame = shape.fixed + 1
  BY <1>2, <1>3, <1>5
<1>15. r = IF q = Size(shape, m)
           THEN [ResetReader EXCEPT !.translated = [fields |-> fields, list |-> list]]
           ELSE [nextFrame |-> d + 1, accumulating |-> TRUE, fields |-> fields,
                 list |-> list, translated |-> NoMessage]
  <2>1. r \in Incoming(f)
    BY <1>10
  <2>2. Append(IF rport.nextFrame = 1 /\ ~rport.accumulating THEN <<>> ELSE rport.list,
               [id |-> f.id, elem |-> f.elem]) = list
    BY <1>4, <1>6, <1>11, <1>12
  <2>3. [(IF rport.nextFrame = 1 /\ ~rport.accumulating THEN Blank ELSE rport.fields) EXCEPT
            ![rport.nextFrame] = [id |-> f.id, place |-> f.place]] = fields
    BY <1>5, <1>7, <1>8, <1>11
  <2>4. (IF f.place = rport.nextFrame THEN {f.last} ELSE BOOLEAN) = {q = Size(shape, m)}
    BY <1>5, <1>11
  <2>5. rport.nextFrame + 0 = d + 1
    BY <1>5
  <2> QED
    BY <1>14, <2>1, <2>2, <2>3, <2>4, <2>5 DEF Incoming
<1>16. CASE q = Size(shape, m)
  <2>1. q - d = m.len
    BY <1>1, <1>2, <1>3, <1>16
  <2>2. fields = [i \in 1..Frames(shape) |-> [id |-> m.id, place |-> i]]
    BY <1>2, <1>3, <1>9 DEF FieldsOf
  <2>3. list = [k \in 1..m.len |-> [id |-> m.id, elem |-> k]]
    <3>1. PICK n \in Nat : n = m.len
      BY <1>1
    <3>2. list \in Seq([id : Nat, elem : Nat]) /\ Len(list) = n
          /\ \A k \in 1..n : list[k] = [id |-> m.id, elem |-> k]
      BY <1>13, <2>1, <3>1
    <3>3. list = [k \in 1..n |-> list[k]]
      BY <3>2
    <3> QED
      BY <3>1, <3>2, <3>3
  <2>4. [fields |-> fields, list |-> list] = Whole(shape, m)
    BY <1>2, <2>2, <2>3 DEF Whole
  <2>5. r = [ResetReader EXCEPT !.translated = Whole(shape, m)]
    BY <1>15, <1>16, <2>4
  <2>6. ResetReader = Reset(shape, NoMessage)
    BY WindowFacts
  <2>7. r = Reset(shape, Whole(shape, m))
    BY <2>5, <2>6 DEF Reset
  <2> QED
    BY <1>16, <2>7
<1>17. CASE q # Size(shape, m)
  <2>1. r = [nextFrame |-> d + 1, accumulating |-> TRUE, fields |-> fields,
             list |-> list, translated |-> NoMessage]
    BY <1>15, <1>17
  <2>2. d + 1 \in 1..Frames(shape) /\ (d + 1) - 1 = d
    BY <1>2, <1>3
  <2>3. list # <<>>
    BY <1>2, <1>3, <1>5, <1>13
  <2>4. PartsTaken(shape, r, m)
    <3>1. /\ r.nextFrame = d + 1 /\ r.accumulating /\ r.accumulating \in BOOLEAN
          /\ r.fields = fields /\ r.list = list
          /\ r = [nextFrame |-> r.nextFrame, accumulating |-> r.accumulating,
                  fields |-> r.fields, list |-> r.list, translated |-> NoMessage]
      BY <2>1
    <3>2. \A i \in 1..(r.nextFrame - 1) : r.fields[i] = [id |-> m.id, place |-> i]
      BY <1>9, <2>2, <3>1
    <3>3. \A k \in 1..Len(r.list) : r.list[k] = [id |-> m.id, elem |-> k]
      BY <1>13, <3>1
    <3>4. r.nextFrame \in 1..Frames(shape) /\ r.nextFrame = shape.fixed + 1
      BY <1>3, <2>2, <3>1
    <3> QED
      BY <1>2, <1>9, <1>13, <2>3, <3>1, <3>2, <3>3, <3>4 DEF PartsTaken
  <2>5. r.nextFrame + Len(r.list) = q + 1
    BY <1>2, <1>13, <2>1
  <2> QED
    BY <1>17, <2>4, <2>5
<1> QED
  BY <1>16, <1>17

\* What the oldest frame of the backend leads to.
LEMMA ReadFrame ==
  ASSUME shape \in ListIsLast, Core, link # <<>>, NEW r \in AfterFrame
  PROVE  /\ FlowLen \in Nat /\ FlowLen > 0 /\ Current \in 1..Len(offered)
         /\ NextPart \in 1..Size(shape, offered[Current])
         /\ offered[Current] \in WholeMessages
         /\ IF NextPart = Size(shape, offered[Current])
            THEN r = Reset(shape, Whole(shape, offered[Current]))
            ELSE /\ PartsTaken(shape, r, offered[Current])
                 /\ r.nextFrame + Len(r.list) = NextPart + 1
<1>1. WriterInv /\ ReaderInv /\ FlowInv
  BY DEF Core
<1>2. link \in Seq(AnyFrame) /\ offered \in Seq(WholeMessages)
  BY <1>1 DEF WriterInv
<1>3. Len(link) \in Nat \ {0} /\ Head(link) = link[1]
  BY <1>2, TailFacts
<1>4. FlowLen \in Nat /\ FlowLen > 0 /\ FlowLen \geq Len(link)
  BY <1>1, <1>3, FlowTypes
<1>5. Flow[1] = Head(link)
  <2>1. 1 \in 1..FlowLen /\ 1 \leq Len(link)
    BY <1>3, <1>4
  <2>2. FlowAt(1) = link[1]
    BY <2>1 DEF FlowAt
  <2> QED
    BY <1>3, <2>1, <2>2 DEF Flow
<1>6. PICK c, q : c = Current /\ q = NextPart
  OBVIOUS
<1>7. /\ c \in 1..Len(offered) /\ q \in 1..Size(shape, offered[c])
      /\ Head(link) = FrameAt(shape, offered[c], q)
  <2>0. PICK g \in Nat : g = FlowLen /\ g > 0
    BY <1>4
  <2>1. PICK F : g = FlowLen /\ g > 0 /\ F = Flow
    BY <2>0
  <2>2. Cut(shape, offered, g, F, c, q)
    BY <1>1, <1>6, <2>1 DEF FlowInv
  <2>3. c \in 1..Len(offered) /\ q \in 1..Size(shape, offered[c])
        /\ F[1] = FrameAt(shape, offered[c], q)
    BY <2>1, <2>2, CutHead
  <2> QED
    BY <1>5, <2>1, <2>3
<1>8. PICK m \in WholeMessages : m = offered[c]
  BY <1>2, <1>7
<1>9. IF q = Size(shape, m) THEN r = Reset(shape, Whole(shape, m))
      ELSE PartsTaken(shape, r, m) /\ r.nextFrame + Len(r.list) = q + 1
  <2>1. CASE rport.translated # NoMessage
    <3>1. r = rport
      BY <2>1 DEF AfterFrame
    <3>2. q = Size(shape, m)
      BY <1>6, <1>8, <2>1 DEF NextPart
    <3>3. rport = Reset(shape, Whole(shape, m))
      BY <1>1, <1>6, <1>8, <2>1 DEF ReaderInv
    <3> QED
      BY <3>1, <3>2, <3>3
  <2>2. CASE rport.translated = NoMessage
    <3>1. r \in Incoming(FrameAt(shape, m, q))
      BY <1>7, <1>8, <2>2 DEF AfterFrame
    <3>2. PartsTaken(shape, rport, m)
      BY <1>1, <1>6, <1>8, <2>2 DEF ReaderInv
    <3>3. q = rport.nextFrame + Len(rport.list)
      BY <1>6, <2>2 DEF NextPart
    <3>4. PICK n \in Nat : n = Size(shape, m)
      BY SizeFacts DEF WholeMessages
    <3>5. q \in 1..n /\ shape.fixed \in Nat
      BY <1>7, <1>8, <3>4, ShapeFacts
    <3>6. CASE q \leq shape.fixed
      <4>1. q \in 1..shape.fixed
        BY <3>5, <3>6
      <4> QED
        BY <3>1, <3>2, <3>3, <4>1, ReadFixed
    <3>7. CASE q > shape.fixed
      <4>1. q \in 1..Size(shape, m)
        BY <1>7, <1>8
      <4> QED
        BY <3>1, <3>2, <3>3, <3>7, <4>1, ReadElement
    <3> QED
      BY <3>5, <3>6, <3>7
  <2> QED
    BY <2>1, <2>2
<1> QED
  BY <1>4, <1>6, <1>7, <1>8, <1>9

\* A frame leaves the backend.
LEMMA LinkTail ==
  ASSUME shape \in ListIsLast, Core, link # <<>>, UNCHANGED <<shape, writerVars>>,
         link' = Tail(link), Current \in Nat, NextPart \in Nat,
         \/ /\ NextPart # Size(shape, offered[Current])
            /\ Current' = Current /\ NextPart' = NextPart + 1
         \/ /\ NextPart = Size(shape, offered[Current])
            /\ Current' = Current + 1 /\ NextPart' = 1
  PROVE  WriterInv' /\ FlowInv'
<1>1. WriterInv /\ FlowInv
  BY DEF Core
<1>2. /\ Len(link) \in Nat \ {0} /\ Tail(link) \in Seq(AnyFrame)
      /\ Len(link') = Len(link) - 1
      /\ \A i \in 1..(Len(link) - 1) : link'[i] = link[i + 1]
  BY <1>1, TailFacts DEF WriterInv
<1>3. UNCHANGED <<shape, wport, call, offered, pending, clean, calls>>
  BY DEF writerVars
<1>4. WriterInv'
  <2>1. AnyFrame' = AnyFrame /\ WholeMessages' = WholeMessages /\ AnyMessage' = AnyMessage
        /\ NoFrames' = NoFrames
    BY <1>3 DEF AnyFrame, WholeMessages, AnyMessage, NoFrames
  <2> QED
    BY <1>1, <1>2, <1>3, <2>1 DEF WriterInv
<1>5. PICK b, u, l \in Nat : b = Len(wport.buf) /\ u = Unsent /\ l = Len(link) /\ l > 0
                             /\ u \leq b + 1
  <2>1. Unsent \in 1..(Len(wport.buf) + 1) /\ Len(link) \in Nat /\ Len(wport.buf) \in Nat
    BY <1>1, FlowTypes
  <2>2. PICK b \in Nat, l \in Nat : b = Len(wport.buf) /\ l = Len(link)
    BY <2>1
  <2>3. Unsent \in 1..(b + 1) /\ l > 0
    BY <1>2, <2>1, <2>2
  <2>4. Unsent \in Nat /\ Unsent \leq b + 1
    BY <2>3
  <2> QED
    BY <2>2, <2>3, <2>4
<1>6. Len(wport'.buf) = b /\ Unsent' = u /\ Len(link') = l - 1
  BY <1>2, <1>3, <1>5 DEF Unsent
<1>7. FlowLen = l + (b + 1 - u)
  BY <1>5 DEF FlowLen
<1>8. FlowLen' = (l - 1) + (b + 1 - u)
  BY <1>6 DEF FlowLen
<1>90. PICK g \in Nat : g = FlowLen /\ g > 0
  <2>1. l + (b + 1 - u) \in Nat /\ l + (b + 1 - u) > 0
    BY <1>5
  <2> QED
    BY <1>7, <2>1
<1>9. PICK F, G : g = FlowLen /\ g > 0 /\ F = Flow /\ G = Flow'
  BY <1>90
<1>10. FlowLen' = g - 1
  BY <1>5, <1>7, <1>8, <1>9
<1>11. ASSUME NEW i \in 1..(g - 1) PROVE G[i] = F[i + 1]
  <2>1. i + 1 \in 1..g /\ i \in Nat /\ i \geq 1
    BY <1>9
  <2>2. G[i] = FlowAt(i)'
    BY <1>9, <1>10 DEF Flow
  <2>3. PICK j \in 1..g : j = i + 1
    BY <2>1
  <2>4. F[j] = FlowAt(j)
    BY <1>9 DEF Flow
  <2>5. FlowAt(i)' = IF i \leq l - 1 THEN link'[i] ELSE wport.buf[i - (l - 1) + u - 1]
    <3>1. FlowAt(i)' = IF i \leq Len(link') THEN link'[i]
                       ELSE wport'.buf[i - Len(link') + Unsent' - 1]
      BY DEF FlowAt
    <3> QED
      BY <1>3, <1>6, <3>1
  <2>6. FlowAt(j) = IF j \leq l THEN link[j] ELSE wport.buf[j - l + u - 1]
    BY <1>5 DEF FlowAt
  <2>7. CASE i \leq l - 1
    <3>1. i \in 1..(Len(link) - 1) /\ j \leq l
      BY <1>5, <2>1, <2>3, <2>7
    <3>2. link'[i] = link[j]
      BY <1>2, <2>3, <3>1
    <3> QED
      BY <2>2, <2>3, <2>4, <2>5, <2>6, <2>7, <3>1, <3>2
  <2>8. CASE ~(i \leq l - 1)
    <3>1. ~(j \leq l) /\ i - (l - 1) + u - 1 = j - l + u - 1
      BY <1>5, <2>1, <2>3, <2>8
    <3> QED
      BY <2>2, <2>3, <2>4, <2>5, <2>6, <2>8, <3>1
  <2> QED
    BY <2>7, <2>8
<1>120. PICK c \in Nat, q \in Nat : c = Current /\ q = NextPart
  OBVIOUS
<1>12. PICK d, r : c = Current /\ q = NextPart /\ d = Current' /\ r = NextPart'
  BY <1>120
<1>13. Cut(shape, offered, g, F, c, q)
  BY <1>1, <1>9, <1>12 DEF FlowInv
<1>14. \/ q # Size(shape, offered[c]) /\ d = c /\ r = q + 1
       \/ q = Size(shape, offered[c]) /\ d = c + 1 /\ r = 1
  BY <1>12
<1>15. Cut(shape, offered, g - 1, G, d, r)
  BY <1>9, <1>11, <1>13, <1>14, CutTail
<1>16. FlowInv'
  BY <1>3, <1>9, <1>10, <1>12, <1>15 DEF FlowInv
<1> QED
  BY <1>4, <1>16

LEMMA TakeFrameCore == shape \in ListIsLast /\ Core /\ TakeFrame => Core'
<1> SUFFICES ASSUME shape \in ListIsLast, Core, TakeFrame PROVE Core'
  OBVIOUS
<1>1. PICK r \in AfterFrame : r.translated = NoMessage /\ rport' = r
  BY DEF TakeFrame
<1>2. /\ link # <<>> /\ link' = Tail(link)
      /\ UNCHANGED <<shape, writerVars, received, offered>>
  BY DEF TakeFrame, writerVars
<1>3. PICK m, q, c, n : m = offered[Current] /\ q = NextPart /\ c = Current /\ n = Size(shape, m)
  OBVIOUS
<1>4. /\ c \in 1..Len(offered) /\ q \in 1..n /\ m \in WholeMessages
      /\ IF q = n THEN r = Reset(shape, Whole(shape, m))
         ELSE PartsTaken(shape, r, m) /\ r.nextFrame + Len(r.list) = q + 1
  BY <1>1, <1>2, <1>3, ReadFrame
<1>5. q # n
  <2>1. SUFFICES ASSUME q = n PROVE FALSE
    OBVIOUS
  <2>2. r.translated = Whole(shape, m)
    BY <1>4, <2>1 DEF Reset
  <2>3. Frames(shape) \in Nat /\ m.id \in Nat /\ m.len \in Nat
    BY <1>4, WindowFacts DEF WholeMessages
  <2> QED
    BY <1>1, <2>2, <2>3, WholeFacts
<1>6. PartsTaken(shape, r, m) /\ r.nextFrame + Len(r.list) = q + 1
  BY <1>4, <1>5
<1>7. Current' = c /\ NextPart' = q + 1
  BY <1>1, <1>2, <1>3, <1>6 DEF Current, NextPart, NoMessage
<1>8. c \in Nat /\ q \in Nat
  BY <1>4
<1>9. WriterInv' /\ FlowInv'
  BY <1>2, <1>3, <1>5, <1>7, <1>8, LinkTail
<1>10. ReaderInv'
  <2>1. WriterInv /\ ReaderInv
    BY DEF Core
  <2>2. PartsTaken(shape', rport', offered'[Current']) /\ rport'.translated = NoMessage'
    BY <1>1, <1>2, <1>3, <1>6, <1>7 DEF NoMessage
  <2> QED
    BY <1>2, <2>1, <2>2 DEF ReaderInv
<1> QED
  BY <1>9, <1>10 DEF Core

LEMMA RefuseMessageCore == shape \in ListIsLast /\ Core /\ RefuseMessage => Core'
<1> SUFFICES ASSUME shape \in ListIsLast, Core, RefuseMessage PROVE Core'
  OBVIOUS
<1>0. WriterInv /\ ReaderInv /\ FlowInv
  BY DEF Core
<1>1. PICK r \in AfterFrame : r.translated # NoMessage /\ rport' = r
  BY DEF RefuseMessage
<1>2. /\ link # <<>>
      /\ UNCHANGED <<shape, writerVars, received, offered, link, wport, call, pending, calls>>
  BY DEF RefuseMessage, writerVars
<1>3. PICK m, q, c, n : m = offered[Current] /\ q = NextPart /\ c = Current /\ n = Size(shape, m)
  OBVIOUS
<1>4. /\ c \in 1..Len(offered) /\ q \in 1..n
      /\ IF q = n THEN r = Reset(shape, Whole(shape, m))
         ELSE PartsTaken(shape, r, m) /\ r.nextFrame + Len(r.list) = q + 1
  BY <1>1, <1>2, <1>3, ReadFrame
<1>5. q = n
  <2>1. SUFFICES ASSUME q # n PROVE FALSE
    OBVIOUS
  <2>2. r.translated = NoMessage
    BY <1>4, <2>1 DEF PartsTaken
  <2> QED
    BY <1>1, <2>2
<1>6. Current' = Current /\ NextPart' = NextPart
  BY <1>1, <1>2, <1>3, <1>5 DEF Current, NextPart, Size, NoMessage
<1>7. Unsent' = Unsent /\ FlowLen' = FlowLen
  BY <1>2 DEF Unsent, FlowLen
<1>8. \A i \in 1..FlowLen : FlowAt(i)' = FlowAt(i)
  BY <1>2, <1>7 DEF FlowAt
<1>9. FlowInv'
  BY <1>0, <1>2, <1>6, <1>7, <1>8, FlowRests
<1>10. WriterInv'
  <2>1. AnyFrame' = AnyFrame /\ WholeMessages' = WholeMessages /\ AnyMessage' = AnyMessage
        /\ NoFrames' = NoFrames
    BY <1>2 DEF AnyFrame, WholeMessages, AnyMessage, NoFrames
  <2> QED
    BY <1>0, <1>2, <2>1 DEF WriterInv
<1>11. ReaderInv'
  <2>1. /\ Current' \leq Len(offered') /\ rport'.translated # NoMessage'
        /\ rport' = Reset(shape', Whole(shape', offered'[Current']))
    BY <1>1, <1>2, <1>3, <1>4, <1>5, <1>6 DEF NoMessage
  <2> QED
    BY <1>0, <1>2, <2>1 DEF ReaderInv
<1> QED
  BY <1>9, <1>10, <1>11 DEF Core

LEMMA AcceptMessageCore == shape \in ListIsLast /\ Core /\ AcceptMessage => Core'
<1> SUFFICES ASSUME shape \in ListIsLast, Core, AcceptMessage PROVE Core'
  OBVIOUS
<1>0. WriterInv /\ ReaderInv /\ FlowInv
  BY DEF Core
<1>1. PICK r \in AfterFrame : /\ r.translated # NoMessage
                              /\ received' = Append(received, r.translated)
                              /\ rport' = [r EXCEPT !.translated = NoMessage]
  BY DEF AcceptMessage
<1>2. /\ link # <<>> /\ link' = Tail(link) /\ UNCHANGED <<shape, writerVars, offered>>
  BY DEF AcceptMessage, writerVars
<1>3. PICK m, q, c, n : m = offered[Current] /\ q = NextPart /\ c = Current /\ n = Size(shape, m)
  OBVIOUS
<1>4. /\ c \in 1..Len(offered) /\ q \in 1..n /\ m \in WholeMessages
      /\ IF q = n THEN r = Reset(shape, Whole(shape, m))
         ELSE PartsTaken(shape, r, m) /\ r.nextFrame + Len(r.list) = q + 1
  BY <1>1, <1>2, <1>3, ReadFrame
<1>5. q = n
  <2>1. SUFFICES ASSUME q # n PROVE FALSE
    OBVIOUS
  <2>2. r.translated = NoMessage
    BY <1>4, <2>1 DEF PartsTaken
  <2> QED
    BY <1>1, <2>2
<1>6. r.translated = Whole(shape, m) /\ rport' = Reset(shape, NoMessage)
  <2>1. r = Reset(shape, Whole(shape, m))
    BY <1>4, <1>5
  <2>2. r.translated = Whole(shape, m)
    BY <2>1 DEF Reset
  <2>3. [r EXCEPT !.translated = NoMessage] = Reset(shape, NoMessage)
    <3>1. PICK x, y, a, l, b :
             /\ r = [nextFrame |-> x, accumulating |-> y, fields |-> a, list |-> l,
                     translated |-> b]
             /\ Reset(shape, NoMessage)
                 = [nextFrame |-> x, accumulating |-> y, fields |-> a, list |-> l,
                    translated |-> NoMessage]
      BY <2>1 DEF Reset
    <3>2. [r EXCEPT !.translated = NoMessage]
            = [nextFrame |-> x, accumulating |-> y, fields |-> a, list |-> l,
               translated |-> NoMessage]
      BY <3>1
    <3> QED
      BY <3>1, <3>2
  <2> QED
    BY <1>1, <2>2, <2>3
<1>7. Frames(shape) \in Nat \ {0} /\ m.id \in Nat /\ m.len \in Nat
  BY <1>4, WindowFacts DEF WholeMessages
<1>8. PICK R : R = [fields : FieldsOf(shape), list : Seq([id : Nat, elem : Nat])]
  OBVIOUS
<1>9. received \in Seq(R) /\ r.translated \in R
  BY <1>0, <1>6, <1>7, <1>8, WholeFacts DEF ReaderInv
<1>10. /\ received' \in Seq(R) /\ Len(received) \in Nat /\ Len(received') = Len(received) + 1
       /\ received'[Len(received) + 1] = Whole(shape, m)
       /\ \A k \in 1..Len(received) : received'[k] = received[k]
  BY <1>1, <1>6, <1>9, AppendFacts
<1>11. c = Len(received) + 1 /\ Current' = c + 1
  BY <1>3, <1>10 DEF Current
<1>12. NextPart' = 1
  <2>1. rport'.translated = NoMessage' /\ rport'.nextFrame = 1 /\ rport'.list = <<>>
    BY <1>6 DEF Reset, NoMessage
  <2>2. NextPart' = 1 + Len(<<>>)
    BY <2>1 DEF NextPart
  <2> QED
    BY <2>2
<1>13. c \in Nat /\ q \in Nat
  BY <1>4
<1>14. WriterInv' /\ FlowInv'
  BY <1>2, <1>3, <1>5, <1>11, <1>12, <1>13, LinkTail
<1>15. ReaderInv'
  <2>1. received' \in Seq([fields : FieldsOf(shape'), list : Seq([id : Nat, elem : Nat])])
    BY <1>2, <1>8, <1>10
  <2>2. Len(received') \leq Len(offered')
    BY <1>2, <1>4, <1>10, <1>11
  <2>3. ASSUME NEW k \in 1..Len(received') PROVE received'[k] = Whole(shape', offered'[k])
    <3>1. CASE k = Len(received) + 1
      BY <1>2, <1>3, <1>10, <1>11, <3>1
    <3>2. CASE k # Len(received) + 1
      <4>1. k \in 1..Len(received)
        BY <1>10, <3>2
      <4> QED
        BY <1>0, <1>2, <1>10, <4>1 DEF ReaderInv
    <3> QED
      BY <3>1, <3>2
  <2>4. PartsTaken(shape', rport', offered'[Current']) /\ rport'.translated = NoMessage'
    <3>1. PICK x : x = offered'[Current']
      OBVIOUS
    <3>2. PartsTaken(shape, Reset(shape, NoMessage), x)
      BY <1>7, ResetTakesNone
    <3> QED
      BY <1>2, <1>6, <3>1, <3>2 DEF Reset, NoMessage
  <2> QED
    BY <2>1, <2>2, <2>3, <2>4 DEF ReaderInv
<1> QED
  BY <1>14, <1>15 DEF Core

\* A reader that was reconnected between two messages had taken no part of one.
LEMMA ReconnectCore == shape \in ListIsLast /\ Core /\ Reconnect /\ aligned' => Core'
<1> SUFFICES ASSUME shape \in ListIsLast, Core, Reconnect, aligned' PROVE Core'
  OBVIOUS
<1>0. WriterInv /\ ReaderInv /\ FlowInv
  BY DEF Core
<1>1. /\ rport.nextFrame = 1 /\ ~rport.accumulating /\ rport.translated = NoMessage
      /\ rport' = Reset(shape, NoMessage)
  BY WindowFacts DEF Reconnect
<1>2. UNCHANGED <<shape, received, offered, link, wport, call, pending, calls>>
  BY DEF Reconnect, writerVars
<1>3. Frames(shape) \in Nat \ {0}
  BY WindowFacts
<1>4. rport.list = <<>>
  BY <1>0, <1>1 DEF ReaderInv, PartsTaken
<1>5. rport'.translated = NoMessage' /\ rport'.nextFrame = 1 /\ rport'.list = <<>>
  BY <1>1 DEF Reset, NoMessage
<1>6. Current' = Current /\ NextPart' = NextPart
  <2>1. NextPart' = 1 + Len(<<>>)
    BY <1>5 DEF NextPart
  <2>2. NextPart = 1 + Len(<<>>)
    BY <1>1, <1>4 DEF NextPart
  <2> QED
    BY <1>2, <2>1, <2>2 DEF Current
<1>7. Unsent' = Unsent /\ FlowLen' = FlowLen
  BY <1>2 DEF Unsent, FlowLen
<1>8. \A i \in 1..FlowLen : FlowAt(i)' = FlowAt(i)
  BY <1>2, <1>7 DEF FlowAt
<1>9. FlowInv'
  BY <1>0, <1>2, <1>6, <1>7, <1>8, FlowRests
<1>10. WriterInv'
  <2>1. AnyFrame' = AnyFrame /\ WholeMessages' = WholeMessages /\ AnyMessage' = AnyMessage
        /\ NoFrames' = NoFrames
    BY <1>2 DEF AnyFrame, WholeMessages, AnyMessage, NoFrames
  <2> QED
    BY <1>0, <1>2, <2>1 DEF WriterInv
<1>11. ReaderInv'
  <2>1. PartsTaken(shape', rport', offered'[Current'])
    <3>1. PICK x : x = offered'[Current']
      OBVIOUS
    <3>2. PartsTaken(shape, Reset(shape, NoMessage), x)
      BY <1>3, ResetTakesNone
    <3> QED
      BY <1>1, <1>2, <3>1, <3>2
  <2> QED
    BY <1>0, <1>2, <1>5, <2>1 DEF ReaderInv
<1> QED
  BY <1>9, <1>10, <1>11 DEF Core

-----------------------------------------------------------------------------
(* The invariant *)

LEMMA InitCore == Init => RoundTripInv
<1> SUFFICES ASSUME Init, shape \in ListIsLast PROVE Core
  BY DEF Init, RoundTripInv, ListIsLast
<1>1. shape \in ListIsLast /\ wport = NoFrames /\ call = Idle /\ link = <<>>
      /\ rport = Reset(shape, NoMessage) /\ received = <<>> /\ offered = <<>>
      /\ pending = FALSE /\ calls = 0
  BY WindowFacts DEF Init
<1>2. WriterInv
  <2>1. wport.buf = <<>> /\ wport.idx = 1 /\ call.pc = "idle"
        /\ call = [pc |-> call.pc, msg |-> call.msg, i |-> call.i]
        /\ wport = [buf |-> wport.buf, idx |-> wport.idx]
    BY <1>1 DEF NoFrames, Idle
  <2>2. <<>> \in Seq(AnyFrame) /\ <<>> \in Seq(WholeMessages) /\ Len(<<>>) = 0
    OBVIOUS
  <2>3. 1 \in 1..(Len(<<>>) + 1)
    OBVIOUS
  <2> QED
    BY <1>1, <2>1, <2>2, <2>3 DEF WriterInv
<1>3. Frames(shape) \in Nat \ {0}
  BY <1>1, WindowFacts
<1>4. ReaderInv
  <2>1. \A m : PartsTaken(shape, rport, m)
    BY <1>1, <1>3, ResetTakesNone
  <2>2. rport.translated = NoMessage
    BY <1>1 DEF Reset
  <2>3. received \in Seq([fields : FieldsOf(shape), list : Seq([id : Nat, elem : Nat])])
        /\ Len(received) = 0 /\ Len(offered) = 0
    BY <1>1
  <2> QED
    BY <2>1, <2>2, <2>3 DEF ReaderInv
<1>5. FlowInv
  <2>1. FlowLen = 0
    BY <1>1 DEF FlowLen, Unsent, NoFrames, Idle
  <2>2. Current = 1 /\ NextPart = 1 /\ Len(offered) = 0
    BY <1>1 DEF Current, NextPart, Reset
  <2>3. PICK Z \in [Nat -> Nat] : Z = [i \in Nat |-> 0]
    OBVIOUS
  <2>4. 1..0 = {} /\ 1..(0 - 1) = {}
    OBVIOUS
  <2>5. Tagged(shape, offered, FlowLen, Flow, Current, NextPart, Z, Z)
    BY <2>1, <2>2, <2>4 DEF Tagged
  <2> QED
    BY <2>3, <2>5 DEF FlowInv, Cut
<1> QED
  BY <1>2, <1>4, <1>5 DEF Core

LEMMA NextCore == RoundTripInv /\ [Next]_vars => RoundTripInv'
<1> SUFFICES ASSUME RoundTripInv, [Next]_vars PROVE RoundTripInv'
  OBVIOUS
<1>1. shape \in Shapes
  BY DEF RoundTripInv
<1>2. CASE UNCHANGED vars
  <2>1. UNCHANGED <<shape, wport, call, link, rport, received, offered, pending, clean,
                    aligned, calls>>
    BY <1>2 DEF vars, writerVars, readerVars
  <2>2. Shapes' = Shapes
    BY DEF Shapes
  <2>3. SUFFICES ASSUME Core PROVE Core'
    BY <1>1, <2>1, <2>2 DEF RoundTripInv
  <2>4. WriterInv /\ ReaderInv /\ FlowInv
    BY <2>3 DEF Core
  <2>5. Unsent' = Unsent
    BY <2>1 DEF Unsent
  <2>6. FlowInv' /\ ReaderInv'
    BY <2>1, <2>4, <2>5, FlowKept, ReaderStill
  <2>7. WriterInv'
    <3>1. AnyFrame' = AnyFrame /\ WholeMessages' = WholeMessages /\ AnyMessage' = AnyMessage
          /\ NoFrames' = NoFrames
      BY <2>1 DEF AnyFrame, WholeMessages, AnyMessage, NoFrames
    <3> QED
      BY <2>1, <2>4, <3>1 DEF WriterInv
  <2> QED
    BY <2>6, <2>7 DEF Core
<1>3. CASE ~UNCHANGED vars
  <2>1. WriterNext \/ ReaderNext
    BY <1>3 DEF Next, Finished
  <2>2. shape' = shape /\ (clean' => clean) /\ (aligned' => aligned)
    <3>0. ASSUME NEW w, NEW msg, NEW pc, TranslateOutgoing(w, msg, pc) PROVE clean' => clean
      BY <3>0 DEF TranslateOutgoing
    <3>1. CASE Write
      BY <3>0, <3>1 DEF Write, readerVars
    <3>4. CASE FlushDone
      BY <3>0, <3>4 DEF FlushDone, readerVars
    <3>2. CASE WriteFrame \/ WriteReturns \/ TryWrite \/ Flush \/ FlushFrame \/ FlushRefused
      BY <3>2 DEF WriteFrame, WriteReturns, TryWrite, Flush, FlushFrame, FlushRefused,
         readerVars
    <3>3. CASE TakeFrame \/ AcceptMessage \/ RefuseMessage
      BY <3>3 DEF TakeFrame, AcceptMessage, RefuseMessage, writerVars
    <3>5. CASE Reconnect
      BY <3>5 DEF Reconnect, writerVars
    <3> QED
      BY <2>1, <3>1, <3>2, <3>3, <3>4, <3>5 DEF WriterNext, ReaderNext
  <2>3. Shapes' = Shapes
    BY DEF Shapes
  <2>4. SUFFICES ASSUME shape \in ListIsLast, clean', aligned' PROVE Core'
    BY <1>1, <2>2, <2>3 DEF RoundTripInv, ListIsLast
  <2>5. Core
    BY <2>2, <2>4 DEF RoundTripInv, ListIsLast
  <2>6. CASE WriterNext
    BY <2>4, <2>5, <2>6, WriteCore, WriteFrameCore, WriteReturnsCore, TryWriteCore,
       FlushCore, FlushFrameCore, FlushDoneCore DEF WriterNext
  <2>7. CASE ReaderNext
    BY <2>4, <2>5, <2>7, TakeFrameCore, AcceptMessageCore, RefuseMessageCore,
       ReconnectCore DEF ReaderNext
  <2> QED
    BY <2>1, <2>6, <2>7
<1> QED
  BY <1>2, <1>3

LEMMA InvRoundTrip == RoundTripInv => RoundTrip
<1> SUFFICES ASSUME RoundTripInv, shape.after = 0, clean, aligned
             PROVE  IsPrefix(received, [n \in 1..Len(offered) |-> Translated(offered[n])])
  BY DEF RoundTrip
<1>1. shape \in ListIsLast /\ WriterInv /\ ReaderInv
  BY DEF RoundTripInv, Core, ListIsLast
<1>2. PICK k \in Nat, l \in Nat : k = Len(received) /\ l = Len(offered) /\ k \leq l
  <2>1. Len(received) \in Nat
    BY <1>1 DEF ReaderInv
  <2>2. Len(offered) \in Nat
    BY <1>1 DEF WriterInv
  <2>3. Len(received) \leq Len(offered)
    BY <1>1 DEF ReaderInv
  <2> QED
    BY <2>1, <2>2, <2>3
<1>3. PICK T : T = [n \in 1..l |-> Translated(offered[n])]
  OBVIOUS
<1>4. \A n \in 1..k : received[n] = T[n]
  <2>1. \A n \in 1..k : received[n] = Whole(shape, offered[n])
    BY <1>1, <1>2 DEF ReaderInv
  <2>2. \A n \in 1..k : n \in 1..l
    BY <1>2
  <2>3. \A n \in 1..l : T[n] = Whole(shape, offered[n])
    BY <1>1, <1>3, WindowFacts
  <2> QED
    BY <2>1, <2>2, <2>3
<1>5. Len(T) = l
  BY <1>3
<1>6. SubSeq(received, 1, k) = SubSeq(T, 1, k)
  <2>1. SubSeq(received, 1, k) = [i \in 1..k |-> received[i]]
    BY <1>1, <1>2 DEF ReaderInv
  <2>2. SubSeq(T, 1, k) = [i \in 1..k |-> T[i]]
    OBVIOUS
  <2> QED
    BY <1>4, <2>1, <2>2
<1> QED
  BY <1>2, <1>3, <1>5, <1>6 DEF IsPrefix

\* Ports.h, WriteChannelPort::write, tryWrite and flush; Ports.cpp, translateOutgoing and
\* translateIncoming.  For any number of fixed frames, with or without a list frame after
\* them, every list length and room, and any number of messages: what the reader has
\* accepted is a beginning of what was written, each message whole and once, unless a call
\* failed half way or the read port was reconnected inside a message.  Of a window with
\* frames after the list it says nothing.
THEOREM RoundTripCorrect == FairSpec => []RoundTrip
BY InitCore, NextCore, InvRoundTrip, PTL DEF FairSpec

===============================================================================
