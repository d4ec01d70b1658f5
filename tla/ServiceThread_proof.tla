-------------------------- MODULE ServiceThread_proof --------------------------
(***************************************************************************)
(* Proofs about ServiceThread, for any callbacks, any choice of the quick    *)
(* ones, both kinds of backend and any number of calls.                      *)
(*                                                                          *)
(* The calls of a port are a run of consecutive numbers: those whose callback *)
(* has run, the one on the work list, the one in the future of the listener, *)
(* the queue of the arg port and the wire.  The results of those that have   *)
(* run are another, through the frame that waits and the one being sent.     *)
(***************************************************************************)
EXTENDS ServiceThread, SequenceTheorems, TLAPS

-----------------------------------------------------------------------------
(* Runs of consecutive numbers *)

Bit(b) == IF b THEN 1 ELSE 0

\* s holds n + 1, n + 2 and so on.
Run(s, n) == \A i \in 1..Len(s) : s[i] = n + i

LEMMA RunTail ==
    ASSUME NEW s \in Seq(Nat), s # <<>>, NEW n \in Int, Run(s, n)
    PROVE  /\ Tail(s) \in Seq(Nat) /\ Head(s) \in Nat
           /\ Len(s) \in Nat /\ Len(s) >= 1 /\ Len(Tail(s)) = Len(s) - 1
           /\ Head(s) = n + 1 /\ Run(Tail(s), n + 1)
<1>1. /\ Len(Tail(s)) = Len(s) - 1 /\ Len(s) \in Nat /\ Len(s) >= 1
      /\ \A i \in 1..Len(Tail(s)) : Tail(s)[i] = s[i + 1]
      /\ Tail(s) \in Seq(Nat) /\ Head(s) \in Nat /\ Head(s) = s[1]
  BY HeadTailProperties, EmptySeq
<1>2. ASSUME NEW i \in 1..Len(Tail(s)) PROVE Tail(s)[i] = n + 1 + i
  <2>1. i + 1 \in 1..Len(s)
    BY <1>1
  <2>2. Tail(s)[i] = n + (i + 1)
    BY <1>1, <2>1 DEF Run
  <2>3. QED
    BY <2>2
<1>3. Head(s) = n + 1
  BY <1>1 DEF Run
<1>4. QED
  BY <1>1, <1>2, <1>3 DEF Run

LEMMA RunAppend ==
    ASSUME NEW s \in Seq(Nat), NEW n \in Int, NEW x \in Nat, Run(s, n), x = n + Len(s) + 1
    PROVE  /\ Append(s, x) \in Seq(Nat) /\ Append(s, x) # <<>>
           /\ Len(s) \in Nat /\ Len(Append(s, x)) = Len(s) + 1
           /\ Run(Append(s, x), n)
<1>1. /\ Len(Append(s, x)) = Len(s) + 1 /\ Len(s) \in Nat
      /\ Append(s, x) \in Seq(Nat) /\ Append(s, x) # <<>>
      /\ \A i \in 1..Len(s) : Append(s, x)[i] = s[i]
      /\ Append(s, x)[Len(s) + 1] = x
  BY AppendProperties
<1>2. ASSUME NEW i \in 1..(Len(s) + 1) PROVE Append(s, x)[i] = n + i
  <2>1. CASE i = Len(s) + 1
    BY <1>1, <2>1
  <2>2. CASE i # Len(s) + 1
    <3>1. i \in 1..Len(s)
      BY <1>1, <2>2
    <3>2. QED
      BY <1>1, <3>1 DEF Run
  <2>3. QED
    BY <2>1, <2>2
<1>3. QED
  BY <1>1, <1>2 DEF Run

LEMMA RunEmpty ==
    ASSUME NEW n \in Int
    PROVE  <<>> \in Seq(Nat) /\ Len(<<>>) = 0 /\ Run(<<>>, n)
BY DEF Run

LEMMA RunCounts ==
    ASSUME NEW s \in Seq(Nat), Run(s, 0)
    PROVE  Counts(s)
<1>1. s = [i \in 1..Len(s) |-> s[i]]
  BY SeqDef
<1>2. \A i \in 1..Len(s) : s[i] = i
  BY DEF Run
<1>3. QED
  BY <1>1, <1>2 DEF Counts

-----------------------------------------------------------------------------
(* The calls of one port *)

Futures == Nat \cup {NotConnected, NotListening}

\* h calls have been handled (their callback has run or is about to), f is the future of
\* the listener, q the queue, w the wire and c the number of calls made: they are one run.
CallRun(h, f, q, w, c) ==
    /\ f > 0 => f = h + 1
    /\ f = Waiting => q = <<>>
    /\ Run(q, h + Bit(f > 0)) /\ Run(w, h + Bit(f > 0) + Len(q))
    /\ c = h + Bit(f > 0) + Len(q) + Len(w)

LEMMA Signs ==
    /\ ~(Waiting > 0) /\ ~(NotListening > 0) /\ ~(NotConnected > 0)
    /\ Bit(Waiting > 0) = 0 /\ Bit(NotListening > 0) = 0 /\ Bit(NotConnected > 0) = 0
    /\ NotListening # Waiting /\ NotConnected # Waiting
    /\ \A f \in Futures : Bit(f > 0) \in Nat
BY DEF Waiting, NotListening, NotConnected, Bit, Futures

\* The accelerator calls.
LEMMA RunCalled ==
    ASSUME NEW h \in Nat, NEW f \in Futures, NEW q \in Seq(Nat), NEW w \in Seq(Nat),
           NEW c \in Nat, CallRun(h, f, q, w, c)
    PROVE  CallRun(h, f, q, Append(w, c + 1), c + 1)
<1> DEFINE b == h + Bit(f > 0) + Len(q)
<1>1. b \in Nat /\ Len(w) \in Nat /\ c = b + Len(w)
  BY Signs, LenProperties DEF CallRun
<1> HIDE DEF b
<1>2. c + 1 = b + Len(w) + 1 /\ b \in Int /\ c + 1 \in Nat
  BY <1>1
<1>3. Run(w, b)
  BY DEF CallRun, b
<1>4. Run(Append(w, c + 1), b) /\ Len(Append(w, c + 1)) = Len(w) + 1
  BY <1>2, <1>3, RunAppend
<1>5. c + 1 = b + Len(Append(w, c + 1))
  BY <1>1, <1>4
<1>6. QED
  BY <1>4, <1>5 DEF CallRun, b

\* A call leaves the wire: for a future that waits, ...
LEMMA RunDelivered ==
    ASSUME NEW h \in Nat, NEW q \in Seq(Nat), NEW w \in Seq(Nat), NEW c \in Nat,
           CallRun(h, Waiting, q, w, c), w # <<>>
    PROVE  /\ Head(w) \in Nat /\ Tail(w) \in Seq(Nat)
           /\ CallRun(h, Head(w), q, Tail(w), c)
<1>1. q = <<>> /\ Len(q) = 0 /\ Run(w, h) /\ c = h + Len(w)
  <2>1. q = <<>> /\ Len(q) = 0
    BY DEF CallRun
  <2>2. Run(w, h + 0 + 0) /\ c = h + 0 + 0 + Len(w) /\ Len(w) \in Nat
    BY <2>1, Signs, LenProperties DEF CallRun
  <2>3. QED
    BY <2>1, <2>2 DEF Run
<1>2. /\ Head(w) = h + 1 /\ Head(w) \in Nat /\ Tail(w) \in Seq(Nat)
      /\ Len(Tail(w)) = Len(w) - 1 /\ Len(w) \in Nat /\ Run(Tail(w), h + 1)
  BY <1>1, RunTail
<1>3. Head(w) > 0 /\ Bit(Head(w) > 0) = 1 /\ Head(w) # Waiting
  BY <1>2 DEF Bit, Waiting
<1>4. h + 1 + 0 = h + 1 /\ c = h + 1 + 0 + Len(Tail(w))
  BY <1>1, <1>2
<1>5. Run(q, h + Bit(Head(w) > 0)) /\ Run(Tail(w), h + Bit(Head(w) > 0) + Len(q))
  BY <1>1, <1>2, <1>3, <1>4 DEF Run
<1>6. c = h + Bit(Head(w) > 0) + Len(q) + Len(Tail(w))
  BY <1>1, <1>3, <1>4
<1>7. QED
  BY <1>1, <1>2, <1>3, <1>5, <1>6 DEF CallRun

\* ... or for the queue.
LEMMA RunQueued ==
    ASSUME NEW h \in Nat, NEW f \in Futures, f # Waiting, NEW q \in Seq(Nat),
           NEW w \in Seq(Nat), NEW c \in Nat, CallRun(h, f, q, w, c), w # <<>>
    PROVE  /\ Append(q, Head(w)) \in Seq(Nat) /\ Tail(w) \in Seq(Nat)
           /\ CallRun(h, f, Append(q, Head(w)), Tail(w), c)
<1> DEFINE b == h + Bit(f > 0)
<1>1. b \in Nat /\ Len(q) \in Nat /\ b + Len(q) \in Int
  BY Signs, LenProperties
<1>2. Run(q, b) /\ Run(w, b + Len(q)) /\ c = b + Len(q) + Len(w)
  BY DEF CallRun
<1> HIDE DEF b
<1>3. /\ Head(w) = b + Len(q) + 1 /\ Head(w) \in Nat /\ Tail(w) \in Seq(Nat)
      /\ Len(Tail(w)) = Len(w) - 1 /\ Len(w) \in Nat /\ Run(Tail(w), b + Len(q) + 1)
  BY <1>1, <1>2, RunTail
<1>4. /\ Append(q, Head(w)) \in Seq(Nat) /\ Len(Append(q, Head(w))) = Len(q) + 1
      /\ Run(Append(q, Head(w)), b)
  BY <1>1, <1>2, <1>3, RunAppend
<1>5. b + Len(Append(q, Head(w))) = b + Len(q) + 1
      /\ c = b + Len(Append(q, Head(w))) + Len(Tail(w))
  BY <1>1, <1>2, <1>3, <1>4
<1>6. QED
  BY <1>3, <1>4, <1>5 DEF CallRun, b, Run

\* A read takes the first call of the queue, or waits.
LEMMA RunRead ==
    ASSUME NEW h \in Nat, NEW q \in Seq(Nat), NEW w \in Seq(Nat), NEW c \in Nat,
           CallRun(h, NotListening, q, w, c)
    PROVE  /\ q = <<>> => CallRun(h, Waiting, q, w, c)
           /\ q # <<>> => /\ Head(q) \in Nat /\ Tail(q) \in Seq(Nat)
                          /\ CallRun(h, Head(q), Tail(q), w, c)
<1>1. Len(q) \in Nat /\ Len(w) \in Nat
  BY LenProperties
<1>2. Run(q, h) /\ Run(w, h + Len(q)) /\ c = h + Len(q) + Len(w)
  <2>1. Run(q, h + 0) /\ Run(w, h + 0 + Len(q)) /\ c = h + 0 + Len(q) + Len(w)
    BY Signs DEF CallRun
  <2>2. h + 0 = h
    OBVIOUS
  <2>3. QED
    BY <2>1, <2>2
<1>3. CASE q = <<>>
  <2>1. h + Bit(Waiting > 0) = h
    BY Signs
  <2>2. QED
    BY <1>2, <1>3, <2>1, Signs DEF CallRun
<1>4. CASE q # <<>>
  <2>1. /\ Head(q) = h + 1 /\ Head(q) \in Nat /\ Tail(q) \in Seq(Nat)
        /\ Len(Tail(q)) = Len(q) - 1 /\ Run(Tail(q), h + 1)
    BY <1>2, <1>4, RunTail
  <2>2. Head(q) > 0 /\ Bit(Head(q) > 0) = 1 /\ Head(q) # Waiting
    BY <2>1 DEF Bit, Waiting
  <2>3. h + 1 + Len(Tail(q)) = h + Len(q)
    BY <1>1, <2>1
  <2>4. QED
    BY <1>2, <1>4, <2>1, <2>2, <2>3 DEF CallRun
<1>5. QED
  BY <1>3, <1>4

\* The value of the future is taken.
LEMMA RunTaken ==
    ASSUME NEW h \in Nat, NEW f \in Nat, f # Waiting, NEW q \in Seq(Nat), NEW w \in Seq(Nat),
           NEW c \in Nat, CallRun(h, f, q, w, c)
    PROVE  f = h + 1 /\ CallRun(h + 1, NotListening, q, w, c)
<1>1. f > 0 /\ Bit(f > 0) = 1
  BY DEF Bit, Waiting
<1>2. h + 1 + Bit(NotListening > 0) = h + 1
  BY Signs
<1>3. QED
  BY <1>1, <1>2, Signs DEF CallRun

LEMMA RunConnected ==
    ASSUME NEW h \in Nat, NEW q, NEW w, NEW c, CallRun(h, NotConnected, q, w, c)
    PROVE  CallRun(h, NotListening, q, w, c)
BY Signs DEF CallRun

\* A quick callback takes the call from the wire.
LEMMA RunQuick ==
    ASSUME NEW h \in Nat, NEW w \in Seq(Nat), NEW c \in Nat,
           CallRun(h, NotListening, <<>>, w, c), w # <<>>
    PROVE  /\ Head(w) = h + 1 /\ Tail(w) \in Seq(Nat)
           /\ CallRun(h + 1, NotListening, <<>>, Tail(w), c)
<1>1. Run(w, h) /\ c = h + Len(w) /\ Len(w) \in Nat /\ Len(<<>>) = 0
  <2>1. Run(w, h + 0 + 0) /\ c = h + 0 + 0 + Len(w) /\ Len(w) \in Nat /\ Len(<<>>) = 0
    BY Signs, LenProperties DEF CallRun
  <2>2. QED
    BY <2>1 DEF Run
<1>2. /\ Head(w) = h + 1 /\ Tail(w) \in Seq(Nat)
      /\ Len(Tail(w)) = Len(w) - 1 /\ Run(Tail(w), h + 1)
  BY <1>1, RunTail
<1>3. h + 1 + 0 = h + 1 /\ h + 1 + 0 + 0 = h + 1 /\ c = h + 1 + 0 + 0 + Len(Tail(w))
  BY <1>1, <1>2
<1>4. Run(<<>>, h + 1 + 0) /\ Run(Tail(w), h + 1 + 0 + 0)
  BY <1>2, <1>3 DEF Run
<1>5. QED
  BY <1>1, <1>2, <1>3, <1>4, Signs DEF CallRun

-----------------------------------------------------------------------------
(* The results of one port *)

\* n callbacks have run, res are the results the accelerator has seen, s the one it has
\* not picked up, pf the frame before it, and wr says that one is being written.
ResultRun(n, res, s, pf, wr) ==
    /\ Run(res, 0)
    /\ s # 0 => s = Len(res) + 1
    /\ Run(pf, Len(res) + Bit(s # 0))
    /\ n = Len(res) + Bit(s # 0) + Len(pf) + Bit(wr)

LEMMA RunPickedUp ==
    ASSUME NEW n \in Nat, NEW res \in Seq(Nat), NEW s \in Nat, NEW pf \in Seq(Nat),
           NEW wr \in BOOLEAN, ResultRun(n, res, s, pf, wr), s # 0
    PROVE  Append(res, s) \in Seq(Nat) /\ ResultRun(n, Append(res, s), 0, pf, wr)
<1>1. Len(res) \in Nat /\ s = Len(res) + 1 /\ Run(res, 0) /\ Bit(s # 0) = 1 /\ Bit(0 # 0) = 0
  BY LenProperties DEF ResultRun, Bit
<1>2. s = 0 + Len(res) + 1
  BY <1>1
<1>3. /\ Append(res, s) \in Seq(Nat) /\ Run(Append(res, s), 0)
      /\ Len(Append(res, s)) = Len(res) + 1
  BY <1>1, <1>2, RunAppend
<1>4. Len(Append(res, s)) + Bit(0 # 0) = Len(res) + Bit(s # 0)
  BY <1>1, <1>3
<1>5. QED
  BY <1>3, <1>4 DEF ResultRun

LEMMA RunBegun ==
    ASSUME NEW n \in Nat, NEW res \in Seq(Nat), NEW s \in Nat, NEW pf \in Seq(Nat),
           ResultRun(n, res, s, pf, FALSE)
    PROVE  ResultRun(n + 1, res, s, pf, TRUE)
<1>1. Len(res) \in Nat /\ Len(pf) \in Nat /\ Bit(s # 0) \in Nat
  BY LenProperties DEF Bit
<1>2. n + 1 = Len(res) + Bit(s # 0) + Len(pf) + 1
  BY <1>1 DEF ResultRun, Bit
<1>3. QED
  BY <1>2 DEF ResultRun, Bit

\* The write of the n-th result: into the port of a polled backend, ...
LEMMA RunPending ==
    ASSUME NEW n \in Nat, NEW res \in Seq(Nat), NEW s \in Nat,
           ResultRun(n, res, s, <<>>, TRUE)
    PROVE  <<n>> \in Seq(Nat) /\ ResultRun(n, res, s, <<n>>, FALSE)
<1>1. Len(res) \in Nat /\ Bit(s # 0) \in Nat /\ Len(<<>>) = 0 /\ Len(<<n>>) = 1 /\ <<n>>[1] = n
  BY LenProperties DEF Bit
<1>2. n = Len(res) + Bit(s # 0) + 0 + 1
  BY <1>1 DEF ResultRun, Bit
<1>3. n = Len(res) + Bit(s # 0) + 1
  BY <1>1, <1>2
<1>4. Run(<<n>>, Len(res) + Bit(s # 0))
  BY <1>1, <1>3 DEF Run
<1>5. n = Len(res) + Bit(s # 0) + Len(<<n>>) + 0
  BY <1>1, <1>3
<1>6. Run(res, 0) /\ (s # 0 => s = Len(res) + 1)
  BY DEF ResultRun
<1>7. QED
  BY <1>4, <1>5, <1>6 DEF ResultRun, Bit

\* ... or all the way.
LEMMA RunWritten ==
    ASSUME NEW n \in Nat, NEW res \in Seq(Nat), ResultRun(n, res, 0, <<>>, TRUE)
    PROVE  Append(res, n) \in Seq(Nat) /\ ResultRun(n, Append(res, n), 0, <<>>, FALSE)
<1>1. Len(res) \in Nat /\ Len(<<>>) = 0
  BY LenProperties
<1>2. n = 0 + Len(res) + 1 /\ Run(res, 0)
  BY <1>1 DEF ResultRun, Bit
<1>3. /\ Append(res, n) \in Seq(Nat) /\ Run(Append(res, n), 0)
      /\ Len(Append(res, n)) = Len(res) + 1
  BY <1>2, RunAppend
<1>4. n = Len(Append(res, n)) + Bit(0 # 0) + Len(<<>>) + Bit(FALSE)
  BY <1>1, <1>2, <1>3 DEF Bit
<1>5. Run(<<>>, Len(Append(res, n)) + Bit(0 # 0))
  BY DEF Run
<1>6. QED
  BY <1>3, <1>4, <1>5 DEF ResultRun

\* poll() hands the frame over.
LEMMA RunPolled ==
    ASSUME NEW n \in Nat, NEW res \in Seq(Nat), NEW pf \in Seq(Nat), NEW wr \in BOOLEAN,
           ResultRun(n, res, 0, pf, wr), pf # <<>>
    PROVE  /\ Head(pf) \in Nat /\ Tail(pf) \in Seq(Nat)
           /\ ResultRun(n, res, Head(pf), Tail(pf), wr)
<1>1. Len(res) \in Nat /\ Bit(0 # 0) = 0 /\ Bit(wr) \in Nat /\ Len(pf) \in Nat
  BY LenProperties DEF Bit
<1>2. Run(pf, Len(res)) /\ n = Len(res) + Len(pf) + Bit(wr)
  <2>1. Run(pf, Len(res) + 0) /\ n = Len(res) + 0 + Len(pf) + Bit(wr) /\ Len(res) + 0 = Len(res)
    BY <1>1 DEF ResultRun
  <2>2. QED
    BY <1>1, <2>1
<1>3. /\ Head(pf) = Len(res) + 1 /\ Head(pf) \in Nat /\ Tail(pf) \in Seq(Nat)
      /\ Len(Tail(pf)) = Len(pf) - 1 /\ Run(Tail(pf), Len(res) + 1)
  BY <1>1, <1>2, RunTail
<1>4. Head(pf) # 0 /\ Bit(Head(pf) # 0) = 1
  BY <1>1, <1>3 DEF Bit
<1>5. n = Len(res) + 1 + Len(Tail(pf)) + Bit(wr)
  BY <1>1, <1>2, <1>3
<1>6. QED
  BY <1>3, <1>4, <1>5 DEF ResultRun

-----------------------------------------------------------------------------
(* The invariant *)

Items == [port : Ports, call : Nat]

ThreadTypes ==
    [pc : {"loop", "listeners", "callbacks", "write", "tasks", "ended"},
     todo : SUBSET (Ports \cup (Ports \X {"arg", "result"})),
     work : Seq(Items),
     back : {"loop", "callbacks", "tasks"}]

LinkTypes ==
    /\ called \in [Ports -> Nat] /\ wire \in [Ports -> Seq(Nat)]
    /\ queue \in [Ports -> Seq(Nat)] /\ future \in [Ports -> Futures]
    /\ ran \in [Ports -> Seq(Nat)] /\ results \in [Ports -> Seq(Nat)]
    /\ pendingFrames \in [Ports -> Seq(Nat)] /\ sending \in [Ports -> Nat]

Types == LinkTypes /\ thread \in ThreadTypes

\* The entries of the work list whose callback has not run: all but the first one while
\* its result is written.
Unrun == {i \in 1..Len(thread.work) : thread.pc = "write" => i # 1}

HasWork(p) == \E i \in Unrun : thread.work[i].port = p

Writing(p) == thread.pc = "write" /\ thread.work[1].port = p

\* Where the work list and the ports left may hold something, ...
PhaseInv ==
    /\ thread.pc \in {"loop", "tasks", "ended"} => thread.work = <<>>
    /\ thread.pc = "write" =>
          /\ thread.work # <<>> /\ thread.back \in {"callbacks", "tasks"}
          /\ thread.back = "tasks" => Len(thread.work) = 1
    /\ thread.pc = "listeners" \/ thread.todo = {} \/ Polled

\* ... at most one call of each port, ...
WorkInv ==
    /\ \A i, j \in 1..Len(thread.work) :
          thread.work[i].port = thread.work[j].port => i = j
    /\ \A i \in 1..Len(thread.work) : thread.work[i].port \in quick => Polled
    /\ \A i \in Unrun : /\ thread.work[i].port \notin quick
                        /\ thread.work[i].call = Len(ran[thread.work[i].port]) + 1
    /\ thread.pc = "write" => thread.work[1].call = Len(ran[thread.work[1].port])

\* ... and none of a port the thread has yet to look at, which has a listener.
TodoInv ==
    thread.pc = "listeners" =>
        \A p \in thread.todo :
            /\ p \in Ports /\ p \notin quick /\ future[p] \in Nat
            /\ \A i \in 1..Len(thread.work) : thread.work[i].port # p

Handled(p) == Len(ran[p]) + Bit(HasWork(p))

ArgInv(p) ==
    /\ CallRun(Handled(p), future[p], queue[p], wire[p], called[p])
    /\ p \in quick => future[p] = NotListening /\ queue[p] = <<>>

ResInv(p) ==
    /\ Run(ran[p], 0)
    /\ ResultRun(Len(ran[p]), results[p], sending[p], pendingFrames[p], Writing(p))
    /\ ~Polled => pendingFrames[p] = <<>> /\ sending[p] = 0

ThreadInv == PhaseInv /\ WorkInv /\ TodoInv
PortInv   == \A p \in Ports : ArgInv(p) /\ ResInv(p)
CallInv   == Types /\ ThreadInv /\ PortInv

-----------------------------------------------------------------------------
(* What a step leaves alone *)

\* What the types say of one port and of the work list.
LEMMA PortTypes ==
    ASSUME Types, NEW p \in Ports
    PROVE  /\ called[p] \in Nat /\ wire[p] \in Seq(Nat) /\ queue[p] \in Seq(Nat)
           /\ future[p] \in Futures /\ ran[p] \in Seq(Nat) /\ results[p] \in Seq(Nat)
           /\ pendingFrames[p] \in Seq(Nat) /\ sending[p] \in Nat
           /\ Len(ran[p]) \in Nat /\ Handled(p) \in Nat /\ Writing(p) \in BOOLEAN
<1>1. /\ called[p] \in Nat /\ wire[p] \in Seq(Nat) /\ queue[p] \in Seq(Nat)
      /\ future[p] \in Futures /\ ran[p] \in Seq(Nat) /\ results[p] \in Seq(Nat)
      /\ pendingFrames[p] \in Seq(Nat) /\ sending[p] \in Nat
  BY DEF Types, LinkTypes
<1>2. Len(ran[p]) \in Nat
  BY <1>1, LenProperties
<1>3. Handled(p) \in Nat
  <2>1. Bit(HasWork(p)) \in Nat
    BY DEF Bit
  <2>2. QED
    BY <1>2, <2>1 DEF Handled
<1>4. Writing(p) \in BOOLEAN
  BY DEF Writing
<1>5. QED
  BY <1>1, <1>2, <1>3, <1>4

LEMMA WorkTypes ==
    ASSUME Types
    PROVE  /\ thread.work \in Seq(Items) /\ Len(thread.work) \in Nat
           /\ \A i \in 1..Len(thread.work) :
                 /\ thread.work[i].port \in Ports /\ thread.work[i].call \in Nat
                 /\ thread.work[i] = [port |-> thread.work[i].port, call |-> thread.work[i].call]
<1>1. thread.work \in Seq(Items)
  BY DEF Types, ThreadTypes
<1>2. \A i \in 1..Len(thread.work) : thread.work[i] \in Items
  BY <1>1, ElementOfSeq
<1>3. QED
  BY <1>1, <1>2, LenProperties DEF Items

\* A step that neither changes the work list nor begins or ends a write.
LEMMA WorkStays ==
    ASSUME thread'.work = thread.work, (thread'.pc = "write") = (thread.pc = "write")
    PROVE  /\ Unrun' = Unrun
           /\ \A p : HasWork(p)' = HasWork(p) /\ Writing(p)' = Writing(p)
<1>1. Unrun' = Unrun
  BY DEF Unrun
<1>2. QED
  BY <1>1 DEF HasWork, Writing

LEMMA ArgStays ==
    ASSUME NEW q, ArgInv(q), Handled(q)' = Handled(q), quick' = quick, future'[q] = future[q],
           queue'[q] = queue[q], wire'[q] = wire[q], called'[q] = called[q]
    PROVE  ArgInv(q)'
BY DEF ArgInv

LEMMA ResStays ==
    ASSUME NEW q, ResInv(q), Writing(q)' = Writing(q), backend' = backend, ran'[q] = ran[q],
           results'[q] = results[q], sending'[q] = sending[q],
           pendingFrames'[q] = pendingFrames[q]
    PROVE  ResInv(q)'
BY DEF ResInv, Polled

\* What the thread's part of the invariant needs of a step that leaves the work list alone.
LEMMA ThreadStays ==
    ASSUME Types, ThreadInv, UNCHANGED <<thread, quick, backend, ran>>,
           \A q \in Ports : future[q] \in Nat => future'[q] \in Nat
    PROVE  ThreadInv'
<1>1. Unrun' = Unrun
  BY DEF Unrun
<1>2. QED
  BY <1>1 DEF ThreadInv, PhaseInv, WorkInv, TodoInv, Polled

\* A call comes out of the wire, into the future or the queue of the arg port.
LEMMA EnqueueStep ==
    ASSUME Types, NEW p \in Ports, p \notin quick, ArgInv(p), wire[p] # <<>>,
           Enqueue(p, Head(wire[p])), wire' = [wire EXCEPT ![p] = Tail(wire[p])],
           UNCHANGED <<called, quick>>, Handled(p)' = Handled(p)
    PROVE  /\ wire' \in [Ports -> Seq(Nat)] /\ queue' \in [Ports -> Seq(Nat)]
           /\ future' \in [Ports -> Futures]
           /\ \A q \in Ports \ {p} : /\ future'[q] = future[q] /\ queue'[q] = queue[q]
                                     /\ wire'[q] = wire[q]
           /\ \A q \in Ports : future[q] \in Nat => future'[q] \in Nat
           /\ ArgInv(p)'
<1>1. /\ Handled(p) \in Nat /\ called[p] \in Nat /\ wire[p] \in Seq(Nat) /\ queue[p] \in Seq(Nat)
      /\ future[p] \in Futures
      /\ CallRun(Handled(p), future[p], queue[p], wire[p], called[p])
  BY PortTypes DEF ArgInv
<1>2. /\ called \in [Ports -> Nat] /\ wire \in [Ports -> Seq(Nat)]
      /\ queue \in [Ports -> Seq(Nat)] /\ future \in [Ports -> Futures]
  BY DEF Types, LinkTypes
<1>3. CASE future[p] = Waiting
  <2>1. future' = [future EXCEPT ![p] = Head(wire[p])] /\ queue' = queue
    BY <1>3 DEF Enqueue
  <2>2. /\ Head(wire[p]) \in Nat /\ Tail(wire[p]) \in Seq(Nat)
        /\ CallRun(Handled(p), Head(wire[p]), queue[p], Tail(wire[p]), called[p])
    BY <1>1, <1>3, RunDelivered
  <2>3. future'[p] = Head(wire[p]) /\ wire'[p] = Tail(wire[p])
        /\ \A q \in Ports \ {p} : future'[q] = future[q] /\ wire'[q] = wire[q]
    BY <1>2, <2>1
  <2>4. future' \in [Ports -> Futures] /\ wire' \in [Ports -> Seq(Nat)]
    BY <1>2, <2>1, <2>2 DEF Futures
  <2>5. ArgInv(p)'
    BY <2>1, <2>2, <2>3 DEF ArgInv
  <2>6. QED
    BY <1>2, <2>1, <2>2, <2>3, <2>4, <2>5
<1>4. CASE future[p] # Waiting
  <2>1. queue' = [queue EXCEPT ![p] = Append(queue[p], Head(wire[p]))] /\ future' = future
    BY <1>4 DEF Enqueue
  <2>2. /\ Append(queue[p], Head(wire[p])) \in Seq(Nat) /\ Tail(wire[p]) \in Seq(Nat)
        /\ CallRun(Handled(p), future[p], Append(queue[p], Head(wire[p])),
                   Tail(wire[p]), called[p])
    BY <1>1, <1>4, RunQueued
  <2>3. queue'[p] = Append(queue[p], Head(wire[p])) /\ wire'[p] = Tail(wire[p])
        /\ \A q \in Ports \ {p} : queue'[q] = queue[q] /\ wire'[q] = wire[q]
    BY <1>2, <2>1
  <2>4. queue' \in [Ports -> Seq(Nat)] /\ wire' \in [Ports -> Seq(Nat)]
    BY <1>2, <2>1, <2>2
  <2>5. ArgInv(p)'
    BY <2>1, <2>2, <2>3 DEF ArgInv
  <2>6. QED
    BY <1>2, <2>1, <2>3, <2>4, <2>5
<1>5. QED
  BY <1>3, <1>4

\* A listener is added, and reads.
LEMMA ListenStep ==
    ASSUME Types, NEW p \in Ports, ArgInv(p), AddListener(p),
           UNCHANGED <<called, quick, wire>>, Handled(p)' = Handled(p)
    PROVE  /\ queue' \in [Ports -> Seq(Nat)] /\ future' \in [Ports -> Futures]
           /\ \A q \in Ports \ {p} : future'[q] = future[q] /\ queue'[q] = queue[q]
           /\ \A q \in Ports : future[q] \in Nat => future'[q] \in Nat
           /\ ArgInv(p)'
<1>1. /\ Handled(p) \in Nat /\ called[p] \in Nat /\ wire[p] \in Seq(Nat) /\ queue[p] \in Seq(Nat)
      /\ future[p] = NotListening /\ p \notin quick
      /\ CallRun(Handled(p), NotListening, queue[p], wire[p], called[p])
  BY PortTypes DEF ArgInv, AddListener
<1>2. queue \in [Ports -> Seq(Nat)] /\ future \in [Ports -> Futures]
  BY DEF Types, LinkTypes
<1>3. CASE queue[p] = <<>>
  <2>1. future' = [future EXCEPT ![p] = Waiting] /\ queue' = queue
    BY <1>3 DEF AddListener
  <2>2. CallRun(Handled(p), Waiting, queue[p], wire[p], called[p])
    BY <1>1, <1>3, RunRead
  <2>3. future'[p] = Waiting /\ \A q \in Ports \ {p} : future'[q] = future[q]
    BY <1>2, <2>1
  <2>4. future' \in [Ports -> Futures] /\ Waiting \in Nat
    BY <1>2, <2>1 DEF Futures, Waiting
  <2>5. ArgInv(p)'
    BY <1>1, <2>1, <2>2, <2>3 DEF ArgInv
  <2>6. QED
    BY <1>2, <2>1, <2>3, <2>4, <2>5
<1>4. CASE queue[p] # <<>>
  <2>1. /\ future' = [future EXCEPT ![p] = Head(queue[p])]
        /\ queue' = [queue EXCEPT ![p] = Tail(queue[p])]
    BY <1>4 DEF AddListener
  <2>2. /\ Head(queue[p]) \in Nat /\ Tail(queue[p]) \in Seq(Nat)
        /\ CallRun(Handled(p), Head(queue[p]), Tail(queue[p]), wire[p], called[p])
    BY <1>1, <1>4, RunRead
  <2>3. future'[p] = Head(queue[p]) /\ queue'[p] = Tail(queue[p])
        /\ \A q \in Ports \ {p} : future'[q] = future[q] /\ queue'[q] = queue[q]
    BY <1>2, <2>1
  <2>4. future' \in [Ports -> Futures] /\ queue' \in [Ports -> Seq(Nat)]
    BY <1>2, <2>1, <2>2 DEF Futures
  <2>5. ArgInv(p)'
    BY <1>1, <2>2, <2>3 DEF ArgInv
  <2>6. QED
    BY <2>2, <2>3, <2>4, <2>5
<1>5. QED
  BY <1>3, <1>4

-----------------------------------------------------------------------------
(* The accelerator, the backend and the application *)

LEMMA CalledStep ==
    ASSUME CallInv, NEW p \in Ports, AcceleratorCalls(p)
    PROVE  CallInv'
<1>1. Types /\ ThreadInv /\ PortInv
  BY DEF CallInv
<1>2. UNCHANGED <<backend, quick, thread, future, queue, ran, results, sending, pendingFrames>>
  BY DEF AcceleratorCalls, hostVars
<1>3. /\ called[p] \in Nat /\ wire[p] \in Seq(Nat) /\ queue[p] \in Seq(Nat)
      /\ future[p] \in Futures /\ Handled(p) \in Nat
      /\ CallRun(Handled(p), future[p], queue[p], wire[p], called[p])
      /\ p \in quick => future[p] = NotListening /\ queue[p] = <<>>
  BY <1>1, PortTypes DEF PortInv, ArgInv
<1>4. CallRun(Handled(p), future[p], queue[p], Append(wire[p], called[p] + 1), called[p] + 1)
  BY <1>3, RunCalled
<1>5. /\ called' = [called EXCEPT ![p] = called[p] + 1]
      /\ wire' = [wire EXCEPT ![p] = Append(wire[p], called[p] + 1)]
      /\ called \in [Ports -> Nat] /\ wire \in [Ports -> Seq(Nat)]
  BY <1>1 DEF AcceleratorCalls, Types, LinkTypes
<1>6. /\ called'[p] = called[p] + 1 /\ wire'[p] = Append(wire[p], called[p] + 1)
      /\ \A q \in Ports \ {p} : called'[q] = called[q] /\ wire'[q] = wire[q]
  BY <1>5
<1>7. called[p] + 1 \in Nat /\ Append(wire[p], called[p] + 1) \in Seq(Nat)
  BY <1>3, AppendProperties
<1>8. Types'
  BY <1>1, <1>2, <1>5, <1>7 DEF Types, LinkTypes
<1>9. ThreadInv'
  BY <1>1, <1>2, ThreadStays
<1>10. \A q \in Ports : Handled(q)' = Handled(q) /\ Writing(q)' = Writing(q)
  BY <1>2, WorkStays DEF Handled
<1>11. ArgInv(p)'
  BY <1>2, <1>3, <1>4, <1>6, <1>10 DEF ArgInv
<1>12. \A q \in Ports \ {p} : ArgInv(q)'
  BY <1>1, <1>2, <1>6, <1>10, ArgStays DEF PortInv
<1>13. \A q \in Ports : ResInv(q)'
  BY <1>1, <1>2, <1>10, ResStays DEF PortInv
<1>14. QED
  BY <1>8, <1>9, <1>11, <1>12, <1>13 DEF CallInv, PortInv

LEMMA PickUpStep ==
    ASSUME CallInv, NEW p \in Ports, PickUp(p)
    PROVE  CallInv'
<1>1. Types /\ ThreadInv /\ PortInv
  BY DEF CallInv
<1>2. UNCHANGED <<backend, quick, thread, future, queue, ran, called, wire, pendingFrames>>
  BY DEF PickUp, hostVars
<1>3. /\ results[p] \in Seq(Nat) /\ sending[p] \in Nat /\ pendingFrames[p] \in Seq(Nat)
      /\ Len(ran[p]) \in Nat /\ Writing(p) \in BOOLEAN /\ sending[p] # 0
      /\ ResultRun(Len(ran[p]), results[p], sending[p], pendingFrames[p], Writing(p))
      /\ Run(ran[p], 0) /\ (~Polled => pendingFrames[p] = <<>> /\ sending[p] = 0)
  BY <1>1, PortTypes DEF PortInv, ResInv, PickUp
<1>4. /\ Append(results[p], sending[p]) \in Seq(Nat)
      /\ ResultRun(Len(ran[p]), Append(results[p], sending[p]), 0, pendingFrames[p], Writing(p))
  BY <1>3, RunPickedUp
<1>5. /\ results' = [results EXCEPT ![p] = Append(results[p], sending[p])]
      /\ sending' = [sending EXCEPT ![p] = 0]
      /\ results \in [Ports -> Seq(Nat)] /\ sending \in [Ports -> Nat]
  BY <1>1 DEF PickUp, Types, LinkTypes
<1>6. /\ results'[p] = Append(results[p], sending[p]) /\ sending'[p] = 0
      /\ \A q \in Ports \ {p} : results'[q] = results[q] /\ sending'[q] = sending[q]
  BY <1>5
<1>7. Types'
  BY <1>1, <1>2, <1>4, <1>5 DEF Types, LinkTypes
<1>8. ThreadInv'
  BY <1>1, <1>2, ThreadStays
<1>9. \A q \in Ports : Handled(q)' = Handled(q) /\ Writing(q)' = Writing(q)
  BY <1>2, WorkStays DEF Handled
<1>10. ResInv(p)'
  BY <1>2, <1>3, <1>4, <1>6, <1>9 DEF ResInv, Polled
<1>11. \A q \in Ports \ {p} : ResInv(q)'
  BY <1>1, <1>2, <1>6, <1>9, ResStays DEF PortInv
<1>12. \A q \in Ports : ArgInv(q)'
  BY <1>1, <1>2, <1>9, ArgStays DEF PortInv
<1>13. QED
  BY <1>7, <1>8, <1>10, <1>11, <1>12 DEF CallInv, PortInv

\* A callback that is quick runs in the delivery: its call is the next one, and its result
\* follows the one before it.
LEMMA DeliverStep ==
    ASSUME CallInv, NEW p \in Ports, Deliver(p)
    PROVE  CallInv'
<1>1. Types /\ ThreadInv /\ PortInv
  BY DEF CallInv
<1>2. /\ UNCHANGED <<backend, quick, thread, called, pendingFrames, sending>>
      /\ wire[p] # <<>> /\ ~Polled
      /\ wire' = [wire EXCEPT ![p] = Tail(wire[p])]
  BY DEF Deliver
<1>3. \A q : HasWork(q)' = HasWork(q) /\ Writing(q)' = Writing(q)
  BY <1>2, WorkStays
<1>4. Unrun' = Unrun
  BY <1>2, WorkStays
<1>5. CASE p \notin quick
  <2>1. Enqueue(p, Head(wire[p])) /\ UNCHANGED <<ran, results>>
    BY <1>5 DEF Deliver
  <2>2. \A q \in Ports : Handled(q)' = Handled(q)
    BY <1>3, <2>1 DEF Handled
  <2>3. /\ wire' \in [Ports -> Seq(Nat)] /\ queue' \in [Ports -> Seq(Nat)]
        /\ future' \in [Ports -> Futures]
        /\ \A q \in Ports \ {p} : /\ future'[q] = future[q] /\ queue'[q] = queue[q]
                                  /\ wire'[q] = wire[q]
        /\ \A q \in Ports : future[q] \in Nat => future'[q] \in Nat
        /\ ArgInv(p)'
    <3>1. ArgInv(p)
      BY <1>1 DEF PortInv
    <3>2. QED
      BY <1>1, <1>2, <1>5, <2>1, <2>2, <3>1, EnqueueStep
  <2>4. Types'
    BY <1>1, <1>2, <2>1, <2>3 DEF Types, LinkTypes
  <2>5. ThreadInv'
    BY <1>1, <1>2, <2>1, <2>3, ThreadStays
  <2>6. \A q \in Ports \ {p} : ArgInv(q)'
    BY <1>1, <1>2, <2>2, <2>3, ArgStays DEF PortInv
  <2>7. \A q \in Ports : ResInv(q)'
    BY <1>1, <1>2, <1>3, <2>1, ResStays DEF PortInv
  <2>8. QED
    BY <2>3, <2>4, <2>5, <2>6, <2>7 DEF CallInv, PortInv
<1>6. CASE p \in quick
  <2>1. /\ ran' = [ran EXCEPT ![p] = Append(ran[p], Head(wire[p]))]
        /\ results' = [results EXCEPT ![p] = Append(results[p], Head(wire[p]))]
        /\ UNCHANGED <<queue, future>>
    BY <1>6 DEF Deliver
  <2>2. ~HasWork(p)
    BY <1>1, <1>6 DEF ThreadInv, WorkInv, HasWork
  <2>3. ~Writing(p)
    <3>1. SUFFICES ASSUME Writing(p) PROVE FALSE
      OBVIOUS
    <3>2. thread.work # <<>> /\ thread.work[1].port \in quick
      BY <1>1, <1>6, <3>1 DEF Writing, ThreadInv, PhaseInv
    <3>3. 1 \in 1..Len(thread.work)
      BY <1>1, <3>2, WorkTypes, EmptySeq
    <3>4. QED
      BY <1>1, <1>2, <3>2, <3>3 DEF ThreadInv, WorkInv
  <2>4. /\ wire[p] \in Seq(Nat) /\ called[p] \in Nat /\ Len(ran[p]) \in Nat
        /\ ran[p] \in Seq(Nat) /\ results[p] \in Seq(Nat)
    BY <1>1, PortTypes
  <2>5. Handled(p) = Len(ran[p])
    BY <2>2, <2>4 DEF Handled, Bit
  <2>6. /\ Head(wire[p]) = Len(ran[p]) + 1 /\ Tail(wire[p]) \in Seq(Nat)
        /\ CallRun(Len(ran[p]) + 1, NotListening, <<>>, Tail(wire[p]), called[p])
        /\ future[p] = NotListening /\ queue[p] = <<>>
    <3>1. /\ CallRun(Len(ran[p]), NotListening, <<>>, wire[p], called[p])
          /\ future[p] = NotListening /\ queue[p] = <<>>
      BY <1>1, <1>6, <2>5 DEF PortInv, ArgInv
    <3>2. QED
      BY <1>2, <2>4, <3>1, RunQuick
  <2>7. /\ Append(ran[p], Len(ran[p]) + 1) \in Seq(Nat)
        /\ Len(Append(ran[p], Len(ran[p]) + 1)) = Len(ran[p]) + 1
        /\ Run(Append(ran[p], Len(ran[p]) + 1), 0)
    <3>1. Run(ran[p], 0) /\ Len(ran[p]) + 1 = 0 + Len(ran[p]) + 1 /\ Len(ran[p]) + 1 \in Nat
      BY <1>1, <2>4 DEF PortInv, ResInv
    <3>2. QED
      BY <2>4, <3>1, RunAppend
  <2>8. /\ Append(results[p], Len(ran[p]) + 1) \in Seq(Nat)
        /\ ResultRun(Len(ran[p]) + 1, Append(results[p], Len(ran[p]) + 1), 0, <<>>, FALSE)
        /\ pendingFrames[p] = <<>> /\ sending[p] = 0
    <3>1. /\ pendingFrames[p] = <<>> /\ sending[p] = 0 /\ Writing(p) = FALSE
          /\ ResultRun(Len(ran[p]), results[p], sending[p], pendingFrames[p], Writing(p))
      BY <1>1, <1>2, <2>3, PortTypes DEF PortInv, ResInv
    <3>2. ResultRun(Len(ran[p]), results[p], 0, <<>>, FALSE)
      BY <3>1
    <3>3. <<>> \in Seq(Nat) /\ Len(ran[p]) + 1 \in Nat
      BY <2>4
    <3>4. ResultRun(Len(ran[p]) + 1, results[p], 0, <<>>, TRUE)
      BY <2>4, <3>2, <3>3, RunBegun
    <3>5. QED
      BY <2>4, <3>1, <3>3, <3>4, RunWritten
  <2>9. /\ ran \in [Ports -> Seq(Nat)] /\ results \in [Ports -> Seq(Nat)]
        /\ wire \in [Ports -> Seq(Nat)]
    BY <1>1 DEF Types, LinkTypes
  <2>10. /\ ran'[p] = Append(ran[p], Len(ran[p]) + 1)
         /\ results'[p] = Append(results[p], Len(ran[p]) + 1) /\ wire'[p] = Tail(wire[p])
         /\ \A q \in Ports \ {p} : /\ ran'[q] = ran[q] /\ results'[q] = results[q]
                                   /\ wire'[q] = wire[q]
    BY <1>2, <2>1, <2>6, <2>9
  <2>11. Types'
    <3>1. /\ ran' \in [Ports -> Seq(Nat)] /\ results' \in [Ports -> Seq(Nat)]
          /\ wire' \in [Ports -> Seq(Nat)]
      BY <1>2, <2>1, <2>6, <2>7, <2>8, <2>9
    <3>2. QED
      BY <1>1, <1>2, <2>1, <3>1 DEF Types, LinkTypes
  <2>12. \A q \in Ports \ {p} : Handled(q)' = Handled(q)
    BY <1>3, <2>10 DEF Handled
  <2>13. Handled(p)' = Len(ran[p]) + 1 /\ Writing(p)' = FALSE
    <3>1. ~HasWork(p)' /\ ~Writing(p)'
      BY <1>3, <2>2, <2>3
    <3>2. Len(ran'[p]) = Len(ran[p]) + 1 /\ Len(ran[p]) + 1 \in Nat
      BY <2>4, <2>7, <2>10
    <3>3. Writing(p)' = FALSE
      BY <3>1 DEF Writing
    <3>4. QED
      BY <3>1, <3>2, <3>3 DEF Handled, Bit
  <2>14. ArgInv(p)'
    BY <1>2, <2>1, <2>6, <2>10, <2>13 DEF ArgInv
  <2>15. ResInv(p)'
    BY <1>2, <2>7, <2>8, <2>10, <2>13 DEF ResInv
  <2>16. ThreadInv'
    <3>1. PhaseInv' /\ TodoInv'
      BY <1>1, <1>2, <2>1 DEF ThreadInv, PhaseInv, TodoInv, Polled
    <3>2. \A i \in Unrun : thread.work[i].port \in Ports \ {p}
      <4>1. \A i \in Unrun : i \in 1..Len(thread.work)
        BY DEF Unrun
      <4>2. QED
        BY <1>1, <1>6, <4>1, WorkTypes DEF ThreadInv, WorkInv
    <3>3. thread.pc = "write" => thread.work[1].port \in Ports \ {p}
      <4>1. thread.pc = "write" => 1 \in 1..Len(thread.work)
        BY <1>1, WorkTypes, EmptySeq DEF ThreadInv, PhaseInv
      <4>2. QED
        BY <1>1, <2>3, <4>1, WorkTypes DEF Writing
    <3>4. WorkInv'
      BY <1>1, <1>2, <1>4, <2>10, <3>2, <3>3 DEF ThreadInv, WorkInv, Polled
    <3>5. QED
      BY <3>1, <3>4 DEF ThreadInv
  <2>17. \A q \in Ports \ {p} : ArgInv(q)'
    BY <1>1, <1>2, <2>1, <2>10, <2>12, ArgStays DEF PortInv
  <2>18. \A q \in Ports \ {p} : ResInv(q)'
    BY <1>1, <1>2, <1>3, <2>10, ResStays DEF PortInv
  <2>19. QED
    BY <2>11, <2>14, <2>15, <2>16, <2>17, <2>18 DEF CallInv, PortInv
<1>7. QED
  BY <1>5, <1>6

LEMMA ListenerStep ==
    ASSUME CallInv, NEW p \in Ports, ConnectArg(p) \/ Listen(p)
    PROVE  CallInv'
<1>1. Types /\ ThreadInv /\ PortInv
  BY DEF CallInv
<1>2. UNCHANGED <<backend, quick, thread, ran, called, wire, pendingFrames, sending, results>>
  BY DEF ConnectArg, Listen, linkVars
<1>3. \A q \in Ports : Handled(q)' = Handled(q) /\ Writing(q)' = Writing(q)
  BY <1>2, WorkStays DEF Handled
<1>4. /\ queue' \in [Ports -> Seq(Nat)] /\ future' \in [Ports -> Futures]
      /\ \A q \in Ports \ {p} : future'[q] = future[q] /\ queue'[q] = queue[q]
      /\ \A q \in Ports : future[q] \in Nat => future'[q] \in Nat
      /\ ArgInv(p)'
  <2>1. CASE Listen(p)
    BY <1>1, <1>2, <1>3, <2>1, ListenStep DEF Listen, PortInv
  <2>2. CASE ConnectArg(p)
    <3>1. /\ future[p] = NotConnected /\ future' = [future EXCEPT ![p] = NotListening]
          /\ queue' = queue
      BY <2>2 DEF ConnectArg
    <3>2. queue \in [Ports -> Seq(Nat)] /\ future \in [Ports -> Futures]
      BY <1>1 DEF Types, LinkTypes
    <3>3. future'[p] = NotListening /\ \A q \in Ports \ {p} : future'[q] = future[q]
      BY <3>1, <3>2
    <3>4. future' \in [Ports -> Futures]
      BY <3>1, <3>2 DEF Futures
    <3>5. NotConnected \notin Nat /\ NotConnected # NotListening
      BY DEF NotConnected, NotListening
    <3>6. p \notin quick
      BY <1>1, <3>1, <3>5 DEF PortInv, ArgInv
    <3>7. CallRun(Handled(p), NotConnected, queue[p], wire[p], called[p]) /\ Handled(p) \in Nat
      BY <1>1, <3>1, PortTypes DEF PortInv, ArgInv
    <3>8. CallRun(Handled(p), NotListening, queue[p], wire[p], called[p])
      BY <3>7, RunConnected
    <3>9. ArgInv(p)'
      BY <1>2, <1>3, <3>1, <3>3, <3>6, <3>8 DEF ArgInv
    <3>10. QED
      BY <3>1, <3>2, <3>3, <3>4, <3>5, <3>9
  <2>3. QED
    BY <2>1, <2>2
<1>5. Types'
  BY <1>1, <1>2, <1>4 DEF Types, LinkTypes
<1>6. ThreadInv'
  BY <1>1, <1>2, <1>4, ThreadStays
<1>7. \A q \in Ports \ {p} : ArgInv(q)'
  BY <1>1, <1>2, <1>3, <1>4, ArgStays DEF PortInv
<1>8. \A q \in Ports : ResInv(q)'
  BY <1>1, <1>2, <1>3, ResStays DEF PortInv
<1>9. QED
  BY <1>4, <1>5, <1>6, <1>7, <1>8 DEF CallInv, PortInv

\* A step that changes none of the variables of the invariant.
LEMMA IdleStep ==
    ASSUME CallInv, UNCHANGED <<backend, quick, thread, future, queue, ran>>,
           UNCHANGED linkVars
    PROVE  CallInv'
<1>1. Types /\ ThreadInv /\ PortInv
  BY DEF CallInv
<1>2. UNCHANGED <<called, wire, pendingFrames, sending, results>>
  BY DEF linkVars
<1>3. Types' /\ ThreadInv'
  BY <1>1, <1>2, ThreadStays DEF Types, LinkTypes
<1>4. \A q \in Ports : Handled(q)' = Handled(q) /\ Writing(q)' = Writing(q)
  BY <1>2, WorkStays DEF Handled
<1>5. \A q \in Ports : ArgInv(q)' /\ ResInv(q)'
  BY <1>1, <1>2, <1>4, ArgStays, ResStays DEF PortInv
<1>6. QED
  BY <1>3, <1>5 DEF CallInv, PortInv

-----------------------------------------------------------------------------
(* The service thread moves on *)

\* What remains to be shown of a step that leaves the work list alone and begins and ends
\* no write.
LEMMA ThreadMoves ==
    ASSUME Types, ThreadInv, UNCHANGED <<quick, backend, ran>>, thread'.work = thread.work,
           thread.pc # "write", thread'.pc # "write", PhaseInv', TodoInv'
    PROVE  /\ ThreadInv'
           /\ \A q \in Ports : Handled(q)' = Handled(q) /\ Writing(q)' = Writing(q)
<1>1. /\ Unrun' = Unrun
      /\ \A p : HasWork(p)' = HasWork(p) /\ Writing(p)' = Writing(p)
  BY WorkStays
<1>2. WorkInv'
  BY <1>1 DEF ThreadInv, WorkInv, Polled
<1>3. QED
  BY <1>1, <1>2 DEF ThreadInv, Handled

LEMMA MoveStep ==
    ASSUME CallInv, UNCHANGED <<backend, quick, future, queue, ran>>, UNCHANGED linkVars,
           thread' \in ThreadTypes, thread'.work = thread.work,
           thread.pc # "write", thread'.pc # "write", PhaseInv', TodoInv'
    PROVE  CallInv'
<1>1. Types /\ ThreadInv /\ PortInv
  BY DEF CallInv
<1>2. UNCHANGED <<called, wire, pendingFrames, sending, results>>
  BY DEF linkVars
<1>3. /\ ThreadInv'
      /\ \A q \in Ports : Handled(q)' = Handled(q) /\ Writing(q)' = Writing(q)
  BY <1>1, ThreadMoves
<1>4. Types'
  BY <1>1, <1>2 DEF Types, LinkTypes
<1>5. \A q \in Ports : ArgInv(q)' /\ ResInv(q)'
  BY <1>1, <1>2, <1>3, ArgStays, ResStays DEF PortInv
<1>6. QED
  BY <1>3, <1>4, <1>5 DEF CallInv, PortInv

\* The listeners are the ports whose future is a number, and none of them is quick.
LEMMA ListenersListen ==
    ASSUME Types, PortInv, NEW p \in Listeners
    PROVE  p \in Ports /\ p \notin quick /\ future[p] \in Nat
<1>1. p \in Ports /\ future[p] # NotConnected /\ future[p] # NotListening
  BY DEF Listeners
<1>2. future[p] \in Futures
  BY <1>1, PortTypes
<1>3. p \notin quick
  BY <1>1 DEF PortInv, ArgInv
<1>4. QED
  BY <1>1, <1>2, <1>3 DEF Futures

\* The iteration begins, goes on to the callbacks, then to the tasks, and ends.
LEMMA PhaseStep ==
    ASSUME CallInv, Loop \/ ListenersDone \/ CallbacksDone \/ TasksDone
    PROVE  CallInv'
<1>1. Types /\ ThreadInv /\ PortInv /\ thread \in ThreadTypes
  BY DEF CallInv, Types
<1>2. UNCHANGED <<backend, quick, future, queue, ran>> /\ UNCHANGED linkVars
  BY DEF Loop, ListenersDone, CallbacksDone, TasksDone
<1>3. CASE Loop
  <2>1. thread.pc = "loop" /\ thread.work = <<>>
    BY <1>1, <1>3 DEF Loop, ThreadInv, PhaseInv
  <2>2. CASE shutdown
    <3>1. thread' = [thread EXCEPT !.pc = "ended"]
      BY <1>3, <2>2 DEF Loop
    <3>2. /\ thread'.pc = "ended" /\ thread'.work = thread.work /\ thread'.todo = thread.todo
          /\ thread' \in ThreadTypes
      BY <1>1, <3>1 DEF ThreadTypes
    <3>3. PhaseInv' /\ TodoInv'
      BY <1>1, <1>2, <2>1, <3>2 DEF ThreadInv, PhaseInv, TodoInv, Polled
    <3>4. QED
      BY <1>2, <2>1, <3>2, <3>3, MoveStep
  <2>3. CASE ~shutdown
    <3>1. thread' = [thread EXCEPT !.pc = "listeners", !.todo = Listeners]
      BY <1>3, <2>3 DEF Loop
    <3>2. Listeners \subseteq Ports
      BY DEF Listeners
    <3>3. /\ thread'.pc = "listeners" /\ thread'.work = <<>> /\ thread'.todo = Listeners
          /\ thread' \in ThreadTypes
      BY <1>1, <2>1, <3>1, <3>2 DEF ThreadTypes
    <3>4. PhaseInv'
      BY <3>3 DEF PhaseInv
    <3>5. Len(thread'.work) = 0
      BY <3>3
    <3>6. \A p \in thread'.todo :
             /\ p \in Ports /\ p \notin quick' /\ future'[p] \in Nat
             /\ \A i \in 1..Len(thread'.work) : thread'.work[i].port # p
      BY <1>1, <1>2, <3>3, <3>5, ListenersListen
    <3>7. TodoInv'
      BY <3>6 DEF TodoInv
    <3>8. QED
      BY <1>2, <2>1, <3>3, <3>4, <3>7, MoveStep
  <2>4. QED
    BY <2>2, <2>3
<1>4. CASE ListenersDone
  <2>1. thread.pc = "listeners" /\ thread.todo = {} /\ thread' = [thread EXCEPT !.pc = "callbacks"]
    BY <1>4 DEF ListenersDone
  <2>2. /\ thread'.pc = "callbacks" /\ thread'.work = thread.work /\ thread'.todo = {}
        /\ thread' \in ThreadTypes
    BY <1>1, <2>1 DEF ThreadTypes
  <2>3. PhaseInv' /\ TodoInv'
    BY <2>2 DEF PhaseInv, TodoInv
  <2>4. QED
    BY <1>2, <2>1, <2>2, <2>3, MoveStep
<1>5. CASE CallbacksDone
  <2>1. /\ thread.pc = "callbacks" /\ thread.work = <<>>
        /\ thread' = [thread EXCEPT !.pc = "tasks",
                         !.todo = IF Polled THEN Ports \X {"arg", "result"} ELSE {}]
    BY <1>5 DEF CallbacksDone
  <2>2. /\ thread'.pc = "tasks" /\ thread'.work = <<>> /\ (thread'.todo = {} \/ Polled)
        /\ thread' \in ThreadTypes
    BY <1>1, <2>1 DEF ThreadTypes
  <2>3. PhaseInv' /\ TodoInv'
    BY <1>2, <2>2 DEF PhaseInv, TodoInv, Polled
  <2>4. QED
    BY <1>2, <2>1, <2>2, <2>3, MoveStep
<1>6. CASE TasksDone
  <2>1. thread.pc = "tasks" /\ thread.todo = {} /\ thread' = [thread EXCEPT !.pc = "loop"]
    BY <1>6 DEF TasksDone
  <2>2. thread.work = <<>>
    BY <1>1, <2>1 DEF ThreadInv, PhaseInv
  <2>3. /\ thread'.pc = "loop" /\ thread'.work = <<>> /\ thread'.todo = {}
        /\ thread' \in ThreadTypes
    BY <1>1, <2>1, <2>2 DEF ThreadTypes
  <2>4. PhaseInv' /\ TodoInv'
    BY <2>3 DEF PhaseInv, TodoInv
  <2>5. QED
    BY <1>2, <2>1, <2>2, <2>3, <2>4, MoveStep
<1>7. QED
  BY <1>3, <1>4, <1>5, <1>6

LEMMA PollResultStep ==
    ASSUME CallInv, NEW p \in Ports, PollResult(p)
    PROVE  CallInv'
<1>1. Types /\ ThreadInv /\ PortInv /\ thread \in ThreadTypes
  BY DEF CallInv, Types
<1>2. /\ UNCHANGED <<backend, quick, future, queue, ran, called, wire, results>>
      /\ thread.pc = "tasks" /\ thread' = [thread EXCEPT !.todo = thread.todo \ {<<p, "result">>}]
      /\ thread.todo # {}
  BY DEF PollResult
<1>3. thread.work = <<>> /\ Polled
  BY <1>1, <1>2 DEF ThreadInv, PhaseInv
<1>4. thread'.pc = "tasks" /\ thread'.work = <<>> /\ thread' \in ThreadTypes
  BY <1>1, <1>2, <1>3 DEF ThreadTypes
<1>5. PhaseInv' /\ TodoInv'
  BY <1>2, <1>3, <1>4 DEF PhaseInv, TodoInv, Polled
<1>6. /\ ThreadInv'
      /\ \A q \in Ports : Handled(q)' = Handled(q) /\ Writing(q)' = Writing(q)
  BY <1>1, <1>2, <1>3, <1>4, <1>5, ThreadMoves
<1>7. /\ sending \in [Ports -> Nat] /\ pendingFrames \in [Ports -> Seq(Nat)]
      /\ results[p] \in Seq(Nat) /\ pendingFrames[p] \in Seq(Nat) /\ Writing(p) \in BOOLEAN
      /\ Len(ran[p]) \in Nat
  BY <1>1, PortTypes DEF Types, LinkTypes
<1>8. /\ sending' \in [Ports -> Nat] /\ pendingFrames' \in [Ports -> Seq(Nat)]
      /\ \A q \in Ports \ {p} : sending'[q] = sending[q] /\ pendingFrames'[q] = pendingFrames[q]
      /\ ResultRun(Len(ran[p]), results[p], sending'[p], pendingFrames'[p], Writing(p))
  <2>1. ResultRun(Len(ran[p]), results[p], sending[p], pendingFrames[p], Writing(p))
    BY <1>1 DEF PortInv, ResInv
  <2>2. CASE sending[p] = 0 /\ pendingFrames[p] # <<>>
    <3>1. /\ sending' = [sending EXCEPT ![p] = Head(pendingFrames[p])]
          /\ pendingFrames' = [pendingFrames EXCEPT ![p] = Tail(pendingFrames[p])]
      BY <2>2 DEF PollResult
    <3>2. /\ Head(pendingFrames[p]) \in Nat /\ Tail(pendingFrames[p]) \in Seq(Nat)
          /\ ResultRun(Len(ran[p]), results[p], Head(pendingFrames[p]),
                       Tail(pendingFrames[p]), Writing(p))
      BY <1>7, <2>1, <2>2, RunPolled
    <3>3. QED
      BY <1>7, <3>1, <3>2
  <2>3. CASE ~(sending[p] = 0 /\ pendingFrames[p] # <<>>)
    <3>1. sending' = sending /\ pendingFrames' = pendingFrames
      BY <2>3 DEF PollResult
    <3>2. QED
      BY <1>7, <2>1, <3>1
  <2>4. QED
    BY <2>2, <2>3
<1>9. Types'
  BY <1>1, <1>2, <1>4, <1>8 DEF Types, LinkTypes
<1>10. ResInv(p)'
  BY <1>1, <1>2, <1>3, <1>6, <1>8 DEF PortInv, ResInv, Polled
<1>11. \A q \in Ports \ {p} : ResInv(q)'
  BY <1>1, <1>2, <1>6, <1>8, ResStays DEF PortInv
<1>12. \A q \in Ports : ArgInv(q)'
  BY <1>1, <1>2, <1>6, ArgStays DEF PortInv
<1>13. QED
  BY <1>6, <1>9, <1>10, <1>11, <1>12 DEF CallInv, PortInv

\* poll() of the arg port of an ordinary callback, or of one with nothing to deliver.
LEMMA PollArgStep ==
    ASSUME CallInv, NEW p \in Ports, PollArg(p),
           p \notin quick \/ wire[p] = <<>> \/ future[p] = NotConnected \/ ~Accepts(p)
    PROVE  CallInv'
<1>1. Types /\ ThreadInv /\ PortInv /\ thread \in ThreadTypes
  BY DEF CallInv, Types
<1>2. /\ UNCHANGED <<backend, quick, ran, called, results, pendingFrames, sending>>
      /\ thread.pc = "tasks" /\ thread' = [thread EXCEPT !.todo = thread.todo \ {<<p, "arg">>}]
      /\ thread.todo # {}
  BY DEF PollArg
<1>3. thread.work = <<>> /\ Polled
  BY <1>1, <1>2 DEF ThreadInv, PhaseInv
<1>4. thread'.pc = "tasks" /\ thread'.work = <<>> /\ thread' \in ThreadTypes
  BY <1>1, <1>2, <1>3 DEF ThreadTypes
<1>5. PhaseInv' /\ TodoInv'
  BY <1>2, <1>3, <1>4 DEF PhaseInv, TodoInv, Polled
<1>6. /\ ThreadInv'
      /\ \A q \in Ports : Handled(q)' = Handled(q) /\ Writing(q)' = Writing(q)
  BY <1>1, <1>2, <1>3, <1>4, <1>5, ThreadMoves
<1>7. /\ wire' \in [Ports -> Seq(Nat)] /\ queue' \in [Ports -> Seq(Nat)]
      /\ future' \in [Ports -> Futures]
      /\ \A q \in Ports : ArgInv(q)'
  <2>1. CASE wire[p] = <<>> \/ future[p] = NotConnected \/ ~Accepts(p)
    <3>1. UNCHANGED <<wire, queue, future>>
      BY <2>1 DEF PollArg
    <3>2. QED
      BY <1>1, <1>2, <1>6, <3>1, ArgStays DEF PortInv, Types, LinkTypes
  <2>2. CASE ~(wire[p] = <<>> \/ future[p] = NotConnected \/ ~Accepts(p))
    <3>1. /\ wire' = [wire EXCEPT ![p] = Tail(wire[p])] /\ Enqueue(p, Head(wire[p]))
          /\ p \notin quick /\ wire[p] # <<>>
      BY <2>2 DEF PollArg
    <3>2. ArgInv(p) /\ UNCHANGED <<called, quick>>
      BY <1>1, <1>2 DEF PortInv
    <3>3. /\ wire' \in [Ports -> Seq(Nat)] /\ queue' \in [Ports -> Seq(Nat)]
          /\ future' \in [Ports -> Futures]
          /\ \A q \in Ports \ {p} : /\ future'[q] = future[q] /\ queue'[q] = queue[q]
                                    /\ wire'[q] = wire[q]
          /\ ArgInv(p)'
      BY <1>1, <1>6, <3>1, <3>2, EnqueueStep
    <3>4. \A q \in Ports \ {p} : ArgInv(q)'
      BY <1>1, <1>2, <1>6, <3>3, ArgStays DEF PortInv
    <3>5. QED
      BY <3>3, <3>4
  <2>3. QED
    BY <2>1, <2>2
<1>8. Types'
  BY <1>1, <1>2, <1>4, <1>7 DEF Types, LinkTypes
<1>9. \A q \in Ports : ResInv(q)'
  BY <1>1, <1>2, <1>6, ResStays DEF PortInv
<1>10. QED
  BY <1>6, <1>7, <1>8, <1>9 DEF CallInv, PortInv

\* The thread takes the value of a future for the work list and reads again.
LEMMA CheckListenerStep ==
    ASSUME CallInv, NEW p \in Ports, CheckListener(p)
    PROVE  CallInv'
<1>1. Types /\ ThreadInv /\ PortInv /\ thread \in ThreadTypes
  BY DEF CallInv, Types
<1>2. /\ UNCHANGED <<backend, quick, ran>> /\ UNCHANGED linkVars
      /\ thread.pc = "listeners" /\ p \in thread.todo
  BY DEF CheckListener
<1>3. UNCHANGED <<called, wire, pendingFrames, sending, results>>
  BY <1>2 DEF linkVars
<1>4. /\ \A q \in thread.todo : /\ q \in Ports /\ q \notin quick /\ future[q] \in Nat
                                /\ \A i \in 1..Len(thread.work) : thread.work[i].port # q
      /\ p \notin quick /\ future[p] \in Nat
      /\ \A i \in 1..Len(thread.work) : thread.work[i].port # p
  BY <1>1, <1>2 DEF ThreadInv, TodoInv
<1>5. CASE future[p] = Waiting
  <2>1. thread' = [thread EXCEPT !.todo = thread.todo \ {p}] /\ UNCHANGED <<future, queue>>
    BY <1>5 DEF CheckListener
  <2>2. /\ thread'.pc = "listeners" /\ thread'.work = thread.work
        /\ thread'.todo = thread.todo \ {p} /\ thread' \in ThreadTypes
    BY <1>1, <1>2, <2>1 DEF ThreadTypes
  <2>3. PhaseInv'
    BY <2>2 DEF PhaseInv
  <2>4. TodoInv'
    BY <1>2, <1>4, <2>1, <2>2 DEF TodoInv
  <2>5. QED
    BY <1>2, <2>1, <2>2, <2>3, <2>4, MoveStep
<1>6. CASE future[p] # Waiting
  <2> DEFINE n == Len(thread.work)
             w == [port |-> p, call |-> future[p]]
  <2>1. thread' = [thread EXCEPT !.todo = thread.todo \ {p}, !.work = Append(thread.work, w)]
    BY <1>6 DEF CheckListener
  <2>2. thread.work \in Seq(Items) /\ n \in Nat /\ w \in Items
    BY <1>1, <1>4, WorkTypes DEF Items
  <2>3. /\ Append(thread.work, w) \in Seq(Items) /\ Len(Append(thread.work, w)) = n + 1
        /\ \A i \in 1..n : Append(thread.work, w)[i] = thread.work[i]
        /\ Append(thread.work, w)[n + 1] = w /\ Append(thread.work, w) # <<>>
    BY <2>2, AppendProperties
  <2>4. /\ thread'.pc = "listeners" /\ thread'.work = Append(thread.work, w)
        /\ thread'.todo = thread.todo \ {p} /\ thread' \in ThreadTypes
    BY <1>1, <1>2, <2>1, <2>3 DEF ThreadTypes
  <2>5. /\ Len(thread'.work) = n + 1
        /\ \A i \in 1..n : thread'.work[i] = thread.work[i]
        /\ thread'.work[n + 1].port = p /\ thread'.work[n + 1].call = future[p]
    BY <2>3, <2>4
  <2>6. Unrun = 1..n /\ Unrun' = 1..(n + 1)
    BY <1>2, <2>4, <2>5 DEF Unrun
  <2>7. \A i \in 1..(n + 1) : i # n + 1 => i \in 1..n
    BY <2>2
  <2>8. \A i \in 1..n : i \in 1..(n + 1)
    BY <2>2
  <2>9. n + 1 \in 1..(n + 1)
    BY <2>2
  <2> HIDE DEF n, w
  <2>10. ~HasWork(p) /\ HasWork(p)'
    <3>1. ~HasWork(p)
      BY <1>4, <2>6 DEF HasWork, n
    <3>2. HasWork(p)'
      BY <2>5, <2>6, <2>9 DEF HasWork
    <3>3. QED
      BY <3>1, <3>2
  <2>11. ASSUME NEW q \in Ports, q # p PROVE HasWork(q)' = HasWork(q)
    <3>1. ASSUME HasWork(q) PROVE HasWork(q)'
      BY <2>5, <2>6, <2>8, <3>1 DEF HasWork
    <3>2. ASSUME HasWork(q)' PROVE HasWork(q)
      <4>1. PICK i \in Unrun' : thread'.work[i].port = q
        BY <3>2 DEF HasWork
      <4>2. i \in 1..n
        BY <2>5, <2>6, <2>7, <2>11, <4>1
      <4>3. QED
        BY <2>5, <2>6, <4>1, <4>2 DEF HasWork
    <3>3. HasWork(q) \in BOOLEAN /\ HasWork(q)' \in BOOLEAN
      BY DEF HasWork
    <3>4. QED
      BY <3>1, <3>2, <3>3
  <2>12. /\ \A q \in Ports \ {p} : Handled(q)' = Handled(q)
         /\ \A q \in Ports : Writing(q)' = Writing(q)
    BY <1>2, <2>4, <2>11 DEF Handled, Writing
  <2>13. /\ wire[p] \in Seq(Nat) /\ called[p] \in Nat /\ Len(ran[p]) \in Nat
         /\ queue[p] \in Seq(Nat)
    BY <1>1, PortTypes
  <2>14. Handled(p) = Len(ran[p]) /\ Handled(p)' = Len(ran[p]) + 1
    BY <1>2, <2>10, <2>13 DEF Handled, Bit
  <2>15. /\ future[p] = Len(ran[p]) + 1
         /\ CallRun(Len(ran[p]) + 1, NotListening, queue[p], wire[p], called[p])
    <3>1. CallRun(Len(ran[p]), future[p], queue[p], wire[p], called[p])
      BY <1>1, <2>14 DEF PortInv, ArgInv
    <3>2. QED
      BY <1>4, <1>6, <2>13, <3>1, RunTaken
  <2>16. /\ queue' \in [Ports -> Seq(Nat)] /\ future' \in [Ports -> Futures]
         /\ \A q \in Ports \ {p} : future'[q] = future[q] /\ queue'[q] = queue[q]
         /\ CallRun(Len(ran[p]) + 1, future'[p], queue'[p], wire[p], called[p])
    <3>1. queue \in [Ports -> Seq(Nat)] /\ future \in [Ports -> Futures] /\ Len(ran[p]) + 1 \in Nat
      BY <1>1, <2>13 DEF Types, LinkTypes
    <3>2. /\ future' = [future EXCEPT ![p] =
                            IF queue[p] = <<>> THEN Waiting ELSE Head(queue[p])]
          /\ queue' = [queue EXCEPT ![p] =
                            IF queue[p] = <<>> THEN queue[p] ELSE Tail(queue[p])]
      BY <1>6 DEF CheckListener
    <3>3. CASE queue[p] = <<>>
      <4>1. /\ future' = [future EXCEPT ![p] = Waiting]
            /\ queue' = [queue EXCEPT ![p] = queue[p]]
        BY <3>2, <3>3
      <4>2. Waiting \in Futures
        BY DEF Waiting, Futures
      <4>3. CallRun(Len(ran[p]) + 1, Waiting, queue[p], wire[p], called[p])
        BY <2>13, <2>15, <3>1, <3>3, RunRead
      <4>4. QED
        BY <2>13, <3>1, <4>1, <4>2, <4>3
    <3>4. CASE queue[p] # <<>>
      <4>1. /\ future' = [future EXCEPT ![p] = Head(queue[p])]
            /\ queue' = [queue EXCEPT ![p] = Tail(queue[p])]
        BY <3>2, <3>4
      <4>2. /\ Head(queue[p]) \in Nat /\ Tail(queue[p]) \in Seq(Nat)
            /\ CallRun(Len(ran[p]) + 1, Head(queue[p]), Tail(queue[p]), wire[p], called[p])
        BY <2>13, <2>15, <3>1, <3>4, RunRead
      <4>3. Head(queue[p]) \in Futures
        BY <4>2 DEF Futures
      <4>4. QED
        BY <3>1, <4>1, <4>2, <4>3
    <3>5. QED
      BY <3>3, <3>4
  <2>17. ArgInv(p)'
    BY <1>2, <1>3, <1>4, <2>14, <2>16 DEF ArgInv
  <2>18. \A q \in Ports \ {p} : ArgInv(q)'
    BY <1>1, <1>2, <1>3, <2>12, <2>16, ArgStays DEF PortInv
  <2>19. \A q \in Ports : ResInv(q)'
    BY <1>1, <1>2, <1>3, <2>12, ResStays DEF PortInv
  <2>20. Types'
    BY <1>1, <1>2, <1>3, <2>4, <2>16 DEF Types, LinkTypes
  <2>21. PhaseInv'
    BY <2>4 DEF PhaseInv
  <2>22. TodoInv'
    <3>1. ASSUME NEW q \in thread'.todo
          PROVE  /\ q \in Ports /\ q \notin quick' /\ future'[q] \in Nat
                 /\ \A i \in 1..Len(thread'.work) : thread'.work[i].port # q
      <4>1. q \in thread.todo /\ q # p
        BY <2>4
      <4>2. q \in Ports /\ q \notin quick' /\ future'[q] \in Nat
        BY <1>2, <1>4, <2>16, <4>1
      <4>3. \A i \in 1..n : thread.work[i].port # q
        BY <1>4, <4>1 DEF n
      <4>4. \A i \in 1..(n + 1) : thread'.work[i].port # q
        BY <2>5, <2>7, <4>1, <4>3
      <4>5. QED
        BY <2>5, <4>2, <4>4
    <3>2. QED
      BY <3>1 DEF TodoInv
  <2>23. WorkInv'
    <3>1. ASSUME NEW i \in 1..(n + 1), NEW j \in 1..(n + 1),
                 thread'.work[i].port = thread'.work[j].port
          PROVE  i = j
      <4>1. \A k \in 1..n : thread'.work[k].port # p
        BY <1>4, <2>5 DEF n
      <4>2. CASE i = n + 1 \/ j = n + 1
        BY <2>5, <2>7, <3>1, <4>1, <4>2
      <4>3. CASE ~(i = n + 1 \/ j = n + 1)
        BY <1>1, <2>5, <2>7, <3>1, <4>3 DEF ThreadInv, WorkInv, n
      <4>4. QED
        BY <4>2, <4>3
    <3>2. ASSUME NEW i \in 1..(n + 1)
          PROVE  /\ thread'.work[i].port \notin quick
                 /\ thread'.work[i].call = Len(ran[thread'.work[i].port]) + 1
      <4>1. CASE i = n + 1
        BY <1>4, <2>5, <2>15, <4>1
      <4>2. CASE i # n + 1
        BY <1>1, <2>5, <2>6, <2>7, <4>2 DEF ThreadInv, WorkInv
      <4>3. QED
        BY <4>1, <4>2
    <3>3. QED
      BY <1>2, <2>4, <2>5, <2>6, <3>1, <3>2 DEF WorkInv
  <2>24. QED
    BY <2>17, <2>18, <2>19, <2>20, <2>21, <2>22, <2>23 DEF CallInv, PortInv, ThreadInv
<1>7. QED
  BY <1>5, <1>6

\* A callback runs: its call moves from the work list to those that have run, and its
\* result is to be written.
LEMMA RunCallbackStep ==
    ASSUME CallInv, RunCallback
    PROVE  CallInv'
<1> DEFINE n == Len(thread.work)
<1>1. Types /\ ThreadInv /\ PortInv /\ thread \in ThreadTypes
  BY DEF CallInv, Types
<1>2. /\ UNCHANGED <<backend, quick>> /\ UNCHANGED linkVars
      /\ thread.pc = "callbacks" /\ thread.work # <<>>
      /\ thread' = [thread EXCEPT !.pc = "write", !.back = "callbacks"]
  BY DEF RunCallback
<1>3. UNCHANGED <<called, wire, pendingFrames, sending, results>>
  BY <1>2 DEF linkVars
<1>4. /\ thread.work \in Seq(Items) /\ n \in Nat /\ n >= 1 /\ 1 \in 1..n
      /\ Head(thread.work) = thread.work[1]
  BY <1>1, <1>2, WorkTypes, EmptySeq, HeadTailProperties
<1>5. /\ thread'.pc = "write" /\ thread'.work = thread.work /\ thread'.back = "callbacks"
      /\ thread'.todo = thread.todo /\ thread' \in ThreadTypes
  BY <1>1, <1>2 DEF ThreadTypes
<1>6. Unrun = 1..n /\ Unrun' = {i \in 1..n : i # 1}
  BY <1>2, <1>5 DEF Unrun
<1>7. /\ \A i \in 1..n : thread.work[i].port \in Ports
      /\ \A i, j \in 1..n : thread.work[i].port = thread.work[j].port => i = j
      /\ \A i \in 1..n : thread.work[i].port \in quick => Polled
      /\ \A i \in 1..n : /\ thread.work[i].port \notin quick
                         /\ thread.work[i].call = Len(ran[thread.work[i].port]) + 1
  BY <1>1, <1>6, WorkTypes DEF ThreadInv, WorkInv
<1>p. PICK p \in Ports : p = thread.work[1].port
  BY <1>4, <1>7
<1>8. /\ p \in Ports /\ p \notin quick /\ thread.work[1].call = Len(ran[p]) + 1
      /\ ran[p] \in Seq(Nat) /\ Len(ran[p]) \in Nat
  BY <1>1, <1>4, <1>7, <1>p, PortTypes
<1>9. /\ ran \in [Ports -> Seq(Nat)] /\ ran' = [ran EXCEPT ![p] = Append(ran[p], Len(ran[p]) + 1)]
  BY <1>1, <1>4, <1>8, <1>p DEF RunCallback, Types, LinkTypes
<1> HIDE DEF n
<1>10. /\ Append(ran[p], Len(ran[p]) + 1) \in Seq(Nat)
       /\ Len(Append(ran[p], Len(ran[p]) + 1)) = Len(ran[p]) + 1
       /\ Run(Append(ran[p], Len(ran[p]) + 1), 0)
  <2>1. Run(ran[p], 0) /\ Len(ran[p]) + 1 = 0 + Len(ran[p]) + 1 /\ Len(ran[p]) + 1 \in Nat
    BY <1>1, <1>8 DEF PortInv, ResInv
  <2>2. QED
    BY <1>8, <2>1, RunAppend
<1>11. /\ ran' \in [Ports -> Seq(Nat)] /\ ran'[p] = Append(ran[p], Len(ran[p]) + 1)
       /\ \A q \in Ports \ {p} : ran'[q] = ran[q]
  BY <1>8, <1>9, <1>10
<1>12. HasWork(p) /\ ~HasWork(p)'
  <2>1. HasWork(p)
    BY <1>4, <1>6, <1>p DEF HasWork
  <2>2. ~HasWork(p)'
    BY <1>4, <1>5, <1>6, <1>7, <1>p DEF HasWork
  <2>3. QED
    BY <2>1, <2>2
<1>13. ASSUME NEW q \in Ports, q # p PROVE HasWork(q)' = HasWork(q)
  BY <1>5, <1>6, <1>13, <1>p DEF HasWork
<1>14. \A q \in Ports : Handled(q)' = Handled(q)
  <2>1. Handled(p)' = Handled(p)
    BY <1>8, <1>10, <1>11, <1>12 DEF Handled, Bit
  <2>2. \A q \in Ports \ {p} : Handled(q)' = Handled(q)
    BY <1>11, <1>13 DEF Handled
  <2>3. QED
    BY <2>1, <2>2
<1>15. /\ Writing(p) = FALSE /\ Writing(p)' = TRUE
       /\ \A q \in Ports \ {p} : Writing(q)' = Writing(q)
  BY <1>2, <1>5, <1>p DEF Writing
<1>16. /\ queue' \in [Ports -> Seq(Nat)] /\ future' \in [Ports -> Futures]
       /\ \A q \in Ports : ArgInv(q)'
  <2>1. CASE UNCHANGED <<queue, future>>
    BY <1>1, <1>2, <1>3, <1>14, <2>1, ArgStays DEF PortInv, Types, LinkTypes
  <2>2. CASE \E q \in Ports : AddListener(q)
    <3>1. PICK q \in Ports : AddListener(q)
      BY <2>2
    <3>2. ArgInv(q) /\ UNCHANGED <<called, quick, wire>> /\ Handled(q)' = Handled(q)
      BY <1>1, <1>2, <1>3, <1>14 DEF PortInv
    <3>3. /\ queue' \in [Ports -> Seq(Nat)] /\ future' \in [Ports -> Futures]
          /\ \A r \in Ports \ {q} : future'[r] = future[r] /\ queue'[r] = queue[r]
          /\ ArgInv(q)'
      BY <1>1, <3>1, <3>2, ListenStep
    <3>4. \A r \in Ports \ {q} : ArgInv(r)'
      BY <1>1, <1>2, <1>3, <1>14, <3>3, ArgStays DEF PortInv
    <3>5. QED
      BY <3>3, <3>4
  <2>3. QED
    BY <2>1, <2>2 DEF RunCallback
<1>17. ResInv(p)'
  <2>1. /\ results[p] \in Seq(Nat) /\ sending[p] \in Nat /\ pendingFrames[p] \in Seq(Nat)
        /\ ResultRun(Len(ran[p]), results[p], sending[p], pendingFrames[p], FALSE)
        /\ ~Polled => pendingFrames[p] = <<>> /\ sending[p] = 0
    BY <1>1, <1>8, <1>15, PortTypes DEF PortInv, ResInv
  <2>2. ResultRun(Len(ran[p]) + 1, results[p], sending[p], pendingFrames[p], TRUE)
    BY <1>8, <2>1, RunBegun
  <2>3. QED
    BY <1>2, <1>3, <1>8, <1>10, <1>11, <1>15, <2>1, <2>2 DEF ResInv, Polled
<1>18. \A q \in Ports \ {p} : ResInv(q)'
  BY <1>1, <1>2, <1>3, <1>11, <1>15, ResStays DEF PortInv
<1>19. Types'
  BY <1>1, <1>2, <1>3, <1>5, <1>11, <1>16 DEF Types, LinkTypes
<1>20. PhaseInv' /\ TodoInv'
  BY <1>1, <1>2, <1>5 DEF ThreadInv, PhaseInv, TodoInv, Polled
<1>21. WorkInv'
  <2>1. Len(thread'.work) = n
    BY <1>5 DEF n
  <2>2. ASSUME NEW i \in Unrun'
        PROVE  /\ thread'.work[i].port \notin quick'
               /\ thread'.work[i].call = Len(ran'[thread'.work[i].port]) + 1
    <3>1. i \in 1..n /\ i # 1
      BY <1>6
    <3>2. thread.work[i].port \in Ports \ {p}
      BY <1>4, <1>7, <1>p, <3>1
    <3>3. thread'.work[i] = thread.work[i]
      BY <1>5
    <3>4. ran'[thread.work[i].port] = ran[thread.work[i].port]
      BY <1>11, <3>2
    <3>5. /\ thread.work[i].port \notin quick
          /\ thread.work[i].call = Len(ran[thread.work[i].port]) + 1
      BY <1>7, <3>1
    <3>6. QED
      BY <1>2, <3>3, <3>4, <3>5
  <2>3. thread'.work[1].call = Len(ran'[thread'.work[1].port])
    BY <1>5, <1>8, <1>10, <1>11, <1>p
  <2>4. /\ \A i, j \in 1..Len(thread'.work) :
              thread'.work[i].port = thread'.work[j].port => i = j
        /\ \A i \in 1..Len(thread'.work) : thread'.work[i].port \in quick' => Polled'
    BY <1>2, <1>5, <1>7, <2>1 DEF Polled
  <2>5. QED
    BY <2>2, <2>3, <2>4 DEF WorkInv
<1>22. QED
  BY <1>16, <1>17, <1>18, <1>19, <1>20, <1>21 DEF CallInv, PortInv, ThreadInv

\* The result of the callback that has run is written, and its entry goes.
LEMMA WriteResultStep ==
    ASSUME CallInv, WriteResult
    PROVE  CallInv'
<1> DEFINE n == Len(thread.work)
<1>1. Types /\ ThreadInv /\ PortInv /\ thread \in ThreadTypes
  BY DEF CallInv, Types
<1>2. /\ UNCHANGED <<backend, quick, queue, future, ran, called, wire, sending>>
      /\ thread.pc = "write" /\ thread.work # <<>> /\ thread.back \in {"callbacks", "tasks"}
      /\ thread' = [thread EXCEPT !.pc = thread.back, !.work = Tail(thread.work)]
  BY <1>1 DEF WriteResult, ThreadInv, PhaseInv
<1>3. /\ thread.work \in Seq(Items) /\ n \in Nat /\ n >= 1 /\ 1 \in 1..n
      /\ Head(thread.work) = thread.work[1] /\ Tail(thread.work) \in Seq(Items)
      /\ Len(Tail(thread.work)) = n - 1
      /\ \A i \in 1..(n - 1) : Tail(thread.work)[i] = thread.work[i + 1]
  BY <1>1, <1>2, WorkTypes, EmptySeq, HeadTailProperties
<1>4. /\ thread'.pc = thread.back /\ thread'.pc # "write" /\ thread'.pc \in {"callbacks", "tasks"}
      /\ thread'.work = Tail(thread.work) /\ thread'.todo = thread.todo /\ thread' \in ThreadTypes
  BY <1>1, <1>2, <1>3 DEF ThreadTypes
<1>5. Unrun = {i \in 1..n : i # 1} /\ Unrun' = 1..(n - 1)
  BY <1>2, <1>3, <1>4 DEF Unrun
<1>p. PICK p \in Ports : p = thread.work[1].port
  BY <1>1, <1>3, WorkTypes
<1>6. /\ thread.work[1].call = Len(ran[p]) /\ Len(ran[p]) \in Nat
      /\ pendingFrames[p] \in Seq(Nat) /\ sending[p] \in Nat /\ results[p] \in Seq(Nat)
  BY <1>1, <1>2, <1>p, PortTypes DEF ThreadInv, WorkInv
<1> HIDE DEF n
<1>7. \A i \in 1..(n - 1) : i + 1 \in Unrun /\ i + 1 \in 1..n
  BY <1>3, <1>5
<1>8. \A i \in Unrun : i - 1 \in 1..(n - 1) /\ (i - 1) + 1 = i
  BY <1>3, <1>5
<1>9. \A i \in 1..(n - 1) : thread'.work[i] = thread.work[i + 1]
  BY <1>3, <1>4
<1>10. ASSUME NEW q \in Ports PROVE HasWork(q)' = HasWork(q)
  <2>1. ASSUME HasWork(q) PROVE HasWork(q)'
    <3>1. PICK i \in Unrun : thread.work[i].port = q
      BY <2>1 DEF HasWork
    <3>2. i - 1 \in Unrun' /\ thread'.work[i - 1] = thread.work[i]
      BY <1>5, <1>8, <1>9, <3>1
    <3>3. QED
      BY <3>1, <3>2 DEF HasWork
  <2>2. ASSUME HasWork(q)' PROVE HasWork(q)
    <3>1. PICK i \in Unrun' : thread'.work[i].port = q
      BY <2>2 DEF HasWork
    <3>2. i + 1 \in Unrun /\ thread.work[i + 1].port = q
      BY <1>5, <1>7, <1>9, <3>1
    <3>3. QED
      BY <3>2 DEF HasWork
  <2>3. HasWork(q) \in BOOLEAN /\ HasWork(q)' \in BOOLEAN
    BY DEF HasWork
  <2>4. QED
    BY <2>1, <2>2, <2>3
<1>11. \A q \in Ports : Handled(q)' = Handled(q)
  BY <1>2, <1>10 DEF Handled
<1>12. /\ Writing(p) = TRUE /\ Writing(p)' = FALSE
       /\ \A q \in Ports \ {p} : Writing(q)' = Writing(q)
  BY <1>2, <1>4, <1>p DEF Writing
<1>13. PutResult(p, Len(ran[p]))
  BY <1>3, <1>6, <1>p DEF WriteResult
<1>14. /\ pendingFrames \in [Ports -> Seq(Nat)] /\ results \in [Ports -> Seq(Nat)]
       /\ ResultRun(Len(ran[p]), results[p], sending[p], pendingFrames[p], TRUE)
       /\ Run(ran[p], 0) /\ (~Polled => pendingFrames[p] = <<>> /\ sending[p] = 0)
  BY <1>1, <1>12 DEF PortInv, ResInv, Types, LinkTypes
<1>15. /\ pendingFrames' \in [Ports -> Seq(Nat)] /\ results' \in [Ports -> Seq(Nat)]
       /\ \A q \in Ports \ {p} : pendingFrames'[q] = pendingFrames[q] /\ results'[q] = results[q]
       /\ ResultRun(Len(ran[p]), results'[p], sending[p], pendingFrames'[p], FALSE)
       /\ ~Polled => pendingFrames'[p] = <<>>
  <2>1. CASE Polled
    <3>1. /\ pendingFrames[p] = <<>> /\ results' = results
          /\ pendingFrames' = [pendingFrames EXCEPT ![p] = <<Len(ran[p])>>]
      BY <1>13, <2>1 DEF PutResult
    <3>2. ResultRun(Len(ran[p]), results[p], sending[p], <<>>, TRUE)
      BY <1>14, <3>1
    <3>3. /\ <<Len(ran[p])>> \in Seq(Nat)
          /\ ResultRun(Len(ran[p]), results[p], sending[p], <<Len(ran[p])>>, FALSE)
      BY <1>6, <3>2, RunPending
    <3>4. pendingFrames' \in [Ports -> Seq(Nat)] /\ pendingFrames'[p] = <<Len(ran[p])>>
          /\ \A q \in Ports \ {p} : pendingFrames'[q] = pendingFrames[q]
      BY <1>14, <3>1, <3>3
    <3>5. QED
      BY <1>14, <2>1, <3>1, <3>3, <3>4
  <2>2. CASE ~Polled
    <3>1. /\ pendingFrames[p] = <<>> /\ sending[p] = 0 /\ pendingFrames' = pendingFrames
          /\ results' = [results EXCEPT ![p] = Append(results[p], Len(ran[p]))]
      BY <1>13, <1>14, <2>2 DEF PutResult
    <3>2. ResultRun(Len(ran[p]), results[p], 0, <<>>, TRUE)
      BY <1>14, <3>1
    <3>3. /\ Append(results[p], Len(ran[p])) \in Seq(Nat)
          /\ ResultRun(Len(ran[p]), Append(results[p], Len(ran[p])), 0, <<>>, FALSE)
      BY <1>6, <3>2, RunWritten
    <3>4. /\ results' \in [Ports -> Seq(Nat)] /\ results'[p] = Append(results[p], Len(ran[p]))
          /\ \A q \in Ports \ {p} : results'[q] = results[q]
      BY <1>14, <3>1, <3>3
    <3>5. QED
      BY <1>14, <3>1, <3>3, <3>4
  <2>3. QED
    BY <2>1, <2>2
<1>16. ResInv(p)'
  BY <1>2, <1>12, <1>14, <1>15 DEF ResInv, Polled
<1>17. \A q \in Ports \ {p} : ResInv(q)'
  BY <1>1, <1>2, <1>12, <1>15, ResStays DEF PortInv
<1>18. \A q \in Ports : ArgInv(q)'
  BY <1>1, <1>2, <1>11, ArgStays DEF PortInv
<1>19. Types'
  BY <1>1, <1>2, <1>4, <1>15 DEF Types, LinkTypes
<1>20. PhaseInv'
  <2>1. ASSUME thread'.pc = "tasks" PROVE thread'.work = <<>>
    <3>1. n = 1
      BY <1>1, <1>2, <1>4, <2>1 DEF ThreadInv, PhaseInv, n
    <3>2. Len(thread'.work) = 0 /\ thread'.work \in Seq(Items)
      BY <1>3, <1>4, <3>1
    <3>3. QED
      BY <3>2, EmptySeq
  <2>2. QED
    BY <1>1, <1>2, <1>4, <2>1 DEF ThreadInv, PhaseInv, Polled
<1>21. TodoInv'
  BY <1>4 DEF TodoInv
<1>22. WorkInv'
  <2>1. Len(thread'.work) = n - 1
    BY <1>3, <1>4
  <2>2. /\ \A i, j \in 1..n : thread.work[i].port = thread.work[j].port => i = j
        /\ \A i \in 1..n : thread.work[i].port \in quick => Polled
        /\ \A i \in Unrun : /\ thread.work[i].port \notin quick
                            /\ thread.work[i].call = Len(ran[thread.work[i].port]) + 1
    BY <1>1 DEF ThreadInv, WorkInv, n
  <2>3. ASSUME NEW i \in 1..(n - 1), NEW j \in 1..(n - 1),
               thread'.work[i].port = thread'.work[j].port
        PROVE  i = j
    <3>1. i + 1 = j + 1
      BY <1>7, <1>9, <2>2, <2>3
    <3>2. QED
      BY <3>1
  <2>4. ASSUME NEW i \in 1..(n - 1)
        PROVE  /\ thread'.work[i].port \notin quick
               /\ thread'.work[i].call = Len(ran[thread'.work[i].port]) + 1
    <3>1. /\ thread.work[i + 1].port \notin quick
          /\ thread.work[i + 1].call = Len(ran[thread.work[i + 1].port]) + 1
      BY <1>7, <2>2
    <3>2. thread'.work[i] = thread.work[i + 1]
      BY <1>9
    <3>3. QED
      BY <3>1, <3>2
  <2>5. QED
    BY <1>2, <1>4, <1>5, <2>1, <2>3, <2>4 DEF WorkInv
<1>23. QED
  BY <1>16, <1>17, <1>18, <1>19, <1>20, <1>21, <1>22 DEF CallInv, PortInv, ThreadInv

\* poll() of the arg port of a quick callback: it runs there, on the service thread, and
\* its result is to be written.
LEMMA PollQuickStep ==
    ASSUME CallInv, NEW p \in Ports, PollArg(p),
           p \in quick, wire[p] # <<>>, future[p] # NotConnected
    PROVE  CallInv'
<1> DEFINE c == Len(ran[p]) + 1
           w == [port |-> p, call |-> Head(wire[p])]
<1>1. Types /\ ThreadInv /\ PortInv /\ thread \in ThreadTypes
  BY DEF CallInv, Types
<1>2. /\ UNCHANGED <<backend, quick, queue, future, called, results, pendingFrames, sending>>
      /\ thread.pc = "tasks" /\ thread.todo # {}
      /\ wire' = [wire EXCEPT ![p] = Tail(wire[p])]
      /\ ran' = [ran EXCEPT ![p] = Append(ran[p], Head(wire[p]))]
      /\ thread' = [pc |-> "write", back |-> "tasks", todo |-> thread.todo \ {<<p, "arg">>},
                    work |-> <<w>>]
  BY DEF PollArg, Accepts
<1>3. thread.work = <<>> /\ Polled
  BY <1>1, <1>2 DEF ThreadInv, PhaseInv
<1>4. /\ wire[p] \in Seq(Nat) /\ called[p] \in Nat /\ Len(ran[p]) \in Nat /\ c \in Nat
      /\ ran[p] \in Seq(Nat) /\ results[p] \in Seq(Nat) /\ pendingFrames[p] \in Seq(Nat)
      /\ sending[p] \in Nat
  BY <1>1, PortTypes
<1>5. \A q : HasWork(q) = FALSE /\ Writing(q) = FALSE
  <2>1. Len(thread.work) = 0
    BY <1>3
  <2>2. Unrun = {}
    BY <2>1 DEF Unrun
  <2>3. QED
    BY <1>2, <2>2 DEF HasWork, Writing
<1>6. Handled(p) = Len(ran[p])
  <2>1. ~HasWork(p)
    BY <1>5
  <2>2. QED
    BY <1>4, <2>1 DEF Handled, Bit
<1>7. /\ Head(wire[p]) = c /\ Tail(wire[p]) \in Seq(Nat)
      /\ CallRun(c, NotListening, <<>>, Tail(wire[p]), called[p])
      /\ future[p] = NotListening /\ queue[p] = <<>>
  <2>1. /\ CallRun(Len(ran[p]), NotListening, <<>>, wire[p], called[p])
        /\ future[p] = NotListening /\ queue[p] = <<>>
    BY <1>1, <1>6 DEF PortInv, ArgInv
  <2>2. QED
    BY <1>4, <2>1, RunQuick
<1> HIDE DEF c
<1>8. /\ Append(ran[p], c) \in Seq(Nat) /\ Len(Append(ran[p], c)) = c
      /\ Run(Append(ran[p], c), 0)
  <2>1. /\ Run(ran[p], 0) /\ c = 0 + Len(ran[p]) + 1
        /\ ran[p] \in Seq(Nat) /\ c \in Nat /\ 0 \in Int
    BY <1>1, <1>4 DEF PortInv, ResInv, c
  <2>2. /\ Append(ran[p], c) \in Seq(Nat) /\ Len(Append(ran[p], c)) = Len(ran[p]) + 1
        /\ Run(Append(ran[p], c), 0)
    BY <2>1, RunAppend
  <2>3. QED
    BY <2>2 DEF c
<1>9. /\ ran \in [Ports -> Seq(Nat)] /\ wire \in [Ports -> Seq(Nat)]
  BY <1>1 DEF Types, LinkTypes
<1>10. /\ ran' \in [Ports -> Seq(Nat)] /\ wire' \in [Ports -> Seq(Nat)]
       /\ ran'[p] = Append(ran[p], c) /\ wire'[p] = Tail(wire[p])
       /\ \A q \in Ports \ {p} : ran'[q] = ran[q] /\ wire'[q] = wire[q]
  BY <1>2, <1>7, <1>8, <1>9
<1>11. w \in Items /\ w.port = p /\ w.call = c
  BY <1>4, <1>7 DEF Items
<1> HIDE DEF w
<1>12. /\ thread'.pc = "write" /\ thread'.back = "tasks" /\ thread'.work = <<w>>
       /\ Len(thread'.work) = 1 /\ thread'.work[1] = w /\ thread'.work # <<>>
  BY <1>2
<1>13. thread' \in ThreadTypes
  <2>1. thread.todo \in SUBSET (Ports \cup (Ports \X {"arg", "result"}))
    BY <1>1 DEF ThreadTypes
  <2>2. <<w>> \in Seq(Items)
    BY <1>11
  <2>3. QED
    BY <1>2, <2>1, <2>2 DEF ThreadTypes
<1>14. Unrun' = {}
  BY <1>12 DEF Unrun
<1>15. \A q : HasWork(q)' = FALSE
  BY <1>14 DEF HasWork
<1>16. /\ Writing(p)' = TRUE
       /\ \A q \in Ports \ {p} : Writing(q)' = Writing(q)
  BY <1>5, <1>11, <1>12 DEF Writing
<1>17. /\ Handled(p)' = c
       /\ \A q \in Ports \ {p} : Handled(q)' = Handled(q)
  <2>1. Handled(p)' = c
    <3>1. Len(ran'[p]) = c /\ ~HasWork(p)'
      BY <1>8, <1>10, <1>15
    <3>2. QED
      BY <1>4, <3>1 DEF Handled, Bit
  <2>2. \A q \in Ports \ {p} : HasWork(q)' = HasWork(q) /\ ran'[q] = ran[q]
    BY <1>5, <1>10, <1>15
  <2>3. QED
    BY <2>1, <2>2 DEF Handled
<1>18. ArgInv(p)'
  BY <1>2, <1>7, <1>10, <1>17 DEF ArgInv
<1>19. \A q \in Ports \ {p} : ArgInv(q)'
  BY <1>1, <1>2, <1>10, <1>17, ArgStays DEF PortInv
<1>20. ResInv(p)'
  <2>1. ResultRun(Len(ran[p]), results[p], sending[p], pendingFrames[p], FALSE)
    BY <1>1, <1>5 DEF PortInv, ResInv
  <2>2. ResultRun(c, results[p], sending[p], pendingFrames[p], TRUE)
    BY <1>4, <2>1, RunBegun DEF c
  <2>3. QED
    BY <1>2, <1>3, <1>8, <1>10, <1>16, <2>2 DEF ResInv, Polled
<1>21. \A q \in Ports \ {p} : ResInv(q)'
  BY <1>1, <1>2, <1>10, <1>16, ResStays DEF PortInv
<1>22. Types'
  BY <1>1, <1>2, <1>10, <1>13 DEF Types, LinkTypes
<1>23. PhaseInv' /\ TodoInv'
  BY <1>2, <1>3, <1>12 DEF PhaseInv, TodoInv, Polled
<1>24. WorkInv'
  <2>1. \A i \in 1..Len(thread'.work) : i = 1
    BY <1>12
  <2>2. thread'.work[1].call = Len(ran'[thread'.work[1].port])
    BY <1>8, <1>10, <1>11, <1>12
  <2>3. Polled'
    BY <1>2, <1>3 DEF Polled
  <2>4. QED
    BY <1>14, <2>1, <2>2, <2>3 DEF WorkInv
<1>25. QED
  BY <1>18, <1>19, <1>20, <1>21, <1>22, <1>23, <1>24 DEF CallInv, PortInv, ThreadInv

-----------------------------------------------------------------------------
(* The theorems *)

LEMMA CallInit ==
    ASSUME Init
    PROVE  CallInv
<1>1. thread = [pc |-> "loop", todo |-> {}, work |-> <<>>, back |-> "loop"]
  BY DEF Init
<1>2. thread \in ThreadTypes
  <2>1. <<>> \in Seq(Items)
    OBVIOUS
  <2>2. QED
    BY <1>1, <2>1 DEF ThreadTypes
<1>3. /\ thread.pc = "loop" /\ thread.todo = {} /\ thread.work = <<>> /\ Len(thread.work) = 0
  BY <1>1
<1>4. Unrun = {}
  BY <1>3 DEF Unrun
<1>5. \A q : HasWork(q) = FALSE /\ Writing(q) = FALSE
  BY <1>3, <1>4 DEF HasWork, Writing
<1>6. ThreadInv
  BY <1>3, <1>4 DEF ThreadInv, PhaseInv, WorkInv, TodoInv
<1>7. LinkTypes
  <2>1. <<>> \in Seq(Nat) /\ 0 \in Nat /\ NotListening \in Futures /\ NotConnected \in Futures
    BY DEF Futures
  <2>2. QED
    BY <2>1 DEF Init, PerPort, LinkTypes
<1>8. ASSUME NEW p \in Ports PROVE ArgInv(p) /\ ResInv(p)
  <2>1. /\ called[p] = 0 /\ wire[p] = <<>> /\ queue[p] = <<>> /\ ran[p] = <<>>
        /\ results[p] = <<>> /\ pendingFrames[p] = <<>> /\ sending[p] = 0
        /\ future[p] = IF p \in quick THEN NotListening ELSE NotConnected
    BY DEF Init, PerPort
  <2>2. Len(<<>>) = 0 /\ \A n \in Int : Run(<<>>, n)
    BY RunEmpty
  <2>3. Handled(p) = 0
    BY <1>5, <2>1, <2>2 DEF Handled, Bit
  <2>4. CallRun(0, NotListening, <<>>, <<>>, 0) /\ CallRun(0, NotConnected, <<>>, <<>>, 0)
    <3>1. 0 + 0 = 0
      OBVIOUS
    <3>2. Run(<<>>, 0)
      BY <2>2
    <3>3. QED
      BY <2>2, <3>1, <3>2, Signs DEF CallRun
  <2>5. ArgInv(p)
    BY <2>1, <2>3, <2>4 DEF ArgInv
  <2>6. ResultRun(0, <<>>, 0, <<>>, FALSE)
    BY <2>2 DEF ResultRun, Bit
  <2>7. ResInv(p)
    <3>1. Writing(p) = FALSE /\ Run(<<>>, 0)
      BY <1>5, <2>2
    <3>2. ResultRun(Len(ran[p]), results[p], sending[p], pendingFrames[p], Writing(p))
      BY <2>1, <2>2, <2>6, <3>1
    <3>3. QED
      BY <2>1, <3>1, <3>2 DEF ResInv
  <2>8. QED
    BY <2>5, <2>7
<1>9. QED
  BY <1>2, <1>6, <1>7, <1>8 DEF CallInv, PortInv, Types

LEMMA CallStep ==
    ASSUME CallInv, [Next]_vars
    PROVE  CallInv'
<1>1. CASE Loop \/ ListenersDone \/ CallbacksDone \/ TasksDone
  BY <1>1, PhaseStep
<1>2. CASE RunCallback
  BY <1>2, RunCallbackStep
<1>3. CASE WriteResult
  BY <1>3, WriteResultStep
<1>4. ASSUME NEW p \in Ports, CheckListener(p) \/ PollArg(p) \/ PollResult(p)
      PROVE  CallInv'
  <2>1. CASE CheckListener(p)
    BY <2>1, CheckListenerStep
  <2>2. CASE PollArg(p)
    BY <2>2, PollArgStep, PollQuickStep
  <2>3. CASE PollResult(p)
    BY <2>3, PollResultStep
  <2>4. QED
    BY <1>4, <2>1, <2>2, <2>3
<1>5. ASSUME NEW p \in Ports,
             AcceleratorCalls(p) \/ PickUp(p) \/ Deliver(p) \/ ConnectArg(p) \/ Listen(p)
      PROVE  CallInv'
  BY <1>5, CalledStep, PickUpStep, DeliverStep, ListenerStep
<1>6. CASE Stop \/ Disconnect
  BY <1>6, IdleStep DEF Stop, Disconnect
<1>7. CASE UNCHANGED vars
  BY <1>7, IdleStep DEF vars, hostVars
<1>8. QED
  BY <1>1, <1>2, <1>3, <1>4, <1>5, <1>6, <1>7 DEF Next, ServiceStep, Yield

\* Accelerator.cpp, Services.cpp: a callback is run once for every call, in the order the
\* accelerator made them, whoever delivers the calls and although the thread reads the next
\* call before it runs the one before; and the n-th result answers the n-th call.
THEOREM CallsInOrderCorrect == FairSpec => []CallsInOrder
<1>1. ASSUME CallInv PROVE CallsInOrder
  <2>1. SUFFICES ASSUME NEW p \in Ports PROVE Counts(ran[p]) /\ Counts(results[p])
    BY DEF CallsInOrder
  <2>2. ran[p] \in Seq(Nat) /\ results[p] \in Seq(Nat) /\ Run(ran[p], 0) /\ Run(results[p], 0)
    BY <1>1, PortTypes DEF CallInv, PortInv, ResInv, ResultRun
  <2>3. QED
    BY <2>2, RunCounts
<1>2. QED
  BY <1>1, CallInit, CallStep, PTL DEF FairSpec

Ended == app = "disconnected" => thread.pc = "ended"

LEMMA EndedStep ==
    ASSUME Ended, [Next]_vars
    PROVE  Ended' /\ (app = "disconnected" => UNCHANGED <<thread, ran, future, pendingFrames>>)
<1>1. CASE ServiceStep
  <2>1. thread.pc # "ended" /\ app' = app
    BY <1>1 DEF ServiceStep, Loop, ListenersDone, RunCallback, WriteResult, CallbacksDone,
                TasksDone, CheckListener, PollArg, PollResult
  <2>2. QED
    BY <2>1 DEF Ended
<1>2. CASE Stop
  BY <1>2 DEF Stop, Ended
<1>3. CASE Disconnect
  BY <1>3 DEF Disconnect, Ended
<1>4. ASSUME NEW p \in Ports,
             AcceleratorCalls(p) \/ PickUp(p) \/ Deliver(p) \/ ConnectArg(p) \/ Listen(p)
      PROVE  Ended' /\ (app = "disconnected" => UNCHANGED <<thread, ran, future, pendingFrames>>)
  <2>1. CASE AcceleratorCalls(p) \/ PickUp(p)
    BY <2>1 DEF AcceleratorCalls, PickUp, hostVars, Ended
  <2>2. CASE Deliver(p) \/ ConnectArg(p) \/ Listen(p)
    BY <2>2 DEF Deliver, ConnectArg, Listen, Ended
  <2>3. QED
    BY <1>4, <2>1, <2>2
<1>5. CASE UNCHANGED vars
  BY <1>5 DEF vars, hostVars, linkVars, Ended
<1>6. QED
  BY <1>1, <1>2, <1>3, <1>4, <1>5 DEF Next, Yield

\* Accelerator.cpp:462: once disconnect() has joined the thread, no callback runs and no
\* port is touched, by the service thread or by a thread of the backend.
THEOREM QuietAfterDisconnectCorrect == FairSpec => QuietAfterDisconnect
<1>1. Init => Ended
  BY DEF Init, Ended
<1>2. Ended /\ [Next]_vars => Ended'
  BY EndedStep
<1>3. Ended /\ [Next]_vars
         => [app = "disconnected" => UNCHANGED <<thread, ran, future, pendingFrames>>]_vars
  BY EndedStep
<1>4. QED
  BY <1>1, <1>2, <1>3, PTL DEF FairSpec, QuietAfterDisconnect

=============================================================================
