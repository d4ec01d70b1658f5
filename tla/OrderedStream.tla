---------------------------- MODULE OrderedStream ----------------------------
(***************************************************************************)
(* What a to_client channel of the cosim transport promises, without its   *)
(* queues, doorbells and threads.  Messages 1, 2, 3, ... enter a stream;   *)
(* the reader is handed the oldest one under way.  While the stream is     *)
(* open nothing of it is lost; while it is closed anything under way may   *)
(* be.  Open or closed, nothing is reordered or handed out twice.          *)
(*                                                                         *)
(* Closing does not recall the messages that are just being handed over;   *)
(* these late messages are consumed or dropped before anything newer is    *)
(* handed out, even if the stream has been opened again meanwhile.         *)
(***************************************************************************)
EXTENDS Naturals, Sequences

CONSTANT Streams

VARIABLES
    sent,       \* per stream, how many messages have entered
    transit,    \* per stream, the messages under way
    late,       \* per stream, those still addressed to a closed reader
    consumed,   \* per stream, the messages readers have consumed, in order
    open        \* the streams whose reader is connected

streamVars == <<sent, transit, late, consumed, open>>

StreamInit ==
    /\ sent = [c \in Streams |-> 0]
    /\ transit = [c \in Streams |-> {}]
    /\ late = [c \in Streams |-> {}]
    /\ consumed = [c \in Streams |-> <<>>]
    /\ open = {}

\* m is the oldest message of S: they are numbered as they enter.
Oldest(m, S) == m \in S /\ \A x \in S : m \leq x

\* Every message of S entered before every message of T.
Before(S, T) == \A x \in S, y \in T : x < y

Enter(c) ==
    /\ sent' = [sent EXCEPT ![c] = @ + 1]
    /\ transit' = [transit EXCEPT ![c] = @ \cup {sent[c] + 1}]
    /\ UNCHANGED <<late, consumed, open>>

Deliver(c) ==
    /\ late[c] = {}
    /\ \E m \in transit[c] :
          /\ Oldest(m, transit[c])
          /\ consumed' = [consumed EXCEPT ![c] = Append(@, m)]
          /\ transit' = [transit EXCEPT ![c] = @ \ {m}]
    /\ UNCHANGED <<sent, late, open>>

\* A reader that has been closed consumes a late message ...
DeliverLate(c) ==
    /\ \E m \in late[c] :
          /\ Oldest(m, late[c])
          /\ consumed' = [consumed EXCEPT ![c] = Append(@, m)]
          /\ late' \in {[late EXCEPT ![c] = @ \ {m}], [late EXCEPT ![c] = {}]}
    /\ UNCHANGED <<sent, transit, open>>

\* ... or does not.
DropLate(c) ==
    /\ late' = [late EXCEPT ![c] = {}]
    /\ UNCHANGED <<sent, transit, consumed, open>>

Open(c) ==
    /\ open' = open \cup {c}
    /\ UNCHANGED <<sent, transit, late, consumed>>

\* Closing a set of streams (all of them when the connection is lost), and
\* losing messages of closed ones; others become late.
LoseWhileClosed ==
    /\ open' \subseteq open
    /\ late' \in [Streams -> SUBSET Nat]
    /\ transit' \in [Streams -> SUBSET Nat]
    /\ \A c \in Streams :
         IF c \in open'
         THEN late'[c] = late[c] /\ transit'[c] = transit[c]
         ELSE /\ transit'[c] \subseteq transit[c]
              /\ late'[c] \subseteq late[c] \cup transit[c]
              /\ Before(late'[c], transit'[c])
    /\ UNCHANGED <<sent, consumed>>

StreamNext ==
    \/ \E c \in Streams : \/ Enter(c) \/ Open(c)
                          \/ Deliver(c) \/ DeliverLate(c) \/ DropLate(c)
    \/ LoseWhileClosed

StreamSpec == StreamInit /\ [][StreamNext]_streamVars

-----------------------------------------------------------------------------
StreamTypeOK ==
    /\ sent \in [Streams -> Nat]
    /\ transit \in [Streams -> SUBSET Nat]
    /\ late \in [Streams -> SUBSET Nat]
    /\ consumed \in [Streams -> Seq(Nat)]
    /\ open \subseteq Streams

Increasing(s) == \A i, j \in 1..Len(s) : i < j => s[i] < s[j]

\* The readers of a stream see its messages in the order they entered and none of
\* them twice, over all its connections together.
InOrder == \A c \in Streams : Increasing(consumed[c])

Elements(s) == {s[i] : i \in 1..Len(s)}
UpTo(S, n)  == \A x \in S : x \leq n

\* What was consumed, the late messages and the others came in this order, and none
\* of them is from the future.
Chain(d, l, t, n) ==
    /\ Increasing(d)
    /\ Before(Elements(d), l) /\ Before(Elements(d), t) /\ Before(l, t)
    /\ UpTo(Elements(d), n) /\ UpTo(l, n) /\ UpTo(t, n)

\* The invariant behind InOrder.
ChainInv == \A c \in Streams : Chain(consumed[c], late[c], transit[c], sent[c])

=============================================================================
