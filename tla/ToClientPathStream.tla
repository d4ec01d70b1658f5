-------------------------- MODULE ToClientPathStream --------------------------
(***************************************************************************)
(* Where the messages of a channel are between put() and the callback, and *)
(* the refinement mapping under which ToClientPath implements              *)
(* OrderedStream.                                                          *)
(***************************************************************************)
EXTENDS ToClientPathInv

Range(s) == {s[i] : i \in 1..Len(s)}

\* Messages of c in a sequence of frames, and on the WebSocket.
IsData(f, c)      == f.kind = "data" /\ f.ch = c
DataIn(frames, c) == {frames[i].n : i \in {j \in 1..Len(frames) : IsData(frames[j], c)}}
OnWire(c)         == DataIn(down, c)

\* The message the network thread, at place r, is about to push for connection k of c.
InHand(r, c, k) == IF r.pc = "push" /\ r.ch = c /\ r.conn = k THEN {r.msg} ELSE {}

\* The messages of connection k of c that are in the client.
Waiting(c, k) == Range(queue[<<c, k>>]) \cup InHand(rx, c, k)

\* The transport thread works for a connection that is no longer registered.
OnOldEntry(c) == ct.pc # "idle" /\ ct.ch = c /\ ct.conn # readCallbacks[c]

\* What a connection may still be handed when all of its messages in the client are
\* S: S while its entry is live; once it is canceled, at most the one that thread,
\* at place t, is about to hand over.
LateOf(S, gone, t) ==
    IF ~gone THEN S
    ELSE CASE t.pc = "call"  -> {t.msg}
           [] t.pc = "peek"  -> {m \in S : \A x \in S : m \leq x}
           [] t.pc = "check" -> {}

Late(c) == IF ~OnOldEntry(c) THEN {}
           ELSE LateOf(Waiting(c, ct.conn), canceled[<<c, ct.conn>>], ct)

\* Everything that is on its way to the connection that is registered, and what is
\* not in the client yet.
Registered(c) == IF readCallbacks[c] = 0 THEN {} ELSE Waiting(c, readCallbacks[c])
Transit(c)    == Registered(c) \cup OnWire(c) \cup Range(writeQueue[c])

\* The stream is open from the registration of the callback, before the
\* subscription is even requested, until disconnect() or a lost connection.
Opened       == {"registered", "subscribing", "connected"}
OpenChannels == {c \in Channels : wsOpen /\ user[c] \in Opened}

LateMap    == [c \in Channels |-> Late(c)]
TransitMap == [c \in Channels |-> Transit(c)]

Stream == INSTANCE OrderedStream WITH
              Streams  <- Channels,
              sent     <- written,
              transit  <- TransitMap,
              late     <- LateMap,
              consumed <- delivered,
              open     <- OpenChannels

\* The path implements the ordered, lossless-while-open stream: no interleaving
\* of its six threads reorders, repeats or (while the port is connected) loses
\* a message.
ImplementsStream == Stream!StreamSpec

-----------------------------------------------------------------------------
(* The order the messages of a channel keep, connection by connection       *)

\* The entry that is registered is the newest, and there is one exactly between the
\* registration and the end of the connection.
OwnerInv ==
    /\ \A c \in Channels :
          /\ user[c] \in Opened => readCallbacks[c] = connects[c] /\ connects[c] > 0
          /\ user[c] \notin Opened => readCallbacks[c] = 0
    /\ ct.pc # "idle" => ct.conn \leq connects[ct.ch]

Ascending(s)    == \A i, j \in 1..Len(s) : i < j => s[i] < s[j]
Precedes(S, T)  == \A x \in S, y \in T : x < y
NoneAfter(S, n) == \A x \in S : x \leq n

\* Data frames of a channel keep the order of its messages on the wire.
FramesAscend(frames, c) ==
    \A i, j \in 1..Len(frames) :
        i < j /\ IsData(frames[i], c) /\ IsData(frames[j], c) => frames[i].n < frames[j].n

\* Every queue is in order, and what is in a later one is newer.
OrderInv(c) ==
    /\ Ascending(writeQueue[c]) /\ FramesAscend(down, c)
    /\ NoneAfter(Range(writeQueue[c]) \cup OnWire(c), written[c])
    /\ Precedes(OnWire(c), Range(writeQueue[c]))
    /\ \A k \in Conn :
          /\ Ascending(queue[<<c, k>>])
          /\ Precedes(Range(queue[<<c, k>>]), InHand(rx, c, k))
          /\ Precedes(Waiting(c, k), OnWire(c) \cup Range(writeQueue[c]))
          /\ NoneAfter(Waiting(c, k), written[c])
          /\ \A j \in Conn : j < k => Precedes(Waiting(c, j), Waiting(c, k))

\* The messages already consumed are older than all that can still be consumed.
ConsumedInv(c) ==
    /\ Ascending(delivered[c])
    /\ Precedes(Range(delivered[c]), Late(c) \cup Transit(c))
    /\ NoneAfter(Range(delivered[c]), written[c])

\* The readers of a channel see its messages in the order they were written and none
\* of them twice, over all its connections together.
ReadersSeeOrder == \A c \in Channels : Ascending(delivered[c])

PathOrderInv ==
    OwnerInv /\ \A c \in Channels : OrderInv(c) /\ ConsumedInv(c)

===============================================================================
