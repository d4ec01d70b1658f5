--------------------------- MODULE ToClientPathInv ---------------------------
(***************************************************************************)
(* The inductive invariants behind the safety properties of ToClientPath:  *)
(* TLC checks them on small instances, ToClientPath_proof proves them.     *)
(***************************************************************************)
EXTENDS ToClientPath

\* A lost session takes its subscriptions along, so a transport thread that
\* leaves a channel for want of a session leaves no subscribed one.
DoorbellInv == (~session => subscribed = {}) /\ NoLostDoorbell

\* Entries are numbered in the order they are registered; one that is not
\* registered yet is untouched, and the registered one is never canceled.
EntryInv ==
    /\ \A c \in Channels :
         /\ readCallbacks[c] \leq connects[c]
         /\ user[c] = "erased" => readCallbacks[c] = 0
         /\ \A k \in Conn : k > connects[c] => /\ queue[<<c, k>>] = <<>>
                                               /\ ~canceled[<<c, k>>]
         /\ \A k \in Conn : readCallbacks[c] = k => ~canceled[<<c, k>>]
    /\ rx.pc # "idle" => rx.conn \leq connects[rx.ch]

WakeupInv == EntryInv /\ NoLostWakeup

-----------------------------------------------------------------------------
\* Request ids of a channel grow along the wire, and none is from the future.
RequestsInOrder ==
    /\ \A i \in 1..Len(up) : up[i].n \leq call[up[i].ch].n
    /\ \A i, j \in 1..Len(up) :
          i < j /\ up[i].ch = up[j].ch => up[i].n < up[j].n

\* Nor is a response, or the request of the handler that is running.
RepliesInOrder ==
    /\ \A i \in 1..Len(down) :
          down[i].kind \in ReplyKind => down[i].n \leq call[down[i].ch].n
    /\ handler.pc # "idle" => handler.n \leq call[handler.ch].n

\* The server has nothing of channel c to handle.
Quiet(c) == /\ \A i \in 1..Len(up) : up[i].ch # c
            /\ handler.pc # "idle" => handler.ch # c

\* Once the newest request of a channel has been answered "unsubscribed", the
\* channel is out of the server's hands until the client asks again.
UnsubscribedIsSettled ==
    \A i \in 1..Len(down) :
        down[i].kind = "unsubscribed" /\ down[i].n = call[down[i].ch].n
            => down[i].ch \notin subscribed /\ Quiet(down[i].ch)

WireInv == /\ RequestsInOrder /\ RepliesInOrder
           /\ UnsubscribedIsSettled /\ UnsubscribeAckIsLast

-----------------------------------------------------------------------------
\* The newest request of channel c is a subscribe the server has carried out.
Accepted(c) ==
    /\ user[c] = "subscribing"
    /\ \/ call[c].state = "ok"
       \/ handler.pc # "idle" /\ handler.ch = c /\ handler.n = call[c].n
       \/ \E i \in 1..Len(down) : down[i] = Reply("subscribed", c, call[c].n)

\* While a subscribe is outstanding, whatever carries its id is about it.
SubscribeOutstanding(c) ==
    user[c] = "subscribing" =>
        /\ \A i \in 1..Len(up) :
              up[i].ch = c /\ up[i].n = call[c].n => up[i].method = "subscribe"
        /\ \A i \in 1..Len(down) :
              /\ down[i].ch = c /\ down[i].n = call[c].n
              /\ down[i].kind \in ReplyKind
              => down[i].kind \in {"subscribed", "error"}

ConnectInv ==
    \A c \in Channels :
        /\ SubscribeOutstanding(c)
        /\ Accepted(c) \/ user[c] = "connected" =>
              /\ \A i \in 1..Len(up) : up[i].ch # c
              /\ session => c \in subscribed

\* All of it.
PathInv == TypeOK /\ PopsWhatItShowed /\ DoorbellInv /\ WakeupInv
           /\ WireInv /\ ConnectInv

=============================================================================
