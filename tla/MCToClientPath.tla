--------------------------- MODULE MCToClientPath ---------------------------
(***************************************************************************)
(* Instances of ToClientPath for TLC.                                      *)
(***************************************************************************)
EXTENDS ToClientPathStream

-----------------------------------------------------------------------------
(* Isolation: RpcClient.cpp calls its transport thread "per-channel         *)
(* deadlock isolation".                                                     *)

Busy == CHOOSE c \in Channels : TRUE

\* Nobody disconnects, and the callback of the busy channel is not even
\* expected to accept a message some time.
IsolationSpec ==
    /\ Init
    /\ [][Next /\ \A c \in Channels : user'[c] # "erased"]_vars
    /\ \A c \in Channels : WF_vars(RingDoorbell(c)) /\ WF_vars(UserInside(c))
    /\ WF_vars(ServerTransport) /\ WF_vars(ServerNetwork)
    /\ WF_vars(ClientNetwork) /\ WF_vars(ClientTransport)
    /\ \A c \in Channels \ {Busy} : SF_vars(ClientConsume(c))

\* A callback that refuses for ever keeps its own channel waiting and no other.
OthersDelivered ==
    \A c \in Channels \ {Busy}, m \in Message :
        Queued(c, m) /\ user[c] = "connected" ~> Consumed(c, m)

=============================================================================
