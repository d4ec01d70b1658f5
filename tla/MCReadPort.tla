----------------------------- MODULE MCReadPort -----------------------------
(***************************************************************************)
(* Kinds of port for TLC: a user's port on RpcClient, with a bounded queue   *)
(* and read by its owner; the RpcServerReadPort of an endpoint, with its     *)
(* unbounded queue and another reader than its owner; and a zero-width port  *)
(* of a DMA engine, which retains a refused message and is read by the       *)
(* service thread.                                                           *)
(***************************************************************************)
EXTENDS ReadPort

Kind(zeroWidth, retainsMessage, concurrentReads, capacity) ==
    [zeroWidth |-> zeroWidth, retainsMessage |-> retainsMessage,
     concurrentReads |-> concurrentReads, capacity |-> capacity]

MCKinds == {Kind(FALSE, FALSE, FALSE, 1), Kind(FALSE, FALSE, TRUE, 0),
            Kind(TRUE, TRUE, TRUE, 1)}

=============================================================================
