--------------------------- MODULE MCTransferLink ---------------------------
(* Instance of TransferLink for TLC: the interfaces are interchangeable. *)
EXTENDS TransferLink, TLC

\* One interface with the two mailboxes of FlexCAN's constructor, and redundant
\* interfaces whose drivers keep the order.
Boards == {<<2, {i}>> : i \in Ifaces} \cup {<<1, Ifaces>>}

Symmetry == Permutations(Ifaces)
=============================================================================
