------------------------------ MODULE TxWindow ------------------------------
(***************************************************************************)
(* What the transmit side of the driver promises, whatever rings,          *)
(* mailboxes and interrupts do in detail: each accepted frame is sent at   *)
(* most once, and only while fewer than Window older ones wait.  With a    *)
(* window of one it is a queue; "messages may be transmitted out of order, *)
(* if more than one transmit mailbox is enabled" (FlexCAN.cpp:805).        *)
(***************************************************************************)
EXTENDS Integers, Sequences, FiniteSets

CONSTANT Window

VARIABLES
  accepted,  \* number of frames accepted so far; a frame is its number
  pending,   \* the frames accepted and not yet sent
  sent       \* the frames sent, in the order of the bus

vars == <<accepted, pending, sent>>

Init == accepted = 0 /\ pending = {} /\ sent = <<>>

Accept ==
  /\ accepted' = accepted + 1
  /\ pending' = pending \cup {accepted + 1}
  /\ UNCHANGED sent

Older(n) == {k \in pending : k < n}

Emit(n) ==
  /\ n \in pending
  /\ Cardinality(Older(n)) < Window
  /\ pending' = pending \ {n}
  /\ sent' = Append(sent, n)
  /\ UNCHANGED accepted

Next == Accept \/ \E n \in pending : Emit(n)

Spec == Init /\ [][Next]_vars
=============================================================================
