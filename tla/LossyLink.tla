----------------------------- MODULE LossyLink -----------------------------
(***************************************************************************)
(* What a receiver of UAVCAN transfers may see of a sender: of the         *)
(* transfers 1, 2, 3 ... that are sent some are lost, and the others are   *)
(* delivered unchanged.  Each interface delivers a transfer at most once,  *)
(* and fewer than window older ones after it.  With a window of one,       *)
(* interfaces that all carry the transfers deliver each of them once, in   *)
(* the order in which they were sent.                                      *)
(***************************************************************************)
EXTENDS Integers, Sequences, FiniteSets

CONSTANTS
  Ifaces,        \* the redundant interfaces
  MaxTransfers   \* bound: transfers sent

VARIABLES
  window,  \* how many frames an interface may mix, once and for all
  sent,    \* how many were sent
  got      \* for each interface, the transfers delivered from it

Send == sent < MaxTransfers /\ sent' = sent + 1 /\ UNCHANGED <<window, got>>

\* The older transfers that came after the j-th of s.
OlderAfter(s, j) == {k \in j + 1 .. Len(s) : s[k] < s[j]}

Deliver(i) ==
  \E n \in 1 .. sent :
    /\ got' = [got EXCEPT ![i] = Append(@, n)]
    /\ \A j \in 1 .. Len(got[i]) :
         n # got[i][j] /\ Cardinality(OlderAfter(got'[i], j)) < window
    /\ window = 1 => \A h \in Ifaces : \A j \in 1 .. Len(got[h]) : got[h][j] < n
    /\ UNCHANGED <<window, sent>>

Spec ==
  /\ sent = 0 /\ got = [i \in Ifaces |-> <<>>]
  /\ [][Send \/ \E i \in Ifaces : Deliver(i)]_<<window, sent, got>>
=============================================================================
