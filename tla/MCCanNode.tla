----------------------------- MODULE MCCanNode -----------------------------
(* Instance of CanNode for TLC. *)
EXTENDS CanNode

CONSTANT t1

Forever == MaxTime + 1

\* A persistent kind that never expires and a volatile one of higher priority.
MCKinds == {[prio |-> 1, qos |-> Persistent, life |-> Forever],
            [prio |-> 0, qos |-> Volatile, life |-> 1]}
OnePeriod == t1 :> 1
=============================================================================
