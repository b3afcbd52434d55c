----------------------------- MODULE CanTxQueue -----------------------------
(***************************************************************************)
(* CanTxQueue of libuavcan, as operators on the list of its entries, and   *)
(* the ordered insertion of LinkedListRoot on which it and the timer list  *)
(* rest.  An entry is a frame [n, prio, qos, deadline]: n is the order in  *)
(* which frames were handed over, and the lesser prio wins the bus (what   *)
(* CanFrame::priorityHigherThan() makes of the identifier bits).           *)
(***************************************************************************)
EXTENDS Integers, Sequences, SequencesExt

Volatile == 0
Persistent == 1

\* CanFrame::priorityHigherThan().
priorityHigherThan(f, g) == f.prio < g.prio

\* Mutant: quality of service is not looked at.
qosHigherThan_PriorityOnly(e, f) == priorityHigherThan(e, f)

\* CanTxQueue::Entry::qosHigherThan().
qosHigherThan(e, f) ==
  IF e.qos # f.qos THEN e.qos > f.qos ELSE priorityHigherThan(e, f)

isExpired(e, timestamp) == timestamp > e.deadline

\* Mutant: a new frame goes to the end.
insertBefore_Append(list, Behind) == {Len(list) + 1}

\* LinkedListRoot::insertBefore(), as a set: the place of the first of the
\* entries for which the predicate holds, those of the places Behind.
insertBefore(list, Behind) ==
  {k \in 1 .. Len(list) + 1 :
     /\ \A i \in 1 .. k - 1 : i \notin Behind
     /\ k <= Len(list) => k \in Behind}

\* The place that push() gives to a frame.
PlaceOf(queue, f) ==
  insertBefore(queue, {i \in 1 .. Len(queue) : priorityHigherThan(f, queue[i])})

\* The entry that push() picks for replacement: the first of the lowest.
LowestQos(queue) ==
  {k \in 1 .. Len(queue) :
     /\ \A j \in 1 .. Len(queue) : ~qosHigherThan(queue[k], queue[j])
     /\ \A j \in 1 .. k - 1 : qosHigherThan(queue[j], queue[k])}

topPriorityHigherOrEqual(queue, f) ==
  queue # <<>> /\ ~priorityHigherThan(f, queue[1])
=============================================================================
