--------------------------- MODULE CanNode_proofs ---------------------------
(***************************************************************************)
(* What holds of the transmit queue, of the frames that pass through it    *)
(* and of the timers of CanNode, for every set of frames, every quota and  *)
(* every size of pool, ring and mailboxes.                                 *)
(***************************************************************************)
EXTENDS CanNode, SequenceTheorems, FiniteSetTheorems, TLAPS

Entry == [n : Nat, prio : Nat, qos : {Volatile, Persistent}, deadline : Nat]
Handler == [timer : Timers, deadline : Nat]

-----------------------------------------------------------------------------
(* Insertion and removal.                                                   *)

LEMMA InsertAtIs ==
  ASSUME NEW S, NEW s \in Seq(S), NEW e \in S, NEW k \in 1 .. Len(s) + 1
  PROVE  /\ InsertAt(s, k, e) \in Seq(S)
         /\ Len(InsertAt(s, k, e)) = Len(s) + 1
         /\ \A i \in 1 .. Len(s) + 1 :
              InsertAt(s, k, e)[i] = IF i < k THEN s[i] ELSE IF i = k THEN e ELSE s[i - 1]
<1> DEFINE a == SubSeq(s, 1, k - 1)
           b == SubSeq(s, k, Len(s))
           c == a \o <<e>>
<1>1. a \in Seq(S) /\ Len(a) = k - 1 /\ \A i \in 1 .. k - 1 : a[i] = s[i]
  OBVIOUS
<1>2. b \in Seq(S) /\ Len(b) = Len(s) + 1 - k
      /\ \A i \in 1 .. Len(s) + 1 - k : b[i] = s[k + i - 1]
  OBVIOUS
<1>3. InsertAt(s, k, e) = c \o b
  BY DEF InsertAt
<1> HIDE DEF a, b
<1>4. c \in Seq(S) /\ Len(c) = k
      /\ \A i \in 1 .. k : c[i] = IF i < k THEN s[i] ELSE e
  BY <1>1
<1> HIDE DEF c
<1>5. /\ c \o b \in Seq(S) /\ Len(c \o b) = Len(s) + 1
      /\ \A i \in 1 .. Len(s) + 1 : (c \o b)[i] = IF i <= k THEN c[i] ELSE b[i - k]
  <2>1. c \in Seq(S) /\ b \in Seq(S) /\ Len(c) = k /\ Len(b) = Len(s) + 1 - k
    BY <1>2, <1>4
  <2>2. /\ c \o b \in Seq(S) /\ Len(c \o b) = Len(c) + Len(b)
        /\ \A i \in 1 .. Len(c) + Len(b) :
             (c \o b)[i] = IF i <= Len(c) THEN c[i] ELSE b[i - Len(c)]
    <3> HIDE DEF c
    <3> QED BY <2>1, ConcatProperties, Zenon
  <2>3. Len(c) + Len(b) = Len(s) + 1
    BY <2>1
  <2>4. QED
    BY <2>1, <2>2, <2>3
<1>6. \A i \in 1 .. Len(s) + 1 : i > k => b[i - k] = s[i - 1]
  <2>1. TAKE i \in 1 .. Len(s) + 1
  <2>2. HAVE i > k
  <2>3. i - k \in 1 .. Len(s) + 1 - k /\ k + (i - k) - 1 = i - 1
    BY <2>2
  <2>4. QED
    BY <1>2, <2>3
<1>7. QED
  BY <1>3, <1>4, <1>5, <1>6

LEMMA RemoveAtIs ==
  ASSUME NEW S, NEW s \in Seq(S), NEW k \in 1 .. Len(s)
  PROVE  /\ RemoveAt(s, k) \in Seq(S)
         /\ Len(RemoveAt(s, k)) = Len(s) - 1
         /\ \A i \in 1 .. Len(s) - 1 :
              RemoveAt(s, k)[i] = IF i < k THEN s[i] ELSE s[i + 1]
<1> DEFINE a == SubSeq(s, 1, k - 1)
           b == SubSeq(s, k + 1, Len(s))
           c == a \o b
<1>1. a \in Seq(S) /\ Len(a) = k - 1 /\ \A i \in 1 .. k - 1 : a[i] = s[i]
  OBVIOUS
<1>2. b \in Seq(S) /\ Len(b) = Len(s) - k
      /\ \A i \in 1 .. Len(s) - k : b[i] = s[k + i]
  OBVIOUS
<1>3. RemoveAt(s, k) = c
  BY DEF RemoveAt
<1> HIDE DEF a, b
<1>4. /\ c \in Seq(S) /\ Len(c) = Len(a) + Len(b)
      /\ \A i \in 1 .. Len(a) + Len(b) :
           c[i] = IF i <= Len(a) THEN a[i] ELSE b[i - Len(a)]
  BY <1>1, <1>2, ConcatProperties, Zenon
<1> HIDE DEF c
<1>5. Len(a) + Len(b) = Len(s) - 1
  BY <1>1, <1>2
<1>6. ASSUME NEW i \in 1 .. Len(s) - 1
      PROVE  c[i] = IF i < k THEN s[i] ELSE s[i + 1]
  <2>1. CASE i < k
    BY <1>1, <1>4, <1>5, <2>1
  <2>2. CASE i >= k
    <3>1. i - Len(a) \in 1 .. Len(s) - k /\ k + (i - Len(a)) = i + 1
      BY <1>1, <2>2
    <3>2. c[i] = b[i - Len(a)]
      BY <1>1, <1>4, <1>5, <2>2
    <3>3. b[i - Len(a)] = s[k + (i - Len(a))]
      BY <1>2, <3>1
    <3>4. c[i] = s[i + 1]
      BY <3>1, <3>2, <3>3
    <3>5. QED
      BY <2>2, <3>4
  <2>3. QED
    BY <2>1, <2>2
<1>7. c \in Seq(S) /\ Len(c) = Len(s) - 1
  BY <1>4, <1>5
<1>8. QED
  BY <1>3, <1>6, <1>7, Zenon

LEMMA SuffixIs ==
  ASSUME NEW S, NEW s \in Seq(S), NEW k \in 0 .. Len(s)
  PROVE  /\ SubSeq(s, k + 1, Len(s)) \in Seq(S)
         /\ Len(SubSeq(s, k + 1, Len(s))) = Len(s) - k
         /\ \A i \in 1 .. Len(s) - k : SubSeq(s, k + 1, Len(s))[i] = s[k + i]
OBVIOUS

\* The order of the queue, of any list of frames.
Sorted(q) ==
  \A i, j \in 1 .. Len(q) :
    i < j => \/ q[i].prio < q[j].prio
             \/ q[i].prio = q[j].prio /\ q[i].n < q[j].n

Older(q, f) == \A i \in 1 .. Len(q) : q[i].n < f.n

LEMMA EntryIs ==
  ASSUME NEW e \in Entry
  PROVE  /\ e.prio \in Nat /\ e.n \in Nat /\ e.deadline \in Nat
         /\ e.qos \in {0, 1}
BY DEF Entry, Volatile, Persistent

LEMMA InsertSorted ==
  ASSUME NEW q \in Seq(Entry), NEW f \in Entry, Sorted(q), Older(q, f),
         NEW k \in PlaceOf(q, f)
  PROVE  /\ k \in 1 .. Len(q) + 1
         /\ Sorted(InsertAt(q, k, f))
<1>1. /\ k \in 1 .. Len(q) + 1
      /\ \A i \in 1 .. k - 1 : ~priorityHigherThan(f, q[i])
      /\ k <= Len(q) => priorityHigherThan(f, q[k])
  BY DEF PlaceOf, insertBefore
<1> DEFINE r == InsertAt(q, k, f)
<1>2. /\ Len(r) = Len(q) + 1
      /\ \A i \in 1 .. Len(q) + 1 :
           r[i] = IF i < k THEN q[i] ELSE IF i = k THEN f ELSE q[i - 1]
  BY <1>1, InsertAtIs
<1>3. /\ \A i \in 1 .. Len(q) : q[i].prio \in Nat /\ q[i].n \in Nat
      /\ f.prio \in Nat /\ f.n \in Nat
  BY EntryIs
<1>4. \A i \in 1 .. Len(q) : i >= k => f.prio < q[i].prio
  <2>1. TAKE i \in 1 .. Len(q)
  <2>2. HAVE i >= k
  <2>3. k <= Len(q) /\ f.prio < q[k].prio
    BY <1>1, <2>2 DEF priorityHigherThan
  <2>4. q[k].prio <= q[i].prio
    BY <1>1, <1>3, <2>2, <2>3 DEF Sorted
  <2>5. QED
    BY <1>1, <1>3, <2>3, <2>4
<1>5. \A i \in 1 .. k - 1 : q[i].prio <= f.prio /\ q[i].n < f.n
  BY <1>1, <1>3 DEF priorityHigherThan, Older
<1>6. ASSUME NEW i \in 1 .. Len(r), NEW j \in 1 .. Len(r), i < j
      PROVE  \/ r[i].prio < r[j].prio
             \/ r[i].prio = r[j].prio /\ r[i].n < r[j].n
  <2> HIDE DEF r
  <2>1. CASE j < k
    BY <1>1, <1>2, <1>6, <2>1 DEF Sorted
  <2>2. CASE j = k
    <3>1. r[i] = q[i] /\ r[j] = f /\ i \in 1 .. k - 1 /\ i \in 1 .. Len(q)
      BY <1>1, <1>2, <1>6, <2>2
    <3>2. QED
      BY <3>1, <1>3, <1>5
  <2>3. CASE j > k /\ i < k
    <3>1. r[i] = q[i] /\ r[j] = q[j - 1] /\ i \in 1 .. k - 1 /\ i \in 1 .. Len(q)
          /\ j - 1 \in 1 .. Len(q) /\ j - 1 >= k
      BY <1>1, <1>2, <1>6, <2>3
    <3>2. QED
      BY <3>1, <1>3, <1>4, <1>5
  <2>4. CASE j > k /\ i = k
    <3>1. r[i] = f /\ r[j] = q[j - 1] /\ j - 1 \in 1 .. Len(q) /\ j - 1 >= k
      BY <1>1, <1>2, <1>6, <2>4
    <3>2. QED
      BY <3>1, <1>4
  <2>5. CASE j > k /\ i > k
    <3>1. r[i] = q[i - 1] /\ r[j] = q[j - 1] /\ i - 1 \in 1 .. Len(q)
          /\ j - 1 \in 1 .. Len(q) /\ i - 1 < j - 1
      BY <1>1, <1>2, <1>6, <2>5
    <3>2. QED
      BY <3>1 DEF Sorted
  <2>6. QED
    BY <1>1, <1>6, <2>1, <2>2, <2>3, <2>4, <2>5
<1>7. QED
  BY <1>1, <1>6 DEF Sorted

LEMMA RemoveSorted ==
  ASSUME NEW q \in Seq(Entry), Sorted(q), NEW k \in 1 .. Len(q)
  PROVE  Sorted(RemoveAt(q, k))
<1> DEFINE r == RemoveAt(q, k)
<1>1. /\ Len(r) = Len(q) - 1
      /\ \A i \in 1 .. Len(q) - 1 : r[i] = IF i < k THEN q[i] ELSE q[i + 1]
  BY RemoveAtIs
<1> HIDE DEF r
<1>2. ASSUME NEW i \in 1 .. Len(r), NEW j \in 1 .. Len(r), i < j
      PROVE  \E x, y \in 1 .. Len(q) : x < y /\ r[i] = q[x] /\ r[j] = q[y]
  <2> DEFINE x == IF i < k THEN i ELSE i + 1
             y == IF j < k THEN j ELSE j + 1
  <2>1. x \in 1 .. Len(q) /\ y \in 1 .. Len(q) /\ x < y
    BY <1>1, <1>2
  <2>2. r[i] = q[x] /\ r[j] = q[y]
    BY <1>1, <1>2
  <2>3. QED
    BY <2>1, <2>2
<1>3. Sorted(r)
  BY <1>2 DEF Sorted
<1>4. QED
  BY <1>3 DEF r

LEMMA SuffixSorted ==
  ASSUME NEW q \in Seq(Entry), Sorted(q), NEW k \in 0 .. Len(q)
  PROVE  Sorted(SubSeq(q, k + 1, Len(q)))
<1> DEFINE r == SubSeq(q, k + 1, Len(q))
<1>1. /\ Len(r) = Len(q) - k
      /\ \A i \in 1 .. Len(q) - k : r[i] = q[k + i]
  BY SuffixIs
<1> HIDE DEF r
<1>2. ASSUME NEW i \in 1 .. Len(r), NEW j \in 1 .. Len(r), i < j
      PROVE  \/ r[i].prio < r[j].prio
             \/ r[i].prio = r[j].prio /\ r[i].n < r[j].n
  <2>1. /\ r[i] = q[k + i] /\ r[j] = q[k + j]
        /\ k + i \in 1 .. Len(q) /\ k + j \in 1 .. Len(q) /\ k + i < k + j
    BY <1>1, <1>2
  <2>2. QED
    BY <2>1 DEF Sorted
<1>3. QED
  BY <1>2 DEF r, Sorted

\* What removal does to the age of the frames.
LEMMA RemoveOlder ==
  ASSUME NEW q \in Seq(Entry), NEW k \in 1 .. Len(q), NEW m,
         \A i \in 1 .. Len(q) : q[i].n < m
  PROVE  \A i \in 1 .. Len(RemoveAt(q, k)) : RemoveAt(q, k)[i].n < m
<1> DEFINE r == RemoveAt(q, k)
<1>1. /\ Len(r) = Len(q) - 1
      /\ \A i \in 1 .. Len(q) - 1 : r[i] = IF i < k THEN q[i] ELSE q[i + 1]
  BY RemoveAtIs
<1> HIDE DEF r
<1>2. \A i \in 1 .. Len(r) : \E j \in 1 .. Len(q) : r[i] = q[j]
  <2>1. TAKE i \in 1 .. Len(r)
  <2>2. i \in 1 .. Len(q) /\ i + 1 \in 1 .. Len(q) /\ r[i] = IF i < k THEN q[i] ELSE q[i + 1]
    BY <1>1
  <2>3. QED
    BY <2>2
<1>3. \A i \in 1 .. Len(r) : r[i].n < m
  BY <1>2
<1>4. QED
  BY <1>3 DEF r

LEMMA InsertOlder ==
  ASSUME NEW q \in Seq(Entry), NEW f \in Entry, NEW k \in 1 .. Len(q) + 1, NEW m,
         \A i \in 1 .. Len(q) : q[i].n < m, f.n < m
  PROVE  \A i \in 1 .. Len(InsertAt(q, k, f)) : InsertAt(q, k, f)[i].n < m
<1> DEFINE r == InsertAt(q, k, f)
<1>1. /\ Len(r) = Len(q) + 1
      /\ \A i \in 1 .. Len(q) + 1 :
           r[i] = IF i < k THEN q[i] ELSE IF i = k THEN f ELSE q[i - 1]
  BY InsertAtIs
<1> HIDE DEF r
<1>2. \A i \in 1 .. Len(r) : r[i] = f \/ \E j \in 1 .. Len(q) : r[i] = q[j]
  <2>1. TAKE i \in 1 .. Len(r)
  <2>2. CASE i < k
    <3>1. i \in 1 .. Len(q) /\ r[i] = q[i]
      BY <1>1, <2>2
    <3>2. QED
      BY <3>1
  <2>3. CASE i = k
    BY <1>1, <2>3
  <2>4. CASE i > k
    <3>1. i - 1 \in 1 .. Len(q) /\ r[i] = q[i - 1]
      BY <1>1, <2>4
    <3>2. QED
      BY <3>1
  <2>5. QED
    BY <1>1, <2>2, <2>3, <2>4
<1>3. \A i \in 1 .. Len(r) : r[i].n < m
  BY <1>2
<1>4. QED
  BY <1>3 DEF r

-----------------------------------------------------------------------------
(* The queue stays sorted.  The order of equal priorities needs that a      *)
(* frame which may be queued was handed over after all that are.            *)

\* Where the thread is not in send() nor in sendFromTxQueue().
Outside == {"app", "handle", "timer", "select", "read", "poll"}

QInv ==
  /\ queue \in Seq(Entry) /\ new \in Entry
  /\ handed \in Nat /\ now \in Nat /\ stamp \in Nat /\ stamp <= now
  /\ Sorted(queue)
  /\ \A i \in 1 .. Len(queue) : queue[i].n < handed + 1
  /\ new.n < handed + 1
  /\ new # NoFrame => Older(queue, new)
  /\ pc \in {"offer", "push", "cleanup"} => new # NoFrame
  /\ pc = "head" => queue # <<>>
  /\ caller \in {"app", "handle", "timer"}
  /\ pc \in Outside => new = NoFrame

\* What a queue must be for QInv, whatever else changes.
Good(q, h) ==
  /\ q \in Seq(Entry) /\ Sorted(q)
  /\ \A i \in 1 .. Len(q) : q[i].n < h + 1

LEMMA NoFrameEntry == NoFrame \in Entry /\ NoFrame.n = 0
BY DEF NoFrame, Entry, Volatile

LEMMA RemoveGood ==
  ASSUME QInv, NEW k \in 1 .. Len(queue)
  PROVE  /\ Good(RemoveAt(queue, k), handed)
         /\ Older(queue, new) => Older(RemoveAt(queue, k), new)
<1>1. queue \in Seq(Entry) /\ Sorted(queue)
      /\ \A i \in 1 .. Len(queue) : queue[i].n < handed + 1
  BY DEF QInv
<1>2. RemoveAt(queue, k) \in Seq(Entry) /\ Sorted(RemoveAt(queue, k))
  BY <1>1, RemoveAtIs, RemoveSorted
<1>3. \A i \in 1 .. Len(RemoveAt(queue, k)) : RemoveAt(queue, k)[i].n < handed + 1
  BY <1>1, RemoveOlder
<1>4. Older(queue, new) => Older(RemoveAt(queue, k), new)
  BY <1>1, RemoveOlder DEF Older
<1>5. QED
  BY <1>2, <1>3, <1>4 DEF Good

LEMMA InsertGood ==
  ASSUME QInv, new # NoFrame, NEW q, Good(q, handed), Older(q, new), insertNew(q)
  PROVE  Good(queue', handed)
<1>1. q \in Seq(Entry) /\ Sorted(q) /\ new \in Entry /\ new.n < handed + 1
      /\ \A i \in 1 .. Len(q) : q[i].n < handed + 1
  BY DEF QInv, Good
<1>2. PICK k \in PlaceOf(q, new) : queue' = InsertAt(q, k, new)
  BY DEF insertNew
<1>3. k \in 1 .. Len(q) + 1 /\ Sorted(queue')
  BY <1>1, <1>2, InsertSorted
<1>4. queue' \in Seq(Entry)
  BY <1>1, <1>2, <1>3, InsertAtIs
<1>5. \A i \in 1 .. Len(queue') : queue'[i].n < handed + 1
  BY <1>1, <1>2, <1>3, InsertOlder
<1>6. QED
  BY <1>3, <1>4, <1>5 DEF Good

LEMMA PeekGood ==
  ASSUME QInv, NEW k \in 0 .. Len(queue)
  PROVE  /\ Good(SubSeq(queue, k + 1, Len(queue)), handed)
         /\ Older(queue, new) => Older(SubSeq(queue, k + 1, Len(queue)), new)
<1> DEFINE r == SubSeq(queue, k + 1, Len(queue))
<1>1. queue \in Seq(Entry) /\ Sorted(queue)
      /\ \A i \in 1 .. Len(queue) : queue[i].n < handed + 1
  BY DEF QInv
<1>2. r \in Seq(Entry) /\ Sorted(r)
  BY <1>1, SuffixIs, SuffixSorted
<1>3. \A i \in 1 .. Len(r) : k + i \in 1 .. Len(queue) /\ r[i] = queue[k + i]
  BY <1>1, SuffixIs
<1> HIDE DEF r
<1>4. Good(r, handed) /\ (Older(queue, new) => Older(r, new))
  BY <1>1, <1>2, <1>3 DEF Good, Older
<1>5. QED
  BY <1>4 DEF r

LEMMA QInvInit == Init => QInv
<1>1. SUFFICES ASSUME Init PROVE QInv
  OBVIOUS
<1>2. queue = <<>> /\ new = NoFrame /\ handed = 0 /\ now = 0 /\ stamp = 0 /\ pc = "app"
      /\ caller = "app"
  BY <1>1 DEF Init
<1>3. QED
  BY <1>2, NoFrameEntry DEF QInv, Sorted, Older

\* A step that leaves the queue and the clock alone.
LEMMA QInvKeep ==
  ASSUME QInv, UNCHANGED <<queue, new, handed, now, stamp, caller>>,
         pc' \in {"offer", "push", "cleanup"} => new # NoFrame,
         pc' = "head" => queue # <<>>,
         pc' \in Outside => new = NoFrame
  PROVE  QInv'
BY DEF QInv, Sorted, Older, NoFrame, Outside

\* A step by which send() returns, whatever it made of the queue.
LEMMA QInvReturn ==
  ASSUME QInv, Good(queue', handed), Return, UNCHANGED <<handed, now>>
  PROVE  QInv'
<1>1. new' = NoFrame /\ stamp' = 0 /\ handed' = handed /\ now' = now
  BY DEF Return
<1>2. caller' = "app" /\ pc' \notin {"offer", "push", "cleanup", "head"}
  BY DEF Return, QInv
<1>3. queue' \in Seq(Entry) /\ Sorted(queue)'
      /\ \A i \in 1 .. Len(queue') : queue'[i].n < handed' + 1
  BY <1>1 DEF Good, Sorted
<1>4. handed \in Nat /\ now \in Nat
  BY DEF QInv
<1>5. NoFrame' = NoFrame
  BY DEF NoFrame
<1>6. QED
  BY <1>1, <1>2, <1>3, <1>4, <1>5, NoFrameEntry DEF QInv

\* A step that takes entries away.
LEMMA QInvTake ==
  ASSUME QInv, Good(queue', handed), Older(queue, new) => Older(queue', new),
         UNCHANGED <<new, handed, now, stamp, caller>>,
         pc' \in {"offer", "push", "cleanup"} => new # NoFrame,
         pc' = "head" => queue' # <<>>,
         pc' \in Outside => new = NoFrame
  PROVE  QInv'
<1>1. queue' \in Seq(Entry) /\ Sorted(queue)'
      /\ \A i \in 1 .. Len(queue') : queue'[i].n < handed' + 1
  BY DEF Good, Sorted
<1>2. new # NoFrame => Older(queue, new)'
  BY DEF QInv, Older
<1>3. NoFrame' = NoFrame /\ Outside' = Outside
  BY DEF NoFrame, Outside
<1>4. QED
  BY <1>1, <1>2, <1>3 DEF QInv

LEMMA QInvStep == QInv /\ [Next]_vars => QInv'
<1> SUFFICES ASSUME QInv, [Next]_vars PROVE QInv'
  OBVIOUS
<1> USE CanNodeAssumption
<1>0. /\ queue \in Seq(Entry) /\ new \in Entry /\ handed \in Nat /\ now \in Nat
      /\ Good(queue, handed)
      /\ new # NoFrame => Older(queue, new)
  BY DEF QInv, Good
<1>1. ASSUME send PROVE QInv'
  <2>1. PICK kind \in Kinds :
          new' = [n |-> handed + 1, prio |-> kind.prio, qos |-> kind.qos,
                  deadline |-> now + kind.life]
    BY <1>1 DEF send
  <2>2. kind.prio \in Nat /\ kind.qos \in {Volatile, Persistent} /\ kind.life \in Nat
    BY DEF CanNodeAssumption
  <2>3. new' \in Entry /\ new'.n = handed + 1 /\ new' # NoFrame
    BY <1>0, <2>1, <2>2 DEF Entry, NoFrame
  <2>4. handed' = handed + 1 /\ UNCHANGED <<queue, now, stamp>> /\ caller' = pc /\ pc \in {"app", "handle", "timer"}
        /\ pc' \in {"peek", "offer"}
    BY <1>1 DEF send, memory, Idle
  <2>5. \A i \in 1 .. Len(queue) : queue[i].n < handed + 1 /\ queue[i].n \in Nat
    BY <1>0, EntryIs DEF Good
  <2>6. QED
    BY <1>0, <2>3, <2>4, <2>5 DEF QInv, Sorted, Older, NoFrame, Outside
<1>2. ASSUME peek PROVE QInv'
  <2>1. PICK k \in 0 .. Len(queue) :
          /\ queue' = SubSeq(queue, k + 1, Len(queue))
          /\ pc' = IF k = Len(queue) THEN NotSent ELSE "head"
    BY <1>2 DEF peek
  <2>2. Good(queue', handed) /\ (Older(queue, new) => Older(queue', new))
    BY <2>1, PeekGood
  <2>3. Len(queue') = Len(queue) - k
    BY <1>0, <2>1, SuffixIs
  <2>4. pc' = "head" => queue' # <<>>
    <3>1. ASSUME queue' = <<>> PROVE k = Len(queue)
      BY <1>0, <2>3, <3>1
    <3>2. NotSent # "head"
      BY DEF NotSent
    <3>3. QED
      BY <2>1, <3>1, <3>2
  <2>5. pc' \in {"offer", "push", "cleanup"} => new # NoFrame
    BY <2>1 DEF NotSent
  <2>6. pc' \in Outside => new = NoFrame
    BY <2>1 DEF NotSent, Outside
  <2>7. UNCHANGED <<new, handed, now, stamp, caller>>
    BY <1>2 DEF peek
  <2>8. QED
    BY <2>2, <2>4, <2>5, <2>6, <2>7, QInvTake
<1>3. ASSUME sendFromTxQueue PROVE QInv'
  <2>1. UNCHANGED <<new, handed, now, stamp, caller>>
    BY <1>3 DEF sendFromTxQueue
  <2>2. CASE ifaceSend(queue[1]) /\ removeEntry(1) /\ pc' = IF new = NoFrame THEN "read" ELSE "push"
    <3>1. 1 \in 1 .. Len(queue) /\ queue' = RemoveAt(queue, 1)
      BY <1>0, <1>3, <2>2 DEF QInv, sendFromTxQueue, removeEntry
    <3>2. QED
      BY <2>1, <2>2, <3>1, RemoveGood, QInvTake DEF Outside
  <2>3. CASE UNCHANGED queue /\ pc' = NotSent
    BY <2>1, <2>3, QInvKeep DEF NotSent, Outside
  <2>4. QED
    BY <1>3, <2>2, <2>3 DEF sendFromTxQueue
<1>4. ASSUME sendToIface PROVE QInv'
  <2>1. UNCHANGED <<queue, handed, now>>
    BY <1>4 DEF sendToIface, memory
  <2>2. CASE Return
    BY <1>0, <2>1, <2>2, QInvReturn
  <2>3. CASE pc' = "push" /\ UNCHANGED <<new, stamp, caller>>
    <3>1. new # NoFrame
      BY <1>4 DEF sendToIface, QInv
    <3>2. QED
      BY <2>1, <2>3, <3>1, QInvKeep DEF Outside
  <2>4. QED
    BY <1>4, <2>2, <2>3 DEF sendToIface
<1>5. ASSUME push PROVE QInv'
  <2>0. UNCHANGED <<handed, now>> /\ new # NoFrame
    BY <1>5 DEF push, QInv
  <2>1. CASE Return /\ UNCHANGED queue
    BY <1>0, <2>0, <2>1, QInvReturn
  <2>2. CASE Return /\ insertNew(queue)
    BY <1>0, <2>0, <2>2, InsertGood, QInvReturn
  <2>3. CASE pc' = "cleanup" /\ stamp' = now /\ UNCHANGED <<queue, new, caller>>
    <3>1. stamp' \in Nat /\ stamp' <= now'
      BY <1>0, <2>0, <2>3
    <3>2. QED
      BY <2>0, <2>3, <3>1 DEF QInv, Sorted, Older, NoFrame, Outside
  <2>4. QED
    BY <1>5, <2>1, <2>2, <2>3 DEF push
<1>6. ASSUME cleanupExpired PROVE QInv'
  <2>1. PICK k \in 1 .. Len(queue) : queue' = RemoveAt(queue, k)
    BY <1>6 DEF cleanupExpired, removeEntry, Expired
  <2>2. UNCHANGED <<new, handed, now, stamp, caller, pc>>
    BY <1>6 DEF cleanupExpired, thread
  <2>3. pc' = "cleanup" /\ new # NoFrame
    BY <1>6, <2>2 DEF cleanupExpired, QInv
  <2>4. QED
    BY <2>1, <2>2, <2>3, RemoveGood, QInvTake DEF Outside
<1>7. ASSUME arbitrate PROVE QInv'
  <2>0. UNCHANGED <<handed, now>> /\ new # NoFrame /\ Return
    BY <1>7 DEF arbitrate, QInv
  <2>1. CASE UNCHANGED queue
    BY <1>0, <2>0, <2>1, QInvReturn
  <2>2. CASE insertNew(queue)
    BY <1>0, <2>0, <2>2, InsertGood, QInvReturn
  <2>3. ASSUME NEW k \in LowestQos(queue), insertNew(RemoveAt(queue, k)) PROVE QInv'
    <3>1. k \in 1 .. Len(queue)
      BY DEF LowestQos
    <3>2. Good(RemoveAt(queue, k), handed) /\ Older(RemoveAt(queue, k), new)
      BY <1>0, <2>0, <3>1, RemoveGood
    <3>3. QED
      BY <2>0, <2>3, <3>2, InsertGood, QInvReturn
  <2>4. QED
    BY <1>7, <2>1, <2>2, <2>3 DEF arbitrate
<1>8. ASSUME Tick PROVE QInv'
  <2>1. UNCHANGED <<queue, new, handed, stamp, caller, pc>> /\ now' = now + 1
    BY <1>8 DEF Tick, thread, memory
  <2>2. QED
    BY <2>1 DEF QInv, Sorted, Older, NoFrame, Outside
<1>9. ASSUME spinOnce \/ receive \/ read \/ handled \/ pollTimer \/ polled PROVE QInv'
  <2>1. UNCHANGED <<queue, new, handed, now, stamp, caller>>
    BY <1>9 DEF spinOnce, receive, read, handled, pollTimer, polled, memory
  <2>2. pc' \notin {"offer", "push", "cleanup", "head"}
    BY <1>9 DEF spinOnce, receive, read, handled, pollTimer, polled
  <2>3. new = NoFrame
    BY <1>9 DEF QInv, Outside, spinOnce, receive, read, handled, pollTimer, polled
  <2>4. QED
    BY <2>1, <2>2, <2>3, QInvKeep
<1>10. ASSUME Others \/ (\E t \in Timers : startPeriodic(t)) \/ TxDone \/ message_isr
              \/ RxArrive \/ UNCHANGED vars
       PROVE  QInv'
  <2>1. UNCHANGED <<queue, new, handed, now, stamp, caller, pc>>
    BY <1>10 DEF Others, startPeriodic, TxDone, message_isr, RxArrive, vars, memory, thread
  <2>2. QED
    BY <2>1, QInvKeep DEF QInv
<1>11. QED
  BY <1>1, <1>2, <1>3, <1>4, <1>5, <1>6, <1>7, <1>8, <1>9, <1>10 DEF Next, Thread

\* The queue is in the order of the bus, and frames of equal priority are in
\* the order of the calls of send() (CanTxQueue::push()).
THEOREM QueueOrder == Spec => []QueueInOrder
<1>1. QInv => QueueInOrder
  BY DEF QInv, Sorted, QueueInOrder
<1>2. QED
  BY <1>1, QInvInit, QInvStep, PTL DEF Spec

-----------------------------------------------------------------------------
(* What is dropped.                                                         *)

Elems(q) == {q[i] : i \in 1 .. Len(q)}

LEMMA InsertElems ==
  ASSUME NEW q \in Seq(Entry), NEW f \in Entry, NEW k \in 1 .. Len(q) + 1
  PROVE  f \in Elems(InsertAt(q, k, f)) /\ Elems(q) \subseteq Elems(InsertAt(q, k, f))
<1> DEFINE r == InsertAt(q, k, f)
<1>1. /\ Len(r) = Len(q) + 1
      /\ \A i \in 1 .. Len(q) + 1 :
           r[i] = IF i < k THEN q[i] ELSE IF i = k THEN f ELSE q[i - 1]
  BY InsertAtIs
<1> HIDE DEF r
<1>2. k \in 1 .. Len(r) /\ r[k] = f
  BY <1>1
<1>3. \A i \in 1 .. Len(q) : \E j \in 1 .. Len(r) : r[j] = q[i]
  <2>1. TAKE i \in 1 .. Len(q)
  <2>2. CASE i < k
    <3>1. i \in 1 .. Len(r) /\ r[i] = q[i]
      BY <1>1, <2>2
    <3>2. QED
      BY <3>1
  <2>3. CASE i >= k
    <3>1. i + 1 \in 1 .. Len(r) /\ r[i + 1] = q[i]
      BY <1>1, <2>3
    <3>2. QED
      BY <3>1
  <2>4. QED
    BY <2>2, <2>3
<1>4. f \in Elems(r) /\ Elems(q) \subseteq Elems(r)
  BY <1>2, <1>3 DEF Elems
<1>5. QED
  BY <1>4 DEF r

LEMMA RemoveElems ==
  ASSUME NEW q \in Seq(Entry), NEW k \in 1 .. Len(q)
  PROVE  Elems(q) \subseteq Elems(RemoveAt(q, k)) \cup {q[k]}
<1> DEFINE r == RemoveAt(q, k)
<1>1. /\ Len(r) = Len(q) - 1
      /\ \A i \in 1 .. Len(q) - 1 : r[i] = IF i < k THEN q[i] ELSE q[i + 1]
  BY RemoveAtIs
<1> HIDE DEF r
<1>2. \A i \in 1 .. Len(q) : i = k \/ \E j \in 1 .. Len(r) : r[j] = q[i]
  <2>1. TAKE i \in 1 .. Len(q)
  <2>2. CASE i < k
    <3>1. i \in 1 .. Len(r) /\ r[i] = q[i]
      BY <1>1, <2>2
    <3>2. QED
      BY <3>1
  <2>3. CASE i > k
    <3>1. i - 1 \in 1 .. Len(r) /\ r[i - 1] = q[i]
      BY <1>1, <2>3
    <3>2. QED
      BY <3>1
  <2>4. QED
    BY <2>2, <2>3
<1>3. Elems(q) \subseteq Elems(r) \cup {q[k]}
  BY <1>2 DEF Elems
<1>4. QED
  BY <1>3 DEF r

LEMMA HeldIs == Held = ({new} \cup Elems(queue)) \ {NoFrame}
BY DEF Held, Elems

\* A step that changes neither the queue nor the frame of send() drops nothing.
LEMMA NothingLost ==
  ASSUME UNCHANGED <<queue, new>>
  PROVE  Lost = {}
BY DEF Lost, Held, NoFrame

\* A frame that the driver has taken is with it.
LEMMA SendDrives ==
  ASSUME ring \in Seq(Entry), NEW f \in Entry, ifaceSend(f)
  PROVE  f \in Driven'
<1>1. CASE Direct
  BY <1>1 DEF ifaceSend, Driven
<1>2. CASE ~Direct
  <2>1. ring' = Append(ring, f)
    BY <1>2 DEF ifaceSend
  <2>2. Len(ring') = Len(ring) + 1 /\ ring'[Len(ring) + 1] = f
    BY <2>1
  <2>3. Len(ring) + 1 \in 1 .. Len(ring')
    BY <2>2
  <2>4. QED
    BY <2>2, <2>3 DEF Driven
<1>3. QED
  BY <1>1, <1>2

RingInv == ring \in Seq(Entry)

LEMMA RingInvStep == QInv /\ RingInv /\ [Next]_vars => RingInv'
<1> SUFFICES ASSUME QInv, RingInv, [Next]_vars PROVE RingInv'
  OBVIOUS
<1>1. ASSUME NEW f \in Entry, ifaceSend(f) PROVE RingInv'
  BY <1>1 DEF ifaceSend, RingInv
<1>2. CASE sendFromTxQueue
  <2>1. queue[1] \in Entry
    BY <1>2 DEF QInv, sendFromTxQueue
  <2>2. QED
    BY <1>1, <1>2, <2>1 DEF sendFromTxQueue, RingInv, driver
<1>3. CASE sendToIface
  BY <1>1, <1>3 DEF sendToIface, QInv, RingInv, driver
<1>4. CASE message_isr
  BY <1>4 DEF message_isr, RingInv
<1>5. CASE UNCHANGED ring
  BY <1>5 DEF RingInv
<1>6. CASE send \/ Others \/ peek \/ push \/ cleanupExpired \/ arbitrate \/ spinOnce
           \/ receive \/ read \/ handled \/ pollTimer \/ polled
           \/ (\E t \in Timers : startPeriodic(t)) \/ TxDone \/ RxArrive \/ Tick
           \/ UNCHANGED vars
  <2>1. UNCHANGED ring
    BY <1>6 DEF send, Others, peek, push, cleanupExpired, arbitrate, spinOnce, receive, read,
       handled, pollTimer, polled, startPeriodic, TxDone, RxArrive, Tick, vars, driver
  <2>2. QED
    BY <1>5, <2>1
<1>7. QED
  BY <1>2, <1>3, <1>4, <1>6 DEF Next, Thread

\* The order in which push() chooses, in the terms of the property.
LEMMA NotHigher ==
  ASSUME NEW e \in Entry, NEW f \in Entry
  PROVE  ~qosHigherThan(e, f) <=> NotBetter(e, f)
BY EntryIs DEF qosHigherThan, priorityHigherThan, NotBetter

LEMMA NotBetterIsTransitive ==
  ASSUME NEW e \in Entry, NEW f \in Entry, NEW g \in Entry
  PROVE  /\ NotBetter(e, f) /\ NotBetter(f, g) => NotBetter(e, g)
         /\ ~NotBetter(e, f) => NotBetter(f, e)
BY EntryIs DEF NotBetter

\* insertNew() keeps what was there and has the new frame.
LEMMA InsertNewElems ==
  ASSUME new \in Entry, NEW q \in Seq(Entry), insertNew(q)
  PROVE  new \in Elems(queue)' /\ Elems(q) \subseteq Elems(queue)'
<1>1. PICK k \in PlaceOf(q, new) : queue' = InsertAt(q, k, new)
  BY DEF insertNew
<1>2. k \in 1 .. Len(q) + 1
  BY DEF PlaceOf, insertBefore
<1>3. new \in Elems(InsertAt(q, k, new)) /\ Elems(q) \subseteq Elems(InsertAt(q, k, new))
  BY <1>2, InsertElems
<1>4. Elems(queue)' = Elems(InsertAt(q, k, new))
  BY <1>1 DEF Elems
<1>5. QED
  BY <1>3, <1>4

LEMMA DropStep == QInv /\ RingInv /\ [Next]_vars =>
                    \A f \in Lost : now >= f.deadline \/ \A g \in Held : NotBetter(f, g)
<1> SUFFICES ASSUME QInv, RingInv, [Next]_vars, NEW f \in Lost
             PROVE  now >= f.deadline \/ \A g \in Held : NotBetter(f, g)
  OBVIOUS
<1>0. /\ queue \in Seq(Entry) /\ new \in Entry /\ now \in Nat /\ stamp \in Nat /\ stamp <= now
      /\ f \in {new} \cup Elems(queue) /\ f # NoFrame
      /\ f \notin {new'} \cup Elems(queue)' /\ f \notin Driven'
  <2>1. f \in Held /\ f \notin Held' /\ f \notin Driven'
    BY DEF Lost
  <2>2. f \in {new} \cup Elems(queue) /\ f # NoFrame
    BY <2>1, HeldIs
  <2>3. Held' = ({new'} \cup Elems(queue)') \ {NoFrame}
    BY HeldIs DEF Held, Elems, NoFrame
  <2>4. QED
    BY <2>1, <2>2, <2>3 DEF QInv
<1>e. /\ \A i \in 1 .. Len(queue) : queue[i] \in Entry /\ queue[i].deadline \in Nat
      /\ f \in Entry /\ f.deadline \in Nat
  <2>1. \A i \in 1 .. Len(queue) : queue[i] \in Entry
    BY <1>0
  <2>2. f \in Entry
    BY <1>0, <2>1 DEF Elems
  <2>3. QED
    BY <2>1, <2>2, EntryIs
<1>h. \A g \in Held : g = new \/ \E j \in 1 .. Len(queue) : g = queue[j]
  BY HeldIs DEF Elems
<1>1. CASE peek
  <2>1. PICK k \in 0 .. Len(queue) :
          /\ \A i \in 1 .. k : isExpired(queue[i], now)
          /\ queue' = SubSeq(queue, k + 1, Len(queue))
    BY <1>1 DEF peek
  <2>2. PICK i \in 1 .. Len(queue) : f = queue[i]
    BY <1>0, <1>1 DEF peek, Elems
  <2>3. CASE i <= k
    BY <1>0, <1>e, <2>1, <2>2, <2>3 DEF isExpired
  <2>4. CASE i > k
    <3>1. /\ Len(queue') = Len(queue) - k
          /\ \A j \in 1 .. Len(queue) - k : queue'[j] = queue[k + j]
      BY <1>0, <2>1, SuffixIs
    <3>2. i - k \in 1 .. Len(queue') /\ queue'[i - k] = queue[i]
      BY <3>1, <2>4
    <3>3. f \in Elems(queue)'
      BY <2>2, <3>2 DEF Elems
    <3>4. QED
      BY <1>0, <3>3
  <2>5. QED
    BY <2>3, <2>4
<1>2. CASE sendFromTxQueue
  <2>1. UNCHANGED new
    BY <1>2 DEF sendFromTxQueue
  <2>2. CASE ifaceSend(queue[1]) /\ removeEntry(1)
    <3>1. 1 \in 1 .. Len(queue) /\ queue' = RemoveAt(queue, 1)
      BY <1>0, <1>2, <2>2 DEF QInv, sendFromTxQueue, removeEntry
    <3>2. queue[1] \in Driven'
      BY <1>e, <2>2, <3>1, SendDrives DEF RingInv
    <3>3. Elems(queue) \subseteq Elems(queue)' \cup {queue[1]}
      BY <1>0, <3>1, RemoveElems DEF Elems
    <3>4. QED
      BY <1>0, <2>1, <3>2, <3>3
  <2>3. CASE UNCHANGED queue
    BY <2>1, <2>3, NothingLost
  <2>4. QED
    BY <1>2, <2>2, <2>3 DEF sendFromTxQueue
<1>3. CASE sendToIface
  <2>1. UNCHANGED queue
    BY <1>3 DEF sendToIface, memory
  <2>2. CASE ifaceSend(new)
    <3>1. new \in Driven'
      BY <1>0, <2>2, SendDrives DEF RingInv
    <3>2. QED
      BY <1>0, <2>1, <3>1 DEF Elems
  <2>3. CASE UNCHANGED new
    BY <2>1, <2>3, NothingLost
  <2>4. QED
    BY <1>3, <2>2, <2>3 DEF sendToIface
<1>4. CASE push
  <2>1. CASE Late(new) /\ UNCHANGED queue
    <3>1. f = new
      BY <1>0, <2>1 DEF Elems
    <3>2. QED
      BY <2>1, <3>1 DEF Late
  <2>2. CASE insertNew(queue)
    BY <1>0, <2>2, InsertNewElems
  <2>3. CASE UNCHANGED <<queue, new>>
    BY <2>3, NothingLost
  <2>4. QED
    BY <1>4, <2>1, <2>2, <2>3 DEF push
<1>5. CASE cleanupExpired
  <2>1. PICK k \in Expired : removeEntry(k)
    BY <1>5 DEF cleanupExpired
  <2>2. k \in 1 .. Len(queue) /\ stamp > queue[k].deadline /\ UNCHANGED new
    BY <1>5, <2>1 DEF cleanupExpired, Expired, isExpired, thread
  <2>3. Elems(queue) \subseteq Elems(queue)' \cup {queue[k]}
    <3>1. Elems(queue) \subseteq Elems(RemoveAt(queue, k)) \cup {queue[k]}
      BY <1>0, <2>2, RemoveElems
    <3>2. Elems(queue)' = Elems(RemoveAt(queue, k))
      BY <2>1 DEF Elems, removeEntry
    <3>3. QED
      BY <3>1, <3>2
  <2>4. f = queue[k]
    BY <1>0, <2>2, <2>3
  <2>5. QED
    BY <1>0, <1>e, <2>2, <2>4
<1>6. CASE arbitrate
  <2>1. CASE insertNew(queue)
    BY <1>0, <2>1, InsertNewElems
  <2>2. CASE queue = <<>> /\ UNCHANGED queue
    <3>1. f = new /\ \A g \in Held : g = new
      BY <1>0, <1>h, <2>2 DEF Elems
    <3>2. QED
      BY <1>0, <3>1, EntryIs DEF NotBetter
  <2>3. ASSUME NEW k \in LowestQos(queue),
               IF qosHigherThan(queue[k], new) THEN UNCHANGED queue
                                               ELSE insertNew(RemoveAt(queue, k))
        PROVE  \A g \in Held : NotBetter(f, g)
    <3>1. /\ k \in 1 .. Len(queue)
          /\ \A j \in 1 .. Len(queue) : NotBetter(queue[k], queue[j])
      BY <1>e, NotHigher DEF LowestQos
    <3>2. CASE qosHigherThan(queue[k], new)
      <4>1. f = new
        BY <1>0, <2>3, <3>2 DEF Elems
      <4>2. NotBetter(new, queue[k]) /\ NotBetter(new, new)
        BY <1>0, <1>e, <3>1, <3>2, NotHigher, NotBetterIsTransitive
      <4>3. \A j \in 1 .. Len(queue) : NotBetter(new, queue[j])
        BY <1>0, <1>e, <3>1, <4>2, NotBetterIsTransitive
      <4>4. QED
        BY <1>h, <4>1, <4>2, <4>3
    <3>3. CASE ~qosHigherThan(queue[k], new)
      <4>1. RemoveAt(queue, k) \in Seq(Entry)
        BY <1>0, <3>1, RemoveAtIs
      <4>2. new \in Elems(queue)' /\ Elems(RemoveAt(queue, k)) \subseteq Elems(queue)'
        BY <1>0, <2>3, <3>3, <4>1, InsertNewElems
      <4>3. f = queue[k]
        BY <1>0, <3>1, <4>2, RemoveElems
      <4>4. NotBetter(queue[k], new)
        BY <1>0, <1>e, <3>1, <3>3, NotHigher
      <4>5. QED
        BY <1>h, <3>1, <4>3, <4>4
    <3>4. QED
      BY <3>2, <3>3
  <2>4. QED
    BY <1>6, <2>1, <2>2, <2>3 DEF arbitrate
<1>7. CASE send
  <2>1. new = NoFrame /\ UNCHANGED queue
    BY <1>7 DEF QInv, send, Idle, Outside, memory
  <2>2. QED
    BY <1>0, <2>1 DEF Elems
<1>8. CASE spinOnce \/ receive \/ read \/ handled \/ pollTimer \/ polled \/ Others
           \/ (\E t \in Timers : startPeriodic(t)) \/ TxDone \/ message_isr
           \/ RxArrive \/ Tick \/ UNCHANGED vars
  <2>1. UNCHANGED <<queue, new>>
    BY <1>8 DEF spinOnce, receive, read, handled, pollTimer, polled, Others, startPeriodic,
       TxDone, message_isr, RxArrive, Tick, vars, thread, memory
  <2>2. QED
    BY <2>1, NothingLost
<1>9. QED
  BY <1>1, <1>2, <1>3, <1>4, <1>5, <1>6, <1>7, <1>8 DEF Next, Thread

\* What push() and peek() drop has expired or is no better than any frame that
\* stays (CanTxQueue::push(): "Find a frame with lowest QoS").
THEOREM DropsLowest == Spec => LowestDropped
<1>1. Init => RingInv
  BY DEF Init, RingInv
<1>2. QInv /\ RingInv /\ [Next]_vars =>
        [\A f \in Lost : now >= f.deadline \/ \A g \in Held : NotBetter(f, g)]_vars
  BY DropStep
<1>3. QED
  BY <1>1, <1>2, QInvInit, QInvStep, RingInvStep, PTL DEF Spec, LowestDropped

-----------------------------------------------------------------------------
(* Accounting: the driver has a frame, or the node holds it, or it is       *)
(* counted, and never two of the three.                                     *)

LEMMA InsertExact ==
  ASSUME NEW q \in Seq(Entry), NEW f \in Entry, NEW k \in 1 .. Len(q) + 1
  PROVE  Elems(InsertAt(q, k, f)) = Elems(q) \cup {f}
<1> DEFINE r == InsertAt(q, k, f)
<1>1. /\ Len(r) = Len(q) + 1
      /\ \A i \in 1 .. Len(q) + 1 :
           r[i] = IF i < k THEN q[i] ELSE IF i = k THEN f ELSE q[i - 1]
  BY InsertAtIs
<1>2. f \in Elems(r) /\ Elems(q) \subseteq Elems(r)
  BY InsertElems
<1> HIDE DEF r
<1>3. ASSUME NEW i \in 1 .. Len(r) PROVE r[i] = f \/ \E j \in 1 .. Len(q) : r[i] = q[j]
  <2>1. CASE i < k
    <3>1. i \in 1 .. Len(q) /\ r[i] = q[i]
      BY <1>1, <2>1
    <3>2. QED
      BY <3>1
  <2>2. CASE i = k
    BY <1>1, <2>2
  <2>3. CASE i > k
    <3>1. i - 1 \in 1 .. Len(q) /\ r[i] = q[i - 1]
      BY <1>1, <2>3
    <3>2. QED
      BY <3>1
  <2>4. QED
    BY <1>1, <2>1, <2>2, <2>3
<1>4. Elems(r) \subseteq Elems(q) \cup {f}
  BY <1>3 DEF Elems
<1>5. QED
  BY <1>2, <1>4 DEF r

\* No frame is twice in a sorted queue.
LEMMA SortedDiffer ==
  ASSUME NEW q \in Seq(Entry), Sorted(q), NEW i \in 1 .. Len(q), NEW j \in 1 .. Len(q),
         q[i] = q[j]
  PROVE  i = j
<1>1. q[i].prio \in Nat /\ q[i].n \in Nat
  BY EntryIs
<1>2. CASE i < j
  BY <1>1, <1>2 DEF Sorted
<1>3. CASE j < i
  BY <1>1, <1>3 DEF Sorted
<1>4. QED
  BY <1>2, <1>3

LEMMA RemoveExact ==
  ASSUME NEW q \in Seq(Entry), Sorted(q), NEW k \in 1 .. Len(q)
  PROVE  Elems(RemoveAt(q, k)) = Elems(q) \ {q[k]}
<1> DEFINE r == RemoveAt(q, k)
<1>1. /\ Len(r) = Len(q) - 1
      /\ \A i \in 1 .. Len(q) - 1 : r[i] = IF i < k THEN q[i] ELSE q[i + 1]
  BY RemoveAtIs
<1>2. Elems(q) \subseteq Elems(r) \cup {q[k]}
  BY RemoveElems
<1> HIDE DEF r
<1>3. ASSUME NEW i \in 1 .. Len(r) PROVE \E j \in 1 .. Len(q) : r[i] = q[j] /\ j # k
  <2>1. CASE i < k
    <3>1. i \in 1 .. Len(q) /\ r[i] = q[i] /\ i # k
      BY <1>1, <2>1
    <3>2. QED
      BY <3>1
  <2>2. CASE i >= k
    <3>1. i + 1 \in 1 .. Len(q) /\ r[i] = q[i + 1] /\ i + 1 # k
      BY <1>1, <2>2
    <3>2. QED
      BY <3>1
  <2>3. QED
    BY <1>1, <2>1, <2>2
<1>4. \A j \in 1 .. Len(q) : j # k => q[j] # q[k]
  BY SortedDiffer
<1>5. Elems(r) \subseteq Elems(q) \ {q[k]}
  BY <1>3, <1>4 DEF Elems
<1>6. QED
  BY <1>2, <1>5 DEF r

\* The first k frames of a sorted queue are k frames.
FirstOf(q, k) == {q[i] : i \in 1 .. k}

LEMMA FirstCount ==
  ASSUME NEW q \in Seq(Entry), Sorted(q), NEW k \in 0 .. Len(q)
  PROVE  Cardinality(FirstOf(q, k)) = k
<1> DEFINE f == [i \in 1 .. k |-> q[i]]
<1>1. \A i \in 1 .. k : i \in 1 .. Len(q)
  OBVIOUS
<1>2. f \in [1 .. k -> FirstOf(q, k)] /\ DOMAIN f = 1 .. k
  BY DEF FirstOf
<1>3. \A i, j \in 1 .. k : f[i] = f[j] => i = j
  BY <1>1, SortedDiffer
<1>4. \A e \in FirstOf(q, k) : \E i \in 1 .. k : f[i] = e
  BY DEF FirstOf
<1> HIDE DEF f
<1>5. f \in Injection(1 .. k, FirstOf(q, k))
  BY <1>2, <1>3 DEF Injection, IsInjective
<1>6. f \in Surjection(1 .. k, FirstOf(q, k))
  BY <1>2, <1>4 DEF Surjection
<1>7. ExistsBijection(1 .. k, FirstOf(q, k))
  BY <1>5, <1>6 DEF ExistsBijection, Bijection
<1>8. QED
  BY <1>7, FS_CountingElements

LEMMA SuffixExact ==
  ASSUME NEW q \in Seq(Entry), Sorted(q), NEW k \in 0 .. Len(q)
  PROVE  /\ Elems(SubSeq(q, k + 1, Len(q))) = Elems(q) \ FirstOf(q, k)
         /\ FirstOf(q, k) \subseteq Elems(q)
<1> DEFINE r == SubSeq(q, k + 1, Len(q))
<1>1. /\ Len(r) = Len(q) - k
      /\ \A i \in 1 .. Len(q) - k : r[i] = q[k + i]
  BY SuffixIs
<1> HIDE DEF r
<1>2. ASSUME NEW i \in 1 .. Len(r)
      PROVE  /\ r[i] = q[k + i] /\ k + i \in 1 .. Len(q)
             /\ \A j \in 1 .. k : q[j] # q[k + i]
  <2>1. r[i] = q[k + i] /\ k + i \in 1 .. Len(q)
    BY <1>1
  <2>2. \A j \in 1 .. k : j \in 1 .. Len(q) /\ j # k + i
    OBVIOUS
  <2>3. QED
    BY <2>1, <2>2, SortedDiffer
<1>3. Elems(r) \subseteq Elems(q) \ FirstOf(q, k)
  BY <1>2 DEF Elems, FirstOf
<1>4. ASSUME NEW i \in 1 .. Len(q), i > k PROVE q[i] \in Elems(r)
  <2>1. i - k \in 1 .. Len(r) /\ r[i - k] = q[i]
    BY <1>1, <1>4
  <2>2. QED
    BY <2>1 DEF Elems
<1>5. \A i \in 1 .. Len(q) : i <= k => q[i] \in FirstOf(q, k)
  BY DEF FirstOf
<1>6. Elems(q) \ FirstOf(q, k) \subseteq Elems(r)
  BY <1>4, <1>5 DEF Elems
<1>7. FirstOf(q, k) \subseteq Elems(q)
  BY DEF FirstOf, Elems
<1>8. QED
  BY <1>3, <1>6, <1>7 DEF r

LEMMA SendExact ==
  ASSUME ring \in Seq(Entry), NEW f \in Entry, ifaceSend(f)
  PROVE  Driven' = Driven \cup {f}
<1>1. CASE Direct
  BY <1>1 DEF ifaceSend, Driven
<1>2. CASE ~Direct
  <2>1. ring' = Append(ring, f) /\ boxes' = boxes
    BY <1>2 DEF ifaceSend
  <2>2. /\ Len(ring') = Len(ring) + 1
        /\ \A i \in 1 .. Len(ring) + 1 : ring'[i] = IF i = Len(ring) + 1 THEN f ELSE ring[i]
    BY <2>1
  <2>3. {ring'[k] : k \in 1 .. Len(ring')} = {ring[k] : k \in 1 .. Len(ring)} \cup {f}
    BY <2>2
  <2>4. QED
    BY <2>1, <2>3 DEF Driven
<1>3. QED
  BY <1>1, <1>2

\* The message interrupt moves a frame within the driver.
LEMMA IsrExact ==
  ASSUME ring \in Seq(Entry), message_isr
  PROVE  Driven' = Driven
<1>1. ring # <<>> /\ boxes' = boxes \cup {ring[1]} /\ ring' = Tail(ring)
  BY DEF message_isr
<1>2. /\ Len(ring) >= 1 /\ Len(ring') = Len(ring) - 1
      /\ \A i \in 1 .. Len(ring) - 1 : ring'[i] = ring[i + 1]
  BY <1>1
<1>3. \A i \in 1 .. Len(ring) : i = 1 \/ (i - 1 \in 1 .. Len(ring') /\ ring'[i - 1] = ring[i])
  BY <1>2
<1>4. \A i \in 1 .. Len(ring') : i + 1 \in 1 .. Len(ring) /\ ring'[i] = ring[i + 1]
  BY <1>2
<1>5. {ring[k] : k \in 1 .. Len(ring)} \subseteq {ring'[k] : k \in 1 .. Len(ring')} \cup {ring[1]}
  BY <1>3
<1>6. {ring'[k] : k \in 1 .. Len(ring')} \subseteq {ring[k] : k \in 1 .. Len(ring)}
  BY <1>4
<1>7. 1 \in 1 .. Len(ring) /\ ring[1] \in {ring[k] : k \in 1 .. Len(ring)}
  BY <1>2
<1>8. QED
  BY <1>1, <1>5, <1>6, <1>7 DEF Driven

AInv ==
  /\ Held \cap Driven = {}
  /\ NoFrame \notin Elems(queue)
  /\ Driven \subseteq Entry /\ \A f \in Driven : f.n < handed + 1
  /\ rejected \in Nat

\* A step drops the frames of S, gives those of G to the driver, and takes
\* those of N from the caller of send().
Moves(S, G, N) ==
  /\ S \subseteq Held /\ G \subseteq Held \ S
  /\ N \cap (Held \cup Driven) = {}
  /\ Held' = (Held \ (S \cup G)) \cup N
  /\ G \subseteq Driven' /\ Driven' \subseteq Driven \cup G
  /\ rejected' = rejected + Cardinality(S)

LEMMA Balance ==
  ASSUME QInv, AInv, NEW S, NEW G, NEW N, Moves(S, G, N), Cardinality(S) \in Nat,
         NoFrame \notin Elems(queue)', handed' \in {handed, handed + 1}
  PROVE  AInv' /\ Lost = S /\ Held' \cap Driven' = {}
<1> DEFINE H == Held
           K == Held'
           D == Driven
           E == Driven'
<1>1. /\ H \cap D = {} /\ S \subseteq H /\ G \subseteq H \ S /\ N \cap (H \cup D) = {}
      /\ K = (H \ (S \cup G)) \cup N /\ G \subseteq E /\ E \subseteq D \cup G
  BY DEF AInv, Moves
<1>2. Lost = H \ (K \cup E)
  BY DEF Lost
<1>3. /\ D \subseteq Entry /\ \A f \in D : f.n < handed + 1
      /\ H \subseteq Entry /\ \A f \in H : f.n < handed + 1
  BY DEF AInv, QInv, Held
<1> HIDE DEF H, K, D, E
<1>4. K \cap E = {} /\ H \ (K \cup E) = S
  BY <1>1
<1>5. E \subseteq Entry /\ \A f \in E : f.n < handed + 1
  BY <1>1, <1>3
<1>6. handed \in Nat /\ \A f \in E : f.n \in Nat
  BY <1>5, EntryIs DEF QInv
<1>7. \A f \in E : f.n < handed' + 1
  BY <1>5, <1>6
<1>8. rejected' \in Nat
  BY DEF AInv, Moves
<1>9. NoFrame' = NoFrame /\ Entry' = Entry
  BY DEF NoFrame, Entry
<1>10. QED
  BY <1>2, <1>4, <1>5, <1>7, <1>8, <1>9 DEF AInv, H, K, D, E

\* A step by which the node holds the same frames and the driver no others.
LEMMA BalanceKeep ==
  ASSUME QInv, AInv, Held' = Held, Driven' \subseteq Driven, UNCHANGED <<rejected, handed>>,
         NoFrame \notin Elems(queue)'
  PROVE  AInv' /\ Lost = {} /\ Held' \cap Driven' = {}
<1>1. Cardinality({}) = 0 /\ rejected \in Nat
  BY FS_EmptySet DEF AInv
<1>2. Moves({}, {}, {})
  BY <1>1 DEF Moves
<1>3. QED
  BY <1>1, <1>2, Balance

\* A step that drops one frame.
LEMMA BalanceDrop ==
  ASSUME QInv, AInv, NEW f \in Held, Held' = Held \ {f}, UNCHANGED <<ring, boxes, handed>>,
         rejected' = rejected + 1, NoFrame \notin Elems(queue)'
  PROVE  AInv' /\ Lost = {f} /\ Cardinality(Lost) = 1 /\ Held' \cap Driven' = {}
<1>1. Cardinality({f}) = 1
  BY FS_Singleton
<1>2. Driven' = Driven
  BY DEF Driven
<1>3. Moves({f}, {}, {})
  BY <1>1, <1>2 DEF Moves
<1>4. QED
  BY <1>1, <1>3, Balance

\* A step that gives one frame to the driver.
LEMMA BalanceSend ==
  ASSUME QInv, RingInv, AInv, NEW f \in Held, Held' = Held \ {f}, ifaceSend(f),
         UNCHANGED <<rejected, handed>>, NoFrame \notin Elems(queue)'
  PROVE  AInv' /\ Lost = {} /\ Held' \cap Driven' = {}
<1>1. f \in Entry
  BY DEF Held, QInv
<1>2. Driven' = Driven \cup {f}
  BY <1>1, SendExact DEF RingInv
<1>3. Cardinality({}) = 0 /\ rejected \in Nat
  BY FS_EmptySet DEF AInv
<1>4. Moves({}, {f}, {})
  BY <1>2, <1>3 DEF Moves
<1>5. QED
  BY <1>3, <1>4, Balance

LEMMA AccountStep ==
  QInv /\ RingInv /\ AInv /\ [Next]_vars =>
    AInv' /\ Held' \cap Driven' = {} /\ rejected' - rejected = Cardinality(Lost)
<1> SUFFICES ASSUME QInv, RingInv, AInv, [Next]_vars
             PROVE  AInv' /\ Held' \cap Driven' = {} /\ rejected' - rejected = Cardinality(Lost)
  OBVIOUS
<1> DEFINE Done == AInv' /\ Held' \cap Driven' = {} /\ rejected' - rejected = Cardinality(Lost)
<1>0. /\ queue \in Seq(Entry) /\ Sorted(queue) /\ new \in Entry /\ rejected \in Nat
      /\ NoFrame \notin Elems(queue)
      /\ \A i \in 1 .. Len(queue) : queue[i] \in Entry /\ queue[i] \in Elems(queue)
  BY DEF QInv, AInv, Elems
<1>h. /\ Held = ({new} \cup Elems(queue)) \ {NoFrame}
      /\ Held' = ({new'} \cup Elems(queue)') \ {NoFrame}
  BY HeldIs DEF Held, Elems, NoFrame
<1>n. new # NoFrame => new \notin Elems(queue)
  <2>1. ASSUME new # NoFrame, NEW i \in 1 .. Len(queue), queue[i] = new PROVE FALSE
    <3>1. queue[i].n < new.n /\ new.n \in Nat
      BY <1>0, <2>1, EntryIs DEF QInv, Older
    <3>2. QED
      BY <2>1, <3>1
  <2>2. QED
    BY <2>1 DEF Elems
<1>z. Cardinality({}) = 0 /\ rejected - rejected = 0 /\ (rejected + 1) - rejected = 1
  BY <1>0, FS_EmptySet
<1>1. CASE peek
  <2>1. PICK k \in 0 .. Len(queue) :
          /\ queue' = SubSeq(queue, k + 1, Len(queue))
          /\ rejected' = rejected + k
    BY <1>1 DEF peek
  <2>2. UNCHANGED <<new, ring, boxes, handed>>
    BY <1>1 DEF peek, driver
  <2>3. /\ Elems(queue)' = Elems(queue) \ FirstOf(queue, k)
        /\ FirstOf(queue, k) \subseteq Elems(queue)
    <3>1. Elems(queue)' = Elems(SubSeq(queue, k + 1, Len(queue)))
      BY <2>1 DEF Elems
    <3>2. QED
      BY <1>0, <3>1, SuffixExact
  <2>4. Cardinality(FirstOf(queue, k)) = k
    BY <1>0, FirstCount
  <2>5. Driven' = Driven
    BY <2>2 DEF Driven
  <2>6. Moves(FirstOf(queue, k), {}, {})
    BY <1>0, <1>h, <1>n, <2>1, <2>2, <2>3, <2>4, <2>5 DEF Moves
  <2>7. AInv' /\ Lost = FirstOf(queue, k) /\ Held' \cap Driven' = {}
    BY <1>0, <2>2, <2>3, <2>4, <2>6, Balance
  <2>8. rejected' - rejected = k
    BY <1>0, <2>1
  <2>9. QED
    BY <2>4, <2>7, <2>8
<1>2. CASE sendFromTxQueue
  <2>1. UNCHANGED <<new, rejected, handed>>
    BY <1>2 DEF sendFromTxQueue
  <2>2. CASE ifaceSend(queue[1]) /\ removeEntry(1)
    <3>1. 1 \in 1 .. Len(queue) /\ queue' = RemoveAt(queue, 1)
      BY <1>0, <1>2, <2>2 DEF QInv, sendFromTxQueue, removeEntry
    <3>2. Elems(queue)' = Elems(queue) \ {queue[1]}
      <4>1. Elems(queue)' = Elems(RemoveAt(queue, 1))
        BY <3>1 DEF Elems
      <4>2. QED
        BY <1>0, <3>1, <4>1, RemoveExact
    <3>3. queue[1] \in Held /\ Held' = Held \ {queue[1]}
      BY <1>0, <1>h, <1>n, <2>1, <3>1, <3>2
    <3>4. AInv' /\ Lost = {} /\ Held' \cap Driven' = {}
      BY <1>0, <2>1, <2>2, <3>2, <3>3, BalanceSend
    <3>5. QED
      BY <1>z, <2>1, <3>4
  <2>3. CASE UNCHANGED <<queue, driver>>
    <3>1. Held' = Held /\ Driven' = Driven /\ Elems(queue)' = Elems(queue)
      BY <1>h, <2>1, <2>3 DEF Driven, Elems, driver
    <3>2. AInv' /\ Lost = {} /\ Held' \cap Driven' = {}
      BY <1>0, <2>1, <3>1, BalanceKeep
    <3>3. QED
      BY <1>z, <2>1, <3>2
  <2>4. QED
    BY <1>2, <2>2, <2>3 DEF sendFromTxQueue
<1>3. CASE sendToIface
  <2>1. UNCHANGED <<queue, rejected, handed>> /\ new # NoFrame /\ Elems(queue)' = Elems(queue)
    BY <1>3 DEF sendToIface, memory, QInv, Elems
  <2>2. CASE ifaceSend(new) /\ Return
    <3>1. new \in Held /\ Held' = Held \ {new}
      BY <1>0, <1>h, <1>n, <2>1, <2>2 DEF Return, NoFrame
    <3>2. AInv' /\ Lost = {} /\ Held' \cap Driven' = {}
      BY <1>0, <2>1, <2>2, <3>1, BalanceSend
    <3>3. QED
      BY <1>z, <2>1, <3>2
  <2>3. CASE UNCHANGED <<new, driver>>
    <3>1. Held' = Held /\ Driven' = Driven
      BY <1>h, <2>1, <2>3 DEF Driven, driver
    <3>2. AInv' /\ Lost = {} /\ Held' \cap Driven' = {}
      BY <1>0, <2>1, <3>1, BalanceKeep
    <3>3. QED
      BY <1>z, <2>1, <3>2
  <2>4. QED
    BY <1>3, <2>2, <2>3 DEF sendToIface
<1>r. ASSUME Return, new # NoFrame, UNCHANGED <<driver, handed>> PROVE
        /\ registerRejectedFrame /\ UNCHANGED queue => Done
        /\ insertNew(queue) /\ UNCHANGED rejected => Done
        /\ \A k \in 1 .. Len(queue) :
             registerRejectedFrame /\ insertNew(RemoveAt(queue, k)) => Done
  <2>1. new' = NoFrame /\ Driven' = Driven /\ new \in Held /\ UNCHANGED <<ring, boxes, handed>>
    BY <1>h, <1>r DEF Return, driver, Driven
  <2>2. ASSUME registerRejectedFrame, UNCHANGED queue PROVE Done
    <3>1. Elems(queue)' = Elems(queue) /\ rejected' = rejected + 1
      BY <2>2 DEF Elems, registerRejectedFrame
    <3>2. Held' = Held \ {new}
      BY <1>0, <1>h, <1>n, <1>r, <2>1, <3>1
    <3>3. AInv' /\ Cardinality(Lost) = 1 /\ Held' \cap Driven' = {}
      BY <1>0, <2>1, <3>1, <3>2, BalanceDrop
    <3>4. QED
      BY <1>z, <3>1, <3>3
  <2>3. ASSUME NEW q \in Seq(Entry), insertNew(q) PROVE Elems(queue)' = Elems(q) \cup {new}
    <3>1. PICK k \in PlaceOf(q, new) : queue' = InsertAt(q, k, new)
      BY <2>3 DEF insertNew
    <3>2. k \in 1 .. Len(q) + 1
      BY DEF PlaceOf, insertBefore
    <3>3. Elems(InsertAt(q, k, new)) = Elems(q) \cup {new}
      BY <1>0, <3>2, InsertExact
    <3>4. Elems(queue)' = Elems(InsertAt(q, k, new))
      BY <3>1 DEF Elems
    <3>5. QED
      BY <3>3, <3>4
  <2>4. ASSUME insertNew(queue), UNCHANGED rejected PROVE Done
    <3>1. Elems(queue)' = Elems(queue) \cup {new}
      BY <1>0, <2>3, <2>4
    <3>2. Held' = Held /\ NoFrame \notin Elems(queue)'
      BY <1>0, <1>h, <1>r, <2>1, <3>1
    <3>3. AInv' /\ Lost = {} /\ Held' \cap Driven' = {}
      BY <2>1, <2>4, <3>2, BalanceKeep
    <3>4. QED
      BY <1>z, <2>4, <3>3
  <2>5. ASSUME NEW k \in 1 .. Len(queue), registerRejectedFrame, insertNew(RemoveAt(queue, k))
        PROVE  Done
    <3>1. RemoveAt(queue, k) \in Seq(Entry) /\ Elems(RemoveAt(queue, k)) = Elems(queue) \ {queue[k]}
      BY <1>0, RemoveAtIs, RemoveExact
    <3>2. Elems(queue)' = (Elems(queue) \ {queue[k]}) \cup {new} /\ rejected' = rejected + 1
      BY <2>3, <2>5, <3>1 DEF registerRejectedFrame
    <3>3. /\ queue[k] \in Held /\ Held' = Held \ {queue[k]}
          /\ NoFrame \notin Elems(queue)'
      BY <1>0, <1>h, <1>n, <1>r, <2>1, <3>2
    <3>4. AInv' /\ Cardinality(Lost) = 1 /\ Held' \cap Driven' = {}
      BY <2>1, <3>2, <3>3, BalanceDrop
    <3>5. QED
      BY <1>z, <3>2, <3>4
  <2>6. QED
    BY <2>2, <2>4, <2>5
<1>4. CASE push
  <2>0. UNCHANGED <<driver, handed>> /\ new # NoFrame
    BY <1>4 DEF push, QInv
  <2>1. CASE Return /\ UNCHANGED queue /\ registerRejectedFrame
    BY <1>r, <2>0, <2>1
  <2>2. CASE Return /\ insertNew(queue) /\ UNCHANGED rejected
    BY <1>r, <2>0, <2>2
  <2>3. CASE UNCHANGED <<queue, new, rejected>>
    <3>1. Held' = Held /\ Driven' = Driven /\ Elems(queue)' = Elems(queue)
      BY <1>h, <2>0, <2>3 DEF Driven, Elems, driver
    <3>2. AInv' /\ Lost = {} /\ Held' \cap Driven' = {}
      BY <1>0, <2>0, <2>3, <3>1, BalanceKeep
    <3>3. QED
      BY <1>z, <2>3, <3>2
  <2>4. QED
    BY <1>4, <2>1, <2>2, <2>3 DEF push
<1>5. CASE cleanupExpired
  <2>1. PICK k \in 1 .. Len(queue) : queue' = RemoveAt(queue, k)
    BY <1>5 DEF cleanupExpired, removeEntry, Expired
  <2>2. UNCHANGED <<new, ring, boxes, handed>> /\ rejected' = rejected + 1
    BY <1>5 DEF cleanupExpired, registerRejectedFrame, thread, driver
  <2>3. Elems(queue)' = Elems(queue) \ {queue[k]}
    <3>1. Elems(queue)' = Elems(RemoveAt(queue, k))
      BY <2>1 DEF Elems
    <3>2. QED
      BY <1>0, <3>1, RemoveExact
  <2>4. queue[k] \in Held /\ Held' = Held \ {queue[k]}
    BY <1>0, <1>h, <1>n, <2>2, <2>3
  <2>5. AInv' /\ Cardinality(Lost) = 1 /\ Held' \cap Driven' = {}
    BY <1>0, <2>2, <2>3, <2>4, BalanceDrop
  <2>6. QED
    BY <1>z, <2>2, <2>5
<1>6. CASE arbitrate
  <2>0. UNCHANGED <<driver, handed>> /\ new # NoFrame /\ Return
    BY <1>6 DEF arbitrate, QInv
  <2>1. \/ insertNew(queue) /\ UNCHANGED rejected
        \/ registerRejectedFrame /\ UNCHANGED queue
        \/ \E k \in LowestQos(queue) : registerRejectedFrame /\ insertNew(RemoveAt(queue, k))
    BY <1>6 DEF arbitrate
  <2>2. LowestQos(queue) \subseteq 1 .. Len(queue)
    BY DEF LowestQos
  <2>3. QED
    BY <1>r, <2>0, <2>1, <2>2
<1>7. CASE send
  <2>1. new = NoFrame /\ UNCHANGED <<queue, ring, boxes, rejected>> /\ handed' = handed + 1
    BY <1>7 DEF QInv, send, Idle, Outside, memory, driver
  <2>2. new'.n = handed + 1 /\ Elems(queue)' = Elems(queue) /\ Driven' = Driven
    BY <1>7, <2>1 DEF send, Elems, Driven
  <2>3. \A f \in Held \cup Driven : f.n < handed + 1 /\ f.n \in Nat
    BY EntryIs DEF QInv, AInv, Held
  <2>4. handed \in Nat
    BY DEF QInv
  <2>5. new' \notin Held \cup Driven /\ new' # NoFrame
    BY <2>2, <2>3, <2>4 DEF NoFrame
  <2>6. Held' = Held \cup {new'}
    BY <1>0, <1>h, <2>1, <2>2, <2>5
  <2>7. Moves({}, {}, {new'})
    BY <1>z, <1>0, <2>1, <2>2, <2>5, <2>6 DEF Moves
  <2>8. AInv' /\ Lost = {} /\ Held' \cap Driven' = {}
    BY <1>0, <1>z, <2>1, <2>2, <2>7, Balance
  <2>9. QED
    BY <1>z, <2>1, <2>8
<1>8. CASE spinOnce \/ receive \/ read \/ handled \/ pollTimer \/ polled \/ Others
           \/ (\E t \in Timers : startPeriodic(t)) \/ TxDone \/ message_isr
           \/ RxArrive \/ Tick \/ UNCHANGED vars
  <2>1. UNCHANGED <<queue, new, rejected, handed>>
    BY <1>8 DEF spinOnce, receive, read, handled, pollTimer, polled, Others, startPeriodic,
       TxDone, message_isr, RxArrive, Tick, vars, thread, memory
  <2>2. Driven' \subseteq Driven
    <3>1. CASE UNCHANGED <<ring, boxes>>
      BY <3>1 DEF Driven
    <3>2. CASE TxDone
      BY <3>2 DEF TxDone, Driven
    <3>3. CASE message_isr
      BY <3>3, IsrExact DEF RingInv
    <3>4. CASE spinOnce \/ receive \/ read \/ handled \/ pollTimer \/ polled \/ Others
               \/ (\E t \in Timers : startPeriodic(t)) \/ RxArrive \/ Tick \/ UNCHANGED vars
      BY <3>1, <3>4 DEF spinOnce, receive, read, handled, pollTimer, polled, Others,
         startPeriodic, RxArrive, Tick, vars, driver
    <3>5. QED
      BY <1>8, <3>2, <3>3, <3>4
  <2>3. Held' = Held /\ Elems(queue)' = Elems(queue)
    BY <1>h, <2>1 DEF Elems
  <2>4. AInv' /\ Lost = {} /\ Held' \cap Driven' = {}
    BY <1>0, <2>1, <2>2, <2>3, BalanceKeep
  <2>5. QED
    BY <1>z, <2>1, <2>4
<1>9. QED
  BY <1>1, <1>2, <1>3, <1>4, <1>5, <1>6, <1>7, <1>8 DEF Next, Thread

\* Each frame that send() took is held, with the driver or behind it, or counted
\* as rejected (CanTxQueue::registerRejectedFrame()), and never sent twice.
THEOREM FramesAccounted == Spec => Accounted
<1>1. Init => RingInv
  BY DEF Init, RingInv
<1>2. Init => AInv
  BY DEF Init, AInv, Held, Driven, Elems, NoFrame
<1>3. QInv /\ RingInv /\ AInv /\ [Next]_vars =>
        AInv' /\ [Held' \cap Driven' = {} /\ rejected' - rejected = Cardinality(Lost)]_vars
  BY AccountStep
<1>4. QED
  BY <1>1, <1>2, <1>3, QInvInit, QInvStep, RingInvStep, PTL DEF Spec, Accounted

-----------------------------------------------------------------------------
(* Types and limits: the quota is kept whatever is counted against it, the  *)
(* pool is not overdrawn, and the driver holds what it has room for.        *)

Places == {"app", "handle", "timer", "peek", "head", "offer", "push",
           "cleanup", "select", "read", "poll"}

ThreadInv ==
  /\ pc \in Places /\ caller \in {"app", "handle", "timer"}
  /\ new \in Frame \cup {NoFrame} /\ stamp \in 0 .. MaxTime
  /\ readable \in BOOLEAN /\ now \in 0 .. MaxTime /\ handed \in 0 .. MaxFrames
  /\ rx \in 0 .. MaxRx /\ (readable => rx > 0)

\* used_blocks is at least the length of the queue, and may be more.
MemoryInv ==
  /\ queue \in Seq(Frame) /\ rejected \in Nat
  /\ used_blocks \in Nat /\ Len(queue) <= used_blocks /\ used_blocks <= Quota
  /\ others \in 0 .. PoolSize /\ Free >= 0

DriverInv ==
  /\ ring \in Seq(Frame) /\ Len(ring) <= RingCapacity
  /\ boxes \subseteq Frame /\ IsFiniteSet(boxes) /\ Cardinality(boxes) <= TxBoxes

LEMMA ThreadStep == ThreadInv /\ [Next]_vars => ThreadInv'
<1> SUFFICES ASSUME ThreadInv, [Next]_vars PROVE ThreadInv'
  OBVIOUS
<1> USE CanNodeAssumption
<1>f. Frame' = Frame /\ NoFrame' = NoFrame
  BY DEF Frame, NoFrame
<1>1. CASE send
  <2>1. PICK kind \in Kinds :
          new' = [n |-> handed + 1, prio |-> kind.prio, qos |-> kind.qos,
                  deadline |-> now + kind.life]
    BY <1>1 DEF send
  <2>2. kind.qos \in {Volatile, Persistent} /\ kind.life \in Nat
    BY DEF CanNodeAssumption
  <2>3. handed + 1 \in 1 .. MaxFrames /\ now + kind.life \in Nat
        /\ kind.prio \in {k.prio : k \in Kinds}
    BY <1>1, <2>2 DEF ThreadInv, send, CanNodeAssumption
  <2>4. new' \in Frame
    BY <2>1, <2>2, <2>3 DEF Frame
  <2>5. handed' \in 0 .. MaxFrames
    BY <1>1, <2>3 DEF send, ThreadInv, CanNodeAssumption
  <2>6. pc' \in Places /\ caller' \in {"app", "handle", "timer"}
    BY <1>1 DEF send, Idle, Places
  <2>7. UNCHANGED <<stamp, readable, now, rx>>
    BY <1>1 DEF send
  <2>8. QED
    BY <1>f, <2>4, <2>5, <2>6, <2>7 DEF ThreadInv
<1>r. ASSUME Return PROVE /\ pc' \in Places /\ caller' \in {"app", "handle", "timer"}
                         /\ new' = NoFrame /\ stamp' \in 0 .. MaxTime
  BY <1>r DEF Return, ThreadInv, Places, CanNodeAssumption
<1>2. CASE peek \/ sendFromTxQueue
  <2>1. pc' \in Places
    BY <1>2 DEF peek, sendFromTxQueue, NotSent, Places
  <2>2. UNCHANGED <<caller, new, stamp, readable, now, handed, rx>>
    BY <1>2 DEF peek, sendFromTxQueue
  <2>3. QED
    BY <1>f, <2>1, <2>2 DEF ThreadInv
<1>3. CASE sendToIface \/ push \/ arbitrate
  <2>1. \/ Return
        \/ UNCHANGED <<caller, new>> /\ pc' \in {"push", "cleanup"} /\ stamp' \in {stamp, now}
    BY <1>3 DEF sendToIface, push, arbitrate
  <2>2. UNCHANGED <<readable, now, handed, rx>>
    BY <1>3 DEF sendToIface, push, arbitrate
  <2>3. CASE Return
    BY <1>f, <1>r, <2>2, <2>3 DEF ThreadInv
  <2>4. CASE UNCHANGED <<caller, new>> /\ pc' \in {"push", "cleanup"} /\ stamp' \in {stamp, now}
    BY <1>f, <2>2, <2>4 DEF ThreadInv, Places
  <2>5. QED
    BY <2>1, <2>3, <2>4
<1>4. CASE spinOnce \/ receive \/ handled \/ pollTimer \/ polled
  <2>1. pc' \in Places
    BY <1>4 DEF spinOnce, receive, handled, pollTimer, polled, Places
  <2>2. UNCHANGED <<caller, new, stamp, now, handed, rx>>
    BY <1>4 DEF spinOnce, receive, handled, pollTimer, polled
  <2>3. UNCHANGED readable \/ readable' = (rx > 0)
    BY <1>4 DEF spinOnce, receive, handled, pollTimer, polled
  <2>4. readable' \in BOOLEAN /\ (readable' => rx' > 0)
    <3>1. CASE UNCHANGED readable
      BY <2>2, <3>1 DEF ThreadInv
    <3>2. CASE readable' = (rx > 0)
      <4>1. (rx > 0) \in BOOLEAN
        OBVIOUS
      <4>2. readable' \in BOOLEAN
        BY <3>2, <4>1
      <4>3. rx' = rx
        BY <2>2
      <4>4. readable' => rx > 0
        BY <3>2
      <4>5. QED
        BY <4>2, <4>3, <4>4
    <3>3. QED
      BY <2>3, <3>1, <3>2
  <2>5. QED
    BY <1>f, <2>1, <2>2, <2>4 DEF ThreadInv
<1>5. CASE read
  <2>1. pc' \in Places /\ readable' = FALSE /\ UNCHANGED <<caller, new, stamp, now, handed>>
    BY <1>5 DEF read, Places
  <2>2. rx' \in 0 .. MaxRx
    BY <1>5 DEF read, ThreadInv, CanNodeAssumption
  <2>3. QED
    BY <1>f, <2>1, <2>2 DEF ThreadInv
<1>6. CASE RxArrive \/ Tick
  <2>1. UNCHANGED <<pc, caller, new, stamp, readable, handed>>
    BY <1>6 DEF RxArrive, Tick, thread
  <2>2. /\ rx' \in 0 .. MaxRx /\ (readable => rx' > 0)
        /\ now' \in 0 .. MaxTime
    BY <1>6 DEF RxArrive, Tick, ThreadInv, CanNodeAssumption
  <2>3. QED
    BY <1>f, <2>1, <2>2 DEF ThreadInv
<1>7. CASE cleanupExpired \/ Others \/ (\E t \in Timers : startPeriodic(t)) \/ TxDone
           \/ message_isr \/ UNCHANGED vars
  <2>1. UNCHANGED <<pc, caller, new, stamp, readable, now, handed, rx>>
    BY <1>7 DEF cleanupExpired, Others, startPeriodic, TxDone, message_isr, vars, thread
  <2>2. QED
    BY <1>f, <2>1 DEF ThreadInv
<1>8. QED
  BY <1>1, <1>2, <1>3, <1>4, <1>5, <1>6, <1>7 DEF Next, Thread

\* insertNew() makes the queue longer by one.
LEMMA InsertNewIs ==
  ASSUME new \in Frame, NEW q \in Seq(Frame), insertNew(q)
  PROVE  queue' \in Seq(Frame) /\ Len(queue') = Len(q) + 1
<1>1. PICK k \in PlaceOf(q, new) : queue' = InsertAt(q, k, new)
  BY DEF insertNew
<1>2. k \in 1 .. Len(q) + 1
  BY DEF PlaceOf, insertBefore
<1>3. InsertAt(q, k, new) \in Seq(Frame) /\ Len(InsertAt(q, k, new)) = Len(q) + 1
  BY <1>2, InsertAtIs
<1>4. QED
  BY <1>1, <1>3

LEMMA MemoryStep == QInv /\ ThreadInv /\ MemoryInv /\ [Next]_vars => MemoryInv'
<1> SUFFICES ASSUME QInv, ThreadInv, MemoryInv, [Next]_vars PROVE MemoryInv'
  OBVIOUS
<1> USE CanNodeAssumption
<1>f. Frame' = Frame
  BY DEF Frame
<1>0. /\ queue \in Seq(Frame) /\ Len(queue) \in Nat /\ rejected \in Nat
      /\ used_blocks \in Nat /\ Len(queue) <= used_blocks /\ used_blocks <= Quota
      /\ others \in 0 .. PoolSize /\ PoolSize - others - Len(queue) >= 0
      /\ Quota \in Nat /\ PoolSize \in Nat
  BY DEF MemoryInv, Free, CanNodeAssumption
\* What is to be shown, with the length of the queue.
<1>q. ASSUME queue' \in Seq(Frame), rejected' \in Nat, used_blocks' \in Nat,
             Len(queue') <= used_blocks', used_blocks' <= Quota,
             others' \in 0 .. PoolSize, PoolSize - others' - Len(queue') >= 0
      PROVE  MemoryInv'
  BY <1>q, <1>f DEF MemoryInv, Free
<1>c. Counted \in Nat /\ used_blocks <= Counted /\ Counted <= Quota
  BY <1>0 DEF Counted, InQuota
<1>g. Granted => Counted = used_blocks + 1 /\ PoolSize - others - (Len(queue) + 1) >= 0
  BY <1>0 DEF Granted, Counted, Free
<1>n. pc \in {"push", "cleanup"} => new \in Frame
  BY DEF ThreadInv, QInv
<1>1. CASE peek
  <2>1. PICK k \in 0 .. Len(queue) :
          /\ queue' = SubSeq(queue, k + 1, Len(queue))
          /\ used_blocks' = used_blocks - k /\ rejected' = rejected + k
    BY <1>1 DEF peek
  <2>2. queue' \in Seq(Frame) /\ Len(queue') = Len(queue) - k
    BY <1>0, <2>1, SuffixIs
  <2>3. UNCHANGED others
    BY <1>1 DEF peek
  <2>4. QED
    BY <1>0, <1>q, <2>1, <2>2, <2>3
<1>d. ASSUME NEW k \in 1 .. Len(queue), removeEntry(k), rejected' \in Nat, UNCHANGED others
      PROVE  MemoryInv'
  <2>1. queue' = RemoveAt(queue, k) /\ used_blocks' = used_blocks - 1
    BY <1>d DEF removeEntry
  <2>2. queue' \in Seq(Frame) /\ Len(queue') = Len(queue) - 1
    BY <1>0, <2>1, RemoveAtIs
  <2>3. QED
    BY <1>0, <1>d, <1>q, <2>1, <2>2
<1>k. ASSUME UNCHANGED queue, used_blocks' \in {used_blocks, Counted}, rejected' \in Nat,
             UNCHANGED others
      PROVE  MemoryInv'
  BY <1>0, <1>c, <1>k, <1>q
<1>i. ASSUME Granted, insertNew(queue), new \in Frame, used_blocks' = Counted, rejected' \in Nat,
             UNCHANGED others
      PROVE  MemoryInv'
  <2>1. queue' \in Seq(Frame) /\ Len(queue') = Len(queue) + 1
    BY <1>0, <1>i, InsertNewIs
  <2>2. QED
    BY <1>0, <1>c, <1>g, <1>i, <1>q, <2>1
<1>2. CASE sendFromTxQueue
  <2>1. UNCHANGED <<rejected, others>>
    BY <1>2 DEF sendFromTxQueue
  <2>2. CASE removeEntry(1)
    <3>1. 1 \in 1 .. Len(queue)
      BY <1>0, <1>2 DEF QInv, sendFromTxQueue
    <3>2. QED
      BY <1>0, <1>d, <2>1, <2>2, <3>1
  <2>3. CASE UNCHANGED <<queue, used_blocks>>
    BY <1>0, <1>k, <2>1, <2>3
  <2>4. QED
    BY <1>2, <2>2, <2>3 DEF sendFromTxQueue
<1>3. CASE push
  <2>1. new \in Frame /\ UNCHANGED others
    BY <1>3, <1>n DEF push
  <2>2. rejected' \in Nat
    BY <1>0, <1>3 DEF push, registerRejectedFrame
  <2>3. \/ UNCHANGED queue /\ used_blocks' \in {used_blocks, Counted}
        \/ Granted /\ insertNew(queue) /\ used_blocks' = Counted
    BY <1>3 DEF push
  <2>4. QED
    BY <1>i, <1>k, <2>1, <2>2, <2>3
<1>4. CASE cleanupExpired
  <2>1. PICK k \in Expired : removeEntry(k)
    BY <1>4 DEF cleanupExpired
  <2>2. k \in 1 .. Len(queue) /\ rejected' \in Nat /\ UNCHANGED others
    BY <1>0, <1>4, <2>1 DEF cleanupExpired, Expired, registerRejectedFrame
  <2>3. QED
    BY <1>d, <2>1, <2>2
<1>5. CASE arbitrate
  <2>1. new \in Frame /\ UNCHANGED others /\ used_blocks' = Counted
    BY <1>5, <1>n DEF arbitrate
  <2>2. rejected' \in Nat
    BY <1>0, <1>5 DEF arbitrate, registerRejectedFrame
  <2>3. \/ Granted /\ insertNew(queue)
        \/ UNCHANGED queue
        \/ \E k \in LowestQos(queue) : insertNew(RemoveAt(queue, k))
    BY <1>5 DEF arbitrate
  <2>4. ASSUME NEW k \in LowestQos(queue), insertNew(RemoveAt(queue, k)) PROVE MemoryInv'
    <3>1. k \in 1 .. Len(queue)
      BY DEF LowestQos
    <3>2. RemoveAt(queue, k) \in Seq(Frame) /\ Len(RemoveAt(queue, k)) = Len(queue) - 1
      BY <1>0, <3>1, RemoveAtIs
    <3>3. queue' \in Seq(Frame) /\ Len(queue') = (Len(queue) - 1) + 1
      BY <2>1, <2>4, <3>2, InsertNewIs
    <3>4. QED
      BY <1>0, <1>c, <1>q, <2>1, <2>2, <3>3
  <2>5. QED
    BY <1>i, <1>k, <2>1, <2>2, <2>3, <2>4
<1>6. CASE Others
  <2>1. UNCHANGED <<queue, rejected, used_blocks>>
    BY <1>6 DEF Others, memory
  <2>2. others' \in 0 .. PoolSize /\ PoolSize - others' - Len(queue) >= 0
    BY <1>0, <1>6 DEF Others
  <2>3. QED
    BY <1>0, <1>q, <2>1, <2>2
<1>7. CASE send \/ sendToIface \/ spinOnce \/ receive \/ read \/ handled \/ pollTimer \/ polled
           \/ (\E t \in Timers : startPeriodic(t)) \/ TxDone \/ message_isr
           \/ RxArrive \/ Tick \/ UNCHANGED vars
  <2>1. UNCHANGED <<queue, rejected, used_blocks, others>>
    BY <1>7 DEF send, sendToIface, spinOnce, receive, read, handled, pollTimer, polled,
       startPeriodic, TxDone, message_isr, RxArrive, Tick, vars, memory
  <2>2. QED
    BY <1>0, <1>k, <2>1
<1>8. QED
  BY <1>1, <1>2, <1>3, <1>4, <1>5, <1>6, <1>7 DEF Next, Thread

LEMMA DriverStep == QInv /\ ThreadInv /\ MemoryInv /\ DriverInv /\ [Next]_vars => DriverInv'
<1> SUFFICES ASSUME QInv, ThreadInv, MemoryInv, DriverInv, [Next]_vars PROVE DriverInv'
  OBVIOUS
<1> USE CanNodeAssumption
<1>f. Frame' = Frame
  BY DEF Frame
<1>0. /\ ring \in Seq(Frame) /\ Len(ring) \in Nat /\ Len(ring) <= RingCapacity /\ RingCapacity \in Nat
      /\ boxes \subseteq Frame /\ IsFiniteSet(boxes) /\ Cardinality(boxes) <= TxBoxes
      /\ Cardinality(boxes) \in Nat /\ TxBoxes \in Nat
  BY FS_CardinalityType DEF DriverInv, CanNodeAssumption
<1>b. ASSUME NEW f \in Frame, Cardinality(boxes) < TxBoxes, boxes' = boxes \cup {f}
      PROVE  boxes' \subseteq Frame /\ IsFiniteSet(boxes') /\ Cardinality(boxes') <= TxBoxes
  <2>1. /\ IsFiniteSet(boxes \cup {f})
        /\ Cardinality(boxes \cup {f}) = IF f \in boxes THEN Cardinality(boxes)
                                                        ELSE Cardinality(boxes) + 1
    BY <1>0, FS_AddElement
  <2>2. QED
    BY <1>0, <1>b, <2>1
<1>s. ASSUME NEW f \in Frame, ifaceSend(f) PROVE DriverInv'
  <2>1. CASE Direct
    BY <1>0, <1>b, <1>f, <1>s, <2>1 DEF ifaceSend, Direct, DriverInv
  <2>2. CASE ~Direct
    <3>1. ring' = Append(ring, f) /\ UNCHANGED boxes /\ Len(ring) # RingCapacity
      BY <1>s, <2>2 DEF ifaceSend, Refused
    <3>2. ring' \in Seq(Frame) /\ Len(ring') = Len(ring) + 1
      BY <1>0, <3>1
    <3>3. Len(ring') <= RingCapacity
      BY <1>0, <3>1, <3>2
    <3>4. QED
      BY <1>0, <1>f, <3>1, <3>2, <3>3 DEF DriverInv
  <2>3. QED
    BY <2>1, <2>2
<1>1. CASE sendFromTxQueue
  <2>1. queue[1] \in Frame
    BY <1>1 DEF QInv, sendFromTxQueue, MemoryInv
  <2>2. QED
    BY <1>0, <1>1, <1>f, <1>s, <2>1 DEF sendFromTxQueue, driver, DriverInv
<1>2. CASE sendToIface
  <2>1. new \in Frame
    BY <1>2 DEF sendToIface, QInv, ThreadInv
  <2>2. QED
    BY <1>0, <1>2, <1>f, <1>s, <2>1 DEF sendToIface, driver, DriverInv
<1>3. CASE message_isr
  <2>1. /\ ring # <<>> /\ Cardinality(boxes) < TxBoxes
        /\ boxes' = boxes \cup {ring[1]} /\ ring' = Tail(ring)
    BY <1>3 DEF message_isr
  <2>2. ring[1] \in Frame /\ ring' \in Seq(Frame) /\ Len(ring') = Len(ring) - 1
    BY <1>0, <2>1
  <2>3. boxes' \subseteq Frame /\ IsFiniteSet(boxes') /\ Cardinality(boxes') <= TxBoxes
    BY <1>b, <2>1, <2>2
  <2>4. QED
    BY <1>0, <1>f, <2>2, <2>3 DEF DriverInv
<1>4. CASE TxDone
  <2>1. PICK f \in boxes : boxes' = boxes \ {f}
    BY <1>4 DEF TxDone
  <2>2. /\ IsFiniteSet(boxes \ {f})
        /\ Cardinality(boxes \ {f}) = IF f \in boxes THEN Cardinality(boxes) - 1
                                                     ELSE Cardinality(boxes)
    BY <1>0, FS_RemoveElement
  <2>3. UNCHANGED ring
    BY <1>4 DEF TxDone
  <2>4. QED
    BY <1>0, <1>f, <2>1, <2>2, <2>3 DEF DriverInv
<1>5. CASE send \/ Others \/ peek \/ push \/ cleanupExpired \/ arbitrate \/ spinOnce
           \/ receive \/ read \/ handled \/ pollTimer \/ polled
           \/ (\E t \in Timers : startPeriodic(t)) \/ RxArrive \/ Tick \/ UNCHANGED vars
  <2>1. UNCHANGED <<ring, boxes>>
    BY <1>5 DEF send, Others, peek, push, cleanupExpired, arbitrate, spinOnce, receive, read,
       handled, pollTimer, polled, startPeriodic, RxArrive, Tick, vars, driver
  <2>2. QED
    BY <1>0, <1>f, <2>1 DEF DriverInv
<1>6. QED
  BY <1>1, <1>2, <1>3, <1>4, <1>5 DEF Next, Thread

\* The queue keeps its quota and the pool its blocks, although a refused
\* allocation is counted (LimitedPoolAllocator::allocate()), and the driver's
\* ring and mailboxes hold no more than they have room for (FlexCAN::write()).
THEOREM TypeCorrect == Spec => []TypeOK
<1>1. Init => ThreadInv /\ MemoryInv /\ DriverInv
  <2>1. SUFFICES ASSUME Init PROVE ThreadInv /\ MemoryInv /\ DriverInv
    OBVIOUS
  <2>2. IsFiniteSet({}) /\ Cardinality({}) = 0
    BY FS_EmptySet
  <2>3. /\ <<>> \in Seq(Frame) /\ Len(<<>>) = 0
        /\ Quota \in Nat /\ PoolSize \in Nat /\ RingCapacity \in Nat /\ TxBoxes \in Nat
        /\ MaxTime \in Nat /\ MaxFrames \in Nat /\ MaxRx \in Nat
    BY CanNodeAssumption DEF CanNodeAssumption
  <2>4. ThreadInv
    <3>1. pc \in Places /\ caller \in {"app", "handle", "timer"}
      BY <2>1 DEF Init, Places
    <3>2. new \in Frame \cup {NoFrame}
      BY <2>1 DEF Init
    <3>3. stamp \in 0 .. MaxTime /\ now \in 0 .. MaxTime /\ handed \in 0 .. MaxFrames
      BY <2>1, <2>3 DEF Init
    <3>4. rx \in 0 .. MaxRx
      BY <2>1, <2>3 DEF Init
    <3>5. readable \in BOOLEAN /\ (readable => rx > 0)
      BY <2>1 DEF Init
    <3>6. QED
      BY <3>1, <3>2, <3>3, <3>4, <3>5 DEF ThreadInv
  <2>5. MemoryInv
    <3>1. Free = PoolSize
      BY <2>1, <2>3 DEF Init, Free
    <3>2. QED
      BY <2>1, <2>3, <3>1 DEF Init, MemoryInv
  <2>6. DriverInv
    <3>1. /\ ring = <<>> /\ boxes = {}
      BY <2>1 DEF Init
    <3>2. QED
      BY <2>2, <2>3, <3>1 DEF DriverInv
  <2>7. QED
    BY <2>4, <2>5, <2>6
<1>2. ThreadInv /\ MemoryInv /\ DriverInv => TypeOK
  BY DEF ThreadInv, MemoryInv, DriverInv, Places, TypeOK
<1>3. QED
  BY <1>1, <1>2, QInvInit, QInvStep, ThreadStep, MemoryStep, DriverStep, PTL DEF Spec

-----------------------------------------------------------------------------
(* Timers.                                                                  *)

Timely(list) == \A i, j \in 1 .. Len(list) : i < j => list[i].deadline <= list[j].deadline

LEMMA HandlerIs ==
  ASSUME NEW h \in Handler
  PROVE  h.deadline \in Nat /\ h.timer \in Timers
BY DEF Handler

LEMMA InsertTimely ==
  ASSUME NEW list \in Seq(Handler), NEW h \in Handler, Timely(list), addTimer(list, h)
  PROVE  handlers' \in Seq(Handler) /\ Timely(handlers')
<1>1. PICK k \in 1 .. Len(list) + 1 :
        /\ \A i \in 1 .. k - 1 : ~(list[i].deadline > h.deadline)
        /\ k <= Len(list) => list[k].deadline > h.deadline
        /\ handlers' = InsertAt(list, k, h)
  BY DEF addTimer, insertBefore
<1>2. \A i \in 1 .. Len(list) : list[i].deadline \in Nat
  BY HandlerIs
<1>3. h.deadline \in Nat
  BY HandlerIs
<1>4. /\ handlers' \in Seq(Handler)
      /\ Len(handlers') = Len(list) + 1
      /\ \A i \in 1 .. Len(list) + 1 :
           handlers'[i] = IF i < k THEN list[i] ELSE IF i = k THEN h ELSE list[i - 1]
  <2>1. /\ InsertAt(list, k, h) \in Seq(Handler)
        /\ Len(InsertAt(list, k, h)) = Len(list) + 1
        /\ \A i \in 1 .. Len(list) + 1 :
             InsertAt(list, k, h)[i] =
               IF i < k THEN list[i] ELSE IF i = k THEN h ELSE list[i - 1]
    BY InsertAtIs
  <2>2. QED
    BY <1>1, <2>1, Zenon
<1>5. \A i \in 1 .. Len(list) : i >= k => h.deadline <= list[i].deadline
  BY <1>1, <1>2, <1>3 DEF Timely
<1>6. ASSUME NEW i \in 1 .. Len(handlers'), NEW j \in 1 .. Len(handlers'), i < j
      PROVE  handlers'[i].deadline <= handlers'[j].deadline
  <2>1. CASE j < k
    BY <1>1, <1>4, <1>6, <2>1 DEF Timely
  <2>2. CASE j = k
    <3>1. handlers'[i] = list[i] /\ handlers'[j] = h /\ i \in 1 .. k - 1 /\ i \in 1 .. Len(list)
      BY <1>1, <1>4, <1>6, <2>2
    <3>2. QED
      BY <3>1, <1>1, <1>2, <1>3
  <2>3. CASE j > k /\ i < k
    <3>1. handlers'[i] = list[i] /\ handlers'[j] = list[j - 1] /\ i \in 1 .. Len(list)
          /\ j - 1 \in 1 .. Len(list) /\ i <= j - 1
      BY <1>1, <1>4, <1>6, <2>3
    <3>2. QED
      BY <3>1, <1>2 DEF Timely
  <2>4. CASE j > k /\ i = k
    <3>1. handlers'[i] = h /\ handlers'[j] = list[j - 1]
          /\ j - 1 \in 1 .. Len(list) /\ j - 1 >= k
      BY <1>1, <1>4, <1>6, <2>4
    <3>2. QED
      BY <3>1, <1>5
  <2>5. CASE j > k /\ i > k
    <3>1. handlers'[i] = list[i - 1] /\ handlers'[j] = list[j - 1] /\ i - 1 \in 1 .. Len(list)
          /\ j - 1 \in 1 .. Len(list) /\ i - 1 < j - 1
      BY <1>1, <1>4, <1>6, <2>5
    <3>2. QED
      BY <3>1 DEF Timely
  <2>6. QED
    BY <1>1, <1>6, <2>1, <2>2, <2>3, <2>4, <2>5
<1>7. QED
  BY <1>4, <1>6 DEF Timely

TInv == handlers \in Seq(Handler) /\ Timely(handlers) /\ now \in Nat

LEMMA TInvStep == TInv /\ [Next]_vars => TInv'
<1> SUFFICES ASSUME TInv, [Next]_vars PROVE TInv'
  OBVIOUS
<1>0. handlers \in Seq(Handler) /\ now \in Nat /\ Period \in [Timers -> Nat \ {0}]
  BY CanNodeAssumption DEF TInv
<1>1. ASSUME NEW t \in Timers, startPeriodic(t) PROVE TInv'
  <2>1. [timer |-> t, deadline |-> now + Period[t]] \in Handler
    BY <1>0 DEF Handler
  <2>2. QED
    BY <1>0, <1>1, <2>1, InsertTimely DEF startPeriodic, TInv, Timely
<1>2. CASE pollTimer
  <2> DEFINE h == [handlers[1] EXCEPT !.deadline = @ + Period[handlers[1].timer]]
  <2>1. handlers # <<>> /\ addTimer(Tail(handlers), h) /\ UNCHANGED now
    BY <1>2 DEF pollTimer, Due
  <2>2. handlers[1] \in Handler
    BY <1>0, <2>1
  <2>3. h \in Handler
    BY <1>0, <2>2 DEF Handler
  <2>4. Tail(handlers) \in Seq(Handler) /\ Timely(Tail(handlers))
    <3>1. /\ Tail(handlers) \in Seq(Handler) /\ Len(Tail(handlers)) = Len(handlers) - 1
          /\ \A i \in 1 .. Len(handlers) - 1 : Tail(handlers)[i] = handlers[i + 1]
      BY <1>0, <2>1
    <3>2. QED
      BY <1>0, <3>1 DEF TInv, Timely
  <2> HIDE DEF h
  <2>5. QED
    BY <2>1, <2>3, <2>4, InsertTimely DEF TInv, Timely
<1>3. CASE Tick
  <2>1. UNCHANGED handlers /\ now' = now + 1
    BY <1>3 DEF Tick
  <2>2. QED
    BY <2>1 DEF TInv, Timely
<1>4. CASE send \/ Others \/ peek \/ sendFromTxQueue \/ sendToIface \/ push
           \/ cleanupExpired \/ arbitrate \/ spinOnce \/ receive \/ read \/ handled
           \/ polled \/ TxDone \/ message_isr \/ RxArrive \/ UNCHANGED vars
  <2>1. UNCHANGED <<handlers, now>>
    BY <1>4 DEF send, Others, peek, sendFromTxQueue, sendToIface, push, cleanupExpired,
       arbitrate, spinOnce, receive, read, handled, polled, TxDone, message_isr, RxArrive, vars
  <2>2. QED
    BY <2>1 DEF TInv, Timely
<1>5. QED
  BY <1>1, <1>2, <1>3, <1>4 DEF Next, Thread

\* The timer whose event is due is the earliest
\* (DeadlineScheduler::pollAndGetMonotonicTime()).
THEOREM EarliestTimer == Spec => EarliestFirst
<1>1. Init => TInv
  BY DEF Init, TInv, Timely
<1>2. TInv /\ pollTimer =>
        \A i \in 1 .. Len(handlers) : handlers[1].deadline <= handlers[i].deadline
  <2>1. SUFFICES ASSUME TInv, NEW i \in 1 .. Len(handlers)
                 PROVE  handlers[1].deadline <= handlers[i].deadline
    OBVIOUS
  <2>2. handlers[1].deadline \in Nat
    BY <2>1, HandlerIs DEF TInv
  <2>3. QED
    BY <2>1, <2>2 DEF TInv, Timely
<1>3. TInv /\ [Next]_vars =>
        [pollTimer => \A i \in 1 .. Len(handlers) : handlers[1].deadline <= handlers[i].deadline]_vars
  BY <1>2
<1>4. QED
  BY <1>1, <1>3, TInvStep, PTL DEF Spec, EarliestFirst
=============================================================================
