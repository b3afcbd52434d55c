--------------------------- MODULE CanRing_proofs ---------------------------
(***************************************************************************)
(* The ring buffer of the FlexCAN driver is a first-in first-out queue of  *)
(* size - 1 places, for every size and every index position.               *)
(***************************************************************************)
EXTENDS CanRing, SequenceTheorems, TLAPS

(* The only arithmetic of the indices: a sum of two of them wraps once.     *)
LEMMA Wrap ==
  ASSUME NEW size \in Nat \ {0}, NEW x \in 0 .. 2 * size - 1
  PROVE  x % size = IF x < size THEN x ELSE x - size
<1>1. CASE x < size
  BY <1>1
<1>2. CASE x >= size
  BY <1>2
<1>3. QED
  BY <1>1, <1>2

LEMMA After ==
  ASSUME NEW size \in Nat \ {0}, NEW Msg, NEW ring \in Rings(size, Msg),
         NEW x \in 0 .. size - 1
  PROVE  /\ after(ring, x) \in 0 .. size - 1
         /\ after(ring, x) = IF x + 1 = size THEN 0 ELSE x + 1
<1>1. ring.size = size
  BY DEF Rings
<1> DEFINE y == x + 1
<1>2. y \in 0 .. 2 * size - 1
  OBVIOUS
<1>3. y % size = IF y < size THEN y ELSE y - size
  <2> HIDE DEF y
  <2> QED BY <1>2, Wrap
<1>4. QED
  BY <1>1, <1>3 DEF after

\* What the record type says of the fields, and back.
LEMMA Fields ==
  ASSUME NEW size \in Nat \ {0}, NEW Msg, NEW ring \in Rings(size, Msg)
  PROVE  /\ ring.head \in 0 .. size - 1 /\ ring.tail \in 0 .. size - 1
         /\ ring.size = size
         /\ ring.buffer \in [0 .. size - 1 -> Msg]
BY DEF Rings

LEMMA AddType ==
  ASSUME NEW size \in Nat \ {0}, NEW Msg, NEW msg \in Msg,
         NEW ring \in Rings(size, Msg)
  PROVE  addToRingBuffer(ring, msg) \in Rings(size, Msg)
<1>1. after(ring, ring.head) \in 0 .. size - 1
  BY Fields, After
<1>2. [ring.buffer EXCEPT ![ring.head] = msg] \in [0 .. size - 1 -> Msg]
  BY Fields
<1>3. QED
  BY <1>1, <1>2, Fields DEF Rings, addToRingBuffer

LEMMA RemoveType ==
  ASSUME NEW size \in Nat \ {0}, NEW Msg, NEW ring \in Rings(size, Msg)
  PROVE  /\ removeFromRingBuffer(ring) \in Rings(size, Msg)
         /\ oldest(ring) \in Msg
<1>1. after(ring, ring.tail) \in 0 .. size - 1
  BY Fields, After
<1>2. QED
  BY <1>1, Fields DEF Rings, removeFromRingBuffer, oldest

LEMMA CountType ==
  ASSUME NEW size \in Nat \ {0}, NEW Msg, NEW ring \in Rings(size, Msg)
  PROVE  /\ ringBufferCount(ring) \in 0 .. size - 1
         /\ isRingBufferEmpty(ring) <=> ringBufferCount(ring) = 0
         /\ isRingBufferFull(ring) <=> ringBufferCount(ring) = size - 1
<1>1. after(ring, ring.head) = IF ring.head + 1 = size THEN 0 ELSE ring.head + 1
  BY Fields, After
<1>2. QED
  BY <1>1, Fields DEF ringBufferCount, isRingBufferEmpty, isRingBufferFull

\* The k-th entry is in slot k - 1 after the tail.
LEMMA Slot ==
  ASSUME NEW size \in Nat \ {0}, NEW Msg, NEW ring \in Rings(size, Msg),
         NEW k \in 1 .. size
  PROVE  /\ (ring.tail + k - 1) % ring.size \in 0 .. size - 1
         /\ (ring.tail + k - 1) % ring.size
              = IF ring.tail + k - 1 < size THEN ring.tail + k - 1
                ELSE ring.tail + k - 1 - size
<1>1. PICK y \in 0 .. 2 * size - 1 : y = ring.tail + k - 1
  BY Fields
<1>2. y % size = IF y < size THEN y ELSE y - size
  BY Wrap
<1>3. (ring.tail + k - 1) % ring.size = y % size
  BY <1>1, Fields, Zenon
<1>4. CASE y < size
  <2>1. (ring.tail + k - 1) % ring.size = y
    BY <1>2, <1>3, <1>4, Zenon
  <2>2. QED
    BY <1>1, <1>4, <2>1
<1>5. CASE ~(y < size)
  <2>1. (ring.tail + k - 1) % ring.size = y - size
    BY <1>2, <1>3, <1>5, Zenon
  <2>2. y - size \in 0 .. size - 1
    BY <1>5
  <2>3. ~(ring.tail + k - 1 < size)
    BY <1>1, <1>5, Zenon
  <2>4. ring.tail + k - 1 - size = y - size
    BY <1>1, Fields
  <2>5. QED
    BY <2>1, <2>2, <2>3, <2>4, Zenon
<1>6. QED
  BY <1>4, <1>5, Zenon

LEMMA EntriesType ==
  ASSUME NEW size \in Nat \ {0}, NEW Msg, NEW ring \in Rings(size, Msg)
  PROVE  /\ entries(ring) \in Seq(Msg)
         /\ Len(entries(ring)) = ringBufferCount(ring)
<1> DEFINE n == ringBufferCount(ring)
           slot(k) == (ring.tail + k - 1) % ring.size
<1>1. n \in Nat /\ n < size
  BY CountType
<1>2. \A k \in 1 .. n : ring.buffer[slot(k)] \in Msg
  BY CountType, Slot, Fields
<1>3. entries(ring) = [k \in 1 .. n |-> ring.buffer[slot(k)]]
  BY DEF entries
<1> HIDE DEF n, slot
<1>4. entries(ring) \in [1 .. n -> Msg]
  BY <1>2, <1>3
<1>5. entries(ring) \in Seq(Msg)
  BY <1>1, <1>4, SeqDef
<1>6. DOMAIN entries(ring) = 1 .. n
  BY <1>3
<1>7. Len(entries(ring)) = n
  BY <1>1, <1>5, <1>6, LenProperties
<1>8. QED
  BY <1>5, <1>7 DEF n

(* The ring after one more message: where the head is and how many there    *)
(* are.                                                                     *)
LEMMA AddCount ==
  ASSUME NEW size \in Nat \ {0}, NEW Msg, NEW msg \in Msg,
         NEW ring \in Rings(size, Msg), ~isRingBufferFull(ring)
  PROVE  /\ ringBufferCount(addToRingBuffer(ring, msg)) = ringBufferCount(ring) + 1
         /\ ringBufferCount(ring) + 1 \in 1 .. size - 1
<1> DEFINE h == after(ring, ring.head)
<1>1. /\ h = (IF ring.head + 1 = size THEN 0 ELSE ring.head + 1)
      /\ h # ring.tail
  BY Fields, After DEF isRingBufferFull
<1>2. ringBufferCount(addToRingBuffer(ring, msg))
        = IF h < ring.tail THEN h - ring.tail + ring.size ELSE h - ring.tail
  BY DEF ringBufferCount, addToRingBuffer
<1> HIDE DEF h
<1>3. ringBufferCount(ring)
        = IF ring.head < ring.tail
          THEN ring.head - ring.tail + size ELSE ring.head - ring.tail
  BY Fields DEF ringBufferCount
<1>4. ring.head \in 0 .. size - 1 /\ ring.tail \in 0 .. size - 1 /\ ring.size = size
  BY Fields
<1>5. QED
  BY <1>1, <1>2, <1>3, <1>4

LEMMA FirstFreeSlot ==
  ASSUME NEW size \in Nat \ {0},
         NEW h \in 0 .. size - 1, NEW t \in 0 .. size - 1,
         NEW c \in 0 .. size - 1, c # size - 1,
         c = IF h < t THEN h - t + size ELSE h - t,
         NEW k \in 1 .. c + 1
  PROVE  (IF t + k - 1 < size THEN t + k - 1 ELSE t + k - 1 - size) = h
           <=> k = c + 1
OBVIOUS

(* The head is the first slot after the entries.                            *)
LEMMA HeadSlot ==
  ASSUME NEW size \in Nat \ {0}, NEW Msg, NEW ring \in Rings(size, Msg),
         ~isRingBufferFull(ring), NEW k \in 1 .. ringBufferCount(ring) + 1
  PROVE  (ring.tail + k - 1) % ring.size = ring.head
           <=> k = ringBufferCount(ring) + 1
<1> DEFINE c == ringBufferCount(ring)
           slot == (ring.tail + k - 1) % ring.size
<1>1. c \in 0 .. size - 1 /\ c # size - 1
  BY CountType
<1>2. k \in 1 .. size
  BY <1>1
<1>3. slot = IF ring.tail + k - 1 < size THEN ring.tail + k - 1
             ELSE ring.tail + k - 1 - size
  BY <1>2, Slot
<1>4. c = IF ring.head < ring.tail
          THEN ring.head - ring.tail + size ELSE ring.head - ring.tail
  BY Fields DEF ringBufferCount
<1>5. ring.head \in 0 .. size - 1 /\ ring.tail \in 0 .. size - 1
  BY Fields
<1>6. k \in 1 .. c + 1
  OBVIOUS
<1> HIDE DEF c, slot
<1>7. slot = ring.head <=> k = c + 1
  BY <1>1, <1>3, <1>4, <1>5, <1>6, FirstFreeSlot
<1>8. QED
  BY <1>7 DEF c, slot

(* Adding to a ring that is not full appends to what it stands for.         *)
THEOREM AddAppends ==
  ASSUME NEW size \in Nat \ {0}, NEW Msg, NEW msg \in Msg,
         NEW ring \in Rings(size, Msg), ~isRingBufferFull(ring)
  PROVE  entries(addToRingBuffer(ring, msg)) = Append(entries(ring), msg)
<1> DEFINE new == addToRingBuffer(ring, msg)
           c == ringBufferCount(ring)
           slot(k) == (ring.tail + k - 1) % ring.size
<1>1. /\ new \in Rings(size, Msg)
      /\ ringBufferCount(new) = c + 1
      /\ c \in Nat /\ c + 1 \in 1 .. size - 1
  BY AddType, AddCount, CountType
<1>2. entries(new) = [k \in 1 .. c + 1 |->
                        [ring.buffer EXCEPT ![ring.head] = msg][slot(k)]]
  <2>1. /\ new.tail = ring.tail /\ new.size = ring.size
        /\ new.buffer = [ring.buffer EXCEPT ![ring.head] = msg]
    BY DEF addToRingBuffer
  <2> HIDE DEF new, c
  <2>2. QED
    BY <1>1, <2>1 DEF entries
<1>3. entries(ring) = [k \in 1 .. c |-> ring.buffer[slot(k)]]
  BY DEF entries
<1>4. \A k \in 1 .. c + 1 : slot(k) = ring.head <=> k = c + 1
  BY HeadSlot
<1>5. \A k \in 1 .. c + 1 : slot(k) \in 0 .. size - 1
  BY <1>1, Slot
<1>6. /\ entries(new) \in Seq(Msg) /\ Len(entries(new)) = c + 1
      /\ entries(ring) \in Seq(Msg) /\ Len(entries(ring)) = c
  BY <1>1, EntriesType
<1>7. ring.buffer \in [0 .. size - 1 -> Msg]
  BY Fields
<1> HIDE DEF new, c, slot
<1>8. /\ Append(entries(ring), msg) \in Seq(Msg)
      /\ Len(Append(entries(ring), msg)) = c + 1
      /\ \A k \in 1 .. c : Append(entries(ring), msg)[k] = entries(ring)[k]
      /\ Append(entries(ring), msg)[c + 1] = msg
  BY <1>1, <1>6, AppendProperties
<1>9. ASSUME NEW k \in 1 .. c + 1
      PROVE  entries(new)[k] = Append(entries(ring), msg)[k]
  <2>1. entries(new)[k] = [ring.buffer EXCEPT ![ring.head] = msg][slot(k)]
    BY <1>2
  <2>2. CASE k = c + 1
    BY <1>4, <1>5, <1>7, <1>8, <2>1, <2>2
  <2>3. CASE k # c + 1
    <3>1. k \in 1 .. c
      BY <1>1, <2>3
    <3>2. entries(ring)[k] = ring.buffer[slot(k)]
      BY <1>3, <3>1
    <3>3. slot(k) # ring.head
      BY <1>4, <2>3
    <3>4. QED
      BY <1>5, <1>7, <1>8, <2>1, <3>1, <3>2, <3>3
  <2>4. QED
    BY <2>2, <2>3
<1>10. entries(new) = Append(entries(ring), msg)
  BY <1>6, <1>8, <1>9, SeqEqual
<1>11. QED
  BY <1>10 DEF new

LEMMA RemoveCount ==
  ASSUME NEW size \in Nat \ {0}, NEW Msg, NEW ring \in Rings(size, Msg),
         ~isRingBufferEmpty(ring)
  PROVE  ringBufferCount(removeFromRingBuffer(ring)) + 1 = ringBufferCount(ring)
<1> DEFINE t == after(ring, ring.tail)
<1>1. t = IF ring.tail + 1 = size THEN 0 ELSE ring.tail + 1
  BY Fields, After
<1>2. ringBufferCount(removeFromRingBuffer(ring))
        = IF ring.head < t THEN ring.head - t + ring.size ELSE ring.head - t
  BY DEF ringBufferCount, removeFromRingBuffer
<1> HIDE DEF t
<1>3. ringBufferCount(ring)
        = IF ring.head < ring.tail
          THEN ring.head - ring.tail + size ELSE ring.head - ring.tail
  BY Fields DEF ringBufferCount
<1>4. ring.head # ring.tail
  BY DEF isRingBufferEmpty
<1>5. ring.head \in 0 .. size - 1 /\ ring.tail \in 0 .. size - 1 /\ ring.size = size
  BY Fields
<1>6. QED
  BY <1>1, <1>2, <1>3, <1>4, <1>5

(* The k-th slot after the new tail is the one after it from the old tail.  *)
LEMMA NextSlot ==
  ASSUME NEW size \in Nat \ {0}, NEW Msg, NEW ring \in Rings(size, Msg),
         NEW k \in 1 .. size - 1
  PROVE  (after(ring, ring.tail) + k - 1) % ring.size
           = (ring.tail + (k + 1) - 1) % ring.size
<1> DEFINE new == removeFromRingBuffer(ring)
<1>1. new \in Rings(size, Msg)
  BY RemoveType
<1>2. /\ new.tail = after(ring, ring.tail) /\ new.size = ring.size
      /\ new.tail = (IF ring.tail + 1 = size THEN 0 ELSE ring.tail + 1)
  BY Fields, After DEF removeFromRingBuffer
<1> HIDE DEF new
<1> DEFINE p == (new.tail + k - 1) % new.size
           q == (ring.tail + (k + 1) - 1) % ring.size
<1>3. k \in 1 .. size /\ k + 1 \in 1 .. size
  OBVIOUS
<1>4. p = IF new.tail + k - 1 < size THEN new.tail + k - 1
          ELSE new.tail + k - 1 - size
  BY <1>1, <1>3, Slot
<1>5. q = IF ring.tail + (k + 1) - 1 < size THEN ring.tail + (k + 1) - 1
          ELSE ring.tail + (k + 1) - 1 - size
  BY <1>3, Slot
<1> HIDE DEF p, q
<1>6. p = q
  BY <1>2, <1>4, <1>5, Fields, SMTT(30)
<1>7. QED
  BY <1>2, <1>6, Zenon DEF p, q

(* Removing from a ring that is not empty takes the first of what it stands *)
(* for and leaves the rest: removeFromRingBuffer() of FlexCAN.cpp.          *)
THEOREM RemoveTakesFirst ==
  ASSUME NEW size \in Nat \ {0}, NEW Msg, NEW ring \in Rings(size, Msg),
         ~isRingBufferEmpty(ring)
  PROVE  /\ oldest(ring) = Head(entries(ring))
         /\ entries(removeFromRingBuffer(ring)) = Tail(entries(ring))
<1> DEFINE new == removeFromRingBuffer(ring)
           c == ringBufferCount(new)
           slot(k) == (ring.tail + k - 1) % ring.size
<1>1. /\ new \in Rings(size, Msg) /\ ringBufferCount(ring) = c + 1
      /\ c \in Nat /\ c + 1 \in 1 .. size - 1
  <2>1. new \in Rings(size, Msg) /\ ringBufferCount(ring) = c + 1
    BY RemoveType, RemoveCount
  <2>2. c \in 0 .. size - 1 /\ ringBufferCount(ring) \in 0 .. size - 1
    BY <2>1, CountType
  <2> HIDE DEF new, c
  <2>3. QED
    BY <2>1, <2>2
<1>2. entries(ring) = [k \in 1 .. c + 1 |-> ring.buffer[slot(k)]]
  <2> HIDE DEF c
  <2> QED BY <1>1 DEF entries
<1>3. entries(new) = [k \in 1 .. c |-> ring.buffer[slot(k + 1)]]
  <2>1. entries(new) = [k \in 1 .. c |->
          ring.buffer[(after(ring, ring.tail) + k - 1) % ring.size]]
    BY DEF entries, removeFromRingBuffer
  <2>2. \A k \in 1 .. c :
          (after(ring, ring.tail) + k - 1) % ring.size = slot(k + 1)
    <3>1. \A k \in 1 .. c : k \in 1 .. size - 1
      <4> HIDE DEF c
      <4> QED BY <1>1
    <3>2. QED
      BY <3>1, NextSlot
  <2> HIDE DEF c, slot
  <2>3. QED
    BY <2>1, <2>2
<1>4. slot(1) = ring.tail
  <2>1. 1 \in 1 .. size /\ ring.tail + 1 - 1 = ring.tail /\ ring.tail < size
    BY Fields
  <2>2. (ring.tail + 1 - 1) % ring.size
          = IF ring.tail + 1 - 1 < size THEN ring.tail + 1 - 1
            ELSE ring.tail + 1 - 1 - size
    BY <2>1, Slot
  <2>3. QED
    BY <2>1, <2>2, Zenon
<1>5. /\ entries(new) \in Seq(Msg) /\ Len(entries(new)) = c
      /\ entries(ring) \in Seq(Msg) /\ Len(entries(ring)) = c + 1
  BY <1>1, EntriesType
<1> HIDE DEF new, c, slot
<1>6. oldest(ring) = Head(entries(ring))
  <2>1. 1 \in 1 .. c + 1
    BY <1>1
  <2>2. entries(ring)[1] = ring.buffer[ring.tail]
    BY <1>2, <1>4, <2>1
  <2>3. entries(ring) # << >>
    BY <1>1, <1>5
  <2>4. QED
    BY <1>5, <2>2, <2>3, HeadTailProperties DEF oldest
<1>7. /\ Tail(entries(ring)) \in Seq(Msg) /\ Len(Tail(entries(ring))) = c
      /\ \A k \in 1 .. c : Tail(entries(ring))[k] = entries(ring)[k + 1]
  <2>1. entries(ring) # << >>
    BY <1>1, <1>5
  <2>2. Len(entries(ring)) - 1 = c
    BY <1>1, <1>5
  <2>3. QED
    BY <1>5, <2>1, <2>2, HeadTailProperties
<1>8. \A k \in 1 .. c : entries(new)[k] = Tail(entries(ring))[k]
  <2>1. \A k \in 1 .. c : k + 1 \in 1 .. c + 1
    BY <1>1
  <2>2. ASSUME NEW k \in 1 .. c PROVE entries(new)[k] = Tail(entries(ring))[k]
    <3>1. Tail(entries(ring))[k] = entries(ring)[k + 1]
      BY <1>7
    <3>2. entries(new)[k] = entries(ring)[k + 1]
      BY <1>2, <1>3, <2>1
    <3>3. QED
      BY <3>1, <3>2
  <2>3. QED
    BY <2>2
<1>9. entries(new) = Tail(entries(ring))
  BY <1>5, <1>7, <1>8, SeqEqual
<1>10. QED
  BY <1>6, <1>9 DEF new
=============================================================================
