------------------------------ MODULE CanRing ------------------------------
(***************************************************************************)
(* ringbuffer_t of the FlexCAN driver: `size' slots of which at most       *)
(* size - 1 are in use, because head = tail stands for empty.              *)
(***************************************************************************)
EXTENDS Integers, Sequences

Rings(size, Msg) ==
  [head : 0 .. size - 1, tail : 0 .. size - 1, size : {size},
   buffer : [0 .. size - 1 -> Msg]]

initRingBuffer(size, old) ==
  [head |-> 0, tail |-> 0, size |-> size,
   buffer |-> [k \in 0 .. size - 1 |-> old]]

isRingBufferEmpty(ring) == ring.head = ring.tail

\* Mutant: the index runs past the end of the buffer.
after_NoWrap(ring, x) == x + 1

\* The index after x.
after(ring, x) == (x + 1) % ring.size

\* The difference is taken in int32_t, so it may be negative.
ringBufferCount(ring) ==
  IF ring.head < ring.tail
  THEN ring.head - ring.tail + ring.size
  ELSE ring.head - ring.tail

\* The test by which addToRingBuffer() refuses.
isRingBufferFull(ring) == after(ring, ring.head) = ring.tail

\* Mutant: the frame goes to the slot of the new head.
addToRingBuffer_WrongSlot(ring, msg) ==
  [head |-> after(ring, ring.head), tail |-> ring.tail, size |-> ring.size,
   buffer |-> [ring.buffer EXCEPT ![after(ring, ring.head)] = msg]]

addToRingBuffer(ring, msg) ==
  [head |-> after(ring, ring.head), tail |-> ring.tail, size |-> ring.size,
   buffer |-> [ring.buffer EXCEPT ![ring.head] = msg]]

\* The entry that removeFromRingBuffer() copies out ...
oldest(ring) == ring.buffer[ring.tail]

\* ... and the ring it leaves.
removeFromRingBuffer(ring) ==
  [head |-> ring.head, tail |-> after(ring, ring.tail), size |-> ring.size,
   buffer |-> ring.buffer]

\* The entries from the oldest on, as a sequence: what the ring stands for.
entries(ring) ==
  [k \in 1 .. ringBufferCount(ring) |->
     ring.buffer[(ring.tail + k - 1) % ring.size]]
=============================================================================
