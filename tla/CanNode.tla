------------------------------ MODULE CanNode ------------------------------
(***************************************************************************)
(* A libuavcan node over the FlexCAN driver: spinOnce() of Scheduler and   *)
(* Dispatcher, CanIOManager::send() and receive() with the transmit queue  *)
(* and its share of the memory pool, DeadlineScheduler with its periodic   *)
(* timers, and CanDriver::select() and CanIface::send() below them.        *)
(*                                                                         *)
(* All of it runs in one thread, with every deadline for blocking zero, as *)
(* the boards use it.  Between two steps of the thread the message inter-  *)
(* rupt may refill a mailbox and the clock may advance.  Of the driver     *)
(* only the ring and the mailboxes are kept: FlexCan is the detailed model.*)
(***************************************************************************)
EXTENDS CanTxQueue, FiniteSets

CONSTANTS
  Kinds,           \* the frames that are sent: records [prio, qos, life]
  Timers, Period,  \* periodic timers
  Quota,           \* max_blocks_ of the queue's LimitedPoolAllocator
  PoolSize,        \* blocks of the node's pool
  TxBoxes, RingCapacity,  \* the driver's mailboxes, what its ring holds
  MaxFrames, MaxRx, MaxTime  \* bounds: frames sent, frames waiting to be read, clock

ASSUME CanNodeAssumption ==
  /\ Kinds \subseteq [prio : Nat, qos : {Volatile, Persistent}, life : Nat \ {0}]
  /\ Period \in [Timers -> Nat \ {0}]
  /\ Quota \in Nat \ {0} /\ PoolSize \in Nat
  /\ TxBoxes \in Nat \ {0} /\ RingCapacity \in Nat /\ MaxFrames \in Nat /\ MaxRx \in Nat /\ MaxTime \in Nat

VARIABLES
  pc,        \* place in the thread
  caller,    \* who called send(): where it returns to
  new,       \* the frame that send() was given
  stamp,     \* timestamp that push() read
  readable,  \* did select() find a frame to read?
  queue, rejected,      \* transmit queue, rejected_frames_cnt_
  used_blocks, others,  \* blocks counted against the quota; those of others
  ring, boxes,  \* transmit ring of the driver, frames in its mailboxes
  rx,        \* frames to be read
  handlers,  \* timers of DeadlineScheduler: records [timer, deadline]
  now,       \* clock
  handed     \* frames handed over

NoFrame == [n |-> 0, prio |-> 0, qos |-> Volatile, deadline |-> 0]

thread == <<pc, caller, new, stamp, readable>>
memory == <<queue, rejected, used_blocks>>
driver == <<ring, boxes>>
vars == <<thread, memory, others, driver, rx, handlers, now, handed>>

\* The free blocks of the pool.
Free == PoolSize - others - Len(queue)

Init ==
  /\ pc = "app" /\ caller = "app" /\ new = NoFrame /\ stamp = 0 /\ readable = FALSE
  /\ queue = <<>> /\ rejected = 0 /\ used_blocks = 0 /\ others = 0
  /\ ring = <<>> /\ boxes = {} /\ rx = 0
  /\ handlers = <<>>
  /\ now = 0
  /\ handed = 0

-----------------------------------------------------------------------------
(* CanIface::send(), FlexCAN::write(): the frame goes to the mailbox, to    *)
(* the ring, or nowhere.                                                    *)

Late(f) == now >= f.deadline
Direct == ring = <<>> /\ Cardinality(boxes) < TxBoxes
Refused(f) == Late(f) \/ (~Direct /\ Len(ring) = RingCapacity)

ifaceSend(f) ==
  /\ ~Refused(f)
  /\ IF Direct THEN boxes' = boxes \cup {f} /\ UNCHANGED ring
               ELSE ring' = Append(ring, f) /\ UNCHANGED boxes

-----------------------------------------------------------------------------
(* The queue's memory.                                                      *)

\* CanTxQueue::remove(): the entry's block goes back.
removeEntry(k) ==
  /\ queue' = RemoveAt(queue, k)
  /\ used_blocks' = used_blocks - 1

registerRejectedFrame == rejected' = rejected + 1

-----------------------------------------------------------------------------
(* CanIOManager::send().                                                    *)

Idle == pc \in {"app", "handle", "timer"}

\* The application, a callback of a received frame, or a timer sends one.
send ==
  /\ Idle /\ handed < MaxFrames
  /\ \E kind \in Kinds :
       new' = [n |-> handed + 1, prio |-> kind.prio, qos |-> kind.qos,
               deadline |-> now + kind.life]
  /\ handed' = handed + 1
  /\ caller' = pc
  /\ pc' = IF topPriorityHigherOrEqual(queue, new') THEN "peek" ELSE "offer"
  /\ UNCHANGED <<stamp, readable, memory, others, driver, rx, handlers, now>>

Return ==
  /\ pc' = CASE caller = "app" -> "app" [] caller = "handle" -> "select"
             [] caller = "timer" -> "poll"
  /\ new' = NoFrame /\ caller' = "app" /\ stamp' = 0

\* Where sendFromTxQueue() leads when it did not send.
NotSent == IF new = NoFrame THEN "read" ELSE "offer"

\* CanTxQueue::peek(): the expired entries at the front are dropped.
peek ==
  /\ pc = "peek"
  /\ \E k \in 0 .. Len(queue) :
       /\ \A i \in 1 .. k : isExpired(queue[i], now)
       /\ k < Len(queue) => ~isExpired(queue[k + 1], now)
       /\ queue' = SubSeq(queue, k + 1, Len(queue))
       /\ used_blocks' = used_blocks - k
       /\ rejected' = rejected + k
       /\ pc' = IF k = Len(queue) THEN NotSent ELSE "head"
  /\ UNCHANGED <<caller, new, stamp, readable, others, driver, rx, handlers,
                 now, handed>>

\* Mutant: the entry that was sent stays in the queue.
sendFromTxQueue_Keeps ==
  /\ pc = "head"
  /\ \/ /\ ifaceSend(queue[1])
        /\ pc' = IF new = NoFrame THEN "read" ELSE "push"
     \/ /\ Refused(queue[1])
        /\ pc' = NotSent
        /\ UNCHANGED driver
  /\ UNCHANGED <<caller, new, stamp, readable, memory, others, rx, handlers,
                 now, handed>>

\* The rest of sendFromTxQueue(): the head is offered to the driver.
sendFromTxQueue ==
  /\ pc = "head"
  /\ \/ /\ ifaceSend(queue[1])
        /\ pc' = IF new = NoFrame THEN "read" ELSE "push"
        /\ removeEntry(1)
     \/ /\ Refused(queue[1])
        /\ pc' = NotSent
        /\ UNCHANGED <<queue, used_blocks, driver>>
  /\ UNCHANGED <<caller, new, stamp, readable, rejected, others, rx, handlers,
                 now, handed>>

\* The new frame is offered to the driver, and queued if it is refused.
sendToIface ==
  /\ pc = "offer"
  /\ \/ ifaceSend(new) /\ Return
     \/ /\ Refused(new)
        /\ pc' = "push"
        /\ UNCHANGED <<caller, new, stamp, driver>>
  /\ UNCHANGED <<readable, memory, others, rx, handlers, now, handed>>

\* Mutant: off by one.
InQuota_OneMore == used_blocks <= Quota

InQuota == used_blocks < Quota

\* LimitedPoolAllocator::allocate() counts the block before it asks the pool,
\* which may have none.
Counted == IF InQuota THEN used_blocks + 1 ELSE used_blocks
Granted == InQuota /\ Free > 0

insertNew(q) == \E k \in PlaceOf(q, new) : queue' = InsertAt(q, k, new)

\* CanTxQueue::push(), up to its first allocation.
push ==
  /\ pc = "push"
  /\ \/ /\ Late(new)
        /\ registerRejectedFrame /\ Return
        /\ UNCHANGED <<queue, used_blocks>>
     \/ /\ ~Late(new) /\ Granted
        /\ insertNew(queue) /\ used_blocks' = Counted
        /\ Return
        /\ UNCHANGED rejected
     \/ /\ ~Late(new) /\ ~Granted
        /\ used_blocks' = Counted
        /\ pc' = "cleanup" /\ stamp' = now
        /\ UNCHANGED <<caller, new, queue, rejected>>
  /\ UNCHANGED <<readable, others, driver, rx, handlers, now, handed>>

Expired == {k \in 1 .. Len(queue) : isExpired(queue[k], stamp)}

\* The loop over expired entries.
cleanupExpired ==
  /\ pc = "cleanup"
  /\ \E k \in Expired :
       /\ \A j \in Expired : k <= j
       /\ removeEntry(k) /\ registerRejectedFrame
  /\ UNCHANGED <<thread, others, driver, rx, handlers, now, handed>>

\* The second allocation, and what follows when it fails too.
arbitrate ==
  /\ pc = "cleanup" /\ Expired = {}
  /\ \/ /\ Granted
        /\ insertNew(queue) /\ used_blocks' = Counted
        /\ UNCHANGED rejected
     \/ /\ ~Granted /\ queue = <<>>
        /\ registerRejectedFrame /\ used_blocks' = Counted
        /\ UNCHANGED queue
     \/ /\ ~Granted
        /\ \E k \in LowestQos(queue) :
             IF qosHigherThan(queue[k], new)
             THEN registerRejectedFrame /\ UNCHANGED queue
             ELSE registerRejectedFrame /\ insertNew(RemoveAt(queue, k))
        /\ used_blocks' = Counted
  /\ Return
  /\ UNCHANGED <<readable, others, driver, rx, handlers, now, handed>>

-----------------------------------------------------------------------------
(* Scheduler::spinOnce().                                                   *)

spinOnce ==
  /\ pc = "app"
  /\ pc' = "select"
  /\ UNCHANGED <<caller, new, stamp, readable, memory, others, driver, rx,
                 handlers, now, handed>>

\* Mutant: the pending frames are not asked for.
receive_NoPending ==
  /\ pc = "select"
  /\ readable' = (rx > 0)
  /\ pc' = "read"
  /\ UNCHANGED <<caller, new, stamp, memory, others, driver, rx, handlers, now, handed>>

\* CanIOManager::receive() up to its "write" part; select() always finds the
\* interface ready to send, since the ring never holds sizeTxBuffer frames.
receive ==
  /\ pc = "select"
  /\ readable' = (rx > 0)
  /\ pc' = IF queue = <<>> THEN "read" ELSE "peek"
  /\ UNCHANGED <<caller, new, stamp, memory, others, driver, rx, handlers, now, handed>>

\* Its "read" part: a frame is handled, or the loop of Dispatcher::spinOnce()
\* ends.
read ==
  /\ pc = "read"
  /\ IF readable THEN pc' = "handle" /\ rx' = rx - 1 ELSE pc' = "poll" /\ UNCHANGED rx
  /\ readable' = FALSE
  /\ UNCHANGED <<caller, new, stamp, memory, others, driver, handlers, now, handed>>

\* The callbacks of a frame end.
handled ==
  /\ pc = "handle"
  /\ pc' = "select"
  /\ UNCHANGED <<caller, new, stamp, readable, memory, others, driver, rx,
                 handlers, now, handed>>

\* Receiving allocates buffers in the same pool, and frees them.
Others ==
  /\ Idle
  /\ \E n \in {others - 1, others + 1} :
       n >= 0 /\ n + Len(queue) <= PoolSize /\ others' = n
  /\ UNCHANGED <<thread, memory, driver, rx, handlers, now, handed>>

\* DeadlineScheduler::add().
addTimer(list, h) ==
  \E k \in insertBefore(list, {i \in 1 .. Len(list) : list[i].deadline > h.deadline}) :
    handlers' = InsertAt(list, k, h)

\* TimerBase::startPeriodic().
startPeriodic(t) ==
  /\ pc = "app"
  /\ \A i \in 1 .. Len(handlers) : handlers[i].timer # t
  /\ addTimer(handlers, [timer |-> t, deadline |-> now + Period[t]])
  /\ UNCHANGED <<thread, memory, others, driver, rx, now, handed>>

Due == handlers # <<>> /\ handlers[1].deadline <= now

\* DeadlineScheduler::pollAndGetMonotonicTime(): the first timer that is due
\* is taken out and put back for its next period before its event.
pollTimer ==
  /\ pc = "poll" /\ Due
  /\ LET h == [handlers[1] EXCEPT !.deadline = @ + Period[handlers[1].timer]]
         rest == Tail(handlers) IN
     addTimer(rest, h)
  /\ pc' = "timer"
  /\ UNCHANGED <<caller, new, stamp, readable, memory, others, driver, rx, now, handed>>

\* A timer event ends; no timer is due.
polled ==
  /\ \/ pc = "timer" /\ pc' = "poll"
     \/ pc = "poll" /\ ~Due /\ pc' = "app"
  /\ UNCHANGED <<caller, new, stamp, readable, memory, others, driver, rx,
                 handlers, now, handed>>

\* The steps of the thread that do not depend on what is sent and received.
Thread ==
  \/ peek \/ sendFromTxQueue \/ sendToIface \/ push \/ cleanupExpired \/ arbitrate
  \/ spinOnce \/ receive \/ read \/ handled \/ pollTimer \/ polled

-----------------------------------------------------------------------------
(* The controller, the message interrupt, the bus and the clock.            *)

TxDone ==
  /\ \E f \in boxes : boxes' = boxes \ {f}
  /\ UNCHANGED <<thread, memory, others, ring, rx, handlers, now, handed>>

message_isr ==
  /\ Cardinality(boxes) < TxBoxes /\ ring # <<>>
  /\ boxes' = boxes \cup {ring[1]} /\ ring' = Tail(ring)
  /\ UNCHANGED <<thread, memory, others, rx, handlers, now, handed>>

RxArrive ==
  /\ rx < MaxRx
  /\ rx' = rx + 1
  /\ UNCHANGED <<thread, memory, others, driver, handlers, now, handed>>

Tick ==
  /\ now < MaxTime
  /\ now' = now + 1
  /\ UNCHANGED <<thread, memory, others, driver, rx, handlers, handed>>

Next ==
  \/ send \/ Others \/ Thread \/ (\E t \in Timers : startPeriodic(t))
  \/ TxDone \/ message_isr \/ RxArrive \/ Tick

Spec == Init /\ [][Next]_vars

(***************************************************************************)
(* loop() is called for ever and calls spinOnce() in each turn, a pending  *)
(* interrupt is served, the bus is not kept by other nodes, and the clock  *)
(* goes on.                                                                *)
(***************************************************************************)
FairSpec == Spec /\ WF_vars(Thread) /\ WF_vars(TxDone) /\ WF_vars(message_isr) /\ WF_vars(Tick)
-----------------------------------------------------------------------------
(* Properties.                                                              *)

Frame == [n : 1 .. MaxFrames, prio : {k.prio : k \in Kinds},
          qos : {Volatile, Persistent}, deadline : Nat]

\* Every variable stays in its type; the queue stays within its quota.
TypeOK ==
  /\ pc \in {"app", "handle", "timer", "peek", "head", "offer", "push",
            "cleanup", "select", "read", "poll"}
  /\ caller \in {"app", "handle", "timer"}
  /\ new \in Frame \cup {NoFrame} /\ stamp \in 0 .. MaxTime /\ readable \in BOOLEAN
  /\ queue \in Seq(Frame) /\ Len(queue) <= used_blocks /\ used_blocks <= Quota
  /\ rejected \in Nat /\ others \in 0 .. PoolSize /\ Free >= 0
  /\ ring \in Seq(Frame) /\ Len(ring) <= RingCapacity
  /\ boxes \subseteq Frame /\ Cardinality(boxes) <= TxBoxes
  /\ rx \in 0 .. MaxRx /\ now \in 0 .. MaxTime

\* The queue is in the order of the bus, and frames of equal priority are in
\* the order in which they were handed over: the frames of a transfer must
\* not change places.
QueueInOrder ==
  \A i, j \in 1 .. Len(queue) :
    i < j => \/ queue[i].prio < queue[j].prio
             \/ queue[i].prio = queue[j].prio /\ queue[i].n < queue[j].n

Held == ({new} \cup {queue[k] : k \in 1 .. Len(queue)}) \ {NoFrame}
Driven == boxes \cup {ring[k] : k \in 1 .. Len(ring)}
Lost == Held \ (Held' \cup Driven')

\* No frame is kept once the driver has it, so that none is sent twice; every
\* other frame that send() or the queue no longer holds was dropped, and
\* getRejectedFrameCount() counts each of them once.
Accounted ==
  [][/\ Held' \cap Driven' = {}
     /\ rejected' - rejected = Cardinality(Lost)]_vars

\* Unless it has expired, a frame is dropped only if all the frames that stay
\* are at least as good: no Volatile one displaces a Persistent one, and none
\* displaces one of a higher priority and the same quality of service.
NotBetter(f, g) == f.qos < g.qos \/ (f.qos = g.qos /\ f.prio >= g.prio)

LowestDropped ==
  [][\A f \in Lost : now >= f.deadline \/ \A g \in Held : NotBetter(f, g)]_vars

\* A timer that is put off for its next period was not later than any other.
EarliestFirst ==
  [][pollTimer =>
       \A i \in 1 .. Len(handlers) : handlers[1].deadline <= handlers[i].deadline]_vars

\* A frame in the queue leaves it, also when there is always a frame to read
\* and the loop of Dispatcher::spinOnce() does not end.  A frame whose deadline
\* is this very moment is neither sent nor dropped, so that a queue with one
\* for the moment at which the clock stops is left out.
Queued(n) == \E k \in 1 .. Len(queue) : queue[k].n = n
AtTheEnd == \E k \in 1 .. Len(queue) : queue[k].deadline = MaxTime
Drained == \A n \in 1 .. MaxFrames : Queued(n) ~> ~Queued(n) \/ AtTheEnd

\* "The 'or equal' condition is necessary to avoid frame reordering"
\* (can_io.hpp:111): no frame is given to the driver while one of the same
\* priority that was handed over before it waits.
EqualKeepOrder ==
  [][\A f \in Driven' \ Driven : \A g \in Held' : f.prio = g.prio => f.n < g.n]_vars

\* "No memory left in the pool, so we try to remove expired frames"
\* (uc_can_io.cpp:123): push() gets a block unless the pool is empty or the
\* queue holds its quota.
RefusedOnlyIfNoMemory ==
  [][push /\ pc' = "cleanup" => Free = 0 \/ Len(queue) = Quota]_vars
=============================================================================
