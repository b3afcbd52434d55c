---------------------------- MODULE TransferLink ----------------------------
(***************************************************************************)
(* Transfers of one kind from one node to another: TransferSender with its *)
(* entry of the OutgoingTransferRegistry, the frames on the interfaces,    *)
(* and TransferListener with the receiver of that node.                    *)
(*                                                                         *)
(* An interface loses frames and delays them, by at most MaxLag.  It also  *)
(* mixes as many of them as its driver has transmit mailboxes.  Ages       *)
(* replace the clock: they stop at what the code tells apart, so that time *)
(* needs no bound.                                                         *)
(***************************************************************************)
EXTENDS TransferReceiver, SequencesExt

CONSTANTS
  Ifaces,        \* the redundant interfaces
  Nodes,         \* senders: their transmit mailboxes and their interfaces
  Lengths,       \* numbers of frames of a transfer
  FirstTids,     \* identifiers of the first transfer
  Burst,         \* transfers that may be sent at once
  MaxLag,        \* time that a frame takes at most
  Lifetime,      \* life of a registry entry after the last transfer
  MaxTransfers   \* bound: transfers sent

ASSUME TransferLinkAssumption ==
  /\ TidCount \in Nat /\ TidTimeout \in Nat /\ MaxLag \in Nat /\ Burst \in Nat \ {0}
  /\ TidTimeout + MaxLag + Burst < TidCount /\ MaxLag + Burst <= TidCount - Half
  /\ MaxLag <= TidTimeout
  /\ Lifetime \in Nat /\ Lifetime > TidTimeout + MaxLag
  /\ "none" \notin Ifaces /\ Nodes \subseteq (Nat \ {0}) \X SUBSET Ifaces /\ Lengths \subseteq Nat \ {0}
  /\ FirstTids \subseteq 0 .. TidCount - 1 /\ MaxTransfers \in Nat

VARIABLES
  numTxMailboxes, ifaces,  \* the drivers of the sender, and its interfaces
  tid,        \* identifier in the registry
  quiet,      \* time since the last transfer was sent
  credit,     \* transfers that the publishers may still send now
  bus,        \* for each interface, the frames on their way
  recv,       \* the receiver
  sent,       \* history: transfers sent
  got,        \* history: for each interface, the transfers delivered from it
  top,        \* history: for each interface, the latest transfer that overtook
  heard       \* history: the transfer being read

vars == <<numTxMailboxes, ifaces, tid, quiet, credit, bus, recv, sent, got, top, heard>>

Nothing == [iface |-> "none", n |-> 0, k |-> 0, whole |-> FALSE]

Init ==
  /\ \E node \in Nodes : numTxMailboxes = node[1] /\ ifaces = node[2]
  /\ tid \in FirstTids /\ quiet = 0 /\ credit = Burst
  /\ bus = [i \in Ifaces |-> <<>>]
  /\ recv = NoReceiver
  /\ sent = 0 /\ got = [i \in Ifaces |-> <<>>]
  /\ top = [i \in Ifaces |-> 0] /\ heard = Nothing

-----------------------------------------------------------------------------

\* The k-th frame of transfer n of length len, as TransferSender::send() makes it
\* and as it comes from interface i.
Frame(i, n, k, len) ==
  [iface |-> i, n |-> n, k |-> k, tid |-> tid, toggle |-> (k - 1) % 2, sot |-> k = 1,
   eot |-> k = len, age |-> 0]

\* TransferSender::send(), with OutgoingTransferRegistry::accessOrCreate().
send(len) ==
  /\ sent' = sent + 1
  /\ bus' = [i \in Ifaces |->
       IF i \in ifaces THEN bus[i] \o [k \in 1 .. len |-> Frame(i, sent + 1, k, len)] ELSE bus[i]]
  /\ tid' = increment(tid)
  /\ quiet' = 0
  /\ UNCHANGED <<numTxMailboxes, ifaces, recv, got, top, heard>>

\* What the publishers of a board send of one kind, as cyclePublisher() does: a
\* burst, and on average a transfer in a unit of time.
publish(len) ==
  /\ sent < MaxTransfers /\ credit > 0
  /\ credit' = credit - 1
  /\ send(len)

\* Mutant: an entry is removed without a look at its deadline.
registryCleanup_Early ==
  /\ quiet > 0
  /\ tid' = 0
  /\ UNCHANGED <<numTxMailboxes, ifaces, quiet, credit, bus, recv, sent, got, top, heard>>

\* OutgoingTransferRegistry::cleanup(): the next transfer begins with 0.
registryCleanup ==
  /\ quiet >= Lifetime
  /\ tid' = 0
  /\ UNCHANGED <<numTxMailboxes, ifaces, quiet, credit, bus, recv, sent, got, top, heard>>

\* The content of a buffer: a transfer, or nothing that was sent.  The CRC tells
\* them apart.
Garbage == -1
Content(buf, len) == IF \E n \in 1 .. sent : buf = [k \in 1 .. len |-> <<n, k>>]
                     THEN buf[1][1] ELSE Garbage

\* TransferListener::checkPayloadCrc(), of the whole buffer.
checkPayloadCrc(r, len) == Content(r.buf, len) = r.crc

\* TransferListener::handleReception().
handleReception(added, f) ==
  LET checked == added.result = "Complete" /\ checkPayloadCrc(added.r, f.k) IN
  /\ got' = IF checked \/ added.result = "SingleFrame"
            THEN [got EXCEPT ![f.iface] =
                    Append(@, IF checked THEN Content(added.r.buf, f.k) ELSE f.n)]
            ELSE got
  /\ recv' = IF checked THEN [added.r EXCEPT !.buf = <<>>] ELSE added.r

\* What the interface that the receiver listens to has brought of a transfer, as
\* long as its frames came in order and without a gap, none of a later transfer
\* came before, and there was memory; it is whole when the last frame has come
\* and the buffer holds no more than the transfer.
Hear(i, f, mem) ==
  LET next == IF f.sot THEN f.n > top[i]
              ELSE heard.iface = i /\ heard.n = f.n /\ heard.k + 1 = f.k IN
  IF recv'.iface # i THEN heard
  ELSE IF next /\ mem THEN [iface |-> i, n |-> f.n, k |-> f.k,
                            whole |-> f.eot /\ (f.sot \/ Len(recv.buf) <= f.k)]
       ELSE Nothing

\* The frames of an interface that may come next: those in the mailboxes.
Window(i) == {x \in 1 .. Len(bus[i]) : x <= numTxMailboxes}

\* TransferListener::handleFrame().  Without memory there is no receiver, or one
\* without a buffer.
handleFrame(i, x, switch, mem) ==
  /\ x \in Window(i)
  /\ LET f == bus[i][x] IN
       /\ \/ /\ recv = NoReceiver /\ (~f.sot \/ ~mem)
             /\ UNCHANGED <<recv, got>>
          \/ /\ recv # NoReceiver \/ f.sot
             /\ handleReception(addFrame(recv, f, switch, mem), f)
       /\ top' = IF x = 1 \/ f.n <= top[i] THEN top ELSE [top EXCEPT ![i] = f.n]
       /\ heard' = Hear(i, f, mem)
  /\ bus' = [bus EXCEPT ![i] = RemoveAt(@, x)]
  /\ UNCHANGED <<numTxMailboxes, ifaces, tid, quiet, credit, sent>>

\* TransferListener::cleanup().
cleanup ==
  /\ isTimedOut(recv)
  /\ recv' = NoReceiver
  /\ UNCHANGED <<numTxMailboxes, ifaces, tid, quiet, credit, bus, sent, got, top, heard>>

lose(i, x) ==
  /\ x \in Window(i)
  /\ bus' = [bus EXCEPT ![i] = RemoveAt(@, x)]
  /\ UNCHANGED <<numTxMailboxes, ifaces, tid, quiet, credit, recv, sent, got, top, heard>>

Older(age, limit) == IF age < limit THEN age + 1 ELSE limit

Tick ==
  /\ \A i \in Ifaces : \A k \in 1 .. Len(bus[i]) : bus[i][k].age < MaxLag
  /\ bus' = [i \in Ifaces |-> [k \in 1 .. Len(bus[i]) |->
                [bus[i][k] EXCEPT !.age = @ + 1]]]
  /\ quiet' = Older(quiet, Lifetime) /\ credit' = Older(credit, Burst)
  /\ recv' = [recv EXCEPT !.age = Older(@, TidTimeout + 1)]
  /\ UNCHANGED <<numTxMailboxes, ifaces, tid, sent, got, top, heard>>

Next ==
  \/ \E len \in Lengths : publish(len)
  \/ registryCleanup \/ cleanup \/ Tick
  \/ \E i \in Ifaces : \E x \in Window(i) :
       lose(i, x) \/ \E switch, mem \in BOOLEAN : handleFrame(i, x, switch, mem)

Spec == Init /\ [][Next]_vars
-----------------------------------------------------------------------------
(* Properties.                                                              *)

\* Identifiers stay within their bits, and a receiver is within what it has
\* written.
TypeOK ==
  /\ <<numTxMailboxes, ifaces>> \in Nodes /\ credit \in 0 .. Burst
  /\ tid \in 0 .. TidCount - 1 /\ quiet \in 0 .. Lifetime
  /\ recv.tid \in 0 .. TidCount - 1 /\ recv.age \in 0 .. TidTimeout + 1
  /\ recv.toggle = recv.pos % 2 /\ recv.pos <= Len(recv.buf)
  /\ sent \in 0 .. MaxTransfers

Link == INSTANCE LossyLink WITH window <- numTxMailboxes

\* Whatever is lost, mixed or delayed, transfers are delivered unchanged.  Every
\* interface delivers a transfer at most once, and fewer than numTxMailboxes
\* older ones after it.  When the driver has a single mailbox, they are delivered
\* in order and at most once although each interface carries a copy; also when
\* identifiers wrap, and when the sender's entry has expired and they begin
\* again with 0.
DeliversAsSent == Link!Spec

\* A transfer of which every frame was read, in order, from the interface that
\* the receiver listens to is delivered from there, whatever was lost before it.
\* One that was overtaken by the beginning of a later one is not heard.  The
\* receiver keeps the buffer of a transfer whose CRC was wrong, so that one which
\* is shorter than what is in there is not delivered.
IntactIsDelivered ==
  heard.whole => \E j \in 1 .. Len(got[heard.iface]) : got[heard.iface][j] = heard.n
=============================================================================
