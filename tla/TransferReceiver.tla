-------------------------- MODULE TransferReceiver --------------------------
(***************************************************************************)
(* TransferReceiver of libuavcan: one receiver and its transfer buffer, as *)
(* a record, and what a frame makes of it.  A frame carries one unit of    *)
(* the payload of transfer n, its k-th; the first one also carries the CRC *)
(* of the transfer, for which n stands.  Of the timestamps only the age of *)
(* the transfer is kept, which is compared with the timeouts.              *)
(***************************************************************************)
EXTENDS Integers, Sequences

CONSTANTS
  TidCount,    \* number of transfer identifiers, 2 ^ TransferID::BitLen
  TidTimeout   \* DefaultTidTimeoutMSec

Half == TidCount \div 2

\* Mutant: an identifier does not wrap.
increment_NoWrap(tid) == tid + 1

\* TransferID::increment().
increment(tid) == (tid + 1) % TidCount

\* TransferID::computeForwardDistance().
computeForwardDistance(tid, rhs) == IF rhs >= tid THEN rhs - tid ELSE rhs - tid + TidCount

\* The receivers of a listener are kept in a map, where this one is not yet.
NoReceiver == [iface |-> "none", tid |-> 0, toggle |-> 0, pos |-> 0, crc |-> 0,
               age |-> TidTimeout + 1, buf |-> <<>>]

isTimedOut(r) == r.age > TidTimeout

prepareForNextTransfer(r) ==
  [r EXCEPT !.tid = increment(@), !.toggle = 0, !.pos = 0]

\* validate(); the sender's frames all have the payload and the toggle bit that
\* it asks of a first frame.
validate(r, f) == r.iface = f.iface /\ r.toggle = f.toggle /\ r.tid = f.tid

\* ITransferBuffer::write() of one unit after the first pos ones.
write(buf, pos, unit) ==
  [i \in 1 .. IF pos < Len(buf) THEN Len(buf) ELSE pos + 1 |->
     IF i = pos + 1 THEN unit ELSE buf[i]]

\* writePayload(), and what receive() does after it.
writePayload(r, f) ==
  [r EXCEPT !.buf = write(@, r.pos, <<f.n, f.k>>), !.pos = @ + 1,
            !.crc = IF f.sot THEN f.n ELSE @, !.toggle = 1 - @]

\* receive(): the receiver and the ResultCode.  mem: is there memory for the
\* buffer and room in it?
receive(r, f, mem) ==
  LET s == IF f.sot THEN [r EXCEPT !.age = 0] ELSE r IN
  CASE f.sot /\ f.eot ->
         [r |-> [prepareForNextTransfer(s) EXCEPT !.crc = 0, !.buf = <<>>],
          result |-> "SingleFrame"]
    [] ~(f.sot /\ f.eot) /\ ~mem ->
         [r |-> [prepareForNextTransfer(s) EXCEPT !.buf = <<>>], result |-> "NotComplete"]
    [] ~(f.sot /\ f.eot) /\ mem /\ ~f.eot ->
         [r |-> writePayload(s, f), result |-> "NotComplete"]
    [] ~f.sot /\ f.eot /\ mem ->
         [r |-> prepareForNextTransfer(writePayload(s, f)), result |-> "Complete"]

\* Mutant: an interface is taken although its transfer is an old one.
need_restart_AnyTid(r, f, switch) ==
  \/ r = NoReceiver \/ isTimedOut(r)
  \/ r.iface = f.iface /\ f.sot /\ computeForwardDistance(f.tid, r.tid) > 1
  \/ switch /\ f.sot

\* The condition of addFrame().  switch: is the transfer older than the
\* interface switch delay?
need_restart(r, f, switch) ==
  \/ r = NoReceiver \/ isTimedOut(r)
  \/ r.iface = f.iface /\ f.sot /\ computeForwardDistance(f.tid, r.tid) > 1
  \/ switch /\ f.sot /\ computeForwardDistance(r.tid, f.tid) < Half

restart(r, f) ==
  [r EXCEPT !.iface = f.iface, !.tid = f.tid, !.toggle = 0, !.pos = 0, !.crc = 0, !.buf = <<>>]

\* addFrame().
addFrame(r, f, switch, mem) ==
  LET again == need_restart(r, f, switch)
      s == IF again THEN restart(r, f) ELSE r IN
  CASE again /\ ~f.sot -> [r |-> [s EXCEPT !.tid = increment(@)], result |-> "NotComplete"]
    [] ~(again /\ ~f.sot) /\ ~validate(s, f) -> [r |-> s, result |-> "NotComplete"]
    [] ~(again /\ ~f.sot) /\ validate(s, f) -> receive(s, f, mem)
=============================================================================
