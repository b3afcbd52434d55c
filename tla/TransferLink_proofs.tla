------------------------ MODULE TransferLink_proofs ------------------------
(***************************************************************************)
(* Transfers are delivered unchanged, at most once from an interface and   *)
(* mixed no more than by the mailboxes of the driver, and those that are   *)
(* read whole are delivered, for any number of interfaces and mailboxes,   *)
(* any lengths, any number of identifiers, and any bursts and times that   *)
(* the assumption admits.                                                  *)
(***************************************************************************)
EXTENDS TransferLink, SequenceTheorems, FiniteSetTheorems, TLAPS

-----------------------------------------------------------------------------
(* Identifiers are positions on a ring.                                     *)

Tids == 0 .. TidCount - 1

LEMMA Times ==
  /\ TidCount \in Nat /\ TidTimeout \in Nat /\ MaxLag \in Nat /\ Lifetime \in Nat
  /\ Burst \in Nat /\ Burst > 0
  /\ TidTimeout + MaxLag + Burst < TidCount /\ MaxLag <= TidTimeout
  /\ TidTimeout + MaxLag < Lifetime
BY TransferLinkAssumption

LEMMA Constants ==
  /\ TidCount \in Nat /\ TidTimeout \in Nat /\ MaxLag \in Nat /\ Lifetime \in Nat
  /\ Burst \in Nat /\ Burst > 0
  /\ TidTimeout + MaxLag + Burst < TidCount /\ MaxLag <= TidTimeout
  /\ TidTimeout + MaxLag < Lifetime
  /\ Half \in Nat /\ MaxLag + Burst <= TidCount - Half
  /\ MaxTransfers \in Nat /\ Lengths \subseteq Nat \ {0}
  /\ "none" \notin Ifaces
<1>1. Half \in Nat
  BY Times DEF Half
<1>2. QED
  BY <1>1, Times, TransferLinkAssumption

LEMMA IncrementIs ==
  ASSUME NEW t \in Tids
  PROVE  /\ increment(t) \in Tids
         /\ increment(t) = IF t + 1 = TidCount THEN 0 ELSE t + 1
<1>1. TidCount \in Nat /\ t \in 0 .. TidCount - 1
  BY Constants DEF Tids
<1>2. CASE t + 1 = TidCount
  BY <1>1, <1>2 DEF increment, Tids
<1>3. CASE t + 1 # TidCount
  <2>1. t + 1 \in 0 .. TidCount - 1
    BY <1>1, <1>3
  <2>2. (t + 1) % TidCount = t + 1
    BY <1>1, <2>1
  <2>3. QED
    BY <1>3, <2>1, <2>2 DEF increment, Tids
<1>4. QED
  BY <1>2, <1>3

LEMMA DistanceIs ==
  ASSUME NEW a \in Tids, NEW b \in Tids
  PROVE  /\ computeForwardDistance(a, b) \in 0 .. TidCount - 1
         /\ computeForwardDistance(a, b) = IF b >= a THEN b - a ELSE b - a + TidCount
BY Constants DEF computeForwardDistance, Tids

\* The same distance to a third identifier is the same identifier.
LEMMA DistanceTells ==
  ASSUME NEW a \in Tids, NEW b \in Tids, NEW c \in Tids,
         computeForwardDistance(a, c) = computeForwardDistance(b, c)
  PROVE  a = b
BY Constants DEF computeForwardDistance, Tids

LEMMA DistanceGrows ==
  ASSUME NEW a \in Tids, NEW b \in Tids, computeForwardDistance(a, b) < TidCount - 1
  PROVE  computeForwardDistance(a, increment(b)) = computeForwardDistance(a, b) + 1
BY Constants, IncrementIs DEF computeForwardDistance, Tids

LEMMA DistanceShrinks ==
  ASSUME NEW a \in Tids, NEW b \in Tids, computeForwardDistance(a, b) > 0
  PROVE  computeForwardDistance(increment(a), b) = computeForwardDistance(a, b) - 1
BY Constants, IncrementIs DEF computeForwardDistance, Tids

\* The distance of two identifiers by their distances to a third.
LEMMA DistanceBetween ==
  ASSUME NEW a \in Tids, NEW b \in Tids, NEW c \in Tids
  PROVE  LET x == computeForwardDistance(a, c)
             y == computeForwardDistance(b, c)
         IN  computeForwardDistance(a, b) = IF x >= y THEN x - y ELSE x - y + TidCount
BY Constants DEF computeForwardDistance, Tids

-----------------------------------------------------------------------------
(***************************************************************************)
(* The invariant.  Transfer n was sent with an identifier whose distance   *)
(* to the next one is sent + 1 - n, which is less than TidCount as long as *)
(* a frame of it is on its way or the receiver has not timed out: what the *)
(* publishers may still send now bounds what they have sent since.         *)
(***************************************************************************)

\* The number of transfers sent since the one that the receiver expects, which
\* is of no meaning once it has timed out.
Dist == computeForwardDistance(recv.tid, tid)
Expected == sent + 1 - Dist

\* A frame on interface i, and a receiver.
FrameType(i) ==
  [iface : {i}, n : Nat, k : Nat, tid : Tids, toggle : 0 .. 1,
   sot : BOOLEAN, eot : BOOLEAN, age : Nat]

Listened == Ifaces \cup {"none"}
Bits == 0 .. 1
Ages == 0 .. TidTimeout + 1
Unit == Nat \X Nat
Buffers == Seq(Unit)

ReceiverType ==
  [iface : Listened, tid : Tids, toggle : Bits, pos : Nat, crc : Nat, age : Ages, buf : Buffers]

HeardType == [iface : Listened, n : Nat, k : Nat, whole : BOOLEAN]

BusType == DOMAIN bus = Ifaces /\ \A i \in Ifaces : bus[i] \in Seq(FrameType(i))

Typed ==
  /\ <<numTxMailboxes, ifaces>> \in Nodes
  /\ tid \in Tids /\ quiet \in 0 .. Lifetime /\ credit \in 0 .. Burst
  /\ BusType
  /\ recv \in ReceiverType
  /\ sent \in 0 .. MaxTransfers
  /\ got \in [Ifaces -> Seq(Nat)] /\ top \in [Ifaces -> Nat]
  /\ heard \in HeardType

FrameInv(f) ==
  /\ f.n \in 1 .. sent /\ f.k # 0
  /\ f.toggle = (f.k - 1) % 2 /\ (f.sot <=> f.k = 1)
  /\ computeForwardDistance(f.tid, tid) = sent + 1 - f.n
  /\ f.age <= MaxLag /\ quiet <= f.age /\ credit + sent - f.n <= f.age + Burst - 1

Before(f, g) ==
  /\ f.n <= g.n
  /\ g.sot \/ f.eot => f.n < g.n
  /\ f.n = g.n => f.k < g.k

BusInv ==
  \A i \in Ifaces :
    /\ \A x \in 1 .. Len(bus[i]) : FrameInv(bus[i][x])
    /\ \A x, y \in 1 .. Len(bus[i]) : x < y => Before(bus[i][x], bus[i][y])

RecvInv ==
  /\ recv.toggle = recv.pos % 2 /\ recv.pos <= Len(recv.buf)
  /\ \A j \in 1 .. Len(recv.buf) : recv.buf[j][1] <= sent

\* A receiver that has not timed out: its interface has no older transfer to
\* begin, but for those that a later one overtook, and not again the one that
\* was begun.
LiveInv ==
  ~isTimedOut(recv) =>
    /\ recv.iface \in Ifaces
    /\ Dist + credit <= recv.age + MaxLag + Burst /\ quiet <= recv.age + MaxLag
    /\ recv.pos > 0 => Dist > 0
    /\ \A x \in 1 .. Len(bus[recv.iface]) :
         bus[recv.iface][x].sot /\ bus[recv.iface][x].n > top[recv.iface] =>
           /\ bus[recv.iface][x].n >= Expected
           /\ bus[recv.iface][x].n = Expected => recv.pos = 0

\* With a single mailbox nothing overtakes, and the receiver expects a transfer
\* that was not delivered.
OrderInv ==
  numTxMailboxes = 1 =>
    /\ \A i \in Ifaces : top[i] = 0
    /\ ~isTimedOut(recv) => \A i \in Ifaces : \A j \in 1 .. Len(got[i]) : got[i][j] < Expected

\* The receiver began something after transfer n was sent: it times out only
\* when no frame of n can be on its way.
Settled(n) ==
  \A i \in Ifaces : \A x \in 1 .. Len(bus[i]) :
    bus[i][x].n <= n => bus[i][x].age >= recv.age

AgeInv ==
  /\ \A i \in Ifaces : \A j \in 1 .. Len(got[i]) : Settled(got[i][j])
  /\ \A j \in 1 .. Len(recv.buf) : recv.buf[j][2] = 1 => Settled(recv.buf[j][1])
  /\ heard.n <= sent /\ Settled(heard.n)

\* The receiver has all that was heard of the transfer being read.
Follows ==
  /\ Expected = heard.n /\ recv.pos = heard.k /\ recv.crc = heard.n
  /\ Len(recv.buf) >= heard.k
  /\ \A j \in 1 .. heard.k : recv.buf[j] = <<heard.n, j>>

HasGot(i, n) == i \in Ifaces /\ \E j \in 1 .. Len(got[i]) : got[i][j] = n

HeardInv ==
  /\ heard.whole => HasGot(heard.iface, heard.n)
  /\ \A i \in Ifaces : \A x \in 1 .. Len(bus[i]) :
       heard.iface = i /\ recv.iface = i /\ bus[i][x].n = heard.n /\ bus[i][x].k = heard.k + 1
         => Follows

\* The last frame of what was delivered is not on its way.
OnceInv ==
  \A i \in Ifaces : \A j \in 1 .. Len(got[i]) :
    /\ got[i][j] \in 1 .. sent
    /\ \A x \in 1 .. Len(bus[i]) : bus[i][x].eot => bus[i][x].n # got[i][j]

\* The older transfers that came after the j-th one delivered from interface i.
Late(i, j) == Cardinality(Link!OlderAfter(got[i], j))

\* Every older transfer that still comes takes one of the places in front of it.
WindowInv ==
  \A i \in Ifaces : \A j \in 1 .. Len(got[i]) :
    /\ Late(i, j) < numTxMailboxes
    /\ \A x \in 1 .. Len(bus[i]) :
         bus[i][x].n < got[i][j] => x + Late(i, j) < numTxMailboxes

IInv ==
  /\ Typed /\ BusInv /\ RecvInv /\ LiveInv /\ OrderInv /\ AgeInv /\ HeardInv
  /\ OnceInv /\ WindowInv

-----------------------------------------------------------------------------
LEMMA FrameOf ==
  ASSUME Typed, BusInv, NEW i \in Ifaces, NEW x \in 1 .. Len(bus[i])
  PROVE  /\ bus[i][x] \in FrameType(i) /\ bus[i][x].iface = i
         /\ bus[i][x].n \in 1 .. sent /\ bus[i][x].n \in Nat
         /\ bus[i][x].k \in Nat /\ bus[i][x].k > 0
         /\ bus[i][x].tid \in Tids
         /\ computeForwardDistance(bus[i][x].tid, tid) = sent + 1 - bus[i][x].n
         /\ bus[i][x].toggle \in 0 .. 1 /\ bus[i][x].toggle = (bus[i][x].k - 1) % 2
         /\ bus[i][x].sot \in BOOLEAN /\ (bus[i][x].sot <=> bus[i][x].k = 1)
         /\ bus[i][x].eot \in BOOLEAN
         /\ bus[i][x].age \in 0 .. MaxLag /\ quiet <= bus[i][x].age
         /\ credit + sent - bus[i][x].n <= bus[i][x].age + Burst - 1
<1> DEFINE f == bus[i][x]
<1>1. f \in FrameType(i)
  BY DEF Typed, BusType
<1>2. FrameInv(f)
  BY DEF BusInv
<1> HIDE DEF f
<1>3. /\ f.iface = i /\ f.n \in Nat /\ f.k \in Nat /\ f.tid \in Tids /\ f.toggle \in 0 .. 1
      /\ f.sot \in BOOLEAN /\ f.eot \in BOOLEAN /\ f.age \in Nat
  BY <1>1 DEF FrameType
<1>4. f.age \in 0 .. MaxLag /\ f.k > 0
  BY <1>2, <1>3, Constants DEF FrameInv
<1>5. QED
  BY <1>1, <1>2, <1>3, <1>4 DEF FrameInv, f

\* What has been sent since a frame on its way.
LEMMA SinceSent ==
  ASSUME Typed, BusInv, NEW i \in Ifaces, NEW x \in 1 .. Len(bus[i])
  PROVE  sent + 1 - bus[i][x].n + credit <= MaxLag + Burst /\ quiet <= MaxLag
<1>1. /\ bus[i][x].n \in Nat /\ bus[i][x].age \in Nat /\ bus[i][x].age <= MaxLag
      /\ quiet <= bus[i][x].age /\ credit + sent - bus[i][x].n <= bus[i][x].age + Burst - 1
  BY FrameOf, Times
<1>2. \A n, a \in Nat : a <= MaxLag /\ quiet <= a /\ credit + sent - n <= a + Burst - 1
                         => sent + 1 - n + credit <= MaxLag + Burst /\ quiet <= MaxLag
  BY Constants DEF Typed
<1>3. QED
  BY <1>1, <1>2, Zenon

LEMMA ReceiverOf ==
  ASSUME Typed
  PROVE  /\ recv.iface \in Ifaces \cup {"none"} /\ recv.tid \in Tids
         /\ recv.toggle \in 0 .. 1 /\ recv.pos \in Nat /\ recv.crc \in Nat
         /\ recv.age \in 0 .. TidTimeout + 1 /\ recv.buf \in Seq(Nat \X Nat)
         /\ Len(recv.buf) \in Nat
         /\ Dist \in 0 .. TidCount - 1 /\ Expected \in Int
<1>1. recv \in ReceiverType /\ tid \in Tids /\ sent \in Nat
  BY Constants DEF Typed
<1>2. /\ recv.iface \in Ifaces \cup {"none"} /\ recv.tid \in Tids
      /\ recv.toggle \in 0 .. 1 /\ recv.pos \in Nat /\ recv.crc \in Nat
      /\ recv.age \in 0 .. TidTimeout + 1 /\ recv.buf \in Seq(Nat \X Nat)
  BY <1>1 DEF ReceiverType, Listened, Bits, Ages, Buffers, Unit
<1>3. Dist \in 0 .. TidCount - 1
  BY <1>1, <1>2, DistanceIs DEF Dist
<1>4. QED
  BY <1>1, <1>2, <1>3, Constants DEF Expected

\* A unit of the buffer.
LEMMA UnitOf ==
  ASSUME Typed, NEW j \in 1 .. Len(recv.buf)
  PROVE  recv.buf[j][1] \in Nat /\ recv.buf[j][2] \in Nat
<1>1. recv.buf[j] \in Nat \X Nat
  BY ReceiverOf
<1>2. QED
  BY <1>1

\* What was delivered from an interface.
LEMMA GotOf ==
  ASSUME Typed, NEW i \in Ifaces
  PROVE  /\ got[i] \in Seq(Nat) /\ Len(got[i]) \in Nat
         /\ \A j \in 1 .. Len(got[i]) : got[i][j] \in Nat
BY DEF Typed

LEMMA NodeOf ==
  ASSUME Typed
  PROVE  numTxMailboxes \in Nat /\ numTxMailboxes > 0 /\ ifaces \subseteq Ifaces
<1>1. <<numTxMailboxes, ifaces>> \in (Nat \ {0}) \X SUBSET Ifaces
  BY TransferLinkAssumption DEF Typed
<1>2. QED
  BY <1>1

\* When the receiver has timed out nothing that was sent before it began is on
\* its way.
LEMMA NothingStale ==
  ASSUME Typed, BusInv, isTimedOut(recv), NEW n \in Nat, Settled(n),
         NEW i \in Ifaces, NEW x \in 1 .. Len(bus[i])
  PROVE  bus[i][x].n > n
<1>1. bus[i][x].age \in 0 .. MaxLag /\ bus[i][x].n \in Nat /\ recv.age \in Nat
  BY FrameOf, ReceiverOf
<1>2. bus[i][x].n <= n => bus[i][x].age >= recv.age
  BY DEF Settled
<1>3. QED
  BY SMTT(30), <1>1, <1>2, Constants DEF isTimedOut

LEMMA InitInv == Init => IInv
<1> SUFFICES ASSUME Init PROVE IInv
  OBVIOUS
<1>1. \A i \in Ifaces : bus[i] = <<>> /\ got[i] = <<>> /\ top[i] = 0
  BY DEF Init
<1>2. \A i \in Ifaces : Len(bus[i]) = 0 /\ Len(got[i]) = 0
  BY <1>1
<1>3. /\ recv.iface = "none" /\ recv.tid = 0 /\ recv.toggle = 0 /\ recv.pos = 0
      /\ recv.crc = 0 /\ recv.age = TidTimeout + 1 /\ recv.buf = <<>>
  BY DEF Init, NoReceiver
<1>4. Typed
  <2>1. <<>> \in Buffers /\ 0 \in Tids /\ 0 \in Bits /\ TidTimeout + 1 \in Ages /\ "none" \in Listened
    BY Times DEF Tids, Buffers, Bits, Ages, Listened
  <2>2. recv \in ReceiverType
    BY <2>1 DEF Init, NoReceiver, ReceiverType
  <2>3. BusType
    BY <1>1 DEF Init, BusType
  <2>4. heard \in HeardType
    BY <2>1 DEF Init, Nothing, HeardType
  <2>5. tid \in Tids /\ quiet \in 0 .. Lifetime /\ credit \in 0 .. Burst
    <3>1. FirstTids \subseteq 0 .. TidCount - 1
      BY TransferLinkAssumption
    <3>2. QED
      BY <3>1, Times DEF Init, Tids
  <2>6. <<numTxMailboxes, ifaces>> \in Nodes
    <3>1. PICK node \in Nodes : numTxMailboxes = node[1] /\ ifaces = node[2]
      BY DEF Init
    <3>2. Nodes \subseteq (Nat \ {0}) \X SUBSET Ifaces
      BY TransferLinkAssumption
    <3>3. node = <<node[1], node[2]>>
      BY <3>2
    <3>4. QED
      BY <3>1, <3>3
  <2>7. got \in [Ifaces -> Seq(Nat)] /\ top \in [Ifaces -> Nat]
    BY DEF Init
  <2>8. QED
    BY <2>2, <2>3, <2>4, <2>5, <2>6, <2>7, Constants DEF Init, Typed
<1>5. BusInv /\ OnceInv /\ WindowInv
  BY <1>2 DEF BusInv, OnceInv, WindowInv
<1>6. RecvInv
  <2>1. Len(recv.buf) = 0 /\ 0 % 2 = 0
    BY <1>3
  <2>2. QED
    BY <1>3, <2>1 DEF RecvInv
<1>7. LiveInv /\ OrderInv
  <2>1. isTimedOut(recv)
    BY <1>3, Times DEF isTimedOut
  <2>2. QED
    BY <1>1, <2>1 DEF LiveInv, OrderInv
<1>8. AgeInv
  <2>1. \A n : Settled(n)
    BY <1>2 DEF Settled
  <2>2. heard.n <= sent
    BY DEF Init, Nothing
  <2>3. QED
    BY <1>2, <1>3, <2>1, <2>2 DEF AgeInv
<1>9. HeardInv
  BY <1>2 DEF Init, HeardInv, Nothing
<1>10. QED
  BY <1>4, <1>5, <1>6, <1>7, <1>8, <1>9 DEF IInv

-----------------------------------------------------------------------------
(* How many older transfers came late.                                      *)
LEMMA LateIn ==
  ASSUME NEW s \in Seq(Nat), NEW j \in 1 .. Len(s)
  PROVE  /\ IsFiniteSet(Link!OlderAfter(s, j)) /\ Cardinality(Link!OlderAfter(s, j)) \in Nat
         /\ Len(s) + 1 \notin Link!OlderAfter(s, j)
<1>1. Link!OlderAfter(s, j) \subseteq 1 .. Len(s)
  BY DEF Link!OlderAfter
<1>2. IsFiniteSet(1 .. Len(s)) /\ Len(s) \in Nat
  BY FS_Interval
<1>3. IsFiniteSet(Link!OlderAfter(s, j))
  BY <1>1, <1>2, FS_Subset
<1>4. QED
  BY <1>1, <1>2, <1>3, FS_CardinalityType

LEMMA LateIs ==
  ASSUME Typed, NEW i \in Ifaces, NEW j \in 1 .. Len(got[i])
  PROVE  Late(i, j) \in Nat
BY GotOf, LateIn DEF Late

\* What one more delivery makes of it.
LEMMA LateAppend ==
  ASSUME NEW s \in Seq(Nat), NEW n \in Nat, NEW j \in 1 .. Len(s) + 1
  PROVE  Cardinality(Link!OlderAfter(Append(s, n), j))
           = IF j = Len(s) + 1 THEN 0
             ELSE IF n < s[j] THEN Cardinality(Link!OlderAfter(s, j)) + 1
             ELSE Cardinality(Link!OlderAfter(s, j))
<1> DEFINE t == Append(s, n)
<1>1. /\ Len(s) \in Nat /\ Len(t) = Len(s) + 1 /\ t[Len(s) + 1] = n
      /\ \A k \in 1 .. Len(s) : t[k] = s[k]
  OBVIOUS
<1> HIDE DEF t
<1>2. Link!OlderAfter(t, j) = {k \in j + 1 .. Len(s) + 1 : t[k] < t[j]}
  BY <1>1 DEF Link!OlderAfter
<1>3. CASE j = Len(s) + 1
  <2>1. Link!OlderAfter(t, j) = {}
    BY <1>1, <1>2, <1>3
  <2>2. QED
    BY <1>3, <2>1, FS_EmptySet DEF t
<1>4. CASE j # Len(s) + 1
  <2>1. j \in 1 .. Len(s)
    BY <1>1, <1>4
  <2>2. Link!OlderAfter(s, j) = {k \in j + 1 .. Len(s) : s[k] < s[j]}
    BY DEF Link!OlderAfter
  <2>3. CASE n < s[j]
    <3>0. ASSUME NEW k
          PROVE  k \in j + 1 .. Len(s) + 1 /\ t[k] < t[j]
                   <=> (k \in j + 1 .. Len(s) /\ s[k] < s[j]) \/ k = Len(s) + 1
      <4>1. CASE k = Len(s) + 1
        BY <1>1, <2>1, <2>3, <4>1
      <4>2. CASE k # Len(s) + 1
        BY <1>1, <2>1, <4>2
      <4>3. QED
        BY <4>1, <4>2
    <3>1. Link!OlderAfter(t, j) = Link!OlderAfter(s, j) \cup {Len(s) + 1}
      BY <1>2, <2>2, <3>0
    <3>2. Cardinality(Link!OlderAfter(t, j)) = Cardinality(Link!OlderAfter(s, j)) + 1
      BY <2>1, <3>1, LateIn, FS_AddElement
    <3>3. QED
      BY <1>4, <2>3, <3>2 DEF t
  <2>4. CASE ~(n < s[j])
    <3>1. Link!OlderAfter(t, j) = Link!OlderAfter(s, j)
      BY <1>1, <1>2, <2>1, <2>2, <2>4
    <3>2. QED
      BY <1>4, <2>4, <3>1 DEF t
  <2>5. QED
    BY <2>3, <2>4
<1>5. QED
  BY <1>3, <1>4

-----------------------------------------------------------------------------
(* Frames leave the bus.                                                    *)
LEMMA RemoveAtIs ==
  ASSUME NEW S, NEW s \in Seq(S), NEW k \in 1 .. Len(s)
  PROVE  /\ RemoveAt(s, k) \in Seq(S)
         /\ Len(RemoveAt(s, k)) = Len(s) - 1
         /\ \A y \in 1 .. Len(s) - 1 :
              RemoveAt(s, k)[y] = IF y < k THEN s[y] ELSE s[y + 1]
<1> DEFINE a == SubSeq(s, 1, k - 1)
           b == SubSeq(s, k + 1, Len(s))
           c == a \o b
<1>1. a \in Seq(S) /\ Len(a) = k - 1 /\ \A y \in 1 .. k - 1 : a[y] = s[y]
  OBVIOUS
<1>2. b \in Seq(S) /\ Len(b) = Len(s) - k /\ \A y \in 1 .. Len(s) - k : b[y] = s[k + y]
  OBVIOUS
<1>3. RemoveAt(s, k) = c
  BY DEF RemoveAt
<1> HIDE DEF a, b
<1>4. /\ c \in Seq(S) /\ Len(c) = Len(a) + Len(b)
      /\ \A y \in 1 .. Len(a) + Len(b) : c[y] = IF y <= Len(a) THEN a[y] ELSE b[y - Len(a)]
  BY <1>1, <1>2, ConcatProperties, Zenon
<1> HIDE DEF c
<1>5. Len(a) + Len(b) = Len(s) - 1
  BY <1>1, <1>2
<1>6. ASSUME NEW y \in 1 .. Len(s) - 1
      PROVE  c[y] = IF y < k THEN s[y] ELSE s[y + 1]
  <2>1. CASE y < k
    BY <1>1, <1>4, <1>5, <2>1
  <2>2. CASE y >= k
    <3>1. y - Len(a) \in 1 .. Len(s) - k /\ k + (y - Len(a)) = y + 1
      BY <1>1, <2>2
    <3>2. c[y] = b[y - Len(a)]
      BY <1>1, <1>4, <1>5, <2>2
    <3>3. b[y - Len(a)] = s[k + (y - Len(a))]
      BY <1>2, <3>1
    <3>4. c[y] = s[y + 1]
      BY <3>1, <3>2, <3>3
    <3>5. QED
      BY <2>2, <3>4
  <2>3. QED
    BY <2>1, <2>2
<1>7. c \in Seq(S) /\ Len(c) = Len(s) - 1
  BY <1>4, <1>5
<1>8. QED
  BY <1>3, <1>6, <1>7, Zenon

\* The frame at place x of interface i, if any, is taken.
Takes1(i, x) == x \in 1 .. Len(bus[i]) /\ bus' = [bus EXCEPT ![i] = RemoveAt(@, x)]

Shrinks == bus' = bus \/ \E i \in Ifaces : \E x \in 1 .. Len(bus[i]) : Takes1(i, x)

LEMMA TakeIs ==
  ASSUME BusType, NEW i \in Ifaces, NEW x \in 1 .. Len(bus[i]), Takes1(i, x)
  PROVE  /\ BusType'
         /\ \A h \in Ifaces : h # i => bus'[h] = bus[h]
         /\ Len(bus'[i]) = Len(bus[i]) - 1 /\ Len(bus[i]) \in Nat
         /\ \A y \in 1 .. Len(bus'[i]) : bus'[i][y] = IF y < x THEN bus[i][y] ELSE bus[i][y + 1]
<1>1. DOMAIN bus' = Ifaces /\ \A h \in Ifaces : bus'[h] = IF h = i THEN RemoveAt(bus[i], x) ELSE bus[h]
  BY DEF BusType, Takes1
<1>2. bus[i] \in Seq(FrameType(i)) /\ Len(bus[i]) \in Nat
  BY DEF BusType
<1>3. /\ RemoveAt(bus[i], x) \in Seq(FrameType(i)) /\ Len(RemoveAt(bus[i], x)) = Len(bus[i]) - 1
      /\ \A y \in 1 .. Len(bus[i]) - 1 :
           RemoveAt(bus[i], x)[y] = IF y < x THEN bus[i][y] ELSE bus[i][y + 1]
  <2> HIDE DEF FrameType
  <2> QED
    BY <1>2, RemoveAtIs
<1>4. BusType'
  BY <1>1, <1>3 DEF BusType, FrameType
<1>5. QED
  BY <1>1, <1>2, <1>3, <1>4

LEMMA ShrinkIs ==
  ASSUME BusType, Shrinks
  PROVE  /\ BusType'
         /\ \A i \in Ifaces : \E x \in Nat : \A y \in 1 .. Len(bus'[i]) :
              /\ (IF y < x THEN y ELSE y + 1) \in 1 .. Len(bus[i])
              /\ bus'[i][y] = bus[i][IF y < x THEN y ELSE y + 1]
<1>1. CASE bus' = bus
  <2>1. BusType'
    BY <1>1 DEF BusType
  <2>2. ASSUME NEW i \in Ifaces
        PROVE  \E x \in Nat : \A y \in 1 .. Len(bus'[i]) :
                 /\ (IF y < x THEN y ELSE y + 1) \in 1 .. Len(bus[i])
                 /\ bus'[i][y] = bus[i][IF y < x THEN y ELSE y + 1]
    <3>1. Len(bus[i]) + 1 \in Nat /\ \A y \in 1 .. Len(bus'[i]) : y < Len(bus[i]) + 1
      BY <1>1 DEF BusType
    <3>2. QED
      BY <1>1, <3>1
  <2>3. QED
    BY <2>1, <2>2
<1>2. CASE \E h \in Ifaces : \E x \in 1 .. Len(bus[h]) : Takes1(h, x)
  <2>1. PICK h \in Ifaces : \E x \in 1 .. Len(bus[h]) : Takes1(h, x)
    BY <1>2
  <2>2. PICK x \in 1 .. Len(bus[h]) : Takes1(h, x)
    BY <2>1
  <2>3. /\ BusType' /\ \A i \in Ifaces : i # h => bus'[i] = bus[i]
        /\ Len(bus'[h]) = Len(bus[h]) - 1 /\ Len(bus[h]) \in Nat
        /\ \A y \in 1 .. Len(bus'[h]) : bus'[h][y] = IF y < x THEN bus[h][y] ELSE bus[h][y + 1]
    BY <2>2, TakeIs
  <2>4. ASSUME NEW i \in Ifaces, i # h
        PROVE  \E z \in Nat : \A y \in 1 .. Len(bus'[i]) :
                 /\ (IF y < z THEN y ELSE y + 1) \in 1 .. Len(bus[i])
                 /\ bus'[i][y] = bus[i][IF y < z THEN y ELSE y + 1]
    <3>1. Len(bus[i]) + 1 \in Nat /\ \A y \in 1 .. Len(bus'[i]) : y < Len(bus[i]) + 1
      BY <2>3, <2>4 DEF BusType
    <3>2. QED
      BY <2>3, <2>4, <3>1
  <2>5. x \in Nat /\ \A y \in 1 .. Len(bus'[h]) :
          /\ (IF y < x THEN y ELSE y + 1) \in 1 .. Len(bus[h])
          /\ bus'[h][y] = bus[h][IF y < x THEN y ELSE y + 1]
    BY <2>3
  <2>6. QED
    BY <2>3, <2>4, <2>5
<1>3. QED
  BY <1>1, <1>2 DEF Shrinks

LEMMA ShrinkLeaves ==
  ASSUME BusType, Shrinks, NEW i \in Ifaces, NEW x \in 1 .. Len(bus'[i])
  PROVE  \E y \in 1 .. Len(bus[i]) : x <= y /\ bus'[i][x] = bus[i][y]
<1>1. PICK z \in Nat :
        /\ (IF x < z THEN x ELSE x + 1) \in 1 .. Len(bus[i])
        /\ bus'[i][x] = bus[i][IF x < z THEN x ELSE x + 1]
  BY ShrinkIs
<1>2. x <= IF x < z THEN x ELSE x + 1
  OBVIOUS
<1>3. QED
  BY <1>1, <1>2

LEMMA ShrinkBus ==
  ASSUME Typed, BusInv, Shrinks, UNCHANGED <<tid, quiet, credit, sent>>
  PROVE  BusInv'
<1>1. ASSUME NEW i \in Ifaces, NEW x \in 1 .. Len(bus'[i])
      PROVE  FrameInv(bus[i][x])'
  <2>1. PICK y \in 1 .. Len(bus[i]) : bus'[i][x] = bus[i][y]
    BY ShrinkLeaves DEF Typed
  <2>2. FrameInv(bus[i][y])
    BY DEF BusInv
  <2>3. QED
    BY <2>1, <2>2 DEF FrameInv
<1>2. ASSUME NEW i \in Ifaces, NEW x \in 1 .. Len(bus'[i]), NEW y \in 1 .. Len(bus'[i]), x < y
      PROVE  Before(bus[i][x], bus[i][y])'
  <2>1. PICK d \in Nat : \A z \in 1 .. Len(bus'[i]) :
          /\ (IF z < d THEN z ELSE z + 1) \in 1 .. Len(bus[i])
          /\ bus'[i][z] = bus[i][IF z < d THEN z ELSE z + 1]
    BY ShrinkIs DEF Typed
  <2> DEFINE u == IF x < d THEN x ELSE x + 1
             v == IF y < d THEN y ELSE y + 1
  <2>2. u < v
    BY <1>2
  <2>3. u \in 1 .. Len(bus[i]) /\ v \in 1 .. Len(bus[i]) /\ bus'[i][x] = bus[i][u] /\ bus'[i][y] = bus[i][v]
    BY <2>1
  <2> HIDE DEF u, v
  <2>4. Before(bus[i][u], bus[i][v])
    BY <2>2, <2>3 DEF BusInv
  <2>5. QED
    BY <2>3, <2>4 DEF Before
<1>3. QED
  BY <1>1, <1>2 DEF BusInv

\* What was settled stays so when the receiver gets no older.
LEMMA ShrinkSettles ==
  ASSUME Typed, Shrinks, NEW n, Settled(n), recv'.age = recv.age
  PROVE  Settled(n)'
<1> SUFFICES ASSUME NEW i \in Ifaces, NEW x \in 1 .. Len(bus'[i]), bus'[i][x].n <= n
             PROVE  bus'[i][x].age >= recv'.age
  BY DEF Settled
<1>1. PICK y \in 1 .. Len(bus[i]) : bus'[i][x] = bus[i][y]
  BY ShrinkLeaves DEF Typed
<1>2. QED
  BY <1>1 DEF Settled

\* Nothing is on its way of the transfer that is read when none is.
LEMMA NothingSettled ==
  ASSUME Typed, BusInv
  PROVE  Nothing.n = 0 /\ ~Nothing.whole /\ Settled(0) /\ Nothing \in HeardType
         /\ \A i \in Ifaces : \A x \in 1 .. Len(bus[i]) : bus[i][x].n # 0
<1>1. \A i \in Ifaces : \A x \in 1 .. Len(bus[i]) : bus[i][x].n \in 1 .. sent
  BY FrameOf
<1>2. \A i \in Ifaces : \A x \in 1 .. Len(bus[i]) : bus[i][x].n # 0 /\ ~(bus[i][x].n <= 0)
  BY <1>1
<1>3. QED
  BY <1>2 DEF Nothing, Settled, HeardType, Listened

\* When nothing is delivered, what is on its way is there already and comes no
\* later, or is newly sent.
LEMMA GotKept ==
  ASSUME Typed, OnceInv, WindowInv, UNCHANGED <<numTxMailboxes, got>>, sent' \in Nat, sent' >= sent,
         \A i \in Ifaces : \A x \in 1 .. Len(bus'[i]) :
           \/ bus'[i][x].n = sent + 1
           \/ \E y \in 1 .. Len(bus[i]) :
                x <= y /\ bus'[i][x].n = bus[i][y].n /\ bus'[i][x].eot = bus[i][y].eot
  PROVE  OnceInv' /\ WindowInv'
<1>1. sent \in Nat /\ numTxMailboxes \in Nat
  BY NodeOf, Constants DEF Typed
<1>2. ASSUME NEW i \in Ifaces, NEW j \in 1 .. Len(got[i]), NEW x \in 1 .. Len(bus'[i])
      PROVE  /\ bus'[i][x].eot => bus'[i][x].n # got[i][j]
             /\ bus'[i][x].n < got[i][j] => x + Late(i, j) < numTxMailboxes
  <2>1. got[i][j] \in 1 .. sent
    BY DEF OnceInv
  <2>2. CASE bus'[i][x].n = sent + 1
    BY <1>1, <2>1, <2>2
  <2>3. CASE \E y \in 1 .. Len(bus[i]) :
               x <= y /\ bus'[i][x].n = bus[i][y].n /\ bus'[i][x].eot = bus[i][y].eot
    <3>1. PICK y \in 1 .. Len(bus[i]) :
               x <= y /\ bus'[i][x].n = bus[i][y].n /\ bus'[i][x].eot = bus[i][y].eot
      BY <2>3
    <3>2. bus[i][y].eot => bus[i][y].n # got[i][j]
      BY DEF OnceInv
    <3>3. bus[i][y].n < got[i][j] => y + Late(i, j) < numTxMailboxes
      BY DEF WindowInv
    <3>4. Late(i, j) \in Nat
      BY LateIs
    <3>5. QED
      BY <1>1, <3>1, <3>2, <3>3, <3>4
  <2>4. QED
    BY <2>2, <2>3
<1>3. \A i \in Ifaces : \A j \in 1 .. Len(got[i]) :
        got[i][j] \in 1 .. sent' /\ Late(i, j) < numTxMailboxes
  BY <1>1 DEF OnceInv, WindowInv
<1>4. \A i, j : Late(i, j)' = Late(i, j)
  BY DEF Late, Link!OlderAfter
<1>5. OnceInv'
  BY <1>2, <1>3 DEF OnceInv
<1>6. WindowInv'
  BY <1>2, <1>3, <1>4 DEF WindowInv
<1>7. QED
  BY <1>5, <1>6

LEMMA ShrinkGot ==
  ASSUME Typed, OnceInv, WindowInv, Shrinks, UNCHANGED <<numTxMailboxes, got, sent>>
  PROVE  OnceInv' /\ WindowInv'
<1>1. sent' \in Nat /\ sent' >= sent
  BY Constants DEF Typed
<1>2. \A i \in Ifaces : \A x \in 1 .. Len(bus'[i]) : \E y \in 1 .. Len(bus[i]) :
        x <= y /\ bus'[i][x].n = bus[i][y].n /\ bus'[i][x].eot = bus[i][y].eot
  BY ShrinkLeaves DEF Typed
<1>3. QED
  BY <1>1, <1>2, GotKept

LEMMA ShrinkKeeps ==
  ASSUME IInv, Shrinks,
         UNCHANGED <<numTxMailboxes, ifaces, tid, quiet, credit, recv, sent, got>>,
         top' \in [Ifaces -> Nat], \A i \in Ifaces : top'[i] >= top[i],
         numTxMailboxes = 1 => top' = top, heard' \in {heard, Nothing}
  PROVE  IInv'
<1>1. Typed /\ BusInv /\ Typed'
  <2>1. Typed /\ BusInv
    BY DEF IInv
  <2>2. BusType' /\ heard' \in HeardType
    BY <2>1, ShrinkIs, NothingSettled DEF Typed
  <2>3. QED
    BY <2>1, <2>2 DEF Typed, ReceiverType
<1>2. BusInv'
  BY <1>1, ShrinkBus
<1>3. RecvInv'
  BY DEF IInv, RecvInv
<1>4. LiveInv'
  <2> SUFFICES ASSUME ~isTimedOut(recv) PROVE LiveInv'
    BY DEF LiveInv, isTimedOut
  <2>1. recv.iface \in Ifaces
    BY DEF IInv, LiveInv
  <2>2. ASSUME NEW x \in 1 .. Len(bus'[recv.iface]),
               bus'[recv.iface][x].sot, bus'[recv.iface][x].n > top'[recv.iface]
        PROVE  /\ bus'[recv.iface][x].n >= Expected
               /\ bus'[recv.iface][x].n = Expected => recv.pos = 0
    <3>1. PICK y \in 1 .. Len(bus[recv.iface]) : bus'[recv.iface][x] = bus[recv.iface][y]
      BY <1>1, <2>1, ShrinkLeaves DEF Typed
    <3>2. bus[recv.iface][y].n > top[recv.iface]
      <4>1. /\ bus[recv.iface][y].n \in Nat /\ top[recv.iface] \in Nat /\ top'[recv.iface] \in Nat
            /\ top'[recv.iface] >= top[recv.iface]
        BY <1>1, <2>1, FrameOf DEF Typed
      <4>2. QED
        BY <2>2, <3>1, <4>1
    <3>3. QED
      BY <2>2, <3>1, <3>2 DEF IInv, LiveInv
  <2>3. QED
    BY <2>1, <2>2 DEF IInv, LiveInv, Dist, Expected
<1>5. OrderInv'
  BY DEF IInv, OrderInv, isTimedOut, Expected, Dist
<1>6. AgeInv'
  <2>1. \A n : Settled(n) => Settled(n)'
    BY <1>1, ShrinkSettles
  <2>2. \A j \in 1 .. Len(recv.buf) : recv.buf[j][2] = 1 => Settled(recv.buf[j][1])'
    BY <2>1 DEF IInv, AgeInv, Settled
  <2>3. \A i \in Ifaces : \A j \in 1 .. Len(got[i]) : Settled(got[i][j])'
    BY <2>1 DEF IInv, AgeInv, Settled
  <2>4. (heard.n <= sent)' /\ Settled(heard.n)'
    <3>1. heard.n <= sent /\ Settled(heard.n) /\ sent \in Nat
      BY <1>1, Constants DEF IInv, AgeInv, Typed
    <3>2. heard'.n <= sent /\ Settled(heard'.n)
      BY <1>1, <3>1, NothingSettled
    <3>3. QED
      BY <2>1, <3>2 DEF Settled
  <2>5. QED
    BY <2>2, <2>3, <2>4 DEF AgeInv
<1>7. HeardInv'
  <2>1. ASSUME NEW i \in Ifaces, NEW x \in 1 .. Len(bus'[i]), heard'.iface = i,
               recv.iface = i, bus'[i][x].n = heard'.n, bus'[i][x].k = heard'.k + 1
        PROVE  Follows'
    <3>1. PICK y \in 1 .. Len(bus[i]) : bus'[i][x] = bus[i][y]
      BY <1>1, ShrinkLeaves DEF Typed
    <3>2. heard' = heard
      BY <1>1, <2>1, <3>1, NothingSettled
    <3>3. Follows
      BY <2>1, <3>1, <3>2 DEF IInv, HeardInv
    <3>4. QED
      BY <3>2, <3>3 DEF Follows, Expected, Dist
  <2>2. heard'.whole => HasGot(heard.iface, heard.n)'
    BY <1>1, NothingSettled DEF IInv, HeardInv, HasGot
  <2>3. QED
    BY <2>1, <2>2 DEF HeardInv
<1>8. OnceInv' /\ WindowInv'
  BY <1>1, ShrinkGot DEF IInv
<1>9. QED
  BY <1>1, <1>2, <1>3, <1>4, <1>5, <1>6, <1>7, <1>8 DEF IInv

LEMMA WindowIs ==
  ASSUME Typed, NEW i \in Ifaces, NEW x \in Window(i)
  PROVE  x \in 1 .. Len(bus[i]) /\ x <= numTxMailboxes /\ (numTxMailboxes = 1 => x = 1)
<1>1. x \in 1 .. Len(bus[i]) /\ x <= numTxMailboxes
  BY DEF Window
<1>2. Len(bus[i]) \in Nat
  BY DEF Typed, BusType
<1>3. QED
  BY <1>1, <1>2

LEMMA LoseKeeps == IInv /\ (UNCHANGED vars \/ \E i \in Ifaces : \E x \in Window(i) : lose(i, x)) => IInv'
<1> SUFFICES ASSUME IInv PROVE UNCHANGED vars \/ (\E i \in Ifaces : \E x \in Window(i) : lose(i, x)) => IInv'
  OBVIOUS
<1>1. top \in [Ifaces -> Nat] /\ \A i \in Ifaces : top[i] >= top[i]
  BY DEF IInv, Typed
<1>2. ASSUME UNCHANGED vars PROVE IInv'
  BY <1>1, <1>2, ShrinkKeeps DEF vars, Shrinks
<1>3. ASSUME NEW i \in Ifaces, NEW x \in Window(i), lose(i, x) PROVE IInv'
  <2>1. x \in 1 .. Len(bus[i])
    BY WindowIs DEF IInv
  <2>2. Shrinks
    BY <1>3, <2>1 DEF lose, Shrinks, Takes1
  <2>3. QED
    BY <1>1, <1>3, <2>2, ShrinkKeeps DEF lose
<1>4. QED
  BY <1>2, <1>3

-----------------------------------------------------------------------------
(* The receiver and the sender's entry are removed.                         *)
LEMMA NoReceiverIs ==
  /\ NoReceiver \in ReceiverType
  /\ NoReceiver.iface = "none" /\ NoReceiver.toggle = 0 /\ NoReceiver.pos = 0
  /\ NoReceiver.age = TidTimeout + 1 /\ NoReceiver.buf = <<>> /\ Len(NoReceiver.buf) = 0
<1>1. <<>> \in Buffers /\ 0 \in Tids /\ 0 \in Bits /\ TidTimeout + 1 \in Ages /\ "none" \in Listened
  BY Times DEF Tids, Buffers, Bits, Ages, Listened
<1>2. QED
  BY <1>1 DEF NoReceiver, ReceiverType

LEMMA CleanupKeeps == IInv /\ cleanup => IInv'
<1> SUFFICES ASSUME IInv, cleanup PROVE IInv'
  OBVIOUS
<1>1. /\ isTimedOut(recv) /\ recv' = NoReceiver
      /\ UNCHANGED <<numTxMailboxes, ifaces, tid, quiet, credit, bus, sent, got, top, heard>>
  BY DEF cleanup
<1>2. recv'.age = recv.age /\ isTimedOut(recv)'
  <2>1. recv.age \in 0 .. TidTimeout + 1 /\ TidTimeout \in Nat /\ recv.age > TidTimeout
    BY <1>1, ReceiverOf, Constants DEF IInv, isTimedOut
  <2>2. recv.age = TidTimeout + 1
    BY <2>1
  <2>3. QED
    BY <1>1, <2>1, <2>2, NoReceiverIs DEF isTimedOut
<1>3. Typed'
  BY <1>1, NoReceiverIs DEF IInv, Typed, BusType, FrameType, ReceiverType, HeardType
<1>4. BusInv'
  BY <1>1 DEF IInv, BusInv, FrameInv, Before
<1>5. RecvInv'
  <2>1. 0 % 2 = 0
    OBVIOUS
  <2>2. QED
    BY <1>1, <2>1, NoReceiverIs DEF RecvInv
<1>6. LiveInv' /\ OrderInv'
  BY <1>1, <1>2 DEF IInv, LiveInv, OrderInv
<1>7. AgeInv'
  <2>1. \A n : Settled(n) => Settled(n)'
    BY <1>1, <1>2 DEF Settled
  <2>2. \A j \in 1 .. Len(recv'.buf) : FALSE
    BY <1>1, NoReceiverIs
  <2>3. (heard.n <= sent)' /\ Settled(heard.n)'
    BY <1>1, <1>2 DEF IInv, AgeInv, Settled
  <2>4. (\A i \in Ifaces : \A j \in 1 .. Len(got[i]) : Settled(got[i][j]))'
    BY <1>1, <2>1 DEF IInv, AgeInv, Settled
  <2>5. QED
    BY <2>2, <2>3, <2>4 DEF AgeInv
<1>8. HeardInv'
  BY <1>1, NoReceiverIs, Constants DEF IInv, HeardInv, HasGot
<1>9. OnceInv' /\ WindowInv'
  BY <1>1, ShrinkGot DEF IInv, Shrinks
<1>10. QED
  BY <1>3, <1>4, <1>5, <1>6, <1>7, <1>8, <1>9 DEF IInv

\* The sender's entry expires after everything that was sent has left the bus
\* and the receiver has timed out.
LEMMA RegistryCleanupKeeps == IInv /\ registryCleanup => IInv'
<1> SUFFICES ASSUME IInv, registryCleanup PROVE IInv'
  OBVIOUS
<1>1. /\ quiet >= Lifetime /\ tid' = 0
      /\ UNCHANGED <<numTxMailboxes, ifaces, quiet, credit, bus, recv, sent, got, top, heard>>
  BY DEF registryCleanup
<1>2. quiet \in Nat /\ sent \in Nat
  BY Constants DEF IInv, Typed
<1>3. ASSUME NEW i \in Ifaces, NEW x \in 1 .. Len(bus[i]) PROVE FALSE
  <2>1. quiet <= MaxLag
    BY SinceSent DEF IInv
  <2>2. QED
    BY <1>1, <1>2, <2>1, Times
<1>4. isTimedOut(recv)
  <2>1. recv.age \in 0 .. TidTimeout + 1
    BY ReceiverOf DEF IInv
  <2>2. ~isTimedOut(recv) => quiet <= recv.age + MaxLag
    BY DEF IInv, LiveInv
  <2>3. QED
    BY <1>1, <1>2, <2>1, <2>2, Times DEF isTimedOut
<1>5. Typed'
  <2>1. 0 \in Tids
    BY Times DEF Tids
  <2>2. QED
    BY <1>1, <2>1 DEF IInv, Typed, BusType, FrameType, ReceiverType, HeardType
<1>6. BusInv'
  BY <1>1, <1>3 DEF BusInv
<1>7. RecvInv' /\ LiveInv' /\ OrderInv'
  BY <1>1, <1>4 DEF IInv, RecvInv, LiveInv, OrderInv, isTimedOut
<1>8. AgeInv'
  BY <1>1 DEF IInv, AgeInv, Settled
<1>9. HeardInv'
  BY <1>1, <1>3 DEF IInv, HeardInv, HasGot
<1>10. OnceInv' /\ WindowInv'
  BY <1>1, ShrinkGot DEF IInv, Shrinks
<1>11. QED
  BY <1>5, <1>6, <1>7, <1>8, <1>9, <1>10 DEF IInv

-----------------------------------------------------------------------------
(* Time passes.                                                             *)
LEMMA OlderIs ==
  ASSUME NEW limit \in Nat, NEW age \in 0 .. limit
  PROVE  /\ Older(age, limit) \in 0 .. limit /\ Older(age, limit) <= age + 1
         /\ Older(age, limit) # limit => Older(age, limit) = age + 1
BY DEF Older

LEMMA TickBus ==
  ASSUME Typed, Tick
  PROVE  /\ BusType'
         /\ \A i \in Ifaces :
              /\ Len(bus'[i]) = Len(bus[i])
              /\ \A x \in 1 .. Len(bus[i]) :
                   /\ bus'[i][x].n = bus[i][x].n /\ bus'[i][x].k = bus[i][x].k
                   /\ bus'[i][x].tid = bus[i][x].tid /\ bus'[i][x].toggle = bus[i][x].toggle
                   /\ bus'[i][x].sot = bus[i][x].sot /\ bus'[i][x].eot = bus[i][x].eot
                   /\ bus'[i][x].age = bus[i][x].age + 1 /\ bus[i][x].age < MaxLag
<1>1. bus' = [i \in Ifaces |-> [k \in 1 .. Len(bus[i]) |-> [bus[i][k] EXCEPT !.age = @ + 1]]]
  BY DEF Tick
<1>2. ASSUME NEW i \in Ifaces
      PROVE  /\ bus'[i] \in Seq(FrameType(i)) /\ Len(bus'[i]) = Len(bus[i])
             /\ \A x \in 1 .. Len(bus[i]) :
                   /\ bus'[i][x].n = bus[i][x].n /\ bus'[i][x].k = bus[i][x].k
                   /\ bus'[i][x].tid = bus[i][x].tid /\ bus'[i][x].toggle = bus[i][x].toggle
                   /\ bus'[i][x].sot = bus[i][x].sot /\ bus'[i][x].eot = bus[i][x].eot
                   /\ bus'[i][x].age = bus[i][x].age + 1 /\ bus[i][x].age < MaxLag
  <2>1. bus[i] \in Seq(FrameType(i))
    BY DEF Typed, BusType
  <2>2. bus'[i] = [k \in 1 .. Len(bus[i]) |-> [bus[i][k] EXCEPT !.age = @ + 1]]
    BY <1>1
  <2>3. ASSUME NEW x \in 1 .. Len(bus[i])
        PROVE  /\ bus'[i][x] \in FrameType(i)
               /\ bus'[i][x].n = bus[i][x].n /\ bus'[i][x].k = bus[i][x].k
               /\ bus'[i][x].tid = bus[i][x].tid /\ bus'[i][x].toggle = bus[i][x].toggle
               /\ bus'[i][x].sot = bus[i][x].sot /\ bus'[i][x].eot = bus[i][x].eot
               /\ bus'[i][x].age = bus[i][x].age + 1
    <3>1. bus[i][x] \in FrameType(i)
      BY <2>1
    <3>2. bus'[i][x] = [bus[i][x] EXCEPT !.age = bus[i][x].age + 1]
      BY <2>2
    <3>3. QED
      BY SMTT(30), <3>1, <3>2 DEF FrameType
  <2>4. \A x \in 1 .. Len(bus[i]) : bus[i][x].age < MaxLag
    BY DEF Tick
  <2>5. Len(bus[i]) \in Nat
    BY <2>1
  <2>6. bus'[i] \in Seq(FrameType(i)) /\ Len(bus'[i]) = Len(bus[i])
    <3>1. \A x \in 1 .. Len(bus[i]) : bus'[i][x] \in FrameType(i)
      BY <2>3
    <3>2. bus'[i] \in [1 .. Len(bus[i]) -> FrameType(i)]
      BY <2>2, <3>1, Zenon
    <3> HIDE DEF FrameType
    <3>3. QED
      BY <2>5, <3>2
  <2>7. QED
    BY <2>3, <2>4, <2>6
<1>3. BusType'
  BY <1>1, <1>2 DEF BusType, FrameType
<1>4. QED
  BY <1>2, <1>3

LEMMA TickReceiver ==
  ASSUME Typed, Tick
  PROVE  /\ recv' \in ReceiverType
         /\ recv'.iface = recv.iface /\ recv'.tid = recv.tid /\ recv'.toggle = recv.toggle
         /\ recv'.pos = recv.pos /\ recv'.crc = recv.crc /\ recv'.buf = recv.buf
         /\ recv'.age <= recv.age + 1
         /\ ~isTimedOut(recv)' => recv'.age = recv.age + 1 /\ ~isTimedOut(recv)
<1>1. recv' = [recv EXCEPT !.age = Older(recv.age, TidTimeout + 1)]
  BY DEF Tick
<1>2. recv \in ReceiverType /\ recv.age \in 0 .. TidTimeout + 1 /\ TidTimeout + 1 \in Nat
  BY ReceiverOf, Constants DEF Typed
<1>3. /\ Older(recv.age, TidTimeout + 1) \in 0 .. TidTimeout + 1
      /\ Older(recv.age, TidTimeout + 1) <= recv.age + 1
      /\ Older(recv.age, TidTimeout + 1) # TidTimeout + 1
           => Older(recv.age, TidTimeout + 1) = recv.age + 1
  BY <1>2, OlderIs
<1> DEFINE a == Older(recv.age, TidTimeout + 1)
<1> HIDE DEF a
<1>4. /\ recv' \in ReceiverType
      /\ recv'.iface = recv.iface /\ recv'.tid = recv.tid /\ recv'.toggle = recv.toggle
      /\ recv'.pos = recv.pos /\ recv'.crc = recv.crc /\ recv'.buf = recv.buf
      /\ recv'.age = a
  BY <1>1, <1>2, <1>3 DEF ReceiverType, Ages, a
<1>5. QED
  BY <1>2, <1>3, <1>4, Constants DEF isTimedOut, a

LEMMA TickKeeps == IInv /\ Tick => IInv'
<1> SUFFICES ASSUME IInv, Tick PROVE IInv'
  OBVIOUS
<1>1. /\ Typed /\ BusInv
      /\ UNCHANGED <<numTxMailboxes, ifaces, tid, sent, got, top, heard>>
      /\ quiet \in 0 .. Lifetime /\ sent \in Nat /\ credit \in 0 .. Burst
  BY Constants DEF IInv, Typed, Tick
<1>2. /\ quiet' \in 0 .. Lifetime /\ quiet' <= quiet + 1
      /\ credit' \in 0 .. Burst /\ credit' <= credit + 1
  BY <1>1, OlderIs, Constants DEF Tick
<1>3. Typed'
  BY <1>1, <1>2, TickBus, TickReceiver DEF Typed, ReceiverType, Ages, HeardType
<1>4. BusInv'
  <2>1. ASSUME NEW i \in Ifaces, NEW x \in 1 .. Len(bus'[i])
        PROVE  FrameInv(bus[i][x])'
    <3>1. x \in 1 .. Len(bus[i])
      BY <1>1, TickBus
    <3>2. FrameInv(bus[i][x]) /\ bus[i][x].age \in Nat /\ bus[i][x].n \in Nat
      BY <1>1, <3>1, FrameOf DEF BusInv
    <3>3. /\ bus'[i][x].n = bus[i][x].n /\ bus'[i][x].k = bus[i][x].k
          /\ bus'[i][x].tid = bus[i][x].tid /\ bus'[i][x].toggle = bus[i][x].toggle
          /\ bus'[i][x].sot = bus[i][x].sot /\ bus'[i][x].eot = bus[i][x].eot
          /\ bus'[i][x].age = bus[i][x].age + 1 /\ bus[i][x].age < MaxLag
      BY <1>1, <3>1, TickBus
    <3>4. /\ quiet' <= bus[i][x].age + 1
          /\ credit' + sent - bus[i][x].n <= bus[i][x].age + 1 + Burst - 1
      <4>1. /\ quiet \in Int /\ quiet' \in Int /\ credit \in Int /\ credit' \in Int
            /\ sent \in Int /\ Burst \in Int /\ bus[i][x].n \in Int /\ bus[i][x].age \in Int
        <5>1. \A q \in 0 .. Lifetime : q \in Int
          BY Times
        <5>2. \A c \in 0 .. Burst : c \in Int
          BY Times
        <5>3. quiet \in Int /\ quiet' \in Int
          BY <1>1, <1>2, <5>1
        <5>4. credit \in Int /\ credit' \in Int
          BY <1>1, <1>2, <5>2
        <5>5. sent \in Int /\ Burst \in Int
          BY <1>1, Times
        <5>6. bus[i][x].n \in Int /\ bus[i][x].age \in Int
          BY <3>2
        <5>7. QED
          BY <5>3, <5>4, <5>5, <5>6
      <4>2. quiet <= bus[i][x].age /\ credit + sent - bus[i][x].n <= bus[i][x].age + Burst - 1
        BY <3>2 DEF FrameInv
      <4> DEFINE c == credit
                 d == credit'
                 q == quiet
                 r == quiet'
                 n == bus[i][x].n
                 a == bus[i][x].age
      <4>3. /\ c \in Int /\ d \in Int /\ q \in Int /\ r \in Int
            /\ n \in Int /\ a \in Int /\ sent \in Int /\ Burst \in Int
            /\ r <= q + 1 /\ q <= a
            /\ d <= c + 1 /\ c + sent - n <= a + Burst - 1
        BY <1>2, <4>1, <4>2
      <4> HIDE DEF c, d, q, r, n, a
      <4>4. r <= a + 1 /\ d + sent - n <= a + 1 + Burst - 1
        BY <4>3
      <4>5. QED
        BY <4>4 DEF d, r, n, a
    <3>5. bus'[i][x].age <= MaxLag
      BY <3>2, <3>3, Constants
    <3>6. QED
      BY <1>1, <3>2, <3>3, <3>4, <3>5 DEF FrameInv
  <2>2. ASSUME NEW i \in Ifaces, NEW x \in 1 .. Len(bus'[i]), NEW y \in 1 .. Len(bus'[i]), x < y
        PROVE  Before(bus[i][x], bus[i][y])'
    <3>1. x \in 1 .. Len(bus[i]) /\ y \in 1 .. Len(bus[i])
      BY <1>1, TickBus
    <3>2. Before(bus[i][x], bus[i][y])
      BY <2>2, <3>1, <1>1 DEF BusInv
    <3>3. QED
      BY <1>1, <3>1, <3>2, TickBus DEF Before
  <2>3. QED
    BY <2>1, <2>2 DEF BusInv
<1>5. RecvInv'
  BY <1>1, TickReceiver DEF IInv, RecvInv
<1>6. LiveInv' /\ OrderInv'
  <2>0. isTimedOut(recv)' => LiveInv' /\ OrderInv'
    BY <1>1 DEF IInv, LiveInv, OrderInv
  <2> SUFFICES ASSUME ~isTimedOut(recv)' PROVE LiveInv' /\ OrderInv'
    BY <2>0
  <2>1. recv'.age = recv.age + 1 /\ ~isTimedOut(recv) /\ recv.age \in Nat
    BY <1>1, TickReceiver, ReceiverOf
  <2>2. recv'.iface = recv.iface /\ recv'.pos = recv.pos /\ recv'.tid = recv.tid
    BY <1>1, TickReceiver
  <2>3. Dist' = Dist /\ Expected' = Expected /\ Dist \in Nat
    BY <1>1, <2>2, ReceiverOf, Constants DEF Dist, Expected
  <2>4. /\ recv.iface \in Ifaces
        /\ Dist + credit <= recv.age + MaxLag + Burst /\ quiet <= recv.age + MaxLag
        /\ recv.pos > 0 => Dist > 0
        /\ \A x \in 1 .. Len(bus[recv.iface]) :
             bus[recv.iface][x].sot /\ bus[recv.iface][x].n > top[recv.iface] =>
               /\ bus[recv.iface][x].n >= Expected
               /\ bus[recv.iface][x].n = Expected => recv.pos = 0
    BY <2>1 DEF IInv, LiveInv
  <2>5. Dist' + credit' <= recv'.age + MaxLag + Burst /\ quiet' <= recv'.age + MaxLag
    BY SMTT(30), <1>1, <1>2, <2>1, <2>3, <2>4, Times
  <2>6. \A x \in 1 .. Len(bus'[recv.iface]) :
             bus'[recv.iface][x].sot /\ bus'[recv.iface][x].n > top[recv.iface] =>
               /\ bus'[recv.iface][x].n >= Expected
               /\ bus'[recv.iface][x].n = Expected => recv.pos = 0
    BY SMTT(30), <1>1, <2>4, TickBus
  <2>7. LiveInv'
    BY <1>1, <2>2, <2>3, <2>4, <2>5, <2>6 DEF LiveInv
  <2>8. OrderInv'
    BY <1>1, <2>1, <2>3 DEF IInv, OrderInv
  <2>9. QED
    BY <2>7, <2>8
<1>7. AgeInv'
  <2>1. ASSUME NEW n, Settled(n) PROVE Settled(n)'
    <3> SUFFICES ASSUME NEW i \in Ifaces, NEW x \in 1 .. Len(bus'[i]), bus'[i][x].n <= n
                 PROVE  bus'[i][x].age >= recv'.age
      BY DEF Settled
    <3>1. x \in 1 .. Len(bus[i]) /\ bus'[i][x].n = bus[i][x].n /\ bus'[i][x].age = bus[i][x].age + 1
      BY <1>1, TickBus
    <3>2. bus[i][x].age >= recv.age /\ bus[i][x].age \in Nat
      BY <1>1, <2>1, <3>1, FrameOf DEF Settled
    <3>3. recv.age \in Nat /\ recv'.age <= recv.age + 1 /\ recv'.age \in Nat
      <4>1. recv' \in ReceiverType /\ recv.age \in Nat /\ recv'.age <= recv.age + 1
        BY <1>1, TickReceiver, ReceiverOf
      <4>2. recv'.age \in Nat
        BY <4>1, Times DEF ReceiverType, Ages
      <4>3. QED
        BY <4>1, <4>2
    <3>4. QED
      BY <3>1, <3>2, <3>3
  <2>2. recv'.buf = recv.buf
    BY <1>1, TickReceiver
  <2>3. (heard.n <= sent)' /\ Settled(heard.n)'
    <3>1. heard.n <= sent /\ Settled(heard.n)
      BY DEF IInv, AgeInv
    <3>2. QED
      BY <1>1, <2>1, <3>1 DEF Settled
  <2>4. \A j \in 1 .. Len(recv'.buf) : recv'.buf[j][2] = 1 => Settled(recv.buf[j][1])'
    <3>1. \A j \in 1 .. Len(recv.buf) : recv.buf[j][2] = 1 => Settled(recv.buf[j][1])
      BY DEF IInv, AgeInv
    <3>2. QED
      BY <2>1, <2>2, <3>1 DEF Settled
  <2>5. (\A i \in Ifaces : \A j \in 1 .. Len(got[i]) : Settled(got[i][j]))'
    <3>1. \A i \in Ifaces : \A j \in 1 .. Len(got[i]) : Settled(got[i][j])
      BY DEF IInv, AgeInv
    <3>2. QED
      BY <1>1, <2>1, <3>1 DEF Settled
  <2>6. QED
    BY <2>3, <2>4, <2>5 DEF AgeInv
<1>8. HeardInv'
  <2>1. ASSUME NEW i \in Ifaces, NEW x \in 1 .. Len(bus'[i]), heard.iface = i,
               recv'.iface = i, bus'[i][x].n = heard.n, bus'[i][x].k = heard.k + 1
        PROVE  Follows'
    <3>1. x \in 1 .. Len(bus[i]) /\ bus[i][x].n = heard.n /\ bus[i][x].k = heard.k + 1
      BY <1>1, <2>1, TickBus
    <3>2. Follows
      BY <1>1, <2>1, <3>1, TickReceiver DEF IInv, HeardInv
    <3>3. QED
      BY <1>1, <3>2, TickReceiver DEF Follows, Expected, Dist
  <2>2. QED
    BY <1>1, <2>1 DEF IInv, HeardInv, HasGot
<1>9. OnceInv' /\ WindowInv'
  <2>1. ASSUME NEW i \in Ifaces, NEW x \in 1 .. Len(bus'[i])
        PROVE  \E y \in 1 .. Len(bus[i]) :
                 x <= y /\ bus'[i][x].n = bus[i][y].n /\ bus'[i][x].eot = bus[i][y].eot
    <3>1. x \in 1 .. Len(bus[i]) /\ x <= x
      BY <1>1, TickBus
    <3>2. QED
      BY <1>1, <3>1, TickBus
  <2>2. sent' \in Nat /\ sent' >= sent
    BY <1>1
  <2>3. QED
    BY <1>1, <2>1, <2>2, GotKept DEF IInv
<1>10. QED
  BY <1>3, <1>4, <1>5, <1>6, <1>7, <1>8, <1>9 DEF IInv

-----------------------------------------------------------------------------
(* A transfer is sent.                                                      *)
LEMMA FrameIs ==
  ASSUME tid \in Tids, NEW i, NEW n \in Nat, NEW len \in Nat, NEW k \in 1 .. len
  PROVE  Frame(i, n, k, len) \in FrameType(i)
<1>1. k \in Nat /\ (k - 1) % 2 \in 0 .. 1
  OBVIOUS
<1>2. QED
  BY <1>1 DEF Frame, FrameType

LEMMA PublishIs ==
  ASSUME Typed, NEW len \in Lengths, publish(len)
  PROVE  /\ send(len) /\ sent < MaxTransfers /\ sent' = sent + 1 /\ tid' = increment(tid) /\ quiet' = 0
         /\ credit' = credit - 1 /\ credit > 0 /\ credit \in Nat /\ credit' \in 0 .. Burst - 1
         /\ sent \in Nat /\ quiet \in Nat /\ len \in Nat \ {0} /\ tid \in Tids
         /\ UNCHANGED <<numTxMailboxes, ifaces, recv, got, top, heard>>
<1>1. credit \in 0 .. Burst /\ sent \in Nat /\ quiet \in Nat /\ len \in Nat \ {0} /\ tid \in Tids
  BY Constants DEF Typed
<1>2. QED
  BY <1>1, Constants DEF publish, send

LEMMA SendBus ==
  ASSUME Typed, NEW len \in Lengths, publish(len)
  PROVE  /\ BusType'
         /\ \A i \in Ifaces : Len(bus[i]) \in Nat
         /\ \A i \in Ifaces \ ifaces : bus'[i] = bus[i]
         /\ \A i \in ifaces :
              /\ Len(bus'[i]) = Len(bus[i]) + len
              /\ \A x \in 1 .. Len(bus[i]) : bus'[i][x] = bus[i][x]
              /\ \A k \in 1 .. len : bus'[i][Len(bus[i]) + k] = Frame(i, sent + 1, k, len)
<1>1. bus' = [i \in Ifaces |->
         IF i \in ifaces THEN bus[i] \o [k \in 1 .. len |-> Frame(i, sent + 1, k, len)] ELSE bus[i]]
  BY PublishIs DEF send
<1>2. len \in Nat \ {0} /\ sent + 1 \in Nat /\ tid \in Tids /\ ifaces \subseteq Ifaces
  BY PublishIs, NodeOf
<1>3. ASSUME NEW i \in ifaces
      PROVE  /\ bus'[i] \in Seq(FrameType(i))
             /\ Len(bus[i]) \in Nat /\ Len(bus'[i]) = Len(bus[i]) + len
             /\ \A x \in 1 .. Len(bus[i]) : bus'[i][x] = bus[i][x]
             /\ \A k \in 1 .. len : bus'[i][Len(bus[i]) + k] = Frame(i, sent + 1, k, len)
  <2> DEFINE new == [k \in 1 .. len |-> Frame(i, sent + 1, k, len)]
  <2>1. \A k \in 1 .. len : new[k] = Frame(i, sent + 1, k, len) /\ new[k] \in FrameType(i)
    BY <1>2, FrameIs
  <2>2. new \in [1 .. len -> FrameType(i)]
    BY <2>1, Zenon
  <2>3. bus[i] \in Seq(FrameType(i)) /\ bus'[i] = bus[i] \o new
    BY <1>1, <1>2 DEF Typed, BusType
  <2> HIDE DEF new, FrameType
  <2>4. new \in Seq(FrameType(i)) /\ Len(new) = len
    BY <1>2, <2>2
  <2>5. bus[i] \o new \in Seq(FrameType(i)) /\ Len(bus[i]) \in Nat
    BY <2>3, <2>4
  <2>6. Len(bus[i] \o new) = Len(bus[i]) + len
    BY SMTT(30), <2>3, <2>4
  <2>7. \A x \in 1 .. Len(bus[i]) : (bus[i] \o new)[x] = bus[i][x]
    BY <2>3, <2>4
  <2>8. ASSUME NEW k \in 1 .. len PROVE (bus[i] \o new)[Len(bus[i]) + k] = new[k]
    <3> DEFINE z == Len(bus[i]) + k
               both == bus[i] \o new
    <3>1. \A y \in 1 .. Len(bus[i]) + Len(new) :
            both[y] = IF y <= Len(bus[i]) THEN bus[i][y] ELSE new[y - Len(bus[i])]
      BY <2>3, <2>4, ConcatProperties, Zenon
    <3>2. z \in 1 .. Len(bus[i]) + Len(new) /\ ~(z <= Len(bus[i])) /\ z - Len(bus[i]) = k
      BY <1>2, <2>4, <2>5
    <3> HIDE DEF z, both
    <3>3. both[z] = new[z - Len(bus[i])]
      BY <3>1, <3>2, Zenon
    <3>4. QED
      BY <3>2, <3>3 DEF z, both
  <2>9. QED
    BY <2>1, <2>3, <2>5, <2>6, <2>7, <2>8
<1>4. ASSUME NEW i \in Ifaces \ ifaces PROVE bus'[i] = bus[i]
  BY <1>1
<1>5. \A i \in Ifaces : bus[i] \in Seq(FrameType(i)) /\ Len(bus[i]) \in Nat
  BY DEF Typed, BusType
<1>6. \A i \in Ifaces : bus'[i] \in Seq(FrameType(i))
  BY <1>3, <1>4, <1>5
<1>7. BusType'
  BY <1>1, <1>6 DEF BusType, FrameType
<1>8. QED
  BY <1>3, <1>4, <1>5, <1>7

\* A frame on the bus is an old one or belongs to the new transfer.
IsNew(f, k, len) ==
  /\ f.n = sent + 1 /\ f.k = k /\ f.tid = tid /\ f.toggle = (k - 1) % 2
  /\ (f.sot <=> k = 1) /\ (f.eot <=> k = len) /\ f.age = 0

LEMMA SentFrame ==
  ASSUME Typed, NEW len \in Lengths, publish(len), NEW i \in Ifaces, NEW x \in 1 .. Len(bus'[i])
  PROVE  \/ x \in 1 .. Len(bus[i]) /\ bus'[i][x] = bus[i][x]
         \/ \E k \in 1 .. len : x = Len(bus[i]) + k /\ IsNew(bus'[i][x], k, len)
<1>0. CASE i \notin ifaces
  BY <1>0, SendBus
<1> SUFFICES ASSUME i \in ifaces
             PROVE  \/ x \in 1 .. Len(bus[i]) /\ bus'[i][x] = bus[i][x]
                    \/ \E k \in 1 .. len : x = Len(bus[i]) + k /\ IsNew(bus'[i][x], k, len)
  BY <1>0
<1>1. /\ Len(bus[i]) \in Nat /\ Len(bus'[i]) = Len(bus[i]) + len /\ len \in Nat
      /\ \A y \in 1 .. Len(bus[i]) : bus'[i][y] = bus[i][y]
      /\ \A k \in 1 .. len : bus'[i][Len(bus[i]) + k] = Frame(i, sent + 1, k, len)
  BY SendBus, Constants
<1>2. CASE x \in 1 .. Len(bus[i])
  BY <1>1, <1>2
<1>3. CASE x \notin 1 .. Len(bus[i])
  <2>1. x - Len(bus[i]) \in 1 .. len /\ x = Len(bus[i]) + (x - Len(bus[i]))
    BY <1>1, <1>3
  <2>2. PICK k \in 1 .. len : x = Len(bus[i]) + k
    BY <2>1
  <2>3. bus'[i][x] = Frame(i, sent + 1, k, len)
    BY <1>1, <2>2
  <2>4. IsNew(Frame(i, sent + 1, k, len), k, len)
    BY DEF Frame, IsNew
  <2>5. IsNew(bus'[i][x], k, len)
    BY <2>3, <2>4, Zenon
  <2>6. QED
    BY <2>2, <2>5
<1>4. QED
  BY <1>2, <1>3

LEMMA OldFrame ==
  ASSUME Typed, NEW len \in Lengths, publish(len), NEW i \in Ifaces, NEW x \in 1 .. Len(bus'[i]),
         bus'[i][x].n # sent + 1
  PROVE  x \in 1 .. Len(bus[i]) /\ bus'[i][x] = bus[i][x]
BY SentFrame DEF IsNew

\* A receiver that has not timed out expects the same transfer as before.
LEMMA SendExpects ==
  ASSUME Typed, LiveInv, ~isTimedOut(recv), NEW len \in Lengths, publish(len)
  PROVE  Dist' = Dist + 1 /\ Expected' = Expected
<1>1. recv.age \in 0 .. TidTimeout /\ recv.tid \in Tids /\ tid \in Tids /\ Dist \in Nat
  BY ReceiverOf, Times DEF isTimedOut, Typed
<1>2. Dist + credit <= recv.age + MaxLag + Burst /\ credit > 0 /\ credit \in Nat
  BY PublishIs DEF LiveInv
<1>3. Dist < TidCount - 1
  BY <1>1, <1>2, Times
<1>4. recv' = recv /\ tid' = increment(tid) /\ sent' = sent + 1 /\ sent \in Nat
  BY PublishIs
<1>5. Dist' = Dist + 1
  BY <1>1, <1>3, <1>4, DistanceGrows DEF Dist
<1>6. QED
  BY <1>1, <1>4, <1>5 DEF Expected

LEMMA PublishKeeps ==
  ASSUME IInv, NEW len \in Lengths, publish(len)
  PROVE  IInv'
<1>1. /\ Typed /\ BusInv /\ LiveInv /\ UNCHANGED <<numTxMailboxes, ifaces, recv, got, top, heard>>
      /\ sent' = sent + 1 /\ sent \in Nat /\ tid \in Tids /\ tid' = increment(tid)
      /\ quiet \in Nat /\ quiet' = 0 /\ len \in Nat \ {0}
      /\ credit' = credit - 1 /\ credit > 0 /\ credit \in Nat /\ credit' \in 0 .. Burst - 1
  BY PublishIs DEF IInv
<1>2. Typed'
  <2>1. sent' \in 0 .. MaxTransfers
    BY <1>1, PublishIs, Constants
  <2>2. tid' \in Tids /\ quiet' \in 0 .. Lifetime
    BY <1>1, IncrementIs, Constants
  <2>3. BusType'
    BY <1>1, SendBus
  <2>4. credit' \in 0 .. Burst
    BY <1>1, Times
  <2>5. QED
    BY <1>1, <2>1, <2>2, <2>3, <2>4 DEF Typed, ReceiverType, HeardType
<1>3. BusInv'
  <2>1. ASSUME NEW i \in Ifaces, NEW x \in 1 .. Len(bus'[i])
        PROVE  FrameInv(bus[i][x])'
    <3>1. CASE x \in 1 .. Len(bus[i]) /\ bus'[i][x] = bus[i][x]
      <4>1. /\ FrameInv(bus[i][x]) /\ bus[i][x].tid \in Tids
            /\ bus[i][x].n \in 1 .. sent /\ bus[i][x].age \in Nat
            /\ computeForwardDistance(bus[i][x].tid, tid) = sent + 1 - bus[i][x].n
            /\ credit + sent - bus[i][x].n <= bus[i][x].age + Burst - 1
            /\ sent + 1 - bus[i][x].n + credit <= MaxLag + Burst
        <5>1. Typed /\ BusInv /\ x \in 1 .. Len(bus[i])
          BY <1>1, <3>1
        <5>2. FrameInv(bus[i][x])
          BY <5>1 DEF BusInv
        <5>3. QED
          BY <5>1, <5>2, FrameOf, SinceSent, Times
      <4>2. computeForwardDistance(bus[i][x].tid, tid) < TidCount - 1
        <5>1. \A n \in Nat : sent + 1 - n + credit <= MaxLag + Burst => sent + 1 - n < TidCount - 1
          BY <1>1, Times
        <5>2. bus[i][x].n \in Nat
          BY <1>1, <4>1
        <5>3. QED
          BY <4>1, <5>1, <5>2
      <4>3. computeForwardDistance(bus[i][x].tid, tid') = sent' + 1 - bus[i][x].n
        <5>1. computeForwardDistance(bus[i][x].tid, tid')
                = computeForwardDistance(bus[i][x].tid, tid) + 1
          BY <1>1, <4>1, <4>2, DistanceGrows
        <5>2. \A n \in Nat : sent' + 1 - n = sent + 1 - n + 1
          BY <1>1
        <5>3. QED
          BY <4>1, <5>1, <5>2
      <4>4. /\ quiet' <= bus[i][x].age /\ bus[i][x].n \in 1 .. sent'
            /\ credit' + sent' - bus[i][x].n <= bus[i][x].age + Burst - 1
        <5>1. credit' + sent' = credit + sent
          BY <1>1
        <5>2. \A n \in 1 .. sent : n \in 1 .. sent'
          BY <1>1
        <5>3. 0 <= bus[i][x].age
          BY <4>1
        <5>4. credit' + sent' - bus[i][x].n <= bus[i][x].age + Burst - 1
          <6>1. credit + sent - bus[i][x].n <= bus[i][x].age + Burst - 1
            BY <4>1
          <6>2. \A n, a \in Nat : credit + sent - n <= a + Burst - 1 => credit' + sent' - n <= a + Burst - 1
            BY <1>1, Times
          <6>3. bus[i][x].n \in Nat /\ bus[i][x].age \in Nat
            BY <1>1, <4>1
          <6>4. QED
            BY <6>1, <6>2, <6>3
        <5>5. QED
          BY <1>1, <4>1, <5>2, <5>3, <5>4
      <4>5. QED
        BY <3>1, <4>1, <4>3, <4>4 DEF FrameInv
    <3>2. CASE \E k \in 1 .. len : x = Len(bus[i]) + k /\ IsNew(bus'[i][x], k, len)
      <4>1. PICK k \in 1 .. len : IsNew(bus'[i][x], k, len)
        BY <3>2
      <4> DEFINE g == bus'[i][x]
      <4>2. /\ g.n = sent + 1 /\ g.k = k /\ g.tid = tid /\ g.toggle = (k - 1) % 2
            /\ (g.sot <=> k = 1) /\ (g.eot <=> k = len) /\ g.age = 0
        BY <4>1 DEF IsNew
      <4>3. computeForwardDistance(tid, tid) = 0 /\ 0 < TidCount - 1
        BY <1>1, Times DEF computeForwardDistance, Tids
      <4>4. computeForwardDistance(tid, tid') = 1
        BY <1>1, <4>3, DistanceGrows
      <4> HIDE DEF g
      <4>5. /\ g.n \in 1 .. sent' /\ g.k # 0 /\ g.toggle = (g.k - 1) % 2
            /\ (g.sot <=> g.k = 1)
        BY <1>1, <4>2
      <4>6. /\ computeForwardDistance(g.tid, tid') = sent' + 1 - g.n
            /\ g.age <= MaxLag /\ quiet' <= g.age /\ credit' + sent' - g.n <= g.age + Burst - 1
        <5>1. sent' + 1 - (sent + 1) = 1 /\ 0 <= MaxLag /\ quiet' <= 0
          BY <1>1, Times
        <5>2. credit' + sent' - (sent + 1) <= 0 + Burst - 1
          BY <1>1, Times
        <5>3. QED
          BY <4>2, <4>4, <5>1, <5>2, Zenon
      <4>7. QED
        BY <4>5, <4>6 DEF FrameInv, g
    <3>3. QED
      BY <1>1, <3>1, <3>2, SentFrame
  <2>2. ASSUME NEW i \in Ifaces, NEW x \in 1 .. Len(bus'[i]), NEW y \in 1 .. Len(bus'[i]), x < y
        PROVE  Before(bus[i][x], bus[i][y])'
    <3> DEFINE Old(z) == z \in 1 .. Len(bus[i]) /\ bus'[i][z] = bus[i][z]
               New(z) == \E k \in 1 .. len :
                           z = Len(bus[i]) + k /\ IsNew(bus'[i][z], k, len)
    <3>1. (Old(x) \/ New(x)) /\ (Old(y) \/ New(y))
      BY <1>1, SentFrame
    <3>2. Len(bus[i]) \in Nat /\ tid \in Tids /\ sent + 1 \in Nat /\ len \in Nat
      BY <1>1, SendBus
    <3>3. CASE Old(x) /\ Old(y)
      <4>1. Before(bus[i][x], bus[i][y])
        BY <1>1, <2>2, <3>3 DEF BusInv
      <4>2. QED
        BY <3>3, <4>1 DEF Before
    <3>4. CASE Old(x) /\ New(y)
      <4>1. bus[i][x].n \in 1 .. sent /\ bus'[i][x] = bus[i][x]
        BY <1>1, <3>4, FrameOf
      <4>2. bus'[i][y].n = sent + 1
        BY <3>4 DEF IsNew
      <4>3. bus'[i][x].n \in Nat /\ bus'[i][y].n \in Nat /\ bus'[i][x].n < bus'[i][y].n
        BY <1>1, <4>1, <4>2
      <4>4. QED
        BY <4>3 DEF Before
    <3>5. CASE New(x) /\ New(y)
      <4>1. PICK k \in 1 .. len : x = Len(bus[i]) + k /\ IsNew(bus'[i][x], k, len)
        BY <3>5
      <4>2. PICK m \in 1 .. len : y = Len(bus[i]) + m /\ IsNew(bus'[i][y], m, len)
        BY <3>5
      <4>3. k < m /\ k # len /\ m # 1
        BY <2>2, <3>2, <4>1, <4>2
      <4>4. bus'[i][x].n = sent + 1 /\ bus'[i][x].k = k /\ ~bus'[i][x].eot
        BY <4>1, <4>3 DEF IsNew
      <4>5. bus'[i][y].n = sent + 1 /\ bus'[i][y].k = m /\ ~bus'[i][y].sot
        BY <4>2, <4>3 DEF IsNew
      <4>6. QED
        BY <3>2, <4>3, <4>4, <4>5 DEF Before
    <3>6. CASE New(x) /\ Old(y)
      BY <2>2, <3>2, <3>6
    <3>7. QED
      BY <3>1, <3>3, <3>4, <3>5, <3>6
  <2>3. QED
    BY <2>1, <2>2 DEF BusInv
<1>4. RecvInv'
  <2>1. ASSUME NEW j \in 1 .. Len(recv.buf) PROVE recv.buf[j][1] <= sent'
    <3>1. recv.buf[j][1] \in Nat
      BY <1>1, UnitOf
    <3>2. recv.buf[j][1] <= sent
      BY DEF IInv, RecvInv
    <3>3. QED
      BY <1>1, <3>1, <3>2
  <2>2. QED
    BY <1>1, <2>1 DEF IInv, RecvInv
<1>5. LiveInv' /\ OrderInv'
  <2>0. isTimedOut(recv)' => LiveInv' /\ OrderInv'
    BY <1>1 DEF IInv, LiveInv, OrderInv
  <2> SUFFICES ASSUME ~isTimedOut(recv)' PROVE LiveInv' /\ OrderInv'
    BY <2>0
  <2>1. ~isTimedOut(recv)
    BY <1>1 DEF isTimedOut
  <2>2. /\ recv.iface \in Ifaces
        /\ Dist + credit <= recv.age + MaxLag + Burst /\ quiet <= recv.age + MaxLag
        /\ recv.pos > 0 => Dist > 0
        /\ \A x \in 1 .. Len(bus[recv.iface]) :
             bus[recv.iface][x].sot /\ bus[recv.iface][x].n > top[recv.iface] =>
               /\ bus[recv.iface][x].n >= Expected
               /\ bus[recv.iface][x].n = Expected => recv.pos = 0
    BY <1>1, <2>1 DEF LiveInv
  <2>3. Dist' = Dist + 1 /\ Expected' = Expected
    BY <1>1, <2>1, SendExpects
  <2>4. Dist \in Nat /\ recv.pos \in Nat /\ recv.age \in Nat
    BY <1>1, ReceiverOf, Times
  <2>5. /\ Dist' + credit' <= recv.age + MaxLag + Burst /\ quiet' <= recv.age + MaxLag
        /\ Dist' > 0
    <3>1. Dist' + credit' = Dist + credit /\ Dist' > 0
      BY <1>1, <2>3, <2>4
    <3>2. quiet' <= recv.age + MaxLag
      BY <1>1, <2>4, Times
    <3>3. Dist' + credit' <= recv.age + MaxLag + Burst
      BY <2>2, <3>1, Zenon
    <3>4. QED
      BY <3>1, <3>2, <3>3
  <2>6. ASSUME NEW x \in 1 .. Len(bus'[recv.iface]),
               bus'[recv.iface][x].sot, bus'[recv.iface][x].n > top[recv.iface]
        PROVE  /\ bus'[recv.iface][x].n >= Expected
               /\ bus'[recv.iface][x].n = Expected => recv.pos = 0
    <3>1. CASE x \in 1 .. Len(bus[recv.iface]) /\ bus'[recv.iface][x] = bus[recv.iface][x]
      BY <2>2, <2>6, <3>1
    <3>2. CASE \E k \in 1 .. len : /\ x = Len(bus[recv.iface]) + k
                                   /\ IsNew(bus'[recv.iface][x], k, len)
      <4>1. bus'[recv.iface][x].n = sent + 1
        BY <3>2 DEF IsNew
      <4>2. sent + 1 >= Expected
        BY <1>1, <2>4 DEF Expected
      <4>3. sent + 1 = Expected => Dist = 0
        BY <1>1, <2>4 DEF Expected
      <4>4. sent + 1 = Expected => recv.pos = 0
        BY <2>2, <2>4, <4>3
      <4>5. QED
        BY <4>1, <4>2, <4>4
    <3>3. QED
      BY <1>1, <2>2, <3>1, <3>2, SentFrame
  <2>7. LiveInv'
    BY <1>1, <2>2, <2>3, <2>5, <2>6 DEF LiveInv
  <2>8. OrderInv'
    BY <1>1, <2>1, <2>3 DEF IInv, OrderInv
  <2>9. QED
    BY <2>7, <2>8
<1>6. AgeInv'
  <2>1. ASSUME NEW n \in 0 .. sent, Settled(n) PROVE Settled(n)'
    <3> SUFFICES ASSUME NEW i \in Ifaces, NEW x \in 1 .. Len(bus'[i]), bus'[i][x].n <= n
                 PROVE  bus'[i][x].age >= recv.age
      BY <1>1 DEF Settled
    <3>1. bus'[i][x].n # sent + 1
      BY <1>1, <2>1
    <3>2. x \in 1 .. Len(bus[i]) /\ bus'[i][x] = bus[i][x]
      BY <1>1, <3>1, OldFrame
    <3>3. QED
      BY <2>1, <3>2 DEF Settled
  <2>2. ASSUME NEW i \in Ifaces, NEW j \in 1 .. Len(got[i]) PROVE Settled(got[i][j])'
    <3>1. got[i][j] \in 0 .. sent
      BY DEF IInv, OnceInv
    <3>2. Settled(got[i][j])
      BY DEF IInv, AgeInv
    <3>3. QED
      BY <1>1, <2>1, <3>1, <3>2 DEF Settled
  <2>3. (heard.n <= sent)' /\ Settled(heard.n)'
    <3>1. heard.n \in Nat /\ heard.n <= sent /\ Settled(heard.n)
      BY <1>1 DEF IInv, AgeInv, Typed, HeardType
    <3>2. heard.n \in 0 .. sent
      BY <1>1, <3>1
    <3>3. Settled(heard.n)'
      BY <1>1, <2>1, <3>1, <3>2 DEF Settled
    <3>4. heard'.n <= sent'
      BY <1>1, <3>1
    <3>5. QED
      BY <3>3, <3>4
  <2>4. ASSUME NEW j \in 1 .. Len(recv.buf), recv.buf[j][2] = 1 PROVE Settled(recv.buf[j][1])'
    <3>1. recv.buf[j][1] \in 0 .. sent
      BY <1>1, UnitOf DEF IInv, RecvInv
    <3>2. Settled(recv.buf[j][1])
      BY <2>4 DEF IInv, AgeInv
    <3>3. QED
      BY <1>1, <2>1, <3>1, <3>2 DEF Settled
  <2>5. QED
    BY <1>1, <2>2, <2>3, <2>4 DEF AgeInv
<1>7. HeardInv'
  <2>1. ASSUME NEW i \in Ifaces, NEW x \in 1 .. Len(bus'[i]), heard.iface = i,
               recv.iface = i, bus'[i][x].n = heard.n, bus'[i][x].k = heard.k + 1
        PROVE  Follows'
    <3>1. heard.n \in Nat /\ heard.n <= sent /\ Settled(heard.n)
      BY <1>1 DEF IInv, AgeInv, Typed, HeardType
    <3>2. x \in 1 .. Len(bus[i]) /\ bus'[i][x] = bus[i][x]
      <4>1. bus'[i][x].n # sent + 1
        BY <1>1, <2>1, <3>1
      <4>2. QED
        BY <1>1, <4>1, OldFrame
    <3>3. ~isTimedOut(recv)
      <4>1. bus[i][x].n = heard.n
        BY <2>1, <3>2
      <4>2. ~(bus[i][x].n > heard.n)
        BY <3>1, <4>1
      <4>3. QED
        BY <1>1, <3>1, <3>2, <4>2, NothingStale
    <3>4. Follows
      BY <2>1, <3>2 DEF IInv, HeardInv
    <3>5. Expected' = Expected
      BY <1>1, <3>3, SendExpects
    <3>6. QED
      BY <1>1, <3>4, <3>5 DEF Follows
  <2>2. QED
    BY <1>1, <2>1 DEF IInv, HeardInv, HasGot
<1>8. OnceInv' /\ WindowInv'
  <2>1. ASSUME NEW i \in Ifaces, NEW x \in 1 .. Len(bus'[i])
        PROVE  \/ bus'[i][x].n = sent + 1
               \/ \E y \in 1 .. Len(bus[i]) :
                    x <= y /\ bus'[i][x].n = bus[i][y].n /\ bus'[i][x].eot = bus[i][y].eot
    <3>1. CASE bus'[i][x].n # sent + 1
      <4>1. x \in 1 .. Len(bus[i]) /\ bus'[i][x] = bus[i][x] /\ x <= x
        BY <1>1, <3>1, OldFrame
      <4>2. QED
        BY <4>1
    <3>2. QED
      BY <3>1
  <2>2. sent' \in Nat /\ sent' >= sent
    BY <1>1
  <2>3. QED
    BY <1>1, <2>1, <2>2, GotKept DEF IInv
<1>9. QED
  BY <1>2, <1>3, <1>4, <1>5, <1>6, <1>7, <1>8 DEF IInv

-----------------------------------------------------------------------------
(* What a frame makes of a receiver.                                        *)
LEMMA WriteIs ==
  ASSUME NEW buf \in Seq(Unit), NEW pos \in 0 .. Len(buf), NEW unit \in Unit
  PROVE  /\ write(buf, pos, unit) \in Seq(Unit)
         /\ Len(write(buf, pos, unit)) = IF pos < Len(buf) THEN Len(buf) ELSE pos + 1
         /\ pos + 1 \in 1 .. Len(write(buf, pos, unit))
         /\ write(buf, pos, unit)[pos + 1] = unit
         /\ \A j \in 1 .. Len(write(buf, pos, unit)) :
              j # pos + 1 => j \in 1 .. Len(buf) /\ write(buf, pos, unit)[j] = buf[j]
<1> DEFINE m == IF pos < Len(buf) THEN Len(buf) ELSE pos + 1
           w == [i \in 1 .. m |-> IF i = pos + 1 THEN unit ELSE buf[i]]
<1>1. Len(buf) \in Nat /\ \A i \in 1 .. Len(buf) : buf[i] \in Unit
  BY DEF Unit
<1>2. m \in Nat /\ pos + 1 \in 1 .. m /\ \A i \in 1 .. m : i # pos + 1 => i \in 1 .. Len(buf)
  BY <1>1
<1> HIDE DEF m
<1>3. \A i \in 1 .. m : w[i] \in Unit
  BY <1>1, <1>2
<1>4. w \in [1 .. m -> Unit]
  BY <1>3, Zenon
<1>5. w[pos + 1] = unit /\ \A j \in 1 .. m : j # pos + 1 => w[j] = buf[j]
  BY <1>2
<1>6. write(buf, pos, unit) = w
  BY DEF write, m
<1> HIDE DEF w
<1>7. w \in Seq(Unit) /\ Len(w) = m
  BY <1>2, <1>4 DEF Unit
<1>8. QED
  BY <1>2, <1>5, <1>6, <1>7 DEF m

\* A receiver by its fields.
Receiver(iface, t, toggle, pos, crc, age, buf) ==
  [iface |-> iface, tid |-> t, toggle |-> toggle, pos |-> pos, crc |-> crc, age |-> age, buf |-> buf]

LEMMA ReceiverFields ==
  ASSUME NEW r \in ReceiverType
  PROVE  /\ r = Receiver(r.iface, r.tid, r.toggle, r.pos, r.crc, r.age, r.buf)
         /\ r.iface \in Listened /\ r.tid \in Tids /\ r.toggle \in Bits
         /\ r.pos \in Nat /\ r.crc \in Nat /\ r.age \in Ages /\ r.buf \in Buffers
BY DEF Receiver, ReceiverType

LEMMA ReceiverTyped ==
  ASSUME NEW iface \in Listened, NEW t \in Tids, NEW toggle \in Bits,
         NEW pos \in Nat, NEW crc \in Nat, NEW age \in Ages, NEW buf \in Buffers,
         NEW r, r = Receiver(iface, t, toggle, pos, crc, age, buf)
  PROVE  /\ r \in ReceiverType
         /\ r.iface = iface /\ r.tid = t /\ r.toggle = toggle /\ r.pos = pos
         /\ r.crc = crc /\ r.age = age /\ r.buf = buf
BY DEF Receiver, ReceiverType

\* receive(): how the transfer ends, or that it goes on.
LEMMA ReceiveIs ==
  ASSUME NEW r \in ReceiverType, NEW i \in Ifaces, NEW f \in FrameType(i), NEW mem \in BOOLEAN,
         r.pos <= Len(r.buf)
  PROVE  LET age == IF f.sot THEN 0 ELSE r.age
             crc == IF f.sot THEN f.n ELSE r.crc
             w == write(r.buf, r.pos, <<f.n, f.k>>)
         IN  \/ /\ f.sot /\ f.eot
                /\ receive(r, f, mem) = [r |-> Receiver(r.iface, increment(r.tid), 0, 0, 0, age, <<>>),
                                         result |-> "SingleFrame"]
             \/ /\ ~(f.sot /\ f.eot) /\ ~mem
                /\ receive(r, f, mem) = [r |-> Receiver(r.iface, increment(r.tid), 0, 0, r.crc, age, <<>>),
                                         result |-> "NotComplete"]
             \/ /\ mem /\ ~f.eot
                /\ receive(r, f, mem) = [r |-> Receiver(r.iface, r.tid, 1 - r.toggle, r.pos + 1, crc, age, w),
                                         result |-> "NotComplete"]
             \/ /\ mem /\ f.eot /\ ~f.sot
                /\ receive(r, f, mem) = [r |-> Receiver(r.iface, increment(r.tid), 0, 0, crc, age, w),
                                         result |-> "Complete"]
<1> DEFINE age == IF f.sot THEN 0 ELSE r.age
           crc == IF f.sot THEN f.n ELSE r.crc
           w == write(r.buf, r.pos, <<f.n, f.k>>)
           s == Receiver(r.iface, r.tid, r.toggle, r.pos, r.crc, age, r.buf)
<1>1. (IF f.sot THEN [r EXCEPT !.age = 0] ELSE r) = s
  BY ReceiverFields DEF Receiver
<1>1a. /\ age \in Ages /\ crc \in Nat /\ w \in Buffers /\ <<>> \in Buffers
      /\ increment(r.tid) \in Tids /\ 1 - r.toggle \in Bits /\ r.pos + 1 \in Nat
  <2>1. f.n \in Nat /\ <<f.n, f.k>> \in Unit
    BY DEF FrameType, Unit
  <2>2. r.pos \in 0 .. Len(r.buf) /\ r.buf \in Seq(Unit)
    BY ReceiverFields DEF Buffers
  <2>3. w \in Buffers /\ increment(r.tid) \in Tids
    BY <2>1, <2>2, WriteIs, IncrementIs, ReceiverFields DEF Buffers
  <2> HIDE DEF w
  <2>4. QED
    BY <2>1, <2>3, ReceiverFields, Times DEF Ages, Bits, Buffers
<1>1b. /\ s \in ReceiverType
      /\ s.iface = r.iface /\ s.tid = r.tid /\ s.toggle = r.toggle /\ s.pos = r.pos
      /\ s.crc = r.crc /\ s.age = age /\ s.buf = r.buf
  <2> HIDE DEF age
  <2>1. s = Receiver(r.iface, r.tid, r.toggle, r.pos, r.crc, age, r.buf)
    OBVIOUS
  <2>2. /\ r.iface \in Listened /\ r.tid \in Tids /\ r.toggle \in Bits
        /\ r.pos \in Nat /\ r.crc \in Nat /\ age \in Ages /\ r.buf \in Buffers
    BY <1>1a, ReceiverFields
  <2> HIDE DEF s
  <2>3. QED
    BY <2>1, <2>2, ReceiverTyped
<1> HIDE DEF s
<1>2. writePayload(s, f) = Receiver(r.iface, r.tid, 1 - r.toggle, r.pos + 1, crc, age, w)
  <2> DEFINE p == writePayload(s, f)
  <2>1. p = [s EXCEPT !.buf = w, !.pos = r.pos + 1, !.crc = crc, !.toggle = 1 - r.toggle]
    BY <1>1b DEF writePayload
  <2> HIDE DEF p, w, crc, age
  <2>2. /\ p \in ReceiverType /\ p.iface = r.iface /\ p.tid = r.tid /\ p.toggle = 1 - r.toggle
        /\ p.pos = r.pos + 1 /\ p.crc = crc /\ p.age = age /\ p.buf = w
    BY <1>1a, <1>1b, <2>1 DEF ReceiverType
  <2>3. QED
    BY <2>2, ReceiverFields DEF p
<1>2b. ASSUME NEW q \in ReceiverType
      PROVE  prepareForNextTransfer(q)
               = Receiver(q.iface, increment(q.tid), 0, 0, q.crc, q.age, q.buf)
  <2> DEFINE p == prepareForNextTransfer(q)
  <2>1. p = [q EXCEPT !.tid = increment(q.tid), !.toggle = 0, !.pos = 0]
    BY DEF prepareForNextTransfer
  <2>2. q.tid \in Tids /\ increment(q.tid) \in Tids /\ 0 \in Bits
    BY ReceiverFields, IncrementIs DEF Bits
  <2> HIDE DEF p
  <2>3. /\ p \in ReceiverType /\ p.iface = q.iface /\ p.tid = increment(q.tid) /\ p.toggle = 0
        /\ p.pos = 0 /\ p.crc = q.crc /\ p.age = q.age /\ p.buf = q.buf
    BY <2>1, <2>2 DEF ReceiverType
  <2>4. QED
    BY <2>3, ReceiverFields DEF p
<1>3. prepareForNextTransfer(s) = Receiver(r.iface, increment(r.tid), 0, 0, r.crc, age, r.buf)
  BY <1>1b, <1>2b
<1>4. prepareForNextTransfer(writePayload(s, f)) = Receiver(r.iface, increment(r.tid), 0, 0, crc, age, w)
  <2> DEFINE q == Receiver(r.iface, r.tid, 1 - r.toggle, r.pos + 1, crc, age, w)
  <2> HIDE DEF w, crc, age
  <2>0. q = Receiver(r.iface, r.tid, 1 - r.toggle, r.pos + 1, crc, age, w)
    OBVIOUS
  <2> HIDE DEF q
  <2>1. /\ q \in ReceiverType /\ q.iface = r.iface /\ q.tid = r.tid /\ q.crc = crc
        /\ q.age = age /\ q.buf = w
    <3>1. /\ r.iface \in Listened /\ r.tid \in Tids /\ r.pos \in Nat /\ r.crc \in Nat
          /\ r.buf \in Buffers /\ 0 \in Nat
      BY ReceiverFields
    <3>2. QED
      BY <2>0, <1>1a, <3>1 DEF Receiver, ReceiverType, Bits
  <2>2. prepareForNextTransfer(q) = Receiver(r.iface, increment(r.tid), 0, 0, crc, age, w)
    BY <1>2b, <2>1
  <2>3. QED
    BY <1>2, <2>2 DEF q
<1>5. /\ [prepareForNextTransfer(s) EXCEPT !.crc = 0, !.buf = <<>>]
           = Receiver(r.iface, increment(r.tid), 0, 0, 0, age, <<>>)
      /\ [prepareForNextTransfer(s) EXCEPT !.buf = <<>>]
           = Receiver(r.iface, increment(r.tid), 0, 0, r.crc, age, <<>>)
  <2> DEFINE q == prepareForNextTransfer(s)
             x == [q EXCEPT !.crc = 0, !.buf = <<>>]
             y == [q EXCEPT !.buf = <<>>]
  <2>0. q = Receiver(r.iface, increment(r.tid), 0, 0, r.crc, age, r.buf)
    BY <1>3
  <2> HIDE DEF age, q
  <2>1. /\ q \in ReceiverType /\ q.iface = r.iface /\ q.tid = increment(r.tid) /\ q.toggle = 0
        /\ q.pos = 0 /\ q.crc = r.crc /\ q.age = age
    <3>1. /\ r.iface \in Listened /\ r.tid \in Tids /\ r.pos \in Nat /\ r.crc \in Nat
          /\ r.buf \in Buffers /\ 0 \in Nat
      BY ReceiverFields
    <3>2. QED
      BY <2>0, <1>1a, <3>1 DEF Receiver, ReceiverType, Bits
  <2>2. /\ x \in ReceiverType /\ x.iface = r.iface /\ x.tid = increment(r.tid) /\ x.toggle = 0
        /\ x.pos = 0 /\ x.crc = 0 /\ x.age = age /\ x.buf = <<>>
    BY <1>1a, <2>1 DEF ReceiverType
  <2>3. /\ y \in ReceiverType /\ y.iface = r.iface /\ y.tid = increment(r.tid) /\ y.toggle = 0
        /\ y.pos = 0 /\ y.crc = r.crc /\ y.age = age /\ y.buf = <<>>
    BY <1>1a, <2>1 DEF ReceiverType
  <2> HIDE DEF x, y
  <2>4. QED
    BY <2>2, <2>3, ReceiverFields DEF x, y, q
<1>6. f.sot \in BOOLEAN /\ f.eot \in BOOLEAN
  BY DEF FrameType
<1> HIDE DEF w, age, crc
<1>7. CASE f.sot /\ f.eot
  BY <1>1, <1>5, <1>7 DEF receive, age
<1>8. CASE ~(f.sot /\ f.eot) /\ ~mem
  BY <1>1, <1>5, <1>8 DEF receive, age
<1>9. CASE mem /\ ~f.eot
  BY <1>1, <1>2, <1>9 DEF receive, age, crc, w
<1>10. CASE mem /\ f.eot /\ ~f.sot
  BY <1>1, <1>4, <1>10 DEF receive, age, crc, w
<1>11. QED
  BY <1>6, <1>7, <1>8, <1>9, <1>10 DEF age, crc, w

\* addFrame(): the frame is ignored, or skipped by a receiver that has timed out,
\* or received by s, which is the receiver or a new beginning of it.
LEMMA AddFrameIs ==
  ASSUME NEW r \in ReceiverType, NEW i \in Ifaces, NEW f \in FrameType(i),
         NEW switch \in BOOLEAN, NEW mem \in BOOLEAN, f.toggle = (f.k - 1) % 2, f.sot <=> f.k = 1
  PROVE  \/ /\ ~need_restart(r, f, switch) /\ ~validate(r, f)
            /\ addFrame(r, f, switch, mem) = [r |-> r, result |-> "NotComplete"]
         \/ /\ isTimedOut(r) /\ ~f.sot
            /\ addFrame(r, f, switch, mem)
                 = [r |-> Receiver(i, increment(f.tid), 0, 0, 0, r.age, <<>>), result |-> "NotComplete"]
         \/ /\ ~need_restart(r, f, switch) /\ validate(r, f)
            /\ addFrame(r, f, switch, mem) = receive(r, f, mem)
         \/ /\ need_restart(r, f, switch) /\ f.sot
            /\ addFrame(r, f, switch, mem)
                 = receive(Receiver(i, f.tid, 0, 0, 0, r.age, <<>>), f, mem)
<1>1. f.iface = i /\ f.sot \in BOOLEAN
  BY DEF FrameType
<1> DEFINE s == Receiver(i, f.tid, 0, 0, 0, r.age, <<>>)
<1>2. restart(r, f) = s
  <2> DEFINE p == restart(r, f)
  <2>1. p = [r EXCEPT !.iface = i, !.tid = f.tid, !.toggle = 0, !.pos = 0, !.crc = 0, !.buf = <<>>]
    BY <1>1 DEF restart
  <2>2. f.tid \in Tids /\ <<>> \in Buffers /\ 0 \in Bits /\ i \in Listened
    BY DEF FrameType, Buffers, Bits, Listened
  <2> HIDE DEF p
  <2>3. /\ p \in ReceiverType /\ p.iface = i /\ p.tid = f.tid /\ p.toggle = 0 /\ p.pos = 0
        /\ p.crc = 0 /\ p.age = r.age /\ p.buf = <<>>
    BY <2>1, <2>2 DEF ReceiverType
  <2>4. QED
    BY <2>3, ReceiverFields DEF p
<1>3. CASE ~need_restart(r, f, switch)
  BY <1>3 DEF addFrame
<1>4. CASE need_restart(r, f, switch) /\ f.sot
  <2>1. f.toggle = 0
    BY <1>4
  <2>2. validate(s, f)
    BY <1>1, <2>1 DEF validate, Receiver
  <2> HIDE DEF s
  <2>3. addFrame(r, f, switch, mem) = receive(s, f, mem)
    BY <1>2, <1>4, <2>2 DEF addFrame
  <2>4. QED
    BY <1>4, <2>3 DEF s
<1>5. CASE need_restart(r, f, switch) /\ ~f.sot
  <2>1. isTimedOut(r)
    BY <1>5, Times DEF need_restart, isTimedOut, NoReceiver
  <2>2. [s EXCEPT !.tid = increment(s.tid)] = Receiver(i, increment(f.tid), 0, 0, 0, r.age, <<>>)
    BY DEF Receiver
  <2> HIDE DEF s
  <2>3. addFrame(r, f, switch, mem)
          = [r |-> [s EXCEPT !.tid = increment(s.tid)], result |-> "NotComplete"]
    BY <1>2, <1>5 DEF addFrame
  <2>4. QED
    BY <1>5, <2>1, <2>2, <2>3
<1>6. QED
  BY <1>1, <1>3, <1>4, <1>5 DEF need_restart

-----------------------------------------------------------------------------
(* A frame is read.                                                         *)
Reads(i, x, f) ==
  /\ x \in Window(i) /\ f = bus[i][x]
  /\ bus' = [bus EXCEPT ![i] = RemoveAt(@, x)]
  /\ top' = IF x = 1 \/ f.n <= top[i] THEN top ELSE [top EXCEPT ![i] = f.n]

LEMMA ReadIs ==
  ASSUME Typed, BusInv, NEW i \in Ifaces, NEW x, NEW f, Reads(i, x, f)
  PROVE  /\ Shrinks /\ Takes1(i, x) /\ x \in 1 .. Len(bus[i]) /\ f = bus[i][x]
         /\ x <= numTxMailboxes /\ (numTxMailboxes = 1 => x = 1)
         /\ f \in FrameType(i) /\ f.iface = i
         /\ f.n \in 1 .. sent /\ f.n \in Nat /\ f.k \in Nat /\ f.k > 0 /\ f.tid \in Tids
         /\ computeForwardDistance(f.tid, tid) = sent + 1 - f.n
         /\ f.toggle \in 0 .. 1 /\ f.toggle = (f.k - 1) % 2
         /\ f.sot \in BOOLEAN /\ (f.sot <=> f.k = 1) /\ f.eot \in BOOLEAN
         /\ f.age \in 0 .. MaxLag /\ quiet <= MaxLag /\ sent + 1 - f.n + credit <= MaxLag + Burst
<1>1. x \in 1 .. Len(bus[i]) /\ x <= numTxMailboxes /\ (numTxMailboxes = 1 => x = 1)
  BY WindowIs DEF Reads
<1>2. Takes1(i, x) /\ f = bus[i][x]
  BY <1>1 DEF Reads, Takes1
<1>3. Shrinks
  BY <1>1, <1>2 DEF Shrinks
<1> HIDE DEF FrameType
<1>4. QED
  BY <1>1, <1>2, <1>3, FrameOf, SinceSent

\* A frame in front of the one that was read was overtaken.
LEMMA TopIs ==
  ASSUME Typed, BusInv, NEW i \in Ifaces, NEW x, NEW f, Reads(i, x, f)
  PROVE  /\ top' \in [Ifaces -> Nat] /\ \A h \in Ifaces : top'[h] >= top[h]
         /\ numTxMailboxes = 1 => top' = top
         /\ x > 1 => top'[i] >= f.n
<1>1. top \in [Ifaces -> Nat] /\ f.n \in Nat /\ x \in Nat /\ (numTxMailboxes = 1 => x = 1)
  BY ReadIs, TakeIs DEF Typed
<1>2. CASE x = 1 \/ f.n <= top[i]
  BY <1>1, <1>2 DEF Reads
<1>3. CASE ~(x = 1 \/ f.n <= top[i])
  BY <1>1, <1>3 DEF Reads
<1>4. QED
  BY <1>2, <1>3

\* What an interface still has comes after the frame that was read, or was
\* overtaken by it.
LEMMA ReadBefore ==
  ASSUME Typed, BusInv, NEW i \in Ifaces, NEW x, NEW f, Reads(i, x, f), NEW y \in 1 .. Len(bus'[i])
  PROVE  LET z == IF y < x THEN y ELSE y + 1
         IN  /\ z \in 1 .. Len(bus[i]) /\ bus'[i][y] = bus[i][z]
             /\ bus'[i][y].n \in Nat /\ bus'[i][y].k \in Nat /\ bus'[i][y].k > 0
             /\ bus'[i][y].sot \in BOOLEAN /\ bus'[i][y].eot \in BOOLEAN
             /\ IF y < x THEN Before(bus'[i][y], f) /\ bus'[i][y].n <= top'[i]
                         ELSE Before(f, bus'[i][y])
<1> DEFINE z == IF y < x THEN y ELSE y + 1
<1>1. x \in 1 .. Len(bus[i]) /\ f = bus[i][x] /\ Takes1(i, x) /\ f.n \in Nat
  BY ReadIs
<1>2. /\ Len(bus[i]) \in Nat /\ Len(bus'[i]) = Len(bus[i]) - 1
      /\ bus'[i][y] = IF y < x THEN bus[i][y] ELSE bus[i][y + 1]
  BY <1>1, TakeIs DEF Typed
<1>3. z \in 1 .. Len(bus[i]) /\ bus'[i][y] = bus[i][z] /\ (y < x => z < x /\ x > 1) /\ (~(y < x) => x < z)
  BY <1>1, <1>2
<1> HIDE DEF z
<1>4. /\ bus[i][z].n \in Nat /\ bus[i][z].k \in Nat /\ bus[i][z].k > 0
      /\ bus[i][z].sot \in BOOLEAN /\ bus[i][z].eot \in BOOLEAN
  BY <1>3, FrameOf
<1>5. CASE y < x
  <2>1. Before(bus[i][z], f)
    BY <1>1, <1>3, <1>5 DEF BusInv
  <2>2. bus[i][z].n <= f.n
    BY <2>1 DEF Before
  <2>3. top'[i] >= f.n /\ top'[i] \in Nat
    BY <1>3, <1>5, TopIs
  <2>4. bus[i][z].n <= top'[i]
    BY <1>1, <1>4, <2>2, <2>3
  <2>5. QED
    BY <1>3, <1>4, <1>5, <2>1, <2>4 DEF z
<1>6. CASE ~(y < x)
  <2>1. Before(f, bus[i][z])
    BY <1>1, <1>3, <1>6 DEF BusInv
  <2>2. QED
    BY <1>3, <1>4, <1>6, <2>1 DEF z
<1>7. QED
  BY <1>5, <1>6

\* Transfer n is later than all that were delivered.
Newest(n) == \A h \in Ifaces : \A j \in 1 .. Len(got[h]) : got[h][j] < n

\* The receiver that takes frame f from interface i: the one that there is, which
\* expects the frame's transfer, or a new beginning of it.  With a single mailbox
\* the transfer is later than all that were delivered.
Takes(s, i, f) ==
  /\ s \in ReceiverType /\ s.iface = i /\ s.tid = f.tid /\ s.age = recv.age
  /\ s.toggle = s.pos % 2 /\ s.pos <= Len(s.buf)
  /\ numTxMailboxes = 1 => Newest(f.n)
  /\ \/ f.sot /\ s.pos = 0 /\ s.buf = <<>>
     \/ s = recv /\ ~isTimedOut(recv) /\ Expected = f.n

LEMMA ValidTakes ==
  ASSUME IInv, NEW i \in Ifaces, NEW x, NEW f, Reads(i, x, f), NEW switch \in BOOLEAN,
         ~need_restart(recv, f, switch), validate(recv, f)
  PROVE  Takes(recv, i, f)
<1>1. /\ Typed /\ BusInv /\ ~isTimedOut(recv) /\ recv \in ReceiverType
      /\ sent \in Nat
  BY Constants DEF need_restart, IInv, Typed
<1>2. /\ f.iface = i /\ f.n \in Nat
      /\ computeForwardDistance(f.tid, tid) = sent + 1 - f.n
  BY <1>1, ReadIs
<1>3. recv.iface = i /\ recv.tid = f.tid
  BY <1>2 DEF validate
<1>4. Expected = f.n
  BY <1>1, <1>2, <1>3 DEF Expected, Dist
<1>5. numTxMailboxes = 1 => Newest(f.n)
  BY <1>1, <1>4 DEF IInv, OrderInv, Newest
<1>6. recv.toggle = recv.pos % 2 /\ recv.pos <= Len(recv.buf)
  BY DEF IInv, RecvInv
<1>7. QED
  BY <1>1, <1>3, <1>4, <1>5, <1>6 DEF Takes

\* When nothing overtakes, the first frame of a transfer after which the receiver
\* takes another one, on its own interface or a different one, is not of a
\* transfer that was delivered.
LEMMA RestartIsNew ==
  ASSUME IInv, NEW i \in Ifaces, NEW x, NEW f, Reads(i, x, f), NEW switch \in BOOLEAN,
         need_restart(recv, f, switch), f.sot, numTxMailboxes = 1
  PROVE  Newest(f.n)
<1>1. /\ Typed /\ BusInv /\ sent \in Nat /\ tid \in Tids /\ credit \in Nat
  BY Constants DEF IInv, Typed
<1>2. /\ f = bus[i][x] /\ x \in 1 .. Len(bus[i]) /\ f.iface = i /\ f.n \in Nat /\ f.n \in 1 .. sent
      /\ f.tid \in Tids
      /\ computeForwardDistance(f.tid, tid) = sent + 1 - f.n
      /\ sent + 1 - f.n + credit <= MaxLag + Burst
  BY <1>1, ReadIs
<1>3. CASE isTimedOut(recv) \/ recv = NoReceiver
  <2>1. isTimedOut(recv)
    BY <1>3, NoReceiverIs, Times DEF isTimedOut
  <2>2. ASSUME NEW h \in Ifaces, NEW j \in 1 .. Len(got[h]) PROVE got[h][j] < f.n
    <3>1. Settled(got[h][j]) /\ got[h][j] \in Nat
      BY <1>1, GotOf DEF IInv, AgeInv
    <3>2. f.n > got[h][j]
      BY <1>1, <1>2, <2>1, <3>1, NothingStale
    <3>3. QED
      BY <1>2, <3>1, <3>2
  <2>3. QED
    BY <2>2 DEF Newest
<1>4. CASE ~isTimedOut(recv) /\ recv # NoReceiver
  <2>1. Expected \in Int /\ Dist \in Nat /\ recv.tid \in Tids
    BY <1>1, <1>4, ReceiverOf, Times
  <2>2. Expected <= f.n
    <3>1. CASE recv.iface = i
      <4>1. top[i] = 0 /\ f.n > top[i]
        BY <1>1, <1>2 DEF IInv, OrderInv
      <4>2. f.n >= Expected
        BY <1>2, <1>4, <3>1, <4>1 DEF IInv, LiveInv
      <4>3. QED
        BY <1>2, <2>1, <4>2
    <3>2. CASE computeForwardDistance(recv.tid, f.tid) < Half
      <4> DEFINE y == sent + 1 - f.n
      <4>1. computeForwardDistance(recv.tid, f.tid) = IF Dist >= y THEN Dist - y ELSE Dist - y + TidCount
        BY <1>1, <1>2, <2>1, DistanceBetween DEF Dist
      <4>2. y \in Int /\ y <= MaxLag + Burst
        BY <1>1, <1>2, Times
      <4>3. Dist >= y
        BY <2>1, <3>2, <4>1, <4>2, Constants
      <4>4. QED
        BY SMTT(30), <1>1, <1>2, <2>1, <4>3 DEF Expected
    <3>3. QED
      BY <1>2, <1>4, <3>1, <3>2 DEF need_restart
  <2>3. ASSUME NEW h \in Ifaces, NEW j \in 1 .. Len(got[h]) PROVE got[h][j] < f.n
    <3>1. got[h][j] < Expected /\ got[h][j] \in Nat
      BY <1>1, <1>4, GotOf DEF IInv, OrderInv
    <3>2. QED
      BY <1>2, <2>1, <2>2, <3>1
  <2>4. QED
    BY <2>3 DEF Newest
<1>5. QED
  BY <1>3, <1>4

LEMMA RestartTakes ==
  ASSUME IInv, NEW i \in Ifaces, NEW x, NEW f, Reads(i, x, f), NEW switch \in BOOLEAN,
         need_restart(recv, f, switch), f.sot
  PROVE  Takes(Receiver(i, f.tid, 0, 0, 0, recv.age, <<>>), i, f)
<1>1. Typed /\ BusInv
  BY DEF IInv
<1> DEFINE s == Receiver(i, f.tid, 0, 0, 0, recv.age, <<>>)
<1>2. f.tid \in Tids /\ f.k \in Nat /\ f.k > 0
  BY <1>1, ReadIs
<1>3. i \in Listened /\ 0 \in Bits /\ recv.age \in Ages /\ <<>> \in Buffers /\ 0 \in Nat
  BY <1>1, ReceiverOf DEF Listened, Bits, Ages, Buffers
<1>4. /\ s \in ReceiverType /\ s.iface = i /\ s.tid = f.tid /\ s.toggle = 0 /\ s.pos = 0
      /\ s.age = recv.age /\ s.buf = <<>>
  BY <1>2, <1>3 DEF Receiver, ReceiverType
<1> HIDE DEF s
<1>5. 0 % 2 = 0 /\ Len(s.buf) = 0
  BY <1>4
<1>6. Takes(s, i, f)
  BY <1>2, <1>4, <1>5, RestartIsNew DEF Takes
<1>7. QED
  BY <1>6 DEF s

-----------------------------------------------------------------------------
(* What the receiver s has taken from frame f.                              *)
Crc(s, f) == IF f.sot THEN f.n ELSE s.crc
Buf(s, f) == write(s.buf, s.pos, <<f.n, f.k>>)

Partial(s, f) ==
  /\ ~f.eot /\ got' = got
  /\ recv'.tid = f.tid /\ recv'.toggle = 1 - s.toggle /\ recv'.pos = s.pos + 1
  /\ recv'.crc = Crc(s, f) /\ recv'.buf = Buf(s, f)

Checked(s, f) == Content(Buf(s, f), f.k) = Crc(s, f)

\* Transfer n is delivered from interface i.
Delivers(i, n) == got' = [got EXCEPT ![i] = Append(@, n)]

Done(s, i, f, mem) ==
  /\ recv'.tid = increment(f.tid) /\ recv'.toggle = 0 /\ recv'.pos = 0
  /\ recv'.buf \in {<<>>, Buf(s, f)}
  /\ \/ ~mem /\ got' = got
     \/ f.sot /\ f.eot /\ Delivers(i, f.n)
     \/ /\ mem /\ f.eot /\ ~f.sot
        /\ \/ Checked(s, f) /\ Delivers(i, Content(Buf(s, f), f.k))
           \/ ~Checked(s, f) /\ got' = got

Received(s, i, f, mem) ==
  /\ recv' \in ReceiverType /\ recv'.iface = i /\ recv'.age = IF f.sot THEN 0 ELSE recv.age
  /\ (mem /\ Partial(s, f)) \/ Done(s, i, f, mem)

LEMMA TakenIs ==
  ASSUME NEW i \in Ifaces, NEW f \in FrameType(i), f.k > 0, NEW s, Takes(s, i, f)
  PROVE  /\ s.pos \in Nat /\ s.buf \in Seq(Unit) /\ s.pos \in 0 .. Len(s.buf) /\ Len(s.buf) \in Nat
         /\ s.toggle \in 0 .. 1 /\ s.crc \in Nat /\ s.age \in Ages /\ s.tid \in Tids
         /\ Crc(s, f) \in Nat /\ Buf(s, f) \in Buffers
         /\ Len(Buf(s, f)) = IF s.pos < Len(s.buf) THEN Len(s.buf) ELSE s.pos + 1
         /\ s.pos + 1 \in 1 .. Len(Buf(s, f)) /\ Buf(s, f)[s.pos + 1] = <<f.n, f.k>>
         /\ \A j \in 1 .. Len(Buf(s, f)) :
              j # s.pos + 1 => j \in 1 .. Len(s.buf) /\ Buf(s, f)[j] = s.buf[j]
<1>1. f.n \in Nat /\ f.k \in Nat
  BY DEF FrameType
<1>2. s \in ReceiverType /\ s.pos <= Len(s.buf)
  BY DEF Takes
<1>3. /\ s.pos \in Nat /\ s.buf \in Seq(Unit) /\ Len(s.buf) \in Nat
      /\ s.toggle \in 0 .. 1 /\ s.crc \in Nat /\ s.age \in Ages /\ s.tid \in Tids
  BY <1>2, ReceiverFields DEF Bits, Buffers
<1>4. s.pos \in 0 .. Len(s.buf) /\ <<f.n, f.k>> \in Unit
  BY <1>1, <1>2, <1>3 DEF Unit
<1>5. Crc(s, f) \in Nat
  BY <1>1, <1>3 DEF Crc
<1>6. Buf(s, f) = write(s.buf, s.pos, <<f.n, f.k>>)
  BY DEF Buf
<1> DEFINE u == <<f.n, f.k>>
<1>7. u \in Unit /\ Buf(s, f) = write(s.buf, s.pos, u)
  BY <1>4, <1>6
<1> HIDE DEF u
<1>8. /\ Buf(s, f) \in Seq(Unit)
      /\ Len(Buf(s, f)) = IF s.pos < Len(s.buf) THEN Len(s.buf) ELSE s.pos + 1
      /\ s.pos + 1 \in 1 .. Len(Buf(s, f)) /\ Buf(s, f)[s.pos + 1] = u
      /\ \A j \in 1 .. Len(Buf(s, f)) :
           j # s.pos + 1 => j \in 1 .. Len(s.buf) /\ Buf(s, f)[j] = s.buf[j]
  <2> DEFINE b == s.buf
             p == s.pos
             w == write(b, p, u)
  <2>1. b \in Seq(Unit) /\ p \in 0 .. Len(b)
    BY <1>3, <1>4
  <2>2. Buf(s, f) = w
    BY <1>7
  <2> HIDE DEF b, p
  <2>3. /\ w \in Seq(Unit) /\ Len(w) = IF p < Len(b) THEN Len(b) ELSE p + 1
        /\ p + 1 \in 1 .. Len(w) /\ w[p + 1] = u
        /\ \A j \in 1 .. Len(w) : j # p + 1 => j \in 1 .. Len(b) /\ w[j] = b[j]
    BY <1>7, <2>1, WriteIs
  <2> HIDE DEF w
  <2>4. QED
    BY <2>2, <2>3 DEF b, p
<1>9. QED
  BY <1>3, <1>4, <1>5, <1>8 DEF Buffers, u

LEMMA ReceptionIs ==
  ASSUME Typed, NEW i \in Ifaces, NEW f \in FrameType(i), f.k > 0, NEW mem \in BOOLEAN,
         NEW s, Takes(s, i, f), handleReception(receive(s, f, mem), f)
  PROVE  Received(s, i, f, mem)
<1> DEFINE age == IF f.sot THEN 0 ELSE s.age
           added == receive(s, f, mem)
           crc == Crc(s, f)
           w == Buf(s, f)
<1>1. /\ s \in ReceiverType /\ s.iface = i /\ s.tid = f.tid /\ s.age = recv.age
      /\ s.pos <= Len(s.buf)
  BY DEF Takes
<1>2. /\ i \in Listened /\ f.tid \in Tids /\ increment(f.tid) \in Tids /\ s.toggle \in Bits
      /\ 1 - s.toggle \in Bits /\ 0 \in Bits /\ s.pos + 1 \in Nat /\ crc \in Nat /\ 0 \in Nat
      /\ s.crc \in Nat /\ age \in Ages /\ w \in Buffers /\ <<>> \in Buffers
      /\ f.sot \in BOOLEAN /\ f.eot \in BOOLEAN
  <2>1. f.tid \in Tids /\ f.sot \in BOOLEAN /\ f.eot \in BOOLEAN
    BY DEF FrameType
  <2>2. increment(f.tid) \in Tids
    BY <2>1, IncrementIs
  <2>3. 0 \in Ages
    BY Times DEF Ages
  <2>4. QED
    BY <2>1, <2>2, <2>3, TakenIs DEF Listened, Bits, Buffers
<1>3. /\ recv' = IF added.result = "Complete" /\ checkPayloadCrc(added.r, f.k)
                 THEN [added.r EXCEPT !.buf = <<>>] ELSE added.r
      /\ got' = IF (added.result = "Complete" /\ checkPayloadCrc(added.r, f.k))
                      \/ added.result = "SingleFrame"
                THEN [got EXCEPT ![f.iface] =
                        Append(@, IF added.result = "Complete" /\ checkPayloadCrc(added.r, f.k)
                                  THEN Content(added.r.buf, f.k) ELSE f.n)]
                ELSE got
      /\ f.iface = i
  BY DEF handleReception, FrameType
<1>5. \/ /\ f.sot /\ f.eot
         /\ added = [r |-> Receiver(i, increment(f.tid), 0, 0, 0, age, <<>>), result |-> "SingleFrame"]
      \/ /\ ~(f.sot /\ f.eot) /\ ~mem
         /\ added = [r |-> Receiver(i, increment(f.tid), 0, 0, s.crc, age, <<>>),
                     result |-> "NotComplete"]
      \/ /\ mem /\ ~f.eot
         /\ added = [r |-> Receiver(i, f.tid, 1 - s.toggle, s.pos + 1, crc, age, w),
                     result |-> "NotComplete"]
      \/ /\ mem /\ f.eot /\ ~f.sot
         /\ added = [r |-> Receiver(i, increment(f.tid), 0, 0, crc, age, w), result |-> "Complete"]
  <2> HIDE DEF added
  <2> QED
    BY <1>1, ReceiveIs DEF Crc, Buf, added
<1>6. age = IF f.sot THEN 0 ELSE recv.age
  BY <1>1
<1> HIDE DEF age, added, crc, w
<1>7. CASE f.sot /\ f.eot /\ added = [r |-> Receiver(i, increment(f.tid), 0, 0, 0, age, <<>>),
                                      result |-> "SingleFrame"]
  <2>1. /\ recv' = Receiver(i, increment(f.tid), 0, 0, 0, age, <<>>) /\ Delivers(i, f.n)
    BY <1>3, <1>7 DEF Delivers
  <2>2. /\ recv' \in ReceiverType /\ recv'.iface = i /\ recv'.tid = increment(f.tid)
        /\ recv'.toggle = 0 /\ recv'.pos = 0 /\ recv'.age = age /\ recv'.buf = <<>>
    BY <1>2, <2>1 DEF Receiver, ReceiverType
  <2>3. QED
    BY <1>6, <1>7, <2>1, <2>2 DEF Received, Done
<1>8. CASE ~mem /\ added = [r |-> Receiver(i, increment(f.tid), 0, 0, s.crc, age, <<>>),
                            result |-> "NotComplete"]
  <2>1. /\ recv' = Receiver(i, increment(f.tid), 0, 0, s.crc, age, <<>>)
        /\ got' = got
    BY <1>3, <1>8
  <2>2. /\ recv' \in ReceiverType /\ recv'.iface = i /\ recv'.tid = increment(f.tid)
        /\ recv'.toggle = 0 /\ recv'.pos = 0 /\ recv'.age = age /\ recv'.buf = <<>>
    BY <1>2, <2>1 DEF Receiver, ReceiverType
  <2>3. QED
    BY <1>6, <1>8, <2>1, <2>2 DEF Received, Done
<1>9. CASE /\ mem /\ ~f.eot
           /\ added = [r |-> Receiver(i, f.tid, 1 - s.toggle, s.pos + 1, crc, age, w),
                       result |-> "NotComplete"]
  <2>1. /\ recv' = Receiver(i, f.tid, 1 - s.toggle, s.pos + 1, crc, age, w)
        /\ got' = got
    BY <1>3, <1>9
  <2>2. /\ recv' \in ReceiverType /\ recv'.iface = i /\ recv'.tid = f.tid
        /\ recv'.toggle = 1 - s.toggle /\ recv'.pos = s.pos + 1 /\ recv'.crc = crc
        /\ recv'.age = age /\ recv'.buf = w
    BY <1>2, <2>1 DEF Receiver, ReceiverType
  <2>3. QED
    BY <1>6, <1>9, <2>1, <2>2 DEF Received, Partial, crc, w
<1>10. CASE /\ mem /\ f.eot /\ ~f.sot
            /\ added = [r |-> Receiver(i, increment(f.tid), 0, 0, crc, age, w), result |-> "Complete"]
  <2> DEFINE q == Receiver(i, increment(f.tid), 0, 0, crc, age, w)
  <2>1. /\ q \in ReceiverType /\ q.iface = i /\ q.tid = increment(f.tid)
        /\ q.toggle = 0 /\ q.pos = 0 /\ q.crc = crc /\ q.age = age /\ q.buf = w
    BY <1>2 DEF Receiver, ReceiverType
  <2> HIDE DEF q
  <2>2. added.r = q /\ added.result = "Complete"
    BY <1>10 DEF q
  <2>3. checkPayloadCrc(added.r, f.k) <=> Checked(s, f)
    BY <2>1, <2>2 DEF checkPayloadCrc, Checked, crc, w
  <2>4. \/ Checked(s, f) /\ Delivers(i, Content(w, f.k))
        \/ ~Checked(s, f) /\ got' = got
    BY <1>3, <2>1, <2>2, <2>3 DEF Delivers
  <2>5. recv' = q \/ recv' = [q EXCEPT !.buf = <<>>]
    BY <1>3, <2>2
  <2>6. /\ recv' \in ReceiverType /\ recv'.iface = i /\ recv'.tid = increment(f.tid)
        /\ recv'.toggle = 0 /\ recv'.pos = 0 /\ recv'.age = age /\ recv'.buf \in {<<>>, w}
    BY <1>2, <2>1, <2>5 DEF ReceiverType
  <2>7. QED
    BY <1>6, <1>10, <2>4, <2>6 DEF Received, Done, w
<1>11. QED
  BY <1>5, <1>7, <1>8, <1>9, <1>10

\* A buffer whose CRC is right holds the transfer of the last frame, from its
\* first frame on.
LEMMA CheckedIs ==
  ASSUME Typed, NEW i \in Ifaces, NEW f \in FrameType(i), f.k > 1, NEW s, Takes(s, i, f),
         Checked(s, f)
  PROVE  /\ Content(Buf(s, f), f.k) = f.n
         /\ 1 \in 1 .. Len(s.buf) /\ s.buf[1] = <<f.n, 1>>
<1> DEFINE w == Buf(s, f)
<1>1. /\ f.k \in Nat /\ f.n \in Nat /\ f.k > 0
  BY DEF FrameType
<1>2. /\ Crc(s, f) \in Nat /\ s.pos \in Nat /\ w \in Buffers
      /\ s.pos + 1 \in 1 .. Len(w) /\ w[s.pos + 1] = <<f.n, f.k>>
      /\ \A j \in 1 .. Len(w) : j # s.pos + 1 => j \in 1 .. Len(s.buf) /\ w[j] = s.buf[j]
  BY SMTT(30), <1>1, TakenIs DEF Takes
<1>3. Content(w, f.k) # Garbage
  BY <1>2 DEF Checked, Garbage
<1>4. PICK n \in 1 .. sent : w = [k \in 1 .. f.k |-> <<n, k>>]
  BY <1>3 DEF Content
<1>5. Content(w, f.k) = w[1][1]
  BY <1>4 DEF Content
<1> HIDE DEF w
<1>6. w \in Seq(Unit) /\ Len(w) = f.k
  BY <1>1, <1>2, <1>4 DEF Buffers
<1>7. 1 \in 1 .. f.k /\ s.pos + 1 \in 1 .. f.k
  BY <1>1, <1>2, <1>6
<1>8. w[1] = <<n, 1>> /\ w[s.pos + 1] = <<n, s.pos + 1>>
  BY <1>4, <1>7
<1>9. n = f.n /\ f.k = s.pos + 1
  BY <1>2, <1>8
<1>10. QED
  BY SMTT(30), <1>1, <1>2, <1>5, <1>8, <1>9, <1>6 DEF w

\* A buffer that holds the whole transfer and no more is right.
LEMMA WholeIsChecked ==
  ASSUME Typed, NEW n \in 1 .. sent, NEW k \in Nat, k > 0, NEW w \in Seq(Unit), Len(w) = k,
         \A j \in 1 .. k : w[j] = <<n, j>>
  PROVE  Content(w, k) = n
<1>1. w = [j \in 1 .. k |-> <<n, j>>]
  BY DEF Unit
<1>2. w[1][1] = n /\ 1 \in 1 .. k
  OBVIOUS
<1>3. QED
  BY <1>1, <1>2 DEF Content

-----------------------------------------------------------------------------
(* The receiver s has taken frame f: the invariant holds again.             *)
Taking(s, i, x, f, mem) ==
  /\ Reads(i, x, f) /\ Takes(s, i, f) /\ Received(s, i, f, mem)
  /\ heard' = Hear(i, f, mem)
  /\ UNCHANGED <<numTxMailboxes, ifaces, tid, quiet, credit, sent>>

\* Only the transfer of the frame is delivered; its first frame was taken before.
LEMMA GotIs ==
  ASSUME IInv, NEW i \in Ifaces, NEW x, NEW f, NEW mem \in BOOLEAN, NEW s, Taking(s, i, x, f, mem)
  PROVE  got' = got \/ (Delivers(i, f.n) /\ f.eot /\ (f.sot \/ Settled(f.n)))
<1>1. Typed /\ BusInv /\ Takes(s, i, f) /\ Received(s, i, f, mem) /\ Reads(i, x, f)
  BY DEF IInv, Taking
<1>2. /\ f \in FrameType(i) /\ f.k \in Nat /\ f.k > 0 /\ f.sot \in BOOLEAN /\ (f.sot <=> f.k = 1)
  BY <1>1, ReadIs
<1>3. CASE f.eot /\ ~f.sot /\ Checked(s, f) /\ Delivers(i, Content(Buf(s, f), f.k))
  <2>1. f.k > 1
    BY <1>2, <1>3
  <2>2. /\ Content(Buf(s, f), f.k) = f.n
        /\ 1 \in 1 .. Len(s.buf) /\ s.buf[1] = <<f.n, 1>>
    BY <1>1, <1>2, <1>3, <2>1, CheckedIs
  <2>3. s = recv
    BY <1>1, <1>3 DEF Takes
  <2>4. Settled(recv.buf[1][1]) /\ recv.buf[1][1] = f.n
    BY <2>2, <2>3 DEF IInv, AgeInv
  <2>5. QED
    BY <1>3, <2>2, <2>4
<1>4. QED
  BY <1>1, <1>3 DEF Received, Partial, Done

LEMMA ReceivedExpects ==
  ASSUME IInv, NEW i \in Ifaces, NEW x, NEW f, NEW mem \in BOOLEAN, NEW s, Taking(s, i, x, f, mem)
  PROVE  /\ Partial(s, f) => Dist' = sent + 1 - f.n /\ Expected' = f.n
         /\ Done(s, i, f, mem) => Dist' = sent - f.n /\ Expected' = f.n + 1
<1>1. /\ Typed /\ BusInv /\ Reads(i, x, f) /\ tid' = tid /\ sent' = sent /\ tid \in Tids /\ sent \in Nat
  BY Constants DEF IInv, Taking, Typed
<1>2. /\ f.tid \in Tids /\ f.n \in 1 .. sent
      /\ computeForwardDistance(f.tid, tid) = sent + 1 - f.n
  BY <1>1, ReadIs
<1>3. ASSUME Partial(s, f)
      PROVE  Dist' = sent + 1 - f.n /\ Expected' = f.n
  <2>1. Dist' = sent + 1 - f.n
    BY <1>1, <1>2, <1>3 DEF Partial, Dist
  <2>2. QED
    BY <1>1, <1>2, <2>1 DEF Expected
<1>4. ASSUME Done(s, i, f, mem)
      PROVE  Dist' = sent - f.n /\ Expected' = f.n + 1
  <2>1. computeForwardDistance(f.tid, tid) > 0
    BY <1>1, <1>2
  <2>2. Dist' = computeForwardDistance(f.tid, tid) - 1
    BY <1>1, <1>2, <1>4, <2>1, DistanceShrinks DEF Done, Dist
  <2>3. Dist' = sent - f.n
    BY <1>1, <1>2, <2>2
  <2>4. QED
    BY <1>1, <1>2, <2>3 DEF Expected
<1>5. QED
  BY <1>3, <1>4

LEMMA DeliversIs ==
  ASSUME Typed, NEW i \in Ifaces, NEW n \in Nat, Delivers(i, n)
  PROVE  /\ got' \in [Ifaces -> Seq(Nat)] /\ \A h \in Ifaces : h # i => got'[h] = got[h]
         /\ got'[i] = Append(got[i], n)
         /\ Len(got[i]) \in Nat /\ Len(got'[i]) = Len(got[i]) + 1 /\ got'[i][Len(got[i]) + 1] = n
         /\ \A j \in 1 .. Len(got[i]) : got'[i][j] = got[i][j]
<1>1. /\ got \in [Ifaces -> Seq(Nat)] /\ Append(got[i], n) \in Seq(Nat) /\ got[i] \in Seq(Nat)
  BY DEF Typed
<1>2. /\ got'[i] = Append(got[i], n) /\ \A h \in Ifaces : h # i => got'[h] = got[h]
      /\ got' \in [Ifaces -> Seq(Nat)]
  BY <1>1 DEF Delivers
<1>3. QED
  BY <1>1, <1>2

LEMMA TakingTyped ==
  ASSUME IInv, NEW i \in Ifaces, NEW x, NEW f, NEW mem \in BOOLEAN, NEW s, Taking(s, i, x, f, mem)
  PROVE  Typed' /\ BusInv'
<1>1. /\ Typed /\ BusInv /\ Reads(i, x, f) /\ UNCHANGED <<numTxMailboxes, ifaces, tid, quiet, credit, sent>>
      /\ Received(s, i, f, mem) /\ heard' = Hear(i, f, mem)
  BY DEF IInv, Taking
<1>2. /\ f.n \in Nat /\ f.k \in Nat /\ f.sot \in BOOLEAN /\ f.eot \in BOOLEAN /\ Shrinks
  BY <1>1, ReadIs
<1>3. BusInv' /\ BusType'
  BY <1>1, <1>2, ShrinkBus, ShrinkIs DEF Typed
<1>4. heard' \in HeardType
  <2>1. Nothing \in HeardType /\ heard \in HeardType /\ i \in Listened
    BY <1>1, NothingSettled DEF Typed, Listened
  <2>2. QED
    BY <1>1, <1>2, <2>1 DEF Hear, HeardType
<1>5. got' \in [Ifaces -> Seq(Nat)]
  BY <1>1, <1>2, GotIs, DeliversIs DEF Typed
<1>6. top' \in [Ifaces -> Nat]
  BY <1>1, TopIs
<1>7. QED
  BY <1>1, <1>3, <1>4, <1>5, <1>6 DEF Typed, Received

LEMMA TakingRecv ==
  ASSUME IInv, NEW i \in Ifaces, NEW x, NEW f, NEW mem \in BOOLEAN, NEW s, Taking(s, i, x, f, mem)
  PROVE  RecvInv'
<1>1. /\ Typed /\ BusInv /\ Reads(i, x, f) /\ sent' = sent /\ sent \in Nat
      /\ Takes(s, i, f) /\ Received(s, i, f, mem)
  BY Constants DEF IInv, Taking, Typed
<1>2. /\ f \in FrameType(i) /\ f.n \in 1 .. sent /\ f.k > 0
  BY <1>1, ReadIs
<1> DEFINE w == Buf(s, f)
<1>3. /\ s.pos \in Nat /\ Len(s.buf) \in Nat /\ s.toggle = s.pos % 2
      /\ w \in Buffers
      /\ s.pos + 1 \in 1 .. Len(w) /\ w[s.pos + 1] = <<f.n, f.k>>
      /\ \A j \in 1 .. Len(w) :
           j # s.pos + 1 => j \in 1 .. Len(s.buf) /\ w[j] = s.buf[j]
  BY SMTT(30), <1>1, <1>2, TakenIs DEF Takes
<1> HIDE DEF w
<1>4. \A j \in 1 .. Len(s.buf) : s.buf[j][1] <= sent
  <2>1. CASE s.buf = <<>>
    BY <2>1
  <2>2. CASE s = recv
    BY <2>2 DEF IInv, RecvInv
  <2>3. QED
    BY <1>1, <2>1, <2>2 DEF Takes
<1>5. ASSUME NEW j \in 1 .. Len(w) PROVE w[j][1] <= sent
  <2>1. CASE j = s.pos + 1
    BY <1>1, <1>2, <1>3, <2>1
  <2>2. CASE j # s.pos + 1
    BY <1>3, <1>4, <2>2
  <2>3. QED
    BY <2>1, <2>2
<1>6. CASE Partial(s, f)
  <2>1. recv'.toggle = 1 - s.toggle /\ recv'.pos = s.pos + 1 /\ recv'.buf = w
    BY <1>6 DEF Partial, w
  <2>2. 1 - s.toggle = (s.pos + 1) % 2
    <3>1. \A p \in Nat : 1 - (p % 2) = (p + 1) % 2
      OBVIOUS
    <3>2. QED
      BY <1>3, <3>1
  <2>3. s.pos + 1 <= Len(w)
    BY <1>3
  <2>4. QED
    BY <1>1, <1>5, <2>1, <2>2, <2>3 DEF RecvInv
<1>7. CASE Done(s, i, f, mem)
  <2>1. recv'.toggle = 0 /\ recv'.pos = 0 /\ recv'.buf \in {<<>>, w} /\ 0 % 2 = 0
    BY <1>7 DEF Done, w
  <2>2. CASE recv'.buf = <<>>
    BY <2>1, <2>2 DEF RecvInv
  <2>3. CASE recv'.buf = w
    <3>1. 0 <= Len(w)
      BY <1>3
    <3>2. QED
      BY <1>1, <1>5, <2>1, <2>3, <3>1 DEF RecvInv
  <2>4. QED
    BY <2>1, <2>2, <2>3
<1>8. QED
  BY <1>1, <1>6, <1>7 DEF Received

LEMMA TakingLive ==
  ASSUME IInv, NEW i \in Ifaces, NEW x, NEW f, NEW mem \in BOOLEAN, NEW s, Taking(s, i, x, f, mem)
  PROVE  LiveInv'
<1>1. /\ Typed /\ BusInv /\ Reads(i, x, f) /\ UNCHANGED <<quiet, credit>> /\ sent \in Nat
      /\ quiet \in Nat /\ credit \in Nat /\ Received(s, i, f, mem)
  BY Constants DEF IInv, Taking, Typed
<1>2. /\ f.n \in 1 .. sent /\ f.n \in Nat
      /\ quiet <= MaxLag /\ sent + 1 - f.n + credit <= MaxLag + Burst
  BY <1>1, ReadIs
<1>3. recv'.age \in Nat /\ recv'.iface = i
  <2>1. recv' \in ReceiverType /\ recv'.iface = i
    BY <1>1 DEF Received
  <2>2. recv'.age \in Ages
    BY <2>1, ReceiverFields
  <2>3. QED
    BY <2>1, <2>2, Times DEF Ages
<1>4. /\ quiet <= recv'.age + MaxLag
      /\ sent + 1 - f.n + credit <= recv'.age + MaxLag + Burst
      /\ sent - f.n + credit <= recv'.age + MaxLag + Burst
      /\ sent + 1 - f.n > 0
  <2>1. \A n, a \in Nat : n <= sent /\ quiet <= MaxLag /\ sent + 1 - n + credit <= MaxLag + Burst
           => /\ quiet <= a + MaxLag
              /\ sent + 1 - n + credit <= a + MaxLag + Burst
              /\ sent - n + credit <= a + MaxLag + Burst
              /\ sent + 1 - n > 0
    BY <1>1, Times
  <2>2. f.n <= sent
    BY <1>1, <1>2
  <2>3. QED
    BY <1>2, <1>3, <2>1, <2>2, Zenon
<1>5. ASSUME NEW y \in 1 .. Len(bus'[i]), bus'[i][y].sot, bus'[i][y].n > top'[i]
      PROVE  bus'[i][y].n >= f.n + 1
  <2>1. /\ bus'[i][y].n \in Nat
        /\ IF y < x THEN bus'[i][y].n <= top'[i] ELSE Before(f, bus'[i][y])
    BY <1>1, ReadBefore
  <2>2. top'[i] \in Nat
    BY <1>1, TopIs
  <2>3. Before(f, bus'[i][y])
    BY <1>5, <2>1, <2>2
  <2>4. f.n < bus'[i][y].n
    BY <1>5, <2>3 DEF Before
  <2>5. QED
    BY <1>2, <2>1, <2>4
<1>6. CASE Partial(s, f)
  <2>1. Dist' = sent + 1 - f.n /\ Expected' = f.n
    BY <1>6, ReceivedExpects
  <2>2. ASSUME NEW y \in 1 .. Len(bus'[i]), bus'[i][y].sot, bus'[i][y].n > top'[i]
        PROVE  bus'[i][y].n >= Expected' /\ bus'[i][y].n # Expected'
    <3>1. bus'[i][y].n \in Nat /\ bus'[i][y].n >= f.n + 1
      BY <1>1, <1>5, <2>2, ReadBefore
    <3>2. QED
      BY <1>2, <2>1, <3>1
  <2>3. QED
    BY <1>1, <1>3, <1>4, <2>1, <2>2 DEF LiveInv
<1>7. CASE Done(s, i, f, mem)
  <2>1. Dist' = sent - f.n /\ Expected' = f.n + 1 /\ recv'.pos = 0
    BY <1>7, ReceivedExpects DEF Done
  <2>2. QED
    BY <1>1, <1>3, <1>4, <1>5, <2>1 DEF LiveInv
<1>8. QED
  BY <1>1, <1>6, <1>7 DEF Received

LEMMA TakingOrder ==
  ASSUME IInv, NEW i \in Ifaces, NEW x, NEW f, NEW mem \in BOOLEAN, NEW s, Taking(s, i, x, f, mem)
  PROVE  OrderInv'
<1>1. /\ Typed /\ BusInv /\ Reads(i, x, f) /\ numTxMailboxes' = numTxMailboxes
      /\ Takes(s, i, f) /\ Received(s, i, f, mem)
  BY DEF IInv, Taking
<1> SUFFICES ASSUME numTxMailboxes = 1 PROVE OrderInv'
  BY <1>1 DEF OrderInv
<1>2. (\A h \in Ifaces : top'[h] = 0) /\ Newest(f.n) /\ f.n \in Nat
  BY <1>1, TopIs, ReadIs DEF IInv, OrderInv, Takes
<1>3. CASE got' = got
  <2>1. Expected' \in {f.n, f.n + 1}
    BY <1>1, ReceivedExpects DEF Received
  <2>2. \A h \in Ifaces : \A j \in 1 .. Len(got[h]) : got[h][j] < f.n /\ got[h][j] \in Nat
    BY <1>1, <1>2, GotOf DEF Newest
  <2>3. \A h \in Ifaces : \A j \in 1 .. Len(got[h]) : got[h][j] < Expected'
    BY <1>2, <2>1, <2>2
  <2>4. QED
    BY <1>2, <1>3, <2>3 DEF OrderInv
<1>4. CASE Delivers(i, f.n) /\ f.eot
  <2>1. Expected' = f.n + 1
    BY <1>1, <1>4, ReceivedExpects DEF Received, Partial
  <2>2. ASSUME NEW h \in Ifaces, NEW j \in 1 .. Len(got'[h]) PROVE got'[h][j] < f.n + 1
    <3>1. CASE h # i \/ j # Len(got[i]) + 1
      <4>1. j \in 1 .. Len(got[h]) /\ got'[h][j] = got[h][j]
        BY <1>1, <1>2, <1>4, <3>1, DeliversIs
      <4>2. got[h][j] < f.n /\ got[h][j] \in Nat
        BY <1>1, <1>2, <4>1, GotOf DEF Newest
      <4>3. QED
        BY <1>2, <4>1, <4>2
    <3>2. CASE h = i /\ j = Len(got[i]) + 1
      BY <1>1, <1>2, <1>4, <3>2, DeliversIs
    <3>3. QED
      BY <3>1, <3>2
  <2>3. QED
    BY <1>2, <2>1, <2>2 DEF OrderInv
<1>5. QED
  BY <1>3, <1>4, GotIs

LEMMA TakingAge ==
  ASSUME IInv, NEW i \in Ifaces, NEW x, NEW f, NEW mem \in BOOLEAN, NEW s, Taking(s, i, x, f, mem)
  PROVE  AgeInv'
<1>1. /\ Typed /\ BusInv /\ Reads(i, x, f) /\ sent' = sent /\ sent \in Nat
      /\ Takes(s, i, f) /\ Received(s, i, f, mem) /\ heard' = Hear(i, f, mem)
  BY Constants DEF IInv, Taking, Typed
<1>2. /\ f \in FrameType(i) /\ f.n \in 1 .. sent /\ f.n \in Nat /\ f.k \in Nat /\ f.k > 0
      /\ f.sot \in BOOLEAN /\ (f.sot <=> f.k = 1) /\ Shrinks
  BY <1>1, ReadIs
<1>3. recv'.age = IF f.sot THEN 0 ELSE recv.age
  BY <1>1 DEF Received
<1>4. ASSUME NEW n, f.sot \/ Settled(n) PROVE Settled(n)'
  <2>1. CASE f.sot
    <3>1. \A h \in Ifaces : \A y \in 1 .. Len(bus'[h]) : bus'[h][y].age \in 0 .. MaxLag
      <4> SUFFICES ASSUME NEW h \in Ifaces, NEW y \in 1 .. Len(bus'[h])
                   PROVE  bus'[h][y].age \in 0 .. MaxLag
        OBVIOUS
      <4>1. PICK z \in 1 .. Len(bus[h]) : bus'[h][y] = bus[h][z]
        BY <1>1, <1>2, ShrinkLeaves DEF Typed
      <4>2. QED
        BY <1>1, <4>1, FrameOf
    <3>2. recv'.age = 0
      BY <1>3, <2>1
    <3>3. QED
      BY <3>1, <3>2, Times DEF Settled
  <2>2. CASE ~f.sot
    BY <1>1, <1>2, <1>3, <1>4, <2>2, ShrinkSettles
  <2>3. QED
    BY <1>2, <2>1, <2>2
<1>5. ASSUME NEW h \in Ifaces, NEW j \in 1 .. Len(got'[h]) PROVE Settled(got[h][j])'
  <2>1. f.sot \/ Settled(got'[h][j])
    <3>1. CASE got' = got
      BY <3>1 DEF IInv, AgeInv
    <3>2. CASE Delivers(i, f.n) /\ (f.sot \/ Settled(f.n))
      <4>1. CASE h = i /\ j = Len(got[i]) + 1
        BY <1>1, <1>2, <3>2, <4>1, DeliversIs
      <4>2. CASE ~(h = i /\ j = Len(got[i]) + 1)
        <5>1. j \in 1 .. Len(got[h]) /\ got'[h][j] = got[h][j]
          BY <1>1, <1>2, <3>2, <4>2, DeliversIs
        <5>2. QED
          BY <5>1 DEF IInv, AgeInv
      <4>3. QED
        BY <4>1, <4>2
    <3>3. QED
      BY <3>1, <3>2, GotIs
  <2>2. QED
    BY <1>4, <2>1 DEF Settled
<1>6. (heard.n <= sent)' /\ Settled(heard.n)'
  <2>1. heard.n <= sent /\ Settled(heard.n) /\ Nothing.n = 0 /\ Settled(0)
    BY <1>1, NothingSettled DEF IInv, AgeInv
  <2>2. \/ heard' = heard \/ heard' = Nothing
        \/ heard'.n = f.n /\ (f.sot \/ heard.n = f.n)
    BY <1>1 DEF Hear
  <2>3. heard'.n <= sent /\ (f.sot \/ Settled(heard'.n))
    BY <1>1, <1>2, <2>1, <2>2
  <2>4. QED
    BY <1>1, <1>4, <2>3 DEF Settled
<1>7. ASSUME NEW j \in 1 .. Len(recv'.buf), recv'.buf[j][2] = 1
      PROVE  Settled(recv.buf[j][1])'
  <2>1. recv'.buf \in {<<>>, Buf(s, f)}
    BY <1>1 DEF Received, Partial, Done
  <2>2. recv'.buf = Buf(s, f)
    BY <1>7, <2>1
  <2>3. f.sot \/ Settled(recv'.buf[j][1])
    <3> SUFFICES ASSUME ~f.sot PROVE Settled(recv'.buf[j][1])
      OBVIOUS
    <3>1. s = recv /\ f.k # 1
      BY <1>1, <1>2 DEF Takes
    <3>2. Buf(s, f)[s.pos + 1] = <<f.n, f.k>>
          /\ (j # s.pos + 1 => j \in 1 .. Len(s.buf) /\ Buf(s, f)[j] = s.buf[j])
      BY <1>1, <1>2, <2>2, TakenIs
    <3>3. j # s.pos + 1
      BY <1>7, <2>2, <3>1, <3>2
    <3>4. j \in 1 .. Len(recv.buf) /\ recv'.buf[j] = recv.buf[j]
      BY <2>2, <3>1, <3>2, <3>3
    <3>5. recv.buf[j][2] = 1
      BY <1>7, <3>4
    <3>6. Settled(recv.buf[j][1])
      BY <3>4, <3>5 DEF IInv, AgeInv
    <3>7. QED
      BY <3>4, <3>6
  <2>4. QED
    BY <1>4, <2>3 DEF Settled
<1>8. QED
  BY <1>5, <1>6, <1>7 DEF AgeInv

\* The frame goes on with what was heard on the interface.
LEMMA ContinuesIs ==
  ASSUME IInv, NEW i \in Ifaces, NEW x, NEW f, NEW mem \in BOOLEAN, NEW s, Taking(s, i, x, f, mem),
         ~f.sot, heard.iface = i, heard.n = f.n, heard.k + 1 = f.k
  PROVE  /\ s = recv /\ recv.pos + 1 = f.k /\ recv.crc = f.n
         /\ Len(recv.buf) >= recv.pos
         /\ \A j \in 1 .. recv.pos : recv.buf[j] = <<f.n, j>>
<1>1. Typed /\ BusInv /\ Reads(i, x, f) /\ Takes(s, i, f)
  BY DEF IInv, Taking
<1>2. f = bus[i][x] /\ x \in 1 .. Len(bus[i])
  BY <1>1, ReadIs
<1>3. s = recv /\ recv.iface = i
  BY <1>1 DEF Takes
<1>4. Follows
  BY <1>2, <1>3 DEF IInv, HeardInv
<1>5. QED
  BY <1>3, <1>4 DEF Follows

\* A first frame that no later one overtook begins a transfer.
LEMMA BeginsIs ==
  ASSUME IInv, NEW i \in Ifaces, NEW x, NEW f, NEW mem \in BOOLEAN, NEW s, Taking(s, i, x, f, mem),
         f.sot, f.n > top[i]
  PROVE  s.pos = 0
<1>1. Typed /\ BusInv /\ Reads(i, x, f) /\ Takes(s, i, f)
  BY DEF IInv, Taking
<1>2. f = bus[i][x] /\ x \in 1 .. Len(bus[i])
  BY <1>1, ReadIs
<1>3. CASE s = recv /\ ~isTimedOut(recv) /\ Expected = f.n
  <2>1. recv.iface = i
    BY <1>1, <1>3 DEF Takes
  <2>2. QED
    BY <1>2, <1>3, <2>1 DEF IInv, LiveInv
<1>4. QED
  BY <1>1, <1>3 DEF Takes

LEMMA TakingHeard ==
  ASSUME IInv, NEW i \in Ifaces, NEW x, NEW f, NEW mem \in BOOLEAN, NEW s, Taking(s, i, x, f, mem)
  PROVE  HeardInv'
<1>1. /\ Typed /\ BusInv /\ Reads(i, x, f) /\ sent' = sent /\ sent \in Nat
      /\ Takes(s, i, f) /\ Received(s, i, f, mem) /\ heard' = Hear(i, f, mem)
  BY Constants DEF IInv, Taking, Typed
<1>2. /\ f \in FrameType(i) /\ f.n \in 1 .. sent /\ f.n \in Nat /\ f.k \in Nat /\ f.k > 0
      /\ f.sot \in BOOLEAN /\ (f.sot <=> f.k = 1) /\ f.eot \in BOOLEAN
  BY <1>1, ReadIs
<1>3. recv'.iface = i
  BY <1>1 DEF Received
<1> DEFINE w == Buf(s, f)
<1>4. /\ s.pos \in Nat /\ Len(s.buf) \in Nat /\ w \in Seq(Unit)
      /\ Len(w) = IF s.pos < Len(s.buf) THEN Len(s.buf) ELSE s.pos + 1
      /\ s.pos + 1 \in 1 .. Len(w) /\ w[s.pos + 1] = <<f.n, f.k>>
      /\ \A j \in 1 .. Len(w) : j # s.pos + 1 => j \in 1 .. Len(s.buf) /\ w[j] = s.buf[j]
  <2>1. w \in Buffers
    BY <1>1, <1>2, TakenIs
  <2>2. w \in Seq(Unit)
    BY <2>1 DEF Buffers
  <2> HIDE DEF w
  <2>3. QED
    BY SMTT(30), <1>1, <1>2, <2>1, <2>2, TakenIs DEF w
<1> HIDE DEF w
<1>5. CASE heard' = Nothing
  <2>1. ~heard'.whole /\ heard'.iface \notin Ifaces
    BY <1>5, Constants DEF Nothing
  <2>2. QED
    BY <2>1 DEF HeardInv
<1>6. CASE heard' # Nothing
  <2>1. /\ IF f.sot THEN f.n > top[i] ELSE heard.iface = i /\ heard.n = f.n /\ heard.k + 1 = f.k
        /\ mem
        /\ heard'.iface = i /\ heard'.n = f.n /\ heard'.k = f.k
        /\ (heard'.whole <=> f.eot /\ (f.sot \/ Len(recv.buf) <= f.k))
    BY <1>1, <1>2, <1>3, <1>6 DEF Hear
  <2>2. /\ s.pos + 1 = f.k /\ Crc(s, f) = f.n
        /\ \A j \in 1 .. f.k : j \in 1 .. Len(w) /\ w[j] = <<f.n, j>>
    <3>1. CASE f.sot
      <4>1. f.k = 1 /\ s.pos = 0
        BY <1>2, <2>1, <3>1, BeginsIs
      <4>2. QED
        BY <1>4, <3>1, <4>1 DEF Crc
    <3>2. CASE ~f.sot
      <4>1. /\ s = recv /\ s.pos + 1 = f.k /\ s.crc = f.n /\ Len(s.buf) >= s.pos
            /\ \A j \in 1 .. s.pos : s.buf[j] = <<f.n, j>>
        <5>1. heard.iface = i /\ heard.n = f.n /\ heard.k + 1 = f.k
          BY <2>1, <3>2
        <5>2. /\ s = recv /\ recv.pos + 1 = f.k /\ recv.crc = f.n /\ Len(recv.buf) >= recv.pos
              /\ \A j \in 1 .. recv.pos : recv.buf[j] = <<f.n, j>>
          BY <3>2, <5>1, ContinuesIs
        <5>3. QED
          BY <5>2
      <4>2. ASSUME NEW j \in 1 .. f.k PROVE j \in 1 .. Len(w) /\ w[j] = <<f.n, j>>
        <5>1. CASE j = s.pos + 1
          BY <1>4, <4>1, <5>1
        <5>2. CASE j # s.pos + 1
          <6>1. j \in 1 .. s.pos /\ j \in 1 .. Len(w)
            BY <1>2, <1>4, <4>1, <5>2
          <6>2. QED
            BY <1>4, <4>1, <5>2, <6>1
        <5>3. QED
          BY <5>1, <5>2
      <4>3. QED
        BY <3>2, <4>1, <4>2 DEF Crc
    <3>3. QED
      BY <1>2, <3>1, <3>2
  <2>3. ASSUME heard'.whole PROVE HasGot(heard.iface, heard.n)'
    <3>1. f.eot /\ (f.sot \/ Len(recv.buf) <= f.k)
      BY <2>1, <2>3
    <3>2. Done(s, i, f, mem)
      BY <1>1, <3>1 DEF Received, Partial
    <3>3. Delivers(i, f.n)
      <4>1. CASE f.sot
        BY <2>1, <3>1, <3>2, <4>1 DEF Done
      <4>2. CASE ~f.sot
        <5>1. s = recv /\ Len(s.buf) <= f.k
          BY <2>1, <3>1, <4>2, ContinuesIs
        <5>2. Len(w) = f.k
          BY <1>2, <1>4, <2>2, <5>1
        <5>3. Content(w, f.k) = f.n
          BY <1>1, <1>2, <1>4, <2>2, <5>2, WholeIsChecked
        <5>4. Checked(s, f)
          BY <2>2, <5>3 DEF Checked, w
        <5>5. QED
          BY <2>1, <3>1, <3>2, <4>2, <5>3, <5>4 DEF Done, w
      <4>3. QED
        BY <4>1, <4>2
    <3>4. Len(got[i]) + 1 \in 1 .. Len(got'[i]) /\ got'[i][Len(got[i]) + 1] = f.n
      BY <1>1, <1>2, <3>3, DeliversIs
    <3>5. QED
      BY <2>1, <3>4 DEF HasGot
  <2>4. ASSUME NEW y \in 1 .. Len(bus'[i]), bus'[i][y].n = f.n, bus'[i][y].k = f.k + 1
        PROVE  Follows'
    <3>1. IF y < x THEN Before(bus'[i][y], f) ELSE Before(f, bus'[i][y])
      BY <1>1, ReadBefore
    <3>2. ~f.eot
      <4>1. ~Before(bus'[i][y], f)
        BY <1>2, <2>4 DEF Before
      <4>2. Before(f, bus'[i][y])
        BY <3>1, <4>1
      <4>3. QED
        BY <1>2, <2>4, <4>2 DEF Before
    <3>3. Partial(s, f)
      BY <1>1, <2>1, <3>2 DEF Received, Done
    <3>4. /\ recv'.pos = f.k /\ recv'.crc = f.n /\ recv'.buf = w /\ Expected' = f.n
      BY <2>2, <3>3, ReceivedExpects DEF Partial, w
    <3>5. Len(w) >= f.k
      BY <1>2, <1>4, <2>2
    <3>6. QED
      BY <2>1, <2>2, <3>4, <3>5 DEF Follows
  <2>5. QED
    BY <2>1, <2>3, <2>4 DEF HeardInv
<1>7. QED
  BY <1>5, <1>6

\* The last frame of a transfer that is delivered was the only one.
LEMMA TakingOnce ==
  ASSUME IInv, NEW i \in Ifaces, NEW x, NEW f, NEW mem \in BOOLEAN, NEW s, Taking(s, i, x, f, mem),
         Delivers(i, f.n), f.eot
  PROVE  OnceInv'
<1>1. /\ Typed /\ BusInv /\ Reads(i, x, f) /\ sent' = sent
  BY DEF IInv, Taking
<1>2. f.n \in 1 .. sent /\ f.n \in Nat /\ BusType /\ Shrinks
  BY <1>1, ReadIs DEF Typed
<1>3. ASSUME NEW h \in Ifaces, NEW j \in 1 .. Len(got'[h])
      PROVE  /\ got'[h][j] \in 1 .. sent
             /\ \A y \in 1 .. Len(bus'[h]) : bus'[h][y].eot => bus'[h][y].n # got'[h][j]
  <2>1. CASE h = i /\ j = Len(got[i]) + 1
    <3>1. got'[h][j] = f.n
      BY <1>1, <1>2, <2>1, DeliversIs
    <3>2. ASSUME NEW y \in 1 .. Len(bus'[i]), bus'[i][y].eot PROVE bus'[i][y].n # f.n
      <4>1. /\ bus'[i][y].n \in Nat
            /\ IF y < x THEN Before(bus'[i][y], f) ELSE Before(f, bus'[i][y])
        BY <1>1, ReadBefore
      <4>2. bus'[i][y].n < f.n \/ f.n < bus'[i][y].n
        BY <3>2, <4>1 DEF Before
      <4>3. QED
        BY <1>2, <4>1, <4>2
    <3>3. QED
      BY <1>2, <2>1, <3>1, <3>2
  <2>2. CASE ~(h = i /\ j = Len(got[i]) + 1)
    <3>1. j \in 1 .. Len(got[h]) /\ got'[h][j] = got[h][j]
      BY <1>1, <1>2, <2>2, DeliversIs
    <3>2. ASSUME NEW y \in 1 .. Len(bus'[h]), bus'[h][y].eot PROVE bus'[h][y].n # got[h][j]
      <4>1. PICK z \in 1 .. Len(bus[h]) : bus'[h][y] = bus[h][z]
        BY <1>2, ShrinkLeaves
      <4>2. QED
        BY <3>1, <3>2, <4>1 DEF IInv, OnceInv
    <3>3. QED
      BY <3>1, <3>2 DEF IInv, OnceInv
  <2>3. QED
    BY <2>1, <2>2
<1>4. QED
  BY <1>1, <1>3 DEF OnceInv

\* The frame comes from one of the places of the window, and the ones behind it
\* move up by one.
LEMMA TakingWindow ==
  ASSUME IInv, NEW i \in Ifaces, NEW x, NEW f, NEW mem \in BOOLEAN, NEW s, Taking(s, i, x, f, mem),
         Delivers(i, f.n)
  PROVE  WindowInv'
<1>1. /\ Typed /\ BusInv /\ Reads(i, x, f) /\ numTxMailboxes' = numTxMailboxes
      /\ numTxMailboxes \in Nat /\ numTxMailboxes > 0
  BY NodeOf DEF IInv, Taking
<1>2. /\ f = bus[i][x] /\ f.n \in Nat /\ x \in 1 .. Len(bus[i]) /\ x <= numTxMailboxes /\ Takes1(i, x)
      /\ x \in Nat /\ x >= 1
  BY <1>1, ReadIs DEF Typed, BusType
<1>3. /\ got[i] \in Seq(Nat) /\ Len(got[i]) \in Nat /\ got'[i] = Append(got[i], f.n)
      /\ Len(got'[i]) = Len(got[i]) + 1 /\ got'[i][Len(got[i]) + 1] = f.n
      /\ \A j \in 1 .. Len(got[i]) : got'[i][j] = got[i][j] /\ got[i][j] \in Nat
      /\ \A h \in Ifaces : h # i => got'[h] = got[h]
  BY <1>1, <1>2, DeliversIs, GotOf
<1>4. ASSUME NEW h \in Ifaces, h # i, NEW j \in 1 .. Len(got'[h])
      PROVE  /\ Late(h, j)' < numTxMailboxes
             /\ \A y \in 1 .. Len(bus'[h]) :
                  bus'[h][y].n < got'[h][j] => y + Late(h, j)' < numTxMailboxes
  <2>1. bus'[h] = bus[h] /\ got'[h] = got[h]
    BY <1>1, <1>2, <1>3, <1>4, TakeIs DEF Typed
  <2>2. Late(h, j)' = Late(h, j)
    BY <2>1 DEF Late, Link!OlderAfter
  <2>3. QED
    BY <1>4, <2>1, <2>2 DEF IInv, WindowInv
<1>5. ASSUME NEW j \in 1 .. Len(got'[i])
      PROVE  /\ Late(i, j)' < numTxMailboxes
             /\ \A y \in 1 .. Len(bus'[i]) :
                  bus'[i][y].n < got'[i][j] => y + Late(i, j)' < numTxMailboxes
  <2>1. Late(i, j)' = IF j = Len(got[i]) + 1 THEN 0
                      ELSE IF f.n < got[i][j] THEN Late(i, j) + 1 ELSE Late(i, j)
    <3>1. Late(i, j)' = Cardinality(Link!OlderAfter(Append(got[i], f.n), j))
      BY <1>3 DEF Late, Link!OlderAfter
    <3>2. QED
      BY <1>2, <1>3, <3>1, LateAppend DEF Late
  <2>2. ASSUME NEW y \in 1 .. Len(bus'[i])
        PROVE  LET z == IF y < x THEN y ELSE y + 1
               IN  /\ y \in Nat /\ z \in 1 .. Len(bus[i]) /\ bus'[i][y] = bus[i][z]
                   /\ bus'[i][y].n \in Nat /\ (y < x \/ f.n <= bus'[i][y].n)
    <3>1. y \in Nat
      BY <1>1, <1>2, TakeIs DEF Typed
    <3>2. QED
      BY <1>1, <3>1, ReadBefore DEF Before
  <2>3. CASE j = Len(got[i]) + 1
    <3>1. got'[i][j] = f.n /\ Late(i, j)' = 0
      BY <1>3, <2>1, <2>3
    <3>2. ASSUME NEW y \in 1 .. Len(bus'[i]), bus'[i][y].n < f.n PROVE y + 0 < numTxMailboxes
      <4>1. y < x /\ y \in Nat
        BY <1>2, <2>2, <3>2
      <4>2. QED
        BY <1>1, <1>2, <4>1
    <3>3. QED
      BY <1>1, <3>1, <3>2
  <2>4. CASE j # Len(got[i]) + 1
    <3> DEFINE m == got[i][j]
               l == Late(i, j)
    <3>1. j \in 1 .. Len(got[i]) /\ got'[i][j] = m /\ m \in Nat /\ l \in Nat
      BY <1>1, <1>3, <2>4, LateIs
    <3>2. l < numTxMailboxes /\ \A z \in 1 .. Len(bus[i]) : bus[i][z].n < m => z + l < numTxMailboxes
      BY <3>1 DEF IInv, WindowInv
    <3>3. Late(i, j)' = IF f.n < m THEN l + 1 ELSE l
      BY <2>1, <2>4
    <3> HIDE DEF m, l
    <3>4. f.n < m => x + l < numTxMailboxes
      BY <1>2, <3>2
    <3>5. Late(i, j)' < numTxMailboxes
      BY <1>1, <1>2, <3>1, <3>2, <3>3, <3>4
    <3>6. ASSUME NEW y \in 1 .. Len(bus'[i]), bus'[i][y].n < m
          PROVE  y + Late(i, j)' < numTxMailboxes
      <4> DEFINE z == IF y < x THEN y ELSE y + 1
      <4>1. y \in Nat /\ z \in 1 .. Len(bus[i]) /\ bus[i][z].n < m
        BY <2>2, <3>6
      <4>2. z + l < numTxMailboxes
        BY <3>2, <4>1
      <4>3. CASE f.n < m
        BY <1>1, <1>2, <3>1, <3>3, <3>4, <4>1, <4>2, <4>3
      <4>4. CASE ~(f.n < m)
        BY <1>1, <1>2, <3>1, <3>3, <4>1, <4>2, <4>4
      <4>5. QED
        BY <4>3, <4>4
    <3>7. QED
      BY <3>1, <3>5, <3>6
  <2>5. QED
    BY <2>3, <2>4
<1>6. QED
  BY <1>1, <1>4, <1>5 DEF WindowInv

LEMMA TakingKeeps ==
  ASSUME IInv, NEW i \in Ifaces, NEW x, NEW f, NEW mem \in BOOLEAN, NEW s, Taking(s, i, x, f, mem)
  PROVE  IInv'
<1>1. OnceInv' /\ WindowInv'
  <2>1. CASE got' = got
    <3>1. Shrinks
      BY ReadIs DEF IInv, Taking
    <3>2. QED
      BY <2>1, <3>1, ShrinkGot DEF IInv, Taking
  <2>2. CASE Delivers(i, f.n) /\ f.eot
    BY <2>2, TakingOnce, TakingWindow
  <2>3. QED
    BY <2>1, <2>2, GotIs
<1>2. QED
  BY <1>1, TakingTyped, TakingRecv, TakingLive, TakingOrder, TakingAge, TakingHeard DEF IInv

-----------------------------------------------------------------------------
(* A frame that is not taken: nothing was being heard.                      *)

\* A receiver that has not timed out takes the next frame of what it was hearing,
\* and the first frame of a later transfer of its interface.
LEMMA IgnoredIsNotHeard ==
  ASSUME IInv, NEW i \in Ifaces, NEW x, NEW f, Reads(i, x, f), NEW switch \in BOOLEAN,
         ~need_restart(recv, f, switch), ~validate(recv, f), recv.iface = i,
         IF f.sot THEN f.n > top[i] ELSE heard.iface = i /\ heard.n = f.n /\ heard.k + 1 = f.k
  PROVE  FALSE
<1>1. /\ Typed /\ BusInv /\ ~isTimedOut(recv) /\ sent \in Nat /\ tid \in Tids
  BY Constants DEF need_restart, IInv, Typed
<1>2. /\ f = bus[i][x] /\ x \in 1 .. Len(bus[i]) /\ f.iface = i /\ f.n \in 1 .. sent /\ f.n \in Nat
      /\ f.k \in Nat /\ f.k > 0 /\ f.tid \in Tids /\ f.toggle = (f.k - 1) % 2
      /\ f.sot \in BOOLEAN /\ (f.sot <=> f.k = 1)
      /\ computeForwardDistance(f.tid, tid) = sent + 1 - f.n
  BY <1>1, ReadIs
<1>3. /\ recv.tid \in Tids /\ recv.pos \in Nat /\ Dist \in 0 .. TidCount - 1 /\ Expected \in Int
      /\ recv.toggle = recv.pos % 2
  BY <1>1, ReceiverOf DEF IInv, RecvInv
<1>4. ASSUME Expected = f.n PROVE recv.tid = f.tid
  <2>1. Dist = sent + 1 - f.n
    BY <1>1, <1>2, <1>3, <1>4, Times DEF Expected
  <2>2. QED
    BY SMTT(30), <1>1, <1>2, <1>3, <2>1, DistanceTells DEF Dist
<1>5. CASE f.sot
  <2>1. f.n >= Expected /\ (f.n = Expected => recv.pos = 0)
    BY <1>1, <1>2, <1>5 DEF IInv, LiveInv
  <2>2. CASE f.n = Expected
    <3>1. recv.pos = 0 /\ f.k = 1
      BY <1>2, <1>5, <2>1, <2>2
    <3>2. recv.toggle = f.toggle
      BY <1>2, <1>3, <3>1
    <3>3. QED
      BY <1>2, <1>4, <2>2, <3>2 DEF validate
  <2>3. CASE f.n > Expected
    <3> DEFINE y == sent + 1 - f.n
    <3>1. computeForwardDistance(f.tid, recv.tid) = IF y >= Dist THEN y - Dist ELSE y - Dist + TidCount
      BY SMTT(30), <1>1, <1>2, <1>3, DistanceBetween DEF Dist
    <3>2. y < Dist /\ y >= 1 /\ y \in Int /\ Dist <= TidCount - 1 /\ Dist \in Int
      <4>1. Dist \in Int /\ Dist <= TidCount - 1
        BY <1>3, Times
      <4>2. f.n > sent + 1 - Dist
        BY <2>3 DEF Expected
      <4>3. QED
        <5>1. \A n, d \in Int : n > sent + 1 - d /\ n <= sent
                                 => sent + 1 - n < d /\ sent + 1 - n >= 1
          BY <1>1
        <5>2. f.n \in Int /\ f.n <= sent /\ y \in Int
          BY <1>1, <1>2
        <5>3. QED
          BY <4>1, <4>2, <5>1, <5>2
    <3> HIDE DEF y
    <3>3. computeForwardDistance(f.tid, recv.tid) > 1
      BY <3>1, <3>2, Times
    <3>4. QED
      BY <1>2, <1>5, <3>3 DEF need_restart
  <2>4. QED
    BY <1>2, <1>3, <2>1, <2>2, <2>3
<1>6. CASE ~f.sot
  <2>1. heard.iface = i /\ heard.n = f.n /\ heard.k + 1 = f.k /\ heard.k \in Nat
    BY <1>1, <1>6 DEF Typed, HeardType
  <2>2. Follows
    BY <1>2, <2>1 DEF IInv, HeardInv
  <2>3. Expected = f.n /\ recv.pos + 1 = f.k
    BY <2>1, <2>2 DEF Follows
  <2>4. recv.toggle = f.toggle
    <3>1. f.k - 1 = recv.pos
      <4>1. \A p, k \in Nat : p + 1 = k => k - 1 = p
        OBVIOUS
      <4>2. QED
        BY <1>2, <1>3, <2>3, <4>1, Zenon
    <3>2. QED
      BY <1>2, <1>3, <3>1
  <2>5. QED
    BY <1>2, <1>4, <2>3, <2>4 DEF validate
<1>7. QED
  BY <1>2, <1>5, <1>6

\* A receiver that has timed out begins with the transfer after the frame's: it
\* stays timed out.
LEMMA SkippedKeeps ==
  ASSUME IInv, NEW i \in Ifaces, NEW x, NEW f, Reads(i, x, f), NEW mem \in BOOLEAN,
         isTimedOut(recv), ~f.sot,
         recv' = Receiver(i, increment(f.tid), 0, 0, 0, recv.age, <<>>),
         UNCHANGED <<numTxMailboxes, ifaces, tid, quiet, credit, sent, got>>,
         heard' = Hear(i, f, mem)
  PROVE  IInv'
<1>1. Typed /\ BusInv /\ sent \in Nat
  BY Constants DEF IInv, Typed
<1>2. /\ f = bus[i][x] /\ x \in 1 .. Len(bus[i]) /\ f.n \in Nat /\ f.tid \in Tids /\ Shrinks
  BY <1>1, ReadIs
<1>3. /\ recv' \in ReceiverType /\ recv'.iface = i /\ recv'.toggle = 0 /\ recv'.pos = 0
      /\ recv'.age = recv.age /\ recv'.buf = <<>>
  <2>1. i \in Listened /\ 0 \in Bits /\ recv.age \in Ages /\ <<>> \in Buffers /\ 0 \in Nat
    BY <1>1, ReceiverOf DEF Listened, Bits, Ages, Buffers
  <2>2. increment(f.tid) \in Tids
    BY <1>2, IncrementIs
  <2>3. QED
    BY <2>1, <2>2 DEF Receiver, ReceiverType
<1>4. heard' = Nothing
  <2>1. heard.n \in Nat /\ Settled(heard.n)
    BY <1>1 DEF IInv, AgeInv, Typed, HeardType
  <2>2. f.n > heard.n
    BY <1>1, <1>2, <2>1, NothingStale
  <2>3. QED
    BY <1>2, <1>3, <2>1, <2>2 DEF Hear
<1>5. BusInv' /\ BusType'
  BY <1>1, <1>2, ShrinkBus, ShrinkIs DEF Typed
<1>6. /\ top' \in [Ifaces -> Nat]
      /\ numTxMailboxes = 1 => top' = top
  BY <1>1, TopIs
<1>7. Typed'
  BY <1>1, <1>3, <1>4, <1>5, <1>6, NothingSettled DEF Typed
<1>8. RecvInv'
  <2>1. 0 % 2 = 0 /\ Len(recv'.buf) = 0
    BY <1>3
  <2>2. QED
    BY <1>3, <2>1 DEF RecvInv
<1>9. LiveInv' /\ OrderInv'
  <2>1. isTimedOut(recv)'
    BY <1>3 DEF isTimedOut
  <2>2. QED
    BY <1>6, <2>1 DEF IInv, LiveInv, OrderInv
<1>10. AgeInv'
  <2>1. ASSUME NEW n, Settled(n) PROVE Settled(n)'
    BY <1>1, <1>2, <1>3, <2>1, ShrinkSettles
  <2>2. \A j \in 1 .. Len(recv'.buf) : FALSE
    BY <1>3
  <2>3. \A h \in Ifaces : \A j \in 1 .. Len(got[h]) : Settled(got[h][j])'
    BY <2>1 DEF IInv, AgeInv, Settled
  <2>4. (heard.n <= sent)' /\ Settled(heard.n)'
    <3>1. heard'.n = 0 /\ Settled(0) /\ 0 <= sent
      BY <1>1, <1>4, NothingSettled
    <3>2. QED
      BY <2>1, <3>1 DEF Settled
  <2>5. QED
    BY <2>2, <2>3, <2>4 DEF AgeInv
<1>11. HeardInv'
  <2>1. ~heard'.whole /\ heard'.iface \notin Ifaces
    BY <1>4, Constants DEF Nothing
  <2>2. QED
    BY <2>1 DEF HeardInv
<1>12. OnceInv' /\ WindowInv'
  BY <1>1, <1>2, ShrinkGot DEF IInv
<1>13. QED
  BY <1>5, <1>7, <1>8, <1>9, <1>10, <1>11, <1>12 DEF IInv

-----------------------------------------------------------------------------
LEMMA HandleFrameIs ==
  ASSUME NEW i \in Ifaces, NEW x, NEW switch \in BOOLEAN, NEW mem \in BOOLEAN,
         handleFrame(i, x, switch, mem), NEW f, f = bus[i][x]
  PROVE  /\ Reads(i, x, f) /\ UNCHANGED <<numTxMailboxes, ifaces, tid, quiet, credit, sent>>
         /\ heard' = Hear(i, f, mem)
         /\ \/ recv = NoReceiver /\ UNCHANGED <<recv, got>>
            \/ handleReception(addFrame(recv, f, switch, mem), f)
BY DEF handleFrame, Reads

\* What happens to the frame: the receiver is as it was, or skips it, or takes it.
LEMMA HandleFrameCases ==
  ASSUME IInv, NEW i \in Ifaces, NEW x, NEW switch \in BOOLEAN, NEW mem \in BOOLEAN,
         handleFrame(i, x, switch, mem), NEW f, f = bus[i][x]
  PROVE  \/ /\ UNCHANGED <<recv, got>>
            /\ \/ recv = NoReceiver
               \/ ~need_restart(recv, f, switch) /\ ~validate(recv, f)
         \/ /\ isTimedOut(recv) /\ ~f.sot
            /\ recv' = Receiver(i, increment(f.tid), 0, 0, 0, recv.age, <<>>)
            /\ got' = got
         \/ \E s : Taking(s, i, x, f, mem)
<1>1. /\ Typed /\ BusInv /\ Reads(i, x, f)
      /\ UNCHANGED <<numTxMailboxes, ifaces, tid, quiet, credit, sent>>
      /\ heard' = Hear(i, f, mem) /\ recv \in ReceiverType
  BY HandleFrameIs DEF IInv, Typed
<1>2. /\ f \in FrameType(i) /\ f.k > 0 /\ f.toggle = (f.k - 1) % 2 /\ f.sot \in BOOLEAN
      /\ (f.sot <=> f.k = 1)
  BY <1>1, ReadIs
<1>3. CASE recv = NoReceiver /\ UNCHANGED <<recv, got>>
  BY <1>3
<1>4. CASE handleReception(addFrame(recv, f, switch, mem), f)
  <2> DEFINE added == addFrame(recv, f, switch, mem)
  <2>1. \/ /\ ~need_restart(recv, f, switch) /\ ~validate(recv, f)
           /\ added = [r |-> recv, result |-> "NotComplete"]
        \/ /\ isTimedOut(recv) /\ ~f.sot
           /\ added = [r |-> Receiver(i, increment(f.tid), 0, 0, 0, recv.age, <<>>),
                       result |-> "NotComplete"]
        \/ /\ ~need_restart(recv, f, switch) /\ validate(recv, f)
           /\ added = receive(recv, f, mem)
        \/ /\ need_restart(recv, f, switch) /\ f.sot
           /\ added = receive(Receiver(i, f.tid, 0, 0, 0, recv.age, <<>>), f, mem)
    BY <1>1, <1>2, AddFrameIs
  <2> HIDE DEF added
  <2>2. ASSUME NEW r, added = [r |-> r, result |-> "NotComplete"]
        PROVE  recv' = r /\ got' = got
    <3>1. handleReception(added, f)
      BY <1>4 DEF added
    <3>2. added.r = r /\ added.result = "NotComplete"
      BY <2>2
    <3>3. QED
      BY <3>1, <3>2 DEF handleReception
  <2>3. ASSUME NEW s, Takes(s, i, f), added = receive(s, f, mem)
        PROVE  Taking(s, i, x, f, mem)
    <3>1. handleReception(receive(s, f, mem), f)
      BY <1>4, <2>3 DEF added
    <3>2. Received(s, i, f, mem)
      BY <1>1, <1>2, <2>3, <3>1, ReceptionIs
    <3>3. QED
      BY <1>1, <2>3, <3>2 DEF Taking
  <2>4. CASE /\ ~need_restart(recv, f, switch) /\ ~validate(recv, f)
             /\ added = [r |-> recv, result |-> "NotComplete"]
    BY <2>2, <2>4
  <2>5. CASE /\ isTimedOut(recv) /\ ~f.sot
             /\ added = [r |-> Receiver(i, increment(f.tid), 0, 0, 0, recv.age, <<>>),
                         result |-> "NotComplete"]
    BY <2>2, <2>5
  <2>6. CASE /\ ~need_restart(recv, f, switch) /\ validate(recv, f)
             /\ added = receive(recv, f, mem)
    BY <1>1, <2>3, <2>6, ValidTakes
  <2>7. CASE /\ need_restart(recv, f, switch) /\ f.sot
             /\ added = receive(Receiver(i, f.tid, 0, 0, 0, recv.age, <<>>), f, mem)
    BY <1>1, <2>3, <2>7, RestartTakes
  <2>8. QED
    BY <2>1, <2>4, <2>5, <2>6, <2>7
<1>5. QED
  BY <1>3, <1>4, HandleFrameIs

LEMMA HandleFrameKeeps ==
  ASSUME IInv, NEW i \in Ifaces, NEW x, NEW switch \in BOOLEAN, NEW mem \in BOOLEAN,
         handleFrame(i, x, switch, mem)
  PROVE  IInv'
<1> DEFINE f == bus[i][x]
<1>1. /\ Typed /\ BusInv /\ Reads(i, x, f)
      /\ UNCHANGED <<numTxMailboxes, ifaces, tid, quiet, credit, sent>>
      /\ heard' = Hear(i, f, mem)
  BY HandleFrameIs DEF IInv
<1> DEFINE Kept == /\ UNCHANGED <<recv, got>>
                   /\ \/ recv = NoReceiver
                      \/ ~need_restart(recv, f, switch) /\ ~validate(recv, f)
           Skipped == /\ isTimedOut(recv) /\ ~f.sot
                      /\ recv' = Receiver(i, increment(f.tid), 0, 0, 0, recv.age, <<>>)
                      /\ got' = got
<1>2. Kept \/ Skipped \/ \E s : Taking(s, i, x, f, mem)
  BY HandleFrameCases
<1> HIDE DEF f
<1>3. CASE Kept
  <2>1. heard' \in {heard, Nothing}
    BY <1>1 , <1>3, IgnoredIsNotHeard, NoReceiverIs, Constants DEF Hear
  <2>2. Shrinks
    BY <1>1, ReadIs
  <2>3. /\ top' \in [Ifaces -> Nat] /\ \A h \in Ifaces : top'[h] >= top[h]
        /\ numTxMailboxes = 1 => top' = top
    BY <1>1, TopIs
  <2>4. QED
    BY <1>1, <1>3, <2>1, <2>2, <2>3, ShrinkKeeps
<1>4. CASE Skipped
  BY <1>1, <1>4, SkippedKeeps
<1>5. CASE \E s : Taking(s, i, x, f, mem)
  BY <1>5, TakingKeeps
<1>6. QED
  BY <1>2, <1>3, <1>4, <1>5

-----------------------------------------------------------------------------
(* The invariant of the specification.                                      *)
LEMMA NextKeeps == IInv /\ [Next]_vars => IInv'
<1> SUFFICES ASSUME IInv, [Next]_vars PROVE IInv'
  OBVIOUS
<1>1. ASSUME NEW len \in Lengths, publish(len) PROVE IInv'
  BY <1>1, PublishKeeps
<1>2. CASE registryCleanup
  BY <1>2, RegistryCleanupKeeps
<1>3. CASE cleanup
  BY <1>3, CleanupKeeps
<1>4. CASE Tick
  BY <1>4, TickKeeps
<1>5. ASSUME NEW i \in Ifaces, NEW x \in Window(i), lose(i, x) PROVE IInv'
  BY <1>5, LoseKeeps
<1>6. ASSUME NEW i \in Ifaces, NEW x \in Window(i), NEW switch \in BOOLEAN, NEW mem \in BOOLEAN,
             handleFrame(i, x, switch, mem)
      PROVE  IInv'
  BY <1>6, HandleFrameKeeps
<1>7. CASE UNCHANGED vars
  BY <1>7, LoseKeeps
<1>8. QED
  BY <1>1, <1>2, <1>3, <1>4, <1>5, <1>6, <1>7 DEF Next

\* The invariant, from which the theorems below follow.
THEOREM Invariance == Spec => []IInv
<1>1. Init => IInv
  BY InitInv
<1>2. IInv /\ [Next]_vars => IInv'
  BY NextKeeps
<1>3. QED
  BY <1>1, <1>2, PTL DEF Spec

\* Identifiers stay within their bits, ages within what is told apart, and the
\* position within the buffer.
THEOREM TypeCorrect == Spec => []TypeOK
<1>1. IInv => TypeOK
  <2> SUFFICES ASSUME IInv PROVE TypeOK
    OBVIOUS
  <2>1. /\ <<numTxMailboxes, ifaces>> \in Nodes /\ credit \in 0 .. Burst
        /\ tid \in Tids /\ quiet \in 0 .. Lifetime /\ sent \in 0 .. MaxTransfers
    BY DEF IInv, Typed
  <2>2. recv.tid \in Tids /\ recv.age \in 0 .. TidTimeout + 1
    BY ReceiverOf DEF IInv
  <2>3. recv.toggle = recv.pos % 2 /\ recv.pos <= Len(recv.buf)
    BY DEF IInv, RecvInv
  <2>4. QED
    BY <2>1, <2>2, <2>3 DEF TypeOK, Tids
<1>2. QED
  BY <1>1, Invariance, PTL

\* A transfer of which every frame was read in order from the interface that the
\* receiver listens to was delivered from there.
THEOREM WholeIsDelivered == Spec => []IntactIsDelivered
<1>1. IInv => IntactIsDelivered
  BY DEF IInv, HeardInv, HasGot, IntactIsDelivered
<1>2. QED
  BY <1>1, Invariance, PTL

\* The abstract link counts as this module does.
LEMMA SameCardinality == \A S : Link!Cardinality(S) = Cardinality(S)
BY DEF Cardinality, Link!Cardinality

\* A frame delivers a transfer, or nothing.
LEMMA HandleFrameDelivers ==
  ASSUME IInv, NEW i \in Ifaces, NEW x, NEW switch \in BOOLEAN, NEW mem \in BOOLEAN,
         handleFrame(i, x, switch, mem)
  PROVE  Link!Deliver(i) \/ UNCHANGED <<numTxMailboxes, sent, got>>
<1> DEFINE f == bus[i][x]
<1>1. Typed /\ BusInv /\ Reads(i, x, f) /\ UNCHANGED <<numTxMailboxes, sent>>
  BY HandleFrameIs DEF IInv
<1>2. got' = got \/ \E s : Taking(s, i, x, f, mem)
  BY HandleFrameCases
<1> HIDE DEF f
<1>3. CASE got' # got
  <2>1. PICK s : Taking(s, i, x, f, mem)
    BY <1>2, <1>3
  <2>2. Delivers(i, f.n) /\ f.eot /\ Takes(s, i, f)
    BY <1>3, <2>1, GotIs DEF Taking
  <2>3. /\ f.n \in 1 .. sent /\ f.n \in Nat /\ f = bus[i][x] /\ x \in 1 .. Len(bus[i])
    BY <1>1, ReadIs
  <2>4. ASSUME NEW j \in 1 .. Len(got[i])
        PROVE  f.n # got[i][j] /\ Cardinality(Link!OlderAfter(got'[i], j)) < numTxMailboxes
    <3>1. f.n # got[i][j]
      BY <2>2, <2>3 DEF IInv, OnceInv
    <3>2. j \in 1 .. Len(got'[i])
      BY <1>1, <2>2, <2>3, DeliversIs
    <3>3. Late(i, j)' < numTxMailboxes
      BY <1>1, <2>1, <2>2, <3>2, TakingWindow DEF WindowInv
    <3>4. QED
      BY <3>1, <3>3 DEF Late, Link!OlderAfter
  <2>5. numTxMailboxes = 1 => \A h \in Ifaces : \A j \in 1 .. Len(got[h]) : got[h][j] < f.n
    BY <2>2 DEF Takes, Newest
  <2>6. got' = [got EXCEPT ![i] = Append(@, f.n)] /\ UNCHANGED <<numTxMailboxes, sent>>
    BY <1>1, <2>2 DEF Delivers
  <2>7. \E n \in 1 .. sent :
          /\ got' = [got EXCEPT ![i] = Append(@, n)]
          /\ \A j \in 1 .. Len(got[i]) :
               n # got[i][j] /\ Cardinality(Link!OlderAfter(got'[i], j)) < numTxMailboxes
          /\ numTxMailboxes = 1 => \A h \in Ifaces : \A j \in 1 .. Len(got[h]) : got[h][j] < n
          /\ UNCHANGED <<numTxMailboxes, sent>>
    <3> DEFINE n == f.n
    <3>1. n \in 1 .. sent
      BY <2>3
    <3>2. /\ got' = [got EXCEPT ![i] = Append(@, n)]
          /\ \A j \in 1 .. Len(got[i]) :
               n # got[i][j] /\ Cardinality(Link!OlderAfter(got'[i], j)) < numTxMailboxes
          /\ numTxMailboxes = 1 => \A h \in Ifaces : \A j \in 1 .. Len(got[h]) : got[h][j] < n
      BY <2>4, <2>5, <2>6
    <3> HIDE DEF n
    <3>3. QED
      BY <2>6, <3>1, <3>2
  <2>8. QED
    BY <2>7, SameCardinality DEF Link!Deliver
<1>4. QED
  BY <1>1, <1>3

\* Every transfer is delivered as it was sent, at most once from an interface and
\* mixed no more than by the mailboxes of the driver, whatever is lost, delayed or
\* overtaken; with a single mailbox in order and once.
THEOREM DeliveredAsSent == Spec => DeliversAsSent
<1>1. Init => sent = 0 /\ got = [i \in Ifaces |-> <<>>]
  BY DEF Init
<1>2. IInv /\ [Next]_vars
        => [Link!Send \/ \E i \in Ifaces : Link!Deliver(i)]_<<numTxMailboxes, sent, got>>
  <2> SUFFICES ASSUME IInv, [Next]_vars
               PROVE  \/ Link!Send \/ \E i \in Ifaces : Link!Deliver(i)
                      \/ UNCHANGED <<numTxMailboxes, sent, got>>
    OBVIOUS
  <2>1. ASSUME NEW len \in Lengths, publish(len) PROVE Link!Send
    BY <2>1, PublishIs DEF IInv, Link!Send
  <2>2. CASE registryCleanup \/ cleanup \/ Tick \/ UNCHANGED vars
    BY <2>2 DEF registryCleanup, cleanup, Tick, vars
  <2>3. ASSUME NEW i \in Ifaces, NEW x \in Window(i), lose(i, x)
        PROVE  UNCHANGED <<numTxMailboxes, sent, got>>
    BY <2>3 DEF lose
  <2>4. ASSUME NEW i \in Ifaces, NEW x \in Window(i), NEW switch \in BOOLEAN, NEW mem \in BOOLEAN,
               handleFrame(i, x, switch, mem)
        PROVE  Link!Deliver(i) \/ UNCHANGED <<numTxMailboxes, sent, got>>
    BY <2>4, HandleFrameDelivers
  <2>5. QED
    BY <2>1, <2>2, <2>3, <2>4 DEF Next
<1>3. QED
  BY <1>1, <1>2, Invariance, PTL DEF Spec, DeliversAsSent, Link!Spec
============================================================================
