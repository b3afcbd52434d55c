-------------------------- MODULE LeakAlarm_proofs --------------------------
(***************************************************************************)
(* What holds of the alarm for any pressures, any threshold, any number of *)
(* samples to a message, however many are on their way, and however often  *)
(* the boards restart.                                                     *)
(***************************************************************************)
EXTENDS LeakAlarm, WellFoundedInduction, TLAPS

LEMMA AtMost ==
  \A x, d, e \in Int : x <= d /\ d <= e => x <= e
OBVIOUS

\* What is below a pressure does not fall by more.
LEMMA Below ==
  \A x, high, low, d \in Int : x <= high /\ high - low <= d => x - low <= d
OBVIOUS

USE LeakAlarmAssumption

Samples == 1 .. SAMPLES_PER_SECOND

-----------------------------------------------------------------------------
(***************************************************************************)
(* The average.  Facts about all the sums are proved by the least number   *)
(* for which one of them fails.                                            *)
(***************************************************************************)
LEMMA LeastNumber ==
  ASSUME NEW S, S \subseteq Nat, S # {}
  PROVE  \E n \in S : \A m \in S : n <= m
<1>1. PICK n \in S : \A m \in S : <<m, n>> \notin OpToRel(<, Nat)
  BY NatLessThanWellFounded, WFMin
<1>2. \A m \in S : ~(m < n)
  BY <1>1 DEF OpToRel
<1>3. QED
  BY <1>2

\* The first n sums of a buffer, as a function of its own.
AreSums(buf, n, sum) ==
  /\ sum \in [0 .. n -> Nat] /\ sum[0] = 0
  /\ \A k \in 1 .. n : sum[k] = buf[k] + sum[k - 1]

LEMMA SumsExist ==
  ASSUME NEW buf \in [Samples -> Nat]
  PROVE  \A n \in 0 .. SAMPLES_PER_SECOND : \E sum : AreSums(buf, n, sum)
<1> DEFINE Bad == {n \in 0 .. SAMPLES_PER_SECOND : ~\E sum : AreSums(buf, n, sum)}
<1> SUFFICES ASSUME Bad # {} PROVE FALSE
  OBVIOUS
<1>1. PICK n \in Bad : \A m \in Bad : n <= m
  <2>1. Bad \subseteq Nat
    OBVIOUS
  <2> HIDE DEF Bad
  <2>2. QED
    BY <2>1, LeastNumber
<1>2. CASE n = 0
  <2>1. AreSums(buf, 0, [k \in 0 .. 0 |-> 0])
    BY DEF AreSums
  <2>2. QED
    BY <1>2, <2>1
<1>3. CASE n # 0
  <2>1. PICK sum : AreSums(buf, n - 1, sum)
    BY <1>1, <1>3
  <2> DEFINE g == [k \in 0 .. n |-> IF k = n THEN buf[n] + sum[n - 1] ELSE sum[k]]
  <2>2. n \in Samples /\ n - 1 \in 0 .. n - 1 /\ buf[n] \in Nat /\ sum[n - 1] \in Nat
    BY <1>3, <2>1 DEF AreSums, Samples
  <2>3. AreSums(buf, n, g)
    <3>1. g \in [0 .. n -> Nat] /\ g[0] = 0
      BY <1>3, <2>1, <2>2 DEF AreSums
    <3>2. ASSUME NEW k \in 1 .. n PROVE g[k] = buf[k] + g[k - 1]
      <4>1. CASE k = n
        <5>1. g[n] = buf[n] + sum[n - 1] /\ g[n - 1] = sum[n - 1]
          BY <1>3, <2>2
        <5>2. QED
          BY <4>1, <5>1
      <4>2. CASE k # n
        <5>1. k \in 1 .. n - 1 /\ k \in 0 .. n /\ k - 1 \in 0 .. n /\ k - 1 # n
          BY <2>2, <4>2 DEF Samples
        <5>2. g[k] = sum[k] /\ g[k - 1] = sum[k - 1]
          BY <4>2, <5>1
        <5>3. sum[k] = buf[k] + sum[k - 1]
          BY <2>1, <5>1 DEF AreSums
        <5>4. QED
          BY <5>2, <5>3
      <4>3. QED
        BY <4>1, <4>2
    <3> HIDE DEF g
    <3>3. QED
      BY <3>1, <3>2 DEF AreSums
  <2>4. \E h : AreSums(buf, n, h)
    BY <2>3, Zenon
  <2>5. QED
    BY <2>4
<1>4. QED
  BY <1>2, <1>3

LEMMA SumsAre ==
  ASSUME NEW buf \in [Samples -> Nat]
  PROVE  AreSums(buf, SAMPLES_PER_SECOND, Sums(buf))
<1> DEFINE N == SAMPLES_PER_SECOND
           f == Sums(buf)
<1>1. PICK sum : AreSums(buf, N, sum)
  BY SumsExist
<1>2. sum = [k \in 0 .. N |-> IF k = 0 THEN 0 ELSE buf[k] + sum[k - 1]]
  BY <1>1 DEF AreSums
<1>3. f = [k \in 0 .. N |-> IF k = 0 THEN 0 ELSE buf[k] + f[k - 1]]
  BY <1>2, Zenon DEF Sums
<1>4. DOMAIN f = 0 .. N /\ f[0] = 0 /\ \A k \in 1 .. N : f[k] = buf[k] + f[k - 1]
  <2> HIDE DEF f
  <2> QED
    BY <1>3
<1> DEFINE Bad == {k \in 0 .. N : f[k] \notin Nat}
<1>5. Bad = {}
  <2> SUFFICES ASSUME Bad # {} PROVE FALSE
    OBVIOUS
  <2>1. PICK n \in Bad : \A m \in Bad : n <= m
    <3>1. Bad \subseteq Nat
      OBVIOUS
    <3> HIDE DEF Bad
    <3>2. QED
      BY <3>1, LeastNumber
  <2> HIDE DEF f
  <2>2. n # 0 /\ n \in 1 .. N /\ n - 1 \in 0 .. N /\ n - 1 \notin Bad
    BY <1>4, <2>1
  <2>3. f[n - 1] \in Nat /\ buf[n] \in Nat
    BY <2>2 DEF Samples
  <2>4. QED
    BY <1>4, <2>2, <2>3
<1>6. f = [k \in 0 .. N |-> f[k]] /\ \A k \in 0 .. N : f[k] \in Nat
  <2>1. \A k \in 0 .. N : f[k] \in Nat
    BY <1>5
  <2> HIDE DEF f
  <2>2. QED
    BY <1>3, <2>1
<1> HIDE DEF f
<1>7. AreSums(buf, N, f)
  BY <1>4, <1>6 DEF AreSums
<1>8. QED
  BY <1>7 DEF f

LEMMA SumsBetween ==
  ASSUME NEW buf \in [Samples -> Nat], NEW lo \in Int, NEW hi \in Int,
         \A k \in Samples : lo <= buf[k] /\ buf[k] <= hi
  PROVE  /\ Sums(buf)[SAMPLES_PER_SECOND] \in Nat
         /\ SAMPLES_PER_SECOND * lo <= Sums(buf)[SAMPLES_PER_SECOND]
         /\ Sums(buf)[SAMPLES_PER_SECOND] <= SAMPLES_PER_SECOND * hi
<1> DEFINE N == SAMPLES_PER_SECOND
           f == Sums(buf)
<1>1. /\ f \in [0 .. N -> Nat] /\ f[0] = 0
      /\ \A k \in 1 .. N : f[k] = buf[k] + f[k - 1]
  BY SumsAre DEF AreSums
<1> HIDE DEF f
<1> DEFINE Bad == {k \in 0 .. N : ~(k * lo <= f[k] /\ f[k] <= k * hi)}
<1>2. Bad = {}
  <2> SUFFICES ASSUME Bad # {} PROVE FALSE
    OBVIOUS
  <2>1. PICK n \in Bad : \A m \in Bad : n <= m
    <3>1. Bad \subseteq Nat
      OBVIOUS
    <3> HIDE DEF Bad
    <3>2. QED
      BY <3>1, LeastNumber
  <2>2. n # 0 /\ n \in 1 .. N /\ n - 1 \in 0 .. N /\ n - 1 \notin Bad
    BY <1>1, <2>1
  <2>3. (n - 1) * lo <= f[n - 1] /\ f[n - 1] <= (n - 1) * hi
    BY <2>2
  <2>4. (n - 1) * lo = n * lo - lo /\ (n - 1) * hi = n * hi - hi
    BY <2>2
  <2>5. n * lo \in Int /\ n * hi \in Int
    BY <2>2
  <2>6. f[n] = buf[n] + f[n - 1] /\ buf[n] \in Nat /\ f[n - 1] \in Nat
        /\ lo <= buf[n] /\ buf[n] <= hi
    BY <1>1, <2>2 DEF Samples
  <2>7. n * lo <= f[n] /\ f[n] <= n * hi
    BY <2>3, <2>4, <2>5, <2>6
  <2>8. QED
    BY <2>1, <2>7
<1>3. N * lo <= f[N] /\ f[N] <= N * hi
  BY <1>2
<1>4. QED
  BY <1>1, <1>3 DEF f

LEMMA Quotient ==
  ASSUME NEW n \in Nat \ {0}, NEW s \in Nat, NEW lo \in Int, NEW hi \in Int,
         n * lo <= s, s <= n * hi
  PROVE  /\ s \div n \in Nat
         /\ lo <= s \div n /\ s \div n <= hi
<1> DEFINE q == s \div n
<1>1. q \in Nat /\ n * q <= s /\ s < n * q + n
  OBVIOUS
<1> HIDE DEF q
<1>2. ASSUME q < lo PROVE FALSE
  <2>1. n * (q + 1) <= n * lo
    BY <1>1, <1>2
  <2>2. n * (q + 1) = n * q + n
    BY <1>1
  <2>3. QED
    BY <1>1, <2>1, <2>2
<1>3. ASSUME q > hi PROVE FALSE
  <2>1. n * (hi + 1) <= n * q
    BY <1>1, <1>3
  <2>2. n * (hi + 1) = n * hi + n
    OBVIOUS
  <2>3. QED
    BY <1>1, <2>1, <2>2
<1>4. QED
  BY <1>1, <1>2, <1>3 DEF q

\* Running_Average::Get_Average() is between the samples of the buffer.
LEMMA AverageBetween ==
  ASSUME NEW buf \in [Samples -> Nat], NEW lo \in Int, NEW hi \in Int,
         \A k \in Samples : lo <= buf[k] /\ buf[k] <= hi
  PROVE  /\ Average(buf) \in Nat
         /\ lo <= Average(buf) /\ Average(buf) <= hi
BY SumsBetween, Quotient DEF Average
-----------------------------------------------------------------------------
(* The invariant.                                                           *)
Top == Max(Pressures)

\* The buffer is empty or full, with samples that were taken.
SampleInv ==
  /\ hull \in Pressures /\ press_value \in Pressures \cup {0}
  /\ highest \in 0 .. Top /\ drop \in Nat
  /\ timerCounter \in 0 .. SAMPLES_PER_SECOND - 1
  /\ \/ buffer = <<>> /\ timerCounter = 0
     \/ /\ buffer \in [Samples -> Nat]
        /\ \A k \in Samples : buffer[k] <= highest

\* A message averages over samples that are all taken before those of the next
\* message: so no message, and none of the samples since the last one, falls
\* more below an earlier message than a sample fell below an earlier sample.
MessageInv ==
  /\ bus \in Seq(Nat) /\ initialPressure \in 0 .. highest
  /\ \A j \in 1 .. Len(bus) : bus[j] <= highest /\ initialPressure - bus[j] <= drop
  /\ \A i, j \in 1 .. Len(bus) : i < j => bus[i] - bus[j] <= drop
  /\ \A k \in 1 .. timerCounter :
       /\ initialPressure - buffer[k] <= drop
       /\ \A j \in 1 .. Len(bus) : bus[j] - buffer[k] <= drop

AlarmInv ==
  /\ pressureState \in {"NORMAL", "DROPPING"}
  /\ AlarmIsFounded

IInv == SampleInv /\ MessageInv /\ AlarmInv

LEMMA TopIs == Top \in Nat \ {0} /\ \A p \in Pressures : p <= Top
<1>1. \E p \in Pressures : \A q \in Pressures : p >= q
  OBVIOUS
<1>2. QED
  BY <1>1 DEF Top, Max

(* AddSample(): the latest first, the others one place on.                 *)
LEMMA AddSampleIs ==
  ASSUME NEW val \in Nat
  PROVE  /\ AddSample(<<>>, val) = [k \in Samples |-> val]
         /\ \A buf \in [Samples -> Nat] :
              /\ AddSample(buf, val) \in [Samples -> Nat]
              /\ AddSample(buf, val)[1] = val
              /\ \A k \in Samples : k # 1 => AddSample(buf, val)[k] = buf[k - 1]
<1>1. AddSample(<<>>, val) = [k \in Samples |-> val]
  BY DEF AddSample, Samples
<1>2. ASSUME NEW buf \in [Samples -> Nat]
      PROVE  /\ AddSample(buf, val) \in [Samples -> Nat]
             /\ AddSample(buf, val)[1] = val
             /\ \A k \in Samples : k # 1 => AddSample(buf, val)[k] = buf[k - 1]
  <2>1. buf # <<>> /\ buf \in Seq(Nat) /\ Len(buf) = SAMPLES_PER_SECOND
    BY DEF Samples
  <2>2. AddSample(buf, val) = <<val>> \o SubSeq(buf, 1, SAMPLES_PER_SECOND - 1)
    BY <2>1 DEF AddSample
  <2> DEFINE rest == SubSeq(buf, 1, SAMPLES_PER_SECOND - 1)
  <2>3. /\ rest \in Seq(Nat) /\ Len(rest) = SAMPLES_PER_SECOND - 1
        /\ \A k \in 1 .. SAMPLES_PER_SECOND - 1 : rest[k] = buf[k]
    BY <2>1
  <2> HIDE DEF rest
  <2>4. /\ <<val>> \o rest \in Seq(Nat) /\ Len(<<val>> \o rest) = SAMPLES_PER_SECOND
        /\ (<<val>> \o rest)[1] = val
        /\ \A k \in Samples : k # 1 => (<<val>> \o rest)[k] = rest[k - 1]
    BY <2>3 DEF Samples
  <2>5. <<val>> \o rest \in [Samples -> Nat]
    <3>1. \A s \in Seq(Nat) : s \in [1 .. Len(s) -> Nat]
      OBVIOUS
    <3>2. QED
      BY <2>4, <3>1, Zenon DEF Samples
  <2>6. \A k \in Samples : k # 1 => rest[k - 1] = buf[k - 1]
    BY <2>3 DEF Samples
  <2>7. AddSample(buf, val) = <<val>> \o rest
    BY <2>2 DEF rest
  <2>8. QED
    BY <2>4, <2>5, <2>6, <2>7
<1>3. QED
  BY <1>1, <1>2

LEMMA InitInv == Init => IInv
<1> SUFFICES ASSUME Init PROVE IInv
  OBVIOUS
<1>1. <<>> \in Seq(Nat) /\ Len(<<>>) = 0
  OBVIOUS
<1>2. SampleInv
  BY TopIs DEF Init, SampleInv
<1>3. MessageInv
  BY <1>1 DEF Init, MessageInv
<1>4. AlarmInv
  BY DEF Init, AlarmInv, AlarmIsFounded
<1>5. QED
  BY <1>2, <1>3, <1>4 DEF IInv

(* What a sample does to the buffer and to the history.                    *)
LEMMA SampleTakes ==
  ASSUME IInv, NEW answered \in BOOLEAN, sample(answered)
  PROVE  /\ SampleInv' /\ buffer' \in [Samples -> Nat]
         /\ highest <= highest' /\ drop <= drop'
         /\ press_value' \in Nat /\ highest - press_value' <= drop'
         /\ \/ buffer = <<>> /\ \A k \in Samples : buffer'[k] = press_value'
            \/ /\ buffer'[1] = press_value'
               /\ \A k \in Samples : k # 1 => buffer'[k] = buffer[k - 1]
               /\ buffer # <<>>
<1>1. press_value' \in Pressures \cup {0} /\ press_value' \in 0 .. Top
  BY TopIs DEF IInv, SampleInv, sample, readPressureMPL
<1>2. highest \in 0 .. Top /\ Top \in Nat /\ drop \in Nat
  BY TopIs DEF IInv, SampleInv
<1> DEFINE p == press_value'
           d == highest - p
<1>3. /\ highest' \in {highest, p} /\ highest' >= highest /\ highest' >= p
      /\ drop' \in {drop, d} /\ drop' >= drop /\ drop' >= d
  <2>1. \A x, y \in Int : Max({x, y}) \in {x, y} /\ Max({x, y}) >= x /\ Max({x, y}) >= y
    <3>1. ASSUME NEW x \in Int, NEW y \in Int
          PROVE  Max({x, y}) \in {x, y} /\ Max({x, y}) >= x /\ Max({x, y}) >= y
      <4>1. \E m \in {x, y} : \A n \in {x, y} : m >= n
        OBVIOUS
      <4>2. QED
        BY <4>1 DEF Max
    <3>2. QED
      BY <3>1
  <2>2. highest' = Max({highest, p}) /\ drop' = Max({drop, d})
    BY DEF sample
  <2>3. highest \in Int /\ p \in Int /\ drop \in Int /\ d \in Int
    BY <1>1, <1>2
  <2>4. QED
    BY <2>1, <2>2, <2>3
<1>4. highest' \in 0 .. Top /\ drop' \in Nat
  BY <1>1, <1>2, <1>3
<1>4a. highest <= highest' /\ drop <= drop' /\ p \in Nat /\ highest - p <= drop' /\ p <= highest'
  <2>1. highest <= highest' /\ p <= highest' /\ p \in Nat
    BY <1>1, <1>2, <1>3, <1>4
  <2>2. drop <= drop' /\ d <= drop'
    <3>1. d \in Int /\ drop \in Int /\ drop' \in Int
      BY <1>2, <1>4, <2>1
    <3> HIDE DEF d
    <3>2. QED
      BY <1>3, <3>1
  <2>3. QED
    BY <2>1, <2>2
<1>5. timerCounter' \in 0 .. SAMPLES_PER_SECOND - 1
  BY DEF sample, cyclePublisher, IInv, SampleInv
<1>6. buffer' = AddSample(buffer, p)
  BY DEF sample
<1>7. CASE buffer = <<>>
  <2>1. buffer' = [k \in Samples |-> p]
    BY <1>1, <1>2, <1>6, <1>7, AddSampleIs
  <2>2. buffer' \in [Samples -> Nat] /\ \A k \in Samples : buffer'[k] = p
    BY <1>1, <1>2, <2>1
  <2>3. SampleInv'
    BY <1>1, <1>3, <1>4, <1>5, <2>2 DEF SampleInv, sample, IInv, Top
  <2>4. QED
    BY <1>4a, <1>7, <2>2, <2>3
<1>8. CASE buffer # <<>>
  <2>1. buffer \in [Samples -> Nat] /\ \A k \in Samples : buffer[k] <= highest
    BY <1>8 DEF IInv, SampleInv
  <2>2. /\ buffer' \in [Samples -> Nat] /\ buffer'[1] = p
        /\ \A k \in Samples : k # 1 => buffer'[k] = buffer[k - 1]
    BY <1>1, <1>2, <1>6, <2>1, AddSampleIs
  <2>3. \A k \in Samples : buffer'[k] <= highest'
    <3>1. ASSUME NEW k \in Samples, k # 1 PROVE buffer'[k] <= highest'
      <4>1. k - 1 \in Samples
        BY <3>1 DEF Samples
      <4>2. QED
        BY <1>2, <1>3, <1>4, <2>1, <2>2, <3>1, <4>1
    <3>2. QED
      BY <1>3, <2>2, <3>1
  <2>4. SampleInv'
    BY <1>1, <1>3, <1>4, <1>5, <2>2, <2>3 DEF SampleInv, sample, IInv, Top
  <2>5. QED
    BY <1>4a, <1>8, <2>2, <2>4
<1>9. QED
  BY <1>7, <1>8

(* The samples since the last message, with the new one.                   *)
LEMMA FreshBelow ==
  ASSUME IInv, NEW answered \in BOOLEAN, sample(answered),
         NEW k \in 1 .. timerCounter + 1
  PROVE  /\ k \in Samples
         /\ initialPressure - buffer'[k] <= drop'
         /\ \A j \in 1 .. Len(bus) : bus[j] - buffer'[k] <= drop'
<1>1. /\ k \in Samples /\ timerCounter \in Nat
      /\ initialPressure \in Nat /\ initialPressure <= highest /\ highest \in Nat
      /\ \A j \in 1 .. Len(bus) : bus[j] \in Nat /\ bus[j] <= highest
  BY TopIs DEF IInv, SampleInv, MessageInv, Samples
<1>2. /\ press_value' \in Nat /\ highest - press_value' <= drop'
      /\ drop \in Nat /\ drop' \in Nat /\ drop <= drop'
  BY SampleTakes DEF SampleInv, IInv
<1>3. CASE buffer'[k] = press_value'
  <2>1. ASSUME NEW x \in Nat, x <= highest PROVE x - press_value' <= drop'
    <3>1. x \in Int /\ highest \in Int /\ press_value' \in Int /\ drop' \in Int
      BY <1>1, <1>2, <2>1
    <3>2. QED
      BY <1>2, <2>1, <3>1, Below, Zenon
  <2>2. QED
    BY <1>1, <1>3, <2>1
<1>4. CASE k # 1 /\ buffer'[k] = buffer[k - 1] /\ buffer # <<>>
  <2>1. k - 1 \in 1 .. timerCounter /\ k - 1 \in Samples
    BY <1>1, <1>4 DEF Samples
  <2>2. /\ initialPressure - buffer[k - 1] <= drop
        /\ \A j \in 1 .. Len(bus) : bus[j] - buffer[k - 1] <= drop
    BY <2>1 DEF IInv, MessageInv
  <2>3. buffer[k - 1] \in Nat
    BY <1>4, <2>1 DEF IInv, SampleInv
  <2>4. QED
    BY SMTT(30), <1>1, <1>2, <1>4, <2>2, <2>3
<1>5. QED
  BY <1>1, <1>3, <1>4, SampleTakes

LEMMA SampleKeeps ==
  ASSUME IInv, NEW answered \in BOOLEAN, sample(answered)
  PROVE  IInv'
<1>1. /\ SampleInv' /\ buffer' \in [Samples -> Nat] /\ \A k \in Samples : buffer'[k] <= highest'
      /\ highest <= highest' /\ drop <= drop' /\ highest' \in Nat
  BY SampleTakes, TopIs DEF SampleInv, Top, Samples
<1>2. UNCHANGED <<initialPressure, pressureState>> /\ cyclePublisher
  BY DEF sample, dropper
<1>3. /\ bus \in Seq(Nat) /\ initialPressure \in 0 .. highest
      /\ highest \in Nat /\ drop \in Nat /\ drop' \in Nat
      /\ \A j \in 1 .. Len(bus) : bus[j] <= highest /\ initialPressure - bus[j] <= drop
      /\ \A i, j \in 1 .. Len(bus) : i < j => bus[i] - bus[j] <= drop
  BY <1>1, TopIs DEF IInv, SampleInv, MessageInv
<1>3a. /\ \A j \in 1 .. Len(bus) : bus[j] <= highest' /\ initialPressure - bus[j] <= drop'
      /\ \A i, j \in 1 .. Len(bus) : i < j => bus[i] - bus[j] <= drop'
  <2>1. initialPressure \in Int /\ \A j \in 1 .. Len(bus) : bus[j] \in Int
    BY <1>3
  <2>2. ASSUME NEW j \in 1 .. Len(bus)
        PROVE  bus[j] <= highest' /\ initialPressure - bus[j] <= drop'
    <3>1. bus[j] <= highest /\ initialPressure - bus[j] <= drop
      BY <1>3
    <3>2. bus[j] \in Int /\ highest \in Int /\ highest' \in Int
          /\ initialPressure - bus[j] \in Int /\ drop \in Int /\ drop' \in Int
      BY <1>1, <1>3, <2>1
    <3>3. QED
      BY <1>1, <3>1, <3>2, AtMost, Zenon
  <2>3. ASSUME NEW i \in 1 .. Len(bus), NEW j \in 1 .. Len(bus), i < j
        PROVE  bus[i] - bus[j] <= drop'
    <3>1. bus[i] - bus[j] <= drop
      BY <1>3, <2>3
    <3>2. bus[i] \in Int /\ bus[j] \in Int /\ drop \in Int /\ drop' \in Int
      BY <1>3, <2>1
    <3>3. bus[i] - bus[j] \in Int
      BY <3>2
    <3>4. QED
      BY <1>1, <3>1, <3>2, <3>3, AtMost, Zenon
  <2>4. QED
    BY <2>2, <2>3
<1>4. AlarmInv'
  BY <1>1, <1>2, <1>3 DEF IInv, AlarmInv, AlarmIsFounded
<1>5. CASE timerCounter + 1 < SAMPLES_PER_SECOND
  <2>1. timerCounter' = timerCounter + 1 /\ timerCounter' # 0
    BY <1>2, <1>5 DEF cyclePublisher, IInv, SampleInv
  <2>2. bus' = bus
    BY <1>2, <2>1 DEF cyclePublisher
  <2>3. \A k \in 1 .. timerCounter' :
          /\ initialPressure - buffer'[k] <= drop'
          /\ \A j \in 1 .. Len(bus) : bus[j] - buffer'[k] <= drop'
    BY <2>1, FreshBelow
  <2>4. initialPressure' \in 0 .. highest'
    BY <1>1, <1>2, <1>3
  <2>5. /\ \A j \in 1 .. Len(bus) : bus[j] <= highest' /\ initialPressure - bus[j] <= drop'
        /\ \A i, j \in 1 .. Len(bus) : i < j => bus[i] - bus[j] <= drop'
    BY <1>3a
  <2>6. MessageInv'
    BY <1>2, <1>3, <2>2, <2>3, <2>4, <2>5 DEF MessageInv
  <2>7. QED
    BY <1>1, <1>4, <2>6 DEF IInv
<1>6. CASE timerCounter + 1 = SAMPLES_PER_SECOND
  <2> DEFINE avg == Average(buffer')
  <2>1. timerCounter' = 0
    BY <1>2, <1>6 DEF cyclePublisher
  <2>2. bus' \in {bus, Append(bus, avg)}
    BY <1>2 DEF cyclePublisher
  <2>3. avg \in Nat /\ avg <= highest'
    <3>1. \A k \in Samples : 0 <= buffer'[k] /\ buffer'[k] <= highest'
      BY <1>1
    <3>2. QED
      BY <1>1, <3>1, AverageBetween
  <2>4. ASSUME NEW x \in Nat, \A k \in Samples : x - buffer'[k] <= drop'
        PROVE  x - avg <= drop'
    <3> DEFINE lo == x - drop'
    <3>1. lo \in Int
      BY <1>3
    <3>2. \A k \in Samples : lo <= buffer'[k] /\ buffer'[k] <= highest'
      BY <1>1, <1>3, <2>4
    <3> HIDE DEF lo
    <3>3. lo <= avg
      BY <1>1, <3>1, <3>2, AverageBetween
    <3>4. QED
      BY <1>3, <2>3, <3>3 DEF lo
  <2>5. \A k \in Samples : k \in 1 .. timerCounter + 1
    BY <1>6 DEF Samples
  <2>6. initialPressure - avg <= drop'
    BY <1>3, <2>4, <2>5, FreshBelow
  <2>7. \A j \in 1 .. Len(bus) : bus[j] - avg <= drop'
    <3>1. ASSUME NEW j \in 1 .. Len(bus) PROVE bus[j] - avg <= drop'
      <4>1. bus[j] \in Nat
        BY <1>3
      <4>2. \A k \in Samples : bus[j] - buffer'[k] <= drop'
        BY <2>5, FreshBelow
      <4>3. QED
        BY <2>4, <4>1, <4>2
    <3>2. QED
      BY <3>1
  <2>8. initialPressure' \in 0 .. highest'
    BY <1>1, <1>2, <1>3
  <2>9. /\ \A j \in 1 .. Len(bus) : bus[j] <= highest' /\ initialPressure - bus[j] <= drop'
        /\ \A i, j \in 1 .. Len(bus) : i < j => bus[i] - bus[j] <= drop'
    BY <1>3a
  <2> HIDE DEF avg
  <2>10. CASE bus' = bus
    BY <1>2, <1>3, <2>1, <2>8, <2>9, <2>10, <1>1, <1>4 DEF MessageInv, IInv
  <2>11. CASE bus' = Append(bus, avg)
    <3>1. /\ bus' \in Seq(Nat) /\ Len(bus') = Len(bus) + 1 /\ bus'[Len(bus) + 1] = avg
          /\ \A j \in 1 .. Len(bus) : bus'[j] = bus[j]
          /\ Len(bus) \in Nat
      BY <1>3, <2>3, <2>11
    <3>2. ASSUME NEW j \in 1 .. Len(bus')
          PROVE  bus'[j] <= highest' /\ initialPressure - bus'[j] <= drop'
      <4>1. CASE j = Len(bus) + 1
        BY <2>3, <2>6, <3>1, <4>1
      <4>2. CASE j \in 1 .. Len(bus)
        BY <2>9, <3>1, <4>2
      <4>3. QED
        BY <3>1, <4>1, <4>2
    <3>3. ASSUME NEW i \in 1 .. Len(bus'), NEW j \in 1 .. Len(bus'), i < j
          PROVE  bus'[i] - bus'[j] <= drop'
      <4>1. i \in 1 .. Len(bus)
        BY <3>1, <3>3
      <4>2. CASE j = Len(bus) + 1
        BY <2>7, <3>1, <4>1, <4>2
      <4>3. CASE j \in 1 .. Len(bus)
        BY <2>9, <3>1, <3>3, <4>1, <4>3
      <4>4. QED
        BY <3>1, <4>2, <4>3
    <3>4. MessageInv'
      BY <1>2, <2>1, <2>8, <3>1, <3>2, <3>3 DEF MessageInv
    <3>5. QED
      BY <1>1, <1>4, <3>4 DEF IInv
  <2>12. QED
    BY <2>2, <2>10, <2>11
<1>7. QED
  BY <1>5, <1>6 DEF IInv, SampleInv

(* The first message leaves, to be checked or to be lost.                  *)
LEMMA HeadLeaves ==
  ASSUME MessageInv, bus # <<>>, bus' = Tail(bus)
  PROVE  /\ bus' \in Seq(Nat) /\ Head(bus) \in 0 .. highest
         /\ initialPressure - Head(bus) <= drop
         /\ \A j \in 1 .. Len(bus') : /\ bus'[j] <= highest /\ initialPressure - bus'[j] <= drop
                                      /\ Head(bus) - bus'[j] <= drop
         /\ \A i, j \in 1 .. Len(bus') : i < j => bus'[i] - bus'[j] <= drop
         /\ \A k \in 1 .. timerCounter :
              /\ Head(bus) - buffer[k] <= drop
              /\ \A j \in 1 .. Len(bus') : bus'[j] - buffer[k] <= drop
<1>1. /\ bus' \in Seq(Nat) /\ Head(bus) = bus[1] /\ Len(bus) \in Nat \ {0}
      /\ Len(bus') = Len(bus) - 1 /\ \A j \in 1 .. Len(bus') : bus'[j] = bus[j + 1]
  BY DEF MessageInv
<1>2. 1 \in 1 .. Len(bus) /\ bus[1] \in Nat
  BY <1>1 DEF MessageInv
<1>3. \A j \in 1 .. Len(bus') : j + 1 \in 1 .. Len(bus) /\ 1 < j + 1
  BY <1>1
<1>4. QED
  BY SMTT(30), <1>1, <1>2, <1>3 DEF MessageInv

LEMMA CallbackKeeps == IInv /\ pressureInfoCallback => IInv'
<1> SUFFICES ASSUME IInv, pressureInfoCallback PROVE IInv'
  OBVIOUS
<1>1. /\ bus # <<>> /\ bus' = Tail(bus) /\ checkPressure(Head(bus))
      /\ UNCHANGED <<hull, press_value, buffer, timerCounter, highest, drop>>
  BY DEF pressureInfoCallback, envBoard
<1>2. MessageInv /\ drop \in Nat /\ highest \in Nat /\ initialPressure \in Nat
  BY TopIs DEF IInv, SampleInv, MessageInv
<1>3. SampleInv'
  BY <1>1 DEF IInv, SampleInv
<1>4. initialPressure' \in {initialPressure, Head(bus)}
  BY <1>1 DEF checkPressure
<1>5. MessageInv'
  <2>1. initialPressure' \in 0 .. highest'
    BY <1>1, <1>2, <1>4, HeadLeaves DEF MessageInv
  <2>2. \A j \in 1 .. Len(bus') : bus'[j] <= highest' /\ initialPressure' - bus'[j] <= drop'
    BY <1>1, <1>2, <1>4, HeadLeaves
  <2>3. \A k \in 1 .. timerCounter' :
          /\ initialPressure' - buffer'[k] <= drop'
          /\ \A j \in 1 .. Len(bus') : bus'[j] - buffer'[k] <= drop'
    BY <1>1, <1>2, <1>4, HeadLeaves DEF MessageInv
  <2>4. QED
    BY <1>1, <1>2, <2>1, <2>2, <2>3, HeadLeaves DEF MessageInv
<1>6. AlarmInv'
  <2>1. CASE initialPressure = 0
    BY <1>1, <2>1 DEF checkPressure, IInv, AlarmInv, AlarmIsFounded
  <2>2. CASE initialPressure # 0
    <3>1. pressureState' = IF initialPressure - Head(bus) >= lowPressureThreshold
                           THEN "DROPPING" ELSE "NORMAL"
      BY <1>1, <2>2 DEF checkPressure
    <3>2. Head(bus) \in Int /\ initialPressure - Head(bus) <= drop
      BY <1>1, <1>2, HeadLeaves
    <3>3. QED
      BY <1>1, <1>2, <3>1, <3>2 DEF AlarmInv, AlarmIsFounded
  <2>3. QED
    BY <2>1, <2>2
<1>7. QED
  BY <1>3, <1>5, <1>6 DEF IInv

LEMMA LoseKeeps == IInv /\ lose => IInv'
<1> SUFFICES ASSUME IInv, lose PROVE IInv'
  OBVIOUS
<1>1. /\ bus # <<>> /\ bus' = Tail(bus)
      /\ UNCHANGED <<hull, press_value, buffer, timerCounter, highest, drop,
                     initialPressure, pressureState>>
  BY DEF lose, envBoard, dropper
<1>2. SampleInv' /\ AlarmInv'
  BY <1>1 DEF IInv, SampleInv, AlarmInv, AlarmIsFounded
<1>3. MessageInv'
  BY <1>1, HeadLeaves DEF IInv, MessageInv
<1>4. QED
  BY <1>2, <1>3 DEF IInv

LEMMA RestartKeeps == IInv /\ (restartEnvBoard \/ restartDropper) => IInv'
<1> SUFFICES ASSUME IInv, restartEnvBoard \/ restartDropper PROVE IInv'
  OBVIOUS
<1>1. bus \in Seq(Nat) /\ drop \in Nat /\ highest \in Nat
  BY TopIs DEF IInv, SampleInv, MessageInv
<1>2. CASE restartEnvBoard
  <2>1. /\ press_value' = 0 /\ buffer' = <<>> /\ timerCounter' = 0
        /\ UNCHANGED <<hull, bus, initialPressure, pressureState, highest, drop>>
    BY <1>2 DEF restartEnvBoard, dropper
  <2>2. SampleInv' /\ AlarmInv'
    BY <2>1 DEF IInv, SampleInv, AlarmInv, AlarmIsFounded
  <2>3. MessageInv'
    BY <2>1 DEF IInv, MessageInv
  <2>4. QED
    BY <2>2, <2>3 DEF IInv
<1>3. CASE restartDropper
  <2>1. /\ initialPressure' = 0 /\ pressureState' = "NORMAL"
        /\ UNCHANGED <<hull, bus, press_value, buffer, timerCounter, highest, drop>>
    BY <1>3 DEF restartDropper, envBoard
  <2>2. SampleInv' /\ AlarmInv'
    BY <2>1 DEF IInv, SampleInv, AlarmInv, AlarmIsFounded
  <2>3. \A k \in 1 .. timerCounter : buffer[k] \in Nat
    BY DEF IInv, SampleInv, Samples
  <2>4. MessageInv'
    BY SMTT(30), <1>1, <2>1, <2>3 DEF IInv, MessageInv
  <2>5. QED
    BY <2>2, <2>4 DEF IInv
<1>4. QED
  BY <1>2, <1>3

LEMMA OtherKeeps == IInv /\ (PressureChanges \/ UNCHANGED vars) => IInv'
<1> SUFFICES ASSUME IInv, PressureChanges \/ UNCHANGED vars PROVE IInv'
  OBVIOUS
<1>1. /\ hull' \in Pressures
      /\ UNCHANGED <<press_value, buffer, timerCounter, highest, drop, bus,
                     initialPressure, pressureState>>
  BY DEF PressureChanges, vars, envBoard, dropper, IInv, SampleInv
<1>2. QED
  BY <1>1 DEF IInv, SampleInv, MessageInv, AlarmInv, AlarmIsFounded

(* The invariant, from which the theorems below follow.                    *)
THEOREM Invariance == Spec => []IInv
<1>1. IInv /\ [Next]_vars => IInv'
  BY SampleKeeps, CallbackKeeps, LoseKeeps, RestartKeeps, OtherKeeps DEF Next
<1>2. QED
  BY <1>1, InitInv, PTL DEF Spec

-----------------------------------------------------------------------------
(* The buffer of Running_Average is empty or full, and no average is above  *)
(* the highest pressure that the sensor can measure.                        *)
THEOREM TypeCorrect == Spec => []TypeOK
<1>1. IInv => TypeOK
  <2> SUFFICES ASSUME IInv PROVE TypeOK
    OBVIOUS
  <2>1. Len(buffer) \in {0, SAMPLES_PER_SECOND}
    <3>1. CASE buffer = <<>>
      BY <3>1
    <3>2. CASE buffer \in [Samples -> Nat]
      BY <3>2 DEF Samples
    <3>3. QED
      BY <3>1, <3>2 DEF IInv, SampleInv
  <2>2. highest \in 0 .. Top /\ Top \in Nat
    BY TopIs DEF IInv, SampleInv
  <2>3. \A j \in 1 .. Len(bus) : bus[j] \in 0 .. Top
    BY <2>2 DEF IInv, MessageInv
  <2>4. initialPressure \in 0 .. Top
    BY <2>2 DEF IInv, MessageInv
  <2>5. QED
    BY <2>1, <2>3, <2>4 DEF IInv, SampleInv, AlarmInv, TypeOK, Top
<1>2. QED
  BY <1>1, Invariance, PTL

(* checkPressure() raises the alarm only if some sample really fell by the  *)
(* threshold below an earlier one: neither the averages nor the loss of     *)
(* messages nor restarts of the two boards make up a drop.                  *)
THEOREM AlarmFounded == Spec => []AlarmIsFounded
<1>1. IInv => AlarmIsFounded
  BY DEF IInv, AlarmInv
<1>2. QED
  BY <1>1, Invariance, PTL
=============================================================================
