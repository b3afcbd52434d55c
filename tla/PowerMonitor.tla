---------------------------- MODULE PowerMonitor ----------------------------
(***************************************************************************)
(* The average power that the battery monitoring board reports of one      *)
(* channel: PowerBuffer, which tick() fills in every turn of the loop, and *)
(* the value that updateMonitorInfo() takes from it once a second.  Powers *)
(* are in tenths of a watt.  The channels do not touch each other.         *)
(***************************************************************************)
EXTENDS Integers, Sequences

CONSTANTS
  Powers,   \* what getPower() may give, in tenths of a watt
  RATE,     \* size of the buffer
  MaxTicks  \* bound: turns of the loop

VARIABLES
  sum, buffer,      \* PowerBuffer
  average_power_W,  \* what was reported last
  ticks             \* turns so far

vars == <<sum, buffer, average_power_W, ticks>>

Init == sum = 0 /\ buffer = <<>> /\ average_power_W = 0 /\ ticks = 0

\* The queue is one of int: it keeps whole watts.
Stored(power) == (power \div 10) * 10

\* PowerBuffer::push().
push(power) ==
  LET longer == Append(buffer, Stored(power))
      full == Len(longer) > RATE IN
  /\ buffer' = IF full THEN Tail(longer) ELSE longer
  /\ sum' = sum + power - (IF full THEN Head(longer) ELSE 0)

tick ==
  /\ ticks < MaxTicks /\ ticks' = ticks + 1
  /\ \E power \in Powers : push(power)
  /\ UNCHANGED average_power_W

getAveragePower == sum \div (IF buffer = <<>> THEN 1 ELSE Len(buffer))

\* updateMonitorInfo() and cyclePublisher().
updateMonitorInfo ==
  /\ average_power_W' = getAveragePower
  /\ UNCHANGED <<sum, buffer, ticks>>

Spec == Init /\ [][tick \/ updateMonitorInfo]_vars
-----------------------------------------------------------------------------
\* "Average power consumption over the last 10 seconds" (the comment at
\* average_power_10sec in 1092.BatteryInfo.uavcan:18): it is not above every
\* power that was ever measured.
AverageIsOfSamples == \E power \in Powers : average_power_W <= power
=============================================================================
