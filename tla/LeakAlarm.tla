----------------------------- MODULE LeakAlarm -----------------------------
(***************************************************************************)
(* The hull pressure on its way to the alarm: the sensor, the loop of the  *)
(* internal environment board with its Running_Average, the StaticPressure *)
(* messages, and checkPressure() of the dropper/torpedo board.             *)
(*                                                                         *)
(* Each loop() is one thread, so that a sample is one step and a received  *)
(* message is another.  The sensor may not answer, a message may get lost, *)
(* and each board may restart.  What the alarm looks like is in            *)
(* LedIndicator.                                                           *)
(***************************************************************************)
EXTENDS Integers, Sequences, FiniteSetsExt

CONSTANTS
  Pressures,             \* what the sensor may measure
  lowPressureThreshold,
  SAMPLES_PER_SECOND,    \* samples to an average, and to a message
  MaxBus, MaxRestarts    \* bounds: messages on their way, restarts of a board

ASSUME LeakAlarmAssumption ==
  /\ Pressures \subseteq Nat \ {0} /\ \E top \in Pressures : \A p \in Pressures : p <= top
  /\ lowPressureThreshold \in Nat \ {0} /\ SAMPLES_PER_SECOND \in Nat \ {0}
  /\ MaxBus \in Nat /\ MaxRestarts \in Nat

VARIABLES
  hull,          \* pressure in the hull
  press_value,   \* what the last reading left
  buffer,        \* of avg_pressure, latest first; empty before the first sample
  timerCounter,
  bus,           \* messages on their way
  initialPressure, pressureState,
  highest, drop,    \* history: the highest sample, the most that one fell below an earlier one
  restarts       \* history: number of restarts

envBoard == <<press_value, buffer, timerCounter, highest, drop>>
dropper == <<initialPressure, pressureState>>
vars == <<hull, envBoard, bus, dropper, restarts>>

Init ==
  /\ hull \in Pressures
  /\ press_value = 0 /\ buffer = <<>> /\ timerCounter = 0
  /\ highest = 0 /\ drop = 0
  /\ bus = <<>>
  /\ initialPressure = 0 /\ pressureState = "NORMAL"
  /\ restarts = 0

-----------------------------------------------------------------------------
(* The internal environment board.                                          *)

\* Running_Average::AddSample(): the first sample fills the buffer.
AddSample(buf, val) ==
  IF buf = <<>> THEN [i \in 1 .. SAMPLES_PER_SECOND |-> val]
  ELSE <<val>> \o SubSeq(buf, 1, SAMPLES_PER_SECOND - 1)

\* The sums of the first 0, 1, 2 ... samples of a full buffer.
Sums(buf) ==
  LET sum[k \in 0 .. SAMPLES_PER_SECOND] == IF k = 0 THEN 0 ELSE buf[k] + sum[k - 1] IN sum

Average(buf) == Sums(buf)[SAMPLES_PER_SECOND] \div SAMPLES_PER_SECOND

\* readPressureMPL(): without an answer the old value stays.
readPressureMPL(answered) == press_value' = IF answered THEN hull ELSE press_value

\* Mutant: the counter is not set back, so that one message is sent.
cyclePublisher_Once ==
  /\ timerCounter' = timerCounter + 1
  /\ bus' = IF timerCounter' = SAMPLES_PER_SECOND /\ Len(bus) < MaxBus
            THEN Append(bus, Average(buffer')) ELSE bus

\* Each SAMPLES_PER_SECOND-th sample is followed by a message; where there is
\* no room for it broadcast() fails and it is lost.
cyclePublisher ==
  /\ timerCounter' = (timerCounter + 1) % SAMPLES_PER_SECOND
  /\ bus' = IF timerCounter' = 0 /\ Len(bus) < MaxBus
            THEN Append(bus, Average(buffer')) ELSE bus

\* A turn of loop() in which timer.check() is 1.
sample(answered) ==
  /\ readPressureMPL(answered)
  /\ buffer' = AddSample(buffer, press_value')
  /\ cyclePublisher
  /\ highest' = Max({highest, press_value'}) /\ drop' = Max({drop, highest - press_value'})
  /\ UNCHANGED <<hull, dropper, restarts>>

\* The watchdog, a restart request or the power.
restartEnvBoard ==
  /\ restarts < MaxRestarts /\ restarts' = restarts + 1
  /\ press_value' = 0 /\ buffer' = <<>> /\ timerCounter' = 0
  /\ UNCHANGED <<hull, bus, dropper, highest, drop>>

-----------------------------------------------------------------------------
(* The dropper/torpedo board.                                               *)

\* Mutant: an alarm is not taken back.
checkPressure_Latched(pressure) ==
  IF initialPressure = 0
  THEN initialPressure' = pressure /\ UNCHANGED pressureState
  ELSE /\ pressureState' = IF initialPressure - pressure >= lowPressureThreshold
                           THEN "DROPPING" ELSE pressureState
       /\ UNCHANGED initialPressure

\* Mutant: the difference is taken the other way round.
checkPressure_Swapped(pressure) ==
  IF initialPressure = 0
  THEN initialPressure' = pressure /\ UNCHANGED pressureState
  ELSE /\ pressureState' = IF pressure - initialPressure >= lowPressureThreshold
                           THEN "DROPPING" ELSE "NORMAL"
       /\ UNCHANGED initialPressure

\* The first pressure that is not 0 is the one the others are compared with.
checkPressure(pressure) ==
  IF initialPressure = 0
  THEN initialPressure' = pressure /\ UNCHANGED pressureState
  ELSE /\ pressureState' = IF initialPressure - pressure >= lowPressureThreshold
                           THEN "DROPPING" ELSE "NORMAL"
       /\ UNCHANGED initialPressure

pressureInfoCallback ==
  /\ bus # <<>>
  /\ checkPressure(Head(bus))
  /\ bus' = Tail(bus)
  /\ UNCHANGED <<hull, envBoard, restarts>>

restartDropper ==
  /\ restarts < MaxRestarts /\ restarts' = restarts + 1
  /\ initialPressure' = 0 /\ pressureState' = "NORMAL"
  /\ UNCHANGED <<hull, envBoard, bus>>

-----------------------------------------------------------------------------
lose ==
  /\ bus # <<>>
  /\ bus' = Tail(bus)
  /\ UNCHANGED <<hull, envBoard, dropper, restarts>>

PressureChanges ==
  /\ \E p \in Pressures \ {hull} : hull' = p
  /\ UNCHANGED <<envBoard, bus, dropper, restarts>>

Next ==
  \/ \E answered \in BOOLEAN : sample(answered)
  \/ pressureInfoCallback \/ lose \/ PressureChanges
  \/ restartEnvBoard \/ restartDropper

Spec == Init /\ [][Next]_vars

\* Metro goes off again and again, the sensor answers now and then, and now and
\* then a message gets through.
FairSpec ==
  Spec /\ WF_vars(sample(TRUE)) /\ SF_vars(pressureInfoCallback)
-----------------------------------------------------------------------------
(* Properties.                                                              *)

\* Every variable stays in its type, an average among the pressures.
TypeOK ==
  /\ press_value \in Pressures \cup {0}
  /\ Len(buffer) \in {0, SAMPLES_PER_SECOND}
  /\ timerCounter \in 0 .. SAMPLES_PER_SECOND - 1
  /\ \A k \in 1 .. Len(bus) : bus[k] \in 0 .. Max(Pressures)
  /\ initialPressure \in 0 .. Max(Pressures)
  /\ pressureState \in {"NORMAL", "DROPPING"}

\* The alarm has a reason: a sample, perhaps of a sensor that does not answer,
\* that is lower by the threshold than one that was taken; averages, losses
\* and restarts of either board make none up.
AlarmIsFounded ==
  pressureState = "DROPPING" => drop >= lowPressureThreshold

\* Once the pressure in the hull stays where it is to be shown, or where it is
\* not, the alarm is on, or off, whatever was lost before.  The reference is
\* what the dropper took for it, which is too low when its first message
\* averages over a sensor that has not answered yet, or comes after the leak.
Low == initialPressure - hull >= lowPressureThreshold

AlarmFollowsHull ==
  /\ <>[](initialPressure # 0 /\ Low) => <>[](pressureState = "DROPPING")
  /\ <>[](initialPressure # 0 /\ ~Low) => <>[](pressureState = "NORMAL")
=============================================================================
