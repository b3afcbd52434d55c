------------------------ MODULE LedIndicator_proofs ------------------------
(***************************************************************************)
(* For any number of batteries and any pressures: the strip has one owner  *)
(* and the wave timer fits what it shows.                                  *)
(***************************************************************************)
EXTENDS LedIndicator, TLAPS

USE LedAssumption

StripType ==
  /\ enableExternalLEDActions \in BOOLEAN
  /\ strobeActivated \in BOOLEAN /\ elapsed \in BOOLEAN
  /\ sinWaveTimer \in Periods
  /\ shown \in Patterns \cup Commanded \cup {"off"}

BoardType ==
  /\ enabled \subseteq Alerts
  /\ torpedo \in [0 .. 1 -> torpedoState]
  /\ batteryVoltage \in [Batteries -> voltageState]
  /\ initialPressure \in Pressures \cup {0}
  /\ pressureState \in {"NORMAL", "DROPPING"}

\* The two halves of the state: what a turn of the loop and a light command
\* change, and what they read.
IInv == StripType /\ BoardType /\ OneOwner /\ WaveFitsPattern

LEMMA InitInv == Init => IInv
<1> SUFFICES ASSUME Init PROVE IInv
  OBVIOUS
<1>1. BoardType
  BY DEF Init, BoardType, Alerts, torpedoState, voltageState
<1>2. StripType /\ OneOwner /\ WaveFitsPattern
  <2>1. /\ enableExternalLEDActions = TRUE /\ strobeActivated = FALSE
        /\ elapsed = FALSE /\ sinWaveTimer = 0 /\ shown = "off"
    BY DEF Init
  <2>2. 0 \in Periods /\ "off" \notin Patterns
    BY DEF Periods, Patterns
  <2>3. StripType
    BY <2>1, <2>2, Zenon DEF StripType
  <2>4. OneOwner
    BY <2>1, <2>2, Zenon DEF OneOwner
  <2>5. WaveFitsPattern
    BY <2>1 DEF WaveFitsPattern
  <2>6. QED
    BY <2>3, <2>4, <2>5
<1>3. QED
  BY <1>1, <1>2 DEF IInv

(* A pattern of the chain, set with its own period.                         *)
LEMMA ShowInv ==
  ASSUME StripType, NEW p \in Patterns, NEW us \in Periods, Show(p, us),
         p = "pressure" => us = 210, p = "armed" => us = 1000,
         p = "danger" => us = 200, p \in {"poor", "demo"} => us = 2000
  PROVE  StripType' /\ OneOwner' /\ WaveFitsPattern'
<1>1. /\ enableExternalLEDActions' = FALSE /\ sinWaveTimer' = us /\ shown' = p
      /\ strobeActivated' = strobeActivated /\ elapsed' = elapsed
  BY DEF Show
<1>2. StripType'
  <2>1. enableExternalLEDActions' \in BOOLEAN
    BY <1>1
  <2>2. strobeActivated' \in BOOLEAN /\ elapsed' \in BOOLEAN
    BY <1>1 DEF StripType
  <2>3. sinWaveTimer' \in Periods /\ shown' \in Patterns
    BY <1>1
  <2>4. QED
    BY <2>1, <2>2, <2>3 DEF StripType
<1>3. OneOwner'
  <2>1. ~enableExternalLEDActions' /\ shown' \in Patterns
    BY <1>1
  <2>2. QED
    BY <2>1 DEF OneOwner
<1>4. WaveFitsPattern'
  BY <1>1 DEF WaveFitsPattern
<1>5. QED
  BY <1>2, <1>3, <1>4

LEMMA GiveBackInv ==
  ASSUME StripType, OneOwner, WaveFitsPattern, GiveBack
  PROVE  StripType' /\ OneOwner' /\ WaveFitsPattern'
<1>1. StripType'
  BY DEF GiveBack, StripType, Periods, Patterns, Commanded
<1>2. enableExternalLEDActions' = TRUE /\ shown' \notin Patterns
  BY DEF GiveBack, OneOwner, Patterns, StripType
<1>3. sinWaveTimer' = 0
  BY DEF GiveBack, WaveFitsPattern, StripType
<1>4. QED
  BY <1>1, <1>2, <1>3 DEF OneOwner, WaveFitsPattern, Patterns

LEMMA RoutineInv == IInv /\ indicatorRoutine => IInv'
<1> SUFFICES ASSUME IInv, indicatorRoutine PROVE IInv'
  OBVIOUS
<1>1. BoardType'
  BY DEF IInv, BoardType, indicatorRoutine, board
<1>2. PICK p \in Patterns, us \in Periods :
        \/ /\ Show(p, us)
           /\ p = "pressure" => us = 210
           /\ p = "armed" => us = 1000
           /\ p = "danger" => us = 200
           /\ p \in {"poor", "demo"} => us = 2000
        \/ GiveBack
  <2>1. sinWaveTimer \in Periods
    BY DEF IInv, StripType
  <2>2. \/ Show("pressure", 210) \/ Show("firing", sinWaveTimer)
        \/ Show("armed", 1000) \/ Show("danger", 200)
        \/ Show("poor", 2000) \/ Show("demo", 2000)
        \/ GiveBack
    BY DEF indicatorRoutine, alertRoutine
  <2>3. QED
    BY <2>1, <2>2 DEF Patterns, Periods
<1>3. StripType' /\ OneOwner' /\ WaveFitsPattern'
  BY <1>2, ShowInv, GiveBackInv DEF IInv
<1>4. QED
  BY <1>1, <1>3 DEF IInv

LEMMA LightInv == IInv /\ LightCommand => IInv'
<1> SUFFICES ASSUME IInv, NEW lit \in SUBSET Commanded \ {{}},
                    lightsControlCallback(lit)
             PROVE  IInv'
  BY DEF LightCommand
<1>1. BoardType'
  BY DEF IInv, BoardType, lightsControlCallback, board
<1>2. StripType' /\ OneOwner' /\ WaveFitsPattern'
  BY DEF IInv, StripType, OneOwner, WaveFitsPattern, lightsControlCallback,
         Patterns, Commanded
<1>3. QED
  BY <1>1, <1>2 DEF IInv

(* What only changes what the loop reads leaves the strip alone.            *)
LEMMA BoardInv ==
  IInv /\ (\/ batteryInfoCallback \/ pressureInfoCallback \/ assignParamValue
           \/ resetConfig \/ TorpedoMoves) => IInv'
<1> SUFFICES ASSUME IInv,
                    \/ batteryInfoCallback \/ pressureInfoCallback
                    \/ assignParamValue \/ resetConfig \/ TorpedoMoves
             PROVE  IInv'
  OBVIOUS
<1>1. UNCHANGED strip
  BY DEF batteryInfoCallback, pressureInfoCallback, assignParamValue,
         resetConfig, TorpedoMoves
<1>2. StripType' /\ OneOwner' /\ WaveFitsPattern'
  BY <1>1 DEF strip, IInv, StripType, OneOwner, WaveFitsPattern
<1>3. BoardType'
  <2>1. CASE batteryInfoCallback
    BY <2>1 DEF batteryInfoCallback, IInv, BoardType
  <2>2. CASE pressureInfoCallback
    BY <2>2 DEF pressureInfoCallback, checkPressure, IInv, BoardType
  <2>3. CASE assignParamValue
    BY <2>3 DEF assignParamValue, IInv, BoardType
  <2>4. CASE resetConfig
    BY <2>4 DEF resetConfig, DefaultAlerts, Alerts, IInv, BoardType
  <2>5. CASE TorpedoMoves
    BY <2>5 DEF TorpedoMoves, IInv, BoardType
  <2>6. QED
    BY <2>1, <2>2, <2>3, <2>4, <2>5
<1>4. QED
  BY <1>2, <1>3 DEF IInv

LEMMA ElapseInv == IInv /\ Elapse => IInv'
BY DEF Elapse, board, IInv, StripType, BoardType, OneOwner, WaveFitsPattern

LEMMA StutterInv == IInv /\ UNCHANGED vars => IInv'
BY DEF vars, strip, board, IInv, StripType, BoardType, OneOwner, WaveFitsPattern

THEOREM Invariance == Spec => []IInv
<1>1. IInv /\ [Next]_vars => IInv'
  BY RoutineInv, LightInv, BoardInv, ElapseInv, StutterInv DEF Next
<1>2. QED
  BY <1>1, InitInv, PTL DEF Spec

(* The types of the strip's and the board's state. *)
THEOREM TypeCorrect == Spec => []TypeOK
<1>1. IInv => TypeOK
  BY DEF IInv, StripType, BoardType, TypeOK
<1>2. QED
  BY <1>1, Invariance, PTL

(* disableExternalLEDControl() and enableExternalLEDControl(): light        *)
(* commands are refused exactly while a pattern is on the strip.            *)
THEOREM StripHasOneOwner == Spec => []OneOwner
<1>1. IInv => OneOwner
  BY DEF IInv
<1>2. QED
  BY <1>1, Invariance, PTL

(* sinWaveTimer.begin() and end(): the timer runs with the period of the    *)
(* pattern that is shown, and only while one is.                            *)
THEOREM WaveTimerFits == Spec => []WaveFitsPattern
<1>1. IInv => WaveFitsPattern
  BY DEF IInv
<1>2. QED
  BY <1>1, Invariance, PTL
(* Readme.md:49-58: after each turn of the loop the pattern on the strip is  *)
(* the first of the list whose alert holds.                                  *)
THEOREM FirstAlertWins == Spec => PriorityKept
<1>1. ASSUME indicatorRoutine, shown \in Patterns \cup Commanded \cup {"off"},
             OneOwner
      PROVE  /\ shown' \in Patterns <=> AnyAlert
             /\ \A k \in 1 .. 6 :
                  shown' = Listed[k].shows =>
                    Listed[k].when /\ \A j \in 1 .. k - 1 : ~Listed[j].when
  <2>1. \/ pressureAlert /\ shown' = "pressure"
        \/ ~pressureAlert /\ firingAlert /\ shown' = "firing"
        \/ ~pressureAlert /\ ~firingAlert /\ armedAlert /\ shown' = "armed"
        \/ ~pressureAlert /\ ~firingAlert /\ ~armedAlert /\ dangerAlert
           /\ shown' = "danger"
        \/ ~pressureAlert /\ ~firingAlert /\ ~armedAlert /\ ~dangerAlert
           /\ poorAlert /\ shown' = "poor"
        \/ ~pressureAlert /\ ~firingAlert /\ ~armedAlert /\ ~dangerAlert
           /\ ~poorAlert /\ demoAlert /\ shown' = "demo"
        \/ ~pressureAlert /\ ~firingAlert /\ ~armedAlert /\ ~dangerAlert
           /\ ~poorAlert /\ ~demoAlert /\ GiveBack
    BY <1>1 DEF indicatorRoutine, alertRoutine, Show
  <2>2. GiveBack => shown' \notin Patterns
    BY <1>1 DEF GiveBack, OneOwner, Patterns
  <2>3. AnyAlert <=> \/ pressureAlert \/ firingAlert \/ armedAlert
                     \/ dangerAlert \/ poorAlert \/ demoAlert
    BY DEF AnyAlert, Listed
  <2>4. shown' \in Patterns <=> AnyAlert
    BY <2>1, <2>2, <2>3 DEF Patterns
  <2>5. ASSUME NEW k \in 1 .. 6, shown' = Listed[k].shows
        PROVE  Listed[k].when /\ \A j \in 1 .. k - 1 : ~Listed[j].when
    <3>1. shown' \in Patterns
      BY <2>5 DEF Listed, Patterns
    <3>2. QED
      BY <2>1, <2>2, <2>5, <3>1 DEF Listed
  <2>6. QED
    BY <2>4, <2>5
<1>2. IInv => [indicatorRoutine =>
         /\ shown' \in Patterns <=> AnyAlert
         /\ \A k \in 1 .. 6 :
              shown' = Listed[k].shows =>
                Listed[k].when /\ \A j \in 1 .. k - 1 : ~Listed[j].when]_vars
  BY <1>1 DEF IInv, StripType
<1>3. QED
  BY <1>2, Invariance, PTL DEF PriorityKept
=============================================================================
