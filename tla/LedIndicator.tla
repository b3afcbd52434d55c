---------------------------- MODULE LedIndicator ----------------------------
(***************************************************************************)
(* Who drives the RGB strip of the dropper/torpedo board: indicatorRoutine *)
(* with its alert patterns, or the UAVCAN light commands.                  *)
(*                                                                         *)
(* loop() and the callbacks it polls run in one thread, so each of them is *)
(* one step.  They come in any order here: the loop runs indicatorRoutine  *)
(* once per turn and any number of callbacks in between.  A light command  *)
(* array is its commands one after the other, for nothing they do changes  *)
(* enableExternalLEDActions.  Colours are left out, and so is the wave     *)
(* that stepSinWave() advances; the torpedoes move as they like (see       *)
(* TorpedoControl).                                                        *)
(***************************************************************************)
EXTENDS Integers

CONSTANTS
  NUMBER_OF_BATTERIES,
  Pressures,             \* values a StaticPressure message may carry
  lowPressureThreshold

ASSUME LedAssumption ==
  /\ NUMBER_OF_BATTERIES \in Nat \ {0}
  /\ Pressures \subseteq Nat
  /\ lowPressureThreshold \in Nat

VARIABLES
  enableExternalLEDActions,
  strobeActivated,
  elapsed,          \* has the interval of strobeLightTimer passed?
  sinWaveTimer,     \* its period in us, 0 when it is stopped
  shown,            \* what the strip was last set to
  enabled,          \* the alert parameters that are not 0
  torpedo,          \* torpedoes[t].state
  batteryVoltage,   \* as the thresholds tell them apart
  initialPressure, pressureState

strip == <<enableExternalLEDActions, strobeActivated, elapsed, sinWaveTimer, shown>>
board == <<enabled, torpedo, batteryVoltage, initialPressure, pressureState>>
vars == <<strip, board>>

Alerts == {"PRESSURE", "TORPEDO", "LOW_VOLT", "DEMO"}
voltageState == {"GOOD", "POOR", "DANGER"}
torpedoState == {"READY", "ARMED", "FIRING", "DISCHARGED"}
Batteries == 0 .. NUMBER_OF_BATTERIES - 1

Patterns == {"pressure", "firing", "armed", "danger", "poor", "demo"}
Commanded == {"steady", "pulse"}

DefaultAlerts == {"LOW_VOLT", "TORPEDO"}

\* EEPROM.get() may load any setting of the parameters.
Init ==
  /\ enableExternalLEDActions = TRUE
  /\ strobeActivated = FALSE /\ elapsed = FALSE
  /\ sinWaveTimer = 0
  /\ shown = "off"
  /\ enabled \in SUBSET Alerts
  /\ torpedo = [t \in 0 .. 1 |-> "READY"]
  /\ batteryVoltage = [b \in Batteries |-> "GOOD"]
  /\ initialPressure = 0 /\ pressureState = "NORMAL"

-----------------------------------------------------------------------------
(* indicatorRoutine().                                                      *)

\* The state of the worst battery.
checkVoltages ==
  LET levels == {batteryVoltage[b] : b \in Batteries} IN
  IF "DANGER" \in levels THEN "DANGER"
  ELSE IF "POOR" \in levels THEN "POOR" ELSE "GOOD"

\* Mutant: the strip is not taken from the light commands.
Show_KeepsExternal(pattern, period) ==
  /\ sinWaveTimer' = period
  /\ shown' = pattern
  /\ UNCHANGED <<enableExternalLEDActions, strobeActivated, elapsed>>

\* disableExternalLEDControl(), sinWaveTimer.begin() and setRGB().
Show(pattern, period) ==
  /\ enableExternalLEDActions' = FALSE
  /\ sinWaveTimer' = period
  /\ shown' = pattern
  /\ UNCHANGED <<strobeActivated, elapsed>>

\* Mutant: the strip is turned off but not given back.
GiveBack_KeepsOwner ==
  /\ shown' = IF ~enableExternalLEDActions \/ (strobeActivated /\ elapsed)
              THEN "off" ELSE shown
  /\ sinWaveTimer' = IF enableExternalLEDActions THEN sinWaveTimer ELSE 0
  /\ strobeActivated' = (strobeActivated /\ ~elapsed)
  /\ elapsed' = (elapsed /\ ~strobeActivated)
  /\ UNCHANGED enableExternalLEDActions

\* Mutant: the wave timer keeps running.
GiveBack_KeepsTimer ==
  /\ enableExternalLEDActions' = TRUE
  /\ shown' = IF ~enableExternalLEDActions \/ (strobeActivated /\ elapsed)
              THEN "off" ELSE shown
  /\ strobeActivated' = (strobeActivated /\ ~elapsed)
  /\ elapsed' = (elapsed /\ ~strobeActivated)
  /\ UNCHANGED sinWaveTimer

\* Mutant: the strobe is looked at only when the strip is given back.
GiveBack_NoStrobe ==
  /\ enableExternalLEDActions' = TRUE
  /\ sinWaveTimer' = IF enableExternalLEDActions THEN sinWaveTimer ELSE 0
  /\ shown' = IF ~enableExternalLEDActions THEN "off" ELSE shown
  /\ UNCHANGED <<strobeActivated, elapsed>>

\* No alert: the strip is given back, dark; a strobe that is over is turned
\* off.  Metro::check() restarts the interval when it has passed.
GiveBack ==
  /\ enableExternalLEDActions' = TRUE
  /\ sinWaveTimer' = IF enableExternalLEDActions THEN sinWaveTimer ELSE 0
  /\ shown' = IF ~enableExternalLEDActions \/ (strobeActivated /\ elapsed)
              THEN "off" ELSE shown
  /\ strobeActivated' = (strobeActivated /\ ~elapsed)
  /\ elapsed' = (elapsed /\ ~strobeActivated)

pressureAlert == pressureState = "DROPPING" /\ "PRESSURE" \in enabled
firingAlert == "TORPEDO" \in enabled /\ \E t \in 0 .. 1 : torpedo[t] = "FIRING"
armedAlert == "TORPEDO" \in enabled /\ \E t \in 0 .. 1 : torpedo[t] = "ARMED"
dangerAlert == "LOW_VOLT" \in enabled /\ checkVoltages = "DANGER"
poorAlert == "LOW_VOLT" \in enabled /\ checkVoltages = "POOR"
demoAlert == "DEMO" \in enabled

\* Mutant: an armed torpedo hides a firing one.
alertRoutine_ArmedFirst ==
  IF pressureAlert THEN Show("pressure", 210)
  ELSE IF armedAlert THEN Show("armed", 1000)
  ELSE IF firingAlert THEN Show("firing", sinWaveTimer)
  ELSE IF dangerAlert THEN Show("danger", 200)
  ELSE IF poorAlert THEN Show("poor", 2000)
  ELSE IF demoAlert THEN Show("demo", 2000)
  ELSE GiveBack

\* The chain of early returns.  The firing pattern is plain: it leaves the
\* wave timer as it is.
alertRoutine ==
  IF pressureAlert THEN Show("pressure", 210)
  ELSE IF firingAlert THEN Show("firing", sinWaveTimer)
  ELSE IF armedAlert THEN Show("armed", 1000)
  ELSE IF dangerAlert THEN Show("danger", 200)
  ELSE IF poorAlert THEN Show("poor", 2000)
  ELSE IF demoAlert THEN Show("demo", 2000)
  ELSE GiveBack

indicatorRoutine == alertRoutine /\ UNCHANGED board

-----------------------------------------------------------------------------
(* Callbacks and commands.                                                  *)

\* One light command; lit tells which of the two ids it has: RGBStrip0_ID,
\* RGBStrip0_strobe, or both when the parameters are equal.  pulseLED() comes
\* second.
lightsControlCallback(lit) ==
  /\ enableExternalLEDActions
  /\ shown' = IF "pulse" \in lit THEN "pulse" ELSE "steady"
  /\ strobeActivated' = ("pulse" \in lit \/ strobeActivated)
  /\ elapsed' = (elapsed /\ "pulse" \notin lit)
  /\ UNCHANGED <<enableExternalLEDActions, sinWaveTimer, board>>

LightCommand == \E lit \in SUBSET Commanded \ {{}} : lightsControlCallback(lit)

\* Mutant: storeVoltageInfo() stores at any index.
batteryInfoCallback_NoBound ==
  /\ \E b \in 0 .. NUMBER_OF_BATTERIES, v \in voltageState :
       batteryVoltage' = [k \in Batteries \cup {b} |->
                            IF k = b THEN v ELSE batteryVoltage[k]]
  /\ UNCHANGED <<strip, enabled, torpedo, initialPressure, pressureState>>

\* storeVoltageInfo() drops an index that is out of range.
batteryInfoCallback ==
  /\ \E b \in 0 .. NUMBER_OF_BATTERIES, v \in voltageState :
       batteryVoltage' = IF b \in Batteries
                         THEN [batteryVoltage EXCEPT ![b] = v] ELSE batteryVoltage
  /\ UNCHANGED <<strip, enabled, torpedo, initialPressure, pressureState>>

\* The first sample that is not 0 is the one the others are compared with.
checkPressure(pressure) ==
  IF initialPressure = 0
  THEN initialPressure' = pressure /\ UNCHANGED pressureState
  ELSE /\ pressureState' = IF initialPressure - pressure >= lowPressureThreshold
                           THEN "DROPPING" ELSE "NORMAL"
       /\ UNCHANGED initialPressure

pressureInfoCallback ==
  /\ \E p \in Pressures : checkPressure(p)
  /\ UNCHANGED <<strip, enabled, torpedo, batteryVoltage>>

\* assignParamValue() and the serial commands that set one of the switches.
assignParamValue ==
  /\ \E a \in Alerts : enabled' \in {enabled \cup {a}, enabled \ {a}}
  /\ UNCHANGED <<strip, torpedo, batteryVoltage, initialPressure, pressureState>>

resetConfig ==
  /\ enabled' = DefaultAlerts
  /\ UNCHANGED <<strip, torpedo, batteryVoltage, initialPressure, pressureState>>

TorpedoMoves ==
  /\ \E t \in 0 .. 1, s \in torpedoState : torpedo' = [torpedo EXCEPT ![t] = s]
  /\ UNCHANGED <<strip, enabled, batteryVoltage, initialPressure, pressureState>>

\* The interval of strobeLightTimer passes.
Elapse ==
  /\ elapsed' = TRUE
  /\ UNCHANGED <<enableExternalLEDActions, strobeActivated, sinWaveTimer, shown, board>>

Next ==
  \/ indicatorRoutine \/ LightCommand
  \/ batteryInfoCallback \/ pressureInfoCallback
  \/ assignParamValue \/ resetConfig
  \/ TorpedoMoves \/ Elapse

Spec == Init /\ [][Next]_vars

\* loop() runs for ever, and time passes.
FairSpec == Spec /\ WF_vars(indicatorRoutine) /\ WF_vars(Elapse)

-----------------------------------------------------------------------------
(* Properties.                                                              *)

Periods == {0, 200, 210, 1000, 2000}

\* Every variable stays in its type.
TypeOK ==
  /\ enableExternalLEDActions \in BOOLEAN
  /\ strobeActivated \in BOOLEAN /\ elapsed \in BOOLEAN
  /\ sinWaveTimer \in Periods
  /\ shown \in Patterns \cup Commanded \cup {"off"}
  /\ enabled \subseteq Alerts
  /\ torpedo \in [0 .. 1 -> torpedoState]
  /\ batteryVoltage \in [Batteries -> voltageState]
  /\ initialPressure \in Pressures \cup {0}
  /\ pressureState \in {"NORMAL", "DROPPING"}

\* The strip has one owner: while a pattern is on it no light command is
\* taken, and as soon as none is on it they are.
OneOwner == ~enableExternalLEDActions <=> shown \in Patterns

\* The wave timer runs for the pattern on the strip, at its speed, and is not
\* left running when the strip is given back.
WaveFitsPattern ==
  /\ enableExternalLEDActions => sinWaveTimer = 0
  /\ shown = "pressure" => sinWaveTimer = 210
  /\ shown = "armed" => sinWaveTimer = 1000
  /\ shown = "danger" => sinWaveTimer = 200
  /\ shown \in {"poor", "demo"} => sinWaveTimer = 2000

\* The order of the patterns that Readme.md:49-58 lists.
Listed == <<[shows |-> "pressure", when |-> pressureAlert],
            [shows |-> "firing", when |-> firingAlert],
            [shows |-> "armed", when |-> armedAlert],
            [shows |-> "danger", when |-> dangerAlert],
            [shows |-> "poor", when |-> poorAlert],
            [shows |-> "demo", when |-> demoAlert]>>

AnyAlert == \E k \in 1 .. 6 : Listed[k].when

\* After a turn of the loop the strip shows the first pattern of the list
\* whose alert holds, and none if none does.
PriorityKept ==
  [][indicatorRoutine =>
       /\ shown' \in Patterns <=> AnyAlert
       /\ \A k \in 1 .. 6 :
            shown' = Listed[k].shows =>
              Listed[k].when /\ \A j \in 1 .. k - 1 : ~Listed[j].when]_vars

\* Pressure that stays low is shown in the end, whatever else goes on.
PressureIsShown == <>[]pressureAlert => <>[](shown = "pressure")

\* When no alert holds any more, light commands are taken again.
GivenBack == <>[]~AnyAlert => <>[]enableExternalLEDActions

\* A pulse ends, unless light commands keep coming.
PulseEnds == (shown = "pulse" ~> shown # "pulse") \/ []<><<LightCommand>>_vars

\* "Light ID is 0 for continuous control, 248 for pulse control"
\* (Readme.md:44): with no alert, a colour set for continuous control stays
\* until another light command.
ContinuousStays ==
  [][indicatorRoutine /\ ~AnyAlert /\ shown = "steady" => shown' = "steady"]_vars
=============================================================================
