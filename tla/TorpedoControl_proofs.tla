----------------------- MODULE TorpedoControl_proofs -----------------------
(***************************************************************************)
(* Proofs about TorpedoControl, for every number of torpedoes, every set   *)
(* of ids and every set of pulse values.                                   *)
(***************************************************************************)
EXTENDS TorpedoControl, TLAPS

USE TorpedoAssumption DEF Torpedo

(***************************************************************************)
(* The strengthening: what holds at each of fireTorpedo()'s steps.  None   *)
(* of the invariants is inductive without it: that no interrupt can come   *)
(* between the writes of a launch is what keeps them together.             *)
(***************************************************************************)
StepInv ==
  /\ pc \in FireSteps => state[i] = "ARMED"
  /\ pc = "fire" => ~pin[i] /\ ~timer[i] /\ launch[i]
  /\ pc = "clearLaunch" => pin[i] /\ ~timer[i]
  /\ pc = "begin" => pin[i] /\ ~timer[i] /\ ~launch[i]
  /\ pc = "mark" => ~launch[i]
  /\ pc = "cleanUp" => state[i] = "FIRING" /\ ~pin[i] /\ ~launch[i]

IInv ==
  /\ TypeOK
  /\ StepInv
  /\ HighOnlyInPulse
  /\ TimerOnlyInPulse
  /\ NoRequestInPulse

(* What a board that has just started looks like, by Init or by Reset.      *)
LEMMA InitInv == Init => IInv
  BY DEF Init, AllReady, AllOff, IInv, TypeOK, PC, FireSteps, torpedoState,
         StepInv, HighOnlyInPulse, TimerOnlyInPulse, NoRequestInPulse, Mid

LEMMA ResetInv == Reset => IInv'
  BY DEF Reset, AllReady, AllOff, IInv, TypeOK, PC, FireSteps, torpedoState,
         StepInv, HighOnlyInPulse, TimerOnlyInPulse, NoRequestInPulse, Mid

(* The interrupt only takes away what the invariants restrict.              *)
LEMMA InterruptInv ==
  ASSUME IInv, NEW t \in Torpedo, trpControl(t)
  PROVE  IInv'
  BY DEF trpControl, params, IInv, TypeOK, PC, FireSteps, torpedoState,
         StepInv, HighOnlyInPulse, TimerOnlyInPulse, NoRequestInPulse, Mid

(* A command acts on torpedoes that are not FIRING, between two passes.     *)
LEMMA CommandInv ==
  ASSUME IInv, NEW S \in SUBSET Torpedo, Command(S),
         pc \in {"serial", "spin"},
         UNCHANGED <<pc, i, pin, timer, params>>
  PROVE  IInv'
<1> USE DEF params, IInv, TypeOK, PC, FireSteps, torpedoState,
            StepInv, HighOnlyInPulse, TimerOnlyInPulse, NoRequestInPulse, Mid
<1>1. CASE armTorpedo(S)
  BY <1>1 DEF armTorpedo
<1>2. CASE disarmTorpedo(S)
  BY <1>2 DEF disarmTorpedo
<1>3. CASE requestLaunch(S)
  BY <1>3 DEF requestLaunch
<1>4. QED
  BY <1>1, <1>2, <1>3 DEF Command

\* `~' leaves a pending request pending.
LEMMA SkipKeeps ==
  ASSUME launch \in [Torpedo -> BOOLEAN], Skip
  PROVE  launch' = launch
<1>1. CASE i \in Torpedo /\ launch[i] /\ launch' = [launch EXCEPT ![i] = TRUE]
  BY <1>1
<1>2. QED
  BY <1>1 DEF Skip, BitwiseNot

LEMMA RoutineInv ==
  ASSUME IInv, torpedoRoutine
  PROVE  IInv'
<1> USE DEF params, IInv, TypeOK, PC, FireSteps, torpedoState,
            StepInv, HighOnlyInPulse, TimerOnlyInPulse, NoRequestInPulse, Mid
<1>1. CASE Skip
  <2>1. launch' = launch
    BY <1>1, SkipKeeps
  <2>2. i \in Torpedo /\ i' = i + 1 /\ pc = "routine"
    BY <1>1 DEF Skip
  <2>3. /\ UNCHANGED <<pc, state, pin, timer, actId, pulse>>
        /\ refused' \in [Torpedo -> BOOLEAN]
    BY <1>1 DEF Skip
  <2>4. QED
    BY <2>1, <2>2, <2>3
<1>2. CASE StartFire
  BY <1>2 DEF StartFire
<1>3. CASE RaisePin
  BY <1>3 DEF RaisePin
<1>4. CASE ClearLaunch
  BY <1>4 DEF ClearLaunch
<1>5. CASE BeginTimer
  BY <1>5 DEF BeginTimer
<1>6. CASE MarkFiring
  BY <1>6 DEF MarkFiring
<1>7. CASE CheckPulseOver
  BY <1>7 DEF CheckPulseOver
<1>8. CASE cleanUpTorpedoTimer
  BY <1>8 DEF cleanUpTorpedoTimer
<1>9. CASE RoutineDone
  BY <1>9 DEF RoutineDone
<1>10. QED
  BY <1>1, <1>2, <1>3, <1>4, <1>5, <1>6, <1>7, <1>8, <1>9 DEF torpedoRoutine

LEMMA StepPreserves == IInv /\ [Next]_vars => IInv'
<1> SUFFICES ASSUME IInv, [Next]_vars PROVE IInv'
  OBVIOUS
<1>1. CASE torpedoRoutine
  BY <1>1, RoutineInv
<1>2. CASE indicatorRoutine \/ SerialDone \/ SpinDone
  BY <1>2 DEF indicatorRoutine, SerialDone, SpinDone, params, IInv, TypeOK, PC,
     FireSteps, StepInv, HighOnlyInPulse, TimerOnlyInPulse, NoRequestInPulse, Mid
<1>3. CASE SerialCommand
  <2>1. PICK t \in Torpedo : Command({t})
    BY <1>3 DEF SerialCommand
  <2>2. {t} \in SUBSET Torpedo
    OBVIOUS
  <2>3. QED
    BY <1>3, <2>1, <2>2, CommandInv DEF SerialCommand
<1>4. CASE actuatorControlCallback
  <2>1. PICK id \in ActuatorIds : Command({t \in Torpedo : actId[t] = id})
    BY <1>4 DEF actuatorControlCallback
  <2>2. {t \in Torpedo : actId[t] = id} \in SUBSET Torpedo
    OBVIOUS
  <2>3. QED
    BY <1>4, <2>1, <2>2, CommandInv DEF actuatorControlCallback
<1>5. CASE resetConfig \/ assignParamValue
  BY <1>5 DEF resetConfig, assignParamValue, IInv, TypeOK, PC, FireSteps,
     StepInv, HighOnlyInPulse, TimerOnlyInPulse, NoRequestInPulse, Mid
<1>6. CASE Reset
  BY <1>6, ResetInv
<1>7. CASE \E t \in Torpedo : trpControl(t)
  BY <1>7, InterruptInv
<1>8. CASE UNCHANGED vars
  BY <1>8 DEF vars, params, IInv, TypeOK, PC, FireSteps, StepInv,
     HighOnlyInPulse, TimerOnlyInPulse, NoRequestInPulse, Mid
<1>9. QED
  BY <1>1, <1>2, <1>3, <1>4, <1>5, <1>6, <1>7, <1>8 DEF Next, Advance, Inputs

(* The inductive invariant holds in every reachable state. *)
THEOREM Invariance == Spec => []IInv
  BY InitInv, StepPreserves, PTL DEF Spec

(* Type correctness; in particular DISCHARGED is dead (torpedoControl.hpp:147). *)
THEOREM TypeCorrect == Spec => []TypeOK
  BY Invariance, PTL DEF IInv

(* A solenoid is energised only in the FIRING state or on the way to it. *)
THEOREM PinSafety == Spec => []HighOnlyInPulse
  BY Invariance, PTL DEF IInv

(* The fire timer's interrupt is never left enabled after the clean-up. *)
THEOREM TimerSafety == Spec => []TimerOnlyInPulse
  BY Invariance, PTL DEF IInv

(* No request is pending while the solenoid is energised, so the clean-up
   that waits for launch to be false is never blocked by one. *)
THEOREM RequestSafety == Spec => []NoRequestInPulse
  BY Invariance, PTL DEF IInv

(* An accepted request is never wiped out by a late interrupt: no step but
   the launch itself, or a reset, takes it back. *)
THEOREM RequestKept == Spec => RequestConsumedByFiring
<1>1. ASSUME IInv, [Next]_vars, NEW t \in Torpedo, launch[t], ~launch'[t]
      PROVE  pin[t] \/ Reset
  <2> USE <1>1 DEF IInv, TypeOK
  <2>1. CASE torpedoRoutine
    BY <2>1 DEF torpedoRoutine, Skip, BitwiseNot, StartFire, RaisePin,
       ClearLaunch, BeginTimer, MarkFiring, CheckPulseOver,
       cleanUpTorpedoTimer, RoutineDone, StepInv
  <2>2. CASE Inputs
    BY <2>2 DEF Inputs, SerialCommand, resetConfig, actuatorControlCallback,
       assignParamValue, Command, armTorpedo, disarmTorpedo, requestLaunch
  <2>3. CASE \E u \in Torpedo : trpControl(u)
    <3>1. PICK u \in Torpedo : trpControl(u)
      BY <2>3
    <3>2. u = t /\ timer[t]
      BY <3>1 DEF trpControl
    <3>3. QED  \* the timer of t runs only where launch[t] is false
      BY <3>2 DEF TimerOnlyInPulse, NoRequestInPulse, StepInv, Mid
  <2>4. CASE indicatorRoutine \/ SerialDone \/ SpinDone \/ UNCHANGED vars
    BY <2>4 DEF indicatorRoutine, SerialDone, SpinDone, vars
  <2>5. QED
    BY <2>1, <2>2, <2>3, <2>4 DEF Next, Advance
<1>2. IInv /\ [Next]_vars
        => [\A t \in Torpedo : launch[t] /\ ~launch'[t] => pin[t] \/ Reset]_vars
  BY <1>1
<1>3. QED
  BY <1>2, Invariance, PTL DEF Spec, RequestConsumedByFiring

(* As long as TORPEDO_PULSE is usable, an energised solenoid always has its
   timer running: nothing but the pulse's own interrupt is needed to end it. *)
THEOREM PulseHasTimer == Spec => TimerBehindPulse
<1>1. Init => HighHasTimer
  BY DEF Init, AllOff, HighHasTimer
<1>2. /\ IInv /\ pulse \in UsablePulses
      /\ HighHasTimer /\ [Next]_vars
      => HighHasTimer'
  <2> SUFFICES ASSUME IInv, pulse \in UsablePulses, HighHasTimer, [Next]_vars
               PROVE  HighHasTimer'
    OBVIOUS
  <2> USE DEF IInv, TypeOK, HighHasTimer, Mid, FireSteps
  <2>1. CASE torpedoRoutine
    BY <2>1 DEF torpedoRoutine, Skip, StartFire, RaisePin,
       ClearLaunch, BeginTimer, MarkFiring, CheckPulseOver,
       cleanUpTorpedoTimer, RoutineDone, StepInv
  <2>2. CASE Inputs
    BY <2>2 DEF Inputs, SerialCommand, resetConfig, actuatorControlCallback,
       assignParamValue
  <2>3. CASE Reset
    BY <2>3 DEF Reset, AllOff
  <2>4. CASE \E t \in Torpedo : trpControl(t)
    BY <2>4 DEF trpControl
  <2>5. CASE indicatorRoutine \/ SerialDone \/ SpinDone \/ UNCHANGED vars
    BY <2>5 DEF indicatorRoutine, SerialDone, SpinDone, vars
  <2>6. QED
    BY <2>1, <2>2, <2>3, <2>4, <2>5 DEF Next, Advance
<1>3. QED
  BY <1>1, <1>2, Invariance, PTL DEF Spec, TimerBehindPulse, PulseUsable

-----------------------------------------------------------------------------
(* The firing system implements TorpedoOneShot.                             *)

\* A step that changes neither pin nor state, and neither enters nor leaves
\* "mark" with the pin low, is a stutter of the abstract specification.
LEMMA SamePhase ==
  ASSUME UNCHANGED <<pin, state>>,
         \A t \in Torpedo : ~pin[t] => (Mid(t, {"mark"})' <=> Mid(t, {"mark"}))
  PROVE  UNCHANGED phase
<1>1. \A t \in Torpedo : phase'[t] = phase[t]
  BY DEF phase
<1>2. QED
  BY <1>1 DEF phase

LEMMA CommandRefines ==
  ASSUME IInv, NEW S \in SUBSET Torpedo, Command(S),
         pc \in {"serial", "spin"},
         UNCHANGED <<pc, i, pin, timer, params>>
  PROVE  [Shot!Next]_phase
<1> USE DEF IInv, TypeOK, Mid, HighOnlyInPulse
<1>1. CASE armTorpedo(S)
  <2> DEFINE A == {t \in S : state[t] = "READY"}
  <2>1. phase' = [t \in Torpedo |->
                    IF t \in A /\ phase[t] = "locked" THEN "unlocked" ELSE phase[t]]
    BY <1>1, Zenon DEF armTorpedo, phase, torpedoState
  <2>2. QED
    BY <2>1 DEF Shot!Next, Shot!Arm, Shot!Move
<1>2. CASE disarmTorpedo(S)
  <2> DEFINE A == {t \in S : state[t] = "ARMED"}
  <2>1. phase' = [t \in Torpedo |->
                    IF t \in A /\ phase[t] = "unlocked" THEN "locked" ELSE phase[t]]
    BY <1>2 DEF disarmTorpedo, phase
  <2>2. QED
    BY <2>1 DEF Shot!Next, Shot!Disarm, Shot!Move
<1>3. CASE requestLaunch(S)
  BY <1>3, SamePhase DEF requestLaunch
<1>4. QED
  BY <1>1, <1>2, <1>3 DEF Command

LEMMA RoutineRefines ==
  ASSUME IInv, torpedoRoutine
  PROVE  [Shot!Next]_phase
<1> USE DEF IInv, TypeOK, StepInv, FireSteps, Mid
<1>1. CASE RaisePin
  <2>1. phase[i] = "unlocked" /\ i \in Torpedo
    BY <1>1 DEF RaisePin, phase
  <2>2. phase' = [t \in Torpedo |->
                    IF t \in {i} /\ phase[t] = "unlocked" THEN "energised" ELSE phase[t]]
    BY <1>1, <2>1 DEF RaisePin, phase
  <2>3. QED
    BY <2>1, <2>2 DEF Shot!Next, Shot!Fire, Shot!Move
<1>2. CASE MarkFiring
  <2>1. \A t \in Torpedo : phase'[t] = phase[t]
    BY <1>2 DEF MarkFiring, phase
  <2>2. QED
    BY <2>1 DEF phase
<1>3. CASE cleanUpTorpedoTimer
  <2>1. \A t \in Torpedo : phase'[t] = phase[t]
    BY <1>3 DEF cleanUpTorpedoTimer, phase
  <2>2. QED
    BY <2>1 DEF phase
<1>4. CASE Skip \/ StartFire \/ ClearLaunch \/ BeginTimer \/ CheckPulseOver
           \/ RoutineDone
  BY <1>4, SamePhase DEF Skip, StartFire, ClearLaunch, BeginTimer,
     CheckPulseOver, RoutineDone
<1>5. QED
  BY <1>1, <1>2, <1>3, <1>4 DEF torpedoRoutine

LEMMA InterruptRefines ==
  ASSUME IInv, NEW u \in Torpedo, trpControl(u)
  PROVE  [Shot!Next]_phase
<1> USE DEF IInv, TypeOK, trpControl, Mid
<1>1. CASE pin[u]
  <2>1. phase[u] = "energised"
    BY <1>1 DEF phase
  <2>2. phase' = [t \in Torpedo |->
                    IF t \in {u} /\ phase[t] = "energised" THEN "locked" ELSE phase[t]]
    BY <1>1, <2>1 DEF phase, TimerOnlyInPulse
  <2>3. QED
    BY <2>1, <2>2 DEF Shot!Next, Shot!Release, Shot!Move
<1>2. CASE ~pin[u]
  <2>1. pin' = pin
    BY <1>2
  <2>2. QED
    BY <2>1, SamePhase
<1>3. QED
  BY <1>1, <1>2

(* Every shot needs an arming of its own: lock-out after firing and at
   power-up, for any number of torpedoes. *)
THEOREM Refinement == Spec => OneShot
<1>1. Init => Shot!Init
  BY DEF Init, AllReady, AllOff, phase, Shot!Init, Shot!AllLocked, Mid
<1>2. IInv /\ [Next]_vars => [Shot!Next]_phase
  <2> SUFFICES ASSUME IInv, [Next]_vars PROVE [Shot!Next]_phase
    OBVIOUS
  <2>1. CASE torpedoRoutine
    BY <2>1, RoutineRefines
  <2>2. CASE SerialCommand
    <3>1. PICK t \in Torpedo : Command({t})
      BY <2>2 DEF SerialCommand
    <3>2. {t} \in SUBSET Torpedo
      OBVIOUS
    <3>3. QED
      BY <2>2, <3>1, <3>2, CommandRefines DEF SerialCommand
  <2>3. CASE actuatorControlCallback
    <3>1. PICK id \in ActuatorIds : Command({t \in Torpedo : actId[t] = id})
      BY <2>3 DEF actuatorControlCallback
    <3>2. {t \in Torpedo : actId[t] = id} \in SUBSET Torpedo
      OBVIOUS
    <3>3. QED
      BY <2>3, <3>1, <3>2, CommandRefines DEF actuatorControlCallback
  <2>4. CASE Reset
    <3>1. phase' = Shot!AllLocked
      BY <2>4 DEF Reset, AllReady, AllOff, phase, Shot!AllLocked, Mid
    <3>2. QED
      BY <3>1 DEF Shot!Next, Shot!Reset
  <2>5. CASE \E t \in Torpedo : trpControl(t)
    BY <2>5, InterruptRefines
  <2>6. CASE \/ indicatorRoutine \/ SerialDone \/ SpinDone
             \/ resetConfig \/ assignParamValue \/ UNCHANGED vars
    BY <2>6, SamePhase DEF indicatorRoutine, SerialDone, SpinDone,
       resetConfig, assignParamValue, vars, Mid
  <2>7. QED
    BY <2>1, <2>2, <2>3, <2>4, <2>5, <2>6 DEF Next, Advance, Inputs
<1>3. QED
  BY <1>1, <1>2, Invariance, PTL DEF Spec, OneShot, Shot!Spec
=============================================================================
