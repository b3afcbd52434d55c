-------------------------- MODULE TorpedoControl --------------------------
(***************************************************************************)
(* The torpedo firing system of the dropper_torpedo board: the state       *)
(* machine of torpedoControl.hpp, run by loop(), against the interval      *)
(* timer interrupts that end the solenoid pulses.                          *)
(*                                                                         *)
(* One thread runs loop(); `pc' is where it is and `i' the torpedo that    *)
(* torpedoRoutine() is visiting.  An interrupt may arrive between any two  *)
(* of the loop's writes.  A reset (watchdog, power, remote restart) may    *)
(* happen at any time.                                                     *)
(***************************************************************************)
EXTENDS Naturals

CONSTANTS
  N_TORPEDOES,   \* number of torpedoes
  ActuatorIds,   \* values of the ACT_ID_TORP parameters and of message ids
  PulseValues,   \* values of the TORPEDO_PULSE parameter
  UsablePulses,  \* those IntervalTimer::begin() accepts (positive, in range)
  defaultId,     \* default of ACT_ID_TORP_0, ACT_ID_TORP_1, ...
  defaultPulse   \* default of TORPEDO_PULSE

Torpedo == 0 .. N_TORPEDOES - 1

ASSUME TorpedoAssumption ==
  /\ N_TORPEDOES \in Nat \ {0}
  /\ defaultId \in [Torpedo -> ActuatorIds]
  /\ defaultPulse \in PulseValues

VARIABLES
  pc,      \* where loop() is
  i,       \* loop variable of torpedoRoutine()
  state,   \* torpedoes[].state
  launch,  \* torpedoes[].launch
  pin,     \* level of the solenoid pin, TRUE for HIGH
  timer,   \* fireTimer0, fireTimer1: is the periodic interrupt enabled
  actId,   \* boardConfig[ACT_ID_TORP_0 ..].value
  pulse,   \* boardConfig[TORPEDO_PULSE].value
  refused  \* history: the pending request was reported as "Unable to fire"

vars == <<pc, i, state, launch, pin, timer, actId, pulse, refused>>
params == <<actId, pulse>>

torpedoState == {"READY", "ARMED", "FIRING", "DISCHARGED"}

\* The writes of fireTorpedo() and of the ARMED case, in their order.
FireSteps == {"fire", "clearLaunch", "begin", "mark"}
PC == {"indicator", "routine", "cleanUp", "serial", "spin"} \cup FireSteps

(***************************************************************************)
(* Power-up: initTorpedos() drives the pins low; initParameter() loads     *)
(* whatever the EEPROM holds.                                              *)
(***************************************************************************)
AllReady == [t \in Torpedo |-> "READY"]
AllOff == [t \in Torpedo |-> FALSE]

Init ==
  /\ pc = "indicator"
  /\ i = 0
  /\ state = AllReady
  /\ launch = AllOff
  /\ pin = AllOff
  /\ timer = AllOff
  /\ refused = AllOff
  /\ actId \in [Torpedo -> ActuatorIds]
  /\ pulse \in PulseValues

Reset ==
  /\ pc' = "indicator"
  /\ i' = 0
  /\ state' = AllReady
  /\ launch' = AllOff
  /\ pin' = AllOff
  /\ timer' = AllOff
  /\ refused' = AllOff
  /\ actId' \in [Torpedo -> ActuatorIds]
  /\ pulse' \in PulseValues

-----------------------------------------------------------------------------
(* trpControl0(), trpControl1(): the interrupt of a running fire timer.  It *)
(* repeats until end() is called.                                           *)

\* Mutant: the interrupt leaves the pin alone.
trpControl_KeepsPin(t) ==
  /\ timer[t]
  /\ launch' = [launch EXCEPT ![t] = FALSE]
  /\ UNCHANGED <<pc, i, state, pin, timer, params, refused>>

trpControl(t) ==
  /\ timer[t]
  /\ pin' = [pin EXCEPT ![t] = FALSE]
  /\ launch' = [launch EXCEPT ![t] = FALSE]
  /\ UNCHANGED <<pc, i, state, timer, params, refused>>

-----------------------------------------------------------------------------
(* loop(): one pass is indicator, torpedoRoutine, cmdPoll, cycleNode.       *)

indicatorRoutine ==
  /\ pc = "indicator"
  /\ pc' = "routine"
  /\ i' = 0
  /\ UNCHANGED <<state, launch, pin, timer, params, refused>>

\* `~launch' on a C++ bool: the operand is promoted to int, and neither ~0
\* nor ~1 is zero, so that the stored bool is true whatever it was.
BitwiseNot(b) == TRUE

\* The READY and DISCHARGED cases, and the ARMED case with no request.
Skip ==
  /\ pc = "routine" /\ i \in Torpedo
  /\ \/ /\ state[i] \in {"READY", "DISCHARGED"} /\ launch[i]
        /\ launch' = [launch EXCEPT ![i] = BitwiseNot(@)]
        /\ refused' = [refused EXCEPT ![i] = TRUE]
     \/ /\ state[i] \in {"READY", "DISCHARGED", "ARMED"} /\ ~launch[i]
        /\ UNCHANGED <<launch, refused>>
  /\ i' = i + 1
  /\ UNCHANGED <<pc, state, pin, timer, params>>

\* The ARMED case with a pending request: call fireTorpedo().
StartFire ==
  /\ pc = "routine" /\ i \in Torpedo
  /\ state[i] = "ARMED" /\ launch[i]
  /\ pc' = "fire"
  /\ UNCHANGED <<i, state, launch, pin, timer, params, refused>>

\* fireTorpedo()'s guard.  The caller ignores its result and goes on to
\* state = FIRING either way.
RaisePin ==
  /\ pc = "fire"
  /\ IF ~pin[i] /\ launch[i]
     THEN pin' = [pin EXCEPT ![i] = TRUE] /\ pc' = "clearLaunch"
     ELSE pc' = "mark" /\ UNCHANGED pin
  /\ UNCHANGED <<i, state, launch, timer, params, refused>>

ClearLaunch ==
  /\ pc = "clearLaunch"
  /\ launch' = [launch EXCEPT ![i] = FALSE]
  /\ pc' = "begin"
  /\ UNCHANGED <<i, state, pin, timer, params, refused>>

\* IntervalTimer::begin() refuses an unusable period and leaves the timer
\* off; fireTorpedo() does not look at its result.
BeginTimer ==
  /\ pc = "begin"
  /\ timer' = [timer EXCEPT ![i] = pulse \in UsablePulses]
  /\ pc' = "mark"
  /\ UNCHANGED <<i, state, launch, pin, params, refused>>

MarkFiring ==
  /\ pc = "mark"
  /\ state' = [state EXCEPT ![i] = "FIRING"]
  /\ pc' = "routine"
  /\ i' = i + 1
  /\ UNCHANGED <<launch, pin, timer, params, refused>>

\* Mutant: the clean-up does not look at the pin.
CheckPulseOver_IgnoresPin ==
  /\ pc = "routine" /\ i \in Torpedo
  /\ state[i] = "FIRING"
  /\ IF ~launch[i]
     THEN pc' = "cleanUp" /\ UNCHANGED i
     ELSE i' = i + 1 /\ UNCHANGED pc
  /\ UNCHANGED <<state, launch, pin, timer, params, refused>>

\* The FIRING case: cleanUpTorpedoTimer()'s guard ...
CheckPulseOver ==
  /\ pc = "routine" /\ i \in Torpedo
  /\ state[i] = "FIRING"
  /\ IF ~pin[i] /\ ~launch[i]
     THEN pc' = "cleanUp" /\ UNCHANGED i
     ELSE i' = i + 1 /\ UNCHANGED pc
  /\ UNCHANGED <<state, launch, pin, timer, params, refused>>

\* Mutants: the timer is left running; the torpedo goes to DISCHARGED, as the
\* message of that case says.
cleanUpTorpedoTimer_NoEnd ==
  /\ pc = "cleanUp"
  /\ state' = [state EXCEPT ![i] = "READY"]
  /\ pc' = "routine"
  /\ i' = i + 1
  /\ UNCHANGED <<launch, pin, timer, params, refused>>

cleanUpTorpedoTimer_Discharged ==
  /\ pc = "cleanUp"
  /\ timer' = [timer EXCEPT ![i] = FALSE]
  /\ state' = [state EXCEPT ![i] = "DISCHARGED"]
  /\ pc' = "routine"
  /\ i' = i + 1
  /\ UNCHANGED <<launch, pin, params, refused>>

\* ... and its end(), after which no interrupt can come before state = READY.
cleanUpTorpedoTimer ==
  /\ pc = "cleanUp"
  /\ timer' = [timer EXCEPT ![i] = FALSE]
  /\ state' = [state EXCEPT ![i] = "READY"]
  /\ pc' = "routine"
  /\ i' = i + 1
  /\ UNCHANGED <<launch, pin, params, refused>>

\* Mutant: the loop over torpedoes[] stops one short.
RoutineDone_OneShort ==
  /\ pc = "routine" /\ i = N_TORPEDOES - 1
  /\ pc' = "serial"
  /\ UNCHANGED <<i, state, launch, pin, timer, params, refused>>

RoutineDone ==
  /\ pc = "routine" /\ i = N_TORPEDOES
  /\ pc' = "serial"
  /\ UNCHANGED <<i, state, launch, pin, timer, params, refused>>

-----------------------------------------------------------------------------
(* Commands, for the set S of torpedoes that a serial command names or an   *)
(* actuator id matches.  None of them is split: each acts only on torpedoes *)
(* that are not FIRING, whose timer is off (TimerOnlyInPulse).              *)

\* Mutant: arming does not look at the state.
armTorpedo_Always(S) ==
  /\ state' = [t \in Torpedo |-> IF t \in S THEN "ARMED" ELSE state[t]]
  /\ UNCHANGED <<launch, refused>>

armTorpedo(S) ==
  LET A == {t \in S : state[t] \in {"READY", "DISCHARGED"}} IN
  /\ state' = [t \in Torpedo |-> IF t \in A THEN "ARMED" ELSE state[t]]
  /\ UNCHANGED <<launch, refused>>

\* Mutant: disarming does not look at the state.
disarmTorpedo_Always(S) ==
  /\ state' = [t \in Torpedo |-> IF t \in S THEN "READY" ELSE state[t]]
  /\ UNCHANGED <<launch, refused>>

disarmTorpedo(S) ==
  /\ state' = [t \in Torpedo |->
                 IF t \in S /\ state[t] = "ARMED" THEN "READY" ELSE state[t]]
  /\ UNCHANGED <<launch, refused>>

\* Mutant: a request is accepted in any state.
requestLaunch_AnyState(S) ==
  LET A == {t \in S : ~pin[t]} IN
  /\ launch' = [t \in Torpedo |-> launch[t] \/ t \in A]
  /\ refused' = [t \in Torpedo |-> refused[t] /\ t \notin A]
  /\ UNCHANGED state

requestLaunch(S) ==
  LET A == {t \in S : ~pin[t] /\ state[t] = "ARMED"} IN
  /\ launch' = [t \in Torpedo |-> launch[t] \/ t \in A]
  /\ refused' = [t \in Torpedo |-> refused[t] /\ t \notin A]
  /\ UNCHANGED state

Command(S) == armTorpedo(S) \/ disarmTorpedo(S) \/ requestLaunch(S)

\* cmdPoll() runs every complete line in the serial buffer.
SerialCommand ==
  /\ pc = "serial"
  /\ \E t \in Torpedo : Command({t})
  /\ UNCHANGED <<pc, i, pin, timer, params>>

\* restoreparam, and the UAVCAN erase opcode.
resetConfig ==
  /\ pc \in {"serial", "spin"}
  /\ actId' = defaultId
  /\ pulse' = defaultPulse
  /\ UNCHANGED <<pc, i, state, launch, pin, timer, refused>>

SerialDone ==
  /\ pc = "serial"
  /\ pc' = "spin"
  /\ UNCHANGED <<i, state, launch, pin, timer, params, refused>>

\* One element of an actuator array command.  Two torpedoes configured with
\* the same id both obey it.
actuatorControlCallback ==
  /\ pc = "spin"
  /\ \E id \in ActuatorIds : Command({t \in Torpedo : actId[t] = id})
  /\ UNCHANGED <<pc, i, pin, timer, params>>

\* A parameter set request from the bus; no value is refused.
assignParamValue ==
  /\ pc = "spin"
  /\ \/ \E t \in Torpedo, id \in ActuatorIds : actId' = [actId EXCEPT ![t] = id]
        /\ UNCHANGED pulse
     \/ pulse' \in PulseValues /\ UNCHANGED actId
  /\ UNCHANGED <<pc, i, state, launch, pin, timer, refused>>

SpinDone ==
  /\ pc = "spin"
  /\ pc' = "indicator"
  /\ UNCHANGED <<i, state, launch, pin, timer, params, refused>>

-----------------------------------------------------------------------------
torpedoRoutine ==
  \/ Skip \/ StartFire \/ RaisePin \/ ClearLaunch \/ BeginTimer \/ MarkFiring
  \/ CheckPulseOver \/ cleanUpTorpedoTimer \/ RoutineDone

\* The steps by which loop() goes on when nothing is left to be read.
Advance == indicatorRoutine \/ torpedoRoutine \/ SerialDone \/ SpinDone

Inputs == SerialCommand \/ resetConfig \/ actuatorControlCallback
          \/ assignParamValue

Next == Advance \/ Inputs \/ Reset \/ \E t \in Torpedo : trpControl(t)

Spec == Init /\ [][Next]_vars

(***************************************************************************)
(* loop() is called for ever and each of cmdPoll() and spinOnce() returns  *)
(* once the bytes and frames it found are used up; the hardware timer      *)
(* interrupts as long as it is enabled.  Nothing is assumed of the inputs. *)
(***************************************************************************)
Fairness ==
  /\ WF_vars(Advance)
  /\ \A t \in Torpedo : WF_vars(trpControl(t))

FairSpec == Spec /\ Fairness
-----------------------------------------------------------------------------
(* Properties.                                                              *)

\* Torpedo t is in the middle of the ARMED case's writes, at one of the steps.
Mid(t, steps) == i = t /\ pc \in steps

\* Every variable stays in its type; DISCHARGED is never entered.
TypeOK ==
  /\ pc \in PC
  /\ i \in 0 .. N_TORPEDOES
  /\ pc \in FireSteps \cup {"cleanUp"} => i \in Torpedo
  /\ state \in [Torpedo -> torpedoState \ {"DISCHARGED"}]
  /\ launch \in [Torpedo -> BOOLEAN]
  /\ pin \in [Torpedo -> BOOLEAN]
  /\ timer \in [Torpedo -> BOOLEAN]
  /\ actId \in [Torpedo -> ActuatorIds]
  /\ pulse \in PulseValues
  /\ refused \in [Torpedo -> BOOLEAN]

\* A solenoid is energised only for a torpedo that is FIRING, or that the
\* loop is just about to mark so: never for one that is shown as safe, and
\* never for one that a disarm command could still turn to READY.
HighOnlyInPulse ==
  \A t \in Torpedo :
    pin[t] => state[t] = "FIRING" \/ Mid(t, {"clearLaunch", "begin", "mark"})

\* The periodic interrupt of a torpedo is enabled only during its pulse, so
\* that no late interrupt of one shot can reach the next arming.
TimerOnlyInPulse ==
  \A t \in Torpedo : timer[t] => state[t] = "FIRING" \/ Mid(t, {"mark"})

\* While the solenoid is energised no new request is pending: a request would
\* block the clean-up, which waits for launch to be false.
NoRequestInPulse ==
  \A t \in Torpedo :
    launch[t] => /\ state[t] # "FIRING"
                 /\ pin[t] => Mid(t, {"clearLaunch"})

\* An energised solenoid has its timer running as soon as fireTorpedo()
\* returned.
HighHasTimer ==
  \A t \in Torpedo : pin[t] => timer[t] \/ Mid(t, {"clearLaunch", "begin"})

\* Nothing refuses a TORPEDO_PULSE that begin() does not accept; these hold as
\* long as nobody sets one.
PulseUsable == [](pulse \in UsablePulses)

\* What lets a pulse end: the timer behind it is running.
TimerBehindPulse == PulseUsable => []HighHasTimer

\* An accepted fire request is consumed by raising the pin and by nothing
\* else: no interrupt of an earlier shot wipes it out.
RequestConsumedByFiring ==
  [][\A t \in Torpedo : launch[t] /\ ~launch'[t] => pin[t] \/ Reset]_vars

\* Each shot needs an arming of its own (TorpedoOneShot).
phase ==
  [t \in Torpedo |->
     CASE pin[t] -> "energised"
       [] ~pin[t] /\ state[t] = "ARMED" /\ ~Mid(t, {"mark"}) -> "unlocked"
       [] OTHER -> "locked"]

Shot == INSTANCE TorpedoOneShot WITH Torpedo <- Torpedo, phase <- phase
OneShot == Shot!Spec

\* ... and the solenoid is let go again: the fairness of TorpedoOneShot.
OneShotEnds == PulseUsable => Shot!Fairness

\* A pulse ends and the torpedo can be armed again.
FiringEnds ==
  PulseUsable => \A t \in Torpedo : state[t] = "FIRING" ~> state[t] = "READY"

\* A request accepted while ARMED raises the pin, unless the torpedo is
\* disarmed (or the board reset) first.
RequestServed ==
  \A t \in Torpedo :
    launch[t] /\ state[t] = "ARMED" ~> pin[t] \/ state[t] # "ARMED"

\* A request that a turn in READY reported as "Not ARMED. Unable to fire." fires
\* no torpedo: a pin rises only for a request that was not refused since.
RefusedNeverFires ==
  [][\A t \in Torpedo : ~pin[t] /\ pin'[t] => ~refused[t]]_vars

=============================================================================
