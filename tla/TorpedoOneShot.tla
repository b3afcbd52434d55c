-------------------------- MODULE TorpedoOneShot --------------------------
(***************************************************************************)
(* What the firing system promises about each solenoid, whatever loop()    *)
(* and the interrupts do in detail: it is energised only from the unlocked *)
(* phase, the pulse locks it again, and only an arming unlocks it.  "Tor-  *)
(* pedos are locked-out after firing and upon power-up until this function *)
(* [armTorpedo] is called" (torpedoControl.hpp:98).                        *)
(***************************************************************************)
CONSTANT Torpedo
VARIABLE phase

Phase == {"locked", "unlocked", "energised"}

AllLocked == [t \in Torpedo |-> "locked"]

\* Every torpedo of S that is in phase p goes to phase q.
Move(S, p, q) ==
  phase' = [t \in Torpedo |-> IF t \in S /\ phase[t] = p THEN q ELSE phase[t]]

Init == phase = AllLocked

Arm(S)    == Move(S, "locked", "unlocked")
Disarm(S) == Move(S, "unlocked", "locked")
Fire(t)   == phase[t] = "unlocked" /\ Move({t}, "unlocked", "energised")
Release(t) == phase[t] = "energised" /\ Move({t}, "energised", "locked")
Reset     == phase' = AllLocked

Next ==
  \/ \E S \in SUBSET Torpedo : Arm(S) \/ Disarm(S)
  \/ \E t \in Torpedo : Fire(t) \/ Release(t)
  \/ Reset

Spec == Init /\ [][Next]_phase

\* A pulse ends.
Fairness == \A t \in Torpedo : WF_phase(Release(t))
FairSpec == Spec /\ Fairness
=============================================================================
