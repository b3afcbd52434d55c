------------------------ MODULE MCTorpedoControl ------------------------
(* Instance of TorpedoControl for TLC: the board's two torpedoes. *)
EXTENDS TorpedoControl

CONSTANTS id0, id1   \* actuator ids

MCDefaultId == [t \in Torpedo |-> IF t = 0 THEN id0 ELSE id1]
=============================================================================
