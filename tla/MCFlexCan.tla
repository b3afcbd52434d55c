----------------------------- MODULE MCFlexCan -----------------------------
(* Instance of FlexCan for TLC. *)
EXTENDS FlexCan
=============================================================================
