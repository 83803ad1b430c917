------------------------- MODULE MCContentActivation -------------------------
(* Instances of ContentActivation for TLC. *)
EXTENDS ContentActivation

AllFaults == FaultKinds
=============================================================================
