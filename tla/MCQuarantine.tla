----------------------------- MODULE MCQuarantine -----------------------------
(* Instances of Quarantine for TLC; the .cfg files choose the faults. *)
EXTENDS Quarantine

NoFaults == {}
AllFaults == FaultKinds
=============================================================================
