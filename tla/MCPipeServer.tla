----------------------------- MODULE MCPipeServer -----------------------------
(* Instances of PipeServer for TLC; the .cfg files choose callers and faults. *)
EXTENDS PipeServer

NoFaults == {}
AllFaults == PipeFaultKinds
=============================================================================
