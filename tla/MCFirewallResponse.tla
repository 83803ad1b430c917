-------------------------- MODULE MCFirewallResponse --------------------------
(* Instances of FirewallResponse for TLC; the .cfg files choose the faults. *)
EXTENDS FirewallResponse

AllFaults == BlockFaultKinds
=============================================================================
