------------------------------ MODULE MCScanJobs ------------------------------
(* Instances of ScanJobs for TLC; the .cfg files choose sizes and faults. *)
EXTENDS ScanJobs

AllFaults == FaultKinds
=============================================================================
