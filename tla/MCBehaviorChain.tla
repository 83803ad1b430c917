--------------------------- MODULE MCBehaviorChain ---------------------------
(* An instance of BehaviorChain for TLC. *)
EXTENDS BehaviorChain, TLC

ProcSymmetry == Permutations(Procs)
SignalsInstance == Event
=============================================================================
