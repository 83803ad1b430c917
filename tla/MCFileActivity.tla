---------------------------- MODULE MCFileActivity ----------------------------
(* An instance of FileActivity for TLC. *)
EXTENDS FileActivity

AllFaults == FaultKinds

\* Scan threads differ in nothing but their names.
ThreadSymmetry == Permutations(Threads)

\* Bound: notifications lost, threads not started and timeline entries not
\* written, at a time.
MaxFailures == 2
FewFailures ==
  dropped + leaked + Cardinality({p \in Paths : lost[p] = "unwritten"}) <= MaxFailures
=============================================================================
