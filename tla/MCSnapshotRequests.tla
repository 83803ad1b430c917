------------------------- MODULE MCSnapshotRequests -------------------------
(* An instance of SnapshotRequests, and through it of ProtectionLoop. *)
EXTENDS SnapshotRequests, TLC

\* Connections belong to processes of the snapshot, two of them to one image.
ViewsInstance == {s \in Snapshot : /\ \A f \in s.flows : s.procs[f[1]] # None
                                   /\ \A f, g \in s.flows : s.procs[f[1]] = s.procs[g[1]]}
Symmetries == Permutations(Pids) \cup Permutations(Images)
=============================================================================
