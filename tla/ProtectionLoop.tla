--------------------------- MODULE ProtectionLoop ---------------------------
(***************************************************************************)
(* The background protection thread.  Every few seconds it takes a         *)
(* snapshot of processes and connections, queues the executables it sees   *)
(* for the first time, analyses a few of the queued ones, counts how often *)
(* a suspicious executable is seen connected, and publishes the snapshot   *)
(* for the pipe thread.  All of it but the published snapshot is private   *)
(* to the thread, so that one cycle is one action.                         *)
(***************************************************************************)
EXTENDS Naturals, Sequences, FiniteSets

CONSTANTS
  Pids, Images,  \* an image stands for an executable's identity
  Ports,         \* connections of a process, all to one external address
  None,
  Views,         \* the snapshots the collectors can take
  MaxPending,    \* 256 queued analyses
  PerCycle,      \* MAXIMUM_REALTIME_SCANS_PER_CYCLE
  BeaconRows,    \* 8 sightings of a connection
  MaxCount       \* u8::MAX

\* What a collector can see.  The two tables are read one after the other, so
\* a connection may belong to a process that is not in the snapshot.
Snapshot == [procs : [Pids -> Images \cup {None}], flows : SUBSET (Pids \X Ports)]

ASSUME LoopConstants ==
  /\ None \notin Images /\ Views \subseteq Snapshot
  /\ IsFiniteSet(Pids) /\ IsFiniteSet(Images) /\ IsFiniteSet(Ports)
  /\ Pids \cap (Pids \X Ports) = {}
  /\ MaxPending \in Nat \ {0} /\ PerCycle \in Nat \ {0}
  /\ BeaconRows \in 1..MaxCount /\ MaxCount \in Nat

Identities(s) == {s.procs[p] : p \in Pids} \ {None}

\* new: the identities the loop has flagged as new in the snapshot.
Published == [view : Views, new : SUBSET Images]

VARIABLES
  known, baselined,   \* known_identities
  pending,            \* identities waiting for their analysis
  suspicious,         \* suspicious_identities
  counts,             \* beacon_counts; the destination is always the same
  beacons,            \* reported_beacons
  shared,             \* the published snapshot
  first,              \* history: the identities of the first snapshot
  analysed, displaced,\* history: what became of the others
  streak              \* history: cycles in a row with a suspicious connection

loopVars == <<known, baselined, pending, suspicious, counts, beacons, shared,
              first, analysed, displaced, streak>>

LoopTypeOK ==
  /\ known \subseteq Images /\ baselined \in BOOLEAN
  /\ pending \in Seq(Images) /\ Len(pending) <= MaxPending
  /\ suspicious \subseteq analysed
  /\ counts \in [Images -> 0..MaxCount] /\ streak \in [Images -> 0..MaxCount]
  /\ beacons \subseteq suspicious
  /\ shared \in Published \cup {None}
  /\ first \subseteq known /\ analysed \subseteq known /\ displaced \subseteq known

LoopInit ==
  /\ known = {} /\ baselined = FALSE /\ pending = <<>> /\ suspicious = {}
  /\ counts = [i \in Images |-> 0] /\ beacons = {} /\ shared = None
  /\ first = {} /\ analysed = {} /\ displaced = {}
  /\ streak = [i \in Images |-> 0]

-----------------------------------------------------------------------------
Smaller(m, n) == IF m < n THEN m ELSE n
Elements(seq) == {seq[k] : k \in DOMAIN seq}
Orders(S) == {seq \in [1..Cardinality(S) -> S] : Elements(seq) = S}

\* is_new: from the second snapshot on, an identity's first observation.
NewIn(s) == IF baselined THEN Identities(s) \ known ELSE {}

\* Variant with a bug: the queue is shortened when it is merely full.
ShortenedEarly(queue) ==
  IF Len(queue) >= MaxPending
  THEN SubSeq(queue, Len(queue) - MaxPending + 2, Len(queue)) ELSE queue

\* pop_front until at most MaxPending are left.
Shortened(queue) ==
  IF Len(queue) > MaxPending
  THEN SubSeq(queue, Len(queue) - MaxPending + 1, Len(queue)) ELSE queue

\* The connections correlate_beacons counts, row by row, for an identity.
Rows(s, i) == {f \in s.flows : s.procs[f[1]] = i}

\* Variant with a bug: the counts of the cycles before are forgotten.
CountedAfresh(s, i) == Cardinality(Rows(s, i))

\* An identity without a row is no longer counted.
Counted(s, i) ==
  IF Rows(s, i) = {} THEN 0
  ELSE Smaller(counts[i] + Cardinality(Rows(s, i)), MaxCount)

\* One turn of run_protection_loop: order lists the new processes, in whatever
\* order the snapshot has them; convicted is what analyze_new_process says.
Cycle(s, order, convicted) ==
  /\ LET kept == Shortened(pending \o order)
         n == Smaller(PerCycle, Len(kept))
         taken == Elements(SubSeq(kept, 1, n))
         bad == suspicious \cup (taken \cap convicted)
     IN  /\ convicted \subseteq taken
         /\ pending' = SubSeq(kept, n + 1, Len(kept))
         /\ suspicious' = bad
         /\ counts' = [i \in Images |-> IF i \in bad THEN Counted(s, i) ELSE 0]
         /\ beacons' = beacons \cup {i \in bad : counts'[i] >= BeaconRows}
         /\ analysed' = analysed \cup taken
         /\ displaced' = displaced \cup
              (Elements(pending \o order) \ Elements(kept))
         /\ streak' = [i \in Images |->
              IF i \in bad /\ Rows(s, i) # {} THEN Smaller(streak[i] + 1, MaxCount) ELSE 0]
  /\ known' = known \cup Identities(s)
  /\ first' = IF baselined THEN first ELSE Identities(s)
  /\ baselined' = TRUE
  /\ shared' = [view |-> s, new |-> NewIn(s)]

-----------------------------------------------------------------------------
(* No new executable slips through (main.rs, run_protection_loop): every   *)
(* identity the thread has seen since its first snapshot is queued, has    *)
(* been analysed, or was pushed out of a full queue, and then at least as  *)
(* many others as the queue holds were queued after it.                    *)
NewIsAccounted ==
  /\ known \ first = Elements(pending) \cup analysed \cup displaced
  /\ displaced # {} => Cardinality(known \ first) > MaxPending

(* A lasting connection is found out (main.rs, correlate_beacons): when a  *)
(* suspicious executable has been connected for BeaconRows cycles in a     *)
(* row, however its connections came and went in between, it is reported.  *)
BeaconIsReported == \A i \in Images : streak[i] >= BeaconRows => i \in beacons
=============================================================================
