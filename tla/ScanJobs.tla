------------------------------- MODULE ScanJobs -------------------------------
(***************************************************************************)
(* The scan job table and its worker threads.  Requests (start, cancel)    *)
(* run one at a time on the pipe thread; a worker per job runs beside      *)
(* them, sharing with the table only the cancellation flag and the status  *)
(* behind its lock.  A job stays in the table until pruning removes it,    *)
(* and pruning runs only when a scan is started on a full table.           *)
(***************************************************************************)
EXTENDS Naturals, FiniteSets

CONSTANTS
  Ids,          \* scan identifiers (UUIDs)
  MaxRetained,  \* jobs the table may hold (128 in the code)
  PruneBelow,   \* pruning stops below this many jobs (96 in the code)
  MaxFiles,     \* bound: files of one scan
  Faults        \* the failing calls this instance admits

FaultKinds == {"spawn", "db"}

ASSUME SizesAssumption ==
  /\ IsFiniteSet(Ids)
  /\ MaxRetained \in Nat \ {0}
  /\ PruneBelow \in 1..MaxRetained
  /\ MaxFiles \in Nat \ {0}
ASSUME FaultsAssumption == Faults \subseteq FaultKinds

VARIABLES
  held,       \* the ids in the table
  state,      \* ScanJobStatus.state
  cancelled,  \* ids whose cancellation flag is set
  worker,     \* where the worker of a job stands
  left,       \* targets it still has to visit
  total,      \* total_files
  scanned,    \* files_scanned
  late        \* history: findings recorded after the flag was set

vars == <<held, state, cancelled, worker, left, total, scanned, late>>
table == <<held, cancelled>>

Finished == {"completed", "failed", "cancelled"}
WorkerSteps == {"none", "collecting", "next", "scanning", "recording", "returned"}

TypeOK ==
  /\ held \subseteq Ids
  /\ state \in [Ids -> {"running"} \cup Finished]
  /\ cancelled \subseteq Ids
  /\ worker \in [Ids -> WorkerSteps]
  /\ left \in [Ids -> 0..MaxFiles]
  /\ total \in [Ids -> 0..MaxFiles]
  /\ scanned \in [Ids -> 0..MaxFiles]
  /\ late \in [Ids -> Nat]

Init ==
  /\ held = {}
  /\ state = [id \in Ids |-> "running"]
  /\ cancelled = {}
  /\ worker = [id \in Ids |-> "none"]
  /\ left = [id \in Ids |-> 0]
  /\ total = [id \in Ids |-> 0]
  /\ scanned = [id \in Ids |-> 0]
  /\ late = [id \in Ids |-> 0]

-----------------------------------------------------------------------------
(***************************************************************************)
(* Requests                                                                *)
(***************************************************************************)

\* Variant with a bug: jobs are pruned whatever their state.
PrunableAny == held

Prunable == {id \in held : state[id] \in Finished}

\* prune_finished_scans: on a full table, finished jobs are removed in map
\* order until fewer than PruneBelow jobs remain or none is finished.
Pruned(gone) ==
  IF Cardinality(held) < MaxRetained
    THEN gone = {}
    ELSE /\ gone \subseteq Prunable
         /\ \/ gone = Prunable /\ Cardinality(held \ gone) >= PruneBelow - 1
            \/ Cardinality(held \ gone) = PruneBelow - 1

\* The job is entered as running; then the client token is duplicated and the
\* worker spawned.  When either fails the error is returned and the entry
\* stays as it is.
StartScan(id, gone) ==
  /\ Pruned(gone)
  /\ Cardinality(held \ gone) < MaxRetained
  /\ id \notin held
  /\ held' = (held \ gone) \cup {id}
  /\ cancelled' = (cancelled \ gone) \ {id}
  /\ state' = [state EXCEPT ![id] = "running"]
  /\ \/ worker' = [worker EXCEPT ![id] = "collecting"]
     \/ "spawn" \in Faults /\ worker' = [worker EXCEPT ![id] = "none"]
  /\ left' = [left EXCEPT ![id] = 0]
  /\ total' = [total EXCEPT ![id] = 0]
  /\ scanned' = [scanned EXCEPT ![id] = 0]
  /\ late' = [late EXCEPT ![id] = 0]

\* Nothing could be pruned: Busy.
RefuseScan ==
  /\ Pruned({})
  /\ Cardinality(held) >= MaxRetained
  /\ UNCHANGED vars

CancelScan(id) ==
  /\ id \in held
  /\ cancelled' = cancelled \cup {id}
  /\ UNCHANGED <<held, state, worker, left, total, scanned, late>>

-----------------------------------------------------------------------------
(***************************************************************************)
(* The worker                                                              *)
(***************************************************************************)

Finish(id, outcome) ==
  /\ state' = [state EXCEPT ![id] = outcome]
  /\ worker' = [worker EXCEPT ![id] = "returned"]
  /\ UNCHANGED <<left, scanned, late>>

\* The walk fails, finds nothing, sees the flag between two entries, or
\* yields the targets.
CollectTargets(id) ==
  /\ worker[id] = "collecting"
  /\ \/ Finish(id, "failed") /\ UNCHANGED total
     \/ id \in cancelled /\ Finish(id, "cancelled") /\ UNCHANGED total
     \/ \E n \in 1..MaxFiles :
          /\ total' = [total EXCEPT ![id] = n]
          /\ left' = [left EXCEPT ![id] = n]
          /\ worker' = [worker EXCEPT ![id] = "next"]
          /\ UNCHANGED <<state, scanned, late>>
  /\ UNCHANGED table

\* Variant with a bug: the flag is left to scan_file.
NextTargetUnflagged(id) ==
  /\ worker[id] = "next" /\ left[id] > 0
  /\ left' = [left EXCEPT ![id] = @ - 1]
  /\ worker' = [worker EXCEPT ![id] = "scanning"]
  /\ UNCHANGED <<state, scanned, late, table, total>>

\* The head of the loop over the targets.
NextTarget(id) ==
  /\ worker[id] = "next" /\ left[id] > 0
  /\ \/ id \in cancelled /\ Finish(id, "cancelled")
     \/ /\ id \notin cancelled
        /\ left' = [left EXCEPT ![id] = @ - 1]
        /\ worker' = [worker EXCEPT ![id] = "scanning"]
        /\ UNCHANGED <<state, scanned, late>>
  /\ UNCHANGED <<table, total>>

\* Variant with a bug: only files that could be scanned are counted.
ScanTargetUncounted(id) ==
  /\ worker[id] = "scanning"
  /\ worker' \in {[worker EXCEPT ![id] = w] : w \in {"recording", "next"}}
  /\ UNCHANGED <<state, left, scanned, late, table, total>>

\* An excluded path or a scanned file goes on to be recorded; a file that
\* cannot be scanned is only counted; a failing policy lookup ends the job.
\* scan_file looks at the flag before every block it reads.
ScanTarget(id) ==
  /\ worker[id] = "scanning"
  /\ \/ /\ worker' = [worker EXCEPT ![id] = "recording"]
        /\ UNCHANGED <<state, left, scanned, late>>
     \/ id \in cancelled /\ Finish(id, "cancelled")
     \/ /\ scanned' = [scanned EXCEPT ![id] = @ + 1]
        /\ worker' = [worker EXCEPT ![id] = "next"]
        /\ UNCHANGED <<state, left, late>>
     \/ "db" \in Faults /\ Finish(id, "failed")
  /\ UNCHANGED <<table, total>>

RecordFinding(id) ==
  /\ worker[id] = "recording"
  /\ \/ /\ scanned' = [scanned EXCEPT ![id] = @ + 1]
        /\ late' = [late EXCEPT ![id] = IF id \in cancelled THEN @ + 1 ELSE @]
        /\ worker' = [worker EXCEPT ![id] = "next"]
        /\ UNCHANGED <<state, left>>
     \/ "db" \in Faults /\ Finish(id, "failed")
  /\ UNCHANGED <<table, total>>

\* Variant with a bug: a cancelled job is left to the head of the loop.
CompleteUncancelled(id) ==
  /\ worker[id] = "next" /\ left[id] = 0
  /\ id \notin cancelled
  /\ Finish(id, "completed")
  /\ UNCHANGED <<table, total>>

\* After the last target the job completes, cancelled meanwhile or not.
CompleteScan(id) ==
  /\ worker[id] = "next" /\ left[id] = 0
  /\ Finish(id, "completed")
  /\ UNCHANGED <<table, total>>

Worker(id) ==
  \/ CollectTargets(id) \/ NextTarget(id) \/ ScanTarget(id)
  \/ RecordFinding(id) \/ CompleteScan(id)

Next ==
  \/ \E id \in Ids : \/ \E gone \in SUBSET held : StartScan(id, gone)
                     \/ CancelScan(id)
                     \/ Worker(id)
  \/ RefuseScan

Spec == Init /\ [][Next]_vars

\* Every worker thread is scheduled; the client is not obliged to do anything.
Fairness == \A id \in Ids : WF_vars(Worker(id))
FairSpec == Spec /\ Fairness

-----------------------------------------------------------------------------
(***************************************************************************)
(* Properties                                                              *)
(***************************************************************************)

\* The table never outgrows its capacity, and a job leaves it only after its
\* worker returned: pruning never orphans a running scan.
TableBounded == Cardinality(held) <= MaxRetained
PrunedHaveReturned ==
  \A id \in Ids \ held : worker[id] \in {"none", "returned"}

\* The reported state and the thread agree: a job reads finished exactly when
\* its worker has returned, by whichever of its seven exits.
FinishedHasReturned ==
  \A id \in held : state[id] \in Finished <=> worker[id] = "returned"

\* A completed scan has accounted for every target it collected.
CompletedCoversAll ==
  \A id \in held : state[id] = "completed" => scanned[id] = total[id]

\* Once the flag is set at most the finding under way is still recorded.
CancelStopsRecording == \A id \in Ids : late[id] <= 1

\* A finished job keeps its outcome until it is pruned: no late worker step
\* turns a failure or a cancellation into a completed scan.
OutcomeIsFinal ==
  [][\A id \in held \cap held' : state[id] \in Finished => state'[id] = state[id]]_vars

\* Every scan whose worker was started ends, whether or not it is cancelled.
ScanEnds ==
  \A id \in Ids : worker[id] \notin {"none", "returned"} ~> worker[id] = "returned"

\* "Retry after completed jobs are pruned": a full table does not stay full
\* of running jobs (refuted by the code when workers cannot be started).
BusyIsTemporary == Cardinality(held) = MaxRetained ~> Prunable # {}

=============================================================================
