--------------------------- MODULE Workers_proofs ---------------------------
(***************************************************************************)
(* What holds of the threads beside the service thread: of the scan        *)
(* workers and their table (ScanJobs), for every capacity, number of files *)
(* and set of failing calls, and of temporary blocks and their expiry      *)
(* threads (FirewallResponse), for every set of blocks, every choice of    *)
(* failing calls and any number of crashes.                                *)
(***************************************************************************)
EXTENDS ScanJobs, FirewallResponse, FiniteSetTheorems, TLAPS

USE SizesAssumption

\* The target a worker holds in hand, between the head of the loop and the
\* count of the target.
InHand(id) == IF worker[id] \in {"scanning", "recording"} THEN 1 ELSE 0

\* Why the state invariants hold of one job.
JobInv(id) ==
  /\ id \notin held => worker[id] \in {"none", "returned"}
  /\ worker[id] \notin {"none", "returned"} => state[id] = "running"
  /\ worker[id] = "returned" => state[id] \in Finished
  /\ worker[id] = "none" => state[id] = "running"
  /\ worker[id] = "collecting" => left[id] = 0 /\ scanned[id] = 0 /\ late[id] = 0
  /\ worker[id] \in {"next", "scanning", "recording"}
       => scanned[id] + left[id] + InHand(id) = total[id]
  /\ state[id] = "completed" => scanned[id] = total[id]
  /\ late[id] <= 1
  /\ worker[id] \in {"next", "scanning", "recording"} /\ late[id] = 1
       => id \in cancelled /\ worker[id] = "next"

JobsInv == \A id \in Ids : JobInv(id)

IInv == TypeOK /\ JobsInv

LEMMA InitInv == Init => IInv
  BY DEF Init, IInv, TypeOK, JobsInv, JobInv, InHand, WorkerSteps, Finished

\* Steps of one worker, and of requests, keep types and every job's facts.
LEMMA StepInv == IInv /\ [Next]_vars => IInv'
<1> SUFFICES ASSUME IInv, [Next]_vars PROVE IInv'
  OBVIOUS
<1> USE DEF IInv, TypeOK, JobsInv, JobInv, InHand, WorkerSteps, Finished, table
<1>1. ASSUME NEW s \in Ids, NEW gone \in SUBSET held, StartScan(s, gone) PROVE IInv'
  <2>1. TypeOK'
    BY <1>1 DEF StartScan
  <2>2. gone \subseteq Prunable
    BY <1>1 DEF StartScan, Pruned
  <2>3. JobInv(s)'
    BY <1>1 DEF StartScan
  <2>4. ASSUME NEW id \in Ids \ {s} PROVE JobInv(id)'
    BY <1>1, <2>2 DEF StartScan, Prunable
  <2>5. QED
    BY <2>1, <2>3, <2>4
<1>2. ASSUME NEW s \in Ids, CancelScan(s) PROVE IInv'
  BY <1>2 DEF CancelScan
<1>3. ASSUME NEW s \in Ids, CollectTargets(s) PROVE IInv'
  BY <1>3 DEF CollectTargets, Finish
<1>4. ASSUME NEW s \in Ids, NextTarget(s) PROVE IInv'
  BY <1>4 DEF NextTarget, Finish
<1>5. ASSUME NEW s \in Ids, ScanTarget(s) PROVE IInv'
  BY <1>5 DEF ScanTarget, Finish
<1>6. ASSUME NEW s \in Ids, RecordFinding(s) PROVE IInv'
  BY <1>6 DEF RecordFinding, Finish
<1>7. ASSUME NEW s \in Ids, CompleteScan(s) PROVE IInv'
  BY <1>7 DEF CompleteScan, Finish
<1>8. CASE UNCHANGED vars
  BY <1>8 DEF vars
<1>9. QED
  BY <1>1, <1>2, <1>3, <1>4, <1>5, <1>6, <1>7, <1>8 DEF Next, Worker, RefuseScan

LEMMA Invariance == Spec => []IInv
  BY InitInv, StepInv, PTL DEF Spec

\* The variables keep their types: no file is counted twice or beyond total.
THEOREM ScanTypeCorrect == Spec => []TypeOK
  BY Invariance, PTL DEF IInv

\* Pruning never orphans a running scan.
THEOREM PrunedHaveReturnedHolds == Spec => []PrunedHaveReturned
<1>1. IInv => PrunedHaveReturned
  BY DEF IInv, JobsInv, JobInv, PrunedHaveReturned
<1>2. QED
  BY Invariance, <1>1, PTL

\* A completed scan accounted for every target.
THEOREM CompletedCoversAllHolds == Spec => []CompletedCoversAll
<1>1. IInv => CompletedCoversAll
  BY DEF IInv, TypeOK, JobsInv, JobInv, CompletedCoversAll
<1>2. QED
  BY Invariance, <1>1, PTL

\* At most one finding is recorded after a cancellation.
THEOREM CancelStopsRecordingHolds == Spec => []CancelStopsRecording
<1>1. IInv => CancelStopsRecording
  BY DEF IInv, JobsInv, JobInv, CancelStopsRecording
<1>2. QED
  BY Invariance, <1>1, PTL

\* The outcome of a finished job never changes while it is in the table.
THEOREM OutcomeIsFinalHolds == Spec => OutcomeIsFinal
<1> DEFINE A == \A id \in held \cap held' : state[id] \in Finished => state'[id] = state[id]
<1>1. ASSUME IInv, [Next]_vars PROVE A
  <2> SUFFICES ASSUME NEW id \in held \cap held', state[id] \in Finished
               PROVE  state'[id] = state[id]
    OBVIOUS
  <2> USE <1>1 DEF IInv, TypeOK, JobsInv, JobInv, Finished, table
  <2>1. ASSUME NEW s \in Ids, NEW gone \in SUBSET held, StartScan(s, gone)
        PROVE  state'[id] = state[id]
    BY <2>1 DEF StartScan
  <2>2. ASSUME NEW s \in Ids, Worker(s) PROVE state'[id] = state[id]
    BY <2>2 DEF Worker, CollectTargets, NextTarget, ScanTarget, RecordFinding,
         CompleteScan, Finish
  <2>3. QED
    BY <2>1, <2>2 DEF Next, CancelScan, RefuseScan, vars
<1>2. IInv /\ [Next]_vars => [A]_vars
  BY <1>1
<1>3. QED
  BY Invariance, <1>2, PTL DEF Spec, OutcomeIsFinal

\* The table never outgrows its capacity.
THEOREM TableBoundedHolds == Spec => []TableBounded
<1>1. Init => TableBounded
  BY FS_EmptySet DEF Init, TableBounded
<1>2. ASSUME TypeOK, TableBounded, [Next]_vars PROVE TableBounded'
  <2>1. ASSUME NEW s \in Ids, NEW gone \in SUBSET held, StartScan(s, gone)
        PROVE  TableBounded'
    <3>1. IsFiniteSet(held \ gone)
      BY <1>2, FS_Subset DEF TypeOK
    <3>2. Cardinality(held \ gone) < MaxRetained /\ held' = (held \ gone) \cup {s}
      BY <2>1 DEF StartScan
    <3>3. Cardinality(held \ gone) \in Nat
      BY <3>1, FS_CardinalityType
    <3>4. Cardinality((held \ gone) \cup {s}) <= Cardinality(held \ gone) + 1
      <4>1. Cardinality((held \ gone) \cup {s})
              = IF s \in held \ gone THEN Cardinality(held \ gone)
                                     ELSE Cardinality(held \ gone) + 1
        BY <3>1, FS_AddElement
      <4>2. QED
        BY <4>1, <3>3
    <3>5. Cardinality(held') <= MaxRetained
      <4>1. Cardinality(held') \in Nat
        BY <3>1, <3>2, FS_AddElement, FS_CardinalityType
      <4>2. QED
        BY <4>1, <3>2, <3>3, <3>4
    <3>6. QED
      BY <3>5 DEF TableBounded
  <2>2. ASSUME held' = held PROVE TableBounded'
    BY <2>2, <1>2 DEF TableBounded
  <2>3. QED
    BY <1>2, <2>1, <2>2
       DEF Next, CancelScan, RefuseScan, Worker, CollectTargets, NextTarget, ScanTarget,
           RecordFinding, CompleteScan, table, vars
<1>3. TypeOK /\ TableBounded /\ [Next]_vars => TableBounded'
  BY <1>2
<1>4. QED
  BY ScanTypeCorrect, <1>1, <1>3, PTL DEF Spec

\* A job reads finished exactly when its worker has returned.
THEOREM FinishedHasReturnedHolds == Spec => []FinishedHasReturned
<1>1. IInv => FinishedHasReturned
  BY DEF IInv, TypeOK, JobsInv, JobInv, FinishedHasReturned, Finished, WorkerSteps
<1>2. QED
  BY Invariance, <1>1, PTL

-----------------------------------------------------------------------------
(***************************************************************************)
(* Temporary blocks                                                        *)
(***************************************************************************)
USE MaxCrashesAssumption

\* Where a handler or an expiry thread stands, the rule and the row of its
\* block are known.
StandsInv ==
  \A id \in BlockIds :
    /\ api[id] = "added" => row[id] = "none" /\ id \in rule
    /\ api[id] \in {"unblocking", "unblocked"} => row[id] # "none"
    /\ api[id] = "unblocked" => id \notin rule
    /\ timer[id] # "none" => row[id] # "none"
    /\ timer[id] \in {"active", "removed"} => id \in due
    /\ timer[id] = "removed" => id \notin rule
    /\ ~up => api[id] = "idle" /\ timer[id] = "none"

BlockInv == BlockTypeOK /\ StandsInv /\ RestoredMeansGone /\ RowFollowsRule

LEMMA BlockInitInv == BlockInit => BlockInv
  BY DEF BlockInit, BlockInv, BlockTypeOK, StandsInv, RestoredMeansGone,
         RowFollowsRule, ApiSteps, TimerSteps

\* Every step of a response, an expiry thread, time, a crash and a restart.
LEMMA BlockStepInv == BlockInv /\ [BlockNext]_blockVars => BlockInv'
<1> SUFFICES ASSUME BlockInv, [BlockNext]_blockVars PROVE BlockInv'
  OBVIOUS
<1> USE DEF BlockInv, BlockTypeOK, StandsInv, RestoredMeansGone,
            RowFollowsRule, ApiSteps, TimerSteps
<1>1. ASSUME NEW id \in BlockIds, AddRule(id) PROVE BlockInv'
  BY <1>1 DEF AddRule, ApiIdle
<1>2. ASSUME NEW id \in BlockIds, LookupUnblock(id) PROVE BlockInv'
  BY <1>2 DEF LookupUnblock, ApiIdle
<1>3. ASSUME NEW id \in BlockIds, Response(id) PROVE BlockInv'
  <2>1. CASE RecordBlock(id) \/ RecordBlockFails(id)
    BY <2>1 DEF RecordBlock, RecordBlockFails
  <2>2. CASE RemoveUnblock(id)
    BY <2>2 DEF RemoveUnblock, CanRemove
  <2>3. CASE MarkUnblock(id)
    BY <2>3 DEF MarkUnblock, MarkRestored
  <2>4. QED
    BY <1>3, <2>1, <2>2, <2>3 DEF Response
<1>4. ASSUME NEW id \in BlockIds, Expiry(id) PROVE BlockInv'
  <2>1. CASE WakeTimer(id)
    BY <2>1 DEF WakeTimer
  <2>2. CASE RemoveExpired(id)
    BY <2>2 DEF RemoveExpired, CanRemove
  <2>3. CASE MarkExpired(id)
    BY <2>3 DEF MarkExpired, MarkRestored
  <2>4. QED
    BY <1>4, <2>1, <2>2, <2>3 DEF Expiry
<1>5. ASSUME NEW id \in BlockIds, Elapse(id) PROVE BlockInv'
  BY <1>5 DEF Elapse
<1>6. CASE Crash
  <2>1. \A id \in BlockIds : api'[id] = "idle" /\ timer'[id] = "none"
    BY <1>6 DEF Crash
  <2>2. BlockTypeOK'
    <3>1. crashes' \in 0..MaxCrashes
      BY <1>6 DEF Crash
    <3>2. api' \in [BlockIds -> ApiSteps] /\ timer' \in [BlockIds -> TimerSteps]
      BY <1>6 DEF Crash
    <3>3. QED
      BY <1>6, <3>1, <3>2 DEF Crash
  <2>3. StandsInv'
    BY <1>6, <2>1 DEF Crash
  <2>4. RestoredMeansGone'
    BY <1>6 DEF Crash
  <2>5. RowFollowsRule'
    BY <1>6 DEF Crash
  <2>6. QED
    BY <2>2, <2>3, <2>4, <2>5
<1>7. CASE Restart
  <2>1. PICK lost \in SUBSET BlockIds :
          /\ timer' = [id \in BlockIds |-> IF row[id] = "active" /\ id \notin lost
                                           THEN "sleeping" ELSE "none"]
          /\ unkept' = lost
    BY <1>7 DEF Restart
  <2>2. \A id \in BlockIds : \/ timer'[id] = "none"
                          \/ (timer'[id] = "sleeping" /\ row[id] = "active")
    BY <2>1
  <2>3. timer' \in [BlockIds -> TimerSteps]
    BY <2>1
  <2>4. UNCHANGED <<rule, row, due, api, crashes, unclosed>> /\ up' = TRUE
    BY <1>7 DEF Restart
  <2>5. BlockTypeOK'
    BY <2>1, <2>3, <2>4
  <2>6. StandsInv'
    BY <2>2, <2>4
  <2>7. RestoredMeansGone' /\ RowFollowsRule'
    <3>1. \A id \in BlockIds : api[id] = "idle" /\ timer[id] = "none"
      BY <1>7 DEF Restart
    <3>2. QED
      BY <2>4, <3>1
  <2>8. QED
    BY <2>5, <2>6, <2>7
<1>8. CASE UNCHANGED blockVars
  BY <1>8 DEF blockVars
<1>9. QED
  BY <1>1, <1>2, <1>3, <1>4, <1>5, <1>6, <1>7, <1>8 DEF BlockNext, RejectUnblock

LEMMA BlockInvariance == BlockSpec => []BlockInv
  BY BlockInitInv, BlockStepInv, PTL DEF BlockSpec

\* The variables keep their types.
THEOREM BlockTypeCorrect == BlockSpec => []BlockTypeOK
  BY BlockInvariance, PTL DEF BlockInv

\* A row says "restored" only of a block whose rule is gone, whichever of the
\* racing threads wrote it and whatever failed before.
THEOREM RestoredMeansGoneHolds == BlockSpec => []RestoredMeansGone
  BY BlockInvariance, PTL DEF BlockInv

\* Nothing but the deadline or an unblock under way lifts a block.
THEOREM NoEarlyLiftHolds == BlockSpec => NoEarlyLift
<1> DEFINE A == \A id \in rule \ rule' : id \in due \/ api[id] = "unblocking"
<1>1. ASSUME BlockInv, [BlockNext]_blockVars PROVE A
  <2> SUFFICES ASSUME NEW b \in rule, b \notin rule'
               PROVE  b \in due \/ api[b] = "unblocking"
    OBVIOUS
  <2> USE <1>1 DEF BlockInv, BlockTypeOK, StandsInv
  <2>1. ASSUME NEW id \in BlockIds, RemoveUnblock(id)
        PROVE  b \in due \/ api[b] = "unblocking"
    BY <2>1 DEF RemoveUnblock
  <2>2. ASSUME NEW id \in BlockIds, RemoveExpired(id) PROVE b \in due
    BY <2>2 DEF RemoveExpired
  <2>3. ASSUME NEW id \in BlockIds, AddRule(id) PROVE FALSE
    BY <2>3 DEF AddRule
  <2>4. ASSUME rule' = rule PROVE FALSE
    BY <2>4
  <2>5. QED
    BY <2>1, <2>2, <2>3, <2>4
       DEF BlockNext, Response, Expiry, RecordBlock,
           RecordBlockFails, MarkUnblock, LookupUnblock,
           RejectUnblock, WakeTimer, MarkExpired, Elapse,
           Crash, Restart, blockVars
<1>2. BlockInv /\ [BlockNext]_blockVars => [A]_blockVars
  BY <1>1
<1>3. QED
  BY BlockInvariance, <1>2, PTL DEF BlockSpec, NoEarlyLift

\* Rule and row agree at rest, or the removal that parted them was cut off.
THEOREM RowFollowsRuleHolds == BlockSpec => []RowFollowsRule
  BY BlockInvariance, PTL DEF BlockInv

\* Every recorded block in force has a live expiry thread while the service
\* runs, through any number of crashes and restarts, unless that thread itself
\* failed or could not be started.
THEOREM BlockHasKeeperHolds == BlockSpec => []BlockHasKeeper
<1>1. BlockInit => BlockHasKeeper
  BY DEF BlockInit, BlockHasKeeper
<1>2. ASSUME BlockInv, BlockHasKeeper, [BlockNext]_blockVars
      PROVE  BlockHasKeeper'
  <2> USE <1>2 DEF BlockInv, BlockTypeOK, StandsInv, BlockHasKeeper
  <2>1. ASSUME NEW id \in BlockIds, AddRule(id) PROVE BlockHasKeeper'
    BY <2>1 DEF AddRule
  <2>2. ASSUME NEW id \in BlockIds, Response(id) PROVE BlockHasKeeper'
    BY <2>2 DEF Response, RecordBlock, RecordBlockFails,
                RemoveUnblock, MarkUnblock, MarkRestored
  <2>3. ASSUME NEW id \in BlockIds, Expiry(id) PROVE BlockHasKeeper'
    BY <2>3 DEF Expiry, WakeTimer, RemoveExpired, MarkExpired,
                MarkRestored, CanRemove, RemovalMayFail
  <2>4. CASE Restart
    BY <2>4 DEF Restart
  <2>5. CASE Crash
    BY <2>5 DEF Crash
  <2>6. ASSUME UNCHANGED <<rule, row, timer, up, unkept>> PROVE BlockHasKeeper'
    BY <2>6
  <2>7. QED
    BY <2>1, <2>2, <2>3, <2>4, <2>5, <2>6
       DEF BlockNext, LookupUnblock, RejectUnblock, Elapse, blockVars
<1>3. BlockInv /\ BlockHasKeeper /\ [BlockNext]_blockVars => BlockHasKeeper'
  BY <1>2
<1>4. QED
  BY BlockInvariance, <1>1, <1>3, PTL DEF BlockSpec

=============================================================================
