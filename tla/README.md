# A verification project for the OpenGuard native service

OpenGuard is a local-first Windows security tool: a Rust service that watches
processes, files, the network and startup entries, scans files on request,
quarantines what its user asks it to, and carries out user-confirmed responses.
A WinUI application and two command-line programs are its clients.

This directory holds TLA+ models of the service, configurations that check them
with TLC on small instances, and proofs, checked by TLAPS, that carry the main
results over to every instance. Line references are to the files under `src/`;
`main.rs` is `crates/openguard-service/src/main.rs`.

Contents: [inventory](#inventory), [modules](#modules-and-how-they-follow-the-code),
[runs](#runs), [proofs](#proofs), [divergences](#where-the-code-and-its-documents-part),
[what is not modelled](#what-is-not-modelled), [plan](#plan).

## Inventory

### Threads and shared state

| thread | started by | shares |
| --- | --- | --- |
| service thread: creates the state, serves one pipe connection after the other, runs every request handler | service manager | owns `ServiceState` |
| stop handler and its wake-up thread | service manager | the stop flag, the pipe |
| protection loop | `ProtectionMonitor::start` | a command channel, the last snapshot, the database |
| one worker per scan job | `start_scan` | the job's flag and status, the database |
| one expiry thread per firewall block | `schedule_firewall_expiry` | the database, Windows Firewall |
| up to two real-time scans | `schedule_realtime_scan` | a slot counter, the database |
| file watchers, Sysmon, event-log and ETW readers | their monitors | bounded channels and drop counters |

Handlers never run side by side: `serve_connection` reads, handles and answers
one request before the next pipe instance is created. What runs beside a handler
is the list above, the client's own programs, and the end of the process.
Persistent are the SQLite database (every `Database` method opens a connection
and is one statement or one transaction), the quarantine directory, the content
version directories, and the firewall rules and startup entries of Windows.

### Components

| component | state | operations | hard behaviour | what makes it correct |
| --- | --- | --- | --- | --- |
| quarantine vault | containers, `quarantines` rows, client files | quarantine, restore, list | the client edits files under the handler; crash or failure between file and row | nothing removed is lost; nothing leaks; only verified bytes count as restored; nothing is overwritten |
| firewall blocks | rules, `response_rollbacks` rows, sleeping threads | block, unblock, expire, recover at start | no transaction spans rule and row; unblock races expiry; crash between the two writes | no early lift, no forgotten block, no row that lies |
| scan jobs | job table, flags, statuses | start, cancel, status, prune | cancellation at any point; a bounded table of jobs in every state | bounded, honest final outcomes, running jobs are never pruned |
| pipe server, lifecycle | one pipe instance, stop flag | accept, read, handle, reply; stop | waits without timeouts; one-shot wake-up | everybody is answered or refused; stop stops |
| content activation | version directories, two metadata rows, the memory of two threads | install, rollback, start-up load | failure between commit and hand-over; fallback when a version no longer loads | memory and record agree; rollback leads back |
| startup responses | startup entries, inventory table, cache, rollback rows | inventory, disable, restore | the entry changes before its rollback is recorded; stale inventory | what was disabled can be restored to what it was |
| protection loop | known identities, pending queue, beacon counters | one cycle every three seconds | bounded queue, lost bursts, counters that forget | every new process is analysed or pushed out of a full queue; lasting flows are found |
| behaviour chains | signals per process, cooldowns | ingest, prune, evict | windows, cooldown, eviction order | evidence within one window, none missed, one alert per rule and hour |
| file activity | channel, drop counter, baseline, two slots | drain, reconcile, scan | overflow, reconciliation, slot accounting | every lasting change is reported once; slots come back |
| executable baselines | known identities per user, in memory and in the database | snapshot | memory ahead of the database; restart | new means never seen |
| event and timeline store | tables | record, query, prune | cursors while rows come and go | owner scoping, bounded size, newest kept |
| snapshot requests | last snapshot's processes and flows, reported keys | snapshot | process ids reused, best-effort timeline writes | the timeline replays to the machine |
| event sources (Sysmon, event log, ETW) | bounded channels, counters | callback, drain | overflow on a foreign thread | nothing disappears uncounted |
| detection | none | scan, score, classify | the file is replaced between scan and signature check; saturation, thresholds | capped, explained by its reasons, malware stays malware |
| policy rows, process control, integrity check | see `PROJECT.json` | | | |
| application, command-line tools, AMSI provider, installer | | clients and tooling | | |

`PROJECT.json` lists every component with its files, and every hazard at the line
where it bites, with the properties that would catch it going wrong.

## Modules and how they follow the code

Each component is a module with one action per step of its code; a step is a
stretch between two points where another thread, another program, a failure or a
crash can intervene, so it holds at most one file operation, one statement or
one call into Windows. Operators whose comment starts with "Variant with a bug"
are not part of any specification: they are the mutations the properties were
tested against.

Most modules have a constant `Faults` (`PipeFaults`, `BlockFaults`), the set of
failures an instance admits; `SnapshotRequests` bounds their number instead.
History variables (named as such where they are declared) record what the state
itself forgets; no guard reads them except the bounds.

### `QuarantineVault`, `Quarantine`

`QuarantineVault` says what a vault promises: a slot per identifier, empty, held,
damaged by the disk, or released; a held content changes only by damage, and a
slot is released once.

`Quarantine` is the code. `files` is what the client's paths hold, `payload` the
containers, `record` the rows, `pc` and `job` the handler under way with its
locals. A content is a model value, equal exactly when its SHA-256 is. Quarantine
is `Verify` (rescan as the client), `CreatePayload`, `CopyPayload` (which copies
what the path holds *by then*), `RecordQuarantine`, `RemoveOriginal` (by path),
with `CreateFails`, `CopyFails`, `RecordFails`, `RemoveFails` and the clean-up they
lead to, `UndoRecord` and `DiscardPayload`. Restore is `OpenRestore` (`create_new`),
`CopyBack`, `CheckRestored`, `MarkRestored`, `RemovePayload`, with `CopyBackFails`
and `MarkFails`. Clean-up results the code ignores (`let _ =`) may fail here too.
`ClientWrites` is the rest of the user's session, `Decay` the disk, `Crash` the
end of the process (service restarts find what is on disk; nothing is recovered,
because the code recovers nothing).

`ImplementsVault` maps an identifier to "held" from `RemoveOriginal` on, to
"damaged" after `Decay`, to "released" by `MarkRestored`. A container on its own,
or a row on its own, is not yet custody.

### `FirewallResponse`

`rule` is Windows Firewall, `row` the table, `due` the ids whose `expires_at` has
passed, `api` and `timer` the response under way and the expiry threads.
`AddRule`, `RecordBlock` follow `BlockRemoteAddress` (rule first, then row, then
thread); `LookupUnblock`, `RemoveUnblock`, `MarkUnblock` the unblock; `WakeTimer`,
`RemoveExpired`, `MarkExpired` the thread. netsh fails on a rule that is not there,
so two racing removals cannot both succeed. `Crash` kills handler and threads,
`Restart` is `recover_temporary_firewall_rules`. `unkept` and `unclosed` name the
ids whose thread or whose final update failed: the properties speak of all others.

### `ScanJobs`

`held` is `scan_jobs`, `state` the shared status, `cancelled` the flags, `worker`,
`left`, `total`, `scanned` the worker threads. `StartScan` prunes as the code
does, in any map order, down to `PruneBelow - 1` (96 and 128 in the code are
constants here), and enters the job before the worker exists. The worker's loop is
`CollectTargets`, `NextTarget`, `ScanTarget`, `RecordFinding`, `CompleteScan`, each
with its failing exits. Identifiers are reused once pruned and returned; in the
code each is a fresh UUID, so a reused one stands for a new job.

### `PipeServer`

`server` is where the service thread stands in `run_windows_service`,
`run_pipe_loop` and `serve_connection`; `peer` and `frame` are the one pipe
instance, `at` the callers, the wake-up thread (`Waker`) among them. A client may
connect, stay silent for ever, hang up, or linger on an old instance, which can
make `CreateNamedPipeW` with `FILE_FLAG_FIRST_PIPE_INSTANCE` fail for the next one.
`Restart` is a new process. What an open, a close and a pipe instance mean is
Windows' and modelled from how the code uses it: an instance lives until both ends
are closed; opening without a free instance fails at once.

### `ContentActivation`

`disk` has the version directories, `active` and `previous` the metadata rows,
`running` the service's memory, `queue` and `shield` the command channel and the
protection thread. `Install` covers the whole of `install_official` (staging and
rename are invisible until the rename), `Rollback` its counterpart, `Load` the
compilation of rules and feed, `Commit` the transaction, `Publish` the message and
the assignments. `Start` is `create_state` with its fallback to the bundled
content. `LoseVersion` damages a directory.

### `StartupResponse`

`machine` is what Windows has, `row` the `persistence_items` table, `cache` the
inventory kept per user, `rollbacks` the records. An inventory is read source by
source (`CollectServices`, `CollectTasksAndWmi`), each of which may be unavailable,
and taken in by `Sync`: rows and timeline events in one transaction, then the
cache. Disable is `TurnOff` (whatever the entry's state is by then),
`RecordDisable` with the state *the table* has, `AuditDisable`, after which the
client knows the rollback identifier; restore is `TurnOn` by the recorded state's
name, then `MarkRestored`. Every step has its failing exit; `Change` is everybody
else, `Crash` the end of the process. A disabled service disappears from the next
inventory, a disabled task stays listed. `Reports` are entries the service only
reports; several of them share one `stable_id`, so the last one in inventory order
owns the row (`Kept`).

### `ProtectionLoop`, `SnapshotRequests`

`ProtectionLoop` is one turn of `run_protection_loop` as one action (its state is
private to the thread): new identities are queued in snapshot order, the queue
loses its oldest entries above the limit, a few are analysed, flows of suspicious
identities are counted row by row, and the snapshot is published.
`SnapshotRequests` composes it with the pipe thread's `collect_snapshot`: it takes
the published snapshot or makes its own, `RecordTransitions` writes the
differences to the timeline, each write on its own and best effort, and
`apply_executable_baseline` has five ways out (`ServeKnown`, `ServeUnread`,
`ServeUnwritten`, `ServeUnmarked`, `ServeFirst`) according to which database call
fails and whether the baseline is in memory. `Alert` enters the key before it
stores the event. An image stands for an executable's identity; ids are reused.

### `EventMonitors`, `BehaviorChain`

`EventMonitors` has the three bounded channels with the counters their coverage
notes print. `BehaviorChain` extends it with the protection thread's engine:
`BeginCycle` drains and prunes, `Ingest` is one turn of `ingest_at`'s loop, `Evict`
one turn of `enforce_capacity`. All signals of a batch carry the time of the drain,
as in the code. The pipe thread drains ETW (`DrainEtw`). A delivery is one step: the
callback counts an event before it renders and sends it, so a coverage note may for a
moment count one that is neither in the channel nor lost.

### `FileActivity`

`disk` is the folders, `queue` the watcher's channel, `stage` and `collected` the
baseline thread, `early` the events kept until its result arrives. A file is its edit
count and its fingerprint. The fingerprint stands for `FileFingerprint`, the length and
the second of the last write, so an edit is free to leave it as it was; the code's
comparisons (`Changed`, `Missing`) look at fingerprints only. `Listing` is what one
`enumerate` returns: not more than `MaxListed` files, and not those it cannot read.
An enumeration, and a drain with it, is one step; in the code files may change while
it runs, which here is a change before or after it.

A drain is one of three actions, as in the code: `DrainReconciling`, `DrainUpdating`,
`DrainEarly`. `Report` handles one drained event: a key of path, action and second
seen before is passed over, the timeline entry may fail, a candidate is given to
`Schedule`, which returns early for what is no readable file of moderate size, without
a slot, or, its slot lost, without a thread. `ReadFile`, `ScanFails` and `FinishScan`
are the scan thread.

Two history variables record what the code gives up, at the step where it does, and
only if the change was not told before. `lost`, of a change: a notification lost before
the baseline was there (`early gap`); beyond the limit of a reconciliation
(`truncated`); rewritten with the same fingerprint (`alike`); not listed by the
enumeration that replaced the baseline (`unseen`); taken for a duplicate; its timeline
entry not written. `refused`, of the scan last asked for: not scannable, busy, no
thread, or its own reading failed. Anything else that is overlooked violates
`ChangeIsReported` or `ReportedIsScanned`. Notifications Windows loses without an
error from the watcher are outside: nothing in the code could know of them.

### `FileScan`, `ProcessRisk`

A content is what the scanner can tell about it: detections, header, oddities,
script signals, primitives found in imports and strings, and what Windows says of
it. `StaticScore` and `StaticReasons` follow `scan_file`; `WithSignals` follows
`apply_windows_scan_signals`, which opens the path again, so `Rewrite` may come
between. `ProcessRisk` adds the assessment of a process, both correlations, the
event `analyze_new_process` stores and the record the pipe thread serves. Every
weight, cap and threshold is the code's.

## Runs

"cfg" is `MC<module>_<suffix>.cfg`. Deadlock is checked except in `snapshots`, where
the bound on turns ends every behaviour, and in `scores`, where a judged process has
no further step.

| run | cfg suffix | instance | distinct states | shows |
| --- | --- | --- | --- | --- |
| `quarantine` | `faults` | 2 paths, 2 contents, 2 ids, every fault | 708,624 | `Custody`, `NoLeak`, refinement of the vault (`ImplementsVault`), `HandlerFinishes` |
| `quarantine_race` | `race` | no fault | | violation, see below |
| `firewall` | `faults` | 2 blocks, every fault, 2 crashes | 8,054 | rule and row, keeper threads, no early lift, expiry |
| `scan` | `faults` | 3 jobs, table of 2, 2 files each | 132,805 | pruning, completeness, cancellation, termination |
| `pipe` | `calls` | 3 clients and the waker | 2,079 | nobody forgotten, answers, stop at the next call |
| `pipe_stop` | `stop` | no client | | violation, see below |
| `content` | `faults` | 3 versions, queue of 2, every fault | 22,466 | record, rollback target, hand-over |
| `startup` | `faults` | 1 service with 2 start types, 1 task, 2 records, every fault, 1 change by others or crash | 5,816,741 | what was disabled can be restored, to what it was; timeline and table agree |
| `snapshots` | `faults` | 2 process ids, 2 images, 1 port, queue of 1, 5 turns, 1 fault, 1 restart | 806,638 | queue accounting, beacons, baseline, timeline |
| `chains` | `cycles` | 2 processes, 3 kinds of signal, channels of 2, chains of 3, 1 chain kept, 4 events | 718,645 | channels, window, evidence, cooldown |
| `files` | `changes` | 2 files, 2 fingerprints, 1 candidate, channel of 2, 2 slots, 3 edits or resets, every fault | 2,269,216 | changes reported or given up for a cause, scans of what was reported, slots |
| `scores` | `scores` | every accessible process, every set of capabilities, detections and script signals, 2 rewrites | 801,344 | caps, reasons, malware |

Each property of a passing run was also checked against a mutation of the code it is
about (`PROJECT.json`, "mutants"): TLC finds it violated there.

Bounds, and why they are enough. Two paths, contents and ids let one item decay
while another is handled, a restore go elsewhere than the original, and a client
exchange one detected content for another. Two blocks interfere only through the
single handler, and two crashes allow one in a handler or thread and one after the
recovery from it. Three jobs over a table of two reach pruning with running and
finished jobs, refusal, and reuse of a pruned id; two files put cancellation
before, between and after files. Three clients let one be served, one linger and
one wait. Three versions let install, rollback and fallback disagree about the
previous one; a queue of two lets the protection thread fall behind. Two records let
an entry be disabled, lost, disabled again and restored by either record; entries
that share an identifier are left to the proofs, which cover them. Two process ids
and images allow reuse of an id and one image in two processes; a queue of one
overflows in the second cycle; five turns allow every order of three cycles and
requests around a restart. A window of 1 under a cooldown of 3 puts signals inside,
at the edge of and outside both; one kept chain makes every second process evict.
Three edits of two files over a channel of two overflow it before, at and after the
arrival of the baseline; two fingerprints, one of them too large to scan, let a
rewrite look like what was there, and reach every cause of `lost` and `refused`. A
constraint (`MaxFailures`) admits two lost notifications, failed threads and failed
entries at a time; resets of the journal share the bound of the edits. `scores`
enumerates each group of evidence in full and varies the others a little, since the
groups only meet in a capped sum. `MaxCrashes`, `MaxFiles`, `MaxPending` (of
`ContentActivation`), `MaxUpsets`, `MaxRollbacks`, `MaxCycles`, `MaxRequests`,
`MaxTurns`, `MaxFaults`, `MaxRestarts`, `MaxReceived`, `MaxTime`, `MaxEdits`,
`MaxFailures`, `MaxSeconds` and `MaxWrites` are bounds of the models, not of the code;
the theorems hold for every value of them. Symmetry (over processes in `chains`, over
ids and images in `snapshots`, over scan threads in `files`) is used with safety
properties only, and no definition tells the permuted values apart.

### Fairness

- `Quarantine`: weak fairness of the handler's steps. It runs on one thread and waits
  for nothing but file and database calls, which return. Clients, decay and crashes
  owe nothing. (`HandlerFinishes`)
- `FirewallResponse`: weak fairness of responses, of each expiry thread, of the
  passing of each deadline, and of the restart of a dead service (it is installed
  as an automatic service). Crashes are finitely many.
- `ScanJobs`: weak fairness of each worker thread. No client is obliged to ask for
  anything. (`ScanEnds`)
- `PipeServer`: weak fairness of the service thread and of the wake-up thread. Clients
  owe nothing, so a silent client can block the pipe: the liveness properties are
  about requests that have arrived.
- `ContentActivation`: weak fairness of the handler and of the protection thread's
  `recv_timeout`.
- The other modules are checked for safety only. `drain` and the inventory run when a
  client asks, and no client has to; the queue of `ProtectionLoop` may be overrun for
  ever by new processes.

## Proofs

TLAPS proves, for every value of the constants, every invariant and every action
property the passing runs check, the refinement `ImplementsVault`, type correctness of
every module that has a run, and further properties no run needs to repeat
(`NeverOverwrites`, `ReleaseVerified`, `TableBounded`, `FinishedHasReturned`,
`OutcomeIsFinal`, `AtMostOneLateCall`, `RollbackLeadsElsewhere`, `ThreadsAgree`,
`CachedIsListed`). `PROJECT.json` lists the theorems. The assumptions are those the
modules declare: sentinel values differ from real ones, bounds are natural numbers, a
few sets are finite, the window is shorter than the cooldown.

Every proof has the same shape: an inductive invariant, checked by TLC on the module's
instance before it was proved; `Init` implies it; one lemma per action or group of
actions; the properties follow. `Service_proofs` and `Workers_proofs` each speak of two
modules: names in `PipeServer` and `FirewallResponse` that another module uses as well
carry a prefix (`PipeSpec`, `BlockSpec`), so that both modules can be extended together.

- **`Quarantine_proofs`**. `Custody` is not inductive: that a container may be removed
  depends on where the handler stands. `JobInv` says what each point of the handler
  has established about the slot it works on ("at `recorded` the row is active with
  the verified digest, and the container holds that content unless the disk damaged
  it"). `TypeOK /\ JobInv /\ Custody` is inductive; each of the three is a lemma with
  one step per action. `NoLeak` needs `LeakInv` on top: how container and row differ
  inside a handler, point by point. The refinement maps each step to Hold, Damage, Release or a
  stutter; `VaultStutter` takes the many steps that touch nothing the vault sees.
- **`Workers_proofs`**. `ScanJobs`: `scanned + left` plus the target in hand equals
  `total`, a returned worker has a finished state, and at most one finding is under way
  when the flag is set. `TableBounded` needs cardinality facts of finite sets.
  `FirewallResponse`: the invariant adds which of the two threads may have removed a
  rule: an unblock or a timer that stands between removal and update has an absent rule.
  `BlockHasKeeper` needs no case for expired blocks: the restart re-creates overdue
  threads as well.
- **`Service_proofs`**. `ContentActivation`: what the handler's locals promise at each
  point, and that a message is sent exactly when the version in memory changes.
  `PipeServer`: the serving states have a peer, and a late request is the last one.
- **`StartupResponse_proofs`**. `DisabledIsRestorable` needs `StepInv`, what each point
  of a request knows about its target and the newest record (between `TurnOff` and
  `AuditDisable` the newest record is the entry's own and open), and `RowInv`, that an
  active row holds an item under its own identifier. `KeptIsFound` shows that among
  entries sharing an identifier the last one exists (well-founded induction over
  their ranks). Timeline and cache follow from the same invariant. `RestoreGivesBack`
  needs `RestoreInv`: what a collection found is what Windows says unless the entry was
  changed since its source was read (`FoundInv`); a row that is in use fits its entry
  (`TableInv`: it tells the entry's state or, of an entry that is off, what leads back to
  the state it had); and a record taken from such a row leads back (`RecordInv`). The
  rows stop being in use when the cache is dropped, which is why a restore may leave
  them wrong.
- **`SnapshotRequests_proofs`**. For the queue: it holds no identity twice, and one
  pushed out leaves a full queue behind, which gives the cardinality half of
  `NewIsAccounted`. For beacons: a count is never below the streak of cycles, and a
  full count is reported (`CountInv`). `NothingSavedSilently` and `TimelineReplays`
  are inductive with the types, one lemma per way out of a request.
- **`BehaviorChain_proofs`**. The channel accounting needs lengths of subsequences
  only. For `CooldownHolds`, `CooldownInv` says that the table of cooldowns and the last
  alert agree unless the entry was old enough to be pruned or the chain evicted, and
  that the clock stands still within a cycle. The other two rest on `ChainInv`: a chain
  is in the order of time (so pruning takes a prefix away), holds nothing newer than the
  newest signal of its kind, and holds that newest signal for as long as the window
  lasts, unless it hit a bound. One lemma each says what pruning, appending and
  shortening do to such a chain.
- **`FileActivity_proofs`**. `ChangeIsReported` is not inductive while there is no
  baseline: a known gap is no excuse then, since only a later drain can reconcile.
  `Noticed` says so, and that the baseline then does not hold the file as it is;
  `NothingFromTheFuture` gives that no edit returns to a file the baseline holds. That
  two different files may have one fingerprint, and that a file may not be listed, are
  cases of `Overlooked`, where the cause is recorded. Lemmas say what a drain takes,
  picks and puts into the baseline. `ReportedIsScanned` is not inductive: a thread of an
  older request would do, but it may fail, which excuses only its own. `Answered` asks
  for the thread of the last request, known by the edit it was started for (`asked`).
  `SlotsAccounted` counts threads with cardinality facts.
- **`ProcessRisk_proofs`**. The scores are sums of the worth of reasons. `RiskInv` says
  at each step of a scan that the reasons given so far explain the score, that the
  reasons of the signature and of the provider are not among them yet, and that a
  malicious rule keeps the score at 92 or more (100 less the credit for a trusted
  signature) until the event is stored. The lemmas before it say what adding or dropping
  a reason does to a sum, and that no capability alone passes 70 points.

Only model-checked:

- liveness (`HandlerFinishes`, `ExpiryLiftsBlock`, `ExpiryClosesRecord`, `ScanEnds`,
  `RequestAnswered`, `StopAtNextCall`, `ProtectionFollows`), out of the prover's reach;
- the two refuted claims, `RemovedIsRecoverable` and `StopCompletes`.

## Where the code and its documents part

Two are runs that TLC ends with a counterexample.

1. `RemovedIsRecoverable` (run `quarantine_race`). `remove_file` (main.rs:2741) works on
   the path. A file rewritten after the copy was verified is deleted without being in any
   container. README.md:27 promises recoverable quarantine.
2. `StopCompletes` (run `pipe_stop`). The wake-up call of the stop handler is made once
   (main.rs:1126) and is lost when no pipe instance is listening.
   docs/NATIVE_ARCHITECTURE.md:183: clean shutdown within five seconds.

The following are stated in the modules as well; added to the configuration of the
module's run, each is refuted. They are smaller, or consequences of failures the code
knowingly ignores.

3. `VerifiedBeforeRestore` (`Quarantine`, a container decays). The digest is compared
   (main.rs:2795) after the destination was written. docs/NATIVE_ARCHITECTURE.md:142:
   "verify its hash again before restore". What does hold is `ReleaseVerified`.
4. `BlockIsTemporary` (`FirewallResponse`, the database fails once). The expiry thread
   treats a database error as "not active" and ends (main.rs:3293); a rule whose row
   could not be written has no thread at all (main.rs:2265). README.md:118: "removes it
   at expiry or rollback".
5. `BusyIsTemporary` (`ScanJobs`, a thread cannot be spawned). The job stays "running"
   for ever (main.rs:2625) and its slot is lost. main.rs:2606: "retry after completed
   jobs are pruned".
6. `DisableFailsSafely` (`StartupResponse`, the record or the audit entry cannot be
   written, main.rs:2339). The entry stays disabled. The application reports any error of
   the request as "Disable failed safely" (InvestigationPage.xaml.cs:66).
7. `GapIsReconciled` (`FileActivity`). Changes whose notification was lost before the
   baseline was collected, that are beyond the limit of a reconciliation, that kept
   length and second, or that an enumeration did not list, are never reported;
   file_monitor.rs keeps the baseline "so queue/Windows buffer gaps can be reconciled".
8. `AlertMeansUnseen` (`SnapshotRequests`, after a restart). A program known to the saved
   baseline but not running at the first snapshot after a start is reported as new; the
   alert says "This executable identity was not present in the saved baseline"
   (main.rs:2464).
9. `TrustedIsQuiet` (`ProcessRisk`). The correlation is applied to the published record
   by the protection thread (main.rs:558) and again by the request (main.rs:2445), so a
   trusted new program in the profile with one public connection gets 8 + 15 + 15 points
   and an alert. risk.rs says that "normal browsing and trusted software do not become
   alerts".

Noticed while modelling, without a property:

- Content: after a fallback to the bundled content the next install records no previous
  version (main.rs:2891).
- Startup: restoring a task that was already disabled enables it; a source that is
  unavailable once makes the timeline report its entries as removed and then as changed;
  a failing update of a restored record leaves the old inventory cached.
- Chains: rules ignore the order of signals although their titles say "followed by";
  a cooldown starts even when the alert could not be stored.
- ETW: its coverage note says lost events are reconciled by polling, but the polled
  process transitions are skipped while ETW is present (main.rs:1825).
- Files: the entry of a removed file stays in the baseline, since its path can no longer
  be made canonical; a second change within one second is taken for a duplicate and not
  scanned; `drain` may return one event more than its limit.
- Snapshots: sightings are counted per endpoint row while the alert says "across at least
  eight protection cycles" (main.rs:940); a queued process is analysed with the
  connections its process id has later; a reused id records no exit; the remembered
  processes and connections are shared by all users (main.rs:1807); an alert that could
  not be stored is not tried again.
- Scores: signature and AMSI opinion may be those of a later version of the file.

## What is not modelled

- What a reputation feed concludes, and how digests, entropy, imports and strings are
  computed: their outcomes are inputs.
- Client authentication and impersonation: one user. Owner scoping, retention and cursor
  pagination of the event and timeline tables are WHERE clauses of single statements.
- Audit entries, except the one that carries a rollback identifier; coverage notes.
- Drivers, Run keys and browser extensions one by one: they are report-only entries.
- The ETW helper process and what is torn down after Stopped is reported.
- Real time: a deadline passes at some point; only the behaviour engine has a clock.
- The bytes of frames, manifests and containers.
- Process control: Windows calls on a live process, of which the service keeps no state.
- The application, the command-line tools, the native helpers, the installer: clients,
  optional sources and tooling.

## Plan

1. `EventStore`: retention and cursor pagination while rows are added and pruned.
2. The end of the service (state dropped after Stopped is reported, ETW helper) added to
   `PipeServer`; last-known-good rollback added to `ContentActivation`.
3. A second user in `SnapshotRequests`, whose requests share the remembered snapshot.
4. Abstract specifications of the expiring block and of the scan job, which
   `FirewallResponse` and `ScanJobs` implement.
