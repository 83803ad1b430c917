---------------------------- MODULE FileActivity ----------------------------
(***************************************************************************)
(* The file monitor of one user and the real-time scans it starts.  A      *)
(* watcher thread puts changes into a bounded channel and counts what does *)
(* not fit.  Requests drain the channel; after a gap the watched folders   *)
(* are enumerated and compared with a baseline of fingerprints, which a    *)
(* thread of its own collected at the start.  Reported changes of          *)
(* executable files start scan threads, of which only a few may run.       *)
(*                                                                         *)
(* A file is its edit count and its fingerprint.  A fingerprint is what    *)
(* FileFingerprint compares, the length and the time of the last write in  *)
(* whole seconds, so that an edit may leave it as it was.                  *)
(***************************************************************************)
EXTENDS Naturals, Sequences, FiniteSets, SequencesExt

CONSTANTS
  Paths,
  Candidates,  \* the paths realtime_scan_candidate accepts
  NoPath,
  Prints,      \* the fingerprints of files
  Oversized,   \* those whose length is beyond the limit of real-time scans
  NoPrint,     \* no regular file is there
  Threads,     \* names for scan threads
  Capacity,    \* of the channel, and of the events kept before the baseline
  Limit,       \* of one drain
  MaxScans,    \* real-time scans that may run
  MaxKeys,     \* keys kept to suppress duplicates
  MaxListed,   \* files that enumerate lists
  Faults,      \* the failures this instance admits
  MaxEdits,    \* bound: edits of files and resets of the journal, together
  MaxSeconds   \* bound: the seconds in which events are told apart

Actions == {"created", "modified", "removed"}
Events == [path : Paths, action : Actions, second : 0..MaxSeconds]
Gone == [edits |-> 0, print |-> NoPrint]
Files == [edits : 0..MaxEdits, print : Prints \cup {NoPrint}]

\* Windows loses a notification; the USN journal is reset; a file or folder
\* cannot be read; no thread can be started; the timeline cannot be written.
FaultKinds == {"watch", "journal", "unreadable", "spawn", "db"}

ASSUME FileConstants ==
  /\ Candidates \subseteq Paths /\ NoPath \notin Paths
  /\ Capacity \in Nat \ {0} /\ Limit \in 1..Capacity
  /\ Oversized \subseteq Prints /\ NoPrint \notin Prints
  /\ MaxScans \in Nat /\ MaxKeys \in Nat /\ MaxListed \in Nat
  /\ Faults \subseteq FaultKinds
  /\ MaxEdits \in Nat /\ MaxSeconds \in Nat
  /\ IsFiniteSet(Paths) /\ IsFiniteSet(Threads)

VARIABLES
  disk,        \* the files
  queue,       \* the channel between watcher and monitor
  dropped, previousDropped, \* lost notifications, and those known to drain
  journal,     \* the USN journal was reset since the last drain
  collected,   \* what the baseline thread enumerated
  stage,       \* the baseline: "collecting", "sent" or "ready"
  early,       \* prebaseline_events
  baseline,    \* per path the file as it was when its fingerprint was taken
  pending,     \* pending_reconcile
  out,         \* events of the drain still to be reported
  keys,        \* reported_processes, the keys of file events
  active,      \* realtime_scans
  scans,       \* the scan threads
  second,
  edits,       \* how many edits and resets there were
  told,        \* history: the file as it was when its path was last reported
  lost,        \* history: why the last change of a path was given up
  wanted,      \* history: the edit count when a scan was last asked for
  scanned,     \* history: the edit count the last finished scan read
  refused,     \* history: why the scan last asked for was not made
  leaked       \* history: slots lost to threads that never started

monitor == <<queue, dropped, previousDropped, journal, collected, stage, early,
             baseline, pending>>
scanning == <<active, scans, wanted, scanned, refused, leaked>>
vars == <<disk, monitor, out, keys, scanning, second, edits, told, lost>>

Causes == {"early gap", "truncated", "alike", "unseen", "duplicate", "unwritten"}
Refusals == {"not scannable", "busy", "no thread", "failed"}
No == "no"  \* neither a cause nor a refusal

\* asked: the edit count a scan was asked for; read: the one it read.
NoScan == [path |-> NoPath, asked |-> 0, read |-> 0, done |-> FALSE]
Scans == [path : Paths \cup {NoPath}, asked : 0..MaxEdits, read : 0..MaxEdits,
          done : BOOLEAN]

TypeOK ==
  /\ disk \in [Paths -> Files]
  /\ queue \in Seq(Events) /\ out \in Seq(Events) /\ early \in Seq(Events)
  /\ Len(queue) <= Capacity /\ Len(early) <= Capacity /\ Len(out) <= Limit + 1
  /\ dropped \in Nat /\ previousDropped \in Nat
  /\ journal \in BOOLEAN /\ pending \in BOOLEAN
  /\ collected \in [Paths -> Files] /\ baseline \in [Paths -> Files]
  /\ stage \in {"collecting", "sent", "ready"}
  /\ keys \subseteq Events
  /\ active \in Nat /\ leaked \in Nat
  /\ scans \in [Threads -> Scans]
  /\ second \in 0..MaxSeconds /\ edits \in 0..MaxEdits
  /\ told \in [Paths -> Files]
  /\ lost \in [Paths -> Causes \cup {No}]
  /\ wanted \in [Paths -> 0..MaxEdits] /\ scanned \in [Paths -> 0..MaxEdits]
  /\ refused \in [Paths -> Refusals \cup {No}]

\* FileMonitor::start: the watcher runs, the baseline is being collected.
Init ==
  /\ disk = [p \in Paths |-> Gone]
  /\ queue = <<>> /\ out = <<>> /\ early = <<>>
  /\ dropped = 0 /\ previousDropped = 0 /\ journal = FALSE
  /\ collected = disk /\ baseline = disk /\ stage = "collecting"
  /\ pending = FALSE /\ keys = {}
  /\ active = 0 /\ leaked = 0
  /\ scans = [t \in Threads |-> NoScan]
  /\ second = 0 /\ edits = 0
  /\ told = disk
  /\ lost = [p \in Paths |-> No] /\ refused = lost
  /\ wanted = [p \in Paths |-> 0] /\ scanned = wanted

-----------------------------------------------------------------------------
(***************************************************************************)
(* Programs change files; the watcher reports them                         *)
(***************************************************************************)

\* enqueue_event: try_send, or one more in the counter.
Notify(event) ==
  \/ /\ Len(queue) < Capacity
     /\ queue' = Append(queue, event)
     /\ UNCHANGED <<dropped, lost>>
  \/ /\ Len(queue) = Capacity \/ "watch" \in Faults
     /\ dropped' = dropped + 1
     /\ lost' = IF stage = "ready" THEN lost
                ELSE [lost EXCEPT ![event.path] = "early gap"]
     /\ UNCHANGED queue

Exists(p) == disk[p].print # NoPrint
Existing == {p \in Paths : Exists(p)}

\* A file is written, with any length and time of writing, or removed.
Edit(p, print) ==
  /\ edits < MaxEdits /\ (Exists(p) \/ print # NoPrint)
  /\ edits' = edits + 1
  /\ disk' = [disk EXCEPT ![p] = [edits |-> @.edits + 1, print |-> print]]
  /\ Notify([path |-> p, second |-> second,
             action |-> IF print = NoPrint THEN "removed"
                        ELSE IF Exists(p) THEN "modified" ELSE "created"])
  /\ UNCHANGED <<previousDropped, journal, collected, stage, early, baseline,
                 pending, out, keys, scanning, second, told>>

JournalReset ==
  /\ "journal" \in Faults /\ ~journal
  /\ journal' = TRUE
  /\ edits < MaxEdits /\ edits' = edits + 1
  /\ UNCHANGED <<disk, queue, dropped, previousDropped, collected, stage, early,
                 baseline, pending, out, keys, scanning, second, told, lost>>

Tick ==
  /\ second < MaxSeconds
  /\ second' = second + 1
  /\ UNCHANGED <<disk, monitor, out, keys, scanning, edits, told, lost>>

\* enumerate passes over what it cannot read, and ends at its bound.
Listing(listed) ==
  /\ listed \subseteq Existing /\ Cardinality(listed) <= MaxListed
  /\ \/ listed = Existing
     \/ "unreadable" \in Faults
     \/ Cardinality(listed) = MaxListed

Enumerated(listed) == [p \in Paths |-> IF p \in listed THEN disk[p] ELSE Gone]

\* The baseline thread sends what enumerate found.
SendBaseline ==
  /\ stage = "collecting"
  /\ stage' = "sent"
  /\ \E listed \in SUBSET Paths :
       Listing(listed) /\ collected' = Enumerated(listed)
  /\ UNCHANGED <<disk, queue, dropped, previousDropped, journal, early, baseline,
                 pending, out, keys, scanning, second, edits, told, lost>>

-----------------------------------------------------------------------------
(***************************************************************************)
(* drain                                                                   *)
(***************************************************************************)
Drained == SubSeq(queue, 1, IF Len(queue) < Limit THEN Len(queue) ELSE Limit)
Remaining == SubSeq(queue, Len(Drained) + 1, Len(queue))

\* The paths whose metadata can be read during a drain.
Readable(seen) ==
  seen \subseteq Existing /\ (seen = Existing \/ "unreadable" \in Faults)

\* update_baseline: the path of an event takes its fingerprint of this
\* moment, or leaves the baseline after a removal.  Either needs the canonical
\* path, which only an existing file has: the entry of a removed file stays
\* until it is back or reconciliation replaces the baseline.
Updated(base, events, seen) ==
  [p \in Paths |->
     LET of == {i \in DOMAIN events : events[i].path = p}
         latest == CHOOSE i \in of : \A j \in of : j <= i
     IN  IF of = {} \/ p \notin seen THEN base[p]
         ELSE IF events[latest].action = "removed" THEN Gone
         ELSE disk[p]]

\* How what enumerate listed differs from a baseline, as far as fingerprints
\* tell, and where they do not tell.
Changed(base, listed) == {p \in listed : base[p].print # disk[p].print}
Missing(base, listed) == {p \in Paths \ listed : base[p].print # NoPrint}
Alike(base, listed) ==
  {p \in listed : base[p].print = disk[p].print /\ base[p] # disk[p]}

Found(base, listed, p) ==
  [path |-> p, second |-> second,
   action |-> IF p \notin listed THEN "removed"
              ELSE IF base[p].print = NoPrint THEN "created" ELSE "modified"]

Least(m, n) == IF m < n THEN m ELSE n

\* Variant with a bug: only new and missing files are reconciled.
PickedNew(base, listed, room, picked) ==
  LET differing == {p \in Changed(base, listed) : base[p].print = NoPrint}
                     \cup Missing(base, listed)
  IN  picked \subseteq differing
      /\ Cardinality(picked) = Least(Cardinality(differing), room)

\* Variant with a bug: the limit is not looked at.
PickedAll(base, listed, room, picked) ==
  picked = Changed(base, listed) \cup Missing(base, listed)

\* reconcile reports changed files, in the map's order, then missing ones,
\* until its limit; without room it still looks at the first file.
Picked(base, listed, room, picked) ==
  LET changed == picked \cap Changed(base, listed)
      missing == picked \cap Missing(base, listed)
  IN  IF room = 0
      THEN \/ listed = {} /\ picked = {}
           \/ \E first \in listed : picked = Changed(base, listed) \cap {first}
      ELSE /\ picked = changed \cup missing
           /\ Cardinality(changed) = Least(Cardinality(Changed(base, listed)), room)
           /\ Cardinality(missing) = Least(Cardinality(Missing(base, listed)),
                                           room - Cardinality(changed))

Arrived == stage = "sent"
Base(seen) == IF Arrived THEN Updated(collected, early, seen) ELSE baseline
Ready == stage = "sent" \/ stage = "ready"
Gap == pending \/ dropped > previousDropped \/ journal

\* The part of drain every branch does.
TakeEvents ==
  /\ out = <<>>
  /\ queue' = Remaining
  /\ previousDropped' = dropped /\ journal' = FALSE
  /\ stage' = IF Arrived THEN "ready" ELSE stage
  /\ UNCHANGED <<disk, dropped, collected, keys, scanning, second, edits, told>>

\* What a path holds was there when the path was last reported.
Described(p) == Exists(p) => told[p] = disk[p]

\* What reconciliation replaces in the baseline without having reported it.
Overlooked(base, listed, room, picked) ==
  [p \in Paths |->
     IF Described(p) THEN lost[p]
     ELSE IF p \notin listed THEN "unseen"
     ELSE IF p \in Alike(base, listed) THEN "alike"
     ELSE IF p \in Changed(base, listed) \ picked /\ Cardinality(picked) >= room
       THEN "truncated"
     ELSE lost[p]]

DrainReconciling ==
  /\ TakeEvents
  /\ Ready /\ Gap
  /\ \E seen, listed, picked \in SUBSET Paths :
       LET room == Limit - Len(Drained)
       IN  /\ Readable(seen) /\ Listing(listed)
           /\ Picked(Base(seen), listed, room, picked)
           /\ \E order \in SetToSeqs(picked) :
                out' = Drained \o [i \in DOMAIN order |-> Found(Base(seen), listed, order[i])]
           /\ lost' = Overlooked(Base(seen), listed, room, picked)
           /\ baseline' = Enumerated(listed)
  /\ pending' = FALSE
  /\ early' = <<>>

DrainUpdating ==
  /\ TakeEvents
  /\ Ready /\ ~Gap
  /\ out' = Drained
  /\ \E seen \in SUBSET Paths :
       Readable(seen) /\ baseline' = Updated(Base(seen), Drained, seen)
  /\ early' = <<>>
  /\ UNCHANGED <<pending, lost>>

\* Before the baseline is there, a gap is remembered and events are kept.
DrainEarly ==
  /\ TakeEvents
  /\ ~Ready
  /\ out' = Drained
  /\ pending' = Gap
  /\ early' = early \o SubSeq(Drained, 1, Least(Len(Drained), Capacity - Len(early)))
  /\ UNCHANGED <<baseline, lost>>

-----------------------------------------------------------------------------
(***************************************************************************)
(* drain_file_activity: the events of a drain, one by one                  *)
(***************************************************************************)
\* record_timeline, whose failure is only logged.
Reports(p) ==
  /\ told' = [told EXCEPT ![p] = disk[p]]
  /\ lost' = [lost EXCEPT ![p] = No]

GivesUp(p, cause) ==
  /\ lost' = IF Described(p) THEN lost ELSE [lost EXCEPT ![p] = cause]
  /\ UNCHANGED told

Scannable(p) == disk[p].print \in Prints \ Oversized

Refuses(p, cause) == refused' = [refused EXCEPT ![p] = cause]

StartsScan(p) ==
  /\ \E t \in Threads :
       /\ scans[t] = NoScan
       /\ scans' = [scans EXCEPT ![t] = [NoScan EXCEPT !.path = p,
                                                     !.asked = disk[p].edits]]
  /\ active' = active + 1
  /\ refused' = [refused EXCEPT ![p] = No]
  /\ UNCHANGED leaked

\* Variant with a bug: a path that is being scanned is not scanned again.
ScheduleUnlessScanning(p) ==
  /\ wanted' = [wanted EXCEPT ![p] = disk[p].edits]
  /\ IF ~Scannable(p)
       THEN Refuses(p, "not scannable") /\ UNCHANGED <<active, scans, leaked>>
     ELSE IF active >= MaxScans
       THEN Refuses(p, "busy") /\ UNCHANGED <<active, scans, leaked>>
     ELSE IF \E t \in Threads : scans[t].path = p
       THEN UNCHANGED <<active, scans, refused, leaked>>
     ELSE StartsScan(p)
  /\ UNCHANGED scanned

\* schedule_realtime_scan: nothing is done for what is not a readable file of
\* moderate size, or without a slot; then a thread is started, or fails to
\* start and keeps its slot.
Schedule(p) ==
  /\ wanted' = [wanted EXCEPT ![p] = disk[p].edits]
  /\ \/ /\ ~Scannable(p) \/ "unreadable" \in Faults
        /\ Refuses(p, "not scannable")
        /\ UNCHANGED <<active, scans, leaked>>
     \/ /\ Scannable(p) /\ active >= MaxScans
        /\ Refuses(p, "busy")
        /\ UNCHANGED <<active, scans, leaked>>
     \/ /\ Scannable(p) /\ active < MaxScans
        /\ "spawn" \in Faults
        /\ active' = active + 1 /\ leaked' = leaked + 1
        /\ Refuses(p, "no thread")
        /\ UNCHANGED scans
     \/ /\ Scannable(p) /\ active < MaxScans
        /\ StartsScan(p)
  /\ UNCHANGED scanned

\* A key that was reported before is passed over: same path, action, second.
\* More than MaxKeys keys are forgotten when the request's events are done.
Report ==
  /\ out # <<>>
  /\ out' = Tail(out)
  /\ LET event == Head(out)
         p == event.path
         kept == keys \cup {event}
     IN  /\ keys' = IF Len(out) = 1 /\ Cardinality(kept) > MaxKeys THEN {} ELSE kept
         /\ IF event \in keys
            THEN GivesUp(p, "duplicate") /\ UNCHANGED scanning
            ELSE /\ Reports(p) \/ ("db" \in Faults /\ GivesUp(p, "unwritten"))
                 /\ IF p \in Candidates /\ event.action # "removed"
                    THEN Schedule(p) ELSE UNCHANGED scanning
  /\ UNCHANGED <<disk, monitor, second, edits>>

\* The scan thread reads the file: scan_file.
ReadFile(t) ==
  /\ scans[t].path # NoPath /\ ~scans[t].done
  /\ Exists(scans[t].path)
  /\ scans' = [scans EXCEPT ![t].done = TRUE, ![t].read = disk[scans[t].path].edits]
  /\ UNCHANGED <<disk, monitor, out, keys, active, wanted, scanned, refused, leaked,
                 second, edits, told, lost>>

\* scan_file returns an error: the file is gone or locked, or the rules cannot
\* be run on it.  The thread ends and gives its slot back; nothing is retried.
ScanFails(t) ==
  /\ scans[t].path # NoPath /\ ~scans[t].done
  /\ ~Exists(scans[t].path) \/ "unreadable" \in Faults
  /\ scans' = [scans EXCEPT ![t] = NoScan]
  /\ active' = active - 1
  /\ LET p == scans[t].path
     IN  IF scans[t].asked = wanted[p] THEN Refuses(p, "failed") ELSE UNCHANGED refused
  /\ UNCHANGED <<disk, monitor, out, keys, wanted, scanned, leaked, second, edits,
                 told, lost>>

\* Variant with a bug: a thread that found nothing keeps its slot.
FinishScanKeeping(t) ==
  /\ scans[t].done
  /\ scans' = [scans EXCEPT ![t] = NoScan]
  /\ scanned' = [scanned EXCEPT ![scans[t].path] = scans[t].read]
  /\ UNCHANGED <<disk, monitor, out, keys, active, wanted, refused, leaked, second,
                 edits, told, lost>>

\* Exclusions and allowed hashes are looked up and the finding is stored; the
\* slot is given back in any case.
FinishScan(t) ==
  /\ scans[t].done
  /\ scans' = [scans EXCEPT ![t] = NoScan]
  /\ scanned' = [scanned EXCEPT ![scans[t].path] =
                   IF @ < scans[t].read THEN scans[t].read ELSE @]
  /\ active' = active - 1
  /\ UNCHANGED <<disk, monitor, out, keys, wanted, refused, leaked, second, edits,
                 told, lost>>

Next ==
  \/ \E p \in Paths, print \in Prints \cup {NoPrint} : Edit(p, print)
  \/ JournalReset \/ Tick \/ SendBaseline
  \/ DrainReconciling \/ DrainUpdating \/ DrainEarly
  \/ Report
  \/ \E t \in Threads : ReadFile(t) \/ ScanFails(t) \/ FinishScan(t)

Spec == Init /\ [][Next]_vars

-----------------------------------------------------------------------------
(***************************************************************************)
(* Properties                                                              *)
(***************************************************************************)
Mentioned(p) == \E i \in DOMAIN queue : queue[i].path = p
Coming(p) == \E i \in DOMAIN out : out[i].path = p
GivenUp == {p \in Paths : lost[p] # No}
Excused == {p \in Paths : refused[p] # No}

(* No content goes unnoticed for an unknown reason (file_monitor.rs, drain *)
(* and reconcile; main.rs, drain_file_activity): a report of its path was  *)
(* written since a file holds what it holds, or a notification is on the   *)
(* way, or a gap is known that the next drain will reconcile.  Excepted    *)
(* are changes given up by one of six causes, at the step where they are   *)
(* lost: a gap from before the baseline; the limit of reconcile; a         *)
(* fingerprint that a rewrite left the same; a file enumerate did not      *)
(* list; a duplicate key; a timeline that could not be written.            *)
ChangeIsReported ==
  \A p \in Paths \ GivenUp :
    Described(p) \/ Mentioned(p) \/ Coming(p) \/ Gap

(* Every reported change of an executable file is scanned (main.rs,        *)
(* schedule_realtime_scan): a finished scan has read the file as it was    *)
(* when the scan was asked for or later, or a thread is still to read it,  *)
(* or has read it so.  Excepted are requests for what is no readable file  *)
(* of moderate size, those without a slot or a thread, and those whose own *)
(* scan failed; that an older scan runs or failed is no excuse.            *)
ReportedIsScanned ==
  \A p \in Paths \ Excused :
    \/ scanned[p] >= wanted[p]
    \/ \E t \in Threads : scans[t].path = p /\ (scans[t].done => scans[t].read >= wanted[p])

(* Slots are neither lost nor invented (main.rs, realtime_scans): the      *)
(* counter is the number of live scan threads plus the slots of threads    *)
(* that could not be started, and never above the limit.                   *)
SlotsAccounted ==
  /\ active = Cardinality({t \in Threads : scans[t] # NoScan}) + leaked
  /\ active <= MaxScans

(* file_monitor.rs says of the baseline: it "is retained so queue/Windows  *)
(* buffer gaps can be reconciled by enumeration"; a change that fell into  *)
(* such a gap would then not be given up.                                  *)
GapIsReconciled == \A p \in Paths : lost[p] \in {No, "duplicate", "unwritten"} \/ Gap
=============================================================================
