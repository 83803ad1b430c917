-------------------------- MODULE SnapshotRequests --------------------------
(***************************************************************************)
(* The snapshot requests of a user: the pipe thread takes the snapshot the *)
(* protection thread published, or makes its own when there is none yet,   *)
(* writes what changed since the last one to the timeline, compares the    *)
(* executables with the user's saved baseline, and raises an alert for     *)
(* those that are new.  The baseline is kept in the database and, from the *)
(* first successful request on, in memory.                                 *)
(***************************************************************************)
EXTENDS ProtectionLoop

CONSTANTS
  MaxCycles,     \* bound: cycles of the protection thread
  MaxRequests,   \* bound: requests served
  MaxTurns,      \* bound: cycles and requests together
  MaxFaults,     \* bound: database operations that fail
  MaxRestarts    \* bound: restarts of the service

ASSUME RequestConstants ==
  /\ MaxCycles \in Nat /\ MaxRequests \in Nat /\ MaxTurns \in Nat
  /\ MaxFaults \in Nat /\ MaxRestarts \in Nat

VARIABLES
  active,       \* active_processes and active_network, or None
  memory,       \* executable_baselines, or None
  stored,       \* the rows of seen_executables
  initialized,  \* the metadata row baseline_initialized
  reported,     \* reported_processes
  tproc, tflow, \* history: processes and connections as the timeline has them
  unwritten,    \* history: those whose last change could not be written to it
  alerts,       \* history: identities with a stored alert
  lost,         \* history: identities whose alert could not be stored
  initial,      \* history: identities saved before the baseline was initialized
  cycles, requests, faults, restarts

requestVars == <<active, memory, stored, initialized, reported, tproc, tflow, unwritten,
                 alerts, lost, initial, requests, faults, restarts>>
vars == <<loopVars, cycles, requestVars>>

TypeOK ==
  /\ LoopTypeOK
  /\ active \in Views \cup {None}
  /\ memory \in (SUBSET Images) \cup {None}
  /\ stored \subseteq Images /\ initialized \in BOOLEAN
  /\ reported \subseteq alerts \cup lost
  /\ tproc \in [Pids -> Images \cup {None}] /\ tflow \subseteq Pids \X Ports
  /\ unwritten \subseteq Pids \cup (Pids \X Ports)
  /\ alerts \subseteq Images /\ lost \subseteq Images /\ initial \subseteq stored
  /\ cycles \in 0..MaxCycles /\ requests \in 0..MaxRequests /\ faults \in 0..MaxFaults
  /\ restarts \in 0..MaxRestarts

Init ==
  /\ LoopInit
  /\ active = None /\ memory = None /\ stored = {} /\ initialized = FALSE
  /\ reported = {}
  /\ tproc = [p \in Pids |-> None] /\ tflow = {} /\ unwritten = {}
  /\ alerts = {} /\ lost = {} /\ initial = {}
  /\ cycles = 0 /\ requests = 0 /\ faults = 0 /\ restarts = 0

-----------------------------------------------------------------------------
\* collect_snapshot begins: the published snapshot, or one of its own, in
\* which nothing is flagged as new.
Sources == IF shared = None THEN [view : Views, new : {{}}] ELSE {shared}

\* record_snapshot_transitions, without ETW: the first snapshot is only
\* remembered; later ones are compared with the one before.
StartedSince(s) == {p \in Pids : s.procs[p] # None /\ s.procs[p] # active.procs[p]}
StoppedSince(s) == {p \in Pids : active.procs[p] # None /\ s.procs[p] = None}
FlowsSince(s) == (s.flows \ active.flows) \cup (active.flows \ s.flows)
ChangedSince(s) == IF active = None THEN {}
                   ELSE StartedSince(s) \cup StoppedSince(s) \cup FlowsSince(s)

\* Variant with a bug: a process whose id was reused is not reported.
RecordTransitionsByPid(s, missed) ==
  /\ active' = s
  /\ missed = {} /\ UNCHANGED unwritten
  /\ IF active = None THEN tproc' = s.procs /\ tflow' = s.flows
     ELSE /\ tproc' = [p \in Pids |->
               IF p \in StartedSince(s) /\ active.procs[p] = None THEN s.procs[p]
               ELSE IF p \in StoppedSince(s) THEN None ELSE tproc[p]]
          /\ tflow' = (tflow \cup (s.flows \ active.flows)) \ (active.flows \ s.flows)

\* What cannot be written is missed for good: the snapshot is remembered all
\* the same.
RecordTransitions(s, missed) ==
  /\ missed \subseteq ChangedSince(s)
  /\ active' = s
  /\ IF active = None THEN tproc' = s.procs /\ tflow' = s.flows /\ unwritten' = {}
     ELSE /\ tproc' = [p \in Pids |->
               IF p \in (StartedSince(s) \cup StoppedSince(s)) \ missed THEN s.procs[p]
               ELSE tproc[p]]
          /\ tflow' = (tflow \cup ((s.flows \ active.flows) \ missed))
                        \ ((active.flows \ s.flows) \ missed)
          /\ unwritten' = (unwritten \ ChangedSince(s)) \cup missed

\* The database fails: a number of timeline writes, or a later operation.
Fails(missed, failure) ==
  /\ faults' = faults + Cardinality(missed) + (IF failure THEN 1 ELSE 0)
  /\ faults' <= MaxFaults

\* The loop at the end of collect_snapshot: the key is entered first, and
\* stays when the event cannot be stored.
Alert(new, unsaved) ==
  LET due == new \ reported IN
  /\ reported' = reported \cup new
  /\ unsaved => due # {}
  /\ alerts' = IF unsaved THEN alerts ELSE alerts \cup due
  /\ lost' = IF unsaved THEN lost \cup due ELSE lost

Begin(s, missed) ==
  /\ requests < MaxRequests /\ cycles + requests < MaxTurns
  /\ requests' = requests + 1
  /\ RecordTransitions(s.view, missed)
  /\ UNCHANGED <<loopVars, cycles, restarts>>

\* apply_executable_baseline with a baseline in memory.  The identities are
\* added before they are written, and stay when the write fails.
ServeKnown(s, missed, everything, failure, unsaved) ==
  /\ memory # None
  /\ Fails(missed, failure \/ unsaved)
  /\ Begin(s, missed)
  /\ LET ids == Identities(s.view)
         fresh == ids \ memory
         changed == IF everything THEN ids ELSE fresh
     IN  /\ failure => changed # {}
         /\ memory' = memory \cup ids
         /\ stored' = IF failure THEN stored ELSE stored \cup changed
         /\ Alert(fresh, unsaved)
  /\ UNCHANGED <<initialized, initial>>

\* The first request of a service's life: the metadata or the known
\* identities cannot be read, and the flags stay what the loop made them.
ServeUnread(s, missed, unsaved) ==
  /\ memory = None
  /\ Fails(missed, TRUE)
  /\ Begin(s, missed)
  /\ Alert(s.new, unsaved)
  /\ UNCHANGED <<memory, stored, initialized, initial>>

\* Variant with a bug: the observations are written before the known
\* identities are read, so that none of them is new.
NewToStoreLate(ids) == {}

\* The identities that are not among the rows known_executable_identities
\* finds, in a baseline that is initialized.
NewToStore(ids) == IF initialized THEN ids \ stored ELSE {}

\* record_executables fails: nothing is kept.
ServeUnwritten(s, missed, unsaved) ==
  /\ memory = None
  /\ Fails(missed, TRUE)
  /\ Begin(s, missed)
  /\ Alert(NewToStore(Identities(s.view)), unsaved)
  /\ UNCHANGED <<memory, stored, initialized, initial>>

Saved(ids) ==
  /\ stored' = stored \cup ids
  /\ initial' = IF initialized THEN initial ELSE initial \cup ids

\* set_metadata fails: the rows are saved, the baseline is not initialized.
ServeUnmarked(s, missed) ==
  /\ memory = None /\ ~initialized
  /\ Fails(missed, TRUE)
  /\ Begin(s, missed)
  /\ Saved(Identities(s.view))
  /\ Alert({}, FALSE)
  /\ UNCHANGED <<memory, initialized>>

ServeFirst(s, missed, unsaved) ==
  /\ memory = None
  /\ Fails(missed, unsaved)
  /\ Begin(s, missed)
  /\ Saved(Identities(s.view))
  /\ Alert(NewToStore(Identities(s.view)), unsaved)
  /\ initialized' = TRUE
  /\ memory' = Identities(s.view)

Serve ==
  \E s \in Sources :
  \E missed \in {m \in SUBSET ChangedSince(s.view) : Cardinality(m) <= MaxFaults - faults} :
    \/ ServeUnmarked(s, missed)
    \/ \E unsaved \in BOOLEAN :
         \/ \E everything, failure \in BOOLEAN : ServeKnown(s, missed, everything, failure, unsaved)
         \/ ServeUnread(s, missed, unsaved)
         \/ ServeUnwritten(s, missed, unsaved)
         \/ ServeFirst(s, missed, unsaved)

Protect ==
  /\ cycles < MaxCycles /\ cycles + requests < MaxTurns
  /\ cycles' = cycles + 1
  /\ \E s \in Views :
     \E order \in Orders(NewIn(s)), convicted \in SUBSET (Elements(pending) \cup NewIn(s)) :
       Cycle(s, order, convicted)
  /\ UNCHANGED requestVars

\* The service stops, or dies, and is started again.
Restart ==
  /\ restarts < MaxRestarts /\ restarts' = restarts + 1
  /\ known' = {} /\ baselined' = FALSE /\ pending' = <<>> /\ suspicious' = {}
  /\ counts' = [i \in Images |-> 0] /\ beacons' = {} /\ shared' = None
  /\ first' = {} /\ analysed' = {} /\ displaced' = {}
  /\ streak' = [i \in Images |-> 0]
  /\ active' = None /\ memory' = None /\ reported' = {}
  /\ UNCHANGED <<cycles, stored, initialized, tproc, tflow, unwritten, alerts, lost, initial,
                 requests, faults>>

Next == Protect \/ Serve \/ Restart

Spec == Init /\ [][Next]_vars

-----------------------------------------------------------------------------
(***************************************************************************)
(* Properties                                                              *)
(***************************************************************************)

(* Nothing enters the baseline unnoticed (main.rs,                         *)
(* apply_executable_baseline): a saved identity was there before the       *)
(* baseline was initialized, or an alert was raised for it, across         *)
(* restarts and failed writes; and what the service holds in memory it has *)
(* saved or alerted on.                                                    *)
NothingSavedSilently ==
  /\ stored \subseteq initial \cup alerts \cup lost
  /\ memory # None => memory \subseteq stored \cup alerts \cup lost

(* The timeline follows the machine (main.rs,                              *)
(* record_snapshot_transitions): replaying the recorded starts, exits,     *)
(* connections and closures gives the snapshot served last, except for     *)
(* processes and connections whose last change could not be written; a     *)
(* missed write is made good by the next change of the same one.           *)
TimelineReplays ==
  active # None =>
    /\ \A p \in Pids \ unwritten : tproc[p] = active.procs[p]
    /\ \A f \in (Pids \X Ports) \ unwritten : f \in tflow <=> f \in active.flows

(* An alert about a new executable says that its identity was not in the   *)
(* saved baseline (main.rs, collect_snapshot).                             *)
AlertMeansUnseen ==
  [][\A i \in Images : i \in alerts' \ alerts => i \notin stored]_vars
=============================================================================
