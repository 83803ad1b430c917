-------------------------- MODULE ContentActivation --------------------------
(***************************************************************************)
(* Which security content is in force.  A version lives in four places: an *)
(* immutable directory on disk, two metadata rows (active and previous),   *)
(* the service's own memory, and the memory of the protection thread,      *)
(* which takes one command per cycle from an unbounded channel.  Install   *)
(* and rollback run on the pipe thread, one at a time.                     *)
(***************************************************************************)
EXTENDS Naturals, Sequences

CONSTANTS
  Versions,    \* versions the signed feed may name
  Bundled,     \* the content compiled into the service
  NoVersion,   \* an empty or missing metadata row
  MaxPending,  \* bound: commands waiting for the protection thread
  Faults       \* the failures this instance admits

FaultKinds == {"db", "crash", "disk"}
Content == Versions \cup {Bundled}

ASSUME VersionsAssumption ==
  Bundled \notin Versions /\ NoVersion \notin Content
ASSUME MaxPendingAssumption == MaxPending \in Nat \ {0}
ASSUME FaultsAssumption == Faults \subseteq FaultKinds

VARIABLES
  disk,      \* the version directories
  active,    \* metadata row active_content_version
  previous,  \* metadata row previous_content_version
  running,   \* content_version and content_source of the service
  queue,     \* UpdateContent commands not yet taken
  shield,    \* what the protection thread scans with
  pc,        \* where the handler under way stands
  job        \* the version it switches to, and the one it will record as previous

vars == <<disk, active, previous, running, queue, shield, pc, job>>

TypeOK ==
  /\ disk \in [Versions -> {"absent", "whole", "unreadable"}]
  /\ active \in Versions \cup {NoVersion}
  /\ previous \in Content \cup {NoVersion}
  /\ running \in [version: Content, signed: BOOLEAN]
  /\ queue \in Seq(Versions)
  /\ shield \in Content
  /\ pc \in {"down", "idle", "staged", "loaded", "committed"}
  /\ job \in [to: Content, back: Content \cup {NoVersion}]

Init ==
  /\ disk = [v \in Versions |-> "absent"]
  /\ active = NoVersion
  /\ previous = NoVersion
  /\ running = [version |-> Bundled, signed |-> FALSE]
  /\ queue = <<>>
  /\ shield = Bundled
  /\ pc = "idle"
  /\ job = [to |-> Bundled, back |-> NoVersion]

-----------------------------------------------------------------------------
(***************************************************************************)
(* install_content_update and rollback_content_update                      *)
(***************************************************************************)

\* Variant with a bug: the previous version is carried over.
InstallCarrying(v) ==
  /\ pc = "idle"
  /\ disk[v] # "unreadable" /\ v # running.version
  /\ disk' = [disk EXCEPT ![v] = "whole"]
  /\ pc' = "staged"
  /\ job' = [to |-> v, back |-> previous]
  /\ UNCHANGED <<active, previous, running, queue, shield>>

\* install_official stages a directory and renames it into place, or finds it
\* there and checks it against the manifest.  The running version is not
\* switched to again.
Install(v) ==
  /\ pc = "idle"
  /\ disk[v] # "unreadable"
  /\ disk' = [disk EXCEPT ![v] = "whole"]
  /\ IF v = running.version
       THEN UNCHANGED <<pc, job>>
       ELSE /\ pc' = "staged"
            /\ job' = [to |-> v,
                       back |-> IF running.signed THEN running.version ELSE NoVersion]
  /\ UNCHANGED <<active, previous, running, queue, shield>>

\* Without a previous version the request is refused.
Rollback ==
  /\ pc = "idle"
  /\ previous # NoVersion
  /\ pc' = "staged"
  /\ job' = [to |-> previous, back |-> running.version]
  /\ UNCHANGED <<disk, active, previous, running, queue, shield>>

Loadable(c) == c \in Versions /\ disk[c] = "whole"

\* The rules are compiled and the reputation feed is parsed.
Load ==
  /\ pc = "staged"
  /\ pc' = IF Loadable(job.to) THEN "loaded" ELSE "idle"
  /\ UNCHANGED <<disk, active, previous, running, queue, shield, job>>

\* activate_content_version writes both rows in one transaction.
Commit ==
  /\ pc = "loaded"
  /\ active' = job.to
  /\ previous' = job.back
  /\ pc' = "committed"
  /\ UNCHANGED <<disk, running, queue, shield, job>>

\* Variant with a bug: a failing transaction is only logged.
CommitFailureIgnored ==
  /\ pc = "loaded"
  /\ "db" \in Faults
  /\ pc' = "committed"
  /\ UNCHANGED <<disk, active, previous, running, queue, shield, job>>

CommitFails ==
  /\ pc = "loaded"
  /\ "db" \in Faults
  /\ pc' = "idle"
  /\ UNCHANGED <<disk, active, previous, running, queue, shield, job>>

\* Variant with a bug: the protection thread is not told.
PublishSilently ==
  /\ pc = "committed"
  /\ running' = [version |-> job.to, signed |-> TRUE]
  /\ pc' = "idle"
  /\ UNCHANGED <<disk, active, previous, queue, shield, job>>

\* The command is sent, then the service's own fields are assigned.
Publish ==
  /\ pc = "committed"
  /\ Len(queue) < MaxPending
  /\ queue' = Append(queue, job.to)
  /\ running' = [version |-> job.to, signed |-> TRUE]
  /\ pc' = "idle"
  /\ UNCHANGED <<disk, active, previous, shield, job>>

\* The end of a protection cycle: at most one command.
TakeCommand ==
  /\ pc # "down" /\ queue # <<>>
  /\ shield' = Head(queue)
  /\ queue' = Tail(queue)
  /\ UNCHANGED <<disk, active, previous, running, pc, job>>

-----------------------------------------------------------------------------
(***************************************************************************)
(* The process and the disk                                                *)
(***************************************************************************)

Crash ==
  /\ "crash" \in Faults
  /\ pc # "down"
  /\ pc' = "down"
  /\ queue' = <<>>
  /\ UNCHANGED <<disk, active, previous, running, shield, job>>

\* create_state: the recorded version, or the bundled one when it cannot be
\* loaded.  Both threads start from the same content.
Start ==
  /\ pc = "down"
  /\ running' = IF Loadable(active) THEN [version |-> active, signed |-> TRUE]
                                    ELSE [version |-> Bundled, signed |-> FALSE]
  /\ shield' = running'.version
  /\ pc' = "idle"
  /\ UNCHANGED <<disk, active, previous, queue, job>>

\* A directory is deleted, or no longer compiles.
LoseVersion(v) ==
  /\ "disk" \in Faults
  /\ disk[v] = "whole"
  /\ \E s \in {"absent", "unreadable"} : disk' = [disk EXCEPT ![v] = s]
  /\ UNCHANGED <<active, previous, running, queue, shield, pc, job>>

Handler == Load \/ Commit \/ CommitFails \/ Publish

Next ==
  \/ \E v \in Versions : Install(v) \/ LoseVersion(v)
  \/ Rollback
  \/ Handler
  \/ TakeCommand
  \/ Crash
  \/ Start

Spec == Init /\ [][Next]_vars

\* The handler runs on, and the protection thread completes its cycles.
Fairness == WF_vars(Handler) /\ WF_vars(TakeCommand)
FairSpec == Spec /\ Fairness

-----------------------------------------------------------------------------
(***************************************************************************)
(* Properties                                                              *)
(***************************************************************************)

\* Between two requests the version the service reports as signed content is
\* the one a restart would load, whatever failed, crashed or was rolled back
\* before.
RunningIsRecorded == pc = "idle" /\ running.signed => active = running.version

\* A rollback always leads somewhere else: no sequence of installs, rollbacks,
\* crashes and fallbacks to the bundled content records one version twice.
RollbackLeadsElsewhere == active # NoVersion => previous # active

\* The last command sent to the protection thread is the version in force:
\* once it has worked off its queue both threads agree.
LastSent == IF queue = <<>> THEN shield ELSE queue[Len(queue)]
ThreadsAgree == pc # "down" => LastSent = running.version

\* A switch away from signed content keeps that version as rollback target.
SwitchKeepsTheOld ==
  [][pc = "committed" /\ pc' = "idle" /\ running.signed
       => previous = running.version /\ active = running'.version]_vars

\* The protection thread catches up with every version that stays in force.
ProtectionFollows ==
  \A c \in Content :
    pc # "down" /\ running.version = c
      ~> shield = c \/ running.version # c \/ pc = "down"

=============================================================================
