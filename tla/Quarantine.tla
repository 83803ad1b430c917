------------------------------ MODULE Quarantine ------------------------------
(***************************************************************************)
(* The quarantine and restore handlers of the service, one file operation  *)
(* or database statement per step.  One pipe connection is served at a     *)
(* time, so at most one handler is under way (pc, job); the client's own   *)
(* programs change its files between any two of its steps, the process may *)
(* be killed between any two, and file and database calls may fail.        *)
(*                                                                         *)
(* A file, a payload and a recorded digest are members of Contents: two    *)
(* contents are equal exactly when their SHA-256 digests are.              *)
(***************************************************************************)
EXTENDS Naturals

CONSTANTS
  Paths,     \* paths the client can name
  Contents,  \* complete file contents
  Detected,  \* the contents the scanner rates suspicious or malicious
  Ids,       \* quarantine identifiers (UUIDs)
  NoFile,    \* no file is there
  Partial,   \* a file whose writer has not finished, or died
  Faults     \* the failures this instance admits

FaultKinds == {"crash", "io", "db", "decay"}

ASSUME ContentsAssumption ==
  /\ Detected \subseteq Contents
  /\ NoFile \notin Contents
  /\ Partial \notin Contents
  /\ NoFile # Partial
ASSUME FaultsAssumption == Faults \subseteq FaultKinds

VARIABLES
  files,    \* the client's file system
  payload,  \* the quarantine directory: <id>.quarantine
  record,   \* the quarantines table
  pc,       \* where the handler under way stands
  job,      \* its locals: quarantine id, path, expected and computed digest
  taken,    \* history: ids whose original the service has removed
  damaged,  \* history: ids whose payload decayed on disk
  abandoned \* history: ids whose clean-up failed or was cut off by a crash

vars == <<files, payload, record, pc, job, taken, damaged, abandoned>>

Stored == Contents \cup {NoFile, Partial}
NoRecord == [state |-> "none", content |-> NoFile]
Records == {NoRecord} \cup [state: {"active", "restored"}, content: Contents]
Jobs == [id: Ids, path: Paths, sha: Contents, digest: Stored]
Steps == {"idle", "verified", "copying", "copied", "recorded", "undo",
          "discard", "restoring", "written", "accepted", "marked"}

TypeOK ==
  /\ files \in [Paths -> Stored]
  /\ payload \in [Ids -> Stored]
  /\ record \in [Ids -> Records]
  /\ pc \in Steps
  /\ job \in Jobs
  /\ taken \subseteq Ids
  /\ damaged \subseteq Ids
  /\ abandoned \subseteq Ids

Init ==
  /\ files \in [Paths -> Contents \cup {NoFile}]
  /\ payload = [id \in Ids |-> NoFile]
  /\ record = [id \in Ids |-> NoRecord]
  /\ pc = "idle"
  /\ job \in Jobs /\ job.digest = NoFile
  /\ taken = {}
  /\ damaged = {}
  /\ abandoned = {}

\* The handler under way leaves a clean-up undone.
Abandon == abandoned' = abandoned \cup {job.id}

-----------------------------------------------------------------------------
(***************************************************************************)
(* quarantine_finding                                                      *)
(***************************************************************************)

\* verify_quarantine_candidate: the path is rescanned as the client and must
\* still hold the requested, detected content.
Verify(p, id) ==
  /\ pc = "idle"
  /\ files[p] \in Detected
  /\ payload[id] = NoFile /\ record[id] = NoRecord /\ id \notin taken
  /\ job' = [id |-> id, path |-> p, sha |-> files[p], digest |-> NoFile]
  /\ pc' = "verified"
  /\ UNCHANGED <<files, payload, record, taken, damaged, abandoned>>

\* write_quarantine_payload creates the container ...
CreatePayload ==
  /\ pc = "verified"
  /\ payload' = [payload EXCEPT ![job.id] = Partial]
  /\ pc' = "copying"
  /\ UNCHANGED <<files, record, job, taken, damaged, abandoned>>

\* Nothing is created; or it is, and a failing write of its header returns
\* without removing it.
CreateFails ==
  /\ pc = "verified"
  /\ "io" \in Faults
  /\ \/ UNCHANGED <<payload, abandoned>>
     \/ payload' = [payload EXCEPT ![job.id] = Partial] /\ Abandon
  /\ pc' = "idle"
  /\ UNCHANGED <<files, record, job, taken, damaged>>

\* Variant with a bug: the digest of the copy is not compared.
CopyPayloadUnchecked ==
  /\ pc = "copying"
  /\ files[job.path] \notin {NoFile, Partial}
  /\ payload' = [payload EXCEPT ![job.id] = files[job.path]]
  /\ pc' = "copied"
  /\ UNCHANGED <<files, record, job, taken, damaged, abandoned>>

\* ... and streams into it what the path holds by now; a mismatch with the
\* verified digest, a vanished source or an I/O error discards the container.
CopyPayload ==
  /\ pc = "copying"
  /\ files[job.path] \notin {NoFile, Partial}
  /\ payload' = [payload EXCEPT ![job.id] = files[job.path]]
  /\ pc' = IF files[job.path] = job.sha THEN "copied" ELSE "discard"
  /\ UNCHANGED <<files, record, job, taken, damaged, abandoned>>

\* Variant with a bug: the error is returned without removing the container.
CopyFailsLeaking ==
  /\ pc = "copying"
  /\ files[job.path] \in {NoFile, Partial} \/ "io" \in Faults
  /\ pc' = "idle"
  /\ UNCHANGED <<files, payload, record, job, taken, damaged, abandoned>>

CopyFails ==
  /\ pc = "copying"
  /\ files[job.path] \in {NoFile, Partial} \/ "io" \in Faults
  /\ pc' = "discard"
  /\ UNCHANGED <<files, payload, record, job, taken, damaged, abandoned>>

RecordQuarantine ==
  /\ pc = "copied"
  /\ record' = [record EXCEPT ![job.id] = [state |-> "active", content |-> job.sha]]
  /\ pc' = "recorded"
  /\ UNCHANGED <<files, payload, job, taken, damaged, abandoned>>

RecordFails ==
  /\ pc = "copied"
  /\ "db" \in Faults
  /\ pc' = "discard"
  /\ UNCHANGED <<files, payload, record, job, taken, damaged, abandoned>>

\* The original is removed by path, whatever that path holds by now.
RemoveOriginal ==
  /\ pc = "recorded"
  /\ files[job.path] # NoFile
  /\ files' = [files EXCEPT ![job.path] = NoFile]
  /\ taken' = taken \cup {job.id}
  /\ pc' = "idle"
  /\ UNCHANGED <<payload, record, job, damaged, abandoned>>

\* Variant with a bug: the removal is tried again until it succeeds.
RemoveRetried ==
  /\ pc = "recorded"
  /\ files[job.path] = NoFile \/ "io" \in Faults
  /\ UNCHANGED vars

RemoveFails ==
  /\ pc = "recorded"
  /\ files[job.path] = NoFile \/ "io" \in Faults
  /\ pc' = "undo"
  /\ UNCHANGED <<files, payload, record, job, taken, damaged, abandoned>>

\* delete_quarantine: its result is ignored.
UndoRecord ==
  /\ pc = "undo"
  /\ \/ record' = [record EXCEPT ![job.id] = NoRecord] /\ UNCHANGED abandoned
     \/ "db" \in Faults /\ Abandon /\ UNCHANGED record
  /\ pc' = "discard"
  /\ UNCHANGED <<files, payload, job, taken, damaged>>

\* Every failure ends in a best-effort removal of the container.
DiscardPayload ==
  /\ pc = "discard"
  /\ \/ payload' = [payload EXCEPT ![job.id] = NoFile] /\ UNCHANGED abandoned
     \/ "io" \in Faults /\ Abandon /\ UNCHANGED payload
  /\ pc' = "idle"
  /\ UNCHANGED <<files, record, job, taken, damaged>>

-----------------------------------------------------------------------------
(***************************************************************************)
(* restore_quarantine                                                      *)
(***************************************************************************)

\* Only an unrestored record; the container must open; the destination is
\* created only when nothing is there.
OpenRestore(id, dest) ==
  /\ pc = "idle"
  /\ record[id].state = "active"
  /\ payload[id] # NoFile
  /\ files[dest] = NoFile
  /\ files' = [files EXCEPT ![dest] = Partial]
  /\ job' = [id |-> id, path |-> dest, sha |-> record[id].content, digest |-> NoFile]
  /\ pc' = "restoring"
  /\ UNCHANGED <<payload, record, taken, damaged, abandoned>>

\* hash_copy writes and hashes in one pass.  A destination the client has
\* replaced or deleted meanwhile is not touched: the open handle is written.
CopyBack ==
  /\ pc = "restoring"
  /\ files' = IF files[job.path] = Partial
              THEN [files EXCEPT ![job.path] = payload[job.id]] ELSE files
  /\ job' = [job EXCEPT !.digest = payload[job.id]]
  /\ pc' = "written"
  /\ UNCHANGED <<payload, record, taken, damaged, abandoned>>

\* An I/O error leaves the destination behind: unfinished, or complete when
\* only the flush failed.
CopyBackFails ==
  /\ pc = "restoring"
  /\ "io" \in Faults
  /\ \/ UNCHANGED files
     \/ /\ files[job.path] = Partial
        /\ files' = [files EXCEPT ![job.path] = payload[job.id]]
  /\ pc' = "idle"
  /\ UNCHANGED <<payload, record, job, taken, damaged, abandoned>>

\* The digest is compared after the destination was written; on a mismatch
\* the destination is removed, again by path and ignoring the result.
CheckRestored ==
  /\ pc = "written"
  /\ \/ /\ job.digest = job.sha
        /\ pc' = "accepted"
        /\ UNCHANGED files
     \/ /\ job.digest # job.sha
        /\ \/ files' = [files EXCEPT ![job.path] = NoFile]
           \/ "io" \in Faults /\ UNCHANGED files
        /\ pc' = "idle"
  /\ UNCHANGED <<payload, record, job, taken, damaged, abandoned>>

MarkRestored ==
  /\ pc = "accepted"
  /\ record' = [record EXCEPT ![job.id].state = "restored"]
  /\ pc' = "marked"
  /\ UNCHANGED <<files, payload, job, taken, damaged, abandoned>>

\* Variant with a bug: the failing update is ignored, the container removed.
MarkFailureIgnored ==
  /\ pc = "accepted"
  /\ "db" \in Faults
  /\ pc' = "marked"
  /\ UNCHANGED <<files, payload, record, job, taken, damaged, abandoned>>

MarkFails ==
  /\ pc = "accepted"
  /\ "db" \in Faults
  /\ pc' = "idle"
  /\ UNCHANGED <<files, payload, record, job, taken, damaged, abandoned>>

RemovePayload ==
  /\ pc = "marked"
  /\ \/ payload' = [payload EXCEPT ![job.id] = NoFile] /\ UNCHANGED abandoned
     \/ "io" \in Faults /\ Abandon /\ UNCHANGED payload
  /\ pc' = "idle"
  /\ UNCHANGED <<files, record, job, taken, damaged>>

-----------------------------------------------------------------------------
(***************************************************************************)
(* The surroundings: the client's programs, the process, the disk.         *)
(***************************************************************************)

ClientWrites(p, c) ==
  /\ files[p] # c
  /\ files' = [files EXCEPT ![p] = c]
  /\ UNCHANGED <<payload, record, pc, job, taken, damaged, abandoned>>

\* The service process dies; files and committed rows survive it.
Crash ==
  /\ "crash" \in Faults
  /\ pc # "idle"
  /\ Abandon
  /\ pc' = "idle"
  /\ UNCHANGED <<files, payload, record, job, taken, damaged>>

Decay(id, c) ==
  /\ "decay" \in Faults
  /\ payload[id] \in Contents \ {c}
  /\ record[id].state = "active"
  /\ payload' = [payload EXCEPT ![id] = c]
  /\ damaged' = damaged \cup {id}
  /\ UNCHANGED <<files, record, pc, job, taken, abandoned>>

Quarantining ==
  \/ CreatePayload \/ CreateFails \/ CopyPayload \/ CopyFails
  \/ RecordQuarantine \/ RecordFails
  \/ RemoveOriginal \/ RemoveFails \/ UndoRecord \/ DiscardPayload

Restoring ==
  \/ CopyBack \/ CopyBackFails \/ CheckRestored
  \/ MarkRestored \/ MarkFails \/ RemovePayload

Service ==
  \/ \E p \in Paths, id \in Ids : Verify(p, id)
  \/ \E id \in Ids, dest \in Paths : OpenRestore(id, dest)
  \/ Quarantining
  \/ Restoring

Environment ==
  \/ \E p \in Paths, c \in Contents \cup {NoFile} : ClientWrites(p, c)
  \/ \E id \in Ids, c \in Contents : Decay(id, c)
  \/ Crash

Next == Service \/ Environment

Spec == Init /\ [][Next]_vars

\* A handler under way runs on: nothing in it waits for anything.
Fairness == WF_vars(Quarantining) /\ WF_vars(Restoring)
FairSpec == Spec /\ Fairness

-----------------------------------------------------------------------------
(***************************************************************************)
(* Properties                                                              *)
(***************************************************************************)

\* Custody: from the moment the service removed an original until a restore
\* of it is recorded, its container is there with the recorded content
\* (unless the disk damaged it).  Every failure path that deletes a
\* container, and every crash point between them, must respect this.
Custody ==
  \A id \in taken :
    /\ record[id].state \in {"active", "restored"}
    /\ record[id].state = "active" =>
         payload[id] # NoFile /\ (id \notin damaged => payload[id] = record[id].content)

\* Every way out of the two handlers, the ones a failing call or the client's
\* edits force included, leaves a container exactly for every active record.
\* Only a clean-up that fails itself, a failing write of the header, which
\* has no clean-up, or the death of the process, may not.
NoLeak ==
  pc = "idle" =>
    \A id \in Ids \ abandoned : payload[id] # NoFile <=> record[id].state = "active"

\* A handler step that changes a complete client file only ever deletes it,
\* and only the path of the request; restore never writes over a file.
NeverOverwrites ==
  [][(pc # pc') =>
       \A p \in Paths :
         files[p] \in Contents /\ files'[p] # files[p]
           => files'[p] = NoFile /\ p = job.path /\ pc \in {"recorded", "written"}]_vars

\* A restore is recorded only for bytes that matched the digest recorded at
\* quarantine time, whatever decayed or was retried in between.
ReleaseVerified ==
  [][\A id \in Ids :
       record[id].state = "active" /\ record'[id].state = "restored"
         => job.id = id /\ job.digest = record[id].content]_vars

\* Every handler that starts finishes, whatever the client does meanwhile.
HandlerFinishes == pc # "idle" ~> pc = "idle"

\* What the documentation says of the same steps (refuted by the code):
\* the original is deleted only when its bytes are in the vault ...
RemovedIsRecoverable ==
  [][\A p \in Paths :
       pc = "recorded" /\ pc' = "idle" /\ files[p] \in Contents /\ files'[p] = NoFile
         => payload[job.id] = files[p]]_vars

\* ... and bytes are put back only after their digest was verified.
VerifiedBeforeRestore ==
  [][\A p \in Paths :
       pc = "restoring" /\ pc' = "written" /\ files'[p] # files[p]
         => files'[p] = record[job.id].content]_vars

\* The vault as the abstract specification sees it.
SlotOf(id) ==
  IF id \notin taken
    THEN [state |-> "empty", content |-> NoFile]
  ELSE IF record[id].state # "active"
    THEN [state |-> "released", content |-> NoFile]
  ELSE IF id \in damaged
    THEN [state |-> "damaged", content |-> record[id].content]
  ELSE [state |-> "held", content |-> payload[id]]

vault == [id \in Ids |-> SlotOf(id)]

Vault == INSTANCE QuarantineVault
           WITH Ids <- Ids, Contents <- Contents, NoFile <- NoFile, vault <- vault

\* The handlers implement the vault: Hold is RemoveOriginal, Release is
\* MarkRestored, Damage is Decay, and every other step leaves it alone.
ImplementsVault == Vault!Spec

=============================================================================
