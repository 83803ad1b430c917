-------------------------- MODULE Quarantine_proofs --------------------------
(***************************************************************************)
(* What holds of Quarantine for every set of paths, contents, identifiers  *)
(* and faults: its types, custody of what the service removed, the         *)
(* verified release, and that it implements QuarantineVault.               *)
(***************************************************************************)
EXTENDS Quarantine, TLAPS

USE ContentsAssumption

\* What each point of a handler has established about the slot it works on.
JobInv ==
  /\ pc \in {"verified", "copying", "copied", "recorded", "undo", "discard"}
       => job.id \notin taken
  /\ pc \in {"verified", "copying", "copied"} => record[job.id] = NoRecord
  /\ pc = "copied" => payload[job.id] = job.sha
  /\ pc = "recorded" =>
       /\ record[job.id] = [state |-> "active", content |-> job.sha]
       /\ payload[job.id] # NoFile
       /\ job.id \notin damaged => payload[job.id] = job.sha
  /\ pc \in {"restoring", "written", "accepted"} =>
       /\ record[job.id].state = "active"
       /\ job.sha = record[job.id].content
  /\ pc = "accepted" => job.digest = job.sha
  /\ pc = "marked" => record[job.id].state = "restored"

IInv == TypeOK /\ JobInv /\ Custody

\* The inductive invariant starts true: no handler runs, nothing is taken.
LEMMA InitInv == Init => IInv
  BY DEF Init, IInv, TypeOK, JobInv, Custody, Stored, Steps, Jobs, Records, NoRecord

\* Every step of the handlers, the client, the disk and a crash keeps the types.
LEMMA StepType == IInv /\ [Next]_vars => TypeOK'
<1> SUFFICES ASSUME TypeOK, JobInv, [Next]_vars PROVE TypeOK'
  BY DEF IInv
<1> USE DEF TypeOK, Stored, Steps, Jobs, Records, NoRecord, Abandon
<1>1. ASSUME NEW p \in Paths, NEW id \in Ids, Verify(p, id) PROVE TypeOK'
  BY <1>1 DEF Verify
<1>2. CASE Quarantining
  <2>1. CASE CreatePayload \/ CreateFails \/ CopyPayload \/ CopyFails \/ RecordFails
    BY <2>1 DEF CreatePayload, CreateFails, CopyPayload, CopyFails, RecordFails
  <2>2. CASE RecordQuarantine
    BY <2>2 DEF RecordQuarantine
  <2>3. CASE RemoveOriginal \/ RemoveFails
    BY <2>3 DEF RemoveOriginal, RemoveFails
  <2>4. CASE UndoRecord
    BY <2>4 DEF UndoRecord
  <2>5. CASE DiscardPayload
    BY <2>5 DEF DiscardPayload
  <2>6. QED
    BY <1>2, <2>1, <2>2, <2>3, <2>4, <2>5 DEF Quarantining
<1>3. ASSUME NEW id \in Ids, NEW dest \in Paths, OpenRestore(id, dest) PROVE TypeOK'
  BY <1>3 DEF OpenRestore
<1>4. CASE Restoring
  <2>1. CASE CopyBack
    BY <2>1 DEF CopyBack
  <2>2. CASE MarkRestored
    BY <2>2 DEF MarkRestored, JobInv
  <2>3. CASE CopyBackFails \/ MarkFails
    BY <2>3 DEF CopyBackFails, MarkFails
  <2>4. CASE CheckRestored
    BY <2>4 DEF CheckRestored
  <2>5. CASE RemovePayload
    BY <2>5 DEF RemovePayload
  <2>6. QED
    BY <1>4, <2>1, <2>2, <2>3, <2>4, <2>5 DEF Restoring
<1>5. CASE Environment
  BY <1>5 DEF Environment, ClientWrites, Decay, Crash
<1>6. CASE UNCHANGED vars
  BY <1>6 DEF vars
<1>7. QED
  BY <1>1, <1>2, <1>3, <1>4, <1>5, <1>6 DEF Next, Service

\* The facts about the job in progress survive every step.
LEMMA StepJob == IInv /\ [Next]_vars => JobInv'
<1> SUFFICES ASSUME IInv, [Next]_vars PROVE JobInv'
  OBVIOUS
<1> USE DEF IInv, TypeOK, JobInv, Stored, Jobs, Records, NoRecord
<1>1. ASSUME NEW p \in Paths, NEW id \in Ids, Verify(p, id) PROVE JobInv'
  BY <1>1 DEF Verify
<1>2. CASE CreatePayload \/ CreateFails \/ CopyPayload \/ CopyFails
  BY <1>2 DEF CreatePayload, CreateFails, CopyPayload, CopyFails
<1>3. CASE RecordQuarantine \/ RecordFails
  BY <1>3 DEF RecordQuarantine, RecordFails
<1>4. CASE RemoveOriginal \/ RemoveFails
  BY <1>4 DEF RemoveOriginal, RemoveFails
<1>4a. CASE UndoRecord \/ DiscardPayload
  BY <1>4a DEF UndoRecord, DiscardPayload
<1>5. ASSUME NEW id \in Ids, NEW dest \in Paths, OpenRestore(id, dest) PROVE JobInv'
  BY <1>5 DEF OpenRestore
<1>6. CASE Restoring
  BY <1>6 DEF Restoring, CopyBack, CopyBackFails, CheckRestored, MarkRestored,
       MarkFails, RemovePayload
<1>7. ASSUME NEW p \in Paths, NEW c \in Contents \cup {NoFile}, ClientWrites(p, c)
      PROVE JobInv'
  BY <1>7 DEF ClientWrites
<1>8. ASSUME NEW id \in Ids, NEW c \in Contents, Decay(id, c) PROVE JobInv'
  BY <1>8 DEF Decay
<1>9. CASE Crash \/ UNCHANGED vars
  BY <1>9 DEF Crash, vars
<1>10. QED
  BY <1>1, <1>2, <1>3, <1>4, <1>4a, <1>5, <1>6, <1>7, <1>8, <1>9
     DEF Next, Service, Quarantining, Environment

\* No step lets go of what was taken.
LEMMA StepCustody == IInv /\ [Next]_vars => Custody'
<1> SUFFICES ASSUME IInv, [Next]_vars PROVE Custody'
  OBVIOUS
<1> USE DEF IInv, TypeOK, JobInv, Custody, Stored, Jobs, Records, NoRecord
<1>1. ASSUME NEW p \in Paths, NEW id \in Ids, Verify(p, id) PROVE Custody'
  BY <1>1 DEF Verify
<1>2. CASE CreatePayload \/ CreateFails \/ CopyPayload \/ CopyFails
  BY <1>2 DEF CreatePayload, CreateFails, CopyPayload, CopyFails
<1>3. CASE RecordQuarantine \/ RecordFails
  BY <1>3 DEF RecordQuarantine, RecordFails
<1>4. CASE RemoveOriginal
  BY <1>4 DEF RemoveOriginal
<1>5. CASE RemoveFails \/ UndoRecord \/ DiscardPayload
  BY <1>5 DEF RemoveFails, UndoRecord, DiscardPayload
<1>6. ASSUME NEW id \in Ids, NEW dest \in Paths, OpenRestore(id, dest) PROVE Custody'
  BY <1>6 DEF OpenRestore
<1>7. CASE Restoring
  BY <1>7 DEF Restoring, CopyBack, CopyBackFails, CheckRestored, MarkRestored,
       MarkFails, RemovePayload
<1>8. ASSUME NEW p \in Paths, NEW c \in Contents \cup {NoFile}, ClientWrites(p, c)
      PROVE Custody'
  BY <1>8 DEF ClientWrites
<1>9. ASSUME NEW id \in Ids, NEW c \in Contents, Decay(id, c) PROVE Custody'
  BY <1>9 DEF Decay
<1>10. CASE Crash \/ UNCHANGED vars
  BY <1>10 DEF Crash, vars
<1>11. QED
  BY <1>1, <1>2, <1>3, <1>4, <1>5, <1>6, <1>7, <1>8, <1>9, <1>10
     DEF Next, Service, Quarantining, Environment

LEMMA Invariance == Spec => []IInv
<1>1. IInv /\ [Next]_vars => IInv'
  BY StepType, StepJob, StepCustody DEF IInv
<1>2. QED
  BY InitInv, <1>1, PTL DEF Spec

\* The variables keep their types under every fault.
THEOREM TypeCorrect == Spec => []TypeOK
  BY Invariance, PTL DEF IInv

\* Nothing the service removed is ever lost by the service: the container
\* and its active record stay until a restore is recorded.
THEOREM CustodyHolds == Spec => []Custody
  BY Invariance, PTL DEF IInv

\* A restore is recorded only for bytes whose digest was checked.
THEOREM ReleaseVerifiedHolds == Spec => ReleaseVerified
<1> DEFINE A == \A id \in Ids :
                  record[id].state = "active" /\ record'[id].state = "restored"
                    => job.id = id /\ job.digest = record[id].content
<1>1. ASSUME IInv, [Next]_vars PROVE A
  <2> SUFFICES ASSUME NEW i \in Ids,
                      record[i].state = "active", record'[i].state = "restored"
               PROVE  job.id = i /\ job.digest = record[i].content
    OBVIOUS
  <2> USE <1>1 DEF IInv, TypeOK, Jobs, Records, NoRecord
  <2>1. CASE MarkRestored
    BY <2>1 DEF MarkRestored, JobInv
  <2>2. CASE RecordQuarantine
    BY <2>2 DEF RecordQuarantine
  <2>3. CASE UndoRecord
    BY <2>3 DEF UndoRecord
  <2>4. ASSUME record' = record PROVE FALSE
    BY <2>4
  <2>5. QED
    BY <2>1, <2>2, <2>3, <2>4
       DEF Next, Service, Quarantining, Restoring, Environment, vars, Verify,
           CreatePayload, CreateFails, CopyPayload, CopyFails, RecordFails, RemoveOriginal,
           RemoveFails, DiscardPayload, OpenRestore, CopyBack, CopyBackFails,
           CheckRestored, MarkFails, RemovePayload, ClientWrites, Crash, Decay
<1>2. IInv /\ [Next]_vars => [A]_vars
  BY <1>1
<1>3. QED
  BY Invariance, <1>2, PTL DEF Spec, ReleaseVerified

\* Init of the handlers is Init of the vault.
LEMMA VaultInit == Init => Vault!Init
  BY DEF Init, Vault!Init, Vault!EmptySlot, vault, SlotOf

\* A step that leaves taken, damaged and the table alone, and the containers
\* of taken items as well, is invisible in the vault.
LEMMA VaultStutter ==
  ASSUME taken' = taken, damaged' = damaged, record' = record,
         \A id \in taken : payload'[id] = payload[id]
  PROVE  UNCHANGED vault
<1>1. \A id \in Ids : SlotOf(id)' = SlotOf(id)
  BY DEF SlotOf
<1>2. QED
  BY <1>1 DEF vault

\* The service implements the vault.
THEOREM QuarantineImplementsVault == Spec => ImplementsVault
<1>1. ASSUME IInv, [Next]_vars PROVE [Vault!Next]_vault
  <2> USE <1>1 DEF IInv, TypeOK, Jobs, Records, NoRecord, Stored
  <2>1. CASE RemoveOriginal
    <3>1. record[job.id] = [state |-> "active", content |-> job.sha]
      BY <2>1 DEF RemoveOriginal, JobInv
    <3>2. \A i \in Ids \ {job.id} : SlotOf(i)' = SlotOf(i)
      BY <2>1 DEF RemoveOriginal, SlotOf
    <3> DEFINE s == IF job.id \in damaged THEN "damaged" ELSE "held"
    <3>3. \A i \in Ids : i = job.id => SlotOf(i)' = [state |-> s, content |-> job.sha]
      BY <2>1, <3>1 DEF RemoveOriginal, SlotOf, JobInv
    <3>4. vault[job.id].state = "empty"
      BY <2>1 DEF RemoveOriginal, JobInv, vault, SlotOf
    <3>5. vault' = [vault EXCEPT ![job.id] = [state |-> s, content |-> job.sha]]
      BY <3>2, <3>3 DEF vault
    <3>6. Vault!Hold(job.id, job.sha)
      BY <3>4, <3>5 DEF Vault!Hold
    <3>7. QED
      BY <3>6 DEF Vault!Next
  <2>2. CASE MarkRestored
    <3>1. \A i \in Ids \ {job.id} : SlotOf(i)' = SlotOf(i)
      BY <2>2 DEF MarkRestored, SlotOf
    <3>2. CASE job.id \notin taken
      <4>1. \A i \in Ids : i = job.id => SlotOf(i)' = SlotOf(i)
        BY <2>2, <3>2 DEF MarkRestored, SlotOf
      <4>2. QED
        BY <3>1, <4>1 DEF vault
    <3>3. CASE job.id \in taken
      <4>1. \A i \in Ids : i = job.id
                             => SlotOf(i)' = [state |-> "released", content |-> NoFile]
        BY <2>2, <3>3 DEF MarkRestored, SlotOf, JobInv
      <4>2. vault[job.id].state \in {"held", "damaged"}
        BY <2>2, <3>3 DEF MarkRestored, JobInv, vault, SlotOf
      <4>3. vault' = [vault EXCEPT ![job.id] = [state |-> "released", content |-> NoFile]]
        BY <3>1, <4>1 DEF vault
      <4>4. Vault!Release(job.id)
        BY <4>2, <4>3 DEF Vault!Release
      <4>5. QED
        BY <4>4 DEF Vault!Next
    <3>4. QED
      BY <3>2, <3>3
  <2>3. ASSUME NEW id \in Ids, NEW c \in Contents, Decay(id, c)
        PROVE  [Vault!Next]_vault
    <3>1. \A i \in Ids \ {id} : SlotOf(i)' = SlotOf(i)
      BY <2>3 DEF Decay, SlotOf
    <3>2. CASE id \notin taken \/ id \in damaged
      <4>1. SlotOf(id)' = SlotOf(id)
        BY <2>3, <3>2 DEF Decay, SlotOf
      <4>2. QED
        BY <3>1, <4>1 DEF vault
    <3>3. CASE id \in taken /\ id \notin damaged
      <4>1. SlotOf(id) = [state |-> "held", content |-> record[id].content]
        BY <2>3, <3>3 DEF Decay, SlotOf, Custody
      <4>2. SlotOf(id)' = [state |-> "damaged", content |-> record[id].content]
        BY <2>3, <3>3 DEF Decay, SlotOf
      <4>3. vault[id] = SlotOf(id)
        BY DEF vault
      <4>5. vault' = [vault EXCEPT ![id] = [state |-> "damaged",
                                            content |-> vault[id].content]]
        <5>1. SlotOf(id)' = [state |-> "damaged", content |-> vault[id].content]
          BY <4>1, <4>2, <4>3
        <5>2. QED
          BY <3>1, <5>1 DEF vault
      <4>4. Vault!Damage(id)
        BY <4>1, <4>3, <4>5 DEF Vault!Damage
      <4>6. QED
        BY <4>4 DEF Vault!Next
    <3>4. QED
      BY <3>2, <3>3
  <2>4. CASE RecordQuarantine \/ UndoRecord
    <3>1. job.id \notin taken
      BY <2>4 DEF RecordQuarantine, UndoRecord, JobInv
    <3>2. \A i \in Ids : SlotOf(i)' = SlotOf(i)
      BY <2>4, <3>1 DEF RecordQuarantine, UndoRecord, SlotOf
    <3>3. QED
      BY <3>2 DEF vault
  <2>5. CASE CreatePayload \/ CreateFails \/ CopyPayload \/ DiscardPayload
    <3>1. job.id \notin taken
      BY <2>5 DEF CreatePayload, CreateFails, CopyPayload, DiscardPayload, JobInv
    <3>2. QED
      BY <2>5, <3>1, VaultStutter
         DEF CreatePayload, CreateFails, CopyPayload, DiscardPayload
  <2>6. CASE RemovePayload
    <3>1. \A i \in Ids : SlotOf(i)' = SlotOf(i)
      BY <2>6 DEF RemovePayload, JobInv, SlotOf
    <3>2. QED
      BY <3>1 DEF vault
  <2>7. ASSUME UNCHANGED <<taken, damaged, record, payload>> PROVE UNCHANGED vault
    BY <2>7, VaultStutter
  <2>8. QED
    BY <2>1, <2>2, <2>3, <2>4, <2>5, <2>6, <2>7
       DEF Next, Service, Quarantining, Restoring, Environment, vars, Verify,
           CopyFails, RecordFails, RemoveFails, OpenRestore, CopyBack,
           CopyBackFails, CheckRestored, MarkFails, ClientWrites, Crash
<1>2. QED
  BY Invariance, VaultInit, <1>1, PTL DEF Spec, ImplementsVault, Vault!Spec

\* Restore and quarantine never write over a complete client file.
THEOREM NeverOverwritesHolds == Spec => NeverOverwrites
<1> DEFINE A == (pc # pc') =>
       \A p \in Paths :
         files[p] \in Contents /\ files'[p] # files[p]
           => files'[p] = NoFile /\ p = job.path /\ pc \in {"recorded", "written"}
<1>1. ASSUME TypeOK, [Next]_vars PROVE A
  <2> SUFFICES ASSUME pc # pc', NEW q \in Paths, files[q] \in Contents,
                      files'[q] # files[q]
               PROVE  files'[q] = NoFile /\ q = job.path /\ pc \in {"recorded", "written"}
    OBVIOUS
  <2> USE <1>1 DEF TypeOK, Jobs
  <2>1. CASE RemoveOriginal \/ CheckRestored
    BY <2>1 DEF RemoveOriginal, CheckRestored
  <2>2. CASE CopyBack \/ CopyBackFails
    BY <2>2, ContentsAssumption DEF CopyBack, CopyBackFails
  <2>3. ASSUME NEW id \in Ids, NEW dest \in Paths, OpenRestore(id, dest) PROVE FALSE
    BY <2>3 DEF OpenRestore
  <2>4. ASSUME pc' = pc \/ files' = files PROVE FALSE
    BY <2>4
  <2>5. QED
    BY <2>1, <2>2, <2>3, <2>4
       DEF Next, Service, Quarantining, Restoring, Environment, vars, Verify,
           CreatePayload, CreateFails, CopyPayload, CopyFails, RecordQuarantine, RecordFails,
           RemoveFails, UndoRecord, DiscardPayload, MarkRestored,
           MarkFails, RemovePayload, ClientWrites, Crash, Decay
<1>2. QED
  BY TypeCorrect, <1>1, PTL DEF Spec, NeverOverwrites

\* Between two handlers, and for the ids no handler works on, containers and
\* active records go together; inside a handler they part in a known way.
LeakInv ==
  \A id \in Ids \ abandoned :
    /\ id # job.id \/ pc \in {"idle", "recorded", "undo", "restoring", "written", "accepted"}
         => (payload[id] # NoFile <=> record[id].state = "active")
    /\ id = job.id =>
         /\ pc \in {"verified", "copying", "copied", "discard"}
              => record[id].state # "active"
         /\ pc \in {"recorded", "undo"} => record[id].state = "active"
         /\ pc = "marked" => record[id].state # "active"
         /\ pc = "verified" => payload[id] = NoFile
         /\ pc = "copied" => payload[id] # NoFile

\* No exit of a handler leaks a container or a record whose clean-up did not
\* fail itself.
THEOREM NoLeakHolds == Spec => []NoLeak
<1>1. Init => LeakInv
  BY DEF Init, LeakInv, NoRecord
<1>2. ASSUME IInv, LeakInv, [Next]_vars PROVE LeakInv'
  <2> USE <1>2, ContentsAssumption DEF IInv, TypeOK, JobInv, LeakInv, Stored, Jobs, Records,
          NoRecord
  <2>1. ASSUME NEW p \in Paths, NEW id \in Ids, Verify(p, id) PROVE LeakInv'
    BY <2>1 DEF Verify
  <2>2. CASE CreatePayload \/ CopyPayload \/ CopyFails
    BY <2>2 DEF CreatePayload, CopyPayload, CopyFails
  <2>2a. CASE CreateFails
    <3>1. CASE UNCHANGED <<payload, abandoned>>
      BY <2>2a, <3>1 DEF CreateFails
    <3>2. CASE payload' = [payload EXCEPT ![job.id] = Partial] /\ Abandon
      BY <2>2a, <3>2 DEF CreateFails, Abandon
    <3>3. QED
      BY <2>2a, <3>1, <3>2 DEF CreateFails
  <2>3. CASE RecordQuarantine \/ RecordFails
    BY <2>3 DEF RecordQuarantine, RecordFails
  <2>4. CASE RemoveOriginal \/ RemoveFails
    BY <2>4 DEF RemoveOriginal, RemoveFails
  <2>5. CASE UndoRecord \/ DiscardPayload
    BY <2>5 DEF UndoRecord, DiscardPayload, Abandon
  <2>6. ASSUME NEW id \in Ids, NEW dest \in Paths, OpenRestore(id, dest) PROVE LeakInv'
    BY <2>6 DEF OpenRestore
  <2>7. CASE CopyBack \/ CopyBackFails \/ CheckRestored \/ MarkFails
    BY <2>7 DEF CopyBack, CopyBackFails, CheckRestored, MarkFails
  <2>8. CASE MarkRestored \/ RemovePayload
    BY <2>8 DEF MarkRestored, RemovePayload, Abandon
  <2>9. ASSUME NEW p \in Paths, NEW c \in Contents \cup {NoFile}, ClientWrites(p, c)
        PROVE LeakInv'
    BY <2>9 DEF ClientWrites
  <2>10. ASSUME NEW id \in Ids, NEW c \in Contents, Decay(id, c) PROVE LeakInv'
    BY <2>10 DEF Decay
  <2>11. CASE Crash \/ UNCHANGED vars
    BY <2>11 DEF Crash, Abandon, vars
  <2>12. QED
    BY <2>1, <2>2, <2>2a, <2>3, <2>4, <2>5, <2>6, <2>7, <2>8, <2>9, <2>10, <2>11
       DEF Next, Service, Quarantining, Restoring, Environment
<1>3. LeakInv => NoLeak
  BY DEF LeakInv, NoLeak
<1>4. IInv /\ LeakInv /\ [Next]_vars => LeakInv'
  BY <1>2
<1>5. QED
  BY Invariance, <1>1, <1>3, <1>4, PTL DEF Spec

=============================================================================
