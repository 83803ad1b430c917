----------------------- MODULE StartupResponse_proofs -----------------------
(***************************************************************************)
(* What holds of StartupResponse for every set of entries, report-only     *)
(* ones that share an identifier included, every choice of failing calls   *)
(* and any number of changes, crashes and rollback records.                *)
(***************************************************************************)
EXTENDS StartupResponse, TLAPS, WellFoundedInduction

Acted == Services \cup Tasks

\* Where a request stands, its target and the newest record are known.
StepInv ==
  /\ pc = "act" => job.kind \in {"disable", "restore"}
  /\ pc \in {"disabled", "audit"} => job.kind = "disable" /\ job.id \in Acted
  /\ pc = "disabled" => row[job.id].active /\ Len(rollbacks) < MaxRollbacks
  /\ pc = "audit" => /\ Len(rollbacks) > 0
                     /\ rollbacks[Len(rollbacks)].entry = job.id
                     /\ ~rollbacks[Len(rollbacks)].restored
  /\ pc \in {"act", "enabled"} /\ job.kind = "restore" => job.record \in DOMAIN rollbacks
  /\ pc = "enabled" => job.kind = "restore" /\ rollbacks[job.record].entry \notin ours

\* An active row holds an item under its own identifier.
RowInv ==
  \A id \in Ids : row[id].active => row[id].item \in Items /\ Id(row[id].item.entry) = id

IInv == TypeOK /\ StepInv /\ RowInv /\ DisabledIsRestorable

-----------------------------------------------------------------------------
\* A set of naturals has a least element.
LEMMA LeastExists ==
  ASSUME NEW S \in SUBSET Nat, S # {}
  PROVE  \E m \in S : \A n \in S : m <= n
<1> DEFINE R == OpToRel(<, Nat)
<1>1. PICK m \in S : \A n \in S : ~(<<n, m>> \in R)
  <2> HIDE DEF R
  <2>1. IsWellFoundedOn(R, Nat)
    BY NatLessThanWellFounded DEF R
  <2>2. QED
    BY <2>1, WFMin
<1>2. \A n \in S : ~(n < m)
  BY <1>1 DEF OpToRel
<1>3. QED
  BY <1>2

\* The row an identifier gets is one of the items found under it.
LEMMA KeptIsFound ==
  ASSUME NEW inventory \in SUBSET Items, NEW id, Under(id, inventory) # {}
  PROVE  Kept(id, inventory) \in Under(id, inventory)
<1> DEFINE U == Under(id, inventory)
           S == {Rank[i.entry] : i \in U}
<1>1. S \in SUBSET Nat /\ S # {}
  BY StartupConstants DEF Under, Items
<1>2. PICK m \in S : \A n \in S : m <= n
  BY <1>1, LeastExists
<1>3. \E i \in U : \A j \in U : Rank[i.entry] <= Rank[j.entry]
  BY <1>2
<1>4. QED
  BY <1>3 DEF Kept

-----------------------------------------------------------------------------
USE StartupConstants, NoItemAssumption

LEMMA InitInv == Init => IInv
<1> SUFFICES ASSUME Init PROVE IInv
  OBVIOUS
<1>1. TypeOK
  BY DEF Init, TypeOK, Entries, Jobs, NoJob
<1>2. StepInv /\ RowInv /\ DisabledIsRestorable
  BY DEF Init, StepInv, RowInv, DisabledIsRestorable
<1>3. QED
  BY <1>1, <1>2 DEF IInv

\* The beginnings of requests: nothing but the request itself changes.
LEMMA BeginStep ==
  IInv /\ (BeginRefresh \/ (\E id \in Ids : BeginDisable(id))
           \/ \E r \in DOMAIN rollbacks : BeginRestore(r)) => IInv'
<1> USE DEF IInv, TypeOK, StepInv, RowInv, DisabledIsRestorable, Open, world, notes
<1> SUFFICES ASSUME IInv PROVE (BeginRefresh \/ (\E id \in Ids : BeginDisable(id))
           \/ \E r \in DOMAIN rollbacks : BeginRestore(r)) => IInv'
  OBVIOUS
<1>1. ASSUME BeginRefresh PROVE IInv'
  BY <1>1 DEF BeginRefresh, Jobs
<1>2. ASSUME NEW id \in Ids, BeginDisable(id) PROVE IInv'
  BY <1>2 DEF BeginDisable, Jobs
<1>3. ASSUME NEW r \in DOMAIN rollbacks, BeginRestore(r) PROVE IInv'
  <2>1. r \in 1..MaxRollbacks
    OBVIOUS
  <2>2. QED
    BY <1>3, <2>1 DEF BeginRestore, Jobs
<1>4. QED
  BY <1>1, <1>2, <1>3

\* The inventory.
LEMMA InventoryStep == IInv /\ Inventory => IInv'
<1> USE DEF IInv, TypeOK, StepInv, RowInv, DisabledIsRestorable, Open, world, notes, Goto, Finish
<1> SUFFICES ASSUME IInv, Inventory PROVE IInv'
  OBVIOUS
<1>1. CASE CollectServices
  BY <1>1 DEF CollectServices, Items, Entries
<1>2. CASE CollectTasksAndWmi
  <2>1. found' \subseteq Items
    BY <1>2 DEF CollectTasksAndWmi, Items, Entries
  <2>2. moved' \subseteq Services \cup Tasks
    BY <1>2 DEF CollectTasksAndWmi
  <2>3. QED
    BY <1>2, <2>1, <2>2 DEF CollectTasksAndWmi
<1>3. CASE Sync
  <2>1. \A id \in Ids : Under(id, found) # {} =>
          Kept(id, found) \in Items /\ Id(Kept(id, found).entry) = id
    BY KeptIsFound DEF Under
  <2>2. row' \in [Ids -> [active : BOOLEAN, item : Items \cup {NoItem}]]
    <3> DEFINE Row == [active : BOOLEAN, item : Items \cup {NoItem}]
    <3>1. ASSUME NEW id \in Ids PROVE [row[id] EXCEPT !.active = FALSE] \in Row
      <4>1. row[id] \in Row
        OBVIOUS
      <4> HIDE DEF IInv, TypeOK
      <4>2. QED
        BY <4>1
    <3>2. QED
      BY <1>3, <2>1, <3>1 DEF Sync
  <2>3. RowInv'
    <3>1. \A id \in Ids : row[id] \in [active : BOOLEAN, item : Items \cup {NoItem}]
      OBVIOUS
    <3>2. \A id \in Ids : row'[id].active => Under(id, found) # {} /\ row'[id].item = Kept(id, found)
      BY <1>3, <3>1 DEF Sync
    <3>3. QED
      BY <2>1, <3>2
  <2>4. listed' \in [Ids -> {"never", "listed", "removed"}]
    BY <1>3 DEF Sync
  <2>5. UNCHANGED <<rollbacks, world, stranded, moved>> /\ cache' = found /\ found' = {}
        /\ drifted' = moved
    BY <1>3 DEF Sync
  <2>6. (job' = job /\ pc' = "act" /\ job.kind = "disable") \/ (job' = NoJob /\ pc' = "idle")
    BY <1>3 DEF Sync
  <2>7. TypeOK'
    BY <2>2, <2>4, <2>5, <2>6 DEF Jobs
  <2>8. StepInv' /\ DisabledIsRestorable'
    BY <1>3, <2>5, <2>6 DEF Sync
  <2>9. QED
    BY <2>3, <2>7, <2>8
<1>4. CASE SyncFails
  BY <1>4 DEF SyncFails, Jobs
<1>5. QED
  BY <1>1, <1>2, <1>3, <1>4 DEF Inventory

\* DisablePersistence.
LEMMA DisablingStep == IInv /\ Disabling => IInv'
<1> USE DEF IInv, TypeOK, StepInv, RowInv, DisabledIsRestorable, Open, world, notes, Goto, Finish, Acted
<1> SUFFICES ASSUME IInv, Disabling PROVE IInv'
  OBVIOUS
<1>1. CASE RejectDisable
  BY <1>1 DEF RejectDisable, Jobs
<1>2. CASE TurnOff
  <2>1. job.id \in Acted /\ row[job.id].active
    <3>1. job.id \in Ids
      BY <1>2 DEF TurnOff, Jobs, NoJob
    <3>2. row[job.id].active /\ row[job.id].item.entry \in Reviewable
      BY <1>2 DEF TurnOff, Disablable
    <3>3. Id(row[job.id].item.entry) = job.id
      BY <3>1, <3>2
    <3>4. QED
      BY <3>2, <3>3 DEF Id
  <2>2. TypeOK'
    <3>1. Off(job.id) \in AllStates
      BY DEF Off, AllStates, ServiceStates, TaskStates
    <3>2. machine' \in [Entries -> AllStates]
      BY <1>2, <3>1 DEF TurnOff
    <3>3. original' \in [Services \cup Tasks -> AllStates]
      BY <1>2, <2>1 DEF TurnOff, Entries
    <3>4. QED
      BY <1>2, <2>1, <3>2, <3>3 DEF TurnOff
  <2>3. StepInv'
    BY <1>2, <2>1 DEF TurnOff
  <2>4. RowInv' /\ DisabledIsRestorable'
    BY <1>2, <2>1 DEF TurnOff
  <2>5. QED
    BY <2>2, <2>3, <2>4
<1>3. CASE RecordDisable
  <2> DEFINE new == [entry |-> job.id, previous |-> row[job.id].item.state,
                     restored |-> FALSE, told |-> FALSE,
                     was |-> original[job.id], fresh |-> job.id \notin drifted]
  <2>1. new \in Rollbacks
    BY <1>3 DEF RecordDisable, Rollbacks, Items, Ids
  <2>2. rollbacks' = Append(rollbacks, new) /\ UNCHANGED <<row, found, world, notes, job>>
        /\ pc = "disabled" /\ pc' = "audit" /\ cache' = NoInventory
    BY <1>3 DEF RecordDisable
  <2> HIDE DEF new
  <2>3. /\ rollbacks' \in Seq(Rollbacks) /\ Len(rollbacks') = Len(rollbacks) + 1
        /\ rollbacks'[Len(rollbacks) + 1] = new
        /\ \A r \in DOMAIN rollbacks : r \in DOMAIN rollbacks' /\ rollbacks'[r] = rollbacks[r]
    BY <2>1, <2>2
  <2>4. TypeOK'
    BY <2>2, <2>3
  <2>5. StepInv' /\ RowInv'
    <3>1. new.entry = job.id /\ new.restored = FALSE
      BY DEF new
    <3>2. QED
      BY <2>2, <2>3, <3>1
  <2>6. DisabledIsRestorable'
    BY <2>2, <2>3
  <2>7. QED
    BY <2>4, <2>5, <2>6
<1>4. CASE RecordDisableFails
  BY <1>4 DEF RecordDisableFails, Jobs
<1>5. CASE AuditDisable
  <2> DEFINE n == Len(rollbacks)
  <2>1. n \in DOMAIN rollbacks /\ rollbacks[n].entry = job.id /\ ~rollbacks[n].restored
    BY <1>5 DEF AuditDisable
  <2>2. rollbacks' = [rollbacks EXCEPT ![n] = [rollbacks[n] EXCEPT !.told = TRUE]]
    BY <1>5 DEF AuditDisable
  <2>3. rollbacks[n] \in Rollbacks /\ [rollbacks[n] EXCEPT !.told = TRUE] \in Rollbacks
    <3>1. rollbacks[n] \in Rollbacks
      BY <2>1
    <3> HIDE DEF IInv, TypeOK, n
    <3>2. QED
      BY <3>1 DEF Rollbacks
  <2>4. /\ rollbacks' \in Seq(Rollbacks) /\ Len(rollbacks') = Len(rollbacks)
        /\ DOMAIN rollbacks' = DOMAIN rollbacks
        /\ \A r \in DOMAIN rollbacks \ {n} : rollbacks'[r] = rollbacks[r]
    BY <2>1, <2>2, <2>3
  <2>5. rollbacks'[n].told /\ ~rollbacks'[n].restored /\ rollbacks'[n].entry = job.id
    BY <2>1, <2>2, <2>3 DEF Rollbacks
  <2>6. TypeOK' /\ StepInv' /\ RowInv'
    <3> HIDE DEF n
    <3>1. pc' = "idle" /\ job' = NoJob /\ stranded' \subseteq stranded
          /\ UNCHANGED <<row, cache, found, world, listed, moved, drifted>>
      BY <1>5 DEF AuditDisable
    <3>2. TypeOK'
      BY <2>4, <3>1 DEF Jobs
    <3>3. StepInv' /\ RowInv'
      BY <3>1
    <3>4. QED
      BY <3>2, <3>3
  <2>7. DisabledIsRestorable'
    <3> SUFFICES ASSUME NEW e \in ours' PROVE e \in stranded' \/ Open(e)' # {}
      OBVIOUS
    <3>1. CASE e = job.id
      BY <2>1, <2>4, <2>5, <3>1
    <3>2. CASE e # job.id
      <4>1. e \in stranded \/ Open(e) # {}
        BY <1>5, <3>2 DEF AuditDisable
      <4>2. \A r \in Open(e) : r # n
        BY <2>1, <3>2
      <4>3. QED
        BY <1>5, <2>4, <3>2, <4>1, <4>2 DEF AuditDisable
    <3>3. QED
      BY <3>1, <3>2
  <2>8. QED
    BY <2>6, <2>7
<1>6. CASE AuditFails
  BY <1>6 DEF AuditFails, Jobs
<1>7. QED
  BY <1>1, <1>2, <1>3, <1>4, <1>5, <1>6 DEF Disabling

\* RestorePersistence: a record is closed only once its entry is no longer
\* one OpenGuard keeps off.
LEMMA RestoringStep == IInv /\ Restoring => IInv'
<1> USE DEF IInv, TypeOK, StepInv, RowInv, DisabledIsRestorable, Open, world, notes, Goto, Finish, Acted
<1> SUFFICES ASSUME IInv, Restoring PROVE IInv'
  OBVIOUS
<1>1. CASE TurnOn
  <2> DEFINE r == rollbacks[job.record]
  <2>1. job.record \in DOMAIN rollbacks
    BY <1>1 DEF TurnOn
  <2>2. r \in Rollbacks
    BY <2>1
  <2>3. Restored(r.entry, r.previous) \in AllStates
    BY DEF Restored, AllStates, ServiceStates, TaskStates
  <2>4. machine' \in [Entries -> AllStates]
    BY <1>1, <2>3 DEF TurnOn
  <2>5. TypeOK'
    BY <1>1, <2>4 DEF TurnOn
  <2>6. StepInv'
    BY <1>1, <2>1 DEF TurnOn
  <2>7. RowInv' /\ DisabledIsRestorable'
    BY <1>1 DEF TurnOn
  <2>8. QED
    BY <2>5, <2>6, <2>7
<1>2. CASE TurnOnFails \/ MarkFails
  <2>1. pc = "act" \/ pc = "enabled"
    BY <1>2 DEF TurnOnFails, MarkFails
  <2>2. drifted' \subseteq Acted
    <3>1. CASE TurnOnFails
      BY <3>1 DEF TurnOnFails
    <3>2. CASE MarkFails
      <4>1. rollbacks[job.record] \in Rollbacks
        BY <3>2 DEF MarkFails
      <4>2. QED
        BY <3>2, <4>1 DEF MarkFails, Rollbacks
    <3>3. QED
      BY <1>2, <3>1, <3>2
  <2>3. pc' = "idle" /\ job' = NoJob
        /\ UNCHANGED <<row, cache, rollbacks, found, world, listed, stranded, moved>>
    BY <1>2 DEF TurnOnFails, MarkFails
  <2>4. QED
    BY <2>1, <2>2, <2>3 DEF Jobs
<1>3. CASE MarkRestored
  <2> DEFINE n == job.record
  <2>1. n \in DOMAIN rollbacks /\ rollbacks[n].entry \notin ours
    BY <1>3 DEF MarkRestored
  <2>2. rollbacks' = [rollbacks EXCEPT ![n] = [rollbacks[n] EXCEPT !.restored = TRUE]]
    BY <1>3 DEF MarkRestored
  <2>3. [rollbacks[n] EXCEPT !.restored = TRUE] \in Rollbacks
    <3>1. rollbacks[n] \in Rollbacks
      BY <2>1
    <3> HIDE DEF IInv, TypeOK, n
    <3>2. QED
      BY <3>1 DEF Rollbacks
  <2>4. /\ rollbacks' \in Seq(Rollbacks) /\ Len(rollbacks') = Len(rollbacks)
        /\ DOMAIN rollbacks' = DOMAIN rollbacks
        /\ \A r \in DOMAIN rollbacks \ {n} : rollbacks'[r] = rollbacks[r]
    BY <2>1, <2>2, <2>3
  <2> HIDE DEF n
  <2>5. pc = "enabled" /\ pc' = "idle" /\ job' = NoJob /\ cache' = NoInventory
        /\ UNCHANGED <<row, found, world, notes>>
    BY <1>3 DEF MarkRestored
  <2>6. TypeOK'
    BY <2>4, <2>5 DEF Jobs
  <2>7. StepInv' /\ RowInv'
    BY <2>5
  <2>8. DisabledIsRestorable'
    <3> SUFFICES ASSUME NEW e \in ours' PROVE e \in stranded' \/ Open(e)' # {}
      OBVIOUS
    <3>1. e \in ours /\ (e \in stranded \/ Open(e) # {})
      BY <2>5
    <3>2. \A r \in Open(e) : r # n
      BY <2>1, <3>1
    <3>3. QED
      BY <2>4, <2>5, <3>1, <3>2
  <2>9. QED
    BY <2>6, <2>7, <2>8
<1>4. QED
  BY <1>1, <1>2, <1>3 DEF Restoring

\* What others do to an entry, and a crash.
LEMMA WorldStep == IInv /\ ((\E e \in Entries : Change(e)) \/ Crash) => IInv'
<1> USE DEF IInv, TypeOK, StepInv, RowInv, DisabledIsRestorable, Open, Acted
<1> SUFFICES ASSUME IInv PROVE ((\E e \in Entries : Change(e)) \/ Crash) => IInv'
  OBVIOUS
<1>1. ASSUME NEW e \in Entries, Change(e) PROVE IInv'
  <2>1. machine' \in [Entries -> AllStates] /\ upsets' \in 0..MaxUpsets
    BY <1>1 DEF Change, States, AllStates
  <2>2. /\ ours' = ours \ {e} /\ stranded' = stranded \ {e}
        /\ moved' \subseteq Acted /\ drifted' \subseteq Acted
        /\ UNCHANGED <<row, cache, rollbacks, job, pc, found, listed, original>>
    BY <1>1 DEF Change, Entries
  <2>3. TypeOK'
    BY <2>1, <2>2
  <2>4. StepInv' /\ RowInv'
    BY <2>2
  <2>5. DisabledIsRestorable'
    BY <2>2
  <2>6. QED
    BY <2>3, <2>4, <2>5
<1>2. ASSUME Crash PROVE IInv'
  BY <1>2 DEF Crash, Finish, Jobs
<1>3. QED
  BY <1>1, <1>2

LEMMA StepIInv == IInv /\ [Next]_vars => IInv'
<1> SUFFICES ASSUME IInv, [Next]_vars PROVE IInv'
  OBVIOUS
<1>1. CASE UNCHANGED vars
  BY <1>1 DEF vars, IInv, TypeOK, StepInv, RowInv, DisabledIsRestorable, Open
<1>2. QED
  BY <1>1, BeginStep, InventoryStep, DisablingStep, RestoringStep, WorldStep DEF Next

LEMMA Invariance == Spec => []IInv
  BY InitInv, StepIInv, PTL DEF Spec

-----------------------------------------------------------------------------
\* The variables keep their types.
THEOREM TypeCorrect == Spec => []TypeOK
  BY Invariance, PTL DEF IInv

\* An entry that DisablePersistence turned off stays reversible: a record the
\* client knows is open, unless the request ended in an error or with the
\* process.
THEOREM Reversible == Spec => []DisabledIsRestorable
  BY Invariance, PTL DEF IInv

\* Replaying the events sync_persistence_inventory wrote gives the rows that
\* are active, also where report-only entries share one identifier.
THEOREM TimelineCorrect == Spec => []TimelineMatchesTable
<1>1. Init => TimelineMatchesTable
  BY DEF Init, TimelineMatchesTable
<1>2. TypeOK /\ TimelineMatchesTable /\ [Next]_vars => TimelineMatchesTable'
  <2> SUFFICES ASSUME TypeOK, TimelineMatchesTable, [Next]_vars PROVE TimelineMatchesTable'
    OBVIOUS
  <2>1. CASE Sync
    <3> SUFFICES ASSUME NEW id \in Ids PROVE row'[id].active <=> listed'[id] = "listed"
      BY DEF TimelineMatchesTable
    <3>1. row[id] \in [active : BOOLEAN, item : Items \cup {NoItem}]
      BY DEF TypeOK
    <3>2. CASE Under(id, found) = {}
      BY <2>1, <3>1, <3>2 DEF Sync, TimelineMatchesTable
    <3>3. CASE Under(id, found) # {}
      <4>1. row'[id].active
        BY <2>1, <3>3 DEF Sync
      <4>2. ASSUME ~\E i \in Under(id, found) : IsNews(i) PROVE row[id].active
        BY <3>3, <4>2 DEF IsNews, Under
      <4>3. QED
        BY <2>1, <3>3, <4>1, <4>2 DEF Sync, TimelineMatchesTable
    <3>4. QED
      BY <3>2, <3>3
  <2>2. CASE ~Sync
    <3>1. UNCHANGED <<row, listed>>
      BY <2>2 DEF Next, vars, BeginRefresh, BeginDisable, BeginRestore, Inventory, CollectServices,
         CollectTasksAndWmi, SyncFails, Disabling, RejectDisable, TurnOff, RecordDisable,
         RecordDisableFails, AuditDisable, AuditFails, Restoring, TurnOn, TurnOnFails,
         MarkRestored, MarkFails, Change, Crash, notes
    <3>2. QED
      BY <3>1 DEF TimelineMatchesTable
  <2>3. QED
    BY <2>1, <2>2
<1>3. QED
  BY <1>1, <1>2, TypeCorrect, PTL DEF Spec

\* A cached inventory and the rows a response looks up always belong together.
THEOREM CacheCorrect == Spec => []CachedIsListed
<1>1. Init => CachedIsListed
  BY DEF Init, CachedIsListed
<1>2. TypeOK /\ CachedIsListed /\ [Next]_vars => CachedIsListed'
  <2> SUFFICES ASSUME TypeOK, CachedIsListed, [Next]_vars PROVE CachedIsListed'
    OBVIOUS
  <2>1. CASE Sync
    <3> SUFFICES ASSUME NEW id \in Ids
                 PROVE  /\ row'[id].active <=> Under(id, found) # {}
                        /\ row'[id].active => row'[id].item \in found
      BY <2>1 DEF CachedIsListed, Sync, Under, Id
    <3>1. row[id] \in [active : BOOLEAN, item : Items \cup {NoItem}]
      BY DEF TypeOK
    <3>2. CASE Under(id, found) = {}
      BY <2>1, <3>1, <3>2 DEF Sync
    <3>3. CASE Under(id, found) # {}
      <4>1. Kept(id, found) \in found
        BY <3>3, KeptIsFound DEF Under, TypeOK
      <4>2. QED
        BY <2>1, <3>3, <4>1 DEF Sync
    <3>4. QED
      BY <3>2, <3>3
  <2>2. CASE ~Sync
    <3>1. UNCHANGED row /\ (cache' = cache \/ cache' = NoInventory)
      BY <2>2 DEF Next, vars, BeginRefresh, BeginDisable, BeginRestore, Inventory, CollectServices,
         CollectTasksAndWmi, SyncFails, Disabling, RejectDisable, TurnOff, RecordDisable,
         RecordDisableFails, AuditDisable, AuditFails, Restoring, TurnOn, TurnOnFails,
         MarkRestored, MarkFails, Change, Crash, notes
    <3>2. QED
      BY <3>1 DEF CachedIsListed, Under, Id
  <2>3. QED
    BY <2>1, <2>2
<1>3. QED
  BY <1>1, <1>2, TypeCorrect, PTL DEF Spec

-----------------------------------------------------------------------------
(***************************************************************************)
(* Why a restore gives an entry back its state                             *)
(***************************************************************************)
Words(e) == {"absent"} \cup (IF e \in Services THEN ServiceStates ELSE TaskStates)

\* What OpenGuard turned off is off, and had a state of its own before.
MachineInv ==
  \A e \in Acted :
    /\ machine[e] \in Words(e)
    /\ e \in ours => machine[e] = Off(e) /\ original[e] \in Words(e) \ {"absent"}

\* The collection under way says of an entry what Windows says, unless the
\* entry was changed since its source was read.
FoundInv ==
  /\ pc = "registry" => found = {}
  /\ pc = "powershell" => \A i \in found : i.entry \in Services
  /\ pc \in {"powershell", "sync"} =>
       \A i \in found : i.entry \in Acted =>
         /\ i.entry \in Services => i.state \notin {"absent", "disabled"}
         /\ i.entry \notin moved => i.state = machine[i.entry]

\* A row fits an entry when it tells its state or, of an entry that is turned
\* off, what leads back to the state it had.
Fits(e) ==
  IF e \in ours
    THEN original[e] # Off(e) => Restored(e, row[e].item.state) = original[e]
    ELSE row[e].item.state = machine[e]

\* The table is used by a disable, or will be by the next one.
InUse == cache # NoInventory \/ (pc = "act" /\ job.kind = "disable") \/ pc = "disabled"
BeingRestored(e) == pc = "enabled" /\ rollbacks[job.record].entry = e

TableInv ==
  \A e \in Acted : row[e].active =>
    /\ e \in Services => row[e].item.state \notin {"absent", "disabled"}
    /\ InUse /\ e \notin drifted /\ ~BeingRestored(e) => Fits(e)

\* A record taken from an up-to-date row leads back to the recorded state.
LeadsBack(rec) ==
  rec.fresh /\ rec.was # Off(rec.entry) => Restored(rec.entry, rec.previous) = rec.was

RecordInv ==
  /\ pc = "disabled" => job.id \in ours \cup drifted
  /\ \A r \in DOMAIN rollbacks : LeadsBack(rollbacks[r])

RestoreInv == MachineInv /\ FoundInv /\ TableInv /\ RecordInv

LEMMA RestoreInit == Init => RestoreInv
<1> SUFFICES ASSUME Init PROVE RestoreInv
  OBVIOUS
<1>1. MachineInv
  BY DEF Init, MachineInv, Words, States, Acted, Entries
<1>2. FoundInv /\ TableInv /\ RecordInv
  BY DEF Init, FoundInv, TableInv, RecordInv, Acted, Ids
<1>3. QED
  BY <1>1, <1>2 DEF RestoreInv

\* The beginnings of requests.
LEMMA RestoreBegin ==
  IInv /\ RestoreInv /\ (BeginRefresh \/ (\E id \in Ids : BeginDisable(id))
                         \/ \E r \in DOMAIN rollbacks : BeginRestore(r)) => RestoreInv'
<1> SUFFICES ASSUME IInv, RestoreInv,
                    BeginRefresh \/ (\E id \in Ids : BeginDisable(id))
                    \/ \E r \in DOMAIN rollbacks : BeginRestore(r)
             PROVE  RestoreInv'
  OBVIOUS
<1>1. /\ UNCHANGED <<machine, ours, original, row, cache, rollbacks, moved, drifted>>
      /\ pc = "idle" /\ pc' \in {"registry", "act"}
      /\ pc' = "registry" => found' = {}
      /\ pc' = "act" /\ job'.kind = "disable" => cache # NoInventory
  BY DEF BeginRefresh, BeginDisable, BeginRestore, world, notes
<1>2. MachineInv' /\ FoundInv' /\ RecordInv'
  BY <1>1 DEF RestoreInv, MachineInv, FoundInv, RecordInv
<1>3. TableInv'
  BY <1>1 DEF RestoreInv, TableInv, InUse, BeingRestored, Fits
<1>4. QED
  BY <1>2, <1>3 DEF RestoreInv

\* Collecting: what is found is what Windows says.
LEMMA RestoreCollect ==
  IInv /\ RestoreInv /\ (CollectServices \/ CollectTasksAndWmi) => RestoreInv'
<1> SUFFICES ASSUME IInv, RestoreInv, CollectServices \/ CollectTasksAndWmi
             PROVE  RestoreInv'
  OBVIOUS
<1>1. /\ UNCHANGED <<machine, ours, original, row, cache, rollbacks, job, drifted>>
      /\ pc \in {"registry", "powershell"} /\ pc' \in {"powershell", "sync"}
  BY DEF CollectServices, CollectTasksAndWmi, world, Goto
<1>2. MachineInv' /\ RecordInv'
  BY <1>1 DEF RestoreInv, MachineInv, RecordInv
<1>3. TableInv'
  BY <1>1 DEF RestoreInv, TableInv, InUse, BeingRestored, Fits
<1>4. FoundInv'
  <2>1. CASE CollectServices
    <3>1. found' = found \/ found' = {[entry |-> e, state |-> machine[e]] :
                             e \in {s \in Services : machine[s] \notin {"absent", "disabled"}}}
      BY <2>1 DEF CollectServices
    <3>2. found = {} /\ pc' = "powershell"
      BY <2>1 DEF CollectServices, Goto, RestoreInv, FoundInv
    <3>3. \A i \in found' : i.entry \in Services /\ i.state = machine[i.entry]
                            /\ i.state \notin {"absent", "disabled"}
      BY <3>1, <3>2
    <3>4. QED
      BY <1>1, <3>2, <3>3 DEF FoundInv
  <2>2. CASE CollectTasksAndWmi
    <3>1. PICK readable \in SUBSET {Tasks, Reports} :
            /\ found' = found \cup {[entry |-> e, state |-> machine[e]] :
                          e \in {t \in UNION readable : machine[t] # "absent"}}
            /\ moved' = moved \ UNION readable
      BY <2>2 DEF CollectTasksAndWmi
    <3>2. pc = "powershell" /\ pc' = "sync"
      BY <2>2 DEF CollectTasksAndWmi, Goto
    <3>3. (UNION readable) \cap Services = {}
      <4>1. \A e \in UNION readable : e \in Tasks \cup Reports
        OBVIOUS
      <4>2. QED
        BY <4>1
    <3> SUFFICES ASSUME NEW i \in found', i.entry \in Acted
                 PROVE  /\ i.entry \in Services => i.state \notin {"absent", "disabled"}
                        /\ i.entry \notin moved' => i.state = machine[i.entry]
      BY <1>1, <3>2 DEF FoundInv
    <3>4. CASE i \in found
      <4>1. /\ i.entry \in Services /\ i.state \notin {"absent", "disabled"}
            /\ i.entry \notin moved => i.state = machine[i.entry]
        BY <3>2, <3>4 DEF RestoreInv, FoundInv
      <4>2. i.entry \notin moved' => i.entry \notin moved
        BY <3>1, <3>3, <4>1
      <4>3. QED
        BY <4>1, <4>2
    <3>5. CASE i \notin found
      <4>1. i.entry \in UNION readable /\ i.state = machine[i.entry]
        BY <3>1, <3>5
      <4>2. QED
        BY <3>3, <4>1
    <3>6. QED
      BY <3>4, <3>5
  <2>3. QED
    BY <2>1, <2>2
<1>5. QED
  BY <1>2, <1>3, <1>4 DEF RestoreInv

\* The rows a complete inventory leaves fit, except those of entries changed
\* while it ran.
LEMMA RestoreSync == IInv /\ RestoreInv /\ (Sync \/ SyncFails) => RestoreInv'
<1> SUFFICES ASSUME IInv, RestoreInv, Sync \/ SyncFails PROVE RestoreInv'
  OBVIOUS
<1>1. /\ UNCHANGED <<machine, ours, original, rollbacks, moved>>
      /\ pc = "sync" /\ pc' \in {"act", "idle"}
  BY DEF Sync, SyncFails, world, notes, Goto, Finish
<1>2. MachineInv' /\ FoundInv' /\ RecordInv'
  BY <1>1 DEF RestoreInv, MachineInv, FoundInv, RecordInv
<1>3. CASE SyncFails
  <2>1. UNCHANGED <<row, cache, drifted>> /\ pc' = "idle"
    BY <1>3 DEF SyncFails, notes, Finish
  <2>2. TableInv'
    BY <1>1, <2>1 DEF RestoreInv, TableInv, InUse, BeingRestored, Fits
  <2>3. QED
    BY <1>2, <2>2 DEF RestoreInv
<1>4. CASE Sync
  <2> SUFFICES ASSUME NEW e \in Acted, row'[e].active
               PROVE  /\ e \in Services => row'[e].item.state \notin {"absent", "disabled"}
                      /\ e \notin drifted' => Fits(e)'
    BY <1>2 DEF TableInv, RestoreInv
  <2>1. e \in Ids /\ row[e] \in [active : BOOLEAN, item : Items \cup {NoItem}]
    BY DEF IInv, TypeOK, Ids, Acted
  <2>2. Under(e, found) # {} /\ row'[e].item = Kept(e, found)
    BY <1>4, <2>1 DEF Sync
  <2> DEFINE i == row'[e].item
  <2>3. i \in found /\ Id(i.entry) = e
    BY <2>2, KeptIsFound DEF Under, IInv, TypeOK
  <2>4. i.entry = e
    BY <2>3 DEF Id, Acted
  <2>5. /\ e \in Services => i.state \notin {"absent", "disabled"}
        /\ e \notin moved => i.state = machine[e]
    BY <1>1, <2>3, <2>4 DEF RestoreInv, FoundInv
  <2>6. ASSUME e \notin drifted', e \in ours, original[e] # Off(e)
        PROVE  Restored(e, i.state) = original[e]
    <3>1. machine[e] = Off(e) /\ original[e] \in Words(e) \ {"absent"}
      BY <2>6 DEF RestoreInv, MachineInv
    <3>2. i.state = Off(e)
      BY <1>4, <2>5, <2>6, <3>1 DEF Sync
    <3>3. e \in Tasks \ Services
      BY <2>5, <3>2 DEF Off, Acted
    <3>4. QED
      BY <2>6, <3>1, <3>3 DEF Restored, Off, Words, TaskStates
  <2>7. e \notin drifted' => Fits(e)'
    BY <1>1, <1>4, <2>5, <2>6 DEF Fits, Sync
  <2>8. QED
    BY <2>5, <2>7
<1>5. QED
  BY <1>3, <1>4

\* Telling the client of a record, or closing it, leaves where it leads.
LEMMA ClosingKeeps ==
  ASSUME IInv, RestoreInv, NEW n, NEW b,
         \/ rollbacks' = [rollbacks EXCEPT ![n] = [rollbacks[n] EXCEPT !.told = b]]
         \/ rollbacks' = [rollbacks EXCEPT ![n] = [rollbacks[n] EXCEPT !.restored = b]]
  PROVE  /\ DOMAIN rollbacks' = DOMAIN rollbacks
         /\ \A r \in DOMAIN rollbacks : rollbacks'[r].entry = rollbacks[r].entry
                                        /\ LeadsBack(rollbacks'[r])
<1>1. DOMAIN rollbacks' = DOMAIN rollbacks
  OBVIOUS
<1>2. ASSUME NEW r \in DOMAIN rollbacks
      PROVE  rollbacks'[r].entry = rollbacks[r].entry /\ LeadsBack(rollbacks'[r])
  <2> DEFINE old == rollbacks[r]
             new == rollbacks'[r]
  <2>1. old \in Rollbacks /\ LeadsBack(old)
    BY DEF IInv, TypeOK, RestoreInv, RecordInv
  <2>2. \/ new = old \/ new = [old EXCEPT !.told = b]
        \/ new = [old EXCEPT !.restored = b]
    OBVIOUS
  <2> HIDE DEF old, new
  <2>3. /\ new.entry = old.entry /\ new.previous = old.previous
        /\ new.was = old.was /\ new.fresh = old.fresh
    BY <2>1, <2>2 DEF Rollbacks
  <2>4. QED
    BY <2>1, <2>3 DEF LeadsBack, old, new
<1>3. QED
  BY <1>1, <1>2

\* DisablePersistence: turning off keeps the state to come back to, and the
\* record takes it from a row that fits.
LEMMA RestoreDisable == IInv /\ RestoreInv /\ Disabling => RestoreInv'
<1> SUFFICES ASSUME IInv, RestoreInv, Disabling PROVE RestoreInv'
  OBVIOUS
<1>1. CASE TurnOff
  <2> DEFINE id == job.id
  <2>1. /\ id \in Acted /\ row[id].active
        /\ id \in Ids /\ Id(row[id].item.entry) = id
    <3>1. id \in Ids
      BY <1>1 DEF TurnOff, Jobs, NoJob, IInv, TypeOK
    <3>2. row[id].active /\ row[id].item.entry \in Reviewable
      BY <1>1 DEF TurnOff, Disablable
    <3>3. Id(row[id].item.entry) = id
      BY <3>1, <3>2 DEF IInv, RowInv
    <3>4. QED
      BY <3>1, <3>2, <3>3 DEF Id, Acted
  <2>2. /\ machine' = [machine EXCEPT ![id] = Off(id)]
        /\ original' = [original EXCEPT ![id] = IF id \in ours THEN @ ELSE machine[id]]
        /\ ours' = ours \cup {id}
        /\ machine[id] # "absent"
        /\ pc = "act" /\ job.kind = "disable" /\ pc' = "disabled" /\ job' = job
        /\ UNCHANGED <<row, cache, rollbacks, found, moved, drifted>>
    BY <1>1 DEF TurnOff, Goto, notes
  <2> HIDE DEF id
  <2>3. machine \in [Entries -> AllStates] /\ original \in [Acted -> AllStates]
        /\ Acted \subseteq Entries
    BY DEF IInv, TypeOK, Acted, Entries
  <2>4. /\ machine'[id] = Off(id)
        /\ original'[id] = IF id \in ours THEN original[id] ELSE machine[id]
        /\ \A e \in Acted \ {id} : machine'[e] = machine[e] /\ original'[e] = original[e]
    BY <2>1, <2>2, <2>3
  <2>5. MachineInv'
    <3> SUFFICES ASSUME NEW e \in Acted
                 PROVE  /\ machine'[e] \in Words(e)
                        /\ e \in ours' => /\ machine'[e] = Off(e)
                                          /\ original'[e] \in Words(e) \ {"absent"}
      BY DEF MachineInv
    <3>1. Off(id) \in Words(id)
      BY DEF Off, Words, ServiceStates, TaskStates
    <3>2. QED
      BY <2>1, <2>2, <2>4, <3>1 DEF RestoreInv, MachineInv
  <2>6. FoundInv' /\ RecordInv'
    BY <2>2 DEF RestoreInv, FoundInv, RecordInv, id
  <2>7. TableInv'
    <3> SUFFICES ASSUME NEW e \in Acted, row[e].active
                 PROVE  /\ e \in Services => row[e].item.state \notin {"absent", "disabled"}
                        /\ e \notin drifted => Fits(e)'
      BY <2>2 DEF TableInv
    <3>1. /\ e \in Services => row[e].item.state \notin {"absent", "disabled"}
          /\ e \notin drifted => Fits(e)
      BY <2>2 DEF RestoreInv, TableInv, InUse, BeingRestored
    <3>2. CASE e # id
      BY <2>2, <2>4, <3>1, <3>2 DEF Fits
    <3>3. CASE e = id /\ id \in ours
      BY <2>2, <2>4, <3>1, <3>3 DEF Fits
    <3>4. CASE e = id /\ id \notin ours
      <4>1. ASSUME id \notin drifted, machine[id] # Off(id)
            PROVE  Restored(id, row[id].item.state) = machine[id]
        <5>1. row[id].item.state = machine[id]
          BY <3>1, <3>4, <4>1 DEF Fits
        <5>2. machine[id] \in Words(id)
          BY <2>1 DEF RestoreInv, MachineInv
        <5>3. QED
          BY <2>1, <2>2, <4>1, <5>1, <5>2
             DEF Restored, Off, Words, ServiceStates, TaskStates, Acted
      <4>2. QED
        BY <2>2, <2>4, <3>1, <3>4, <4>1 DEF Fits
    <3>5. QED
      BY <3>2, <3>3, <3>4
  <2>8. QED
    BY <2>5, <2>6, <2>7 DEF RestoreInv
<1>2. CASE RecordDisable
  <2> DEFINE id == job.id
             new == [entry |-> id, previous |-> row[id].item.state,
                     restored |-> FALSE, told |-> FALSE,
                     was |-> original[id], fresh |-> id \notin drifted]
  <2>1. /\ rollbacks' = Append(rollbacks, new) /\ cache' = NoInventory
        /\ pc = "disabled" /\ pc' = "audit" /\ job' = job
        /\ UNCHANGED <<machine, ours, original, row, found, moved, drifted>>
    BY <1>2 DEF RecordDisable, Goto, world, notes
  <2>2. LeadsBack(new)
    <3> SUFFICES ASSUME id \notin drifted, original[id] # Off(id)
                 PROVE  Restored(id, row[id].item.state) = original[id]
      BY DEF LeadsBack
    <3>1. id \in Acted /\ row[id].active
      BY <2>1 DEF IInv, StepInv
    <3>2. id \in ours
      BY <2>1 DEF RestoreInv, RecordInv
    <3>3. QED
      BY <2>1, <3>1, <3>2 DEF RestoreInv, TableInv, InUse, BeingRestored, Fits
  <2> HIDE DEF new
  <2>3. RecordInv'
    <3>1. rollbacks \in Seq(Rollbacks)
      BY DEF IInv, TypeOK
    <3>2. \A r \in DOMAIN rollbacks' :
            (r \in DOMAIN rollbacks /\ rollbacks'[r] = rollbacks[r]) \/ rollbacks'[r] = new
      BY <2>1, <3>1
    <3>3. \A r \in DOMAIN rollbacks' : LeadsBack(rollbacks'[r])
      BY <2>2, <3>2 DEF RestoreInv, RecordInv
    <3>4. QED
      BY <2>1, <3>3 DEF RecordInv, LeadsBack
  <2>4. MachineInv' /\ FoundInv'
    BY <2>1 DEF RestoreInv, MachineInv, FoundInv
  <2>5. TableInv'
    BY <2>1 DEF RestoreInv, TableInv, InUse
  <2>6. QED
    BY <2>3, <2>4, <2>5 DEF RestoreInv
<1>3. CASE AuditDisable
  <2> DEFINE n == Len(rollbacks)
  <2>1. /\ rollbacks' = [rollbacks EXCEPT ![n] = [rollbacks[n] EXCEPT !.told = TRUE]]
        /\ pc = "audit" /\ pc' = "idle" /\ job' = NoJob
        /\ UNCHANGED <<machine, ours, original, row, cache, found, moved, drifted>>
    BY <1>3 DEF AuditDisable, Finish, world
  <2> HIDE DEF n
  <2>2. RecordInv'
    BY <2>1, ClosingKeeps DEF RestoreInv, RecordInv
  <2>3. MachineInv' /\ FoundInv'
    BY <2>1 DEF RestoreInv, MachineInv, FoundInv
  <2>4. TableInv'
    BY <2>1 DEF RestoreInv, TableInv, InUse, BeingRestored, Fits, NoJob
  <2>5. QED
    BY <2>2, <2>3, <2>4 DEF RestoreInv
<1>4. CASE RejectDisable \/ RecordDisableFails \/ AuditFails
  <2>1. /\ UNCHANGED <<machine, ours, original, row, cache, rollbacks, found, moved, drifted>>
        /\ pc' = "idle"
    BY <1>4 DEF RejectDisable, RecordDisableFails, AuditFails, Finish, world, notes
  <2>2. pc \in {"act", "disabled", "audit"}
    BY <1>4 DEF RejectDisable, RecordDisableFails, AuditFails
  <2>3. MachineInv' /\ FoundInv' /\ RecordInv'
    BY <2>1 DEF RestoreInv, MachineInv, FoundInv, RecordInv
  <2>4. TableInv'
    BY <2>1, <2>2 DEF RestoreInv, TableInv, InUse, BeingRestored, Fits
  <2>5. QED
    BY <2>3, <2>4 DEF RestoreInv
<1>5. QED
  BY <1>1, <1>2, <1>3, <1>4 DEF Disabling

\* RestorePersistence: until its record is closed and the cache dropped, the
\* entry itself is the one the table is wrong about.
LEMMA RestoreRestoring == IInv /\ RestoreInv /\ Restoring => RestoreInv'
<1> SUFFICES ASSUME IInv, RestoreInv, Restoring PROVE RestoreInv'
  OBVIOUS
<1>1. CASE TurnOn
  <2> DEFINE rec == rollbacks[job.record]
             x == rec.entry
  <2>1. /\ pc = "act" /\ job.kind = "restore" /\ pc' = "enabled" /\ job' = job
        /\ machine' = [machine EXCEPT ![x] = Restored(x, rec.previous)]
        /\ ours' = ours \ {x}
        /\ UNCHANGED <<original, row, cache, rollbacks, found, moved, drifted>>
    BY <1>1 DEF TurnOn, Goto
  <2>2. job.record \in DOMAIN rollbacks
    BY <2>1 DEF IInv, StepInv
  <2>3. rec \in Rollbacks
    BY <2>2 DEF IInv, TypeOK
  <2>4. x \in Acted
    BY <2>3 DEF Rollbacks, Acted
  <2> HIDE DEF rec
  <2>5. machine'[x] = Restored(x, rec.previous)
        /\ \A e \in Acted \ {x} : machine'[e] = machine[e]
    BY <2>1, <2>4 DEF IInv, TypeOK, Acted, Entries
  <2>6. MachineInv'
    <3>1. Restored(x, rec.previous) \in Words(x)
      BY <2>4 DEF Restored, Words, ServiceStates, TaskStates, Acted
    <3>2. QED
      BY <2>1, <2>5, <3>1 DEF RestoreInv, MachineInv
  <2>7. FoundInv' /\ RecordInv'
    BY <2>1 DEF RestoreInv, FoundInv, RecordInv
  <2>8. TableInv'
    <3> SUFFICES ASSUME NEW e \in Acted, row[e].active
                 PROVE  /\ e \in Services => row[e].item.state \notin {"absent", "disabled"}
                        /\ InUse' /\ e \notin drifted /\ ~BeingRestored(e)' => Fits(e)'
      BY <2>1 DEF TableInv
    <3>1. InUse' => InUse
      BY <2>1 DEF InUse
    <3>2. /\ e \in Services => row[e].item.state \notin {"absent", "disabled"}
          /\ InUse /\ e \notin drifted => Fits(e)
      BY <2>1 DEF RestoreInv, TableInv, BeingRestored
    <3>3. ~BeingRestored(e)' => e # x
      BY <2>1 DEF BeingRestored, rec
    <3>4. QED
      BY <2>1, <2>5, <3>1, <3>2, <3>3 DEF Fits
  <2>9. QED
    BY <2>6, <2>7, <2>8 DEF RestoreInv
<1>2. CASE TurnOnFails
  <2>1. /\ UNCHANGED <<machine, ours, original, row, cache, rollbacks, found, moved, drifted>>
        /\ pc = "act" /\ pc' = "idle"
    BY <1>2 DEF TurnOnFails, Finish, world, notes
  <2>2. MachineInv' /\ FoundInv' /\ RecordInv'
    BY <2>1 DEF RestoreInv, MachineInv, FoundInv, RecordInv
  <2>3. TableInv'
    BY <2>1 DEF RestoreInv, TableInv, InUse, BeingRestored, Fits
  <2>4. QED
    BY <2>2, <2>3 DEF RestoreInv
<1>3. CASE MarkRestored
  <2> DEFINE n == job.record
  <2>1. /\ rollbacks' = [rollbacks EXCEPT ![n] = [rollbacks[n] EXCEPT !.restored = TRUE]]
        /\ cache' = NoInventory /\ pc' = "idle"
        /\ UNCHANGED <<machine, ours, original, row, found, moved, drifted>>
    BY <1>3 DEF MarkRestored, Finish, world, notes
  <2> HIDE DEF n
  <2>2. RecordInv'
    BY <2>1, ClosingKeeps DEF RestoreInv, RecordInv
  <2>3. MachineInv' /\ FoundInv'
    BY <2>1 DEF RestoreInv, MachineInv, FoundInv
  <2>4. TableInv'
    BY <2>1 DEF RestoreInv, TableInv, InUse
  <2>5. QED
    BY <2>2, <2>3, <2>4 DEF RestoreInv
<1>4. CASE MarkFails
  <2>1. /\ drifted' = drifted \cup {rollbacks[job.record].entry}
        /\ pc = "enabled" /\ pc' = "idle"
        /\ UNCHANGED <<machine, ours, original, row, cache, rollbacks, found, moved>>
    BY <1>4 DEF MarkFails, Finish, world
  <2>2. MachineInv' /\ FoundInv' /\ RecordInv'
    BY <2>1 DEF RestoreInv, MachineInv, FoundInv, RecordInv
  <2>3. TableInv'
    BY <2>1 DEF RestoreInv, TableInv, InUse, BeingRestored, Fits
  <2>4. QED
    BY <2>2, <2>3 DEF RestoreInv
<1>5. QED
  BY <1>1, <1>2, <1>3, <1>4 DEF Restoring

\* A change by others makes every earlier reading of the entry void.
LEMMA RestoreWorld ==
  IInv /\ RestoreInv /\ ((\E e \in Entries : Change(e)) \/ Crash) => RestoreInv'
<1> SUFFICES ASSUME IInv, RestoreInv
             PROVE  ((\E e \in Entries : Change(e)) \/ Crash) => RestoreInv'
  OBVIOUS
<1>1. ASSUME NEW x \in Entries, Change(x) PROVE RestoreInv'
  <2>1. PICK s \in States(x) : machine' = [machine EXCEPT ![x] = s]
    BY <1>1 DEF Change
  <2>2. /\ ours' = ours \ {x}
        /\ moved' = moved \cup ({x} \ Reports) /\ drifted' = drifted \cup ({x} \ Reports)
        /\ UNCHANGED <<row, cache, rollbacks, job, pc, found, original>>
    BY <1>1 DEF Change
  <2>3. machine \in [Entries -> AllStates] /\ Acted \subseteq Entries
        /\ Acted \cap Reports = {}
    BY DEF IInv, TypeOK, Acted, Entries
  <2>4. \A e \in Acted \ {x} : machine'[e] = machine[e]
    BY <2>1, <2>3
  <2>5. x \in Acted => x \in moved' /\ x \in drifted'
    BY <2>2, <2>3
  <2>6. moved \subseteq moved' /\ drifted \subseteq drifted'
    BY <2>2
  <2>7. MachineInv'
    <3>1. machine'[x] = s
      BY <2>1, <2>3
    <3>2. x \in Acted => s \in Words(x)
      BY DEF States, Words, Acted
    <3>3. QED
      BY <2>2, <2>4, <3>1, <3>2 DEF RestoreInv, MachineInv
  <2>8. FoundInv'
    BY <2>2, <2>4, <2>5, <2>6 DEF RestoreInv, FoundInv
  <2>9. TableInv'
    <3> SUFFICES ASSUME NEW e \in Acted, row[e].active
                 PROVE  /\ e \in Services => row[e].item.state \notin {"absent", "disabled"}
                        /\ InUse' /\ e \notin drifted' /\ ~BeingRestored(e)' => Fits(e)'
      BY <2>2 DEF TableInv
    <3>1. InUse' = InUse /\ BeingRestored(e)' = BeingRestored(e)
      BY <2>2 DEF InUse, BeingRestored
    <3>2. e # x => Fits(e)' = Fits(e)
      BY <2>2, <2>4 DEF Fits
    <3>3. QED
      BY <2>5, <2>6, <3>1, <3>2 DEF RestoreInv, TableInv
  <2>10. RecordInv'
    <3>1. pc = "disabled" => job.id \in ours \cup drifted /\ job.id \in Acted
      BY DEF RestoreInv, RecordInv, IInv, StepInv
    <3>2. QED
      BY <2>2, <2>5, <2>6, <3>1 DEF RestoreInv, RecordInv
  <2>11. QED
    BY <2>7, <2>8, <2>9, <2>10 DEF RestoreInv
<1>2. ASSUME Crash PROVE RestoreInv'
  <2>1. /\ UNCHANGED <<machine, row, rollbacks, ours, original, moved, drifted>>
        /\ cache' = NoInventory /\ pc' = "idle"
    BY <1>2 DEF Crash, Finish
  <2>2. MachineInv' /\ FoundInv' /\ RecordInv'
    BY <2>1 DEF RestoreInv, MachineInv, FoundInv, RecordInv
  <2>3. TableInv'
    BY <2>1 DEF RestoreInv, TableInv, InUse
  <2>4. QED
    BY <2>2, <2>3 DEF RestoreInv
<1>3. QED
  BY <1>1, <1>2

\* Turning an entry on by a record made from an up-to-date table gives it back
\* the enabled state it had before OpenGuard's first disable, across repeated
\* disables, failed inventories, failed records and crashes.
THEOREM RestoreIsExact == Spec => RestoreGivesBack
<1> DEFINE A == TurnOn => LET r == rollbacks[job.record]
                          IN  r.fresh /\ r.entry \in ours /\ r.was # Off(r.entry)
                                => machine'[r.entry] = r.was
<1>1. IInv /\ RestoreInv /\ [Next]_vars => RestoreInv'
  <2>1. CASE UNCHANGED vars
    BY <2>1 DEF vars, RestoreInv, MachineInv, FoundInv, TableInv, RecordInv, InUse,
                BeingRestored, Fits
  <2>2. QED
    BY <2>1, RestoreBegin, RestoreCollect, RestoreSync, RestoreDisable, RestoreRestoring,
       RestoreWorld DEF Next, Inventory
<1>2. IInv /\ RestoreInv /\ [Next]_vars => [A]_vars
  <2> SUFFICES ASSUME IInv, RestoreInv, TurnOn,
                      rollbacks[job.record].fresh,
                      rollbacks[job.record].was # Off(rollbacks[job.record].entry)
               PROVE  machine'[rollbacks[job.record].entry] = rollbacks[job.record].was
    OBVIOUS
  <2>1. job.record \in DOMAIN rollbacks
    BY DEF TurnOn, IInv, StepInv
  <2>2. rollbacks[job.record] \in Rollbacks
    BY <2>1 DEF IInv, TypeOK
  <2>3. rollbacks[job.record].entry \in Entries
    BY <2>2 DEF Rollbacks, Entries
  <2>4. LeadsBack(rollbacks[job.record])
    BY <2>1 DEF RestoreInv, RecordInv
  <2>5. QED
    BY <2>3, <2>4 DEF TurnOn, LeadsBack, IInv, TypeOK
<1>3. QED
  BY Invariance, RestoreInit, <1>1, <1>2, PTL DEF Spec, RestoreGivesBack
=============================================================================
