--------------------------- MODULE StartupResponse ---------------------------
(***************************************************************************)
(* The inventory of startup entries and the responses that disable and     *)
(* restore one.  An entry's state lives with Windows, where anybody may    *)
(* change it; the service keeps a table of what its last inventory found,  *)
(* a copy of that inventory per user, and one rollback record per entry it *)
(* disabled.  No transaction spans two of them.  The pipe thread runs one  *)
(* request at a time; everyone else runs beside it.                        *)
(*                                                                         *)
(* A rollback record also carries, for the properties only, the state the  *)
(* entry had before OpenGuard first touched it and whether the table was   *)
(* up to date then.                                                        *)
(***************************************************************************)
EXTENDS Naturals, Sequences

CONSTANTS
  Services, Tasks, \* services and scheduled tasks, which can be disabled
  Reports,         \* report-only entries that are listed under one identifier
  SharedId,        \* that identifier: stable_id of a WMI class, of a Run key
  Rank,            \* an entry's position from the end of the sorted inventory
  Reviewable,      \* services and tasks whose risk is at least Medium
  StartTypes,      \* the start types services have here
  NoItem, NoInventory,
  Faults,          \* the failing calls this instance admits
  MaxUpsets,       \* bound: changes by others and crashes, together
  MaxRollbacks     \* bound: rollback records

ServiceStates == {"boot", "system", "automatic", "manual", "disabled"}
TaskStates == {"Ready", "Disabled"}
Entries == Services \cup Tasks \cup Reports
Ids == Services \cup Tasks \cup {SharedId}

ASSUME StartupConstants ==
  /\ Services \cap (Tasks \cup Reports) = {} /\ Tasks \cap Reports = {}
  /\ SharedId \notin Services \cup Tasks
  /\ Reviewable \subseteq Services \cup Tasks
  /\ StartTypes \subseteq ServiceStates
  /\ Rank \in [Entries -> Nat]
  /\ \A e, f \in Entries : Rank[e] = Rank[f] => e = f
  /\ Faults \subseteq {"db", "registry", "powershell", "tool"}
  /\ MaxUpsets \in Nat /\ MaxRollbacks \in Nat

\* The states an entry can be in: start_state for a service, the Task
\* Scheduler's own word for a task, "enabled" for whatever is only reported.
States(e) ==
  {"absent"} \cup
  (IF e \in Services THEN StartTypes
   ELSE IF e \in Tasks THEN TaskStates ELSE {"enabled"})
AllStates == {"absent", "enabled"} \cup TaskStates \cup ServiceStates

Items == [entry : Entries, state : AllStates]
NoJob == [kind |-> "none"]
Jobs == {NoJob} \cup [kind : {"refresh"}] \cup [kind : {"disable"}, id : Ids]
        \cup [kind : {"restore"}, record : 1..MaxRollbacks]
ASSUME NoItemAssumption == NoItem \notin Items

Rollbacks == [entry : Services \cup Tasks, previous : AllStates,
              restored : BOOLEAN, told : BOOLEAN,
              was : AllStates, fresh : BOOLEAN]

VARIABLES
  machine,    \* the state of every entry, as Windows has it
  row,        \* the persistence_items table of the user
  cache,      \* persistence_cache: the last inventory, if there is one
  rollbacks,  \* response_rollbacks of action disable_persistence
  job, pc,    \* the request being served, and how far it is
  found,      \* what the inventory under way has collected
  upsets,     \* changes by others and crashes so far
  listed,     \* history: what the timeline last said of an identifier
  ours,       \* history: OpenGuard disabled it, nobody touched it since
  original,   \* history: the state before that
  stranded,   \* history: disabled, but the client was told of a failure
  moved,      \* history: changed by others since its source was read
  drifted     \* history: changed since the table took it in, by others or by
              \* a restore that could not be recorded

vars == <<machine, row, cache, rollbacks, job, pc, found, upsets,
          listed, ours, original, stranded, moved, drifted>>
world == <<machine, ours, original, upsets>>
notes == <<listed, stranded, moved, drifted>>

TypeOK ==
  /\ machine \in [Entries -> AllStates]
  /\ row \in [Ids -> [active : BOOLEAN, item : Items \cup {NoItem}]]
  /\ cache \in {NoInventory} \cup SUBSET Items
  /\ rollbacks \in Seq(Rollbacks) /\ Len(rollbacks) <= MaxRollbacks
  /\ job \in Jobs
  /\ pc \in {"idle", "registry", "powershell", "sync", "act",
             "disabled", "audit", "enabled"}
  /\ found \subseteq Items
  /\ upsets \in 0..MaxUpsets
  /\ listed \in [Ids -> {"never", "listed", "removed"}]
  /\ ours \subseteq Services \cup Tasks
  /\ original \in [Services \cup Tasks -> AllStates]
  /\ stranded \subseteq Services \cup Tasks
  /\ moved \subseteq Services \cup Tasks
  /\ drifted \subseteq Services \cup Tasks

\* Any machine, an empty table.
Init ==
  /\ machine \in [Entries -> AllStates]
  /\ \A e \in Entries : machine[e] \in States(e)
  /\ row = [id \in Ids |-> [active |-> FALSE, item |-> NoItem]]
  /\ cache = NoInventory
  /\ rollbacks = <<>>
  /\ job = NoJob /\ pc = "idle"
  /\ found = {}
  /\ upsets = 0
  /\ listed = [id \in Ids |-> "never"]
  /\ ours = {} /\ stranded = {} /\ moved = {} /\ drifted = {}
  /\ original = [e \in Services \cup Tasks |-> machine[e]]

Goto(step) == pc' = step /\ UNCHANGED job
Finish == pc' = "idle" /\ job' = NoJob

-----------------------------------------------------------------------------
(***************************************************************************)
(* The inventory                                                           *)
(***************************************************************************)

\* GetPersistence with refresh, or without a cached inventory; a disable
\* request starts with the cached inventory when there is one.
BeginRefresh ==
  /\ pc = "idle"
  /\ job' = [kind |-> "refresh"] /\ pc' = "registry" /\ found' = {}
  /\ UNCHANGED <<row, cache, rollbacks, world, notes>>

BeginDisable(id) ==
  /\ pc = "idle"
  /\ job' = [kind |-> "disable", id |-> id]
  /\ pc' = IF cache = NoInventory THEN "registry" ELSE "act"
  /\ found' = {}
  /\ UNCHANGED <<row, cache, rollbacks, world, notes>>

\* collect_services: an entry with start type 4 is passed over, and when the
\* key cannot be opened the source counts as unavailable and yields nothing.
CollectServices ==
  /\ pc = "registry"
  /\ \/ /\ found' = {[entry |-> e, state |-> machine[e]] :
                      e \in {s \in Services : machine[s] \notin {"absent", "disabled"}}}
        /\ moved' = moved \ Services
     \/ "registry" \in Faults /\ UNCHANGED <<found, moved>>
  /\ Goto("powershell")
  /\ UNCHANGED <<row, cache, rollbacks, world, listed, stranded, drifted>>

\* collect_tasks_and_wmi: one child process lists tasks and WMI consumers.
\* Each part may fail on its own; a child that fails or runs past its timeout
\* is killed and yields neither.
CollectTasksAndWmi ==
  /\ pc = "powershell"
  /\ \E readable \in SUBSET {Tasks, Reports} :
       /\ "powershell" \in Faults \/ readable = {Tasks, Reports}
       /\ found' = found \cup {[entry |-> e, state |-> machine[e]] :
                     e \in {t \in UNION readable : machine[t] # "absent"}}
       /\ moved' = moved \ UNION readable
  /\ Goto("sync")
  /\ UNCHANGED <<row, cache, rollbacks, world, listed, stranded, drifted>>

Id(e) == IF e \in Reports THEN SharedId ELSE e
Under(id, inventory) == {i \in inventory : Id(i.entry) = id}

\* The rows are written in inventory order: of several items with one
\* identifier the last one stays.
Kept(id, inventory) ==
  CHOOSE i \in Under(id, inventory) :
    \A j \in Under(id, inventory) : Rank[i.entry] <= Rank[j.entry]

\* Variant with a bug: a row that was inactive is compared like any other.
IsNewsWhenDifferent(i) == row[Id(i.entry)].item # i

\* An item is an addition or a change against the row before this inventory;
\* a row that was inactive always counts as changed.
IsNews(i) == ~row[Id(i.entry)].active \/ row[Id(i.entry)].item # i

\* sync_persistence_inventory: rows and timeline events in one transaction;
\* then the cache takes the inventory.
Sync ==
  /\ pc = "sync"
  /\ row' = [id \in Ids |->
       IF Under(id, found) # {} THEN [active |-> TRUE, item |-> Kept(id, found)]
       ELSE [row[id] EXCEPT !.active = FALSE]]
  /\ listed' = [id \in Ids |->
       IF \E i \in Under(id, found) : IsNews(i) THEN "listed"
       ELSE IF row[id].active /\ Under(id, found) = {} THEN "removed"
       ELSE listed[id]]
  /\ cache' = found
  /\ drifted' = moved
  /\ IF job.kind = "disable" THEN Goto("act") ELSE Finish
  /\ found' = {}
  /\ UNCHANGED <<rollbacks, world, stranded, moved>>

\* The transaction fails: the request ends, nothing is cached.
SyncFails ==
  /\ pc = "sync" /\ "db" \in Faults
  /\ Finish
  /\ found' = {}
  /\ UNCHANGED <<row, cache, rollbacks, world, notes>>

-----------------------------------------------------------------------------
(***************************************************************************)
(* DisablePersistence                                                      *)
(***************************************************************************)
Off(e) == IF e \in Services THEN "disabled" ELSE "Disabled"

\* persistence_item and the two conditions on it.
Disablable(id) == row[id].active /\ row[id].item.entry \in Reviewable

RejectDisable ==
  /\ pc = "act" /\ job.kind = "disable"
  /\ Disablable(job.id) =>
       machine[job.id] = "absent" \/ Faults \cap {"db", "tool"} # {}
  /\ Finish
  /\ UNCHANGED <<row, cache, rollbacks, found, world, notes>>

\* sc.exe or schtasks.exe turns the entry off, whatever its state is by now.
TurnOff ==
  /\ pc = "act" /\ job.kind = "disable"
  /\ Disablable(job.id) /\ machine[job.id] # "absent"
  /\ Len(rollbacks) < MaxRollbacks
  /\ machine' = [machine EXCEPT ![job.id] = Off(job.id)]
  /\ original' = [original EXCEPT ![job.id] =
                    IF job.id \in ours THEN @ ELSE machine[job.id]]
  /\ ours' = ours \cup {job.id}
  /\ Goto("disabled")
  /\ UNCHANGED <<row, cache, rollbacks, found, upsets, notes>>

\* record_response_rollback with the state the table has; the cached
\* inventory is dropped only now.
RecordDisable ==
  /\ pc = "disabled"
  /\ rollbacks' = Append(rollbacks,
       [entry |-> job.id, previous |-> row[job.id].item.state,
        restored |-> FALSE, told |-> FALSE,
        was |-> original[job.id], fresh |-> job.id \notin drifted])
  /\ cache' = NoInventory
  /\ Goto("audit")
  /\ UNCHANGED <<row, found, world, notes>>

\* The insert fails: the client is told of an error, the entry stays off.
RecordDisableFails ==
  /\ pc = "disabled" /\ "db" \in Faults
  /\ stranded' = stranded \cup ({job.id} \cap ours)
  /\ Finish
  /\ UNCHANGED <<row, cache, rollbacks, found, world, listed, moved, drifted>>

\* execute_response: the audit event carries the rollback identifier and the
\* answer is sent only after it; both are all a client ever learns of it.
AuditDisable ==
  /\ pc = "audit"
  /\ rollbacks' = [rollbacks EXCEPT ![Len(rollbacks)].told = TRUE]
  /\ stranded' = stranded \ {job.id}
  /\ Finish
  /\ UNCHANGED <<row, cache, found, world, listed, moved, drifted>>

AuditFails ==
  /\ pc = "audit" /\ "db" \in Faults
  /\ stranded' = stranded \cup ({job.id} \cap ours)
  /\ Finish
  /\ UNCHANGED <<row, cache, rollbacks, found, world, listed, moved, drifted>>

-----------------------------------------------------------------------------
(***************************************************************************)
(* RestorePersistence                                                      *)
(***************************************************************************)

\* Variant with a bug: the recorded state is not looked at.
RestoredManual(e, previous) == IF e \in Tasks THEN "Ready" ELSE "manual"

\* set_persistence_enabled: a service gets a start type by its name, manual
\* for every state that has none; a task is only switched on.
Restored(e, previous) ==
  IF e \in Tasks THEN "Ready"
  ELSE IF previous \in {"boot", "system", "automatic"} THEN previous
  ELSE "manual"

BeginRestore(r) ==
  /\ pc = "idle"
  /\ rollbacks[r].told /\ ~rollbacks[r].restored
  /\ job' = [kind |-> "restore", record |-> r] /\ pc' = "act"
  /\ UNCHANGED <<row, cache, rollbacks, found, world, notes>>

TurnOn ==
  /\ pc = "act" /\ job.kind = "restore"
  /\ LET r == rollbacks[job.record]
     IN  /\ machine[r.entry] # "absent"
         /\ machine' = [machine EXCEPT ![r.entry] = Restored(r.entry, r.previous)]
         /\ ours' = ours \ {r.entry}
         /\ stranded' = stranded \ {r.entry}
  /\ Goto("enabled")
  /\ UNCHANGED <<row, cache, rollbacks, found, original, upsets,
                 listed, moved, drifted>>

\* Variant with a bug: the record is closed whatever the tool says.
TurnOnFailsClosing ==
  /\ pc = "act" /\ job.kind = "restore"
  /\ machine[rollbacks[job.record].entry] = "absent" \/ "tool" \in Faults
  /\ rollbacks' = [rollbacks EXCEPT ![job.record].restored = TRUE]
  /\ Finish
  /\ UNCHANGED <<row, cache, found, world, notes>>

\* The tool reports an error: the record stays open.
TurnOnFails ==
  /\ pc = "act" /\ job.kind = "restore"
  /\ machine[rollbacks[job.record].entry] = "absent" \/ "tool" \in Faults
  /\ Finish
  /\ UNCHANGED <<row, cache, rollbacks, found, world, notes>>

MarkRestored ==
  /\ pc = "enabled"
  /\ rollbacks' = [rollbacks EXCEPT ![job.record].restored = TRUE]
  /\ cache' = NoInventory
  /\ Finish
  /\ UNCHANGED <<row, found, world, notes>>

\* The update fails: the record stays open, and a cached inventory that knows
\* nothing of the restore stays in use.
MarkFails ==
  /\ pc = "enabled" /\ "db" \in Faults
  /\ drifted' = drifted \cup {rollbacks[job.record].entry}
  /\ Finish
  /\ UNCHANGED <<row, cache, rollbacks, found, world, listed, stranded, moved>>

-----------------------------------------------------------------------------
(***************************************************************************)
(* The world around the service                                            *)
(***************************************************************************)

\* An administrator, an installer or Windows itself changes an entry.
Change(e) ==
  /\ upsets < MaxUpsets
  /\ \E s \in States(e) \ {machine[e]} :
       machine' = [machine EXCEPT ![e] = s]
  /\ ours' = ours \ {e}
  /\ stranded' = stranded \ {e}
  /\ moved' = moved \cup ({e} \ Reports)
  /\ drifted' = drifted \cup ({e} \ Reports)
  /\ upsets' = upsets + 1
  /\ UNCHANGED <<row, cache, rollbacks, job, pc, found, listed, original>>

\* The process dies: the request, the collection and the cache are gone.
Crash ==
  /\ upsets < MaxUpsets
  /\ upsets' = upsets + 1
  /\ stranded' = IF pc \in {"disabled", "audit"}
                 THEN stranded \cup ({job.id} \cap ours) ELSE stranded
  /\ cache' = NoInventory /\ found' = {}
  /\ Finish
  /\ UNCHANGED <<machine, row, rollbacks, listed, ours, original,
                 moved, drifted>>

Inventory == CollectServices \/ CollectTasksAndWmi \/ Sync \/ SyncFails
Disabling == RejectDisable \/ TurnOff \/ RecordDisable \/ RecordDisableFails
             \/ AuditDisable \/ AuditFails
Restoring == TurnOn \/ TurnOnFails \/ MarkRestored \/ MarkFails

Next ==
  \/ BeginRefresh
  \/ \E id \in Ids : BeginDisable(id)
  \/ \E r \in DOMAIN rollbacks : BeginRestore(r)
  \/ Inventory \/ Disabling \/ Restoring
  \/ \E e \in Entries : Change(e)
  \/ Crash

Spec == Init /\ [][Next]_vars

-----------------------------------------------------------------------------
(***************************************************************************)
(* Properties                                                              *)
(***************************************************************************)
Open(e) == {r \in DOMAIN rollbacks :
              rollbacks[r].entry = e /\ rollbacks[r].told /\ ~rollbacks[r].restored}

(* Reversible disable (main.rs, DisablePersistence): an entry OpenGuard has *)
(* turned off and nobody touched since can be turned on again by a record  *)
(* the client knows, unless the response that turned it off ended in an    *)
(* error or with the process.                                              *)
DisabledIsRestorable ==
  \A e \in ours : e \in stranded \/ Open(e) # {}
                  \/ (pc \in {"disabled", "audit"} /\ job.id = e)

(* The rollback is exact (main.rs, RestorePersistence): when the table was *)
(* up to date at the disable and nobody touched the entry since, turning   *)
(* it on gives it back the enabled state it had before OpenGuard's first   *)
(* disable, across repeated disables, failed records and crashes.          *)
RestoreGivesBack ==
  [][TurnOn =>
       LET r == rollbacks[job.record]
       IN  r.fresh /\ r.entry \in ours /\ r.was # Off(r.entry)
             => machine'[r.entry] = r.was]_vars

(* The timeline agrees with the table (storage, sync_persistence_inventory):*)
(* the last event about an identifier says it is there exactly when its    *)
(* row is active, however often sources fail and entries come back.        *)
TimelineMatchesTable ==
  \A id \in Ids : row[id].active <=> listed[id] = "listed"

(* What the client was shown is what a response looks up (main.rs,         *)
(* persistence_inventory): a cached inventory has an item under exactly    *)
(* the identifiers whose rows are active, and each active row is one of    *)
(* its items.                                                              *)
CachedIsListed ==
  cache # NoInventory =>
    \A id \in Ids : /\ row[id].active <=> Under(id, cache) # {}
                    /\ row[id].active => row[id].item \in cache

(* The desktop application reports an error of a disable request as        *)
(* "Disable failed safely"; the entry would then not be left disabled.     *)
DisableFailsSafely == stranded = {}
=============================================================================
